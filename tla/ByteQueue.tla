----------------------------- MODULE ByteQueue -----------------------------
(***************************************************************************)
(* What buffer.h promises its callers: a queue of bytes of fixed capacity  *)
(* with a second, private reading position.  "seen" is how far into the    *)
(* queue the last peek got; it is Stale once bytes behind it have been     *)
(* read, and peeking has no meaning until it is reset.                     *)
(***************************************************************************)
EXTENDS Integers, Sequences

CONSTANTS
    Byte,       \* the bytes
    Capacity    \* most bytes the queue holds

VARIABLES
    queue,      \* the bytes written and not read yet
    seen,       \* bytes of the queue already peeked, or Stale
    ret,        \* what the last call returned
    got         \* the bytes the last call handed out

queueVars == <<queue, seen, ret, got>>

Stale == -1

Lesser(a, b) == IF a < b THEN a ELSE b
Take(s, n) == SubSeq(s, 1, n)
Drop(s, n) == SubSeq(s, n + 1, Len(s))

QueueInit == queue = <<>> /\ seen = 0 /\ ret = 0 /\ got = <<>>

\* what does not fit is not written
Put(bytes) ==
    LET n == Lesser(Len(bytes), Capacity - Len(queue))
    IN  /\ queue' = queue \o Take(bytes, n)
        /\ ret' = n
        /\ got' = <<>>
        /\ UNCHANGED seen

Get(size) ==
    LET n == Lesser(Len(queue), size)
    IN  /\ got' = Take(queue, n)
        /\ ret' = n
        /\ queue' = Drop(queue, n)
        /\ seen' = IF seen >= n THEN seen - n ELSE Stale

\* the next size bytes, left in the queue
Look(size) ==
    LET n == Lesser(Len(queue), size)
    IN  /\ seen = 0
        /\ got' = Take(queue, n)
        /\ ret' = n
        /\ seen' = n
        /\ UNCHANGED queue

\* the bytes up to the next stop byte, if there is one among the next size
LookUntil(stop, size) ==
    LET rest == Drop(queue, seen)
        ends == {i \in 1 .. Len(rest) : rest[i] = stop}
    IN  /\ seen # Stale
        /\ \/ \E i \in ends :
                /\ i <= size
                /\ \A j \in ends : i <= j
                /\ got' = Take(rest, i) /\ ret' = i /\ seen' = seen + i
           \/ /\ \A i \in ends : i > size
              /\ got' = <<>>
              /\ ret' = IF Len(rest) > size THEN -1 ELSE 0
              /\ UNCHANGED seen
        /\ UNCHANGED queue

\* what was peeked is taken
Skip ==
    /\ seen # Stale
    /\ queue' = Drop(queue, seen)
    /\ seen' = 0 /\ ret' = 0 /\ got' = <<>>

Unsee == seen' = 0 /\ ret' = 0 /\ got' = <<>> /\ UNCHANGED queue

Clear == queue' = <<>> /\ seen' = 0 /\ ret' = 0 /\ got' = <<>>

QueueNext ==
    \/ \E n \in 0 .. Capacity + 1 : \E bytes \in [1 .. n -> Byte] : Put(bytes)
    \/ \E n \in 0 .. Capacity + 1 :
          Get(n) \/ Look(n) \/ \E stop \in Byte : LookUntil(stop, n)
    \/ Skip \/ Unsee \/ Clear

QueueSpec == QueueInit /\ [][QueueNext]_queueVars
=============================================================================
