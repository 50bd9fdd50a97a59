------------------------------- MODULE Buffer -------------------------------
(***************************************************************************)
(* buffer.c: the ring buffer all bytes of the proxy pass through.  The     *)
(* loops over single bytes are written in closed form.  The callers reset  *)
(* peek_line before they peek a buffer they have read from; buffer.c does  *)
(* not check it, so the guard on "fresh" states it.                        *)
(***************************************************************************)
EXTENDS Integers, Sequences

CONSTANTS
    BufferSize,     \* BUFFER_SIZE, 8000
    Byte,           \* the bytes
    Newline, Null   \* the bytes buffer_peek_line and _until_null stop at

ASSUME BufferAssumption ==
    /\ BufferSize \in Nat /\ BufferSize >= 2
    /\ Newline \in Byte /\ Null \in Byte

VARIABLES
    data, read, write, peek,    \* the fields; peek is peek_line
    fresh,                      \* history: read has not overtaken peek
    ret, got                    \* what the last call returned and copied out

fields == <<data, read, write, peek>>
vars == <<data, read, write, peek, fresh, ret, got>>

Slots == 0 .. BufferSize - 1

Lesser(a, b) == IF a < b THEN a ELSE b

\* Mutant of After: wraps one slot late
AfterLate(a, n) == IF a + n > BufferSize THEN a + n - BufferSize ELSE a + n

\* n positions after slot a, and the way from slot a to slot b
After(a, n) == IF a + n >= BufferSize THEN a + n - BufferSize ELSE a + n
Ahead(a, b) == IF b >= a THEN b - a ELSE BufferSize + b - a

buffer_count == Ahead(read, write)
\* Mutant of buffer_space: no slot is kept free
buffer_spaceAll == BufferSize - buffer_count
buffer_space == BufferSize - buffer_count - 1

\* the n bytes from slot a on
Copied(a, n) == [i \in 1 .. n |-> data[After(a, i - 1)]]

buffer_write_data(bytes) ==
    LET n == Lesser(Len(bytes), buffer_space)
    IN  /\ data' = [s \in Slots |-> IF Ahead(write, s) < n THEN bytes[Ahead(write, s) + 1]
                                                           ELSE data[s]]
        /\ write' = After(write, n)
        /\ ret' = n /\ got' = <<>>
        /\ UNCHANGED <<read, peek, fresh>>

buffer_read_data(size) ==
    LET n == Lesser(buffer_count, size)
    IN  /\ got' = Copied(read, n)
        /\ read' = After(read, n)
        /\ ret' = n
        /\ fresh' = (fresh /\ n <= Ahead(read, peek))
        /\ UNCHANGED <<data, write, peek>>

\* copies from peek_line as many bytes as there are from read on
buffer_peek_data(size) ==
    LET n == Lesser(buffer_count, size)
    IN  /\ fresh /\ peek = read
        /\ got' = Copied(peek, n)
        /\ peek' = After(peek, n)
        /\ ret' = n
        /\ UNCHANGED <<data, read, write, fresh>>

\* buffer_peek_line and buffer_peek_until_null, without the zero byte they
\* write behind the line (for a line of size bytes behind the end of dest_buff)
Peek(stop, size) ==
    LET unseen == Ahead(peek, write)
        found(i) == /\ data[After(peek, i - 1)] = stop
                    /\ \A j \in 1 .. i - 1 : data[After(peek, j - 1)] # stop
    IN  /\ fresh
        /\ \/ \E i \in 1 .. Lesser(unseen, size) :
                /\ found(i)
                /\ got' = Copied(peek, i) /\ ret' = i
                /\ peek' = After(peek, i)
           \/ /\ \A i \in 1 .. Lesser(unseen, size) : ~found(i)
              /\ got' = <<>>
              /\ ret' = IF unseen > size THEN -1 ELSE 0
              /\ UNCHANGED peek
        /\ UNCHANGED <<data, read, write, fresh>>

buffer_peek_line(size) == Peek(Newline, size)
buffer_peek_until_null(size) == Peek(Null, size)

buffer_advance_read_to_peek ==
    /\ fresh
    /\ read' = peek
    /\ ret' = 0 /\ got' = <<>>
    /\ UNCHANGED <<data, write, peek, fresh>>

buffer_reset_peek_line ==
    /\ peek' = read
    /\ fresh' = TRUE
    /\ ret' = 0 /\ got' = <<>>
    /\ UNCHANGED <<data, read, write>>

\* Mutant of buffer_clean: peek_line is left where it was
buffer_cleanKeepsPeek ==
    /\ read' = 0 /\ write' = 0
    /\ fresh' = TRUE
    /\ ret' = 0 /\ got' = <<>>
    /\ UNCHANGED <<data, peek>>

buffer_clean ==
    /\ read' = 0 /\ write' = 0 /\ peek' = 0
    /\ fresh' = TRUE
    /\ ret' = 0 /\ got' = <<>>
    /\ UNCHANGED data

\* new_buffer; the data is uninitialised
Init ==
    /\ data \in [Slots -> Byte]
    /\ read = 0 /\ write = 0 /\ peek = 0
    /\ fresh = TRUE /\ ret = 0 /\ got = <<>>

Next ==
    \/ \E n \in 0 .. BufferSize : \E bytes \in [1 .. n -> Byte] : buffer_write_data(bytes)
    \/ \E size \in 0 .. BufferSize :
          \/ buffer_read_data(size)
          \/ buffer_peek_data(size)
          \/ buffer_peek_line(size)
          \/ buffer_peek_until_null(size)
    \/ buffer_advance_read_to_peek
    \/ buffer_reset_peek_line
    \/ buffer_clean

Spec == Init /\ [][Next]_vars

-----------------------------------------------------------------------------
\* The three positions stay inside the array.
TypeOK ==
    /\ data \in [Slots -> Byte]
    /\ read \in Slots /\ write \in Slots /\ peek \in Slots
    /\ fresh \in BOOLEAN

\* While peek_line is fresh it lies between the read and the write position,
\* however often each of them has wrapped.
PeekInside == fresh => Ahead(read, peek) <= buffer_count

\* The ring implements the queue: bytes come out in the order they went in,
\* none is lost but those buffer_write_data did not take, and peeking shows
\* exactly what reading will return.
Queue == INSTANCE ByteQueue WITH
    Capacity <- BufferSize - 1,
    queue <- Copied(read, buffer_count),
    seen <- IF fresh THEN Ahead(read, peek) ELSE -1

ImplementsQueue == Queue!QueueSpec
=============================================================================
