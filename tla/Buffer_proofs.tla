---------------------------- MODULE Buffer_proofs ----------------------------
(***************************************************************************)
(* The ring buffer keeps its positions in order for every size of the      *)
(* array and every set of bytes.                                           *)
(***************************************************************************)
EXTENDS Buffer, SequenceTheorems, WellFoundedInduction, TLAPS

-----------------------------------------------------------------------------
(* Arithmetic of the ring. *)

\* Going forward stays in the array.
LEMMA AfterType ==
    ASSUME NEW a \in Slots, NEW n \in 0 .. BufferSize
    PROVE  After(a, n) \in Slots
BY BufferAssumption DEF After, Slots

\* A distance is smaller than the array.
LEMMA AheadType ==
    ASSUME NEW a \in Slots, NEW b \in Slots
    PROVE  Ahead(a, b) \in 0 .. BufferSize - 1
BY BufferAssumption DEF Ahead, Slots

\* Going forward from the far end lengthens the way, as long as it fits the ring.
LEMMA AheadGrows ==
    ASSUME NEW a \in Slots, NEW b \in Slots, NEW n \in Nat, Ahead(a, b) + n < BufferSize
    PROVE  Ahead(a, After(b, n)) = Ahead(a, b) + n
BY BufferAssumption DEF Ahead, After, Slots

\* Going forward from the near end shortens it.
LEMMA AheadShrinks ==
    ASSUME NEW a \in Slots, NEW b \in Slots, NEW n \in Nat, n <= Ahead(a, b)
    PROVE  Ahead(After(a, n), b) = Ahead(a, b) - n
BY BufferAssumption DEF Ahead, After, Slots

\* A slot that is not past the end splits the way to the end.
LEMMA AheadSplits ==
    ASSUME NEW a \in Slots, NEW b \in Slots, NEW c \in Slots, Ahead(a, b) <= Ahead(a, c)
    PROVE  Ahead(a, c) = Ahead(a, b) + Ahead(b, c)
BY BufferAssumption DEF Ahead, Slots

\* The smaller of two numbers.
LEMMA LesserType ==
    ASSUME NEW a \in Nat, NEW b \in Nat
    PROVE  Lesser(a, b) \in Nat /\ Lesser(a, b) <= a /\ Lesser(a, b) <= b
BY DEF Lesser

-----------------------------------------------------------------------------
(* The operations. *)

Inv == TypeOK /\ PeekInside

\* The numbers an operation computes with.
LEMMA Counts ==
    ASSUME TypeOK
    PROVE  /\ buffer_count \in 0 .. BufferSize - 1
           /\ buffer_space \in 0 .. BufferSize - 1
           /\ Ahead(read, peek) \in 0 .. BufferSize - 1
           /\ Ahead(peek, write) \in 0 .. BufferSize - 1
           /\ BufferSize \in Nat
<1>1. /\ Ahead(read, write) \in 0 .. BufferSize - 1
      /\ Ahead(read, peek) \in 0 .. BufferSize - 1
      /\ Ahead(peek, write) \in 0 .. BufferSize - 1
    BY AheadType DEF TypeOK
<1> QED
    BY <1>1, BufferAssumption DEF buffer_count, buffer_space

\* Writing moves the write position away from the other two.
LEMMA WriteKeeps ==
    ASSUME Inv, NEW len \in 0 .. BufferSize, NEW bytes \in [1 .. len -> Byte],
           buffer_write_data(bytes)
    PROVE  Inv'
<1> DEFINE n == Lesser(Len(bytes), buffer_space)
<1>1. bytes \in Seq(Byte) /\ Len(bytes) = len
    <2>1. len \in Nat
        BY BufferAssumption
    <2> QED BY <2>1
<1>2. n \in Nat /\ n <= len /\ n <= buffer_space
    BY <1>1, Counts, LesserType DEF Inv
<1> HIDE DEF n
<1>3. /\ data' = [s \in Slots |-> IF Ahead(write, s) < n THEN bytes[Ahead(write, s) + 1]
                                                         ELSE data[s]]
      /\ write' = After(write, n) /\ UNCHANGED <<read, peek, fresh>>
    BY DEF buffer_write_data, n
<1>4. ASSUME NEW s \in Slots PROVE data'[s] \in Byte
    <2>1. Ahead(write, s) \in Nat
        BY AheadType, BufferAssumption DEF Inv, TypeOK
    <2>2. CASE Ahead(write, s) < n
        <3>1. Ahead(write, s) + 1 \in 1 .. len
            BY <2>1, <2>2, <1>2
        <3> QED BY <3>1, <2>2, <1>3
    <2>3. CASE ~(Ahead(write, s) < n)
        BY <2>3, <1>3 DEF Inv, TypeOK
    <2> QED BY <2>2, <2>3
<1>5. write' \in Slots
    <2>1. n \in 0 .. BufferSize
        BY <1>2, BufferAssumption
    <2> QED BY <1>3, <2>1, AfterType DEF Inv, TypeOK
<1>6. TypeOK'
    BY <1>3, <1>4, <1>5 DEF Inv, TypeOK
<1>7. buffer_count' = buffer_count + n
    <2>1. Ahead(read, write) + n < BufferSize
        BY <1>2, Counts DEF Inv, buffer_space, buffer_count
    <2> QED BY <1>2, <1>3, <2>1, AheadGrows DEF Inv, TypeOK, buffer_count
<1>8. PeekInside'
    <2>1. buffer_count \in Nat /\ Ahead(read, peek) \in Nat
        BY Counts DEF Inv
    <2> QED BY <1>2, <1>3, <1>7, <2>1 DEF Inv, PeekInside
<1> QED
    BY <1>6, <1>8 DEF Inv

\* Reading moves the read position towards the other two, or past the peek
\* position, which is then no longer fresh.
LEMMA ReadKeeps ==
    ASSUME Inv, NEW size \in 0 .. BufferSize, buffer_read_data(size)
    PROVE  Inv'
<1> DEFINE n == Lesser(buffer_count, size)
<1>1. n \in Nat /\ n <= buffer_count /\ n <= size
    BY Counts, LesserType DEF Inv
<1> HIDE DEF n
<1>2. /\ read' = After(read, n) /\ UNCHANGED <<data, write, peek>>
      /\ fresh' = (fresh /\ n <= Ahead(read, peek))
    BY DEF buffer_read_data, n
<1>3. TypeOK'
    <2>1. n \in 0 .. BufferSize
        BY <1>1, BufferAssumption
    <2>2. read' \in Slots
        BY <1>2, <2>1, AfterType DEF Inv, TypeOK
    <2>3. fresh' \in BOOLEAN
        BY <1>2
    <2> QED BY <1>2, <2>2, <2>3 DEF Inv, TypeOK
<1>4. ASSUME fresh' PROVE Ahead(read, peek)' <= buffer_count'
    <2>1. fresh /\ n <= Ahead(read, peek)
        BY <1>2, <1>4
    <2>2. Ahead(read, peek) <= buffer_count
        BY <2>1 DEF Inv, PeekInside
    <2>3. Ahead(read, peek)' = Ahead(read, peek) - n
        BY <1>1, <1>2, <2>1, AheadShrinks DEF Inv, TypeOK
    <2>4. buffer_count' = buffer_count - n
        BY <1>1, <1>2, AheadShrinks DEF Inv, TypeOK, buffer_count
    <2>5. Ahead(read, peek) \in Nat /\ buffer_count \in Nat
        BY Counts DEF Inv
    <2> QED BY <1>1, <2>2, <2>3, <2>4, <2>5
<1> QED
    BY <1>3, <1>4 DEF Inv, PeekInside

\* A fresh peek position that moves on by no more than there is ahead of it
\* stays before the write position.
LEMMA PeekMoves ==
    ASSUME Inv, fresh, NEW n \in Nat, n <= Ahead(peek, write),
           peek' = After(peek, n), UNCHANGED <<data, read, write, fresh>>
    PROVE  Inv'
<1>1. n \in 0 .. BufferSize
    BY Counts DEF Inv
<1>2. TypeOK'
    BY <1>1, AfterType DEF Inv, TypeOK
<1>3. Ahead(read, write) = Ahead(read, peek) + Ahead(peek, write)
    BY AheadSplits DEF Inv, TypeOK, PeekInside, buffer_count
<1>4. Ahead(read, peek) + n < BufferSize
    BY <1>3, Counts DEF Inv, buffer_count
<1>5. Ahead(read, After(peek, n)) = Ahead(read, peek) + n
    BY <1>4, AheadGrows DEF Inv, TypeOK
<1>6. PeekInside'
    BY <1>3, <1>5, Counts DEF Inv, PeekInside, buffer_count
<1> QED
    BY <1>2, <1>6 DEF Inv

\* buffer_peek_data
LEMMA PeekDataKeeps ==
    ASSUME Inv, NEW size \in 0 .. BufferSize, buffer_peek_data(size)
    PROVE  Inv'
<1> DEFINE n == Lesser(buffer_count, size)
<1>1. n \in Nat /\ n <= buffer_count
    BY Counts, LesserType DEF Inv
<1> HIDE DEF n
<1>2. fresh /\ peek = read /\ peek' = After(peek, n) /\ UNCHANGED <<data, read, write, fresh>>
    BY DEF buffer_peek_data, n
<1>3. n <= Ahead(peek, write)
    BY <1>1, <1>2 DEF buffer_count
<1> QED
    BY <1>1, <1>2, <1>3, PeekMoves

\* buffer_peek_line and buffer_peek_until_null
LEMMA PeekKeeps ==
    ASSUME Inv, NEW stop, NEW size \in 0 .. BufferSize, Peek(stop, size)
    PROVE  Inv'
<1>1. fresh /\ UNCHANGED <<data, read, write, fresh>>
    BY DEF Peek
<1>2. CASE UNCHANGED peek
    BY <1>1, <1>2 DEF Inv, TypeOK, PeekInside, buffer_count
<1>3. CASE \E i \in 1 .. Lesser(Ahead(peek, write), size) : peek' = After(peek, i)
    <2>1. PICK i \in 1 .. Lesser(Ahead(peek, write), size) : peek' = After(peek, i)
        BY <1>3
    <2>2. Lesser(Ahead(peek, write), size) \in Nat
          /\ Lesser(Ahead(peek, write), size) <= Ahead(peek, write)
        BY Counts, LesserType DEF Inv
    <2>3. i \in Nat /\ i <= Ahead(peek, write)
        BY <2>2, Counts DEF Inv
    <2> QED BY <1>1, <2>1, <2>3, PeekMoves
<1> QED
    BY <1>2, <1>3 DEF Peek

\* A position is no distance from itself.
LEMMA AheadSelf ==
    ASSUME NEW a \in Slots
    PROVE  Ahead(a, a) = 0
BY BufferAssumption DEF Ahead, Slots

\* The operations that only set positions to each other or to 0.
LEMMA ResetsKeep ==
    ASSUME Inv, buffer_advance_read_to_peek \/ buffer_reset_peek_line \/ buffer_clean
    PROVE  Inv'
<1>1. 0 \in Slots
    BY BufferAssumption DEF Slots
<1>2. TypeOK'
    BY <1>1 DEF Inv, TypeOK, buffer_advance_read_to_peek, buffer_reset_peek_line, buffer_clean
<1>3. read' = peek' /\ read' \in Slots /\ write' \in Slots
    BY <1>2 DEF TypeOK, buffer_advance_read_to_peek, buffer_reset_peek_line, buffer_clean
<1>4. Ahead(read, peek)' = 0 /\ buffer_count' \in Nat
    BY <1>3, AheadSelf, AheadType, BufferAssumption DEF buffer_count
<1>5. PeekInside'
    BY <1>4 DEF PeekInside
<1> QED
    BY <1>2, <1>5 DEF Inv

\* Every operation keeps the positions in order.
LEMMA InvStep == Inv /\ [Next]_vars => Inv'
<1> SUFFICES ASSUME Inv, [Next]_vars PROVE Inv'
    OBVIOUS
<1>1. CASE UNCHANGED vars
    BY <1>1 DEF vars, Inv, TypeOK, PeekInside, buffer_count
<1>2. ASSUME NEW n \in 0 .. BufferSize, NEW bytes \in [1 .. n -> Byte], buffer_write_data(bytes)
      PROVE  Inv'
    BY <1>2, WriteKeeps
<1>3. ASSUME NEW size \in 0 .. BufferSize, buffer_read_data(size) PROVE Inv'
    BY <1>3, ReadKeeps
<1>4. ASSUME NEW size \in 0 .. BufferSize, buffer_peek_data(size) PROVE Inv'
    BY <1>4, PeekDataKeeps
<1>5. ASSUME NEW size \in 0 .. BufferSize,
             buffer_peek_line(size) \/ buffer_peek_until_null(size)
      PROVE  Inv'
    BY <1>5, PeekKeeps DEF buffer_peek_line, buffer_peek_until_null
<1> QED
    BY <1>1, <1>2, <1>3, <1>4, <1>5, ResetsKeep DEF Next

\* new_buffer gives an empty ring.
LEMMA InvInit == Init => Inv
<1> SUFFICES ASSUME Init PROVE Inv
    OBVIOUS
<1>1. 0 \in Slots
    BY BufferAssumption DEF Slots
<1>2. TypeOK
    BY <1>1 DEF Init, TypeOK
<1>3. Ahead(read, peek) = 0 /\ buffer_count = 0
    BY <1>1, AheadSelf DEF Init, buffer_count
<1> QED
    BY <1>2, <1>3 DEF Inv, PeekInside

\* The invariant of the ring.
THEOREM RingInvariant == Spec => []Inv
BY InvInit, InvStep, PTL DEF Spec

\* The positions never leave the array, for every size of it.
THEOREM TypeCorrect == Spec => []TypeOK
<1>1. Inv => TypeOK
    BY DEF Inv
<1> QED
    BY <1>1, RingInvariant, PTL

\* A fresh peek position is always between the read and the write position.
THEOREM PeekStaysInside == Spec => []PeekInside
<1>1. Inv => PeekInside
    BY DEF Inv
<1> QED
    BY <1>1, RingInvariant, PTL

-----------------------------------------------------------------------------
(* The ring as a sequence. *)

\* the n bytes of the array d from slot a on
Ring(d, a, n) == [i \in 1 .. n |-> d[After(a, i - 1)]]

\* It is a sequence of n bytes.
LEMMA RingIsSeq ==
    ASSUME NEW d \in [Slots -> Byte], NEW a \in Slots, NEW n \in 0 .. BufferSize
    PROVE  /\ Ring(d, a, n) \in Seq(Byte) /\ Len(Ring(d, a, n)) = n
           /\ \A i \in 1 .. n : Ring(d, a, n)[i] = d[After(a, i - 1)]
<1>1. n \in Nat
    BY BufferAssumption
<1>2. ASSUME NEW i \in 1 .. n PROVE d[After(a, i - 1)] \in Byte
    <2>1. i - 1 \in 0 .. BufferSize
        BY <1>1, BufferAssumption
    <2> QED BY <2>1, AfterType
<1>3. Ring(d, a, n) \in [1 .. n -> Byte]
    BY <1>2 DEF Ring
<1>4. Ring(d, a, n) \in Seq(Byte) /\ Len(Ring(d, a, n)) = n
    BY <1>1, <1>3
<1> QED BY <1>4 DEF Ring

\* Going forward twice.
LEMMA AfterAfter ==
    ASSUME NEW a \in Slots, NEW n \in Nat, NEW m \in Nat, n + m <= BufferSize
    PROVE  After(After(a, n), m) = After(a, n + m)
BY BufferAssumption DEF After, Slots

\* Going the way from one slot to another leads there.
LEMMA AfterAhead ==
    ASSUME NEW a \in Slots, NEW b \in Slots
    PROVE  After(a, Ahead(a, b)) = b
BY BufferAssumption DEF After, Ahead, Slots

\* The first bytes of the sequence are those of a shorter one.
LEMMA RingTake ==
    ASSUME NEW d \in [Slots -> Byte], NEW a \in Slots, NEW n \in 0 .. BufferSize,
           NEW k \in 0 .. n
    PROVE  SubSeq(Ring(d, a, n), 1, k) = Ring(d, a, k)
<1> DEFINE s == Ring(d, a, n)
           t == SubSeq(s, 1, k)
<1>1. k \in Nat /\ n \in Nat /\ k \in 0 .. BufferSize /\ k <= n
    BY BufferAssumption
<1>2. s \in Seq(Byte) /\ Len(s) = n /\ \A i \in 1 .. n : s[i] = d[After(a, i - 1)]
    BY RingIsSeq
<1> HIDE DEF s
<1>3. \A i \in 1 .. k : s[i] \in Byte
    BY <1>1, <1>2
<1>4. t \in Seq(Byte) /\ Len(t) = k /\ \A i \in 1 .. k : t[i] = s[i]
    BY <1>1, <1>3, SubSeqProperties
<1>5. /\ Ring(d, a, k) \in Seq(Byte) /\ Len(Ring(d, a, k)) = k
      /\ \A i \in 1 .. k : Ring(d, a, k)[i] = d[After(a, i - 1)]
    BY <1>1, RingIsSeq
<1> HIDE DEF t
<1>6. \A i \in 1 .. k : t[i] = Ring(d, a, k)[i]
    BY <1>1, <1>2, <1>4, <1>5
<1>7. t = Ring(d, a, k)
    BY <1>4, <1>5, <1>6, SeqEqual
<1> QED BY <1>7 DEF t, s

\* The bytes behind them are those of a sequence that starts further on.
LEMMA RingDrop ==
    ASSUME NEW d \in [Slots -> Byte], NEW a \in Slots, NEW n \in 0 .. BufferSize,
           NEW k \in 0 .. n
    PROVE  SubSeq(Ring(d, a, n), k + 1, n) = Ring(d, After(a, k), n - k)
<1> DEFINE s == Ring(d, a, n)
           t == SubSeq(s, k + 1, n)
           b == After(a, k)
           m == n - k
<1>1. k \in Nat /\ n \in Nat /\ k \in 0 .. BufferSize /\ k <= n
      /\ m \in 0 .. BufferSize /\ m \in Nat /\ n <= BufferSize
    BY BufferAssumption
<1>2. s \in Seq(Byte) /\ Len(s) = n /\ \A i \in 1 .. n : s[i] = d[After(a, i - 1)]
    BY RingIsSeq
<1>3. b \in Slots
    BY <1>1, AfterType
<1> HIDE DEF s
<1>4. \A i \in k + 1 .. n : s[i] \in Byte
    BY <1>1, <1>2
<1>5. t \in Seq(Byte) /\ Len(t) = m /\ \A i \in 1 .. m : t[i] = s[k + i]
    <2>1. /\ t \in Seq(Byte)
          /\ Len(t) = IF k + 1 <= n THEN n - (k + 1) + 1 ELSE 0
          /\ \A i \in 1 .. n - (k + 1) + 1 : t[i] = s[k + 1 + i - 1]
        BY <1>1, <1>4, SubSeqProperties
    <2> HIDE DEF t
    <2>2. Len(t) = m
        BY <1>1, <2>1
    <2>3. ASSUME NEW i \in 1 .. m PROVE t[i] = s[k + i]
        <3>1. i \in 1 .. n - (k + 1) + 1 /\ k + 1 + i - 1 = k + i
            BY <1>1
        <3> QED BY <2>1, <3>1
    <2> QED BY <2>1, <2>2, <2>3
<1> HIDE DEF t
<1>6. /\ Ring(d, b, m) \in Seq(Byte) /\ Len(Ring(d, b, m)) = m
      /\ \A i \in 1 .. m : Ring(d, b, m)[i] = d[After(b, i - 1)]
    BY <1>1, <1>3, RingIsSeq
<1>7. ASSUME NEW i \in 1 .. m PROVE t[i] = Ring(d, b, m)[i]
    <2> DEFINE j == i - 1
    <2>1. i \in Nat /\ i >= 1 /\ i <= m
        BY <1>1
    <2>2. j \in Nat /\ k + j \in Nat /\ k + j <= BufferSize
        BY <1>1, <2>1, BufferAssumption
    <2>3. k + i \in 1 .. n /\ k + i - 1 = k + j
        BY <1>1, <2>1
    <2>4. s[k + i] = d[After(a, k + j)]
        BY <1>2, <2>3
    <2>5. Ring(d, b, m)[i] = d[After(b, j)]
        BY <1>6
    <2> HIDE DEF j
    <2>6. After(b, j) = After(a, k + j)
        BY <1>1, <2>2, AfterAfter
    <2> QED BY <1>5, <2>4, <2>5, <2>6
<1>8. t = Ring(d, b, m)
    BY <1>5, <1>6, <1>7, SeqEqual
<1> QED BY <1>8 DEF t, s

\* e is d with the first m bytes stored from slot b on.
Stored(d, e, b, bytes, m) ==
    e = [s \in Slots |-> IF Ahead(b, s) < m THEN bytes[Ahead(b, s) + 1] ELSE d[s]]

\* What is stored behind the far end is appended to the sequence.
LEMMA RingPut ==
    ASSUME NEW d \in [Slots -> Byte], NEW e \in [Slots -> Byte],
           NEW a \in Slots, NEW b \in Slots,
           NEW bytes \in Seq(Byte), NEW m \in 0 .. Len(bytes),
           Ahead(a, b) + m < BufferSize, Stored(d, e, b, bytes, m)
    PROVE  Ring(e, a, Ahead(a, b) + m) = Ring(d, a, Ahead(a, b)) \o SubSeq(bytes, 1, m)
<1> USE DEF Stored
<1> DEFINE n == Ahead(a, b)
           p == SubSeq(bytes, 1, m)
           q == Ring(d, a, n)
           r == Ring(e, a, n + m)
<1>1. /\ n \in Nat /\ n \in 0 .. BufferSize /\ m \in Nat /\ BufferSize \in Nat
      /\ n + m \in 0 .. BufferSize /\ Len(bytes) \in Nat /\ m <= Len(bytes)
    BY AheadType, LenProperties, BufferAssumption
<1>2. p \in Seq(Byte) /\ Len(p) = m /\ \A i \in 1 .. m : p[i] = bytes[i]
    <2>1. \A i \in 1 .. m : bytes[i] \in Byte
        BY <1>1, ElementOfSeq
    <2> QED BY <1>1, <2>1, SubSeqProperties
<1>3. q \in Seq(Byte) /\ Len(q) = n /\ \A i \in 1 .. n : q[i] = d[After(a, i - 1)]
    BY <1>1, RingIsSeq
<1>4. /\ r \in Seq(Byte) /\ Len(r) = n + m
      /\ \A i \in 1 .. n + m : r[i] = e[After(a, i - 1)]
    BY <1>1, RingIsSeq
<1> HIDE DEF p, q, r
<1>5. /\ q \o p \in Seq(Byte) /\ Len(q \o p) = n + m
      /\ \A i \in 1 .. n + m : (q \o p)[i] = IF i <= n THEN q[i] ELSE p[i - n]
    <2> HIDE DEF n
    <2>1. /\ q \o p \in Seq(Byte) /\ Len(q \o p) = Len(q) + Len(p)
          /\ \A i \in 1 .. Len(q) + Len(p) : (q \o p)[i] =
                IF i <= Len(q) THEN q[i] ELSE p[i - Len(q)]
        BY <1>2, <1>3, ConcatProperties, Zenon
    <2> QED BY <1>2, <1>3, <2>1
<1>6. ASSUME NEW i \in 1 .. n + m PROVE r[i] = (q \o p)[i]
    <2> DEFINE s == After(a, i - 1)
    <2>1. i \in Nat /\ i - 1 \in 0 .. BufferSize /\ i - 1 < BufferSize
        BY <1>1
    <2>2. s \in Slots
        BY <2>1, AfterType
    <2>3. CASE i <= n
        <3>1. Ahead(b, s) >= m
            BY <1>1, <2>1, <2>3, BufferAssumption DEF Ahead, After, Slots
        <3>2. Ahead(b, s) \in Int
            BY <2>2, AheadType
        <3>3. ~(Ahead(b, s) < m) /\ i \in 1 .. n
            BY <1>1, <2>1, <2>3, <3>1, <3>2
        <3>4. e[s] = d[s]
            BY <2>2, <3>3
        <3> QED BY <1>3, <1>4, <1>5, <2>3, <3>3, <3>4
    <2>4. CASE ~(i <= n)
        <3>1. Ahead(b, s) = i - 1 - n
            BY <1>1, <2>1, <2>4, BufferAssumption DEF Ahead, After, Slots
        <3>2. i - n \in 1 .. m /\ Ahead(b, s) < m /\ Ahead(b, s) + 1 = i - n
            BY <1>1, <2>1, <2>4, <3>1
        <3>3. e[s] = bytes[i - n]
            BY <2>2, <3>2
        <3> QED BY <1>2, <1>4, <1>5, <2>4, <3>2, <3>3
    <2> QED BY <2>3, <2>4
<1>7. r = q \o p
    BY <1>4, <1>5, <1>6, SeqEqual
<1> QED BY <1>7 DEF r, q, p

-----------------------------------------------------------------------------
(* The ring implements the queue, one lemma per operation. *)

\* what the queue and its reading position are in a state of the ring
Content == Ring(data, read, buffer_count)
Seen == IF fresh THEN Ahead(read, peek) ELSE -1

\* The queue of a state has buffer_count bytes.
LEMMA ContentIsSeq ==
    ASSUME TypeOK
    PROVE  /\ Content = Copied(read, buffer_count)
           /\ Content \in Seq(Byte) /\ Len(Content) = buffer_count
           /\ buffer_count \in Nat /\ buffer_count \in 0 .. BufferSize
<1>1. buffer_count \in Nat /\ buffer_count \in 0 .. BufferSize
    BY Counts, BufferAssumption
<1>2. Content \in Seq(Byte) /\ Len(Content) = buffer_count
    BY <1>1, RingIsSeq DEF Content, TypeOK
<1> QED BY <1>1, <1>2 DEF Content, Ring, Copied

\* Both modules take the smaller of two numbers the same way.
LEMMA SameLesser ==
    ASSUME NEW a, NEW b
    PROVE  Queue!Lesser(a, b) = Lesser(a, b)
BY DEF Queue!Lesser, Lesser

\* buffer_write_data appends to the queue what fits.
LEMMA WritePuts ==
    ASSUME Inv, Inv', NEW len \in 0 .. BufferSize, NEW bytes \in [1 .. len -> Byte],
           buffer_write_data(bytes)
    PROVE  Queue!Put(bytes)
<1> DEFINE n == Lesser(Len(bytes), buffer_space)
<1>1. len \in Nat /\ bytes \in Seq(Byte) /\ Len(bytes) = len
    <2>1. len \in Nat
        BY BufferAssumption
    <2> QED BY <2>1
<1>2. /\ Content = Copied(read, buffer_count) /\ Len(Content) = buffer_count
      /\ buffer_count \in Nat
    BY ContentIsSeq DEF Inv
<1>3. n \in 0 .. len /\ n <= buffer_space
    BY <1>1, Counts, LesserType DEF Inv
<1>4. BufferSize - 1 - Len(Content) = buffer_space
    BY <1>2, Counts DEF Inv, buffer_space
<1>5. Queue!Lesser(Len(bytes), BufferSize - 1 - Len(Content)) = n
    BY <1>4, SameLesser
<1> HIDE DEF n
<1>6. /\ data' = [s \in Slots |-> IF Ahead(write, s) < n THEN bytes[Ahead(write, s) + 1]
                                                         ELSE data[s]]
      /\ write' = After(write, n) /\ UNCHANGED <<read, peek, fresh>>
      /\ ret' = n /\ got' = <<>>
    BY DEF buffer_write_data, n
<1>7. Ahead(read, write) + n < BufferSize /\ n \in Nat
    BY <1>1, <1>3, Counts DEF Inv, buffer_space, buffer_count
<1>8. buffer_count' = buffer_count + n
    BY <1>6, <1>7, AheadGrows DEF Inv, TypeOK, buffer_count
<1>9. Content' = Content \o SubSeq(bytes, 1, n)
    <2> DEFINE e == data'
    <2>0. /\ data \in [Slots -> Byte] /\ e \in [Slots -> Byte]
          /\ read \in Slots /\ write \in Slots /\ n \in 0 .. Len(bytes)
          /\ Stored(data, e, write, bytes, n)
        BY <1>1, <1>3, <1>6 DEF Inv, TypeOK, Stored
    <2> HIDE DEF e
    <2>1. Ring(e, read, Ahead(read, write) + n)
            = Ring(data, read, Ahead(read, write)) \o SubSeq(bytes, 1, n)
        BY <1>1, <1>7, <2>0, RingPut, Zenon
    <2>2. Content' = Ring(data', read', buffer_count')
        BY DEF Content, Ring, After
    <2> QED BY <1>6, <1>8, <2>1, <2>2 DEF Content, buffer_count, e
<1>10. UNCHANGED Seen
    BY <1>6 DEF Seen
<1>11. /\ Copied(read, buffer_count)'
            = Copied(read, buffer_count)
                \o SubSeq(bytes, 1, Queue!Lesser(Len(bytes),
                                      (BufferSize - 1) - Len(Copied(read, buffer_count))))
       /\ ret' = Queue!Lesser(Len(bytes), (BufferSize - 1) - Len(Copied(read, buffer_count)))
    <2>1. Copied(read, buffer_count)' = Content'
        BY DEF Content, Ring, Copied
    <2> QED BY <1>2, <1>5, <1>6, <1>9, <2>1
<1> QED BY <1>6, <1>10, <1>11 DEF Queue!Put, Queue!Take, Seen

\* buffer_read_data takes the first bytes of the queue.
LEMMA ReadGets ==
    ASSUME Inv, Inv', NEW size \in 0 .. BufferSize, buffer_read_data(size)
    PROVE  Queue!Get(size)
<1> DEFINE n == Lesser(buffer_count, size)
<1>1. /\ Content = Copied(read, buffer_count) /\ Len(Content) = buffer_count
      /\ buffer_count \in Nat /\ buffer_count \in 0 .. BufferSize
    BY ContentIsSeq DEF Inv
<1>2. n \in 0 .. buffer_count /\ n \in Nat /\ n <= buffer_count
    BY <1>1, LesserType
<1>3. Queue!Lesser(Len(Content), size) = n
    BY <1>1, SameLesser
<1> HIDE DEF n
<1>4. /\ got' = Copied(read, n) /\ read' = After(read, n) /\ ret' = n
      /\ fresh' = (fresh /\ n <= Ahead(read, peek)) /\ UNCHANGED <<data, write, peek>>
    BY DEF buffer_read_data, n
<1>5. got' = SubSeq(Content, 1, n)
    <2>1. SubSeq(Content, 1, n) = Ring(data, read, n)
        BY <1>1, <1>2, RingTake DEF Content, Inv, TypeOK
    <2> QED BY <1>4, <2>1 DEF Ring, Copied
<1>6. buffer_count' = buffer_count - n
    BY <1>2, <1>4, AheadShrinks DEF Inv, TypeOK, buffer_count
<1>7. Content' = SubSeq(Content, n + 1, Len(Content))
    <2>1. SubSeq(Content, n + 1, buffer_count) = Ring(data, After(read, n), buffer_count - n)
        BY <1>1, <1>2, RingDrop DEF Content, Inv, TypeOK
    <2>2. Content' = Ring(data', read', buffer_count')
        BY DEF Content, Ring, After
    <2> QED BY <1>1, <1>4, <1>6, <2>1, <2>2
<1>8. Seen' = IF Seen >= n THEN Seen - n ELSE -1
    <2>1. Ahead(read, peek) \in Nat
        BY Counts DEF Inv
    <2>2. CASE fresh /\ n <= Ahead(read, peek)
        <3>1. Ahead(read, peek)' = Ahead(read, peek) - n
            BY <1>2, <1>4, <2>2, AheadShrinks DEF Inv, TypeOK
        <3> QED BY <1>2, <1>4, <2>1, <2>2, <3>1 DEF Seen
    <2>3. CASE ~(fresh /\ n <= Ahead(read, peek))
        <3>1. ~fresh'
            BY <1>4, <2>3
        <3>2. Seen' = -1
            BY <3>1 DEF Seen
        <3>3. ~(Seen >= n)
            BY <1>2, <2>1, <2>3 DEF Seen
        <3> QED BY <3>2, <3>3
    <2> QED BY <2>2, <2>3
<1>9. Copied(read, buffer_count)' = Content'
    BY DEF Content, Ring, Copied
<1> QED
    BY <1>1, <1>3, <1>4, <1>5, <1>7, <1>8, <1>9
    DEF Queue!Get, Queue!Take, Queue!Drop, Queue!Stale, Seen

\* A fresh peek position that moves on over n bytes has seen n bytes more.
LEMMA PeekSees ==
    ASSUME Inv, fresh, NEW n \in Nat, n <= Ahead(peek, write),
           peek' = After(peek, n), UNCHANGED <<data, read, write, fresh>>
    PROVE  Seen' = Seen + n /\ Content' = Content
<1>1. Ahead(read, write) = Ahead(read, peek) + Ahead(peek, write)
    BY AheadSplits DEF Inv, TypeOK, PeekInside, buffer_count
<1>2. Ahead(read, peek) + n < BufferSize
    BY <1>1, Counts DEF Inv, buffer_count
<1>3. Ahead(read, After(peek, n)) = Ahead(read, peek) + n
    BY <1>2, AheadGrows DEF Inv, TypeOK
<1>4. Content' = Content
    BY DEF Content, Ring, After, buffer_count, Ahead
<1> QED
    BY <1>3, <1>4 DEF Seen

\* buffer_peek_data shows the first bytes of a queue that is not peeked yet.
LEMMA PeekDataLooks ==
    ASSUME Inv, NEW size \in 0 .. BufferSize, buffer_peek_data(size)
    PROVE  Queue!Look(size)
<1> DEFINE n == Lesser(buffer_count, size)
<1>1. /\ Content = Copied(read, buffer_count) /\ Len(Content) = buffer_count
      /\ buffer_count \in Nat /\ buffer_count \in 0 .. BufferSize
    BY ContentIsSeq DEF Inv
<1>2. n \in 0 .. buffer_count /\ n \in Nat /\ n <= buffer_count
    BY <1>1, LesserType
<1>3. Queue!Lesser(Len(Content), size) = n
    BY <1>1, SameLesser
<1> HIDE DEF n
<1>4. /\ fresh /\ peek = read /\ got' = Copied(read, n) /\ ret' = n
      /\ peek' = After(peek, n) /\ UNCHANGED <<data, read, write, fresh>>
    BY DEF buffer_peek_data, n
<1>5. got' = SubSeq(Content, 1, n)
    <2>1. SubSeq(Content, 1, n) = Ring(data, read, n)
        BY <1>1, <1>2, RingTake DEF Content, Inv, TypeOK
    <2> QED BY <1>4, <2>1 DEF Ring, Copied
<1>6. Seen = 0
    BY <1>4, AheadSelf DEF Seen, Inv, TypeOK
<1>7. Seen' = n /\ Content' = Content
    <2>1. n <= Ahead(peek, write)
        BY <1>2, <1>4 DEF buffer_count
    <2> QED BY <1>2, <1>4, <1>6, <2>1, PeekSees
<1>8. Copied(read, buffer_count)' = Content'
    BY DEF Content, Ring, Copied
<1> QED
    BY <1>1, <1>3, <1>4, <1>5, <1>6, <1>7, <1>8 DEF Queue!Look, Queue!Take, Seen

\* A set of numbers has a least member.
LEMMA LeastMember ==
    ASSUME NEW S, S \subseteq Nat, S # {}
    PROVE  \E m \in S : \A x \in S : m <= x
<1>1. PICK m \in S : \A x \in S : <<x, m>> \notin OpToRel(<, Nat)
    BY NatLessThanWellFounded, WFMin, Zenon
<1>2. \A x \in S : ~(x < m)
    BY <1>1 DEF OpToRel
<1> QED BY <1>2

\* buffer_peek_line and buffer_peek_until_null show what is not peeked yet up
\* to the first stop byte.
LEMMA PeekLooksUntil ==
    ASSUME Inv, NEW stop \in Byte, NEW size \in 0 .. BufferSize, Peek(stop, size)
    PROVE  Queue!LookUntil(stop, size)
<1> DEFINE unseen == Ahead(peek, write)
           rest == Queue!Drop(Content, Seen)
           ends == {i \in 1 .. Len(rest) : rest[i] = stop}
           found(i) == /\ data[After(peek, i - 1)] = stop
                       /\ \A j \in 1 .. i - 1 : data[After(peek, j - 1)] # stop
<1>1. /\ Content = Copied(read, buffer_count) /\ Len(Content) = buffer_count
      /\ buffer_count \in Nat /\ buffer_count \in 0 .. BufferSize
    BY ContentIsSeq DEF Inv
<1>2. fresh /\ UNCHANGED <<data, read, write, fresh>>
    BY DEF Peek
<1>3. Seen = Ahead(read, peek) /\ Seen \in Nat /\ unseen \in Nat /\ unseen \in 0 .. BufferSize
      /\ buffer_count = Seen + unseen
    <2>1. Ahead(read, write) = Ahead(read, peek) + Ahead(peek, write)
        BY <1>2, AheadSplits DEF Inv, TypeOK, PeekInside, buffer_count
    <2> QED BY <1>2, <2>1, Counts DEF Inv, Seen, buffer_count
<1>4. rest = Ring(data, peek, unseen)
    <2>1. Seen \in 0 .. buffer_count /\ buffer_count - Seen = unseen
        BY <1>1, <1>3
    <2>2. SubSeq(Content, Seen + 1, buffer_count) = Ring(data, After(read, Seen), unseen)
        <3>1. data \in [Slots -> Byte] /\ read \in Slots
            BY DEF Inv, TypeOK
        <3> HIDE DEF unseen
        <3>2. SubSeq(Ring(data, read, buffer_count), Seen + 1, buffer_count)
                = Ring(data, After(read, Seen), buffer_count - Seen)
            BY <1>1, <2>1, <3>1, RingDrop, Zenon
        <3> QED BY <2>1, <3>2 DEF Content
    <2>3. After(read, Seen) = peek
        BY <1>3, AfterAhead DEF Inv, TypeOK
    <2> QED BY <1>1, <2>2, <2>3 DEF Queue!Drop
<1>5. Len(rest) = unseen /\ \A i \in 1 .. unseen : rest[i] = data[After(peek, i - 1)]
    BY <1>3, <1>4, RingIsSeq DEF Inv, TypeOK
<1>6. Lesser(unseen, size) \in Nat /\ Lesser(unseen, size) <= unseen
      /\ Lesser(unseen, size) <= size /\ size \in Nat /\ Lesser(unseen, size) \in {unseen, size}
    BY <1>3, LesserType, BufferAssumption DEF Lesser
<1>7. Content' = Ring(data', read', buffer_count') /\ Copied(read, buffer_count)' = Content'
    BY DEF Content, Ring, Copied, After
<1>8. Content' = Content
    BY <1>2, <1>7 DEF Content, buffer_count
<1> HIDE DEF rest
<1>9. CASE \E i \in 1 .. Lesser(unseen, size) :
               /\ found(i)
               /\ got' = Copied(peek, i) /\ ret' = i
               /\ peek' = After(peek, i)
    <2>1. PICK i \in 1 .. Lesser(unseen, size) :
               /\ found(i)
               /\ got' = Copied(peek, i) /\ ret' = i
               /\ peek' = After(peek, i)
        BY <1>9
    <2>2. i \in Nat /\ i \in 1 .. unseen /\ i <= size /\ i <= unseen
        BY <1>3, <1>6
    <2>3. i \in ends
        BY <1>5, <2>1, <2>2
    <2>4. ASSUME NEW j \in ends PROVE i <= j
        <3>1. j \in 1 .. unseen /\ data[After(peek, j - 1)] = stop
            BY <1>5
        <3>2. ~(j \in 1 .. i - 1)
            BY <2>1, <3>1
        <3> QED BY <1>3, <2>2, <3>1, <3>2
    <2>5. got' = Queue!Take(rest, i)
        <3>1. i \in 0 .. unseen
            BY <2>2
        <3>2. SubSeq(Ring(data, peek, unseen), 1, i) = Ring(data, peek, i)
            <4> HIDE DEF unseen
            <4> QED BY <1>3, <3>1, RingTake DEF Inv, TypeOK
        <3> QED BY <1>4, <2>1, <3>2 DEF Ring, Copied, Queue!Take
    <2>6. Seen' = Seen + i
        BY <1>2, <2>1, <2>2, PeekSees
    <2>7. \E k \in ends : /\ k <= size /\ \A j \in ends : k <= j
                          /\ got' = Queue!Take(rest, k) /\ ret' = k /\ Seen' = Seen + k
        BY <2>1, <2>2, <2>3, <2>4, <2>5, <2>6
    <2> QED
        BY <1>1, <1>3, <1>7, <1>8, <2>7 DEF Queue!LookUntil, Queue!Stale, Seen, rest
<1>10. CASE /\ \A i \in 1 .. Lesser(unseen, size) : ~found(i)
            /\ got' = <<>>
            /\ ret' = IF unseen > size THEN -1 ELSE 0
            /\ UNCHANGED peek
    <2> DEFINE early == {i \in ends : i <= size}
    <2>1. early = {}
        <3> SUFFICES ASSUME early # {} PROVE FALSE
            OBVIOUS
        <3>1. early \subseteq Nat
            BY <1>3, <1>5
        <3> HIDE DEF early
        <3>2. PICK m \in early : \A x \in early : m <= x
            BY <3>1, LeastMember
        <3>3. m \in 1 .. unseen /\ m <= size /\ data[After(peek, m - 1)] = stop
            BY <1>5 DEF early
        <3>4. ASSUME NEW j \in 1 .. m - 1 PROVE data[After(peek, j - 1)] # stop
            <4>1. j \in 1 .. unseen /\ j <= size /\ ~(m <= j)
                BY <1>3, <1>6, <3>3
            <4>2. j \notin early
                BY <3>2, <4>1
            <4> QED BY <1>5, <4>1, <4>2 DEF early
        <3>5. m \in 1 .. Lesser(unseen, size)
            BY <1>3, <1>6, <3>3
        <3> QED BY <1>10, <3>3, <3>4, <3>5
    <2>2. \A i \in ends : i > size
        BY <1>3, <1>5, <1>6, <2>1
    <2>3. Seen' = Seen
        BY <1>2, <1>10 DEF Seen
    <2> QED
        BY <1>1, <1>3, <1>5, <1>7, <1>8, <1>10, <2>2, <2>3
        DEF Queue!LookUntil, Queue!Stale, Seen, rest
<1> QED BY <1>9, <1>10 DEF Peek

\* buffer_advance_read_to_peek takes what was peeked.
LEMMA AdvanceSkips ==
    ASSUME Inv, buffer_advance_read_to_peek
    PROVE  Queue!Skip
<1>1. /\ Content = Copied(read, buffer_count) /\ Len(Content) = buffer_count
      /\ buffer_count \in Nat /\ buffer_count \in 0 .. BufferSize
    BY ContentIsSeq DEF Inv
<1>2. /\ fresh /\ read' = peek /\ ret' = 0 /\ got' = <<>>
      /\ UNCHANGED <<data, write, peek, fresh>>
    BY DEF buffer_advance_read_to_peek
<1>3. Seen = Ahead(read, peek) /\ Seen \in 0 .. buffer_count /\ Seen # -1
      /\ buffer_count - Seen = Ahead(peek, write)
    <2>1. Ahead(read, write) = Ahead(read, peek) + Ahead(peek, write)
        BY <1>2, AheadSplits DEF Inv, TypeOK, PeekInside, buffer_count
    <2> QED BY <1>2, <2>1, Counts DEF Inv, Seen, buffer_count
<1>4. SubSeq(Content, Seen + 1, buffer_count) = Ring(data, After(read, Seen), buffer_count - Seen)
    BY <1>1, <1>3, RingDrop DEF Content, Inv, TypeOK
<1>5. After(read, Seen) = peek
    BY <1>3, AfterAhead DEF Inv, TypeOK
<1>6. Content' = Ring(data', read', buffer_count') /\ Copied(read, buffer_count)' = Content'
    BY DEF Content, Ring, Copied, After
<1>7. buffer_count' = Ahead(peek, write)
    BY <1>2 DEF buffer_count
<1>8. Content' = SubSeq(Content, Seen + 1, Len(Content))
    BY <1>1, <1>2, <1>3, <1>4, <1>5, <1>6, <1>7
<1>9. Seen' = 0
    BY <1>2, AheadSelf DEF Seen, Inv, TypeOK
<1> QED
    BY <1>1, <1>2, <1>3, <1>6, <1>8, <1>9 DEF Queue!Skip, Queue!Drop, Queue!Stale, Seen

\* buffer_reset_peek_line puts the peek position back to the front.
LEMMA ResetUnsees ==
    ASSUME Inv, buffer_reset_peek_line
    PROVE  Queue!Unsee
<1>1. /\ peek' = read /\ fresh' = TRUE /\ ret' = 0 /\ got' = <<>>
      /\ UNCHANGED <<data, read, write>>
    BY DEF buffer_reset_peek_line
<1>2. Copied(read, buffer_count)' = Copied(read, buffer_count)
    BY <1>1 DEF Copied, buffer_count
<1>3. Ahead(read, peek)' = 0
    BY <1>1, AheadSelf DEF Inv, TypeOK
<1> QED
    BY <1>1, <1>2, <1>3 DEF Queue!Unsee

\* buffer_clean empties the queue.
LEMMA CleanClears ==
    ASSUME Inv, buffer_clean
    PROVE  Queue!Clear
<1>1. /\ read' = 0 /\ write' = 0 /\ peek' = 0 /\ fresh' = TRUE /\ ret' = 0 /\ got' = <<>>
    BY DEF buffer_clean
<1>2. Ahead(0, 0) = 0
    BY BufferAssumption, AheadSelf DEF Slots
<1>3. Ahead(read, peek)' = 0 /\ buffer_count' = 0
    BY <1>1, <1>2 DEF buffer_count
<1>4. Copied(read, buffer_count)' = <<>>
    BY <1>3 DEF Copied
<1> QED
    BY <1>1, <1>3, <1>4 DEF Queue!Clear

\* Every step of the ring is a step of the queue, or changes none of it.
LEMMA QueueStep == Inv /\ Inv' /\ [Next]_vars => [Queue!QueueNext]_(Queue!queueVars)
<1> SUFFICES ASSUME Inv, Inv', [Next]_vars
             PROVE  Queue!QueueNext \/ UNCHANGED Queue!queueVars
    OBVIOUS
<1>0. (BufferSize - 1) + 1 = BufferSize
    BY BufferAssumption
<1>1. CASE UNCHANGED vars
    <2>1. Copied(read, buffer_count)' = Copied(read, buffer_count)
        BY <1>1 DEF vars, Copied, buffer_count
    <2>2. UNCHANGED Seen /\ UNCHANGED <<ret, got>>
        BY <1>1 DEF vars, Seen
    <2> QED BY <2>1, <2>2 DEF Queue!queueVars, Seen
<1>2. ASSUME NEW n \in 0 .. BufferSize, NEW bytes \in [1 .. n -> Byte], buffer_write_data(bytes)
      PROVE  Queue!QueueNext
    BY <1>0, <1>2, WritePuts DEF Queue!QueueNext
<1>3. ASSUME NEW size \in 0 .. BufferSize, buffer_read_data(size)
      PROVE  Queue!QueueNext
    BY <1>0, <1>3, ReadGets DEF Queue!QueueNext
<1>4. ASSUME NEW size \in 0 .. BufferSize, buffer_peek_data(size)
      PROVE  Queue!QueueNext
    BY <1>0, <1>4, PeekDataLooks DEF Queue!QueueNext
<1>5. ASSUME NEW size \in 0 .. BufferSize,
             buffer_peek_line(size) \/ buffer_peek_until_null(size)
      PROVE  Queue!QueueNext
    <2>1. \E stop \in Byte : Queue!LookUntil(stop, size)
        BY <1>5, PeekLooksUntil, BufferAssumption DEF buffer_peek_line, buffer_peek_until_null
    <2> QED BY <1>0, <2>1 DEF Queue!QueueNext
<1>6. CASE buffer_advance_read_to_peek
    BY <1>6, AdvanceSkips DEF Queue!QueueNext
<1>7. CASE buffer_reset_peek_line
    BY <1>7, ResetUnsees DEF Queue!QueueNext
<1>8. CASE buffer_clean
    BY <1>8, CleanClears DEF Queue!QueueNext
<1> QED
    BY <1>1, <1>2, <1>3, <1>4, <1>5, <1>6, <1>7, <1>8 DEF Next

\* The empty ring is the empty queue.
LEMMA QueueStart == Init => Queue!QueueInit
<1> SUFFICES ASSUME Init PROVE Queue!QueueInit
    OBVIOUS
<1>1. Ahead(0, 0) = 0
    BY BufferAssumption, AheadSelf DEF Slots
<1>2. Ahead(read, peek) = 0 /\ buffer_count = 0
    BY <1>1 DEF Init, buffer_count
<1>3. Copied(read, buffer_count) = <<>>
    BY <1>2 DEF Copied
<1> QED BY <1>2, <1>3 DEF Init, Queue!QueueInit

\* The ring buffer of buffer.c is a queue of bytes with a second reading
\* position, for every size of the array: what comes out is what went in, in
\* that order, wherever the positions have wrapped.
THEOREM RingIsQueue == Spec => ImplementsQueue
BY RingInvariant, QueueStart, QueueStep, PTL DEF Spec, ImplementsQueue, Queue!QueueSpec

=============================================================================
