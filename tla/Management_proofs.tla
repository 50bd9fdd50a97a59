-------------------------- MODULE Management_proofs --------------------------
(***************************************************************************)
(* The management protocol stays in step with its clients, for every       *)
(* request they may send, every way it is cut into pieces and every size   *)
(* of the buffers and fields.                                              *)
(***************************************************************************)
EXTENDS Management, SequenceTheorems, WellFoundedInduction, TLAPS

-----------------------------------------------------------------------------
(* Sequences of bytes. *)

Byte == 0 .. 255

LEMMA Empty == <<>> \in Seq(Byte) /\ Len(<<>>) = 0
OBVIOUS

LEMMA EmptyOnly ==
    ASSUME NEW s \in Seq(Byte)
    PROVE  Len(s) \in Nat /\ (Len(s) = 0 <=> s = <<>>)
OBVIOUS

\* A text is bytes, none of which is zero.
LEMMA TextIsBytes ==
    ASSUME NEW s \in Text
    PROVE  s \in Seq(Byte) /\ Len(s) \in Nat /\ \A i \in 1 .. Len(s) : s[i] # 0
<1>1. Len(s) \in Nat /\ \A i \in 1 .. Len(s) : s[i] \in 1 .. 255
    BY LenProperties, ElementOfSeq DEF Text
<1>2. s \in Seq(Byte)
    <2>1. 1 .. 255 \subseteq Byte
        BY DEF Byte
    <2> QED BY <2>1, SeqMonotonic DEF Text
<1>3. ASSUME NEW i \in 1 .. Len(s) PROVE s[i] # 0
    <2>1. s[i] \in 1 .. 255
        BY <1>1
    <2>2. \A x \in 1 .. 255 : x # 0
        OBVIOUS
    <2> QED BY <2>1, <2>2, Zenon
<1> QED BY <1>1, <1>2, <1>3

\* What is joined.
LEMMA Joined ==
    ASSUME NEW s \in Seq(Byte), NEW t \in Seq(Byte)
    PROVE  /\ s \o t \in Seq(Byte) /\ Len(s \o t) = Len(s) + Len(t)
           /\ Len(s) \in Nat /\ Len(t) \in Nat
           /\ \A i \in 1 .. Len(s) : (s \o t)[i] = s[i]
           /\ \A i \in 1 .. Len(t) : (s \o t)[Len(s) + i] = t[i]
           /\ s \o <<>> = s /\ <<>> \o s = s
<1>1. /\ s \o t \in Seq(Byte) /\ Len(s \o t) = Len(s) + Len(t)
      /\ Len(s) \in Nat /\ Len(t) \in Nat
      /\ \A i \in 1 .. Len(s) + Len(t) :
            (s \o t)[i] = IF i <= Len(s) THEN s[i] ELSE t[i - Len(s)]
    BY ConcatProperties, LenProperties
<1>2. ASSUME NEW i \in 1 .. Len(t) PROVE (s \o t)[Len(s) + i] = t[i]
    <2>1. Len(s) + i \in 1 .. Len(s) + Len(t) /\ ~(Len(s) + i <= Len(s))
          /\ (Len(s) + i) - Len(s) = i
        BY <1>1
    <2> QED BY <1>1, <2>1
<1> QED BY <1>1, <1>2, ConcatEmptySeq

\* Three sequences joined in either order.
Cat(s, t) == s \o t

LEMMA CatAssociative == \A S : \A s, t, u \in Seq(S) : Cat(Cat(s, t), u) = Cat(s, Cat(t, u))
BY ConcatAssociative, Zenon DEF Cat

LEMMA Associative ==
    ASSUME NEW r \in Seq(Byte), NEW s \in Seq(Byte), NEW t \in Seq(Byte)
    PROVE  Cat(Cat(r, s), t) = Cat(r, Cat(s, t))
BY CatAssociative

\* What is taken and what is left.
LEMMA Dropped ==
    ASSUME NEW s \in Seq(Byte), NEW n \in 0 .. Len(s)
    PROVE  /\ SubSeq(s, 1, n) \in Seq(Byte) /\ Len(SubSeq(s, 1, n)) = n
           /\ \A i \in 1 .. n : SubSeq(s, 1, n)[i] = s[i]
           /\ Drop(s, n) \in Seq(Byte) /\ Len(Drop(s, n)) = Len(s) - n
           /\ \A i \in 1 .. Len(s) - n : Drop(s, n)[i] = s[n + i]
           /\ SubSeq(s, 1, n) \o Drop(s, n) = s
<1>1. Len(s) \in Nat /\ n \in Nat /\ n <= Len(s) /\ \A i \in 1 .. Len(s) : s[i] \in Byte
    BY LenProperties, ElementOfSeq
<1>2. SubSeq(s, 1, n) \in Seq(Byte) /\ Len(SubSeq(s, 1, n)) = n
      /\ \A i \in 1 .. n : SubSeq(s, 1, n)[i] = s[i]
    BY <1>1, SubSeqProperties
<1>3. /\ Drop(s, n) \in Seq(Byte) /\ Len(Drop(s, n)) = Len(s) - n
      /\ \A i \in 1 .. Len(s) - (n + 1) + 1 : Drop(s, n)[i] = s[n + 1 + i - 1]
    BY <1>1, SubSeqProperties DEF Drop
<1>4. ASSUME NEW i \in 1 .. Len(s) - n PROVE Drop(s, n)[i] = s[n + i]
    <2>1. i \in 1 .. Len(s) - (n + 1) + 1 /\ n + 1 + i - 1 = n + i
        BY <1>1
    <2> QED BY <1>3, <2>1
<1>5. SubSeq(s, 1, n) \o SubSeq(s, n + 1, Len(s)) = SubSeq(s, 1, Len(s))
    <2>1. 1 \in 1 .. Len(s) + 1 /\ n \in 1 - 1 .. Len(s) /\ Len(s) \in n .. Len(s)
        BY <1>1
    <2> QED BY <2>1, ConcatAdjacentSubSeq
<1> QED
    BY <1>2, <1>3, <1>4, <1>5, SubSeqFull DEF Drop

\* Nothing is left.
LEMMA DroppedAll ==
    ASSUME NEW s \in Seq(Byte), NEW n \in Nat, n >= Len(s)
    PROVE  Drop(s, n) = <<>>
<1>1. Len(s) \in Nat /\ \A i \in n + 1 .. Len(s) : s[i] \in Byte
    BY LenProperties
<1>2. Drop(s, n) \in Seq(Byte) /\ Len(Drop(s, n)) = 0
    BY <1>1, SubSeqProperties DEF Drop
<1> QED BY <1>2, EmptyOnly

\* A set of numbers has a least member.
LEMMA LeastMember ==
    ASSUME NEW S, S \subseteq Nat, S # {}
    PROVE  \E m \in S : \A x \in S : m <= x
<1>1. PICK m \in S : \A x \in S : <<x, m>> \notin OpToRel(<, Nat)
    BY NatLessThanWellFounded, WFMin, Zenon
<1>2. \A x \in S : ~(x < m)
    BY <1>1 DEF OpToRel
<1> QED BY <1>2

\* The smaller of two numbers.
LEMMA LesserIs ==
    ASSUME NEW a \in Nat, NEW b \in Nat
    PROVE  Lesser(a, b) \in Nat /\ Lesser(a, b) <= a /\ Lesser(a, b) <= b /\ Lesser(a, b) \in {a, b}
BY DEF Lesser

\* The peek finds the first zero byte.
LEMMA PeekFinds ==
    ASSUME NEW s \in Seq(Byte), NEW size \in Nat
    PROVE  LET n == PeekUntilNull(s, size)
           IN  /\ n \in Int /\ n >= -1
               /\ n > 0 => /\ n \in 1 .. Len(s) /\ n <= size /\ s[n] = 0
                           /\ \A j \in 1 .. n - 1 : s[j] # 0
<1> DEFINE ends == {i \in 1 .. Lesser(Len(s), size) : s[i] = 0}
<1>1. Len(s) \in Nat
    BY LenProperties
<1>2. /\ Lesser(Len(s), size) \in Nat /\ Lesser(Len(s), size) <= Len(s)
      /\ Lesser(Len(s), size) <= size
    BY <1>1, LesserIs
<1>3. CASE ends = {}
    BY <1>3 DEF PeekUntilNull
<1>4. CASE ends # {}
    <2>1. ends \subseteq Nat
        BY <1>2
    <2>2. \E i \in ends : \A j \in ends : i <= j
        BY <1>4, <2>1, LeastMember
    <2> DEFINE n == CHOOSE i \in ends : \A j \in ends : i <= j
    <2>3. n \in ends /\ \A j \in ends : n <= j
        BY <2>2
    <2>4. PeekUntilNull(s, size) = n
        BY <1>4 DEF PeekUntilNull
    <2> HIDE DEF n
    <2>5. n \in Nat /\ n >= 1 /\ n <= Len(s) /\ n <= size /\ s[n] = 0
          /\ n <= Lesser(Len(s), size)
        BY <1>1, <1>2, <2>3
    <2>6. ASSUME NEW j \in 1 .. n - 1 PROVE s[j] # 0
        <3>1. j \in 1 .. Lesser(Len(s), size) /\ ~(n <= j)
            BY <1>2, <2>5
        <3> QED BY <2>3, <3>1
    <2> QED BY <1>1, <2>4, <2>5, <2>6
<1> QED BY <1>3, <1>4

-----------------------------------------------------------------------------
(* The bytes of requests. *)

\* In the bytes of a request that begins with its version, nothing follows the
\* end of the structure.
Whole(b) ==
    Len(b) > 1 /\ b[1] = 1 =>
        /\ b[2] # HEADER
        /\ b[2] = LOGIN =>
              \A i, j \in 3 .. Len(b) : i < j /\ b[i] = 0 /\ b[j] = 0 => j = Len(b)
        /\ b[2] = METRICS => Len(b) <= 3
        /\ b[2] = TRANSFORMATIONS /\ Len(b) > 2 =>
              /\ b[3] = SET_STATUS => Len(b) <= 4
              /\ b[3] \in {GET_STATUS, 3, 5} => Len(b) = 3
              /\ b[3] \in {2, 4} =>
                    \A i \in 4 .. Len(b) : b[i] = 0 /\ i <= 3 + ArgumentSize => i = Len(b)

\* The codes of the strings.
LEMMA Codes ==
    /\ \A name \in Strings : SetCode(name) \in {2, 4} /\ GetCode(name) \in {3, 5}
    /\ {SetCode(name) : name \in Strings} = {2, 4}
BY DEF Strings, SetCode, GetCode

\* A text between a beginning without zeros and a zero byte.
LEMMA TextBytes ==
    ASSUME NEW a \in Seq(Byte), NEW v \in Text
    PROVE  /\ a \o v \o <<0>> \in Seq(Byte) /\ Len(a \o v \o <<0>>) = Len(a) + Len(v) + 1
           /\ \A i \in 1 .. Len(a) : (a \o v \o <<0>>)[i] = a[i]
           /\ \A i \in Len(a) + 1 .. Len(a) + Len(v) : (a \o v \o <<0>>)[i] # 0
<1> DEFINE z == <<0>>
           s == a \o v
<1>1. z \in Seq(Byte) /\ Len(z) = 1
    BY DEF Byte
<1> HIDE DEF z
<1>2. v \in Seq(Byte) /\ Len(v) \in Nat /\ Len(a) \in Nat /\ \A i \in 1 .. Len(v) : v[i] # 0
    BY TextIsBytes, LenProperties
<1>3. /\ s \in Seq(Byte) /\ Len(s) = Len(a) + Len(v)
      /\ \A i \in 1 .. Len(a) : s[i] = a[i]
      /\ \A i \in 1 .. Len(v) : s[Len(a) + i] = v[i]
    BY <1>2, Joined
<1> HIDE DEF s
<1>4. /\ s \o z \in Seq(Byte) /\ Len(s \o z) = Len(s) + 1
      /\ \A i \in 1 .. Len(s) : (s \o z)[i] = s[i]
    <2>1. s \in Seq(Byte) /\ z \in Seq(Byte)
        BY <1>1, <1>3
    <2>2. Len(s \o z) = Len(s) + Len(z) /\ s \o z \in Seq(Byte)
          /\ \A i \in 1 .. Len(s) : (s \o z)[i] = s[i]
        BY <2>1, Joined, Zenon
    <2> QED BY <1>1, <2>2
<1>5. ASSUME NEW i \in Len(a) + 1 .. Len(a) + Len(v) PROVE (s \o z)[i] # 0
    <2>1. i - Len(a) \in 1 .. Len(v) /\ i \in 1 .. Len(s) /\ Len(a) + (i - Len(a)) = i
        BY <1>2, <1>3
    <2>2. s[i] = v[i - Len(a)]
        BY <1>3, <2>1
    <2> QED BY <1>2, <1>4, <2>1, <2>2
<1>6. \A i \in 1 .. Len(a) : (s \o z)[i] = a[i]
    BY <1>2, <1>3, <1>4
<1> QED BY <1>2, <1>3, <1>4, <1>5, <1>6 DEF s, z

LEMMA LoginIsWhole ==
    ASSUME NEW q, q.op = "login", q.name \in Text, q.word \in Text
    PROVE  Bytes(q) \in Seq(Byte) /\ Whole(Bytes(q)) /\ Len(Bytes(q)) > 1
           /\ Bytes(q)[1] = 1 /\ Bytes(q)[2] = LOGIN
<1> DEFINE h == <<1, LOGIN>>
           a == h \o q.name \o <<0>>
           b == a \o q.word \o <<0>>
<1>1. Bytes(q) = b
    BY DEF Bytes
<1>2. h \in Seq(Byte) /\ Len(h) = 2 /\ h[1] = 1 /\ h[2] = 0
    BY DEF Byte, LOGIN
<1> HIDE DEF h
<1>3. /\ a \in Seq(Byte) /\ Len(a) = 3 + Len(q.name) /\ Len(q.name) \in Nat
      /\ a[1] = 1 /\ a[2] = 0
      /\ \A i \in 3 .. Len(a) - 1 : a[i] # 0
    <2>1. h \in Seq(Byte) /\ q.name \in Text /\ Len(q.name) \in Nat
        BY <1>2, TextIsBytes
    <2>2. /\ a \in Seq(Byte) /\ Len(a) = Len(h) + Len(q.name) + 1
          /\ \A i \in 1 .. Len(h) : a[i] = h[i]
          /\ \A i \in Len(h) + 1 .. Len(h) + Len(q.name) : a[i] # 0
        BY <2>1, TextBytes, Zenon
    <2> HIDE DEF a
    <2>3. 1 \in 1 .. Len(h) /\ 2 \in 1 .. Len(h)
        BY <1>2
    <2>4. Len(a) = 3 + Len(q.name) /\ a[1] = 1 /\ a[2] = 0
        BY <1>2, <2>1, <2>2, <2>3
    <2>5. \A i \in 3 .. Len(a) - 1 : i \in Len(h) + 1 .. Len(h) + Len(q.name)
        BY <1>2, <2>1, <2>4
    <2> QED BY <2>1, <2>2, <2>4, <2>5
<1> HIDE DEF a
<1>4. /\ b \in Seq(Byte) /\ Len(b) = Len(a) + Len(q.word) + 1 /\ Len(q.word) \in Nat
      /\ \A i \in 1 .. Len(a) : b[i] = a[i]
      /\ \A i \in Len(a) + 1 .. Len(a) + Len(q.word) : b[i] # 0
    BY <1>3, TextBytes, TextIsBytes
<1> HIDE DEF b
<1>10. Len(a) \in Nat /\ Len(a) >= 3 /\ Len(b) \in Nat /\ Len(b) = Len(a) + Len(q.word) + 1
      /\ Len(q.word) \in Nat
    <2>1. Len(b) \in Nat /\ Len(a) \in Nat
        BY <1>3, <1>4, LenProperties
    <2>2. Len(a) >= 3
        BY <1>3
    <2> QED BY <1>4, <2>1, <2>2
<1>5. b[1] = 1 /\ b[2] = 0 /\ Len(b) > 1
    <2>1. 1 \in 1 .. Len(a) /\ 2 \in 1 .. Len(a)
        BY <1>10
    <2>2. b[1] = 1 /\ b[2] = 0
        BY <1>3, <1>4, <2>1
    <2> QED BY <1>10, <2>2
<1>6. ASSUME NEW i \in 3 .. Len(b), NEW j \in 3 .. Len(b), i < j, b[i] = 0, b[j] = 0
      PROVE  j = Len(b)
    <2>0. i \in Nat /\ j \in Nat /\ i >= 3 /\ j <= Len(b)
        BY <1>10
    <2>1. ~(i \in 3 .. Len(a) - 1)
        <3> SUFFICES ASSUME i \in 3 .. Len(a) - 1 PROVE FALSE
            OBVIOUS
        <3>1. i \in 1 .. Len(a)
            BY <1>10
        <3> QED BY <1>3, <1>4, <1>6, <3>1
    <2>2. ~(j \in Len(a) + 1 .. Len(a) + Len(q.word))
        BY <1>4, <1>6
    <2>3. i >= Len(a)
        BY <1>10, <2>0, <2>1
    <2> QED BY <1>6, <1>10, <2>0, <2>2, <2>3
<1>7. Whole(b)
    BY <1>5, <1>6 DEF Whole, LOGIN, HEADER, METRICS, TRANSFORMATIONS
<1> QED BY <1>1, <1>4, <1>5, <1>7 DEF LOGIN

LEMMA SetStringIsWhole ==
    ASSUME NEW q, q.op = "set", q.what \in Strings, q.value \in Text
    PROVE  Bytes(q) \in Seq(Byte) /\ Whole(Bytes(q)) /\ Len(Bytes(q)) > 2
           /\ Bytes(q)[1] = 1 /\ Bytes(q)[2] = TRANSFORMATIONS /\ Bytes(q)[3] \in {2, 4}
<1> DEFINE h == <<1, TRANSFORMATIONS, SetCode(q.what)>>
           b == h \o q.value \o <<0>>
<1>1. Bytes(q) = b
    BY DEF Bytes, Strings
<1>2. h \in Seq(Byte) /\ Len(h) = 3 /\ h[1] = 1 /\ h[2] = TRANSFORMATIONS /\ h[3] \in {2, 4}
    BY Codes DEF Byte, TRANSFORMATIONS
<1> HIDE DEF h
<1>3. /\ b \in Seq(Byte) /\ Len(b) = Len(h) + Len(q.value) + 1 /\ Len(q.value) \in Nat
      /\ \A i \in 1 .. Len(h) : b[i] = h[i]
      /\ \A i \in Len(h) + 1 .. Len(h) + Len(q.value) : b[i] # 0
    BY <1>2, TextBytes, TextIsBytes
<1> HIDE DEF b
<1>4. b[1] = 1 /\ b[2] = TRANSFORMATIONS /\ b[3] \in {2, 4} /\ Len(b) > 2
    BY <1>2, <1>3
<1>5. ASSUME NEW i \in 4 .. Len(b), b[i] = 0 PROVE i = Len(b)
    BY <1>2, <1>3, <1>5
<1>6. Whole(b)
    BY <1>4, <1>5 DEF Whole, LOGIN, HEADER, METRICS, TRANSFORMATIONS, SET_STATUS, GET_STATUS
<1> QED BY <1>1, <1>3, <1>4, <1>6

\* The requests of a fixed length.
LEMMA ShortIsWhole ==
    ASSUME NEW q, IsRequest(q), q.op \in {"metric", "set", "get"},
           q.op = "set" => q.what = "status"
    PROVE  /\ Bytes(q) \in Seq(Byte) /\ Whole(Bytes(q)) /\ Len(Bytes(q)) > 2
           /\ Bytes(q)[1] = 1
           /\ Bytes(q)[2] = IF q.op = "metric" THEN METRICS ELSE TRANSFORMATIONS
           /\ q.op = "set" => Bytes(q)[3] = SET_STATUS
           /\ q.op = "get" => Bytes(q)[3] = IF q.what = "status" THEN GET_STATUS ELSE GetCode(q.what)
<1> USE DEF LOGIN, HEADER, METRICS, TRANSFORMATIONS, SET_STATUS, GET_STATUS, Byte
<1>1. CASE q.op = "metric"
    <2> DEFINE b == <<1, METRICS, q.code>>
    <2>1. Bytes(q) = b /\ q.code \in Byte
        BY <1>1 DEF Bytes, IsRequest
    <2>2. b \in Seq(Byte) /\ Len(b) = 3 /\ b[1] = 1 /\ b[2] = METRICS
        BY <2>1
    <2> HIDE DEF b
    <2>3. Whole(b)
        BY <2>2 DEF Whole
    <2> QED BY <1>1, <2>1, <2>2, <2>3
<1>2. CASE q.op = "set"
    <2> DEFINE b == <<1, TRANSFORMATIONS, SET_STATUS, q.value>>
    <2>1. Bytes(q) = b /\ q.value \in Byte
        BY <1>2 DEF Bytes, IsRequest, Strings
    <2>2. b \in Seq(Byte) /\ Len(b) = 4 /\ b[1] = 1 /\ b[2] = TRANSFORMATIONS /\ b[3] = SET_STATUS
        BY <2>1
    <2> HIDE DEF b
    <2>3. Whole(b)
        BY <2>2 DEF Whole
    <2> QED BY <1>2, <2>1, <2>2, <2>3
<1>3. CASE q.op = "get"
    <2> DEFINE k == IF q.what = "status" THEN GET_STATUS ELSE GetCode(q.what)
               b == <<1, TRANSFORMATIONS, k>>
    <2>1. q.what \in Strings \cup {"status"} /\ "status" \notin Strings
        BY <1>3 DEF IsRequest, Strings
    <2>2. k \in {1, 3, 5}
        BY <2>1, Codes
    <2>3. Bytes(q) = b
        BY <1>3, <2>1 DEF Bytes
    <2> HIDE DEF k
    <2>4. b \in Seq(Byte) /\ Len(b) = 3 /\ b[1] = 1 /\ b[2] = TRANSFORMATIONS /\ b[3] = k
        BY <2>2
    <2> HIDE DEF b
    <2>5. Whole(b)
        BY <2>2, <2>4 DEF Whole
    <2> QED BY <1>3, <2>3, <2>4, <2>5 DEF k
<1> QED BY <1>1, <1>2, <1>3

LEMMA OddIsWhole ==
    ASSUME NEW q, q.op = "odd", q.bytes \in Seq(Byte), NoRequest(q.bytes)
    PROVE  Bytes(q) = q.bytes /\ Whole(q.bytes)
<1>1. Bytes(q) = q.bytes
    BY DEF Bytes
<1>2. Len(q.bytes) \in Nat
    BY LenProperties
<1> DEFINE b == q.bytes
<1> HIDE DEF b
<1> SUFFICES ASSUME Len(b) > 1, b[1] = 1 PROVE Whole(b)
    BY <1>1 DEF b, Whole
<1>3. NoRequest(b) /\ Len(b) \in Nat
    BY <1>2 DEF b
<1>4. b[2] = LOGIN => \A i, j \in 3 .. Len(b) : i < j /\ b[i] = 0 /\ b[j] = 0 => j = Len(b)
    <2> SUFFICES ASSUME b[2] = LOGIN, NEW i \in 3 .. Len(b), NEW j \in 3 .. Len(b),
                        i < j, b[i] = 0, b[j] = 0
                 PROVE  FALSE
        OBVIOUS
    <2>1. i = j
        BY <1>3 DEF NoRequest
    <2> QED BY <1>3, <2>1
<1>5. b[2] \notin {METRICS, HEADER}
    BY <1>3 DEF NoRequest
<1>6. b[2] = TRANSFORMATIONS /\ Len(b) > 2 =>
              /\ b[3] = SET_STATUS => Len(b) <= 4
              /\ b[3] \in {GET_STATUS, 3, 5} => Len(b) = 3
              /\ b[3] \in {2, 4} =>
                    \A i \in 4 .. Len(b) : b[i] = 0 /\ i <= 3 + ArgumentSize => i = Len(b)
    <2> SUFFICES ASSUME b[2] = TRANSFORMATIONS, Len(b) > 2
                 PROVE  /\ b[3] = SET_STATUS => Len(b) <= 4
                        /\ b[3] \in {GET_STATUS, 3, 5} => Len(b) = 3
                        /\ b[3] \in {2, 4} =>
                            \A i \in 4 .. Len(b) : b[i] = 0 /\ i <= 3 + ArgumentSize => i = Len(b)
        OBVIOUS
    <2>1. \/ b[3] \notin 0 .. 5
          \/ b[3] = SET_STATUS /\ Len(b) = 3
          \/ b[3] \in {2, 4} /\ \A i \in 4 .. Lesser(Len(b), 3 + ArgumentSize) : b[i] # 0
        BY <1>3, Codes DEF NoRequest
    <2>2. CASE b[3] \in {2, 4} /\ \A i \in 4 .. Lesser(Len(b), 3 + ArgumentSize) : b[i] # 0
        <3>1. \A i \in 4 .. Len(b) : i <= 3 + ArgumentSize => i \in 4 .. Lesser(Len(b), 3 + ArgumentSize)
            BY <1>3, ManagementAssumption DEF Lesser
        <3>2. \A i \in 4 .. Len(b) : b[i] = 0 /\ i <= 3 + ArgumentSize => i = Len(b)
            BY <2>2, <3>1
        <3> QED BY <2>2, <3>2 DEF SET_STATUS, GET_STATUS
    <2>3. CASE b[3] \notin 0 .. 5
        BY <2>3 DEF SET_STATUS, GET_STATUS
    <2>4. CASE b[3] = SET_STATUS /\ Len(b) = 3
        BY <2>4 DEF SET_STATUS, GET_STATUS
    <2> QED BY <2>1, <2>2, <2>3, <2>4
<1> QED BY <1>4, <1>5, <1>6 DEF Whole

\* Every request is bytes in which nothing follows its end.
LEMMA RequestIsWhole ==
    ASSUME NEW q, IsRequest(q)
    PROVE  Bytes(q) \in Seq(Byte) /\ Whole(Bytes(q))
<1>1. CASE q.op = "login"
    BY <1>1, LoginIsWhole DEF IsRequest
<1>2. CASE q.op = "set" /\ q.what # "status"
    BY <1>2, SetStringIsWhole DEF IsRequest
<1>3. CASE q.op \in {"metric", "get"} \/ (q.op = "set" /\ q.what = "status")
    BY <1>3, ShortIsWhole
<1>4. CASE q.op = "odd"
    <2>1. q.bytes \in Seq(Byte) /\ NoRequest(q.bytes)
        BY <1>4 DEF IsRequest, Byte
    <2> QED BY <1>4, <2>1, OddIsWhole
<1> QED BY <1>1, <1>2, <1>3, <1>4 DEF IsRequest

-----------------------------------------------------------------------------
(* The invariant. *)

Typed ==
    /\ watched \in [Clients -> {"none", "read", "write", "closed"}]
    /\ loggedIn \in [Clients -> BOOLEAN]
    /\ expected \in [Clients -> Byte]
    /\ readBuffer \in [Clients -> Seq(Byte)] /\ writeBuffer \in [Clients -> Seq(Byte)]
    /\ \A c \in Clients : Len(writeBuffer[c]) <= BufferSpace
    /\ upstream \in [Clients -> Seq(Byte)]
    /\ DOMAIN downstream = Clients /\ DOMAIN request = Clients /\ DOMAIN told = Clients
    /\ \A c \in Clients : request[c] # None => request[c] \in Requests[c]

\* What is in the settings fits an answer.
Settled ==
    /\ DOMAIN settings = Strings \cup {"status"}
    /\ settings.status \in Byte
    /\ settings.media \in Text /\ Len(settings.media) <= FieldSize + ArgumentSize
    /\ settings.command \in Text /\ Len(settings.command) <= ArgumentSize

\* the sessions that are in step
Good(c) == Live(c) /\ ~Lost(c)

\* What a client is told that takes the beginning of a string only.
IsBeginning(answer) == answer # None /\ answer.code = "CUT"

\* The client that asked q takes all of s for its answer, or the beginning of a
\* string.
IsAnswer(q, s) ==
    /\ s \in Seq(Byte) /\ s # <<>>
    /\ LET rest == Drop(s, 1 + IF s[1] = OK THEN Value(q, Tail(s)).length ELSE 0)
       IN  rest = <<>> \/ (rest \in Seq(Byte) /\ IsBeginning(Told(q, s)))

Idle(c) ==
    /\ request[c] = None
    /\ readBuffer[c] = <<>> /\ upstream[c] = <<>> /\ expected[c] = HEADER
    /\ writeBuffer[c] = <<>>
    /\ downstream[c] = <<>> \/ (downstream[c] \in Seq(Byte) /\ IsBeginning(told[c]))

\* what is parsed, buffered and on its way of a request, and the rest of it
Stretch(e, r, u, rest) == (IF e = HEADER THEN <<>> ELSE <<1, e>>) \o (r \o (u \o rest))

\* of a client that has hung up, the rest may never come
Asking(c) ==
    /\ request[c] # None
    /\ \E rest \in Seq(Byte) :
          /\ Bytes(request[c]) = Stretch(expected[c], readBuffer[c], upstream[c], rest)
          /\ c \notin gone => rest = <<>>
    /\ writeBuffer[c] = <<>> /\ downstream[c] = <<>>

Served(c) ==
    /\ request[c] # None
    /\ readBuffer[c] = <<>> /\ upstream[c] = <<>> /\ expected[c] = HEADER
    /\ \/ writeBuffer[c] = <<>> /\ IsAnswer(request[c], downstream[c])
       \/ downstream[c] = <<>> /\ IsAnswer(request[c], writeBuffer[c])

InPlace(c) == Good(c) => Idle(c) \/ Asking(c) \/ Served(c)

StepInv == Typed /\ Settled /\ \A c \in Clients : InPlace(c)

\* What the run checks is a part of it.
LEMMA InPlaceIsInStep == StepInv => InStep
<1> SUFFICES ASSUME StepInv, NEW c \in Clients, Good(c), c \notin gone
             PROVE  \/ /\ request[c] = None /\ Incoming(c) = <<>> /\ expected[c] = HEADER
                       /\ Outgoing(c) # <<>> => CutShort(c)
                    \/ /\ request[c] # None /\ Outgoing(c) = <<>>
                       /\ Bytes(request[c]) =
                            (IF expected[c] = HEADER THEN <<>> ELSE <<1, expected[c]>>)
                                \o Incoming(c)
                    \/ /\ request[c] # None /\ Outgoing(c) # <<>>
                       /\ Incoming(c) = <<>> /\ expected[c] = HEADER
    BY DEF InStep, Good
<1>1. <<>> \o <<>> = <<>>
    BY Empty, Joined
<1>2. CASE Idle(c)
    BY <1>1, <1>2 DEF Idle, Incoming, Outgoing, CutShort, IsBeginning
<1>3. CASE Asking(c)
    <2>1. upstream[c] \in Seq(Byte)
        BY DEF StepInv, Typed
    <2>2. upstream[c] \o <<>> = upstream[c]
        BY <2>1, Joined, Empty
    <2>3. Incoming(c) = readBuffer[c] \o upstream[c] /\ Outgoing(c) = <<>>
        BY <1>1, <1>3 DEF Asking, Incoming, Outgoing
    <2>4. request[c] # None
        BY <1>3 DEF Asking
    <2>5. c \notin gone => Bytes(request[c]) =
            (IF expected[c] = HEADER THEN <<>> ELSE <<1, expected[c]>>) \o Incoming(c)
        BY <1>3, <2>2, <2>3 DEF Asking, Stretch
    <2> QED BY <2>3, <2>4, <2>5
<1>4. CASE Served(c)
    <2>1. /\ downstream[c] \o <<>> = downstream[c]
          /\ <<>> \o writeBuffer[c] = writeBuffer[c]
        <3>1. /\ downstream[c] = <<>> \/ downstream[c] \in Seq(Byte)
              /\ writeBuffer[c] \in Seq(Byte)
            BY <1>4 DEF Served, IsAnswer, StepInv, Typed
        <3> QED BY <1>1, <3>1, Joined, Zenon
    <2>2. /\ request[c] # None /\ Incoming(c) = <<>> /\ expected[c] = HEADER
          /\ Outgoing(c) \in {downstream[c], writeBuffer[c]}
        BY <1>1, <1>4, <2>1, Zenon DEF Served, Incoming, Outgoing
    <2>3. Outgoing(c) # <<>>
        <3>1. \A a : IsAnswer(request[c], a) => a # <<>>
            BY DEF IsAnswer
        <3> QED BY <1>4, <2>1, <3>1, Zenon DEF Served, Outgoing
    <2> QED BY <2>2, <2>3, Zenon
<1> QED BY <1>2, <1>3, <1>4 DEF StepInv, InPlace

\* A client still waits when what is left of its request makes it up.
LEMMA AskingAgain ==
    ASSUME NEW c \in Clients, NEW q, q # None, request'[c] = q,
           writeBuffer'[c] = <<>>, downstream'[c] = <<>>,
           NEW rest \in Seq(Byte), c \notin gone' => rest = <<>>,
           Bytes(q) = Stretch(expected'[c], readBuffer'[c], upstream'[c], rest)
    PROVE  Asking(c)'
<1>1. Bytes(request[c])' = Bytes(q)
    BY DEF Bytes
<1> QED BY <1>1, Zenon DEF Asking, Stretch, HEADER, Byte

\* A session keeps its place when its buffers and its client stay as they are.
LEMMA Untouched ==
    ASSUME NEW c \in Clients, InPlace(c), Good(c)' => Good(c), c \in gone => c \in gone',
           request'[c] = request[c], readBuffer'[c] = readBuffer[c],
           upstream'[c] = upstream[c], expected'[c] = expected[c],
           writeBuffer'[c] = writeBuffer[c], downstream'[c] = downstream[c],
           told'[c] = told[c]
    PROVE  InPlace(c)'
<1> SUFFICES ASSUME Good(c)' PROVE Idle(c)' \/ Asking(c)' \/ Served(c)'
    BY DEF InPlace
<1>1. CASE Idle(c)
    BY <1>1 DEF Idle, IsBeginning
<1>2. CASE Asking(c)
    <2>1. PICK rest \in Seq(Byte) :
            /\ Bytes(request[c]) = Stretch(expected[c], readBuffer[c], upstream[c], rest)
            /\ c \notin gone => rest = <<>>
        BY <1>2 DEF Asking
    <2> QED BY <1>2, <2>1, AskingAgain DEF Asking
<1>3. CASE Served(c)
    <2>1. /\ IsAnswer(request[c], downstream[c])' <=> IsAnswer(request[c], downstream[c])
          /\ IsAnswer(request[c], writeBuffer[c])' <=> IsAnswer(request[c], writeBuffer[c])
        BY DEF IsAnswer, IsBeginning, Told, IsCut, Value, Drop, Zero, Lesser
    <2> QED BY <1>3, <2>1 DEF Served
<1> QED BY <1>1, <1>2, <1>3 DEF InPlace

\* What a step of one client leaves alone of another.
Apart(d) ==
    /\ watched'[d] = watched[d] /\ loggedIn'[d] = loggedIn[d]
    /\ request'[d] = request[d] /\ readBuffer'[d] = readBuffer[d]
    /\ upstream'[d] = upstream[d] /\ expected'[d] = expected[d]
    /\ writeBuffer'[d] = writeBuffer[d] /\ downstream'[d] = downstream[d]
    /\ told'[d] = told[d]
    /\ d \in gone => d \in gone'

LEMMA ApartKeeps ==
    ASSUME NEW d \in Clients, InPlace(d), Apart(d)
    PROVE  InPlace(d)'
BY Untouched DEF Apart, Good, Live, Lost

-----------------------------------------------------------------------------
(* The answers. *)

LEMMA PutIs ==
    ASSUME NEW s \in Seq(Byte), NEW bytes \in Seq(Byte), Len(s) <= BufferSpace
    PROVE  Put(s, bytes) \in Seq(Byte) /\ Len(Put(s, bytes)) <= BufferSpace
<1> DEFINE n == Lesser(Len(bytes), BufferSpace - Len(s))
<1>1. Len(s) \in Nat /\ Len(bytes) \in Nat /\ BufferSpace \in Nat
    BY LenProperties, ManagementAssumption
<1>2. BufferSpace - Len(s) \in Nat
    BY <1>1
<1>3. n \in Nat /\ n <= Len(bytes) /\ n <= BufferSpace - Len(s)
    BY <1>1, <1>2, LesserIs
<1> HIDE DEF n
<1>4. n \in 0 .. Len(bytes)
    BY <1>1, <1>3
<1>5. SubSeq(bytes, 1, n) \in Seq(Byte) /\ Len(SubSeq(bytes, 1, n)) = n
    BY <1>4, Dropped
<1>6. s \o SubSeq(bytes, 1, n) \in Seq(Byte) /\ Len(s \o SubSeq(bytes, 1, n)) = Len(s) + n
    BY <1>5, Joined
<1> QED BY <1>1, <1>3, <1>6 DEF Put, n

\* What is put into an empty buffer.
LEMMA PutEmpty ==
    ASSUME NEW bytes \in Seq(Byte), bytes # <<>>
    PROVE  LET p == Put(<<>>, bytes)
           IN  /\ p \in Seq(Byte) /\ p # <<>> /\ p[1] = bytes[1]
               /\ Len(p) \in Nat /\ Len(p) <= Len(bytes) /\ Len(p) <= BufferSpace
               /\ Len(bytes) <= BufferSpace => p = bytes
<1> DEFINE n == Lesser(Len(bytes), BufferSpace - Len(<<>>))
           t == SubSeq(bytes, 1, n)
<1>1. Len(bytes) \in Nat /\ Len(bytes) > 0 /\ BufferSpace \in Nat /\ BufferSpace >= 2
    BY EmptyOnly, ManagementAssumption
<1>2. n \in 1 .. Len(bytes) /\ n \in Nat /\ n <= BufferSpace
      /\ (Len(bytes) <= BufferSpace => n = Len(bytes))
    BY <1>1, Empty DEF Lesser
<1> HIDE DEF n
<1>3. t \in Seq(Byte) /\ Len(t) = n /\ \A i \in 1 .. n : t[i] = bytes[i]
    <2>1. n \in 0 .. Len(bytes)
        BY <1>1, <1>2
    <2> QED BY <2>1, Dropped
<1>4. Len(bytes) <= BufferSpace => t = bytes
    BY <1>2, SubSeqFull
<1> HIDE DEF t
<1>5. <<>> \o t = t
    BY <1>3, Joined, Empty
<1>6. Put(<<>>, bytes) = t
    BY <1>5 DEF Put, n, t
<1>7. t # <<>> /\ t[1] = bytes[1]
    BY <1>2, <1>3, EmptyOnly
<1> QED BY <1>1, <1>2, <1>3, <1>4, <1>6, <1>7

\* A request that is denied is answered with one byte.
LEMMA DeniedIsAnswer ==
    ASSUME NEW q
    PROVE  IsAnswer(q, Put(<<>>, <<PERMISSION_DENIED>>))
<1> DEFINE a == <<PERMISSION_DENIED>>
<1>1. a \in Seq(Byte) /\ a # <<>> /\ Len(a) = 1 /\ a[1] # OK /\ a[1] = 0
    BY DEF Byte, PERMISSION_DENIED, OK
<1>2. Put(<<>>, a) = a
    <2>1. Len(a) <= BufferSpace
        BY <1>1, ManagementAssumption
    <2> HIDE DEF a
    <2> QED BY <1>1, <2>1, PutEmpty
<1> HIDE DEF a
<1>3. Drop(a, 1 + 0) = <<>>
    <2>1. 1 + 0 \in Nat /\ 1 + 0 >= Len(a)
        BY <1>1
    <2> QED BY <1>1, <2>1, DroppedAll
<1>4. IsAnswer(q, a)
    BY <1>1, <1>3 DEF IsAnswer
<1> QED BY <1>2, <1>4 DEF a

\* An answer whose bytes are no more than what its client takes.
LEMMA FitsAnswer ==
    ASSUME NEW q, NEW s \in Seq(Byte), s # <<>>, s[1] = OK,
           NEW n \in Nat, Value(q, Tail(s)).length = n, Len(s) <= 1 + n
    PROVE  IsAnswer(q, s)
<1>1. Drop(s, 1 + n) = <<>>
    BY DroppedAll
<1> QED BY <1>1 DEF IsAnswer

LEMMA GrantedIsAnswer ==
    ASSUME NEW q, q.op \in {"login", "set", "odd"}
    PROVE  IsAnswer(q, Put(<<>>, <<OK>>))
<1> DEFINE a == <<OK>>
<1>1. a \in Seq(Byte) /\ a # <<>> /\ Len(a) = 1 /\ a[1] = OK
    BY DEF Byte, OK
<1> HIDE DEF a
<1>2. Put(<<>>, a) = a
    BY <1>1, PutEmpty, ManagementAssumption
<1>3. Value(q, Tail(a)).length = 0
    BY DEF Value
<1>4. IsAnswer(q, a)
    <2>1. 0 \in Nat /\ Len(a) <= 1 + 0
        BY <1>1
    <2> QED BY <1>1, <1>3, <2>1, FitsAnswer
<1> QED BY <1>2, <1>4 DEF a

LEMMA MetricIsAnswer ==
    ASSUME NEW q, q.op = "metric", NEW v \in Counts
    PROVE  IsAnswer(q, Put(<<>>, <<OK>> \o Word(v)))
<1> DEFINE a == <<OK>> \o Word(v)
           p == Put(<<>>, a)
<1>1. v \in 0 .. 255
    BY ManagementAssumption
<1>2. a \in Seq(Byte) /\ a # <<>> /\ Len(a) = 5 /\ a[1] = OK
    <2> DEFINE o == <<OK>>
               w == Word(v)
    <2>1. o \in Seq(Byte) /\ Len(o) = 1 /\ o[1] = OK
        BY DEF Byte, OK
    <2>2. w \in Seq(Byte) /\ Len(w) = 4
        BY <1>1 DEF Byte, Word
    <2> HIDE DEF o, w
    <2>3. o \o w \in Seq(Byte) /\ Len(o \o w) = Len(o) + Len(w)
          /\ \A i \in 1 .. Len(o) : (o \o w)[i] = o[i]
        BY <2>1, <2>2, Joined
    <2>4. 1 \in 1 .. Len(o)
        BY <2>1
    <2>5. o \o w \in Seq(Byte) /\ Len(o \o w) = 5 /\ (o \o w)[1] = OK
        BY <2>1, <2>2, <2>3, <2>4
    <2> QED BY <2>5, EmptyOnly DEF o, w
<1> HIDE DEF a
<1>3. p \in Seq(Byte) /\ p # <<>> /\ p[1] = OK /\ Len(p) \in Nat /\ Len(p) <= 5
    BY <1>2, PutEmpty
<1> HIDE DEF p
<1>4. Value(q, Tail(p)).length = 4
    BY DEF Value
<1>5. IsAnswer(q, p)
    BY <1>3, <1>4, FitsAnswer
<1> QED BY <1>5 DEF a, p

LEMMA StatusIsAnswer ==
    ASSUME NEW q, q.op = "get", q.what = "status", NEW v \in Byte
    PROVE  IsAnswer(q, Put(<<>>, <<OK, v>>))
<1> DEFINE a == <<OK, v>>
<1>1. a \in Seq(Byte) /\ a # <<>> /\ Len(a) = 2 /\ a[1] = OK
    BY DEF Byte, OK
<1> HIDE DEF a
<1>2. Put(<<>>, a) = a
    <2>1. Len(a) <= BufferSpace
        BY <1>1, ManagementAssumption
    <2> QED BY <1>1, <2>1, PutEmpty
<1>3. Value(q, Tail(a)).length = 1
    <2>1. q.op # "metric" /\ q.what \notin Strings
        BY DEF Strings
    <2> QED BY <2>1 DEF Value
<1>4. IsAnswer(q, a)
    <2>1. 1 \in Nat /\ Len(a) <= 1 + 1
        BY <1>1
    <2> QED BY <1>1, <1>3, <2>1, FitsAnswer
<1> QED BY <1>2, <1>4 DEF a

\* The one zero byte of a string is at its end.
LEMMA ZeroIsLast ==
    ASSUME NEW v \in Text
    PROVE  Zero(v \o <<0>>) = Len(v) + 1
<1> DEFINE z == <<0>>
           s == v \o z
<1>1. z \in Seq(Byte) /\ Len(z) = 1 /\ z[1] = 0
    BY DEF Byte
<1> HIDE DEF z
<1>2. v \in Seq(Byte) /\ Len(v) \in Nat /\ \A i \in 1 .. Len(v) : v[i] # 0
    BY TextIsBytes
<1>3. Len(s) = Len(v) + 1 /\ \A i \in 1 .. Len(v) : s[i] # 0
    <2>1. Len(s) = Len(v) + Len(z) /\ \A i \in 1 .. Len(v) : s[i] = v[i]
        BY <1>1, <1>2, Joined
    <2> HIDE DEF s
    <2> QED BY <1>1, <1>2, <2>1
<1>4. s[Len(v) + 1] = 0
    <2>1. 1 \in 1 .. Len(z)
        BY <1>1
    <2>2. \A i \in 1 .. Len(z) : s[Len(v) + i] = z[i]
        BY <1>1, <1>2, Joined
    <2> QED BY <1>1, <2>1, <2>2
<1> HIDE DEF s
<1> DEFINE P(i) == s[i] = 0 /\ \A j \in 1 .. i - 1 : s[j] # 0
<1>5. Len(v) + 1 \in 1 .. Len(s) /\ P(Len(v) + 1)
    BY <1>2, <1>3, <1>4
<1>6. ASSUME NEW i \in 1 .. Len(s), P(i) PROVE i = Len(v) + 1
    <2>1. i \in Nat /\ i >= 1 /\ i <= Len(v) + 1
        BY <1>2, <1>3
    <2>2. ~(i \in 1 .. Len(v))
        BY <1>3, <1>6
    <2> QED BY <1>2, <2>1, <2>2
<1> HIDE DEF P
<1>7. (CHOOSE i \in 1 .. Len(s) : P(i)) = Len(v) + 1
    BY <1>5, <1>6, Zenon
<1> QED BY <1>7 DEF Zero, P, s, z

\* The beginning of a text that ends with a zero byte.
LEMMA TextPieces ==
    ASSUME NEW v \in Text, NEW n \in 0 .. Len(v)
    PROVE  /\ SubSeq(v, 1, n) \in Text /\ Len(SubSeq(v, 1, n)) = n
           /\ Drop(v, n) \in Text /\ Len(Drop(v, n)) = Len(v) - n
           /\ SubSeq(v \o <<0>>, 1, n) = SubSeq(v, 1, n)
<1> DEFINE z == <<0>>
           t == v \o z
<1>1. /\ Len(v) \in Nat /\ n \in Nat /\ n <= Len(v) /\ v \in Seq(Byte)
      /\ \A i \in 1 .. Len(v) : v[i] \in 1 .. 255
    BY TextIsBytes, ElementOfSeq DEF Text
<1>2. SubSeq(v, 1, n) \in Text /\ Len(SubSeq(v, 1, n)) = n
      /\ \A i \in 1 .. n : SubSeq(v, 1, n)[i] = v[i]
    BY <1>1, SubSeqProperties DEF Text
<1>3. Drop(v, n) \in Text /\ Len(Drop(v, n)) = Len(v) - n
    <2>1. \A i \in n + 1 .. Len(v) : v[i] \in 1 .. 255
        BY <1>1
    <2> QED BY <1>1, <2>1, SubSeqProperties DEF Text, Drop
<1>4. /\ t \in Seq(Byte) /\ Len(t) = Len(v) + 1
      /\ \A i \in 1 .. Len(v) : t[i] = v[i]
    <2>1. z \in Seq(Byte) /\ Len(z) = 1
        BY DEF Byte
    <2> HIDE DEF z
    <2>2. /\ t \in Seq(Byte) /\ Len(t) = Len(v) + Len(z)
          /\ \A i \in 1 .. Len(v) : t[i] = v[i]
        BY <1>1, <2>1, Joined, Zenon
    <2> HIDE DEF t
    <2> QED BY <2>1, <2>2
<1> HIDE DEF t
<1>5. SubSeq(t, 1, n) \in Seq(Byte) /\ Len(SubSeq(t, 1, n)) = n
      /\ \A i \in 1 .. n : SubSeq(t, 1, n)[i] = t[i]
    <2>1. n \in 0 .. Len(t)
        BY <1>1, <1>4
    <2> QED BY <1>4, <2>1, Dropped
<1>6. SubSeq(v, 1, n) \in Seq(Byte)
    BY <1>2, TextIsBytes
<1>7. \A i \in 1 .. n : SubSeq(t, 1, n)[i] = SubSeq(v, 1, n)[i]
    BY <1>1, <1>2, <1>4, <1>5
<1>8. SubSeq(t, 1, n) = SubSeq(v, 1, n)
    BY <1>2, <1>5, <1>6, <1>7, SeqEqual
<1> QED BY <1>2, <1>3, <1>8 DEF t, z

\* The answer that tells a string, and what its client takes of it.
StringAnswer(v) == Put(<<>>, <<OK>> \o v \o <<0>>)

LEMMA StringAnswerIs ==
    ASSUME NEW q, q.op = "get", q.what \in Strings,
           NEW v \in Text, Len(v) <= FieldSize + ArgumentSize
    PROVE  /\ StringAnswer(v) \in Seq(Byte) /\ StringAnswer(v) # <<>>
           /\ StringAnswer(v)[1] = OK /\ Len(StringAnswer(v)) = Len(v) + 2
           /\ Len(v) <= AnswerSize =>
                 /\ Told(q, StringAnswer(v)) = [code |-> "OK", value |-> v]
                 /\ Value(q, Tail(StringAnswer(v))).length = Len(v) + 1
           /\ Len(v) > AnswerSize =>
                 /\ Told(q, StringAnswer(v)) = [code |-> "CUT", value |-> SubSeq(v, 1, AnswerSize)]
                 /\ Value(q, Tail(StringAnswer(v))).length = AnswerSize + 1
<1> DEFINE t == v \o <<0>>
           a == <<OK>> \o t
<1>1. t \in Seq(Byte) /\ Len(t) = Len(v) + 1 /\ Len(v) \in Nat /\ AnswerSize \in Nat
    <2>1. <<0>> \in Seq(Byte) /\ Len(<<0>>) = 1
        BY DEF Byte
    <2> QED BY <2>1, TextIsBytes, Joined, ManagementAssumption
<1>2. Zero(t) = Len(v) + 1
    BY ZeroIsLast
<1>3. \A n \in 0 .. Len(v) : SubSeq(t, 1, n) = SubSeq(v, 1, n)
    BY TextPieces
<1>4. SubSeq(v, 1, Len(v)) = v
    BY SubSeqFull DEF Text
<1> HIDE DEF t
<1>5. a \in Seq(Byte) /\ Len(a) = Len(v) + 2 /\ a # <<>> /\ a[1] = OK /\ Tail(a) = t
    BY <1>1 DEF Byte, OK
<1>6. a = <<OK>> \o v \o <<0>>
    <2>1. <<OK>> \in Seq(Byte) /\ <<0>> \in Seq(Byte) /\ v \in Seq(Byte)
        BY TextIsBytes DEF Byte, OK
    <2>2. Cat(Cat(<<OK>>, v), <<0>>) = Cat(<<OK>>, Cat(v, <<0>>))
        BY <2>1, Associative
    <2> QED BY <2>2, Zenon DEF t, Cat
<1> HIDE DEF a
<1>7. StringAnswer(v) = a
    <2>1. Len(a) <= BufferSpace
        BY <1>1, <1>5, ManagementAssumption
    <2>2. Put(<<>>, a) = a
        BY <1>5, <2>1, PutEmpty
    <2> QED BY <1>6, <2>2 DEF StringAnswer
<1>8. /\ Value(q, t).value = SubSeq(t, 1, Lesser(Len(v), AnswerSize))
      /\ Value(q, t).length = Lesser(Len(v) + 1, AnswerSize + 1)
      /\ IsCut(q, t) <=> Len(v) > AnswerSize
    <2>1. q.what # "status" /\ Zero(t) - 1 = Len(v)
        BY <1>1, <1>2 DEF Strings
    <2> QED BY <1>2, <2>1 DEF Value, IsCut
<1>9. ASSUME Len(v) <= AnswerSize
      PROVE  /\ Told(q, a) = [code |-> "OK", value |-> v]
             /\ Value(q, Tail(a)).length = Len(v) + 1
    <2>1. Lesser(Len(v), AnswerSize) = Len(v) /\ Lesser(Len(v) + 1, AnswerSize + 1) = Len(v) + 1
        BY <1>1, <1>9 DEF Lesser
    <2>2. Value(q, t).value = v /\ Value(q, t).length = Len(v) + 1 /\ ~IsCut(q, t)
        BY <1>1, <1>3, <1>4, <1>8, <1>9, <2>1
    <2>3. Told(q, a) = [code |-> "OK", value |-> v]
        BY <1>5, <2>2 DEF Told
    <2> QED BY <1>5, <2>2, <2>3
<1>10. ASSUME Len(v) > AnswerSize
       PROVE  /\ Told(q, a) = [code |-> "CUT", value |-> SubSeq(v, 1, AnswerSize)]
              /\ Value(q, Tail(a)).length = AnswerSize + 1
    <2>1. /\ Lesser(Len(v), AnswerSize) = AnswerSize /\ AnswerSize \in 0 .. Len(v)
          /\ Lesser(Len(v) + 1, AnswerSize + 1) = AnswerSize + 1
        BY <1>1, <1>10 DEF Lesser
    <2>2. /\ Value(q, t).value = SubSeq(v, 1, AnswerSize) /\ IsCut(q, t)
          /\ Value(q, t).length = AnswerSize + 1
        BY <1>3, <1>8, <1>10, <2>1
    <2>3. Told(q, a) = [code |-> "CUT", value |-> SubSeq(v, 1, AnswerSize)]
        BY <1>5, <2>2 DEF Told
    <2> QED BY <1>5, <2>2, <2>3
<1> QED BY <1>5, <1>7, <1>9, <1>10

LEMMA StringIsAnswer ==
    ASSUME NEW q, q.op = "get", q.what \in Strings,
           NEW v \in Text, Len(v) <= FieldSize + ArgumentSize
    PROVE  IsAnswer(q, StringAnswer(v))
<1> DEFINE a == StringAnswer(v)
<1>1. a \in Seq(Byte) /\ a # <<>> /\ a[1] = OK /\ Len(a) = Len(v) + 2
    BY StringAnswerIs
<1>2. Len(v) \in Nat /\ AnswerSize \in Nat
    BY TextIsBytes, ManagementAssumption
<1>3. CASE Len(v) <= AnswerSize
    <2>1. Value(q, Tail(a)).length = Len(v) + 1
        BY <1>3, StringAnswerIs
    <2>2. Len(v) + 1 \in Nat /\ Len(a) <= 1 + (Len(v) + 1)
        BY <1>1, <1>2
    <2> HIDE DEF a
    <2> QED BY <1>1, <2>1, <2>2, FitsAnswer DEF a
<1>4. CASE Len(v) > AnswerSize
    <2>1. SubSeq(v, 1, AnswerSize) \in Text
        BY <1>2, <1>4, TextPieces
    <2>2. Told(q, a) = [code |-> "CUT", value |-> SubSeq(v, 1, AnswerSize)]
        BY <1>4, StringAnswerIs
    <2> DEFINE answer == [code |-> "CUT", value |-> SubSeq(v, 1, AnswerSize)]
    <2>3. answer \in [code : {"OK", "CUT", "PERMISSION_DENIED"}, value : {None} \cup 0 .. 255 \cup Text]
        BY <2>1
    <2>4. Told(q, a) # None
        BY <2>2, <2>3, NoneAssumption
    <2>5. IsBeginning(Told(q, a))
        BY <2>2, <2>4 DEF IsBeginning
    <2>6. Value(q, Tail(a)).length = AnswerSize + 1 /\ 1 + (AnswerSize + 1) \in 0 .. Len(a)
        BY <1>1, <1>2, <1>4, StringAnswerIs
    <2>7. Drop(a, 1 + (AnswerSize + 1)) \in Seq(Byte)
        BY <1>1, <2>6, Dropped
    <2> HIDE DEF a
    <2>8. (1 + IF a[1] = OK THEN Value(q, Tail(a)).length ELSE 0) = 1 + (AnswerSize + 1)
        BY <1>1, <2>6
    <2>9. IsAnswer(q, a)
        BY <1>1, <2>5, <2>7, <2>8, Zenon DEF IsAnswer
    <2> QED BY <2>9 DEF a
<1> QED BY <1>2, <1>3, <1>4

-----------------------------------------------------------------------------
(* What the parser has of the request of its client. *)

\* A request whose structure is known: its bytes behind the header.
LEMMA Positions ==
    ASSUME NEW e \in Byte, NEW r \in Seq(Byte), NEW u \in Seq(Byte)
    PROVE  LET b == <<1, e>> \o (r \o u)
           IN  /\ Len(b) \in Nat /\ Len(r) \in Nat /\ Len(u) \in Nat
               /\ Len(b) = 2 + Len(r) + Len(u) /\ b[1] = 1 /\ b[2] = e
               /\ \A i \in 1 .. Len(r) : b[2 + i] = r[i]
<1> DEFINE h == <<1, e>>
           t == r \o u
           b == h \o t
<1>1. h \in Seq(Byte) /\ Len(h) = 2 /\ h[1] = 1 /\ h[2] = e
    BY DEF Byte
<1>2. /\ t \in Seq(Byte) /\ Len(t) = Len(r) + Len(u) /\ Len(r) \in Nat /\ Len(u) \in Nat
      /\ \A i \in 1 .. Len(r) : t[i] = r[i]
    BY Joined
<1> HIDE DEF h, t
<1>4. /\ Len(b) = Len(h) + Len(t)
      /\ \A i \in 1 .. Len(h) : b[i] = h[i]
      /\ \A i \in 1 .. Len(t) : b[Len(h) + i] = t[i]
    BY <1>1, <1>2, Joined
<1> HIDE DEF b
<1>5. Len(b) = 2 + Len(r) + Len(u)
    BY <1>1, <1>2, <1>4
<1>6. b[1] = 1 /\ b[2] = e
    <2>1. 1 \in 1 .. Len(h) /\ 2 \in 1 .. Len(h)
        BY <1>1
    <2> QED BY <1>1, <1>4, <2>1
<1>7. ASSUME NEW i \in 1 .. Len(r) PROVE b[2 + i] = r[i]
    <2>1. i \in 1 .. Len(t)
        BY <1>2
    <2>2. b[Len(h) + i] = t[i]
        BY <1>4, <2>1
    <2> QED BY <1>1, <1>2, <2>2
<1> QED BY <1>2, <1>5, <1>6, <1>7 DEF b, h, t

\* When what is taken ends where the request ends, nothing is left.
LEMMA TakenWhole ==
    ASSUME NEW e \in Byte, NEW r \in Seq(Byte), NEW u \in Seq(Byte),
           NEW n \in 0 .. Len(r), Len(<<1, e>> \o (r \o u)) <= 2 + n
    PROVE  Drop(r, n) = <<>> /\ u = <<>>
<1> DEFINE b == <<1, e>> \o (r \o u)
<1>1. Len(b) = 2 + Len(r) + Len(u) /\ Len(r) \in Nat /\ Len(u) \in Nat
    BY Positions
<1>2. n \in Nat /\ n <= Len(r) /\ Len(b) <= 2 + n
    BY <1>1
<1> HIDE DEF b
<1>3. Len(u) = 0 /\ n >= Len(r)
    BY <1>1, <1>2
<1> QED BY <1>2, <1>3, DroppedAll, EmptyOnly

\* The structure of a request says what was asked.
LEMMA KindOf ==
    ASSUME NEW q, IsRequest(q), Len(Bytes(q)) > 1, Bytes(q)[1] = 1
    PROVE  LET b == Bytes(q)
           IN  /\ b[2] = LOGIN => q.op \in {"login", "odd"}
               /\ b[2] = METRICS => q.op = "metric"
               /\ b[2] = TRANSFORMATIONS /\ Len(b) > 2 =>
                     /\ b[3] \in {SET_STATUS, 2, 4} => q.op \in {"set", "odd"}
                     /\ b[3] = GET_STATUS => q.op = "get" /\ q.what = "status"
                     /\ b[3] \in {3, 5} => q.op = "get" /\ q.what \in Strings
<1> USE DEF LOGIN, METRICS, TRANSFORMATIONS, SET_STATUS, GET_STATUS
<1>1. CASE q.op = "login"
    BY <1>1, LoginIsWhole DEF IsRequest
<1>2. CASE q.op = "set" /\ q.what \in Strings
    <2>1. q.value \in Text
        BY <1>2 DEF IsRequest, Strings
    <2> QED BY <1>2, <2>1, SetStringIsWhole
<1>3. CASE q.op = "set" /\ q.what = "status"
    BY <1>3, ShortIsWhole
<1>4. CASE q.op = "metric"
    BY <1>4, ShortIsWhole
<1>5. CASE q.op = "get"
    <2>1. q.what \in Strings \cup {"status"} /\ "status" \notin Strings
        BY <1>5 DEF IsRequest, Strings
    <2>2. Bytes(q)[2] = TRANSFORMATIONS
          /\ Bytes(q)[3] = IF q.what = "status" THEN GET_STATUS ELSE GetCode(q.what)
        BY <1>5, ShortIsWhole
    <2> QED BY <1>5, <2>1, <2>2, Codes
<1>6. CASE q.op = "odd"
    <2> DEFINE b == Bytes(q)
    <2>1. NoRequest(b) /\ b \in Seq(Byte)
        BY <1>6, OddIsWhole DEF IsRequest, Byte
    <2>2. Len(b) \in Nat
        BY <2>1, LenProperties
    <2>3. Len(b) > 1 /\ b[1] = 1
        OBVIOUS
    <2> HIDE DEF b
    <2>4. b[2] # METRICS
        BY <2>1, <2>3 DEF NoRequest
    <2>5. b[2] = TRANSFORMATIONS /\ Len(b) > 2 => b[3] \notin {GET_STATUS, 3, 5}
        BY <2>1, <2>3, Codes DEF NoRequest
    <2> QED BY <1>6, <2>4, <2>5 DEF b
<1> QED BY <1>1, <1>2, <1>3, <1>4, <1>5, <1>6 DEF IsRequest

\* What a request in progress is.
LEMMA InProgress ==
    ASSUME StepInv, NEW c \in Clients, Asking(c)
    PROVE  /\ IsRequest(request[c]) /\ Bytes(request[c]) \in Seq(Byte) /\ Whole(Bytes(request[c]))
           /\ readBuffer[c] \in Seq(Byte) /\ upstream[c] \in Seq(Byte) /\ expected[c] \in Byte
           /\ request[c] # None
<1>1. request[c] \in Requests[c]
    BY DEF StepInv, Typed, Asking
<1>2. IsRequest(request[c])
    BY <1>1, RequestAssumption
<1> QED BY <1>2, RequestIsWhole DEF StepInv, Typed, Asking

\* A session that has read a header is in the middle of a request.
LEMMA HeaderIsRead ==
    ASSUME StepInv, NEW c \in Clients, Good(c), expected[c] # HEADER
    PROVE  Asking(c)
BY DEF StepInv, InPlace, Idle, Served

\* Once the header is read, the bytes of the request are these.
LEMMA BehindHeader ==
    ASSUME StepInv, NEW c \in Clients, Asking(c), expected[c] # HEADER
    PROVE  LET b == Bytes(request[c])
           IN  /\ Len(b) \in Nat /\ Len(readBuffer[c]) \in Nat
               /\ Len(b) >= 2 + Len(readBuffer[c])
               /\ b[1] = 1 /\ b[2] = expected[c] /\ Len(b) > 1
               /\ \A i \in 1 .. Len(readBuffer[c]) : b[2 + i] = readBuffer[c][i]
<1> DEFINE b == Bytes(request[c])
           r == readBuffer[c]
           e == expected[c]
<1>1. PICK rest \in Seq(Byte) : b = <<1, e>> \o (r \o (upstream[c] \o rest))
    BY DEF Asking, Stretch
<1> DEFINE u == upstream[c] \o rest
           k == <<1, e>> \o (r \o u)
<1>2. r \in Seq(Byte) /\ u \in Seq(Byte) /\ e \in Byte
    BY InProgress, Joined
<1>3. b = k
    BY <1>1
<1> HIDE DEF b, r, u, e
<1>4. /\ Len(k) \in Nat /\ Len(r) \in Nat /\ Len(u) \in Nat
      /\ Len(k) = 2 + Len(r) + Len(u) /\ k[1] = 1 /\ k[2] = e
      /\ \A i \in 1 .. Len(r) : k[2 + i] = r[i]
    BY <1>2, Positions
<1> HIDE DEF k
<1>5. Len(k) > 1 /\ Len(k) >= 2 + Len(r)
    BY <1>4
<1> QED BY <1>3, <1>4, <1>5 DEF b, r, e

\* A request that is taken to its end and answered.
LEMMA Answering ==
    ASSUME StepInv, NEW c \in Clients, Asking(c), expected[c] # HEADER,
           NEW n \in 0 .. Len(readBuffer[c]), Len(Bytes(request[c])) <= 2 + n,
           NEW bytes, IsAnswer(request[c], Put(<<>>, bytes)),
           readBuffer'[c] = Drop(readBuffer[c], n), upstream'[c] = upstream[c],
           request'[c] = request[c], downstream'[c] = downstream[c], expected'[c] = HEADER,
           writeBuffer'[c] = Put(writeBuffer[c], bytes)
    PROVE  InPlace(c)'
<1>1. Drop(readBuffer[c], n) = <<>> /\ upstream[c] = <<>>
    <2>1. PICK rest \in Seq(Byte) :
            Bytes(request[c]) = <<1, expected[c]>> \o (readBuffer[c] \o (upstream[c] \o rest))
        BY DEF Asking, Stretch
    <2>2. /\ readBuffer[c] \in Seq(Byte) /\ upstream[c] \in Seq(Byte) /\ expected[c] \in Byte
          /\ upstream[c] \o rest \in Seq(Byte)
        BY InProgress, Joined
    <2>3. Drop(readBuffer[c], n) = <<>> /\ upstream[c] \o rest = <<>>
        BY <2>1, <2>2, TakenWhole
    <2>4. upstream[c] = <<>>
        BY <2>2, <2>3, ConcatSimplifications
    <2> QED BY <2>3, <2>4
<1>2. request[c] # None /\ writeBuffer[c] = <<>> /\ downstream[c] = <<>>
    BY DEF Asking
<1>3. IsAnswer(request'[c], writeBuffer'[c])
    BY <1>2
<1>4. Served(c)'
    BY <1>1, <1>2, <1>3 DEF Served, IsAnswer, Value, Drop, Zero, HEADER, OK
<1> QED BY <1>4 DEF InPlace

-----------------------------------------------------------------------------
(* Every step keeps the invariant: one lemma per action. *)

\* A step of c leaves the other sessions alone and c in its place.
Keeps(c) ==
    /\ Typed' /\ Settled' /\ InPlace(c)'
    /\ \A d \in Clients \ {c} : Apart(d)

\* A session that is closed is out of the invariant.
LEMMA ClosedIsInPlace ==
    ASSUME NEW c \in Clients, watched'[c] = "closed"
    PROVE  InPlace(c)'
BY DEF InPlace, Good, Live

LEMMA AcceptKeeps ==
    ASSUME StepInv, NEW c \in Clients, Accept(c)
    PROVE  Keeps(c)
<1>1. Typed' /\ \A d \in Clients \ {c} : Apart(d)
    BY DEF StepInv, Typed, Accept, Apart, client
<1>2. Settled'
    BY DEF StepInv, Settled, Accept
<1>3. InPlace(c)'
    <2>1. InPlace(c) /\ watched[c] = "none" /\ watched'[c] = "read"
        BY DEF StepInv, Typed, Accept
    <2>2. Good(c)' => Good(c)
        BY <2>1 DEF Good, Live, Lost, Accept, client
    <2> QED BY <2>1, <2>2, Untouched DEF Accept, client
<1> QED BY <1>1, <1>2, <1>3 DEF Keeps

LEMMA ReceiveKeeps ==
    ASSUME StepInv, NEW c \in Clients, Receive(c)
    PROVE  Keeps(c)
<1> DEFINE u == upstream[c]
           r == readBuffer[c]
<1>1. PICK n \in 1 .. Lesser(PieceSize, Lesser(Space(c), Len(u))) :
        /\ readBuffer' = [readBuffer EXCEPT ![c] = @ \o SubSeq(upstream[c], 1, n)]
        /\ upstream' = [upstream EXCEPT ![c] = Drop(@, n)]
    BY DEF Receive
<1>2. u \in Seq(Byte) /\ r \in Seq(Byte) /\ Len(u) \in Nat
    BY LenProperties DEF StepInv, Typed
<1>3. n \in 0 .. Len(u) /\ n > 0
    <2>1. PieceSize \in Int /\ Space(c) \in Int /\ Len(u) \in Nat
        BY <1>2, LenProperties, ManagementAssumption DEF Space
    <2>2. n \in 1 .. Lesser(PieceSize, Lesser(Space(c), Len(u)))
        BY <1>1
    <2> HIDE DEF u
    <2> QED BY <2>1, <2>2 DEF Lesser
<1>4. /\ SubSeq(u, 1, n) \in Seq(Byte) /\ Drop(u, n) \in Seq(Byte)
      /\ SubSeq(u, 1, n) \o Drop(u, n) = u
    BY <1>2, <1>3, Dropped
<1>5. /\ readBuffer'[c] = r \o SubSeq(u, 1, n) /\ upstream'[c] = Drop(u, n)
      /\ readBuffer'[c] \in Seq(Byte)
    BY <1>1, <1>2, <1>4, Joined DEF StepInv, Typed
<1>6. ASSUME NEW rest \in Seq(Byte)
      PROVE  readBuffer'[c] \o (upstream'[c] \o rest) = r \o (u \o rest)
    <2> DEFINE f == SubSeq(u, 1, n)
               t == Drop(u, n)
    <2>1. f \in Seq(Byte) /\ t \in Seq(Byte) /\ r \in Seq(Byte) /\ f \o t = u
        BY <1>2, <1>4
    <2>2. readBuffer'[c] = r \o f /\ upstream'[c] = t
        BY <1>5
    <2> HIDE DEF f, t, r, u
    <2>3. t \o rest \in Seq(Byte)
        BY <2>1, Joined
    <2>4. Cat(Cat(r, f), Cat(t, rest)) = Cat(r, Cat(f, Cat(t, rest)))
        BY <2>1, <2>3, Associative DEF Cat
    <2>5. Cat(Cat(f, t), rest) = Cat(f, Cat(t, rest))
        BY <2>1, Associative
    <2>6. readBuffer'[c] = Cat(r, f) /\ u = Cat(f, t)
        BY <2>1, <2>2 DEF Cat
    <2>7. Cat(readBuffer'[c], Cat(upstream'[c], rest)) = Cat(r, Cat(u, rest))
        BY <2>2, <2>4, <2>5, <2>6
    <2> QED BY <2>7, Zenon DEF Cat
<1>7. Typed' /\ \A d \in Clients \ {c} : Apart(d)
    <2>1. readBuffer' \in [Clients -> Seq(Byte)] /\ upstream' \in [Clients -> Seq(Byte)]
        BY <1>1, <1>4, <1>5 DEF StepInv, Typed
    <2>2. Typed'
        BY <2>1 DEF StepInv, Typed, Receive, client
    <2>3. \A d \in Clients \ {c} : Apart(d)
        BY <1>1 DEF StepInv, Typed, Receive, Apart, client
    <2> QED BY <2>2, <2>3
<1>8. Settled'
    BY DEF StepInv, Settled, Receive
<1>9. InPlace(c)'
    <2>1. Good(c)' => Good(c)
        BY DEF Good, Live, Lost, Receive, client
    <2>2. u # <<>>
        BY <1>2, <1>3, EmptyOnly
    <2>3. Good(c) => Asking(c)
        BY <2>2 DEF StepInv, InPlace, Idle, Served
    <2>4. ASSUME Asking(c) PROVE Asking(c)'
        <3>1. PICK rest \in Seq(Byte) :
                /\ Bytes(request[c]) = Stretch(expected[c], r, u, rest)
                /\ c \notin gone => rest = <<>>
            BY <2>4 DEF Asking
        <3>2. Stretch(expected[c], readBuffer'[c], upstream'[c], rest)
                = Stretch(expected[c], r, u, rest)
            BY <1>6 DEF Stretch
        <3>3. /\ request' = request /\ expected' = expected /\ gone' = gone
              /\ writeBuffer' = writeBuffer /\ downstream' = downstream
            BY DEF Receive, client
        <3> QED BY <2>4, <3>1, <3>2, <3>3, AskingAgain DEF Asking
    <2> QED BY <2>1, <2>3, <2>4 DEF InPlace
<1> QED BY <1>7, <1>8, <1>9 DEF Keeps

LEMMA ReceiveNothingKeeps ==
    ASSUME StepInv, NEW c \in Clients, ReceiveNothing(c)
    PROVE  Keeps(c)
<1>1. watched' = [watched EXCEPT ![c] = "closed"]
    BY DEF ReceiveNothing, KillSocket
<1>2. Typed' /\ \A d \in Clients \ {c} : Apart(d)
    BY <1>1 DEF StepInv, Typed, ReceiveNothing, Apart, client
<1>3. Settled'
    BY DEF StepInv, Settled, ReceiveNothing
<1>4. InPlace(c)'
    BY <1>1, ClosedIsInPlace DEF StepInv, Typed
<1> QED BY <1>2, <1>3, <1>4 DEF Keeps

\* A handler that returns resets a session that is closed.
LEMMA ReturnKeeps ==
    ASSUME StepInv, NEW c \in Clients, Return(c),
           watched' \in [Clients -> {"none", "read", "write", "closed"}],
           \A d \in Clients \ {c} : watched'[d] = watched[d],
           UNCHANGED <<settings, client, downstream>>,
           watched'[c] = "closed" \/ watched'[c] = watched[c]
    PROVE  Keeps(c)
<1>1. CASE watched'[c] = "closed"
    <2>1. /\ loggedIn' = [loggedIn EXCEPT ![c] = FALSE]
          /\ expected' = [expected EXCEPT ![c] = HEADER]
          /\ readBuffer' = [readBuffer EXCEPT ![c] = <<>>]
          /\ writeBuffer' = [writeBuffer EXCEPT ![c] = <<>>]
          /\ upstream' = [upstream EXCEPT ![c] = <<>>]
        BY <1>1 DEF Return
    <2>2. HEADER \in Byte /\ <<>> \in Seq(Byte) /\ Len(<<>>) <= BufferSpace
        BY ManagementAssumption DEF HEADER, Byte
    <2>3. Typed'
        BY <2>1, <2>2 DEF StepInv, Typed, client
    <2>4. \A d \in Clients \ {c} : Apart(d)
        BY <2>1 DEF StepInv, Typed, Apart, client
    <2>5. Settled'
        BY DEF StepInv, Settled
    <2> QED BY <1>1, <2>3, <2>4, <2>5, ClosedIsInPlace DEF Keeps
<1>2. CASE watched'[c] # "closed"
    <2>1. UNCHANGED <<loggedIn, expected, readBuffer, writeBuffer, upstream>>
        BY <1>2 DEF Return
    <2>2. Typed'
        BY <2>1 DEF StepInv, Typed, client
    <2>3. Settled'
        BY DEF StepInv, Settled
    <2>4. \A d \in Clients : Apart(d)
        BY <1>2, <2>1 DEF Apart, client
    <2>5. InPlace(c)'
        BY <2>4, ApartKeeps DEF StepInv
    <2> QED BY <2>2, <2>3, <2>4, <2>5 DEF Keeps
<1> QED BY <1>1, <1>2

LEMMA WriteFailsKeeps ==
    ASSUME StepInv, NEW c \in Clients, WriteFails(c)
    PROVE  Keeps(c)
BY ReturnKeeps DEF WriteFails, KillSocket, StepInv, Typed

LEMMA transformationsFailsKeeps ==
    ASSUME StepInv, NEW c \in Clients, transformationsFails(c)
    PROVE  Keeps(c)
BY ReturnKeeps DEF transformationsFails, KillSocket, StepInv, Typed

LEMMA ReadReturnsKeeps ==
    ASSUME StepInv, NEW c \in Clients, ReadReturns(c)
    PROVE  Keeps(c)
BY ReturnKeeps DEF ReadReturns, StepInv, Typed

LEMMA readUnknownKeeps ==
    ASSUME StepInv, NEW c \in Clients, readUnknown(c)
    PROVE  Keeps(c)
<1>1. watched' = [watched EXCEPT ![c] = "closed"]
    BY DEF readUnknown, KillSocket
<1>2. Typed' /\ \A d \in Clients \ {c} : Apart(d)
    BY <1>1 DEF StepInv, Typed, readUnknown, Apart, client
<1>3. Settled'
    BY DEF StepInv, Settled, readUnknown
<1>4. InPlace(c)'
    BY <1>1, ClosedIsInPlace DEF StepInv, Typed
<1> QED BY <1>2, <1>3, <1>4 DEF Keeps

\* A sequence that begins with two bytes.
LEMMA FirstTwo ==
    ASSUME NEW r \in Seq(Byte), NEW u \in Seq(Byte), Len(r) >= 2
    PROVE  /\ Drop(r, 2) \in Seq(Byte) /\ r[1] \in Byte /\ r[2] \in Byte
           /\ r \o u = <<r[1], r[2]>> \o (Drop(r, 2) \o u)
           /\ Len(r \o u) > 1 /\ (r \o u)[1] = r[1] /\ (r \o u)[2] = r[2]
<1> DEFINE h == <<r[1], r[2]>>
           t == Drop(r, 2)
           f == SubSeq(r, 1, 2)
<1>1. Len(r) \in Nat /\ 2 \in 0 .. Len(r) /\ r[1] \in Byte /\ r[2] \in Byte
    <2>1. Len(r) \in Nat /\ \A i \in 1 .. Len(r) : r[i] \in Byte
        BY LenProperties, ElementOfSeq
    <2> QED BY <2>1
<1>2. /\ f \in Seq(Byte) /\ Len(f) = 2 /\ (\A i \in 1 .. 2 : f[i] = r[i])
      /\ t \in Seq(Byte) /\ f \o t = r
    BY <1>1, Dropped
<1>3. h \in Seq(Byte) /\ Len(h) = 2 /\ h[1] = r[1] /\ h[2] = r[2]
    BY <1>1
<1> HIDE DEF f, t, h
<1>4. f = h
    <2>1. \A i \in 1 .. 2 : f[i] = h[i]
        BY <1>2, <1>3
    <2> QED BY <1>2, <1>3, <2>1, SeqEqual
<1>5. Cat(Cat(h, t), u) = Cat(h, Cat(t, u))
    <2>1. h \in Seq(Byte) /\ t \in Seq(Byte) /\ u \in Seq(Byte)
        BY <1>2, <1>3
    <2> QED BY <2>1, Associative
<1>6. r \o u = h \o (t \o u)
    <2>1. Cat(r, u) = Cat(h, Cat(t, u))
        BY <1>2, <1>4, <1>5 DEF Cat
    <2> QED BY <2>1, Zenon DEF Cat
<1>7. Len(r \o u) > 1 /\ (r \o u)[1] = r[1] /\ (r \o u)[2] = r[2]
    <2>1. Len(r \o u) = Len(r) + Len(u) /\ Len(u) \in Nat
          /\ \A i \in 1 .. Len(r) : (r \o u)[i] = r[i]
        BY Joined
    <2>2. 1 \in 1 .. Len(r) /\ 2 \in 1 .. Len(r)
        BY <1>1
    <2> QED BY <1>1, <2>1, <2>2
<1> QED BY <1>1, <1>2, <1>6, <1>7 DEF h, t

LEMMA ReadHeaderKeeps ==
    ASSUME StepInv, NEW c \in Clients, ReadHeader(c)
    PROVE  Keeps(c)
<1> DEFINE r == readBuffer[c]
           u == upstream[c]
<1>1. /\ r \in Seq(Byte) /\ u \in Seq(Byte) /\ Len(r) >= 2 /\ expected[c] = HEADER
      /\ readBuffer' = [readBuffer EXCEPT ![c] = Drop(r, 2)]
      /\ expected' = [expected EXCEPT ![c] = r[2]]
      /\ upstream' = upstream /\ writeBuffer' = writeBuffer /\ downstream' = downstream
      /\ request' = request /\ loggedIn' = loggedIn /\ gone' = gone /\ told' = told
    BY DEF StepInv, Typed, ReadHeader, Reads, Consume, client
<1>2. Drop(r, 2) \in Seq(Byte) /\ r[1] \in Byte /\ r[2] \in Byte
    <2>1. r \in Seq(Byte) /\ u \in Seq(Byte) /\ Len(r) >= 2
        BY <1>1
    <2> HIDE DEF r, u
    <2> QED BY <2>1, FirstTwo
<1>3. watched' = watched \/ watched' = [watched EXCEPT ![c] = "closed"]
    BY DEF ReadHeader, KillSocket
<1>4. Typed'
    BY <1>1, <1>2, <1>3 DEF StepInv, Typed
<1>5. \A d \in Clients \ {c} : Apart(d)
    BY <1>1, <1>3 DEF StepInv, Typed, Apart
<1>6. Settled'
    BY DEF StepInv, Settled, ReadHeader
<1>7. ASSUME Good(c)' PROVE Asking(c)'
    <2>1. watched'[c] # "closed"
        BY <1>7 DEF Good, Live
    <2>2. r[1] = 1 /\ watched' = watched
        BY <2>1 DEF ReadHeader, KillSocket, StepInv, Typed
    <2>3. Good(c)
        BY <1>1, <1>7, <2>2 DEF Good, Live, Lost, HEADER, METRICS
    <2>4. r # <<>>
        BY <1>1, EmptyOnly
    <2>5. Asking(c)
        BY <2>3, <2>4 DEF StepInv, InPlace, Idle, Served
    <2>6. PICK rest \in Seq(Byte) :
            Bytes(request[c]) = <<>> \o (r \o (u \o rest)) /\ (c \notin gone => rest = <<>>)
        BY <1>1, <2>5 DEF Asking, Stretch
    <2> DEFINE w == u \o rest
    <2>7. w \in Seq(Byte) /\ r \o w \in Seq(Byte)
        BY <1>1, Joined
    <2> HIDE DEF w
    <2>8. Bytes(request[c]) = r \o w
        <3>1. <<>> \o (r \o w) = r \o w
            BY <2>7, Joined, Empty
        <3> QED BY <2>6, <3>1 DEF w
    <2>9. /\ r \o w = <<r[1], r[2]>> \o (Drop(r, 2) \o w)
          /\ Len(r \o w) > 1 /\ (r \o w)[1] = r[1] /\ (r \o w)[2] = r[2]
        <3>1. r \in Seq(Byte) /\ Len(r) >= 2
            BY <1>1
        <3> HIDE DEF r
        <3> QED BY <2>7, <3>1, FirstTwo
    <2>10. r[2] # HEADER
        <3>1. Whole(r \o w)
            BY <2>5, <2>8, InProgress
        <3> QED BY <2>2, <2>9, <3>1 DEF Whole
    <2>11. readBuffer'[c] = Drop(r, 2) /\ expected'[c] = r[2] /\ upstream'[c] = u
        BY <1>1 DEF StepInv, Typed
    <2>12. Bytes(request[c]) = <<1, r[2]>> \o (Drop(r, 2) \o (u \o rest))
        BY <2>2, <2>8, <2>9 DEF w
    <2>13. Bytes(request[c]) = Stretch(expected'[c], readBuffer'[c], upstream'[c], rest)
        BY <2>10, <2>11, <2>12 DEF Stretch
    <2>14. /\ request' = request /\ gone' = gone /\ request[c] # None
           /\ writeBuffer'[c] = <<>> /\ downstream'[c] = <<>>
        BY <1>1, <2>5 DEF Asking
    <2> QED BY <2>6, <2>13, <2>14, AskingAgain
<1> QED BY <1>4, <1>5, <1>6, <1>7 DEF Keeps, InPlace

\* The two names end with two zero bytes.
LEMMA NamesEnd ==
    ASSUME NEW r \in Seq(Byte), Names(r).complete
    PROVE  \E n \in 1 .. Len(r) : \E k \in n + 1 .. Len(r) :
              Names(r).length = k /\ r[n] = 0 /\ r[k] = 0
<1> DEFINE n == PeekUntilNull(r, NameSize)
           t == IF n > 0 THEN Drop(r, n) ELSE r
           m == PeekUntilNull(t, NameSize)
<1>1. n > 0 /\ m > 0 /\ Names(r).length = n + m
    BY DEF Names
<1>2. n \in Int /\ n >= -1 /\ n \in 1 .. Len(r) /\ r[n] = 0 /\ Len(r) \in Nat
    BY <1>1, PeekFinds, LenProperties, ManagementAssumption
<1> HIDE DEF n
<1>3. t = Drop(r, n) /\ n \in 0 .. Len(r)
    BY <1>1, <1>2
<1>4. t \in Seq(Byte) /\ Len(t) = Len(r) - n /\ \A i \in 1 .. Len(r) - n : t[i] = r[n + i]
    BY <1>3, Dropped
<1> HIDE DEF t
<1>5. m \in Int /\ m \in 1 .. Len(t) /\ t[m] = 0
    BY <1>1, <1>4, PeekFinds, ManagementAssumption
<1> HIDE DEF m
<1>6. n + m \in n + 1 .. Len(r) /\ r[n + m] = 0
    BY <1>2, <1>4, <1>5
<1> QED BY <1>1, <1>2, <1>6

LEMMA loginKeeps ==
    ASSUME StepInv, NEW c \in Clients, login(c)
    PROVE  Keeps(c)
<1> DEFINE r == readBuffer[c]
           names == Names(r)
           right == names.name \in DOMAIN Users /\ Users[names.name] = names.word
           a == IF right THEN <<OK>> ELSE <<PERMISSION_DENIED>>
<1>1. /\ r \in Seq(Byte) /\ expected[c] = LOGIN /\ names.complete
      /\ readBuffer' = [readBuffer EXCEPT ![c] = Drop(r, names.length)]
      /\ loggedIn' = [loggedIn EXCEPT ![c] = @ \/ right]
      /\ writeBuffer' = [writeBuffer EXCEPT ![c] = Put(writeBuffer[c], a)]
      /\ expected' = [expected EXCEPT ![c] = HEADER]
      /\ watched' = [watched EXCEPT ![c] = IF @ = "closed" THEN @ ELSE "write"]
      /\ upstream' = upstream /\ downstream' = downstream
      /\ request' = request /\ gone' = gone /\ settings' = settings /\ told' = told
    BY DEF StepInv, Typed, login, Reads, Consume, Respond, SetInterest, client
<1>2. PICK n \in 1 .. Len(r) : \E k \in n + 1 .. Len(r) :
              names.length = k /\ r[n] = 0 /\ r[k] = 0
    BY <1>1, NamesEnd
<1>3. PICK k \in n + 1 .. Len(r) : names.length = k /\ r[n] = 0 /\ r[k] = 0
    BY <1>2
<1> HIDE DEF names
<1>4. k \in 0 .. Len(r) /\ Len(r) \in Nat /\ n \in 1 .. Len(r) /\ n < k /\ k \in 1 .. Len(r)
    BY <1>1, LenProperties
<1>5. Drop(r, k) \in Seq(Byte)
    BY <1>1, <1>4, Dropped
<1> HIDE DEF right
<1>6. a \in Seq(Byte)
    <2>1. <<OK>> \in Seq(Byte) /\ <<PERMISSION_DENIED>> \in Seq(Byte)
        BY DEF Byte, OK, PERMISSION_DENIED
    <2> QED BY <2>1
<1> HIDE DEF a
<1>7. Put(writeBuffer[c], a) \in Seq(Byte) /\ Len(Put(writeBuffer[c], a)) <= BufferSpace
    BY <1>6, PutIs DEF StepInv, Typed
<1>8. Typed'
    <2>1. HEADER \in Byte
        BY DEF HEADER, Byte
    <2>2. loggedIn' \in [Clients -> BOOLEAN]
        BY <1>1 DEF StepInv, Typed, right
    <2> QED BY <1>1, <1>3, <1>5, <1>7, <2>1, <2>2 DEF StepInv, Typed
<1>9. \A d \in Clients \ {c} : Apart(d)
    BY <1>1 DEF StepInv, Typed, Apart
<1>10. Settled'
    BY <1>1 DEF StepInv, Settled
<1>11. ASSUME Good(c)' PROVE InPlace(c)'
    <2>1. Good(c)
        <3>1. watched[c] # "closed"
            BY <1>1, <1>11 DEF Good, Live, StepInv, Typed
        <3> QED BY <1>1, <3>1 DEF Good, Live, Lost, LOGIN, METRICS
    <2>2. Asking(c) /\ expected[c] # HEADER
        BY <1>1, <2>1, HeaderIsRead DEF LOGIN, HEADER
    <2> DEFINE b == Bytes(request[c])
    <2>3. /\ Len(b) \in Nat /\ Len(b) > 1 /\ b[1] = 1 /\ b[2] = LOGIN
          /\ Len(b) >= 2 + Len(r) /\ \A i \in 1 .. Len(r) : b[2 + i] = r[i]
        <3>1. /\ Len(b) \in Nat /\ Len(b) > 1 /\ b[1] = 1 /\ b[2] = expected[c]
              /\ Len(b) >= 2 + Len(r) /\ \A i \in 1 .. Len(r) : b[2 + i] = r[i]
            BY <2>2, BehindHeader
        <3> HIDE DEF b, r
        <3> QED BY <1>1, <3>1, Zenon
    <2>4. Whole(b) /\ IsRequest(request[c])
        BY <2>2, InProgress
    <2> HIDE DEF b
    <2>5. Len(b) = 2 + k
        <3>1. 2 + n \in 3 .. Len(b) /\ 2 + k \in 3 .. Len(b) /\ 2 + n < 2 + k
            BY <1>4, <2>3
        <3>2. b[2 + n] = 0 /\ b[2 + k] = 0
            BY <1>3, <1>4, <2>3
        <3> QED BY <2>3, <2>4, <3>1, <3>2 DEF Whole
    <2>6. request[c].op \in {"login", "odd"}
        BY <2>3, <2>4, KindOf DEF b
    <2>7. IsAnswer(request[c], Put(<<>>, a))
        BY <2>6, GrantedIsAnswer, DeniedIsAnswer DEF a
    <2>8. Len(Bytes(request[c])) <= 2 + k
        BY <2>3, <2>5 DEF b
    <2> QED BY <1>1, <1>3, <1>4, <2>2, <2>7, <2>8, Answering DEF StepInv, Typed
<1> QED BY <1>8, <1>9, <1>10, <1>11 DEF Keeps, InPlace

LEMMA metricsKeeps ==
    ASSUME StepInv, NEW c \in Clients, metrics(c)
    PROVE  Keeps(c)
<1> DEFINE r == readBuffer[c]
<1>1. PICK v \in Counts : Respond(c, <<OK>> \o Word(v))
    BY DEF metrics
<1> DEFINE a == <<OK>> \o Word(v)
<1>2. /\ r \in Seq(Byte) /\ Len(r) >= 1 /\ expected[c] = METRICS /\ loggedIn[c]
      /\ readBuffer' = [readBuffer EXCEPT ![c] = Drop(r, 1)]
      /\ writeBuffer' = [writeBuffer EXCEPT ![c] = Put(writeBuffer[c], a)]
      /\ expected' = [expected EXCEPT ![c] = HEADER]
      /\ upstream' = upstream /\ downstream' = downstream /\ loggedIn' = loggedIn
      /\ request' = request /\ gone' = gone /\ settings' = settings /\ told' = told
    BY <1>1 DEF StepInv, Typed, metrics, Reads, Consume, Respond, client
<1>3. \/ watched' = [watched EXCEPT ![c] = IF @ = "closed" THEN @ ELSE "write"]
      \/ watched' = [watched EXCEPT ![c] = "closed"]
    BY DEF metrics, SetInterest, KillSocket
<1>4. 1 \in 0 .. Len(r)
    BY <1>2, LenProperties
<1>5. Drop(r, 1) \in Seq(Byte)
    BY <1>2, <1>4, Dropped
<1>6. a \in Seq(Byte)
    <2>1. v \in 0 .. 255
        BY ManagementAssumption
    <2>2. <<OK>> \in Seq(Byte) /\ Word(v) \in Seq(Byte)
        BY <2>1 DEF Word, Byte, OK
    <2> QED BY <2>2, Joined
<1> HIDE DEF a
<1>7. Put(writeBuffer[c], a) \in Seq(Byte) /\ Len(Put(writeBuffer[c], a)) <= BufferSpace
    BY <1>6, PutIs DEF StepInv, Typed
<1>8. Typed'
    <2>1. HEADER \in Byte
        BY DEF HEADER, Byte
    <2> QED BY <1>2, <1>3, <1>5, <1>7, <2>1 DEF StepInv, Typed
<1>9. \A d \in Clients \ {c} : Apart(d)
    BY <1>2, <1>3 DEF StepInv, Typed, Apart
<1>10. Settled'
    BY <1>2 DEF StepInv, Settled
<1>11. ASSUME Good(c)' PROVE InPlace(c)'
    <2>1. Good(c)
        <3>1. watched[c] # "closed"
            BY <1>2, <1>3, <1>11 DEF Good, Live, StepInv, Typed
        <3> QED BY <1>2, <3>1 DEF Good, Live, Lost
    <2>2. Asking(c) /\ expected[c] # HEADER
        BY <1>2, <2>1, HeaderIsRead DEF METRICS, HEADER
    <2> DEFINE b == Bytes(request[c])
    <2>3. Len(b) \in Nat /\ Len(b) > 1 /\ b[1] = 1 /\ b[2] = METRICS
        <3>1. Len(b) \in Nat /\ Len(b) > 1 /\ b[1] = 1 /\ b[2] = expected[c]
            BY <2>2, BehindHeader
        <3> HIDE DEF b, r
        <3> QED BY <1>2, <3>1, Zenon
    <2>4. Whole(b) /\ IsRequest(request[c])
        BY <2>2, InProgress
    <2>5. Len(b) <= 2 + 1
        <3> HIDE DEF b
        <3> QED BY <2>3, <2>4 DEF Whole
    <2>6. request[c].op = "metric"
        BY <2>3, <2>4, KindOf
    <2>7. IsAnswer(request[c], Put(<<>>, a))
        BY <2>6, MetricIsAnswer DEF a
    <2> QED BY <1>2, <1>4, <2>2, <2>5, <2>7, Answering DEF StepInv, Typed
<1> QED BY <1>8, <1>9, <1>10, <1>11 DEF Keeps, InPlace

\* A client that is denied a metric is lost from then on.
LEMMA metricsDeniedKeeps ==
    ASSUME StepInv, NEW c \in Clients, metricsDenied(c)
    PROVE  Keeps(c)
<1> DEFINE r == readBuffer[c]
           a == <<PERMISSION_DENIED>>
<1>1. /\ r \in Seq(Byte) /\ Len(r) >= 1 /\ expected[c] = METRICS /\ ~loggedIn[c]
      /\ readBuffer' = [readBuffer EXCEPT ![c] = Drop(r, 1)]
      /\ writeBuffer' = [writeBuffer EXCEPT ![c] = Put(writeBuffer[c], a)]
      /\ watched' = [watched EXCEPT ![c] = IF @ = "closed" THEN @ ELSE "write"]
      /\ upstream' = upstream /\ downstream' = downstream /\ loggedIn' = loggedIn
      /\ request' = request /\ gone' = gone /\ settings' = settings /\ expected' = expected
      /\ told' = told
    BY DEF StepInv, Typed, metricsDenied, Reads, Consume, SetInterest, client
<1>2. 1 \in 0 .. Len(r)
    BY <1>1, LenProperties
<1>3. Drop(r, 1) \in Seq(Byte)
    BY <1>1, <1>2, Dropped
<1>4. a \in Seq(Byte)
    BY DEF Byte, PERMISSION_DENIED
<1> HIDE DEF a
<1>5. Put(writeBuffer[c], a) \in Seq(Byte) /\ Len(Put(writeBuffer[c], a)) <= BufferSpace
    BY <1>4, PutIs DEF StepInv, Typed
<1>6. Typed'
    BY <1>1, <1>3, <1>5 DEF StepInv, Typed
<1>7. \A d \in Clients \ {c} : Apart(d)
    BY <1>1 DEF StepInv, Typed, Apart
<1>8. Settled'
    BY <1>1 DEF StepInv, Settled
<1>9. InPlace(c)'
    BY <1>1 DEF InPlace, Good, Lost
<1> QED BY <1>6, <1>7, <1>8, <1>9 DEF Keeps

-----------------------------------------------------------------------------
(* The requests of transformations. *)

\* The request a transformations structure belongs to.
LEMMA TransformationOf ==
    ASSUME StepInv, NEW c \in Clients, Asking(c), NEW code, NEW n \in Nat, Transforms(c, code, n)
    PROVE  LET b == Bytes(request[c])
           IN  /\ Len(b) \in Nat /\ Len(b) > 2 /\ b[1] = 1 /\ b[2] = TRANSFORMATIONS /\ b[3] = code
               /\ Len(b) >= 2 + Len(readBuffer[c])
               /\ \A i \in 1 .. Len(readBuffer[c]) : b[2 + i] = readBuffer[c][i]
               /\ Whole(b) /\ IsRequest(request[c])
<1> DEFINE b == Bytes(request[c])
           r == readBuffer[c]
<1>1. expected[c] = TRANSFORMATIONS /\ Len(r) >= n /\ n > 0 /\ r[1] = code /\ Len(r) \in Nat
    BY LenProperties DEF Transforms, Reads, StepInv, Typed
<1>2. expected[c] # HEADER
    BY <1>1 DEF TRANSFORMATIONS, HEADER
<1>3. /\ Len(b) \in Nat /\ b[1] = 1 /\ b[2] = expected[c] /\ Len(b) >= 2 + Len(r)
      /\ \A i \in 1 .. Len(r) : b[2 + i] = r[i]
    BY <1>2, BehindHeader
<1>4. Whole(b) /\ IsRequest(request[c])
    BY InProgress
<1> HIDE DEF b, r
<1>5. Len(b) > 2 /\ b[3] = code
    <2>1. 1 \in 1 .. Len(r) /\ 2 + 1 = 3
        BY <1>1
    <2>2. Len(b) > 2
        BY <1>1, <1>3
    <2> QED BY <1>1, <1>3, <2>1, <2>2
<1>6. b[2] = TRANSFORMATIONS
    BY <1>1, <1>3, Zenon
<1> QED BY <1>3, <1>4, <1>5, <1>6 DEF b, r

LEMMA TransformsKeeps ==
    ASSUME StepInv, NEW c \in Clients, NEW code, NEW n \in Nat, Transforms(c, code, n),
           NEW a \in Seq(Byte), Respond(c, a), Settled',
           Asking(c) => /\ Len(Bytes(request[c])) <= 2 + n
                        /\ IsAnswer(request[c], Put(<<>>, a))
    PROVE  Keeps(c)
<1> DEFINE r == readBuffer[c]
<1>1. /\ r \in Seq(Byte) /\ Len(r) >= n /\ expected[c] = TRANSFORMATIONS
      /\ readBuffer' = [readBuffer EXCEPT ![c] = Drop(r, n)]
      /\ writeBuffer' = [writeBuffer EXCEPT ![c] = Put(writeBuffer[c], a)]
      /\ expected' = [expected EXCEPT ![c] = HEADER]
      /\ watched' = [watched EXCEPT ![c] = IF @ = "closed" THEN @ ELSE "write"]
      /\ upstream' = upstream /\ downstream' = downstream /\ loggedIn' = loggedIn
      /\ request' = request /\ gone' = gone /\ told' = told
    BY DEF StepInv, Typed, Transforms, Reads, Consume, Respond, SetInterest, client
<1>2. n \in 0 .. Len(r)
    BY <1>1, LenProperties
<1>3. Drop(r, n) \in Seq(Byte)
    BY <1>1, <1>2, Dropped
<1>4. Put(writeBuffer[c], a) \in Seq(Byte) /\ Len(Put(writeBuffer[c], a)) <= BufferSpace
    BY PutIs DEF StepInv, Typed
<1>5. Typed'
    <2>1. HEADER \in Byte
        BY DEF HEADER, Byte
    <2> QED BY <1>1, <1>3, <1>4, <2>1 DEF StepInv, Typed
<1>6. \A d \in Clients \ {c} : Apart(d)
    BY <1>1 DEF StepInv, Typed, Apart
<1>7. ASSUME Good(c)' PROVE InPlace(c)'
    <2>1. Good(c)
        <3>1. watched[c] # "closed"
            BY <1>1, <1>7 DEF Good, Live, StepInv, Typed
        <3> QED BY <1>1, <3>1 DEF Good, Live, Lost, TRANSFORMATIONS, METRICS
    <2>2. Asking(c) /\ expected[c] # HEADER
        BY <1>1, <2>1, HeaderIsRead DEF TRANSFORMATIONS, HEADER
    <2> QED BY <1>1, <1>2, <2>2, Answering DEF StepInv, Typed
<1> QED BY <1>5, <1>6, <1>7 DEF Keeps, InPlace

LEMMA ShortAnswers == <<OK>> \in Seq(Byte) /\ <<PERMISSION_DENIED>> \in Seq(Byte)
BY DEF OK, PERMISSION_DENIED, Byte

LEMMA setStatusKeeps ==
    ASSUME StepInv, NEW c \in Clients, setStatus(c)
    PROVE  Keeps(c)
<1> DEFINE v == readBuffer[c][2]
           granted == loggedIn[c] /\ v \in {0, 1}
           a == IF granted THEN <<OK>> ELSE <<PERMISSION_DENIED>>
<1>1. /\ Transforms(c, SET_STATUS, 2) /\ Respond(c, a)
      /\ settings' = IF granted THEN [settings EXCEPT !.status = v] ELSE settings
    BY DEF setStatus
<1>2. a \in {<<OK>>, <<PERMISSION_DENIED>>} /\ a \in Seq(Byte)
    BY ShortAnswers
<1>3. Settled'
    <2>1. settings' = settings \/ (v \in {0, 1} /\ settings' = [settings EXCEPT !.status = v])
        BY <1>1
    <2> HIDE DEF v
    <2>2. CASE v \in {0, 1} /\ settings' = [settings EXCEPT !.status = v]
        <3>1. "status" \notin Strings
            BY DEF Strings
        <3>2. \A name \in Strings : settings'[name] = settings[name]
            BY <2>2, <3>1 DEF StepInv, Settled
        <3>3. settings'.status \in Byte
            BY <2>2 DEF StepInv, Settled, Byte
        <3>4. DOMAIN settings' = DOMAIN settings
            BY <2>2
        <3>5. settings'.media = settings.media /\ settings'.command = settings.command
            BY <3>2 DEF Strings
        <3> QED BY <3>3, <3>4, <3>5 DEF StepInv, Settled
    <2>3. CASE settings' = settings
        BY <2>3 DEF StepInv, Settled
    <2> QED BY <2>1, <2>2, <2>3
<1> HIDE DEF a
<1>4. ASSUME Asking(c)
      PROVE  Len(Bytes(request[c])) <= 2 + 2 /\ IsAnswer(request[c], Put(<<>>, a))
    <2> DEFINE b == Bytes(request[c])
    <2>1. /\ Len(b) \in Nat /\ Len(b) > 2 /\ b[1] = 1 /\ b[2] = TRANSFORMATIONS
          /\ b[3] = SET_STATUS /\ Whole(b) /\ IsRequest(request[c])
        BY <1>1, <1>4, TransformationOf
    <2>2. request[c].op \in {"set", "odd"}
        BY <2>1, KindOf
    <2>3. Len(b) <= 4
        <3> HIDE DEF b
        <3> QED BY <2>1 DEF Whole
    <2> QED BY <1>2, <2>2, <2>3, GrantedIsAnswer, DeniedIsAnswer
<1> QED BY <1>1, <1>2, <1>3, <1>4, TransformsKeeps

LEMMA getStatusKeeps ==
    ASSUME StepInv, NEW c \in Clients, getStatus(c)
    PROVE  Keeps(c)
<1> DEFINE a == IF loggedIn[c] THEN <<OK, settings.status>> ELSE <<PERMISSION_DENIED>>
<1>1. Transforms(c, GET_STATUS, 1) /\ Respond(c, a) /\ settings' = settings
    BY DEF getStatus
<1>2. settings.status \in Byte /\ a \in {<<OK, settings.status>>, <<PERMISSION_DENIED>>}
    BY DEF StepInv, Settled
<1>3. a \in Seq(Byte)
    <2>1. OK \in Byte
        BY DEF OK, Byte
    <2>2. <<OK, settings.status>> \in Seq(Byte)
        BY <1>2, <2>1
    <2> QED BY <1>2, <2>2, ShortAnswers
<1>4. Settled'
    BY <1>1 DEF StepInv, Settled
<1> HIDE DEF a
<1>5. ASSUME Asking(c)
      PROVE  Len(Bytes(request[c])) <= 2 + 1 /\ IsAnswer(request[c], Put(<<>>, a))
    <2> DEFINE b == Bytes(request[c])
    <2>1. /\ Len(b) \in Nat /\ Len(b) > 2 /\ b[1] = 1 /\ b[2] = TRANSFORMATIONS
          /\ b[3] = GET_STATUS /\ Whole(b) /\ IsRequest(request[c])
        BY <1>1, <1>5, TransformationOf
    <2>2. request[c].op = "get" /\ request[c].what = "status"
        BY <2>1, KindOf
    <2>3. Len(b) = 3
        <3> HIDE DEF b
        <3> QED BY <2>1 DEF Whole, LOGIN, METRICS, HEADER, TRANSFORMATIONS, GET_STATUS
    <2> QED BY <1>2, <2>2, <2>3, StatusIsAnswer, DeniedIsAnswer
<1> QED BY <1>1, <1>3, <1>4, <1>5, TransformsKeeps

\* A string that is taken is a text, and fits.
LEMMA ArgumentIs ==
    ASSUME StepInv, NEW c \in Clients, Argument(c) > 0
    PROVE  LET r == readBuffer[c]
               n == Argument(c)
           IN  /\ n \in Nat /\ n <= ArgumentSize /\ 1 + n \in 2 .. Len(r) /\ r[1 + n] = 0
               /\ SubSeq(r, 2, n) \in Text /\ Len(SubSeq(r, 2, n)) <= ArgumentSize
<1> DEFINE r == readBuffer[c]
           t == Drop(r, 1)
           n == PeekUntilNull(t, ArgumentSize)
           s == SubSeq(r, 2, n)
<1>1. r \in Seq(Byte) /\ Len(r) \in Nat /\ n > 0 /\ n = Argument(c)
      /\ ArgumentSize \in Nat
    BY LenProperties, ManagementAssumption DEF StepInv, Typed, Argument
<1> HIDE DEF r
<1>2. t \in Seq(Byte) /\ Len(t) \in Nat
    <2>1. CASE Len(r) = 0
        <3>1. t = <<>>
            <4>1. 1 \in Nat /\ 1 >= Len(r)
                BY <2>1
            <4> QED BY <1>1, <4>1, DroppedAll
        <3> QED BY <3>1, Empty
    <2>2. CASE Len(r) > 0
        <3>1. 1 \in 0 .. Len(r)
            BY <1>1, <2>2
        <3> QED BY <1>1, <3>1, Dropped, LenProperties
    <2> QED BY <1>1, <2>1, <2>2
<1> HIDE DEF t
<1>3. n \in Int /\ n \in 1 .. Len(t) /\ n <= ArgumentSize /\ t[n] = 0
      /\ \A j \in 1 .. n - 1 : t[j] # 0
    BY <1>1, <1>2, PeekFinds
<1> HIDE DEF n
<1>4. Len(r) > 0
    <2> SUFFICES ASSUME Len(r) = 0 PROVE FALSE
        BY <1>1
    <2>1. Len(t) = 0
        <3>1. 1 \in Nat /\ 1 >= Len(r)
            OBVIOUS
        <3> QED BY <1>1, <3>1, DroppedAll, Empty DEF t
    <2> QED BY <1>3, <2>1
<1>5. Len(t) = Len(r) - 1 /\ \A i \in 1 .. Len(r) - 1 : t[i] = r[1 + i]
    <2>1. 1 \in 0 .. Len(r)
        BY <1>1, <1>4
    <2> QED BY <1>1, <2>1, Dropped DEF t
<1>6. 1 + n \in 2 .. Len(r) /\ r[1 + n] = 0
    BY <1>1, <1>3, <1>5
<1>7. \A i \in 2 .. n : r[i] \in 1 .. 255
    <2> SUFFICES ASSUME NEW i \in 2 .. n PROVE r[i] \in 1 .. 255
        OBVIOUS
    <2>1. i - 1 \in 1 .. n - 1 /\ i - 1 \in 1 .. Len(r) - 1 /\ 1 + (i - 1) = i
          /\ i \in 1 .. Len(r)
        BY <1>1, <1>3, <1>5
    <2>2. r[i] # 0
        BY <1>3, <1>5, <2>1
    <2>3. r[i] \in Byte
        BY <1>1, <2>1, ElementOfSeq
    <2> QED BY <2>2, <2>3 DEF Byte
<1>8. s \in Seq(1 .. 255) /\ Len(s) = n - 1
    <2>1. n \in Int /\ 2 \in Int /\ n >= 1
        BY <1>3
    <2>2. s \in Seq(1 .. 255) /\ Len(s) = IF 2 <= n THEN n - 2 + 1 ELSE 0
        BY <1>7, <2>1, SubSeqProperties
    <2> HIDE DEF s
    <2> QED BY <2>1, <2>2
<1>9. Len(s) <= ArgumentSize
    BY <1>1, <1>3, <1>8
<1>10. n \in Nat /\ n <= ArgumentSize
    BY <1>3
<1> QED BY <1>1, <1>6, <1>8, <1>9, <1>10 DEF Text, r

\* A string that is copied spoils the other at most: what is in the settings
\* still fits an answer.
LEMMA CopiedIsSettled ==
    ASSUME Settled, NEW name \in Strings, NEW v \in Text, Len(v) <= ArgumentSize,
           settings' = Copied(name, v)
    PROVE  Settled'
<1>1. /\ FieldSize \in Nat /\ ArgumentSize \in Nat /\ Len(v) \in Nat
      /\ Len(settings.media) \in Nat /\ Len(settings.command) \in Nat
    BY ManagementAssumption, TextIsBytes DEF Settled
<1>2. CASE name = "media"
    <2> DEFINE rest == IF Len(v) < FieldSize THEN settings.command ELSE Drop(v, FieldSize)
    <2>1. rest \in Text /\ Len(rest) <= ArgumentSize
        <3>1. CASE Len(v) < FieldSize
            BY <3>1 DEF Settled
        <3>2. CASE ~(Len(v) < FieldSize)
            <4>1. FieldSize \in 0 .. Len(v)
                BY <1>1, <3>2
            <4>2. Drop(v, FieldSize) \in Text /\ Len(Drop(v, FieldSize)) = Len(v) - FieldSize
                BY <4>1, TextPieces
            <4> QED BY <1>1, <3>2, <4>2
        <3> QED BY <3>1, <3>2
    <2>2. settings' = [settings EXCEPT !.media = v, !.command = rest]
        BY <1>2 DEF Copied
    <2> HIDE DEF rest
    <2> QED BY <1>1, <2>1, <2>2 DEF Settled, Strings
<1>3. CASE name = "command"
    <2> DEFINE first == SubSeq(settings.media, 1, FieldSize) \o v
               whole == IF Len(settings.media) < FieldSize THEN settings.media ELSE first
    <2>1. whole \in Text /\ Len(whole) <= FieldSize + ArgumentSize
        <3>1. CASE Len(settings.media) < FieldSize
            BY <3>1 DEF Settled
        <3>2. CASE ~(Len(settings.media) < FieldSize)
            <4>1. FieldSize \in 0 .. Len(settings.media)
                BY <1>1, <3>2
            <4>2. SubSeq(settings.media, 1, FieldSize) \in Text
                  /\ Len(SubSeq(settings.media, 1, FieldSize)) = FieldSize
                BY <4>1, TextPieces DEF Settled
            <4>3. first \in Text /\ Len(first) = FieldSize + Len(v)
                BY <4>2, ConcatProperties DEF Text
            <4> QED BY <1>1, <3>2, <4>3
        <3> QED BY <3>1, <3>2
    <2>2. settings' = [settings EXCEPT !.command = v, !.media = whole]
        BY <1>3 DEF Copied
    <2> HIDE DEF whole
    <2> QED BY <1>1, <2>1, <2>2 DEF Settled, Strings
<1> QED BY <1>2, <1>3 DEF Strings

LEMMA setStringKeeps ==
    ASSUME StepInv, NEW c \in Clients, NEW name \in Strings, setString(c, name)
    PROVE  Keeps(c)
<1> DEFINE n == Argument(c)
           r == readBuffer[c]
           a == IF loggedIn[c] THEN <<OK>> ELSE <<PERMISSION_DENIED>>
<1>1. /\ n > 0 /\ Transforms(c, SetCode(name), 1 + n) /\ Respond(c, a)
      /\ settings' = IF loggedIn[c] THEN Copied(name, SubSeq(r, 2, n)) ELSE settings
    BY DEF setString
<1>2. /\ n \in Nat /\ n <= ArgumentSize /\ 1 + n \in 2 .. Len(r) /\ r[1 + n] = 0
      /\ SubSeq(r, 2, n) \in Text /\ Len(SubSeq(r, 2, n)) <= ArgumentSize
    BY <1>1, ArgumentIs
<1>3. a \in {<<OK>>, <<PERMISSION_DENIED>>} /\ a \in Seq(Byte)
    BY ShortAnswers
<1>4. Settled'
    <2>1. CASE settings' = Copied(name, SubSeq(r, 2, n))
        BY <1>2, <2>1, CopiedIsSettled DEF StepInv
    <2>2. CASE settings' = settings
        BY <2>2 DEF StepInv, Settled
    <2> QED BY <1>1, <2>1, <2>2
<1> HIDE DEF a, n
<1>5. 1 + n \in Nat
    BY <1>2
<1>6. ASSUME Asking(c)
      PROVE  Len(Bytes(request[c])) <= 2 + (1 + n) /\ IsAnswer(request[c], Put(<<>>, a))
    <2> DEFINE b == Bytes(request[c])
    <2>1. /\ Len(b) \in Nat /\ Len(b) > 2 /\ b[1] = 1 /\ b[2] = TRANSFORMATIONS
          /\ b[3] = SetCode(name) /\ Whole(b) /\ IsRequest(request[c])
          /\ Len(b) >= 2 + Len(r) /\ \A i \in 1 .. Len(r) : b[2 + i] = r[i]
        BY <1>1, <1>5, <1>6, TransformationOf
    <2>2. b[3] \in {2, 4}
        BY <2>1, Codes
    <2>3. request[c].op \in {"set", "odd"}
        BY <2>1, <2>2, KindOf
    <2>4. Len(b) = 2 + (1 + n)
        <3> HIDE DEF b, r
        <3>1. /\ n \in Nat /\ n <= ArgumentSize /\ 1 + n \in 2 .. Len(r)
              /\ ArgumentSize \in Nat /\ Len(b) \in Nat /\ Len(b) >= 2 + Len(r)
            BY <1>2, <2>1, ManagementAssumption
        <3> HIDE DEF n
        <3>2. Len(r) \in Nat
            BY LenProperties DEF StepInv, Typed, r
        <3>3. 2 + (1 + n) \in 4 .. Len(b) /\ 2 + (1 + n) <= 3 + ArgumentSize /\ 1 + n \in 1 .. Len(r)
            BY <3>1, <3>2
        <3>4. b[2 + (1 + n)] = 0
            BY <1>2, <2>1, <3>3
        <3>5. \A i \in 4 .. Len(b) : b[i] = 0 /\ i <= 3 + ArgumentSize => i = Len(b)
            BY <2>1, <2>2 DEF Whole
        <3> QED BY <3>3, <3>4, <3>5
    <2>5. Len(b) <= 2 + (1 + n)
        BY <2>1, <2>4
    <2> QED BY <1>3, <2>3, <2>5, GrantedIsAnswer, DeniedIsAnswer
<1> QED BY <1>1, <1>3, <1>4, <1>5, <1>6, TransformsKeeps

LEMMA getStringKeeps ==
    ASSUME StepInv, NEW c \in Clients, NEW name \in Strings, getString(c, name)
    PROVE  Keeps(c)
<1> DEFINE v == settings[name]
           s == <<OK>> \o v \o <<0>>
           a == IF loggedIn[c] THEN s ELSE <<PERMISSION_DENIED>>
<1>1. Transforms(c, GetCode(name), 1) /\ Respond(c, a) /\ settings' = settings
    BY DEF getString
<1>2. v \in Text /\ Len(v) <= FieldSize + ArgumentSize /\ a \in {s, <<PERMISSION_DENIED>>}
    <2>1. v \in Text /\ Len(v) <= FieldSize + ArgumentSize
        <3>1. name \in {"media", "command"} /\ FieldSize \in Nat /\ ArgumentSize \in Nat
            BY ManagementAssumption DEF Strings
        <3> QED BY <3>1, TextIsBytes DEF StepInv, Settled
    <2> QED BY <2>1
<1>3. a \in Seq(Byte)
    <2>1. <<OK>> \in Seq(Byte)
        BY ShortAnswers
    <2>2. s \in Seq(Byte)
        BY <1>2, <2>1, TextBytes
    <2> QED BY <1>2, <2>2, ShortAnswers
<1>4. Settled'
    BY <1>1 DEF StepInv, Settled
<1> HIDE DEF a, v
<1>5. ASSUME Asking(c)
      PROVE  Len(Bytes(request[c])) <= 2 + 1 /\ IsAnswer(request[c], Put(<<>>, a))
    <2> DEFINE b == Bytes(request[c])
    <2>1. /\ Len(b) \in Nat /\ Len(b) > 2 /\ b[1] = 1 /\ b[2] = TRANSFORMATIONS
          /\ b[3] = GetCode(name) /\ Whole(b) /\ IsRequest(request[c])
        BY <1>1, <1>5, TransformationOf
    <2>2. b[3] \in {3, 5}
        BY <2>1, Codes
    <2>3. request[c].op = "get" /\ request[c].what \in Strings
        BY <2>1, <2>2, KindOf
    <2>4. Len(b) = 3
        <3> HIDE DEF b
        <3> QED BY <2>1, <2>2 DEF Whole, LOGIN, METRICS, HEADER, TRANSFORMATIONS, GET_STATUS
    <2>5. IsAnswer(request[c], Put(<<>>, s))
        BY <1>2, <2>3, StringIsAnswer DEF StringAnswer
    <2>6. Len(Bytes(request[c])) <= 2 + 1
        BY <2>4
    <2> QED BY <1>2, <2>5, <2>6, DeniedIsAnswer
<1> QED BY <1>1, <1>3, <1>4, <1>5, TransformsKeeps

-----------------------------------------------------------------------------
(* The write handler and the clients. *)

LEMMA WriteKeeps ==
    ASSUME StepInv, NEW c \in Clients, Write(c)
    PROVE  Keeps(c)
<1>1. /\ watched[c] = "write"
      /\ downstream' = [downstream EXCEPT ![c] = @ \o writeBuffer[c]]
      /\ writeBuffer' = [writeBuffer EXCEPT ![c] = <<>>]
      /\ watched' = [watched EXCEPT ![c] = IF @ = "closed" THEN @ ELSE "read"]
      /\ upstream' = upstream /\ readBuffer' = readBuffer /\ loggedIn' = loggedIn
      /\ expected' = expected /\ request' = request /\ gone' = gone /\ settings' = settings
      /\ told' = told
    BY DEF Write, SetInterest, client
<1>2. Typed'
    <2>1. <<>> \in Seq(Byte) /\ Len(<<>>) <= BufferSpace
        BY ManagementAssumption
    <2> QED BY <1>1, <2>1 DEF StepInv, Typed
<1>3. \A d \in Clients \ {c} : Apart(d)
    BY <1>1 DEF StepInv, Typed, Apart
<1>4. Settled'
    BY <1>1 DEF StepInv, Settled
<1>5. ASSUME Good(c)' PROVE InPlace(c)'
    <2>1. Good(c)
        BY <1>1, <1>5 DEF Good, Live, Lost, StepInv, Typed
    <2>2. downstream'[c] = downstream[c] \o writeBuffer[c] /\ writeBuffer'[c] = <<>>
        BY <1>1 DEF StepInv, Typed
    <2>3. <<>> \o <<>> = <<>>
        BY Empty, Joined
    <2>4. CASE Idle(c)
        <3>1. \/ downstream[c] = <<>> /\ downstream'[c] = <<>>
              \/ downstream[c] \in Seq(Byte) /\ downstream'[c] = downstream[c] /\ IsBeginning(told'[c])
            BY <1>1, <2>2, <2>3, <2>4, Joined DEF Idle
        <3> QED BY <1>1, <2>2, <2>4, <3>1 DEF Idle, InPlace, IsBeginning
    <2>5. CASE Asking(c)
        BY <1>1, <2>2, <2>3, <2>5 DEF Asking, InPlace, Bytes
    <2>6. CASE Served(c)
        <3>1. \/ downstream'[c] = downstream[c] /\ IsAnswer(request[c], downstream[c])
              \/ downstream'[c] = writeBuffer[c] /\ IsAnswer(request[c], writeBuffer[c])
            BY <2>2, <2>6, Empty, Joined DEF Served, IsAnswer
        <3>2. IsAnswer(request[c], downstream'[c])
            BY <3>1
        <3>3. Served(c)'
            <4>1. IsAnswer(request'[c], downstream'[c])
                BY <1>1, <3>2
            <4>2. IsAnswer(request[c], downstream[c])'
                BY <4>1 DEF IsAnswer, IsBeginning, Told, IsCut, Value, Drop, Zero, Lesser, OK
            <4> QED BY <1>1, <2>2, <2>6, <4>2 DEF Served, HEADER
        <3> QED BY <3>3 DEF InPlace
    <2> QED BY <2>1, <2>4, <2>5, <2>6 DEF StepInv, InPlace
<1> QED BY <1>2, <1>3, <1>4, <1>5 DEF Keeps, InPlace

LEMMA AskKeeps ==
    ASSUME StepInv, NEW c \in Clients, Ask(c)
    PROVE  Keeps(c)
<1>1. PICK q \in Requests[c] :
        /\ request' = [request EXCEPT ![c] = q]
        /\ upstream' = [upstream EXCEPT ![c] = @ \o Bytes(q)]
    BY DEF Ask
<1>2. Bytes(q) \in Seq(Byte) /\ q # None
    BY RequestAssumption, RequestIsWhole, ManagementAssumption
<1>3. /\ request[c] = None /\ downstream[c] = <<>> /\ told' = [told EXCEPT ![c] = None]
      /\ gone' = gone /\ settings' = settings /\ downstream' = downstream
      /\ watched' = watched /\ loggedIn' = loggedIn /\ expected' = expected
      /\ readBuffer' = readBuffer /\ writeBuffer' = writeBuffer
    BY DEF Ask, session
<1>4. upstream[c] \o Bytes(q) \in Seq(Byte)
    BY <1>2, Joined DEF StepInv, Typed
<1>5. Typed'
    BY <1>1, <1>3, <1>4 DEF StepInv, Typed
<1>6. \A d \in Clients \ {c} : Apart(d)
    BY <1>1, <1>3 DEF StepInv, Typed, Apart
<1>7. Settled'
    BY <1>3 DEF StepInv, Settled
<1>8. ASSUME Good(c)' PROVE Asking(c)'
    <2>1. Idle(c)
        BY <1>3, <1>8 DEF StepInv, InPlace, Good, Live, Lost, Asking, Served
    <2>2. upstream'[c] = Bytes(q) /\ request'[c] = q
        <3>1. <<>> \o Bytes(q) = Bytes(q)
            BY <1>2, Joined, Empty
        <3> QED BY <1>1, <2>1, <3>1 DEF StepInv, Typed, Idle
    <2>3. Bytes(q) = <<>> \o (<<>> \o (Bytes(q) \o <<>>))
        BY <1>2, Joined, Empty
    <2>4. expected'[c] = HEADER /\ readBuffer'[c] = <<>>
          /\ writeBuffer'[c] = <<>> /\ downstream'[c] = <<>>
        BY <1>3, <2>1 DEF Idle
    <2>5. Bytes(q) = Stretch(expected'[c], readBuffer'[c], upstream'[c], <<>>)
        BY <2>2, <2>3, <2>4 DEF Stretch
    <2> QED BY <1>2, <2>2, <2>4, <2>5, Empty, AskingAgain
<1> QED BY <1>5, <1>6, <1>7, <1>8 DEF Keeps, InPlace

LEMMA LearnKeeps ==
    ASSUME StepInv, NEW c \in Clients, Learn(c)
    PROVE  Keeps(c)
<1> DEFINE q == request[c]
           s == downstream[c]
           taken == 1 + IF s[1] = OK THEN Value(q, Tail(s)).length ELSE 0
<1>1. /\ q # None /\ s # <<>>
      /\ downstream' = [downstream EXCEPT ![c] = Drop(s, taken)]
      /\ request' = [request EXCEPT ![c] = None] /\ told' = [told EXCEPT ![c] = Told(q, s)]
      /\ gone' = gone /\ settings' = settings /\ upstream' = upstream
      /\ watched' = watched /\ loggedIn' = loggedIn /\ expected' = expected
      /\ readBuffer' = readBuffer /\ writeBuffer' = writeBuffer
    BY DEF Learn, session, StepInv, Typed
<1>2. Typed'
    BY <1>1 DEF StepInv, Typed
<1>3. \A d \in Clients \ {c} : Apart(d)
    BY <1>1 DEF StepInv, Typed, Apart
<1>4. Settled'
    BY <1>1 DEF StepInv, Settled
<1>5. ASSUME Good(c)' PROVE Idle(c)'
    <2>1. Good(c)
        BY <1>1, <1>5 DEF Good, Live, Lost
    <2>2. Served(c) /\ writeBuffer[c] = <<>> /\ IsAnswer(q, s)
        BY <1>1, <2>1 DEF StepInv, InPlace, Idle, Asking, Served
    <2>3. Drop(s, taken) = <<>> \/ (Drop(s, taken) \in Seq(Byte) /\ IsBeginning(Told(q, s)))
        BY <2>2 DEF IsAnswer
    <2>4. request'[c] = None /\ told'[c] = Told(q, s) /\ downstream'[c] = Drop(s, taken)
        BY <1>1 DEF StepInv, Typed
    <2>5. IsBeginning(told[c])' <=> IsBeginning(told'[c])
        BY DEF IsBeginning
    <2> HIDE DEF q, s, taken
    <2>6. downstream'[c] = <<>> \/ (downstream'[c] \in Seq(Byte) /\ IsBeginning(told[c])')
        BY <2>3, <2>4, <2>5
    <2> QED BY <1>1, <2>2, <2>4, <2>6 DEF Served, Idle, HEADER
<1> QED BY <1>2, <1>3, <1>4, <1>5 DEF Keeps, InPlace

LEMMA HangUpKeeps ==
    ASSUME StepInv, NEW c \in Clients, HangUp(c)
    PROVE  Keeps(c)
<1>1. /\ gone' = gone \cup {c}
      /\ upstream' = upstream \/ upstream' = [upstream EXCEPT ![c] = <<>>]
      /\ settings' = settings /\ request' = request /\ downstream' = downstream
      /\ watched' = watched /\ loggedIn' = loggedIn /\ expected' = expected
      /\ readBuffer' = readBuffer /\ writeBuffer' = writeBuffer /\ told' = told
    BY DEF HangUp, session
<1>2. Typed'
    BY <1>1, Empty DEF StepInv, Typed
<1>3. \A d \in Clients \ {c} : Apart(d)
    BY <1>1 DEF StepInv, Typed, Apart
<1>4. Settled'
    BY <1>1 DEF StepInv, Settled
<1>5. ASSUME Good(c)' PROVE InPlace(c)'
    <2>1. Good(c) /\ c \in gone'
        BY <1>1, <1>5 DEF Good, Live, Lost
    <2>2. upstream'[c] = upstream[c] \/ upstream'[c] = <<>>
        BY <1>1 DEF StepInv, Typed
    <2>3. CASE Idle(c)
        BY <1>1, <2>2, <2>3 DEF Idle, InPlace, IsBeginning
    <2>4. CASE Served(c)
        <3>1. /\ IsAnswer(request[c], downstream[c])' <=> IsAnswer(request[c], downstream[c])
              /\ IsAnswer(request[c], writeBuffer[c])' <=> IsAnswer(request[c], writeBuffer[c])
            BY <1>1 DEF IsAnswer, IsBeginning, Told, IsCut, Value, Drop, Zero, Lesser, OK
        <3> QED BY <1>1, <2>2, <2>4, <3>1 DEF Served, InPlace, HEADER
    <2>5. CASE Asking(c)
        <3> DEFINE r == readBuffer[c]
                   u == upstream[c]
        <3>1. PICK rest \in Seq(Byte) : Bytes(request[c]) = Stretch(expected[c], r, u, rest)
            BY <2>5 DEF Asking
        <3>2. u \in Seq(Byte) /\ u \o rest \in Seq(Byte) /\ <<>> \in Seq(Byte)
            BY Joined, Empty DEF StepInv, Typed
        <3>3. <<>> \o (u \o rest) = u \o rest
            BY <3>2, Joined
        <3>4. PICK left \in Seq(Byte) : upstream'[c] \o left = u \o rest
            BY <2>2, <3>2, <3>3
        <3>5. Bytes(request[c]) = Stretch(expected'[c], readBuffer'[c], upstream'[c], left)
            BY <1>1, <3>1, <3>4 DEF Stretch
        <3>6. Asking(c)'
            BY <1>1, <2>1, <2>5, <3>5, AskingAgain DEF Asking
        <3> QED BY <3>6 DEF InPlace
    <2> QED BY <2>1, <2>3, <2>4, <2>5 DEF StepInv, InPlace
<1> QED BY <1>2, <1>3, <1>4, <1>5 DEF Keeps, InPlace

-----------------------------------------------------------------------------
(* The theorem. *)

LEMMA StepInit == Init => StepInv
<1> SUFFICES ASSUME Init PROVE StepInv
    OBVIOUS
<1>1. <<>> \in Seq(Byte) /\ Len(<<>>) = 0 /\ HEADER \in Byte /\ <<>> \in Text
    BY DEF HEADER, Byte, Text
<1>2. Typed
    BY <1>1, ManagementAssumption DEF Init, Typed
<1>3. Settled
    BY <1>1, ManagementAssumption DEF Init, Settled, Strings, Byte
<1>4. \A c \in Clients : Idle(c)
    BY DEF Init, Idle
<1> QED BY <1>2, <1>3, <1>4 DEF StepInv, InPlace

LEMMA StepKeeps ==
    ASSUME StepInv, [Next]_vars
    PROVE  StepInv'
<1>1. CASE UNCHANGED vars
    <2>1. Typed' /\ Settled'
        BY <1>1 DEF StepInv, Typed, Settled, vars, session, client
    <2>2. \A d \in Clients : Apart(d)
        BY <1>1 DEF Apart, vars, session, client
    <2>3. \A d \in Clients : InPlace(d)'
        BY <2>2, ApartKeeps DEF StepInv
    <2> QED BY <2>1, <2>3 DEF StepInv
<1>2. CASE Next
    <2>1. PICK c \in Clients : Handlers(c) \/ ReadStructure(c) \/ Client(c)
        BY <1>2 DEF Next
    <2>2. Keeps(c)
        <3>1. CASE Handlers(c)
            BY <3>1, AcceptKeeps, ReceiveKeeps, ReceiveNothingKeeps, WriteKeeps, WriteFailsKeeps
            DEF Handlers
        <3>2. CASE ReadHeader(c) \/ login(c) \/ metrics(c) \/ metricsDenied(c)
            BY <3>2, ReadHeaderKeeps, loginKeeps, metricsKeeps, metricsDeniedKeeps
        <3>3. CASE setStatus(c) \/ getStatus(c)
            BY <3>3, setStatusKeeps, getStatusKeeps
        <3>4. CASE \E name \in Strings : setString(c, name) \/ getString(c, name)
            BY <3>4, setStringKeeps, getStringKeeps
        <3>5. CASE transformationsFails(c) \/ readUnknown(c) \/ ReadReturns(c)
            BY <3>5, transformationsFailsKeeps, readUnknownKeeps, ReadReturnsKeeps
        <3>6. CASE Client(c)
            BY <3>6, AskKeeps, LearnKeeps, HangUpKeeps DEF Client
        <3> QED BY <2>1, <3>1, <3>2, <3>3, <3>4, <3>5, <3>6 DEF ReadStructure
    <2>3. \A d \in Clients \ {c} : InPlace(d)'
        BY <2>2, ApartKeeps DEF Keeps, StepInv
    <2> QED BY <2>2, <2>3 DEF Keeps, StepInv
<1> QED BY <1>1, <1>2

\* The parser stays in step with every client that was not denied a metric:
\* nothing of a request is lost, taken twice or left for the next one, whatever
\* the pieces in which requests arrive, whatever the other sessions do, and
\* whatever does not fit into a field or a buffer (read_structure, protocolV1.c).
THEOREM StaysInStep == Spec => []InStep
<1>1. Init => StepInv
    BY StepInit
<1>2. StepInv /\ [Next]_vars => StepInv'
    BY StepKeeps
<1>3. StepInv => InStep
    BY InPlaceIsInStep
<1> QED BY <1>1, <1>2, <1>3, PTL DEF Spec

=============================================================================
