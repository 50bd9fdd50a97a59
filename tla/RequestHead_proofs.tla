--------------------------- MODULE RequestHead_proofs ---------------------------
(***************************************************************************)
(* For every request head, every way it is cut into pieces and every size  *)
(* of the buffer: the buffer does not overflow, a head that fits reaches   *)
(* the origin unchanged, and the head of a tunnel does not reach it.       *)
(***************************************************************************)
EXTENDS RequestHead, SequenceTheorems, WellFoundedInduction, TLAPS

-----------------------------------------------------------------------------
(* Sequences and numbers. *)

Bytes == Seq(Tokens)

\* A sequence is what is taken of it and what is left.
LEMMA Cut ==
    ASSUME NEW s \in Bytes, NEW n \in 0 .. Len(s)
    PROVE  /\ SubSeq(s, 1, n) \in Bytes /\ Len(SubSeq(s, 1, n)) = n
           /\ Drop(s, n) \in Bytes /\ Len(Drop(s, n)) = Len(s) - n
           /\ SubSeq(s, 1, n) \o Drop(s, n) = s
<1>1. Len(s) \in Nat /\ \A i \in 1 .. Len(s) : s[i] \in Tokens
    BY LenProperties DEF Bytes
<1>2. SubSeq(s, 1, n) \in Bytes /\ Len(SubSeq(s, 1, n)) = n
    BY <1>1, SubSeqProperties DEF Bytes
<1>3. Drop(s, n) \in Bytes /\ Len(Drop(s, n)) = Len(s) - n
    BY <1>1, SubSeqProperties DEF Bytes, Drop
<1>4. SubSeq(s, 1, n) \o SubSeq(s, n + 1, Len(s)) = SubSeq(s, 1, Len(s))
    <2>1. 1 \in 1 .. Len(s) + 1 /\ n \in 1 - 1 .. Len(s) /\ Len(s) \in n .. Len(s)
        BY <1>1
    <2> QED
        BY <2>1, ConcatAdjacentSubSeq DEF Bytes
<1> QED
    BY <1>2, <1>3, <1>4, SubSeqFull DEF Drop, Bytes

\* Joining sequences.
LEMMA Join ==
    ASSUME NEW s \in Bytes, NEW t \in Bytes
    PROVE  /\ s \o t \in Bytes /\ Len(s \o t) = Len(s) + Len(t)
           /\ Len(s) \in Nat /\ Len(t) \in Nat
           /\ s \o <<>> = s /\ <<>> \o s = s
BY ConcatProperties, LenProperties, ConcatEmptySeq DEF Bytes

\* A set of numbers that is not empty has a least member.
LEMMA LeastExists ==
    ASSUME NEW S, S \subseteq Nat, S # {}
    PROVE  \E m \in S : \A x \in S : m <= x
<1>1. PICK m \in S : \A x \in S : <<x, m>> \notin OpToRel(<, Nat)
    BY NatLessThanWellFounded, WFMin, Zenon
<1>2. \A x \in S : ~(x < m)
    BY <1>1 DEF OpToRel
<1> QED
    BY <1>2

\* A set of numbers with a bound has a largest member.
LEMMA LargestExists ==
    ASSUME NEW m \in Nat, NEW S, S \subseteq 0 .. m, S # {}
    PROVE  \E f \in S : \A g \in S : g <= f
<1> DEFINE T == {m - f : f \in S}
<1>1. T \subseteq Nat /\ T # {}
    <2>1. ASSUME NEW f \in S PROVE m - f \in Nat
        <3>1. f \in 0 .. m
            OBVIOUS
        <3> QED BY <3>1
    <2> QED BY <2>1
<1>2. PICK x \in T : \A y \in T : x <= y
    BY <1>1, LeastExists
<1>3. PICK f \in S : x = m - f
    OBVIOUS
<1>4. ASSUME NEW g \in S PROVE g <= f
    <2>1. m - f <= m - g
        BY <1>2, <1>3
    <2>2. f \in 0 .. m /\ g \in 0 .. m
        OBVIOUS
    <2> QED
        BY <2>1, <2>2
<1> QED
    BY <1>4

-----------------------------------------------------------------------------
(* The operators of the read handler. *)

\* The line that is peeked lies in the buffer.
LEMMA PeekedLine ==
    ASSUME NEW b \in Bytes, peeked \in 0 .. Len(b), LineSize \in Nat
    PROVE  /\ PeekLine(b) \in Int
           /\ PeekLine(b) >= 0 => peeked + PeekLine(b) \in 0 .. Len(b)
<1> DEFINE rest == Drop(b, peeked)
           ends == {i \in 1 .. Lesser(Len(rest), LineSize) : rest[i] = EOL}
<1>1. rest \in Bytes /\ Len(rest) = Len(b) - peeked /\ Len(b) \in Nat /\ Len(rest) \in Nat
    BY Cut, Join
<1>2. CASE ends = {}
    BY <1>1, <1>2 DEF PeekLine
<1>3. CASE ends # {}
    <2>1. ends \subseteq Nat
        BY <1>1
    <2>2. PeekLine(b) = CHOOSE i \in ends : \A j \in ends : i <= j
        BY <1>3 DEF PeekLine
    <2>3. PeekLine(b) \in ends
        BY <1>3, <2>1, <2>2, LeastExists
    <2>4. PeekLine(b) \in 1 .. Lesser(Len(rest), LineSize)
        BY <2>3
    <2> QED
        BY <1>1, <2>4 DEF Lesser
<1> QED
    BY <1>2, <1>3

\* The receive loop does not overflow the buffer, and takes all there is when
\* it has space for it.
LEMMA ReceivedFits ==
    ASSUME buf \in Bytes, socket \in Bytes, Len(buf) <= BufferSpace, BufferSpace \in Nat
    PROVE  /\ Received \in Bytes /\ Len(Received) <= BufferSpace /\ Len(buf) <= Len(Received)
           /\ Len(buf) + Len(socket) <= BufferSpace => Received = buf \o socket
<1> DEFINE n == Lesser(Len(socket), BufferSpace - Len(buf))
<1>1. Len(buf) \in Nat /\ Len(socket) \in Nat
    BY Join
<1>2. n \in 0 .. Len(socket) /\ Len(buf) + n <= BufferSpace
    BY <1>1 DEF Lesser
<1>3. SubSeq(socket, 1, n) \in Bytes /\ Len(SubSeq(socket, 1, n)) = n
    BY <1>2, Cut
<1>4. Received \in Bytes /\ Len(Received) = Len(buf) + n
    <2> DEFINE piece == SubSeq(socket, 1, n)
    <2>1. piece \in Bytes /\ Len(piece) = n /\ Received = buf \o piece
        BY <1>3 DEF Received
    <2> HIDE DEF piece, n
    <2>2. buf \o piece \in Bytes /\ Len(buf \o piece) = Len(buf) + Len(piece)
        BY <2>1, Join
    <2> QED
        BY <2>1, <2>2
<1>5. Len(buf) + Len(socket) <= BufferSpace => n = Len(socket)
    BY <1>1 DEF Lesser
<1>6. SubSeq(socket, 1, Len(socket)) = socket
    BY SubSeqFull DEF Bytes
<1> QED
    BY <1>1, <1>2, <1>4, <1>5, <1>6 DEF Received

-----------------------------------------------------------------------------
(* The types. *)

\* TypeOK without its sets
Typed ==
    /\ head \in Heads
    /\ coming \in Bytes /\ socket \in Bytes /\ buf \in Bytes /\ sent \in Bytes
    /\ Len(buf) <= BufferSpace /\ peeked \in 0 .. Len(buf)
    /\ eof \in BOOLEAN /\ searching \in BOOLEAN /\ established \in BOOLEAN
    /\ ended \in BOOLEAN /\ early \in BOOLEAN
    /\ state \in {"READING_HEADER_FIRST_LINE", "SEARCHING_FOR_HEADER_HOST", "CONNECTING",
                  "PASSING_CONTENT"}
    /\ ssl \in {"NO_SSL", "SSL_CONNECTING", "SSL_OK"}
    /\ interest \in {"none", "noop", "read"} /\ origin \in {"none", "read", "write"}
    /\ resolver \in {"none", "runs", "connected", "missing"}

LEMMA TypedIsTypeOK == Typed <=> TypeOK
BY DEF Typed, TypeOK, Bytes

LEMMA EmptyIsBytes == <<>> \in Bytes /\ Len(<<>>) = 0
BY DEF Bytes

LEMMA KillTyped ==
    ASSUME Typed, Kill, resolver' \in {"none", "runs", "connected", "missing"}
    PROVE  Typed'
<1>1. buf' \in Bytes /\ socket' \in Bytes /\ Len(buf') = 0
    BY EmptyIsBytes DEF Kill
<1>2. Len(buf') <= BufferSpace /\ peeked' \in 0 .. Len(buf')
    BY <1>1, HeadAssumption DEF Kill
<1> QED
    BY <1>1, <1>2 DEF Typed, Kill

LEMMA ProcessSSLTyped ==
    ASSUME Typed, ProcessSSL
    PROVE  /\ buf' \in Bytes /\ Len(buf') <= BufferSpace /\ peeked' \in 0 .. Len(buf')
           /\ ssl' \in {"NO_SSL", "SSL_CONNECTING", "SSL_OK"} /\ established' \in BOOLEAN
<1> DEFINE ends == LineEnds(buf)
           blank == {i \in ends : i = 1 \/ i - 1 \in ends}
           last == CHOOSE i \in ends \cup {0} : \A j \in ends : j <= i
<1>1. Len(buf) \in Nat /\ BufferSpace \in Nat
    BY HeadAssumption, Join DEF Typed
<1>2. ends \subseteq 1 .. Len(buf)
    BY DEF LineEnds
<1>3. ends \cup {0} \subseteq 0 .. Len(buf)
    BY <1>1, <1>2
<1>4. \E i \in ends \cup {0} : \A j \in ends : j <= i
    BY <1>1, <1>3, LargestExists
<1>5. last \in 0 .. Len(buf)
    BY <1>3, <1>4
<1>6. Drop(buf, last) \in Bytes /\ Len(Drop(buf, last)) = Len(buf) - last
    BY <1>5, Cut DEF Typed
<1>7. CASE blank # {}
    <2>1. buf' = <<>> /\ ssl' = "SSL_OK" /\ established' = TRUE /\ peeked' = 0
        BY <1>7 DEF ProcessSSL
    <2> QED
        BY <1>1, <2>1, EmptyIsBytes
<1>8. CASE blank = {}
    <2>1. buf' = Drop(buf, last) /\ ssl' = ssl /\ established' = established /\ peeked' = 0
        BY <1>8 DEF ProcessSSL
    <2> QED
        BY <1>1, <1>5, <1>6, <2>1 DEF Typed
<1> QED
    BY <1>7, <1>8

\* What ReadFirstLine and SearchHost do with the buffer.
LEMMA ReadTyped ==
    ASSUME Typed, buf' = Received, socket' = <<>>, NEW n, n = PeekLine(Received) \/ n = 0,
           n >= 0, peeked' = peeked + n
    PROVE  /\ buf' \in Bytes /\ socket' \in Bytes
           /\ Len(buf') <= BufferSpace /\ peeked' \in 0 .. Len(buf')
<1>1. Received \in Bytes /\ Len(Received) <= BufferSpace /\ Len(buf) <= Len(Received)
    BY ReceivedFits, HeadAssumption DEF Typed
<1>2. Len(buf) \in Nat /\ Len(Received) \in Nat /\ peeked \in 0 .. Len(Received)
    BY <1>1, Join DEF Typed
<1>3. PeekLine(Received) \in Int
      /\ (PeekLine(Received) >= 0 => peeked + PeekLine(Received) \in 0 .. Len(Received))
    BY <1>1, <1>2, PeekedLine, HeadAssumption
<1> QED
    BY <1>1, <1>2, <1>3, EmptyIsBytes

LEMMA PeekedIsInt ==
    ASSUME Typed
    PROVE  PeekLine(Received) \in Int
<1>1. Received \in Bytes /\ Len(buf) <= Len(Received)
    BY ReceivedFits, HeadAssumption DEF Typed
<1>2. peeked \in 0 .. Len(Received)
    BY <1>1, Join DEF Typed
<1> QED
    BY <1>1, <1>2, PeekedLine, HeadAssumption

LEMMA NextTyped ==
    ASSUME Typed, [Next]_vars
    PROVE  Typed'
<1> USE DEF arrival, parser, relay
<1>1. CASE UNCHANGED vars
    BY <1>1 DEF vars, Typed
<1>2. CASE Arrive
    <2>1. PICK n \in 1 .. Len(coming) :
            socket' = socket \o SubSeq(coming, 1, n) /\ coming' = Drop(coming, n)
        BY <1>2 DEF Arrive
    <2>2. n \in 0 .. Len(coming)
        BY Join DEF Typed
    <2>3. socket' \in Bytes /\ coming' \in Bytes
        BY <2>1, <2>2, Cut, Join DEF Typed
    <2> QED
        BY <1>2, <2>3 DEF Arrive, Typed
<1>3. CASE HangUp
    BY <1>3, EmptyIsBytes DEF HangUp, Typed
<1>4. CASE ReadFirstLine
    <2> DEFINE n == PeekLine(Received)
               line == Received[peeked + 1]
    <2>1. CASE Kill /\ UNCHANGED resolver
        BY <2>1, KillTyped DEF Typed
    <2>2. CASE /\ n = 0
               /\ buf' = Received /\ socket' = <<>>
               /\ UNCHANGED <<head, coming, eof, state, ssl, peeked, searching, relay, interest,
                              resolver, ended>>
        <3>1. peeked' = peeked + n
            BY <2>2 DEF Typed
        <3>2. /\ buf' \in Bytes /\ socket' \in Bytes
              /\ Len(buf') <= BufferSpace /\ peeked' \in 0 .. Len(buf')
            BY <2>2, <3>1, ReadTyped
        <3> QED
            BY <2>2, <3>2 DEF Typed
    <2>3. CASE /\ n > 0
               /\ buf' = Received /\ socket' = <<>> /\ peeked' = peeked + n
               /\ IF line \in {"absolute", "CONNECT"}
                  THEN /\ StartResolver
                       /\ ssl' = IF line = "CONNECT" THEN "SSL_CONNECTING" ELSE "NO_SSL"
                  ELSE /\ state' = "SEARCHING_FOR_HEADER_HOST" /\ ssl' = "NO_SSL"
                       /\ searching' = TRUE
                       /\ UNCHANGED <<resolver, interest>>
               /\ UNCHANGED <<head, coming, eof, relay, ended>>
        <3>1. /\ buf' \in Bytes /\ socket' \in Bytes
              /\ Len(buf') <= BufferSpace /\ peeked' \in 0 .. Len(buf')
            BY <2>3, ReadTyped, PeekedIsInt
        <3> QED
            BY <2>3, <3>1 DEF Typed, StartResolver
    <2> QED
        BY <1>4, <2>1, <2>2, <2>3 DEF ReadFirstLine
<1>5. CASE SearchHost
    <2> DEFINE n == PeekLine(Received)
    <2>1. CASE Kill /\ UNCHANGED resolver
        BY <2>1, KillTyped DEF Typed
    <2>2. CASE /\ n >= 0
               /\ buf' = Received /\ socket' = <<>> /\ peeked' = peeked + n
               /\ IF n > 0 /\ Received[peeked + 1] = "host"
                  THEN StartResolver
                  ELSE searching' = FALSE /\ UNCHANGED <<resolver, interest, state>>
               /\ UNCHANGED <<head, coming, eof, ssl, relay, ended>>
        <3>1. /\ buf' \in Bytes /\ socket' \in Bytes
              /\ Len(buf') <= BufferSpace /\ peeked' \in 0 .. Len(buf')
            BY <2>2, ReadTyped
        <3>2. /\ resolver' \in {"none", "runs", "connected", "missing"}
              /\ interest' \in {"none", "noop", "read"}
              /\ state' \in {"READING_HEADER_FIRST_LINE", "SEARCHING_FOR_HEADER_HOST",
                             "CONNECTING", "PASSING_CONTENT"}
              /\ searching' = FALSE
            BY <2>2 DEF Typed, StartResolver
        <3> QED
            BY <2>2, <3>1, <3>2 DEF Typed
    <2> QED
        BY <1>5, <2>1, <2>2 DEF SearchHost
<1>6. CASE Block
    <2>1. CASE Kill
        BY <1>6, <2>1, KillTyped DEF Block, Typed
    <2>2. CASE ~Kill
        BY <1>6, <2>2, ProcessSSLTyped DEF Block, Typed
    <2> QED
        BY <2>1, <2>2
<1>7. CASE PassSSL
    BY <1>7, ProcessSSLTyped DEF PassSSL, Typed
<1>8. CASE Pass
    <2> DEFINE n == Lesser(Len(socket), BufferSpace - Len(buf))
    <2>1. CASE Kill
        BY <1>8, <2>1, KillTyped DEF Pass, Typed
    <2>2. CASE ~Kill
        <3>1. Len(socket) \in Nat /\ Len(buf) \in Nat /\ BufferSpace \in Nat
            BY Join, HeadAssumption DEF Typed
        <3>2. n \in 0 .. Len(socket) /\ Len(buf) + n <= BufferSpace
            BY <3>1 DEF Lesser, Typed
        <3>3. buf' = buf \o SubSeq(socket, 1, n) /\ socket' = Drop(socket, n) /\ peeked' = peeked
            BY <1>8, <2>2 DEF Pass
        <3>4. PICK piece \in Bytes :
                buf' = buf \o piece /\ Len(piece) = n /\ socket' \in Bytes
            BY <3>2, <3>3, Cut DEF Typed
        <3>5. buf' \in Bytes /\ Len(buf') = Len(buf) + Len(piece)
            BY <3>4, Join DEF Typed
        <3>6. Len(buf') <= BufferSpace /\ peeked' \in 0 .. Len(buf')
            BY <3>1, <3>2, <3>3, <3>4, <3>5 DEF Typed
        <3> QED
            BY <1>8, <2>2, <3>4, <3>5, <3>6 DEF Pass, Typed
    <2> QED
        BY <2>1, <2>2
<1>9. CASE OriginWrite
    BY <1>9, EmptyIsBytes, Join, HeadAssumption DEF OriginWrite, Typed
<1>10. CASE Connected
    BY <1>10 DEF Connected, Typed
<1>11. CASE Unresolved
    BY <1>11, KillTyped DEF Unresolved
<1> QED
    BY <1>1, <1>2, <1>3, <1>4, <1>5, <1>6, <1>7, <1>8, <1>9, <1>10, <1>11
       DEF Next, Handlers, Resolver

LEMMA InitTyped ==
    ASSUME Init
    PROVE  Typed
<1>1. head \in Heads /\ coming = head /\ socket = <<>> /\ buf = <<>> /\ sent = <<>> /\ peeked = 0
    BY DEF Init
<1>2. coming \in Bytes /\ socket \in Bytes /\ buf \in Bytes /\ sent \in Bytes
    BY <1>1, EmptyIsBytes, HeadAssumption DEF Bytes
<1>3. Len(buf) <= BufferSpace /\ peeked \in 0 .. Len(buf)
    BY <1>1, EmptyIsBytes, HeadAssumption
<1> QED
    BY <1>1, <1>2, <1>3 DEF Init, Typed

\* Every variable has its type, and the buffer does not overflow.
THEOREM TypeCorrect == Spec => []TypeOK
<1>1. Init => Typed
    BY InitTyped
<1>2. Typed /\ [Next]_vars => Typed'
    BY NextTyped
<1>3. Typed => TypeOK
    BY TypedIsTypeOK
<1> QED
    BY <1>1, <1>2, <1>3, PTL DEF Spec

-----------------------------------------------------------------------------
(* The head. *)

\* HeadIsKept holds because nothing is a tunnel before its first line is read
KeptInv ==
    /\ Typed
    /\ HeadIsKept
    /\ state = "READING_HEADER_FIRST_LINE" => ssl = "NO_SSL"

\* A name of its own keeps the provers from taking concatenations apart.
Cat(s, t) == s \o t

LEMMA CatAssociative == \A S : \A s, t, u \in Seq(S) : Cat(Cat(s, t), u) = Cat(s, Cat(t, u))
BY ConcatAssociative, Zenon DEF Cat

LEMMA Grouped ==
    ASSUME NEW s \in Bytes, NEW t \in Bytes, NEW u \in Bytes
    PROVE  Cat(s, t) \in Bytes /\ Cat(Cat(s, t), u) = Cat(s, Cat(t, u))
<1>1. Cat(s, t) \in Bytes
    BY Join DEF Cat
<1>2. Cat(Cat(s, t), u) = Cat(s, Cat(t, u))
    BY CatAssociative DEF Bytes
<1> QED
    BY <1>1, <1>2

\* What is received stays between what was there and what is coming.
LEMMA Regroup ==
    ASSUME NEW a \in Bytes, NEW b \in Bytes, NEW c \in Bytes, NEW d \in Bytes,
           NEW s \in Bytes, s = b \o c, NEW t \in Bytes, t = c \o d
    PROVE  (a \o b) \o t = (a \o s) \o d
<1>1. s = Cat(b, c) /\ t = Cat(c, d)
    BY DEF Cat
<1>2. Cat(Cat(a, b), t) = Cat(Cat(a, s), d)
    BY <1>1, Grouped
<1> QED
    BY <1>2 DEF Cat

LEMMA PieceArrives ==
    ASSUME NEW front \in Bytes, socket \in Bytes, socket' \in Bytes, coming \in Bytes,
           coming' \in Bytes, NEW piece \in Bytes,
           socket' = socket \o piece, coming = piece \o coming'
    PROVE  (front \o socket) \o coming = (front \o socket') \o coming'
<1>1. socket' = Cat(socket, piece) /\ coming = Cat(piece, coming')
    BY DEF Cat
<1>2. Cat(Cat(front, socket), coming) = Cat(Cat(front, socket'), coming')
    BY <1>1, Grouped
<1> QED
    BY <1>2 DEF Cat

LEMMA PieceIsTaken ==
    ASSUME NEW front \in Bytes, buf \in Bytes, buf' \in Bytes, socket \in Bytes,
           socket' \in Bytes, NEW piece \in Bytes,
           buf' = buf \o piece, socket = piece \o socket'
    PROVE  (front \o buf) \o socket = (front \o buf') \o socket'
<1>1. buf' = Cat(buf, piece) /\ socket = Cat(piece, socket')
    BY DEF Cat
<1>2. Cat(Cat(front, buf), socket) = Cat(Cat(front, buf'), socket')
    BY <1>1, Grouped
<1> QED
    BY <1>2 DEF Cat

LEMMA ReadKeeps ==
    ASSUME KeptInv, buf' = Received, socket' = <<>>, sent' = sent, coming' = coming,
           head' = head, ~ended, ~eof, ssl = "NO_SSL", Fits
    PROVE  sent' \o buf' \o socket' \o coming' = head'
<1>1. /\ buf \in Bytes /\ socket \in Bytes /\ sent \in Bytes /\ coming \in Bytes
      /\ sent \o buf \o socket \o coming = head
    BY DEF KeptInv, Typed, HeadIsKept
<1>2. Len(head) = Len(sent) + Len(buf) + Len(socket) + Len(coming)
    BY <1>1, Join
<1>3. Len(buf) + Len(socket) <= BufferSpace
    BY <1>1, <1>2, Join, HeadAssumption DEF Fits
<1>4. buf' = buf \o socket
    BY <1>3, ReceivedFits, HeadAssumption DEF KeptInv, Typed
<1>5. buf' \in Bytes /\ socket \o <<>> = socket
    BY <1>1, <1>4, Join
<1>6. (sent \o buf) \o socket = (sent \o buf') \o <<>>
    <2>1. buf' = Cat(buf, socket) /\ sent \o buf' \in Bytes
        BY <1>1, <1>4, <1>5, Join DEF Cat
    <2>2. Cat(Cat(sent, buf), socket) = Cat(sent, buf')
        BY <1>1, <2>1, Grouped
    <2>3. (sent \o buf') \o <<>> = sent \o buf'
        BY <2>1, Join
    <2> QED
        BY <2>2, <2>3 DEF Cat
<1> QED
    BY <1>1, <1>6

LEMMA NextKeeps ==
    ASSUME KeptInv, Typed', [Next]_vars
    PROVE  KeptInv'
<1> USE DEF KeptInv
<1> SUFFICES /\ HeadIsKept'
             /\ (state = "READING_HEADER_FIRST_LINE" => ssl = "NO_SSL")'
    OBVIOUS
<1>0. /\ buf \in Bytes /\ socket \in Bytes /\ sent \in Bytes /\ coming \in Bytes
    BY DEF Typed
<1> USE DEF arrival, parser, relay
<1>1. CASE UNCHANGED vars
    BY <1>1 DEF vars, HeadIsKept, Fits
<1>2. CASE Arrive
    <2>1. PICK n \in 1 .. Len(coming) :
            socket' = socket \o SubSeq(coming, 1, n) /\ coming' = Drop(coming, n)
        BY <1>2 DEF Arrive
    <2>2. n \in 0 .. Len(coming)
        BY <1>0, Join
    <2>3. SubSeq(coming, 1, n) \in Bytes /\ coming' \in Bytes
          /\ SubSeq(coming, 1, n) \o coming' = coming
        BY <1>0, <2>1, <2>2, Cut
    <2>4. PICK piece \in Bytes :
            socket' = socket \o piece /\ coming = piece \o coming' /\ coming' \in Bytes
        BY <2>1, <2>3
    <2>5. sent \o buf \in Bytes /\ socket' \in Bytes
        BY <1>0, <2>4, Join
    <2>6. ((sent \o buf) \o socket) \o coming = ((sent \o buf) \o socket') \o coming'
        BY <1>0, <2>4, <2>5, PieceArrives
    <2> QED
        BY <1>2, <2>6 DEF Arrive, HeadIsKept, Fits
<1>3. CASE HangUp
    BY <1>3 DEF HangUp, HeadIsKept
<1>4. CASE ReadFirstLine
    <2>1. CASE Kill
        BY <1>4, <2>1 DEF ReadFirstLine, Kill, HeadIsKept
    <2>2. CASE ~Kill
        <3>1. /\ buf' = Received /\ socket' = <<>> /\ sent' = sent /\ coming' = coming
              /\ head' = head /\ eof' = eof /\ ended' = ended /\ ssl = "NO_SSL"
            BY <1>4, <2>2 DEF ReadFirstLine
        <3>2. state' = "READING_HEADER_FIRST_LINE" => ssl' = "NO_SSL"
            BY <1>4, <2>2, <3>1 DEF ReadFirstLine, StartResolver
        <3> QED
            BY <3>1, <3>2, ReadKeeps DEF HeadIsKept, Fits
    <2> QED
        BY <2>1, <2>2
<1>5. CASE SearchHost
    <2>1. CASE Kill
        BY <1>5, <2>1 DEF SearchHost, Kill, HeadIsKept
    <2>2. CASE ~Kill
        <3>1. /\ buf' = Received /\ socket' = <<>> /\ sent' = sent /\ coming' = coming
              /\ head' = head /\ eof' = eof /\ ended' = ended /\ ssl' = ssl
            BY <1>5, <2>2 DEF SearchHost
        <3>2. state' # "READING_HEADER_FIRST_LINE"
            BY <1>5, <2>2 DEF SearchHost, StartResolver
        <3> QED
            BY <3>1, <3>2, ReadKeeps DEF HeadIsKept, Fits
    <2> QED
        BY <2>1, <2>2
<1>6. CASE Block
    <2>1. state' # "READING_HEADER_FIRST_LINE"
        BY <1>6 DEF Block, Kill
    <2>2. CASE ssl = "SSL_CONNECTING"
        BY <1>6, <2>1, <2>2 DEF Block, ProcessSSL, Kill, HeadIsKept
    <2>3. CASE ssl # "SSL_CONNECTING"
        BY <1>6, <2>1, <2>3 DEF Block, Kill, HeadIsKept, Fits
    <2> QED
        BY <2>2, <2>3
<1>7. CASE PassSSL
    BY <1>7 DEF PassSSL, ProcessSSL, HeadIsKept
<1>8. CASE Pass
    <2> DEFINE n == Lesser(Len(socket), BufferSpace - Len(buf))
    <2>1. CASE Kill
        BY <1>8, <2>1 DEF Pass, Kill, HeadIsKept
    <2>2. CASE ~Kill
        <3>1. n \in 0 .. Len(socket)
            BY <1>0, Join, HeadAssumption DEF Lesser, Typed
        <3>2. buf' = buf \o SubSeq(socket, 1, n) /\ socket' = Drop(socket, n)
            BY <1>8, <2>2 DEF Pass
        <3>3. PICK piece \in Bytes :
                buf' = buf \o piece /\ socket = piece \o socket' /\ socket' \in Bytes
            BY <1>0, <3>1, <3>2, Cut
        <3>4. buf' \in Bytes
            BY <1>0, <3>3, Join
        <3>5. (sent \o buf) \o socket = (sent \o buf') \o socket'
            BY <1>0, <3>3, <3>4, PieceIsTaken
        <3>6. /\ coming' = coming /\ head' = head /\ ssl' = ssl /\ sent' = sent /\ eof' = eof
              /\ ended' = ended /\ state' = state
            BY <1>8, <2>2 DEF Pass
        <3> QED
            BY <1>8, <3>5, <3>6 DEF Pass, HeadIsKept, Fits
    <2> QED
        BY <2>1, <2>2
<1>9. CASE OriginWrite
    <2>1. (sent \o buf) \o <<>> = sent \o buf
        BY <1>0, Join
    <2> QED
        BY <1>9, <2>1 DEF OriginWrite, HeadIsKept, Fits
<1>10. CASE Connected
    BY <1>10 DEF Connected, HeadIsKept, Fits
<1>11. CASE Unresolved
    BY <1>11 DEF Unresolved, Kill, HeadIsKept
<1> QED
    BY <1>1, <1>2, <1>3, <1>4, <1>5, <1>6, <1>7, <1>8, <1>9, <1>10, <1>11
       DEF Next, Handlers, Resolver

LEMMA InitKept ==
    ASSUME Init
    PROVE  KeptInv
<1>1. Typed
    BY InitTyped
<1>2. sent \o buf \o socket \o coming = head
    BY <1>1, Join, EmptyIsBytes DEF Init, Typed
<1> QED
    BY <1>1, <1>2 DEF Init, KeptInv, HeadIsKept

\* The origin is sent the head as it is, however it is cut into pieces.
THEOREM HeadAlwaysKept == Spec => []HeadIsKept
<1>1. Init => KeptInv
    BY InitKept
<1>2. KeptInv /\ [Next]_vars => KeptInv'
    BY NextTyped, NextKeeps DEF KeptInv
<1>3. KeptInv => HeadIsKept
    BY DEF KeptInv
<1> QED
    BY <1>1, <1>2, <1>3, PTL DEF Spec

-----------------------------------------------------------------------------
(* The lines of a tunnel's head. *)

\* s is the head as far as it goes
Begins(s) == Len(s) <= Len(head) /\ \A i \in 1 .. Len(s) : s[i] = head[i]

\* the lines of b that are empty
Blank(b) == {i \in LineEnds(b) : i = 1 \/ i - 1 \in LineEnds(b)}

\* the last line of b that is read
Last(b) == CHOOSE i \in LineEnds(b) \cup {0} : \A j \in LineEnds(b) : j <= i

LEMMA BeginsPart ==
    ASSUME NEW s \in Bytes, NEW t \in Bytes, head \in Bytes, Begins(s \o t)
    PROVE  Begins(s)
<1>1. Len(s) \in Nat /\ Len(t) \in Nat /\ Len(s \o t) = Len(s) + Len(t) /\ Len(head) \in Nat
    BY Join
<1>2. \A i \in 1 .. Len(s) : (s \o t)[i] = s[i]
    <2>1. \A i \in 1 .. Len(s) + Len(t) :
            (s \o t)[i] = IF i <= Len(s) THEN s[i] ELSE t[i - Len(s)]
        BY ConcatProperties DEF Bytes
    <2> QED BY <1>1, <2>1
<1>3. \A i \in 1 .. Len(s) : i \in 1 .. Len(s \o t)
    BY <1>1
<1> QED
    BY <1>1, <1>2, <1>3 DEF Begins

LEMMA BeginsAll ==
    ASSUME NEW s \in Bytes, head \in Bytes, Begins(s), Len(s) >= Len(head)
    PROVE  s = head
<1>1. Len(s) = Len(head)
    BY Join DEF Begins
<1> QED
    BY <1>1, SeqEqual DEF Begins, Bytes

\* A sequence of no tokens is the empty one.
LEMMA NothingLeft ==
    ASSUME NEW s \in Bytes, Len(s) = 0
    PROVE  s = <<>>
BY DEF Bytes

\* The line ends that are read are positions of EOL.
LEMMA LineEndsAreEnds ==
    ASSUME NEW b \in Bytes
    PROVE  LineEnds(b) \subseteq {i \in 1 .. Len(b) : b[i] = EOL} /\ LineEnds(b) \subseteq Nat
BY Join DEF LineEnds

LEMMA NoLinesInNothing == LineEnds(<<>>) = {}
BY EmptyIsBytes, LineEndsAreEnds

LEMMA LastIsOne ==
    ASSUME NEW b \in Bytes
    PROVE  /\ Last(b) \in LineEnds(b) \cup {0} /\ Last(b) \in 0 .. Len(b)
           /\ \A j \in LineEnds(b) : j <= Last(b)
<1>1. Len(b) \in Nat
    BY Join
<1>2. LineEnds(b) \cup {0} \subseteq 0 .. Len(b)
    BY <1>1, LineEndsAreEnds
<1>3. \E i \in LineEnds(b) \cup {0} : \A j \in LineEnds(b) : j <= i
    BY <1>1, <1>2, LargestExists
<1>4. /\ Last(b) \in LineEnds(b) \cup {0}
      /\ \A j \in LineEnds(b) : j <= Last(b)
    BY <1>3 DEF Last
<1> QED
    BY <1>2, <1>4

\* process_ssl leaves no line that it could still read: what stays begins with a
\* line that is not complete or too long.
LEMMA NoLineIsLeft ==
    ASSUME NEW b \in Bytes
    PROVE  LineEnds(Drop(b, Last(b))) = {}
<1> DEFINE last == Last(b)
           d == Drop(b, last)
           endsB == {i \in 1 .. Len(b) : b[i] = EOL}
           endsD == {i \in 1 .. Len(d) : d[i] = EOL}
<1>1. /\ last \in LineEnds(b) \cup {0} /\ last \in 0 .. Len(b)
      /\ \A j \in LineEnds(b) : j <= last
    BY LastIsOne
<1>2. Len(b) \in Nat /\ last \in Nat /\ last <= Len(b) /\ LineSize \in Nat
    BY <1>1, Join, HeadAssumption
<1> HIDE DEF last
<1>3. d \in Bytes /\ Len(d) = Len(b) - last /\ \A i \in 1 .. Len(d) : d[i] = b[last + i]
    <2>1. d \in Bytes /\ Len(d) = Len(b) - last
        BY <1>1, Cut
    <2>2. \A i \in last + 1 .. Len(b) : b[i] \in Tokens
        BY <1>2, ElementOfSeq DEF Bytes
    <2>3. \A i \in 1 .. Len(b) - (last + 1) + 1 : d[i] = b[last + 1 + i - 1]
        BY <1>2, <2>2, SubSeqProperties DEF Drop
    <2>4. ASSUME NEW i \in 1 .. Len(d) PROVE d[i] = b[last + i]
        <3>1. i \in 1 .. Len(b) - (last + 1) + 1 /\ last + 1 + i - 1 = last + i
            BY <1>2, <2>1
        <3> QED BY <2>3, <3>1
    <2> QED BY <2>1, <2>4
<1> HIDE DEF d
<1> SUFFICES ASSUME NEW x \in LineEnds(d) PROVE FALSE
    BY DEF d, last
<1>4. x \in endsD /\ \A j \in 1 .. x - LineSize : \E k \in endsD : j <= k /\ k < j + LineSize
    BY DEF LineEnds
<1>5. endsD \subseteq Nat /\ endsD # {}
    BY <1>2, <1>3, <1>4
<1>6. PICK e \in endsD : \A y \in endsD : e <= y
    BY <1>5, LeastExists
<1>7. e \in Nat /\ e >= 1 /\ e <= Len(d) /\ d[e] = EOL /\ x \in Nat /\ e <= x
    BY <1>2, <1>3, <1>4, <1>6
<1>8. e <= LineSize
    <2> SUFFICES ASSUME e > LineSize PROVE FALSE
        BY <1>2, <1>7
    <2>1. 1 \in 1 .. x - LineSize
        BY <1>2, <1>7
    <2>2. PICK k \in endsD : 1 <= k /\ k < 1 + LineSize
        BY <1>4, <2>1
    <2> QED BY <1>2, <1>5, <1>6, <1>7, <2>2
<1>9. last + e \in endsB
    BY <1>2, <1>3, <1>7
<1>10. ASSUME NEW j \in 1 .. (last + e) - LineSize
       PROVE  \E k \in endsB : j <= k /\ k < j + LineSize
    <2>1. j \in Nat /\ j >= 1 /\ j <= last
        BY <1>2, <1>7, <1>8
    <2>2. last \in LineEnds(b)
        BY <1>1, <2>1
    <2>3. last \in endsB /\ \A l \in 1 .. last - LineSize : \E k \in endsB : l <= k /\ k < l + LineSize
        BY <2>2 DEF LineEnds
    <2>4. CASE j <= last - LineSize
        BY <1>2, <2>1, <2>3, <2>4
    <2>5. CASE last < j + LineSize
        BY <2>1, <2>3, <2>5
    <2> QED BY <1>2, <2>1, <2>4, <2>5
<1>11. last + e \in LineEnds(b)
    BY <1>9, <1>10 DEF LineEnds
<1> QED
    BY <1>1, <1>2, <1>7, <1>11

\* What process_ssl has is the whole head, when an empty line is in it.
LEMMA BlankIsTheEnd ==
    ASSUME NEW b \in Bytes, head \in Heads, IsConnect, Begins(b), Blank(b) # {}
    PROVE  b = head
<1>1. PICK i \in LineEnds(b) : i = 1 \/ i - 1 \in LineEnds(b)
    BY DEF Blank
<1>2. head \in Bytes /\ head # <<>> /\ Len(head) \in Nat /\ Len(b) \in Nat
    BY HeadAssumption, Join DEF Bytes
<1>3. i \in 1 .. Len(b) /\ b[i] = EOL /\ head[i] = EOL
    BY <1>2, LineEndsAreEnds DEF Begins
<1>4. i # 1
    BY <1>3 DEF IsConnect, EOL
<1>5. i - 1 \in 1 .. Len(b) /\ head[i - 1] = EOL
    BY <1>1, <1>2, <1>4, LineEndsAreEnds DEF Begins
<1>6. i \in 2 .. Len(head)
    BY <1>2, <1>3, <1>4 DEF Begins
<1>7. i = Len(head)
    BY <1>3, <1>5, <1>6, TunnelAssumption DEF IsConnect
<1>8. Len(b) >= Len(head)
    BY <1>2, <1>3, <1>7
<1> QED
    BY <1>2, <1>8, BeginsAll

\* The whole head has one, when none of its lines is too long.
LEMMA EndIsBlank ==
    ASSUME head \in Heads, IsConnect, ShortLines
    PROVE  Blank(head) # {}
<1>1. Len(head) > 1 /\ Len(head) \in Nat
    BY HeadAssumption, TunnelAssumption, Join DEF IsConnect, Bytes
<1>2. head[Len(head) - 1] = EOL /\ head[Len(head)] = EOL
    BY <1>1, TunnelAssumption DEF IsConnect
<1>3. Len(head) \in LineEnds(head) /\ Len(head) - 1 \in LineEnds(head)
    BY <1>1, <1>2 DEF ShortLines
<1> QED
    BY <1>3 DEF Blank

\* The two outcomes of process_ssl.
LEMMA ProcessSSLEnds ==
    ASSUME buf \in Bytes, ProcessSSL
    PROVE  \/ Blank(buf) # {} /\ buf' = <<>> /\ ssl' = "SSL_OK" /\ established' = TRUE
           \/ /\ Blank(buf) = {} /\ buf' = Drop(buf, Last(buf)) /\ LineEnds(buf') = {}
              /\ UNCHANGED <<ssl, established>>
<1>1. CASE Blank(buf) # {}
    BY <1>1 DEF ProcessSSL, Blank
<1>2. CASE Blank(buf) = {}
    <2>1. buf' = Drop(buf, Last(buf)) /\ UNCHANGED <<ssl, established>>
        BY <1>2 DEF ProcessSSL, Blank, Last
    <2>2. LineEnds(Drop(buf, Last(buf))) = {}
        BY NoLineIsLeft
    <2> QED BY <1>2, <2>1, <2>2
<1> QED BY <1>1, <1>2

-----------------------------------------------------------------------------
(* The tunnel. *)

\* What is buffered begins the head, and what waits and is coming goes on with
\* it, or the head does not fit and the buffer is full of its first part.
InOrder ==
    /\ Begins(buf)
    /\ \/ Begins((buf \o socket) \o coming)
       \/ Len(buf) = BufferSpace /\ ~Fits

\* Before the relay nothing is sent, nobody is told of a tunnel, and the head is
\* buffered in order.
Waiting ==
    state # "PASSING_CONTENT" =>
        /\ sent = <<>> /\ ~established /\ ~early /\ origin = "none" /\ ssl # "SSL_OK"
        /\ ~ended => InOrder
        /\ state = "READING_HEADER_FIRST_LINE" => peeked = 0 /\ ssl = "NO_SSL"

\* A tunnel is one that the first line of the head asks for.
KnownTunnel ==
    /\ ssl # "NO_SSL" => IsConnect /\ state \in {"CONNECTING", "PASSING_CONTENT"}
    /\ IsConnect /\ state # "READING_HEADER_FIRST_LINE" => ssl # "NO_SSL"

\* When a tunnel stands, all of the head was taken and nothing was sent; one that
\* does not stand when the relay begins has no line that process_ssl can read.
Standing ==
    /\ established => ssl = "SSL_OK"
    /\ ssl = "SSL_OK" =>
        /\ sent = <<>> /\ state = "PASSING_CONTENT"
        /\ ~ended => buf = <<>> /\ socket = <<>> /\ coming = <<>>
    /\ ssl = "SSL_CONNECTING" /\ state = "PASSING_CONTENT" =>
        (early \/ ~ShortLines) /\ LineEnds(buf) = {}

TunnelInv == Typed /\ Waiting /\ KnownTunnel /\ Standing

\* The tunnel's property is a part of the invariant.
LEMMA TunnelInvMeans == TunnelInv => TunnelIsClean
BY DEF TunnelInv, Typed, Waiting, KnownTunnel, Standing, TunnelIsClean

\* Pieces that arrive, or do not, leave what is buffered in order.
LEMMA ArriveInOrder ==
    ASSUME Typed, InOrder, Arrive \/ HangUp
    PROVE  InOrder'
<1> USE DEF arrival, parser, relay
<1>0. buf \in Bytes /\ socket \in Bytes /\ coming \in Bytes /\ head \in Bytes
    BY HeadAssumption DEF Typed, Bytes
<1>1. head' = head /\ buf' = buf
    BY DEF Arrive, HangUp
<1>2. ASSUME Begins((buf \o socket) \o coming) PROVE Begins((buf' \o socket') \o coming')
    <2>1. CASE Arrive
        <3>1. PICK n \in 1 .. Len(coming) :
                socket' = socket \o SubSeq(coming, 1, n) /\ coming' = Drop(coming, n)
            BY <2>1 DEF Arrive
        <3>2. n \in 0 .. Len(coming)
            BY <1>0, Join
        <3>3. PICK piece \in Bytes :
                socket' = socket \o piece /\ coming = piece \o coming' /\ coming' \in Bytes
            BY <1>0, <3>1, <3>2, Cut
        <3>4. socket' \in Bytes
            BY <1>0, <3>3, Join
        <3>5. (buf \o socket) \o coming = (buf \o socket') \o coming'
            BY <1>0, <3>3, <3>4, PieceArrives
        <3> QED BY <1>1, <1>2, <3>5
    <2>2. CASE HangUp
        <3>1. socket' = socket /\ coming' = <<>> /\ buf \o socket \in Bytes
            BY <1>0, <2>2, Join DEF HangUp
        <3>2. Begins(buf \o socket)
            BY <1>0, <1>2, <3>1, BeginsPart
        <3>3. (buf \o socket) \o <<>> = buf \o socket
            BY <3>1, <1>0, EmptyIsBytes, Join
        <3> QED BY <1>1, <3>1, <3>2, <3>3
    <2> QED BY <2>1, <2>2
<1> QED
    BY <1>1, <1>2 DEF InOrder, Begins, Fits

\* So does the receive loop.
LEMMA ReadInOrder ==
    ASSUME Typed, InOrder, buf' = Received, socket' = <<>>, coming' = coming, head' = head
    PROVE  InOrder' /\ Begins(Received)
<1> DEFINE n == Lesser(Len(socket), BufferSpace - Len(buf))
           piece == SubSeq(socket, 1, n)
           rest == Drop(socket, n)
<1>0. /\ buf \in Bytes /\ socket \in Bytes /\ coming \in Bytes /\ head \in Bytes
      /\ Len(buf) \in Nat /\ Len(socket) \in Nat /\ Len(coming) \in Nat /\ Len(head) \in Nat
      /\ BufferSpace \in Nat /\ Len(buf) <= BufferSpace
    BY HeadAssumption, Join DEF Typed, Bytes
<1>1. n \in 0 .. Len(socket) /\ n \in Nat
    BY <1>0 DEF Lesser
<1>2. n = Len(socket) \/ Len(buf) + n = BufferSpace
    BY <1>0 DEF Lesser
<1>3. piece \in Bytes /\ Len(piece) = n /\ rest \in Bytes /\ Len(rest) = Len(socket) - n
      /\ piece \o rest = socket
    BY <1>0, <1>1, Cut
<1>4. Received = buf \o piece
    BY DEF Received
<1> HIDE DEF n, piece, rest
<1>5. Received \in Bytes /\ Len(Received) = Len(buf) + n
    BY <1>0, <1>3, <1>4, Join
<1>6. CASE Begins((buf \o socket) \o coming)
    <2>1. buf \o socket \in Bytes /\ Len(buf \o socket) = Len(buf) + Len(socket)
        BY <1>0, Join
    <2>2. Begins(buf \o socket)
        BY <1>0, <1>6, <2>1, BeginsPart
    <2>3. Received \o rest = buf \o socket
        <3>1. (buf \o piece) \o rest = buf \o (piece \o rest)
            <4>1. Cat(Cat(buf, piece), rest) = Cat(buf, Cat(piece, rest))
                BY <1>0, <1>3, Grouped
            <4> QED BY <4>1 DEF Cat
        <3> QED BY <1>3, <1>4, <3>1
    <2>4. Begins(Received)
        BY <1>0, <1>3, <1>5, <2>2, <2>3, BeginsPart
    <2>5. CASE n = Len(socket)
        <3>1. rest = <<>>
            BY <1>0, <1>3, <2>5, NothingLeft
        <3>2. Received = buf \o socket /\ Received \o <<>> = Received
            BY <1>5, <2>3, <3>1, <1>0, Join
        <3>3. Begins((buf' \o socket') \o coming')
            BY <1>6, <3>2
        <3> QED BY <2>4, <3>3 DEF InOrder, Begins
    <2>6. CASE n # Len(socket)
        <3>1. Len(Received) = BufferSpace /\ n < Len(socket)
            BY <1>0, <1>1, <1>2, <1>5, <2>6
        <3>2. Len(buf) + Len(socket) <= Len(head)
            BY <2>1, <2>2 DEF Begins
        <3>3. ~Fits
            BY <1>0, <1>1, <1>5, <3>1, <3>2 DEF Fits
        <3> QED BY <2>4, <3>1, <3>3 DEF InOrder, Begins, Fits
    <2> QED BY <2>5, <2>6
<1>7. CASE Len(buf) = BufferSpace /\ ~Fits
    <2>1. Len(piece) = 0
        BY <1>0, <1>1, <1>2, <1>3, <1>7 DEF n, Lesser
    <2>2. Received = buf
        BY <1>0, <1>3, <1>4, <2>1, NothingLeft, Join
    <2> QED BY <1>7, <2>2 DEF InOrder, Begins, Fits
<1> QED
    BY <1>6, <1>7 DEF InOrder

\* Nothing the tunnel's invariant speaks of changes but the end of the connection.
LEMMA KillKeepsTunnel ==
    ASSUME TunnelInv, Kill
    PROVE  Waiting' /\ KnownTunnel' /\ Standing'
<1>1. /\ ended' = TRUE /\ origin' = "none" /\ buf' = <<>> /\ peeked' = 0
      /\ UNCHANGED <<head, coming, state, ssl, sent, established, early>>
    BY DEF Kill
<1>2. Waiting'
    BY <1>1 DEF TunnelInv, Waiting
<1>3. KnownTunnel'
    BY <1>1 DEF TunnelInv, KnownTunnel, IsConnect
<1>4. ShortLines' = ShortLines
    BY <1>1 DEF ShortLines, LineEnds
<1>5. (LineEnds(buf) = {})'
    BY <1>1, NoLinesInNothing DEF LineEnds
<1>6. Standing'
    BY <1>1, <1>4, <1>5 DEF TunnelInv, Standing
<1> QED BY <1>2, <1>3, <1>6

\* The first line is read: the head is a tunnel's if it says so.
LEMMA FirstLineKeepsTunnel ==
    ASSUME TunnelInv, ReadFirstLine, ~Kill
    PROVE  Waiting' /\ KnownTunnel' /\ Standing'
<1> DEFINE n == PeekLine(Received)
           line == Received[peeked + 1]
<1> USE DEF arrival, parser, relay
<1>1. /\ state = "READING_HEADER_FIRST_LINE" /\ peeked = 0 /\ ssl = "NO_SSL" /\ ~ended
      /\ sent = <<>> /\ ~established /\ ~early /\ origin = "none" /\ InOrder
    BY DEF TunnelInv, Waiting, ReadFirstLine, Readable
<1>2. /\ buf' = Received /\ socket' = <<>>
      /\ UNCHANGED <<head, coming, eof, sent, established, early, origin, ended>>
    BY DEF ReadFirstLine
<1>3. InOrder' /\ Begins(Received)
    BY <1>1, <1>2, ReadInOrder DEF TunnelInv
<1>4. CASE UNCHANGED <<state, ssl, peeked>>
    <2>1. Waiting'
        BY <1>1, <1>2, <1>3, <1>4 DEF Waiting
    <2>2. KnownTunnel'
        BY <1>1, <1>2, <1>4 DEF KnownTunnel
    <2>3. Standing'
        BY <1>1, <1>2, <1>4 DEF Standing
    <2> QED BY <2>1, <2>2, <2>3
<1>5. CASE /\ n > 0
           /\ \/ state' = "CONNECTING" /\ line = "CONNECT" /\ ssl' = "SSL_CONNECTING"
              \/ /\ state' \in {"CONNECTING", "SEARCHING_FOR_HEADER_HOST"}
                 /\ line # "CONNECT" /\ ssl' = "NO_SSL"
    <2>1. Received \in Bytes /\ Len(Received) \in Nat /\ Len(buf) <= Len(Received)
        BY ReceivedFits, HeadAssumption, Join DEF TunnelInv, Typed
    <2>2. n \in Int /\ peeked + n \in 0 .. Len(Received)
        <3>1. peeked \in 0 .. Len(Received)
            BY <1>1, <2>1
        <3> QED BY <1>5, <2>1, <3>1, PeekedLine, HeadAssumption
    <2>3. 1 \in 1 .. Len(Received)
        <3> HIDE DEF n
        <3> QED BY <1>1, <1>5, <2>1, <2>2
    <2>4. line = head[1]
        BY <1>1, <1>3, <2>3 DEF Begins
    <2>5. Waiting'
        BY <1>1, <1>2, <1>3, <1>5 DEF Waiting
    <2>6. KnownTunnel'
        BY <1>2, <1>5, <2>4 DEF KnownTunnel, IsConnect
    <2>7. Standing'
        BY <1>1, <1>2, <1>5 DEF Standing
    <2> QED BY <2>5, <2>6, <2>7
<1> QED
    BY <1>4, <1>5 DEF ReadFirstLine, StartResolver

\* A Host line is not searched for a tunnel.
LEMMA SearchKeepsTunnel ==
    ASSUME TunnelInv, SearchHost, ~Kill
    PROVE  Waiting' /\ KnownTunnel' /\ Standing'
<1> USE DEF arrival, parser, relay
<1>1. /\ state = "SEARCHING_FOR_HEADER_HOST" /\ ssl = "NO_SSL" /\ ~ended /\ ~IsConnect
      /\ sent = <<>> /\ ~established /\ ~early /\ origin = "none" /\ InOrder
    BY DEF TunnelInv, Waiting, KnownTunnel, SearchHost
<1>2. /\ buf' = Received /\ socket' = <<>>
      /\ UNCHANGED <<head, coming, eof, ssl, sent, established, early, origin, ended>>
      /\ state' \in {"CONNECTING", "SEARCHING_FOR_HEADER_HOST"}
    BY <1>1 DEF SearchHost, StartResolver
<1>3. InOrder'
    BY <1>1, <1>2, ReadInOrder DEF TunnelInv
<1>4. Waiting'
    BY <1>1, <1>2, <1>3 DEF Waiting
<1>5. KnownTunnel'
    BY <1>1, <1>2 DEF KnownTunnel, IsConnect
<1>6. Standing'
    BY <1>1, <1>2 DEF Standing
<1> QED BY <1>4, <1>5, <1>6

\* The relay begins: a tunnel stands when all of its head is there, and then
\* nothing of it is left.
LEMMA BlockKeepsTunnel ==
    ASSUME TunnelInv, Block, ~Kill
    PROVE  Waiting' /\ KnownTunnel' /\ Standing'
<1> USE DEF arrival, parser, relay
<1>1. /\ state = "CONNECTING" /\ ~ended /\ sent = <<>> /\ ~established /\ ssl # "SSL_OK" /\ InOrder
    BY DEF TunnelInv, Waiting, Block
<1>2. /\ state' = "PASSING_CONTENT" /\ early' = (buf # head)
      /\ UNCHANGED <<head, coming, socket, sent, ended>>
      /\ IF ssl = "SSL_CONNECTING" THEN ProcessSSL ELSE UNCHANGED <<ssl, established, buf>>
    BY DEF Block
<1>3. Waiting'
    BY <1>2 DEF Waiting
<1>4. ShortLines' = ShortLines /\ IsConnect' = IsConnect
    BY <1>2 DEF ShortLines, LineEnds, IsConnect
<1>5. CASE ssl # "SSL_CONNECTING"
    <2>1. ssl = "NO_SSL" /\ ssl' = ssl /\ established' = established
        BY <1>1, <1>2, <1>5 DEF TunnelInv, Typed
    <2>2. KnownTunnel'
        BY <1>1, <1>2, <1>4, <2>1 DEF TunnelInv, KnownTunnel
    <2>3. Standing'
        BY <1>1, <1>2, <2>1 DEF Standing
    <2> QED BY <1>3, <2>2, <2>3
<1>6. CASE ssl = "SSL_CONNECTING"
    <2>0. /\ buf \in Bytes /\ head \in Bytes /\ head \in Heads /\ socket \in Bytes
          /\ coming \in Bytes /\ IsConnect /\ Begins(buf)
        BY <1>1, <1>6, HeadAssumption DEF TunnelInv, Typed, KnownTunnel, InOrder, Bytes
    <2>1. CASE Blank(buf) # {} /\ buf' = <<>> /\ ssl' = "SSL_OK" /\ established' = TRUE
        <3>1. buf = head
            BY <2>0, <2>1, BlankIsTheEnd
        <3>2. /\ Len(head) \in Nat /\ Len(buf) <= BufferSpace /\ Len(socket) \in Nat
              /\ Len(coming) \in Nat
            BY <2>0, Join DEF TunnelInv, Typed
        <3>3. Begins((buf \o socket) \o coming)
            BY <1>1, <3>1, <3>2 DEF InOrder, Fits
        <3>4. buf \o socket \in Bytes /\ Len(buf \o socket) = Len(buf) + Len(socket)
            BY <2>0, Join
        <3>5. Len((buf \o socket) \o coming) = Len(buf) + Len(socket) + Len(coming)
            BY <2>0, <3>4, Join
        <3>6. Len(socket) = 0 /\ Len(coming) = 0
            BY <3>1, <3>2, <3>3, <3>5 DEF Begins
        <3>7. socket = <<>> /\ coming = <<>>
            BY <2>0, <3>6, NothingLeft
        <3>8. KnownTunnel'
            BY <1>2, <1>4, <2>0, <2>1 DEF KnownTunnel
        <3>9. Standing'
            BY <1>1, <1>2, <2>1, <3>7 DEF Standing
        <3> QED BY <1>3, <3>8, <3>9
    <2>2. CASE /\ Blank(buf) = {} /\ LineEnds(buf') = {}
               /\ UNCHANGED <<ssl, established>>
        <3>1. ASSUME ~early', ShortLines PROVE FALSE
            <4>1. buf = head
                BY <1>2, <3>1
            <4>2. Blank(head) # {}
                BY <2>0, <3>1, EndIsBlank
            <4> QED BY <2>2, <4>1, <4>2
        <3>2. early' \/ ~ShortLines'
            BY <1>4, <3>1
        <3>3. (LineEnds(buf) = {})'
            BY <2>2 DEF LineEnds
        <3>4. KnownTunnel'
            BY <1>2, <1>4, <1>6, <2>0, <2>2 DEF KnownTunnel
        <3>5. Standing'
            BY <1>1, <1>2, <1>6, <2>2, <3>2, <3>3 DEF Standing
        <3> QED BY <1>3, <3>4, <3>5
    <2> QED BY <1>2, <1>6, <2>0, <2>1, <2>2, ProcessSSLEnds
<1> QED BY <1>5, <1>6

\* The handlers of the relay: process_ssl finds nothing any more, and when the
\* tunnel stands there is nothing of the head to pass.
LEMMA RelayKeepsTunnel ==
    ASSUME TunnelInv, PassSSL \/ (Pass /\ ~Kill) \/ OriginWrite
    PROVE  Waiting' /\ KnownTunnel' /\ Standing'
<1> USE DEF arrival, parser, relay
<1>1. state = "PASSING_CONTENT" /\ ~ended
    BY DEF TunnelInv, Waiting, PassSSL, Pass, OriginWrite, Readable
<1>2. UNCHANGED <<head, coming, state, early, ended>>
    BY DEF PassSSL, Pass, OriginWrite
<1>3. Waiting'
    BY <1>1, <1>2 DEF Waiting
<1>4. ShortLines' = ShortLines /\ IsConnect' = IsConnect
    BY <1>2 DEF ShortLines, LineEnds, IsConnect
<1>5. CASE PassSSL
    <2>1. ssl = "SSL_CONNECTING" /\ ProcessSSL /\ UNCHANGED <<sent, socket>>
        BY <1>5 DEF PassSSL
    <2>2. (early \/ ~ShortLines) /\ LineEnds(buf) = {} /\ ~established
        BY <1>1, <2>1 DEF TunnelInv, Standing
    <2>3. Blank(buf) = {}
        BY <2>2 DEF Blank
    <2>4. LineEnds(buf') = {} /\ UNCHANGED <<ssl, established>>
        BY <2>1, <2>3, ProcessSSLEnds DEF TunnelInv, Typed
    <2>5. (LineEnds(buf) = {})'
        BY <2>4 DEF LineEnds
    <2>6. KnownTunnel'
        BY <1>2, <1>4, <2>4 DEF TunnelInv, KnownTunnel
    <2>7. Standing'
        BY <1>1, <1>2, <1>4, <2>1, <2>2, <2>4, <2>5 DEF Standing
    <2> QED BY <1>3, <2>6, <2>7
<1>6. CASE Pass /\ ~Kill
    <2> DEFINE n == Lesser(Len(socket), BufferSpace - Len(buf))
    <2>1. /\ ssl # "SSL_CONNECTING" /\ UNCHANGED <<ssl, sent, established>>
          /\ buf' = buf \o SubSeq(socket, 1, n) /\ socket' = Drop(socket, n)
        BY <1>6 DEF Pass
    <2>2. KnownTunnel'
        BY <1>2, <1>4, <2>1 DEF TunnelInv, KnownTunnel
    <2>3. ASSUME ssl = "SSL_OK" PROVE buf' = <<>> /\ socket' = <<>> /\ coming' = <<>>
        <3>1. buf = <<>> /\ socket = <<>> /\ coming = <<>>
            BY <1>1, <2>3 DEF TunnelInv, Standing
        <3>2. n \in 0 .. 0 /\ 0 \in Nat
            BY <3>1, EmptyIsBytes, HeadAssumption DEF Lesser
        <3> HIDE DEF n
        <3>3. Len(SubSeq(socket, 1, n)) = 0 /\ Len(socket') = 0
              /\ SubSeq(socket, 1, n) \in Bytes /\ socket' \in Bytes
            <4>1. n \in 0 .. Len(socket) /\ socket \in Bytes /\ Len(socket) = 0 /\ n = 0
                BY <3>1, <3>2, EmptyIsBytes
            <4> QED BY <2>1, <4>1, Cut DEF n
        <3>4. SubSeq(socket, 1, n) = <<>> /\ socket' = <<>>
            BY <3>3, NothingLeft
        <3> QED BY <1>2, <2>1, <3>1, <3>4, EmptyIsBytes, Join DEF n
    <2>4. Standing'
        BY <1>1, <1>2, <2>1, <2>3 DEF TunnelInv, Standing
    <2> QED BY <1>3, <2>2, <2>4
<1>7. CASE OriginWrite
    <2>1. sent' = sent \o buf /\ buf' = <<>> /\ UNCHANGED <<ssl, established, socket>>
        BY <1>7 DEF OriginWrite
    <2>2. KnownTunnel'
        BY <1>2, <1>4, <2>1 DEF TunnelInv, KnownTunnel
    <2>3. ssl = "SSL_OK" => sent' = <<>>
        BY <1>1, <2>1, EmptyIsBytes, Join DEF TunnelInv, Standing
    <2>4. (LineEnds(buf) = {})'
        BY <2>1, NoLinesInNothing DEF LineEnds
    <2>5. Standing'
        BY <1>1, <1>2, <1>4, <2>1, <2>3, <2>4 DEF TunnelInv, Standing
    <2> QED BY <1>3, <2>2, <2>5
<1> QED BY <1>5, <1>6, <1>7

\* Steps outside the handlers.
LEMMA OthersKeepTunnel ==
    ASSUME TunnelInv, Arrive \/ HangUp \/ Connected \/ UNCHANGED vars
    PROVE  Waiting' /\ KnownTunnel' /\ Standing'
<1> USE DEF arrival, parser, relay
<1>1. UNCHANGED <<head, state, ssl, buf, peeked, origin, sent, established, early, ended>>
    BY DEF Arrive, HangUp, Connected, vars
<1>2. InOrder => InOrder'
    <2>1. CASE Connected \/ UNCHANGED vars
        BY <2>1 DEF Connected, vars, InOrder, Begins, Fits
    <2>2. CASE Arrive \/ HangUp
        BY <2>2, ArriveInOrder DEF TunnelInv
    <2> QED BY <2>1, <2>2
<1>3. socket = <<>> /\ coming = <<>> => socket' = <<>> /\ coming' = <<>>
    <2>1. CASE Arrive
        <3>1. Len(coming) \in Nat /\ Len(coming) > 0
            BY <2>1, Join DEF Arrive, TunnelInv, Typed
        <3> QED BY <3>1, EmptyIsBytes
    <2> QED BY <2>1 DEF HangUp, Connected, vars
<1>4. Waiting'
    BY <1>1, <1>2 DEF TunnelInv, Waiting
<1>5. KnownTunnel'
    BY <1>1 DEF TunnelInv, KnownTunnel, IsConnect
<1>6. ShortLines' = ShortLines /\ (LineEnds(buf))' = LineEnds(buf)
    BY <1>1 DEF ShortLines, LineEnds
<1>7. Standing'
    BY <1>1, <1>3, <1>6 DEF TunnelInv, Standing
<1> QED BY <1>4, <1>5, <1>7

\* Every step keeps the tunnel's invariant.
LEMMA NextKeepsTunnel ==
    ASSUME TunnelInv, [Next]_vars
    PROVE  TunnelInv'
<1>1. Typed'
    BY NextTyped DEF TunnelInv
<1>2. Kill => Waiting' /\ KnownTunnel' /\ Standing'
    BY KillKeepsTunnel
<1>3. Waiting' /\ KnownTunnel' /\ Standing'
    BY <1>2, FirstLineKeepsTunnel, SearchKeepsTunnel, BlockKeepsTunnel, RelayKeepsTunnel,
       OthersKeepTunnel
    DEF Next, Handlers, Resolver, Unresolved
<1> QED BY <1>1, <1>3 DEF TunnelInv

LEMMA InitTunnel ==
    ASSUME Init
    PROVE  TunnelInv
<1>1. Typed
    BY InitTyped
<1>2. head \in Bytes /\ (<<>> \o <<>>) \o head = head
    BY <1>1, EmptyIsBytes, Join, HeadAssumption DEF Typed, Bytes
<1>3. Len(head) \in Nat
    BY <1>2, Join
<1>4. Begins(<<>>) /\ Begins(head)
    BY <1>3, EmptyIsBytes DEF Begins
<1>5. InOrder
    BY <1>2, <1>4 DEF Init, InOrder
<1> QED
    BY <1>1, <1>5 DEF Init, TunnelInv, Waiting, KnownTunnel, Standing

\* The origin of a tunnel gets nothing of the CONNECT head that was there when the
\* connection was made, and nothing is passed before the client is told of it.
THEOREM TunnelAlwaysClean == Spec => []TunnelIsClean
<1>1. Init => TunnelInv
    BY InitTunnel
<1>2. TunnelInv /\ [Next]_vars => TunnelInv'
    BY NextKeepsTunnel
<1>3. TunnelInv => TunnelIsClean
    BY TunnelInvMeans
<1> QED
    BY <1>1, <1>2, <1>3, PTL DEF Spec

=================================================================================
