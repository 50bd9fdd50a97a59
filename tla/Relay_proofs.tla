---------------------------- MODULE Relay_proofs ----------------------------
EXTENDS Relay, TLAPS

-----------------------------------------------------------------------------
(* What the shared helpers return. *)

\* The numbers the buffers and pipes start from.
LEMMA Zero == 0 \in 0 .. Cap /\ 0 \in 0 .. PipeCap /\ 0 \in Nat
BY ConstantsAssumption

\* SetInterest stays in the type.
LEMMA SetInterestType ==
    ASSUME NEW c \in Connection, NEW fd \in Fds, NEW i \in Interests
    PROVE  SetInterest(c, fd, i) \in Connection
BY DEF SetInterest, Connection

\* Unregister returns a connection.
LEMMA UnregisterType ==
    ASSUME NEW c \in Connection, NEW fd \in Fds
    PROVE  Unregister(c, fd) \in Connection
BY DEF Unregister, Connection, Interests

\* What is written to the response buffer keeps it within Cap.
LEMMA RespondType ==
    ASSUME NEW c \in Connection, NEW n \in Nat
    PROVE  Respond(c, n) \in Connection
<1>1. Smaller(Cap, c.resp + n) \in 0 .. Cap
  BY ConstantsAssumption DEF Smaller, Connection
<1>2. (c.lost \/ c.resp + n > Cap) \in BOOLEAN
  OBVIOUS
<1> QED BY <1>1, <1>2 DEF Respond, Connection

\* The length of the chunked encoding is a number.
LEMMA ChunkedType ==
    ASSUME NEW n \in Nat PROVE Chunked(n) \in Nat
<1>1. (n + ReadSize - 1) \div ReadSize \in Nat
  BY ConstantsAssumption
<1> QED BY <1>1, ConstantsAssumption DEF Chunked

\* The end chunk keeps a connection a connection.
LEMMA EndBodyType ==
    ASSUME NEW c \in Connection PROVE EndBody(c) \in Connection
<1>1. Respond(c, EndChunk) \in Connection
  BY RespondType, ConstantsAssumption
<1>2. c.ended + 1 \in Nat
  BY DEF Connection
<1> QED BY <1>1, <1>2 DEF EndBody, Connection

\* kill_transformation returns a connection.
LEMMA KillTransformationType ==
    ASSUME NEW c \in Connection PROVE KillTransformation(c) \in Connection
<1> DEFINE u == Unregister(Unregister(c, "pipeOut"), "pipeIn")
<1>1. u \in Connection
  BY UnregisterType DEF Fds
<1> HIDE DEF u
<1>2. [u EXCEPT !.transformer = FALSE, !.tmp = 0, !.inPipe = 0, !.outPipe = 0,
                !.outEof = FALSE] \in Connection
  BY <1>1, Zero DEF Connection
<1> QED BY <1>2 DEF KillTransformation, u

\* kill_origin returns a connection.
LEMMA KillOriginType ==
    ASSUME NEW c \in Connection PROVE KillOrigin(c) \in Connection
<1> DEFINE k == [KillTransformation(c) EXCEPT !.pbuf = 0]
<1>1. k \in Connection
  BY KillTransformationType, ConstantsAssumption DEF Connection
<1> QED BY <1>1, UnregisterType DEF KillOrigin, Fds

\* kill_client returns a connection.
LEMMA KillClientType ==
    ASSUME NEW c \in Connection PROVE KillClient(c) \in Connection
<1> DEFINE k == IF c.state = "CLOSED" THEN c ELSE KillOrigin(c)
           u == Unregister(k, "client")
<1>1. u \in Connection
  BY KillOriginType, UnregisterType DEF Fds
<1> HIDE DEF u
<1>2. [u EXCEPT !.state = "FREED", !.req = 0, !.resp = 0] \in Connection
  BY <1>1, Zero DEF Connection, ConnectionStates
<1> QED BY <1>2 DEF KillClient, u

\* reset_origin_data returns a connection.
LEMMA ResetOriginDataType ==
    ASSUME NEW c \in Connection PROVE ResetOriginData(c) \in Connection
<1> DEFINE k == KillTransformation(c)
           p == FirstParserState(c.ssl)
           l == c.lost \/ c.transformer \/ c.pbuf > 0
<1>1. k \in Connection /\ p \in ParserStates /\ l \in BOOLEAN
  BY KillTransformationType DEF FirstParserState, ParserStates, Connection
<1> HIDE DEF k, p, l
<1>2. [k EXCEPT !.lost = l, !.pbuf = 0, !.framing = "close", !.finished = FALSE,
                !.parser = p, !.ended = 0] \in Connection
  BY <1>1, Zero DEF Connection, Framings
<1> QED BY <1>2 DEF ResetOriginData, k, p, l

\* Starting the filter returns a connection.
LEMMA StartTransformationType ==
    ASSUME NEW c \in Connection PROVE StartTransformation(c) \in Connection
<1> DEFINE i == [c.interest EXCEPT !["pipeOut"] = "read", !["pipeIn"] = "write"]
<1>1. i \in [Fds -> Interests]
  BY DEF Connection, Fds, Interests
<1> HIDE DEF i
<1>2. [c EXCEPT !.transformer = TRUE, !.tmp = 0, !.interest = i,
                !.inPipe = 0, !.outPipe = 0, !.outEof = FALSE] \in Connection
  BY <1>1, Zero DEF Connection
<1> QED BY <1>2 DEF StartTransformation, i

-----------------------------------------------------------------------------
(* What the parser may return. *)

\* read_unchunked takes no more than parser_buff holds.
LEMMA UnchunkedType ==
    ASSUME NEW c \in Connection, NEW u \in Unchunked(c)
    PROVE  /\ u.payload \in 0 .. c.pbuf
           /\ u.rest \in 0 .. c.pbuf
           /\ u.payload + u.rest <= c.pbuf
           /\ u.done \in BOOLEAN
<1>0. c.pbuf \in Nat /\ c.framing \in Framings /\ MaxLine \in Nat
  BY ConstantsAssumption DEF Connection
<1>1. CASE c.framing = "close"
  <2>1. u \in [payload: {c.pbuf}, rest: {0}, done: {FALSE}]
    BY <1>1 DEF Unchunked
  <2>2. u.payload = c.pbuf /\ u.rest = 0 /\ u.done \in BOOLEAN
    BY <2>1
  <2> QED BY <1>0, <2>2
<1>2. CASE c.framing = "length"
  <2>1. u \in [payload: {c.pbuf}, rest: {0}, done: BOOLEAN]
    BY <1>2 DEF Unchunked
  <2>2. u.payload = c.pbuf /\ u.rest = 0 /\ u.done \in BOOLEAN
    BY <2>1
  <2> QED BY <1>0, <2>2
<1>3. CASE c.framing = "chunked"
  <2>1. u \in [payload: 0 .. c.pbuf, rest: 0 .. MaxLine, done: BOOLEAN]
        /\ u.payload + u.rest <= c.pbuf
    BY <1>3 DEF Unchunked
  <2>2. u.payload \in 0 .. c.pbuf /\ u.rest \in 0 .. MaxLine /\ u.done \in BOOLEAN
    BY <2>1
  <2>3. u.payload + u.rest <= c.pbuf
    BY <2>1
  <2> QED BY <1>0, <2>2, <2>3
<1> QED BY <1>0, <1>1, <1>2, <1>3 DEF Framings

\* The header parser takes no more than parser_buff holds.
LEMMA HeaderLinesType ==
    ASSUME NEW c \in Connection, NEW h \in HeaderLines(c)
    PROVE  /\ h.taken \in 0 .. c.pbuf
           /\ h.sent \in Nat
           /\ h.framing \in Framings
<1>1. NextFramings(c) \subseteq Framings
  BY DEF NextFramings, Connection
<1>2. h \in [taken: 0 .. c.pbuf, sent: 0 .. c.pbuf, framing: NextFramings(c)]
  BY DEF HeaderLines
<1> QED BY <1>1, <1>2

\* Every result of the header parser is such a step.
LEMMA HeaderOpenIsStep ==
    ASSUME NEW c \in Connection, NEW p \in HeaderOpen(c)
    PROVE  \E h \in HeaderLines(c) :
              IsRest(c.pbuf - h.taken) /\ p = ReadHeader(c, h, 0, "READING_HEADER")
BY DEF HeaderOpen

\* The step from the header to the body is one ReadHeader.
LEMMA HeaderDoneIsStep ==
    ASSUME NEW c \in Connection, NEW p \in HeaderDone(c)
    PROVE  \E h \in HeaderLines(c), a \in Nat : p = ReadHeader(c, h, a, "READING_BODY")
<1>1. PICK h \in HeaderLines(c) :
        p = ReadHeader(c, h, IF h.framing = "chunked" THEN 0 ELSE HeaderOverhead,
                       "READING_BODY")
  BY DEF HeaderDone
<1>2. (IF h.framing = "chunked" THEN 0 ELSE HeaderOverhead) \in Nat
  BY ConstantsAssumption
<1> QED BY <1>1, <1>2

-----------------------------------------------------------------------------
(* What each helper does to the fields the lifecycle is about. *)

\* set_interest touches the interests only, and registers nothing.
LEMMA SetInterestEffect ==
    ASSUME NEW c \in Connection, NEW fd \in Fds, NEW i \in Interests
    PROVE  LET d == SetInterest(c, fd, i) IN
           /\ d.state = c.state /\ d.transformer = c.transformer
           /\ d.req = c.req /\ d.resp = c.resp /\ d.pbuf = c.pbuf
           /\ d.finished = c.finished
           /\ \A g \in Fds : d.interest[g] =
                 IF g = fd /\ c.interest[fd] # "none" THEN i ELSE c.interest[g]
BY DEF SetInterest, Connection

\* Unregister touches one interest only.
LEMMA UnregisterEffect ==
    ASSUME NEW c \in Connection, NEW fd \in Fds
    PROVE  LET d == Unregister(c, fd) IN
           /\ d.state = c.state /\ d.transformer = c.transformer
           /\ d.req = c.req /\ d.resp = c.resp /\ d.pbuf = c.pbuf
           /\ d.finished = c.finished
           /\ \A g \in Fds : d.interest[g] = IF g = fd THEN "none" ELSE c.interest[g]
BY DEF Unregister, Connection

\* Respond touches the response buffer only.
LEMMA RespondEffect ==
    ASSUME NEW c \in Connection, NEW n \in Nat
    PROVE  LET d == Respond(c, n) IN
           /\ d.state = c.state /\ d.transformer = c.transformer
           /\ d.req = c.req /\ d.pbuf = c.pbuf /\ d.finished = c.finished
           /\ d.interest = c.interest
BY DEF Respond, Connection

\* EndBody touches the response buffer and the count of end chunks only.
LEMMA EndBodyEffect ==
    ASSUME NEW c \in Connection
    PROVE  LET d == EndBody(c) IN
           /\ d.state = c.state /\ d.transformer = c.transformer
           /\ d.req = c.req /\ d.pbuf = c.pbuf /\ d.finished = c.finished
           /\ d.interest = c.interest
<1> DEFINE r == Respond(c, EndChunk)
           e == c.ended + 1
<1>1. r \in Connection
  BY RespondType, ConstantsAssumption
<1>2. /\ r.state = c.state /\ r.transformer = c.transformer
      /\ r.req = c.req /\ r.pbuf = c.pbuf /\ r.finished = c.finished
      /\ r.interest = c.interest
  BY RespondEffect, ConstantsAssumption
<1> HIDE DEF r, e
<1> QED BY <1>1, <1>2 DEF EndBody, r, e, Connection

\* kill_transformation unregisters the pipes and nothing else.
LEMMA KillTransformationEffect ==
    ASSUME NEW c \in Connection
    PROVE  LET d == KillTransformation(c) IN
           /\ d.state = c.state /\ d.transformer = FALSE
           /\ d.req = c.req /\ d.resp = c.resp /\ d.pbuf = c.pbuf
           /\ \A g \in Fds : d.interest[g] =
                 IF c.transformer /\ g \in {"pipeIn", "pipeOut"} THEN "none"
                                                             ELSE c.interest[g]
<1> DEFINE w == Unregister(c, "pipeOut")
           u == Unregister(w, "pipeIn")
<1>0. /\ w \in Connection /\ w.state = c.state
      /\ w.req = c.req /\ w.resp = c.resp /\ w.pbuf = c.pbuf
      /\ \A g \in Fds : w.interest[g] = IF g = "pipeOut" THEN "none" ELSE c.interest[g]
  BY UnregisterType, UnregisterEffect DEF Fds
<1> HIDE DEF w
<1>1. u \in Connection
  BY <1>0, UnregisterType DEF Fds
<1>2. /\ u.state = c.state
      /\ u.req = c.req /\ u.resp = c.resp /\ u.pbuf = c.pbuf
      /\ \A g \in Fds : u.interest[g] =
            IF g \in {"pipeIn", "pipeOut"} THEN "none" ELSE c.interest[g]
  BY <1>0, UnregisterEffect DEF Fds
<1> HIDE DEF u
<1>3. CASE c.transformer
  <2>1. KillTransformation(c) =
          [u EXCEPT !.transformer = FALSE, !.tmp = 0, !.inPipe = 0, !.outPipe = 0,
                    !.outEof = FALSE]
    BY <1>3 DEF KillTransformation, u, w
  <2> QED BY <2>1, <1>1, <1>2, <1>3 DEF Connection
<1>4. CASE ~c.transformer
  BY <1>4 DEF KillTransformation, Connection
<1> QED BY <1>3, <1>4

\* kill_origin unregisters the pipes, and the origin of a connection that is alive.
LEMMA KillOriginEffect ==
    ASSUME NEW c \in Connection
    PROVE  LET d == KillOrigin(c) IN
           /\ d.state = c.state /\ d.transformer = FALSE
           /\ d.req = c.req /\ d.resp = c.resp /\ d.pbuf = 0
           /\ d.interest["client"] = c.interest["client"]
           /\ d.interest["origin"] =
                 IF c.state = "ALIVE" THEN "none" ELSE c.interest["origin"]
           /\ \A g \in {"pipeIn", "pipeOut"} :
                 d.interest[g] = IF c.transformer THEN "none" ELSE c.interest[g]
<1> DEFINE t == KillTransformation(c)
           k == [t EXCEPT !.pbuf = 0]
<1>1. t \in Connection
  BY KillTransformationType
<1>2. /\ t.state = c.state /\ t.transformer = FALSE
      /\ t.req = c.req /\ t.resp = c.resp
      /\ \A g \in Fds : t.interest[g] =
                 IF c.transformer /\ g \in {"pipeIn", "pipeOut"} THEN "none"
                                                             ELSE c.interest[g]
  BY KillTransformationEffect
<1> HIDE DEF t
<1>3. /\ k \in Connection /\ k.pbuf = 0 /\ k.state = t.state
      /\ k.transformer = t.transformer
      /\ k.req = t.req /\ k.resp = t.resp /\ k.interest = t.interest
  BY <1>1, Zero DEF Connection
<1> HIDE DEF k
<1>4. CASE c.state = "ALIVE"
  <2>1. KillOrigin(c) = Unregister(k, "origin")
    BY <1>4 DEF KillOrigin, k, t
  <2> QED BY <2>1, <1>2, <1>3, <1>4, UnregisterEffect DEF Fds
<1>5. CASE c.state # "ALIVE"
  <2>1. KillOrigin(c) = k
    BY <1>5 DEF KillOrigin, k, t
  <2> QED BY <2>1, <1>2, <1>3, <1>5 DEF Fds
<1> QED BY <1>4, <1>5

-----------------------------------------------------------------------------
(* The lifecycle of a connection: which descriptors it holds in each state. *)

\* Every descriptor is released when a connection in its lifecycle is killed.
LEMMA KillClientReleases ==
    ASSUME NEW c \in Connection, Lifecycle(c)
    PROVE  /\ KillClient(c).state = "FREED"
           /\ KillClient(c).req = 0 /\ KillClient(c).resp = 0
           /\ \A fd \in Fds : KillClient(c).interest[fd] = "none"
<1> DEFINE k == IF c.state = "CLOSED" THEN c ELSE KillOrigin(c)
           u == Unregister(k, "client")
<1>1. k \in Connection /\ u \in Connection
  BY KillOriginType, UnregisterType DEF Fds
<1>2. \A fd \in Fds \ {"client"} : k.interest[fd] = "none"
  <2>1. CASE c.state = "CLOSED"
    BY <2>1 DEF Lifecycle
  <2>2. CASE c.state # "CLOSED"
    <3>1. k = KillOrigin(c)
      BY <2>2
    <3> HIDE DEF k
    <3>2. /\ k.interest["origin"] = IF c.state = "ALIVE" THEN "none" ELSE c.interest["origin"]
          /\ \A g \in {"pipeIn", "pipeOut"} :
                k.interest[g] = IF c.transformer THEN "none" ELSE c.interest[g]
      BY <3>1, KillOriginEffect
    <3>3. c.state # "ALIVE" => c.interest["origin"] = "none"
      <4>1. c.state \in {"ALIVE", "TRANSFORMER_MUST_CLOSE", "FREED"}
        BY <2>2 DEF Connection, ConnectionStates
      <4>2. c.state = "FREED" => c.interest["origin"] = "none"
        BY DEF Lifecycle, Fds
      <4>3. c.state = "TRANSFORMER_MUST_CLOSE" => c.interest["origin"] = "none"
        BY DEF Lifecycle
      <4> QED BY <4>1, <4>2, <4>3
    <3>4. ~c.transformer => c.interest["pipeIn"] = "none" /\ c.interest["pipeOut"] = "none"
      BY DEF Lifecycle
    <3> QED BY <3>2, <3>3, <3>4 DEF Fds
  <2> QED BY <2>1, <2>2
<1> HIDE DEF k
<1>3. \A fd \in Fds : u.interest[fd] = "none"
  BY <1>1, <1>2, UnregisterEffect DEF Fds
<1> HIDE DEF u
<1>4. KillClient(c) = [u EXCEPT !.state = "FREED", !.req = 0, !.resp = 0]
  BY DEF KillClient, u, k
<1> QED BY <1>1, <1>3, <1>4 DEF Connection

\* kill_client leaves a freed connection with no descriptor.
LEMMA KillClientLifecycle ==
    ASSUME NEW c \in Connection, Lifecycle(c)
    PROVE  Lifecycle(KillClient(c))
BY KillClientReleases DEF Lifecycle, Fds

\* Before the state is CLOSED, set_interest keeps Lifecycle.
LEMMA SetInterestLifecycle ==
    ASSUME NEW c \in Connection, NEW fd \in Fds, NEW i \in Interests \ {"none"},
           Lifecycle(c), c.state # "CLOSED"
    PROVE  Lifecycle(SetInterest(c, fd, i))
BY SetInterestEffect DEF Lifecycle, Fds

\* Lifecycle depends on the state, the transformer and the interests alone.
LEMMA SameLifecycle ==
    ASSUME NEW c \in Connection, NEW d \in Connection, Lifecycle(c),
           d.state = c.state, d.transformer = c.transformer,
           \A fd \in Fds : d.interest[fd] = c.interest[fd]
    PROVE  Lifecycle(d)
BY DEF Lifecycle, Fds

\* kill_transformation keeps Lifecycle.
LEMMA KillTransformationLifecycle ==
    ASSUME NEW c \in Connection, Lifecycle(c)
    PROVE  Lifecycle(KillTransformation(c))
<1> DEFINE d == KillTransformation(c)
<1>1. /\ d.state = c.state /\ d.transformer = FALSE
      /\ d.interest["client"] = c.interest["client"]
      /\ d.interest["origin"] = c.interest["origin"]
      /\ \A fd \in Fds : c.interest[fd] = "none" => d.interest[fd] = "none"
      /\ d.interest["pipeIn"] = "none" /\ d.interest["pipeOut"] = "none"
  BY KillTransformationEffect DEF Lifecycle, Fds
<1> HIDE DEF d
<1> QED BY <1>1 DEF Lifecycle, Fds, d

\* What the parser returns: a connection in its lifecycle, killed or as alive
\* as before.
Parsed(c, p) ==
    /\ p \in Connection
    /\ Lifecycle(p)
    /\ p.state = "FREED" \/ p.state = c.state

\* Bytes may move and an interest may be set.
LEMMA ArmedParsed ==
    ASSUME NEW c \in Connection, Lifecycle(c), c.state = "ALIVE",
           NEW d \in Connection, d.state = c.state, d.transformer = c.transformer,
           d.interest = c.interest,
           NEW fd \in Fds, NEW i \in Interests \ {"none"}
    PROVE  Parsed(c, SetInterest(d, fd, i)) /\ SetInterest(d, fd, i).state = "ALIVE"
<1>1. Lifecycle(d)
  BY SameLifecycle
<1>2. SetInterest(d, fd, i) \in Connection /\ SetInterest(d, fd, i).state = "ALIVE"
  BY SetInterestType, SetInterestEffect
<1>3. Lifecycle(SetInterest(d, fd, i))
  BY <1>1, SetInterestLifecycle
<1> QED BY <1>2, <1>3 DEF Parsed

\* WriteBody is a legal result of the parser.
LEMMA WriteBodyParsed ==
    ASSUME NEW c \in Connection, NEW u \in Unchunked(c), Lifecycle(c), c.state = "ALIVE"
    PROVE  Parsed(c, WriteBody(c, u))
<1> DEFINE r == Respond(c, Chunked(u.payload))
           f == c.finished \/ u.done
           b == [r EXCEPT !.pbuf = u.rest, !.finished = f]
           e == IF b.finished THEN EndBody(b) ELSE b
<1>1. u.payload \in Nat /\ u.rest \in 0 .. Cap /\ f \in BOOLEAN
  BY UnchunkedType, ConstantsAssumption DEF Connection
<1>2. /\ r \in Connection /\ r.state = c.state /\ r.transformer = c.transformer
      /\ r.interest = c.interest
  BY <1>1, ChunkedType, RespondType, RespondEffect
<1> HIDE DEF r, f
<1>3. /\ b \in Connection /\ b.state = c.state /\ b.transformer = c.transformer
      /\ b.interest = c.interest
  BY <1>1, <1>2 DEF Connection
<1> HIDE DEF b
<1>4. /\ e \in Connection /\ e.state = c.state /\ e.transformer = c.transformer
      /\ e.interest = c.interest
  BY <1>3, EndBodyType, EndBodyEffect
<1> HIDE DEF e
<1>5. WriteBody(c, u) = SetInterest(e, "client", "write")
  BY DEF WriteBody, e, b, r, f
<1> QED BY <1>4, <1>5, ArmedParsed DEF Fds, Interests

\* So is everything ParseBody may return,
LEMMA ParseBodyParsed ==
    ASSUME NEW c \in Connection, Lifecycle(c), c.state = "ALIVE",
           NEW p \in ParseBody(c)
    PROVE  Parsed(c, p)
<1>1. CASE c.transformer
  <2>1. p = SetInterest(c, "pipeIn", "write")
    BY <1>1 DEF ParseBody
  <2> QED BY <2>1, ArmedParsed DEF Fds, Interests
<1>2. CASE ~c.transformer
  <2>1. p = SendError(c) \/ \E u \in Unchunked(c) : p = WriteBody(c, u)
    BY <1>2 DEF ParseBody
  <2> QED
    BY <2>1, WriteBodyParsed, KillClientType, KillClientReleases, KillClientLifecycle
    DEF SendError, Parsed
<1> QED BY <1>1, <1>2

\* what the header parser returns,
LEMMA ReadHeaderParsed ==
    ASSUME NEW c \in Connection, Lifecycle(c), c.state = "ALIVE",
           NEW h \in HeaderLines(c), NEW a \in Nat, NEW s \in ParserStates
    PROVE  Parsed(c, ReadHeader(c, h, a, s)) /\ ReadHeader(c, h, a, s).state = "ALIVE"
<1> DEFINE r == Respond(c, h.sent + a)
           n == c.pbuf - h.taken
           f == h.framing
           d == [r EXCEPT !.pbuf = n, !.framing = f, !.parser = s]
<1>1. h.sent + a \in Nat /\ f \in Framings
  BY HeaderLinesType
<1>2. /\ r \in Connection /\ r.state = c.state /\ r.transformer = c.transformer
      /\ r.interest = c.interest
  BY <1>1, RespondType, RespondEffect
<1>3. n \in 0 .. Cap
  <2>1. c.pbuf \in 0 .. Cap
    BY DEF Connection
  <2> QED BY <2>1, HeaderLinesType, ConstantsAssumption
<1> HIDE DEF r, n, f
<1>4. /\ d \in Connection /\ d.state = c.state /\ d.transformer = c.transformer
      /\ d.interest = c.interest
  BY <1>1, <1>2, <1>3 DEF Connection
<1> HIDE DEF d
<1>5. ReadHeader(c, h, a, s) = SetInterest(d, "client", "write")
  BY DEF ReadHeader, d, r, n, f
<1> QED BY <1>4, <1>5, ArmedParsed DEF Fds, Interests

\* a filter that has just been started,
LEMMA StartTransformationParsed ==
    ASSUME NEW c \in Connection, Lifecycle(c), c.state = "ALIVE"
    PROVE  Parsed(c, StartTransformation(c)) /\ StartTransformation(c).state = "ALIVE"
<1>1. StartTransformation(c) \in Connection
  BY StartTransformationType
<1>2. /\ StartTransformation(c).state = c.state
      /\ StartTransformation(c).transformer = TRUE
      /\ StartTransformation(c).interest["client"] = c.interest["client"]
  BY DEF StartTransformation, Connection, Fds
<1> QED BY <1>1, <1>2 DEF Parsed, Lifecycle

\* and so everything parse_content may return.
LEMMA ParseContentParsed ==
    ASSUME NEW c \in Connection, Lifecycle(c), c.state = "ALIVE",
           NEW p \in ParseContent(c)
    PROVE  Parsed(c, p)
<1>1. CASE c.parser = "READING_HEADER"
  <2>1. CASE p \in HeaderOpen(c)
    BY <2>1, HeaderOpenIsStep, ReadHeaderParsed DEF ParserStates
  <2>2. ASSUME NEW h \in HeaderDone(c), p \in ParseBody(h) PROVE Parsed(c, p)
    <3>1. Parsed(c, h)
      BY HeaderDoneIsStep, ReadHeaderParsed DEF ParserStates
    <3>2. h.state = "ALIVE"
      BY HeaderDoneIsStep, ReadHeaderParsed DEF ParserStates
    <3> QED BY <2>2, <3>1, <3>2, ParseBodyParsed DEF Parsed
  <2>3. ASSUME NEW h \in HeaderDone(c), p \in ParseBody(StartTransformation(h))
        PROVE  Parsed(c, p)
    <3>1. Parsed(c, h)
      BY HeaderDoneIsStep, ReadHeaderParsed DEF ParserStates
    <3>2. h.state = "ALIVE"
      BY HeaderDoneIsStep, ReadHeaderParsed DEF ParserStates
    <3>3. Parsed(h, StartTransformation(h)) /\ StartTransformation(h).state = "ALIVE"
      BY <3>1, <3>2, StartTransformationParsed DEF Parsed
    <3> QED BY <2>3, <3>2, <3>3, ParseBodyParsed DEF Parsed
  <2>4. p \in ParseHeader(c)
    BY <1>1 DEF ParseContent
  <2> QED BY <2>1, <2>2, <2>3, <2>4 DEF ParseHeader
<1>2. CASE c.parser = "READING_BODY"
  BY <1>2, ParseBodyParsed DEF ParseContent
<1>3. CASE c.parser = "SSL_CONNECTION"
  <2> DEFINE q == Respond(c, c.pbuf)
             r == [q EXCEPT !.pbuf = 0]
  <2>0. c.pbuf \in Nat
    BY ConstantsAssumption DEF Connection
  <2>1. /\ q \in Connection /\ q.state = c.state /\ q.transformer = c.transformer
        /\ q.interest = c.interest
    BY <2>0, RespondType, RespondEffect
  <2> HIDE DEF q
  <2>2. /\ r \in Connection /\ r.state = c.state /\ r.transformer = c.transformer
        /\ r.interest = c.interest
    BY <2>1, Zero DEF Connection
  <2> HIDE DEF r
  <2>3. p = SetInterest(r, "client", "write")
    BY <1>3 DEF ParseContent, r, q
  <2> QED BY <2>2, <2>3, ArmedParsed DEF Fds, Interests
<1> QED BY <1>1, <1>2, <1>3 DEF Connection, ParserStates

-----------------------------------------------------------------------------
(* The inductive invariant of the connection's life, one lemma per handler. *)

LifecycleInv == TypeOK /\ Lifecycle(conn)

\* The smaller of two numbers is one of them.
LEMMA SmallerType ==
    ASSUME NEW a \in Nat, NEW b \in Nat
    PROVE  Smaller(a, b) \in Nat /\ Smaller(a, b) <= a /\ Smaller(a, b) <= b
BY DEF Smaller

\* Moving bytes of the receive queue keeps the network's type.
LEMMA NetTake ==
    ASSUME net \in Network, NEW n \in Nat
    PROVE  /\ n <= net.cin => [net EXCEPT !.cin = net.cin - n] \in Network
           /\ n <= net.oin => [net EXCEPT !.oin = net.oin - n] \in Network
<1>1. SocketCap \in Nat
  BY ConstantsAssumption
<1>2. ASSUME n <= net.cin PROVE net.cin - n \in 0 .. SocketCap
  BY <1>1, <1>2 DEF Network
<1>3. ASSUME n <= net.oin PROVE net.oin - n \in 0 .. SocketCap
  BY <1>1, <1>3 DEF Network
<1> QED BY <1>2, <1>3 DEF Network

\* The connection the block handler leaves has a legal life cycle.
LEMMA InitLifecycle == Init => LifecycleInv
<1> SUFFICES ASSUME Init PROVE LifecycleInv
  OBVIOUS
<1> DEFINE i == [fd \in Fds |-> CASE fd = "client" -> "read"
                                 [] fd = "origin" -> "write"
                                 [] OTHER -> "none"]
           f(ssl) == FirstParserState(ssl)
<1>1. i \in [Fds -> Interests] /\ \A ssl \in BOOLEAN : f(ssl) \in ParserStates
  BY DEF Fds, Interests, FirstParserState, ParserStates
<1>2. /\ i["client"] = "read" /\ i["pipeIn"] = "none" /\ i["pipeOut"] = "none"
  BY DEF Fds
<1> HIDE DEF i, f
<1>3. PICK n \in InitialRequests, ssl \in Tunnels :
        conn = [interest |-> i,
                state |-> "ALIVE", ssl |-> ssl, req |-> n, resp |-> 0, pbuf |-> 0, tmp |-> 0,
                parser |-> f(ssl), framing |-> "close",
                finished |-> FALSE, transformer |-> FALSE,
                inPipe |-> 0, outPipe |-> 0, outEof |-> FALSE,
                ended |-> 0, lost |-> FALSE]
  BY DEF Init, i, f
<1>4. n \in 0 .. Cap /\ ssl \in BOOLEAN
  BY ConstantsAssumption
<1>5. conn \in Connection
  BY <1>1, <1>3, <1>4, Zero DEF Connection, ConnectionStates, Framings
<1>6. Lifecycle(conn)
  BY <1>2, <1>3 DEF Lifecycle
<1>7. net \in Network
  BY ConstantsAssumption DEF Init, Network
<1> QED BY <1>5, <1>6, <1>7 DEF LifecycleInv, TypeOK

\* The connection after reading n bytes of the client into the request buffer.
LEMMA ReqType ==
    ASSUME conn \in Connection, NEW n \in Nat, n <= Cap - conn.req
    PROVE  LET c == [conn EXCEPT !.req = conn.req + n]
           IN  /\ c \in Connection /\ c.state = conn.state
               /\ c.transformer = conn.transformer /\ c.interest = conn.interest
               /\ c.resp = conn.resp /\ c.pbuf = conn.pbuf /\ c.req = conn.req + n
<1>1. conn.req + n \in 0 .. Cap
  BY ConstantsAssumption DEF Connection
<1> QED BY <1>1 DEF Connection

\* proxy_client_active_socket_read keeps the invariant.
LEMMA ClientReadLifecycle ==
    ASSUME LifecycleInv, ClientRead PROVE LifecycleInv'
<1> DEFINE space == Cap - conn.req
           take == Smaller(net.cin, space)
           filled == take = space
           c == [conn EXCEPT !.req = conn.req + take]
           d == IF filled THEN SetInterest(c, "client", "noop") ELSE c
<1> USE DEF LifecycleInv, TypeOK
<1>1. take \in Nat /\ take <= net.cin /\ take <= space
  <2>1. net.cin \in Nat /\ space \in Nat
    BY ConstantsAssumption DEF Network, Connection
  <2> QED BY <2>1, SmallerType
<1>2. conn.state # "CLOSED"
  BY DEF ClientRead, Lifecycle
<1> HIDE DEF take
<1>3. c \in Connection /\ c.state = conn.state /\ Lifecycle(c)
  BY <1>1, ReqType, SameLifecycle
<1> HIDE DEF c
<1>4. d \in Connection /\ d.state = conn.state /\ Lifecycle(d)
  BY <1>2, <1>3, SetInterestType, SetInterestEffect, SetInterestLifecycle
  DEF Fds, Interests
<1> HIDE DEF d
<1>5. net' \in Network
  BY <1>1, NetTake DEF ClientRead, take
<1>6. conn' = SetInterest(d, "origin", "write") \/ conn' = KillClient(d)
  BY DEF ClientRead, d, c, take
<1>7. conn' \in Connection /\ Lifecycle(conn')
  <2>1. CASE conn' = SetInterest(d, "origin", "write")
    BY <2>1, <1>2, <1>4, SetInterestType, SetInterestLifecycle DEF Fds, Interests
  <2>2. CASE conn' = KillClient(d)
    BY <2>2, <1>4, KillClientType, KillClientLifecycle
  <2> QED BY <1>6, <2>1, <2>2
<1> QED BY <1>5, <1>7 DEF Lifecycle

\* proxy_client_active_socket_write keeps the invariant.
LEMMA ClientWriteLifecycle ==
    ASSUME LifecycleInv, ClientWrite PROVE LifecycleInv'
<1> DEFINE c == [conn EXCEPT !.resp = 0]
           next == IF conn.transformer THEN "pipeOut" ELSE "origin"
           d == SetInterest(c, "client", "read")
<1> USE DEF LifecycleInv, TypeOK
<1>1. c \in Connection /\ c.state = conn.state /\ c.transformer = conn.transformer
      /\ c.interest = conn.interest
  BY Zero DEF Connection
<1> HIDE DEF c
<1>2. Lifecycle(c)
  BY <1>1, SameLifecycle
<1>3. CASE conn.state = "CLOSED"
  <2>1. conn' = KillClient(c)
    BY <1>3 DEF ClientWrite, c
  <2> QED BY <2>1, <1>1, <1>2, KillClientType, KillClientLifecycle DEF ClientWrite, Lifecycle
<1>4. CASE conn.state # "CLOSED"
  <2>1. d \in Connection /\ d.state = conn.state /\ Lifecycle(d)
    BY <1>1, <1>2, <1>4, SetInterestType, SetInterestEffect, SetInterestLifecycle
    DEF Fds, Interests
  <2>2. conn' = SetInterest(d, next, "read") /\ next \in Fds
    BY <1>4 DEF ClientWrite, c, d, Fds
  <2> HIDE DEF d, next
  <2>3. conn' \in Connection /\ Lifecycle(conn')
    BY <2>1, <2>2, <1>4, SetInterestType, SetInterestLifecycle DEF Interests
  <2> QED BY <2>3 DEF ClientWrite, Lifecycle
<1> QED BY <1>3, <1>4

\* proxy_origin_active_socket_write keeps the invariant.
LEMMA OriginWriteLifecycle ==
    ASSUME LifecycleInv, OriginWrite PROVE LifecycleInv'
<1> DEFINE c == [conn EXCEPT !.req = 0]
           d == SetInterest(c, "origin", "read")
<1> USE DEF LifecycleInv, TypeOK
<1>1. c \in Connection /\ c.state = conn.state /\ c.transformer = conn.transformer
      /\ c.interest = conn.interest
  BY Zero DEF Connection
<1> HIDE DEF c
<1>2. Lifecycle(c)
  BY <1>1, SameLifecycle
<1>3. conn.state # "CLOSED"
  BY DEF OriginWrite, Lifecycle, Fds
<1>4. d \in Connection /\ d.state = conn.state /\ Lifecycle(d)
  BY <1>1, <1>2, <1>3, SetInterestType, SetInterestEffect, SetInterestLifecycle
  DEF Fds, Interests
<1>5. conn' = SetInterest(d, "client", "read")
  BY DEF OriginWrite, c, d
<1> HIDE DEF d
<1>6. conn' \in Connection /\ Lifecycle(conn')
  BY <1>3, <1>4, <1>5, SetInterestType, SetInterestLifecycle DEF Fds, Interests
<1> QED BY <1>6 DEF OriginWrite, Lifecycle

\* The end of the origin's stream keeps the invariant.
LEMMA OriginClosedLifecycle ==
    ASSUME NEW c \in Connection, Lifecycle(c), c.state = "ALIVE"
    PROVE  OriginClosed(c) \in Connection /\ Lifecycle(OriginClosed(c))
<1>1. CASE c.transformer
  <2> DEFINE d == SetInterest(c, "pipeIn", "write")
             e == [d EXCEPT !.finished = TRUE, !.state = "TRANSFORMER_MUST_CLOSE"]
  <2>0. c.interest["client"] # "none"
    BY DEF Lifecycle
  <2>1. d \in Connection /\ d.transformer /\ d.interest["client"] # "none"
    <3>1. d \in Connection
      BY SetInterestType DEF Fds, Interests
    <3>2. d.transformer = c.transformer /\ d.interest["client"] = c.interest["client"]
      BY SetInterestEffect DEF Fds, Interests
    <3> QED BY <1>1, <2>0, <3>1, <3>2
  <2> HIDE DEF d
  <2>2. /\ e \in Connection /\ e.transformer
        /\ e.state = "TRANSFORMER_MUST_CLOSE"
        /\ e.interest["client"] # "none"
    BY <2>1 DEF Connection, ConnectionStates
  <2> HIDE DEF e
  <2>3. OriginClosed(c) = Unregister(e, "origin")
    BY <1>1 DEF OriginClosed, e, d
  <2>4. OriginClosed(c) \in Connection
    BY <2>2, <2>3, UnregisterType DEF Fds
  <2>5. /\ OriginClosed(c).state = "TRANSFORMER_MUST_CLOSE"
        /\ OriginClosed(c).transformer
        /\ OriginClosed(c).interest["client"] # "none"
        /\ OriginClosed(c).interest["origin"] = "none"
    BY <2>2, <2>3, UnregisterEffect DEF Fds
  <2> QED BY <2>4, <2>5 DEF Lifecycle
<1>2. CASE ~c.transformer
  <2> DEFINE e == IF c.framing = "close" THEN EndBody(c) ELSE c
             x == [e EXCEPT !.state = "CLOSED"]
             k == KillOrigin(x)
             d == SetInterest(k, "client", "write")
  <2>1. /\ e \in Connection /\ e.transformer = FALSE
        /\ e.interest = c.interest
    BY <1>2, EndBodyType, EndBodyEffect DEF Connection
  <2> HIDE DEF e
  <2>2. /\ x \in Connection /\ x.transformer = FALSE
        /\ x.interest = c.interest /\ x.state = "CLOSED"
    BY <2>1 DEF Connection, ConnectionStates
  <2> HIDE DEF x
  <2>3. /\ k \in Connection /\ k.transformer = FALSE /\ k.state = "CLOSED"
        /\ \A fd \in Fds : k.interest[fd] = c.interest[fd]
    <3>1. k \in Connection /\ k.state = x.state /\ k.transformer = FALSE
      BY <2>2, KillOriginType, KillOriginEffect
    <3>2. \A fd \in {"client", "origin", "pipeIn", "pipeOut"} : k.interest[fd] = x.interest[fd]
      BY <2>2, KillOriginEffect
    <3> QED BY <2>2, <3>1, <3>2 DEF Fds
  <2> HIDE DEF k
  <2>4. /\ d \in Connection /\ d.state = "CLOSED"
        /\ d.interest["client"] = "write"
        /\ d.interest["pipeIn"] = "none" /\ d.interest["pipeOut"] = "none"
    <3>1. /\ c.interest["client"] # "none"
          /\ c.interest["pipeIn"] = "none" /\ c.interest["pipeOut"] = "none"
      BY <1>2 DEF Lifecycle
    <3>2. d \in Connection
      BY <2>3, SetInterestType DEF Fds, Interests
    <3>3. /\ d.state = k.state
          /\ \A g \in Fds : d.interest[g] =
               IF g = "client" /\ k.interest["client"] # "none" THEN "write"
                                                            ELSE k.interest[g]
      BY <2>3, SetInterestEffect DEF Fds, Interests
    <3> QED BY <2>3, <3>1, <3>2, <3>3 DEF Fds
  <2> HIDE DEF d
  <2>5. OriginClosed(c) = Unregister(d, "origin")
    BY <1>2 DEF OriginClosed, e, x, k, d
  <2>6. OriginClosed(c) \in Connection
    BY <2>4, <2>5, UnregisterType DEF Fds
  <2>7. /\ OriginClosed(c).state = "CLOSED"
        /\ \A g \in Fds : OriginClosed(c).interest[g] =
              IF g = "origin" THEN "none" ELSE d.interest[g]
    BY <2>4, <2>5, UnregisterEffect DEF Fds
  <2> QED BY <2>4, <2>6, <2>7 DEF Lifecycle, Fds
<1> QED BY <1>1, <1>2

\* reset_origin_data keeps the invariant.
LEMMA ResetOriginDataLifecycle ==
    ASSUME NEW c \in Connection, Lifecycle(c)
    PROVE  LET d == ResetOriginData(c) IN
           d \in Connection /\ Lifecycle(d) /\ d.state = c.state /\ d.pbuf = 0
<1> DEFINE k == KillTransformation(c)
           p == FirstParserState(c.ssl)
           l == c.lost \/ c.transformer \/ c.pbuf > 0
           d == [k EXCEPT !.lost = l, !.pbuf = 0, !.framing = "close", !.finished = FALSE,
                          !.parser = p, !.ended = 0]
<1>1. /\ k \in Connection /\ p \in ParserStates /\ Lifecycle(k) /\ k.state = c.state
      /\ l \in BOOLEAN
  BY KillTransformationType, KillTransformationLifecycle, KillTransformationEffect
  DEF FirstParserState, ParserStates, Connection
<1> HIDE DEF k, p, l
<1>2. /\ d \in Connection /\ d.state = k.state /\ d.transformer = k.transformer
      /\ d.interest = k.interest /\ d.pbuf = 0
  BY <1>1, Zero DEF Connection, Framings
<1>3. ResetOriginData(c) = d
  BY DEF ResetOriginData, k, p, l
<1> HIDE DEF d
<1> QED BY <1>1, <1>2, <1>3, SameLifecycle

\* The receive loop takes no more than parser_buff has room for.
LEMMA ReadLimitType ==
    ASSUME NEW c \in Connection
    PROVE  /\ ReadLimit(c) \in Nat
           /\ ~c.finished => c.pbuf + ReadLimit(c) <= Cap
           /\ ReadLimit(c) <= Cap
<1>1. /\ c.resp \in 0 .. Cap /\ c.pbuf \in 0 .. Cap
      /\ Cap \in Nat /\ Reserve \in 1 .. Cap - 1
  BY ConstantsAssumption DEF Connection
<1>2. AvailableParserBytes(c) # 0 => Cap - c.pbuf > Reserve
  BY <1>1 DEF AvailableParserBytes, Smaller
<1> QED BY <1>1, <1>2 DEF ReadLimit

\* What was received keeps the invariant.
LEMMA ReceivedLifecycle ==
    ASSUME NEW c \in Connection, Lifecycle(c), NEW n \in Nat, n <= ReadLimit(c)
    PROVE  LET d == Received(c, n) IN
           d \in Connection /\ Lifecycle(d) /\ d.state = c.state
<1> DEFINE r == IF c.finished THEN ResetOriginData(c) ELSE c
           m == r.pbuf + n
           d == [r EXCEPT !.pbuf = m]
<1>1. r \in Connection /\ Lifecycle(r) /\ r.state = c.state
  BY ResetOriginDataLifecycle
<1>2. m \in 0 .. Cap
  <2>1. CASE c.finished
    BY <2>1, ResetOriginDataLifecycle, ReadLimitType, ConstantsAssumption
  <2>2. CASE ~c.finished
    <3>1. r = c /\ c.pbuf \in 0 .. Cap
      BY <2>2 DEF Connection
    <3> QED BY <2>2, <3>1, ReadLimitType, ConstantsAssumption
  <2> QED BY <2>1, <2>2
<1> HIDE DEF r, m
<1>3. /\ d \in Connection /\ d.state = r.state /\ d.transformer = r.transformer
      /\ d.interest = r.interest
  BY <1>1, <1>2 DEF Connection
<1>4. Received(c, n) = IF n = 0 THEN c ELSE d
  BY DEF Received, r, m
<1> HIDE DEF d
<1> QED BY <1>1, <1>3, <1>4, SameLifecycle

\* proxy_origin_active_socket_read keeps the invariant.
LEMMA OriginReadLifecycle ==
    ASSUME LifecycleInv, OriginRead PROVE LifecycleInv'
<1> DEFINE limit == ReadLimit(conn)
           take == Smaller(net.oin, limit)
           paused == take = limit
           b == IF paused THEN SetInterest(conn, "origin", "noop") ELSE conn
           c == Received(b, take)
           sawEof == IF paused THEN FALSE ELSE net.oeof
<1> USE DEF LifecycleInv, TypeOK
<1>1. take \in Nat /\ take <= net.oin /\ take <= limit
  <2>1. net.oin \in Nat
    BY DEF Network
  <2>2. limit \in Nat
    BY ReadLimitType
  <2> QED BY <2>1, <2>2, SmallerType
<1>2. conn.state = "ALIVE"
  BY DEF OriginRead, Lifecycle, Fds, Connection, ConnectionStates
<1>3. b \in Connection /\ Lifecycle(b) /\ b.state = "ALIVE"
  <2> DEFINE d == SetInterest(conn, "origin", "noop")
  <2>1. d \in Connection /\ Lifecycle(d)
    BY <1>2, SetInterestType, SetInterestLifecycle DEF Fds, Interests
  <2>2. d.state = "ALIVE"
    BY <1>2, SetInterestEffect DEF Fds, Interests
  <2> HIDE DEF d
  <2> QED BY <1>2, <2>1, <2>2 DEF d
<1>4. ReadLimit(b) = limit
  BY DEF ReadLimit, AvailableParserBytes, SetInterest, Connection
<1> HIDE DEF b, take
<1>5. c \in Connection /\ Lifecycle(c) /\ c.state = "ALIVE"
  BY <1>1, <1>3, <1>4, ReceivedLifecycle
<1> HIDE DEF c
<1>6. net' \in Network
  BY <1>1, NetTake DEF OriginRead, take
<1>7. PICK p \in IF take = 0 THEN {c} ELSE ParseContent(c) :
        conn' = IF p.state # "FREED" /\ sawEof THEN OriginClosed(p) ELSE p
  BY DEF OriginRead, take, b, c
<1>8. Parsed(c, p)
  BY <1>5, ParseContentParsed DEF Parsed
<1>9. conn' \in Connection /\ Lifecycle(conn')
  <2>1. p \in Connection /\ Lifecycle(p) /\ (p.state # "FREED" => p.state = "ALIVE")
    BY <1>5, <1>8 DEF Parsed
  <2> QED BY <1>7, <2>1, OriginClosedLifecycle
<1> QED BY <1>6, <1>9 DEF Lifecycle

\* The end of the filter's output keeps the invariant.
LEMMA FilterClosedLifecycle ==
    ASSUME NEW c \in Connection, Lifecycle(c),
           c.state \in {"ALIVE", "TRANSFORMER_MUST_CLOSE"}, c.transformer
    PROVE  LET d == SetInterest(FilterClosed(c), "client", "write")
           IN  d \in Connection /\ Lifecycle(d)
<1> DEFINE b == EndBody(c)
           e == Unregister(b, "pipeOut")
<1>1. /\ b \in Connection /\ b.transformer /\ b.state = c.state
      /\ b.interest = c.interest
  <2>1. b \in Connection
    BY EndBodyType
  <2>2. b.transformer = c.transformer /\ b.state = c.state /\ b.interest = c.interest
    BY EndBodyEffect
  <2> QED BY <2>1, <2>2
<1> HIDE DEF b
<1>2. /\ e \in Connection /\ e.transformer /\ e.state = c.state
      /\ \A g \in Fds : e.interest[g] = IF g = "pipeOut" THEN "none" ELSE c.interest[g]
  <2>1. e \in Connection
    BY <1>1, UnregisterType DEF Fds
  <2>2. /\ e.transformer = b.transformer /\ e.state = b.state
        /\ \A g \in Fds : e.interest[g] = IF g = "pipeOut" THEN "none" ELSE b.interest[g]
    BY <1>1, UnregisterEffect DEF Fds
  <2> QED BY <1>1, <2>1, <2>2
<1> HIDE DEF e
<1>3. CASE c.state = "TRANSFORMER_MUST_CLOSE"
  <2> DEFINE k == KillOrigin(e)
             x == [k EXCEPT !.state = "CLOSED"]
  <2>1. /\ k \in Connection
        /\ k.interest["client"] = c.interest["client"]
        /\ k.interest["origin"] = c.interest["origin"]
        /\ k.interest["pipeIn"] = "none" /\ k.interest["pipeOut"] = "none"
    BY <1>2, <1>3, KillOriginType, KillOriginEffect DEF Fds
  <2> HIDE DEF k
  <2>2. /\ x \in Connection /\ x.state = "CLOSED"
        /\ x.interest = k.interest
    BY <2>1 DEF Connection, ConnectionStates
  <2> HIDE DEF x
  <2>3. FilterClosed(c) = x
    BY <1>3 DEF FilterClosed, x, k, e, b
  <2>4. SetInterest(x, "client", "write") \in Connection
    BY <2>2, SetInterestType DEF Fds, Interests
  <2>5. /\ SetInterest(x, "client", "write").state = "CLOSED"
        /\ \A g \in Fds : SetInterest(x, "client", "write").interest[g] =
             IF g = "client" /\ x.interest["client"] # "none" THEN "write"
                                                          ELSE x.interest[g]
    BY <2>2, SetInterestEffect DEF Fds, Interests
  <2>6. c.interest["client"] # "none" /\ c.interest["origin"] = "none"
    BY <1>3 DEF Lifecycle
  <2> QED BY <2>1, <2>2, <2>3, <2>4, <2>5, <2>6 DEF Lifecycle, Fds
<1>4. CASE c.state = "ALIVE"
  <2>1. Lifecycle(e)
    BY <1>2, <1>4 DEF Lifecycle, Fds
  <2>2. /\ KillTransformation(e) \in Connection /\ Lifecycle(KillTransformation(e))
        /\ KillTransformation(e).state = "ALIVE"
    BY <1>2, <1>4, <2>1, KillTransformationType, KillTransformationEffect,
       KillTransformationLifecycle
  <2>3. FilterClosed(c) = KillTransformation(e)
    BY <1>4 DEF FilterClosed, e, b
  <2> QED BY <2>2, <2>3, SetInterestType, SetInterestLifecycle DEF Fds, Interests
<1> QED BY <1>3, <1>4

\* What the pipe is read for is a number.
LEMMA PipeLimitType ==
    ASSUME NEW c \in Connection PROVE PipeLimit(c) \in Nat
<1> DEFINE s == AvailableWriteBytes(c)
           unit == ReadSize + ChunkOverhead
<1>1. s \in Nat /\ unit \in Nat \ {0} /\ ReadSize \in Nat
  BY ConstantsAssumption DEF AvailableWriteBytes, Connection
<1> HIDE DEF s, unit
<1>2. s \div unit \in Nat /\ s % unit \in Nat
  BY <1>1
<1>3. ReadSize * (s \div unit) \in Nat
  BY <1>1, <1>2
<1>4. Smaller(ReadSize, s % unit) \in Nat
  BY <1>1, <1>2, SmallerType
<1> QED BY <1>3, <1>4 DEF PipeLimit, s, unit

\* proxy_transformation_read keeps the invariant.
LEMMA TransformationReadLifecycle ==
    ASSUME LifecycleInv, TransformationRead PROVE LifecycleInv'
<1> DEFINE limit == PipeLimit(conn)
           take == Smaller(conn.outPipe, limit)
           paused == take = limit
           w == Respond(conn, Chunked(take))
           left == conn.outPipe - take
           c == [w EXCEPT !.outPipe = left]
           r == IF paused THEN SetInterest(c, "pipeOut", "noop")
                ELSE IF conn.outEof THEN FilterClosed(c) ELSE c
<1> USE DEF LifecycleInv, TypeOK
<1>1. take \in Nat /\ left \in 0 .. PipeCap
  <2>1. conn.outPipe \in 0 .. PipeCap /\ PipeCap \in Nat
    BY ConstantsAssumption DEF Connection
  <2>2. limit \in Nat
    BY PipeLimitType
  <2>3. take \in Nat /\ take <= conn.outPipe
    <3>1. conn.outPipe \in Nat
      BY <2>1
    <3> QED BY <2>2, <3>1, SmallerType
  <2> QED BY <2>1, <2>3
<1>2. /\ conn.state \in {"ALIVE", "TRANSFORMER_MUST_CLOSE"}
      /\ conn.transformer
  BY DEF TransformationRead, Lifecycle, Fds, Connection, ConnectionStates
<1> HIDE DEF take, left
<1>3. /\ w \in Connection /\ w.state = conn.state /\ w.interest = conn.interest
      /\ w.transformer = conn.transformer
  BY <1>1, ChunkedType, RespondType, RespondEffect
<1> HIDE DEF w
<1>4. /\ c \in Connection /\ c.state = conn.state /\ c.interest = conn.interest
      /\ c.transformer = conn.transformer
  BY <1>1, <1>3 DEF Connection
<1>5. conn' = SetInterest(r, "client", "write") /\ net' = net
  BY DEF TransformationRead, r, c, w, left, take
<1> HIDE DEF c
<1>6. Lifecycle(c)
  BY <1>4, SameLifecycle
<1>7. CASE paused
  <2> DEFINE d == SetInterest(c, "pipeOut", "noop")
  <2>1. d \in Connection /\ Lifecycle(d)
    BY <1>2, <1>4, <1>6, SetInterestType, SetInterestLifecycle DEF Fds, Interests
  <2>2. d.state # "CLOSED"
    BY <1>2, <1>4, SetInterestEffect DEF Fds, Interests
  <2> HIDE DEF d
  <2>3. conn' = SetInterest(d, "client", "write")
    BY <1>5, <1>7 DEF d
  <2>4. conn' \in Connection /\ Lifecycle(conn')
    BY <2>1, <2>2, <2>3, SetInterestType, SetInterestLifecycle DEF Fds, Interests
  <2> QED BY <1>5, <2>4 DEF Lifecycle
<1>8. CASE ~paused /\ conn.outEof
  <2>1. conn' = SetInterest(FilterClosed(c), "client", "write")
    BY <1>5, <1>8
  <2>2. conn' \in Connection /\ Lifecycle(conn')
    BY <1>2, <1>4, <1>6, <2>1, FilterClosedLifecycle
  <2> QED BY <1>5, <2>2 DEF Lifecycle
<1>9. CASE ~paused /\ ~conn.outEof
  <2>1. conn' = SetInterest(c, "client", "write")
    BY <1>5, <1>9
  <2>2. conn' \in Connection /\ Lifecycle(conn')
    BY <1>2, <1>4, <1>6, <2>1, SetInterestType, SetInterestLifecycle DEF Fds, Interests
  <2> QED BY <1>5, <2>2 DEF Lifecycle
<1> QED BY <1>7, <1>8, <1>9

\* The end of proxy_transformation_write keeps the invariant.
LEMMA TransformationWrittenLifecycle ==
    ASSUME NEW c \in Connection, Lifecycle(c), NEW pipeFull \in BOOLEAN,
           c.state \in {"ALIVE", "TRANSFORMER_MUST_CLOSE"}, c.transformer
    PROVE  LET d == TransformationWritten(c, pipeFull)
           IN  d \in Connection /\ Lifecycle(d)
<1> DEFINE l == c.lost \/ c.tmp > 0
           o == [Unregister(c, "pipeIn") EXCEPT !.lost = l]
           f == IF c.finished THEN o ELSE c
           n == IF pipeFull THEN f ELSE SetInterest(f, "pipeIn", "noop")
<1>1. f \in Connection /\ f.state = c.state /\ Lifecycle(f)
  <2>1. Unregister(c, "pipeIn") \in Connection
    BY UnregisterType DEF Fds
  <2>2. /\ Unregister(c, "pipeIn").state = c.state
        /\ Unregister(c, "pipeIn").transformer
        /\ \A g \in Fds : Unregister(c, "pipeIn").interest[g] =
              IF g = "pipeIn" THEN "none" ELSE c.interest[g]
    BY UnregisterEffect DEF Fds
  <2>3. Lifecycle(Unregister(c, "pipeIn"))
    BY <2>2 DEF Lifecycle, Fds
  <2>4. l \in BOOLEAN
    BY DEF Connection
  <2> HIDE DEF l
  <2>5. /\ o \in Connection /\ o.state = c.state /\ o.transformer
        /\ o.interest = Unregister(c, "pipeIn").interest
    BY <2>1, <2>2, <2>4 DEF Connection
  <2> HIDE DEF o
  <2>6. Lifecycle(o)
    BY <2>1, <2>2, <2>3, <2>5, SameLifecycle
  <2> QED BY <2>5, <2>6
<1> HIDE DEF f
<1>2. n \in Connection /\ n.state = c.state /\ Lifecycle(n)
  <2>1. /\ SetInterest(f, "pipeIn", "noop") \in Connection
        /\ Lifecycle(SetInterest(f, "pipeIn", "noop"))
    BY <1>1, SetInterestType, SetInterestLifecycle DEF Fds, Interests
  <2>2. SetInterest(f, "pipeIn", "noop").state = c.state
    BY <1>1, SetInterestEffect DEF Fds, Interests
  <2> QED BY <1>1, <2>1, <2>2
<1> HIDE DEF n
<1>3. TransformationWritten(c, pipeFull) = SetInterest(n, "origin", "read")
  BY DEF TransformationWritten, n, f, o, l
<1> QED BY <1>2, <1>3, SetInterestType, SetInterestLifecycle DEF Fds, Interests

\* Rounding up to ReadSize passes a number by at most ReadSize.
LEMMA NextMultiple ==
    ASSUME NEW r \in Nat, NEW q \in Nat \ {0}
    PROVE  q * (r \div q + 1) \in Nat /\ q * (r \div q + 1) >= r
<1>1. r \div q \in Nat
  OBVIOUS
<1>2. q * (r \div q + 1) > r
  OBVIOUS
<1>3. q * (r \div q + 1) \in Int
  BY <1>1
<1> QED BY <1>2, <1>3

\* What goes to the filter stays within the pipe and tmp_buff.
LEMMA PipeBodyLifecycle ==
    ASSUME NEW c \in Connection, Lifecycle(c), NEW u \in Unchunked(c),
           c.tmp = 0
    PROVE  LET d == PipeBody(c, u) IN
           /\ d \in Connection /\ Lifecycle(d)
           /\ d.state = c.state /\ d.transformer = c.transformer
<1> DEFINE room  == PipeCap - c.inPipe
           units == ReadSize * (room \div ReadSize + 1)
           taken == Smaller(u.payload, units)
           m == c.inPipe + u.payload
           t == taken - room
           b == IF taken = u.payload THEN u.rest ELSE c.pbuf - taken
           f1 == c.finished \/ u.done
           f2 == c.finished \/ (u.done /\ (taken = u.payload \/ c.framing = "length"))
           d1 == [c EXCEPT !.inPipe = m, !.pbuf = u.rest, !.finished = f1]
           d2 == [c EXCEPT !.inPipe = PipeCap, !.tmp = t, !.pbuf = b, !.finished = f2]
<1>1. /\ u.payload \in 0 .. c.pbuf /\ u.rest \in 0 .. c.pbuf
      /\ c.pbuf \in 0 .. Cap /\ c.inPipe \in 0 .. PipeCap
      /\ Cap \in Nat /\ PipeCap \in Nat /\ ReadSize \in Nat \ {0}
      /\ f1 \in BOOLEAN /\ f2 \in BOOLEAN
  BY UnchunkedType, ConstantsAssumption DEF Connection
<1>2. room \in Nat /\ units \in Nat /\ units >= room
  <2>1. room \in Nat
    BY <1>1
  <2> QED BY <1>1, <2>1, NextMultiple
<1> HIDE DEF room, units
<1>3. taken \in Nat /\ taken <= u.payload
  <2>1. u.payload \in Nat
    BY <1>1
  <2> QED BY <1>2, <2>1, SmallerType
<1>4. CASE u.payload <= room
  <2>1. m \in 0 .. PipeCap /\ u.rest \in 0 .. Cap
    BY <1>1, <1>4 DEF room
  <2> HIDE DEF m, f1
  <2>2. /\ d1 \in Connection /\ d1.state = c.state /\ d1.transformer = c.transformer
        /\ d1.interest = c.interest
    BY <1>1, <2>1 DEF Connection
  <2>3. PipeBody(c, u) = d1
    BY <1>4 DEF PipeBody, room, m, f1
  <2> HIDE DEF d1
  <2> QED BY <2>2, <2>3, SameLifecycle
<1>5. CASE ~(u.payload <= room)
  <2>1. taken >= room
    BY <1>1, <1>2, <1>5 DEF Smaller
  <2>2. t \in 0 .. Cap /\ b \in 0 .. Cap /\ PipeCap \in 0 .. PipeCap
    BY <1>1, <1>2, <1>3, <2>1
  <2>3. PipeBody(c, u) = d2
    <3>1. ~(u.payload <= PipeCap - c.inPipe)
      BY <1>5 DEF room
    <3> QED BY <3>1, Zenon DEF PipeBody, room, units
  <2> HIDE DEF t, b, f2
  <2>4. /\ d2 \in Connection /\ d2.state = c.state /\ d2.transformer = c.transformer
        /\ d2.interest = c.interest
    BY <1>1, <2>2 DEF Connection
  <2> HIDE DEF d2
  <2> QED BY <2>3, <2>4, SameLifecycle
<1> QED BY <1>4, <1>5

\* proxy_transformation_write keeps the invariant.
LEMMA TransformationWriteLifecycle ==
    ASSUME LifecycleInv, TransformationWrite PROVE LifecycleInv'
<1> DEFINE sent == Smaller(conn.tmp, PipeCap - conn.inPipe)
           t == conn.tmp - sent
           m == conn.inPipe + sent
           c == [conn EXCEPT !.tmp = t, !.inPipe = m]
<1> USE DEF LifecycleInv, TypeOK
<1>1. t \in 0 .. Cap /\ m \in 0 .. PipeCap
  <2>1. /\ conn.tmp \in 0 .. Cap /\ conn.inPipe \in 0 .. PipeCap
        /\ Cap \in Nat /\ PipeCap \in Nat
    BY ConstantsAssumption DEF Connection
  <2>2. conn.tmp \in Nat /\ PipeCap - conn.inPipe \in Nat
    BY <2>1
  <2>3. sent \in Nat /\ sent <= conn.tmp /\ sent <= PipeCap - conn.inPipe
    BY <2>2, SmallerType
  <2> QED BY <2>1, <2>3
<1>2. /\ conn.state \in {"ALIVE", "TRANSFORMER_MUST_CLOSE"}
      /\ conn.transformer
  BY DEF TransformationWrite, Lifecycle, Fds, Connection, ConnectionStates
<1>3. /\ net' = net
      /\ \/ conn' = TransformationWritten(c, TRUE)
         \/ /\ c.tmp = 0
            /\ \E u \in Unchunked(c) :
                  conn' = TransformationWritten(PipeBody(c, u),
                                                u.payload > PipeCap - c.inPipe)
         \/ conn' = SendError(c)
  BY DEF TransformationWrite, c, t, m
<1> HIDE DEF t, m
<1>4. /\ c \in Connection /\ c.state = conn.state /\ c.interest = conn.interest
      /\ c.transformer = conn.transformer
  BY <1>1 DEF Connection
<1> HIDE DEF c
<1>5. Lifecycle(c)
  BY <1>4, SameLifecycle
<1>6. conn' \in Connection /\ Lifecycle(conn')
  <2>1. CASE conn' = TransformationWritten(c, TRUE)
    BY <2>1, <1>2, <1>4, <1>5, TransformationWrittenLifecycle
  <2>2. ASSUME c.tmp = 0, NEW u \in Unchunked(c),
               conn' = TransformationWritten(PipeBody(c, u),
                                             u.payload > PipeCap - c.inPipe)
        PROVE  conn' \in Connection /\ Lifecycle(conn')
    <3>1. (u.payload > PipeCap - c.inPipe) \in BOOLEAN
      OBVIOUS
    <3>2. /\ PipeBody(c, u) \in Connection /\ Lifecycle(PipeBody(c, u))
          /\ PipeBody(c, u).state = c.state /\ PipeBody(c, u).transformer = c.transformer
      BY <1>4, <1>5, <2>2, PipeBodyLifecycle
    <3> QED BY <1>2, <1>4, <2>2, <3>1, <3>2, TransformationWrittenLifecycle
  <2>3. CASE conn' = SendError(c)
    BY <2>3, <1>4, <1>5, KillClientType, KillClientLifecycle DEF SendError
  <2> QED BY <1>3, <2>1, <2>2, <2>3
<1> QED BY <1>3, <1>6 DEF Lifecycle

\* The peers and the filter process keep the invariant.
LEMMA PeersLifecycle ==
    ASSUME LifecycleInv, Peers PROVE LifecycleInv'
<1> USE DEF LifecycleInv, TypeOK
<1>0. /\ net.cin \in 0 .. SocketCap /\ net.oin \in 0 .. SocketCap
      /\ net.cleft \in 0 .. ClientBytes /\ net.oleft \in 0 .. OriginBytes
      /\ SocketCap \in Nat /\ ClientBytes \in Nat /\ OriginBytes \in Nat
      /\ conn.inPipe \in 0 .. PipeCap /\ conn.outPipe \in 0 .. PipeCap
      /\ PipeCap \in Nat
  BY ConstantsAssumption DEF Network, Connection
<1>1. CASE ClientSends
  <2>1. PICK n \in 1 .. Smaller(net.cleft, SocketCap - net.cin) :
          net' = [net EXCEPT !.cin = net.cin + n, !.cleft = net.cleft - n]
    BY <1>1 DEF ClientSends
  <2>2. net.cin + n \in 0 .. SocketCap /\ net.cleft - n \in 0 .. ClientBytes
    BY <1>0 DEF Smaller
  <2>3. net' \in Network
    BY <2>1, <2>2 DEF Network
  <2> QED BY <1>1, <2>3 DEF ClientSends, Lifecycle
<1>2. CASE ClientCloses
  BY <1>2 DEF ClientCloses, Lifecycle, Network
<1>3. CASE OriginSends
  <2>1. PICK n \in 1 .. Smaller(net.oleft, SocketCap - net.oin) :
          net' = [net EXCEPT !.oin = net.oin + n, !.oleft = net.oleft - n]
    BY <1>3 DEF OriginSends
  <2>2. net.oin + n \in 0 .. SocketCap /\ net.oleft - n \in 0 .. OriginBytes
    BY <1>0 DEF Smaller
  <2>3. net' \in Network
    BY <2>1, <2>2 DEF Network
  <2> QED BY <1>3, <2>3 DEF OriginSends, Lifecycle
<1>4. CASE OriginCloses
  BY <1>4 DEF OriginCloses, Lifecycle, Network
<1>5. CASE FilterCopies
  <2>1. PICK n \in 1 .. Smaller(conn.inPipe, PipeCap - conn.outPipe) :
          /\ conn' = [conn EXCEPT !.inPipe = conn.inPipe - n,
                                  !.outPipe = conn.outPipe + n]
          /\ net' = net
    BY <1>5 DEF FilterCopies
  <2>2. conn.inPipe - n \in 0 .. PipeCap /\ conn.outPipe + n \in 0 .. PipeCap
    BY <1>0 DEF Smaller
  <2>3. /\ conn' \in Connection /\ conn'.state = conn.state
        /\ conn'.interest = conn.interest /\ conn'.transformer = conn.transformer
    BY <2>1, <2>2 DEF Connection
  <2>4. Lifecycle(conn')
    BY <2>3, SameLifecycle
  <2> QED BY <2>1, <2>3, <2>4 DEF Lifecycle
<1>6. CASE FilterExits
  <2>1. /\ conn' \in Connection /\ conn'.state = conn.state
        /\ conn'.interest = conn.interest /\ conn'.transformer = conn.transformer
    BY <1>6 DEF FilterExits, Connection
  <2>2. Lifecycle(conn')
    BY <2>1, SameLifecycle
  <2> QED BY <1>6, <2>1, <2>2 DEF FilterExits, Lifecycle
<1> QED BY <1>1, <1>2, <1>3, <1>4, <1>5, <1>6 DEF Peers

\* Every step keeps the invariant.
LEMMA NextLifecycle ==
    ASSUME LifecycleInv, [Next]_vars PROVE LifecycleInv'
<1>1. CASE Handlers
  BY <1>1, ClientReadLifecycle, ClientWriteLifecycle, OriginReadLifecycle,
     OriginWriteLifecycle, TransformationReadLifecycle, TransformationWriteLifecycle
  DEF Handlers
<1>2. CASE Peers
  BY <1>2, PeersLifecycle
<1>3. CASE UNCHANGED vars
  BY <1>3 DEF vars, LifecycleInv, TypeOK, Lifecycle
<1> QED BY <1>1, <1>2, <1>3 DEF Next

\* The invariant of the life cycle holds always.
LEMMA LifecycleAlways == Spec => []LifecycleInv
BY InitLifecycle, NextLifecycle, PTL DEF Spec

-----------------------------------------------------------------------------
\* The buffers never hold more than they can and every field keeps its type,
\* whatever the sizes of the buffers, of the reads and of the pipes.
THEOREM TypeCorrect == Spec => []TypeOK
<1>1. LifecycleInv => TypeOK
  BY DEF LifecycleInv
<1> QED BY <1>1, LifecycleAlways, PTL

\* kill_client leaves no descriptor of the connection in the selector, with or
\* without a filter, whatever the state it was called in.
THEOREM NothingEverLeaks == Spec => []NothingLeaks
<1>1. LifecycleInv => NothingLeaks
  BY DEF LifecycleInv, TypeOK, Lifecycle, NothingLeaks, Connection
<1> QED BY <1>1, LifecycleAlways, PTL

\* When the connection is CLOSED the client is armed to write, so that
\* proxy_client_active_socket_write is called and frees it.
THEOREM ClosedAlwaysDrains == Spec => []ClosedIsDraining
<1>1. LifecycleInv => ClosedIsDraining
  BY DEF LifecycleInv, Lifecycle, ClosedIsDraining
<1> QED BY <1>1, LifecycleAlways, PTL

-----------------------------------------------------------------------------
(* Without a transformation no byte is stranded and no pause lasts for ever.  *)
(* The inductive invariant adds to the lifecycle the turns of the two sockets *)
(* (never both armed to write; a paused client waits for an origin that is    *)
(* armed to write) and, for the pause of the origin, how much the parser      *)
(* leaves in its buffer.                                                      *)

\* a line of a header, with its end, fits the array a line is taken into, and
\* without it the parser buffer beside the reserve
LinesFit == MaxLine < LineSize /\ MaxLine + Reserve < Cap

\* a request head does not fill its buffer
HeadsFit == InitialRequests \subseteq 0 .. Cap - 1

PlainAlive(c) ==
    /\ c.resp > 0 => c.interest["client"] = "write"
    /\ c.req > 0 => c.interest["origin"] = "write"
    /\ c.interest["origin"] # "none"
    /\ c.interest["client"] = "write" => c.interest["origin"] # "write"
    /\ c.interest["client"] = "noop" => c.interest["origin"] = "write"
    /\ LinesFit => c.pbuf <= MaxLine
    /\ LinesFit => (c.interest["origin"] = "noop" => c.interest["client"] = "write")
    /\ HeadsFit => (c.interest["client"] = "read" => c.req < Cap)

Plain(c) ==
    /\ ~c.transformer
    /\ c.state # "TRANSFORMER_MUST_CLOSE"
    /\ c.state = "FREED" => c.resp = 0
    /\ c.state = "ALIVE" => PlainAlive(c)

PlainInv == LifecycleInv /\ Plain(conn)

\* kill_client leaves no bytes and no interests.
LEMMA KillClientPlain ==
    ASSUME NEW c \in Connection, Lifecycle(c), ~c.transformer
    PROVE  Plain(KillClient(c)) /\ KillClient(c).state = "FREED"
<1> DEFINE k == IF c.state = "CLOSED" THEN c ELSE KillOrigin(c)
           u == Unregister(k, "client")
<1>1. k \in Connection /\ ~k.transformer
  BY KillOriginType, KillOriginEffect
<1> HIDE DEF k
<1>2. u \in Connection /\ ~u.transformer
  BY <1>1, UnregisterType, UnregisterEffect DEF Fds
<1> HIDE DEF u
<1>3. KillClient(c) = [u EXCEPT !.state = "FREED", !.req = 0, !.resp = 0]
  BY DEF KillClient, u, k
<1>4. ~KillClient(c).transformer
  BY <1>2, <1>3 DEF Connection
<1> QED BY <1>4, KillClientReleases DEF Plain

\* What the parser returns when there is no transformation: the connection is
\* killed, or the client is armed to write and parser_buff holds at most the
\* beginning of a line, if lines fit.
PlainParsed(c, p) ==
    \/ p.state = "FREED" /\ Plain(p)
    \/ /\ p.state = "ALIVE" /\ ~p.transformer
       /\ p.req = c.req /\ (LinesFit => p.pbuf <= MaxLine)
       /\ p.interest["client"] = "write"
       /\ p.interest["origin"] = c.interest["origin"]

\* read_unchunked leaves less than a line in parser_buff.
LEMMA UnchunkedRest ==
    ASSUME NEW c \in Connection, NEW u \in Unchunked(c) PROVE u.rest <= MaxLine
<1>0. MaxLine \in Nat /\ c.framing \in Framings
  BY ConstantsAssumption DEF Connection
<1>1. CASE c.framing = "close"
  <2>1. u \in [payload: {c.pbuf}, rest: {0}, done: {FALSE}]
    BY <1>1 DEF Unchunked
  <2>2. u.rest = 0
    BY <2>1
  <2> QED BY <1>0, <2>2
<1>2. CASE c.framing = "length"
  <2>1. u \in [payload: {c.pbuf}, rest: {0}, done: BOOLEAN]
    BY <1>2 DEF Unchunked
  <2>2. u.rest = 0
    BY <2>1
  <2> QED BY <1>0, <2>2
<1>3. CASE c.framing = "chunked"
  <2>1. u \in [payload: 0 .. c.pbuf, rest: 0 .. MaxLine, done: BOOLEAN]
    BY <1>3 DEF Unchunked
  <2>2. u.rest \in 0 .. MaxLine
    BY <2>1
  <2> QED BY <1>0, <2>2
<1> QED BY <1>0, <1>1, <1>2, <1>3 DEF Framings

\* Arming the client of a connection whose bytes have moved.
LEMMA ArmedPlain ==
    ASSUME NEW c \in Connection, c.state = "ALIVE", ~c.transformer,
           c.interest["client"] # "none",
           NEW d \in Connection, d.state = c.state, d.transformer = c.transformer,
           d.interest = c.interest, d.req = c.req, LinesFit => d.pbuf <= MaxLine
    PROVE  PlainParsed(c, SetInterest(d, "client", "write"))
<1> DEFINE s == SetInterest(d, "client", "write")
<1>1. /\ s.state = d.state /\ s.transformer = d.transformer /\ s.req = d.req
      /\ s.pbuf = d.pbuf
      /\ \A g \in Fds : s.interest[g] =
            IF g = "client" /\ d.interest["client"] # "none" THEN "write"
                                                         ELSE d.interest[g]
  BY SetInterestEffect DEF Fds, Interests
<1> HIDE DEF s
<1>2. s.interest["client"] = "write" /\ s.interest["origin"] = c.interest["origin"]
  BY <1>1 DEF Fds
<1> QED BY <1>1, <1>2 DEF PlainParsed, s

\* WriteBody arms the client and leaves less than a line.
LEMMA WriteBodyPlain ==
    ASSUME NEW c \in Connection, c.state = "ALIVE", ~c.transformer,
           c.interest["client"] # "none", NEW u \in Unchunked(c)
    PROVE  PlainParsed(c, WriteBody(c, u))
<1> DEFINE r == Respond(c, Chunked(u.payload))
           f == c.finished \/ u.done
           b == [r EXCEPT !.pbuf = u.rest, !.finished = f]
           e == IF b.finished THEN EndBody(b) ELSE b
<1>1. u.payload \in Nat /\ u.rest \in 0 .. Cap /\ f \in BOOLEAN
  BY UnchunkedType, ConstantsAssumption DEF Connection
<1>2. /\ r \in Connection /\ r.state = c.state /\ r.transformer = c.transformer
      /\ r.interest = c.interest /\ r.req = c.req
  BY <1>1, ChunkedType, RespondType, RespondEffect
<1> HIDE DEF r, f
<1>3. /\ b \in Connection /\ b.state = c.state /\ b.transformer = c.transformer
      /\ b.interest = c.interest /\ b.req = c.req /\ b.pbuf = u.rest
  BY <1>1, <1>2 DEF Connection
<1> HIDE DEF b
<1>4. /\ e \in Connection /\ e.state = c.state /\ e.transformer = c.transformer
      /\ e.interest = c.interest /\ e.req = c.req /\ e.pbuf = u.rest
  BY <1>3, EndBodyType, EndBodyEffect
<1> HIDE DEF e
<1>5. WriteBody(c, u) = SetInterest(e, "client", "write")
  BY DEF WriteBody, e, b, r, f
<1> QED BY <1>4, <1>5, UnchunkedRest, ArmedPlain

\* ReadHeader arms the client and leaves less than a line.
LEMMA ReadHeaderPlain ==
    ASSUME NEW c \in Connection, c.state = "ALIVE", ~c.transformer,
           c.interest["client"] # "none",
           NEW h \in HeaderLines(c), NEW a \in Nat, NEW s \in ParserStates
    PROVE  LET d == ReadHeader(c, h, a, s) IN
           /\ d \in Connection /\ d.state = "ALIVE" /\ ~d.transformer
           /\ d.req = c.req /\ d.interest["client"] = "write"
           /\ d.interest["origin"] = c.interest["origin"]
           /\ d.pbuf = c.pbuf - h.taken
<1> DEFINE r == Respond(c, h.sent + a)
           n == c.pbuf - h.taken
           f == h.framing
           d == [r EXCEPT !.pbuf = n, !.framing = f, !.parser = s]
           e == SetInterest(d, "client", "write")
<1>1. h.sent + a \in Nat /\ f \in Framings
  BY HeaderLinesType
<1>2. /\ r \in Connection /\ r.state = c.state /\ r.transformer = c.transformer
      /\ r.interest = c.interest /\ r.req = c.req
  BY <1>1, RespondType, RespondEffect
<1>3. n \in 0 .. Cap
  <2>1. c.pbuf \in 0 .. Cap
    BY DEF Connection
  <2> QED BY <2>1, HeaderLinesType, ConstantsAssumption
<1> HIDE DEF r, n, f
<1>4. /\ d \in Connection /\ d.state = c.state /\ d.transformer = c.transformer
      /\ d.interest = c.interest /\ d.req = c.req /\ d.pbuf = n
  BY <1>1, <1>2, <1>3 DEF Connection
<1> HIDE DEF d
<1>5. ReadHeader(c, h, a, s) = e
  BY DEF ReadHeader, d, r, n, f
<1>6. e \in Connection
  BY <1>4, SetInterestType DEF Fds, Interests
<1>7. /\ e.state = d.state /\ e.transformer = d.transformer /\ e.req = d.req
      /\ e.pbuf = d.pbuf
      /\ \A g \in Fds : e.interest[g] =
            IF g = "client" /\ d.interest["client"] # "none" THEN "write"
                                                         ELSE d.interest[g]
  BY <1>4, SetInterestEffect DEF Fds, Interests
<1> HIDE DEF e
<1>8. e.interest["client"] = "write" /\ e.interest["origin"] = c.interest["origin"]
  BY <1>4, <1>7 DEF Fds
<1> QED BY <1>4, <1>5, <1>6, <1>7, <1>8 DEF n

\* Every result of ParseBody arms the client or kills it.
LEMMA ParseBodyPlain ==
    ASSUME NEW c \in Connection, Lifecycle(c), c.state = "ALIVE", ~c.transformer,
           NEW p \in ParseBody(c)
    PROVE  PlainParsed(c, p)
<1>1. p = SendError(c) \/ \E u \in Unchunked(c) : p = WriteBody(c, u)
  BY DEF ParseBody
<1>2. c.interest["client"] # "none"
  BY DEF Lifecycle
<1>3. CASE p = SendError(c)
  BY <1>3, KillClientPlain DEF SendError, PlainParsed
<1>4. ASSUME NEW u \in Unchunked(c), p = WriteBody(c, u) PROVE PlainParsed(c, p)
  BY <1>2, <1>4, WriteBodyPlain
<1> QED BY <1>1, <1>3, <1>4

\* Every result of parse_content arms the client or kills it.
LEMMA ParseContentPlain ==
    ASSUME NEW c \in Connection, Lifecycle(c), c.state = "ALIVE", ~c.transformer,
           Transforms = FALSE, NEW p \in ParseContent(c)
    PROVE  PlainParsed(c, p)
<1>0. /\ c.interest["client"] # "none" /\ MaxLine \in Nat /\ LineSize \in Nat
      /\ c.pbuf \in Nat
  BY ConstantsAssumption DEF Lifecycle, Connection
<1>1. CASE c.parser = "READING_HEADER"
  <2>1. CASE p \in HeaderOpen(c)
    <3>1. PICK h \in HeaderLines(c) :
            IsRest(c.pbuf - h.taken) /\ p = ReadHeader(c, h, 0, "READING_HEADER")
      BY <2>1, HeaderOpenIsStep
    <3>2. LinesFit => c.pbuf - h.taken <= MaxLine
      BY <1>0, <3>1 DEF IsRest, LinesFit
    <3> QED BY <1>0, <3>1, <3>2, ReadHeaderPlain, Zero DEF ParserStates, PlainParsed
  <2>2. ASSUME NEW h \in HeaderDone(c), p \in ParseBody(h) PROVE PlainParsed(c, p)
    <3>1. PICK l \in HeaderLines(c), a \in Nat : h = ReadHeader(c, l, a, "READING_BODY")
      BY HeaderDoneIsStep
    <3>2. /\ h \in Connection /\ h.state = "ALIVE" /\ ~h.transformer
          /\ h.req = c.req /\ h.interest["client"] = "write"
          /\ h.interest["origin"] = c.interest["origin"]
      BY <1>0, <3>1, ReadHeaderPlain DEF ParserStates
    <3>3. Lifecycle(h)
      BY <3>1, ReadHeaderParsed DEF ParserStates, Parsed
    <3>4. PlainParsed(h, p)
      BY <2>2, <3>2, <3>3, ParseBodyPlain
    <3> QED BY <3>2, <3>4 DEF PlainParsed
  <2>3. p \in ParseHeader(c)
    BY <1>1 DEF ParseContent
  <2> QED BY <2>1, <2>2, <2>3 DEF ParseHeader
<1>2. CASE c.parser = "READING_BODY"
  BY <1>2, ParseBodyPlain DEF ParseContent
<1>3. CASE c.parser = "SSL_CONNECTION"
  <2> DEFINE q == Respond(c, c.pbuf)
             r == [q EXCEPT !.pbuf = 0]
  <2>1. /\ q \in Connection /\ q.state = c.state /\ q.transformer = c.transformer
        /\ q.interest = c.interest /\ q.req = c.req
    <3>1. c.pbuf \in Nat
      BY DEF Connection
    <3> QED BY <3>1, RespondType, RespondEffect
  <2> HIDE DEF q
  <2>2. /\ r \in Connection /\ r.state = c.state /\ r.transformer = c.transformer
        /\ r.interest = c.interest /\ r.req = c.req /\ r.pbuf = 0
    BY <2>1, Zero DEF Connection
  <2> HIDE DEF r
  <2>3. p = SetInterest(r, "client", "write")
    BY <1>3 DEF ParseContent, r, q
  <2> QED BY <1>0, <2>2, <2>3, ArmedPlain
<1> QED BY <1>1, <1>2, <1>3 DEF Connection, ParserStates

\* proxy_client_active_socket_read keeps PlainInv.
LEMMA ClientReadPlain ==
    ASSUME PlainInv, ClientRead PROVE Plain(conn')
<1> DEFINE space == Cap - conn.req
           take == Smaller(net.cin, space)
           filled == take = space
           c == [conn EXCEPT !.req = conn.req + take]
           d == IF filled THEN SetInterest(c, "client", "noop") ELSE c
<1> USE DEF PlainInv, LifecycleInv, TypeOK
<1>1. take \in Nat /\ take <= space
  <2>1. net.cin \in Nat /\ space \in Nat
    BY ConstantsAssumption DEF Network, Connection
  <2> QED BY <2>1, SmallerType
<1>2. /\ conn.state = "ALIVE" /\ conn.interest["client"] = "read"
      /\ PlainAlive(conn) /\ ~conn.transformer
  BY DEF ClientRead, Lifecycle, Fds, Plain, Connection, ConnectionStates
<1> HIDE DEF take
<1>3. /\ c \in Connection /\ c.state = "ALIVE" /\ c.transformer = conn.transformer
      /\ c.interest = conn.interest /\ c.resp = conn.resp /\ c.pbuf = conn.pbuf
      /\ c.req = conn.req + take
  BY <1>1, <1>2, ReqType
<1> HIDE DEF c
<1>4. Lifecycle(c)
  BY <1>2, <1>3, SameLifecycle
<1>5. /\ d \in Connection /\ Lifecycle(d)
  <2>1. /\ SetInterest(c, "client", "noop") \in Connection
        /\ Lifecycle(SetInterest(c, "client", "noop"))
    BY <1>3, <1>4, SetInterestType, SetInterestLifecycle DEF Fds, Interests
  <2> QED BY <1>3, <1>4, <2>1
<1>6. /\ d.state = "ALIVE" /\ ~d.transformer /\ d.resp = conn.resp
      /\ d.pbuf = conn.pbuf
      /\ d.interest["client"] \in {"read", "noop"}
      /\ d.interest["client"] = "read" => d.req < Cap
      /\ d.interest["origin"] = conn.interest["origin"]
  <2>1. CASE filled
    BY <1>2, <1>3, <2>1, SetInterestEffect DEF Fds, Interests
  <2>2. CASE ~filled
    <3>1. conn.req + take < Cap
      BY <1>1, <2>2, ConstantsAssumption DEF Connection
    <3> QED BY <1>2, <1>3, <2>2, <3>1
  <2> QED BY <2>1, <2>2
<1> HIDE DEF d
<1>7. conn' = SetInterest(d, "origin", "write") \/ conn' = KillClient(d)
  BY DEF ClientRead, d, c, take
<1>8. CASE conn' = SetInterest(d, "origin", "write")
  <2>1. /\ conn'.state = "ALIVE" /\ ~conn'.transformer /\ conn'.resp = conn.resp
        /\ conn'.pbuf = conn.pbuf /\ conn'.req = d.req
        /\ \A g \in Fds : conn'.interest[g] =
              IF g = "origin" /\ d.interest["origin"] # "none" THEN "write"
                                                           ELSE d.interest[g]
    BY <1>5, <1>6, <1>8, SetInterestEffect DEF Fds, Interests
  <2>2. /\ conn'.interest["origin"] = "write" /\ conn'.interest["client"] \in {"read", "noop"}
        /\ conn'.interest["client"] = "read" => conn'.req < Cap
    BY <1>2, <1>6, <2>1 DEF Fds, PlainAlive
  <2>3. conn.resp = 0
    BY <1>2 DEF PlainAlive, Connection
  <2> QED BY <1>2, <2>1, <2>2, <2>3 DEF Plain, PlainAlive
<1>9. CASE conn' = KillClient(d)
  BY <1>5, <1>6, <1>9, KillClientPlain
<1> QED BY <1>7, <1>8, <1>9

\* proxy_client_active_socket_write keeps PlainInv.
LEMMA ClientWritePlain ==
    ASSUME PlainInv, ClientWrite PROVE Plain(conn')
<1> DEFINE c == [conn EXCEPT !.resp = 0]
           d == SetInterest(c, "client", "read")
<1> USE DEF PlainInv, LifecycleInv, TypeOK
<1>1. /\ c \in Connection /\ c.state = conn.state /\ c.transformer = conn.transformer
      /\ c.interest = conn.interest /\ c.req = conn.req /\ c.pbuf = conn.pbuf
      /\ c.resp = 0
  BY Zero DEF Connection
<1> HIDE DEF c
<1>2. Lifecycle(c) /\ ~conn.transformer
  BY <1>1, SameLifecycle DEF Plain
<1>3. CASE conn.state = "CLOSED"
  <2>1. conn' = KillClient(c)
    BY <1>3 DEF ClientWrite, c
  <2> QED BY <2>1, <1>1, <1>2, KillClientPlain
<1>4. CASE conn.state # "CLOSED"
  <2>1. conn.state = "ALIVE" /\ PlainAlive(conn) /\ conn.interest["client"] = "write"
    BY <1>4 DEF ClientWrite, Lifecycle, Fds, Plain, Connection, ConnectionStates
  <2>2. conn.req = 0
    BY <2>1 DEF PlainAlive, Connection
  <2>3. /\ d \in Connection /\ d.state = "ALIVE" /\ ~d.transformer /\ d.resp = 0
        /\ d.req = conn.req /\ d.pbuf = conn.pbuf
        /\ d.interest["client"] = "read"
        /\ d.interest["origin"] = conn.interest["origin"]
    <3>1. d \in Connection
      BY <1>1, SetInterestType DEF Fds, Interests
    <3>2. /\ d.state = c.state /\ d.transformer = c.transformer
          /\ d.req = c.req /\ d.resp = c.resp /\ d.pbuf = c.pbuf
          /\ \A g \in Fds : d.interest[g] =
                IF g = "client" /\ c.interest["client"] # "none" THEN "read"
                                                             ELSE c.interest[g]
      BY <1>1, SetInterestEffect DEF Fds, Interests
    <3> HIDE DEF d
    <3> QED BY <1>1, <1>2, <2>1, <3>1, <3>2 DEF Fds
  <2>4. conn' = SetInterest(d, "origin", "read")
    BY <1>2, <1>4 DEF ClientWrite, c, d
  <2> HIDE DEF d
  <2>5. /\ conn'.state = d.state /\ conn'.transformer = d.transformer
        /\ conn'.resp = d.resp /\ conn'.req = d.req /\ conn'.pbuf = d.pbuf
        /\ \A g \in Fds : conn'.interest[g] =
              IF g = "origin" /\ d.interest["origin"] # "none" THEN "read"
                                                           ELSE d.interest[g]
    BY <2>3, <2>4, SetInterestEffect DEF Fds, Interests
  <2>6. conn'.interest["origin"] = "read" /\ conn'.interest["client"] = "read"
    BY <2>1, <2>3, <2>5 DEF Fds, PlainAlive
  <2>7. conn.req < Cap
    BY <2>2, ConstantsAssumption
  <2> QED BY <2>1, <2>2, <2>3, <2>5, <2>6, <2>7 DEF Plain, PlainAlive
<1> QED BY <1>3, <1>4

\* proxy_origin_active_socket_write keeps PlainInv.
LEMMA OriginWritePlain ==
    ASSUME PlainInv, OriginWrite PROVE Plain(conn')
<1> DEFINE c == [conn EXCEPT !.req = 0]
           d == SetInterest(c, "origin", "read")
<1> USE DEF PlainInv, LifecycleInv, TypeOK
<1>1. /\ c \in Connection /\ c.state = conn.state /\ c.transformer = conn.transformer
      /\ c.interest = conn.interest /\ c.resp = conn.resp /\ c.pbuf = conn.pbuf
      /\ c.req = 0
  BY Zero DEF Connection
<1> HIDE DEF c
<1>2. /\ conn.state = "ALIVE" /\ PlainAlive(conn) /\ conn.interest["origin"] = "write"
      /\ conn.interest["client"] # "none"
  BY DEF OriginWrite, Lifecycle, Fds, Plain, Connection, ConnectionStates
<1>3. conn.resp = 0 /\ ~conn.transformer
  BY <1>2 DEF Plain, PlainAlive, Connection
<1>4. /\ d \in Connection /\ d.state = "ALIVE" /\ ~d.transformer /\ d.req = 0
      /\ d.resp = conn.resp /\ d.pbuf = conn.pbuf
      /\ d.interest["origin"] = "read"
      /\ d.interest["client"] = conn.interest["client"]
  <2>1. d \in Connection
    BY <1>1, SetInterestType DEF Fds, Interests
  <2>2. /\ d.state = c.state /\ d.transformer = c.transformer
        /\ d.req = c.req /\ d.resp = c.resp /\ d.pbuf = c.pbuf
        /\ \A g \in Fds : d.interest[g] =
              IF g = "origin" /\ c.interest["origin"] # "none" THEN "read"
                                                           ELSE c.interest[g]
    BY <1>1, SetInterestEffect DEF Fds, Interests
  <2> HIDE DEF d
  <2> QED BY <1>1, <1>2, <1>3, <2>1, <2>2 DEF Fds
<1>5. conn' = SetInterest(d, "client", "read")
  BY DEF OriginWrite, c, d
<1> HIDE DEF d
<1>6. /\ conn'.state = d.state /\ conn'.transformer = d.transformer
      /\ conn'.resp = d.resp /\ conn'.req = d.req /\ conn'.pbuf = d.pbuf
      /\ \A g \in Fds : conn'.interest[g] =
            IF g = "client" /\ d.interest["client"] # "none" THEN "read"
                                                         ELSE d.interest[g]
  BY <1>4, <1>5, SetInterestEffect DEF Fds, Interests
<1>7. conn'.interest["origin"] = "read" /\ conn'.interest["client"] = "read"
  BY <1>2, <1>4, <1>6 DEF Fds
<1>8. 0 < Cap
  BY ConstantsAssumption
<1> QED BY <1>2, <1>3, <1>4, <1>6, <1>7, <1>8 DEF Plain, PlainAlive

\* What is received arms nobody yet and changes parser_buff alone.
LEMMA ReceivedPlain ==
    ASSUME NEW c \in Connection, ~c.transformer, NEW n \in Nat
    PROVE  LET d == Received(c, n) IN
           /\ ~d.transformer /\ d.req = c.req /\ d.resp = c.resp
           /\ d.interest["client"] = c.interest["client"]
           /\ d.interest["origin"] = c.interest["origin"]
           /\ n = 0 => d = c
<1> DEFINE r == IF c.finished THEN ResetOriginData(c) ELSE c
           m == r.pbuf + n
           d == [r EXCEPT !.pbuf = m]
<1>1. /\ r \in Connection /\ ~r.transformer /\ r.req = c.req /\ r.resp = c.resp
      /\ r.interest = c.interest
  <2>1. ResetOriginData(c) \in Connection
    BY ResetOriginDataType
  <2>2. KillTransformation(c) = c
    BY DEF KillTransformation
  <2>3. /\ ~ResetOriginData(c).transformer /\ ResetOriginData(c).req = c.req
        /\ ResetOriginData(c).resp = c.resp /\ ResetOriginData(c).interest = c.interest
    BY <2>2 DEF ResetOriginData, Connection
  <2> QED BY <2>1, <2>3
<1> HIDE DEF r, m
<1>2. ~d.transformer /\ d.req = c.req /\ d.resp = c.resp /\ d.interest = c.interest
  BY <1>1 DEF Connection
<1>3. Received(c, n) = IF n = 0 THEN c ELSE d
  BY DEF Received, r, m
<1> HIDE DEF d
<1> QED BY <1>2, <1>3

\* The end of the origin's stream leaves the client armed.
LEMMA OriginClosedPlain ==
    ASSUME NEW c \in Connection, c.state = "ALIVE", ~c.transformer
    PROVE  Plain(OriginClosed(c))
<1> DEFINE e == IF c.framing = "close" THEN EndBody(c) ELSE c
           x == [e EXCEPT !.state = "CLOSED"]
           k == KillOrigin(x)
           d == SetInterest(k, "client", "write")
<1>1. e \in Connection
  BY EndBodyType
<1> HIDE DEF e
<1>2. x \in Connection /\ x.state = "CLOSED"
  BY <1>1 DEF Connection, ConnectionStates
<1> HIDE DEF x
<1>3. k \in Connection /\ ~k.transformer /\ k.state = "CLOSED"
  BY <1>2, KillOriginType, KillOriginEffect
<1> HIDE DEF k
<1>4. d \in Connection
  BY <1>3, SetInterestType DEF Fds, Interests
<1>5. d.state = k.state /\ d.transformer = k.transformer
  BY <1>3, SetInterestEffect DEF Fds, Interests
<1> HIDE DEF d
<1>6. OriginClosed(c) = Unregister(d, "origin")
  BY DEF OriginClosed, e, x, k, d
<1>7. OriginClosed(c).state = d.state /\ OriginClosed(c).transformer = d.transformer
  BY <1>4, <1>6, UnregisterEffect DEF Fds
<1> QED BY <1>3, <1>5, <1>7 DEF Plain

\* proxy_origin_active_socket_read keeps PlainInv.
LEMMA OriginReadPlain ==
    ASSUME PlainInv, OriginRead, Transforms = FALSE PROVE Plain(conn')
<1> DEFINE limit == ReadLimit(conn)
           take == Smaller(net.oin, limit)
           paused == take = limit
           b == IF paused THEN SetInterest(conn, "origin", "noop") ELSE conn
           c == Received(b, take)
           sawEof == IF paused THEN FALSE ELSE net.oeof
<1> USE DEF PlainInv, LifecycleInv, TypeOK
<1>1. take \in Nat /\ take <= limit
  <2>1. net.oin \in Nat
    BY DEF Network
  <2>2. limit \in Nat
    BY ReadLimitType
  <2> QED BY <2>1, <2>2, SmallerType
<1>2. /\ conn.state = "ALIVE" /\ PlainAlive(conn) /\ ~conn.transformer
      /\ conn.interest["origin"] = "read" /\ conn.interest["client"] # "none"
  BY DEF OriginRead, Lifecycle, Fds, Plain, Connection, ConnectionStates
<1>3. conn.req = 0 /\ conn.interest["client"] \in {"read", "write"}
  BY <1>2 DEF PlainAlive, Connection, Interests, Fds
<1>4. /\ b \in Connection /\ Lifecycle(b)
      /\ b.state = "ALIVE" /\ ~b.transformer
      /\ b.req = conn.req /\ b.resp = conn.resp /\ b.pbuf = conn.pbuf
      /\ b.interest["client"] = conn.interest["client"]
      /\ b.interest["origin"] = IF paused THEN "noop" ELSE "read"
  <2> DEFINE d == SetInterest(conn, "origin", "noop")
  <2>1. d \in Connection /\ Lifecycle(d)
    BY <1>2, SetInterestType, SetInterestLifecycle DEF Fds, Interests
  <2>2. /\ d.state = conn.state /\ d.transformer = conn.transformer
        /\ d.req = conn.req /\ d.resp = conn.resp /\ d.pbuf = conn.pbuf
        /\ \A g \in Fds : d.interest[g] =
              IF g = "origin" /\ conn.interest["origin"] # "none" THEN "noop"
                                                              ELSE conn.interest[g]
    BY SetInterestEffect DEF Fds, Interests
  <2> HIDE DEF d
  <2>3. d.interest["origin"] = "noop" /\ d.interest["client"] = conn.interest["client"]
    BY <1>2, <2>2 DEF Fds
  <2> QED BY <1>2, <2>1, <2>2, <2>3 DEF d
<1>5. ReadLimit(b) = limit
  BY DEF ReadLimit, AvailableParserBytes, SetInterest, Connection
\* nothing was read because the limit is 0: the response buffer is not empty
<1>6. LinesFit /\ take = 0 /\ paused => conn.interest["client"] = "write"
  <2> SUFFICES ASSUME LinesFit, limit = 0 PROVE conn.resp > 0
    BY <1>2 DEF PlainAlive
  <2>1. /\ conn.resp \in 0 .. Cap /\ conn.pbuf \in 0 .. Cap /\ conn.pbuf <= MaxLine
        /\ MaxLine + Reserve < Cap
        /\ Cap \in Nat /\ Reserve \in 1 .. Cap - 1 /\ MaxLine \in Nat
    BY <1>2, ConstantsAssumption DEF PlainAlive, Connection, LinesFit
  <2>2. AvailableParserBytes(conn) = 0
    BY <2>1 DEF ReadLimit, AvailableParserBytes, Smaller
  <2> QED BY <2>1, <2>2 DEF AvailableParserBytes, Smaller
<1>7. PICK p \in IF take = 0 THEN {c} ELSE ParseContent(c) :
        conn' = IF p.state # "FREED" /\ sawEof THEN OriginClosed(p) ELSE p
  BY DEF OriginRead, take, b, c
<1> HIDE DEF b, take, paused, sawEof
<1>8. c \in Connection /\ Lifecycle(c) /\ c.state = "ALIVE"
  BY <1>1, <1>4, <1>5, ReceivedLifecycle
<1>9. /\ ~c.transformer /\ c.req = 0 /\ c.resp = conn.resp
      /\ c.interest["client"] = conn.interest["client"]
      /\ c.interest["origin"] = IF paused THEN "noop" ELSE "read"
      /\ take = 0 => c.pbuf = conn.pbuf
  BY <1>1, <1>3, <1>4, ReceivedPlain
<1> HIDE DEF c
<1>10. \/ p.state = "FREED" /\ Plain(p)
       \/ p.state = "ALIVE" /\ ~p.transformer /\ p \in Connection /\ PlainAlive(p)
  <2>1. CASE take = 0
    <3>1. p = c
      BY <1>7, <2>1
    <3> QED BY <1>2, <1>3, <1>6, <1>8, <1>9, <2>1, <3>1 DEF PlainAlive
  <2>2. CASE take # 0
    <3>1. p \in ParseContent(c)
      BY <1>7, <2>2
    <3>2. PlainParsed(c, p) /\ p \in Connection
      BY <1>8, <1>9, <3>1, ParseContentPlain, ParseContentParsed DEF Parsed
    <3>3. CASE p.state = "FREED"
      BY <3>2, <3>3 DEF PlainParsed
    <3>4. CASE p.state # "FREED"
      BY <1>9, <3>2, <3>4 DEF PlainParsed, PlainAlive
    <3> QED BY <3>3, <3>4
  <2> QED BY <2>1, <2>2
<1>11. CASE conn' = p
  BY <1>10, <1>11 DEF Plain
<1>12. CASE p.state # "FREED" /\ conn' = OriginClosed(p)
  BY <1>10, <1>12, OriginClosedPlain
<1> QED BY <1>7, <1>11, <1>12

\* Every step keeps PlainInv.
LEMMA NextPlain ==
    ASSUME PlainInv, [Next]_vars, Transforms = FALSE PROVE PlainInv'
<1> USE DEF PlainInv
<1>1. LifecycleInv'
  BY NextLifecycle
<1>2. Plain(conn')
  <2>1. CASE ClientRead
    BY <2>1, ClientReadPlain
  <2>2. CASE ClientWrite
    BY <2>2, ClientWritePlain
  <2>3. CASE OriginRead
    BY <2>3, OriginReadPlain
  <2>4. CASE OriginWrite
    BY <2>4, OriginWritePlain
  <2>5. CASE TransformationRead \/ TransformationWrite
    BY <2>5 DEF TransformationRead, TransformationWrite, LifecycleInv, Lifecycle, Plain
  <2>6. CASE UNCHANGED conn
    BY <2>6 DEF Plain, PlainAlive
  <2>7. CASE FilterCopies
    <3>1. PICK n \in 1 .. Smaller(conn.inPipe, PipeCap - conn.outPipe) :
            conn' = [conn EXCEPT !.inPipe = conn.inPipe - n,
                                 !.outPipe = conn.outPipe + n]
      BY <2>7 DEF FilterCopies
    <3>2. /\ conn'.state = conn.state /\ conn'.transformer = conn.transformer
          /\ conn'.interest = conn.interest /\ conn'.req = conn.req
          /\ conn'.resp = conn.resp /\ conn'.pbuf = conn.pbuf
      BY <3>1 DEF LifecycleInv, TypeOK, Connection
    <3> QED BY <3>2 DEF Plain, PlainAlive
  <2>8. ~FilterExits
    BY DEF FilterExits, Plain
  <2> QED
    BY <2>1, <2>2, <2>3, <2>4, <2>5, <2>6, <2>7, <2>8
    DEF Next, Handlers, Peers, ClientSends, ClientCloses, OriginSends, OriginCloses, vars
<1> QED BY <1>1, <1>2

\* PlainInv holds of the connection the block handler leaves.
LEMMA InitPlain == Init => PlainInv
<1> SUFFICES ASSUME Init PROVE Plain(conn)
  BY InitLifecycle DEF PlainInv
<1>1. PICK n \in InitialRequests, ssl \in Tunnels :
        conn = [interest |-> [fd \in Fds |-> CASE fd = "client" -> "read"
                                               [] fd = "origin" -> "write"
                                               [] OTHER -> "none"],
                state |-> "ALIVE", ssl |-> ssl, req |-> n, resp |-> 0, pbuf |-> 0, tmp |-> 0,
                parser |-> FirstParserState(ssl), framing |-> "close",
                finished |-> FALSE, transformer |-> FALSE,
                inPipe |-> 0, outPipe |-> 0, outEof |-> FALSE,
                ended |-> 0, lost |-> FALSE]
  BY DEF Init
<1>2. /\ conn.interest["client"] = "read" /\ conn.interest["origin"] = "write"
      /\ conn.state = "ALIVE" /\ conn.resp = 0 /\ conn.pbuf = 0
      /\ ~conn.transformer
  BY <1>1 DEF Fds
<1>3. HeadsFit => conn.req < Cap
  BY <1>1, ConstantsAssumption DEF HeadsFit
<1> QED BY <1>2, <1>3, ConstantsAssumption DEF Plain, PlainAlive

\* Without a transformation, every byte in a buffer has an armed handler that
\* will move it on, whatever the sizes: no handler forgets to wake the other.
THEOREM NothingStranded ==
    ASSUME Transforms = FALSE PROVE Spec => []NoStrandedBytes
<1>1. PlainInv => NoStrandedBytes
  BY DEF PlainInv, LifecycleInv, TypeOK, Lifecycle, Plain, PlainAlive, NoStrandedBytes,
         Connection, ConnectionStates
<1> QED BY <1>1, InitPlain, NextPlain, PTL DEF Spec

\* Without a transformation, and if the lines of a header fit the array they are
\* taken into and the parser buffer, a descriptor that was paused because a buffer is full waits for one that is
\* armed to write and will resume it.
THEOREM PausesEnd ==
    ASSUME Transforms = FALSE, MaxLine < LineSize, MaxLine + Reserve < Cap
    PROVE  Spec => []PausedIsResumed
<1>1. PlainInv => PausedIsResumed
  BY DEF PlainInv, LifecycleInv, TypeOK, Lifecycle, Plain, PlainAlive, PausedIsResumed,
         Connection, ConnectionStates, LinesFit, Fds
<1> QED BY <1>1, InitPlain, NextPlain, PTL DEF Spec

\* The origin's close leaves a connection whose client has still to be served.
LEMMA OriginClosedState ==
    ASSUME NEW c \in Connection, c.state = "ALIVE", ~c.transformer
    PROVE  OriginClosed(c).state = "CLOSED"
<1> DEFINE e == IF c.framing = "close" THEN EndBody(c) ELSE c
           x == [e EXCEPT !.state = "CLOSED"]
           k == KillOrigin(x)
           d == SetInterest(k, "client", "write")
<1>1. e \in Connection
  BY EndBodyType
<1> HIDE DEF e
<1>2. x \in Connection /\ x.state = "CLOSED"
  BY <1>1 DEF Connection, ConnectionStates
<1> HIDE DEF x
<1>3. k \in Connection /\ k.state = "CLOSED"
  BY <1>2, KillOriginType, KillOriginEffect
<1> HIDE DEF k
<1>4. d \in Connection /\ d.state = "CLOSED"
  BY <1>3, SetInterestType, SetInterestEffect DEF Fds, Interests
<1> HIDE DEF d
<1>5. OriginClosed(c) = Unregister(d, "origin")
  BY DEF OriginClosed, e, x, k, d
<1> QED BY <1>4, <1>5, UnregisterEffect DEF Fds

\* A step that kills a connection that is alive is one of two: the client's read
\* handler at the end of its stream, or the parser on bytes it has just received.
LEMMA KillHasReason ==
    ASSUME PlainInv, Transforms = FALSE, HeadsFit, Next,
           conn.state = "ALIVE", conn'.state = "FREED"
    PROVE  net.ceof \/ net'.oin # net.oin
<1> USE DEF PlainInv, LifecycleInv, TypeOK
<1>0. PlainAlive(conn) /\ ~conn.transformer
  BY DEF Plain
<1>1. CASE ClientRead
  <2> DEFINE space == Cap - conn.req
             take == Smaller(net.cin, space)
             filled == take = space
             c == [conn EXCEPT !.req = conn.req + take]
             d == IF filled THEN SetInterest(c, "client", "noop") ELSE c
             sawEof == IF filled THEN FALSE ELSE net.ceof
  <2>1. conn' = SetInterest(d, "origin", "write") \/ sawEof \/ space = 0
    BY <1>1 DEF ClientRead
  <2>2. space # 0
    BY <1>0, <1>1, ConstantsAssumption DEF ClientRead, PlainAlive, Connection
  <2>3. take \in Nat /\ take <= space
    <3>1. net.cin \in Nat /\ space \in Nat
      BY ConstantsAssumption DEF Network, Connection
    <3> QED BY <3>1, SmallerType
  <2> HIDE DEF take
  <2>4. c \in Connection /\ c.state = "ALIVE"
    BY <2>3, ReqType
  <2> HIDE DEF c
  <2>5. d \in Connection /\ d.state = "ALIVE"
    <3> DEFINE n == SetInterest(c, "client", "noop")
    <3>1. n \in Connection /\ n.state = "ALIVE"
      BY <2>4, SetInterestType, SetInterestEffect DEF Fds, Interests
    <3> HIDE DEF n
    <3>2. d = c \/ d = n
      BY DEF n
    <3> QED BY <2>4, <3>1, <3>2
  <2> HIDE DEF d
  <2>6. conn' # SetInterest(d, "origin", "write")
    BY <2>5, SetInterestEffect DEF Fds, Interests
  <2> QED BY <2>1, <2>2, <2>6
<1>2. CASE ClientWrite
  <2> DEFINE c == [conn EXCEPT !.resp = 0]
             d == SetInterest(c, "client", "read")
  <2>1. c \in Connection /\ c.state = "ALIVE"
    BY Zero DEF Connection
  <2> HIDE DEF c
  <2>2. d \in Connection /\ d.state = "ALIVE"
    BY <2>1, SetInterestType, SetInterestEffect DEF Fds, Interests
  <2>3. conn' = SetInterest(d, "origin", "read")
    BY <1>0, <1>2 DEF ClientWrite, c, d
  <2> HIDE DEF d
  <2> QED BY <2>2, <2>3, SetInterestEffect DEF Fds, Interests
<1>3. CASE OriginWrite
  <2> DEFINE c == [conn EXCEPT !.req = 0]
             d == SetInterest(c, "origin", "read")
  <2>1. c \in Connection /\ c.state = "ALIVE"
    BY Zero DEF Connection
  <2> HIDE DEF c
  <2>2. d \in Connection /\ d.state = "ALIVE"
    BY <2>1, SetInterestType, SetInterestEffect DEF Fds, Interests
  <2>3. conn' = SetInterest(d, "client", "read")
    BY <1>3 DEF OriginWrite, c, d
  <2> HIDE DEF d
  <2> QED BY <2>2, <2>3, SetInterestEffect DEF Fds, Interests
<1>4. CASE OriginRead
  <2> DEFINE limit == ReadLimit(conn)
             take == Smaller(net.oin, limit)
             paused == take = limit
             b == IF paused THEN SetInterest(conn, "origin", "noop") ELSE conn
             c == Received(b, take)
             sawEof == IF paused THEN FALSE ELSE net.oeof
  <2>1. take \in Nat /\ net.oin \in Nat
    <3>1. net.oin \in Nat /\ limit \in Nat
      BY ReadLimitType DEF Network
    <3> QED BY <3>1, SmallerType
  <2>2. net'.oin = net.oin - take
    BY <1>4 DEF OriginRead, Network
  <2>3. CASE take # 0
    BY <2>1, <2>2, <2>3
  <2>4. CASE take = 0
    <3>1. PICK p \in IF take = 0 THEN {c} ELSE ParseContent(c) :
            conn' = IF p.state # "FREED" /\ sawEof THEN OriginClosed(p) ELSE p
      BY <1>4 DEF OriginRead
    <3> HIDE DEF take
    <3>2. p = b
      BY <2>4, <3>1 DEF Received
    <3>3. b \in Connection /\ b.state = "ALIVE" /\ ~b.transformer
      <4> DEFINE n == SetInterest(conn, "origin", "noop")
      <4>1. n \in Connection /\ n.state = "ALIVE" /\ n.transformer = conn.transformer
        BY SetInterestType, SetInterestEffect DEF Fds, Interests
      <4> HIDE DEF n
      <4>2. b = conn \/ b = n
        BY DEF n
      <4> QED BY <1>0, <4>1, <4>2
    <3> HIDE DEF b, sawEof
    <3>4. conn' = b \/ conn' = OriginClosed(b)
      BY <3>1, <3>2
    <3> QED BY <3>3, <3>4, OriginClosedState
  <2> QED BY <2>3, <2>4
<1>5. CASE TransformationRead \/ TransformationWrite
  BY <1>0, <1>5 DEF TransformationRead, TransformationWrite, Lifecycle
<1>6. CASE Peers
  BY <1>6 DEF Peers, ClientSends, ClientCloses, OriginSends, OriginCloses,
              FilterCopies, FilterExits, Connection
<1> QED BY <1>1, <1>2, <1>3, <1>4, <1>5, <1>6 DEF Next, Handlers

\* Without a transformation, and if a request head leaves room in its buffer, a
\* connection that is alive is only killed for a reason: no buffer that is full,
\* and no recv that was never called, is taken for the end of the stream.
THEOREM KillsHaveReasons ==
    ASSUME Transforms = FALSE, HeadsFit PROVE Spec => KilledForAReason
<1>1. PlainInv /\ [Next]_vars =>
        [conn.state = "ALIVE" /\ conn'.state = "FREED"
           => net.ceof \/ conn.framing = "chunked" \/ net'.oin # net.oin]_vars
  BY KillHasReason DEF vars
<1> QED BY <1>1, InitPlain, NextPlain, PTL DEF Spec, KilledForAReason
=============================================================================
