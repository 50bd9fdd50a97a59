------------------------- MODULE RelayFilter_proofs -------------------------
(***************************************************************************)
(* The filter in a connection's life: its output is watched as long as the *)
(* connection waits for it, and a response gets one end chunk, whoever of  *)
(* the parser, the filter and the origin's close comes to write it.        *)
(***************************************************************************)
EXTENDS Relay_proofs

\* The invariant of the end chunk: while the connection is alive, an end chunk
\* is followed by nothing until the next response resets it, a response that
\* ends has a framing, and a filter has still to end its response; it exits
\* only after it was given all of it.
Once(c) ==
    /\ c.ended <= 1
    /\ c.state = "ALIVE" => /\ c.ended = 1 => c.finished
                            /\ c.finished => c.framing # "close"
    /\ c.state = "TRANSFORMER_MUST_CLOSE" => c.transformer
    /\ c.state \in {"ALIVE", "TRANSFORMER_MUST_CLOSE"} /\ c.transformer =>
          /\ c.ended = 0
          /\ c.interest["pipeIn"] = "none" => c.finished
          /\ c.outEof => c.interest["pipeIn"] = "none"

\* The invariant of the filter's output: it is paused only by a response buffer
\* that is full up to the reserve.  The client may lose its OP_WRITE to the
\* origin's write handler then, but nothing is received from the origin either,
\* not even its close.
Watched(c) ==
    /\ c.state = "TRANSFORMER_MUST_CLOSE" =>
          \/ c.interest["pipeOut"] = "read"
          \/ c.interest["pipeOut"] = "noop" /\ c.interest["client"] = "write"
    /\ c.state = "ALIVE" /\ c.transformer =>
          \/ c.interest["pipeOut"] = "read"
          \/ c.interest["pipeOut"] = "noop" /\ c.resp >= Cap - Reserve

Good(c) == Once(c) /\ Watched(c)

FilterInv == LifecycleInv /\ Good(conn)

-----------------------------------------------------------------------------
(* What the helpers do to the fields the two invariants are about. *)

Agree(c, d) ==
    /\ d.state = c.state /\ d.transformer = c.transformer /\ d.ended = c.ended
    /\ d.finished = c.finished /\ d.framing = c.framing /\ d.outEof = c.outEof

\* set_interest touches none of them.
LEMMA SetInterestAgrees ==
    ASSUME NEW c \in Connection, NEW fd \in Fds, NEW i \in Interests
    PROVE  Agree(c, SetInterest(c, fd, i))
BY DEF SetInterest, Connection, Agree

\* Neither does Unregister.
LEMMA UnregisterAgrees ==
    ASSUME NEW c \in Connection, NEW fd \in Fds
    PROVE  Agree(c, Unregister(c, fd))
BY DEF Unregister, Connection, Agree

\* The response buffer only grows by what is written to it.
LEMMA RespondGrows ==
    ASSUME NEW c \in Connection, NEW n \in Nat
    PROVE  LET d == Respond(c, n) IN
           /\ Agree(c, d)
           /\ d.resp >= c.resp /\ d.resp = Smaller(Cap, c.resp + n)
<1>1. Respond(c, n).resp = Smaller(Cap, c.resp + n)
  BY DEF Respond, Connection
<1>2. Smaller(Cap, c.resp + n) >= c.resp
  BY ConstantsAssumption DEF Smaller, Connection
<1>3. Agree(c, Respond(c, n))
  BY DEF Respond, Connection, Agree
<1> QED BY <1>1, <1>2, <1>3

\* EndBody counts one end chunk.
LEMMA EndBodyCounts ==
    ASSUME NEW c \in Connection
    PROVE  LET d == EndBody(c) IN
           /\ d.ended = c.ended + 1
           /\ d.state = c.state /\ d.transformer = c.transformer
           /\ d.finished = c.finished /\ d.framing = c.framing /\ d.outEof = c.outEof
           /\ d.resp >= c.resp
<1> DEFINE r == Respond(c, EndChunk)
           e == c.ended + 1
<1>1. r \in Connection /\ Agree(c, r) /\ r.resp >= c.resp
  BY RespondType, RespondGrows, ConstantsAssumption
<1> HIDE DEF r, e
<1> QED BY <1>1 DEF EndBody, r, e, Connection, Agree

\* kill_transformation ends no response.
LEMMA KillTransformationEnds ==
    ASSUME NEW c \in Connection
    PROVE  LET d == KillTransformation(c) IN
           d.ended = c.ended /\ d.finished = c.finished /\ d.framing = c.framing
<1> DEFINE w == Unregister(c, "pipeOut")
           u == Unregister(w, "pipeIn")
<1>1. w \in Connection /\ Agree(c, w)
  BY UnregisterType, UnregisterAgrees DEF Fds
<1> HIDE DEF w
<1>2. u \in Connection /\ Agree(w, u)
  BY <1>1, UnregisterType, UnregisterAgrees DEF Fds
<1> HIDE DEF u
<1>3. CASE c.transformer
  <2>1. KillTransformation(c) =
          [u EXCEPT !.transformer = FALSE, !.tmp = 0, !.inPipe = 0, !.outPipe = 0,
                    !.outEof = FALSE]
    BY <1>3 DEF KillTransformation, u, w
  <2> QED BY <2>1, <1>1, <1>2 DEF Connection, Agree
<1>4. CASE ~c.transformer
  BY <1>4 DEF KillTransformation
<1> QED BY <1>3, <1>4

\* Neither does kill_origin.
LEMMA KillOriginEnds ==
    ASSUME NEW c \in Connection
    PROVE  KillOrigin(c).ended = c.ended
<1> DEFINE t == KillTransformation(c)
           k == [t EXCEPT !.pbuf = 0]
<1>1. t \in Connection /\ t.ended = c.ended
  BY KillTransformationType, KillTransformationEnds
<1> HIDE DEF t
<1>2. k \in Connection /\ k.ended = t.ended
  BY <1>1, Zero DEF Connection
<1> HIDE DEF k
<1>3. KillOrigin(c) = IF c.state = "ALIVE" THEN Unregister(k, "origin") ELSE k
  BY DEF KillOrigin, k, t
<1>4. Unregister(k, "origin").ended = k.ended
  BY <1>2, UnregisterAgrees DEF Fds, Agree
<1> QED BY <1>1, <1>2, <1>3, <1>4

\* A killed connection is good if it had at most one end chunk.
LEMMA KillClientGood ==
    ASSUME NEW c \in Connection, Lifecycle(c), c.ended <= 1
    PROVE  Good(KillClient(c)) /\ KillClient(c).state = "FREED"
<1> DEFINE k == IF c.state = "CLOSED" THEN c ELSE KillOrigin(c)
           u == Unregister(k, "client")
<1>1. k \in Connection /\ k.ended = c.ended
  BY KillOriginType, KillOriginEnds
<1> HIDE DEF k
<1>2. u \in Connection /\ u.ended = k.ended
  BY <1>1, UnregisterType, UnregisterAgrees DEF Fds, Agree
<1> HIDE DEF u
<1>3. KillClient(c) = [u EXCEPT !.state = "FREED", !.req = 0, !.resp = 0]
  BY DEF KillClient, u, k
<1>4. KillClient(c).ended = c.ended
  BY <1>1, <1>2, <1>3 DEF Connection
<1> QED BY <1>4, KillClientReleases DEF Good, Once, Watched

-----------------------------------------------------------------------------
(* Changes that keep the two invariants. *)

\* The ends depend on the fields of Agree and on whether the filter's input is
\* registered.
LEMMA SameOnce ==
    ASSUME NEW c \in Connection, NEW d \in Connection, Once(c), Agree(c, d),
           d.interest["pipeIn"] = "none" <=> c.interest["pipeIn"] = "none"
    PROVE  Once(d)
BY DEF Once, Agree

\* Arming a descriptor registers none.
LEMMA SetInterestOnce ==
    ASSUME NEW c \in Connection, NEW fd \in Fds, NEW i \in Interests \ {"none"}, Once(c)
    PROVE  Once(SetInterest(c, fd, i))
<1> DEFINE d == SetInterest(c, fd, i)
<1>1. d \in Connection /\ Agree(c, d)
  BY SetInterestType, SetInterestAgrees
<1>2. \A g \in Fds : d.interest[g] = IF g = fd /\ c.interest[fd] # "none" THEN i
                                                                       ELSE c.interest[g]
  BY SetInterestEffect
<1> HIDE DEF d
<1>3. d.interest["pipeIn"] = "none" <=> c.interest["pipeIn"] = "none"
  BY <1>2 DEF Fds
<1> QED BY <1>1, <1>3, SameOnce DEF d

\* A longer response and the same interests of client and filter keep the watch.
LEMMA SameWatched ==
    ASSUME NEW c \in Connection, NEW d \in Connection, Watched(c),
           d.state = c.state, d.transformer = c.transformer, d.resp >= c.resp,
           d.interest["pipeOut"] = c.interest["pipeOut"],
           d.interest["client"] \in {c.interest["client"], "write"}
    PROVE  Watched(d)
BY ConstantsAssumption DEF Watched, Connection

\* So does arming any other descriptor, or the client to write.
LEMMA SetInterestWatched ==
    ASSUME NEW c \in Connection, NEW fd \in Fds, NEW i \in Interests \ {"none"}, Watched(c),
           fd \in {"origin", "pipeIn"} \/ (fd = "client" /\ i = "write")
    PROVE  Watched(SetInterest(c, fd, i))
<1> DEFINE d == SetInterest(c, fd, i)
<1>1. d \in Connection
  BY SetInterestType
<1>2. /\ d.state = c.state /\ d.transformer = c.transformer /\ d.resp = c.resp
      /\ \A g \in Fds : d.interest[g] = IF g = fd /\ c.interest[fd] # "none" THEN i
                                                                          ELSE c.interest[g]
  BY SetInterestEffect
<1> HIDE DEF d
<1>3. /\ d.interest["pipeOut"] = c.interest["pipeOut"]
      /\ d.interest["client"] \in {c.interest["client"], "write"}
  BY <1>2 DEF Fds
<1>4. d.resp >= c.resp
  BY <1>2, ConstantsAssumption DEF Connection
<1> QED BY <1>1, <1>2, <1>3, <1>4, SameWatched DEF d

-----------------------------------------------------------------------------
(* The parser.  It is called for a response that has not finished, and what   *)
(* it returns waits for the filter's output if it did before.                *)

Fresh(c) == ~c.finished /\ c.ended = 0
Open(c) == c.transformer => c.interest["pipeOut"] = "read"

GoodParsed(c, p) ==
    /\ Good(p)
    /\ \/ p.state = "FREED"
       \/ p.state = "ALIVE" /\ (Open(c) => Open(p))

\* Without a filter only the end chunk matters.
LEMMA UnfilteredGood ==
    ASSUME NEW c \in Connection, c.state = "ALIVE", ~c.transformer,
           c.ended <= 1, c.ended = 1 => c.finished, c.finished => c.framing # "close"
    PROVE  Good(c) /\ Open(c)
BY DEF Good, Once, Watched, Open

\* A body without a framing is never found to be complete.
LEMMA UnchunkedDone ==
    ASSUME NEW c \in Connection, NEW u \in Unchunked(c), u.done
    PROVE  c.framing # "close"
<1> SUFFICES ASSUME c.framing = "close" PROVE FALSE
  OBVIOUS
<1>1. u \in [payload: {c.pbuf}, rest: {0}, done: {FALSE}]
  BY DEF Unchunked
<1> QED BY <1>1

\* The parser ends a body of a response at most once.
LEMMA WriteBodyGood ==
    ASSUME NEW c \in Connection, NEW u \in Unchunked(c), Fresh(c),
           c.state = "ALIVE", ~c.transformer
    PROVE  LET p == WriteBody(c, u) IN Good(p) /\ p.state = "ALIVE" /\ Open(p)
<1> DEFINE r == Respond(c, Chunked(u.payload))
           f == c.finished \/ u.done
           b == [r EXCEPT !.pbuf = u.rest, !.finished = f]
           e == IF b.finished THEN EndBody(b) ELSE b
           p == SetInterest(e, "client", "write")
<1>1. u.payload \in Nat /\ u.rest \in 0 .. Cap /\ u.done \in BOOLEAN /\ f = u.done
  BY UnchunkedType, ConstantsAssumption DEF Connection, Fresh
<1>2. r \in Connection /\ Agree(c, r)
  BY <1>1, ChunkedType, RespondType, RespondGrows
<1> HIDE DEF r, f
<1>3. /\ b \in Connection /\ b.state = c.state /\ b.transformer = c.transformer
      /\ b.ended = c.ended /\ b.framing = c.framing /\ b.finished = u.done
  BY <1>1, <1>2 DEF Connection, Agree
<1> HIDE DEF b
<1>4. /\ e \in Connection /\ e.state = "ALIVE" /\ ~e.transformer
      /\ e.framing = c.framing /\ e.finished = u.done
      /\ e.ended = IF u.done THEN 1 ELSE 0
  <2>1. c.ended = 0
    BY DEF Fresh
  <2> QED BY <1>3, <2>1, EndBodyType, EndBodyCounts
<1> HIDE DEF e
<1>5. p \in Connection /\ Agree(e, p)
  BY <1>4, SetInterestType, SetInterestAgrees DEF Fds, Interests
<1> HIDE DEF p
<1>6. WriteBody(c, u) = p
  BY DEF WriteBody, p, e, b, r, f
<1>7. /\ p.state = "ALIVE" /\ ~p.transformer /\ p.framing = c.framing
      /\ p.finished = u.done /\ p.ended = IF u.done THEN 1 ELSE 0
  BY <1>4, <1>5 DEF Agree
<1>8. u.done => c.framing # "close"
  BY UnchunkedDone
<1> QED BY <1>1, <1>5, <1>6, <1>7, <1>8, UnfilteredGood

\* With a filter the parser only wakes its input.
LEMMA ParseBodyGood ==
    ASSUME NEW c \in Connection, Lifecycle(c), c.state = "ALIVE", Good(c), Fresh(c),
           NEW p \in ParseBody(c)
    PROVE  GoodParsed(c, p)
<1>1. CASE c.transformer
  <2>1. p = SetInterest(c, "pipeIn", "write")
    BY <1>1 DEF ParseBody
  <2>2. Good(p)
    BY <2>1, SetInterestOnce, SetInterestWatched DEF Good, Fds, Interests
  <2>3. p.state = "ALIVE" /\ p.interest["pipeOut"] = c.interest["pipeOut"]
        /\ p.transformer = c.transformer
    BY <2>1, SetInterestEffect DEF Fds, Interests
  <2> QED BY <2>2, <2>3 DEF GoodParsed, Open
<1>2. CASE ~c.transformer
  <2>1. p = SendError(c) \/ \E u \in Unchunked(c) : p = WriteBody(c, u)
    BY <1>2 DEF ParseBody
  <2>2. c.ended <= 1
    BY DEF Fresh
  <2> QED BY <1>2, <2>1, <2>2, WriteBodyGood, KillClientGood DEF SendError, GoodParsed
<1> QED BY <1>1, <1>2

\* The header parser ends nothing.
LEMMA ReadHeaderGood ==
    ASSUME NEW c \in Connection, c.state = "ALIVE", Good(c), Fresh(c),
           NEW h \in HeaderLines(c), NEW a \in Nat, NEW s \in ParserStates
    PROVE  LET p == ReadHeader(c, h, a, s) IN
           Good(p) /\ Fresh(p) /\ p.state = "ALIVE" /\ (Open(c) => Open(p))
<1> DEFINE r == Respond(c, h.sent + a)
           n == c.pbuf - h.taken
           f == h.framing
           d == [r EXCEPT !.pbuf = n, !.framing = f, !.parser = s]
           p == SetInterest(d, "client", "write")
<1>1. h.sent + a \in Nat /\ f \in Framings
  BY HeaderLinesType
<1>2. /\ r \in Connection /\ Agree(c, r) /\ r.interest = c.interest /\ r.resp >= c.resp
  BY <1>1, RespondType, RespondEffect, RespondGrows
<1>3. n \in 0 .. Cap
  <2>1. c.pbuf \in 0 .. Cap
    BY DEF Connection
  <2> QED BY <2>1, HeaderLinesType, ConstantsAssumption
<1> HIDE DEF r, n, f
<1>4. /\ d \in Connection /\ d.state = c.state /\ d.transformer = c.transformer
      /\ d.ended = c.ended /\ d.finished = c.finished /\ d.outEof = c.outEof
      /\ d.interest = c.interest /\ d.resp >= c.resp
  BY <1>1, <1>2, <1>3 DEF Connection, Agree
<1> HIDE DEF d
<1>5. Once(d) /\ Watched(d) /\ Fresh(d) /\ (Open(c) => Open(d))
  <2>1. Fresh(d) /\ (Open(c) => Open(d))
    BY <1>4 DEF Fresh, Open
  <2>2. Once(d)
    BY <1>4, <2>1 DEF Good, Once, Fresh
  <2>3. Watched(d)
    BY <1>4, SameWatched DEF Good
  <2> QED BY <2>1, <2>2, <2>3
<1>6. Once(p) /\ Watched(p)
  BY <1>4, <1>5, SetInterestOnce, SetInterestWatched DEF Fds, Interests
<1>7. Fresh(p) /\ p.state = "ALIVE" /\ (Open(d) => Open(p))
  <2>1. Agree(d, p)
    BY <1>4, SetInterestAgrees DEF Fds, Interests
  <2>2. p.interest["pipeOut"] = d.interest["pipeOut"]
    BY <1>4, SetInterestEffect DEF Fds, Interests
  <2> QED BY <1>4, <1>5, <2>1, <2>2 DEF Fresh, Open, Agree
<1>8. ReadHeader(c, h, a, s) = p
  BY DEF ReadHeader, p, d, r, n, f
<1> QED BY <1>5, <1>6, <1>7, <1>8 DEF Good

\* A filter that has just been started has its whole response before it.
LEMMA StartTransformationGood ==
    ASSUME NEW c \in Connection, c.state = "ALIVE", Fresh(c)
    PROVE  LET p == StartTransformation(c) IN
           Good(p) /\ Fresh(p) /\ p.state = "ALIVE" /\ Open(p)
<1> DEFINE p == StartTransformation(c)
<1>1. /\ p.state = "ALIVE" /\ p.transformer /\ p.ended = 0 /\ ~p.finished
      /\ ~p.outEof /\ p.interest["pipeOut"] = "read" /\ p.interest["pipeIn"] = "write"
  BY DEF StartTransformation, Connection, Fds, Fresh
<1> HIDE DEF p
<1>2. Good(p) /\ Fresh(p) /\ Open(p)
  BY <1>1 DEF Good, Once, Watched, Fresh, Open
<1> QED BY <1>1, <1>2 DEF p

\* So is everything parse_content may return.
LEMMA ParseContentGood ==
    ASSUME NEW c \in Connection, Lifecycle(c), c.state = "ALIVE", Good(c), Fresh(c),
           NEW p \in ParseContent(c)
    PROVE  GoodParsed(c, p)
<1>1. CASE c.parser = "READING_HEADER"
  <2>1. CASE p \in HeaderOpen(c)
    <3>1. PICK h \in HeaderLines(c) : p = ReadHeader(c, h, 0, "READING_HEADER")
      BY <2>1, HeaderOpenIsStep
    <3> QED BY <3>1, ReadHeaderGood DEF ParserStates, GoodParsed
  <2>2. ASSUME NEW h \in HeaderDone(c)
        PROVE  /\ h \in Connection /\ Lifecycle(h) /\ h.state = "ALIVE"
               /\ Good(h) /\ Fresh(h) /\ (Open(c) => Open(h))
    <3>1. PICK l \in HeaderLines(c), a \in Nat : h = ReadHeader(c, l, a, "READING_BODY")
      BY HeaderDoneIsStep
    <3>2. Parsed(c, h) /\ h.state = "ALIVE"
      BY <3>1, ReadHeaderParsed DEF ParserStates
    <3>3. Good(h) /\ Fresh(h) /\ (Open(c) => Open(h))
      BY <3>1, ReadHeaderGood DEF ParserStates
    <3> QED BY <3>2, <3>3 DEF Parsed
  <2>3. ASSUME NEW h \in HeaderDone(c), p \in ParseBody(h) PROVE GoodParsed(c, p)
    <3>1. GoodParsed(h, p)
      BY <2>2, <2>3, ParseBodyGood
    <3> QED BY <2>2, <3>1 DEF GoodParsed
  <2>4. ASSUME NEW h \in HeaderDone(c), p \in ParseBody(StartTransformation(h))
        PROVE  GoodParsed(c, p)
    <3> DEFINE s == StartTransformation(h)
    <3>1. Parsed(h, s) /\ s.state = "ALIVE"
      BY <2>2, StartTransformationParsed
    <3>2. Good(s) /\ Fresh(s) /\ Open(s)
      BY <2>2, StartTransformationGood
    <3> HIDE DEF s
    <3>3. GoodParsed(s, p)
      BY <2>4, <3>1, <3>2, ParseBodyGood DEF Parsed, s
    <3> QED BY <3>2, <3>3 DEF GoodParsed
  <2>5. p \in ParseHeader(c)
    BY <1>1 DEF ParseContent
  <2> QED BY <2>1, <2>3, <2>4, <2>5 DEF ParseHeader
<1>2. CASE c.parser = "READING_BODY"
  BY <1>2, ParseBodyGood DEF ParseContent
<1>3. CASE c.parser = "SSL_CONNECTION"
  <2> DEFINE q == Respond(c, c.pbuf)
             r == [q EXCEPT !.pbuf = 0]
  <2>0. c.pbuf \in Nat
    BY ConstantsAssumption DEF Connection
  <2>1. q \in Connection /\ Agree(c, q) /\ q.interest = c.interest /\ q.resp >= c.resp
    BY <2>0, RespondType, RespondEffect, RespondGrows
  <2> HIDE DEF q
  <2>2. r \in Connection /\ Agree(c, r) /\ r.interest = c.interest /\ r.resp >= c.resp
    BY <2>1, Zero DEF Connection, Agree
  <2> HIDE DEF r
  <2>3. Once(r) /\ Watched(r) /\ (Open(c) => Open(r))
    <3>1. Once(r)
      BY <2>2, SameOnce DEF Good
    <3>2. r.state = c.state /\ r.transformer = c.transformer
      BY <2>2 DEF Agree
    <3>3. Watched(r)
      BY <2>2, <3>2, SameWatched DEF Good
    <3> QED BY <2>2, <3>1, <3>2, <3>3 DEF Open
  <2>4. p = SetInterest(r, "client", "write")
    BY <1>3 DEF ParseContent, r, q
  <2>5. Good(p)
    BY <2>2, <2>3, <2>4, SetInterestOnce, SetInterestWatched DEF Fds, Interests, Good
  <2>6. /\ p.state = c.state /\ p.transformer = r.transformer
        /\ p.interest["pipeOut"] = r.interest["pipeOut"]
    BY <2>2, <2>4, SetInterestEffect DEF Fds, Interests, Agree
  <2> QED BY <2>3, <2>5, <2>6 DEF GoodParsed, Open
<1> QED BY <1>1, <1>2, <1>3 DEF Connection, ParserStates

-----------------------------------------------------------------------------
(* The handlers of the origin socket. *)

\* Bytes that arrive belong to a response that has not finished: either the one
\* being read or the one they start.
LEMMA ReceivedGood ==
    ASSUME NEW c \in Connection, Lifecycle(c), c.state = "ALIVE", Good(c),
           NEW n \in Nat \ {0}, n <= ReadLimit(c)
    PROVE  LET d == Received(c, n) IN Good(d) /\ Fresh(d) /\ (Open(c) => Open(d))
<1> DEFINE r == IF c.finished THEN ResetOriginData(c) ELSE c
           m == r.pbuf + n
           d == [r EXCEPT !.pbuf = m]
<1>1. r \in Connection /\ r.state = "ALIVE"
  BY ResetOriginDataLifecycle
<1>2. Good(r) /\ Fresh(r) /\ (Open(c) => Open(r))
  <2>1. CASE c.finished
    <3> DEFINE k == KillTransformation(c)
               p == FirstParserState(c.ssl)
               l == c.lost \/ c.transformer \/ c.pbuf > 0
               q == [k EXCEPT !.lost = l, !.pbuf = 0, !.framing = "close", !.finished = FALSE,
                              !.parser = p, !.ended = 0]
    <3>1. k \in Connection /\ k.transformer = FALSE
      BY KillTransformationType, KillTransformationEffect
    <3>2. r = q
      BY <2>1 DEF ResetOriginData
    <3> HIDE DEF k, p, l
    <3>3. ~q.transformer /\ ~q.finished /\ q.ended = 0
      BY <3>1 DEF Connection
    <3> HIDE DEF q, r
    <3> QED BY <1>1, <3>2, <3>3, UnfilteredGood DEF Fresh
  <2>2. CASE ~c.finished
    <3>1. r = c
      BY <2>2
    <3>2. c.ended = 0
      BY <2>2 DEF Good, Once, Connection
    <3> QED BY <2>2, <3>1, <3>2 DEF Fresh
  <2> QED BY <2>1, <2>2
<1>3. Received(c, n) = d
  BY DEF Received
<1>4. d \in Connection
  BY <1>3, ReceivedLifecycle
<1> HIDE DEF r, m
<1>5. Agree(r, d) /\ d.interest = r.interest /\ d.resp = r.resp
  BY <1>1 DEF Connection, Agree
<1> HIDE DEF d
<1>6. Once(d)
  BY <1>1, <1>2, <1>4, <1>5, SameOnce DEF Good
<1>7. Watched(d) /\ Fresh(d) /\ (Open(r) => Open(d))
  BY <1>2, <1>5 DEF Agree, Good, Watched, Fresh, Open
<1> QED BY <1>2, <1>3, <1>6, <1>7 DEF Good

\* The end of the origin's stream ends the response if nobody else will: the
\* response has no framing and so has not finished, or the filter still runs.
LEMMA OriginClosedGood ==
    ASSUME NEW c \in Connection, c.state = "ALIVE", Good(c), Open(c)
    PROVE  Good(OriginClosed(c))
<1>1. CASE c.transformer
  <2> DEFINE d == SetInterest(c, "pipeIn", "write")
             e == [d EXCEPT !.finished = TRUE, !.state = "TRANSFORMER_MUST_CLOSE"]
             u == Unregister(e, "origin")
  <2>1. /\ d \in Connection /\ Agree(c, d) /\ Once(d)
        /\ d.interest["pipeOut"] = c.interest["pipeOut"]
    <3>1. d \in Connection /\ Agree(c, d)
      BY SetInterestType, SetInterestAgrees DEF Fds, Interests
    <3>2. Once(d)
      BY SetInterestOnce DEF Fds, Interests, Good
    <3>3. d.interest["pipeOut"] = c.interest["pipeOut"]
      BY SetInterestEffect DEF Fds, Interests
    <3> QED BY <3>1, <3>2, <3>3
  <2> HIDE DEF d
  <2>2. /\ e \in Connection /\ e.state = "TRANSFORMER_MUST_CLOSE" /\ e.finished
        /\ e.transformer /\ e.ended = d.ended /\ e.outEof = d.outEof
        /\ e.interest = d.interest
    BY <1>1, <2>1 DEF Connection, ConnectionStates, Agree
  <2> HIDE DEF e
  <2>3. /\ u \in Connection /\ Agree(e, u)
        /\ u.interest["pipeOut"] = e.interest["pipeOut"]
        /\ u.interest["pipeIn"] = e.interest["pipeIn"]
    BY <2>2, UnregisterType, UnregisterEffect, UnregisterAgrees DEF Fds
  <2> HIDE DEF u
  <2>4. /\ u.state = "TRANSFORMER_MUST_CLOSE" /\ u.transformer /\ u.finished
        /\ u.ended = d.ended /\ u.outEof = d.outEof
        /\ u.interest["pipeIn"] = d.interest["pipeIn"]
        /\ u.interest["pipeOut"] = "read"
    BY <1>1, <2>1, <2>2, <2>3 DEF Agree, Open
  <2>5. d.ended = 0 /\ (d.outEof => d.interest["pipeIn"] = "none")
    BY <1>1, <2>1 DEF Once, Agree
  <2>6. OriginClosed(c) = u
    BY <1>1 DEF OriginClosed, u, e, d
  <2> QED BY <2>4, <2>5, <2>6 DEF Good, Once, Watched
<1>2. CASE ~c.transformer
  <2> DEFINE e == IF c.framing = "close" THEN EndBody(c) ELSE c
             x == [e EXCEPT !.state = "CLOSED"]
             k == KillOrigin(x)
             d == SetInterest(k, "client", "write")
             u == Unregister(d, "origin")
  <2>1. e \in Connection /\ e.ended <= 1
    <3>1. CASE c.framing = "close"
      <4>1. c.ended = 0
        BY <3>1 DEF Good, Once, Connection
      <4> QED BY <3>1, <4>1, EndBodyType, EndBodyCounts
    <3>2. CASE c.framing # "close"
      BY <3>2 DEF Good, Once
    <3> QED BY <3>1, <3>2
  <2> HIDE DEF e
  <2>2. x \in Connection /\ x.state = "CLOSED" /\ x.ended = e.ended
    BY <2>1 DEF Connection, ConnectionStates
  <2> HIDE DEF x
  <2>3. k \in Connection /\ k.state = "CLOSED" /\ k.ended = e.ended
    BY <2>2, KillOriginType, KillOriginEffect, KillOriginEnds
  <2> HIDE DEF k
  <2>4. d \in Connection /\ d.state = "CLOSED" /\ d.ended = e.ended
    BY <2>3, SetInterestType, SetInterestAgrees DEF Fds, Interests, Agree
  <2> HIDE DEF d
  <2>5. u.state = "CLOSED" /\ u.ended = e.ended
    BY <2>4, UnregisterAgrees DEF Fds, Agree
  <2> HIDE DEF u
  <2>6. OriginClosed(c) = u
    BY <1>2 DEF OriginClosed, u, d, k, x, e
  <2> QED BY <2>1, <2>5, <2>6 DEF Good, Once, Watched
<1> QED BY <1>1, <1>2

\* proxy_origin_active_socket_read keeps FilterInv.  The close of the origin is
\* only seen by a loop that had room left, so the filter's output was not paused.
LEMMA OriginReadGood ==
    ASSUME FilterInv, OriginRead PROVE Good(conn')
<1> DEFINE limit == ReadLimit(conn)
           take == Smaller(net.oin, limit)
           paused == take = limit
           b == IF paused THEN SetInterest(conn, "origin", "noop") ELSE conn
           c == Received(b, take)
           sawEof == IF paused THEN FALSE ELSE net.oeof
<1> USE DEF FilterInv, LifecycleInv, TypeOK
<1>1. take \in Nat /\ take <= limit /\ limit \in Nat
  <2>1. net.oin \in Nat
    BY DEF Network
  <2>2. limit \in Nat
    BY ReadLimitType
  <2> QED BY <2>1, <2>2, SmallerType
<1>2. conn.state = "ALIVE"
  BY DEF OriginRead, Lifecycle, Fds, Connection, ConnectionStates
<1>3. sawEof => Open(conn)
  <2> SUFFICES ASSUME limit # 0 PROVE Open(conn)
    BY <1>1
  <2>1. AvailableParserBytes(conn) # 0
    BY DEF ReadLimit
  <2>2. /\ conn.resp \in 0 .. Cap /\ conn.pbuf \in 0 .. Cap
        /\ Cap \in Nat /\ Reserve \in 1 .. Cap - 1
    BY ConstantsAssumption DEF Connection
  <2>3. conn.resp < Cap - Reserve
    BY <2>1, <2>2 DEF AvailableParserBytes, Smaller
  <2>4. ~(conn.resp >= Cap - Reserve)
    BY <2>2, <2>3
  <2> QED BY <1>2, <2>4 DEF Good, Watched, Open
<1>4. /\ b \in Connection /\ Lifecycle(b) /\ b.state = "ALIVE" /\ Good(b)
      /\ Open(conn) => Open(b)
  <2> DEFINE d == SetInterest(conn, "origin", "noop")
  <2>1. d \in Connection /\ Lifecycle(d)
    BY <1>2, SetInterestType, SetInterestLifecycle DEF Fds, Interests
  <2>2. Once(d) /\ Watched(d)
    BY SetInterestOnce, SetInterestWatched DEF Fds, Interests, Good
  <2>3. /\ d.state = "ALIVE" /\ d.transformer = conn.transformer
        /\ d.interest["pipeOut"] = conn.interest["pipeOut"]
    BY <1>2, SetInterestEffect DEF Fds, Interests
  <2> HIDE DEF d
  <2> QED BY <1>2, <2>1, <2>2, <2>3 DEF d, Good, Open
<1>5. ReadLimit(b) = limit
  BY DEF ReadLimit, AvailableParserBytes, SetInterest, Connection
<1>6. PICK p \in IF take = 0 THEN {c} ELSE ParseContent(c) :
        conn' = IF p.state # "FREED" /\ sawEof THEN OriginClosed(p) ELSE p
  BY DEF OriginRead, take, b, c
<1> HIDE DEF b, take, sawEof
<1>7. c \in Connection /\ Lifecycle(c) /\ c.state = "ALIVE"
  BY <1>1, <1>4, <1>5, ReceivedLifecycle
<1>8. p \in Connection /\ GoodParsed(b, p)
  <2>1. CASE take = 0
    <3>1. p = b
      BY <1>6, <2>1 DEF Received
    <3> QED BY <1>4, <3>1 DEF GoodParsed
  <2>2. CASE take # 0
    <3>1. Good(c) /\ Fresh(c) /\ (Open(b) => Open(c))
      BY <1>1, <1>4, <1>5, <2>2, ReceivedGood
    <3>2. p \in ParseContent(c)
      BY <1>6, <2>2
    <3> HIDE DEF c
    <3>3. GoodParsed(c, p) /\ Parsed(c, p)
      BY <1>7, <3>1, <3>2, ParseContentGood, ParseContentParsed
    <3> QED BY <3>1, <3>3 DEF GoodParsed, Parsed
  <2> QED BY <2>1, <2>2
<1>9. CASE conn' = p
  BY <1>8, <1>9 DEF GoodParsed
<1>10. CASE p.state # "FREED" /\ sawEof /\ conn' = OriginClosed(p)
  <2>1. p.state = "ALIVE" /\ Good(p) /\ Open(p)
    BY <1>3, <1>4, <1>8, <1>10 DEF GoodParsed
  <2> QED BY <1>8, <1>10, <2>1, OriginClosedGood
<1> QED BY <1>6, <1>9, <1>10

\* proxy_origin_active_socket_write keeps FilterInv: it may take the OP_WRITE of
\* the client away, but only while the origin is alive.
LEMMA OriginWriteGood ==
    ASSUME FilterInv, OriginWrite PROVE Good(conn')
<1> DEFINE c == [conn EXCEPT !.req = 0]
           d == SetInterest(c, "origin", "read")
           e == SetInterest(d, "client", "read")
<1> USE DEF FilterInv, LifecycleInv, TypeOK
<1>1. conn.state = "ALIVE"
  BY DEF OriginWrite, Lifecycle, Fds, Connection, ConnectionStates
<1>2. c \in Connection /\ Agree(conn, c) /\ c.interest = conn.interest /\ c.resp = conn.resp
  BY Zero DEF Connection, Agree
<1> HIDE DEF c
<1>3. Once(c)
  BY <1>2, SameOnce DEF Good
<1>4. d \in Connection /\ Once(d) /\ Agree(c, d) /\ d.resp = c.resp
      /\ d.interest["pipeOut"] = c.interest["pipeOut"]
  <2>1. d \in Connection /\ Agree(c, d) /\ Once(d)
    BY <1>2, <1>3, SetInterestType, SetInterestAgrees, SetInterestOnce DEF Fds, Interests
  <2>2. d.resp = c.resp /\ d.interest["pipeOut"] = c.interest["pipeOut"]
    BY <1>2, SetInterestEffect DEF Fds, Interests
  <2> QED BY <2>1, <2>2
<1> HIDE DEF d
<1>5. Once(e) /\ Agree(d, e) /\ e.resp = d.resp
      /\ e.interest["pipeOut"] = d.interest["pipeOut"]
  <2>1. Agree(d, e) /\ Once(e)
    BY <1>4, SetInterestAgrees, SetInterestOnce DEF Fds, Interests
  <2>2. e.resp = d.resp /\ e.interest["pipeOut"] = d.interest["pipeOut"]
    BY <1>4, SetInterestEffect DEF Fds, Interests
  <2> QED BY <2>1, <2>2
<1>6. conn' = e
  BY DEF OriginWrite, e, d, c
<1> HIDE DEF e
<1>7. Watched(e)
  BY <1>1, <1>2, <1>4, <1>5 DEF Good, Watched, Agree
<1> QED BY <1>5, <1>6, <1>7 DEF Good

-----------------------------------------------------------------------------
(* The handlers of the filter's pipes. *)

\* A number that holds q times a divisor has a quotient of at least q.
LEMMA QuotientAtLeast ==
    ASSUME NEW n \in Nat, NEW q \in Nat, NEW d \in Nat \ {0}, n >= d * q
    PROVE  n \div d >= q
<1> DEFINE z == n \div d
<1>1. z \in Nat /\ n < d * (z + 1)
  BY SMTT(30)
<1> HIDE DEF z
<1>2. SUFFICES ASSUME z + 1 <= q PROVE FALSE
  BY <1>1 DEF z
<1>3. d * (z + 1) <= d * q
  BY <1>1, <1>2, SMTT(30)
<1> QED BY <1>1, <1>3, SMTT(30)

\* A product grows with its factor.
LEMMA ProductGrows ==
    ASSUME NEW d \in Nat, NEW a \in Nat, NEW b \in Nat, a <= b
    PROVE  d * a \in Nat /\ d * b \in Nat /\ d * a <= d * b
BY SMTT(30)

\* A read of the pipe that stops at its limit fills the response buffer up to the
\* reserve: the chunked encoding of what it took is as long as what was available.
LEMMA LimitFills ==
    ASSUME NEW c \in Connection
    PROVE  Smaller(Cap, c.resp + Chunked(PipeLimit(c))) >= Cap - Reserve
<1> DEFINE s == AvailableWriteBytes(c)
           unit == ReadSize + ChunkOverhead
           q == s \div unit
           r == s % unit
           m == Smaller(ReadSize, r)
           a == ReadSize * q
           b == ChunkOverhead * q
           take == a + m
           k == (take + ReadSize - 1) \div ReadSize
<1>1. /\ Cap \in Nat /\ Reserve \in 1 .. Cap - 1 /\ c.resp \in 0 .. Cap
      /\ ReadSize \in Nat \ {0} /\ ChunkOverhead \in Nat
      /\ unit \in Nat \ {0}
  BY ConstantsAssumption DEF Connection
<1>2. s \in Nat /\ c.resp + s >= Cap - Reserve
  BY <1>1 DEF AvailableWriteBytes
<1>3. PipeLimit(c) = take
  BY DEF PipeLimit
<1>4. Chunked(take) = take + ChunkOverhead * k
  BY DEF Chunked
<1> HIDE DEF s
<1>5. q \in Nat /\ r \in 0 .. unit - 1 /\ s = unit * q + r
  <2> HIDE DEF unit
  <2> QED BY <1>1, <1>2, SMTT(30)
<1> HIDE DEF q, r
<1>6. unit * q = a + b /\ a \in Nat /\ b \in Nat
  BY <1>1, <1>5, SMTT(30)
<1>7. m \in Nat /\ m <= ReadSize /\ m <= r /\ (m = r \/ m = ReadSize)
  BY <1>1, <1>5 DEF Smaller
<1> HIDE DEF m
<1>8. take \in Nat /\ take + ReadSize - 1 \in Nat
  BY <1>1, <1>6, <1>7
<1>9. a + b + r <= take + ChunkOverhead * k
  <2>1. CASE r = 0
    <3>1. k >= q
      <4>1. take + ReadSize - 1 >= ReadSize * q
        BY <1>1, <1>6, <1>7
      <4> HIDE DEF take
      <4> QED BY <1>1, <1>5, <1>8, <4>1, QuotientAtLeast
    <3>2. k \in Nat
      <4> HIDE DEF take
      <4> QED BY <1>1, <1>8
    <3> HIDE DEF k
    <3>3. ChunkOverhead * k >= b /\ ChunkOverhead * k \in Nat
      BY <1>1, <1>5, <3>1, <3>2, ProductGrows
    <3> HIDE DEF a, b
    <3> DEFINE x == ChunkOverhead * k
    <3> HIDE DEF x
    <3> QED BY <1>6, <1>7, <2>1, <3>3 DEF x
  <2>2. CASE r > 0
    <3>1. k >= q + 1
      <4>1. m >= 1
        BY <1>1, <1>7, <2>2
      <4>2. ReadSize * (q + 1) = a + ReadSize
        BY <1>1, <1>5, SMTT(30)
      <4>3. take + ReadSize - 1 >= ReadSize * (q + 1)
        <5> HIDE DEF a
        <5> QED BY <1>1, <1>6, <1>7, <4>1, <4>2
      <4>4. q + 1 \in Nat
        BY <1>5
      <4> HIDE DEF take
      <4> QED BY <1>1, <1>8, <4>3, <4>4, QuotientAtLeast
    <3>2. k \in Nat
      <4> HIDE DEF take
      <4> QED BY <1>1, <1>8
    <3> HIDE DEF k
    <3>3. ChunkOverhead * (q + 1) = b + ChunkOverhead
      BY <1>1, <1>5, SMTT(30)
    <3>4. ChunkOverhead * k >= ChunkOverhead * (q + 1) /\ ChunkOverhead * k \in Nat
      <4>1. q + 1 \in Nat /\ ChunkOverhead \in Nat
        BY <1>1, <1>5
      <4> QED BY <3>1, <3>2, <4>1, ProductGrows
    <3> HIDE DEF a, b
    <3> DEFINE x == ChunkOverhead * k
    <3>5. x >= b + ChunkOverhead /\ x \in Nat
      BY <3>3, <3>4
    <3> HIDE DEF x
    <3>6. take + x >= a + b + r
      BY <1>1, <1>5, <1>6, <1>7, <3>5
    <3> QED BY <3>6 DEF x
  <2> QED BY <1>5, <2>1, <2>2
<1>10. take + ChunkOverhead * k >= s
  BY <1>5, <1>6, <1>9
<1>11. Chunked(take) \in Nat
  BY <1>8, ChunkedType
<1> HIDE DEF take
<1>12. c.resp + Chunked(take) >= Cap - Reserve
  BY <1>1, <1>2, <1>4, <1>10, <1>11
<1> QED BY <1>1, <1>3, <1>11, <1>12 DEF Smaller

\* The end of the filter's output ends the response, once: the filter was given
\* all of it, and neither the parser nor the origin's close has ended it.
LEMMA FilterClosedGood ==
    ASSUME NEW c \in Connection, Lifecycle(c), Good(c), c.transformer, c.outEof,
           c.state \in {"ALIVE", "TRANSFORMER_MUST_CLOSE"}
    PROVE  LET f == FilterClosed(c) IN f \in Connection /\ Good(f)
<1> DEFINE b == EndBody(c)
           e == Unregister(b, "pipeOut")
<1>1. c.finished /\ c.ended = 0
  BY DEF Good, Once
<1>2. /\ b \in Connection /\ b.ended = 1 /\ b.finished /\ b.state = c.state
      /\ b.framing = c.framing
  BY <1>1, EndBodyType, EndBodyCounts
<1> HIDE DEF b
<1>3. /\ e \in Connection /\ e.ended = 1 /\ e.finished /\ e.state = c.state
      /\ e.framing = c.framing
  BY <1>2, UnregisterType, UnregisterAgrees DEF Fds, Agree
<1> HIDE DEF e
<1>4. CASE c.state = "TRANSFORMER_MUST_CLOSE"
  <2> DEFINE k == KillOrigin(e)
             x == [k EXCEPT !.state = "CLOSED"]
  <2>1. k \in Connection /\ k.ended = 1
    BY <1>3, KillOriginType, KillOriginEnds
  <2> HIDE DEF k
  <2>2. x \in Connection /\ x.state = "CLOSED" /\ x.ended = 1
    BY <2>1 DEF Connection, ConnectionStates
  <2> HIDE DEF x
  <2>3. FilterClosed(c) = x
    BY <1>4 DEF FilterClosed, x, k, e, b
  <2> QED BY <2>2, <2>3 DEF Good, Once, Watched
<1>5. CASE c.state = "ALIVE"
  <2> DEFINE k == KillTransformation(e)
  <2>1. /\ k \in Connection /\ k.state = "ALIVE" /\ ~k.transformer
        /\ k.ended = 1 /\ k.finished /\ k.framing = c.framing
    BY <1>3, <1>5, KillTransformationType, KillTransformationEffect,
       KillTransformationEnds
  <2> HIDE DEF k
  <2>2. c.framing # "close"
    BY <1>1, <1>5 DEF Good, Once
  <2>3. FilterClosed(c) = k
    BY <1>5 DEF FilterClosed, k, e, b
  <2> QED BY <2>1, <2>2, <2>3, UnfilteredGood
<1> QED BY <1>4, <1>5

\* proxy_transformation_read keeps FilterInv: it pauses the filter's output when
\* it has filled the response buffer, and arms the client to drain it.
LEMMA TransformationReadGood ==
    ASSUME FilterInv, TransformationRead PROVE Good(conn')
<1> DEFINE limit == PipeLimit(conn)
           take == Smaller(conn.outPipe, limit)
           paused == take = limit
           w == Respond(conn, Chunked(take))
           left == conn.outPipe - take
           c == [w EXCEPT !.outPipe = left]
           r == IF paused THEN SetInterest(c, "pipeOut", "noop")
                ELSE IF conn.outEof THEN FilterClosed(c) ELSE c
<1> USE DEF FilterInv, LifecycleInv, TypeOK
<1>1. take \in Nat /\ left \in 0 .. PipeCap
  <2>1. conn.outPipe \in 0 .. PipeCap /\ PipeCap \in Nat
    BY ConstantsAssumption DEF Connection
  <2>2. limit \in Nat /\ conn.outPipe \in Nat
    BY <2>1, PipeLimitType
  <2>3. take \in Nat /\ take <= conn.outPipe
    BY <2>2, SmallerType
  <2> QED BY <2>1, <2>3
<1>2. /\ conn.state \in {"ALIVE", "TRANSFORMER_MUST_CLOSE"}
      /\ conn.transformer /\ conn.interest["pipeOut"] = "read"
      /\ conn.interest["client"] # "none"
  BY DEF TransformationRead, Lifecycle, Fds, Connection, ConnectionStates
<1>3. paused => Smaller(Cap, conn.resp + Chunked(take)) >= Cap - Reserve
  BY LimitFills
<1> HIDE DEF take, left
<1>4. /\ w \in Connection /\ Agree(conn, w) /\ w.interest = conn.interest
      /\ w.resp >= conn.resp /\ (paused => w.resp >= Cap - Reserve)
  BY <1>1, <1>3, ChunkedType, RespondType, RespondEffect, RespondGrows
<1> HIDE DEF w
<1>5. /\ c \in Connection /\ Agree(conn, c) /\ c.interest = conn.interest
      /\ c.resp >= conn.resp /\ (paused => c.resp >= Cap - Reserve)
  BY <1>1, <1>4 DEF Connection, Agree
<1>6. conn' = SetInterest(r, "client", "write")
  BY DEF TransformationRead, r, c, w, left, take
<1> HIDE DEF c
<1>7. Once(c)
  BY <1>5, SameOnce DEF Good
<1>8. c.state = conn.state /\ c.transformer /\ c.outEof = conn.outEof
  BY <1>2, <1>5 DEF Agree
<1>9. Watched(c)
  BY <1>2, <1>5, <1>8 DEF Watched
<1>10. Lifecycle(c)
  BY <1>2, <1>5, <1>8, SameLifecycle
<1>11. CASE paused
  <2> DEFINE d == SetInterest(c, "pipeOut", "noop")
             e == SetInterest(d, "client", "write")
  <2>1. d \in Connection /\ Once(d)
    BY <1>5, <1>7, SetInterestType, SetInterestOnce DEF Fds, Interests
  <2>2. /\ d.state = c.state /\ d.resp = c.resp
        /\ d.interest["pipeOut"] = "noop" /\ d.interest["client"] # "none"
    BY <1>2, <1>5, SetInterestEffect DEF Fds, Interests
  <2> HIDE DEF d
  <2>3. Once(e)
    BY <2>1, SetInterestOnce DEF Fds, Interests
  <2>4. /\ e.state = c.state /\ e.resp = c.resp
        /\ e.interest["pipeOut"] = "noop" /\ e.interest["client"] = "write"
    BY <2>1, <2>2, SetInterestEffect DEF Fds, Interests
  <2> HIDE DEF e
  <2>5. Watched(e)
    BY <1>5, <1>11, <2>4 DEF Watched
  <2>6. conn' = e
    BY <1>6, <1>11 DEF e, d
  <2> QED BY <2>3, <2>5, <2>6 DEF Good
<1>12. CASE ~paused /\ conn.outEof
  <2> DEFINE f == FilterClosed(c)
  <2>1. f \in Connection /\ Good(f)
    BY <1>2, <1>5, <1>7, <1>8, <1>9, <1>10, <1>12, FilterClosedGood DEF Good
  <2>2. conn' = SetInterest(f, "client", "write")
    BY <1>6, <1>12
  <2> HIDE DEF f
  <2> QED BY <2>1, <2>2, SetInterestOnce, SetInterestWatched DEF Good, Fds, Interests
<1>13. CASE ~paused /\ ~conn.outEof
  <2>1. conn' = SetInterest(c, "client", "write")
    BY <1>6, <1>13
  <2> QED BY <1>5, <1>7, <1>9, <2>1, SetInterestOnce, SetInterestWatched
          DEF Good, Fds, Interests
<1> QED BY <1>11, <1>12, <1>13

\* The end of proxy_transformation_write keeps both: the filter's input is only
\* closed for a response that has finished.
LEMMA TransformationWrittenGood ==
    ASSUME NEW c \in Connection, Good(c), NEW pipeFull \in BOOLEAN
    PROVE  Good(TransformationWritten(c, pipeFull))
<1> DEFINE l == c.lost \/ c.tmp > 0
           o == [Unregister(c, "pipeIn") EXCEPT !.lost = l]
           f == IF c.finished THEN o ELSE c
           n == IF pipeFull THEN f ELSE SetInterest(f, "pipeIn", "noop")
<1>1. f \in Connection /\ Good(f)
  <2>1. CASE c.finished
    <3> DEFINE u == Unregister(c, "pipeIn")
    <3>1. /\ u \in Connection /\ Agree(c, u) /\ u.resp = c.resp
          /\ \A g \in Fds : u.interest[g] = IF g = "pipeIn" THEN "none" ELSE c.interest[g]
      BY UnregisterType, UnregisterAgrees, UnregisterEffect DEF Fds
    <3>2. /\ u.interest["pipeOut"] = c.interest["pipeOut"]
          /\ u.interest["client"] = c.interest["client"]
          /\ u.interest["pipeIn"] = "none"
      BY <3>1 DEF Fds
    <3>3. l \in BOOLEAN
      BY DEF Connection
    <3> HIDE DEF u, l
    <3>4. /\ o \in Connection /\ Agree(u, o) /\ o.resp = u.resp
          /\ o.interest = u.interest
      BY <3>1, <3>3 DEF Connection, Agree, u
    <3>5. f = o
      BY <2>1
    <3> HIDE DEF o, f
    <3>6. Once(o)
      BY <2>1, <3>1, <3>2, <3>4 DEF Good, Once, Agree
    <3>7. Watched(o)
      BY <3>1, <3>2, <3>4 DEF Good, Watched, Agree
    <3> QED BY <3>4, <3>5, <3>6, <3>7 DEF Good
  <2>2. CASE ~c.finished
    BY <2>2
  <2> QED BY <2>1, <2>2
<1> HIDE DEF f
<1>2. n \in Connection /\ Good(n)
  BY <1>1, SetInterestType, SetInterestOnce, SetInterestWatched
  DEF Fds, Interests, Good
<1> HIDE DEF n
<1>3. TransformationWritten(c, pipeFull) = SetInterest(n, "origin", "read")
  BY DEF TransformationWritten, n, f, o, l
<1> QED BY <1>2, <1>3, SetInterestOnce, SetInterestWatched DEF Fds, Interests, Good

\* What goes to the filter may finish the response, if it has a framing.
LEMMA PipeBodyGood ==
    ASSUME NEW c \in Connection, NEW d \in Connection, NEW u \in Unchunked(c),
           d = PipeBody(c, u), Good(c), c.transformer
    PROVE  Good(d)
<1> DEFINE room  == PipeCap - c.inPipe
           units == ReadSize * (room \div ReadSize + 1)
           taken == Smaller(u.payload, units)
           m == c.inPipe + u.payload
           t == taken - room
           b == IF taken = u.payload THEN u.rest ELSE c.pbuf - taken
           f1 == c.finished \/ u.done
           f2 == c.finished \/ (u.done /\ (taken = u.payload \/ c.framing = "length"))
           d1 == [c EXCEPT !.inPipe = m, !.pbuf = u.rest, !.finished = f1]
           d2 == [c EXCEPT !.inPipe = PipeCap, !.tmp = t, !.pbuf = b, !.finished = f2]
<1>1. d = d1 \/ d = d2
  BY DEF PipeBody
<1> HIDE DEF m, t, b, taken
<1>2. /\ d.state = c.state /\ d.transformer = c.transformer /\ d.ended = c.ended
      /\ d.framing = c.framing /\ d.outEof = c.outEof
      /\ d.interest = c.interest /\ d.resp = c.resp
  BY <1>1 DEF Connection
<1>3. (c.finished => d.finished) /\ (d.finished => c.finished \/ u.done)
  <2>1. d.finished = f1 \/ d.finished = f2
    <3> HIDE DEF f1, f2
    <3> QED BY <1>1 DEF Connection
  <2> QED BY <2>1
<1> HIDE DEF d1, d2
<1>4. u.done => c.framing # "close"
  BY UnchunkedDone
<1>5. Once(d)
  BY <1>2, <1>3, <1>4 DEF Good, Once
<1>6. Watched(d)
  BY <1>2 DEF Good, Watched
<1> QED BY <1>5, <1>6 DEF Good

\* proxy_transformation_write keeps FilterInv.
LEMMA TransformationWriteGood ==
    ASSUME FilterInv, TransformationWrite PROVE Good(conn')
<1> DEFINE sent == Smaller(conn.tmp, PipeCap - conn.inPipe)
           t == conn.tmp - sent
           m == conn.inPipe + sent
           c == [conn EXCEPT !.tmp = t, !.inPipe = m]
<1> USE DEF FilterInv, LifecycleInv, TypeOK
<1>1. t \in 0 .. Cap /\ m \in 0 .. PipeCap
  <2>1. /\ conn.tmp \in 0 .. Cap /\ conn.inPipe \in 0 .. PipeCap
        /\ Cap \in Nat /\ PipeCap \in Nat
    BY ConstantsAssumption DEF Connection
  <2>2. conn.tmp \in Nat /\ PipeCap - conn.inPipe \in Nat
    BY <2>1
  <2>3. sent \in Nat /\ sent <= conn.tmp /\ sent <= PipeCap - conn.inPipe
    BY <2>2, SmallerType
  <2> QED BY <2>1, <2>3
<1>2. /\ conn.state \in {"ALIVE", "TRANSFORMER_MUST_CLOSE"}
      /\ conn.transformer
  BY DEF TransformationWrite, Lifecycle, Fds, Connection, ConnectionStates
<1>3. \/ conn' = TransformationWritten(c, TRUE)
      \/ /\ c.tmp = 0
         /\ \E u \in Unchunked(c) :
               conn' = TransformationWritten(PipeBody(c, u),
                                             u.payload > PipeCap - c.inPipe)
      \/ conn' = SendError(c)
  BY DEF TransformationWrite, c, t, m
<1> HIDE DEF t, m
<1>4. /\ c \in Connection /\ Agree(conn, c) /\ c.interest = conn.interest
      /\ c.resp = conn.resp
  BY <1>1 DEF Connection, Agree
<1> HIDE DEF c
<1>5. c.state = conn.state /\ c.transformer
  BY <1>2, <1>4 DEF Agree
<1>6. Lifecycle(c)
  BY <1>2, <1>4, <1>5, SameLifecycle
<1>7. Good(c)
  <2>1. Once(c)
    BY <1>4, SameOnce DEF Good
  <2>2. Watched(c)
    BY <1>2, <1>4, <1>5 DEF Good, Watched
  <2> QED BY <2>1, <2>2 DEF Good
<1>8. CASE conn' = TransformationWritten(c, TRUE)
  BY <1>4, <1>7, <1>8, TransformationWrittenGood
<1>9. ASSUME c.tmp = 0, NEW u \in Unchunked(c),
             conn' = TransformationWritten(PipeBody(c, u), u.payload > PipeCap - c.inPipe)
      PROVE  Good(conn')
  <2> DEFINE d == PipeBody(c, u)
  <2>1. d \in Connection
    BY <1>4, <1>6, <1>9, PipeBodyLifecycle
  <2>2. Good(d)
    BY <1>4, <1>5, <1>7, <2>1, PipeBodyGood
  <2>3. (u.payload > PipeCap - c.inPipe) \in BOOLEAN
    OBVIOUS
  <2> HIDE DEF d
  <2> QED BY <1>9, <2>1, <2>2, <2>3, TransformationWrittenGood DEF d
<1>10. CASE conn' = SendError(c)
  <2>1. c.ended <= 1
    BY <1>7 DEF Good, Once
  <2> QED BY <1>4, <1>6, <1>10, <2>1, KillClientGood DEF SendError
<1> QED BY <1>3, <1>8, <1>9, <1>10

-----------------------------------------------------------------------------
(* The handlers of the client socket, the peers, and the two theorems. *)

\* Pausing a client that is not armed to write takes nothing from the filter.
LEMMA PausingClientGood ==
    ASSUME NEW c \in Connection, Good(c), c.interest["client"] # "write"
    PROVE  LET d == SetInterest(c, "client", "noop") IN Good(d)
<1> DEFINE d == SetInterest(c, "client", "noop")
<1>1. d \in Connection /\ Once(d)
  BY SetInterestType, SetInterestOnce DEF Good, Fds, Interests
<1>2. /\ d.state = c.state /\ d.transformer = c.transformer /\ d.resp = c.resp
      /\ d.interest["pipeOut"] = c.interest["pipeOut"]
  BY SetInterestEffect DEF Fds, Interests
<1> HIDE DEF d
<1>3. Watched(d)
  BY <1>2 DEF Good, Watched
<1> QED BY <1>1, <1>3 DEF Good, d

\* proxy_client_active_socket_read keeps FilterInv: it runs for a client that is
\* armed to read, so nobody waits for its OP_WRITE.
LEMMA ClientReadGood ==
    ASSUME FilterInv, ClientRead PROVE Good(conn')
<1> DEFINE space == Cap - conn.req
           take == Smaller(net.cin, space)
           filled == take = space
           c == [conn EXCEPT !.req = conn.req + take]
           d == IF filled THEN SetInterest(c, "client", "noop") ELSE c
<1> USE DEF FilterInv, LifecycleInv, TypeOK
<1>1. take \in Nat /\ take <= space
  <2>1. net.cin \in Nat /\ space \in Nat
    BY ConstantsAssumption DEF Network, Connection
  <2> QED BY <2>1, SmallerType
<1>2. conn.state # "CLOSED" /\ conn.interest["client"] = "read"
  BY DEF ClientRead, Lifecycle
<1> HIDE DEF take
<1>3. /\ c \in Connection /\ c.state = conn.state /\ c.interest = conn.interest
      /\ Lifecycle(c)
  BY <1>1, ReqType, SameLifecycle
<1>4. Good(c)
  <2>1. Agree(conn, c) /\ c.resp = conn.resp
    BY DEF Connection, Agree
  <2> HIDE DEF c
  <2>2. Once(c)
    BY <1>3, <2>1, SameOnce DEF Good
  <2>3. Watched(c)
    BY <1>3, <2>1 DEF Good, Watched, Agree
  <2> QED BY <2>2, <2>3 DEF Good
<1> HIDE DEF c
<1>5. d \in Connection /\ Lifecycle(d) /\ Good(d)
  BY <1>2, <1>3, <1>4, SetInterestType, SetInterestLifecycle, PausingClientGood
  DEF Fds, Interests
<1> HIDE DEF d
<1>6. conn' = SetInterest(d, "origin", "write") \/ conn' = KillClient(d)
  BY DEF ClientRead, d, c, take
<1>7. CASE conn' = SetInterest(d, "origin", "write")
  BY <1>5, <1>7, SetInterestOnce, SetInterestWatched DEF Good, Fds, Interests
<1>8. CASE conn' = KillClient(d)
  <2>1. d.ended <= 1
    BY <1>5 DEF Good, Once
  <2> QED BY <1>5, <1>8, <2>1, KillClientGood
<1> QED BY <1>6, <1>7, <1>8

\* proxy_client_active_socket_write keeps FilterInv: it resumes the filter's output.
LEMMA ClientWriteGood ==
    ASSUME FilterInv, ClientWrite PROVE Good(conn')
<1> DEFINE c == [conn EXCEPT !.resp = 0]
           next == IF conn.transformer THEN "pipeOut" ELSE "origin"
           d == SetInterest(c, "client", "read")
           e == SetInterest(d, next, "read")
<1> USE DEF FilterInv, LifecycleInv, TypeOK
<1>1. /\ c \in Connection /\ c.interest = conn.interest /\ Agree(conn, c)
  BY Zero DEF Connection, Agree
<1> HIDE DEF c
<1>2. c.state = conn.state /\ c.transformer = conn.transformer /\ Once(c)
  BY <1>1, SameOnce DEF Agree, Good
<1>3. Lifecycle(c)
  BY <1>1, <1>2, SameLifecycle
<1>4. CASE conn.state = "CLOSED"
  <2>1. conn' = KillClient(c)
    BY <1>4 DEF ClientWrite, c
  <2>2. c.ended <= 1
    BY <1>2 DEF Once
  <2> QED BY <1>1, <1>3, <2>1, <2>2, KillClientGood
<1>5. CASE conn.state # "CLOSED"
  <2>1. /\ d \in Connection /\ Once(d) /\ d.state = conn.state
        /\ d.transformer = conn.transformer
        /\ d.interest["pipeOut"] = conn.interest["pipeOut"]
    <3>1. d \in Connection /\ Once(d)
      BY <1>1, <1>2, SetInterestType, SetInterestOnce DEF Fds, Interests
    <3>2. /\ d.state = c.state /\ d.transformer = c.transformer
          /\ d.interest["pipeOut"] = c.interest["pipeOut"]
      BY <1>1, SetInterestEffect DEF Fds, Interests
    <3> HIDE DEF d
    <3> QED BY <1>1, <1>2, <3>1, <3>2
  <2>2. conn' = e /\ next \in Fds
    BY <1>5 DEF ClientWrite, e, d, c, Fds
  <2> HIDE DEF d
  <2>3. /\ Once(e) /\ e.state = conn.state /\ e.transformer = conn.transformer
        /\ \A g \in Fds : e.interest[g] =
              IF g = next /\ d.interest[next] # "none" THEN "read" ELSE d.interest[g]
    <3>1. Once(e)
      BY <2>1, <2>2, SetInterestOnce DEF Interests
    <3>2. /\ e.state = d.state /\ e.transformer = d.transformer
          /\ \A g \in Fds : e.interest[g] =
                IF g = next /\ d.interest[next] # "none" THEN "read" ELSE d.interest[g]
      BY <2>1, <2>2, SetInterestEffect DEF Interests
    <3> HIDE DEF e
    <3> QED BY <2>1, <3>1, <3>2
  <2> HIDE DEF e
  <2>4. CASE conn.transformer /\ conn.state \in {"ALIVE", "TRANSFORMER_MUST_CLOSE"}
    <3>1. conn.interest["pipeOut"] # "none"
      BY <2>4 DEF Good, Watched
    <3>2. e.interest["pipeOut"] = "read"
      BY <2>1, <2>3, <2>4, <3>1 DEF Fds
    <3> QED BY <2>2, <2>3, <3>2 DEF Good, Watched
  <2>5. CASE ~(conn.transformer /\ conn.state \in {"ALIVE", "TRANSFORMER_MUST_CLOSE"})
    <3>1. e.state # "TRANSFORMER_MUST_CLOSE" /\ ~(e.state = "ALIVE" /\ e.transformer)
      BY <2>3, <2>5 DEF Good, Once
    <3> QED BY <2>2, <2>3, <3>1 DEF Good, Watched
  <2> QED BY <2>4, <2>5
<1> QED BY <1>4, <1>5

\* The peers and the filter process keep FilterInv: the filter exits when its
\* input has been closed.
LEMMA PeersGood ==
    ASSUME FilterInv, Peers PROVE Good(conn')
<1> USE DEF FilterInv, LifecycleInv, TypeOK
<1>1. CASE UNCHANGED conn
  BY <1>1
<1>2. CASE FilterCopies
  <2>1. PICK n \in 1 .. Smaller(conn.inPipe, PipeCap - conn.outPipe) :
          conn' = [conn EXCEPT !.inPipe = conn.inPipe - n,
                               !.outPipe = conn.outPipe + n]
    BY <1>2 DEF FilterCopies
  <2>2. Agree(conn, conn') /\ conn'.interest = conn.interest /\ conn'.resp = conn.resp
    BY <2>1 DEF Connection, Agree
  <2> QED BY <2>2 DEF Good, Once, Watched, Agree
<1>3. CASE FilterExits
  <2>1. /\ conn.interest["pipeIn"] = "none"
        /\ conn' = [conn EXCEPT !.outEof = TRUE]
    BY <1>3 DEF FilterExits
  <2>2. /\ conn'.state = conn.state /\ conn'.transformer = conn.transformer
        /\ conn'.ended = conn.ended /\ conn'.finished = conn.finished
        /\ conn'.framing = conn.framing
        /\ conn'.interest = conn.interest /\ conn'.resp = conn.resp
    BY <2>1 DEF Connection
  <2> QED BY <2>1, <2>2 DEF Good, Once, Watched
<1> QED
  BY <1>1, <1>2, <1>3
  DEF Peers, ClientSends, ClientCloses, OriginSends, OriginCloses

\* FilterInv holds of the connection the block handler leaves.
LEMMA InitFilter == Init => FilterInv
<1> SUFFICES ASSUME Init PROVE FilterInv
  OBVIOUS
<1>1. LifecycleInv
  BY InitLifecycle
<1>2. /\ conn.state = "ALIVE" /\ ~conn.transformer /\ conn.ended = 0 /\ ~conn.finished
  BY DEF Init
<1> QED BY <1>1, <1>2, UnfilteredGood DEF FilterInv, LifecycleInv, TypeOK

\* Every step keeps it.
LEMMA NextFilter ==
    ASSUME FilterInv, [Next]_vars PROVE FilterInv'
<1>1. LifecycleInv'
  BY NextLifecycle DEF FilterInv
<1>2. Good(conn')
  <2>1. CASE Next
    BY <2>1, ClientReadGood, ClientWriteGood, OriginReadGood, OriginWriteGood,
       TransformationReadGood, TransformationWriteGood, PeersGood DEF Next, Handlers
  <2>2. CASE UNCHANGED vars
    BY <2>2 DEF vars, FilterInv
  <2> QED BY <2>1, <2>2
<1> QED BY <1>1, <1>2 DEF FilterInv

\* FilterInv in every reachable state.
LEMMA FilterAlways == Spec => []FilterInv
BY InitFilter, NextFilter, PTL DEF Spec

\* A response gets at most one end chunk, with or without a filter, whatever the
\* sizes and whoever closes first: write_chunked(data, "", 0) is called by the
\* parser, by the origin's close and by the filter's end, and each of the three
\* is kept from following another.
THEOREM OneEndChunkEver == Spec => []OneEndChunk
<1>1. FilterInv => OneEndChunk
  BY DEF FilterInv, Good, Once, OneEndChunk
<1> QED BY <1>1, FilterAlways, PTL

\* A connection whose origin has closed and whose filter has still to end watches
\* the filter's output, or drains the buffer that keeps it from being read.
THEOREM MustCloseAlwaysWatched == Spec => []MustCloseIsWatched
<1>1. FilterInv => MustCloseIsWatched
  BY DEF FilterInv, LifecycleInv, Lifecycle, Good, Once, Watched, MustCloseIsWatched
<1> QED BY <1>1, FilterAlways, PTL

-----------------------------------------------------------------------------
(* Where response bytes are lost.  The sizes: what one read of the origin or  *)
(* of the filter brings fits, encoded and ended, if the reserve suffices.     *)

\* A number below q + 1 times a divisor has a quotient of at most q.
LEMMA QuotientAtMost ==
    ASSUME NEW n \in Nat, NEW q \in Nat, NEW d \in Nat \ {0}, n < d * (q + 1)
    PROVE  n \div d \in Nat /\ n \div d <= q
<1> DEFINE z == n \div d
<1>1. z \in Nat /\ n >= d * z
  BY SMTT(30)
<1> HIDE DEF z
<1>2. SUFFICES ASSUME q + 1 <= z PROVE FALSE
  BY <1>1 DEF z
<1>3. q + 1 \in Nat /\ d \in Nat
  OBVIOUS
<1>4. d * (q + 1) <= d * z /\ d * (q + 1) \in Nat /\ d * z \in Nat
  BY <1>1, <1>2, <1>3, ProductGrows
<1> DEFINE x == d * (q + 1)
           y == d * z
<1> HIDE DEF x, y
<1>5. n >= y /\ n < x /\ x <= y /\ x \in Nat /\ y \in Nat
  BY <1>1, <1>4 DEF x, y
<1> QED BY <1>5

\* A quotient grows with its number.
LEMMA QuotientGrows ==
    ASSUME NEW n \in Nat, NEW m \in Nat, NEW d \in Nat \ {0}, n <= m
    PROVE  n \div d \in Nat /\ m \div d \in Nat /\ n \div d <= m \div d
<1> DEFINE z == n \div d
<1>1. z \in Nat /\ n >= d * z
  BY SMTT(30)
<1>2. m \div d \in Nat
  BY SMTT(30)
<1> HIDE DEF z
<1>3. d * z \in Nat
  BY <1>1, ProductGrows
<1> DEFINE y == d * z
<1> HIDE DEF y
<1>4. m >= y
  BY <1>1, <1>3 DEF y
<1>5. m \div d >= z
  BY <1>1, <1>4, QuotientAtLeast DEF y
<1> QED BY <1>1, <1>2, <1>5 DEF z

\* More bytes take at least as much room, encoded; no bytes take none.
LEMMA ChunkedGrows ==
    ASSUME NEW a \in Nat, NEW b \in Nat, a <= b
    PROVE  /\ Chunked(a) \in Nat /\ Chunked(b) \in Nat
           /\ Chunked(a) <= Chunked(b) /\ a <= Chunked(a)
<1> DEFINE x == a + ReadSize - 1
           y == b + ReadSize - 1
           j == x \div ReadSize
           k == y \div ReadSize
           v == ChunkOverhead * j
           w == ChunkOverhead * k
<1>1. ReadSize \in Nat \ {0} /\ ChunkOverhead \in Nat
  BY ConstantsAssumption
<1>2. x \in Nat /\ y \in Nat /\ x <= y
  BY <1>1
<1> HIDE DEF x, y
<1>3. j \in Nat /\ k \in Nat /\ j <= k
  BY <1>1, <1>2, QuotientGrows
<1> HIDE DEF j, k
<1>4. v \in Nat /\ w \in Nat /\ v <= w
  BY <1>1, <1>3, ProductGrows
<1>5. Chunked(a) = a + v /\ Chunked(b) = b + w
  BY DEF Chunked, v, w, j, k, x, y
<1> HIDE DEF v, w
<1> QED BY <1>4, <1>5

\* Nothing to write is no chunk.
LEMMA ChunkedNothing == Chunked(0) = 0
<1> DEFINE x == 0 + ReadSize - 1
           k == x \div ReadSize
<1>1. ReadSize \in Nat \ {0} /\ ChunkOverhead \in Nat
  BY ConstantsAssumption
<1>2. x \in Nat /\ x < ReadSize * (0 + 1)
  BY <1>1
<1> HIDE DEF x
<1>3. k \in Nat /\ k <= 0
  BY <1>1, <1>2, QuotientAtMost
<1>4. Chunked(0) = 0 + ChunkOverhead * k
  BY DEF Chunked, k, x
<1> HIDE DEF k
<1>5. k = 0
  BY <1>3
<1> QED BY <1>1, <1>4, <1>5

\* What the receive loop can bring in one call fits the empty response buffer,
\* encoded and with its end; and a reserve that suffices for that holds the
\* encoding of one chunk and the end.
LEMMA ReadFits ==
    ASSUME ReserveSuffices
    PROVE  /\ \A n \in Nat : n <= Cap - Reserve => Chunked(n) + EndChunk <= Cap
           /\ EndChunk + ChunkOverhead <= Reserve
<1> DEFINE m == Cap - Reserve
           y == m + ReadSize - 1
           k == y \div ReadSize
           w == ChunkOverhead * k
<1>1. /\ Cap \in Nat /\ Reserve \in 1 .. Cap - 1 /\ EndChunk \in Nat
      /\ ReadSize \in Nat \ {0} /\ ChunkOverhead \in Nat
  BY ConstantsAssumption
<1>2. m \in Nat /\ y \in Nat /\ y >= ReadSize * 1
  BY <1>1
<1>3. Chunked(m) = m + w
  BY DEF Chunked, w, k, y
<1>4. EndChunk + w <= Reserve
  BY DEF ReserveSuffices
<1> HIDE DEF y
<1>5. k \in Nat /\ k >= 1
  <2>1. y \div ReadSize >= 1
    BY <1>1, <1>2, QuotientAtLeast
  <2>2. y \div ReadSize \in Nat
    BY <1>1, <1>2, QuotientGrows
  <2> QED BY <2>1, <2>2
<1> HIDE DEF k
<1>6. w \in Nat /\ ChunkOverhead * 1 <= w
  BY <1>1, <1>5, ProductGrows
<1> HIDE DEF w
<1>7. EndChunk + ChunkOverhead <= Reserve
  BY <1>1, <1>4, <1>6
<1>8. ASSUME NEW n \in Nat, n <= m PROVE Chunked(n) + EndChunk <= Cap
  <2>1. Chunked(n) \in Nat /\ Chunked(n) <= m + w
    BY <1>2, <1>3, <1>8, ChunkedGrows
  <2> QED BY <1>1, <1>4, <1>6, <2>1
<1> QED BY <1>7, <1>8

\* A read of the pipe writes at most one chunk's encoding more than was available.
LEMMA LimitFits ==
    ASSUME NEW c \in Connection
    PROVE  Chunked(PipeLimit(c)) <= AvailableWriteBytes(c) + ChunkOverhead
<1> DEFINE s == AvailableWriteBytes(c)
           unit == ReadSize + ChunkOverhead
           q == s \div unit
           r == s % unit
           m == Smaller(ReadSize, r)
           a == ReadSize * q
           b == ChunkOverhead * q
           take == a + m
           y == take + ReadSize - 1
           k == y \div ReadSize
           w == ChunkOverhead * k
<1>1. ReadSize \in Nat \ {0} /\ ChunkOverhead \in Nat /\ unit \in Nat \ {0}
  BY ConstantsAssumption
<1>2. s \in Nat
  BY ConstantsAssumption DEF AvailableWriteBytes, Connection
<1>3. PipeLimit(c) = take /\ Chunked(take) = take + w
  BY DEF PipeLimit, Chunked
<1> HIDE DEF s
<1>4. q \in Nat /\ r \in 0 .. unit - 1 /\ s = unit * q + r
  <2> HIDE DEF unit
  <2> QED BY <1>1, <1>2, SMTT(30)
<1> HIDE DEF q, r
<1>5. unit * q = a + b /\ a \in Nat /\ b \in Nat
  BY <1>1, <1>4, SMTT(30)
<1>6. m \in Nat /\ m <= ReadSize /\ m <= r
  BY <1>1, <1>4 DEF Smaller
<1> HIDE DEF m
<1>7. /\ ReadSize * (q + 1) = a + ReadSize
      /\ ReadSize * ((q + 1) + 1) = a + ReadSize + ReadSize
      /\ ChunkOverhead * (q + 1) = b + ChunkOverhead
      /\ q + 1 \in Nat
  BY <1>1, <1>4, SMTT(30)
<1> HIDE DEF a
<1>8. y \in Nat
  BY <1>1, <1>5, <1>6
<1>9. w \in Nat /\ w <= b + ChunkOverhead
  <2>1. y < ReadSize * ((q + 1) + 1)
    BY <1>1, <1>5, <1>6, <1>7
  <2> HIDE DEF y
  <2>2. k \in Nat /\ k <= q + 1
    BY <1>1, <1>7, <1>8, <2>1, QuotientAtMost
  <2> HIDE DEF k
  <2> QED BY <1>1, <1>7, <2>2, ProductGrows
<1> HIDE DEF w, b
<1> QED BY <1>1, <1>3, <1>4, <1>5, <1>6, <1>9 DEF s

\* What is taken of the filter's output fits, and leaves room for the end if the
\* limit was not reached.
LEMMA PipeReadFits ==
    ASSUME ReserveSuffices, NEW c \in Connection, NEW n \in Nat, n <= PipeLimit(c)
    PROVE  /\ c.resp + Chunked(n) <= Cap
           /\ n # PipeLimit(c) => c.resp + Chunked(n) + EndChunk <= Cap
<1> DEFINE s == AvailableWriteBytes(c)
           l == PipeLimit(c)
<1>1. /\ Cap \in Nat /\ Reserve \in 1 .. Cap - 1 /\ c.resp \in 0 .. Cap
      /\ ReadSize \in Nat \ {0} /\ ChunkOverhead \in Nat /\ EndChunk \in Nat
  BY ConstantsAssumption DEF Connection
<1>2. EndChunk + ChunkOverhead <= Reserve
  BY ReadFits
<1>3. /\ l \in Nat /\ Chunked(n) \in Nat /\ Chunked(l) \in Nat
      /\ Chunked(n) <= Chunked(l) /\ Chunked(l) <= s + ChunkOverhead
  BY PipeLimitType, LimitFits, ChunkedGrows
<1>4. CASE s = 0
  <2> DEFINE unit == ReadSize + ChunkOverhead
  <2>1. unit \in Nat \ {0}
    BY <1>1
  <2>2. l = ReadSize * (0 \div unit) + Smaller(ReadSize, 0 % unit)
    BY <1>4 DEF PipeLimit
  <2> HIDE DEF unit
  <2>3. 0 \div unit = 0 /\ 0 % unit = 0
    BY <2>1, SMTT(30)
  <2>4. l = 0
    <3> HIDE DEF l
    <3> QED BY <1>1, <2>2, <2>3 DEF Smaller
  <2>5. n = 0 /\ n = l
    BY <2>4
  <2>6. Chunked(n) = 0
    BY <2>5, ChunkedNothing
  <2> QED BY <1>1, <2>5, <2>6
<1>5. CASE s # 0
  <2>1. s \in Nat /\ c.resp + s = Cap - Reserve
    BY <1>1, <1>5 DEF AvailableWriteBytes
  <2> DEFINE x == Chunked(n)
             y == Chunked(l)
  <2>2. x \in Nat /\ y \in Nat /\ x <= y /\ y <= s + ChunkOverhead
    BY <1>3
  <2> HIDE DEF s, l, x, y
  <2>3. c.resp + x + EndChunk <= Cap
    BY <1>1, <1>2, <2>1, <2>2
  <2>4. c.resp + x <= Cap
    BY <1>1, <2>2, <2>3
  <2> QED BY <2>3, <2>4 DEF x
<1> QED BY <1>4, <1>5

-----------------------------------------------------------------------------
(* The steps.  Respond loses bytes when they do not fit, the first bytes of    *)
(* the next response and the closing of the filter's input what is left of    *)
(* the last one.                                                              *)

\* d loses nothing that c has not lost.
Keeps(c, d) == d.lost => c.lost

\* set_interest writes nothing.
LEMMA SetInterestKeeps ==
    ASSUME NEW c \in Connection, NEW fd \in Fds, NEW i \in Interests
    PROVE  Keeps(c, SetInterest(c, fd, i))
BY DEF SetInterest, Connection, Keeps

\* Neither does Unregister ...
LEMMA UnregisterKeeps ==
    ASSUME NEW c \in Connection, NEW fd \in Fds
    PROVE  Keeps(c, Unregister(c, fd))
BY DEF Unregister, Connection, Keeps

\* What fits is appended to the response buffer.
LEMMA RespondKeeps ==
    ASSUME NEW c \in Connection, NEW n \in Nat, c.resp + n <= Cap
    PROVE  LET d == Respond(c, n) IN Keeps(c, d) /\ d.resp = c.resp + n
<1> DEFINE m == Smaller(Cap, c.resp + n)
           l == c.lost \/ c.resp + n > Cap
           d == [c EXCEPT !.resp = m, !.lost = l]
<1>1. Cap \in Nat /\ c.resp \in 0 .. Cap
  BY ConstantsAssumption DEF Connection
<1>2. m = c.resp + n /\ (l => c.lost)
  BY <1>1 DEF Smaller
<1> HIDE DEF m, l
<1>3. d.resp = m /\ d.lost = l
  BY DEF Connection
<1> HIDE DEF d
<1>4. Respond(c, n) = d
  BY DEF Respond, d, m, l
<1> QED BY <1>2, <1>3, <1>4 DEF Keeps

\* So is an end chunk that fits.
LEMMA EndBodyKeeps ==
    ASSUME NEW c \in Connection, c.resp + EndChunk <= Cap
    PROVE  Keeps(c, EndBody(c))
<1> DEFINE r == Respond(c, EndChunk)
           e == c.ended + 1
<1>1. r \in Connection /\ Keeps(c, r)
  BY RespondType, RespondKeeps, ConstantsAssumption
<1> HIDE DEF r, e
<1> QED BY <1>1 DEF EndBody, r, e, Connection, Keeps

\* ... nor kill_transformation, ...
LEMMA KillTransformationKeeps ==
    ASSUME NEW c \in Connection
    PROVE  Keeps(c, KillTransformation(c))
<1> DEFINE w == Unregister(c, "pipeOut")
           u == Unregister(w, "pipeIn")
<1>1. w \in Connection /\ Keeps(c, w)
  BY UnregisterType, UnregisterKeeps DEF Fds
<1> HIDE DEF w
<1>2. u \in Connection /\ Keeps(w, u)
  BY <1>1, UnregisterType, UnregisterKeeps DEF Fds
<1> HIDE DEF u
<1>3. CASE c.transformer
  <2> DEFINE d == [u EXCEPT !.transformer = FALSE, !.tmp = 0, !.inPipe = 0,
                            !.outPipe = 0, !.outEof = FALSE]
  <2>1. KillTransformation(c) = d
    BY <1>3 DEF KillTransformation, u, w
  <2>2. d.lost = u.lost
    BY <1>2 DEF Connection
  <2> HIDE DEF d
  <2> QED BY <2>1, <2>2, <1>1, <1>2 DEF Keeps
<1>4. CASE ~c.transformer
  BY <1>4 DEF KillTransformation, Keeps
<1> QED BY <1>3, <1>4

\* ... kill_origin ...
LEMMA KillOriginKeeps ==
    ASSUME NEW c \in Connection
    PROVE  Keeps(c, KillOrigin(c))
<1> DEFINE t == KillTransformation(c)
           k == [t EXCEPT !.pbuf = 0]
<1>1. t \in Connection /\ Keeps(c, t)
  BY KillTransformationType, KillTransformationKeeps
<1> HIDE DEF t
<1>2. k \in Connection /\ k.lost = t.lost
  BY <1>1, Zero DEF Connection
<1> HIDE DEF k
<1>3. KillOrigin(c) = IF c.state = "ALIVE" THEN Unregister(k, "origin") ELSE k
  BY DEF KillOrigin, k, t
<1>4. Keeps(k, Unregister(k, "origin"))
  BY <1>2, UnregisterKeeps DEF Fds
<1> QED BY <1>1, <1>2, <1>3, <1>4 DEF Keeps

\* ... and kill_client.
LEMMA KillClientKeeps ==
    ASSUME NEW c \in Connection
    PROVE  Keeps(c, KillClient(c))
<1> DEFINE k == IF c.state = "CLOSED" THEN c ELSE KillOrigin(c)
           u == Unregister(k, "client")
<1>1. k \in Connection /\ Keeps(c, k)
  BY KillOriginType, KillOriginKeeps DEF Keeps
<1> HIDE DEF k
<1>2. u \in Connection /\ Keeps(k, u)
  BY <1>1, UnregisterType, UnregisterKeeps DEF Fds
<1> HIDE DEF u
<1>3. KillClient(c) = [u EXCEPT !.state = "FREED", !.req = 0, !.resp = 0]
  BY DEF KillClient, u, k
<1>4. KillClient(c).lost = u.lost
  BY <1>2, <1>3 DEF Connection
<1> QED BY <1>1, <1>2, <1>4 DEF Keeps

\* The end of the origin's stream ends a response without a framing; the end
\* chunk has to fit.
LEMMA OriginClosedKeeps ==
    ASSUME NEW c \in Connection,
           ~c.transformer /\ c.framing = "close" => c.resp + EndChunk <= Cap
    PROVE  Keeps(c, OriginClosed(c))
<1>1. CASE c.transformer
  <2> DEFINE d == SetInterest(c, "pipeIn", "write")
             e == [d EXCEPT !.finished = TRUE, !.state = "TRANSFORMER_MUST_CLOSE"]
             u == Unregister(e, "origin")
  <2>1. d \in Connection /\ Keeps(c, d)
    BY SetInterestType, SetInterestKeeps DEF Fds, Interests
  <2> HIDE DEF d
  <2>2. e \in Connection /\ e.lost = d.lost
    BY <2>1 DEF Connection, ConnectionStates
  <2> HIDE DEF e
  <2>3. Keeps(e, u)
    BY <2>2, UnregisterKeeps DEF Fds
  <2>4. OriginClosed(c) = u
    BY <1>1 DEF OriginClosed, u, e, d
  <2> HIDE DEF u
  <2> QED BY <2>1, <2>2, <2>3, <2>4 DEF Keeps
<1>2. CASE ~c.transformer
  <2> DEFINE e == IF c.framing = "close" THEN EndBody(c) ELSE c
             x == [e EXCEPT !.state = "CLOSED"]
             k == KillOrigin(x)
             d == SetInterest(k, "client", "write")
             u == Unregister(d, "origin")
  <2>1. e \in Connection /\ Keeps(c, e)
    BY <1>2, EndBodyType, EndBodyKeeps DEF Keeps
  <2> HIDE DEF e
  <2>2. x \in Connection /\ x.lost = e.lost
    BY <2>1 DEF Connection, ConnectionStates
  <2> HIDE DEF x
  <2>3. k \in Connection /\ Keeps(x, k)
    BY <2>2, KillOriginType, KillOriginKeeps
  <2> HIDE DEF k
  <2>4. d \in Connection /\ Keeps(k, d)
    BY <2>3, SetInterestType, SetInterestKeeps DEF Fds, Interests
  <2> HIDE DEF d
  <2>5. Keeps(d, u)
    BY <2>4, UnregisterKeeps DEF Fds
  <2> HIDE DEF u
  <2>6. OriginClosed(c) = u
    BY <1>2 DEF OriginClosed, u, d, k, x, e
  <2> QED BY <2>1, <2>2, <2>3, <2>4, <2>5, <2>6 DEF Keeps
<1> QED BY <1>1, <1>2

\* The end of the filter's output writes an end chunk, which has to fit.
LEMMA FilterClosedKeeps ==
    ASSUME NEW c \in Connection, c.resp + EndChunk <= Cap
    PROVE  FilterClosed(c) \in Connection /\ Keeps(c, FilterClosed(c))
<1> DEFINE b == EndBody(c)
           e == Unregister(b, "pipeOut")
           k == KillOrigin(e)
           x == [k EXCEPT !.state = "CLOSED"]
           t == KillTransformation(e)
<1>1. b \in Connection /\ Keeps(c, b)
  BY EndBodyType, EndBodyKeeps
<1> HIDE DEF b
<1>2. e \in Connection /\ Keeps(b, e)
  BY <1>1, UnregisterType, UnregisterKeeps DEF Fds
<1> HIDE DEF e
<1>3. k \in Connection /\ Keeps(e, k) /\ t \in Connection /\ Keeps(e, t)
  BY <1>2, KillOriginType, KillOriginKeeps, KillTransformationType, KillTransformationKeeps
<1> HIDE DEF k, t
<1>4. x \in Connection /\ x.lost = k.lost
  BY <1>3 DEF Connection, ConnectionStates
<1> HIDE DEF x
<1>5. FilterClosed(c) = IF c.state = "TRANSFORMER_MUST_CLOSE" THEN x ELSE t
  BY DEF FilterClosed, x, t, k, e, b
<1> QED BY <1>1, <1>2, <1>3, <1>4, <1>5 DEF Keeps

\* proxy_transformation_read loses nothing: it takes what fits.
LEMMA TransformationReadKeeps ==
    ASSUME LifecycleInv, ReserveSuffices, TransformationRead
    PROVE  Keeps(conn, conn')
<1> DEFINE limit == PipeLimit(conn)
           take == Smaller(conn.outPipe, limit)
           paused == take = limit
           w == Respond(conn, Chunked(take))
           left == conn.outPipe - take
           c == [w EXCEPT !.outPipe = left]
           r == IF paused THEN SetInterest(c, "pipeOut", "noop")
                ELSE IF conn.outEof THEN FilterClosed(c) ELSE c
<1> USE DEF LifecycleInv, TypeOK
<1>1. take \in Nat /\ take <= limit /\ left \in 0 .. PipeCap
  <2>1. conn.outPipe \in 0 .. PipeCap /\ PipeCap \in Nat
    BY ConstantsAssumption DEF Connection
  <2>2. limit \in Nat /\ conn.outPipe \in Nat
    BY <2>1, PipeLimitType
  <2>3. take \in Nat /\ take <= conn.outPipe /\ take <= limit
    BY <2>2, SmallerType
  <2> QED BY <2>1, <2>3
<1>2. /\ conn.resp + Chunked(take) <= Cap
      /\ ~paused => conn.resp + Chunked(take) + EndChunk <= Cap
  <2> HIDE DEF take
  <2> QED BY <1>1, PipeReadFits
<1> HIDE DEF take, left
<1>3. w \in Connection /\ Keeps(conn, w) /\ w.resp = conn.resp + Chunked(take)
  BY <1>1, <1>2, ChunkedType, RespondType, RespondKeeps
<1> HIDE DEF w
<1>4. c \in Connection /\ c.lost = w.lost /\ c.resp = w.resp
  BY <1>1, <1>3 DEF Connection
<1>5. conn' = SetInterest(r, "client", "write")
  BY DEF TransformationRead, r, c, w, left, take
<1> HIDE DEF c
<1>6. r \in Connection /\ Keeps(c, r)
  <2>1. CASE paused
    BY <1>4, <2>1, SetInterestType, SetInterestKeeps DEF Fds, Interests
  <2>2. CASE ~paused /\ conn.outEof
    <3>1. c.resp + EndChunk <= Cap
      BY <1>2, <1>3, <1>4, <2>2
    <3> QED BY <1>4, <2>2, <3>1, FilterClosedKeeps
  <2>3. CASE ~paused /\ ~conn.outEof
    BY <1>4, <2>3 DEF Keeps
  <2> QED BY <2>1, <2>2, <2>3
<1> HIDE DEF r
<1>7. Keeps(r, conn')
  BY <1>5, <1>6, SetInterestKeeps DEF Fds, Interests
<1> QED BY <1>3, <1>4, <1>6, <1>7 DEF Keeps

\* What the parser makes of a read fits: nothing is lost, and there is room for
\* the end chunk of a response that only the origin's close can end.
Fits(c, p) ==
    /\ Keeps(c, p)
    /\ p.state # "FREED" /\ ~p.transformer /\ p.framing = "close"
          => p.resp + EndChunk <= Cap

\* After a piece of the body: what is left in parser_buff, and whether it ended.
Consumed(r, o, f) == [r EXCEPT !.pbuf = o, !.finished = f]

\* That touches nothing else.
LEMMA ConsumedKeeps ==
    ASSUME NEW r \in Connection, NEW o \in 0 .. Cap, NEW f \in BOOLEAN
    PROVE  LET b == Consumed(r, o, f) IN
           /\ b \in Connection /\ b.finished = f
           /\ b.lost = r.lost /\ b.resp = r.resp /\ b.framing = r.framing
<1>1. Consumed(r, o, f) \in Connection
  BY DEF Consumed, Connection
<1>2. /\ Consumed(r, o, f).finished = f /\ Consumed(r, o, f).lost = r.lost
      /\ Consumed(r, o, f).resp = r.resp /\ Consumed(r, o, f).framing = r.framing
  BY DEF Consumed, Connection
<1> QED BY <1>1, <1>2

\* The body read into an empty response buffer fits, and its end too.
LEMMA WriteBodyFits ==
    ASSUME ReserveSuffices, NEW c \in Connection, NEW u \in Unchunked(c),
           c.resp = 0, ~c.finished, c.pbuf <= Cap - Reserve
    PROVE  Fits(c, WriteBody(c, u))
<1> DEFINE n == Chunked(u.payload)
           r == Respond(c, n)
           f == c.finished \/ u.done
           o == u.rest
           b == Consumed(r, o, f)
           e == IF b.finished THEN EndBody(b) ELSE b
           p == SetInterest(e, "client", "write")
<1>1. u.payload \in 0 .. c.pbuf /\ o \in 0 .. Cap /\ u.done \in BOOLEAN /\ f = u.done
  BY UnchunkedType, ConstantsAssumption DEF Connection
<1>2. n \in Nat /\ n + EndChunk <= Cap
  <2>1. /\ c.pbuf \in 0 .. Cap /\ u.payload \in Nat /\ u.payload <= Cap - Reserve
    BY <1>1, ConstantsAssumption DEF Connection
  <2> QED BY <2>1, ReadFits, ChunkedType
<1>3. EndChunk \in Nat /\ Cap \in Nat
  BY ConstantsAssumption
<1> HIDE DEF n, f, o
<1>4. r \in Connection /\ Keeps(c, r) /\ r.resp = n /\ r.framing = c.framing
  <2>1. c.resp + n = n /\ c.resp + n <= Cap
    BY <1>2, <1>3
  <2> QED BY <1>2, <2>1, RespondType, RespondKeeps, RespondGrows DEF Agree
<1> HIDE DEF r
<1>5. /\ b \in Connection /\ b.lost = r.lost /\ b.resp = n /\ b.framing = c.framing
      /\ b.finished = u.done
  <2>1. f \in BOOLEAN /\ o \in 0 .. Cap /\ r \in Connection
    BY <1>1, <1>4
  <2>2. /\ b \in Connection /\ b.finished = f
        /\ b.lost = r.lost /\ b.resp = r.resp /\ b.framing = r.framing
    BY <2>1, ConsumedKeeps
  <2> HIDE DEF b
  <2> QED BY <1>1, <1>4, <2>2
<1> HIDE DEF b
<1>6. /\ e \in Connection /\ Keeps(b, e) /\ e.framing = c.framing
      /\ ~u.done => e.resp = n
  <2>1. CASE u.done
    <3>1. e = EndBody(b) /\ b.resp + EndChunk <= Cap
      BY <1>2, <1>5, <2>1
    <3> HIDE DEF e
    <3> QED BY <1>5, <2>1, <3>1, EndBodyType, EndBodyKeeps, EndBodyCounts
  <2>2. CASE ~u.done
    BY <1>5, <2>2 DEF Keeps
  <2> QED BY <1>1, <2>1, <2>2
<1> HIDE DEF e
<1>7. Keeps(e, p) /\ p.framing = e.framing /\ p.resp = e.resp
  BY <1>6, SetInterestKeeps, SetInterestAgrees, SetInterestEffect DEF Fds, Interests, Agree
<1> HIDE DEF p
<1>8. WriteBody(c, u) = p
  BY DEF WriteBody, Consumed, p, e, b, o, r, f, n
<1>9. c.framing = "close" => ~u.done
  BY UnchunkedDone
<1>10. p.framing = "close" => p.resp + EndChunk <= Cap
  BY <1>2, <1>6, <1>7, <1>9
<1> QED BY <1>4, <1>5, <1>6, <1>7, <1>8, <1>10 DEF Keeps, Fits

\* So does whatever parse_content makes of bytes that are no header.
LEMMA ParseContentFits ==
    ASSUME ReserveSuffices, NEW c \in Connection, Lifecycle(c),
           c.parser # "READING_HEADER", c.resp = 0, ~c.finished,
           c.pbuf <= Cap - Reserve, NEW p \in ParseContent(c)
    PROVE  Fits(c, p)
<1>1. CASE c.parser = "READING_BODY"
  <2>0. p \in ParseBody(c)
    BY <1>1 DEF ParseContent
  <2>1. CASE c.transformer
    <3>1. p = SetInterest(c, "pipeIn", "write")
      BY <2>0, <2>1 DEF ParseBody
    <3>2. Keeps(c, p) /\ p.transformer = c.transformer
      BY <3>1, SetInterestKeeps, SetInterestEffect DEF Fds, Interests
    <3> QED BY <2>1, <3>2 DEF Fits
  <2>2. CASE ~c.transformer
    <3>1. p = SendError(c) \/ \E u \in Unchunked(c) : p = WriteBody(c, u)
      BY <2>0, <2>2 DEF ParseBody
    <3>2. Fits(c, SendError(c))
      BY KillClientKeeps, KillClientReleases DEF SendError, Fits
    <3> QED BY <3>1, <3>2, WriteBodyFits
  <2> QED BY <2>1, <2>2
<1>2. CASE c.parser = "SSL_CONNECTION"
  <2> DEFINE n == c.pbuf
             q == Respond(c, n)
             r == [q EXCEPT !.pbuf = 0]
  <2>1. /\ n \in Nat /\ c.resp + n = n /\ n <= Cap /\ n + EndChunk <= Cap
    <3>1. /\ c.pbuf \in 0 .. Cap /\ Cap \in Nat /\ Reserve \in 1 .. Cap - 1
          /\ EndChunk \in Nat
      BY ConstantsAssumption DEF Connection
    <3>2. n \in Nat /\ Chunked(n) \in Nat /\ n <= Chunked(n)
      BY <3>1, ChunkedGrows
    <3>3. Chunked(n) + EndChunk <= Cap
      BY <3>2, ReadFits
    <3> DEFINE x == Chunked(n)
    <3> HIDE DEF x
    <3>4. x \in Nat /\ n <= x /\ x + EndChunk <= Cap
      BY <3>2, <3>3 DEF x
    <3> QED BY <3>1, <3>4
  <2> HIDE DEF n
  <2>2. q \in Connection /\ Keeps(c, q) /\ q.resp = n
    BY <2>1, RespondType, RespondKeeps
  <2> HIDE DEF q
  <2>3. r \in Connection /\ r.lost = q.lost /\ r.resp = n
    BY <2>2, Zero DEF Connection
  <2> HIDE DEF r
  <2>4. p = SetInterest(r, "client", "write")
    BY <1>2 DEF ParseContent, r, q, n
  <2>5. Keeps(r, p) /\ p.resp = r.resp
    BY <2>3, <2>4, SetInterestKeeps, SetInterestEffect DEF Fds, Interests
  <2> QED BY <2>1, <2>2, <2>3, <2>5 DEF Keeps, Fits
<1> QED BY <1>1, <1>2 DEF Connection, ParserStates

\* The bytes of a response that goes on are appended to what is left of the last
\* ones, up to the reserve.
LEMMA ReceivedFits ==
    ASSUME NEW c \in Connection, ~c.finished, NEW n \in Nat, n <= ReadLimit(c), n # 0
    PROVE  LET d == Received(c, n) IN
           /\ Keeps(c, d) /\ d.pbuf <= Cap - Reserve
           /\ d.resp = c.resp /\ d.parser = c.parser /\ d.finished = c.finished
<1> DEFINE m == c.pbuf + n
           d == [c EXCEPT !.pbuf = m]
<1>1. /\ c.pbuf \in 0 .. Cap /\ Cap \in Nat /\ Reserve \in 1 .. Cap - 1
  BY ConstantsAssumption DEF Connection
<1>2. m <= Cap - Reserve
  BY <1>1 DEF ReadLimit
<1>3. Received(c, n) = d
  BY DEF Received
<1> HIDE DEF m
<1>4. /\ d.lost = c.lost /\ d.pbuf = m
      /\ d.resp = c.resp /\ d.parser = c.parser /\ d.finished = c.finished
  BY DEF Connection
<1> HIDE DEF d
<1> QED BY <1>2, <1>3, <1>4 DEF Keeps

\* proxy_origin_active_socket_read loses bytes only when it took some, and either
\* found the response buffer in use or the head of a response before it.
LEMMA OriginReadLoses ==
    ASSUME LifecycleInv, ReserveSuffices, OriginRead, ~Keeps(conn, conn')
    PROVE  /\ net'.oin # net.oin
           /\ conn.resp > 0 \/ conn.parser = "READING_HEADER" \/ conn.finished
<1> DEFINE limit == ReadLimit(conn)
           take == Smaller(net.oin, limit)
           paused == take = limit
           b == IF paused THEN SetInterest(conn, "origin", "noop") ELSE conn
           c == Received(b, take)
           sawEof == IF paused THEN FALSE ELSE net.oeof
<1> USE DEF LifecycleInv, TypeOK
<1>1. take \in Nat /\ take <= limit /\ limit \in Nat /\ net.oin \in Nat
  <2>1. net.oin \in Nat
    BY DEF Network
  <2>2. limit \in Nat
    BY ReadLimitType
  <2> QED BY <2>1, <2>2, SmallerType
<1>2. net'.oin = net.oin - take
  BY DEF OriginRead, Network
<1>3. conn.state = "ALIVE"
  BY DEF OriginRead, Lifecycle, Fds, Connection, ConnectionStates
<1>4. sawEof => conn.resp + EndChunk <= Cap
  <2> SUFFICES ASSUME ReserveSuffices, limit # 0 PROVE conn.resp + EndChunk <= Cap
    BY <1>1
  <2>1. AvailableParserBytes(conn) # 0
    BY DEF ReadLimit
  <2>2. /\ conn.resp \in 0 .. Cap /\ conn.pbuf \in 0 .. Cap
        /\ Cap \in Nat /\ Reserve \in 1 .. Cap - 1
        /\ EndChunk \in Nat /\ ChunkOverhead \in Nat
    BY ConstantsAssumption DEF Connection
  <2>3. conn.resp < Cap - Reserve
    BY <2>1, <2>2 DEF AvailableParserBytes, Smaller
  <2>4. EndChunk + ChunkOverhead <= Reserve
    BY ReadFits
  <2> QED BY <2>2, <2>3, <2>4
<1>5. /\ b \in Connection /\ Lifecycle(b) /\ Keeps(conn, b) /\ ReadLimit(b) = limit
      /\ b.resp = conn.resp /\ b.parser = conn.parser /\ b.finished = conn.finished
  <2> DEFINE d == SetInterest(conn, "origin", "noop")
  <2>1. d \in Connection /\ Lifecycle(d) /\ Keeps(conn, d)
    BY <1>3, SetInterestType, SetInterestLifecycle, SetInterestKeeps DEF Fds, Interests
  <2>2. d.resp = conn.resp /\ d.parser = conn.parser /\ d.finished = conn.finished
    BY DEF SetInterest, Connection
  <2>3. ReadLimit(d) = limit
    BY DEF ReadLimit, AvailableParserBytes, SetInterest, Connection
  <2> HIDE DEF d, limit
  <2> QED BY <2>1, <2>2, <2>3 DEF d, Keeps, limit
<1>6. PICK p \in IF take = 0 THEN {c} ELSE ParseContent(c) :
        conn' = IF p.state # "FREED" /\ sawEof THEN OriginClosed(p) ELSE p
  BY DEF OriginRead, take, b, c
<1> HIDE DEF take, sawEof, b
<1>7. c \in Connection /\ Lifecycle(c) /\ c.state = "ALIVE"
  <2>1. b.state = "ALIVE"
    BY <1>3, SetInterestEffect DEF b, Fds, Interests
  <2> QED BY <1>1, <1>5, <2>1, ReceivedLifecycle
<1>8. p \in Connection
  BY <1>6, <1>7, ParseContentParsed DEF Parsed
<1>9. SUFFICES ASSUME \/ take = 0
                      \/ take # 0 /\ conn.resp = 0 /\ conn.parser # "READING_HEADER"
                         /\ ~conn.finished
               PROVE  Keeps(b, p) /\ (sawEof /\ p.state # "FREED" => Keeps(p, OriginClosed(p)))
  <2>1. conn.resp \in Nat
    BY ConstantsAssumption DEF Connection
  <2>2. \/ take # 0 /\ (conn.resp > 0 \/ conn.parser = "READING_HEADER" \/ conn.finished)
        \/ take = 0
        \/ take # 0 /\ conn.resp = 0 /\ conn.parser # "READING_HEADER" /\ ~conn.finished
    BY <2>1
  <2>3. take # 0 => net'.oin # net.oin
    BY <1>1, <1>2
  <2>4. ~(Keeps(b, p) /\ (sawEof /\ p.state # "FREED" => Keeps(p, OriginClosed(p))))
    BY <1>5, <1>6 DEF Keeps
  <2> QED BY <1>9, <2>2, <2>3, <2>4
<1>10. CASE take = 0
  <2>1. p = b
    BY <1>6, <1>10 DEF Received
  <2> QED BY <1>4, <1>5, <2>1, OriginClosedKeeps DEF Keeps
<1>11. CASE take # 0 /\ conn.resp = 0 /\ conn.parser # "READING_HEADER" /\ ~conn.finished
  <2>1. /\ Keeps(b, c) /\ c.pbuf <= Cap - Reserve
        /\ c.resp = 0 /\ c.parser # "READING_HEADER" /\ ~c.finished
    BY <1>1, <1>5, <1>11, ReceivedFits
  <2>2. p \in ParseContent(c)
    BY <1>6, <1>11
  <2> HIDE DEF c
  <2>3. Fits(c, p)
    BY <1>7, <2>1, <2>2, ParseContentFits
  <2> QED BY <1>8, <2>1, <2>3, OriginClosedKeeps DEF Fits, Keeps
<1> QED BY <1>9, <1>10, <1>11

\* proxy_client_active_socket_read writes nothing to the response buffer.
LEMMA ClientReadKeeps ==
    ASSUME LifecycleInv, ClientRead PROVE Keeps(conn, conn')
<1> DEFINE space == Cap - conn.req
           take == Smaller(net.cin, space)
           filled == take = space
           c == [conn EXCEPT !.req = conn.req + take]
           d == IF filled THEN SetInterest(c, "client", "noop") ELSE c
<1> USE DEF LifecycleInv, TypeOK
<1>1. take \in Nat /\ take <= space
  <2>1. net.cin \in Nat /\ space \in Nat
    BY ConstantsAssumption DEF Network, Connection
  <2> QED BY <2>1, SmallerType
<1> HIDE DEF take
<1>2. c \in Connection /\ c.lost = conn.lost
  <2>1. c \in Connection
    BY <1>1, ReqType
  <2>2. c.lost = conn.lost
    BY DEF Connection
  <2> QED BY <2>1, <2>2
<1> HIDE DEF c
<1>3. d \in Connection /\ Keeps(c, d)
  BY <1>2, SetInterestType, SetInterestKeeps DEF Fds, Interests, Keeps
<1> HIDE DEF d
<1>4. conn' = SetInterest(d, "origin", "write") \/ conn' = KillClient(d)
  BY DEF ClientRead, d, c, take
<1>5. Keeps(d, conn')
  BY <1>3, <1>4, SetInterestKeeps, KillClientKeeps DEF Fds, Interests
<1> QED BY <1>2, <1>3, <1>5 DEF Keeps

\* proxy_client_active_socket_write only takes from it.
LEMMA ClientWriteKeeps ==
    ASSUME LifecycleInv, ClientWrite PROVE Keeps(conn, conn')
<1> DEFINE c == [conn EXCEPT !.resp = 0]
           next == IF conn.transformer THEN "pipeOut" ELSE "origin"
           d == SetInterest(c, "client", "read")
           e == SetInterest(d, next, "read")
<1> USE DEF LifecycleInv, TypeOK
<1>1. c \in Connection /\ c.lost = conn.lost
  BY Zero DEF Connection
<1>2. conn' = KillClient(c) \/ conn' = e
  BY DEF ClientWrite, e, d, c
<1> HIDE DEF c
<1>3. d \in Connection /\ Keeps(c, d)
  BY <1>1, SetInterestType, SetInterestKeeps DEF Fds, Interests
<1> HIDE DEF d
<1>4. Keeps(d, e)
  BY <1>3, SetInterestKeeps DEF Fds, Interests
<1> HIDE DEF e
<1>5. Keeps(c, KillClient(c))
  BY <1>1, KillClientKeeps
<1> QED BY <1>1, <1>2, <1>3, <1>4, <1>5 DEF Keeps

\* proxy_origin_active_socket_write has the request buffer only.
LEMMA OriginWriteKeeps ==
    ASSUME LifecycleInv, OriginWrite PROVE Keeps(conn, conn')
<1> DEFINE c == [conn EXCEPT !.req = 0]
           d == SetInterest(c, "origin", "read")
           e == SetInterest(d, "client", "read")
<1> USE DEF LifecycleInv, TypeOK
<1>1. c \in Connection /\ c.lost = conn.lost
  BY Zero DEF Connection
<1>2. conn' = e
  BY DEF OriginWrite, e, d, c
<1> HIDE DEF c
<1>3. d \in Connection /\ Keeps(c, d)
  BY <1>1, SetInterestType, SetInterestKeeps DEF Fds, Interests
<1> HIDE DEF d
<1>4. Keeps(d, e)
  BY <1>3, SetInterestKeeps DEF Fds, Interests
<1> HIDE DEF e
<1> QED BY <1>1, <1>2, <1>3, <1>4 DEF Keeps

\* What goes to the filter loses nothing, and what does not go there fills its pipe.
LEMMA PipeBodyKeeps ==
    ASSUME NEW c \in Connection, NEW u \in Unchunked(c), c.tmp = 0
    PROVE  LET d == PipeBody(c, u) IN
           Keeps(c, d) /\ (d.tmp > 0 => d.inPipe = PipeCap)
<1> DEFINE room  == PipeCap - c.inPipe
           units == ReadSize * (room \div ReadSize + 1)
           taken == Smaller(u.payload, units)
           m == c.inPipe + u.payload
           t == taken - room
           o == u.rest
           b == IF taken = u.payload THEN u.rest ELSE c.pbuf - taken
           f1 == c.finished \/ u.done
           f2 == c.finished \/ (u.done /\ (taken = u.payload \/ c.framing = "length"))
           d1 == [c EXCEPT !.inPipe = m, !.pbuf = o, !.finished = f1]
           d2 == [c EXCEPT !.inPipe = PipeCap, !.tmp = t, !.pbuf = b, !.finished = f2]
<1>1. PipeBody(c, u) = d1 \/ PipeBody(c, u) = d2
  BY DEF PipeBody
<1> HIDE DEF m, t, o, b, f1, f2
<1>2. d1.lost = c.lost /\ d1.tmp = 0 /\ d2.lost = c.lost /\ d2.inPipe = PipeCap
  BY DEF Connection
<1> HIDE DEF d1, d2
<1> QED BY <1>1, <1>2 DEF Keeps

\* The end of proxy_transformation_write loses what is in tmp_buff, when it closes
\* the filter's input.
LEMMA TransformationWrittenLoses ==
    ASSUME NEW c \in Connection, NEW pipeFull \in BOOLEAN
    PROVE  LET d == TransformationWritten(c, pipeFull) IN
           \/ Keeps(c, d)
           \/ /\ c.tmp > 0 /\ d.inPipe = c.inPipe
              /\ d.finished /\ d.interest["pipeIn"] = "none"
<1> DEFINE l == c.lost \/ c.tmp > 0
           u == Unregister(c, "pipeIn")
           o == [u EXCEPT !.lost = l]
           f == IF c.finished THEN o ELSE c
           n == IF pipeFull THEN f ELSE SetInterest(f, "pipeIn", "noop")
           d == SetInterest(n, "origin", "read")
<1>1. TransformationWritten(c, pipeFull) = d
  BY DEF TransformationWritten
<1>2. /\ u \in Connection /\ u.interest["pipeIn"] = "none"
      /\ u.inPipe = c.inPipe /\ u.finished = c.finished /\ l \in BOOLEAN
  <2>1. u \in Connection /\ u.interest["pipeIn"] = "none"
    BY UnregisterType, UnregisterEffect DEF Fds
  <2> QED BY <2>1 DEF Unregister, Connection
<1> HIDE DEF u, l
<1>3. /\ o \in Connection /\ o.lost = l /\ o.interest = u.interest
      /\ o.inPipe = u.inPipe /\ o.finished = u.finished
  BY <1>2 DEF Connection
<1> HIDE DEF o
<1>4. CASE c.finished /\ c.tmp > 0
  <2>1. /\ f \in Connection /\ f.interest["pipeIn"] = "none"
        /\ f.inPipe = c.inPipe /\ f.finished
    BY <1>2, <1>3, <1>4
  <2> HIDE DEF f
  <2>2. n = f
    BY <2>1 DEF SetInterest
  <2> HIDE DEF n
  <2>3. d.interest["pipeIn"] = "none" /\ d.inPipe = f.inPipe /\ d.finished = f.finished
    BY <2>1, <2>2 DEF SetInterest, Connection, Fds
  <2> HIDE DEF d
  <2> QED BY <1>1, <1>4, <2>1, <2>3
<1>5. CASE ~(c.finished /\ c.tmp > 0)
  <2>1. f \in Connection /\ Keeps(c, f)
    BY <1>3, <1>5 DEF Keeps, l
  <2> HIDE DEF f
  <2>2. n \in Connection /\ Keeps(f, n)
    BY <2>1, SetInterestType, SetInterestKeeps DEF Fds, Interests, Keeps
  <2> HIDE DEF n
  <2>3. Keeps(n, d)
    BY <2>2, SetInterestKeeps DEF Fds, Interests
  <2> HIDE DEF d
  <2> QED BY <1>1, <2>1, <2>2, <2>3 DEF Keeps
<1> QED BY <1>4, <1>5

\* proxy_transformation_write loses bytes only when it closes the filter's input
\* while the pipe is full.
LEMMA TransformationWriteLoses ==
    ASSUME LifecycleInv, TransformationWrite, ~Keeps(conn, conn')
    PROVE  /\ conn.interest["pipeIn"] = "write" /\ conn'.interest["pipeIn"] = "none"
           /\ conn'.finished /\ conn'.inPipe = PipeCap
<1> DEFINE sent == Smaller(conn.tmp, PipeCap - conn.inPipe)
           t == conn.tmp - sent
           m == conn.inPipe + sent
           c == [conn EXCEPT !.tmp = t, !.inPipe = m]
<1> USE DEF LifecycleInv, TypeOK
<1>1. /\ t \in 0 .. Cap /\ m \in 0 .. PipeCap
      /\ t > 0 => m = PipeCap
  <2>1. /\ conn.tmp \in 0 .. Cap /\ conn.inPipe \in 0 .. PipeCap
        /\ Cap \in Nat /\ PipeCap \in Nat
    BY ConstantsAssumption DEF Connection
  <2>2. conn.tmp \in Nat /\ PipeCap - conn.inPipe \in Nat
    BY <2>1
  <2>3. /\ sent \in Nat /\ sent <= conn.tmp /\ sent <= PipeCap - conn.inPipe
        /\ sent # conn.tmp => sent = PipeCap - conn.inPipe
    BY <2>2, SmallerType DEF Smaller
  <2> QED BY <2>1, <2>3
<1>2. \/ conn' = TransformationWritten(c, TRUE)
      \/ /\ c.tmp = 0
         /\ \E u \in Unchunked(c) :
               conn' = TransformationWritten(PipeBody(c, u),
                                             u.payload > PipeCap - c.inPipe)
      \/ conn' = SendError(c)
  BY DEF TransformationWrite, c, t, m
<1>3. conn.state # "FREED" /\ conn.interest["pipeIn"] = "write"
  BY DEF TransformationWrite, Lifecycle, Fds
<1> HIDE DEF t, m
<1>4. /\ c \in Connection /\ c.lost = conn.lost /\ c.state = conn.state
      /\ c.interest = conn.interest /\ c.transformer = conn.transformer
      /\ c.tmp > 0 => c.inPipe = PipeCap
  BY <1>1 DEF Connection
<1> HIDE DEF c
<1>5. Lifecycle(c)
  BY <1>4, SameLifecycle
<1>6. CASE conn' = TransformationWritten(c, TRUE)
  <2>1. ~Keeps(c, conn')
    BY <1>4 DEF Keeps
  <2> QED BY <1>3, <1>4, <1>6, <2>1, TransformationWrittenLoses
<1>7. ASSUME c.tmp = 0, NEW u \in Unchunked(c),
             conn' = TransformationWritten(PipeBody(c, u), u.payload > PipeCap - c.inPipe)
      PROVE  conn'.interest["pipeIn"] = "none" /\ conn'.finished /\ conn'.inPipe = PipeCap
  <2> DEFINE d == PipeBody(c, u)
             full == u.payload > PipeCap - c.inPipe
  <2>1. /\ d \in Connection /\ Keeps(c, d) /\ full \in BOOLEAN
        /\ d.tmp > 0 => d.inPipe = PipeCap
    BY <1>4, <1>5, <1>7, PipeBodyLifecycle, PipeBodyKeeps
  <2>2. conn' = TransformationWritten(d, full)
    BY <1>7
  <2> HIDE DEF d, full
  <2>3. ~Keeps(d, conn')
    BY <1>4, <2>1 DEF Keeps
  <2> QED BY <2>1, <2>2, <2>3, TransformationWrittenLoses
<1>8. conn' # SendError(c)
  BY <1>4, KillClientKeeps DEF SendError, Keeps
<1> QED BY <1>2, <1>3, <1>6, <1>7, <1>8

\* The peers and the filter process do not touch it.
LEMMA PeersKeep ==
    ASSUME LifecycleInv, Peers PROVE Keeps(conn, conn')
<1> USE DEF LifecycleInv, TypeOK
<1>1. CASE UNCHANGED conn
  BY <1>1 DEF Keeps
<1>2. CASE FilterCopies
  <2>1. PICK n \in 1 .. Smaller(conn.inPipe, PipeCap - conn.outPipe) :
          conn' = [conn EXCEPT !.inPipe = conn.inPipe - n,
                               !.outPipe = conn.outPipe + n]
    BY <1>2, Zenon DEF FilterCopies
  <2>2. conn'.lost = conn.lost
    BY <2>1 DEF Connection
  <2> QED BY <2>2 DEF Keeps
<1>3. CASE FilterExits
  <2>1. conn'.lost = conn.lost
    BY <1>3 DEF FilterExits, Connection
  <2> QED BY <2>1 DEF Keeps
<1>4. CASE ClientSends
  BY <1>1, <1>4 DEF ClientSends
<1>5. CASE OriginSends
  BY <1>1, <1>5 DEF OriginSends
<1>6. CASE ClientCloses \/ OriginCloses
  BY <1>1, <1>6 DEF ClientCloses, OriginCloses
<1> QED BY <1>2, <1>3, <1>4, <1>5, <1>6 DEF Peers

\* A step that loses bytes has a cause.
LEMMA StepLoses ==
    ASSUME LifecycleInv, ReserveSuffices, Next, ~Keeps(conn, conn')
    PROVE  \/ /\ conn.interest["origin"] = "read" /\ net'.oin # net.oin
              /\ conn.resp > 0 \/ conn.parser = "READING_HEADER" \/ conn.finished
           \/ /\ conn.interest["pipeIn"] = "write" /\ conn'.interest["pipeIn"] = "none"
              /\ conn'.finished /\ conn'.inPipe = PipeCap
<1>1. OriginRead \/ TransformationWrite
  BY ClientReadKeeps, ClientWriteKeeps, OriginWriteKeeps, TransformationReadKeeps,
     PeersKeep DEF Next, Handlers
<1>2. CASE OriginRead
  <2>1. conn.interest["origin"] = "read"
    BY <1>2 DEF OriginRead
  <2> QED BY <1>2, <2>1, OriginReadLoses
<1>3. CASE TransformationWrite
  BY <1>3, TransformationWriteLoses
<1> QED BY <1>1, <1>2, <1>3

\* With a reserve that suffices for one read, and whatever the sizes, bytes of a
\* response are lost, while its connection goes on, in two places only.  In
\* proxy_origin_active_socket_read, when the client has not taken what was read
\* before, or the bytes begin with the head of a response, or they begin the next
\* response.  And in proxy_transformation_write, when the response has finished and
\* the filter's input is closed while its pipe is full.  The filter's output, the
\* rest of a body read into an empty buffer and the end chunk fit.
THEOREM LossesHaveCauses ==
    ASSUME ReserveSuffices PROVE Spec => LossHasCause
<1>1. LifecycleInv /\ [Next]_vars =>
        [~conn.lost /\ conn'.lost =>
           \/ /\ conn.interest["origin"] = "read" /\ net'.oin # net.oin
              /\ conn.resp > 0 \/ conn.parser = "READING_HEADER" \/ conn.finished
           \/ /\ conn.interest["pipeIn"] = "write" /\ conn'.interest["pipeIn"] = "none"
              /\ conn'.finished /\ conn'.inPipe = PipeCap]_vars
  BY StepLoses DEF vars, Keeps
<1> QED BY <1>1, LifecycleAlways, PTL DEF Spec, LossHasCause
=============================================================================
