------------------------------- MODULE Relay -------------------------------
(***************************************************************************)
(* The relay phase of one proxied connection: client socket and origin     *)
(* socket joined by two ring buffers, the response parser between them,    *)
(* and, when a transformation is configured, the two pipes of the filter   *)
(* process (proxyClientActiveSocket.c, proxyOriginActiveSocket.c,          *)
(* proxyTransformation.c).                                                 *)
(*                                                                         *)
(* Each descriptor has exactly one interest in the selector.  The handlers *)
(* hand the turn to one another by changing the interests of other         *)
(* descriptors, and that hand-over is what this module is about.  Data is  *)
(* a number of bytes; the content of the response is abstracted to what    *)
(* the parser may decide about it (end of the header, framing, end of the  *)
(* body, a framing error).                                                 *)
(*                                                                         *)
(* A handler runs to completion in the single selector thread, so it is    *)
(* one action.  Its receive loop is written in closed form: how much it    *)
(* takes before the socket is empty or the buffer limit stops it.          *)
(***************************************************************************)
EXTENDS Integers

CONSTANTS
    Cap,            \* bytes a ring buffer holds: BUFFER_SIZE - 1
    Reserve,        \* bytes kept free for the chunked encoding: 80
    ReadSize,       \* sizeof(aux), the unit of recv, send and write_chunked
    ChunkOverhead,  \* most bytes write_chunked adds to a non-empty chunk
    EndChunk,       \* length of the chunk that ends a body, "0\r\n\r\n"
    HeaderOverhead, \* length of "Transfer-Encoding: chunked\n"
    MaxLine,        \* bound: longest line of a header the origin server sends, less its end
    LineSize,       \* sizeof(aux) in parse_content: a longer line is never taken
    PipeCap,        \* capacity of a pipe
    Transforms,     \* a transformation command is configured and on
    Tunnels,        \* whether the connection may be a CONNECT tunnel: TRUE, FALSE or both
    InitialRequests,\* bytes of the request head that are in write_buff
    ClientBytes,    \* bound: bytes the client sends after the head
    OriginBytes,    \* bound: bytes the origin server sends
    SocketCap       \* bound: bytes waiting in a socket's receive queue

ASSUME ConstantsAssumption ==
    /\ Cap \in Nat /\ Reserve \in 1 .. Cap - 1
    /\ {ReadSize, LineSize} \subseteq Nat \ {0}
    /\ {ChunkOverhead, EndChunk, HeaderOverhead, MaxLine} \subseteq Nat
    /\ PipeCap \in Nat \ {0}
    /\ Transforms \in BOOLEAN /\ Tunnels \subseteq BOOLEAN
    /\ InitialRequests \subseteq 0 .. Cap
    /\ {ClientBytes, OriginBytes, SocketCap} \subseteq Nat

VARIABLES
    conn,   \* connection_data, the buffers, the parser, the selector interests
    net     \* the two sockets as the peers see them

vars == <<conn, net>>

Smaller(a, b) == IF a < b THEN a ELSE b

(***************************************************************************)
(* Descriptors.  "pipeIn" is origin_pipe[WRITE] (the filter's stdin),      *)
(* "pipeOut" is client_pipe[READ] (the filter's stdout).                   *)
(***************************************************************************)
Fds == {"client", "origin", "pipeIn", "pipeOut"}

\* OP_NOOP, OP_READ, OP_WRITE; "none" when the descriptor is not registered
Interests == {"none", "noop", "read", "write"}

ConnectionStates == {"ALIVE", "CLOSED", "TRANSFORMER_MUST_CLOSE", "FREED"}
ParserStates == {"READING_HEADER", "READING_BODY", "SSL_CONNECTION"}

\* content_length # -1; chunk_enabled = 1; neither
Framings == {"length", "chunked", "close"}

Connection ==
    [ interest: [Fds -> Interests],
      state: ConnectionStates,
      ssl: BOOLEAN,
      req: 0 .. Cap,             \* client to origin: count of write_buff
      resp: 0 .. Cap,            \* origin to client: count of read_buff
      pbuf: 0 .. Cap,            \* parser_buff
      tmp: 0 .. Cap,             \* tmp_buff of the transformation
      parser: ParserStates,
      framing: Framings,
      finished: BOOLEAN,         \* response_has_finished
      transformer: BOOLEAN,      \* transformation_data # NULL
      inPipe: 0 .. PipeCap,      \* bytes in the filter's stdin pipe
      outPipe: 0 .. PipeCap,     \* bytes in the filter's stdout pipe
      outEof: BOOLEAN,           \* the filter has exited
      ended: Nat,                \* history: end chunks of this response
      lost: BOOLEAN ]            \* history: bytes of a response were dropped

Network ==
    [ cin: 0 .. SocketCap, ceof: BOOLEAN, cleft: 0 .. ClientBytes,
      oin: 0 .. SocketCap, oeof: BOOLEAN, oleft: 0 .. OriginBytes ]

-----------------------------------------------------------------------------
(* Helpers the handlers share. *)

\* selector_set_interest fails, and changes nothing, for an unused item
SetInterest(c, fd, i) ==
    IF c.interest[fd] = "none" THEN c ELSE [c EXCEPT !.interest[fd] = i]

Unregister(c, fd) == [c EXCEPT !.interest[fd] = "none"]

\* Mutant of Respond: the write is not cut at the space that is left
RespondUncut(c, n) ==
    [c EXCEPT !.resp = c.resp + n, !.lost = c.lost \/ c.resp + n > Cap]

\* buffer_write_data on the response buffer: what does not fit is dropped
Respond(c, n) ==
    [c EXCEPT !.resp = Smaller(Cap, c.resp + n),
              !.lost = c.lost \/ c.resp + n > Cap]

\* n bytes written by write_chunked in units of ReadSize
Chunked(n) == n + ChunkOverhead * ((n + ReadSize - 1) \div ReadSize)

\* write_chunked(data, "", 0)
EndBody(c) == [Respond(c, EndChunk) EXCEPT !.ended = c.ended + 1]

\* Mutant of KillTransformation: the pipe end the proxy writes to is forgotten
KillTransformationHalf(c) ==
    IF c.transformer
    THEN [Unregister(c, "pipeOut") EXCEPT !.transformer = FALSE,
             !.tmp = 0, !.inPipe = 0, !.outPipe = 0, !.outEof = FALSE]
    ELSE c

\* closes and unregisters both pipe ends and forgets the transformation
KillTransformation(c) ==
    IF c.transformer
    THEN [Unregister(Unregister(c, "pipeOut"), "pipeIn") EXCEPT
             !.transformer = FALSE,
             !.tmp = 0, !.inPipe = 0, !.outPipe = 0, !.outEof = FALSE]
    ELSE c

\* Mutant of KillOrigin: the descriptor stays in the selector
KillOriginKeepsFd(c) == [KillTransformation(c) EXCEPT !.pbuf = 0]

\* the body of kill_origin once origin_data is known not to be NULL
KillOrigin(c) ==
    LET k == [KillTransformation(c) EXCEPT !.pbuf = 0]
    IN  IF c.state = "ALIVE" THEN Unregister(k, "origin") ELSE k

\* origin_data is NULL exactly when kill_origin has run: the state is CLOSED
KillClient(c) ==
    LET k == IF c.state = "CLOSED" THEN c ELSE KillOrigin(c)
    IN  [Unregister(k, "client") EXCEPT !.state = "FREED", !.req = 0, !.resp = 0]

\* send_error writes an error page straight to the socket, then kills
SendError(c) == KillClient(c)

FirstParserState(ssl) == IF ssl THEN "SSL_CONNECTION" ELSE "READING_HEADER"

\* what the filter of the last response still has to give is thrown away with
\* it, and so are the bytes that followed the end of that response
ResetOriginData(c) ==
    [KillTransformation(c) EXCEPT
        !.lost = c.lost \/ c.transformer \/ c.pbuf > 0,
        !.pbuf = 0, !.framing = "close", !.finished = FALSE,
        !.parser = FirstParserState(c.ssl), !.ended = 0]

-----------------------------------------------------------------------------
(* parse_content and read_unchunked: every result the bytes may lead to.   *)

\* how many body bytes read_unchunked yields, what it leaves in parser_buff,
\* and whether it finds the end of the body
Unchunked(c) ==
    CASE c.framing = "close" ->
            [payload: {c.pbuf}, rest: {0}, done: {FALSE}]
      [] c.framing = "length" ->
            [payload: {c.pbuf}, rest: {0}, done: BOOLEAN]
      [] c.framing = "chunked" ->
            {u \in [payload: 0 .. c.pbuf, rest: 0 .. MaxLine, done: BOOLEAN] :
                u.payload + u.rest <= c.pbuf /\ (u.done => c.pbuf > 0)}

\* Mutant of WriteBody: the client is not armed for what was written
WriteBodyQuietly(c, u) ==
    LET b == [Respond(c, Chunked(u.payload)) EXCEPT
                !.pbuf = u.rest, !.finished = c.finished \/ u.done]
    IN  IF b.finished THEN EndBody(b) ELSE b

\* the body is re-chunked into the response buffer as long as there is any
WriteBody(c, u) ==
    LET b == [Respond(c, Chunked(u.payload)) EXCEPT
                !.pbuf = u.rest, !.finished = c.finished \/ u.done]
    IN  SetInterest(IF b.finished THEN EndBody(b) ELSE b, "client", "write")

ParseBody(c) ==
    IF c.transformer
    THEN {SetInterest(c, "pipeIn", "write")}
    ELSE {WriteBody(c, u) : u \in Unchunked(c)}
            \cup (IF c.framing = "chunked" THEN {SendError(c)} ELSE {})

\* pipe, fork and register: a filter whose two pipes are empty
StartTransformation(c) ==
    [c EXCEPT !.transformer = TRUE, !.tmp = 0,
              !.interest["pipeOut"] = "read", !.interest["pipeIn"] = "write",
              !.inPipe = 0, !.outPipe = 0, !.outEof = FALSE]

\* a header line decides the framing, a later one does not take it back
NextFramings(c) == IF c.framing = "close" THEN Framings ELSE {c.framing}

\* complete lines the header parser may find: bytes taken from parser_buff,
\* bytes of them forwarded (a Content-Length line is not), and the framing
HeaderLines(c) ==
    {h \in [taken: 0 .. c.pbuf, sent: 0 .. c.pbuf, framing: NextFramings(c)] :
        /\ h.sent <= h.taken
        /\ h.framing # "length" => h.sent = h.taken
        /\ h.taken = 0 => h.framing = c.framing}

ReadHeader(c, h, added, parser) ==
    SetInterest([Respond(c, h.sent + added) EXCEPT
                    !.pbuf = c.pbuf - h.taken, !.framing = h.framing, !.parser = parser],
                "client", "write")

\* n bytes that the loop over the lines leaves: the beginning of a line, or a
\* line longer than LineSize (its first LineSize bytes hold no end) and what follows
IsRest(n) == n <= MaxLine \/ (n >= LineSize /\ MaxLine >= LineSize)

\* the header goes on
HeaderOpen(c) ==
    {ReadHeader(c, h, 0, "READING_HEADER") :
        h \in {l \in HeaderLines(c) : IsRest(c.pbuf - l.taken)}}

\* the last line taken is the blank one: the body begins
HeaderDone(c) ==
    {ReadHeader(c, h, IF h.framing = "chunked" THEN 0 ELSE HeaderOverhead, "READING_BODY") :
        h \in {l \in HeaderLines(c) : l.taken > 0}}

ParseHeader(c) ==
    HeaderOpen(c) \cup
    UNION {ParseBody(h) \cup
           (IF Transforms THEN ParseBody(StartTransformation(h)) ELSE {}) :
           h \in HeaderDone(c)}

ParseContent(c) ==
    CASE c.parser = "READING_HEADER" -> ParseHeader(c)
      [] c.parser = "READING_BODY" -> ParseBody(c)
      [] c.parser = "SSL_CONNECTION" ->
            {SetInterest([Respond(c, c.pbuf) EXCEPT !.pbuf = 0], "client", "write")}

-----------------------------------------------------------------------------
(* The handlers.  "Ready" is what select() reports of a descriptor.        *)

\* Mutant of ClientRead: a buffer that gets full is taken for the end of the stream
ClientReadKillsFull ==
    LET space  == Cap - conn.req
        take   == Smaller(net.cin, space)
        filled == take = space
        c == [conn EXCEPT !.req = conn.req + take]
        passed == SetInterest(IF filled THEN SetInterest(c, "client", "noop") ELSE c,
                              "origin", "write")
        sawEof == IF filled THEN FALSE ELSE net.ceof
    IN  /\ conn.interest["client"] = "read"
        /\ net.cin > 0 \/ net.ceof
        /\ net' = [net EXCEPT !.cin = net.cin - take]
        /\ \/ /\ ~sawEof
              /\ conn' = passed
           \/ /\ sawEof \/ filled
              /\ conn' = KillClient(IF filled THEN SetInterest(c, "client", "noop") ELSE c)

\* PASSING_CONTENT branch of proxy_client_active_socket_read.  When the
\* buffer is full on entry recv is never called and ret has no value: the
\* comparison with 0 may go either way.
ClientRead ==
    LET space  == Cap - conn.req
        take   == Smaller(net.cin, space)
        filled == take = space
        c == [conn EXCEPT !.req = conn.req + take]
        passed == SetInterest(IF filled THEN SetInterest(c, "client", "noop") ELSE c,
                              "origin", "write")
        sawEof == IF filled THEN FALSE ELSE net.ceof
    IN  /\ conn.interest["client"] = "read"
        /\ net.cin > 0 \/ net.ceof
        /\ net' = [net EXCEPT !.cin = net.cin - take]
        /\ \/ /\ ~sawEof
              /\ conn' = passed
           \/ /\ sawEof \/ space = 0
              /\ conn' = KillClient(IF filled THEN SetInterest(c, "client", "noop") ELSE c)

\* Mutant of ClientWrite: the origin is resumed even if the filter feeds the client
ClientWriteIgnoresFilter ==
    LET c == [conn EXCEPT !.resp = 0]
    IN  /\ conn.interest["client"] = "write"
        /\ conn' = IF conn.state = "CLOSED"
                   THEN KillClient(c)
                   ELSE SetInterest(SetInterest(c, "client", "read"), "origin", "read")
        /\ UNCHANGED net

\* After kill_client the handler goes on with the freed connection_data, whose
\* client is unregistered and whose other descriptors are -1: nothing changes.
ClientWrite ==
    LET c == [conn EXCEPT !.resp = 0]
        next == IF conn.transformer THEN "pipeOut" ELSE "origin"
    IN  /\ conn.interest["client"] = "write"
        /\ conn' = IF conn.state = "CLOSED"
                   THEN KillClient(c)
                   ELSE SetInterest(SetInterest(c, "client", "read"), next, "read")
        /\ UNCHANGED net

\* Mutant of OriginWrite: a client that waits for room is not resumed
OriginWriteForgetsClient ==
    /\ conn.interest["origin"] = "write"
    /\ conn' = SetInterest([conn EXCEPT !.req = 0], "origin", "read")
    /\ UNCHANGED net

OriginWrite ==
    /\ conn.interest["origin"] = "write"
    /\ conn' = SetInterest(SetInterest([conn EXCEPT !.req = 0], "origin", "read"),
                           "client", "read")
    /\ UNCHANGED net

AvailableParserBytes(c) ==
    LET s == Smaller(Cap - c.resp, Cap - c.pbuf)
    IN  IF s > Reserve THEN s - Reserve ELSE 0

\* what the receive loop takes at most: parser_buff fills up while it runs,
\* the response buffer does not, and the first bytes of a new response
\* empty parser_buff
ReadLimit(c) ==
    IF AvailableParserBytes(c) = 0 THEN 0
    ELSE Cap - Reserve - (IF c.finished THEN 0 ELSE c.pbuf)

Received(c, n) ==
    LET r == IF c.finished THEN ResetOriginData(c) ELSE c
    IN  IF n = 0 THEN c ELSE [r EXCEPT !.pbuf = r.pbuf + n]

\* Mutant of OriginClosed: the client is not armed for the last bytes
OriginClosedQuietly(c) ==
    IF c.transformer
    THEN Unregister([SetInterest(c, "pipeIn", "write") EXCEPT
                        !.finished = TRUE, !.state = "TRANSFORMER_MUST_CLOSE"], "origin")
    ELSE LET e == IF c.framing = "close" THEN EndBody(c) ELSE c
         IN  Unregister(KillOrigin([e EXCEPT !.state = "CLOSED"]), "origin")

\* Mutant of OriginClosed: every response is ended here, whatever its framing
OriginClosedEndsAll(c) ==
    LET e == EndBody(c)
    IN  IF c.transformer
        THEN Unregister([SetInterest(e, "pipeIn", "write") EXCEPT
                            !.finished = TRUE, !.state = "TRANSFORMER_MUST_CLOSE"], "origin")
        ELSE Unregister(SetInterest(KillOrigin([e EXCEPT !.state = "CLOSED"]),
                                    "client", "write"), "origin")

\* parser_buff begins with LineSize bytes of a line that has not ended: for such a
\* line buffer_peek_line returns -1, and the parser takes nothing any more
OverlongLine(c) == ~c.finished /\ c.parser = "READING_HEADER" /\ c.pbuf >= LineSize

\* recv returned 0
OriginClosed(c) ==
    IF c.transformer
    THEN Unregister([SetInterest(c, "pipeIn", "write") EXCEPT
                        !.finished = TRUE, !.state = "TRANSFORMER_MUST_CLOSE"], "origin")
    ELSE LET e == IF c.framing = "close" THEN EndBody(c) ELSE c
             k == KillOrigin([e EXCEPT !.state = "CLOSED"])
         IN  Unregister(SetInterest(k, "client", "write"), "origin")

OriginRead ==
    LET limit  == ReadLimit(conn)
        take   == Smaller(net.oin, limit)
        paused == take = limit
        c == Received(IF paused THEN SetInterest(conn, "origin", "noop") ELSE conn, take)
        sawEof == IF paused THEN FALSE ELSE net.oeof
    IN  /\ conn.interest["origin"] = "read"
        /\ net.oin > 0 \/ net.oeof
        /\ net' = [net EXCEPT !.oin = net.oin - take]
        /\ \E p \in IF take = 0 THEN {c} ELSE ParseContent(c) :
              /\ OverlongLine(conn) => p.pbuf = c.pbuf
              /\ conn' = IF p.state # "FREED" /\ sawEof THEN OriginClosed(p) ELSE p

\* Mutant of AvailableWriteBytes: nothing is kept free for the encoding
AvailableWriteBytesAll(c) == Cap - c.resp

AvailableWriteBytes(c) ==
    IF Cap - c.resp > Reserve THEN Cap - c.resp - Reserve ELSE 0

\* each chunk read from the pipe shrinks what is available for the next one
PipeLimit(c) ==
    LET s == AvailableWriteBytes(c)
        unit == ReadSize + ChunkOverhead
    IN  ReadSize * (s \div unit) + Smaller(ReadSize, s % unit)

\* read returned 0: the filter has closed its output
FilterClosed(c) ==
    LET e == Unregister(EndBody(c), "pipeOut")
    IN  IF c.state = "TRANSFORMER_MUST_CLOSE"
        THEN [KillOrigin(e) EXCEPT !.state = "CLOSED"]
        ELSE KillTransformation(e)

TransformationRead ==
    LET limit == PipeLimit(conn)
        take  == Smaller(conn.outPipe, limit)
        paused == take = limit
        c == [Respond(conn, Chunked(take)) EXCEPT !.outPipe = conn.outPipe - take]
        r == IF paused THEN SetInterest(c, "pipeOut", "noop")
             ELSE IF conn.outEof THEN FilterClosed(c) ELSE c
    IN  /\ conn.interest["pipeOut"] = "read"
        /\ conn.outPipe > 0 \/ conn.outEof
        /\ conn' = SetInterest(r, "client", "write")
        /\ UNCHANGED net

\* tmp_buff first, then the body in pieces of ReadSize.  Of the piece that
\* does not fit, the rest goes to tmp_buff and the loop stops; a content length
\* may be reached at the end of a piece, whatever follows it.
PipeBody(c, u) ==
    LET room  == PipeCap - c.inPipe
        taken == Smaller(u.payload, ReadSize * (room \div ReadSize + 1))
    IN  IF u.payload <= room
        THEN [c EXCEPT !.inPipe = c.inPipe + u.payload, !.pbuf = u.rest,
                       !.finished = c.finished \/ u.done]
        ELSE [c EXCEPT !.inPipe = PipeCap, !.tmp = taken - room,
                       !.pbuf = IF taken = u.payload THEN u.rest ELSE c.pbuf - taken,
                       !.finished = \/ c.finished
                                    \/ u.done /\ (taken = u.payload \/ c.framing = "length")]

\* The filter's input is closed once the response has finished, even if the pipe
\* is full: the filter never gets what is left of the body.  There is such a
\* rest exactly if tmp_buff is not empty, since the loop over the body stops
\* early only when it has put something there.
TransformationWritten(c, pipeFull) ==
    LET f == IF c.finished
             THEN [Unregister(c, "pipeIn") EXCEPT !.lost = c.lost \/ c.tmp > 0]
             ELSE c
        n == IF pipeFull THEN f ELSE SetInterest(f, "pipeIn", "noop")
    IN  SetInterest(n, "origin", "read")

TransformationWrite ==
    LET sent == Smaller(conn.tmp, PipeCap - conn.inPipe)
        c == [conn EXCEPT !.tmp = conn.tmp - sent, !.inPipe = conn.inPipe + sent]
    IN  /\ conn.interest["pipeIn"] = "write"
        /\ conn.inPipe < PipeCap
        /\ UNCHANGED net
        /\ \/ /\ c.tmp > 0
              /\ conn' = TransformationWritten(c, TRUE)
           \/ /\ c.tmp = 0
              /\ \E u \in Unchunked(c) :
                    conn' = TransformationWritten(PipeBody(c, u),
                                                  u.payload > PipeCap - c.inPipe)
           \/ /\ c.tmp = 0
              /\ c.framing = "chunked"
              /\ conn' = SendError(c)

-----------------------------------------------------------------------------
(* The peers and the filter process. *)

ClientSends ==
    \E n \in 1 .. Smaller(net.cleft, SocketCap - net.cin) :
        /\ ~net.ceof
        /\ conn.state # "FREED"
        /\ net' = [net EXCEPT !.cin = net.cin + n, !.cleft = net.cleft - n]
        /\ UNCHANGED conn

ClientCloses ==
    /\ ~net.ceof
    /\ net' = [net EXCEPT !.ceof = TRUE]
    /\ UNCHANGED conn

OriginSends ==
    \E n \in 1 .. Smaller(net.oleft, SocketCap - net.oin) :
        /\ ~net.oeof
        /\ conn.interest["origin"] # "none"
        /\ net' = [net EXCEPT !.oin = net.oin + n, !.oleft = net.oleft - n]
        /\ UNCHANGED conn

OriginCloses ==
    /\ ~net.oeof
    /\ net' = [net EXCEPT !.oeof = TRUE]
    /\ UNCHANGED conn

\* a filter that copies its input to its output ...
FilterCopies ==
    \E n \in 1 .. Smaller(conn.inPipe, PipeCap - conn.outPipe) :
        /\ conn' = [conn EXCEPT !.inPipe = conn.inPipe - n, !.outPipe = conn.outPipe + n]
        /\ UNCHANGED net

\* ... and exits at the end of its input
FilterExits ==
    /\ conn.transformer
    /\ conn.interest["pipeIn"] = "none"
    /\ conn.inPipe = 0
    /\ ~conn.outEof
    /\ conn' = [conn EXCEPT !.outEof = TRUE]
    /\ UNCHANGED net

-----------------------------------------------------------------------------
\* the state the block handler of the client leaves behind
Init ==
    /\ \E n \in InitialRequests, ssl \in Tunnels :
        conn = [interest |-> [fd \in Fds |-> CASE fd = "client" -> "read"
                                               [] fd = "origin" -> "write"
                                               [] OTHER -> "none"],
                state |-> "ALIVE", ssl |-> ssl, req |-> n, resp |-> 0, pbuf |-> 0, tmp |-> 0,
                parser |-> FirstParserState(ssl), framing |-> "close",
                finished |-> FALSE, transformer |-> FALSE,
                inPipe |-> 0, outPipe |-> 0, outEof |-> FALSE,
                ended |-> 0, lost |-> FALSE]
    /\ net = [cin |-> 0, ceof |-> FALSE, cleft |-> ClientBytes,
              oin |-> 0, oeof |-> FALSE, oleft |-> OriginBytes]

Handlers ==
    \/ ClientRead
    \/ ClientWrite
    \/ OriginRead
    \/ OriginWrite
    \/ TransformationRead
    \/ TransformationWrite

Peers ==
    \/ ClientSends
    \/ ClientCloses
    \/ OriginSends
    \/ OriginCloses
    \/ FilterCopies
    \/ FilterExits

Next == Handlers \/ Peers

Spec == Init /\ [][Next]_vars

\* The selector serves every ready descriptor in every iteration, so a handler
\* that stays enabled is called; the client takes what it is sent, and the
\* filter runs.
Fairness ==
    /\ WF_vars(ClientRead)
    /\ WF_vars(ClientWrite)
    /\ WF_vars(OriginRead)
    /\ WF_vars(OriginWrite)
    /\ WF_vars(TransformationRead)
    /\ WF_vars(TransformationWrite)
    /\ WF_vars(FilterCopies)
    /\ WF_vars(FilterExits)

FairSpec == Spec /\ Fairness

-----------------------------------------------------------------------------
(* Properties. *)

\* Every field has its type.
TypeOK == conn \in Connection /\ net \in Network

\* Without a transformation no byte in a buffer is ever left without the
\* interest that will move it on: each handler re-arms the other side.
NoStrandedBytes ==
    /\ conn.resp > 0 => conn.interest["client"] = "write"
    /\ conn.req > 0 /\ conn.state = "ALIVE" => conn.interest["origin"] = "write"

\* A paused descriptor (OP_NOOP) is waiting for one that is armed to write
\* and whose handler will resume it.
PausedIsResumed ==
    /\ conn.interest["client"] = "noop" => conn.interest["origin"] = "write"
    /\ conn.interest["origin"] = "noop" => conn.interest["client"] = "write"

\* Once the origin is gone for good the client descriptor is armed to write,
\* which is the only way kill_client is reached, and nothing else is left.
ClosedIsDraining ==
    conn.state = "CLOSED" =>
        /\ conn.interest["client"] = "write"
        /\ \A fd \in Fds \ {"client"} : conn.interest[fd] = "none"

\* While the origin is closed and the filter still has to end, its output is
\* watched, or the client is armed to drain what keeps it from being read.
MustCloseIsWatched ==
    conn.state = "TRANSFORMER_MUST_CLOSE" =>
        /\ conn.interest["origin"] = "none"
        /\ conn.transformer
        /\ \/ conn.interest["pipeOut"] = "read"
           \/ conn.interest["pipeOut"] = "noop" /\ conn.interest["client"] = "write"

\* When the connection is freed no descriptor of it stays in the selector,
\* whatever the state it was killed in; the pipes are registered only with it.
NothingLeaks ==
    /\ conn.state = "FREED" => \A fd \in Fds : conn.interest[fd] = "none"
    /\ conn.interest["pipeIn"] # "none" \/ conn.interest["pipeOut"] # "none"
        => conn.transformer

\* Which descriptors a connection holds in each of its states.  Inductive; it is
\* what NothingLeaks and ClosedIsDraining rest on.
Lifecycle(c) ==
    /\ c.state = "FREED" => \A fd \in Fds : c.interest[fd] = "none"
    /\ c.state = "CLOSED" =>
          /\ c.interest["client"] = "write"
          /\ \A fd \in Fds \ {"client"} : c.interest[fd] = "none"
    /\ c.state = "TRANSFORMER_MUST_CLOSE" =>
          c.interest["client"] # "none" /\ c.interest["origin"] = "none"
    /\ c.state = "ALIVE" => c.interest["client"] # "none"
    /\ ~c.transformer =>
          c.interest["pipeIn"] = "none" /\ c.interest["pipeOut"] = "none"

\* A response gets at most one end chunk.
OneEndChunk == conn.ended <= 1

\* No byte of a response is dropped while the relay goes on.
NothingLost == ~conn.lost

\* The bytes kept free are enough for the encoding of a body read at once, as
\* "The response will likely get longer due to the chunked encoding" has it
\* (proxyOriginActiveSocket.c:175); they are with the sizes of the code: 5 + 7 * 8 <= 80.
ReserveSuffices ==
    EndChunk + ChunkOverhead * ((Cap - Reserve + ReadSize - 1) \div ReadSize) <= Reserve

\* Where bytes of a response are dropped while its connection goes on, and, if
\* ReserveSuffices, only there.  In a read of the origin: the client has not taken
\* what was read before, or the bytes begin with the head of a response, whose new
\* header the reserve does not count, or they begin the next response while the
\* filter of the last one is at work.  And where the filter's input is closed
\* because the response has finished, although the pipe is full.  So what a filter
\* returns, the rest of a body that is not filtered and the end of either always
\* fit into the response buffer, and a filter that keeps up gets all of its input.
LossHasCause ==
    [][~conn.lost /\ conn'.lost =>
        \/ /\ conn.interest["origin"] = "read" /\ net'.oin # net.oin
           /\ conn.resp > 0 \/ conn.parser = "READING_HEADER" \/ conn.finished
        \/ /\ conn.interest["pipeIn"] = "write" /\ conn'.interest["pipeIn"] = "none"
           /\ conn'.finished /\ conn'.inPipe = PipeCap]_vars

\* The relay ends after either peer has closed.
EndsAfterOriginCloses == net.oeof ~> conn.state = "FREED"
EndsAfterClientCloses == net.ceof ~> conn.state = "FREED"

\* A paused origin is read again: the wait of "Buffer full. Must wait for the
\* client/transformer to read it" (proxyOriginActiveSocket.c:131) ends.
PausedOriginResumes ==
    conn.interest["origin"] = "noop" ~> conn.interest["origin"] # "noop"

\* A connection that is alive is killed only when its client has closed or the
\* response just read was malformed, never because a buffer is full
\* ("Must wait for the origin server to read it", proxyClientActiveSocket.c:324).
\* A request head that fills the buffer is the exception: see ClientRead.
KilledForAReason ==
    [][conn.state = "ALIVE" /\ conn'.state = "FREED"
        => net.ceof \/ conn.framing = "chunked" \/ net'.oin # net.oin]_vars
=============================================================================
