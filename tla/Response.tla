------------------------------- MODULE Response -------------------------------
(***************************************************************************)
(* The parser of responses in proxyOriginActiveSocket.c, with the data:    *)
(* an origin server sends responses in arbitrary pieces, their bodies with *)
(* a length, in chunks or up to the end of the connection, and the client  *)
(* gets the head, the body and an end.  A header line is one token; the    *)
(* lines of the chunked encoding are tokens up to LF, because they are cut *)
(* where the pieces are.  The pipe to the filter may be full; the limits   *)
(* of the buffers are left out here, module Relay has them.                *)
(***************************************************************************)
EXTENDS Integers, Sequences, SequencesExt, FiniteSets, MediaType

CONSTANTS
    Cases,          \* settings, with the responses that are sent under them
    ContentTypes,   \* the content types, a sequence of them
    ReadSize,       \* what a call of read_unchunked asks for, 1000
    HexLine,        \* sizeof(beginningOfChunk), 12
    PipeCap         \* tokens the two pipes of the filter hold

\* tokens: header lines, the lines of a chunk, and data
Status(n) == <<"status", n>>
Length(n) == <<"length", n>>
Type(n) == <<"type", n>>
Chunked == <<"chunked", 0>>
Gzip == <<"gzip", 0>>
Blank == <<"blank", 0>>
Hex(n) == <<"hex", n>>
CR == <<"CR", 0>>
LF == <<"LF", 0>>
End == <<"end", 0>>         \* the chunk of no bytes that ends a body

(* What a response is: its header lines, the pieces of its body and how they *)
(* are framed; and what it looks like on the wire.                           *)
Framings == {"length", "chunked", "close", "none"}
Body(r) == FlattenSeq(r.body)
ChunkWire(c) == <<Hex(Len(c)), CR, LF>> \o c \o <<CR, LF>>
BodyWire(r) ==
    IF r.framing = "chunked"
    THEN FlattenSeq([i \in DOMAIN r.body |-> ChunkWire(r.body[i])]) \o <<Hex(0), CR, LF, CR, LF>>
    ELSE Body(r)
Wire(r) == r.lines \o <<Blank>> \o BodyWire(r)

VARIABLES
    setting,        \* the global settings of the transformation
    done,           \* the responses that are sent and delivered
    todo,           \* the responses from the current one on
    coming,         \* what has not arrived of the current one
    p,              \* the parser
    out,            \* what has been put into write_buff for the client
    pipe,           \* what the filter has been given and has not returned
    cut,            \* history: the responses whose filter was not given all
    state           \* of the connection: connection_states, or "KILLED"

vars == <<setting, done, todo, coming, p, out, pipe, cut, state>>

Lesser(a, b) == IF a < b THEN a ELSE b
Greater(a, b) == IF a > b THEN a ELSE b
Drop(s, n) == SubSeq(s, n + 1, Len(s))

\* reset_origin_data; content_type stays as it is
Reset(q) ==
    [q EXCEPT !.state = "READING_HEADER", !.buff = <<>>, !.content_length = -1,
              !.chunk_size = -1, !.chunk_bytes = -1, !.chunk_enabled = FALSE,
              !.finished = FALSE, !.status = -1, !.gzip = FALSE, !.transformed = "unknown"]

-----------------------------------------------------------------------------
(* The head. *)

\* proxy_transformation_data_init as far as it decides
Transforms(q) ==
    /\ ~q.gzip /\ q.status \in 200 .. 299
    /\ setting.on
    /\ media_type_match(setting.types, ContentTypes[q.type])

Put(q, tokens) == [q EXCEPT !.put = @ \o tokens]

\* one line of the head: lines 198 to 244
HeaderLine(q, t) ==
    CASE t[1] = "length" -> [q EXCEPT !.content_length = t[2]]
      [] t[1] = "blank" ->
            LET head == IF q.chunk_enabled THEN <<t>> ELSE <<Chunked, t>>
            IN  [Put(q, head) EXCEPT !.state = "READING_BODY",
                                     !.transformed = IF Transforms(q) THEN "yes" ELSE "no"]
      [] t[1] = "status" ->
            [Put(q, <<t>>) EXCEPT !.status = t[2],
                                  !.content_length = IF t[2] = 204 THEN 0 ELSE @]
      [] t[1] = "type" -> [Put(q, <<t>>) EXCEPT !.type = t[2]]
      [] t[1] = "chunked" -> [Put(q, <<t>>) EXCEPT !.chunk_enabled = TRUE]
      [] t[1] = "gzip" -> [Put(q, <<t>>) EXCEPT !.gzip = TRUE]

RECURSIVE ReadHeader(_)
ReadHeader(q) ==
    IF q.state = "READING_BODY" \/ q.buff = <<>> THEN q
    ELSE ReadHeader(HeaderLine([q EXCEPT !.buff = Tail(@)], Head(q.buff)))

-----------------------------------------------------------------------------
(* read_unchunked. *)

\* take at most size bytes of data out of the buffer
Take(q, size) ==
    LET n == Lesser(Len(q.buff), Greater(size, 0))
    IN  [q EXCEPT !.buff = Drop(@, n), !.got = @ \o SubSeq(q.buff, 1, n)]

\* buffer_peek_line from the read position: the line's length, 0 or -1
PeekLine(b, size) ==
    LET ends == {i \in 1 .. Lesser(Len(b), size) : b[i] = LF}
    IN  IF ends # {} THEN CHOOSE i \in ends : \A k \in ends : i <= k
        ELSE IF Len(b) > size THEN -1 ELSE 0

Fail(q) == [q EXCEPT !.failed = TRUE]

\* lines 300 to 318: CR LF after the bytes of a chunk
EndOfChunk(q) ==
    IF q.chunk_bytes # 0 THEN q
    ELSE LET n == PeekLine(q.buff, 2)
         IN  IF n = 0 THEN q
             ELSE IF n = -1 \/ q.buff[1] # CR THEN Fail(q)
             ELSE [q EXCEPT !.buff = Drop(@, n), !.chunk_bytes = -1,
                            !.finished = @ \/ q.chunk_size = 0]

\* Mutant of BeginningOfChunk: the line is peeked and stays in the buffer
BeginningOfChunkPeeked(q) ==
    IF q.chunk_bytes # -1 THEN q
    ELSE LET n == PeekLine(q.buff, HexLine)
         IN  IF n = 0 THEN q
             ELSE IF n = -1 \/ q.buff[1][1] # "hex" THEN Fail(q)
             ELSE [q EXCEPT !.chunk_size = q.buff[1][2], !.chunk_bytes = q.buff[1][2]]

\* lines 320 to 334: the size of the next chunk
BeginningOfChunk(q) ==
    IF q.chunk_bytes # -1 THEN q
    ELSE LET n == PeekLine(q.buff, HexLine)
         IN  IF n = 0 THEN q
             ELSE IF n = -1 \/ q.buff[1][1] # "hex" THEN Fail(q)
             ELSE [q EXCEPT !.buff = Drop(@, n), !.chunk_size = q.buff[1][2],
                            !.chunk_bytes = q.buff[1][2]]

\* the loop of lines 299 to 351
RECURSIVE ReadChunks(_, _)
ReadChunks(q, size) ==
    LET ended == EndOfChunk(q)
        begun == IF ended.failed THEN ended ELSE BeginningOfChunk(ended)
        taken == Take(begun, Lesser(size, begun.chunk_bytes))
        n == Len(taken.got) - Len(q.got)
    IN  IF begun.failed THEN begun
        ELSE IF begun.chunk_bytes = 0 /\ ended.chunk_bytes = -1 THEN ReadChunks(begun, size)
        ELSE IF n = 0 THEN taken
        ELSE ReadChunks([taken EXCEPT !.chunk_bytes = @ - n], size - n)

\* lines 287 to 290
ReadLength(q) ==
    LET taken == Take(q, ReadSize)
        left == q.content_length - Len(taken.got)
    IN  [taken EXCEPT !.content_length = left, !.finished = @ \/ left = 0]

read_unchunked(q) ==
    LET fresh == [q EXCEPT !.got = <<>>]
    IN  IF q.content_length # -1 THEN ReadLength(fresh)
        ELSE IF ~q.chunk_enabled THEN Take(fresh, ReadSize)
        ELSE ReadChunks(fresh, ReadSize)

\* calls of read_unchunked until it returns nothing or an error; what an error
\* comes after is lost
RECURSIVE ReadBody(_)
ReadBody(q) ==
    LET r == read_unchunked(q)
    IN  IF r.failed THEN r
        ELSE IF r.got = <<>> THEN r
        ELSE ReadBody(Put(r, r.got))

-----------------------------------------------------------------------------
(* The body goes to the filter. *)

\* The second loop of proxy_transformation_write, from the piece r that was read: as
\* much as there is room for; of the piece that does not fit, the rest goes to tmp_buff.
RECURSIVE GivePieces(_, _)
GivePieces(r, room) ==
    LET n == Lesser(Len(r.got), room)
        given == [Put(r, SubSeq(r.got, 1, n)) EXCEPT !.tmp = Drop(r.got, n)]
    IN  IF r.failed \/ r.got = <<>> THEN r
        ELSE IF given.tmp # <<>> THEN given
        ELSE GivePieces(read_unchunked(given), room - n)

\* Mutant of Give: what the pipe had no room for is forgotten
GiveForgets(q, room) == GivePieces(read_unchunked([q EXCEPT !.tmp = <<>>]), room)

\* both loops: what is in tmp_buff first, and the body if all of that fits
Give(q, room) ==
    LET n == Lesser(Len(q.tmp), room)
        rest == [Put(q, SubSeq(q.tmp, 1, n)) EXCEPT !.tmp = Drop(@, n)]
    IN  IF rest.tmp # <<>> THEN rest ELSE GivePieces(read_unchunked(rest), room - n)

-----------------------------------------------------------------------------
(* The handlers. *)

filtered == p.filter # "none"

\* kill_client by send_error
Refuse ==
    /\ state' = "KILLED"
    /\ p' = [p EXCEPT !.filter = "none", !.tmp = <<>>]
    /\ UNCHANGED <<out, pipe>>

\* parse_content of what is in the buffer
Parse(q) ==
    LET head == ReadHeader(q)
        begins == q.state = "READING_HEADER" /\ head.transformed = "yes"
        body == IF head.state = "READING_BODY" /\ head.transformed = "no" THEN ReadBody(head)
                ELSE head
        end == IF body.transformed = "no" /\ body.finished THEN <<End>> ELSE <<>>
    IN  IF body.failed THEN Refuse
        ELSE /\ p' = [body EXCEPT !.put = <<>>, !.got = <<>>,
                                  !.filter = IF begins \/ filtered THEN "write" ELSE "none"]
             /\ out' = out \o body.put \o end
             /\ UNCHANGED <<pipe, state>>

\* the response that is being read
This == Len(done) + 1

OriginRead ==
    /\ state = "ALIVE"
    /\ \E n \in 1 .. Len(coming) :
        LET q == IF p.finished THEN Reset(p) ELSE p
        IN  /\ coming' = Drop(coming, n)
            /\ Parse([q EXCEPT !.buff = @ \o SubSeq(coming, 1, n)])
    /\ UNCHANGED <<setting, done, todo, cut>>

\* set_interest changes nothing for the filter's input once that is closed
Resumed(filter) == IF filter = "closed" THEN "closed" ELSE "write"

\* Mutant of OriginClosed: every body is ended
OriginClosedEnds ==
    /\ state = "ALIVE"
    /\ IF filtered
       THEN /\ state' = "TRANSFORMER_MUST_CLOSE"
            /\ p' = [p EXCEPT !.finished = TRUE, !.filter = Resumed(@)]
            /\ UNCHANGED out
       ELSE /\ state' = "CLOSED"
            /\ out' = out \o (IF p.finished THEN <<>> ELSE <<End>>)
            /\ UNCHANGED p
    /\ UNCHANGED <<setting, done, todo, coming, pipe, cut>>

\* the origin may close at any time
OriginClosed ==
    /\ state = "ALIVE"
    /\ IF filtered
       THEN /\ state' = "TRANSFORMER_MUST_CLOSE"
            /\ p' = [p EXCEPT !.finished = TRUE, !.filter = Resumed(@)]
            /\ UNCHANGED out
       ELSE /\ state' = "CLOSED"
            /\ out' = out \o (IF ~p.chunk_enabled /\ p.content_length = -1 THEN <<End>> ELSE <<>>)
            /\ UNCHANGED p
    /\ UNCHANGED <<setting, done, todo, coming, pipe, cut>>

\* proxy_transformation_write: if the pipe is full the rest waits, unless the
\* response has finished: then the pipe is closed, and what is left is never given
TransformationWrite ==
    /\ p.filter = "write" /\ Len(pipe) < PipeCap
    /\ LET body == Give(p, PipeCap - Len(pipe))
           full == body.tmp # <<>>
       IN  IF body.failed THEN Refuse /\ UNCHANGED cut
           ELSE /\ pipe' = pipe \o body.put
                /\ p' = [body EXCEPT !.put = <<>>, !.got = <<>>,
                                     !.filter = IF body.finished THEN "closed"
                                                ELSE IF full THEN "write" ELSE "noop"]
                /\ cut' = IF body.finished /\ full THEN cut \cup {This} ELSE cut
                /\ UNCHANGED <<out, state>>
    /\ UNCHANGED <<setting, done, todo, coming>>

\* proxy_transformation_read: a piece of the filter's output, which is its input,
\* or the end of it
TransformationRead ==
    /\ filtered
    /\ \/ \E n \in 1 .. Len(pipe) :
            /\ out' = out \o SubSeq(pipe, 1, n)
            /\ pipe' = Drop(pipe, n)
            /\ UNCHANGED <<p, state>>
       \/ /\ p.filter = "closed" /\ pipe = <<>>
          /\ out' = out \o <<End>>
          /\ p' = [p EXCEPT !.filter = "none", !.tmp = <<>>]
          /\ state' = IF state = "TRANSFORMER_MUST_CLOSE" THEN "CLOSED" ELSE state
          /\ UNCHANGED pipe
    /\ UNCHANGED <<setting, done, todo, coming, cut>>

\* the client has got the end of a response, and has asked for the next one
NextResponse ==
    /\ state = "ALIVE" /\ coming = <<>> /\ p.finished /\ ~filtered
    /\ Len(todo) > 1
    /\ done' = Append(done, Head(todo)) /\ todo' = Tail(todo)
    /\ coming' = Wire(todo[2])
    /\ UNCHANGED <<setting, p, out, pipe, cut, state>>

Init ==
    /\ \E c \in Cases : setting = c.setting /\ todo = c.responses
    /\ done = <<>> /\ coming = Wire(todo[1])
    \* content_type is not initialised: it matters to a response that has none
    /\ \E type \in IF \E i \in DOMAIN todo[1].lines : todo[1].lines[i][1] = "type" THEN {1}
                  ELSE DOMAIN ContentTypes :
         p = Reset([state |-> "READING_HEADER", buff |-> <<>>, content_length |-> -1,
                    chunk_size |-> -1, chunk_bytes |-> -1, chunk_enabled |-> FALSE,
                    finished |-> FALSE, status |-> -1, gzip |-> FALSE, type |-> type,
                    transformed |-> "unknown", filter |-> "none", failed |-> FALSE,
                    put |-> <<>>, got |-> <<>>, tmp |-> <<>>])
    /\ out = <<>> /\ pipe = <<>> /\ cut = {} /\ state = "ALIVE"

Next ==
    \/ OriginRead
    \/ OriginClosed
    \/ TransformationWrite
    \/ TransformationRead
    \/ NextResponse

Spec == Init /\ [][Next]_vars

-----------------------------------------------------------------------------
(* Properties. *)

\* what the client is given of r besides its end: all lines but the length, a line
\* that says that the body is chunked, and the body
Given(r) ==
    SelectSeq(r.lines, LAMBDA t : t[1] # "length")
        \o (IF r.framing = "chunked" THEN <<>> ELSE <<Chunked>>) \o <<Blank>> \o Body(r)
Current == todo[1]
Responses == done \o todo

\* what is in out up to its first n tokens: the ends, and what follows the last of them
EndsIn(n) == {i \in 1 .. n : out[i] = End}
Since(n) ==
    LET ends == EndsIn(n)
        last == IF ends = {} THEN 0 ELSE CHOOSE i \in ends : \A k \in ends : k <= i
    IN  SubSeq(out, last + 1, n)

\* However the responses are cut into pieces, what the client gets between one end
\* and the next is the beginning of one of them, byte by byte and in their order,
\* with nothing of the framing in the body, through a filter or not; bytes of the
\* body that look like the encoding's lines are bytes of the body.
BodyIsKept ==
    \A n \in DOMAIN out :
        out[n] # End =>
            LET k == Cardinality(EndsIn(n)) + 1
            IN  k <= This /\ IsPrefix(Since(n), Given(Responses[k]))

\* the last end was written because the origin closed: the end of a body without
\* a framing, of a head that was cut, or of the filter's output
EndedByClose ==
    state = "CLOSED" /\ (Current.framing = "close" \/ p.state = "READING_HEADER"
                            \/ p.transformed = "yes")

\* A response is ended once, after all of it: a body that the origin breaks off
\* is not passed for a whole one, unless its framing or a filter hides that, or
\* the filter's input was closed while the pipe was full.
EndMeansWhole ==
    \A i \in DOMAIN out :
        out[i] = End /\ ~(i = Len(out) /\ EndedByClose) =>
            LET k == Cardinality(EndsIn(i))
            IN  k <= This /\ (k \in cut \/ Since(i - 1) = Given(Responses[k]))

\* A response that has arrived is delivered with its end, whether it is seen at the
\* last byte, at a length of 0 or at the close; it is never refused as malformed
\* ("Unexpected body format", proxyOriginActiveSocket.c:148).  The exception is a
\* response that finishes while the pipe to its filter is full.
AllIsDelivered ==
    /\ state # "KILLED"
    /\ coming = <<>> /\ p.filter \in {"none", "noop"} /\ pipe = <<>> /\ This \notin cut
        => LET n == Len(out)
           IN  IF out[n] = End THEN Cardinality(EndsIn(n)) = This /\ Since(n - 1) = Given(Current)
               ELSE Current.framing = "close" /\ state = "ALIVE" /\ Since(n) = Given(Current)

\* A response that says its type is transformed exactly when its type is in the
\* list that is set, its status is a success and it is not compressed.  One that
\* does not say its type is taken for the type of the last one that did; and an
\* empty list still holds what was behind its first character.
TransformedByType ==
    LET has(t) == \E i \in DOMAIN Current.lines : Current.lines[i] = t
    IN  \A n \in DOMAIN ContentTypes :
            /\ has(Type(n)) /\ p.transformed # "unknown" /\ coming # Wire(Current)
            /\ setting.types[1] # NUL
            => (p.transformed = "yes" <=>
                    /\ setting.on /\ ~has(Gzip) /\ \E s \in 200 .. 299 : has(Status(s))
                    /\ Listed(setting.types, ContentTypes[n]))
=============================================================================
