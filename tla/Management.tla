------------------------------ MODULE Management ------------------------------
(***************************************************************************)
(* protocolV1.c, the management protocol: the sessions of the clients that *)
(* connect to the management port, the parser that takes a request apart   *)
(* as its pieces arrive, and the settings all sessions share.  A request   *)
(* is a header (version, structure) and a structure; names and arguments   *)
(* end with a zero byte.  The main thread serves one descriptor at a time; *)
(* "busy" is the one whose read handler runs.  The clients are             *)
(* client_example: they send a request, in several sends, and wait for the *)
(* answer before the next; they may also hang up at any time.              *)
(***************************************************************************)
EXTENDS Integers, Sequences, FiniteSets

CONSTANTS
    Clients, None,
    Users,              \* configUsers.h: the password of each name
    Requests,           \* what each client may ask for
    Asks,               \* how often each client may ask, a bound
    Quitters,           \* the clients that may hang up, a bound
    Counts,             \* values of the counters of proxySettings.h
    BufferSpace,        \* bytes a buffer holds, 7999
    PieceSize,          \* INTERNAL_BUFFER_SIZE, 1000
    NameSize,           \* of username and password, 50
    ArgumentSize,       \* of media and command, 1000
    FieldSize,          \* of media_types and transformation_command, 500
    ErrorSize,          \* of transformation_error behind them, 100
    AnswerSize          \* of the strings client_example is told, 200

ASSUME ManagementAssumption ==
    /\ \A c \in Clients : None \notin Requests[c]
    /\ BufferSpace \in Nat /\ PieceSize \in Nat \ {0}
    /\ NameSize \in Nat /\ ArgumentSize \in Nat
    /\ FieldSize \in Nat /\ ErrorSize \in Nat /\ AnswerSize \in Nat
    /\ Asks \in [Clients -> Nat]
    /\ Counts \subseteq 0 .. 255
    /\ ArgumentSize <= 2 * FieldSize
    /\ FieldSize + ArgumentSize + 2 <= BufferSpace

VARIABLES
    settings,       \* media_types, transformation_command and _state of global_settings
    up,             \* the process runs
    busy,           \* the client whose read handler runs, or None
    watched,        \* the interest of each session, or "closed"
    loggedIn, expected, readBuffer, writeBuffer,    \* protocol_data_v1
    request,        \* the call of client_example each client is in, or None
    told,           \* what it printed last
    gone,           \* the clients that have hung up
    asks,           \* how often each may still ask
    upstream,       \* bytes each client has sent, not received yet
    downstream      \* bytes it was sent

session == <<busy, watched, loggedIn, expected, readBuffer, writeBuffer>>
client == <<request, told, gone, asks>>
vars == <<settings, up, session, client, upstream, downstream>>

LOGIN == 0
METRICS == 1
TRANSFORMATIONS == 2
HEADER == 3
PERMISSION_DENIED == 0
OK == 2
SET_STATUS == 0
GET_STATUS == 1

\* the codes of the requests for the two strings of the settings
SetCode(name) == IF name = "media" THEN 2 ELSE 4
GetCode(name) == IF name = "media" THEN 3 ELSE 5
Strings == {"media", "command"}

Lesser(a, b) == IF a < b THEN a ELSE b
Drop(s, n) == SubSeq(s, n + 1, Len(s))

\* The bytes a call of client_example sends.
Bytes(q) ==
    CASE q.op = "login"  -> <<1, LOGIN>> \o q.name \o <<0>> \o q.word \o <<0>>
      [] q.op = "metric" -> <<1, METRICS, q.code>>
      [] q.op = "set" /\ q.what = "status" -> <<1, TRANSFORMATIONS, SET_STATUS, q.value>>
      [] q.op = "get" /\ q.what = "status" -> <<1, TRANSFORMATIONS, GET_STATUS>>
      [] q.op = "set" /\ q.what \in Strings ->
            <<1, TRANSFORMATIONS, SetCode(q.what)>> \o q.value \o <<0>>
      [] q.op = "get" /\ q.what \in Strings -> <<1, TRANSFORMATIONS, GetCode(q.what)>>
      [] q.op = "odd" -> q.bytes

\* Bytes in which the parser does not come to the end of a request.
NoRequest(b) ==
    Len(b) > 1 /\ b[1] = 1 =>
        /\ b[2] \notin {METRICS, HEADER}
        /\ b[2] = LOGIN => \A i, j \in 3 .. Len(b) : b[i] = 0 /\ b[j] = 0 => i = j
        /\ b[2] = TRANSFORMATIONS /\ Len(b) > 2 =>
              \/ b[3] \notin 0 .. 5
              \/ b[3] = SET_STATUS /\ Len(b) = 3
              \/ /\ b[3] \in {SetCode(name) : name \in Strings}
                 /\ \A i \in 4 .. Lesser(Len(b), 3 + ArgumentSize) : b[i] # 0

\* What a client of client_example may send: names and arguments have no zero
\* byte, and what is odd is no request.
Text == Seq(1 .. 255)
IsRequest(q) ==
    \/ q.op = "login" /\ q.name \in Text /\ q.word \in Text
    \/ q.op = "metric" /\ q.code \in 0 .. 255
    \/ q.op = "set" /\ q.what = "status" /\ q.value \in 0 .. 255
    \/ q.op = "set" /\ q.what \in Strings /\ q.value \in Text
    \/ q.op = "get" /\ q.what \in Strings \cup {"status"}
    \/ q.op = "odd" /\ q.bytes \in Seq(0 .. 255) /\ NoRequest(q.bytes)

ASSUME RequestAssumption == \A c \in Clients : \A q \in Requests[c] : IsRequest(q)

\* The arrays of client_example have the sizes of those the server reads into; a
\* request of another version is no more than its header.  A longer command would
\* be written over the status and the counters as well.
Fits(q) ==
    /\ q.op = "login" => Len(q.name) < NameSize /\ Len(q.word) < NameSize
    /\ q.op = "set" /\ q.what \in Strings => Len(q.value) < ArgumentSize
    /\ q.op = "set" /\ q.what = "command" => Len(q.value) < FieldSize + ErrorSize
    /\ q.op = "odd" /\ Len(q.bytes) > 2 => q.bytes[1] = 1

\* None stands for no client and for no answer.
ASSUME NoneAssumption ==
    /\ None \notin Clients
    /\ None \notin [code : {"OK", "CUT", "PERMISSION_DENIED"}, value : {None} \cup 0 .. 255 \cup Text]

ASSUME FieldAssumption ==
    /\ 2 * NameSize <= BufferSpace
    /\ \A c \in Clients : \A q \in Requests[c] : Fits(q)

-----------------------------------------------------------------------------
(* The calls the handlers make. *)

\* buffer_write_data: what does not fit is dropped
Put(s, bytes) == s \o SubSeq(bytes, 1, Lesser(Len(bytes), BufferSpace - Len(s)))

\* buffer_peek_until_null of s: the bytes up to a zero byte, 0 or -1
PeekUntilNull(s, size) ==
    LET ends == {i \in 1 .. Lesser(Len(s), size) : s[i] = 0}
    IN  IF ends # {} THEN CHOOSE i \in ends : \A j \in ends : i <= j
        ELSE IF Len(s) > size THEN -1 ELSE 0

\* selector_set_interest, of a descriptor that may be unregistered already
SetInterest(c, i) ==
    watched' = [watched EXCEPT ![c] = IF @ = "closed" THEN @ ELSE i]

\* kill_socket frees two pointers of a fresh allocation, whatever they hold,
\* and closes the descriptor; the caller goes on with the session
KillSocket(c) ==
    /\ watched' = [watched EXCEPT ![c] = "closed"]
    /\ up' \in BOOLEAN

\* a handler returns; the session of a closed descriptor is not used again
Return(c) ==
    /\ busy' = None
    /\ IF watched'[c] = "closed"
       THEN /\ loggedIn' = [loggedIn EXCEPT ![c] = FALSE]
            /\ expected' = [expected EXCEPT ![c] = HEADER]
            /\ readBuffer' = [readBuffer EXCEPT ![c] = <<>>]
            /\ writeBuffer' = [writeBuffer EXCEPT ![c] = <<>>]
            /\ upstream' = [upstream EXCEPT ![c] = <<>>]
       ELSE UNCHANGED <<loggedIn, expected, readBuffer, writeBuffer, upstream>>

\* the bytes of an answer, and the next request is awaited
Respond(c, bytes) ==
    /\ writeBuffer' = [writeBuffer EXCEPT ![c] = Put(@, bytes)]
    /\ expected' = [expected EXCEPT ![c] = HEADER]

Consume(c, n) == readBuffer' = [readBuffer EXCEPT ![c] = Drop(@, n)]

-----------------------------------------------------------------------------
(* The read handler: it receives once and reads structures while it finds  *)
(* one that is complete.                                                   *)

\* config_passive_socket_read
Accept(c) ==
    /\ up /\ busy = None /\ watched[c] = "none"
    /\ watched' = [watched EXCEPT ![c] = "read"]
    /\ UNCHANGED <<settings, up, busy, loggedIn, expected, readBuffer, writeBuffer, client,
                   upstream, downstream>>

Space(c) == BufferSpace - Len(readBuffer[c])

Receive(c) ==
    /\ up /\ busy = None /\ watched[c] = "read"
    /\ \E n \in 1 .. Lesser(PieceSize, Lesser(Space(c), Len(upstream[c]))) :
        /\ readBuffer' = [readBuffer EXCEPT ![c] = @ \o SubSeq(upstream[c], 1, n)]
        /\ upstream' = [upstream EXCEPT ![c] = Drop(@, n)]
    /\ busy' = c
    /\ UNCHANGED <<settings, up, watched, loggedIn, expected, writeBuffer, client, downstream>>

\* recv returns 0: the client has hung up, or the buffer is full
ReceiveNothing(c) ==
    /\ up /\ busy = None /\ watched[c] = "read"
    /\ IF upstream[c] = <<>> THEN c \in gone ELSE Space(c) = 0
    /\ KillSocket(c)
    /\ busy' = c
    /\ UNCHANGED <<settings, loggedIn, expected, readBuffer, writeBuffer, client, upstream,
                   downstream>>

\* read_structure finds what it expects at the front of the buffer
Reads(c, structure, length) ==
    up /\ busy = c /\ expected[c] = structure /\ Len(readBuffer[c]) >= length

\* another version closes the connection, and is read on all the same
ReadHeader(c) ==
    /\ Reads(c, HEADER, 2)
    /\ Consume(c, 2)
    /\ expected' = [expected EXCEPT ![c] = readBuffer[c][2]]
    /\ IF readBuffer[c][1] # 1 THEN KillSocket(c) ELSE UNCHANGED <<watched, up>>
    /\ UNCHANGED <<settings, busy, loggedIn, writeBuffer, client, upstream, downstream>>

\* Mutant of Names: the second result is not looked at
NamesFirst(s) ==
    LET n == PeekUntilNull(s, NameSize)
        m == PeekUntilNull(IF n > 0 THEN Drop(s, n) ELSE s, NameSize)
    IN  [complete |-> n > 0, name |-> SubSeq(s, 1, n - 1),
         word |-> SubSeq(s, n + 1, n + m - 1), length |-> n + m]

\* the two names at the front of the buffer, when both are complete
Names(s) ==
    LET n == PeekUntilNull(s, NameSize)
        m == PeekUntilNull(IF n > 0 THEN Drop(s, n) ELSE s, NameSize)
    IN  [complete |-> n > 0 /\ m > 0, name |-> SubSeq(s, 1, n - 1),
         word |-> SubSeq(s, n + 1, n + m - 1), length |-> n + m]

\* Mutant of login: the session keeps waiting for input
loginKeepsReading(c) ==
    /\ Reads(c, LOGIN, 0)
    /\ LET names == Names(readBuffer[c])
           right == names.name \in DOMAIN Users /\ Users[names.name] = names.word
       IN  /\ names.complete
           /\ Consume(c, names.length)
           /\ loggedIn' = [loggedIn EXCEPT ![c] = @ \/ right]
           /\ Respond(c, IF right THEN <<OK>> ELSE <<PERMISSION_DENIED>>)
    /\ UNCHANGED <<settings, up, busy, watched, client, upstream, downstream>>

login(c) ==
    /\ Reads(c, LOGIN, 0)
    /\ LET names == Names(readBuffer[c])
           right == names.name \in DOMAIN Users /\ Users[names.name] = names.word
       IN  /\ names.complete
           /\ Consume(c, names.length)
           /\ loggedIn' = [loggedIn EXCEPT ![c] = @ \/ right]
           /\ Respond(c, IF right THEN <<OK>> ELSE <<PERMISSION_DENIED>>)
    /\ SetInterest(c, "write")
    /\ UNCHANGED <<settings, up, busy, client, upstream, downstream>>

\* the four bytes of a uint32_t
Word(v) == <<v, 0, 0, 0>>

metrics(c) ==
    /\ Reads(c, METRICS, 1)
    /\ loggedIn[c]
    /\ Consume(c, 1)
    /\ \E v \in Counts : Respond(c, <<OK>> \o Word(v))
    /\ IF readBuffer[c][1] \in 0 .. 2
       THEN SetInterest(c, "write") /\ UNCHANGED up
       ELSE KillSocket(c)
    /\ UNCHANGED <<settings, busy, loggedIn, client, upstream, downstream>>

\* expectedStructureIndex stays METRICS
metricsDenied(c) ==
    /\ Reads(c, METRICS, 1)
    /\ ~loggedIn[c]
    /\ Consume(c, 1)
    /\ writeBuffer' = [writeBuffer EXCEPT ![c] = Put(@, <<PERMISSION_DENIED>>)]
    /\ SetInterest(c, "write")
    /\ UNCHANGED <<settings, up, busy, loggedIn, expected, client, upstream, downstream>>

\* a transformations request of type code and n bytes
Transforms(c, code, n) ==
    /\ Reads(c, TRANSFORMATIONS, n) /\ n > 0
    /\ readBuffer[c][1] = code
    /\ Consume(c, n)
    /\ SetInterest(c, "write")
    /\ UNCHANGED <<up, busy, loggedIn, client, upstream, downstream>>

\* Mutant of setStatus: the login is only looked at for the answer
setStatusFirst(c) ==
    /\ Transforms(c, SET_STATUS, 2)
    /\ LET v == readBuffer[c][2]
       IN  /\ settings' = IF v \in {0, 1} THEN [settings EXCEPT !.status = v] ELSE settings
           /\ Respond(c, IF loggedIn[c] /\ v \in {0, 1} THEN <<OK>> ELSE <<PERMISSION_DENIED>>)

setStatus(c) ==
    /\ Transforms(c, SET_STATUS, 2)
    /\ LET v == readBuffer[c][2]
           granted == loggedIn[c] /\ v \in {0, 1}
       IN  /\ settings' = IF granted THEN [settings EXCEPT !.status = v] ELSE settings
           /\ Respond(c, IF granted THEN <<OK>> ELSE <<PERMISSION_DENIED>>)

getStatus(c) ==
    /\ Transforms(c, GET_STATUS, 1)
    /\ Respond(c, IF loggedIn[c] THEN <<OK, settings.status>> ELSE <<PERMISSION_DENIED>>)
    /\ UNCHANGED settings

\* the length of the string after the type, or 0 or -1
Argument(c) == PeekUntilNull(Drop(readBuffer[c], 1), ArgumentSize)

\* strcpy into the field of a string.  What does not fit into media_types goes on
\* in transformation_command, the field behind it, and such a string ends where
\* that one does; what does not fit there goes to transformation_error.
Copied(name, v) ==
    IF name = "media"
    THEN [settings EXCEPT !.media = v,
                          !.command = IF Len(v) < FieldSize THEN @ ELSE Drop(v, FieldSize)]
    ELSE [settings EXCEPT !.command = v,
                          !.media = IF Len(@) < FieldSize THEN @ ELSE SubSeq(@, 1, FieldSize) \o v]

\* setMediaTypes and setTransformationCommand
setString(c, name) ==
    LET n == Argument(c)
    IN  /\ n > 0
        /\ Transforms(c, SetCode(name), 1 + n)
        /\ settings' = IF loggedIn[c] THEN Copied(name, SubSeq(readBuffer[c], 2, n)) ELSE settings
        /\ Respond(c, IF loggedIn[c] THEN <<OK>> ELSE <<PERMISSION_DENIED>>)

\* getMediaTypes and getTransformationCommand
getString(c, name) ==
    /\ Transforms(c, GetCode(name), 1)
    /\ Respond(c, IF loggedIn[c] THEN <<OK>> \o settings[name] \o <<0>> ELSE <<PERMISSION_DENIED>>)
    /\ UNCHANGED settings

\* an argument that is too long or a type that is not known closes the
\* connection; nothing of it is taken
WrongType(c) == readBuffer[c][1] \notin 0 .. 5
TakesString(c) == readBuffer[c][1] \in {SetCode(name) : name \in Strings}
TooLong(c) == TakesString(c) /\ Argument(c) = -1

transformationsFails(c) ==
    /\ Reads(c, TRANSFORMATIONS, 1)
    /\ WrongType(c) \/ TooLong(c)
    /\ KillSocket(c)
    /\ Return(c)
    /\ UNCHANGED <<settings, client, downstream>>

\* a structure that is not known: the connection is closed again and again
UnknownStructure(c) == expected[c] \notin {LOGIN, METRICS, TRANSFORMATIONS, HEADER}

readUnknown(c) ==
    /\ up /\ busy = c /\ UnknownStructure(c)
    /\ KillSocket(c)
    /\ UNCHANGED <<settings, busy, loggedIn, expected, readBuffer, writeBuffer, client, upstream,
                   downstream>>

\* what is expected has not come yet
Incomplete(c) ==
    LET n == Len(readBuffer[c])
    IN  CASE expected[c] = HEADER -> n < 2
          [] expected[c] = LOGIN -> ~Names(readBuffer[c]).complete
          [] expected[c] = METRICS -> n < 1
          [] expected[c] = TRANSFORMATIONS /\ n = 0 -> TRUE
          [] expected[c] = TRANSFORMATIONS /\ n > 0 ->
                CASE readBuffer[c][1] = SET_STATUS -> n < 2
                  [] TakesString(c) -> Argument(c) = 0
                  [] OTHER -> FALSE
          [] OTHER -> FALSE

ReadReturns(c) ==
    /\ up /\ busy = c /\ Incomplete(c)
    /\ UNCHANGED watched /\ Return(c)
    /\ UNCHANGED <<settings, up, client, downstream>>

ReadStructure(c) ==
    \/ ReadHeader(c)
    \/ login(c)
    \/ metrics(c)
    \/ metricsDenied(c)
    \/ setStatus(c)
    \/ getStatus(c)
    \/ \E name \in Strings : setString(c, name) \/ getString(c, name)
    \/ transformationsFails(c)
    \/ readUnknown(c)
    \/ ReadReturns(c)

-----------------------------------------------------------------------------
(* The write handler. *)

Write(c) ==
    /\ up /\ busy = None /\ watched[c] = "write"
    /\ downstream' = [downstream EXCEPT ![c] = @ \o writeBuffer[c]]
    /\ writeBuffer' = [writeBuffer EXCEPT ![c] = <<>>]
    /\ SetInterest(c, "read")
    /\ UNCHANGED <<settings, up, busy, loggedIn, expected, readBuffer, client, upstream>>

\* a send to a client that has hung up
WriteFails(c) ==
    /\ up /\ busy = None /\ watched[c] = "write" /\ c \in gone
    /\ KillSocket(c) /\ Return(c)
    /\ UNCHANGED <<settings, client, downstream>>

-----------------------------------------------------------------------------
(* client_example: findCommand calls one of its functions. *)

\* What a client does that has left the rest of an answer is not followed: the
\* empty downstream is a bound.
Ask(c) ==
    /\ up /\ request[c] = None /\ c \notin gone /\ asks[c] > 0 /\ downstream[c] = <<>>
    /\ \E q \in Requests[c] :
        /\ request' = [request EXCEPT ![c] = q]
        /\ upstream' = [upstream EXCEPT ![c] = @ \o Bytes(q)]
    /\ told' = [told EXCEPT ![c] = None]
    /\ asks' = [asks EXCEPT ![c] = @ - 1]
    /\ UNCHANGED <<settings, up, session, gone, downstream>>

\* The value that follows OK, and how many bytes the client takes for it: of a
\* string it shows the first AnswerSize, and takes one more.
Zero(s) == CHOOSE i \in 1 .. Len(s) : s[i] = 0 /\ \A j \in 1 .. i - 1 : s[j] # 0

Value(q, s) ==
    CASE q.op = "metric" -> [value |-> s[1], length |-> 4]
      [] q.op = "get" /\ q.what = "status" -> [value |-> s[1], length |-> 1]
      [] q.op = "get" /\ q.what \in Strings ->
            [value |-> SubSeq(s, 1, Lesser(Zero(s) - 1, AnswerSize)),
             length |-> Lesser(Zero(s), AnswerSize + 1)]
      [] OTHER -> [value |-> None, length |-> 0]

\* the string is longer than what the client takes
IsCut(q, s) == q.op = "get" /\ q.what \in Strings /\ Zero(s) - 1 > AnswerSize

\* What the client makes of the bytes it gets; "CUT" marks an OK with the
\* beginning of a longer string.
Told(q, s) ==
    IF s[1] = OK THEN [code |-> IF IsCut(q, Tail(s)) THEN "CUT" ELSE "OK",
                       value |-> Value(q, Tail(s)).value]
    ELSE [code |-> "PERMISSION_DENIED", value |-> None]

Learn(c) ==
    /\ up /\ request[c] # None /\ c \notin gone /\ downstream[c] # <<>>
    /\ LET q == request[c]
           s == downstream[c]
       IN  /\ told' = [told EXCEPT ![c] = Told(q, s)]
           /\ downstream' = [downstream EXCEPT ![c] =
                  Drop(@, 1 + IF s[1] = OK THEN Value(q, Tail(s)).length ELSE 0)]
    /\ request' = [request EXCEPT ![c] = None]
    /\ UNCHANGED <<settings, up, session, gone, asks, upstream>>

\* the end of the client, between two of its sends or after the last
HangUp(c) ==
    /\ up /\ c \notin gone /\ c \in Quitters
    /\ gone' = gone \cup {c}
    /\ upstream' \in {upstream, [upstream EXCEPT ![c] = <<>>]}
    /\ UNCHANGED <<settings, up, session, request, told, asks, downstream>>

-----------------------------------------------------------------------------
Init ==
    /\ settings = [status |-> 1, media |-> <<>>, command |-> <<>>]
    /\ up = TRUE /\ busy = None
    /\ watched = [c \in Clients |-> "none"]
    /\ loggedIn = [c \in Clients |-> FALSE]
    /\ expected = [c \in Clients |-> HEADER]
    /\ readBuffer = [c \in Clients |-> <<>>]
    /\ writeBuffer = readBuffer /\ upstream = readBuffer /\ downstream = readBuffer
    /\ request = [c \in Clients |-> None] /\ told = request
    /\ gone = {}
    /\ asks = Asks

Handlers(c) ==
    \/ Accept(c)
    \/ Receive(c)
    \/ ReceiveNothing(c)
    \/ Write(c)
    \/ WriteFails(c)

Client(c) ==
    \/ Ask(c)
    \/ Learn(c)
    \/ HangUp(c)

Next == \E c \in Clients : Handlers(c) \/ ReadStructure(c) \/ Client(c)

Spec == Init /\ [][Next]_vars

\* A handler runs to its end, the selector serves every descriptor that stays
\* ready (EveryEventIsTaken of Selector), and a client reads its answer.
Fairness ==
    \A c \in Clients :
        /\ WF_vars(ReadStructure(c))
        /\ SF_vars(Handlers(c))
        /\ WF_vars(Learn(c))

FairSpec == Spec /\ Fairness

-----------------------------------------------------------------------------
(* Properties. *)

Live(c) == watched[c] # "closed"

\* the parser waits for metric codes for ever
Lost(c) == Live(c) /\ expected[c] = METRICS /\ ~loggedIn[c]

\* what the server has of a request and what is on the way, and the answer
Incoming(c) == readBuffer[c] \o upstream[c]
Outgoing(c) == downstream[c] \o writeBuffer[c]

\* the last answer was a string of which the client has taken the beginning only
CutShort(c) == told[c] # None /\ told[c].code = "CUT"

\* The parser stays in step with its client, in whatever pieces the requests
\* arrive: of an idle client nothing is left anywhere; of a request that is
\* not answered yet everything is still to be read but the header the parser
\* remembers, and nothing of another; an answered one has been read to its end.
\* Two get out of step: the parser, with a client that was denied a metric
\* (protocolV1.c:149), and a client that is told a string of more than AnswerSize
\* bytes, whose rest it would take for the next answer (clientMain.c:183, 251).
InStep == \A c \in Clients :
    Live(c) /\ ~Lost(c) /\ c \notin gone =>
        \/ /\ request[c] = None /\ Incoming(c) = <<>> /\ expected[c] = HEADER
           /\ Outgoing(c) # <<>> => CutShort(c)
        \/ /\ request[c] # None /\ Outgoing(c) = <<>>
           /\ Bytes(request[c]) =
                  (IF expected[c] = HEADER THEN <<>> ELSE <<1, expected[c]>>) \o Incoming(c)
        \/ /\ request[c] # None /\ Outgoing(c) # <<>>
           /\ Incoming(c) = <<>> /\ expected[c] = HEADER

\* The sessions implement the service: every request is served once, at one
\* instant, with the settings of that instant; the client is told that answer,
\* or the beginning of a longer string; only a client that has logged in changes
\* the settings, and but for a string that its field does not hold only the one
\* it names; and a connection is closed only when its client has hung up or has
\* sent what is no request.
Service == INSTANCE ManagementService WITH
    member <- {c \in Clients : Live(c) /\ loggedIn[c]},
    asked <- [c \in Clients |-> IF Live(c) THEN request[c] ELSE None],
    answer <- [c \in Clients |->
                IF Live(c) /\ ~Lost(c) /\ request[c] # None /\ Outgoing(c) # <<>>
                THEN Told(request[c], Outgoing(c)) ELSE None],
    lost <- {c \in Clients : Lost(c)}

ImplementsService == Service!ServiceSpec

\* A client that asks gets an answer, unless it hangs up, is disconnected, the
\* process dies of the pointers kill_socket frees, or the parser is caught on an
\* unknown structure.
Answered == \A c \in Clients :
    request[c] # None ~>
        \/ request[c] = None \/ c \in gone \/ ~Live(c) \/ ~up
        \/ \E d \in Clients : UnknownStructure(d)
=============================================================================
