--------------------------- MODULE ManagementService ---------------------------
(***************************************************************************)
(* What the management protocol promises a client that sends one request   *)
(* and waits for its answer: every request is served once and at once,     *)
(* settings are shared by all clients and only changed by those that have  *)
(* logged in, and a connection ends only for a reason.  Strings have a     *)
(* length up to which this is exact: a setting that holds more can spoil   *)
(* the other, and of an answer that is longer its beginning is told.       *)
(***************************************************************************)
EXTENDS Integers, Sequences

CONSTANTS
    Clients, None,
    Users,          \* the password of each user name
    Requests,       \* what each client may ask for
    Counts,         \* the values the counters may have
    FieldSize,      \* a string setting holds less than this
    AnswerSize      \* and no more than this of one is told

VARIABLES
    settings,       \* by name: status, media, command
    member,         \* the clients that have logged in
    asked,          \* the request each client waits for, or None
    answer,         \* its answer, once it is served
    told,           \* the answer the client has got
    gone,           \* the clients that have hung up
    lost            \* the clients that are denied whatever they ask

serviceVars == <<settings, member, asked, answer, told, gone, lost>>

Granted(v) == [code |-> "OK", value |-> v]
Denied == [code |-> "PERMISSION_DENIED", value |-> None]

\* the answer that tells a string
Shown(v) ==
    IF Len(v) <= AnswerSize THEN Granted(v)
    ELSE [code |-> "CUT", value |-> SubSeq(v, 1, AnswerSize)]

\* not a request of the protocol
Odd(q) == q.op = "odd" \/ (q.op = "metric" /\ q.code \notin 0 .. 2)

Answer(c, a) == answer' = [answer EXCEPT ![c] = a]

ServiceInit ==
    /\ settings = [status |-> 1, media |-> <<>>, command |-> <<>>]
    /\ member = {} /\ gone = {} /\ lost = {}
    /\ asked = [c \in Clients |-> None]
    /\ answer = asked /\ told = asked

Ask(c) ==
    /\ asked[c] = None /\ c \notin gone
    /\ \E q \in Requests[c] : asked' = [asked EXCEPT ![c] = q]
    /\ told' = [told EXCEPT ![c] = None]
    /\ UNCHANGED <<settings, member, answer, gone, lost>>

\* a user that has logged in stays logged in, whatever it tries afterwards
Login(c, q) ==
    /\ q.op = "login"
    /\ IF q.name \in DOMAIN Users /\ Users[q.name] = q.word
       THEN member' = member \cup {c} /\ Answer(c, Granted(None))
       ELSE Answer(c, Denied) /\ UNCHANGED member
    /\ UNCHANGED <<settings, lost>>

Report(c, q) ==
    /\ q.op = "metric" /\ c \in member /\ ~Odd(q)
    /\ \E v \in Counts : Answer(c, Granted(v))
    /\ UNCHANGED <<settings, member, lost>>

\* the list of media types does not fit, or did not when it was set
Overflows(q) == FieldSize <= Len(IF q.what = "media" THEN q.value ELSE settings.media)

\* the named setting is changed, and nothing but the other string with it
Changes(q) ==
    /\ DOMAIN settings' = DOMAIN settings
    /\ settings'[q.what] = q.value
    /\ \A name \in DOMAIN settings \ {q.what} :
          settings'[name] # settings[name] => "status" \notin {name, q.what} /\ Overflows(q)

Set(c, q) ==
    /\ q.op = "set" /\ c \in member
    /\ IF q.what = "status" /\ q.value \notin {0, 1}
       THEN Answer(c, Denied) /\ UNCHANGED settings
       ELSE Changes(q) /\ Answer(c, Granted(None))
    /\ UNCHANGED <<member, lost>>

Get(c, q) ==
    /\ q.op = "get" /\ c \in member
    /\ Answer(c, IF q.what = "status" THEN Granted(settings.status) ELSE Shown(settings[q.what]))
    /\ UNCHANGED <<settings, member, lost>>

Deny(c, q) ==
    /\ q.op \in {"set", "get"} /\ c \notin member
    /\ Answer(c, Denied)
    /\ UNCHANGED <<settings, member, lost>>

\* a client that asks for a metric before it has logged in is not listened to
\* any more
Lose(c, q) ==
    /\ q.op = "metric" /\ c \notin member
    /\ lost' = lost \cup {c}
    /\ UNCHANGED <<settings, member, answer>>

Serve(c) ==
    /\ asked[c] # None /\ answer[c] = None /\ c \notin lost
    /\ LET q == asked[c]
       IN  Login(c, q) \/ Report(c, q) \/ Set(c, q) \/ Get(c, q) \/ Deny(c, q) \/ Lose(c, q)
    /\ UNCHANGED <<asked, told, gone>>

\* the client gets the answer
Tell(c) ==
    /\ asked[c] # None /\ c \notin gone
    /\ \/ answer[c] # None /\ told' = [told EXCEPT ![c] = answer[c]]
       \/ c \in lost /\ told' = [told EXCEPT ![c] = Denied]
    /\ asked' = [asked EXCEPT ![c] = None]
    /\ Answer(c, None)
    /\ UNCHANGED <<settings, member, gone, lost>>

HangUp(c) ==
    /\ gone' = gone \cup {c}
    /\ UNCHANGED <<settings, member, asked, answer, told, lost>>

\* the connection of a client that has hung up, or that has sent something
\* that is not a request of the protocol
Disconnect(c) ==
    /\ c \in gone \/ (asked[c] # None /\ Odd(asked[c]))
    /\ asked' = [asked EXCEPT ![c] = None]
    /\ Answer(c, None)
    /\ member' = member \ {c} /\ lost' = lost \ {c}
    /\ UNCHANGED <<settings, told, gone>>

ServiceNext ==
    \E c \in Clients : Ask(c) \/ Serve(c) \/ Tell(c) \/ HangUp(c) \/ Disconnect(c)

ServiceSpec == ServiceInit /\ [][ServiceNext]_serviceVars
=============================================================================
