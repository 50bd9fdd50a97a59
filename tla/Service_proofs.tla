---------------------------- MODULE Service_proofs ----------------------------
(***************************************************************************)
(* The management protocol keeps what ManagementService promises: every    *)
(* step of the sessions and of their clients is a step of the service or   *)
(* changes nothing of it.                                                  *)
(***************************************************************************)
EXTENDS Management_proofs

-----------------------------------------------------------------------------
(* The state of the service. *)

Member == {c \in Clients : Live(c) /\ loggedIn[c]}
Lostness == {c \in Clients : Lost(c)}
AskedOf(c) == IF Live(c) THEN request[c] ELSE None
Asked == [c \in Clients |-> AskedOf(c)]
AnswerOf(c) == IF Live(c) /\ ~Lost(c) /\ request[c] # None /\ Outgoing(c) # <<>>
               THEN Told(request[c], Outgoing(c)) ELSE None
Answers == [c \in Clients |-> AnswerOf(c)]

\* Of another client the service sees nothing of a step.
LEMMA OthersAreSame ==
    ASSUME NEW d \in Clients, Apart(d)
    PROVE  /\ Live(d)' <=> Live(d)
           /\ Lost(d)' <=> Lost(d)
           /\ AskedOf(d)' = AskedOf(d) /\ AnswerOf(d)' = AnswerOf(d)
           /\ loggedIn'[d] = loggedIn[d]
<1>1. (Live(d)' <=> Live(d)) /\ (Lost(d)' <=> Lost(d))
    BY DEF Apart, Live, Lost, METRICS
<1>2. AskedOf(d)' = AskedOf(d)
    BY <1>1 DEF Apart, AskedOf
<1>3. Outgoing(d)' = Outgoing(d)
    BY DEF Apart, Outgoing
<1>4. AnswerOf(d)' = AnswerOf(d)
    <2>1. request'[d] = request[d]
        BY DEF Apart
    <2>2. Told(request[d], Outgoing(d))' = Told(request[d], Outgoing(d))
        BY <1>3, <2>1 DEF Told, Value, Zero, OK
    <2> QED BY <1>1, <1>3, <2>1, <2>2, Zenon DEF AnswerOf
<1> QED BY <1>1, <1>2, <1>4 DEF Apart

\* A step of one client changes the state of the service at that client only.
LEMMA OneChanges ==
    ASSUME NEW c \in Clients, \A d \in Clients \ {c} : Apart(d)
    PROVE  /\ Asked' = [Asked EXCEPT ![c] = AskedOf(c)']
           /\ Answers' = [Answers EXCEPT ![c] = AnswerOf(c)']
           /\ Member' = IF Live(c)' /\ loggedIn'[c] THEN Member \cup {c} ELSE Member \ {c}
           /\ Lostness' = IF Lost(c)' THEN Lostness \cup {c} ELSE Lostness \ {c}
<1>1. ASSUME NEW d \in Clients, d # c
      PROVE  /\ Live(d)' <=> Live(d)
             /\ Lost(d)' <=> Lost(d)
             /\ AskedOf(d)' = AskedOf(d) /\ AnswerOf(d)' = AnswerOf(d)
             /\ loggedIn'[d] = loggedIn[d]
    BY <1>1, OthersAreSame
<1>2. Asked' = [Asked EXCEPT ![c] = AskedOf(c)']
    BY <1>1 DEF Asked
<1>3. Answers' = [Answers EXCEPT ![c] = AnswerOf(c)']
    BY <1>1 DEF Answers
<1>4. Member' = IF Live(c)' /\ loggedIn'[c] THEN Member \cup {c} ELSE Member \ {c}
    BY <1>1 DEF Member
<1>5. Lostness' = IF Lost(c)' THEN Lostness \cup {c} ELSE Lostness \ {c}
    BY <1>1 DEF Lostness
<1> QED BY <1>2, <1>3, <1>4, <1>5

\* What a step of c does to the service.
Same(c) ==
    /\ Live(c)' <=> Live(c)
    /\ Lost(c)' <=> Lost(c)
    /\ AskedOf(c)' = AskedOf(c) /\ AnswerOf(c)' = AnswerOf(c)
    /\ Live(c) => loggedIn'[c] = loggedIn[c]

\* A step the service does not see.
LEMMA Stutters ==
    ASSUME NEW c \in Clients, \A d \in Clients \ {c} : Apart(d), Same(c),
           settings' = settings, told' = told, gone' = gone
    PROVE  UNCHANGED Service!serviceVars
<1>1. /\ Asked' = [Asked EXCEPT ![c] = AskedOf(c)']
      /\ Answers' = [Answers EXCEPT ![c] = AnswerOf(c)']
      /\ Member' = IF Live(c)' /\ loggedIn'[c] THEN Member \cup {c} ELSE Member \ {c}
      /\ Lostness' = IF Lost(c)' THEN Lostness \cup {c} ELSE Lostness \ {c}
    BY OneChanges
<1>2. Asked' = Asked
    BY <1>1 DEF Asked, Same
<1>3. Answers' = Answers
    BY <1>1 DEF Answers, Same
<1>4. Member' = Member
    BY <1>1 DEF Member, Same
<1>5. Lostness' = Lostness
    BY <1>1 DEF Lostness, Same
<1> QED BY <1>2, <1>3, <1>4, <1>5
        DEF Service!serviceVars, Asked, Answers, Member, Lostness, AskedOf, AnswerOf

\* The client of c waits for an answer and is served now.
Serving(c) ==
    /\ \A d \in Clients \ {c} : Apart(d)
    /\ Live(c) /\ Live(c)' /\ ~Lost(c)
    /\ request[c] # None /\ request'[c] = request[c]
    /\ AnswerOf(c) = None
    /\ told' = told /\ gone' = gone

LEMMA Serves ==
    ASSUME NEW c \in Clients, Serving(c),
           \/ Service!Login(c, Asked[c]) \/ Service!Report(c, Asked[c])
           \/ Service!Set(c, Asked[c]) \/ Service!Get(c, Asked[c])
           \/ Service!Deny(c, Asked[c]) \/ Service!Lose(c, Asked[c])
    PROVE  Service!ServiceNext
<1>1. Asked' = [Asked EXCEPT ![c] = AskedOf(c)']
    BY OneChanges DEF Serving
<1>2. Asked[c] = request[c] /\ Asked[c] # None /\ Answers[c] = None /\ c \notin Lostness
    BY DEF Serving, Asked, AskedOf, Answers, Lostness
<1>3. Asked' = Asked
    BY <1>1, <1>2 DEF Serving, AskedOf, Asked
<1>4. Service!Serve(c)
    BY <1>2, <1>3, Zenon
    DEF Service!Serve, Serving, Asked, AskedOf, Answers, AnswerOf, Lostness
<1> QED BY <1>4 DEF Service!ServiceNext

\* What the service sees of a client that is served.
LEMMA ServedOne ==
    ASSUME NEW c \in Clients, Serving(c)
    PROVE  /\ Asked[c] = request[c]
           /\ Answers' = [Answers EXCEPT ![c] = AnswerOf(c)']
           /\ c \in Member <=> loggedIn[c]
           /\ Member' = IF loggedIn'[c] THEN Member \cup {c} ELSE Member \ {c}
           /\ Lostness' = IF Lost(c)' THEN Lostness \cup {c} ELSE Lostness
BY OneChanges DEF Serving, Asked, AskedOf, Member, Lostness

LEMMA ServesLogin ==
    ASSUME NEW c \in Clients, Serving(c), request[c].op = "login", NEW right \in BOOLEAN,
           right <=> /\ request[c].name \in DOMAIN Users
                     /\ Users[request[c].name] = request[c].word,
           loggedIn'[c] = (loggedIn[c] \/ right), ~Lost(c)', settings' = settings,
           AnswerOf(c)' = IF right THEN Service!Granted(None) ELSE Service!Denied
    PROVE  Service!ServiceNext
<1>1. Member' = IF right THEN Member \cup {c} ELSE Member
    BY ServedOne
<1>2. Service!Login(c, Asked[c])
    BY <1>1, ServedOne DEF Service!Login, Service!Answer, Member, Answers, AnswerOf, Lostness
<1> QED BY <1>2, Serves

LEMMA ServesReport ==
    ASSUME NEW c \in Clients, Serving(c), request[c].op = "metric", request[c].code \in 0 .. 2,
           loggedIn[c], loggedIn'[c] = loggedIn[c], ~Lost(c)', settings' = settings,
           NEW v \in Counts, AnswerOf(c)' = Service!Granted(v)
    PROVE  Service!ServiceNext
<1>1. Member' = Member /\ c \in Member
    BY ServedOne
<1>2. Service!Report(c, Asked[c])
    BY <1>1, ServedOne
    DEF Service!Report, Service!Odd, Service!Answer, Member, Answers, AnswerOf, Lostness
<1> QED BY <1>2, Serves

LEMMA ServesSet ==
    ASSUME NEW c \in Clients, Serving(c), request[c].op = "set",
           loggedIn[c], loggedIn'[c] = loggedIn[c], ~Lost(c)',
           IF request[c].what = "status" /\ request[c].value \notin {0, 1}
           THEN AnswerOf(c)' = Service!Denied /\ settings' = settings
           ELSE /\ AnswerOf(c)' = Service!Granted(None)
                /\ Service!Changes(request[c])
    PROVE  Service!ServiceNext
<1>1. Member' = Member /\ c \in Member
    BY ServedOne
<1>2. Service!Set(c, Asked[c])
    BY <1>1, ServedOne DEF Service!Set, Service!Answer, Member, Answers, AnswerOf, Lostness
<1> QED BY <1>2, Serves

LEMMA ServesGet ==
    ASSUME NEW c \in Clients, Serving(c), request[c].op = "get",
           loggedIn[c], loggedIn'[c] = loggedIn[c], ~Lost(c)', settings' = settings,
           AnswerOf(c)' = IF request[c].what = "status" THEN Service!Granted(settings.status)
                          ELSE Service!Shown(settings[request[c].what])
    PROVE  Service!ServiceNext
<1>1. Member' = Member /\ c \in Member
    BY ServedOne
<1>2. Service!Get(c, Asked[c])
    BY <1>1, ServedOne DEF Service!Get, Service!Answer, Member, Answers, AnswerOf, Lostness
<1> QED BY <1>2, Serves

LEMMA ServesDenial ==
    ASSUME NEW c \in Clients, Serving(c), request[c].op \in {"set", "get"},
           ~loggedIn[c], loggedIn'[c] = loggedIn[c], ~Lost(c)', settings' = settings,
           AnswerOf(c)' = Service!Denied
    PROVE  Service!ServiceNext
<1>1. Member' = Member /\ c \notin Member
    BY ServedOne
<1>2. Service!Deny(c, Asked[c])
    BY <1>1, ServedOne DEF Service!Deny, Service!Answer, Member, Answers, AnswerOf, Lostness
<1> QED BY <1>2, Serves

\* The parser begins to wait for metric codes.
LEMMA ServesLoss ==
    ASSUME NEW c \in Clients, Serving(c), request[c].op = "metric",
           ~loggedIn[c], loggedIn'[c] = loggedIn[c], Lost(c)', settings' = settings
    PROVE  Service!ServiceNext
<1>1. Member' = Member /\ c \notin Member /\ Lostness' = Lostness \cup {c}
    BY ServedOne
<1>2. Answers' = Answers
    <2>1. AnswerOf(c)' = None /\ Answers[c] = None
        BY DEF Serving, AnswerOf, Answers
    <2>2. Answers' = [Answers EXCEPT ![c] = None]
        BY <2>1, ServedOne
    <2> QED BY <2>1, <2>2 DEF Answers
<1>3. Service!Lose(c, Asked[c])
    BY <1>1, <1>2, ServedOne DEF Service!Lose, Member, Answers, AnswerOf, Lostness
<1> QED BY <1>3, Serves

\* A session is closed, of a client that has hung up or was not understood.
LEMMA Disconnects ==
    ASSUME NEW c \in Clients, \A d \in Clients \ {c} : Apart(d), ~Live(c)',
           c \in gone \/ (Live(c) /\ request[c] # None /\ Service!Odd(request[c])),
           settings' = settings, told' = told, gone' = gone
    PROVE  Service!ServiceNext
<1>1. AskedOf(c)' = None /\ AnswerOf(c)' = None /\ ~Lost(c)'
    BY DEF AskedOf, AnswerOf, Lost
<1>2. /\ Asked' = [Asked EXCEPT ![c] = None]
      /\ Answers' = [Answers EXCEPT ![c] = None]
      /\ Member' = Member \ {c} /\ Lostness' = Lostness \ {c}
    BY <1>1, OneChanges
<1>3. c \in gone \/ (Asked[c] # None /\ Service!Odd(Asked[c]))
    BY DEF Asked, AskedOf, Service!Odd
<1>4. Service!Disconnect(c)
    BY <1>2, <1>3, Zenon
    DEF Service!Disconnect, Service!Answer, Asked, AskedOf, Answers, AnswerOf, Member, Lostness
<1> QED BY <1>4 DEF Service!ServiceNext

\* A client asks.
LEMMA AsksOne ==
    ASSUME NEW c \in Clients, \A d \in Clients \ {c} : Apart(d), Live(c), Live(c)',
           Lost(c)' <=> Lost(c), loggedIn'[c] = loggedIn[c], c \notin gone,
           request[c] = None, NEW q \in Requests[c], request'[c] = q, AnswerOf(c)' = None,
           settings' = settings, told' = [told EXCEPT ![c] = None], gone' = gone
    PROVE  Service!ServiceNext
<1>1. Asked' = [Asked EXCEPT ![c] = q] /\ Asked[c] = None
    BY OneChanges DEF Asked, AskedOf
<1>2. AnswerOf(c) = None
    BY DEF AnswerOf
<1>3. Answers' = Answers
    <2>1. Answers' = [Answers EXCEPT ![c] = None]
        BY OneChanges
    <2> QED BY <1>2, <2>1 DEF Answers
<1>4. Member' = Member /\ Lostness' = Lostness
    BY OneChanges DEF Member, Lostness
<1>5. Service!Ask(c)
    BY <1>1, <1>3, <1>4
    DEF Service!Ask, Asked, AskedOf, Answers, AnswerOf, Member, Lostness
<1> QED BY <1>5 DEF Service!ServiceNext

\* A client gets its answer.
LEMMA Tells ==
    ASSUME NEW c \in Clients, \A d \in Clients \ {c} : Apart(d), Live(c), Live(c)',
           Lost(c)' <=> Lost(c), loggedIn'[c] = loggedIn[c], c \notin gone,
           request[c] # None, request'[c] = None, NEW a, told' = [told EXCEPT ![c] = a],
           \/ AnswerOf(c) # None /\ a = AnswerOf(c)
           \/ Lost(c) /\ a = Service!Denied,
           settings' = settings, gone' = gone
    PROVE  Service!ServiceNext
<1>1. AskedOf(c)' = None /\ AnswerOf(c)' = None
    BY DEF AskedOf, AnswerOf
<1>2. Asked' = [Asked EXCEPT ![c] = None] /\ Answers' = [Answers EXCEPT ![c] = None]
    BY <1>1, OneChanges
<1>3. Asked[c] # None /\ Answers[c] = AnswerOf(c) /\ (c \in Lostness <=> Lost(c))
    BY DEF Asked, AskedOf, Answers, Lostness
<1>4. Member' = Member /\ Lostness' = Lostness
    BY OneChanges DEF Member, Lostness
<1>5. \/ Answers[c] # None /\ told' = [told EXCEPT ![c] = Answers[c]]
      \/ c \in Lostness /\ told' = [told EXCEPT ![c] = Service!Denied]
    BY <1>3
<1>6. Service!Tell(c)
    BY <1>2, <1>3, <1>4, <1>5, Zenon
    DEF Service!Tell, Service!Answer, Asked, AskedOf, Answers, AnswerOf, Member, Lostness
<1> QED BY <1>6 DEF Service!ServiceNext

\* A client hangs up.
LEMMA HangsUp ==
    ASSUME NEW c \in Clients, \A d \in Clients \ {c} : Apart(d), Same(c),
           settings' = settings, told' = told, gone' = gone \cup {c}
    PROVE  Service!ServiceNext
<1>1. Asked' = Asked /\ Answers' = Answers
    BY OneChanges DEF Same, Asked, Answers
<1>2. Member' = Member /\ Lostness' = Lostness
    BY OneChanges DEF Same, Member, Lostness
<1>3. Service!HangUp(c)
    BY <1>1, <1>2 DEF Service!HangUp, Asked, AskedOf, Answers, AnswerOf, Member, Lostness
<1> QED BY <1>3 DEF Service!ServiceNext

-----------------------------------------------------------------------------
(* What the refinement needs beyond the place of a session. *)

\* What a handler that has returned, or has closed its session, has left cannot
\* be taken; a client whose session was closed under it still waits; a client
\* that is not listened to is only denied; and what is on its way to a client
\* is an answer.
Kept(c) ==
    /\ busy # c => Incomplete(c)
    /\ ~Live(c) => Incomplete(c) \/ UnknownStructure(c)
    /\ ~Live(c) /\ c \notin gone => request[c] # None /\ downstream[c] = <<>>
    /\ Lost(c) => /\ writeBuffer[c] \in Seq({PERMISSION_DENIED})
                  /\ downstream[c] \in Seq({PERMISSION_DENIED})
    /\ Good(c) /\ request[c] # None /\ Outgoing(c) # <<>> => AnswerOf(c) # None

ServiceInv == StepInv /\ \A c \in Clients : Kept(c)

\* What the service sees, and what is kept, of a step of c.
Promised(c) ==
    /\ Kept(c)'
    /\ Service!ServiceNext \/ UNCHANGED Service!serviceVars

\* What is incomplete is less than any structure.
LEMMA IncompleteIs ==
    ASSUME NEW c \in Clients, Incomplete(c)
    PROVE  /\ ~UnknownStructure(c)
           /\ expected[c] = HEADER => Len(readBuffer[c]) < 2
           /\ expected[c] = LOGIN => ~Names(readBuffer[c]).complete
           /\ expected[c] = METRICS => Len(readBuffer[c]) < 1
           /\ expected[c] = TRANSFORMATIONS =>
                  \/ ~(Len(readBuffer[c]) > 0)
                  \/ readBuffer[c][1] = SET_STATUS /\ Len(readBuffer[c]) < 2
                  \/ TakesString(c) /\ Argument(c) = 0
BY DEF Incomplete, UnknownStructure, LOGIN, METRICS, TRANSFORMATIONS, HEADER

\* Of nothing, no structure is complete.
LEMMA NothingIsIncomplete ==
    ASSUME NEW c \in Clients, readBuffer'[c] = <<>>
    PROVE  Incomplete(c)' \/ UnknownStructure(c)'
<1>1. Len(readBuffer'[c]) = 0
    BY Empty
<1>2. ~Names(<<>>).complete
    <2> DEFINE n == PeekUntilNull(<<>>, NameSize)
    <2>1. <<>> \in Seq(Byte) /\ NameSize \in Nat /\ Len(<<>>) = 0
        BY Empty, ManagementAssumption
    <2>2. n > 0 => n \in 1 .. Len(<<>>)
        BY <2>1, PeekFinds
    <2> HIDE DEF n
    <2>3. ~(n > 0)
        BY <2>1, <2>2
    <2> QED BY <2>3 DEF Names, n
<1>3. expected'[c] = LOGIN => ~Names(readBuffer'[c]).complete
    BY <1>2
<1>4. Names(readBuffer'[c]).complete <=> (Names(readBuffer[c]).complete)'
    BY DEF Names, PeekUntilNull, Drop, Lesser
<1>5. CASE expected'[c] = LOGIN
    BY <1>3, <1>4, <1>5 DEF Incomplete, LOGIN, METRICS, TRANSFORMATIONS, HEADER
<1>6. CASE expected'[c] # LOGIN
    BY <1>1, <1>6 DEF Incomplete, UnknownStructure, LOGIN, METRICS, TRANSFORMATIONS, HEADER
<1> QED BY <1>5, <1>6

\* What is complete depends on the buffer and on what is expected.
LEMMA SameIncomplete ==
    ASSUME NEW c \in Clients, readBuffer'[c] = readBuffer[c], expected'[c] = expected[c]
    PROVE  (Incomplete(c)' <=> Incomplete(c)) /\ (UnknownStructure(c)' <=> UnknownStructure(c))
<1>1. UnknownStructure(c)' <=> UnknownStructure(c)
    BY DEF UnknownStructure, LOGIN, METRICS, TRANSFORMATIONS, HEADER
<1>2. Names(readBuffer[c])' = Names(readBuffer[c])
    BY DEF Names, PeekUntilNull, Drop, Lesser
<1>3. Argument(c)' = Argument(c)
    BY DEF Argument, PeekUntilNull, Drop, Lesser
<1>4. TakesString(c)' <=> TakesString(c)
    BY DEF TakesString, SetCode, Strings
<1>5. Incomplete(c)' <=> Incomplete(c)
    BY <1>2, <1>3, <1>4
    DEF Incomplete, LOGIN, METRICS, TRANSFORMATIONS, HEADER, SET_STATUS
<1> QED BY <1>1, <1>5

\* A step of another client.
LEMMA KeptApart ==
    ASSUME NEW d \in Clients, Kept(d), Apart(d), busy' # d => busy # d,
           d \in gone' <=> d \in gone
    PROVE  Kept(d)'
<1>1. /\ Live(d)' <=> Live(d)
      /\ Lost(d)' <=> Lost(d)
      /\ AnswerOf(d)' = AnswerOf(d)
    BY OthersAreSame
<1>2. Incomplete(d)' <=> Incomplete(d)
    BY SameIncomplete DEF Apart
<1>3. UnknownStructure(d)' <=> UnknownStructure(d)
    BY SameIncomplete DEF Apart
<1>4. Outgoing(d)' = Outgoing(d)
    BY DEF Apart, Outgoing
<1> QED BY <1>1, <1>2, <1>3, <1>4 DEF Kept, Apart, Good, PERMISSION_DENIED

\* The answer a request has got.
LEMMA AnswerIs ==
    ASSUME NEW c \in Clients, Live(c)', expected'[c] = HEADER, NEW q, q # None, request'[c] = q,
           downstream'[c] = <<>>, NEW p \in Seq(Byte), p # <<>>, writeBuffer'[c] = p
    PROVE  AnswerOf(c)' = Told(q, p) /\ ~Lost(c)'
<1>1. Outgoing(c)' = p
    BY Joined, Empty DEF Outgoing
<1>2. ~Lost(c)'
    BY DEF Lost, HEADER, METRICS
<1> QED BY <1>1, <1>2 DEF AnswerOf, Told, Value, Zero, OK

\* A request in progress has no answer yet.
LEMMA NotAnswered ==
    ASSUME NEW c \in Clients, Asking(c)
    PROVE  AnswerOf(c) = None /\ Outgoing(c) = <<>>
<1>1. Outgoing(c) = <<>>
    BY Joined, Empty DEF Asking, Outgoing
<1> QED BY <1>1 DEF AnswerOf

\* No answer is None.
LEMMA AnswersAreSome ==
    /\ Service!Denied # None
    /\ \A v \in {None} \cup Byte \cup Text : Service!Granted(v) # None
    /\ \A v \in Text : Service!Shown(v) # None
<1> DEFINE Answer == [code : {"OK", "CUT", "PERMISSION_DENIED"},
                      value : {None} \cup 0 .. 255 \cup Text]
<1>1. Service!Denied \in Answer /\ \A v \in {None} \cup Byte \cup Text : Service!Granted(v) \in Answer
    BY DEF Service!Denied, Service!Granted, Byte
<1>2. ASSUME NEW v \in Text PROVE Service!Shown(v) \in Answer
    <2>1. CASE Len(v) <= AnswerSize
        BY <1>1, <2>1 DEF Service!Shown
    <2>2. CASE ~(Len(v) <= AnswerSize)
        <3>1. AnswerSize \in 0 .. Len(v)
            BY <2>2, TextIsBytes, ManagementAssumption
        <3>2. SubSeq(v, 1, AnswerSize) \in Text
            BY <3>1, TextPieces
        <3> QED BY <2>2, <3>2 DEF Service!Shown
    <2> QED BY <2>1, <2>2
<1>3. None \notin Answer
    BY NoneAssumption
<1> HIDE DEF Answer
<1> QED BY <1>1, <1>2, <1>3
-----------------------------------------------------------------------------
(* What the requests say, byte by byte. *)

\* Where a text stands, and the zero byte behind it.
LEMMA TextAt ==
    ASSUME NEW a \in Seq(Byte), NEW v \in Text
    PROVE  LET s == a \o v \o <<0>>
           IN  /\ \A i \in 1 .. Len(v) : s[Len(a) + i] = v[i]
               /\ s[Len(a) + Len(v) + 1] = 0
<1> DEFINE z == <<0>>
           t == a \o v
           s == t \o z
<1>1. z \in Seq(Byte) /\ Len(z) = 1 /\ z[1] = 0
    BY DEF Byte
<1> HIDE DEF z
<1>2. v \in Seq(Byte) /\ Len(v) \in Nat /\ Len(a) \in Nat
    BY TextIsBytes, LenProperties
<1>3. /\ t \in Seq(Byte) /\ Len(t) = Len(a) + Len(v)
      /\ \A i \in 1 .. Len(v) : t[Len(a) + i] = v[i]
    BY <1>2, Joined
<1> HIDE DEF t
<1>4. /\ \A i \in 1 .. Len(t) : s[i] = t[i]
      /\ \A i \in 1 .. Len(z) : s[Len(t) + i] = z[i]
    BY <1>1, <1>3, Joined
<1> HIDE DEF s
<1>5. ASSUME NEW i \in 1 .. Len(v) PROVE s[Len(a) + i] = v[i]
    <2>1. Len(a) + i \in 1 .. Len(t)
        BY <1>2, <1>3
    <2> QED BY <1>3, <1>4, <2>1
<1>6. s[Len(a) + Len(v) + 1] = 0
    <2>1. 1 \in 1 .. Len(z)
        BY <1>1
    <2>2. s[Len(t) + 1] = 0
        BY <1>1, <1>4, <2>1
    <2> QED BY <1>3, <2>2
<1> QED BY <1>5, <1>6 DEF s, t, z

\* The bytes of a login.
LEMMA LoginBytes ==
    ASSUME NEW q, q.op = "login", q.name \in Text, q.word \in Text
    PROVE  LET b == Bytes(q)
               n == Len(q.name)
               m == Len(q.word)
           IN  /\ n \in Nat /\ m \in Nat /\ Len(b) = 4 + n + m
               /\ \A i \in 1 .. n : b[2 + i] = q.name[i]
               /\ b[3 + n] = 0
               /\ \A i \in 1 .. m : b[3 + n + i] = q.word[i]
               /\ b[4 + n + m] = 0
<1> DEFINE h == <<1, LOGIN>>
           a == h \o q.name \o <<0>>
           b == a \o q.word \o <<0>>
           n == Len(q.name)
           m == Len(q.word)
<1>1. Bytes(q) = b /\ n \in Nat /\ m \in Nat
    BY TextIsBytes DEF Bytes
<1>2. h \in Seq(Byte) /\ Len(h) = 2
    BY DEF Byte, LOGIN
<1> HIDE DEF h
<1>3. /\ a \in Seq(Byte) /\ Len(a) = 3 + n
      /\ \A i \in 1 .. n : a[2 + i] = q.name[i]
      /\ a[3 + n] = 0
    <2>1. a \in Seq(Byte) /\ Len(a) = Len(h) + n + 1
        BY <1>2, TextBytes
    <2>2. (\A i \in 1 .. n : a[Len(h) + i] = q.name[i]) /\ a[Len(h) + n + 1] = 0
        BY <1>2, TextAt
    <2> HIDE DEF a, n
    <2>3. Len(h) + n + 1 = 3 + n
        BY <1>1, <1>2
    <2> QED BY <1>2, <2>1, <2>2, <2>3
<1> HIDE DEF a
<1>4. /\ Len(b) = Len(a) + m + 1
      /\ \A i \in 1 .. Len(a) : b[i] = a[i]
      /\ \A i \in 1 .. m : b[Len(a) + i] = q.word[i]
      /\ b[Len(a) + m + 1] = 0
    BY <1>3, TextBytes, TextAt
<1> HIDE DEF b, n, m
<1>5. ASSUME NEW i \in 1 .. n PROVE b[2 + i] = q.name[i]
    <2>1. 2 + i \in 1 .. Len(a)
        BY <1>1, <1>3
    <2> QED BY <1>3, <1>4, <2>1
<1>6. b[3 + n] = 0
    <2>1. 3 + n \in 1 .. Len(a)
        BY <1>1, <1>3
    <2> QED BY <1>3, <1>4, <2>1
<1>7. Len(a) + m + 1 = 4 + n + m
    BY <1>1, <1>3
<1> QED BY <1>1, <1>3, <1>4, <1>5, <1>6, <1>7 DEF n, m

\* The bytes of a request that sets a string.
LEMMA SetBytes ==
    ASSUME NEW q, q.op = "set", q.what \in Strings, q.value \in Text
    PROVE  LET b == Bytes(q)
               n == Len(q.value)
           IN  /\ n \in Nat /\ Len(b) = 4 + n /\ b[3] = SetCode(q.what)
               /\ \A i \in 1 .. n : b[3 + i] = q.value[i]
               /\ b[4 + n] = 0
<1> DEFINE h == <<1, TRANSFORMATIONS, SetCode(q.what)>>
           b == h \o q.value \o <<0>>
           n == Len(q.value)
<1>1. Bytes(q) = b /\ n \in Nat
    BY TextIsBytes DEF Bytes, Strings
<1>2. h \in Seq(Byte) /\ Len(h) = 3 /\ h[3] = SetCode(q.what)
    BY Codes DEF Byte, TRANSFORMATIONS
<1> HIDE DEF h
<1>3. /\ Len(b) = Len(h) + n + 1
      /\ \A i \in 1 .. Len(h) : b[i] = h[i]
      /\ \A i \in 1 .. n : b[Len(h) + i] = q.value[i]
      /\ b[Len(h) + n + 1] = 0
    <2>1. Len(b) = Len(h) + n + 1 /\ \A i \in 1 .. Len(h) : b[i] = h[i]
        BY <1>2, TextBytes
    <2>2. (\A i \in 1 .. n : b[Len(h) + i] = q.value[i]) /\ b[Len(h) + n + 1] = 0
        BY <1>2, TextAt
    <2> QED BY <2>1, <2>2
<1> HIDE DEF b, n
<1>4. 3 \in 1 .. Len(h) /\ Len(h) + n + 1 = 4 + n
    BY <1>1, <1>2
<1> QED BY <1>1, <1>2, <1>3, <1>4 DEF n

\* The bytes of the requests of a fixed length.
LEMMA FixedBytes ==
    ASSUME NEW q, IsRequest(q)
    PROVE  /\ q.op = "metric" => Len(Bytes(q)) = 3 /\ Bytes(q)[3] = q.code
           /\ q.op = "set" /\ q.what = "status" => Len(Bytes(q)) = 4 /\ Bytes(q)[4] = q.value
           /\ q.op = "get" => Len(Bytes(q)) = 3
<1>1. "status" \notin Strings
    BY DEF Strings
<1>2. CASE q.op = "metric"
    BY <1>2 DEF Bytes
<1>3. CASE q.op = "set" /\ q.what = "status"
    <2> DEFINE b == <<1, TRANSFORMATIONS, SET_STATUS, q.value>>
    <2>1. Bytes(q) = b
        BY <1>1, <1>3 DEF Bytes
    <2>2. Len(b) = 4 /\ b[4] = q.value
        OBVIOUS
    <2> HIDE DEF b
    <2> QED BY <1>3, <2>1, <2>2
<1>4. CASE q.op = "get"
    <2>1. q.what \in Strings \cup {"status"}
        BY <1>4 DEF IsRequest
    <2> QED BY <1>1, <1>4, <2>1 DEF Bytes
<1> QED BY <1>2, <1>3, <1>4

\* The codes of the strings tell them apart.
LEMMA CodesDiffer ==
    ASSUME NEW x \in Strings, NEW y \in Strings
    PROVE  /\ SetCode(x) = SetCode(y) => x = y
           /\ GetCode(x) = GetCode(y) => x = y
BY DEF Strings, SetCode, GetCode

\* What is not odd is a request the parser understands, and it fits.
LEMMA Understood ==
    ASSUME NEW q, IsRequest(q), Fits(q), q.op # "odd"
    PROVE  /\ Len(Bytes(q)) > 1 /\ Bytes(q)[1] = 1 /\ Len(Bytes(q)) <= 2 + BufferSpace
           /\ Bytes(q)[2] \in {LOGIN, METRICS, TRANSFORMATIONS}
           /\ Bytes(q)[2] = TRANSFORMATIONS => Len(Bytes(q)) > 2 /\ Bytes(q)[3] \in 0 .. 5
           /\ Bytes(q)[2] = TRANSFORMATIONS /\ Bytes(q)[3] \in {2, 4} =>
                 q.op = "set" /\ q.what \in Strings
<1> USE DEF LOGIN, METRICS, TRANSFORMATIONS, SET_STATUS, GET_STATUS
<1>0. /\ BufferSpace \in Nat /\ BufferSpace >= 2 /\ ArgumentSize + 2 <= BufferSpace
      /\ 2 * NameSize <= BufferSpace /\ ArgumentSize \in Nat /\ NameSize \in Nat
    BY ManagementAssumption, FieldAssumption
<1>1. CASE q.op = "login"
    <2>1. q.name \in Text /\ q.word \in Text /\ Len(q.name) < NameSize /\ Len(q.word) < NameSize
        BY <1>1 DEF IsRequest, Fits
    <2>2. Len(q.name) \in Nat /\ Len(q.word) \in Nat
          /\ Len(Bytes(q)) = 4 + Len(q.name) + Len(q.word)
        BY <1>1, <2>1, LoginBytes
    <2>3. Len(Bytes(q)) <= 2 + BufferSpace /\ Len(Bytes(q)) > 1
        <3>1. Len(q.name) + 1 <= NameSize /\ Len(q.word) + 1 <= NameSize
            BY <1>0, <2>1, <2>2
        <3>2. NameSize + NameSize <= BufferSpace
            BY <1>0
        <3> DEFINE l == Len(Bytes(q))
                   n == Len(q.name)
                   m == Len(q.word)
        <3>3. l = 4 + n + m /\ n + 1 <= NameSize /\ m + 1 <= NameSize /\ n \in Nat /\ m \in Nat
            BY <2>2, <3>1
        <3> HIDE DEF l, n, m
        <3>4. l <= 2 + BufferSpace /\ l > 1
            BY <1>0, <3>2, <3>3
        <3> QED BY <3>4 DEF l
    <2>4. Bytes(q)[1] = 1 /\ Bytes(q)[2] = LOGIN
        BY <1>1, <2>1, LoginIsWhole
    <2> QED BY <2>3, <2>4
<1>2. CASE q.op = "set" /\ q.what # "status"
    <2>1. q.what \in Strings /\ q.value \in Text /\ Len(q.value) < ArgumentSize
        BY <1>2 DEF IsRequest, Fits
    <2>2. Len(q.value) \in Nat /\ Len(Bytes(q)) = 4 + Len(q.value)
        BY <1>2, <2>1, SetBytes
    <2>3. Len(Bytes(q)) <= 2 + BufferSpace /\ Len(Bytes(q)) > 2
        BY <1>0, <2>1, <2>2
    <2>4. Bytes(q)[1] = 1 /\ Bytes(q)[2] = TRANSFORMATIONS /\ Bytes(q)[3] \in {2, 4}
        BY <1>2, <2>1, SetStringIsWhole
    <2>5. 2 \in 0 .. 5 /\ 4 \in 0 .. 5
        OBVIOUS
    <2> QED BY <1>2, <2>1, <2>3, <2>4, <2>5
<1>3. CASE q.op \in {"metric", "get"} \/ (q.op = "set" /\ q.what = "status")
    <2>1. Len(Bytes(q)) \in 3 .. 4
        BY <1>3, FixedBytes
    <2>2. /\ Bytes(q)[1] = 1
          /\ Bytes(q)[2] = IF q.op = "metric" THEN METRICS ELSE TRANSFORMATIONS
          /\ q.op = "set" => Bytes(q)[3] = SET_STATUS
          /\ q.op = "get" => Bytes(q)[3] = IF q.what = "status" THEN GET_STATUS ELSE GetCode(q.what)
        BY <1>3, ShortIsWhole
    <2>3. q.op = "get" => q.what \in Strings \cup {"status"}
        BY DEF IsRequest
    <2>4. Bytes(q)[2] = TRANSFORMATIONS => Bytes(q)[3] \in {0, 1, 3, 5}
        BY <1>3, <2>2, <2>3, Codes
    <2>5. \A x \in {0, 1, 3, 5} : x \in 0 .. 5 /\ x \notin {2, 4}
        OBVIOUS
    <2>6. Len(Bytes(q)) > 2 /\ Len(Bytes(q)) <= 2 + BufferSpace
        <3>1. \A l \in 3 .. 4 : l > 2 /\ l <= 2 + BufferSpace
            BY <1>0
        <3> QED BY <2>1, <3>1, Zenon
    <2>7. Bytes(q)[2] \in {METRICS, TRANSFORMATIONS}
        BY <2>2
    <2>8. Len(Bytes(q)) > 1
        BY <2>6
    <2> QED BY <2>2, <2>4, <2>5, <2>6, <2>7, <2>8, Zenon
<1> QED BY <1>1, <1>2, <1>3 DEF IsRequest

\* The first zero byte after the first k bytes is m further on.
EndsAt(s, k, m) ==
    /\ 0 < m /\ k + m <= Len(s) /\ s[k + m] = 0
    /\ \A j \in 1 .. m - 1 : s[k + j] # 0

\* What follows the first k bytes is v with its zero byte, as far as it has come.
Carries(s, k, v) ==
    /\ \A i \in 1 .. Len(v) : i <= Len(s) - k => s[k + i] = v[i]
    /\ Len(v) + 1 <= Len(s) - k => s[k + Len(v) + 1] = 0

\* The bytes up to the first zero byte are the text that was sent.
LEMMA TextIs ==
    ASSUME NEW s \in Seq(Byte), NEW k \in Nat, NEW m \in Nat, NEW v \in Text,
           EndsAt(s, k, m), Carries(s, k, v)
    PROVE  m = Len(v) + 1 /\ SubSeq(s, k + 1, k + m - 1) = v
<1> DEFINE n == Len(v)
           l == Len(s)
           t == SubSeq(s, k + 1, k + m - 1)
<1> USE DEF EndsAt, Carries
<1>1. /\ v \in Seq(Byte) /\ n \in Nat /\ l \in Nat /\ k \in Nat /\ m \in Nat
      /\ m >= 1 /\ k + m <= l /\ \A i \in 1 .. n : v[i] # 0
    BY TextIsBytes, LenProperties
<1>2. /\ \A i \in 1 .. n : i <= l - k => s[k + i] = v[i]
      /\ n + 1 <= l - k => s[k + n + 1] = 0
    OBVIOUS
<1>3. \A i \in 1 .. l : s[i] \in Byte
    BY ElementOfSeq
<1> HIDE DEF n, l
<1>4. m <= n + 1
    <2> SUFFICES ASSUME m > n + 1 PROVE FALSE
        BY <1>1
    <2>1. n + 1 \in 1 .. m - 1 /\ n + 1 <= l - k /\ k + n + 1 = k + (n + 1)
        BY <1>1
    <2>2. s[k + (n + 1)] = 0
        BY <1>2, <2>1
    <2> QED BY <2>1, <2>2
<1>5. m >= n + 1
    <2> SUFFICES ASSUME m < n + 1 PROVE FALSE
        BY <1>1
    <2>1. m \in 1 .. n /\ m <= l - k
        BY <1>1
    <2> QED BY <1>1, <1>2, <2>1
<1>6. m = n + 1
    BY <1>1, <1>4, <1>5
<1>7. /\ t \in Seq(Byte) /\ Len(t) = n
      /\ \A i \in 1 .. n : t[i] = s[k + i]
    <2>1. k + 1 \in Int /\ k + m - 1 \in Int
        BY <1>1
    <2>2. \A i \in k + 1 .. k + m - 1 : s[i] \in Byte
        BY <1>1, <1>3
    <2>3. /\ t \in Seq(Byte)
          /\ Len(t) = IF k + 1 <= k + m - 1 THEN (k + m - 1) - (k + 1) + 1 ELSE 0
          /\ \A i \in 1 .. (k + m - 1) - (k + 1) + 1 : t[i] = s[k + 1 + i - 1]
        BY <2>1, <2>2, SubSeqProperties
    <2> HIDE DEF t
    <2>4. Len(t) = n /\ (k + m - 1) - (k + 1) + 1 = n
        BY <1>1, <1>6, <2>3
    <2>5. \A i \in 1 .. n : k + 1 + i - 1 = k + i
        BY <1>1
    <2> QED BY <2>3, <2>4, <2>5
<1>8. \A i \in 1 .. n : t[i] = v[i]
    <2> SUFFICES ASSUME NEW i \in 1 .. n PROVE t[i] = v[i]
        OBVIOUS
    <2>1. i <= l - k
        BY <1>1, <1>6
    <2> QED BY <1>2, <1>7, <2>1
<1>9. t = v
    <2>1. Len(t) = Len(v)
        BY <1>7 DEF n
    <2>2. \A i \in 1 .. Len(t) : t[i] = v[i]
        BY <1>7, <1>8
    <2> HIDE DEF t
    <2> QED BY <1>1, <1>7, <2>1, <2>2, SeqEqual
<1> QED BY <1>6, <1>9 DEF n, t

\* The two names that are read are those that were sent.
LEMMA NamesAre ==
    ASSUME NEW q, q.op = "login", q.name \in Text, q.word \in Text,
           NEW r \in Seq(Byte), Names(r).complete, Len(Bytes(q)) >= 2 + Len(r),
           \A i \in 1 .. Len(r) : Bytes(q)[2 + i] = r[i]
    PROVE  Names(r).name = q.name /\ Names(r).word = q.word
<1> DEFINE b == Bytes(q)
           x == Len(q.name)
           y == Len(q.word)
           l == Len(r)
           n == PeekUntilNull(r, NameSize)
           t == IF n > 0 THEN Drop(r, n) ELSE r
           m == PeekUntilNull(t, NameSize)
<1>1. n > 0 /\ m > 0 /\ Names(r).name = SubSeq(r, 1, n - 1)
      /\ Names(r).word = SubSeq(r, n + 1, n + m - 1)
    BY DEF Names
<1>2. n \in 1 .. l /\ r[n] = 0 /\ l \in Nat /\ (\A j \in 1 .. n - 1 : r[j] # 0)
    BY <1>1, PeekFinds, LenProperties, ManagementAssumption
<1>3. /\ x \in Nat /\ y \in Nat /\ Len(b) = 4 + x + y
      /\ \A i \in 1 .. x : b[2 + i] = q.name[i]
      /\ b[3 + x] = 0
      /\ \A i \in 1 .. y : b[3 + x + i] = q.word[i]
      /\ b[4 + x + y] = 0
    BY LoginBytes
<1>4. Len(b) >= 2 + l /\ \A i \in 1 .. l : b[2 + i] = r[i]
    OBVIOUS
<1> HIDE DEF n
<1>5. /\ t \in Seq(Byte) /\ Len(t) = l - n
      /\ \A i \in 1 .. l - n : t[i] = r[n + i]
    <2>1. n \in 0 .. Len(r) /\ t = Drop(r, n)
        BY <1>1, <1>2
    <2> QED BY <2>1, Dropped
<1> HIDE DEF t
<1>6. m \in 1 .. Len(t) /\ t[m] = 0 /\ \A j \in 1 .. m - 1 : t[j] # 0
    <2>1. t \in Seq(Byte) /\ NameSize \in Nat /\ m > 0
        BY <1>1, <1>5, ManagementAssumption
    <2> QED BY <2>1, PeekFinds
<1> HIDE DEF m, b
<1>7. n = x + 1 /\ n \in Nat /\ SubSeq(r, 1, n - 1) = q.name
    <2>1. 0 \in Nat /\ 0 < n /\ n \in Nat /\ 0 + n <= Len(r) /\ 0 + n = n /\ 0 + 1 = 1
        BY <1>2
    <2>2. \A j \in 1 .. n - 1 : r[0 + j] # 0
        BY <1>2
    <2>3. \A i \in 1 .. Len(q.name) : i <= Len(r) - 0 => r[0 + i] = q.name[i]
        <3> SUFFICES ASSUME NEW i \in 1 .. x, i <= l PROVE r[0 + i] = q.name[i]
            BY <1>2
        <3> HIDE DEF x, y, l
        <3>1. i \in 1 .. l /\ 0 + i = i
            BY <1>2, <1>3
        <3>2. b[2 + i] = r[i] /\ b[2 + i] = q.name[i]
            BY <1>3, <1>4, <3>1
        <3> QED BY <3>1, <3>2
    <2>4. Len(q.name) + 1 <= Len(r) - 0 => r[0 + Len(q.name) + 1] = 0
        <3> SUFFICES ASSUME x + 1 <= l PROVE r[0 + x + 1] = 0
            BY <1>2
        <3> HIDE DEF x, y, l
        <3>1. x + 1 \in 1 .. l /\ 0 + x + 1 = x + 1 /\ 2 + (x + 1) = 3 + x
            BY <1>2, <1>3
        <3>2. b[2 + (x + 1)] = r[x + 1]
            BY <1>4, <3>1
        <3> QED BY <1>3, <3>1, <3>2
    <2>5. r[0 + n] = 0
        BY <1>2, <2>1
    <2>6. n = Len(q.name) + 1 /\ SubSeq(r, 0 + 1, 0 + n - 1) = q.name
        <3>1. q.name \in Text /\ EndsAt(r, 0, n) /\ Carries(r, 0, q.name)
            BY <2>1, <2>2, <2>3, <2>4, <2>5 DEF EndsAt, Carries
        <3> QED BY <2>1, <3>1, TextIs
    <2> QED BY <1>2, <2>1, <2>6
<1>8. SubSeq(r, n + 1, n + m - 1) = q.word
    <2>1. n \in Nat /\ m \in Nat /\ 0 < m /\ n + m <= Len(r)
        BY <1>2, <1>5, <1>6
    <2>2. r[n + m] = 0 /\ \A j \in 1 .. m - 1 : r[n + j] # 0
        <3>1. m \in 1 .. l - n /\ \A j \in 1 .. m - 1 : j \in 1 .. l - n
            BY <1>2, <1>5, <1>6
        <3> QED BY <1>5, <1>6, <3>1
    <2>3. \A i \in 1 .. Len(q.word) : i <= Len(r) - n => r[n + i] = q.word[i]
        <3> SUFFICES ASSUME NEW i \in 1 .. y, i <= l - n PROVE r[n + i] = q.word[i]
            OBVIOUS
        <3>0. n \in Nat /\ l \in Nat /\ x \in Nat /\ y \in Nat /\ n = x + 1
            BY <1>2, <1>3, <1>7
        <3> HIDE DEF x, y, l, n
        <3>1. n + i \in 1 .. l /\ 2 + (n + i) = 3 + x + i
            BY <3>0
        <3>2. b[2 + (n + i)] = r[n + i] /\ b[3 + x + i] = q.word[i]
            BY <1>3, <1>4, <3>1
        <3> QED BY <3>1, <3>2
    <2>4. Len(q.word) + 1 <= Len(r) - n => r[n + Len(q.word) + 1] = 0
        <3> SUFFICES ASSUME y + 1 <= l - n PROVE r[n + y + 1] = 0
            OBVIOUS
        <3> HIDE DEF x, y, l
        <3>1. n + y + 1 \in 1 .. l /\ 2 + (n + y + 1) = 4 + x + y
            BY <1>2, <1>3, <1>7
        <3>2. b[2 + (n + y + 1)] = r[n + y + 1]
            BY <1>4, <3>1
        <3> QED BY <1>3, <3>1, <3>2
    <2>5. m = Len(q.word) + 1 /\ SubSeq(r, n + 1, n + m - 1) = q.word
        <3>1. q.word \in Text /\ EndsAt(r, n, m) /\ Carries(r, n, q.word)
            BY <2>1, <2>2, <2>3, <2>4 DEF EndsAt, Carries
        <3> QED BY <2>1, <3>1, TextIs
    <2> QED BY <2>5
<1> QED BY <1>1, <1>7, <1>8

-----------------------------------------------------------------------------
(* What the parser serves. *)

\* A session that has read a header is in the middle of a request nobody has
\* answered.
LEMMA Unanswered ==
    ASSUME ServiceInv, NEW c \in Clients, Live(c), ~Lost(c), Asking(c)
    PROVE  /\ Good(c) /\ AnswerOf(c) = None /\ Outgoing(c) = <<>>
           /\ request[c] # None /\ IsRequest(request[c]) /\ Fits(request[c])
           /\ writeBuffer[c] = <<>> /\ downstream[c] = <<>>
<1>1. request[c] # None /\ request[c] \in Requests[c] /\ writeBuffer[c] = <<>> /\ downstream[c] = <<>>
    BY DEF Asking, ServiceInv, StepInv, Typed
<1>2. IsRequest(request[c]) /\ Fits(request[c])
    BY <1>1, RequestAssumption, FieldAssumption
<1> QED BY <1>1, <1>2, NotAnswered DEF Good

\* The parser has answered a with the structure it was in.
Taken(c, a) ==
    /\ Live(c) /\ ~Lost(c) /\ expected[c] # HEADER /\ busy = c
    /\ Live(c)' /\ expected'[c] = HEADER /\ busy' = busy
    /\ request' = request /\ told' = told /\ gone' = gone /\ downstream' = downstream
    /\ writeBuffer'[c] = Put(writeBuffer[c], a)

LEMMA TakenIs ==
    ASSUME ServiceInv, NEW c \in Clients, Keeps(c), NEW a \in Seq(Byte), a # <<>>, Taken(c, a)
    PROVE  /\ Serving(c) /\ Asking(c) /\ ~Lost(c)'
           /\ AnswerOf(c)' = Told(request[c], Put(<<>>, a))
           /\ AnswerOf(c)' # None => Kept(c)'
<1>1. Asking(c)
    BY HeaderIsRead DEF ServiceInv, Taken, Good
<1>2. AnswerOf(c) = None /\ writeBuffer[c] = <<>> /\ downstream[c] = <<>> /\ request[c] # None
    BY <1>1, Unanswered DEF Taken
<1>3. Put(<<>>, a) \in Seq(Byte) /\ Put(<<>>, a) # <<>>
    BY PutEmpty
<1>4. AnswerOf(c)' = Told(request[c], Put(<<>>, a)) /\ ~Lost(c)'
    <2>1. request'[c] = request[c] /\ downstream'[c] = <<>> /\ writeBuffer'[c] = Put(<<>>, a)
          /\ Live(c)' /\ expected'[c] = HEADER
        BY <1>2 DEF Taken
    <2> QED BY <1>2, <1>3, <2>1, AnswerIs, Zenon
<1>5. Serving(c)
    BY <1>2 DEF Serving, Taken, Keeps
<1>6. AnswerOf(c)' # None => Kept(c)'
    BY <1>4 DEF Kept, Taken
<1> QED BY <1>1, <1>4, <1>5, <1>6

\* What the client makes of the two short answers.
LEMMA ToldShort ==
    ASSUME NEW q
    PROVE  /\ Told(q, Put(<<>>, <<PERMISSION_DENIED>>)) = Service!Denied
           /\ q.op \in {"login", "set"} => Told(q, Put(<<>>, <<OK>>)) = Service!Granted(None)
<1> DEFINE d == Put(<<>>, <<PERMISSION_DENIED>>)
           o == Put(<<>>, <<OK>>)
<1>1. d[1] = PERMISSION_DENIED
    <2>1. <<PERMISSION_DENIED>> \in Seq(Byte) /\ <<PERMISSION_DENIED>> # <<>>
          /\ <<PERMISSION_DENIED>>[1] = PERMISSION_DENIED
        BY ShortAnswers
    <2> QED BY <2>1, PutEmpty
<1>2. o[1] = OK
    <2>1. <<OK>> \in Seq(Byte) /\ <<OK>> # <<>> /\ <<OK>>[1] = OK
        BY ShortAnswers
    <2> QED BY <2>1, PutEmpty
<1> HIDE DEF d, o
<1>3. Told(q, d) = Service!Denied
    BY <1>1 DEF Told, OK, PERMISSION_DENIED, Service!Denied
<1>4. ASSUME q.op \in {"login", "set"} PROVE Told(q, o) = Service!Granted(None)
    <2>1. Value(q, Tail(o)).value = None
        BY <1>4 DEF Value
    <2> QED BY <1>2, <1>4, <2>1 DEF Told, IsCut, Service!Granted
<1> QED BY <1>3, <1>4 DEF d, o

LEMMA loginServes ==
    ASSUME ServiceInv, NEW c \in Clients, login(c)
    PROVE  Promised(c)
<1> DEFINE r == readBuffer[c]
           q == request[c]
           names == Names(r)
           right == names.name \in DOMAIN Users /\ Users[names.name] = names.word
           a == IF right THEN <<OK>> ELSE <<PERMISSION_DENIED>>
<1>1. /\ r \in Seq(Byte) /\ expected[c] = LOGIN /\ names.complete /\ busy = c /\ busy' = busy
      /\ loggedIn' = [loggedIn EXCEPT ![c] = @ \/ right]
      /\ writeBuffer' = [writeBuffer EXCEPT ![c] = Put(writeBuffer[c], a)]
      /\ expected' = [expected EXCEPT ![c] = HEADER]
      /\ watched' = [watched EXCEPT ![c] = IF @ = "closed" THEN @ ELSE "write"]
      /\ downstream' = downstream /\ request' = request /\ told' = told /\ gone' = gone
      /\ settings' = settings
    BY DEF ServiceInv, StepInv, Typed, login, Reads, Consume, Respond, SetInterest, client
<1>2. Keeps(c)
    BY loginKeeps DEF ServiceInv
<1> HIDE DEF names
<1>3. Live(c) /\ ~Lost(c) /\ expected[c] # HEADER
    BY <1>1, IncompleteIs DEF ServiceInv, Kept, Lost, LOGIN, METRICS, HEADER, TRANSFORMATIONS, UnknownStructure, names
<1>4. a \in Seq(Byte) /\ a # <<>>
    BY ShortAnswers
<1> HIDE DEF right
<1>5. Taken(c, a)
    BY <1>1, <1>3 DEF Taken, Live, ServiceInv, StepInv, Typed
<1>6. /\ Serving(c) /\ Asking(c) /\ ~Lost(c)' /\ AnswerOf(c)' = Told(q, Put(<<>>, a))
      /\ AnswerOf(c)' # None => Kept(c)'
    BY <1>2, <1>4, <1>5, TakenIs
<1> HIDE DEF a
<1>7. /\ IsRequest(q) /\ Len(Bytes(q)) \in Nat /\ Len(Bytes(q)) >= 2 + Len(r)
      /\ Bytes(q)[1] = 1 /\ Bytes(q)[2] = LOGIN /\ Len(Bytes(q)) > 1
      /\ \A i \in 1 .. Len(r) : Bytes(q)[2 + i] = r[i]
    <2>1. IsRequest(q)
        BY <1>6, InProgress DEF ServiceInv
    <2>2. /\ Len(Bytes(q)) \in Nat /\ Len(Bytes(q)) >= 2 + Len(r)
          /\ Bytes(q)[1] = 1 /\ Bytes(q)[2] = expected[c] /\ Len(Bytes(q)) > 1
          /\ \A i \in 1 .. Len(r) : Bytes(q)[2 + i] = r[i]
        BY <1>3, <1>6, BehindHeader DEF ServiceInv
    <2> HIDE DEF q, r
    <2> QED BY <1>1, <2>1, <2>2, Zenon
<1>8. q.op = "login" /\ q.name \in Text /\ q.word \in Text
    <2>1. q.op # "odd"
        <3> SUFFICES ASSUME q.op = "odd" PROVE FALSE
            OBVIOUS
        <3> DEFINE b == Bytes(q)
        <3>1. NoRequest(b)
            BY <1>7, OddIsWhole DEF IsRequest, Byte
        <3>2. PICK n \in 1 .. Len(r) : \E k \in n + 1 .. Len(r) :
                names.length = k /\ r[n] = 0 /\ r[k] = 0
            BY <1>1, NamesEnd DEF names
        <3>3. PICK k \in n + 1 .. Len(r) : r[n] = 0 /\ r[k] = 0
            BY <3>2
        <3> HIDE DEF b
        <3>4. \A i, j \in 3 .. Len(b) : b[i] = 0 /\ b[j] = 0 => i = j
            BY <1>7, <3>1 DEF NoRequest, b
        <3>5. Len(r) \in Nat /\ Len(b) \in Nat /\ Len(b) >= 2 + Len(r)
              /\ \A i \in 1 .. Len(r) : b[2 + i] = r[i]
            BY <1>1, <1>7, LenProperties DEF b
        <3> HIDE DEF r
        <3>6. 2 + n \in 3 .. Len(b) /\ 2 + k \in 3 .. Len(b) /\ 2 + n # 2 + k
              /\ n \in 1 .. Len(r) /\ k \in 1 .. Len(r)
            BY <3>5
        <3>7. b[2 + n] = 0 /\ b[2 + k] = 0
            BY <3>3, <3>5, <3>6
        <3> QED BY <3>4, <3>6, <3>7
    <2>2. q.op \in {"login", "odd"}
        BY <1>7, KindOf
    <2> QED BY <1>7, <2>1, <2>2 DEF IsRequest
<1>9. names.name = q.name /\ names.word = q.word
    BY <1>1, <1>7, <1>8, NamesAre DEF names
<1>10. AnswerOf(c)' = IF right THEN Service!Granted(None) ELSE Service!Denied
    BY <1>6, <1>8, ToldShort DEF a
<1>11. Kept(c)'
    BY <1>6, <1>10, AnswersAreSome
<1>12. Service!ServiceNext
    <2>1. right \in BOOLEAN
        BY DEF right
    <2>2. right <=> request[c].name \in DOMAIN Users /\ Users[request[c].name] = request[c].word
        BY <1>9 DEF right
    <2>3. loggedIn'[c] = (loggedIn[c] \/ right)
        BY <1>1 DEF ServiceInv, StepInv, Typed
    <2> QED BY <1>1, <1>6, <1>8, <1>10, <2>1, <2>2, <2>3, ServesLogin
<1> QED BY <1>11, <1>12 DEF Promised

\* What is put into an empty buffer begins with the same two bytes.
LEMMA PutKeepsTwo ==
    ASSUME NEW a \in Seq(Byte), Len(a) >= 2
    PROVE  LET p == Put(<<>>, a)
           IN  /\ p \in Seq(Byte) /\ Len(p) \in Nat /\ Len(p) >= 2
               /\ p[1] = a[1] /\ p[2] = a[2]
<1> DEFINE n == Lesser(Len(a), BufferSpace - Len(<<>>))
           t == SubSeq(a, 1, n)
<1>1. Len(a) \in Nat /\ BufferSpace \in Nat /\ BufferSpace >= 2
    BY LenProperties, ManagementAssumption
<1>2. n \in 0 .. Len(a) /\ n >= 2
    BY <1>1, Empty DEF Lesser
<1> HIDE DEF n
<1>3. t \in Seq(Byte) /\ Len(t) = n /\ \A i \in 1 .. n : t[i] = a[i]
    BY <1>2, Dropped
<1> HIDE DEF t
<1>4. <<>> \o t = t
    BY <1>3, Joined, Empty
<1>5. Put(<<>>, a) = t
    BY <1>4 DEF Put, n, t
<1>6. n \in Nat /\ 1 \in 1 .. n /\ 2 \in 1 .. n
    BY <1>1, <1>2
<1> QED BY <1>2, <1>3, <1>5, <1>6

\* The second byte of an answer is the first of its value.
LEMMA TailFirst ==
    ASSUME NEW s \in Seq(Byte), Len(s) >= 2
    PROVE  Tail(s)[1] = s[2]
OBVIOUS

LEMMA ToldMetric ==
    ASSUME NEW q, q.op = "metric", NEW v \in Counts
    PROVE  Told(q, Put(<<>>, <<OK>> \o Word(v))) = Service!Granted(v)
<1> DEFINE o == <<OK>>
           w == Word(v)
           a == o \o w
           p == Put(<<>>, a)
<1>1. v \in 0 .. 255
    BY ManagementAssumption
<1>2. o \in Seq(Byte) /\ Len(o) = 1 /\ o[1] = OK
    BY DEF Byte, OK
<1>3. w \in Seq(Byte) /\ Len(w) = 4 /\ w[1] = v
    BY <1>1 DEF Byte, Word
<1> HIDE DEF o, w
<1>4. a \in Seq(Byte) /\ Len(a) = 5 /\ a[1] = OK /\ a[2] = v
    <2>1. a \in Seq(Byte) /\ Len(a) = Len(o) + Len(w)
          /\ (\A i \in 1 .. Len(o) : a[i] = o[i]) /\ \A i \in 1 .. Len(w) : a[Len(o) + i] = w[i]
        BY <1>2, <1>3, Joined
    <2> HIDE DEF a
    <2>2. 1 \in 1 .. Len(o) /\ 1 \in 1 .. Len(w) /\ Len(o) + 1 = 2 /\ Len(o) + Len(w) = 5
        BY <1>2, <1>3
    <2> QED BY <1>2, <1>3, <2>1, <2>2
<1> HIDE DEF a
<1>5. p \in Seq(Byte) /\ Len(p) >= 2 /\ p[1] = OK /\ p[2] = v
    <2>1. Len(a) >= 2
        BY <1>4
    <2> QED BY <1>4, <2>1, PutKeepsTwo
<1> HIDE DEF p
<1>6. Tail(p)[1] = v
    BY <1>5, TailFirst
<1>7. Told(q, p) = Service!Granted(v)
    BY <1>5, <1>6 DEF Told, IsCut, Value, Service!Granted
<1> QED BY <1>7 DEF p, a, o, w

LEMMA ToldStatus ==
    ASSUME NEW q, q.op = "get", q.what = "status", NEW v \in Byte
    PROVE  Told(q, Put(<<>>, <<OK, v>>)) = Service!Granted(v)
<1> DEFINE a == <<OK, v>>
           p == Put(<<>>, a)
<1>1. a \in Seq(Byte) /\ Len(a) = 2 /\ a[1] = OK /\ a[2] = v
    BY DEF Byte, OK
<1> HIDE DEF a
<1>2. p \in Seq(Byte) /\ Len(p) >= 2 /\ p[1] = OK /\ p[2] = v
    BY <1>1, PutKeepsTwo
<1> HIDE DEF p
<1>3. Tail(p)[1] = v
    BY <1>2, TailFirst
<1>4. q.what \notin Strings
    BY DEF Strings
<1>5. Told(q, p) = Service!Granted(v)
    BY <1>2, <1>3, <1>4 DEF Told, IsCut, Value, Service!Granted
<1> QED BY <1>5 DEF p, a

LEMMA ToldString ==
    ASSUME NEW q, q.op = "get", q.what \in Strings,
           NEW v \in Text, Len(v) <= FieldSize + ArgumentSize
    PROVE  Told(q, Put(<<>>, <<OK>> \o v \o <<0>>)) = Service!Shown(v)
<1>1. Len(v) \in Nat /\ AnswerSize \in Nat
    BY TextIsBytes, ManagementAssumption
<1>2. Told(q, StringAnswer(v)) = Service!Shown(v)
    BY <1>1, StringAnswerIs DEF Service!Shown, Service!Granted
<1> QED BY <1>2 DEF StringAnswer

\* A handler that closes its session is not done with it yet.
LEMMA ClosedIsKept ==
    ASSUME NEW c \in Clients, busy' = c \/ Incomplete(c)', ~Live(c)',
           Incomplete(c)' \/ UnknownStructure(c)',
           c \in gone' \/ (request'[c] # None /\ downstream'[c] = <<>>)
    PROVE  Kept(c)'
BY DEF Kept, Lost, Good

LEMMA metricsServes ==
    ASSUME ServiceInv, NEW c \in Clients, metrics(c)
    PROVE  Promised(c)
<1> DEFINE r == readBuffer[c]
           q == request[c]
<1>1. PICK v \in Counts : Respond(c, <<OK>> \o Word(v))
    BY DEF metrics
<1> DEFINE a == <<OK>> \o Word(v)
<1>2. /\ r \in Seq(Byte) /\ Len(r) >= 1 /\ expected[c] = METRICS /\ loggedIn[c]
      /\ busy = c /\ busy' = busy
      /\ readBuffer'[c] = Drop(r, 1)
      /\ writeBuffer'[c] = Put(writeBuffer[c], a)
      /\ expected'[c] = HEADER
      /\ downstream' = downstream /\ loggedIn' = loggedIn /\ told' = told
      /\ request' = request /\ gone' = gone /\ settings' = settings
    BY <1>1 DEF ServiceInv, StepInv, Typed, metrics, Reads, Consume, Respond, client
<1>3. Keeps(c)
    BY metricsKeeps DEF ServiceInv
<1>4. Live(c) /\ ~Lost(c) /\ expected[c] # HEADER
    <2>1. Len(r) \in Nat /\ ~(Len(r) < 1)
        BY <1>2, LenProperties
    <2> QED BY <1>2, <2>1, IncompleteIs DEF ServiceInv, Kept, Lost, METRICS, HEADER, LOGIN,
               TRANSFORMATIONS, UnknownStructure
<1>5. Asking(c)
    BY <1>4, HeaderIsRead DEF ServiceInv, Good
<1>6. /\ IsRequest(q) /\ q # None /\ downstream[c] = <<>> /\ q.op = "metric" /\ q.code = r[1]
      /\ Len(r) = 1
    <2>1. IsRequest(q) /\ q # None /\ downstream[c] = <<>>
        BY <1>4, <1>5, Unanswered
    <2>2. /\ Len(Bytes(q)) >= 2 + Len(r) /\ Len(Bytes(q)) \in Nat /\ Len(r) \in Nat
          /\ Bytes(q)[1] = 1 /\ Bytes(q)[2] = expected[c] /\ Len(Bytes(q)) > 1
          /\ \A i \in 1 .. Len(r) : Bytes(q)[2 + i] = r[i]
        BY <1>4, <1>5, BehindHeader DEF ServiceInv
    <2> HIDE DEF q, r
    <2>3. Bytes(q)[2] = METRICS
        BY <1>2, <2>2, Zenon
    <2>4. q.op = "metric"
        BY <2>1, <2>2, <2>3, KindOf
    <2>5. Len(Bytes(q)) = 3 /\ Bytes(q)[3] = q.code
        BY <2>1, <2>4, FixedBytes
    <2>6. 1 \in 1 .. Len(r) /\ 2 + 1 = 3 /\ Len(r) = 1
        BY <1>2, <2>2, <2>5
    <2> QED BY <2>1, <2>2, <2>4, <2>5, <2>6
<1>7. CASE r[1] \in 0 .. 2
    <2>1. watched' = [watched EXCEPT ![c] = IF @ = "closed" THEN @ ELSE "write"]
        BY <1>7 DEF metrics, SetInterest
    <2>2. Live(c)'
        BY <1>4, <2>1 DEF Live, ServiceInv, StepInv, Typed
    <2>3. a \in Seq(Byte) /\ a # <<>>
        <3> DEFINE o == <<OK>>
                   w == Word(v)
        <3>1. v \in 0 .. 255
            BY ManagementAssumption
        <3>2. o \in Seq(Byte) /\ Len(o) = 1 /\ w \in Seq(Byte)
            BY <3>1 DEF Word, Byte, OK
        <3> HIDE DEF o, w
        <3>3. o \o w \in Seq(Byte) /\ Len(o \o w) = Len(o) + Len(w) /\ Len(w) \in Nat
            BY <3>2, Joined
        <3>4. o \o w # <<>>
            BY <3>2, <3>3, EmptyOnly
        <3> QED BY <3>3, <3>4 DEF o, w
    <2> HIDE DEF a, q
    <2>4. Taken(c, a)
        BY <1>2, <1>4, <2>2 DEF Taken
    <2>5. /\ Serving(c) /\ ~Lost(c)' /\ AnswerOf(c)' = Told(request[c], Put(<<>>, a))
          /\ AnswerOf(c)' # None => Kept(c)'
        BY <1>3, <2>3, <2>4, TakenIs
    <2>6. AnswerOf(c)' = Service!Granted(v)
        BY <1>6, <2>5, ToldMetric DEF a, q
    <2>7. Kept(c)'
        <3>1. v \in Byte
            BY ManagementAssumption DEF Byte
        <3> QED BY <2>5, <2>6, <3>1, AnswersAreSome
    <2>8. Service!ServiceNext
        <3>1. request[c].op = "metric" /\ request[c].code \in 0 .. 2
            BY <1>6, <1>7 DEF q
        <3> QED BY <1>2, <2>5, <2>6, <3>1, ServesReport
    <2> QED BY <2>7, <2>8 DEF Promised
<1>8. CASE r[1] \notin 0 .. 2
    <2>1. watched' = [watched EXCEPT ![c] = "closed"]
        BY <1>8 DEF metrics, KillSocket
    <2>2. ~Live(c)'
        BY <2>1 DEF Live, ServiceInv, StepInv, Typed
    <2>3. readBuffer'[c] = <<>>
        <3>1. 1 \in Nat /\ 1 >= Len(r)
            BY <1>6
        <3> QED BY <1>2, <3>1, DroppedAll
    <2>4. Kept(c)'
        BY <1>2, <1>6, <2>2, <2>3, NothingIsIncomplete, ClosedIsKept
    <2>5. Service!Odd(request[c])
        BY <1>6, <1>8 DEF Service!Odd
    <2>6. Service!ServiceNext
        BY <1>2, <1>3, <1>4, <1>6, <2>2, <2>5, Disconnects DEF Keeps
    <2> QED BY <2>4, <2>6 DEF Promised
<1> QED BY <1>7, <1>8

\* The denials that go to a client that is not listened to.
LEMMA Denials ==
    ASSUME NEW s \in Seq({PERMISSION_DENIED})
    PROVE  /\ s \in Seq(Byte)
           /\ Len(s) <= BufferSpace => Put(s, <<PERMISSION_DENIED>>) \in Seq({PERMISSION_DENIED})
           /\ \A t \in Seq({PERMISSION_DENIED}) : s \o t \in Seq({PERMISSION_DENIED})
           /\ s # <<>> => /\ s[1] = PERMISSION_DENIED
                          /\ Drop(s, 1) \in Seq({PERMISSION_DENIED})
<1> DEFINE D == {PERMISSION_DENIED}
           a == <<PERMISSION_DENIED>>
<1>1. D \subseteq Byte /\ a \in Seq(D) /\ Len(a) = 1
    BY DEF PERMISSION_DENIED, Byte
<1>2. Len(s) \in Nat /\ \A i \in 1 .. Len(s) : s[i] \in D
    BY LenProperties, ElementOfSeq
<1> HIDE DEF D, a
<1>3. s \in Seq(Byte) /\ s \in Seq(D)
    BY <1>1, SeqMonotonic DEF D
<1>4. \A t \in Seq(D) : s \o t \in Seq(D)
    BY <1>3, ConcatProperties
<1>5. ASSUME Len(s) <= BufferSpace PROVE Put(s, a) \in Seq(D)
    <2> DEFINE n == Lesser(Len(a), BufferSpace - Len(s))
    <2>1. n \in 0 .. 1
        BY <1>1, <1>2, <1>5, ManagementAssumption DEF Lesser
    <2> HIDE DEF n
    <2>2. \A i \in 1 .. n : a[i] \in D
        BY <1>1, <2>1, ElementOfSeq
    <2>3. SubSeq(a, 1, n) \in Seq(D)
        BY <1>1, <2>1, <2>2, SubSeqProperties
    <2> QED BY <1>4, <2>3 DEF Put, n
<1>6. ASSUME s # <<>> PROVE s[1] = PERMISSION_DENIED /\ Drop(s, 1) \in Seq(D)
    <2>1. Len(s) >= 1
        BY <1>2, <1>3, <1>6, EmptyOnly
    <2>2. 1 \in 1 .. Len(s) /\ \A i \in 2 .. Len(s) : i \in 1 .. Len(s)
        BY <1>2, <2>1
    <2>3. s[1] = PERMISSION_DENIED
        BY <1>2, <2>2 DEF D
    <2>4. \A i \in 2 .. Len(s) : s[i] \in D
        BY <1>2, <2>2
    <2>5. SubSeq(s, 2, Len(s)) \in Seq(D)
        BY <1>2, <1>3, <2>4, SubSeqProperties
    <2> QED BY <2>3, <2>5 DEF Drop
<1> QED BY <1>3, <1>4, <1>5, <1>6 DEF D, a

LEMMA metricsDeniedServes ==
    ASSUME ServiceInv, NEW c \in Clients, metricsDenied(c)
    PROVE  Promised(c)
<1> DEFINE r == readBuffer[c]
<1>1. /\ r \in Seq(Byte) /\ Len(r) >= 1 /\ expected[c] = METRICS /\ ~loggedIn[c]
      /\ busy = c /\ busy' = busy
      /\ writeBuffer'[c] = Put(writeBuffer[c], <<PERMISSION_DENIED>>)
      /\ watched' = [watched EXCEPT ![c] = IF @ = "closed" THEN @ ELSE "write"]
      /\ downstream' = downstream /\ loggedIn' = loggedIn /\ told' = told
      /\ request' = request /\ gone' = gone /\ settings' = settings /\ expected' = expected
    BY DEF ServiceInv, StepInv, Typed, metricsDenied, Reads, Consume, SetInterest, client
<1>2. Lost(c) /\ Live(c)
    <2>1. Len(r) \in Nat /\ ~(Len(r) < 1)
        BY <1>1, LenProperties
    <2> QED BY <1>1, <2>1, IncompleteIs DEF ServiceInv, Kept, Lost, METRICS, HEADER, LOGIN,
               TRANSFORMATIONS, UnknownStructure
<1>3. Live(c)'
    BY <1>1, <1>2 DEF Live, ServiceInv, StepInv, Typed
<1>4. Lost(c)'
    BY <1>1, <1>2, <1>3 DEF Lost, METRICS
<1>5. /\ writeBuffer'[c] \in Seq({PERMISSION_DENIED})
      /\ downstream'[c] \in Seq({PERMISSION_DENIED})
    <2>1. writeBuffer[c] \in Seq({PERMISSION_DENIED}) /\ downstream[c] \in Seq({PERMISSION_DENIED})
          /\ Len(writeBuffer[c]) <= BufferSpace
        BY <1>2 DEF ServiceInv, Kept, StepInv, Typed
    <2> QED BY <1>1, <2>1, Denials
<1>6. Kept(c)'
    BY <1>1, <1>3, <1>4, <1>5 DEF Kept, Good, PERMISSION_DENIED
<1>7. Same(c)
    BY <1>1, <1>2, <1>3, <1>4 DEF Same, AskedOf, AnswerOf
<1>8. Keeps(c)
    BY metricsDeniedKeeps DEF ServiceInv
<1> QED BY <1>1, <1>6, <1>7, <1>8, Stutters DEF Promised, Keeps

\* A transformations structure that is taken is a whole one, of a session that
\* is alive, and answers the request its client waits for.
LEMMA TransformsTaken ==
    ASSUME ServiceInv, NEW c \in Clients, NEW code, NEW n \in Nat, Transforms(c, code, n),
           code = SET_STATUS => n >= 2, code \in {2, 4} => Argument(c) > 0,
           NEW a \in Seq(Byte), a # <<>>, Respond(c, a), Keeps(c)
    PROVE  /\ Serving(c) /\ Asking(c) /\ ~Lost(c)' /\ loggedIn'[c] = loggedIn[c]
           /\ AnswerOf(c)' = Told(request[c], Put(<<>>, a))
           /\ AnswerOf(c)' # None => Kept(c)'
<1> DEFINE r == readBuffer[c]
<1>1. /\ r \in Seq(Byte) /\ Len(r) >= n /\ n > 0 /\ r[1] = code /\ expected[c] = TRANSFORMATIONS
      /\ busy = c /\ busy' = busy
      /\ writeBuffer'[c] = Put(writeBuffer[c], a) /\ expected'[c] = HEADER
      /\ watched' = [watched EXCEPT ![c] = IF @ = "closed" THEN @ ELSE "write"]
      /\ downstream' = downstream /\ loggedIn' = loggedIn /\ told' = told
      /\ request' = request /\ gone' = gone
    BY DEF ServiceInv, StepInv, Typed, Transforms, Reads, Respond, SetInterest, client
<1>2. Live(c) /\ ~Lost(c) /\ expected[c] # HEADER
    <2>1. expected[c] \notin {HEADER, METRICS} /\ ~UnknownStructure(c)
        BY <1>1 DEF HEADER, METRICS, TRANSFORMATIONS, UnknownStructure
    <2>2. Len(r) \in Nat /\ Len(r) > 0 /\ (code = SET_STATUS => ~(Len(r) < 2))
        BY <1>1, LenProperties
    <2>3. ~(TakesString(c) /\ Argument(c) = 0)
        <3>1. TakesString(c) => code \in {2, 4}
            BY <1>1, Codes DEF TakesString
        <3>2. Argument(c) > 0 => Argument(c) # 0
            OBVIOUS
        <3> QED BY <3>1, <3>2
    <2>4. ~Incomplete(c)
        BY <1>1, <2>2, <2>3, IncompleteIs
    <2> QED BY <1>1, <2>1, <2>4 DEF ServiceInv, Kept, Lost
<1>3. Live(c)'
    BY <1>1, <1>2 DEF Live, ServiceInv, StepInv, Typed
<1>4. Taken(c, a)
    BY <1>1, <1>2, <1>3 DEF Taken
<1> QED BY <1>1, <1>4, TakenIs

\* The request of a transformations structure.
LEMMA TransformationAsked ==
    ASSUME ServiceInv, NEW c \in Clients, Asking(c), NEW code, NEW n \in Nat, Transforms(c, code, n)
    PROVE  LET q == request[c]
               b == Bytes(q)
               r == readBuffer[c]
           IN  /\ IsRequest(q)
               /\ Len(r) \in Nat /\ Len(r) >= n /\ n > 0 /\ Len(b) \in Nat /\ Len(b) >= 2 + Len(r)
               /\ Len(b) > 2 /\ b[1] = 1 /\ b[2] = TRANSFORMATIONS /\ b[3] = code
               /\ \A i \in 1 .. Len(r) : b[2 + i] = r[i]
               /\ q.op = "odd" => NoRequest(b)
<1>1. /\ Len(Bytes(request[c])) \in Nat /\ Len(Bytes(request[c])) > 2 /\ Bytes(request[c])[1] = 1
      /\ Bytes(request[c])[2] = TRANSFORMATIONS /\ Bytes(request[c])[3] = code
      /\ Len(Bytes(request[c])) >= 2 + Len(readBuffer[c])
      /\ \A i \in 1 .. Len(readBuffer[c]) : Bytes(request[c])[2 + i] = readBuffer[c][i]
      /\ IsRequest(request[c])
    BY TransformationOf DEF ServiceInv
<1>2. Len(readBuffer[c]) \in Nat /\ Len(readBuffer[c]) >= n /\ n > 0
    BY LenProperties DEF ServiceInv, StepInv, Typed, Transforms, Reads
<1>3. request[c].op = "odd" => NoRequest(Bytes(request[c]))
    BY <1>1, OddIsWhole DEF IsRequest, Byte
<1> QED BY <1>1, <1>2, <1>3

\* What set the status was a request to set the status.
LEMMA StatusChanges ==
    ASSUME Settled, NEW q, q.what = "status", settings' = [settings EXCEPT ![q.what] = q.value]
    PROVE  Service!Changes(q)
BY DEF Settled, Service!Changes, Service!Overflows

LEMMA setStatusServes ==
    ASSUME ServiceInv, NEW c \in Clients, setStatus(c)
    PROVE  Promised(c)
<1> DEFINE q == request[c]
           b == Bytes(q)
           v == readBuffer[c][2]
           granted == loggedIn[c] /\ v \in {0, 1}
           a == IF granted THEN <<OK>> ELSE <<PERMISSION_DENIED>>
<1>1. /\ Transforms(c, SET_STATUS, 2) /\ Respond(c, a)
      /\ settings' = IF granted THEN [settings EXCEPT !.status = v] ELSE settings
    BY DEF setStatus
<1>2. a \in Seq(Byte) /\ a # <<>> /\ SET_STATUS \notin {2, 4}
    BY ShortAnswers DEF SET_STATUS
<1> HIDE DEF a
<1>3. Keeps(c)
    BY setStatusKeeps DEF ServiceInv
<1>4. /\ Serving(c) /\ Asking(c) /\ ~Lost(c)' /\ loggedIn'[c] = loggedIn[c]
      /\ AnswerOf(c)' = Told(request[c], Put(<<>>, a))
      /\ AnswerOf(c)' # None => Kept(c)'
    BY <1>1, <1>2, <1>3, TransformsTaken
<1>5. q.op = "set" /\ q.what = "status" /\ q.value = v
    <2>1. /\ IsRequest(q)
          /\ Len(readBuffer[c]) \in Nat /\ Len(readBuffer[c]) >= 2
          /\ Len(b) \in Nat /\ Len(b) >= 2 + Len(readBuffer[c])
          /\ Len(b) > 2 /\ b[1] = 1 /\ b[2] = TRANSFORMATIONS /\ b[3] = SET_STATUS
          /\ \A i \in 1 .. Len(readBuffer[c]) : b[2 + i] = readBuffer[c][i]
          /\ q.op = "odd" => NoRequest(b)
        BY <1>1, <1>4, TransformationAsked
    <2>2. q.op \in {"set", "odd"}
        BY <2>1, KindOf
    <2>3. b[4] = v /\ Len(b) # 3
        <3>1. 2 \in 1 .. Len(readBuffer[c]) /\ 2 + 2 = 4
            BY <2>1
        <3> HIDE DEF b
        <3> QED BY <2>1, <3>1
    <2>4. q.op # "odd"
        <3> HIDE DEF b
        <3> QED BY <2>1, <2>3, Codes
            DEF NoRequest, TRANSFORMATIONS, LOGIN, METRICS, HEADER, SET_STATUS
    <2>5. q.op = "set"
        BY <2>2, <2>4
    <2>6. q.what = "status"
        <3>1. ~(q.what \in Strings /\ q.value \in Text)
            BY <2>1, <2>5, SetStringIsWhole DEF SET_STATUS
        <3> QED BY <2>1, <2>5, <3>1 DEF IsRequest
    <2>7. b[4] = q.value
        BY <2>1, <2>5, <2>6, FixedBytes
    <2> QED BY <2>3, <2>5, <2>6, <2>7
<1> HIDE DEF v
<1>6. CASE loggedIn[c]
    <2>1. IF v \notin {0, 1}
          THEN AnswerOf(c)' = Service!Denied /\ settings' = settings
          ELSE AnswerOf(c)' = Service!Granted(None) /\ Service!Changes(q)
        <3>1. IF v \notin {0, 1}
              THEN AnswerOf(c)' = Service!Denied /\ settings' = settings
              ELSE /\ AnswerOf(c)' = Service!Granted(None)
                   /\ settings' = [settings EXCEPT ![q.what] = q.value]
            BY <1>1, <1>4, <1>5, <1>6, ToldShort DEF a
        <3>2. Settled /\ q.what = "status"
            BY <1>5 DEF ServiceInv, StepInv
        <3> QED BY <3>1, <3>2, StatusChanges
    <2>2. Kept(c)'
        BY <1>4, <2>1, AnswersAreSome
    <2>3. Service!ServiceNext
        BY <1>4, <1>5, <1>6, <2>1, ServesSet
    <2> QED BY <2>2, <2>3 DEF Promised
<1>7. CASE ~loggedIn[c]
    <2>1. AnswerOf(c)' = Service!Denied /\ settings' = settings
        BY <1>1, <1>4, <1>7, ToldShort DEF a
    <2>2. Kept(c)'
        BY <1>4, <2>1, AnswersAreSome
    <2>3. Service!ServiceNext
        BY <1>4, <1>5, <1>7, <2>1, ServesDenial
    <2> QED BY <2>2, <2>3 DEF Promised
<1> QED BY <1>6, <1>7

LEMMA getStatusServes ==
    ASSUME ServiceInv, NEW c \in Clients, getStatus(c)
    PROVE  Promised(c)
<1> DEFINE q == request[c]
           a == IF loggedIn[c] THEN <<OK, settings.status>> ELSE <<PERMISSION_DENIED>>
<1>1. Transforms(c, GET_STATUS, 1) /\ Respond(c, a) /\ settings' = settings
    BY DEF getStatus
<1>2. settings.status \in Byte
    BY DEF ServiceInv, StepInv, Settled
<1>3. a \in Seq(Byte) /\ a # <<>> /\ GET_STATUS \notin {SET_STATUS, 2, 4}
    <2>1. OK \in Byte
        BY DEF OK, Byte
    <2> QED BY <1>2, <2>1, ShortAnswers DEF SET_STATUS, GET_STATUS
<1> HIDE DEF a
<1>4. Keeps(c)
    BY getStatusKeeps DEF ServiceInv
<1>5. /\ Serving(c) /\ Asking(c) /\ ~Lost(c)' /\ loggedIn'[c] = loggedIn[c]
      /\ AnswerOf(c)' = Told(request[c], Put(<<>>, a))
      /\ AnswerOf(c)' # None => Kept(c)'
    BY <1>1, <1>3, <1>4, TransformsTaken
<1>6. q.op = "get" /\ q.what = "status"
    <2>1. /\ IsRequest(q) /\ Len(Bytes(q)) \in Nat
          /\ Len(Bytes(q)) > 2 /\ Bytes(q)[1] = 1 /\ Bytes(q)[2] = TRANSFORMATIONS
          /\ Bytes(q)[3] = GET_STATUS
        BY <1>1, <1>5, TransformationAsked
    <2>2. Len(Bytes(q)) > 1
        BY <2>1
    <2> QED BY <2>1, <2>2, KindOf
<1>7. CASE loggedIn[c]
    <2>1. AnswerOf(c)' = Service!Granted(settings[q.what])
        BY <1>2, <1>5, <1>6, <1>7, ToldStatus DEF a
    <2>2. Kept(c)'
        BY <1>2, <1>5, <1>6, <2>1, AnswersAreSome
    <2>3. Service!ServiceNext
        BY <1>1, <1>5, <1>6, <1>7, <2>1, ServesGet
    <2> QED BY <2>2, <2>3 DEF Promised
<1>8. CASE ~loggedIn[c]
    <2>1. AnswerOf(c)' = Service!Denied
        BY <1>5, <1>8, ToldShort DEF a
    <2>2. Kept(c)'
        BY <1>5, <2>1, AnswersAreSome
    <2>3. Service!ServiceNext
        BY <1>1, <1>5, <1>6, <1>8, <2>1, ServesDenial
    <2> QED BY <2>2, <2>3 DEF Promised
<1> QED BY <1>7, <1>8

\* What set a string was a request to set that string to that text.
\* A string that is copied changes the other at most, and only when the list of
\* media types does not fit.
LEMMA CopiedChanges ==
    ASSUME Settled, NEW q, q.what \in Strings, q.value \in Text,
           settings' = Copied(q.what, q.value)
    PROVE  Service!Changes(q)
<1>1. /\ DOMAIN settings = {"media", "command", "status"}
      /\ Len(settings.media) \in Nat /\ Len(q.value) \in Nat /\ FieldSize \in Nat
    BY TextIsBytes, ManagementAssumption DEF Settled, Strings
<1>2. CASE q.what = "media"
    <2>1. /\ DOMAIN settings' = DOMAIN settings
          /\ settings'["media"] = q.value /\ settings'["status"] = settings["status"]
          /\ Len(q.value) < FieldSize => settings'["command"] = settings["command"]
        BY <1>1, <1>2 DEF Copied
    <2> QED BY <1>1, <1>2, <2>1 DEF Service!Changes, Service!Overflows
<1>3. CASE q.what = "command"
    <2>1. /\ DOMAIN settings' = DOMAIN settings
          /\ settings'["command"] = q.value /\ settings'["status"] = settings["status"]
          /\ Len(settings.media) < FieldSize => settings'["media"] = settings["media"]
        BY <1>1, <1>3 DEF Copied
    <2> QED BY <1>1, <1>3, <2>1 DEF Service!Changes, Service!Overflows
<1> QED BY <1>2, <1>3 DEF Strings

LEMMA setStringServes ==
    ASSUME ServiceInv, NEW c \in Clients, NEW name \in Strings, setString(c, name)
    PROVE  Promised(c)
<1> DEFINE q == request[c]
           b == Bytes(q)
           r == readBuffer[c]
           n == Argument(c)
           v == SubSeq(r, 2, n)
           a == IF loggedIn[c] THEN <<OK>> ELSE <<PERMISSION_DENIED>>
<1>1. /\ n > 0 /\ Transforms(c, SetCode(name), 1 + n) /\ Respond(c, a)
      /\ settings' = IF loggedIn[c] THEN Copied(name, v) ELSE settings
    BY DEF setString
<1>2. /\ n \in Nat /\ n <= ArgumentSize /\ 1 + n \in 2 .. Len(r) /\ r[1 + n] = 0
      /\ \A j \in 1 .. n - 1 : r[1 + j] # 0
      /\ r \in Seq(Byte) /\ Len(r) \in Nat
    <2>1. r \in Seq(Byte) /\ Len(r) \in Nat
        BY LenProperties DEF ServiceInv, StepInv, Typed
    <2>2. n \in Nat /\ n <= ArgumentSize /\ 1 + n \in 2 .. Len(r) /\ r[1 + n] = 0
        BY <1>1, ArgumentIs DEF ServiceInv
    <2> DEFINE t == Drop(r, 1)
    <2>3. n = PeekUntilNull(t, ArgumentSize)
        BY DEF Argument
    <2> HIDE DEF n, r
    <2>4. 1 \in 0 .. Len(r)
        BY <2>1, <2>2
    <2>5. /\ t \in Seq(Byte) /\ Len(t) = Len(r) - 1
          /\ \A i \in 1 .. Len(r) - 1 : t[i] = r[1 + i]
        BY <2>1, <2>4, Dropped
    <2> HIDE DEF t
    <2>6. \A j \in 1 .. n - 1 : t[j] # 0
        BY <1>1, <2>3, <2>5, PeekFinds, ManagementAssumption
    <2>7. \A j \in 1 .. n - 1 : j \in 1 .. Len(r) - 1
        BY <2>1, <2>2
    <2> QED BY <2>1, <2>2, <2>5, <2>6, <2>7
<1>3. a \in Seq(Byte) /\ a # <<>> /\ SetCode(name) # SET_STATUS /\ 1 + n \in Nat
    <2>1. SetCode(name) # SET_STATUS
        BY Codes DEF SET_STATUS
    <2> QED BY <1>2, <2>1, ShortAnswers
<1> HIDE DEF a
<1>4. Keeps(c)
    BY setStringKeeps DEF ServiceInv
<1>5. /\ Serving(c) /\ Asking(c) /\ ~Lost(c)' /\ loggedIn'[c] = loggedIn[c]
      /\ AnswerOf(c)' = Told(request[c], Put(<<>>, a))
      /\ AnswerOf(c)' # None => Kept(c)'
    BY <1>1, <1>3, <1>4, TransformsTaken
<1>6. q.op = "set" /\ q.what = name /\ q.value = v /\ v \in Text
    <2>1. /\ IsRequest(q)
          /\ Len(b) \in Nat /\ Len(b) >= 2 + Len(r)
          /\ Len(b) > 2 /\ b[1] = 1 /\ b[2] = TRANSFORMATIONS /\ b[3] = SetCode(name)
          /\ \A i \in 1 .. Len(r) : b[2 + i] = r[i]
          /\ q.op = "odd" => NoRequest(b)
        BY <1>1, <1>3, <1>5, TransformationAsked
    <2>2. b[3] \in {2, 4}
        BY <2>1, Codes
    <2>3. q.op \in {"set", "odd"}
        BY <2>1, <2>2, KindOf
    <2>4. q.op # "odd"
        <3> SUFFICES ASSUME NoRequest(b) PROVE FALSE
            BY <2>1
        <3>1. b[2 + (1 + n)] = 0 /\ 2 + (1 + n) \in 4 .. Lesser(Len(b), 3 + ArgumentSize)
            <4> HIDE DEF b, r, n
            <4>1. 1 + n \in 1 .. Len(r) /\ ArgumentSize \in Nat
                BY <1>2, ManagementAssumption
            <4>2. 2 + (1 + n) \in 4 .. Lesser(Len(b), 3 + ArgumentSize)
                BY <1>2, <2>1, <4>1 DEF Lesser
            <4> QED BY <1>2, <2>1, <4>1, <4>2
        <3>2. \/ b[3] \notin 0 .. 5
              \/ b[3] = SET_STATUS /\ Len(b) = 3
              \/ \A i \in 4 .. Lesser(Len(b), 3 + ArgumentSize) : b[i] # 0
            <4> HIDE DEF b
            <4>1. Len(b) > 1
                BY <2>1
            <4> QED BY <2>1, <4>1 DEF NoRequest
        <3>3. b[3] \in 0 .. 5 /\ b[3] # SET_STATUS
            BY <2>2 DEF SET_STATUS
        <3> QED BY <3>1, <3>2, <3>3
    <2>5. q.op = "set" /\ q.what \in Strings /\ q.value \in Text
        <3>1. q.op = "set"
            BY <2>3, <2>4
        <3>2. q.what = "status" => b[3] = SET_STATUS
            BY <2>1, <3>1, ShortIsWhole
        <3> QED BY <2>1, <2>2, <3>1, <3>2 DEF IsRequest, SET_STATUS
    <2>6. /\ Len(q.value) \in Nat /\ Len(b) = 4 + Len(q.value) /\ b[3] = SetCode(q.what)
          /\ \A i \in 1 .. Len(q.value) : b[3 + i] = q.value[i]
          /\ b[4 + Len(q.value)] = 0
        BY <2>5, SetBytes
    <2>7. q.what = name
        BY <2>1, <2>5, <2>6, CodesDiffer
    <2>8. v = q.value
        <3> DEFINE w == q.value
        <3>1. /\ Len(w) \in Nat /\ Len(b) = 4 + Len(w) /\ w \in Text
              /\ \A i \in 1 .. Len(w) : b[3 + i] = w[i]
              /\ b[4 + Len(w)] = 0
            BY <2>5, <2>6
        <3> HIDE DEF w, b, r, n
        <3>2. /\ 1 \in Nat /\ 0 < n /\ n \in Nat /\ 1 + n <= Len(r)
            BY <1>1, <1>2
        <3>3. \A i \in 1 .. Len(w) : i <= Len(r) - 1 => r[1 + i] = w[i]
            <4> SUFFICES ASSUME NEW i \in 1 .. Len(w), i <= Len(r) - 1 PROVE r[1 + i] = w[i]
                OBVIOUS
            <4>1. 1 + i \in 1 .. Len(r) /\ 2 + (1 + i) = 3 + i
                BY <1>2, <3>1
            <4> QED BY <2>1, <3>1, <4>1
        <3>4. Len(w) + 1 <= Len(r) - 1 => r[1 + Len(w) + 1] = 0
            <4> SUFFICES ASSUME Len(w) + 1 <= Len(r) - 1 PROVE r[1 + Len(w) + 1] = 0
                OBVIOUS
            <4>1. 1 + Len(w) + 1 \in 1 .. Len(r) /\ 2 + (1 + Len(w) + 1) = 4 + Len(w)
                BY <1>2, <3>1
            <4> QED BY <2>1, <3>1, <4>1
        <3>5. n = Len(w) + 1 /\ SubSeq(r, 1 + 1, 1 + n - 1) = w
            <4>1. EndsAt(r, 1, n)
                BY <1>2, <3>2 DEF EndsAt
            <4>2. Carries(r, 1, w)
                BY <3>3, <3>4 DEF Carries
            <4> QED BY <1>2, <3>1, <3>2, <4>1, <4>2, TextIs
        <3>6. 1 + 1 = 2 /\ 1 + n - 1 = n
            BY <1>2
        <3> QED BY <3>5, <3>6 DEF w, r, n
    <2> QED BY <2>5, <2>7, <2>8
<1>7. name # "status"
    BY DEF Strings
<1> HIDE DEF v, n
<1>8. CASE loggedIn[c]
    <2>1. AnswerOf(c)' = Service!Granted(None) /\ Service!Changes(q)
        <3>1. AnswerOf(c)' = Service!Granted(None) /\ settings' = Copied(q.what, q.value)
            BY <1>1, <1>5, <1>6, <1>8, ToldShort DEF a
        <3>2. q.what \in Strings /\ q.value \in Text /\ Settled
            BY <1>6 DEF ServiceInv, StepInv
        <3> QED BY <3>1, <3>2, CopiedChanges
    <2>2. Kept(c)'
        BY <1>5, <2>1, AnswersAreSome
    <2>3. Service!ServiceNext
        BY <1>5, <1>6, <1>7, <1>8, <2>1, ServesSet
    <2> QED BY <2>2, <2>3 DEF Promised
<1>9. CASE ~loggedIn[c]
    <2>1. AnswerOf(c)' = Service!Denied /\ settings' = settings
        BY <1>1, <1>5, <1>9, ToldShort DEF a
    <2>2. Kept(c)'
        BY <1>5, <2>1, AnswersAreSome
    <2>3. Service!ServiceNext
        BY <1>5, <1>6, <1>9, <2>1, ServesDenial
    <2> QED BY <2>2, <2>3 DEF Promised
<1> QED BY <1>8, <1>9

LEMMA getStringServes ==
    ASSUME ServiceInv, NEW c \in Clients, NEW name \in Strings, getString(c, name)
    PROVE  Promised(c)
<1> DEFINE q == request[c]
           v == settings[name]
           s == <<OK>> \o v \o <<0>>
           a == IF loggedIn[c] THEN s ELSE <<PERMISSION_DENIED>>
<1>1. Transforms(c, GetCode(name), 1) /\ Respond(c, a) /\ settings' = settings
    BY DEF getString
<1>2. v \in Text /\ Len(v) <= FieldSize + ArgumentSize
    <2>1. name \in {"media", "command"} /\ FieldSize \in Nat /\ ArgumentSize \in Nat
        BY ManagementAssumption DEF Strings
    <2> QED BY <2>1, TextIsBytes DEF ServiceInv, StepInv, Settled
<1>3. a \in Seq(Byte) /\ a # <<>> /\ GetCode(name) \notin {SET_STATUS, 2, 4}
    <2>1. <<OK>> \in Seq(Byte) /\ Len(<<OK>>) = 1
        BY ShortAnswers
    <2>2. s \in Seq(Byte) /\ Len(s) = Len(<<OK>>) + Len(v) + 1
        BY <1>2, <2>1, TextBytes
    <2>3. s # <<>>
        <3>1. Len(v) \in Nat
            BY <1>2, TextIsBytes
        <3> HIDE DEF s, v
        <3>2. Len(s) # 0
            BY <2>1, <2>2, <3>1
        <3> QED BY <2>2, <3>2, EmptyOnly
    <2>4. GetCode(name) \notin {SET_STATUS, 2, 4}
        BY Codes DEF SET_STATUS
    <2> HIDE DEF s
    <2> QED BY <2>2, <2>3, <2>4, ShortAnswers
<1> HIDE DEF a, v
<1>4. Keeps(c)
    BY getStringKeeps DEF ServiceInv
<1>5. /\ Serving(c) /\ Asking(c) /\ ~Lost(c)' /\ loggedIn'[c] = loggedIn[c]
      /\ AnswerOf(c)' = Told(request[c], Put(<<>>, a))
      /\ AnswerOf(c)' # None => Kept(c)'
    BY <1>1, <1>3, <1>4, TransformsTaken
<1>6. q.op = "get" /\ q.what = name
    <2>1. /\ IsRequest(q) /\ Len(Bytes(q)) \in Nat
          /\ Len(Bytes(q)) > 2 /\ Bytes(q)[1] = 1 /\ Bytes(q)[2] = TRANSFORMATIONS
          /\ Bytes(q)[3] = GetCode(name)
        BY <1>1, <1>5, TransformationAsked
    <2>2. Bytes(q)[3] \in {3, 5} /\ Len(Bytes(q)) > 1
        BY <2>1, Codes
    <2>3. q.op = "get" /\ q.what \in Strings
        BY <2>1, <2>2, KindOf
    <2>4. Bytes(q)[3] = GetCode(q.what)
        <3>1. q.what # "status"
            BY <2>3 DEF Strings
        <3> QED BY <2>1, <2>3, <3>1, ShortIsWhole
    <2> QED BY <2>1, <2>3, <2>4, CodesDiffer
<1>7. CASE loggedIn[c]
    <2>1. Told(q, Put(<<>>, s)) = Service!Shown(v) /\ q.what # "status"
        BY <1>2, <1>6, ToldString DEF Strings
    <2>2. AnswerOf(c)' = Service!Shown(settings[q.what])
        BY <1>5, <1>6, <1>7, <2>1 DEF a, v
    <2>3. Kept(c)'
        BY <1>2, <1>5, <1>6, <2>2, AnswersAreSome DEF v
    <2>4. Service!ServiceNext
        BY <1>1, <1>5, <1>6, <1>7, <2>1, <2>2, ServesGet
    <2> QED BY <2>3, <2>4 DEF Promised
<1>8. CASE ~loggedIn[c]
    <2>1. AnswerOf(c)' = Service!Denied
        BY <1>5, <1>8, ToldShort DEF a
    <2>2. Kept(c)'
        BY <1>5, <2>1, AnswersAreSome
    <2>3. Service!ServiceNext
        BY <1>1, <1>5, <1>6, <1>8, <2>1, ServesDenial
    <2> QED BY <2>2, <2>3 DEF Promised
<1> QED BY <1>7, <1>8

-----------------------------------------------------------------------------
(* What the parser does not serve. *)

\* A handler that returns leaves nothing of a session it has closed.
LEMMA ReturnIsKept ==
    ASSUME ServiceInv, NEW c \in Clients, Return(c), watched'[c] = "closed",
           c \in gone' \/ (request'[c] # None /\ downstream'[c] = <<>>)
    PROVE  Kept(c)'
<1>1. readBuffer'[c] = <<>> /\ expected'[c] = HEADER
    BY DEF Return, ServiceInv, StepInv, Typed
<1>2. Incomplete(c)'
    <2>1. ~UnknownStructure(c)'
        BY <1>1 DEF UnknownStructure, HEADER
    <2> QED BY <1>1, <2>1, NothingIsIncomplete
<1>3. ~Live(c)'
    BY DEF Live
<1> QED BY <1>2, <1>3, ClosedIsKept

\* The peek gives up on more bytes than it may look at.
LEMMA PeekGivesUp ==
    ASSUME NEW s \in Seq(Byte), NEW size \in Nat, PeekUntilNull(s, size) = -1
    PROVE  Len(s) > size
<1> DEFINE ends == {i \in 1 .. Lesser(Len(s), size) : s[i] = 0}
<1>1. Len(s) \in Nat
    BY LenProperties
<1>2. ends = {}
    <2> SUFFICES ASSUME ends # {} PROVE FALSE
        OBVIOUS
    <2>1. Lesser(Len(s), size) \in Nat
        BY <1>1, LesserIs
    <2>2. ends \subseteq Nat
        BY <2>1
    <2>3. \E i \in ends : \A j \in ends : i <= j
        BY <2>2, LeastMember
    <2> DEFINE n == CHOOSE i \in ends : \A j \in ends : i <= j
    <2>4. n \in ends
        BY <2>3
    <2>5. PeekUntilNull(s, size) = n
        BY DEF PeekUntilNull
    <2>6. n \in Nat
        BY <2>2, <2>4
    <2> HIDE DEF n, ends
    <2>7. n = -1
        BY <2>5
    <2> QED BY <2>6, <2>7
<1>3. PeekUntilNull(s, size) = IF Len(s) > size THEN -1 ELSE 0
    BY <1>2 DEF PeekUntilNull
<1> QED BY <1>1, <1>3

\* A type or an argument the parser does not take is not of the protocol.
LEMMA transformationsFailsServes ==
    ASSUME ServiceInv, NEW c \in Clients, transformationsFails(c)
    PROVE  Promised(c)
<1> DEFINE q == request[c]
           b == Bytes(q)
           r == readBuffer[c]
<1>1. /\ expected[c] = TRANSFORMATIONS /\ r \in Seq(Byte) /\ Len(r) \in Nat /\ Len(r) >= 1
      /\ WrongType(c) \/ TooLong(c)
      /\ watched' = [watched EXCEPT ![c] = "closed"] /\ Return(c)
      /\ settings' = settings /\ request' = request /\ told' = told /\ gone' = gone
      /\ downstream' = downstream
    BY LenProperties
    DEF ServiceInv, StepInv, Typed, transformationsFails, Reads, KillSocket, client
<1>2. watched'[c] = "closed" /\ ~Live(c)'
    BY <1>1 DEF Live, ServiceInv, StepInv, Typed
<1>3. Keeps(c)
    BY transformationsFailsKeeps DEF ServiceInv
<1>4. expected[c] \notin {HEADER, METRICS} /\ ~UnknownStructure(c)
    BY <1>1 DEF HEADER, METRICS, TRANSFORMATIONS, UnknownStructure
<1>5. Live(c) /\ ~Lost(c)
    <2>1. ~(r[1] = SET_STATUS /\ Len(r) < 2)
        <3>1. TakesString(c) => r[1] # SET_STATUS
            BY Codes DEF TakesString, SET_STATUS
        <3>2. WrongType(c) => r[1] # SET_STATUS
            BY DEF WrongType, SET_STATUS
        <3> QED BY <1>1, <3>1, <3>2 DEF TooLong
    <2>2. ~(TakesString(c) /\ Argument(c) = 0)
        <3>1. TakesString(c) => r[1] \in {2, 4}
            BY Codes DEF TakesString
        <3>2. TakesString(c) => ~WrongType(c)
            BY <3>1 DEF WrongType
        <3>3. TooLong(c) => Argument(c) # 0
            BY DEF TooLong
        <3> QED BY <1>1, <3>2, <3>3
    <2>3. ~Incomplete(c)
        <3>1. Len(r) > 0
            BY <1>1
        <3> QED BY <1>1, <2>1, <2>2, <3>1, IncompleteIs
    <2> QED BY <1>4, <2>3 DEF ServiceInv, Kept, Lost
<1>6. Asking(c)
    BY <1>4, <1>5, HeaderIsRead DEF ServiceInv, Good
<1>7. IsRequest(q) /\ Fits(q) /\ q # None /\ downstream[c] = <<>>
    BY <1>5, <1>6, Unanswered
<1>8. /\ Len(b) \in Nat /\ Len(b) >= 2 + Len(r) /\ b[2] = TRANSFORMATIONS /\ b[3] = r[1]
    <2>1. /\ Len(b) \in Nat /\ Len(b) >= 2 + Len(r) /\ b[2] = expected[c]
          /\ \A i \in 1 .. Len(r) : b[2 + i] = r[i]
        BY <1>4, <1>6, BehindHeader DEF ServiceInv
    <2> HIDE DEF b, r
    <2>2. 1 \in 1 .. Len(r) /\ 2 + 1 = 3
        BY <1>1
    <2>3. b[2] = TRANSFORMATIONS
        BY <1>1, <2>1, Zenon
    <2> QED BY <2>1, <2>2, <2>3
<1>9. q.op = "odd"
    <2> SUFFICES ASSUME q.op # "odd" PROVE FALSE
        OBVIOUS
    <2>1. /\ b[3] \in 0 .. 5
          /\ b[3] \in {2, 4} => q.op = "set" /\ q.what \in Strings
        BY <1>7, <1>8, Understood
    <2>2. ~WrongType(c)
        BY <1>8, <2>1 DEF WrongType
    <2>3. TakesString(c) /\ Argument(c) = -1
        BY <1>1, <2>2 DEF TooLong
    <2>4. b[3] \in {2, 4}
        BY <1>8, <2>3, Codes DEF TakesString
    <2>5. q.op = "set" /\ q.what \in Strings /\ q.value \in Text /\ Len(q.value) < ArgumentSize
        BY <1>7, <2>1, <2>4 DEF IsRequest, Fits, Strings
    <2>6. Len(q.value) \in Nat /\ Len(b) = 4 + Len(q.value)
        BY <2>5, SetBytes
    <2>7. Drop(r, 1) \in Seq(Byte) /\ Len(Drop(r, 1)) = Len(r) - 1
        <3>1. 1 \in 0 .. Len(r)
            BY <1>1
        <3> QED BY <1>1, <3>1, Dropped
    <2>8. Len(Drop(r, 1)) > ArgumentSize
        BY <2>3, <2>7, PeekGivesUp, ManagementAssumption DEF Argument
    <2> HIDE DEF b, r
    <2>9. ArgumentSize \in Nat
        BY ManagementAssumption
    <2> QED BY <1>1, <1>8, <2>5, <2>6, <2>7, <2>8, <2>9
<1>10. Kept(c)'
    BY <1>1, <1>2, <1>7, ReturnIsKept
<1>11. Service!ServiceNext
    <2>1. Service!Odd(request[c])
        BY <1>9 DEF Service!Odd
    <2> QED BY <1>1, <1>2, <1>3, <1>5, <1>7, <2>1, Disconnects DEF Keeps
<1> QED BY <1>10, <1>11 DEF Promised

\* A structure that is not known is not of the protocol.
LEMMA readUnknownServes ==
    ASSUME ServiceInv, NEW c \in Clients, readUnknown(c)
    PROVE  Promised(c)
<1> DEFINE q == request[c]
<1>1. /\ UnknownStructure(c) /\ busy = c /\ busy' = busy
      /\ watched' = [watched EXCEPT ![c] = "closed"]
      /\ settings' = settings /\ request' = request /\ told' = told /\ gone' = gone
      /\ downstream' = downstream /\ expected' = expected /\ loggedIn' = loggedIn
    BY DEF readUnknown, KillSocket, client
<1>2. ~Live(c)' /\ UnknownStructure(c)'
    BY <1>1 DEF Live, ServiceInv, StepInv, Typed, UnknownStructure, HEADER, LOGIN, METRICS,
                TRANSFORMATIONS
<1>3. Keeps(c)
    BY readUnknownKeeps DEF ServiceInv
<1>4. expected[c] \notin {HEADER, METRICS, LOGIN, TRANSFORMATIONS}
    BY <1>1 DEF UnknownStructure
<1>5. CASE Live(c)
    <2>1. ~Lost(c) /\ Asking(c)
        BY <1>4, <1>5, HeaderIsRead DEF ServiceInv, Good, Lost
    <2>2. IsRequest(q) /\ Fits(q) /\ q # None /\ downstream[c] = <<>>
        BY <1>5, <2>1, Unanswered
    <2>3. Bytes(q)[2] = expected[c]
        BY <1>4, <2>1, BehindHeader DEF ServiceInv
    <2>4. q.op = "odd"
        BY <1>4, <2>2, <2>3, Understood
    <2>5. Service!Odd(request[c])
        BY <2>4 DEF Service!Odd
    <2>6. Kept(c)'
        BY <1>1, <1>2, <2>2, ClosedIsKept
    <2>7. Service!ServiceNext
        BY <1>1, <1>2, <1>3, <1>5, <2>2, <2>5, Disconnects DEF Keeps
    <2> QED BY <2>6, <2>7 DEF Promised
<1>6. CASE ~Live(c)
    <2>1. Kept(c)'
        <3>1. c \in gone \/ (request[c] # None /\ downstream[c] = <<>>)
            BY <1>6 DEF ServiceInv, Kept
        <3> QED BY <1>1, <1>2, <3>1, ClosedIsKept
    <2>2. Same(c)
        BY <1>2, <1>6 DEF Same, AskedOf, AnswerOf, Lost
    <2> QED BY <1>1, <1>3, <2>1, <2>2, Stutters DEF Promised, Keeps
<1> QED BY <1>5, <1>6

LEMMA ReadReturnsServes ==
    ASSUME ServiceInv, NEW c \in Clients, ReadReturns(c)
    PROVE  Promised(c)
<1>1. /\ Incomplete(c) /\ watched' = watched /\ Return(c)
      /\ settings' = settings /\ request' = request /\ told' = told /\ gone' = gone
      /\ downstream' = downstream
    BY DEF ReadReturns, client
<1>2. Keeps(c)
    BY ReadReturnsKeeps DEF ServiceInv
<1>3. CASE Live(c)
    <2>1. UNCHANGED <<loggedIn, expected, readBuffer, writeBuffer, upstream>>
        BY <1>1, <1>3 DEF Return, Live
    <2>2. Incomplete(c)'
        BY <1>1, <2>1, SameIncomplete
    <2>3. (Live(c)' <=> Live(c)) /\ (Lost(c)' <=> Lost(c)) /\ Outgoing(c)' = Outgoing(c)
        BY <1>1, <2>1 DEF Live, Lost, Outgoing, METRICS
    <2>4. AskedOf(c)' = AskedOf(c) /\ AnswerOf(c)' = AnswerOf(c)
        BY <1>1, <2>3 DEF AskedOf, AnswerOf, Told, Value, Zero, OK
    <2>5. Kept(c)'
        BY <1>1, <1>3, <2>1, <2>2, <2>3, <2>4 DEF ServiceInv, Kept, Good, PERMISSION_DENIED
    <2>6. Same(c)
        BY <2>1, <2>3, <2>4 DEF Same
    <2> QED BY <1>1, <1>2, <2>5, <2>6, Stutters DEF Promised, Keeps
<1>4. CASE ~Live(c)
    <2>1. ~Live(c)' /\ watched'[c] = "closed"
        BY <1>1, <1>4 DEF Live
    <2>2. Kept(c)'
        BY <1>1, <1>4, <2>1, ReturnIsKept DEF ServiceInv, Kept
    <2>3. Same(c)
        BY <1>4, <2>1 DEF Same, AskedOf, AnswerOf, Lost
    <2> QED BY <1>1, <1>2, <2>2, <2>3, Stutters DEF Promised, Keeps
<1> QED BY <1>3, <1>4

\* A header is the beginning of a request that waits.
LEMMA HeaderOf ==
    ASSUME ServiceInv, NEW c \in Clients, ReadHeader(c)
    PROVE  LET q == request[c]
               b == Bytes(q)
               r == readBuffer[c]
           IN  /\ Live(c) /\ ~Lost(c) /\ Asking(c)
               /\ IsRequest(q) /\ Fits(q) /\ q # None
               /\ writeBuffer[c] = <<>> /\ downstream[c] = <<>>
               /\ r \in Seq(Byte) /\ Len(r) \in Nat /\ Len(r) >= 2
               /\ Len(b) \in Nat /\ Len(b) >= Len(r) /\ Len(b) > 1 /\ b[1] = r[1] /\ b[2] = r[2]
<1> DEFINE q == request[c]
           b == Bytes(q)
           r == readBuffer[c]
           u == upstream[c]
<1>1. /\ expected[c] = HEADER /\ r \in Seq(Byte) /\ u \in Seq(Byte)
      /\ Len(r) \in Nat /\ Len(r) >= 2
    BY LenProperties DEF ServiceInv, StepInv, Typed, ReadHeader, Reads
<1>2. expected[c] # METRICS /\ ~UnknownStructure(c)
    BY <1>1 DEF HEADER, METRICS, UnknownStructure
<1>3. ~Incomplete(c)
    <2>1. ~(Len(r) < 2)
        BY <1>1
    <2> QED BY <1>1, <2>1, IncompleteIs
<1>4. Live(c) /\ ~Lost(c)
    BY <1>2, <1>3 DEF ServiceInv, Kept, Lost
<1>5. Asking(c)
    <2>1. r # <<>>
        BY <1>1, EmptyOnly
    <2> QED BY <1>4, <2>1 DEF ServiceInv, StepInv, InPlace, Good, Idle, Served
<1>6. IsRequest(q) /\ Fits(q) /\ q # None /\ writeBuffer[c] = <<>> /\ downstream[c] = <<>>
    BY <1>4, <1>5, Unanswered
<1>7. PICK rest \in Seq(Byte) : b = <<>> \o (r \o (u \o rest))
    BY <1>1, <1>5, Zenon DEF Asking, Stretch
<1> DEFINE w == u \o rest
<1>8. w \in Seq(Byte) /\ r \o w \in Seq(Byte)
    BY <1>1, Joined
<1> HIDE DEF w
<1>9. b = r \o w
    <2>1. <<>> \o (r \o w) = r \o w
        BY <1>8, Joined, Empty
    <2> QED BY <1>7, <2>1 DEF w
<1> HIDE DEF b, r, u, q
<1>10. Len(r \o w) = Len(r) + Len(w) /\ Len(w) \in Nat
    BY <1>1, <1>8, Joined
<1>11. Len(r \o w) > 1 /\ (r \o w)[1] = r[1] /\ (r \o w)[2] = r[2]
    BY <1>1, <1>8, FirstTwo
<1>12. Len(b) \in Nat /\ Len(b) >= Len(r)
    BY <1>1, <1>9, <1>10
<1> QED BY <1>1, <1>4, <1>5, <1>6, <1>9, <1>11, <1>12 DEF b, r, q

LEMMA ReadHeaderServes ==
    ASSUME ServiceInv, NEW c \in Clients, ReadHeader(c)
    PROVE  Promised(c)
<1> DEFINE q == request[c]
           b == Bytes(q)
           r == readBuffer[c]
<1>1. /\ busy = c /\ busy' = busy /\ expected[c] = HEADER /\ expected'[c] = r[2]
      /\ readBuffer'[c] = Drop(r, 2)
      /\ writeBuffer' = writeBuffer /\ downstream' = downstream /\ settings' = settings
      /\ request' = request /\ loggedIn' = loggedIn /\ told' = told /\ gone' = gone
    BY DEF ServiceInv, StepInv, Typed, ReadHeader, Reads, Consume, client
<1>2. /\ Live(c) /\ ~Lost(c) /\ Asking(c) /\ IsRequest(q) /\ Fits(q) /\ q # None
      /\ writeBuffer[c] = <<>> /\ downstream[c] = <<>>
      /\ r \in Seq(Byte) /\ Len(r) \in Nat /\ Len(r) >= 2
      /\ Len(b) \in Nat /\ Len(b) >= Len(r) /\ Len(b) > 1 /\ b[1] = r[1] /\ b[2] = r[2]
    BY HeaderOf
<1>3. Keeps(c)
    BY ReadHeaderKeeps DEF ServiceInv
<1>4. AnswerOf(c) = None
    BY <1>2, NotAnswered
<1>5. CASE r[1] # 1
    <2>1. ~Live(c)'
        BY <1>5 DEF ReadHeader, KillSocket, Live, ServiceInv, StepInv, Typed
    <2>2. q.op = "odd"
        BY <1>2, <1>5, Understood
    <2>3. b = q.bytes
        BY <2>2 DEF Bytes
    <2>4. Len(b) <= 2
        BY <1>2, <1>5, <2>2, <2>3 DEF Fits
    <2>5. readBuffer'[c] = <<>>
        <3>1. 2 \in Nat /\ 2 >= Len(r)
            BY <1>2, <2>4
        <3> QED BY <1>1, <1>2, <3>1, DroppedAll
    <2>6. Kept(c)'
        BY <1>1, <1>2, <2>1, <2>5, NothingIsIncomplete, ClosedIsKept
    <2>7. Service!Odd(request[c])
        BY <2>2 DEF Service!Odd
    <2>8. Service!ServiceNext
        BY <1>1, <1>2, <1>3, <2>1, <2>7, Disconnects DEF Keeps
    <2> QED BY <2>6, <2>8 DEF Promised
<1>6. CASE r[1] = 1
    <2>1. Live(c)'
        BY <1>2, <1>6 DEF ReadHeader, Live
    <2>2. Outgoing(c)' = <<>>
        <3>1. <<>> \o <<>> = <<>>
            BY Joined, Empty
        <3> QED BY <1>1, <1>2, <3>1 DEF Outgoing
    <2>3. Kept(c)'
        <3>1. <<>> \in Seq({PERMISSION_DENIED})
            OBVIOUS
        <3> QED BY <1>1, <1>2, <2>1, <2>2, <3>1 DEF Kept, PERMISSION_DENIED
    <2>4. AnswerOf(c)' = None
        BY <2>2 DEF AnswerOf
    <2>5. CASE r[2] = METRICS /\ ~loggedIn[c]
        <3>1. Lost(c)'
            BY <1>1, <2>1, <2>5 DEF Lost, METRICS
        <3>2. q.op = "metric"
            BY <1>2, <1>6, <2>5, KindOf
        <3>3. Serving(c)
            BY <1>1, <1>2, <1>3, <1>4, <2>1 DEF Serving, Keeps
        <3>4. Service!ServiceNext
            BY <1>1, <2>5, <3>1, <3>2, <3>3, ServesLoss
        <3> QED BY <2>3, <3>4 DEF Promised
    <2>6. CASE ~(r[2] = METRICS /\ ~loggedIn[c])
        <3>1. ~Lost(c)'
            BY <1>1, <2>6 DEF Lost, METRICS
        <3>2. AskedOf(c)' = AskedOf(c)
            BY <1>1, <1>2, <2>1 DEF AskedOf
        <3>3. Same(c)
            BY <1>1, <1>2, <1>4, <2>1, <2>4, <3>1, <3>2 DEF Same
        <3> QED BY <1>1, <1>3, <2>3, <3>3, Stutters DEF Promised, Keeps
    <2> QED BY <2>5, <2>6
<1> QED BY <1>5, <1>6

-----------------------------------------------------------------------------
(* The descriptors that are ready, and the clients. *)

LEMMA AcceptServes ==
    ASSUME ServiceInv, NEW c \in Clients, Accept(c)
    PROVE  Promised(c)
<1>1. /\ busy' = busy /\ watched[c] = "none" /\ watched'[c] = "read"
      /\ expected' = expected /\ readBuffer' = readBuffer /\ writeBuffer' = writeBuffer
      /\ downstream' = downstream /\ settings' = settings
      /\ request' = request /\ loggedIn' = loggedIn /\ told' = told /\ gone' = gone
    BY DEF ServiceInv, StepInv, Typed, Accept, client
<1>2. Live(c) /\ Live(c)' /\ (Lost(c)' <=> Lost(c)) /\ Outgoing(c)' = Outgoing(c)
    BY <1>1 DEF Live, Lost, Outgoing, METRICS
<1>3. Incomplete(c)' <=> Incomplete(c)
    BY <1>1, SameIncomplete
<1>4. AskedOf(c)' = AskedOf(c) /\ AnswerOf(c)' = AnswerOf(c)
    BY <1>1, <1>2 DEF AskedOf, AnswerOf, Told, Value, Zero, OK
<1>5. Kept(c)'
    BY <1>1, <1>2, <1>3, <1>4 DEF ServiceInv, Kept, Good, PERMISSION_DENIED
<1>6. Same(c)
    BY <1>1, <1>2, <1>4 DEF Same
<1>7. Keeps(c)
    BY AcceptKeeps DEF ServiceInv
<1> QED BY <1>1, <1>5, <1>6, <1>7, Stutters DEF Promised, Keeps

LEMMA ReceiveServes ==
    ASSUME ServiceInv, NEW c \in Clients, Receive(c)
    PROVE  Promised(c)
<1>1. /\ busy' = c /\ watched[c] = "read" /\ watched' = watched
      /\ expected' = expected /\ writeBuffer' = writeBuffer
      /\ downstream' = downstream /\ settings' = settings
      /\ request' = request /\ loggedIn' = loggedIn /\ told' = told /\ gone' = gone
    BY DEF Receive, client
<1>2. Live(c) /\ Live(c)' /\ (Lost(c)' <=> Lost(c)) /\ Outgoing(c)' = Outgoing(c)
    BY <1>1 DEF Live, Lost, Outgoing, METRICS
<1>3. AskedOf(c)' = AskedOf(c) /\ AnswerOf(c)' = AnswerOf(c)
    BY <1>1, <1>2 DEF AskedOf, AnswerOf, Told, Value, Zero, OK
<1>4. Kept(c)'
    BY <1>1, <1>2, <1>3 DEF ServiceInv, Kept, Good, PERMISSION_DENIED
<1>5. Same(c)
    BY <1>1, <1>2, <1>3 DEF Same
<1>6. Keeps(c)
    BY ReceiveKeeps DEF ServiceInv
<1> QED BY <1>1, <1>4, <1>5, <1>6, Stutters DEF Promised, Keeps

\* Only what is no request of the protocol fills the buffer.
LEMMA ReceiveNothingServes ==
    ASSUME ServiceInv, NEW c \in Clients, ReceiveNothing(c)
    PROVE  Promised(c)
<1> DEFINE q == request[c]
           b == Bytes(q)
           r == readBuffer[c]
           u == upstream[c]
<1>1. /\ busy = None /\ busy' = c /\ watched[c] = "read" /\ watched'[c] = "closed"
      /\ IF u = <<>> THEN c \in gone ELSE Space(c) = 0
      /\ expected' = expected /\ readBuffer' = readBuffer
      /\ downstream' = downstream /\ settings' = settings
      /\ request' = request /\ told' = told /\ gone' = gone
    BY DEF ServiceInv, StepInv, Typed, ReceiveNothing, KillSocket, client
<1>2. Live(c) /\ ~Live(c)'
    BY <1>1 DEF Live
<1>3. Incomplete(c)
    BY <1>1, NoneAssumption DEF ServiceInv, Kept
<1>4. Incomplete(c)'
    BY <1>1, <1>3, SameIncomplete
<1>5. ASSUME c \notin gone PROVE Asking(c) /\ q.op = "odd"
    <2>1. /\ u # <<>> /\ u \in Seq(Byte) /\ r \in Seq(Byte) /\ BufferSpace \in Nat
          /\ BufferSpace >= 2 /\ Len(r) = BufferSpace /\ Len(r) \in Nat /\ Len(u) \in Nat
          /\ Len(u) > 0
        <3>1. u # <<>> /\ Space(c) = 0
            BY <1>1, <1>5
        <3>2. u \in Seq(Byte) /\ r \in Seq(Byte) /\ Len(r) \in Nat /\ Len(u) \in Nat
            BY LenProperties DEF ServiceInv, StepInv, Typed
        <3>3. BufferSpace \in Nat /\ BufferSpace >= 2
            BY ManagementAssumption
        <3>4. Len(u) > 0
            BY <3>1, <3>2, EmptyOnly
        <3>5. BufferSpace - Len(r) = 0
            BY <3>1 DEF Space
        <3> QED BY <3>1, <3>2, <3>3, <3>4, <3>5
    <2>2. expected[c] \notin {HEADER, METRICS}
        <3>1. ~(Len(r) < 2) /\ ~(Len(r) < 1)
            BY <2>1
        <3> QED BY <1>3, <3>1, IncompleteIs
    <2>3. ~Lost(c) /\ Asking(c)
        BY <1>2, <2>2, HeaderIsRead DEF ServiceInv, Good, Lost
    <2>4. IsRequest(q) /\ Fits(q)
        BY <1>2, <2>3, Unanswered
    <2>5. Len(b) = 2 + Len(r) + Len(u)
        <3>1. PICK rest \in Seq(Byte) :
                /\ b = <<1, expected[c]>> \o (r \o (u \o rest))
                /\ c \notin gone => rest = <<>>
            BY <2>2, <2>3, Zenon DEF Asking, Stretch
        <3>2. u \o rest = u
            BY <1>5, <2>1, <3>1, Joined, Empty
        <3>3. expected[c] \in Byte
            BY DEF ServiceInv, StepInv, Typed
        <3> DEFINE e == expected[c]
                   k == <<1, e>> \o (r \o u)
        <3>4. b = k
            BY <3>1, <3>2
        <3>5. r \in Seq(Byte) /\ u \in Seq(Byte) /\ e \in Byte
            BY <2>1, <3>3
        <3> HIDE DEF b, r, u, e
        <3>6. Len(k) = 2 + Len(r) + Len(u)
            BY <3>5, Positions
        <3> QED BY <3>4, <3>6
    <2>6. q.op # "odd" => Len(b) <= 2 + BufferSpace
        BY <2>4, Understood
    <2> HIDE DEF b, r, u, q
    <2>7. q.op = "odd"
        BY <2>1, <2>5, <2>6
    <2> QED BY <2>3, <2>7
<1>6. c \in gone' \/ (request'[c] # None /\ downstream'[c] = <<>>)
    BY <1>1, <1>5 DEF Asking
<1>7. Kept(c)'
    BY <1>1, <1>2, <1>4, <1>6, ClosedIsKept
<1>8. c \in gone \/ (Live(c) /\ request[c] # None /\ Service!Odd(request[c]))
    BY <1>2, <1>5 DEF Asking, Service!Odd
<1>9. Keeps(c)
    BY ReceiveNothingKeeps DEF ServiceInv
<1>10. Service!ServiceNext
    BY <1>1, <1>2, <1>8, <1>9, Disconnects DEF Keeps
<1> QED BY <1>7, <1>10 DEF Promised

LEMMA WriteServes ==
    ASSUME ServiceInv, NEW c \in Clients, Write(c)
    PROVE  Promised(c)
<1>1. /\ busy' = busy /\ watched[c] = "write" /\ watched'[c] = "read"
      /\ expected' = expected /\ readBuffer' = readBuffer /\ writeBuffer'[c] = <<>>
      /\ downstream'[c] = downstream[c] \o writeBuffer[c] /\ settings' = settings
      /\ request' = request /\ loggedIn' = loggedIn /\ told' = told /\ gone' = gone
    BY DEF ServiceInv, StepInv, Typed, Write, SetInterest, client
<1>2. Live(c) /\ Live(c)' /\ (Lost(c)' <=> Lost(c))
    BY <1>1 DEF Live, Lost, METRICS
<1>3. downstream[c] \in Seq(Byte) /\ writeBuffer[c] \in Seq(Byte)
    <2>1. CASE Lost(c)
        BY <2>1, Denials DEF ServiceInv, Kept, StepInv, Typed
    <2>2. CASE ~Lost(c)
        BY <1>2, <2>2, Empty
        DEF ServiceInv, StepInv, Typed, InPlace, Good, Idle, Asking, Served, IsAnswer
    <2> QED BY <2>1, <2>2
<1>4. Outgoing(c)' = Outgoing(c)
    <2>1. Outgoing(c) \in Seq(Byte)
        BY <1>3, Joined DEF Outgoing
    <2>2. Outgoing(c) \o <<>> = Outgoing(c)
        BY <2>1, Joined, Empty
    <2> QED BY <1>1, <2>2 DEF Outgoing
<1>5. AskedOf(c)' = AskedOf(c) /\ AnswerOf(c)' = AnswerOf(c)
    BY <1>1, <1>2, <1>4 DEF AskedOf, AnswerOf, Told, Value, Zero, OK
<1>6. Incomplete(c)' <=> Incomplete(c)
    BY <1>1, SameIncomplete
<1>7. Lost(c)' => /\ writeBuffer'[c] \in Seq({PERMISSION_DENIED})
                  /\ downstream'[c] \in Seq({PERMISSION_DENIED})
    BY <1>1, <1>2, Denials DEF ServiceInv, Kept
<1>8. Kept(c)'
    BY <1>1, <1>2, <1>4, <1>5, <1>6, <1>7 DEF ServiceInv, Kept, Good, PERMISSION_DENIED
<1>9. Same(c)
    BY <1>1, <1>2, <1>5 DEF Same
<1>10. Keeps(c)
    BY WriteKeeps DEF ServiceInv
<1> QED BY <1>1, <1>8, <1>9, <1>10, Stutters DEF Promised, Keeps

LEMMA WriteFailsServes ==
    ASSUME ServiceInv, NEW c \in Clients, WriteFails(c)
    PROVE  Promised(c)
<1>1. /\ c \in gone /\ watched'[c] = "closed" /\ Return(c)
      /\ settings' = settings /\ told' = told /\ gone' = gone
    BY DEF ServiceInv, StepInv, Typed, WriteFails, KillSocket, client
<1>2. Keeps(c)
    BY WriteFailsKeeps DEF ServiceInv
<1>3. Kept(c)'
    BY <1>1, ReturnIsKept
<1>4. ~Live(c)'
    BY <1>1 DEF Live
<1>5. Service!ServiceNext
    BY <1>1, <1>2, <1>4, Disconnects DEF Keeps
<1> QED BY <1>3, <1>5 DEF Promised

LEMMA AskServes ==
    ASSUME ServiceInv, NEW c \in Clients, Ask(c)
    PROVE  Promised(c)
<1>1. PICK q \in Requests[c] : request' = [request EXCEPT ![c] = q]
    BY DEF Ask
<1>2. /\ request[c] = None /\ c \notin gone /\ request'[c] = q /\ downstream[c] = <<>>
      /\ told' = [told EXCEPT ![c] = None] /\ busy' = busy /\ watched' = watched
      /\ expected' = expected /\ readBuffer' = readBuffer /\ writeBuffer' = writeBuffer
      /\ downstream' = downstream /\ settings' = settings
      /\ loggedIn' = loggedIn /\ gone' = gone
    BY <1>1 DEF Ask, session, ServiceInv, StepInv, Typed
<1>3. Live(c) /\ Live(c)' /\ (Lost(c)' <=> Lost(c)) /\ Outgoing(c)' = Outgoing(c)
    <2>1. Live(c)
        BY <1>2 DEF ServiceInv, Kept
    <2> QED BY <1>2, <2>1 DEF Live, Lost, Outgoing, METRICS
<1>4. ~Lost(c) => Outgoing(c) = <<>>
    <2>1. ~Lost(c) => Idle(c)
        BY <1>2, <1>3 DEF ServiceInv, StepInv, InPlace, Good, Asking, Served
    <2>2. <<>> \o <<>> = <<>>
        BY Joined, Empty
    <2> QED BY <1>2, <2>1, <2>2 DEF Idle, Outgoing
<1>5. AnswerOf(c)' = None
    BY <1>3, <1>4 DEF AnswerOf
<1>6. Incomplete(c)' <=> Incomplete(c)
    BY <1>2, SameIncomplete
<1>7. Kept(c)'
    BY <1>2, <1>3, <1>4, <1>6 DEF ServiceInv, Kept, Good, PERMISSION_DENIED
<1>8. Keeps(c)
    BY AskKeeps DEF ServiceInv
<1>9. Service!ServiceNext
    BY <1>2, <1>3, <1>5, <1>8, AsksOne DEF Keeps
<1> QED BY <1>7, <1>9 DEF Promised

\* A client is told the answer its request has got.
LEMMA LearnServes ==
    ASSUME ServiceInv, NEW c \in Clients, Learn(c)
    PROVE  Promised(c)
<1> DEFINE q == request[c]
           s == downstream[c]
           a == Told(q, s)
           taken == 1 + IF s[1] = OK THEN Value(q, Tail(s)).length ELSE 0
<1>1. /\ q # None /\ s # <<>> /\ c \notin gone
      /\ told' = [told EXCEPT ![c] = a]
      /\ downstream'[c] = Drop(s, taken)
      /\ request'[c] = None /\ busy' = busy /\ watched' = watched
      /\ expected' = expected /\ readBuffer' = readBuffer /\ writeBuffer' = writeBuffer
      /\ settings' = settings /\ loggedIn' = loggedIn /\ gone' = gone
    BY DEF Learn, session, ServiceInv, StepInv, Typed
<1>2. Live(c) /\ Live(c)' /\ (Lost(c)' <=> Lost(c))
    <2>1. Live(c)
        BY <1>1 DEF ServiceInv, Kept
    <2> QED BY <1>1, <2>1 DEF Live, Lost, METRICS
<1>3. CASE Lost(c)
    <2>1. s \in Seq({PERMISSION_DENIED}) /\ writeBuffer[c] \in Seq({PERMISSION_DENIED})
        BY <1>3 DEF ServiceInv, Kept
    <2>2. s[1] = PERMISSION_DENIED /\ Drop(s, 1) \in Seq({PERMISSION_DENIED})
        BY <1>1, <2>1, Denials
    <2>3. s[1] # OK /\ taken = 1
        BY <2>2 DEF OK, PERMISSION_DENIED
    <2> HIDE DEF taken
    <2>4. a = Service!Denied
        BY <2>3 DEF Told, Service!Denied
    <2> HIDE DEF a
    <2>5. Lost(c)' /\ downstream'[c] \in Seq({PERMISSION_DENIED})
        BY <1>1, <1>2, <1>3, <2>2, <2>3
    <2>6. Incomplete(c)' <=> Incomplete(c)
        BY <1>1, SameIncomplete
    <2>7. Kept(c)'
        BY <1>1, <1>2, <2>1, <2>5, <2>6 DEF ServiceInv, Kept, Good, PERMISSION_DENIED
    <2>8. Keeps(c)
        BY LearnKeeps DEF ServiceInv
    <2>9. Service!ServiceNext
        BY <1>1, <1>2, <1>3, <2>4, <2>8, Tells DEF Keeps
    <2> QED BY <2>7, <2>9 DEF Promised
<1>4. CASE ~Lost(c)
    <2>1. Served(c) /\ writeBuffer[c] = <<>> /\ s \in Seq(Byte)
        BY <1>1, <1>2, <1>4
        DEF ServiceInv, StepInv, InPlace, Good, Idle, Asking, Served, IsAnswer
    <2>2. Outgoing(c) = s
        BY <2>1, Joined, Empty DEF Outgoing
    <2>3. AnswerOf(c) = a /\ AnswerOf(c) # None
        BY <1>1, <1>2, <1>4, <2>2 DEF AnswerOf, ServiceInv, Kept, Good
    <2> HIDE DEF a, taken
    <2>4. Incomplete(c)' <=> Incomplete(c)
        BY <1>1, SameIncomplete
    <2>5. Kept(c)'
        BY <1>1, <1>2, <1>4, <2>4 DEF ServiceInv, Kept, Good, PERMISSION_DENIED
    <2>6. Keeps(c)
        BY LearnKeeps DEF ServiceInv
    <2>7. Service!ServiceNext
        BY <1>1, <1>2, <2>3, <2>6, Tells DEF Keeps
    <2> QED BY <2>5, <2>7 DEF Promised
<1> QED BY <1>3, <1>4

LEMMA HangUpServes ==
    ASSUME ServiceInv, NEW c \in Clients, HangUp(c)
    PROVE  Promised(c)
<1>1. /\ busy' = busy /\ watched' = watched
      /\ expected' = expected /\ readBuffer' = readBuffer /\ writeBuffer' = writeBuffer
      /\ downstream' = downstream /\ settings' = settings
      /\ request' = request /\ loggedIn' = loggedIn /\ told' = told /\ gone' = gone \cup {c}
    BY DEF HangUp, session
<1>2. (Live(c)' <=> Live(c)) /\ (Lost(c)' <=> Lost(c)) /\ Outgoing(c)' = Outgoing(c)
    BY <1>1 DEF Live, Lost, Outgoing, METRICS
<1>3. (Incomplete(c)' <=> Incomplete(c)) /\ (UnknownStructure(c)' <=> UnknownStructure(c))
    BY <1>1, SameIncomplete
<1>4. AskedOf(c)' = AskedOf(c) /\ AnswerOf(c)' = AnswerOf(c)
    BY <1>1, <1>2 DEF AskedOf, AnswerOf, Told, Value, Zero, OK
<1>5. Kept(c)'
    BY <1>1, <1>2, <1>3, <1>4 DEF ServiceInv, Kept, Good, PERMISSION_DENIED
<1>6. Same(c)
    BY <1>1, <1>2, <1>4 DEF Same
<1>7. Keeps(c)
    BY HangUpKeeps DEF ServiceInv
<1>8. Service!ServiceNext
    BY <1>1, <1>6, <1>7, HangsUp DEF Keeps
<1> QED BY <1>5, <1>8 DEF Promised

-----------------------------------------------------------------------------
(* The theorem. *)

\* A handler that runs is not disturbed, and a client hangs up for itself.
LEMMA BusyMoves ==
    ASSUME NEW c \in Clients, Handlers(c) \/ ReadStructure(c) \/ Client(c)
    PROVE  /\ busy' = busy \/ busy \in {None, c}
           /\ gone' = gone \/ gone' = gone \cup {c}
<1>1. CASE Handlers(c)
    BY <1>1 DEF Handlers, Accept, Receive, ReceiveNothing, Write, WriteFails, client
<1>2. CASE ReadStructure(c)
    BY <1>2 DEF ReadStructure, ReadHeader, login, metrics, metricsDenied, setStatus, getStatus,
                setString, getString, Transforms, transformationsFails, readUnknown, ReadReturns,
                Reads, client
<1>3. CASE Client(c)
    BY <1>3 DEF Client, Ask, Learn, HangUp, session
<1> QED BY <1>1, <1>2, <1>3

LEMMA ServiceStep ==
    ASSUME ServiceInv, [Next]_vars
    PROVE  ServiceInv' /\ [Service!ServiceNext]_Service!serviceVars
<1>1. StepInv'
    BY StepKeeps DEF ServiceInv
<1>2. CASE UNCHANGED vars
    <2>1. \A d \in Clients : Apart(d)
        BY <1>2 DEF Apart, vars, session, client
    <2>2. \A d \in Clients : Kept(d)'
        BY <1>2, <2>1, KeptApart DEF ServiceInv, vars, session, client
    <2>3. UNCHANGED Service!serviceVars
        BY <1>2 DEF vars, session, client, Service!serviceVars, Live, Lost, Outgoing, Told, Value,
                    Zero, OK, METRICS
    <2> QED BY <1>1, <2>2, <2>3 DEF ServiceInv
<1>3. CASE Next
    <2>1. PICK c \in Clients : Handlers(c) \/ ReadStructure(c) \/ Client(c)
        BY <1>3 DEF Next
    <2>2. Promised(c)
        <3>1. CASE Handlers(c)
            BY <3>1, AcceptServes, ReceiveServes, ReceiveNothingServes, WriteServes,
               WriteFailsServes DEF Handlers
        <3>2. CASE ReadHeader(c) \/ login(c) \/ metrics(c) \/ metricsDenied(c)
            BY <3>2, ReadHeaderServes, loginServes, metricsServes, metricsDeniedServes
        <3>3. CASE setStatus(c) \/ getStatus(c)
            BY <3>3, setStatusServes, getStatusServes
        <3>4. CASE \E name \in Strings : setString(c, name) \/ getString(c, name)
            BY <3>4, setStringServes, getStringServes
        <3>5. CASE transformationsFails(c) \/ readUnknown(c) \/ ReadReturns(c)
            BY <3>5, transformationsFailsServes, readUnknownServes, ReadReturnsServes
        <3>6. CASE Client(c)
            BY <3>6, AskServes, LearnServes, HangUpServes DEF Client
        <3> QED BY <2>1, <3>1, <3>2, <3>3, <3>4, <3>5, <3>6 DEF ReadStructure
    <2>3. \A d \in Clients \ {c} : Apart(d)
        <3>1. Keeps(c)
            <4>1. StepInv
                BY DEF ServiceInv
            <4>2. CASE Handlers(c)
                BY <4>1, <4>2, AcceptKeeps, ReceiveKeeps, ReceiveNothingKeeps, WriteKeeps,
                   WriteFailsKeeps DEF Handlers
            <4>3. CASE ReadHeader(c) \/ login(c) \/ metrics(c) \/ metricsDenied(c)
                BY <4>1, <4>3, ReadHeaderKeeps, loginKeeps, metricsKeeps, metricsDeniedKeeps
            <4>4. CASE setStatus(c) \/ getStatus(c)
                BY <4>1, <4>4, setStatusKeeps, getStatusKeeps
            <4>5. CASE \E name \in Strings : setString(c, name) \/ getString(c, name)
                BY <4>1, <4>5, setStringKeeps, getStringKeeps
            <4>6. CASE transformationsFails(c) \/ readUnknown(c) \/ ReadReturns(c)
                BY <4>1, <4>6, transformationsFailsKeeps, readUnknownKeeps, ReadReturnsKeeps
            <4>7. CASE Client(c)
                BY <4>1, <4>7, AskKeeps, LearnKeeps, HangUpKeeps DEF Client
            <4> QED BY <2>1, <4>2, <4>3, <4>4, <4>5, <4>6, <4>7 DEF ReadStructure
        <3> QED BY <3>1 DEF Keeps
    <2>4. ASSUME NEW d \in Clients, d # c PROVE Kept(d)'
        <3>1. busy' = busy \/ busy \in {None, c}
            BY <2>1, BusyMoves
        <3>2. gone' = gone \/ gone' = gone \cup {c}
            BY <2>1, BusyMoves
        <3>3. busy' # d => busy # d
            BY <2>4, <3>1, NoneAssumption
        <3>4. d \in gone' <=> d \in gone
            BY <2>4, <3>2
        <3> QED BY <2>3, <2>4, <3>3, <3>4, KeptApart DEF ServiceInv
    <2> QED BY <1>1, <2>2, <2>4 DEF ServiceInv, Promised
<1> QED BY <1>2, <1>3

LEMMA ServiceStart ==
    ASSUME Init
    PROVE  ServiceInv /\ Service!ServiceInit
<1>1. StepInv
    BY StepInit
<1>2. ASSUME NEW c \in Clients
      PROVE  /\ Live(c) /\ ~Lost(c) /\ Incomplete(c) /\ request[c] = None
             /\ ~loggedIn[c]
    <2>1. watched[c] = "none" /\ expected[c] = HEADER /\ readBuffer[c] = <<>>
          /\ request[c] = None /\ ~loggedIn[c]
        BY DEF Init
    <2>2. Len(readBuffer[c]) = 0
        BY <2>1, Empty
    <2>3. Incomplete(c)
        BY <2>1, <2>2 DEF Incomplete, HEADER, LOGIN, METRICS, TRANSFORMATIONS
    <2> QED BY <2>1, <2>3 DEF Live, Lost, HEADER, METRICS
<1>3. \A c \in Clients : Kept(c)
    BY <1>2 DEF Kept
<1>4. Service!ServiceInit
    BY <1>2 DEF Init, Service!ServiceInit
<1> QED BY <1>1, <1>3, <1>4 DEF ServiceInv

\* Every behaviour of the sessions and their clients is one of the service: a
\* request is served once, at one instant and with the settings of that instant,
\* the client is told that answer, only a client that has logged in changes the
\* settings, and a connection ends only when its client has hung up or has sent
\* what is no request (protocolV1.c with client_example).
THEOREM ServiceIsKept == Spec => ImplementsService
<1>1. Init => ServiceInv /\ Service!ServiceInit
    BY ServiceStart
<1>2. ServiceInv /\ [Next]_vars => ServiceInv' /\ [Service!ServiceNext]_Service!serviceVars
    BY ServiceStep
<1> QED BY <1>1, <1>2, PTL DEF Spec, ImplementsService, Service!ServiceSpec

=============================================================================
