---------------------------- MODULE MCManagement ----------------------------
EXTENDS Management

CONSTANTS c1, c2

MCClients == {c1, c2}
MCUsers == [n \in {<<5>>} |-> <<>>]
MCCounts == {7}
MCAsks == [c \in Clients |-> 2]

Login(word) == [op |-> "login", name |-> <<5>>, word |-> word]
Sets(what, v) == [op |-> "set", what |-> what, value |-> v]
Gets(what) == [op |-> "get", what |-> what]
Sends(bytes) == [op |-> "odd", bytes |-> bytes]

\* One client sends a right and a wrong login, and every kind of request; then
\* an argument that is too long, a structure and a version that do not exist, and
\* a name that fills the buffer.  The other sets the command, which goes on in
\* transformation_error and is more than the first client takes of it; the list of
\* two media types overflows its field and takes the command with it.
MCRequests == [c \in Clients |->
    IF c = c1
    THEN {Login(<<>>), Login(<<6>>), Sets("status", 0), Sets("status", 2), Gets("status"),
          Sets("media", <<8, 8>>), Gets("command")}
         \cup {[op |-> "metric", code |-> k] : k \in {0, 3}}
         \cup {Sends(b) : b \in {<<1, 2, 2, 8, 8, 8, 0>>, <<1, 4>>, <<2, 1>>,
                                 <<1, 0, 5, 5, 5, 5, 5, 5, 5, 5>>}}
    ELSE {Login(<<>>), Sets("command", <<9, 9>>)}]
=============================================================================
