---------------------------- MODULE Connections ----------------------------
(***************************************************************************)
(* The life of the client connections: the passive socket accepts them and *)
(* registers them with the selector, a resolver thread looks up the origin *)
(* of each, and they end in kill_client.  The main thread calls it, and so *)
(* does a resolver thread when the resolution fails                        *)
(* (proxyPassiveSocket.c, proxyClientActiveSocket.c).                      *)
(*                                                                         *)
(* The resolver's kill_client shares the selector table, the sets select   *)
(* watches, the kernel's descriptors and global_settings with the main     *)
(* thread without a lock, so it is split at every shared access.  Of the   *)
(* main thread the accesses to the counter and the client's data are split *)
(* as well; its other handlers are one action.                             *)
(***************************************************************************)
EXTENDS Integers, FiniteSets

CONSTANTS
    Conns,              \* the clients that connect, each once
    Fds,                \* the descriptors the kernel has for them
    max_connections,
    Free, None          \* no connection, no descriptor

ASSUME ConnectionsAssumption ==
    /\ Fds \subseteq Nat \ {0} /\ IsFiniteSet(Fds) /\ IsFiniteSet(Conns)
    /\ max_connections \in Nat
    /\ Free \notin Conns /\ None \notin Fds

VARIABLES
    phase,      \* what each connection is doing
    fdOf,       \* client_fd
    open,       \* the descriptors open in the kernel
    item,       \* the selector's table: the connection that data points to
    max_fd,
    master,     \* the descriptors in master_r or master_w, all in one word of them
    current,    \* global_settings.current_connections
    main,       \* the main thread: where it is, for which connection, a number
    thread,     \* the resolver thread of each connection: where it is, a number
                \* and the word of the sets it has read
    jobs,       \* connections whose resolution has been notified
    usedFreed,  \* history: a thread used the data of a freed connection
    disturbed   \* history: a resolver's kill_client was not alone

shared == <<phase, fdOf, open, item, max_fd, master, current>>
vars == <<shared, main, thread, jobs, usedFreed, disturbed>>

\* "open" until the request head is read, "freed" after kill_client
Phases == {"none", "open", "resolving", "passing", "freed"}
MainPlaces == {"loop", "count", "counted", "reject", "rejected", "register", "name", "arm"}
ThreadPlaces == {"none", "resolve", "close", "unset", "unsetting", "clear", "scan", "store",
                 "count", "counted"}

Live == {c \in Conns : phase[c] \in {"open", "resolving", "passing"}}
Killing == {c \in Conns : thread[c].at \notin {"none", "resolve"}}

Max(S) == IF S = {} THEN 0 ELSE CHOOSE m \in S : \A n \in S : n <= m

\* Mutant of LargestUsed: -1 for an empty table
LargestUsedNone(t) ==
    LET U == {f \in Fds : t[f] # Free /\ f <= max_fd} IN IF U = {} THEN -1 ELSE Max(U)

\* items_max_fd
LargestUsed(t) == Max({f \in Fds : t[f] # Free /\ f <= max_fd})

GoMain(place, c, n) == main' = [at |-> place, conn |-> c, seen |-> n]
GoThread(c, place, n) ==
    thread' = [thread EXCEPT ![c] = [at |-> place, seen |-> n, word |-> {}]]

\* items_update_fdset_for_fd on the main thread.  A stale write of its own could put
\* back no bit but that of a client being killed, which Arm has cleared or clears.
Watch(f) == master' = IF item[f] = Free THEN master ELSE master \cup {f}
Unwatch(f) == master' = IF item[f] = Free THEN master ELSE master \ {f}

\* Mutant of Unregister: the descriptor stays in the master sets
UnregisterKeepsWatch(f) ==
    /\ master' = master
    /\ IF item[f] = Free THEN UNCHANGED <<item, max_fd, open>>
       ELSE /\ open' = open \ {f}
            /\ item' = [item EXCEPT ![f] = Free]
            /\ max_fd' = LargestUsed(item')

\* Mutant of Unregister: the close handler runs, the item stays
UnregisterKeepsItem(f) ==
    /\ Unwatch(f)
    /\ IF item[f] = Free THEN UNCHANGED <<item, max_fd, open>>
       ELSE open' = open \ {f} /\ UNCHANGED <<item, max_fd>>

\* selector_unregister_fd in one step, close handler included
Unregister(f) ==
    /\ Unwatch(f)
    /\ IF item[f] = Free THEN UNCHANGED <<item, max_fd, open>>
       ELSE /\ open' = open \ {f}
            /\ item' = [item EXCEPT ![f] = Free]
            /\ max_fd' = LargestUsed(item')

-----------------------------------------------------------------------------
(* proxy_passive_socket_read, the main thread. *)

\* accept gives the lowest free descriptor
Accept(c) ==
    /\ main.at = "loop" /\ phase[c] = "none" /\ open # Fds
    /\ \E f \in Fds \ open :
        /\ \A g \in Fds \ open : f <= g
        /\ fdOf' = [fdOf EXCEPT ![c] = f]
        /\ open' = open \cup {f}
    /\ phase' = [phase EXCEPT ![c] = "open"]
    /\ GoMain("count", c, 0)
    /\ UNCHANGED <<item, max_fd, master, current, thread, jobs, usedFreed>>

\* current_connections++ is a read and a write
CountReads ==
    /\ main.at = "count"
    /\ GoMain("counted", main.conn, current)
    /\ UNCHANGED <<shared, thread, jobs, usedFreed>>

\* Mutant of CountWrites: one connection too many passes the test
CountWritesLate ==
    /\ main.at = "counted"
    /\ current' = main.seen + 1
    /\ GoMain(IF current' > max_connections + 1 THEN "reject" ELSE "register", main.conn, 0)
    /\ UNCHANGED <<phase, fdOf, open, item, max_fd, master, thread, jobs, usedFreed>>

CountWrites ==
    /\ main.at = "counted"
    /\ current' = main.seen + 1
    /\ GoMain(IF current' > max_connections THEN "reject" ELSE "register", main.conn, 0)
    /\ UNCHANGED <<phase, fdOf, open, item, max_fd, master, thread, jobs, usedFreed>>

\* "Proxy is too busy": send_error kills a client that is not registered yet
RejectUnregisters ==
    /\ main.at = "reject"
    /\ Unregister(fdOf[main.conn])
    /\ GoMain("rejected", main.conn, current)
    /\ UNCHANGED <<phase, fdOf, current, thread, jobs, usedFreed>>

\* Mutant of RejectEnds: the rejected connection stays counted
RejectKeepsCount ==
    /\ main.at = "rejected"
    /\ open' = open \ {fdOf[main.conn]}
    /\ phase' = [phase EXCEPT ![main.conn] = "freed"]
    /\ GoMain("loop", Free, 0)
    /\ UNCHANGED <<fdOf, item, max_fd, master, current, thread, jobs, usedFreed>>

\* ... and the passive socket closes it
RejectEnds ==
    /\ main.at = "rejected"
    /\ current' = main.seen - 1
    /\ open' = open \ {fdOf[main.conn]}
    /\ phase' = [phase EXCEPT ![main.conn] = "freed"]
    /\ GoMain("loop", Free, 0)
    /\ UNCHANGED <<fdOf, item, max_fd, master, thread, jobs, usedFreed>>

\* Mutant of Register: max_fd is left as it was
RegisterForgetsMax ==
    LET c == main.conn
        f == fdOf[c]
    IN  /\ main.at = "register"
        /\ item' = [item EXCEPT ![f] = c]
        /\ master' = master \cup {f}
        /\ GoMain("name", c, 0)
        /\ UNCHANGED <<phase, fdOf, open, max_fd, current, thread, jobs, usedFreed>>

\* selector_register; on SELECTOR_FDINUSE the socket is closed and the client
\* data freed, and the handler goes on
Register ==
    LET c == main.conn
        f == fdOf[c]
    IN  /\ main.at = "register"
        /\ IF item[f] = Free
           THEN /\ item' = [item EXCEPT ![f] = c]
                /\ max_fd' = IF f > max_fd THEN f ELSE max_fd
                /\ master' = master \cup {f}
                /\ UNCHANGED <<phase, open>>
           ELSE /\ open' = open \ {f}
                /\ phase' = [phase EXCEPT ![c] = "freed"]
                /\ UNCHANGED <<item, max_fd, master>>
        /\ GoMain("name", c, 0)
        /\ UNCHANGED <<fdOf, current, thread, jobs, usedFreed>>

\* set_client_name follows the client data to the connection data
SetName ==
    /\ main.at = "name"
    /\ usedFreed' = (usedFreed \/ phase[main.conn] = "freed")
    /\ GoMain("loop", Free, 0)
    /\ UNCHANGED <<shared, thread, jobs>>

-----------------------------------------------------------------------------
(* The handlers of a registered client. *)

\* kill_client called by the main thread
Kill(c) ==
    /\ Unregister(fdOf[c])
    /\ current' = current - 1
    /\ phase' = [phase EXCEPT ![c] = "freed"]
    /\ UNCHANGED <<fdOf, main, thread, jobs, usedFreed>>

\* the client closes, or its request head is not understood
ClientFails(c) ==
    /\ main.at = "loop" /\ phase[c] = "open" /\ item[fdOf[c]] = c
    /\ Kill(c)

\* the origin is known: a resolver thread is started ...
StartResolver(c) ==
    /\ main.at = "loop" /\ phase[c] = "open" /\ item[fdOf[c]] = c
    /\ phase' = [phase EXCEPT ![c] = "resolving"]
    /\ GoThread(c, "resolve", 0)
    /\ GoMain("arm", c, 0)
    /\ UNCHANGED <<fdOf, open, item, max_fd, master, current, jobs, usedFreed>>

\* ... and only then is the client paused and its state set to CONNECTING
Arm ==
    /\ main.at = "arm"
    /\ Unwatch(fdOf[main.conn])
    /\ usedFreed' = (usedFreed \/ phase[main.conn] = "freed")
    /\ GoMain("loop", Free, 0)
    /\ UNCHANGED <<phase, fdOf, open, item, max_fd, current, thread, jobs>>

\* proxy_client_active_socket_block: the client is read again
Block(c) ==
    /\ main.at = "loop" /\ c \in jobs
    /\ jobs' = jobs \ {c}
    /\ phase' = [phase EXCEPT ![c] = "passing"]
    /\ Watch(fdOf[c])
    /\ UNCHANGED <<fdOf, open, item, max_fd, current, main, thread, usedFreed>>

\* the handlers of the relay pause the client and resume it (module Relay)
RelayTurns(c) ==
    /\ main.at = "loop" /\ phase[c] = "passing"
    /\ Watch(fdOf[c]) \/ Unwatch(fdOf[c])
    /\ UNCHANGED <<phase, fdOf, open, item, max_fd, current, main, thread, jobs, usedFreed>>

\* the relay ends (module Relay)
RelayEnds(c) ==
    /\ main.at = "loop" /\ phase[c] = "passing"
    /\ Kill(c)

-----------------------------------------------------------------------------
(* open_origin_socket, the resolver thread of connection c. *)

Resolved(c) ==
    /\ thread[c].at = "resolve"
    /\ jobs' = jobs \cup {c}
    /\ GoThread(c, "none", 0)
    /\ UNCHANGED <<shared, main, usedFreed>>

Unresolved(c) ==
    /\ thread[c].at = "resolve"
    /\ GoThread(c, "close", 0)
    /\ UNCHANGED <<shared, main, jobs, usedFreed>>

\* Mutant of ThreadCloses: the descriptor is closed but not unregistered
ThreadClosesOnly(c) ==
    /\ thread[c].at = "close"
    /\ open' = open \ {fdOf[c]}
    /\ GoThread(c, "count", 0)
    /\ UNCHANGED <<phase, fdOf, item, max_fd, master, current, main, jobs, usedFreed>>

\* the close handler runs before the item is cleared
ThreadCloses(c) ==
    /\ thread[c].at = "close"
    /\ open' = open \ {fdOf[c]}
    /\ GoThread(c, "unset", 0)
    /\ UNCHANGED <<phase, fdOf, item, max_fd, master, current, main, jobs, usedFreed>>

\* FD_CLR in the master sets is a read and a write of a word
ThreadReadsSet(c) ==
    /\ thread[c].at = "unset"
    /\ thread' = [thread EXCEPT ![c] = [at |-> "unsetting", seen |-> 0, word |-> master]]
    /\ UNCHANGED <<shared, main, jobs, usedFreed>>

ThreadWritesSet(c) ==
    /\ thread[c].at = "unsetting"
    /\ master' = thread[c].word \ {fdOf[c]}
    /\ GoThread(c, "clear", 0)
    /\ UNCHANGED <<phase, fdOf, open, item, max_fd, current, main, jobs, usedFreed>>

ThreadClears(c) ==
    /\ thread[c].at = "clear"
    /\ item' = [item EXCEPT ![fdOf[c]] = Free]
    /\ GoThread(c, "scan", 0)
    /\ UNCHANGED <<phase, fdOf, open, max_fd, master, current, main, jobs, usedFreed>>

\* items_max_fd, and the assignment of what it returned
ThreadScans(c) ==
    /\ thread[c].at = "scan"
    /\ GoThread(c, "store", LargestUsed(item))
    /\ UNCHANGED <<shared, main, jobs, usedFreed>>

ThreadStores(c) ==
    /\ thread[c].at = "store"
    /\ max_fd' = thread[c].seen
    /\ GoThread(c, "count", 0)
    /\ UNCHANGED <<phase, fdOf, open, item, master, current, main, jobs, usedFreed>>

ThreadCountReads(c) ==
    /\ thread[c].at = "count"
    /\ GoThread(c, "counted", current)
    /\ UNCHANGED <<shared, main, jobs, usedFreed>>

ThreadCountWrites(c) ==
    /\ thread[c].at = "counted"
    /\ current' = thread[c].seen - 1
    /\ phase' = [phase EXCEPT ![c] = "freed"]
    /\ GoThread(c, "none", 0)
    /\ UNCHANGED <<fdOf, open, item, max_fd, master, main, jobs, usedFreed>>

-----------------------------------------------------------------------------
Init ==
    /\ phase = [c \in Conns |-> "none"] /\ fdOf = [c \in Conns |-> None]
    /\ open = {} /\ item = [f \in Fds |-> Free] /\ max_fd = 0 /\ master = {} /\ current = 0
    /\ main = [at |-> "loop", conn |-> Free, seen |-> 0]
    /\ thread = [c \in Conns |-> [at |-> "none", seen |-> 0, word |-> {}]]
    /\ jobs = {} /\ usedFreed = FALSE /\ disturbed = FALSE

PassiveSocket ==
    \/ \E c \in Conns : Accept(c)
    \/ CountReads
    \/ CountWrites
    \/ RejectUnregisters
    \/ RejectEnds
    \/ Register
    \/ SetName

Client(c) ==
    \/ ClientFails(c)
    \/ StartResolver(c)
    \/ Block(c)
    \/ RelayTurns(c)
    \/ RelayEnds(c)

ResolverKills(c) ==
    \/ ThreadCloses(c)
    \/ ThreadReadsSet(c)
    \/ ThreadWritesSet(c)
    \/ ThreadClears(c)
    \/ ThreadScans(c)
    \/ ThreadStores(c)
    \/ ThreadCountReads(c)
    \/ ThreadCountWrites(c)

Resolver(c) == Resolved(c) \/ Unresolved(c) \/ ResolverKills(c)

Step ==
    \/ PassiveSocket
    \/ Arm
    \/ \E c \in Conns : Client(c) \/ Resolver(c)

\* while a resolver thread is in kill_client another one is, or the main thread
\* is in one of the places that share memory with it, kills a client, or pauses
\* or resumes one
Overlap ==
    \/ /\ Killing' # {}
       /\ main'.at # "loop" \/ Cardinality(Killing') > 1
    \/ Killing # {} /\ thread' = thread /\ (current' # current \/ master' # master)

Next == Step /\ disturbed' = (disturbed \/ Overlap)

Spec == Init /\ [][Next]_vars

-----------------------------------------------------------------------------
(* Properties. *)

\* Every variable has its type.
TypeOK ==
    /\ phase \in [Conns -> Phases]
    /\ fdOf \in [Conns -> Fds \cup {None}]
    /\ open \subseteq Fds
    /\ item \in [Fds -> Conns \cup {Free}]
    /\ max_fd \in Fds \cup {0}
    /\ master \subseteq Fds
    /\ current \in Int
    /\ main \in [at: MainPlaces, conn: Conns \cup {Free}, seen: Int]
    /\ thread \in [Conns -> [at: ThreadPlaces, seen: Int, word: SUBSET Fds]]
    /\ jobs \subseteq Conns
    /\ usedFreed \in BOOLEAN /\ disturbed \in BOOLEAN

\* nobody is inside accept or kill_client, and no two have ever been at once
Quiet == main.at = "loop" /\ Killing = {} /\ ~disturbed

\* The metric getCurrentConnections (README.md:51) counts the connections:
\* accepts and rejections, failed resolutions and ends leave nothing behind, as
\* long as no kill_client of a resolver thread has met the main thread's work.
CountIsExact == Quiet => current = Cardinality(Live)

\* No more clients are registered than max_connections.
LimitKept == ~disturbed => Cardinality({f \in Fds : item[f] # Free}) <= max_connections

\* "Los handlers no se tienen que preocupar por la concurrencia"
\* (include/selector.h:28-29): no handler finds its data freed by another thread.
HandlersAreAlone == ~usedFreed

\* What is true of it: data is found freed only after a resolver thread has
\* killed a client beside the main thread, never by the handlers' own doing.
FreedByThreadsOnly == usedFreed => disturbed

\* The kernel's descriptors, the selector's items and the connections agree when
\* nothing is under way: no descriptor is leaked or closed for another connection,
\* max_fd is "max(.fds[].fd)" (selector.c:139), and the client whose request is
\* awaited is watched while the one whose origin is looked up is not.
DescriptorsOwned ==
    Quiet =>
        /\ open = {fdOf[c] : c \in Live}
        /\ \A c \in Live : item[fdOf[c]] = c
        /\ \A f \in Fds : item[f] # Free =>
              item[f] \in Live /\ fdOf[item[f]] = f /\ f <= max_fd
        /\ \A c \in Live :
              /\ phase[c] = "open" => fdOf[c] \in master
              /\ phase[c] = "resolving" => fdOf[c] \notin master

\* What select watches is open, or it fails with EBADF and the proxy dies
\* ("casos donde se cierran los fd pero no se desregistraron", selector.c:553-554).
\* A resolver thread closes a descriptor before it clears it: it is a paused one,
\* whatever the other threads do.  That the master sets have no closed one holds
\* until a kill_client of a resolver thread meets the main thread: then the write
\* of the word it had read can put one back.
NoBadDescriptor ==
    main.at = "loop" =>
        /\ \A f \in Fds : item[f] # Free /\ f \notin open => phase[item[f]] = "resolving"
        /\ ~disturbed => master \subseteq open

\* No item points to a connection that has been freed, whoever freed it.
NoDanglingItem == \A f \in Fds : item[f] # Free => phase[item[f]] # "freed"
=============================================================================
