------------------------- MODULE Connections_proofs -------------------------
(***************************************************************************)
(* Whatever the number of clients, descriptors and connections allowed,    *)
(* the selector's table never holds what has been freed; and as long as no *)
(* kill_client of a resolver thread has met the main thread's work, the    *)
(* descriptors, the table and the counter are exact.                       *)
(***************************************************************************)
EXTENDS Connections, FiniteSetTheorems, WellFoundedInduction, TLAPS

-----------------------------------------------------------------------------
(* items_max_fd. *)

\* A set of numbers with a bound has a largest member, and Max is it.
LEMMA MaxIsLargest ==
    ASSUME NEW m \in Nat, NEW S, S \subseteq 0 .. m, S # {}
    PROVE  Max(S) \in S /\ \A g \in S : g <= Max(S)
<1> DEFINE T == {m - f : f \in S}
<1>1. T \subseteq Nat /\ T # {}
    <2>1. ASSUME NEW f \in S PROVE m - f \in Nat
        <3>1. f \in 0 .. m
            OBVIOUS
        <3> QED OBVIOUS
    <2> QED BY <2>1
<1>2. PICK x \in T : \A y \in T : <<y, x>> \notin OpToRel(<, Nat)
    BY <1>1, NatLessThanWellFounded, WFMin, Zenon
<1>3. \A y \in T : ~(y < x)
    BY <1>1, <1>2 DEF OpToRel
<1>4. PICK f \in S : x = m - f
    OBVIOUS
<1>5. ASSUME NEW g \in S PROVE g <= f
    <2>1. ~(m - g < m - f)
        BY <1>3, <1>4
    <2> QED
        BY <2>1
<1> QED
    BY <1>5 DEF Max

\* What items_max_fd returns bounds every used descriptor that max_fd bounds.
LEMMA LargestBounds ==
    ASSUME NEW t \in [Fds -> Conns \cup {Free}], max_fd \in Fds \cup {0}
    PROVE  /\ LargestUsed(t) \in Fds \cup {0}
           /\ \A f \in Fds : t[f] # Free /\ f <= max_fd => f <= LargestUsed(t)
<1> DEFINE S == {f \in Fds : t[f] # Free /\ f <= max_fd}
<1>1. Fds \subseteq Nat /\ max_fd \in Nat
    BY ConnectionsAssumption
<1>2. S \subseteq 0 .. max_fd
    <2>1. ASSUME NEW f \in S PROVE f \in 0 .. max_fd
        BY <1>1
    <2> QED
        BY <2>1
<1>3. CASE S = {}
    BY <1>3 DEF LargestUsed, Max
<1>4. CASE S # {}
    <2>1. Max(S) \in S /\ \A g \in S : g <= Max(S)
        BY <1>1, <1>2, <1>4, MaxIsLargest
    <2> QED
        BY <2>1 DEF LargestUsed
<1> QED
    BY <1>3, <1>4

\* What selector_unregister_fd does to the table, item or no item.
LEMMA Unregistered ==
    ASSUME TypeOK, NEW f \in Fds, Unregister(f)
    PROVE  /\ item' = [item EXCEPT ![f] = Free]
           /\ open' = IF item[f] = Free THEN open ELSE open \ {f}
           /\ master' = IF item[f] = Free THEN master ELSE master \ {f}
           /\ max_fd' \in Fds \cup {0}
           /\ (\A g \in Fds : item[g] # Free => g <= max_fd)
                => \A g \in Fds : item'[g] # Free => g <= max_fd'
<1>1. item' \in [Fds -> Conns \cup {Free}] /\ item' = [item EXCEPT ![f] = Free]
    BY DEF TypeOK, Unregister
<1>0. master' = IF item[f] = Free THEN master ELSE master \ {f}
    BY DEF Unregister, Unwatch
<1>2. CASE item[f] = Free
    BY <1>0, <1>2 DEF TypeOK, Unregister
<1>3. CASE item[f] # Free
    <2>1. max_fd' = LargestUsed(item') /\ open' = open \ {f}
        BY <1>3 DEF Unregister
    <2>2. /\ LargestUsed(item') \in Fds \cup {0}
          /\ \A g \in Fds : item'[g] # Free /\ g <= max_fd => g <= LargestUsed(item')
        BY <1>1, LargestBounds DEF TypeOK
    <2> QED
        BY <1>0, <1>1, <1>3, <2>1, <2>2 DEF TypeOK
<1> QED
    BY <1>2, <1>3

-----------------------------------------------------------------------------
(* The invariant that holds whatever the threads do. *)

Accepting == main.at \in {"count", "counted", "reject", "rejected", "register"}

Alive == {"open", "resolving", "passing"}

\* c has its descriptor: it is not past the close handler of its resolver's
\* kill_client
Holds(c) == phase[c] \in Alive /\ thread[c].at \in {"none", "resolve", "close"}

\* a thread and its job belong to a client that is being resolved
PhaseInv ==
    \A c \in Conns :
        /\ phase[c] # "none" => fdOf[c] \in Fds
        /\ thread[c].at # "none" => phase[c] = "resolving" /\ c \notin jobs
        /\ c \in jobs => phase[c] = "resolving"
        /\ thread[c].at = "store" => thread[c].seen \in Fds \cup {0}

\* the client that is being accepted has not been touched by anybody else
MainInv ==
    /\ main.at # "loop" => main.conn \in Conns
    /\ Accepting => phase[main.conn] = "open"
    /\ main.at = "rejected" => item[fdOf[main.conn]] = Free

\* the thread has closed the descriptor, and its item is still there
Closed == {"unset", "unsetting", "clear"}

\* an item points to a client that has that descriptor, or whose resolver
\* thread is about to clear the item
ItemInv ==
    \A f \in Fds : item[f] # Free =>
        /\ fdOf[item[f]] = f
        /\ phase[item[f]] \in Alive
        /\ thread[item[f]].at \in {"none", "resolve", "close"} \cup Closed
        /\ thread[item[f]].at \notin Closed => f \in open
        /\ Accepting => item[f] # main.conn

\* two clients do not share a descriptor, and it is open
HolderInv ==
    \A c \in Conns : Holds(c) =>
        /\ ~(main.at = "rejected" /\ main.conn = c) => fdOf[c] \in open
        /\ \A d \in Conns : Holds(d) /\ fdOf[d] = fdOf[c] => d = c

IInv == TypeOK /\ PhaseInv /\ MainInv /\ ItemInv /\ HolderInv

LEMMA AcceptKeeps ==
    ASSUME IInv, NEW c \in Conns, Accept(c), disturbed' \in BOOLEAN
    PROVE  IInv'
<1> USE DEF IInv
<1>1. TypeOK'
    BY DEF Accept, GoMain, TypeOK, Phases, MainPlaces
<1>2. PhaseInv'
    BY DEF Accept, TypeOK, PhaseInv
<1>3. MainInv'
    BY DEF Accept, GoMain, TypeOK, MainInv
<1>4. ItemInv'
    BY DEF Accept, GoMain, ItemInv, Closed, Alive
<1>5. HolderInv'
    BY DEF Accept, TypeOK, HolderInv, Holds
<1> QED
    BY <1>1, <1>2, <1>3, <1>4, <1>5

LEMMA CountReadsKeeps ==
    ASSUME IInv, CountReads, disturbed' \in BOOLEAN
    PROVE  IInv'
<1> USE DEF IInv
<1>1. TypeOK'
    BY DEF CountReads, GoMain, shared, TypeOK, MainPlaces
<1>2. PhaseInv'
    BY DEF CountReads, shared, PhaseInv
<1>3. MainInv'
    BY DEF CountReads, GoMain, shared, MainInv, Accepting
<1>4. ItemInv'
    BY DEF CountReads, GoMain, shared, ItemInv, Closed, Accepting
<1>5. HolderInv'
    BY DEF CountReads, shared, HolderInv, Holds
<1> QED
    BY <1>1, <1>2, <1>3, <1>4, <1>5

LEMMA CountWritesKeeps ==
    ASSUME IInv, CountWrites, disturbed' \in BOOLEAN
    PROVE  IInv'
<1> USE DEF IInv
<1>1. TypeOK'
    BY DEF CountWrites, GoMain, TypeOK, MainPlaces
<1>2. PhaseInv'
    BY DEF CountWrites, PhaseInv
<1>3. MainInv'
    BY DEF CountWrites, GoMain, MainInv, Accepting
<1>4. ItemInv'
    BY DEF CountWrites, GoMain, ItemInv, Closed, Accepting
<1>5. HolderInv'
    BY DEF CountWrites, HolderInv, Holds
<1> QED
    BY <1>1, <1>2, <1>3, <1>4, <1>5

LEMMA RejectUnregistersKeeps ==
    ASSUME IInv, RejectUnregisters, disturbed' \in BOOLEAN
    PROVE  IInv'
<1> USE DEF IInv
<1>1. fdOf[main.conn] \in Fds /\ Unregister(fdOf[main.conn])
    BY DEF RejectUnregisters, PhaseInv, MainInv, Accepting
<1>2. /\ item' = [item EXCEPT ![fdOf[main.conn]] = Free]
      /\ open' = IF item[fdOf[main.conn]] = Free THEN open ELSE open \ {fdOf[main.conn]}
      /\ master' = IF item[fdOf[main.conn]] = Free THEN master ELSE master \ {fdOf[main.conn]}
      /\ max_fd' \in Fds \cup {0}
    BY <1>1, Unregistered
<1>3. TypeOK'
    BY <1>1, <1>2 DEF RejectUnregisters, GoMain, TypeOK, MainPlaces
<1>4. PhaseInv'
    BY DEF RejectUnregisters, PhaseInv
<1>5. MainInv'
    BY <1>1, <1>2 DEF RejectUnregisters, GoMain, TypeOK, MainInv, Accepting
<1>6. ItemInv'
    BY <1>2 DEF RejectUnregisters, GoMain, TypeOK, ItemInv, Closed
<1>7. HolderInv'
    BY <1>2 DEF RejectUnregisters, GoMain, PhaseInv, MainInv, HolderInv, Accepting, Alive,
       Holds
<1> QED
    BY <1>3, <1>4, <1>5, <1>6, <1>7

LEMMA RejectEndsKeeps ==
    ASSUME IInv, RejectEnds, disturbed' \in BOOLEAN
    PROVE  IInv'
<1> USE DEF IInv
<1>1. TypeOK'
    BY DEF RejectEnds, GoMain, TypeOK, MainInv, Phases, MainPlaces
<1>2. PhaseInv'
    BY DEF RejectEnds, PhaseInv, MainInv, Accepting
<1>3. MainInv'
    BY DEF RejectEnds, GoMain, MainInv, Accepting
<1>4. ItemInv'
    BY DEF RejectEnds, GoMain, MainInv, ItemInv, Closed
<1>5. HolderInv'
    BY DEF RejectEnds, TypeOK, PhaseInv, MainInv, HolderInv, Accepting, Alive, Holds
<1> QED
    BY <1>1, <1>2, <1>3, <1>4, <1>5

LEMMA RegisterKeeps ==
    ASSUME IInv, Register, disturbed' \in BOOLEAN
    PROVE  IInv'
<1> USE DEF IInv
<1>1. TypeOK'
    <2>1. main.conn \in Conns /\ fdOf[main.conn] \in Fds
        BY DEF Register, PhaseInv, MainInv, Accepting
    <2>2. /\ item' \in [Fds -> Conns \cup {Free}]
          /\ max_fd' \in Fds \cup {0}
          /\ open' \subseteq Fds /\ master' \subseteq Fds
          /\ phase' \in [Conns -> Phases]
        BY <2>1 DEF Register, TypeOK, Phases
    <2>3. main' \in [at: MainPlaces, conn: Conns \cup {Free}, seen: Int]
        BY <2>1 DEF Register, GoMain, MainPlaces
    <2> QED
        BY <2>2, <2>3 DEF Register, TypeOK
<1>2. PhaseInv'
    BY DEF Register, TypeOK, PhaseInv, MainInv, Accepting
<1>3. MainInv'
    BY DEF Register, GoMain, MainInv, Accepting
<1>4. ItemInv'
    BY DEF Register, GoMain, TypeOK, PhaseInv, MainInv, ItemInv, Closed, HolderInv,
       Accepting,
       Alive, Holds
<1>5. HolderInv'
    BY DEF Register, TypeOK, PhaseInv, MainInv, HolderInv, Accepting, Alive, Holds
<1> QED
    BY <1>1, <1>2, <1>3, <1>4, <1>5

LEMMA SetNameKeeps ==
    ASSUME IInv, SetName, disturbed' \in BOOLEAN
    PROVE  IInv'
<1> USE DEF IInv
<1>1. TypeOK'
    BY DEF SetName, GoMain, shared, TypeOK, MainPlaces
<1>2. PhaseInv'
    BY DEF SetName, shared, PhaseInv
<1>3. MainInv'
    BY DEF SetName, GoMain, MainInv, Accepting
<1>4. ItemInv'
    BY DEF SetName, GoMain, shared, ItemInv, Closed
<1>5. HolderInv'
    BY DEF SetName, shared, HolderInv, Holds
<1> QED
    BY <1>1, <1>2, <1>3, <1>4, <1>5

LEMMA ArmKeeps ==
    ASSUME IInv, Arm, disturbed' \in BOOLEAN
    PROVE  IInv'
<1> USE DEF IInv
<1>1. TypeOK'
    BY DEF Arm, GoMain, Unwatch, TypeOK, MainPlaces
<1>2. PhaseInv'
    BY DEF Arm, PhaseInv
<1>3. MainInv'
    BY DEF Arm, GoMain, MainInv, Accepting
<1>4. ItemInv'
    BY DEF Arm, GoMain, ItemInv, Closed
<1>5. HolderInv'
    BY DEF Arm, HolderInv, Holds
<1> QED
    BY <1>1, <1>2, <1>3, <1>4, <1>5

\* kill_client on the main thread keeps it, whichever handler calls it.
LEMMA KillKeeps ==
    ASSUME IInv, NEW c \in Conns, main.at = "loop", phase[c] \in {"open", "passing"}, Kill(c),
           disturbed' \in BOOLEAN
    PROVE  IInv'
<1> USE DEF IInv
<1>1. fdOf[c] \in Fds /\ Unregister(fdOf[c])
    BY DEF Kill, PhaseInv
<1>2. /\ item' = [item EXCEPT ![fdOf[c]] = Free]
      /\ open' = IF item[fdOf[c]] = Free THEN open ELSE open \ {fdOf[c]}
      /\ master' = IF item[fdOf[c]] = Free THEN master ELSE master \ {fdOf[c]}
      /\ max_fd' \in Fds \cup {0}
    BY <1>1, Unregistered
<1>3. TypeOK'
    BY <1>1, <1>2 DEF Kill, TypeOK, Phases
<1>4. PhaseInv'
    BY DEF Kill, PhaseInv
<1>5. MainInv'
    BY DEF Kill, MainInv, Accepting
<1>6. ItemInv'
    BY <1>2 DEF Kill, TypeOK, ItemInv, Closed, Accepting
<1>7. HolderInv'
    BY <1>2 DEF Kill, TypeOK, PhaseInv, HolderInv, Alive, Holds
<1> QED
    BY <1>3, <1>4, <1>5, <1>6, <1>7

LEMMA StartResolverKeeps ==
    ASSUME IInv, NEW c \in Conns, StartResolver(c), disturbed' \in BOOLEAN
    PROVE  IInv'
<1> USE DEF IInv
<1>1. TypeOK'
    BY DEF StartResolver, GoMain, GoThread, TypeOK, Phases, MainPlaces, ThreadPlaces
<1>2. PhaseInv'
    BY DEF StartResolver, GoThread, TypeOK, PhaseInv
<1>3. MainInv'
    BY DEF StartResolver, GoMain, MainInv, Accepting
<1>4. ItemInv'
    BY DEF StartResolver, GoMain, GoThread, PhaseInv, ItemInv, Closed, Accepting, Alive
<1>5. HolderInv'
    BY DEF StartResolver, GoThread, PhaseInv, HolderInv, Alive, Holds
<1> QED
    BY <1>1, <1>2, <1>3, <1>4, <1>5

LEMMA BlockKeeps ==
    ASSUME IInv, NEW c \in Conns, Block(c), disturbed' \in BOOLEAN
    PROVE  IInv'
<1> USE DEF IInv
<1>1. TypeOK'
    <2>1. master' \subseteq Fds
        BY DEF Block, Watch, TypeOK, PhaseInv
    <2> QED
        BY <2>1 DEF Block, TypeOK, Phases
<1>2. PhaseInv'
    BY DEF Block, PhaseInv
<1>3. MainInv'
    BY DEF Block, MainInv, Accepting
<1>4. ItemInv'
    BY DEF Block, ItemInv, Closed, Accepting, Alive
<1>5. HolderInv'
    BY DEF Block, PhaseInv, HolderInv, Alive, Holds
<1> QED
    BY <1>1, <1>2, <1>3, <1>4, <1>5

LEMMA RelayTurnsKeeps ==
    ASSUME IInv, NEW c \in Conns, RelayTurns(c), disturbed' \in BOOLEAN
    PROVE  IInv'
<1> USE DEF IInv
<1>1. TypeOK'
    <2>1. master' \subseteq Fds
        BY DEF RelayTurns, Watch, Unwatch, TypeOK, PhaseInv
    <2> QED
        BY <2>1 DEF RelayTurns, TypeOK
<1>2. PhaseInv'
    BY DEF RelayTurns, PhaseInv
<1>3. MainInv'
    BY DEF RelayTurns, MainInv, Accepting
<1>4. ItemInv'
    BY DEF RelayTurns, ItemInv, Closed, Accepting
<1>5. HolderInv'
    BY DEF RelayTurns, HolderInv, Holds
<1> QED
    BY <1>1, <1>2, <1>3, <1>4, <1>5

LEMMA ResolvedKeeps ==
    ASSUME IInv, NEW c \in Conns, Resolved(c), disturbed' \in BOOLEAN
    PROVE  IInv'
<1> USE DEF IInv
<1>1. TypeOK'
    BY DEF Resolved, GoThread, shared, TypeOK, ThreadPlaces
<1>2. PhaseInv'
    BY DEF Resolved, GoThread, shared, TypeOK, PhaseInv
<1>3. MainInv'
    BY DEF Resolved, shared, MainInv, Accepting
<1>4. ItemInv'
    BY DEF Resolved, GoThread, shared, ItemInv, Closed, Accepting
<1>5. HolderInv'
    BY DEF Resolved, GoThread, shared, HolderInv, Holds
<1> QED
    BY <1>1, <1>2, <1>3, <1>4, <1>5

LEMMA UnresolvedKeeps ==
    ASSUME IInv, NEW c \in Conns, Unresolved(c), disturbed' \in BOOLEAN
    PROVE  IInv'
<1> USE DEF IInv
<1>1. TypeOK'
    BY DEF Unresolved, GoThread, shared, TypeOK, ThreadPlaces
<1>2. PhaseInv'
    BY DEF Unresolved, GoThread, shared, PhaseInv
<1>3. MainInv'
    BY DEF Unresolved, shared, MainInv, Accepting
<1>4. ItemInv'
    BY DEF Unresolved, GoThread, shared, ItemInv, Closed, Accepting
<1>5. HolderInv'
    BY DEF Unresolved, GoThread, shared, HolderInv, Holds
<1> QED
    BY <1>1, <1>2, <1>3, <1>4, <1>5

LEMMA ThreadClosesKeeps ==
    ASSUME IInv, NEW c \in Conns, ThreadCloses(c), disturbed' \in BOOLEAN
    PROVE  IInv'
<1> USE DEF IInv
<1>1. TypeOK'
    BY DEF ThreadCloses, GoThread, TypeOK, ThreadPlaces
<1>2. PhaseInv'
    BY DEF ThreadCloses, GoThread, PhaseInv
<1>3. MainInv'
    BY DEF ThreadCloses, MainInv, Accepting
<1>4. ItemInv'
    BY DEF ThreadCloses, GoThread, TypeOK, PhaseInv, ItemInv, Closed, HolderInv,
       Accepting, Alive,
       Holds
<1>5. HolderInv'
    BY DEF ThreadCloses, GoThread, TypeOK, PhaseInv, HolderInv, Alive, Holds
<1> QED
    BY <1>1, <1>2, <1>3, <1>4, <1>5

LEMMA ThreadReadsSetKeeps ==
    ASSUME IInv, NEW c \in Conns, ThreadReadsSet(c), disturbed' \in BOOLEAN
    PROVE  IInv'
<1> USE DEF IInv
<1>1. TypeOK'
    BY DEF ThreadReadsSet, shared, TypeOK, ThreadPlaces
<1>2. PhaseInv'
    BY DEF ThreadReadsSet, shared, PhaseInv
<1>3. MainInv'
    BY DEF ThreadReadsSet, shared, MainInv, Accepting
<1>4. ItemInv'
    BY DEF ThreadReadsSet, shared, ItemInv, Closed, Accepting
<1>5. HolderInv'
    BY DEF ThreadReadsSet, shared, HolderInv, Holds
<1> QED
    BY <1>1, <1>2, <1>3, <1>4, <1>5

LEMMA ThreadWritesSetKeeps ==
    ASSUME IInv, NEW c \in Conns, ThreadWritesSet(c), disturbed' \in BOOLEAN
    PROVE  IInv'
<1> USE DEF IInv
<1>1. TypeOK'
    BY DEF ThreadWritesSet, GoThread, TypeOK, ThreadPlaces
<1>2. PhaseInv'
    BY DEF ThreadWritesSet, GoThread, PhaseInv
<1>3. MainInv'
    BY DEF ThreadWritesSet, MainInv, Accepting
<1>4. ItemInv'
    BY DEF ThreadWritesSet, GoThread, ItemInv, Closed, Accepting
<1>5. HolderInv'
    BY DEF ThreadWritesSet, GoThread, HolderInv, Holds
<1> QED
    BY <1>1, <1>2, <1>3, <1>4, <1>5

LEMMA ThreadClearsKeeps ==
    ASSUME IInv, NEW c \in Conns, ThreadClears(c), disturbed' \in BOOLEAN
    PROVE  IInv'
<1> USE DEF IInv
<1>1. TypeOK'
    BY DEF ThreadClears, GoThread, TypeOK, PhaseInv, ThreadPlaces
<1>2. PhaseInv'
    BY DEF ThreadClears, GoThread, PhaseInv
<1>3. MainInv'
    BY DEF ThreadClears, MainInv, Accepting
<1>4. ItemInv'
    BY DEF ThreadClears, GoThread, TypeOK, ItemInv, Closed, Accepting
<1>5. HolderInv'
    BY DEF ThreadClears, GoThread, HolderInv, Holds
<1> QED
    BY <1>1, <1>2, <1>3, <1>4, <1>5

LEMMA ThreadScansKeeps ==
    ASSUME IInv, NEW c \in Conns, ThreadScans(c), disturbed' \in BOOLEAN
    PROVE  IInv'
<1> USE DEF IInv
<1>0. LargestUsed(item) \in Fds \cup {0}
    BY LargestBounds DEF TypeOK
<1>1. TypeOK'
    <2>1. Fds \cup {0} \subseteq Int
        BY ConnectionsAssumption
    <2>2. LargestUsed(item) \in Int
        BY <1>0, <2>1
    <2> QED
        BY <2>2 DEF ThreadScans, GoThread, shared, TypeOK, ThreadPlaces
<1>2. PhaseInv'
    BY <1>0 DEF ThreadScans, GoThread, shared, PhaseInv
<1>3. MainInv'
    BY DEF ThreadScans, shared, MainInv, Accepting
<1>4. ItemInv'
    BY DEF ThreadScans, GoThread, shared, ItemInv, Closed, Accepting
<1>5. HolderInv'
    BY DEF ThreadScans, GoThread, shared, HolderInv, Holds
<1> QED
    BY <1>1, <1>2, <1>3, <1>4, <1>5

LEMMA ThreadStoresKeeps ==
    ASSUME IInv, NEW c \in Conns, ThreadStores(c), disturbed' \in BOOLEAN
    PROVE  IInv'
<1> USE DEF IInv
<1>1. TypeOK'
    BY DEF ThreadStores, GoThread, TypeOK, PhaseInv, ThreadPlaces
<1>2. PhaseInv'
    BY DEF ThreadStores, GoThread, PhaseInv
<1>3. MainInv'
    BY DEF ThreadStores, MainInv, Accepting
<1>4. ItemInv'
    BY DEF ThreadStores, GoThread, ItemInv, Closed, Accepting
<1>5. HolderInv'
    BY DEF ThreadStores, GoThread, HolderInv, Holds
<1> QED
    BY <1>1, <1>2, <1>3, <1>4, <1>5

LEMMA ThreadCountReadsKeeps ==
    ASSUME IInv, NEW c \in Conns, ThreadCountReads(c), disturbed' \in BOOLEAN
    PROVE  IInv'
<1> USE DEF IInv
<1>1. TypeOK'
    BY DEF ThreadCountReads, GoThread, shared, TypeOK, ThreadPlaces
<1>2. PhaseInv'
    BY DEF ThreadCountReads, GoThread, shared, PhaseInv
<1>3. MainInv'
    BY DEF ThreadCountReads, shared, MainInv, Accepting
<1>4. ItemInv'
    BY DEF ThreadCountReads, GoThread, shared, ItemInv, Closed, Accepting
<1>5. HolderInv'
    BY DEF ThreadCountReads, GoThread, shared, HolderInv, Holds
<1> QED
    BY <1>1, <1>2, <1>3, <1>4, <1>5

LEMMA ThreadCountWritesKeeps ==
    ASSUME IInv, NEW c \in Conns, ThreadCountWrites(c), disturbed' \in BOOLEAN
    PROVE  IInv'
<1> USE DEF IInv
<1>1. TypeOK'
    BY DEF ThreadCountWrites, GoThread, TypeOK, Phases, ThreadPlaces
<1>2. PhaseInv'
    BY DEF ThreadCountWrites, GoThread, TypeOK, PhaseInv
<1>3. MainInv'
    BY DEF ThreadCountWrites, PhaseInv, MainInv, Accepting
<1>4. ItemInv'
    BY DEF ThreadCountWrites, GoThread, ItemInv, Closed, Accepting
<1>5. HolderInv'
    BY DEF ThreadCountWrites, GoThread, TypeOK, HolderInv, Alive, Holds
<1> QED
    BY <1>1, <1>2, <1>3, <1>4, <1>5

LEMMA InitInv ==
    ASSUME Init
    PROVE  IInv
<1>1. TypeOK
    <2>1. main \in [at: MainPlaces, conn: Conns \cup {Free}, seen: Int]
        BY DEF Init, MainPlaces
    <2>2. thread \in [Conns -> [at: ThreadPlaces, seen: Int, word: SUBSET Fds]]
        BY DEF Init, ThreadPlaces
    <2>3. /\ phase \in [Conns -> Phases] /\ fdOf \in [Conns -> Fds \cup {None}]
          /\ item \in [Fds -> Conns \cup {Free}]
        BY DEF Init, Phases
    <2> QED
        BY <2>1, <2>2, <2>3 DEF Init, TypeOK
<1>2. PhaseInv /\ MainInv /\ ItemInv /\ HolderInv
    BY DEF Init, PhaseInv, MainInv, ItemInv, Closed, HolderInv, Accepting, Alive, Holds
<1> QED
    BY <1>1, <1>2 DEF IInv

LEMMA StutterKeeps ==
    ASSUME IInv, UNCHANGED vars
    PROVE  IInv'
BY DEF vars, shared, IInv, TypeOK, PhaseInv, MainInv, ItemInv, Closed, HolderInv,
   Accepting, Holds

LEMMA NextKeeps ==
    ASSUME IInv, [Next]_vars
    PROVE  IInv'
<1>1. CASE UNCHANGED vars
    BY <1>1, StutterKeeps
<1>2. CASE Next
    <2>1. disturbed' \in BOOLEAN
        BY <1>2 DEF Next
    <2>2. CASE PassiveSocket
        BY <2>1, <2>2, AcceptKeeps, CountReadsKeeps, CountWritesKeeps,
           RejectUnregistersKeeps, RejectEndsKeeps, RegisterKeeps, SetNameKeeps DEF
           PassiveSocket
    <2>3. CASE Arm
        BY <2>1, <2>3, ArmKeeps
    <2>4. ASSUME NEW c \in Conns, Client(c) PROVE IInv'
        BY <2>1, <2>4, KillKeeps, StartResolverKeeps, BlockKeeps, RelayTurnsKeeps DEF
           Client, ClientFails, RelayEnds
    <2>5. ASSUME NEW c \in Conns, Resolver(c) PROVE IInv'
        BY <2>1, <2>5, ResolvedKeeps, UnresolvedKeeps, ThreadClosesKeeps,
           ThreadReadsSetKeeps, ThreadWritesSetKeeps, ThreadClearsKeeps, ThreadScansKeeps,
           ThreadStoresKeeps, ThreadCountReadsKeeps,
           ThreadCountWritesKeeps DEF Resolver, ResolverKills
    <2> QED
        BY <1>2, <2>2, <2>3, <2>4, <2>5 DEF Next, Step
<1> QED
    BY <1>1, <1>2

\* Every variable has its type, whatever the threads do.
THEOREM TypeCorrect == Spec => []TypeOK
<1>1. Init => IInv
    BY InitInv
<1>2. IInv /\ [Next]_vars => IInv'
    BY NextKeeps
<1>3. IInv => TypeOK
    BY DEF IInv
<1> QED
    BY <1>1, <1>2, <1>3, PTL DEF Spec

\* No item points to a connection that has been freed.
THEOREM NothingDangles == Spec => []NoDanglingItem
<1>1. Init => IInv
    BY InitInv
<1>2. IInv /\ [Next]_vars => IInv'
    BY NextKeeps
<1>3. IInv => NoDanglingItem
    BY DEF IInv, ItemInv, Closed, NoDanglingItem, Alive
<1> QED
    BY <1>1, <1>2, <1>3, PTL DEF Spec

-----------------------------------------------------------------------------
(* The invariant that holds until a resolver's kill_client is disturbed. *)

InKill(c) == thread[c].at \notin {"none", "resolve"}

\* one thread at a time is in kill_client, and the main thread in its loop
AloneInv ==
    /\ \A c \in Conns : InKill(c) => main.at = "loop"
    /\ \A c, d \in Conns : InKill(c) /\ InKill(d) => c = d
    /\ main.at = "name" => phase[main.conn] # "freed"
    /\ main.at = "arm" => phase[main.conn] = "resolving"
    /\ ~usedFreed

\* who has a descriptor is registered with it, and nobody else's is open
DescriptorInv ==
    /\ \A c \in Conns : Holds(c) /\ ~(Accepting /\ main.conn = c) => item[fdOf[c]] = c
    /\ \A f \in open : \E c \in Conns : Holds(c) /\ fdOf[c] = f
    /\ \A c \in Conns : thread[c].at \in Closed => fdOf[c] \notin open

Watched(c) == phase[c] \in {"open", "passing"} \/ (main.at = "arm" /\ main.conn = c)

\* max_fd, or what a thread is about to store in it, bounds the items
SelectInv ==
    \A f \in Fds : item[f] # Free =>
        /\ f <= max_fd
        /\ \A c \in Conns : thread[c].at = "store" => f <= thread[c].seen

\* a watched descriptor is that of a client that reads, writes or is about to be
\* paused; one whose request is awaited is watched; a thread writes what it read
WatchInv ==
    /\ \A f \in master : item[f] # Free /\ Watched(item[f])
    /\ \A c \in Conns : phase[c] = "open" /\ ~(Accepting /\ main.conn = c) => fdOf[c] \in master
    /\ \A c \in Conns : thread[c].at = "unsetting" => thread[c].word = master

\* the counter lags behind by the client being accepted, and whoever has read
\* it has read what it is
CountInv ==
    /\ Cardinality(Live) = IF main.at \in {"count", "counted"} THEN current + 1 ELSE current
    /\ main.at \in {"counted", "rejected"} => main.seen = current
    /\ \A c \in Conns : thread[c].at = "counted" => thread[c].seen = current
    /\ current <= IF main.at \in {"reject", "rejected"} THEN max_connections + 1 ELSE max_connections

Calm == AloneInv /\ DescriptorInv /\ SelectInv /\ WatchInv /\ CountInv

\* what a step that leaves disturbed FALSE tells of the threads
Undisturbed ==
    /\ \A c \in Conns : InKill(c)' => main'.at = "loop"
    /\ \A c, d \in Conns : InKill(c)' /\ InKill(d)' => c = d
    /\ thread' # thread \/ (current' = current /\ master' = master) \/ \A c \in Conns : ~InKill(c)

LEMMA NextIsUndisturbed ==
    ASSUME Next, ~disturbed'
    PROVE  ~disturbed /\ Undisturbed
<1>1. ~disturbed /\ ~Overlap
    BY DEF Next
<1>2. Killing' = {c \in Conns : InKill(c)'} /\ Killing = {c \in Conns : InKill(c)}
    BY DEF Killing, InKill
<1>3. \A c \in Conns : InKill(c)' => main'.at = "loop"
    BY <1>1, <1>2 DEF Overlap
<1>4. ASSUME NEW c \in Conns, NEW d \in Conns, InKill(c)', InKill(d)'
      PROVE  c = d
    <2>1. c \in Killing' /\ d \in Killing' /\ Killing' \subseteq Conns
        BY <1>2, <1>4
    <2>2. ~(Cardinality(Killing') > 1)
        BY <1>1, <2>1 DEF Overlap
    <2>3. IsFiniteSet(Killing')
        BY <2>1, ConnectionsAssumption, FS_Subset
    <2>4. Cardinality(Killing') \in Nat /\ Cardinality(Killing') # 0
        BY <2>1, <2>3, FS_CardinalityType, FS_EmptySet
    <2>5. Cardinality(Killing') = 1
        BY <2>2, <2>4
    <2>6. PICK x : Killing' = {x}
        BY <2>3, <2>5, FS_Singleton
    <2> QED
        BY <2>1, <2>6
<1>5. thread' # thread \/ (current' = current /\ master' = master) \/ \A c \in Conns : ~InKill(c)
    BY <1>1, <1>2 DEF Overlap
<1> QED
    BY <1>1, <1>3, <1>4, <1>5 DEF Undisturbed

\* How the number of live connections changes with one of them.
LEMMA LiveIsFinite == IsFiniteSet(Live) /\ Cardinality(Live) \in Nat
BY ConnectionsAssumption, FS_Subset, FS_CardinalityType DEF Live

LEMMA LiveGrows ==
    ASSUME TypeOK, NEW c \in Conns, phase[c] = "none",
           phase' = [phase EXCEPT ![c] = "open"]
    PROVE  Cardinality(Live') = Cardinality(Live) + 1
<1>1. Live' = Live \cup {c} /\ c \notin Live
    BY DEF Live, TypeOK
<1> QED
    BY <1>1, LiveIsFinite, FS_AddElement

LEMMA LiveShrinks ==
    ASSUME TypeOK, NEW c \in Conns, phase[c] \in Alive,
           phase' = [phase EXCEPT ![c] = "freed"]
    PROVE  Cardinality(Live') = Cardinality(Live) - 1
<1>1. Live' = Live \ {c} /\ c \in Live
    BY DEF Live, TypeOK, Alive
<1> QED
    BY <1>1, LiveIsFinite, FS_RemoveElement

LEMMA LiveStays ==
    ASSUME \A c \in Conns : phase'[c] \in Alive <=> phase[c] \in Alive
    PROVE  Live' = Live
BY DEF Live, Alive

\* As long as no thread is in kill_client, the descriptor that accept returned
\* has no item left over.
LEMMA DescriptorIsNew ==
    ASSUME IInv, AloneInv, Accepting
    PROVE  item[fdOf[main.conn]] = Free
<1>1. /\ main.conn \in Conns /\ Holds(main.conn) /\ fdOf[main.conn] \in Fds
    BY DEF IInv, MainInv, PhaseInv, Holds, Accepting, Alive
<1>2. SUFFICES ASSUME item[fdOf[main.conn]] # Free
               PROVE  FALSE
    OBVIOUS
<1> DEFINE d == item[fdOf[main.conn]]
<1>3. d \in Conns /\ fdOf[d] = fdOf[main.conn] /\ d # main.conn /\ phase[d] \in Alive
    BY <1>1, <1>2 DEF IInv, TypeOK, ItemInv, Closed
<1>4. thread[d].at \in Closed
    BY <1>1, <1>2, <1>3 DEF IInv, ItemInv, Closed, HolderInv, Holds
<1> QED
    BY <1>3, <1>4 DEF AloneInv, InKill, Accepting, Closed

LEMMA AcceptCalm ==
    ASSUME IInv, IInv', Calm, Undisturbed, NEW c \in Conns, Accept(c)
    PROVE  Calm'
<1> USE DEF IInv, Calm
<1>1. Cardinality(Live') = Cardinality(Live) + 1
    BY LiveGrows DEF Accept, TypeOK, PhaseInv, MainInv, Accepting, Alive
<1>2. AloneInv'
    BY DEF Accept, GoMain, AloneInv, Undisturbed
<1>3. DescriptorInv'
    BY DEF Accept, GoMain, TypeOK, Accepting, Alive, Holds, InKill, DescriptorInv, Closed,
       Undisturbed
<1>4. SelectInv'
    BY ConnectionsAssumption DEF Accept, GoMain, TypeOK, PhaseInv, MainInv, Accepting,
       AloneInv, InKill, SelectInv, Undisturbed
<1>5. CountInv'
    BY <1>1 DEF Accept, GoMain, CountInv
<1>6. WatchInv'
    BY DEF Accept, GoMain, TypeOK, PhaseInv, MainInv, ItemInv, Alive, Accepting, Watched,
       WatchInv
<1> QED
    BY <1>2, <1>3, <1>4, <1>5, <1>6

LEMMA CountReadsCalm ==
    ASSUME IInv, IInv', Calm, Undisturbed, CountReads
    PROVE  Calm'
<1> USE DEF IInv, Calm
<1>1. Live' = Live
    BY LiveStays DEF CountReads, shared
<1>2. AloneInv'
    BY DEF CountReads, GoMain, AloneInv, Undisturbed
<1>3. DescriptorInv'
    BY DEF CountReads, GoMain, shared, Accepting, Holds, DescriptorInv, Closed
<1>4. SelectInv'
    BY DEF CountReads, shared, SelectInv
<1>5. CountInv'
    BY <1>1 DEF CountReads, GoMain, shared, CountInv
<1>6. WatchInv'
    BY DEF CountReads, GoMain, shared, Accepting, Watched, WatchInv
<1> QED
    BY <1>2, <1>3, <1>4, <1>5, <1>6

LEMMA CountWritesCalm ==
    ASSUME IInv, IInv', Calm, Undisturbed, CountWrites
    PROVE  Calm'
<1> USE DEF IInv, Calm
<1>1. Live' = Live
    BY LiveStays DEF CountWrites
<1>2. AloneInv'
    BY DEF CountWrites, GoMain, AloneInv, Undisturbed
<1>3. DescriptorInv'
    BY DEF CountWrites, GoMain, Accepting, Holds, DescriptorInv, Closed
<1>4. SelectInv'
    BY DEF CountWrites, SelectInv
<1>5. CountInv'
    BY <1>1, ConnectionsAssumption DEF CountWrites, GoMain, TypeOK, AloneInv, InKill,
       CountInv
<1>6. WatchInv'
    BY DEF CountWrites, GoMain, Accepting, Watched, WatchInv
<1> QED
    BY <1>2, <1>3, <1>4, <1>5, <1>6

LEMMA RejectUnregistersCalm ==
    ASSUME IInv, IInv', Calm, Undisturbed, RejectUnregisters
    PROVE  Calm'
<1> USE DEF IInv, Calm
<1>1. fdOf[main.conn] \in Fds /\ Unregister(fdOf[main.conn])
    BY DEF RejectUnregisters, PhaseInv, MainInv, Accepting
<1>2. /\ item' = [item EXCEPT ![fdOf[main.conn]] = Free]
      /\ open' = IF item[fdOf[main.conn]] = Free THEN open ELSE open \ {fdOf[main.conn]}
      /\ master' = IF item[fdOf[main.conn]] = Free THEN master ELSE master \ {fdOf[main.conn]}
      /\ max_fd' \in Fds \cup {0}
      /\ (\A g \in Fds : item[g] # Free => g <= max_fd)
           => \A g \in Fds : item'[g] # Free => g <= max_fd'
    BY <1>1, Unregistered
<1>3. item[fdOf[main.conn]] = Free
    BY DescriptorIsNew DEF RejectUnregisters, Accepting
<1>4. Live' = Live
    BY LiveStays DEF RejectUnregisters
<1>5. AloneInv'
    BY DEF RejectUnregisters, GoMain, AloneInv, Undisturbed
<1>6. DescriptorInv'
    BY <1>2, <1>3 DEF RejectUnregisters, GoMain, Accepting, Holds, DescriptorInv, Closed
<1>7. SelectInv'
    BY <1>2 DEF RejectUnregisters, TypeOK, PhaseInv, MainInv, SelectInv
<1>8. CountInv'
    BY <1>4 DEF RejectUnregisters, GoMain, CountInv
<1>9. WatchInv'
    BY <1>2, <1>3 DEF RejectUnregisters, GoMain, TypeOK, Accepting, Watched, WatchInv
<1> QED
    BY <1>5, <1>6, <1>7, <1>8, <1>9

LEMMA RejectEndsCalm ==
    ASSUME IInv, IInv', Calm, Undisturbed, RejectEnds
    PROVE  Calm'
<1> USE DEF IInv, Calm
<1>1. item[fdOf[main.conn]] = Free
    BY DescriptorIsNew DEF RejectEnds, Accepting
<1>2. Cardinality(Live') = Cardinality(Live) - 1
    BY <1>1, LiveShrinks DEF RejectEnds, TypeOK, PhaseInv, MainInv, Accepting, Alive
<1>3. AloneInv'
    BY DEF RejectEnds, GoMain, AloneInv, Undisturbed
<1>4. DescriptorInv'
    BY DEF RejectEnds, GoMain, HolderInv, Holds, DescriptorInv, Closed
<1>5. SelectInv'
    BY DEF RejectEnds, SelectInv
<1>6. CountInv'
    BY <1>2, LiveIsFinite, ConnectionsAssumption DEF RejectEnds, GoMain, AloneInv, InKill,
       CountInv
<1>7. WatchInv'
    BY DEF RejectEnds, GoMain, TypeOK, MainInv, ItemInv, Accepting, Watched, WatchInv
<1> QED
    BY <1>3, <1>4, <1>5, <1>6, <1>7

LEMMA RegisterCalm ==
    ASSUME IInv, IInv', Calm, Undisturbed, Register
    PROVE  Calm'
<1> USE DEF IInv, Calm
<1> DEFINE f == fdOf[main.conn]
<1>1. /\ item[f] = Free /\ f \in Fds
      /\ main.conn \in Conns /\ Holds(main.conn) /\ phase[main.conn] = "open"
    BY DescriptorIsNew DEF Register, PhaseInv, MainInv, Accepting, Alive, Holds
<1>2. /\ item' = [item EXCEPT ![f] = main.conn]
      /\ max_fd' = IF f > max_fd THEN f ELSE max_fd
      /\ master' = master \cup {f}
      /\ UNCHANGED <<phase, fdOf, open, current, thread, jobs, usedFreed>>
      /\ main' = [at |-> "name", conn |-> main.conn, seen |-> 0]
    BY <1>1 DEF Register, GoMain
<1>3. \A c \in Conns : ~InKill(c)
    BY DEF Register, AloneInv
<1>4. Live' = Live
    BY <1>2, LiveStays
<1>5. AloneInv'
    BY <1>1, <1>2, <1>3 DEF InKill, AloneInv
<1>6. DescriptorInv'
    <2>1. ASSUME NEW c \in Conns, Holds(c) PROVE item'[fdOf[c]] = c
        BY <1>1, <1>2, <2>1 DEF Register, TypeOK, PhaseInv, HolderInv, DescriptorInv,
           Accepting, Alive, Holds
    <2> QED
        BY <1>2, <1>3, <2>1 DEF DescriptorInv, Closed, Holds, InKill
<1>7. SelectInv'
    <2>1. max_fd \in Nat /\ Fds \subseteq Nat
        BY ConnectionsAssumption DEF TypeOK
    <2>2. \A g \in Fds : item'[g] # Free => g <= max_fd'
        BY <1>1, <1>2, <2>1 DEF TypeOK, SelectInv
    <2> QED
        BY <1>2, <1>3, <2>2 DEF InKill, SelectInv
<1>8. CountInv'
    BY <1>2, <1>4 DEF Register, CountInv
<1>9. WatchInv'
    <2>1. \A g \in master' : item'[g] # Free /\ Watched(item[g])'
        BY <1>1, <1>2, ConnectionsAssumption DEF Register, TypeOK, Watched, WatchInv
    <2>2. \A c \in Conns : phase'[c] = "open" => fdOf'[c] \in master'
        BY <1>2 DEF WatchInv
    <2> QED
        BY <1>2, <1>3, <2>1, <2>2 DEF InKill, WatchInv
<1> QED
    BY <1>5, <1>6, <1>7, <1>8, <1>9

LEMMA SetNameCalm ==
    ASSUME IInv, IInv', Calm, Undisturbed, SetName
    PROVE  Calm'
<1> USE DEF IInv, Calm
<1>1. Live' = Live
    BY LiveStays DEF SetName, shared
<1>2. AloneInv'
    BY DEF SetName, GoMain, TypeOK, AloneInv, Undisturbed
<1>3. DescriptorInv'
    BY DEF SetName, shared, Accepting, Holds, DescriptorInv, Closed
<1>4. SelectInv'
    BY DEF SetName, shared, SelectInv
<1>5. CountInv'
    BY <1>1 DEF SetName, GoMain, shared, CountInv
<1>6. WatchInv'
    BY DEF SetName, GoMain, shared, Accepting, Watched, WatchInv
<1> QED
    BY <1>2, <1>3, <1>4, <1>5, <1>6

LEMMA ArmCalm ==
    ASSUME IInv, IInv', Calm, Undisturbed, Arm
    PROVE  Calm'
<1> USE DEF IInv, Calm
<1>1. Live' = Live
    BY LiveStays DEF Arm
<1>2. AloneInv'
    BY DEF Arm, GoMain, TypeOK, AloneInv, Undisturbed
<1>3. DescriptorInv'
    BY DEF Arm, Accepting, Holds, DescriptorInv, Closed
<1>4. SelectInv'
    BY DEF Arm, SelectInv
<1>5. CountInv'
    BY <1>1 DEF Arm, GoMain, CountInv
<1>6. WatchInv'
    <2> DEFINE f == fdOf[main.conn]
    <2>1. main.conn \in Conns /\ phase[main.conn] = "resolving"
        BY DEF Arm, MainInv, AloneInv
    <2>2. thread[main.conn].at \in {"none", "resolve"} /\ Holds(main.conn)
        BY <2>1 DEF Arm, AloneInv, InKill, Holds, Alive
    <2>3. item[f] = main.conn /\ master' = master \ {f}
        BY <2>1, <2>2, ConnectionsAssumption DEF Arm, Unwatch, DescriptorInv, Accepting
    <2>4. \A g \in master' : item'[g] # Free /\ Watched(item[g])'
        BY <2>3 DEF Arm, TypeOK, ItemInv, Watched, WatchInv
    <2>5. \A d \in Conns : phase'[d] = "open" => fdOf'[d] \in master'
        BY <2>1, <2>2, <2>3 DEF Arm, PhaseInv, HolderInv, Holds, Alive, Accepting, WatchInv
    <2> QED
        BY <2>4, <2>5 DEF Arm, AloneInv, InKill, WatchInv
<1> QED
    BY <1>2, <1>3, <1>4, <1>5, <1>6

LEMMA KillCalm ==
    ASSUME IInv, IInv', Calm, Undisturbed, NEW c \in Conns, 
           main.at = "loop", phase[c] \in {"open", "passing"}, Kill(c)
    PROVE  Calm'
<1> USE DEF IInv, Calm
<1>1. fdOf[c] \in Fds /\ Unregister(fdOf[c])
    BY DEF Kill, PhaseInv
<1>2. /\ item' = [item EXCEPT ![fdOf[c]] = Free]
      /\ open' = IF item[fdOf[c]] = Free THEN open ELSE open \ {fdOf[c]}
      /\ master' = IF item[fdOf[c]] = Free THEN master ELSE master \ {fdOf[c]}
      /\ max_fd' \in Fds \cup {0}
      /\ (\A g \in Fds : item[g] # Free => g <= max_fd)
           => \A g \in Fds : item'[g] # Free => g <= max_fd'
    BY <1>1, Unregistered
<1>3. Cardinality(Live') = Cardinality(Live) - 1
    BY <1>1, <1>2, LiveShrinks DEF Kill, TypeOK, PhaseInv, MainInv, Accepting, Alive
<1>4. AloneInv'
    BY DEF Kill, AloneInv, Undisturbed
<1>5. DescriptorInv'
    <2>1. item[fdOf[c]] = c /\ Holds(c)
        BY DEF DescriptorInv, Closed, PhaseInv, Accepting, Holds, Alive
    <2>2. open' = open \ {fdOf[c]} /\ c # Free
        BY <1>2, <2>1, ConnectionsAssumption
    <2>3. \A d \in Conns : Holds(d)' <=> Holds(d) /\ d # c
        BY DEF Kill, Holds, Alive, TypeOK
    <2>4. \A d \in Conns : Holds(d)' => item'[fdOf'[d]] = d
        BY <1>2, <2>1, <2>3 DEF Kill, DescriptorInv, Closed, Accepting
    <2>5. \A f \in open' : \E d \in Conns : Holds(d)' /\ fdOf'[d] = f
        BY <2>2, <2>3 DEF Kill, DescriptorInv, Closed
    <2>6. \A d \in Conns : thread'[d].at \in Closed => fdOf'[d] \notin open'
        BY <2>2 DEF Kill, DescriptorInv
    <2> QED
        BY <2>4, <2>5, <2>6 DEF DescriptorInv
<1>6. SelectInv'
    BY <1>2 DEF Kill, PhaseInv, InKill, SelectInv
<1>7. CountInv'
    BY <1>3, LiveIsFinite, ConnectionsAssumption DEF Kill, InKill, CountInv, Undisturbed
<1>8. WatchInv'
    <2>1. item[fdOf[c]] = c /\ master' = master \ {fdOf[c]}
        BY <1>2, ConnectionsAssumption DEF DescriptorInv, PhaseInv, Accepting, Holds, Alive
    <2>2. \A f \in master' : item'[f] # Free /\ Watched(item[f])'
        BY <1>2, <2>1 DEF Kill, TypeOK, ItemInv, Watched, WatchInv
    <2>3. \A d \in Conns : phase'[d] = "open" => fdOf'[d] \in master'
        BY <2>1 DEF Kill, TypeOK, PhaseInv, HolderInv, Holds, Alive, Accepting, WatchInv
    <2>4. \A d \in Conns : ~InKill(d)
        BY ConnectionsAssumption DEF Kill, CountInv, Undisturbed
    <2> QED
        BY <2>2, <2>3, <2>4 DEF Kill, InKill, WatchInv
<1> QED
    BY <1>4, <1>5, <1>6, <1>7, <1>8

LEMMA StartResolverCalm ==
    ASSUME IInv, IInv', Calm, Undisturbed, NEW c \in Conns, StartResolver(c)
    PROVE  Calm'
<1> USE DEF IInv, Calm
<1>1. Live' = Live
    BY LiveStays DEF StartResolver, Alive
<1>2. AloneInv'
    BY DEF StartResolver, GoMain, TypeOK, AloneInv, Undisturbed
<1>3. DescriptorInv'
    BY DEF StartResolver, GoThread, Accepting, Alive, Holds, DescriptorInv, Closed
<1>4. SelectInv'
    BY DEF StartResolver, GoThread, MainInv, SelectInv, Undisturbed
<1>5. CountInv'
    BY <1>1 DEF StartResolver, GoMain, GoThread, CountInv
<1>6. WatchInv'
    BY DEF StartResolver, GoMain, GoThread, TypeOK, PhaseInv, Accepting, Watched, WatchInv
<1> QED
    BY <1>2, <1>3, <1>4, <1>5, <1>6

LEMMA BlockCalm ==
    ASSUME IInv, IInv', Calm, Undisturbed, NEW c \in Conns, Block(c)
    PROVE  Calm'
<1> USE DEF IInv, Calm
<1>1. Live' = Live
    BY LiveStays DEF Block, PhaseInv, Alive
<1>2. AloneInv'
    BY DEF Block, AloneInv, Undisturbed
<1>3. DescriptorInv'
    BY DEF Block, PhaseInv, Accepting, Alive, Holds, DescriptorInv, Closed
<1>4. SelectInv'
    BY DEF Block, SelectInv
<1>5. CountInv'
    BY <1>1 DEF Block, CountInv
<1>6. WatchInv'
    <2>1. item[fdOf[c]] = c
        BY DEF Block, PhaseInv, DescriptorInv, Accepting, Holds, Alive
    <2>2. master' = master \cup {fdOf[c]}
        BY <2>1, ConnectionsAssumption DEF Block, Watch
    <2>3. \A f \in master' : item'[f] # Free /\ Watched(item[f])'
        BY <2>1, <2>2, ConnectionsAssumption DEF Block, TypeOK, Watched, WatchInv
    <2> QED
        BY <2>2, <2>3 DEF Block, TypeOK, InKill, Accepting, WatchInv, Undisturbed
<1> QED
    BY <1>2, <1>3, <1>4, <1>5, <1>6

LEMMA RelayTurnsCalm ==
    ASSUME IInv, IInv', Calm, Undisturbed, NEW c \in Conns, RelayTurns(c)
    PROVE  Calm'
<1> USE DEF IInv, Calm
<1>1. Live' = Live
    BY LiveStays DEF RelayTurns
<1>2. AloneInv'
    BY DEF RelayTurns, AloneInv, Undisturbed
<1>3. DescriptorInv'
    BY DEF RelayTurns, Accepting, Holds, DescriptorInv
<1>4. SelectInv'
    BY DEF RelayTurns, SelectInv
<1>5. CountInv'
    BY <1>1 DEF RelayTurns, CountInv
<1>6. WatchInv'
    <2>1. Holds(c) /\ item[fdOf[c]] = c
        BY DEF RelayTurns, PhaseInv, DescriptorInv, Accepting, Holds, Alive
    <2>2. master' = master \cup {fdOf[c]} \/ master' = master \ {fdOf[c]}
        BY <2>1, ConnectionsAssumption DEF RelayTurns, Watch, Unwatch
    <2>3. \A f \in master' : item'[f] # Free /\ Watched(item[f])'
        BY <2>1, <2>2, ConnectionsAssumption DEF RelayTurns, Watched, WatchInv
    <2>4. \A d \in Conns : phase'[d] = "open" => fdOf'[d] \in master'
        BY <2>1, <2>2 DEF RelayTurns, PhaseInv, HolderInv, Holds, Alive, Accepting, WatchInv
    <2>5. thread' = thread /\ (master' = master \/ \A d \in Conns : ~InKill(d))
        BY DEF RelayTurns, Undisturbed
    <2> QED
        BY <2>3, <2>4, <2>5 DEF InKill, WatchInv
<1> QED
    BY <1>2, <1>3, <1>4, <1>5, <1>6

LEMMA ResolvedCalm ==
    ASSUME IInv, IInv', Calm, Undisturbed, NEW c \in Conns, Resolved(c)
    PROVE  Calm'
<1> USE DEF IInv, Calm
<1>1. Live' = Live
    BY LiveStays DEF Resolved, shared
<1>2. AloneInv'
    BY DEF Resolved, shared, AloneInv, Undisturbed
<1>3. DescriptorInv'
    BY DEF Resolved, GoThread, shared, Accepting, Holds, DescriptorInv, Closed
<1>4. SelectInv'
    BY DEF Resolved, GoThread, shared, PhaseInv, SelectInv
<1>5. CountInv'
    BY <1>1 DEF Resolved, GoThread, shared, CountInv
<1>6. WatchInv'
    BY DEF Resolved, GoThread, shared, TypeOK, Accepting, Watched, WatchInv
<1> QED
    BY <1>2, <1>3, <1>4, <1>5, <1>6

LEMMA UnresolvedCalm ==
    ASSUME IInv, IInv', Calm, Undisturbed, NEW c \in Conns, Unresolved(c)
    PROVE  Calm'
<1> USE DEF IInv, Calm
<1>1. Live' = Live
    BY LiveStays DEF Unresolved, shared
<1>2. AloneInv'
    BY DEF Unresolved, shared, AloneInv, Undisturbed
<1>3. DescriptorInv'
    BY DEF Unresolved, GoThread, shared, Accepting, Holds, DescriptorInv, Closed
<1>4. SelectInv'
    BY DEF Unresolved, GoThread, shared, SelectInv
<1>5. CountInv'
    BY <1>1 DEF Unresolved, GoThread, shared, CountInv
<1>6. WatchInv'
    BY DEF Unresolved, GoThread, shared, TypeOK, Accepting, Watched, WatchInv
<1> QED
    BY <1>2, <1>3, <1>4, <1>5, <1>6

LEMMA ThreadClosesCalm ==
    ASSUME IInv, IInv', Calm, Undisturbed, NEW c \in Conns, ThreadCloses(c)
    PROVE  Calm'
<1> USE DEF IInv, Calm
<1>1. Live' = Live
    BY LiveStays DEF ThreadCloses
<1>2. AloneInv'
    BY DEF ThreadCloses, AloneInv, Undisturbed
<1>3. DescriptorInv'
    BY DEF ThreadCloses, GoThread, Accepting, Holds, DescriptorInv, Closed
<1>4. SelectInv'
    BY DEF ThreadCloses, GoThread, SelectInv
<1>5. CountInv'
    BY <1>1 DEF ThreadCloses, GoThread, CountInv
<1>6. WatchInv'
    BY DEF ThreadCloses, GoThread, TypeOK, Accepting, Watched, WatchInv
<1> QED
    BY <1>2, <1>3, <1>4, <1>5, <1>6

LEMMA ThreadReadsSetCalm ==
    ASSUME IInv, IInv', Calm, Undisturbed, NEW c \in Conns, ThreadReadsSet(c)
    PROVE  Calm'
<1> USE DEF IInv, Calm
<1>1. Live' = Live
    BY LiveStays DEF ThreadReadsSet, shared
<1>2. AloneInv'
    BY DEF ThreadReadsSet, shared, AloneInv, Undisturbed
<1>3. DescriptorInv'
    BY DEF ThreadReadsSet, shared, TypeOK, Accepting, Holds, DescriptorInv, Closed
<1>4. SelectInv'
    BY DEF ThreadReadsSet, shared, TypeOK, SelectInv
<1>5. CountInv'
    BY <1>1 DEF ThreadReadsSet, shared, TypeOK, CountInv
<1>6. WatchInv'
    BY DEF ThreadReadsSet, shared, TypeOK, Accepting, Watched, WatchInv
<1> QED
    BY <1>2, <1>3, <1>4, <1>5, <1>6

LEMMA ThreadWritesSetCalm ==
    ASSUME IInv, IInv', Calm, Undisturbed, NEW c \in Conns, ThreadWritesSet(c)
    PROVE  Calm'
<1> USE DEF IInv, Calm
<1>1. Live' = Live
    BY LiveStays DEF ThreadWritesSet
<1>2. AloneInv'
    BY DEF ThreadWritesSet, AloneInv, Undisturbed
<1>3. DescriptorInv'
    BY DEF ThreadWritesSet, GoThread, TypeOK, Accepting, Holds, DescriptorInv, Closed
<1>4. SelectInv'
    BY DEF ThreadWritesSet, GoThread, TypeOK, SelectInv
<1>5. CountInv'
    BY <1>1 DEF ThreadWritesSet, GoThread, TypeOK, CountInv
<1>6. WatchInv'
    <2>1. fdOf[c] \notin open /\ main.at = "loop"
        BY DEF ThreadWritesSet, AloneInv, InKill, DescriptorInv, Closed
    <2>2. master' = master \ {fdOf[c]}
        BY DEF ThreadWritesSet, WatchInv
    <2>3. \A d \in Conns : phase[d] = "open" => fdOf[d] \in open
        BY <2>1 DEF PhaseInv, HolderInv, Holds, Alive
    <2>4. \A d \in Conns : phase'[d] = "open" => fdOf'[d] \in master'
        BY <2>1, <2>2, <2>3 DEF ThreadWritesSet, Accepting, WatchInv
    <2>5. \A f \in master' : item'[f] # Free /\ Watched(item[f])'
        BY <2>2 DEF ThreadWritesSet, Watched, WatchInv
    <2>6. \A d \in Conns : thread'[d].at # "unsetting"
        BY DEF ThreadWritesSet, GoThread, TypeOK, AloneInv, InKill
    <2> QED
        BY <2>4, <2>5, <2>6 DEF WatchInv
<1> QED
    BY <1>2, <1>3, <1>4, <1>5, <1>6

LEMMA ThreadClearsCalm ==
    ASSUME IInv, IInv', Calm, Undisturbed, NEW c \in Conns, ThreadClears(c)
    PROVE  Calm'
<1> USE DEF IInv, Calm
<1>1. Live' = Live
    BY LiveStays DEF ThreadClears
<1>2. AloneInv'
    BY DEF ThreadClears, AloneInv, Undisturbed
<1>3. DescriptorInv'
    BY DEF ThreadClears, GoThread, HolderInv, Accepting, Holds, DescriptorInv, Closed
<1>4. SelectInv'
    BY DEF ThreadClears, GoThread, SelectInv
<1>5. CountInv'
    BY <1>1 DEF ThreadClears, GoThread, CountInv
<1>6. WatchInv'
    <2>1. fdOf[c] \notin open /\ main.at = "loop" /\ phase[c] = "resolving"
        BY DEF ThreadClears, AloneInv, InKill, DescriptorInv, Closed, PhaseInv
    <2>2. fdOf[c] \notin master
        BY <2>1 DEF TypeOK, PhaseInv, ItemInv, Closed, Watched, WatchInv
    <2> QED
        BY <2>2 DEF ThreadClears, GoThread, TypeOK, Accepting, Watched, WatchInv
<1> QED
    BY <1>2, <1>3, <1>4, <1>5, <1>6

LEMMA ThreadScansCalm ==
    ASSUME IInv, IInv', Calm, Undisturbed, NEW c \in Conns, ThreadScans(c)
    PROVE  Calm'
<1> USE DEF IInv, Calm
<1>1. Live' = Live
    BY LiveStays DEF ThreadScans, shared
<1>2. AloneInv'
    BY DEF ThreadScans, shared, AloneInv, Undisturbed
<1>3. DescriptorInv'
    BY DEF ThreadScans, GoThread, shared, Accepting, Holds, DescriptorInv, Closed
<1>4. SelectInv'
    BY LargestBounds DEF ThreadScans, GoThread, shared, TypeOK, AloneInv, SelectInv
<1>5. CountInv'
    BY <1>1 DEF ThreadScans, GoThread, shared, CountInv
<1>6. WatchInv'
    BY DEF ThreadScans, GoThread, shared, TypeOK, Accepting, Watched, WatchInv
<1> QED
    BY <1>2, <1>3, <1>4, <1>5, <1>6

LEMMA ThreadStoresCalm ==
    ASSUME IInv, IInv', Calm, Undisturbed, NEW c \in Conns, ThreadStores(c)
    PROVE  Calm'
<1> USE DEF IInv, Calm
<1>1. Live' = Live
    BY LiveStays DEF ThreadStores
<1>2. AloneInv'
    BY DEF ThreadStores, AloneInv, Undisturbed
<1>3. DescriptorInv'
    BY DEF ThreadStores, GoThread, Accepting, Holds, DescriptorInv, Closed
<1>4. SelectInv'
    BY DEF ThreadStores, GoThread, PhaseInv, SelectInv
<1>5. CountInv'
    BY <1>1 DEF ThreadStores, GoThread, CountInv
<1>6. WatchInv'
    BY DEF ThreadStores, GoThread, TypeOK, Accepting, Watched, WatchInv
<1> QED
    BY <1>2, <1>3, <1>4, <1>5, <1>6

LEMMA ThreadCountReadsCalm ==
    ASSUME IInv, IInv', Calm, Undisturbed, NEW c \in Conns, ThreadCountReads(c)
    PROVE  Calm'
<1> USE DEF IInv, Calm
<1>1. Live' = Live
    BY LiveStays DEF ThreadCountReads, shared
<1>2. AloneInv'
    BY DEF ThreadCountReads, shared, AloneInv, Undisturbed
<1>3. DescriptorInv'
    BY DEF ThreadCountReads, GoThread, shared, Accepting, Holds, DescriptorInv, Closed
<1>4. SelectInv'
    BY DEF ThreadCountReads, GoThread, shared, SelectInv
<1>5. CountInv'
    BY <1>1 DEF ThreadCountReads, GoThread, shared, CountInv
<1>6. WatchInv'
    BY DEF ThreadCountReads, GoThread, shared, TypeOK, Accepting, Watched, WatchInv
<1> QED
    BY <1>2, <1>3, <1>4, <1>5, <1>6

LEMMA ThreadCountWritesCalm ==
    ASSUME IInv, IInv', Calm, Undisturbed, NEW c \in Conns, ThreadCountWrites(c)
    PROVE  Calm'
<1> USE DEF IInv, Calm
<1>1. Cardinality(Live') = Cardinality(Live) - 1
    BY LiveShrinks DEF ThreadCountWrites, TypeOK, PhaseInv, MainInv, Accepting, Alive
<1>2. AloneInv'
    BY DEF ThreadCountWrites, GoThread, AloneInv, InKill
<1>3. DescriptorInv'
    BY DEF ThreadCountWrites, GoThread, TypeOK, Accepting, Alive, Holds, DescriptorInv,
       Closed
<1>4. SelectInv'
    BY DEF ThreadCountWrites, GoThread, PhaseInv, SelectInv
<1>5. CountInv'
    BY <1>1, ConnectionsAssumption DEF ThreadCountWrites, GoThread, TypeOK, AloneInv,
       InKill, CountInv
<1>6. WatchInv'
    BY DEF ThreadCountWrites, GoThread, TypeOK, PhaseInv, ItemInv, Closed, Accepting,
       Watched,
       WatchInv
<1> QED
    BY <1>2, <1>3, <1>4, <1>5, <1>6

LEMMA StutterCalm ==
    ASSUME Calm, UNCHANGED vars
    PROVE  Calm'
<1>1. Live' = Live
    BY DEF Live, vars, shared
<1> QED
    BY <1>1 DEF vars, shared, Calm, AloneInv, DescriptorInv, Closed, SelectInv, WatchInv,
       Watched, CountInv,
       Accepting, Holds, InKill

UInv == ~disturbed => Calm

LEMMA NextCalm ==
    ASSUME IInv, IInv', UInv, [Next]_vars
    PROVE  UInv'
<1>1. CASE UNCHANGED vars
    BY <1>1, StutterCalm DEF UInv, vars
<1>2. CASE Next
    <2> SUFFICES ASSUME ~disturbed' PROVE Calm'
        BY DEF UInv
    <2>1. Calm /\ Undisturbed
        BY <1>2, NextIsUndisturbed DEF UInv
    <2>2. CASE PassiveSocket
        BY <2>1, <2>2, AcceptCalm, CountReadsCalm, CountWritesCalm, RejectUnregistersCalm,
           RejectEndsCalm, RegisterCalm, SetNameCalm DEF PassiveSocket
    <2>3. CASE Arm
        BY <2>1, <2>3, ArmCalm
    <2>4. ASSUME NEW c \in Conns, Client(c) PROVE Calm'
        BY <2>1, <2>4, KillCalm, StartResolverCalm, BlockCalm, RelayTurnsCalm DEF Client,
           ClientFails, RelayEnds
    <2>5. ASSUME NEW c \in Conns, Resolver(c) PROVE Calm'
        BY <2>1, <2>5, ResolvedCalm, UnresolvedCalm, ThreadClosesCalm, ThreadReadsSetCalm,
           ThreadWritesSetCalm, ThreadClearsCalm, ThreadScansCalm,
           ThreadStoresCalm, ThreadCountReadsCalm, ThreadCountWritesCalm
           DEF Resolver, ResolverKills
    <2> QED
        BY <1>2, <2>2, <2>3, <2>4, <2>5 DEF Next, Step
<1> QED
    BY <1>1, <1>2

LEMMA InitCalm ==
    ASSUME Init
    PROVE  UInv
<1>1. Live = {}
    BY DEF Init, Live
<1>2. Cardinality(Live) = 0
    BY <1>1, FS_EmptySet
<1>3. AloneInv /\ DescriptorInv /\ SelectInv /\ WatchInv
    BY DEF Init, AloneInv, DescriptorInv, Closed, SelectInv, WatchInv, InKill, Holds, Alive
<1>4. CountInv
    BY <1>2, ConnectionsAssumption DEF Init, CountInv
<1> QED
    BY <1>3, <1>4 DEF UInv, Calm

\* Both invariants hold, from which the theorems below follow.
LEMMA InvariantsHold == Spec => [](IInv /\ UInv)
<1>1. Init => IInv /\ UInv
    BY InitInv, InitCalm
<1>2. IInv /\ UInv /\ [Next]_vars => (IInv /\ UInv)'
    BY NextKeeps, NextCalm
<1> QED
    BY <1>1, <1>2, PTL DEF Spec

\* No handler finds its data freed before threads have got in each other's way.
THEOREM FreedOnlyByThreads == Spec => []FreedByThreadsOnly
<1>1. UInv => FreedByThreadsOnly
    BY DEF UInv, Calm, AloneInv, FreedByThreadsOnly
<1> QED
    BY <1>1, InvariantsHold, PTL

\* The counter is the number of connections when nothing is under way.
THEOREM CounterExact == Spec => []CountIsExact
<1>1. UInv => CountIsExact
    BY DEF UInv, Calm, CountInv, CountIsExact, Quiet
<1> QED
    BY <1>1, InvariantsHold, PTL

\* A closed descriptor whose item is still there belongs to a client that is being
\* resolved, whatever the threads do; and until they get in each other's way, the
\* sets that select is given hold open descriptors only.
THEOREM NoBadDescriptors == Spec => []NoBadDescriptor
<1>1. ASSUME IInv, UInv, main.at = "loop"
      PROVE  /\ \A f \in Fds : item[f] # Free /\ f \notin open => phase[item[f]] = "resolving"
             /\ ~disturbed => master \subseteq open
    <2>1. ASSUME NEW f \in Fds, item[f] # Free, f \notin open
          PROVE  phase[item[f]] = "resolving"
        BY <1>1, <2>1 DEF IInv, TypeOK, ItemInv, Closed, PhaseInv
    <2>2. ASSUME ~disturbed, NEW f \in master PROVE f \in open
        <3>1. f \in Fds /\ item[f] # Free /\ phase[item[f]] \in {"open", "passing"}
            BY <1>1, <2>2 DEF IInv, TypeOK, UInv, Calm, WatchInv, Watched
        <3> QED
            BY <2>1, <3>1
    <2> QED
        BY <2>1, <2>2
<1>2. IInv /\ UInv => NoBadDescriptor
    BY <1>1 DEF NoBadDescriptor
<1> QED
    BY <1>2, InvariantsHold, PTL

\* Descriptors, items and connections agree when nothing is under way, and select
\* looks at every registered client.
THEOREM DescriptorsAgree == Spec => []DescriptorsOwned
<1>1. ASSUME IInv, UInv, Quiet
      PROVE  /\ open = {fdOf[c] : c \in Live}
             /\ \A c \in Live : item[fdOf[c]] = c
             /\ \A f \in Fds : item[f] # Free => item[f] \in Live /\ fdOf[item[f]] = f
             /\ \A f \in Fds : item[f] # Free => f <= max_fd
             /\ \A c \in Live : phase[c] = "open" => fdOf[c] \in master
             /\ \A c \in Live : phase[c] = "resolving" => fdOf[c] \notin master
    <2>1. ~Accepting /\ main.at = "loop" /\ DescriptorInv
        BY <1>1 DEF Quiet, Accepting, UInv, Calm
    <2>2. \A c \in Conns : c \in Live <=> Holds(c)
        BY <1>1 DEF Quiet, Killing, Live, Holds, Alive
    <2>3. Live \subseteq Conns
        BY DEF Live
    <2>4. \A c \in Live : fdOf[c] \in open /\ item[fdOf[c]] = c
        BY <1>1, <2>1, <2>2, <2>3 DEF IInv, HolderInv, DescriptorInv, Closed
    <2>5. \A f \in open : \E c \in Live : fdOf[c] = f
        BY <2>1, <2>2 DEF DescriptorInv, Closed
    <2>6. \A f \in Fds : item[f] # Free => item[f] \in Live /\ fdOf[item[f]] = f
        BY <1>1 DEF IInv, TypeOK, ItemInv, Closed, Live, Alive
    <2>7. \A f \in Fds : item[f] # Free => f <= max_fd
        BY <1>1 DEF UInv, Calm, SelectInv, Quiet
    <2>8. WatchInv
        BY <1>1 DEF UInv, Calm, Quiet
    <2>9. \A c \in Live : phase[c] = "open" => fdOf[c] \in master
        BY <2>1, <2>3, <2>8 DEF WatchInv
    <2>10. \A c \in Live : phase[c] = "resolving" => fdOf[c] \notin master
        BY <2>1, <2>4, <2>8 DEF WatchInv, Watched
    <2> QED
        BY <2>4, <2>5, <2>6, <2>7, <2>9, <2>10
<1>2. IInv /\ UInv => DescriptorsOwned
    BY <1>1 DEF DescriptorsOwned
<1> QED
    BY <1>2, InvariantsHold, PTL

\* Never more than max_connections clients are registered.
THEOREM LimitHolds == Spec => []LimitKept
<1>1. ASSUME IInv, UInv, ~disturbed
      PROVE  Cardinality({f \in Fds : item[f] # Free}) <= max_connections
    <2> DEFINE used == {f \in Fds : item[f] # Free}
               owners == IF Accepting THEN Live \ {main.conn} ELSE Live
    <2>1. [f \in used |-> item[f]] \in Injection(used, owners)
        BY <1>1 DEF IInv, TypeOK, ItemInv, Closed, Live, Alive, Injection, IsInjective
    <2>2. IsFiniteSet(owners) /\ Cardinality(owners) = IF Accepting THEN Cardinality(Live) - 1 ELSE Cardinality(Live)
        <3>1. Accepting => main.conn \in Live
            BY <1>1 DEF IInv, MainInv, Accepting, Live
        <3> QED
            BY <3>1, LiveIsFinite, FS_RemoveElement
    <2>3. Cardinality(used) <= Cardinality(owners)
        BY <2>1, <2>2, FS_Injection
    <2>4. Cardinality(owners) <= max_connections
        BY <1>1, <2>2, ConnectionsAssumption DEF UInv, Calm, CountInv, Accepting, IInv,
           TypeOK
    <2>5. Cardinality(used) \in Nat
        BY ConnectionsAssumption, FS_Subset, FS_CardinalityType
    <2> QED
        BY <2>2, <2>3, <2>4, <2>5, LiveIsFinite, ConnectionsAssumption
<1>2. IInv /\ UInv => LimitKept
    BY <1>1 DEF LimitKept
<1> QED
    BY <1>2, InvariantsHold, PTL

=============================================================================
