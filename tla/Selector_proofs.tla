--------------------------- MODULE Selector_proofs ---------------------------
(***************************************************************************)
(* The table of the selector is consistent for every number of             *)
(* descriptors, whatever the handlers do.                                  *)
(***************************************************************************)
EXTENDS Selector, WellFoundedInduction, SequenceTheorems, TLAPS

-----------------------------------------------------------------------------
(* The largest descriptor in use. *)

\* A set of numbers with a bound has a largest member.
LEMMA LargestExists ==
    ASSUME NEW m \in Nat, NEW S, S \subseteq 0 .. m, S # {}
    PROVE  \E f \in S : \A g \in S : g <= f
<1> DEFINE T == {m - f : f \in S}
<1>1. T \subseteq Nat /\ T # {}
    <2>1. ASSUME NEW f \in S PROVE m - f \in Nat
        <3>1. f \in 0 .. m
            OBVIOUS
        <3> QED BY <3>1
    <2>2. T # {}
        OBVIOUS
    <2> QED BY <2>1, <2>2
<1>2. PICK x \in T : \A y \in T : <<y, x>> \notin OpToRel(<, Nat)
    BY <1>1, NatLessThanWellFounded, WFMin, Zenon
<1>3. \A y \in T : ~(y < x)
    BY <1>1, <1>2 DEF OpToRel
<1>4. PICK f \in S : x = m - f
    OBVIOUS
<1>5. ASSUME NEW g \in S PROVE g <= f
    <2>1. m - g \in T
        OBVIOUS
    <2>2. ~(m - g < m - f)
        BY <2>1, <1>3, <1>4
    <2>3. g \in 0 .. m /\ f \in 0 .. m
        OBVIOUS
    <2> QED
        BY <2>2, <2>3
<1> QED
    BY <1>5

\* items_max_fd finds the largest descriptor in use, if it is not above m.
LEMMA MaxFound ==
    ASSUME NEW t \in [Fds -> Interests \cup {Unused}], NEW m \in Fds,
           \A fd \in used(t) : fd <= m
    PROVE  /\ items_max_fd(t, m) \in Fds
           /\ \A fd \in used(t) : fd <= items_max_fd(t, m)
           /\ items_max_fd(t, m) = 0 \/ items_max_fd(t, m) \in used(t)
<1> DEFINE scanned == {fd \in used(t) : fd <= m}
<1>1. scanned = used(t) /\ used(t) \subseteq Fds
    BY DEF used
<1>2. m \in Nat /\ Fds \subseteq Nat /\ 0 \in Fds
    BY SizeAssumption DEF Fds
<1>3. CASE scanned = {}
    <2>1. items_max_fd(t, m) = 0
        BY <1>3 DEF items_max_fd
    <2> QED
        BY <2>1, <1>1, <1>2, <1>3
<1>4. CASE scanned # {}
    <2>1. scanned \subseteq 0 .. m
        <3>1. ASSUME NEW f \in scanned PROVE f \in 0 .. m
            <4>1. f \in Nat /\ f <= m
                BY <1>1, <1>2
            <4> QED BY <4>1, <1>2
        <3> QED BY <3>1
    <2>2. \E f \in scanned : \A g \in scanned : g <= f
        <3> HIDE DEF scanned
        <3> QED BY <2>1, <1>2, <1>4, LargestExists
    <2>3. items_max_fd(t, m) = CHOOSE f \in scanned : \A g \in scanned : g <= f
        BY <1>4 DEF items_max_fd
    <2>4. items_max_fd(t, m) \in scanned /\ \A g \in scanned : g <= items_max_fd(t, m)
        <3> HIDE DEF scanned
        <3> QED BY <2>2, <2>3
    <2> QED
        BY <2>4, <1>1
<1> QED
    BY <1>3, <1>4

-----------------------------------------------------------------------------
(* The three operations on the table. *)

\* What the table operations preserve: types, max_fd and the two sets.
TableTypeOK ==
    /\ items \in [Fds -> Interests \cup {Unused}]
    /\ max_fd \in Fds
    /\ master \in Sets

Consistent == TableTypeOK /\ MaxFdIsMax /\ MastersMatch

\* selector_register keeps the table consistent: max_fd only grows to a new largest.
LEMMA RegisterKeeps ==
    ASSUME Consistent, NEW fd \in Fds, NEW i \in Interests, selector_register(fd, i)
    PROVE  Consistent'
<1>1. CASE items[fd] # Unused
    BY <1>1 DEF selector_register, Consistent, TableTypeOK, MaxFdIsMax, MastersMatch, table, used
<1>2. CASE items[fd] = Unused
    <2> USE <1>2 DEF selector_register
    <2>1. items' \in [Fds -> Interests \cup {Unused}]
        BY DEF Consistent, TableTypeOK
    <2>2. max_fd' \in Fds
        BY DEF Consistent, TableTypeOK
    <2>3. master' \in Sets
        BY DEF Consistent, TableTypeOK, Sets, items_update_fdset_for_fd
    <2>4. used(items') = used(items) \cup {fd}
        BY DEF used, Consistent, TableTypeOK, Interests, Unused
    <2>5. MaxFdIsMax'
        <3>1. Fds \subseteq Nat /\ max_fd \in Nat /\ fd \in Nat /\ used(items) \subseteq Fds
            BY SizeAssumption DEF Fds, Consistent, TableTypeOK, used
        <3>2. MaxFdIsMax
            BY DEF Consistent
        <3>3. max_fd' = IF fd > max_fd THEN fd ELSE max_fd
            OBVIOUS
        <3>4. \A f \in used(items') : f <= max_fd'
            <4>1. ASSUME NEW f \in used(items') PROVE f <= max_fd'
                <5>1. f = fd \/ (f \in used(items) /\ f <= max_fd)
                    BY <2>4, <3>2 DEF MaxFdIsMax
                <5>2. f \in Nat
                    BY <5>1, <3>1
                <5> QED BY <5>1, <5>2, <3>1, <3>3
            <4> QED BY <4>1
        <3>5. max_fd' = 0 \/ max_fd' \in used(items')
            BY <2>4, <3>2, <3>3 DEF MaxFdIsMax
        <3> QED
            BY <3>4, <3>5 DEF MaxFdIsMax
    <2>6. MastersMatch'
        BY DEF MastersMatch, Consistent, TableTypeOK, Sets, items_update_fdset_for_fd
    <2> QED
        BY <2>1, <2>2, <2>3, <2>5, <2>6 DEF Consistent, TableTypeOK
<1> QED
    BY <1>1, <1>2

\* selector_unregister_fd keeps it consistent: the old max_fd bounds the search.
LEMMA UnregisterKeeps ==
    ASSUME Consistent, NEW fd \in Fds, selector_unregister_fd(fd)
    PROVE  Consistent'
<1>1. CASE items[fd] = Unused
    BY <1>1 DEF selector_unregister_fd, Consistent, TableTypeOK, MaxFdIsMax, MastersMatch, table, used
<1>2. CASE items[fd] # Unused
    <2> USE <1>2 DEF selector_unregister_fd
    <2>1. items' \in [Fds -> Interests \cup {Unused}]
        BY DEF Consistent, TableTypeOK
    <2>2. master' \in Sets
        BY DEF Consistent, TableTypeOK, Sets, items_update_fdset_for_fd
    <2>3. \A g \in used(items') : g <= max_fd
        BY DEF used, Consistent, TableTypeOK, MaxFdIsMax
    <2>4. max_fd' = items_max_fd(items', max_fd) /\ max_fd \in Fds
        BY DEF Consistent, TableTypeOK
    <2>5. max_fd' \in Fds /\ MaxFdIsMax'
        BY <2>1, <2>3, <2>4, MaxFound DEF MaxFdIsMax
    <2>6. MastersMatch'
        BY DEF MastersMatch, Consistent, TableTypeOK, Sets, items_update_fdset_for_fd, Unused
    <2> QED
        BY <2>1, <2>2, <2>5, <2>6 DEF Consistent, TableTypeOK
<1> QED
    BY <1>1, <1>2

\* selector_set_interest keeps it consistent.
LEMMA SetInterestKeeps ==
    ASSUME Consistent, NEW fd \in Fds, NEW i \in Interests, selector_set_interest(fd, i)
    PROVE  Consistent'
<1>1. CASE items[fd] = Unused
    BY <1>1 DEF selector_set_interest, Consistent, TableTypeOK, MaxFdIsMax, MastersMatch, table, used
<1>2. CASE items[fd] # Unused
    <2> USE <1>2 DEF selector_set_interest
    <2>1. items' \in [Fds -> Interests \cup {Unused}] /\ max_fd' = max_fd
        BY DEF Consistent, TableTypeOK
    <2>2. master' \in Sets
        BY DEF Consistent, TableTypeOK, Sets, items_update_fdset_for_fd
    <2>3. used(items') = used(items)
        BY DEF used, Consistent, TableTypeOK, Interests, Unused
    <2>4. MaxFdIsMax'
        BY <2>1, <2>3 DEF Consistent, MaxFdIsMax
    <2>5. MastersMatch'
        BY DEF MastersMatch, Consistent, TableTypeOK, Sets, items_update_fdset_for_fd
    <2> QED
        BY <2>1, <2>2, <2>4, <2>5 DEF Consistent, TableTypeOK
<1> QED
    BY <1>1, <1>2

-----------------------------------------------------------------------------
(* Steps that leave the table alone. *)

\* What does not change the table keeps it consistent.
LEMMA TableKept ==
    ASSUME Consistent, UNCHANGED table
    PROVE  Consistent'
BY DEF Consistent, TableTypeOK, MaxFdIsMax, MastersMatch, table, used

\* Handlers change the table by its three operations only, the rest not at all.
LEMMA ConsistentStep ==
    ASSUME TypeOK, Consistent, [Next]_vars
    PROVE  Consistent'
<1>1. CASE Loop
    BY <1>1, TableKept DEF Loop, PselectReturns, PselectInterrupted, TestRead, TestWrite,
        TakeJobs, HandleJob, JobsDone
<1>2. CASE HandlerRegisters
    <2>1. PICK fd \in Fds, i \in Interests : selector_register(fd, i)
        BY <1>2 DEF HandlerRegisters
    <2> QED BY <2>1, RegisterKeeps
<1>3. CASE HandlerUnregisters
    <2>1. PICK fd \in Fds : selector_unregister_fd(fd)
        BY <1>3 DEF HandlerUnregisters, used
    <2> QED BY <2>1, UnregisterKeeps
<1>4. CASE HandlerSetsInterest
    <2>1. PICK fd \in Fds, i \in Interests : selector_set_interest(fd, i)
        BY <1>4 DEF HandlerSetsInterest
    <2> QED BY <2>1, SetInterestKeeps
<1>5. CASE HandlerStartsWorker
    <2>1. items[cursor] # Unused /\ selector_set_interest(cursor, "noop")
        BY <1>5 DEF HandlerStartsWorker
    <2>2. cursor \in Fds /\ "noop" \in Interests
        BY <1>5 DEF HandlerStartsWorker, TypeOK, InHandler, Interests
    <2> QED BY <2>1, <2>2, SetInterestKeeps
<1>6. CASE HandlerReturns
    BY <1>6, TableKept DEF HandlerReturns
<1>7. CASE Workers
    BY <1>7, TableKept DEF Workers, NotifyQueues, NotifySignals
<1>8. CASE UNCHANGED vars
    BY <1>8, TableKept DEF vars, table
<1> QED
    BY <1>1, <1>2, <1>3, <1>4, <1>5, <1>6, <1>7, <1>8 DEF Next, Handlers

-----------------------------------------------------------------------------
(* Types. *)

\* The variables that are not the table.
LoopTypeOK ==
    /\ slave \in Sets
    /\ jobs \in Seq(Fds) /\ todo \in Seq(Fds)
    /\ at \in Places
    /\ cursor \in Nat /\ last \in Fds /\ (InHandler => cursor \in Fds)
    /\ worker \in [Fds -> WorkerStates]
    /\ signalled \in BOOLEAN
    /\ due \subseteq Fds \X {"read", "write"}
    /\ awaiting \subseteq Fds

\* The two halves make up TypeOK.
LEMMA TypesSplit == TypeOK <=> TableTypeOK /\ LoopTypeOK
BY DEF TypeOK, TableTypeOK, LoopTypeOK

\* Every step keeps the types of what is not the table.
LEMMA LoopTypeStep ==
    ASSUME TypeOK, Consistent, [Next]_vars
    PROVE  LoopTypeOK'
<1> USE DEF LoopTypeOK, TypeOK, InHandler, Places, WorkerStates, vars, table, loop, history
<1>1. CASE PselectReturns
    <2>1. PICK rs \in SUBSET Fds, ws \in SUBSET Fds :
              /\ slave' = [r |-> rs, w |-> ws]
              /\ due' = (rs \X {"read"}) \cup (ws \X {"write"})
        BY <1>1 DEF PselectReturns, Sets
    <2>2. slave' \in Sets /\ due' \subseteq Fds \X {"read", "write"}
        BY <2>1 DEF Sets
    <2>3. at' = "read" /\ cursor' = 0 /\ last' \in Fds /\ signalled' \in BOOLEAN
        BY <1>1 DEF PselectReturns
    <2>4. UNCHANGED <<table, jobs, todo, worker, awaiting>>
        BY <1>1 DEF PselectReturns
    <2> QED BY <2>2, <2>3, <2>4
<1>2. CASE PselectInterrupted
    BY <1>2 DEF PselectInterrupted
<1>3. CASE TestRead
    <2>1. [r |-> {}, w |-> {}] \in Sets
        BY DEF Sets
    <2>2. 0 \in Fds
        BY SizeAssumption DEF Fds
    <2>3. IterationEnds \/ UNCHANGED <<slave, cursor, last>>
        BY <1>3 DEF TestRead
    <2>4. slave' \in Sets /\ cursor' \in Nat /\ last' \in Fds
        <3>1. CASE IterationEnds
            <4>1. slave' = [r |-> {}, w |-> {}] /\ cursor' = 0 /\ last' = 0
                BY <3>1 DEF IterationEnds
            <4> QED BY <4>1, <2>1, <2>2
        <3>2. CASE UNCHANGED <<slave, cursor, last>>
            BY <3>2
        <3> QED BY <2>3, <3>1, <3>2
    <2>5. /\ at' \in {"lock", "reading", "write"}
          /\ at' = "reading" => cursor' \in Fds
        BY <1>3 DEF TestRead, IterationEnds, Serves, Sets
    <2>6. due' \subseteq due /\ UNCHANGED <<todo, jobs, worker, signalled, awaiting>>
        BY <1>3 DEF TestRead, IterationEnds
    <2> QED BY <2>4, <2>5, <2>6
<1>4. CASE TestWrite
    BY <1>4 DEF TestWrite, Serves, Sets
<1>5. CASE TakeJobs
    BY <1>5 DEF TakeJobs
<1>6. CASE HandleJob
    <2>1. Head(todo) \in Fds /\ Tail(todo) \in Seq(Fds)
        BY <1>6 DEF HandleJob
    <2>2. Fds \subseteq Nat
        BY DEF Fds
    <2>3. /\ at' \in {"block", "blocking"}
          /\ at' = "blocking" => cursor' = Head(todo)
          /\ cursor' \in {0, Head(todo)}
        BY <1>6 DEF HandleJob
    <2>4. cursor' \in Nat /\ (InHandler => cursor \in Fds)'
        BY <2>1, <2>2, <2>3
    <2>5. /\ todo' \in Seq(Fds) /\ awaiting' \subseteq awaiting
          /\ UNCHANGED <<slave, last, jobs, worker, signalled, due>>
        BY <1>6, <2>1 DEF HandleJob
    <2> QED BY <2>3, <2>4, <2>5
<1>7. CASE JobsDone
    BY <1>7 DEF JobsDone
<1>8. CASE HandlerRegisters
    BY <1>8 DEF HandlerRegisters, Touch
<1>9. CASE HandlerUnregisters
    BY <1>9 DEF HandlerUnregisters, Touch
<1>10. CASE HandlerSetsInterest
    BY <1>10 DEF HandlerSetsInterest, Touch
<1>11. CASE HandlerStartsWorker
    BY <1>11 DEF HandlerStartsWorker, Touch
<1>12. CASE HandlerReturns
    BY <1>12 DEF HandlerReturns
<1>13. CASE Workers
    <2>1. PICK fd \in Fds : NotifyQueues(fd) \/ NotifySignals(fd)
        BY <1>13 DEF Workers
    <2>2. CASE NotifyQueues(fd)
        <3>1. <<fd>> \o jobs \in Seq(Fds)
            OBVIOUS
        <3> QED BY <2>2, <3>1 DEF NotifyQueues
    <2>3. CASE NotifySignals(fd)
        BY <2>3 DEF NotifySignals
    <2> QED BY <2>1, <2>2, <2>3
<1>14. CASE UNCHANGED vars
    BY <1>14
<1> QED
    BY <1>1, <1>2, <1>3, <1>4, <1>5, <1>6, <1>7, <1>8, <1>9, <1>10, <1>11, <1>12, <1>13, <1>14
       DEF Next, Loop, Handlers

-----------------------------------------------------------------------------
(* The table is consistent. *)

TableInv == TypeOK /\ Consistent

\* The first state: one passive socket is registered.
LEMMA TableInvInit == Init => TableInv
<1> SUFFICES ASSUME Init PROVE TableInv
    OBVIOUS
<1>1. 0 \in Fds /\ Fds \subseteq Nat
    BY SizeAssumption DEF Fds
<1>2. used(items) = {0}
    BY <1>1 DEF Init, used, Unused
<1>3. TableTypeOK
    BY <1>1 DEF Init, TableTypeOK, Sets, Interests, Unused
<1>4. LoopTypeOK
    BY <1>1 DEF Init, LoopTypeOK, Sets, Places, WorkerStates, InHandler
<1>5. MaxFdIsMax
    BY <1>2 DEF Init, MaxFdIsMax
<1>6. MastersMatch
    BY <1>1 DEF Init, MastersMatch, Unused
<1> QED
    BY <1>3, <1>4, <1>5, <1>6, TypesSplit DEF TableInv, Consistent

\* The types and the consistency of the table are inductive together.
LEMMA TableInvStep == TableInv /\ [Next]_vars => TableInv'
<1> SUFFICES ASSUME TableInv, [Next]_vars PROVE TableInv'
    OBVIOUS
<1>1. Consistent'
    BY ConsistentStep DEF TableInv
<1>2. LoopTypeOK'
    BY LoopTypeStep DEF TableInv
<1>3. TypeOK'
    BY <1>1, <1>2, TypesSplit DEF Consistent, TypeOK, TableTypeOK, LoopTypeOK
<1> QED
    BY <1>1, <1>3 DEF TableInv

\* TableInv holds in every reachable state.
THEOREM TableIsConsistent == Spec => []TableInv
BY TableInvInit, TableInvStep, PTL DEF Spec

\* Every variable keeps its type, for every size of the table.
THEOREM TypeCorrect == Spec => []TypeOK
<1>1. TableInv => TypeOK
    BY DEF TableInv
<1> QED
    BY <1>1, TableIsConsistent, PTL

\* pselect looks at every registered descriptor: max_fd is exactly the largest.
THEOREM SelectSeesAll == Spec => []MaxFdIsMax
<1>1. TableInv => MaxFdIsMax
    BY DEF TableInv, Consistent
<1> QED
    BY <1>1, TableIsConsistent, PTL

\* The sets pselect watches are the interests, and hold no closed descriptor.
THEOREM WatchedIsWanted == Spec => []MastersMatch
<1>1. TableInv => MastersMatch
    BY DEF TableInv, Consistent
<1> QED
    BY <1>1, TableIsConsistent, PTL

-----------------------------------------------------------------------------
(* The hand-over of finished jobs. *)

\* The signal cannot be missed between the list and pselect: the loop comes back
\* to pselect with an empty list, and what is appended then is signalled.
LEMMA NoLostWakeupStep ==
    ASSUME TypeOK, NoLostWakeup, [Next]_vars
    PROVE  NoLostWakeup'
<1> USE DEF NoLostWakeup, vars, table, loop, history
<1>1. CASE Loop
    BY <1>1 DEF Loop, PselectReturns, PselectInterrupted, TestRead, IterationEnds, TestWrite,
        TakeJobs, HandleJob, JobsDone
<1>2. CASE Handlers
    <2>1. at # "select" /\ at' # "select"
        BY <1>2 DEF Handlers, HandlerRegisters, HandlerUnregisters, HandlerSetsInterest,
            HandlerStartsWorker, HandlerReturns, InHandler
    <2> QED BY <2>1
<1>3. CASE Workers
    <2>1. PICK fd \in Fds : NotifyQueues(fd) \/ NotifySignals(fd)
        BY <1>3 DEF Workers
    <2>2. CASE NotifyQueues(fd)
        <3>1. worker'[fd] = "signalling"
            BY <2>2 DEF NotifyQueues, TypeOK
        <3> QED BY <3>1
    <2>3. CASE NotifySignals(fd)
        BY <2>3 DEF NotifySignals
    <2> QED BY <2>1, <2>2, <2>3
<1>4. CASE UNCHANGED vars
    BY <1>4
<1> QED
    BY <1>1, <1>2, <1>3, <1>4 DEF Next

\* The loop never sleeps on a job that nobody is going to wake it for.
THEOREM WakeupsArrive == Spec => []NoLostWakeup
<1>1. Init => NoLostWakeup
    BY DEF Init, NoLostWakeup
<1>2. TypeOK /\ NoLostWakeup /\ [Next]_vars => NoLostWakeup'
    BY NoLostWakeupStep
<1> QED
    BY <1>1, <1>2, TypeCorrect, PTL DEF Spec

-----------------------------------------------------------------------------
(* The events of an iteration. *)

\* An event that is still due is one the loop is going to find: its descriptor is
\* ahead of the cursor, not past the end, reported, and watched for it.
DueAhead ==
    \A fd \in Fds, k \in {"read", "write"} :
        <<fd, k>> \in due =>
            /\ items[fd] = k
            /\ fd \in IF k = "read" THEN slave.r ELSE slave.w
            /\ cursor <= fd /\ fd <= last
            /\ at \in {"read", "reading", "write", "writing"}
            /\ at \in {"reading", "write"} => cursor < fd \/ k = "write"
            /\ at = "writing" => cursor < fd

\* A handler that changes the item of fd withdraws the events of fd.
LEMMA DueAfterHandler ==
    ASSUME TypeOK, DueAhead, NEW fd \in Fds, Touch(fd), InHandler,
           \A g \in Fds \ {fd} : items'[g] = items[g],
           UNCHANGED <<loop, at>>
    PROVE  DueAhead'
<1>1. \A g \in Fds, k \in {"read", "write"} : <<g, k>> \in due' => <<g, k>> \in due /\ g # fd
    BY DEF Touch
<1> QED
    BY <1>1 DEF DueAhead, loop

\* Every step keeps the due events ahead of the cursor.
LEMMA DueAheadStep ==
    ASSUME TypeOK, Consistent, DueAhead, [Next]_vars
    PROVE  DueAhead'
<1>0. Fds \subseteq Nat
    BY DEF Fds
<1>1. CASE PselectReturns
    <2>1. PICK rs \in SUBSET {fd \in master.r : fd <= max_fd},
               ws \in SUBSET {fd \in master.w : fd <= max_fd} :
              /\ slave' = [r |-> rs, w |-> ws]
              /\ due' = (rs \X {"read"}) \cup (ws \X {"write"})
        BY <1>1 DEF PselectReturns
    <2>2. items' = items /\ cursor' = 0 /\ last' = max_fd /\ at' = "read"
        BY <1>1 DEF PselectReturns, table
    <2>3. slave'.r = rs /\ slave'.w = ws
        BY <2>1
    <2>4. \A fd \in rs : items[fd] = "read" /\ fd <= max_fd
        BY DEF Consistent, MastersMatch
    <2>5. \A fd \in ws : items[fd] = "write" /\ fd <= max_fd
        BY DEF Consistent, MastersMatch
    <2>6. \A fd \in Fds : 0 <= fd
        BY <1>0
    <2>7. \A fd \in Fds, k \in {"read", "write"} :
              <<fd, k>> \in due' => (k = "read" /\ fd \in rs) \/ (k = "write" /\ fd \in ws)
        BY <2>1
    <2> QED
        BY <2>2, <2>3, <2>4, <2>5, <2>6, <2>7 DEF DueAhead
<1>2. CASE PselectInterrupted
    BY <1>2 DEF PselectInterrupted, DueAhead, table, loop, history
<1>3. CASE TestRead
    <2> USE <1>3 DEF TestRead
    <2>1. UNCHANGED items /\ at = "read"
        BY DEF table
    <2>2. cursor \in Nat /\ last \in Nat
        BY <1>0 DEF TypeOK
    <2>3. CASE cursor > last
        <3>1. \A fd \in Fds, k \in {"read", "write"} : <<fd, k>> \notin due
            <4>1. ASSUME NEW fd \in Fds, NEW k \in {"read", "write"}, <<fd, k>> \in due
                  PROVE  FALSE
                <5>1. cursor <= fd /\ fd <= last
                    BY <4>1 DEF DueAhead
                <5>2. fd \in Nat
                    BY <1>0
                <5> QED BY <5>1, <5>2, <2>2, <2>3
            <4> QED BY <4>1
        <3>2. due' = due
            BY <2>2, <2>3 DEF IterationEnds
        <3> QED BY <3>1, <3>2 DEF DueAhead
    <2>4. CASE cursor <= last /\ Serves(cursor, "read", slave.r)
        <3>1. /\ at' = "reading" /\ due' = due \ {<<cursor, "read">>}
              /\ UNCHANGED <<slave, cursor, last>>
            BY <2>2, <2>4
        <3>2. \A fd \in Fds, k \in {"read", "write"} :
                  <<fd, k>> \in due' => <<fd, k>> \in due /\ (fd # cursor \/ k = "write")
            BY <3>1
        <3>3. \A fd \in Fds, k \in {"read", "write"} :
                  <<fd, k>> \in due' => cursor < fd \/ k = "write"
            <4>1. ASSUME NEW fd \in Fds, NEW k \in {"read", "write"}, <<fd, k>> \in due'
                  PROVE  cursor < fd \/ k = "write"
                <5>1. cursor <= fd /\ (fd # cursor \/ k = "write")
                    BY <3>2, <4>1 DEF DueAhead
                <5>2. fd \in Nat
                    BY <1>0
                <5> QED BY <5>1, <5>2, <2>2
            <4> QED BY <4>1
        <3> QED BY <2>1, <3>1, <3>2, <3>3 DEF DueAhead
    <2>5. CASE cursor <= last /\ ~Serves(cursor, "read", slave.r)
        <3>1. at' = "write" /\ due' = due /\ UNCHANGED <<slave, cursor, last>>
            BY <2>2, <2>5
        <3>2. \A fd \in Fds, k \in {"read", "write"} :
                  <<fd, k>> \in due => cursor < fd \/ k = "write"
            <4>1. ASSUME NEW fd \in Fds, NEW k \in {"read", "write"}, <<fd, k>> \in due
                  PROVE  cursor < fd \/ k = "write"
                <5>1. cursor <= fd
                    BY <4>1 DEF DueAhead
                <5>2. fd = cursor => k = "write"
                    BY <4>1, <2>5 DEF DueAhead, Serves
                <5>3. fd \in Nat
                    BY <1>0
                <5> QED BY <5>1, <5>2, <5>3, <2>2
            <4> QED BY <4>1
        <3> QED BY <2>1, <3>1, <3>2 DEF DueAhead
    <2> QED BY <2>2, <2>3, <2>4, <2>5
<1>4. CASE TestWrite
    <2> USE <1>4 DEF TestWrite
    <2>1. UNCHANGED <<items, slave, last>> /\ at = "write" /\ cursor \in Nat
        BY DEF table, TypeOK
    <2>2. CASE Serves(cursor, "write", slave.w)
        <3>1. at' = "writing" /\ due' = due \ {<<cursor, "write">>} /\ cursor' = cursor
            BY <2>2
        <3>2. \A fd \in Fds, k \in {"read", "write"} :
                  <<fd, k>> \in due' => <<fd, k>> \in due /\ cursor < fd
            <4>1. ASSUME NEW fd \in Fds, NEW k \in {"read", "write"}, <<fd, k>> \in due'
                  PROVE  <<fd, k>> \in due /\ cursor < fd
                <5>1. <<fd, k>> \in due /\ (fd # cursor \/ k # "write")
                    BY <3>1, <4>1
                <5>2. cursor <= fd /\ (cursor < fd \/ k = "write")
                    BY <5>1, <2>1 DEF DueAhead
                <5>3. fd \in Nat
                    BY <1>0
                <5> QED BY <5>1, <5>2, <5>3, <2>1
            <4> QED BY <4>1
        <3> QED BY <2>1, <3>1, <3>2 DEF DueAhead
    <2>3. CASE ~Serves(cursor, "write", slave.w)
        <3>1. at' = "read" /\ due' = due /\ cursor' = cursor + 1
            BY <2>3
        <3>2. \A fd \in Fds, k \in {"read", "write"} :
                  <<fd, k>> \in due => cursor + 1 <= fd
            <4>1. ASSUME NEW fd \in Fds, NEW k \in {"read", "write"}, <<fd, k>> \in due
                  PROVE  cursor + 1 <= fd
                <5>1. cursor < fd \/ k = "write"
                    BY <4>1, <2>1 DEF DueAhead
                <5>2. cursor <= fd /\ (k = "write" => fd # cursor)
                    BY <4>1, <2>3 DEF DueAhead, Serves
                <5>3. fd \in Nat
                    BY <1>0
                <5> QED BY <5>1, <5>2, <5>3, <2>1
            <4> QED BY <4>1
        <3> QED BY <2>1, <3>1, <3>2 DEF DueAhead
    <2> QED BY <2>2, <2>3
<1>5. CASE TakeJobs \/ HandleJob \/ JobsDone
    <2>1. at \notin {"read", "reading", "write", "writing"} /\ due' = due
        BY <1>5 DEF TakeJobs, HandleJob, JobsDone, history
    <2> QED BY <2>1 DEF DueAhead
<1>6. CASE HandlerRegisters
    <2>1. PICK fd \in Fds, i \in Interests : selector_register(fd, i) /\ Touch(fd)
        BY <1>6 DEF HandlerRegisters
    <2>2. \A g \in Fds \ {fd} : items'[g] = items[g]
        BY <2>1 DEF selector_register, table, TypeOK
    <2>3. InHandler /\ UNCHANGED <<loop, at>>
        BY <1>6 DEF HandlerRegisters
    <2> QED BY <2>1, <2>2, <2>3, DueAfterHandler
<1>7. CASE HandlerUnregisters
    <2>1. PICK fd \in Fds : selector_unregister_fd(fd) /\ Touch(fd)
        BY <1>7 DEF HandlerUnregisters, used
    <2>2. \A g \in Fds \ {fd} : items'[g] = items[g]
        BY <2>1 DEF selector_unregister_fd, table, TypeOK
    <2>3. InHandler /\ UNCHANGED <<loop, at>>
        BY <1>7 DEF HandlerUnregisters
    <2> QED BY <2>1, <2>2, <2>3, DueAfterHandler
<1>8. CASE HandlerSetsInterest
    <2>1. PICK fd \in Fds, i \in Interests : selector_set_interest(fd, i) /\ Touch(fd)
        BY <1>8 DEF HandlerSetsInterest
    <2>2. \A g \in Fds \ {fd} : items'[g] = items[g]
        BY <2>1 DEF selector_set_interest, table, TypeOK
    <2>3. InHandler /\ UNCHANGED <<loop, at>>
        BY <1>8 DEF HandlerSetsInterest
    <2> QED BY <2>1, <2>2, <2>3, DueAfterHandler
<1>9. CASE HandlerStartsWorker
    <2>1. cursor \in Fds /\ selector_set_interest(cursor, "noop") /\ Touch(cursor)
        BY <1>9 DEF HandlerStartsWorker, TypeOK, InHandler
    <2>2. \A g \in Fds \ {cursor} : items'[g] = items[g]
        BY <2>1 DEF selector_set_interest, table, TypeOK
    <2>3. InHandler /\ UNCHANGED <<loop, at>>
        BY <1>9 DEF HandlerStartsWorker, InHandler
    <2> QED BY <2>1, <2>2, <2>3, DueAfterHandler
<1>10. CASE HandlerReturns
    <2>1. UNCHANGED <<items, slave, last, due>>
        BY <1>10 DEF HandlerReturns, table, history
    <2>2. CASE at = "reading"
        BY <2>1, <2>2, <1>10 DEF HandlerReturns, DueAhead
    <2>3. CASE at = "writing"
        <3>1. at' = "read" /\ cursor' = cursor + 1 /\ cursor \in Nat
            BY <1>10, <2>3 DEF HandlerReturns, TypeOK
        <3>2. \A fd \in Fds, k \in {"read", "write"} :
                  <<fd, k>> \in due => cursor + 1 <= fd
            <4>1. ASSUME NEW fd \in Fds, NEW k \in {"read", "write"}, <<fd, k>> \in due
                  PROVE  cursor + 1 <= fd
                <5>1. cursor < fd
                    BY <4>1, <2>3 DEF DueAhead
                <5>2. fd \in Nat
                    BY <1>0
                <5> QED BY <5>1, <5>2, <3>1
            <4> QED BY <4>1
        <3> QED BY <2>1, <2>3, <3>1, <3>2 DEF DueAhead
    <2>4. CASE at = "blocking"
        BY <2>1, <2>4 DEF DueAhead
    <2> QED BY <2>2, <2>3, <2>4, <1>10 DEF HandlerReturns
<1>11. CASE Workers
    BY <1>11 DEF Workers, NotifyQueues, NotifySignals, DueAhead, table, loop, history
<1>12. CASE UNCHANGED vars
    BY <1>12 DEF vars, DueAhead, table, loop, history
<1> QED
    BY <1>1, <1>2, <1>3, <1>4, <1>5, <1>6, <1>7, <1>8, <1>9, <1>10, <1>11, <1>12
       DEF Next, Loop, Handlers

\* No event select reported is left out by the iteration over the table.
THEOREM EventsAreTaken == Spec => []EveryEventIsTaken
<1>1. Init => DueAhead
    BY DEF Init, DueAhead
<1>2. TableInv /\ DueAhead /\ [Next]_vars => DueAhead'
    BY DueAheadStep DEF TableInv
<1>3. TableInv /\ DueAhead => EveryEventIsTaken
    <2> SUFFICES ASSUME TableInv, DueAhead, at \in {"select", "lock", "block", "blocking"}
                 PROVE  due = {}
        BY DEF EveryEventIsTaken
    <2>1. \A fd \in Fds, k \in {"read", "write"} : <<fd, k>> \notin due
        BY DEF DueAhead
    <2>2. due \subseteq Fds \X {"read", "write"}
        BY DEF TableInv, TypeOK
    <2>3. ASSUME NEW e \in due PROVE FALSE
        <3>1. e \in Fds \X {"read", "write"}
            BY <2>2
        <3>2. PICK fd \in Fds, k \in {"read", "write"} : e = <<fd, k>>
            BY <3>1
        <3> QED BY <2>1, <3>2
    <2> QED BY <2>3
<1> QED
    BY <1>1, <1>2, <1>3, TableIsConsistent, PTL DEF Spec

-----------------------------------------------------------------------------
(* No finished job is dropped. *)

\* the jobs the loop has still to handle
Queue == IF MutexHeld THEN todo ELSE jobs

Distinct(s) == \A i, j \in DOMAIN s : s[i] = s[j] => i = j

\* A descriptor has one job at a time: what resolves has not been notified.
JobsInv ==
    /\ NoJobLost
    /\ Distinct(Queue)
    /\ \A fd \in Fds : worker[fd] = "resolving" => fd \notin awaiting

\* A new head adds its element.
LEMMA PushedElements ==
    ASSUME NEW s \in Seq(Fds), NEW fd \in Fds, Distinct(s), fd \notin Elements(s)
    PROVE  /\ Elements(<<fd>> \o s) = Elements(s) \cup {fd}
           /\ Distinct(<<fd>> \o s)
<1> DEFINE t == <<fd>> \o s
<1>1. /\ Len(t) = Len(s) + 1 /\ t[1] = fd
      /\ \A i \in 1 .. Len(s) : t[i + 1] = s[i]
      /\ DOMAIN t = 1 .. Len(s) + 1 /\ DOMAIN s = 1 .. Len(s) /\ Len(s) \in Nat
    OBVIOUS
<1> HIDE DEF t
<1>2. \A i \in 2 .. Len(s) + 1 : i - 1 \in 1 .. Len(s) /\ t[i] = s[i - 1]
    <2>1. ASSUME NEW i \in 2 .. Len(s) + 1 PROVE i - 1 \in 1 .. Len(s) /\ t[i] = s[i - 1]
        <3>1. i - 1 \in 1 .. Len(s) /\ (i - 1) + 1 = i
            BY <1>1
        <3> QED BY <3>1, <1>1
    <2> QED BY <2>1
<1>3. Elements(t) = Elements(s) \cup {fd}
    <2>1. ASSUME NEW i \in DOMAIN t PROVE t[i] \in Elements(s) \cup {fd}
        <3>1. i = 1 \/ i \in 2 .. Len(s) + 1
            BY <1>1
        <3> QED BY <3>1, <1>1, <1>2 DEF Elements
    <2>2. ASSUME NEW i \in DOMAIN s PROVE s[i] \in Elements(t)
        <3>1. i + 1 \in DOMAIN t /\ t[i + 1] = s[i]
            BY <1>1
        <3> QED BY <3>1 DEF Elements
    <2>3. fd \in Elements(t)
        <3>1. 1 \in DOMAIN t
            BY <1>1
        <3> QED BY <3>1, <1>1 DEF Elements
    <2> QED BY <2>1, <2>2, <2>3 DEF Elements
<1>4. ASSUME NEW i \in DOMAIN t, NEW j \in DOMAIN t, t[i] = t[j] PROVE i = j
    <2>1. (i = 1 \/ i \in 2 .. Len(s) + 1) /\ (j = 1 \/ j \in 2 .. Len(s) + 1)
        BY <1>1
    <2>2. \A k \in 2 .. Len(s) + 1 : t[k] # fd
        BY <1>1, <1>2 DEF Elements
    <2>3. CASE i = 1 \/ j = 1
        BY <2>1, <2>2, <2>3, <1>1, <1>4
    <2>4. CASE i \in 2 .. Len(s) + 1 /\ j \in 2 .. Len(s) + 1
        <3>1. s[i - 1] = s[j - 1] /\ i - 1 \in DOMAIN s /\ j - 1 \in DOMAIN s
            BY <1>1, <1>2, <1>4, <2>4
        <3>2. i - 1 = j - 1
            BY <3>1 DEF Distinct
        <3> QED BY <3>2, <2>4
    <2> QED BY <2>1, <2>3, <2>4
<1> QED
    BY <1>3, <1>4 DEF Distinct, t

\* Taking the head removes its element, when no other equals it.
LEMMA PoppedElements ==
    ASSUME NEW s \in Seq(Fds), s # <<>>, Distinct(s)
    PROVE  /\ Head(s) \in Elements(s)
           /\ Elements(Tail(s)) = Elements(s) \ {Head(s)}
           /\ Distinct(Tail(s))
<1> DEFINE t == Tail(s)
<1>1. /\ Len(s) \in Nat \ {0} /\ DOMAIN s = 1 .. Len(s) /\ Head(s) = s[1]
      /\ DOMAIN t = 1 .. Len(s) - 1
      /\ \A i \in 1 .. Len(s) - 1 : t[i] = s[i + 1]
    OBVIOUS
<1> HIDE DEF t
<1>2. \A i \in 1 .. Len(s) - 1 : i + 1 \in DOMAIN s /\ i + 1 # 1
    BY <1>1
<1>3. \A i \in DOMAIN s : i = 1 \/ (i - 1 \in DOMAIN t /\ t[i - 1] = s[i])
    <2>1. ASSUME NEW i \in DOMAIN s, i # 1 PROVE i - 1 \in DOMAIN t /\ t[i - 1] = s[i]
        <3>1. i - 1 \in 1 .. Len(s) - 1 /\ (i - 1) + 1 = i
            BY <1>1, <2>1
        <3> QED BY <3>1, <1>1
    <2> QED BY <2>1
<1>4. 1 \in DOMAIN s
    BY <1>1
<1>5. Head(s) \in Elements(s)
    BY <1>1, <1>4 DEF Elements
<1>6. Elements(t) = Elements(s) \ {Head(s)}
    <2>1. ASSUME NEW i \in DOMAIN t PROVE t[i] \in Elements(s) \ {Head(s)}
        <3>1. t[i] = s[i + 1] /\ i + 1 \in DOMAIN s /\ i + 1 # 1
            BY <1>1, <1>2
        <3>2. s[i + 1] # s[1]
            BY <3>1, <1>4 DEF Distinct
        <3> QED BY <3>1, <3>2, <1>1 DEF Elements
    <2>2. ASSUME NEW i \in DOMAIN s, s[i] # Head(s) PROVE s[i] \in Elements(t)
        <3>1. i - 1 \in DOMAIN t /\ t[i - 1] = s[i]
            BY <1>1, <1>3, <2>2
        <3> QED BY <3>1 DEF Elements
    <2> QED BY <2>1, <2>2 DEF Elements
<1>7. ASSUME NEW i \in DOMAIN t, NEW j \in DOMAIN t, t[i] = t[j] PROVE i = j
    <2>1. s[i + 1] = s[j + 1] /\ i + 1 \in DOMAIN s /\ j + 1 \in DOMAIN s
        BY <1>1, <1>2, <1>7
    <2>2. i + 1 = j + 1
        BY <2>1 DEF Distinct
    <2>3. i \in Nat /\ j \in Nat
        BY <1>1
    <2> QED BY <2>2, <2>3
<1> QED
    BY <1>5, <1>6, <1>7 DEF Distinct, t

\* Every step keeps the jobs: the mutex keeps the list from growing while it is
\* gone through and emptied.
LEMMA JobsInvStep ==
    ASSUME TypeOK, JobsInv, [Next]_vars
    PROVE  JobsInv'
<1>1. CASE UNCHANGED <<jobs, todo, worker, awaiting, MutexHeld>>
    BY <1>1 DEF JobsInv, NoJobLost, Queue, Distinct, Elements
<1>2. CASE TakeJobs
    <2>1. ~MutexHeld /\ MutexHeld' /\ todo' = jobs /\ UNCHANGED <<worker, awaiting>>
        BY <1>2 DEF TakeJobs, MutexHeld, history
    <2> QED BY <2>1 DEF JobsInv, NoJobLost, Queue, Distinct, Elements
<1>3. CASE HandleJob
    <2>1. /\ MutexHeld /\ MutexHeld' /\ todo # <<>> /\ todo' = Tail(todo)
          /\ awaiting' = awaiting \ {Head(todo)} /\ UNCHANGED worker
        BY <1>3 DEF HandleJob, MutexHeld
    <2>2. Distinct(todo) /\ awaiting = Elements(todo)
        BY <2>1 DEF JobsInv, NoJobLost, Queue
    <2>3. Elements(todo') = Elements(todo) \ {Head(todo)} /\ Distinct(todo')
        BY <2>1, <2>2, PoppedElements DEF TypeOK
    <2>4. NoJobLost'
        BY <2>1, <2>2, <2>3 DEF NoJobLost
    <2>5. Distinct(Queue)'
        BY <2>1, <2>3 DEF Queue, Distinct
    <2>6. \A fd \in Fds : worker'[fd] = "resolving" => fd \notin awaiting'
        BY <2>1 DEF JobsInv
    <2> QED BY <2>4, <2>5, <2>6 DEF JobsInv
<1>4. CASE JobsDone
    <2>1. /\ MutexHeld /\ ~MutexHeld' /\ todo = <<>> /\ jobs' = <<>>
          /\ UNCHANGED <<worker, awaiting>>
        BY <1>4 DEF JobsDone, MutexHeld, history
    <2>2. awaiting = {}
        BY <2>1 DEF JobsInv, NoJobLost, Elements
    <2>3. NoJobLost'
        BY <2>1, <2>2 DEF NoJobLost, Elements
    <2>4. Distinct(Queue)'
        BY <2>1 DEF Queue, Distinct
    <2> QED BY <2>1, <2>3, <2>4 DEF JobsInv
<1>5. CASE HandlerStartsWorker
    <2>1. /\ cursor \notin awaiting
          /\ worker' = [worker EXCEPT ![cursor] = "resolving"]
          /\ UNCHANGED <<jobs, todo, at, awaiting>>
        BY <1>5 DEF HandlerStartsWorker, Resolving, loop
    <2>2. \A fd \in Fds : worker'[fd] = "resolving" => fd \notin awaiting'
        BY <2>1 DEF JobsInv, TypeOK
    <2>3. UNCHANGED MutexHeld
        BY <2>1 DEF MutexHeld
    <2> QED BY <2>1, <2>2, <2>3 DEF JobsInv, NoJobLost, Queue, Distinct, Elements
<1>6. ASSUME NEW fd \in Fds, NotifyQueues(fd) PROVE JobsInv'
    <2>1. /\ ~MutexHeld /\ ~MutexHeld' /\ worker[fd] = "resolving"
          /\ jobs' = <<fd>> \o jobs /\ awaiting' = awaiting \cup {fd}
          /\ worker' = [worker EXCEPT ![fd] = "signalling"]
        BY <1>6 DEF NotifyQueues, MutexHeld
    <2>2. fd \notin awaiting /\ awaiting = Elements(jobs) /\ Distinct(jobs)
        BY <2>1 DEF JobsInv, NoJobLost, Queue
    <2>3. Elements(jobs') = Elements(jobs) \cup {fd} /\ Distinct(jobs')
        BY <2>1, <2>2, PushedElements DEF TypeOK
    <2>4. NoJobLost'
        BY <2>1, <2>2, <2>3 DEF NoJobLost
    <2>5. Distinct(Queue)'
        BY <2>1, <2>3 DEF Queue, Distinct
    <2>6. \A g \in Fds : worker'[g] = "resolving" => g \notin awaiting'
        BY <2>1 DEF JobsInv, TypeOK
    <2> QED BY <2>4, <2>5, <2>6 DEF JobsInv
<1>7. ASSUME NEW fd \in Fds, NotifySignals(fd) PROVE JobsInv'
    <2>1. /\ worker' = [worker EXCEPT ![fd] = "none"]
          /\ UNCHANGED <<jobs, todo, at, awaiting>>
        BY <1>7 DEF NotifySignals, loop, history
    <2>2. \A g \in Fds : worker'[g] = "resolving" => g \notin awaiting'
        BY <2>1 DEF JobsInv, TypeOK
    <2>3. UNCHANGED MutexHeld
        BY <2>1 DEF MutexHeld
    <2> QED BY <2>1, <2>2, <2>3 DEF JobsInv, NoJobLost, Queue, Distinct, Elements
<1>8. CASE PselectReturns \/ PselectInterrupted \/ TestRead \/ TestWrite
    <2>1. UNCHANGED <<jobs, todo, worker, awaiting>>
        BY <1>8 DEF PselectReturns, PselectInterrupted, TestRead, TestWrite, loop, history
    <2>2. at \notin {"block", "blocking"} /\ at' \notin {"block", "blocking"}
        BY <1>8 DEF PselectReturns, PselectInterrupted, TestRead, IterationEnds, TestWrite
    <2>3. MutexHeld' = MutexHeld
        BY <2>2 DEF MutexHeld
    <2> QED BY <2>1, <2>3, <1>1
<1>9. CASE HandlerRegisters \/ HandlerUnregisters \/ HandlerSetsInterest
    BY <1>9, <1>1 DEF HandlerRegisters, HandlerUnregisters, HandlerSetsInterest, MutexHeld, loop
<1>10. CASE HandlerReturns
    <2>1. UNCHANGED <<jobs, todo, worker, awaiting>>
        BY <1>10 DEF HandlerReturns, history
    <2>2. MutexHeld' = MutexHeld
        BY <1>10 DEF HandlerReturns, MutexHeld
    <2> QED BY <2>1, <2>2, <1>1
<1>11. CASE UNCHANGED vars
    BY <1>11, <1>1 DEF vars, MutexHeld, loop, history
<1> QED
    BY <1>2, <1>3, <1>4, <1>5, <1>6, <1>7, <1>8, <1>9, <1>10, <1>11
       DEF Next, Loop, Handlers, Workers

\* A job that was notified stays in the list until its handler is called, for any
\* number of descriptors and threads.
THEOREM JobsAreKept == Spec => []NoJobLost
<1>1. Init => JobsInv
    BY DEF Init, JobsInv, NoJobLost, Queue, Distinct, Elements, MutexHeld
<1>2. TypeOK /\ JobsInv /\ [Next]_vars => JobsInv'
    BY JobsInvStep
<1>3. JobsInv => NoJobLost
    BY DEF JobsInv
<1> QED
    BY <1>1, <1>2, <1>3, TypeCorrect, PTL DEF Spec
=============================================================================
