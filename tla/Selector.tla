------------------------------ MODULE Selector ------------------------------
(***************************************************************************)
(* selector.c: the table of descriptors, the select loop that calls their  *)
(* handlers, and the list through which resolver threads hand a finished   *)
(* job back to the loop.                                                   *)
(*                                                                         *)
(* A handler is any program that uses the selector: while one runs, the    *)
(* Handler* actions may change the table any number of times.  Descriptors *)
(* are the numbers the kernel gives out; one is open exactly while it is   *)
(* registered, because the close handlers close it.                        *)
(***************************************************************************)
EXTENDS Integers, Sequences

CONSTANTS
    ITEMS_MAX_SIZE,     \* FD_SETSIZE: descriptors are below it
    InitialElements     \* the argument of selector_new, 1024 in main.c

ASSUME SizeAssumption == ITEMS_MAX_SIZE \in Nat \ {0} /\ InitialElements \in Nat

Fds == 0 .. ITEMS_MAX_SIZE - 1

VARIABLES
    items,      \* the interest of each item, or "unused"
    max_fd,
    master,     \* master_r and master_w
    slave,      \* slave_r and slave_w
    jobs,       \* resolution_jobs, the latest first
    at,         \* where the main thread is
    cursor,     \* i of handle_iteration, the fd of the job while it is handled
    last,       \* n of handle_iteration
    todo,       \* the jobs handle_block_notifications has not come to
    worker,     \* the thread that resolves for a descriptor
    signalled,  \* the signal that wakes pselect is pending
    due,        \* history: events of this iteration nobody took or withdrew
    awaiting    \* history: descriptors whose job is notified and not handled

table == <<items, max_fd, master>>
loop == <<slave, cursor, last, todo>>
history == <<due, awaiting>>
vars == <<table, loop, jobs, at, worker, signalled, history>>

Interests == {"noop", "read", "write"}
Unused == "unused"
Sets == [r: SUBSET Fds, w: SUBSET Fds]

\* "busy": the main thread holds resolution_mutex
Places == {"select", "read", "reading", "write", "writing", "lock", "block", "blocking"}
WorkerStates == {"none", "resolving", "signalling"}
MutexHeld == at \in {"block", "blocking"}

used(t) == {fd \in Fds : t[fd] # Unused}

-----------------------------------------------------------------------------
(* The table. *)

\* the smallest power of two above n, cut to the platform's limit, and one more
next_capacity(n) ==
    LET Powers == {p \in 1 .. 2 * n + 1 : \E b \in 0 .. n : p = 2 ^ b}
        tmp == CHOOSE p \in Powers : p > n /\ \A q \in Powers : q > n => p <= q
    IN  (IF tmp > ITEMS_MAX_SIZE THEN ITEMS_MAX_SIZE ELSE tmp) + 1

\* What selector_new(1024) allocates has an item for every descriptor, so that
\* selector_register never has to grow the table.
ASSUME EveryFdHasAnItem == Fds \subseteq 0 .. next_capacity(InitialElements) - 1

\* Mutant of items_max_fd: -1 for an empty table
items_max_fdNone(t, m) ==
    LET scanned == {fd \in used(t) : fd <= m}
    IN  IF scanned = {} THEN -1 ELSE CHOOSE f \in scanned : \A g \in scanned : g <= f

\* Mutant of items_max_fd: the last item is not looked at
items_max_fdShort(t, m) ==
    LET scanned == {fd \in used(t) : fd < m}
    IN  IF scanned = {} THEN 0 ELSE CHOOSE f \in scanned : \A g \in scanned : g <= f

items_max_fd(t, m) ==
    LET scanned == {fd \in used(t) : fd <= m}
    IN  IF scanned = {} THEN 0 ELSE CHOOSE f \in scanned : \A g \in scanned : g <= f

\* Mutant of items_update_fdset_for_fd: an interest that is gone stays in the set
items_update_fdset_for_fdAdds(s, fd, i) ==
    [r |-> IF i = "read" THEN s.r \cup {fd} ELSE s.r,
     w |-> IF i = "write" THEN s.w \cup {fd} ELSE s.w]

items_update_fdset_for_fd(s, fd, i) ==
    [r |-> IF i = "read" THEN s.r \cup {fd} ELSE s.r \ {fd},
     w |-> IF i = "write" THEN s.w \cup {fd} ELSE s.w \ {fd}]

\* SELECTOR_FDINUSE leaves everything as it is
selector_register(fd, i) ==
    IF items[fd] # Unused THEN UNCHANGED table
    ELSE /\ items' = [items EXCEPT ![fd] = i]
         /\ max_fd' = IF fd > max_fd THEN fd ELSE max_fd
         /\ master' = items_update_fdset_for_fd(master, fd, i)

selector_unregister_fd(fd) ==
    IF items[fd] = Unused THEN UNCHANGED table
    ELSE /\ items' = [items EXCEPT ![fd] = Unused]
         /\ max_fd' = items_max_fd(items', max_fd)
         /\ master' = items_update_fdset_for_fd(master, fd, "noop")

selector_set_interest(fd, i) ==
    IF items[fd] = Unused THEN UNCHANGED table
    ELSE /\ items' = [items EXCEPT ![fd] = i]
         /\ master' = items_update_fdset_for_fd(master, fd, i)
         /\ UNCHANGED max_fd

-----------------------------------------------------------------------------
(* selector_select.  "read" and "write" are the two tests handle_iteration *)
(* makes of item i, "reading" and "writing" the calls.                     *)

\* pselect looks at the descriptors up to max_fd.  It returns when some are
\* ready or the ten seconds are over; the signal may have been taken too.
PselectReturns ==
    /\ at = "select"
    /\ \E rs \in SUBSET {fd \in master.r : fd <= max_fd},
          ws \in SUBSET {fd \in master.w : fd <= max_fd} :
        /\ slave' = [r |-> rs, w |-> ws]
        /\ due' = (rs \X {"read"}) \cup (ws \X {"write"})
    /\ signalled' \in {signalled, FALSE}
    /\ at' = "read" /\ cursor' = 0 /\ last' = max_fd
    /\ UNCHANGED <<table, jobs, todo, worker, awaiting>>

\* EINTR: no descriptor is served, the notifications are
PselectInterrupted ==
    /\ at = "select" /\ signalled
    /\ signalled' = FALSE
    /\ at' = "lock"
    /\ UNCHANGED <<table, loop, jobs, worker, history>>

\* item i is used, was reported, and is still watched for what was reported
Serves(fd, kind, reported) == fd \in reported /\ items[fd] = kind

\* handle_iteration returns: its variables are gone, the slave sets are not used
\* again before they are copied anew
IterationEnds ==
    /\ at' = "lock"
    /\ slave' = [r |-> {}, w |-> {}] /\ cursor' = 0 /\ last' = 0
    /\ UNCHANGED due

\* Mutant of TestRead: the loop stops before the item of the largest descriptor
TestReadShort ==
    /\ at = "read"
    /\ \/ cursor >= last /\ IterationEnds
       \/ /\ cursor < last
          /\ IF Serves(cursor, "read", slave.r)
             THEN at' = "reading" /\ due' = due \ {<<cursor, "read">>}
             ELSE at' = "write" /\ UNCHANGED due
          /\ UNCHANGED <<slave, cursor, last>>
    /\ UNCHANGED <<table, todo, jobs, worker, signalled, awaiting>>

TestRead ==
    /\ at = "read"
    /\ \/ cursor > last /\ IterationEnds
       \/ /\ cursor <= last
          /\ IF Serves(cursor, "read", slave.r)
             THEN at' = "reading" /\ due' = due \ {<<cursor, "read">>}
             ELSE at' = "write" /\ UNCHANGED due
          /\ UNCHANGED <<slave, cursor, last>>
    /\ UNCHANGED <<table, todo, jobs, worker, signalled, awaiting>>

TestWrite ==
    /\ at = "write"
    /\ IF Serves(cursor, "write", slave.w)
       THEN at' = "writing" /\ due' = due \ {<<cursor, "write">>} /\ UNCHANGED cursor
       ELSE at' = "read" /\ cursor' = cursor + 1 /\ UNCHANGED due
    /\ UNCHANGED <<table, jobs, slave, last, todo, worker, signalled, awaiting>>

\* pthread_mutex_lock of handle_block_notifications
TakeJobs ==
    /\ at = "lock"
    /\ at' = "block" /\ todo' = jobs
    /\ UNCHANGED <<table, slave, cursor, last, jobs, worker, signalled, history>>

\* a job of an item that is not used any more is dropped
HandleJob ==
    /\ at = "block" /\ todo # <<>>
    /\ todo' = Tail(todo)
    /\ IF items[Head(todo)] # Unused
       THEN at' = "blocking" /\ cursor' = Head(todo)
       ELSE at' = "block" /\ cursor' = 0
    /\ awaiting' = awaiting \ {Head(todo)}
    /\ UNCHANGED <<table, slave, last, jobs, worker, signalled, due>>

\* the list is emptied and the mutex released
JobsDone ==
    /\ at = "block" /\ todo = <<>>
    /\ jobs' = <<>>
    /\ at' = "select"
    /\ UNCHANGED <<table, loop, worker, signalled, history>>

Loop ==
    \/ PselectReturns
    \/ PselectInterrupted
    \/ TestRead
    \/ TestWrite
    \/ TakeJobs
    \/ HandleJob
    \/ JobsDone

-----------------------------------------------------------------------------
(* The handlers. *)

InHandler == at \in {"reading", "writing", "blocking"}

\* a resolver thread works for the descriptor: its handlers do not run, and
\* nobody else closes it
Resolving(fd) == worker[fd] = "resolving" \/ fd \in awaiting

\* what a handler did to fd withdraws the events reported of it
Touch(fd) == due' = due \ ({fd} \X {"read", "write"})

HandlerRegisters ==
    /\ InHandler
    /\ \E fd \in Fds \ used(items), i \in Interests :
            selector_register(fd, i) /\ Touch(fd)
    /\ UNCHANGED <<loop, jobs, at, worker, signalled, awaiting>>

HandlerUnregisters ==
    /\ InHandler
    /\ \E fd \in used(items) :
            ~Resolving(fd) /\ selector_unregister_fd(fd) /\ Touch(fd)
    /\ UNCHANGED <<loop, jobs, at, worker, signalled, awaiting>>

\* also of a descriptor that is not registered any more
HandlerSetsInterest ==
    /\ InHandler
    /\ \E fd \in Fds, i \in Interests :
            ~Resolving(fd) /\ selector_set_interest(fd, i) /\ Touch(fd)
    /\ UNCHANGED <<loop, jobs, at, worker, signalled, awaiting>>

\* the read handler of a client starts a resolver and waits for it
HandlerStartsWorker ==
    /\ at = "reading" /\ items[cursor] # Unused
    /\ worker[cursor] = "none" /\ ~Resolving(cursor)
    /\ worker' = [worker EXCEPT ![cursor] = "resolving"]
    /\ selector_set_interest(cursor, "noop") /\ Touch(cursor)
    /\ UNCHANGED <<loop, jobs, at, signalled, awaiting>>

HandlerReturns ==
    /\ \/ at = "reading" /\ at' = "write" /\ UNCHANGED cursor
       \/ at = "writing" /\ at' = "read" /\ cursor' = cursor + 1
       \/ at = "blocking" /\ at' = "block" /\ cursor' = 0
    /\ UNCHANGED <<table, slave, last, todo, jobs, worker, signalled, history>>

Handlers ==
    \/ HandlerRegisters
    \/ HandlerUnregisters
    \/ HandlerSetsInterest
    \/ HandlerStartsWorker
    \/ HandlerReturns

-----------------------------------------------------------------------------
(* The resolver threads call selector_notify_block. *)

\* Mutant of NotifyQueues: the list is changed without the mutex
NotifyQueuesUnlocked(fd) ==
    /\ worker[fd] = "resolving"
    /\ jobs' = <<fd>> \o jobs
    /\ awaiting' = awaiting \cup {fd}
    /\ worker' = [worker EXCEPT ![fd] = "signalling"]
    /\ UNCHANGED <<table, loop, at, signalled, due>>

\* Mutant of NotifyQueues: the selector's thread is not signalled
NotifyQueuesOnly(fd) ==
    /\ worker[fd] = "resolving"
    /\ ~MutexHeld
    /\ jobs' = <<fd>> \o jobs
    /\ awaiting' = awaiting \cup {fd}
    /\ worker' = [worker EXCEPT ![fd] = "none"]
    /\ UNCHANGED <<table, loop, at, signalled, due>>

NotifyQueues(fd) ==
    /\ worker[fd] = "resolving"
    /\ ~MutexHeld
    /\ jobs' = <<fd>> \o jobs
    /\ awaiting' = awaiting \cup {fd}
    /\ worker' = [worker EXCEPT ![fd] = "signalling"]
    /\ UNCHANGED <<table, loop, at, signalled, due>>

\* pthread_kill(selector_thread)
NotifySignals(fd) ==
    /\ worker[fd] = "signalling"
    /\ signalled' = TRUE
    /\ worker' = [worker EXCEPT ![fd] = "none"]
    /\ UNCHANGED <<table, loop, jobs, at, history>>

Workers == \E fd \in Fds : NotifyQueues(fd) \/ NotifySignals(fd)

-----------------------------------------------------------------------------
\* main registers the passive sockets before the first select; one stands
\* for both
Init ==
    /\ items = [fd \in Fds |-> IF fd = 0 THEN "read" ELSE Unused]
    /\ max_fd = 0
    /\ master = [r |-> {0}, w |-> {}] /\ slave = [r |-> {}, w |-> {}]
    /\ jobs = <<>> /\ todo = <<>>
    /\ at = "select" /\ cursor = 0 /\ last = 0
    /\ worker = [fd \in Fds |-> "none"]
    /\ signalled = FALSE
    /\ due = {} /\ awaiting = {}

Next == Loop \/ Handlers \/ Workers

Spec == Init /\ [][Next]_vars

\* The main thread never stops: pselect has a timeout, a handler runs to its
\* end, and the mutex is not held for ever.
Fairness ==
    /\ WF_vars(Loop)
    /\ WF_vars(HandlerReturns)

FairSpec == Spec /\ Fairness

-----------------------------------------------------------------------------
(* Properties. *)

\* Every variable has its type.
TypeOK ==
    /\ items \in [Fds -> Interests \cup {Unused}]
    /\ max_fd \in Fds
    /\ master \in Sets /\ slave \in Sets
    /\ jobs \in Seq(Fds) /\ todo \in Seq(Fds)
    /\ at \in Places
    /\ cursor \in Nat /\ last \in Fds /\ (InHandler => cursor \in Fds)
    /\ worker \in [Fds -> WorkerStates]
    /\ signalled \in BOOLEAN
    /\ due \subseteq Fds \X {"read", "write"}
    /\ awaiting \subseteq Fds

\* max_fd is the largest descriptor in use, "max(.fds[].fd)" (selector.c:139),
\* whatever was registered and unregistered: pselect misses none.
MaxFdIsMax ==
    /\ \A fd \in used(items) : fd <= max_fd
    /\ max_fd = 0 \/ max_fd \in used(items)

\* The sets given to pselect are the interests of the items, and a descriptor
\* that is closed is in neither: select never fails with EBADF.
MastersMatch ==
    /\ master.r = {fd \in Fds : items[fd] = "read"}
    /\ master.w = {fd \in Fds : items[fd] = "write"}

\* An iteration takes every event select reported, but for those of descriptors
\* that a handler has closed or re-armed in the meantime.
EveryEventIsTaken == at \in {"select", "lock", "block", "blocking"} => due = {}

Elements(s) == {s[i] : i \in DOMAIN s}

\* A job that was notified and not handled is still to be handled: none is
\* dropped with the list it was appended to.
NoJobLost == awaiting = Elements(IF MutexHeld THEN todo ELSE jobs)

\* The loop does not go to sleep on a job: when it selects with a job in the
\* list, the signal is pending or its thread is about to send it.
NoLostWakeup ==
    at = "select" /\ jobs # <<>> =>
        signalled \/ \E fd \in Fds : worker[fd] = "signalling"

\* Every resolution that was notified reaches its handler.
NotifiedIsHandled == \A fd \in Fds : fd \in awaiting ~> fd \notin awaiting
=============================================================================
