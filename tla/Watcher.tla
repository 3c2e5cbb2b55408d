------------------------------ MODULE Watcher -------------------------------
(***************************************************************************)
(* The event loop of src/src/daemon.rs (watch, classify_event,             *)
(* reload_backends, reconcile): the watcher thread's channel, the debounce *)
(* deadlines, reconciliation and the stop flag, against files and a file   *)
(* system that never fall silent.  What a reload does inside a backend is  *)
(* NftDaemon's and Xdp's; here it serves the file as it is, or fails.      *)
(*                                                                         *)
(* Time is counted in ticks, and a deadline is the time that is left, so   *)
(* that it may go on for ever.                                             *)
(***************************************************************************)
EXTENDS Naturals, Sequences

CONSTANTS
    Directions,
    NftRules,       \* directions that nftables rules reference
    XdpRules,       \* directions that XDP rules reference
    ConfigDebounce, \* runtime.debounce_ms and runtime.reconcile_secs in ticks
    ConfigReconcile,
    MaxQueue,       \* bound: events in the channel
    None

\* What a backend holds of a list: the file's content; something older; what it
\* held when it rejected the content; or, by an event that named no list,
\* something older unawares.
Statuses == {"current", "old", "rejected", "unseen"}

MutJob(d) == <<<<"nft", d>>, <<"xdp", d>>>>

\* reload_backends: nftables and then XDP, where a rule references the list.
Job(d) == (IF d \in NftRules THEN <<<<"nft", d>>>> ELSE <<>>)
          \o (IF d \in XdpRules THEN <<<<"xdp", d>>>> ELSE <<>>)

Pairs == ({"nft"} \X NftRules) \cup ({"xdp"} \X XdpRules)

\* A file system event, with the lists its paths name; an error of the watcher
\* is an event that names none.
Events == [access : BOOLEAN, paths : SUBSET Directions]

ASSUME WatcherAssumption ==
    /\ NftRules \subseteq Directions
    /\ XdpRules \subseteq Directions
    /\ ConfigDebounce \in Nat \ {0}
    /\ ConfigReconcile \in Nat \ {0}
    /\ MaxQueue \in Nat \ {0}
    /\ None \notin Nat

VARIABLES
    queue,       \* the channel
    alive,       \* the watcher thread holds its sender
    stopping,    \* the flag that SIGTERM and SIGINT set
    status,      \* Statuses of every pair
    pc,
    pending,     \* time left until a direction is due, None if no event is pending
    reconcileIn, \* time left until next_reconcile
    elapsed,     \* time since `now` was taken, if next_reconcile will need it
    due,         \* due directions still to be reloaded
    job,         \* <<backend, direction>> pairs of the reload under way
    reconciling  \* next_reconcile had passed when `now` was taken

world == <<queue, alive, stopping, status>>
timers == <<pending, reconcileIn, elapsed>>
vars == <<world, pc, timers, due, job, reconciling>>

-----------------------------------------------------------------------------
(* Files and their events                                                  *)

Reports == alive /\ Len(queue) < MaxQueue

Queued(event) == Append(queue, event)

\* The code's channel is unbounded; a file that changes while MaxQueue events
\* wait is left out.  Files change whether or not the thread still reports it.
Room == alive => Len(queue) < MaxQueue
Reported(event) == IF alive THEN Queued(event) ELSE queue

\* Reading a file raises access events, which the watcher reports as well.
Accessed(paths) ==
    IF Reports /\ paths # {} THEN Queued([access |-> TRUE, paths |-> paths]) ELSE queue

Outdated(paths, s) == [p \in Pairs |-> IF p[2] \in paths THEN s ELSE status[p]]

\* A list is written or renamed into place; one event may name two lists.
Change(paths) ==
    /\ Room
    /\ queue' = Reported([access |-> FALSE, paths |-> paths])
    /\ status' = Outdated(paths, "old")
    /\ UNCHANGED <<alive, stopping, pc, timers, due, job, reconciling>>

\* An event without a change of the lists: attributes, readers, other files,
\* errors of the watcher.
Noise(event) ==
    /\ Reports
    /\ queue' = Queued(event)
    /\ UNCHANGED <<alive, stopping, status, pc, timers, due, job, reconciling>>

\* A list changes by an event that does not name it: the file is a symbolic
\* link and its target is exchanged, or the kernel's queue overflowed.
UnseenChange(d) ==
    /\ Room
    /\ queue' = Reported([access |-> FALSE, paths |-> {}])
    /\ status' = Outdated({d}, "unseen")
    /\ UNCHANGED <<alive, stopping, pc, timers, due, job, reconciling>>

WatcherEnds ==
    /\ alive
    /\ alive' = FALSE
    /\ UNCHANGED <<queue, stopping, status, pc, timers, due, job, reconciling>>

Signal ==
    /\ ~stopping
    /\ stopping' = TRUE
    /\ UNCHANGED <<queue, alive, status, pc, timers, due, job, reconciling>>

Passed(left) == IF left \in {None, 0} THEN left ELSE left - 1

Tick ==
    /\ pending' = [d \in Directions |-> Passed(pending[d])]
    /\ reconcileIn' = Passed(reconcileIn)
    /\ elapsed' = IF reconciling /\ elapsed < ConfigReconcile THEN elapsed + 1 ELSE elapsed
    /\ UNCHANGED <<world, pc, due, job, reconciling>>

-----------------------------------------------------------------------------
(* The loop                                                                *)

\* while !stopping
LoopTop ==
    /\ pc = "top"
    /\ pc' = IF stopping THEN "stopped" ELSE "receive"
    /\ UNCHANGED <<world, timers, due, job, reconciling>>

MutClassify(event) == event.paths

\* classify_event
Classify(event) == IF event.access THEN {} ELSE event.paths

\* Every event moves the deadline.
Deadline(d, found) == IF d \in found THEN ConfigDebounce ELSE pending[d]

MutReceived == "receive"

\* One event is taken in every iteration.
Received == "due"

Receive ==
    /\ pc = "receive"
    /\ queue # <<>>
    /\ queue' = Tail(queue)
    /\ pending' = [d \in Directions |-> Deadline(d, Classify(Head(queue)))]
    /\ pc' = Received
    /\ UNCHANGED <<alive, stopping, status, reconcileIn, elapsed, due, job, reconciling>>

\* recv_timeout: nothing for 100 ms, or the sender is gone and watch fails.
ReceiveNothing ==
    /\ pc = "receive"
    /\ queue = <<>>
    /\ pc' = IF alive THEN "due" ELSE "failed"
    /\ UNCHANGED <<world, timers, due, job, reconciling>>

CollectDue ==
    /\ pc = "due"
    /\ due' = {d \in Directions : pending[d] = 0}
    /\ reconciling' = (reconcileIn = 0)
    /\ pc' = "reload"
    /\ UNCHANGED <<world, timers, job>>

\* The event is consumed before its reload; a direction that no rule references
\* is refused by reload_backends.
BeginReload(d) ==
    /\ pc = "reload"
    /\ d \in due
    /\ due' = due \ {d}
    /\ pending' = [pending EXCEPT ![d] = None]
    /\ job' = Job(d)
    /\ pc' = "serve"
    /\ UNCHANGED <<world, reconcileIn, elapsed, reconciling>>

MutRemaining(outcome) == IF outcome = "current" THEN Tail(job) ELSE <<>>

\* An error of one backend is kept for later; the other is served all the same.
Remaining(outcome) == Tail(job)

\* Without an active generation nftables replaces all its lists at once.
ReadWith(p) == IF p[1] = "nft" THEN {{p}, {"nft"} \X NftRules} ELSE {{p}}

\* A backend opens the file and takes over what it holds, or fails.
Serve ==
    /\ pc = "serve"
    /\ job # <<>>
    /\ \E read \in ReadWith(Head(job)), outcome \in {"current", "rejected"} :
         /\ status' = [p \in Pairs |->
                IF p = Head(job) \/ (p \in read /\ outcome = "current")
                THEN outcome ELSE status[p]]
         /\ job' = Remaining(outcome)
         /\ queue' = Accessed({p[2] : p \in read})
    /\ UNCHANGED <<alive, stopping, pc, timers, due, reconciling>>

EndReload ==
    /\ pc = "serve"
    /\ job = <<>>
    /\ pc' = "reload"
    /\ UNCHANGED <<world, timers, due, job, reconciling>>

\* The next reconciliation is due an interval after `now`, which may have passed
\* while this iteration reloaded.
NextReconcile == ConfigReconcile - elapsed

\* nftables may find damage and read a list again; XDP restores links only.
Reconcile ==
    /\ pc = "reload"
    /\ due = {}
    /\ reconciling
    /\ \E damaged \in SUBSET NftRules : \E outcome \in [damaged -> {"current", "rejected"}] :
         /\ status' = [p \in Pairs |->
                IF p[1] = "nft" /\ p[2] \in damaged THEN outcome[p[2]] ELSE status[p]]
         /\ queue' = Accessed(damaged)
    /\ reconciling' = FALSE
    /\ reconcileIn' = NextReconcile
    /\ elapsed' = 0
    /\ pc' = "top"
    /\ UNCHANGED <<alive, stopping, pending, due, job>>

EndIteration ==
    /\ pc = "reload"
    /\ due = {}
    /\ ~reconciling
    /\ pc' = "top"
    /\ UNCHANGED <<world, timers, due, job, reconciling>>

-----------------------------------------------------------------------------

Init ==
    /\ queue = <<>>
    /\ alive = TRUE
    /\ stopping = FALSE
    /\ status = [p \in Pairs |-> "current"]
    /\ pc = "top"
    /\ pending = [d \in Directions |-> None]
    /\ reconcileIn = ConfigReconcile
    /\ elapsed = 0
    /\ due = {}
    /\ job = <<>>
    /\ reconciling = FALSE

Loop ==
    \/ LoopTop
    \/ Receive \/ ReceiveNothing
    \/ CollectDue
    \/ (\E d \in Directions : BeginReload(d)) \/ Serve \/ EndReload
    \/ Reconcile \/ EndIteration

Environment ==
    \/ \E paths \in (SUBSET Directions) \ {{}} : Change(paths)
    \/ \E event \in Events : Noise(event)
    \/ \E d \in Directions : UnseenChange(d)
    \/ WatcherEnds
    \/ Signal

Next == Loop \/ Tick \/ Environment

Spec == Init /\ [][Next]_vars

\* The loop waits at most 100 ms, a reload ends, and time passes.
Fairness == WF_vars(Loop) /\ WF_vars(Tick)

FairSpec == Spec /\ Fairness
=============================================================================
