------------------------- MODULE WatcherProperties --------------------------
(***************************************************************************)
(* What the event loop promises, stated over Watcher.                      *)
(***************************************************************************)
EXTENDS Watcher

Names(event, d) == ~event.access /\ d \in event.paths

\* The channel holds an event that names a list.
Announced(d) == \E n \in 1..Len(queue) : Names(queue[n], d)

Ended == pc \in {"stopped", "failed"}

\* The variables range over the values the code gives them.
TypeOK ==
    /\ queue \in Seq(Events)
    /\ Len(queue) <= MaxQueue
    /\ alive \in BOOLEAN
    /\ stopping \in BOOLEAN
    /\ status \in [Pairs -> Statuses]
    /\ pc \in {"top", "receive", "due", "reload", "serve", "stopped", "failed"}
    /\ pending \in [Directions -> 0..ConfigDebounce \cup {None}]
    /\ reconcileIn \in 0..ConfigReconcile
    /\ elapsed \in 0..ConfigReconcile
    /\ due \subseteq Directions
    /\ job \in Seq(Pairs)
    /\ reconciling \in BOOLEAN

\* README.md:10-11 and daemon.rs:431-437: a change is never forgotten while the
\* watcher thread lives (watch fails once it has ended).  A backend that holds
\* an older list than the file has an event of it in the channel, a deadline, or
\* its turn in the reload under way, also when the file changes between the
\* reads of two backends or the other backend fails.
NoLostUpdate ==
    \A p \in Pairs :
        alive /\ status[p] = "old"
            => \/ Announced(p[2])
               \/ pending[p[2]] # None
               \/ \E n \in 1..Len(job) : job[n] = p

\* daemon.rs:430-437: once the events of one list cease, its backends take it
\* over (or reject it), however many events of other files keep coming.
ServedWhenQuiet ==
    \A p \in Pairs :
        <>[]~Announced(p[2]) => <>[](status[p] # "old") \/ <>Ended

\* daemon.rs:445-455: until the loop ends, the reconciliation itself takes place
\* again and again, however many events keep coming, whichever reloads fail and
\* however long they take.
ReconcilesForever == []<><<Reconcile>>_vars \/ <>Ended

\* daemon.rs:415: a signal ends the loop, however many events keep coming.
StopsPromptly == stopping ~> Ended

\* daemon.rs:585: reads raise access events, the loop's own reads among them.
\* When everyone else is silent the reloads cease.
Quiescent == <>[][Loop \/ Tick]_vars => <>[](pc # "serve")
=============================================================================
