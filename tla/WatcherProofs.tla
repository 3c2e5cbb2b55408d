---------------------------- MODULE WatcherProofs ---------------------------
(***************************************************************************)
(* Proofs about Watcher: no change of a list is forgotten, whatever the    *)
(* rules, the intervals and the capacity of the channel.                   *)
(***************************************************************************)
EXTENDS WatcherProperties, TLAPS

\* Only a reload under way has backends to serve.
JobOK == pc # "serve" => job = <<>>

IInv == TypeOK /\ JobOK /\ NoLostUpdate

LEMMA NoneIsNoTime == None \notin Nat
  BY WatcherAssumption DEF WatcherAssumption

LEMMA PairTyped ==
    ASSUME NEW p \in Pairs
    PROVE  p[2] \in Directions
  BY WatcherAssumption DEF WatcherAssumption, Pairs

LEMMA JobTyped ==
    ASSUME NEW d \in Directions
    PROVE  Job(d) \in Seq(Pairs)
  BY DEF Job, Pairs

\* A reload has the turn of every backend whose rules reference the list.
LEMMA JobComplete ==
    ASSUME NEW p \in Pairs
    PROVE  \E n \in 1..Len(Job(p[2])) : Job(p[2])[n] = p
<1>1. CASE p \in {"nft"} \X NftRules
  <2>1. Job(p[2])[1] = p /\ Len(Job(p[2])) >= 1
    BY <1>1 DEF Job
  <2> QED
    BY <2>1, <1>1 DEF Job
<1>2. CASE p \in {"xdp"} \X XdpRules
  <2>1. CASE p[2] \in NftRules
    <3>1. Len(Job(p[2])) = 2 /\ Job(p[2])[2] = p
      BY <1>2, <2>1 DEF Job
    <3> QED
      BY <3>1
  <2>2. CASE p[2] \notin NftRules
    <3>1. Len(Job(p[2])) = 1 /\ Job(p[2])[1] = p
      BY <1>2, <2>2 DEF Job
    <3> QED
      BY <3>1
  <2> QED
    BY <2>1, <2>2
<1> QED
  BY <1>1, <1>2 DEF Pairs

\* An event that is appended leaves those before it, and is itself the last.
LEMMA QueuedEvents ==
    ASSUME TypeOK, NEW event \in Events, queue' = Queued(event)
    PROVE  /\ queue' \in Seq(Events)
           /\ Len(queue') = Len(queue) + 1
           /\ \A d : Announced(d) => Announced(d)'
           /\ \A d : Names(event, d) => Announced(d)'
<1>1. queue \in Seq(Events)
  BY DEF TypeOK
<1>2. /\ queue' \in Seq(Events)
      /\ Len(queue') = Len(queue) + 1
      /\ \A n \in 1..Len(queue) : queue'[n] = queue[n]
      /\ queue'[Len(queue) + 1] = event
  BY <1>1 DEF Queued
<1>3. Len(queue) \in Nat
  BY <1>1
<1>4. \A d : Announced(d) => Announced(d)'
  BY <1>2, <1>3 DEF Announced
<1>5. \A d : Names(event, d) => Announced(d)'
  BY <1>2, <1>3 DEF Announced
<1> QED
  BY <1>2, <1>4, <1>5

LEMMA AccessedEvents ==
    ASSUME TypeOK, NEW paths \in SUBSET Directions, queue' = Accessed(paths)
    PROVE  /\ queue' \in Seq(Events)
           /\ Len(queue') <= MaxQueue
           /\ \A d : Announced(d) => Announced(d)'
<1>1. CASE Reports /\ paths # {}
  <2>1. [access |-> TRUE, paths |-> paths] \in Events
    BY DEF Events
  <2>2. queue' = Queued([access |-> TRUE, paths |-> paths])
    BY <1>1 DEF Accessed
  <2>3. Len(queue) \in Nat /\ MaxQueue \in Nat /\ Len(queue) < MaxQueue
    BY <1>1, WatcherAssumption DEF TypeOK, Reports, WatcherAssumption
  <2>4. /\ queue' \in Seq(Events) /\ Len(queue') = Len(queue) + 1
        /\ \A d : Announced(d) => Announced(d)'
    BY <2>1, <2>2, QueuedEvents
  <2> QED
    BY <2>3, <2>4
<1>2. CASE ~(Reports /\ paths # {})
  BY <1>2 DEF Accessed, TypeOK, Announced
<1> QED
  BY <1>1, <1>2

LEMMA InitInv == Init => IInv
<1> SUFFICES ASSUME Init PROVE IInv
  OBVIOUS
<1>1. MaxQueue \in Nat /\ ConfigDebounce \in Nat /\ ConfigReconcile \in Nat
  BY WatcherAssumption DEF WatcherAssumption
<1>2. queue \in Seq(Events) /\ Len(queue) <= MaxQueue /\ job \in Seq(Pairs)
  BY <1>1 DEF Init
<1>3. status \in [Pairs -> Statuses] /\ \A p \in Pairs : status[p] = "current"
  BY DEF Init, Statuses
<1>4. reconcileIn \in 0..ConfigReconcile /\ elapsed \in 0..ConfigReconcile
  BY <1>1 DEF Init
<1> QED
  BY <1>2, <1>3, <1>4 DEF Init, IInv, TypeOK, JobOK, NoLostUpdate

\* Changes and noise.
LEMMA EventInv ==
    ASSUME IInv, Room, NEW event \in Events, queue' = Reported(event),
           NEW paths \in SUBSET Directions, NEW s \in {"old", "unseen"},
           s = "old" => ~event.access /\ event.paths = paths,
           status' = Outdated(paths, s),
           UNCHANGED <<alive, stopping, pc, timers, due, job, reconciling>>
    PROVE  IInv'
<1> USE DEF IInv, timers
<1>1. /\ queue' \in Seq(Events)
      /\ Len(queue') <= MaxQueue
      /\ alive => queue' = Queued(event)
  <2>1. CASE alive
    <3>1. Len(queue) \in Nat /\ MaxQueue \in Nat /\ Len(queue) < MaxQueue
      BY <2>1, WatcherAssumption DEF TypeOK, Room, WatcherAssumption
    <3>2. queue' = Queued(event)
      BY <2>1 DEF Reported
    <3>3. queue' \in Seq(Events) /\ Len(queue') = Len(queue) + 1
      BY <3>2, QueuedEvents
    <3> QED
      BY <3>1, <3>2, <3>3
  <2>2. CASE ~alive
    BY <2>2 DEF Reported, TypeOK
  <2> QED
    BY <2>1, <2>2
<1>2. status' \in [Pairs -> Statuses]
  BY DEF Outdated, TypeOK, Statuses
<1>3. TypeOK'
  BY <1>1, <1>2 DEF TypeOK
<1>4. NoLostUpdate'
  <2> SUFFICES ASSUME NEW p \in Pairs, alive, status'[p] = "old"
               PROVE  \/ Announced(p[2])'
                      \/ pending[p[2]] # None
                      \/ \E n \in 1..Len(job) : job[n] = p
    BY DEF NoLostUpdate
  <2>1. CASE p[2] \in paths
    <3>1. s = "old"
      BY <2>1 DEF Outdated
    <3>2. Names(event, p[2])
      BY <2>1, <3>1 DEF Names
    <3> QED
      BY <1>1, <3>2, QueuedEvents
  <2>2. CASE p[2] \notin paths
    <3>1. status[p] = "old"
      BY <2>2 DEF Outdated
    <3> QED
      BY <1>1, <3>1, QueuedEvents DEF NoLostUpdate
  <2> QED
    BY <2>1, <2>2
<1>5. JobOK'
  BY DEF JobOK
<1> QED
  BY <1>3, <1>4, <1>5

LEMMA EnvironmentInv == IInv /\ Environment => IInv'
<1> SUFFICES ASSUME IInv, Environment PROVE IInv'
  OBVIOUS
<1>1. ASSUME NEW paths \in SUBSET Directions, Change(paths)
      PROVE  IInv'
  <2>1. [access |-> FALSE, paths |-> paths] \in Events
    BY DEF Events
  <2> QED
    BY <1>1, <2>1, EventInv DEF Change
<1>2. ASSUME NEW event \in Events, Noise(event)
      PROVE  IInv'
  <2>1. status' = Outdated({}, "unseen") /\ Room /\ queue' = Reported(event)
    BY <1>2 DEF Noise, Outdated, IInv, TypeOK, Reports, Room, Reported
  <2> QED
    BY <1>2, <2>1, EventInv DEF Noise
<1>3. ASSUME NEW d \in Directions, UnseenChange(d)
      PROVE  IInv'
  <2>1. [access |-> FALSE, paths |-> {}] \in Events
    BY DEF Events
  <2> QED
    BY <1>3, <2>1, EventInv DEF UnseenChange
<1>4. CASE WatcherEnds \/ Signal
  <2>1. /\ UNCHANGED <<queue, status, pc, timers, due, job, reconciling>>
        /\ alive' \in BOOLEAN /\ stopping' \in BOOLEAN
        /\ alive' => alive
    <3>1. CASE WatcherEnds
      BY <3>1 DEF WatcherEnds, IInv, TypeOK
    <3>2. CASE Signal
      BY <3>2 DEF Signal, IInv, TypeOK
    <3> QED
      BY <1>4, <3>1, <3>2
  <2>2. TypeOK' /\ JobOK'
    BY <2>1 DEF IInv, TypeOK, JobOK, timers
  <2>3. NoLostUpdate'
    BY <2>1 DEF IInv, NoLostUpdate, Announced, timers
  <2> QED
    BY <2>2, <2>3 DEF IInv
<1> QED
  BY <1>1, <1>2, <1>3, <1>4 DEF Environment

LEMMA TickInv == IInv /\ Tick => IInv'
<1> SUFFICES ASSUME IInv, Tick PROVE IInv'
  OBVIOUS
<1> USE DEF IInv, Tick, world
<1>1. ConfigDebounce \in Nat /\ ConfigReconcile \in Nat
  BY WatcherAssumption DEF WatcherAssumption
<1>2. ASSUME NEW bound \in Nat, NEW left \in 0..bound
      PROVE  Passed(left) \in 0..bound
  BY NoneIsNoTime DEF Passed
<1>3. pending' \in [Directions -> 0..ConfigDebounce \cup {None}]
  <2> SUFFICES ASSUME NEW d \in Directions
               PROVE  Passed(pending[d]) \in 0..ConfigDebounce \cup {None}
    OBVIOUS
  <2>1. pending[d] \in 0..ConfigDebounce \cup {None}
    BY DEF TypeOK
  <2>2. CASE pending[d] = None
    BY <2>2 DEF Passed
  <2> QED
    BY <1>1, <1>2, <2>1, <2>2
<1>4. reconcileIn' \in 0..ConfigReconcile
  BY <1>1, <1>2 DEF TypeOK
<1>5. elapsed' \in 0..ConfigReconcile
  BY <1>1 DEF TypeOK
<1>6. \A d \in Directions : pending[d] # None => pending'[d] # None
  <2> SUFFICES ASSUME NEW d \in Directions, pending[d] # None
               PROVE  Passed(pending[d]) # None
    OBVIOUS
  <2>1. pending[d] \in 0..ConfigDebounce
    BY DEF TypeOK
  <2>2. Passed(pending[d]) \in Nat
    BY <1>1, <1>2, <2>1
  <2> QED
    BY <2>2, NoneIsNoTime
<1>7. NoLostUpdate'
  BY <1>6, PairTyped DEF NoLostUpdate, Announced
<1> QED
  BY <1>3, <1>4, <1>5, <1>7 DEF TypeOK, JobOK

LEMMA ReceiveInv == IInv /\ Receive => IInv'
<1> SUFFICES ASSUME IInv, Receive PROVE IInv'
  OBVIOUS
<1> USE DEF IInv, Receive
<1>1. /\ queue \in Seq(Events) /\ queue # <<>> /\ queue' = Tail(queue)
      /\ Len(queue) <= MaxQueue /\ MaxQueue \in Nat
  BY WatcherAssumption DEF TypeOK, WatcherAssumption
<1>2. /\ queue' \in Seq(Events)
      /\ Len(queue) \in Nat \ {0}
      /\ Len(queue') = Len(queue) - 1
      /\ \A n \in 1..Len(queue') : queue'[n] = queue[n + 1]
      /\ Head(queue) = queue[1]
  BY <1>1
<1>3. ConfigDebounce \in 0..ConfigDebounce
  BY WatcherAssumption DEF WatcherAssumption
<1>4. pending' \in [Directions -> 0..ConfigDebounce \cup {None}]
  BY <1>3 DEF Deadline, TypeOK
<1>5. ASSUME NEW d \in Directions, Announced(d)
      PROVE  Announced(d)' \/ pending'[d] # None
  <2>1. PICK n \in 1..Len(queue) : Names(queue[n], d)
    BY <1>5 DEF Announced
  <2>2. CASE n = 1
    <3>1. d \in Classify(Head(queue))
      BY <1>2, <2>1, <2>2 DEF Names, Classify
    <3>2. pending'[d] = ConfigDebounce
      BY <3>1 DEF Deadline
    <3> QED
      BY <3>2, NoneIsNoTime, WatcherAssumption DEF WatcherAssumption
  <2>3. CASE n # 1
    <3>1. n - 1 \in 1..Len(queue') /\ queue'[n - 1] = queue[n]
      BY <1>2, <2>3
    <3> QED
      BY <2>1, <3>1 DEF Announced
  <2> QED
    BY <2>2, <2>3
<1>6. \A d \in Directions : pending[d] # None => pending'[d] # None
  BY NoneIsNoTime, WatcherAssumption DEF Deadline, WatcherAssumption
<1>7. NoLostUpdate'
  BY <1>5, <1>6, PairTyped DEF NoLostUpdate
<1>8. TypeOK'
  BY <1>1, <1>2, <1>4 DEF TypeOK, Received
<1>9. JobOK'
  BY DEF JobOK
<1> QED
  BY <1>7, <1>8, <1>9

LEMMA BeginReloadInv == \A d \in Directions : IInv /\ BeginReload(d) => IInv'
<1> SUFFICES ASSUME NEW d \in Directions, IInv, BeginReload(d) PROVE IInv'
  OBVIOUS
<1> USE DEF IInv, BeginReload, world
<1>1. TypeOK'
  BY JobTyped DEF TypeOK
<1>2. job = <<>>
  BY DEF JobOK
<1>3. NoLostUpdate'
  <2> SUFFICES ASSUME NEW p \in Pairs, alive, status[p] = "old"
               PROVE  \/ Announced(p[2])
                      \/ pending'[p[2]] # None
                      \/ \E n \in 1..Len(job') : job'[n] = p
    BY DEF NoLostUpdate, Announced
  <2>1. CASE p[2] = d
    BY <2>1, JobComplete
  <2>2. CASE p[2] # d
    BY <1>2, <2>2, PairTyped DEF NoLostUpdate, TypeOK
  <2> QED
    BY <2>1, <2>2
<1> QED
  BY <1>1, <1>3 DEF JobOK

LEMMA ServeInv == IInv /\ Serve => IInv'
<1> SUFFICES ASSUME IInv, Serve PROVE IInv'
  OBVIOUS
<1> USE DEF IInv, Serve
<1>1. PICK read \in ReadWith(Head(job)), outcome \in {"current", "rejected"} :
        /\ status' = [p \in Pairs |->
               IF p = Head(job) \/ (p \in read /\ outcome = "current")
               THEN outcome ELSE status[p]]
        /\ job' = Tail(job)
        /\ queue' = Accessed({p[2] : p \in read})
  BY DEF Remaining
<1>2. /\ Head(job) \in Pairs /\ Head(job) = job[1]
      /\ job' \in Seq(Pairs)
      /\ Len(job) \in Nat \ {0} /\ Len(job') = Len(job) - 1
      /\ \A n \in 1..Len(job') : job'[n] = job[n + 1]
  BY <1>1 DEF TypeOK
<1>3. /\ queue' \in Seq(Events)
      /\ Len(queue') <= MaxQueue
      /\ \A d : Announced(d) => Announced(d)'
  <2>1. read \subseteq Pairs
    BY <1>2 DEF ReadWith, Pairs
  <2>2. {p[2] : p \in read} \in SUBSET Directions
    BY <2>1, PairTyped
  <2> QED
    BY <1>1, <2>2, AccessedEvents
<1>4. status' \in [Pairs -> Statuses]
  BY <1>1, <1>2 DEF TypeOK, Statuses
<1>5. TypeOK'
  BY <1>2, <1>3, <1>4 DEF TypeOK, timers
<1>6. NoLostUpdate'
  <2> SUFFICES ASSUME NEW p \in Pairs, alive, status'[p] = "old"
               PROVE  \/ Announced(p[2])'
                      \/ pending'[p[2]] # None
                      \/ \E n \in 1..Len(job') : job'[n] = p
    BY DEF NoLostUpdate
  <2>1. p # Head(job) /\ status[p] = "old"
    BY <1>1, <1>2 DEF TypeOK
  <2>2. ASSUME NEW n \in 1..Len(job), job[n] = p
        PROVE  \E k \in 1..Len(job') : job'[k] = p
    <3>1. n # 1
      BY <1>2, <2>1, <2>2
    <3>2. n - 1 \in 1..Len(job') /\ job'[n - 1] = p
      BY <1>2, <2>2, <3>1
    <3> QED
      BY <3>2
  <2> QED
    BY <1>3, <2>1, <2>2 DEF NoLostUpdate, timers
<1>7. JobOK'
  BY DEF JobOK
<1> QED
  BY <1>5, <1>6, <1>7

LEMMA ReconcileInv == IInv /\ Reconcile => IInv'
<1> SUFFICES ASSUME IInv, Reconcile PROVE IInv'
  OBVIOUS
<1> USE DEF IInv, Reconcile
<1>0. PICK damaged \in SUBSET NftRules : \E outcome \in [damaged -> {"current", "rejected"}] :
        /\ status' = [p \in Pairs |->
               IF p[1] = "nft" /\ p[2] \in damaged THEN outcome[p[2]] ELSE status[p]]
        /\ queue' = Accessed(damaged)
  OBVIOUS
<1>1. PICK outcome \in [damaged -> {"current", "rejected"}] :
        /\ status' = [p \in Pairs |->
               IF p[1] = "nft" /\ p[2] \in damaged THEN outcome[p[2]] ELSE status[p]]
        /\ queue' = Accessed(damaged)
  BY <1>0
<1>2. /\ status' \in [Pairs -> Statuses]
      /\ \A p \in Pairs : status'[p] = "old" => status[p] = "old"
  BY <1>1 DEF TypeOK, Statuses
<1>3. /\ queue' \in Seq(Events)
      /\ Len(queue') <= MaxQueue
      /\ \A d : Announced(d) => Announced(d)'
  <2>1. damaged \in SUBSET Directions
    BY <1>1, WatcherAssumption DEF WatcherAssumption
  <2> QED
    BY <1>1, <2>1, AccessedEvents
<1>4. reconcileIn' \in 0..ConfigReconcile /\ elapsed' \in 0..ConfigReconcile
  BY WatcherAssumption DEF WatcherAssumption, TypeOK, NextReconcile
<1>5. TypeOK'
  BY <1>2, <1>3, <1>4 DEF TypeOK
<1>6. NoLostUpdate'
  BY <1>2, <1>3 DEF NoLostUpdate
<1> QED
  BY <1>5, <1>6 DEF JobOK

LEMMA LoopInv == IInv /\ Loop => IInv'
<1> SUFFICES ASSUME IInv, Loop PROVE IInv'
  OBVIOUS
<1> USE DEF IInv, world, timers
<1>1. CASE LoopTop \/ ReceiveNothing \/ EndIteration
  BY <1>1 DEF LoopTop, ReceiveNothing, EndIteration, TypeOK, JobOK, NoLostUpdate, Announced
<1>2. CASE CollectDue
  BY <1>2 DEF CollectDue, TypeOK, JobOK, NoLostUpdate, Announced
<1>3. CASE EndReload
  BY <1>3 DEF EndReload, TypeOK, JobOK, NoLostUpdate, Announced
<1> QED
  BY <1>1, <1>2, <1>3, ReceiveInv, BeginReloadInv, ServeInv, ReconcileInv DEF Loop

\* The invariant holds of every run.
THEOREM InvariantHolds == Spec => []IInv
<1>1. IInv /\ UNCHANGED vars => IInv'
  BY DEF IInv, vars, world, timers, TypeOK, JobOK, NoLostUpdate, Announced
<1>2. IInv /\ [Next]_vars => IInv'
  BY <1>1, LoopInv, TickInv, EnvironmentInv DEF Next
<1> QED
  BY <1>2, InitInv, PTL DEF Spec

\* Every state of the loop is of the declared types.
THEOREM TypeCorrect == Spec => []TypeOK
  BY InvariantHolds, PTL DEF IInv

\* A backend that holds an older list than the file has its reload coming,
\* whatever the rules, the intervals, the capacity of the channel and the order
\* of changes, events, reloads, failures and signals.
THEOREM ChangesRemembered == Spec => []NoLostUpdate
  BY InvariantHolds, PTL DEF IInv
=============================================================================
