------------------------- MODULE NftEnforcementProofs -------------------------
(***************************************************************************)
(* The proof that what the daemon tracks is what the kernel enforces, that *)
(* a used direction stays protected and only moves to newer lists, and     *)
(* that at rest nothing but the tracked generations exists.                *)
(*                                                                         *)
(* EInv adds four parts to the invariant of NftProofs, and each is         *)
(* kept for a reason of its own: PlanOK because a replacement covers what  *)
(* it set out to cover, TableOK because only an activation moves lookups,  *)
(* VersionsOK because a stage is read from the file after the generation   *)
(* it replaces, SetsTidy because every stage is activated or discarded.    *)
(***************************************************************************)
EXTENDS NftProofs, FiniteSetTheorems

\* An adverse event that the step spends is not unspent afterwards.
Thrifty ==
    \A kind \in {"tamper", "reject", "unacked"} :
        Unspent(kind)' => Unspent(kind) /\ ~Spend(kind)

\* What is known of a step before a part of EInv is shown to be kept.
Setting ==
    /\ EInv
    /\ Context
    /\ Shape'
    /\ KernelTypeOK'
    /\ Thrifty

-----------------------------------------------------------------------------
(* Budgets, plans and what is tracked.                                     *)

LEMMA BudgetAlways == [Next]_vars => BudgetStep
<1> SUFFICES ASSUME [Next]_vars PROVE BudgetStep
  OBVIOUS
<1> USE DEF BudgetStep, Kinds
<1>1. CASE CheckFlowtables \/ CheckLayout \/ Start \/ Crash \/ Tamper \/ InstallWatcher \/ Stop
  BY <1>1 DEF CheckFlowtables, CheckLayout, Start, Crash, Tamper, InstallWatcher, Stop, Dump
<1>2. CASE Bootstrap \/ BeginStage \/ Populate \/ EndOfStream \/ VerifyCandidate
  BY <1>2 DEF Bootstrap, BeginStage, Populate, EndOfStream, VerifyCandidate, Dump, Transaction
<1>3. CASE ActivateInitial \/ ActivateDirection \/ CleanupObsolete \/ Discard \/ RepairRules
  BY <1>3 DEF ActivateInitial, ActivateDirection, CleanupObsolete, Discard, RepairRules,
     Transaction
<1>4. CASE \/ Reconcile \/ ReconcileLayout \/ ReconcileBootstrap \/ ReconcileHealth
           \/ Exit \/ DeleteTable
  BY <1>4 DEF Reconcile, ReconcileLayout, ReconcileBootstrap, ReconcileHealth, Exit, DeleteTable,
     Dump, Transaction
<1>5. CASE UNCHANGED vars \/ \E d \in Directions : Reload(d) \/ FileChange(d) \/ FileEvent(d)
  BY <1>5 DEF vars, Reload, FileChange, FileEvent
<1> QED
  BY <1>1, <1>2, <1>3, <1>4, <1>5 DEF Next, Busy

LEMMA BudgetKept ==
    ASSUME EInv, BudgetStep
    PROVE  BudgetOK' /\ Thrifty
<1>1. /\ budget \in [Kinds -> Nat] /\ Budget \in [Kinds -> Nat]
      /\ \A k \in Kinds : budget[k] <= Budget[k]
  BY DaemonAssumption DEF EInv, IInv, TypeOK, DaemonTypeOK, BudgetOK
<1>2. {"tamper", "reject", "unacked"} \subseteq Kinds
  BY DEF Kinds
<1>3. CASE UNCHANGED budget
  BY <1>1, <1>2, <1>3 DEF BudgetOK, Thrifty, Unspent, Spend
<1>4. ASSUME NEW kind \in Kinds, Spend(kind)
      PROVE  BudgetOK' /\ Thrifty
  <2>1. \A k \in Kinds : budget'[k] = IF k = kind THEN budget[k] - 1 ELSE budget[k]
    BY <1>1, <1>4 DEF Spend
  <2>2. \A k \in Kinds : budget'[k] <= budget[k] /\ (Spend(k) => budget'[k] = budget[k] - 1)
    BY <1>1, <2>1 DEF Spend
  <2>3. \A k \in Kinds : budget'[k] <= Budget[k]
    BY <1>1, <2>1
  <2>4. ASSUME NEW k \in Kinds, budget'[k] = Budget[k]
        PROVE  budget[k] = Budget[k] /\ ~Spend(k)
    BY <1>1, <2>1, <2>2, <2>4
  <2> QED
    BY <1>2, <2>3, <2>4 DEF BudgetOK, Thrifty, Unspent
<1> QED
  BY <1>3, <1>4 DEF BudgetStep

\* InOrder lists exactly the directions it is given.
LEMMA InOrderElements ==
    ASSUME NEW D \in SUBSET Directions
    PROVE  Elements(InOrder(D)) = D
<1>0. 1..2 = {1, 2} /\ 1..1 = {1}
  OBVIOUS
<1>1. CASE "in" \in D /\ "out" \in D
  <2>1. Len(InOrder(D)) = 2 /\ InOrder(D)[1] = "in" /\ InOrder(D)[2] = "out"
    BY <1>1 DEF InOrder
  <2>2. D = {"in", "out"}
    BY <1>1 DEF Directions
  <2> QED
    BY <1>0, <2>1, <2>2 DEF Elements
<1>2. CASE "in" \in D /\ "out" \notin D
  <2>1. Len(InOrder(D)) = 1 /\ InOrder(D)[1] = "in"
    BY <1>2 DEF InOrder
  <2>2. D = {"in"}
    BY <1>2 DEF Directions
  <2> QED
    BY <1>0, <2>1, <2>2 DEF Elements
<1>3. CASE "in" \notin D /\ "out" \in D
  <2>1. Len(InOrder(D)) = 1 /\ InOrder(D)[1] = "out"
    BY <1>3 DEF InOrder
  <2>2. D = {"out"}
    BY <1>3 DEF Directions
  <2> QED
    BY <1>0, <2>1, <2>2 DEF Elements
<1>4. CASE "in" \notin D /\ "out" \notin D
  <2>1. D = {} /\ InOrder(D) = <<>>
    BY <1>4 DEF Directions, InOrder
  <2>2. Len(<<>>) = 0
    OBVIOUS
  <2> QED
    BY <2>1, <2>2 DEF Elements
<1> QED
  BY <1>1, <1>2, <1>3, <1>4

LEMMA HeadAndTail ==
    ASSUME NEW s \in Seq(Directions), s # <<>>
    PROVE  Elements(s) = {Head(s)} \cup Elements(Tail(s))
<1>1. /\ Head(s) = s[1] /\ 1 \in 1..Len(s)
      /\ Len(s) \in Nat /\ Len(Tail(s)) = Len(s) - 1
      /\ \A i \in 1..Len(Tail(s)) : i + 1 \in 1..Len(s) /\ Tail(s)[i] = s[i + 1]
  BY SequenceParts
<1>2. ASSUME NEW i \in 1..Len(s), i # 1
      PROVE  i - 1 \in 1..Len(Tail(s)) /\ Tail(s)[i - 1] = s[i]
  <2>1. i - 1 \in 1..Len(Tail(s))
    BY <1>1, <1>2
  <2> QED
    BY <1>1, <2>1
<1>3. Elements(s) \subseteq {Head(s)} \cup Elements(Tail(s))
  BY <1>1, <1>2 DEF Elements
<1>4. {Head(s)} \cup Elements(Tail(s)) \subseteq Elements(s)
  BY <1>1 DEF Elements
<1> QED
  BY <1>3, <1>4

\* On a table that is the daemon's, with every activation acknowledged, the
\* lookups are those of the tracked generations, and these exist.
LEMMA TrackedExist ==
    ASSUME EInv, Unspent("tamper"), Unspent("unacked"), ~Initial
    PROVE  /\ dispatch = GenOf(active)
           /\ Referenced = GenerationsOf(active)
           /\ GenerationsOf(active) \subseteq sets
<1>1. dispatch = GenOf(active)
  BY DEF EInv, TableOK
<1>2. \A d \in Covered(active) : dispatch[d] = active[d].gen /\ dispatch[d] # None
  BY <1>1 DEF EInv, TableOK, PlanOK, GenOf, Covered
<1>3. \A d \in Directions \ Covered(active) : dispatch[d] = None
  BY <1>1 DEF GenOf, Covered
<1>4. Covered(active) \subseteq Directions
  BY DEF Covered
<1>5. Referenced = GenerationsOf(active)
  BY <1>2, <1>3, <1>4 DEF Referenced, GenerationsOf
<1>6. Referenced \subseteq sets
  BY DEF Referenced, EInv, IInv, EnforcedComplete
<1> QED
  BY <1>1, <1>5, <1>6

-----------------------------------------------------------------------------
(* The plan of a replacement.                                              *)

\* A replacement of everything begins with everything left to stage.
LEMMA ReplacePlan ==
    ASSUME Setting, NEW D \in SUBSET used, Replace(InOrder(D)), used' = used,
           \/ D = used /\ active' \in {active, NoTracked}
           \/ ~Initial /\ active' = active,
           pc \notin {"down", "flow"}
    PROVE  PlanOK'
<1>1. D \in SUBSET Directions
  BY DEF Setting, Context, Shape, DaemonTypeOK
<1>2. Elements(todo') = D /\ Covered(candidate') = {}
  BY <1>1, InOrderElements, Empty DEF Replace
<1>3. pc' = "begin"
  BY DEF Replace
<1>4. Initial' \/ Covered(active') = used'
  BY DEF Setting, EInv, PlanOK, Initial
<1>5. Initial' => Covered(candidate') \cup Elements(todo') = used'
  BY <1>2 DEF Initial
<1> QED
  BY <1>3, <1>4, <1>5 DEF PlanOK, Initial, Covered

\* Where nothing tracked changes, the first clause is kept by itself.
LEMMA IdlePlan ==
    ASSUME Setting, UNCHANGED <<active, used>>,
           pc' \notin {"begin", "populate", "verify", "activate", "exit_delete"},
           pc' \in {"cleanup", "install", "rec_layout", "rec_bootstrap", "rec_health", "repair"}
             => ~Initial,
           pc' \in {"watch", "rec_layout", "rec_bootstrap", "rec_health", "repair"} => watching'
    PROVE  PlanOK'
BY DEF Setting, EInv, PlanOK, Initial, Covered

LEMMA ProcessPlan ==
    ASSUME Setting, Start \/ CheckFlowtables \/ Exit \/ DeleteTable \/ Crash \/ Stop
    PROVE  PlanOK'
<1> USE DEF Setting, EInv, Context, Shape, WorkOK, PlanOK, Initial, Covered
<1>1. CASE Start \/ CheckFlowtables
  BY <1>1 DEF Start, CheckFlowtables, Dump, Abort, work, process
<1>2. CASE Exit
  BY <1>2 DEF Exit, Dump, CleansUp, Down, work, process
<1>3. CASE DeleteTable
  BY <1>3 DEF DeleteTable, Transaction, Down, work
<1>4. CASE Crash
  BY <1>4 DEF Crash, Down
<1>5. CASE Stop
  BY <1>5 DEF Stop, process
<1> QED
  BY <1>1, <1>2, <1>3, <1>4, <1>5

LEMMA LayoutPlan ==
    ASSUME Setting, CheckLayout \/ Bootstrap
    PROVE  PlanOK'
<1>1. active = NoTracked /\ active' = active /\ used \in SUBSET used
  BY DEF Setting, Context, Shape, WorkOK, CheckLayout, Bootstrap
<1>2. CASE Abort
  BY <1>1, <1>2 DEF Abort, PlanOK, Initial
<1>3. CASE pc' = "bootstrap"
  BY <1>1, <1>3 DEF PlanOK, Initial
<1>4. CASE Replace(InOrder(used)) /\ UNCHANGED process
  BY <1>1, <1>4, ReplacePlan DEF CheckLayout, Bootstrap, process
<1> QED
  BY <1>2, <1>3, <1>4 DEF CheckLayout, Bootstrap, Transaction

LEMMA LoopPlan ==
    ASSUME Setting,
           \/ InstallWatcher \/ Reconcile \/ ReconcileLayout \/ ReconcileBootstrap
           \/ ReconcileHealth \/ RepairRules \/ \E d \in Directions : Reload(d)
    PROVE  PlanOK'
<1>1. used \in SUBSET used
  OBVIOUS
<1>2. CASE InstallWatcher
  BY <1>2, IdlePlan DEF InstallWatcher
<1>3. CASE Reconcile
  BY <1>1, <1>3, IdlePlan, ReplacePlan DEF Reconcile, Dump, process, Setting, EInv, PlanOK
<1>4. CASE ReconcileLayout
  BY <1>4, IdlePlan DEF ReconcileLayout, Dump, process, Setting, EInv, PlanOK
<1>5. CASE ReconcileBootstrap
  BY <1>1, <1>5, IdlePlan, ReplacePlan
     DEF ReconcileBootstrap, Transaction, process, Setting, EInv, PlanOK
<1>6. CASE ReconcileHealth
  <2> DEFINE D == Damaged(active) \cap used
  <2>1. D \in SUBSET used /\ ~Initial /\ UNCHANGED <<active, used>> /\ watching'
    BY <1>6 DEF ReconcileHealth, Setting, EInv, PlanOK, process
  <2>2. CASE Replace(InOrder(D))
    <3> HIDE DEF D
    <3> QED
      BY <1>6, <2>1, <2>2, ReplacePlan DEF ReconcileHealth
  <2>3. CASE pc' \in {"repair", "watch"}
    BY <2>1, <2>3, IdlePlan
  <2> QED
    BY <1>6, <2>2, <2>3 DEF ReconcileHealth, Dump
<1>7. CASE RepairRules
  BY <1>7, IdlePlan DEF RepairRules, process, Setting, EInv, PlanOK
<1>8. ASSUME NEW d \in Directions, Reload(d) PROVE PlanOK'
  <2>1. pc = "watch" /\ active' = active /\ used' = used /\ d \in used
    BY <1>8 DEF Reload, process, Setting, Context, Shape, WorkOK
  <2>2. CASE Initial
    BY <1>1, <1>8, <2>1, <2>2, ReplacePlan DEF Reload
  <2>3. CASE ~Initial
    <3>1. {d} \in SUBSET used /\ InOrder({d}) = <<d>>
      <4>1. CASE d = "in"
        BY <2>1, <4>1 DEF InOrder
      <4>2. CASE d = "out"
        BY <2>1, <4>2 DEF InOrder
      <4> QED
        BY <4>1, <4>2 DEF Directions
    <3> QED
      BY <1>8, <2>1, <2>3, <3>1, ReplacePlan DEF Reload
  <2> QED
    BY <2>2, <2>3
<1> QED
  BY <1>2, <1>3, <1>4, <1>5, <1>6, <1>7, <1>8

\* Staging moves a direction from what is left to what is covered.
LEMMA StagingPlan ==
    ASSUME Setting, BeginStage \/ Populate \/ EndOfStream
    PROVE  PlanOK'
<1>1. UNCHANGED <<active, used>> /\ pc \in {"begin", "populate"}
  BY DEF BeginStage, Populate, EndOfStream, process
<1>2. CASE pc' \in {"exit", "discard"} \/ (pc' = "watch" /\ watching')
  BY <1>1, <1>2, IdlePlan
<1>3. CASE pc' = "populate" /\ UNCHANGED <<todo, candidate>>
  BY <1>1, <1>3 DEF Setting, EInv, PlanOK, Initial, Covered
<1>4. CASE EndOfStream /\ ~StreamFails(stage.list)
  <2> DEFINE d == Head(todo)
             tracked == [gen |-> stage.gen, count |-> stage.sent]
  <2>1. /\ todo \in Seq(Directions) /\ todo # <<>> /\ d \in Directions
        /\ tracked \in Tracked
        /\ active \in [Directions -> Tracked \cup {None}]
        /\ candidate \in [Directions -> Tracked \cup {None}]
    BY <1>4 DEF EndOfStream, Setting, Context, Shape, WorkOK, DaemonTypeOK, Stages, Tracked
  <2>2. tracked # None
    BY <2>1, NoneAssumption
  <2>3. CASE Initial
    <3>1. candidate' = [candidate EXCEPT ![d] = tracked] /\ todo' = Tail(todo)
          /\ pc' = IF Tail(todo) = <<>> THEN "verify" ELSE "begin"
      BY <1>4, <2>3 DEF EndOfStream
    <3>2. Covered(candidate') = Covered(candidate) \cup {d}
      BY <2>1, <2>2, <3>1 DEF Covered
    <3>3. Elements(todo) = {d} \cup Elements(todo')
      BY <2>1, <3>1, HeadAndTail
    <3>4. Covered(candidate) \cup Elements(todo) = used
      BY <1>1, <2>3 DEF Setting, EInv, PlanOK
    <3>5. Covered(candidate') \cup Elements(todo') = used
      BY <3>2, <3>3, <3>4
    <3>6. Elements(<<>>) = {}
      BY DEF Elements
    <3>7. Initial'
      BY <1>1, <2>3 DEF Initial
    <3> QED
      BY <1>1, <3>1, <3>5, <3>6, <3>7 DEF PlanOK
  <2>4. CASE ~Initial
    <3>1. candidate' = [active EXCEPT ![d] = tracked] /\ todo' = todo /\ pc' = "verify"
      BY <1>4, <2>4 DEF EndOfStream
    <3>2. \A x \in Directions \ {d} : candidate'[x] = active[x]
      BY <2>1, <3>1
    <3> QED
      BY <1>1, <2>4, <3>1, <3>2 DEF PlanOK, Initial, Covered, Setting, EInv
  <2> QED
    BY <2>3, <2>4
<1> QED
  BY <1>2, <1>3, <1>4 DEF BeginStage, Populate, EndOfStream, Transaction, StageFailed, Fail, Leave,
     Discarding

\* Activation tracks what was covered: every used direction.
LEMMA ActivationPlan ==
    ASSUME Setting, VerifyCandidate \/ ActivateInitial \/ ActivateDirection
    PROVE  PlanOK'
<1>1. used' = used /\ pc \in {"verify", "activate"}
  BY DEF VerifyCandidate, ActivateInitial, ActivateDirection, process
<1>2. CASE active' = active /\ pc' = "discard"
  BY <1>1, <1>2, IdlePlan
<1>3. CASE active' = active /\ pc' = "activate" /\ UNCHANGED work
  BY <1>1, <1>3 DEF PlanOK, Initial, Covered, work, Setting, EInv
<1>4. CASE Activated
  <2>1. /\ Covered(candidate) # {} /\ Covered(candidate) \subseteq used
        /\ Initial \/ (Head(todo) \in used /\ candidate[Head(todo)] # None)
    <3>1. /\ Covered(candidate) \subseteq used /\ used \subseteq Directions
          /\ Initial => Covered(candidate) # {}
          /\ ~Initial => todo # <<>> /\ candidate[Head(todo)] # None
          /\ todo \in Seq(Directions) /\ \A i \in 1..Len(todo) : todo[i] \in used
      BY <1>1 DEF Setting, Context, Shape, WorkOK, DaemonTypeOK
    <3>2. ~Initial => Head(todo) \in used
      BY <3>1, SequenceParts
    <3> QED
      BY <3>1, <3>2 DEF Covered
  <2>2. Covered(candidate) = used
    BY <1>1, <2>1 DEF Setting, EInv, PlanOK, Covered
  <2>3. active' = candidate /\ pc' = "cleanup" /\ active' # NoTracked
    BY <1>4, <2>1, Empty DEF Activated
  <2> QED
    BY <1>1, <2>2, <2>3 DEF PlanOK, Initial
<1> QED
  BY <1>2, <1>3, <1>4 DEF VerifyCandidate, ActivateInitial, ActivateDirection, Dump, Transaction,
     NotActivated, Discarding

LEMMA TidyingPlan ==
    ASSUME Setting, CleanupObsolete \/ Discard
    PROVE  PlanOK'
<1>1. UNCHANGED <<active, used>> /\ (pc = "cleanup" => ~Initial)
  BY DEF CleanupObsolete, Discard, process, Setting, EInv, PlanOK
<1>2. CASE \/ pc' \in {"exit", "discard"}
           \/ pc' = "watch" /\ watching'
           \/ pc' = "install" /\ pc = "cleanup"
  BY <1>1, <1>2, IdlePlan
<1>3. CASE pc' = "begin" /\ pc = "cleanup"
  BY <1>1, <1>3 DEF PlanOK, Initial, Covered, Setting, EInv
<1> QED
  BY <1>2, <1>3 DEF CleanupObsolete, Discard, Transaction, Replace, Succeed, Fail, Leave

LEMMA EnvironmentPlan ==
    ASSUME Setting, UNCHANGED <<pc, active, todo, candidate, used, watching>>
    PROVE  PlanOK'
BY DEF Setting, EInv, PlanOK, Initial, Covered

LEMMA PlanKept ==
    ASSUME Setting, [Next]_vars
    PROVE  PlanOK'
<1>1. CASE Busy
  BY <1>1, ProcessPlan, LayoutPlan, LoopPlan, StagingPlan, ActivationPlan, TidyingPlan DEF Busy
<1>2. CASE Start \/ Crash \/ Stop
  BY <1>2, ProcessPlan
<1>3. CASE Reconcile \/ \E d \in Directions : Reload(d)
  BY <1>3, LoopPlan
<1>4. CASE Tamper \/ UNCHANGED vars \/ \E d \in Directions : FileChange(d) \/ FileEvent(d)
  <2>1. UNCHANGED <<pc, active, todo, candidate, used, watching>>
    BY <1>4 DEF Tamper, vars, FileChange, FileEvent, daemon, work, process
  <2> QED
    BY <2>1, EnvironmentPlan
<1> QED
  BY <1>1, <1>2, <1>3, <1>4 DEF Next

-----------------------------------------------------------------------------
(* The table enforces what is tracked.                                     *)

\* Before the layout was read nothing is known of the table.
Unread == {"down", "flow", "layout", "bootstrap"}

\* A step that moves no lookup and tracks what was tracked.
LEMMA TableStays ==
    ASSUME Setting, UNCHANGED <<table, base, dispatch, active, used>>,
           pc \notin Unread, pc' \notin Unread \cup {"rec_bootstrap"},
           watching' => watching \/ ~Initial
    PROVE  TableOK'
<1>1. Initial' = Initial /\ GenOf(active)' = GenOf(active)
  BY DEF Initial, GenOf
<1>2. /\ Unspent("tamper")' => Unspent("tamper")
      /\ Unspent("unacked")' => Unspent("unacked")
  BY DEF Setting, Thrifty
<1> QED
  BY <1>1, <1>2 DEF Setting, EInv, TableOK, Unread

\* While nothing is tracked, what counts is whether the table is there.
LEMMA TableUntracked ==
    ASSUME Setting, active' = NoTracked, ~watching', pc' # "rec_bootstrap",
           pc' = "bootstrap" => table' = "absent",
           pc' \notin Unread => table' = "current"
    PROVE  TableOK'
BY DEF TableOK, Initial, Unread

LEMMA ProcessTable ==
    ASSUME Setting, \/ Start \/ CheckFlowtables \/ CheckLayout \/ Bootstrap
                    \/ Exit \/ DeleteTable \/ Crash \/ Stop
    PROVE  TableOK'
<1> USE DEF Unread
<1>1. pc \in Unread => active = NoTracked /\ ~watching
  BY DEF Setting, Context, Shape, WorkOK
<1>2. CASE Start \/ CheckFlowtables
  BY <1>1, <1>2, TableUntracked DEF Start, CheckFlowtables, Dump, Abort
<1>3. CASE CheckLayout
  BY <1>1, <1>3, TableUntracked DEF CheckLayout, Abort, Replace, Layout, kernel
<1>4. CASE Bootstrap
  <2>1. CASE AddTable
    BY <1>1, <1>4, <2>1, TableUntracked DEF Bootstrap, Transaction, AddTable, Abort, Replace
  <2>2. CASE Abort
    BY <1>1, <1>4, <2>2, TableUntracked DEF Bootstrap, Abort
  <2> QED
    BY <1>4, <2>1, <2>2 DEF Bootstrap, Transaction
<1>5. CASE Exit
  <2>1. CASE Down
    BY <2>1, TableUntracked DEF Down
  <2>2. CASE pc' = "exit_delete" /\ UNCHANGED <<next, active, process, watching, pending>>
    BY <1>5, <2>2, TableStays DEF Exit, kernel, process
  <2> QED
    BY <1>5, <2>1, <2>2 DEF Exit, Dump
<1>6. CASE DeleteTable \/ Crash
  BY <1>6, TableUntracked DEF DeleteTable, Crash, Transaction, Down
<1>7. CASE Stop
  BY <1>7, TableStays DEF Stop, kernel, process
<1> QED
  BY <1>2, <1>3, <1>4, <1>5, <1>6, <1>7

LEMMA StagingTable ==
    ASSUME Setting, \/ BeginStage \/ Populate \/ EndOfStream \/ VerifyCandidate
                    \/ CleanupObsolete \/ Discard
    PROVE  TableOK'
<1>1. /\ pc \in {"begin", "populate", "verify", "cleanup", "discard"}
      /\ UNCHANGED <<active, used, watching>>
  BY DEF BeginStage, Populate, EndOfStream, VerifyCandidate, CleanupObsolete, Discard, process
<1>2. UNCHANGED <<table, base, dispatch>>
  BY DEF BeginStage, Populate, EndOfStream, VerifyCandidate, CleanupObsolete, Discard,
     Transaction, AddSets, AddItems, DeleteSets, kernel
<1>3. pc' \in {"begin", "populate", "verify", "activate", "discard", "watch", "install", "exit"}
  <2>1. CASE BeginStage
    BY <2>1 DEF BeginStage, Transaction, StageFailed, Fail, Leave, Discarding
  <2>2. CASE Populate
    BY <2>2 DEF Populate, Transaction, Discarding
  <2>3. CASE EndOfStream
    BY <2>3 DEF EndOfStream, Discarding
  <2>4. CASE VerifyCandidate
    BY <2>4 DEF VerifyCandidate, Dump, Discarding
  <2>5. CASE CleanupObsolete
    BY <2>5 DEF CleanupObsolete, Transaction, Replace, Succeed, Leave
  <2>6. CASE Discard
    BY <2>6 DEF Discard, Transaction, Fail, Leave
  <2> QED
    BY <2>1, <2>2, <2>3, <2>4, <2>5, <2>6
<1> QED
  BY <1>1, <1>2, <1>3, TableStays DEF Unread

\* Activation and tracking change together, unless the answer is lost.
LEMMA ActivationTable ==
    ASSUME Setting, ActivateInitial \/ ActivateDirection
    PROVE  TableOK'
<1>1. /\ pc = "activate" /\ UNCHANGED <<used, watching>>
      /\ pc' \in {"cleanup", "discard"}
  BY DEF ActivateInitial, ActivateDirection, Transaction, Activated, NotActivated, Discarding,
     process
<1>2. CASE UNCHANGED kernel /\ active' = active
  BY <1>1, <1>2, TableStays DEF kernel, Unread
<1>3. CASE /\ ActivateInitial /\ ReplaceRules(GenOf(candidate))
           /\ \/ Activated
              \/ active' = active /\ Spend("unacked")
  <2> SUFFICES ASSUME Unspent("tamper")'
               PROVE  TableOK'
    BY DEF TableOK
  <2>1. Initial /\ Unspent("tamper") /\ table = "current" /\ ~watching
    BY <1>1, <1>3 DEF ActivateInitial, Setting, Thrifty, EInv, TableOK
  <2>2. table' = "current" /\ ~watching'
    BY <1>1, <1>3, <2>1 DEF ReplaceRules
  <2>3. CASE Activated
    <3>1. active' = candidate /\ dispatch' = GenOf(candidate) /\ base'
      BY <1>3, <2>3 DEF Activated, ReplaceRules
    <3>2. dispatch' = GenOf(active')
      BY <3>1
    <3>3. Covered(candidate) = used /\ candidate \in [Directions -> Tracked \cup {None}]
      BY <1>1, <2>1 DEF Setting, EInv, PlanOK, Context, Shape, DaemonTypeOK
    <3>4. \A d \in used : dispatch'[d] # None
      BY <3>1, <3>3, NoneAssumption DEF GenOf, Covered, Tracked, Setting, Context, Shape,
         DaemonTypeOK
    <3> QED
      BY <1>1, <2>2, <3>1, <3>2, <3>4 DEF TableOK, Unread
  <2>4. CASE active' = active /\ Spend("unacked")
    BY <1>1, <2>1, <2>2, <2>4 DEF TableOK, Initial, Setting, Thrifty
  <2> QED
    BY <1>3, <2>3, <2>4
<1>4. CASE /\ ActivateDirection /\ ReplaceDispatch(Head(todo), candidate[Head(todo)].gen)
           /\ \/ Activated
              \/ active' = active /\ Spend("unacked")
  <2> DEFINE d == Head(todo)
             g == candidate[d].gen
  <2> SUFFICES ASSUME Unspent("tamper")'
               PROVE  TableOK'
    BY DEF TableOK
  <2>1. /\ ~Initial /\ Unspent("tamper") /\ table = "current" /\ base
        /\ Unspent("unacked")' => Unspent("unacked")
        /\ \A x \in used : dispatch[x] # None
        /\ Unspent("unacked") => dispatch = GenOf(active)
    BY <1>1, <1>4 DEF ActivateDirection, Setting, Thrifty, EInv, TableOK
  <2>2. d \in Directions /\ candidate[d] \in Tracked /\ candidate[d] # None /\ g # None
    BY <1>1, <2>1, NoneAssumption DEF Setting, Context, Shape, WorkOK, DaemonTypeOK, Tracked
  <2>3. /\ table' = "current" /\ base'
        /\ dispatch' = [dispatch EXCEPT ![d] = g]
        /\ dispatch \in [Directions -> Gens \cup {None}] /\ used \subseteq Directions
    BY <1>4, <2>1 DEF ReplaceDispatch, Setting, Context, KernelTypeOK, Shape, DaemonTypeOK
  <2>4. \A x \in used : dispatch'[x] # None
    BY <2>1, <2>2, <2>3
  <2>5. CASE Activated
    <3>1. active' = candidate /\ pc' = "cleanup"
      BY <2>5 DEF Activated
    <3>2. \A x \in Directions \ {d} : candidate[x] = active[x]
      BY <1>1, <2>1 DEF Setting, EInv, PlanOK
    <3>3. Unspent("unacked")' => dispatch' = GenOf(candidate)
      BY <2>1, <2>2, <2>3, <3>2 DEF GenOf
    <3>4. candidate # NoTracked
      BY <2>2 DEF NoTracked
    <3> QED
      BY <1>1, <2>3, <2>4, <3>1, <3>3, <3>4 DEF TableOK, Unread, Initial, GenOf
  <2>6. CASE active' = active /\ Spend("unacked")
    BY <1>1, <2>1, <2>3, <2>4, <2>6 DEF TableOK, Initial, Setting, Thrifty
  <2> QED
    BY <1>4, <2>5, <2>6
<1> QED
  BY <1>2, <1>3, <1>4 DEF ActivateInitial, ActivateDirection, Transaction, NotActivated

LEMMA LoopTable ==
    ASSUME Setting,
           \/ InstallWatcher \/ Reconcile \/ ReconcileLayout \/ ReconcileBootstrap
           \/ ReconcileHealth \/ RepairRules \/ \E d \in Directions : Reload(d)
    PROVE  TableOK'
<1>1. /\ used' = used /\ pc \notin Unread /\ pc' \notin Unread
      /\ InstallWatcher \/ watching' = watching
  BY DEF Unread, InstallWatcher, Reconcile, ReconcileLayout, ReconcileBootstrap, ReconcileHealth,
     RepairRules, Reload, Replace, Dump, Transaction, process
<1>2. CASE \/ InstallWatcher \/ Reconcile \/ ReconcileHealth
           \/ \E d \in Directions : Reload(d)
  <2>1. UNCHANGED kernel /\ active' = active /\ pc' # "rec_bootstrap"
    BY <1>2 DEF InstallWatcher, Reconcile, ReconcileHealth, Reload, Replace, Dump
  <2>2. pc = "install" => ~Initial
    BY DEF Setting, EInv, PlanOK
  <2> QED
    BY <1>1, <1>2, <2>1, <2>2, TableStays
       DEF kernel, InstallWatcher, Reconcile, ReconcileHealth, Reload
<1>3. CASE ReconcileLayout
  <2> SUFFICES ASSUME Unspent("tamper")'
               PROVE  TableOK'
    BY DEF TableOK
  <2>1. table = "current"
    BY <1>1, <1>3 DEF Unread, Setting, Thrifty, EInv, TableOK
  <2>2. pc' # "rec_bootstrap"
    BY <1>3, <2>1 DEF ReconcileLayout, Dump, Layout
  <2> QED
    BY <1>1, <1>3, <2>2, TableStays DEF ReconcileLayout, InstallWatcher, kernel
<1>4. CASE ReconcileBootstrap
  BY <1>4 DEF ReconcileBootstrap, Setting, Thrifty, EInv, TableOK
<1>5. CASE RepairRules /\ ~UNCHANGED kernel
  <2> SUFFICES ASSUME Unspent("tamper")'
               PROVE  TableOK'
    BY DEF TableOK
  <2>1. /\ ~Initial /\ table = "current" /\ active' = active /\ pc' = "watch"
        /\ used \subseteq Directions
    BY <1>1, <1>5 DEF RepairRules, Unread, Setting, Thrifty, EInv, TableOK, PlanOK, Context, Shape,
       DaemonTypeOK
  <2>2. table' = "current" /\ base' /\ dispatch' = GenOf(active)
    BY <1>5, <2>1 DEF RepairRules, Transaction, ReplaceRules
  <2>3. \A d \in used : dispatch'[d] # None
    <3>1. \A d \in used : active[d] \in Tracked /\ active[d] # None
      BY <2>1 DEF Setting, EInv, PlanOK, Context, Shape, DaemonTypeOK, Covered
    <3> QED
      BY <2>1, <2>2, <3>1, NoneAssumption DEF GenOf, Tracked
  <2> QED
    BY <1>1, <2>1, <2>2, <2>3 DEF TableOK, Initial, GenOf, Unread
<1>6. CASE RepairRules /\ UNCHANGED kernel
  BY <1>1, <1>6, TableStays DEF RepairRules, kernel
<1> QED
  BY <1>2, <1>3, <1>4, <1>5, <1>6

LEMMA EnvironmentTable ==
    ASSUME Setting,
           Tamper \/ UNCHANGED vars \/ \E d \in Directions : FileChange(d) \/ FileEvent(d)
    PROVE  TableOK'
<1>1. CASE Tamper
  BY <1>1 DEF Tamper, TableOK, Setting, Thrifty
<1>2. CASE ~Tamper
  <2>1. UNCHANGED <<kernel, pc, active, used, watching>>
    BY <1>2 DEF vars, daemon, process, FileChange, FileEvent
  <2>2. Initial' = Initial /\ GenOf(active)' = GenOf(active)
    BY <2>1 DEF Initial, GenOf
  <2> QED
    BY <2>1, <2>2 DEF kernel, Setting, Thrifty, EInv, TableOK
<1> QED
  BY <1>1, <1>2

LEMMA TableKept ==
    ASSUME Setting, [Next]_vars
    PROVE  TableOK'
<1>1. CASE Busy
  BY <1>1, ProcessTable, StagingTable, ActivationTable, LoopTable DEF Busy
<1>2. CASE Start \/ Crash \/ Stop
  BY <1>2, ProcessTable
<1>3. CASE Reconcile \/ \E d \in Directions : Reload(d)
  BY <1>3, LoopTable
<1>4. CASE Tamper \/ UNCHANGED vars \/ \E d \in Directions : FileChange(d) \/ FileEvent(d)
  BY <1>4, EnvironmentTable
<1> QED
  BY <1>1, <1>2, <1>3, <1>4 DEF Next

-----------------------------------------------------------------------------
(* What is staged is newer than what it replaces.                          *)

Replacing == {"begin", "populate", "verify", "activate"}

LEMMA VersionTypes ==
    ASSUME Setting
    PROVE  /\ sets \subseteq Gens
           /\ \A g \in sets : source[g] \in Lists /\ source[g].ver \in Nat
           /\ \A d \in Directions : file[d].ver \in Nat
BY TableAssumption DEF Setting, EInv, VersionsOK, Context, Shape, KernelTypeOK, DaemonTypeOK, Lists

\* A calm step relates older things to newer ones as before.
LEMMA CalmVersions ==
    ASSUME Setting, CalmKernel, Retains(active'), Retains(candidate'), file' \in [Directions -> Lists],
           \A d \in Directions : file'[d].ver >= file[d].ver,
           \/ pc' \notin Replacing
           \/ candidate' = NoTracked /\ pc' # "populate"
           \/ /\ pc' = pc
              /\ UNCHANGED <<active, todo, stage, candidate>>
              /\ \A d \in Directions : dispatch'[d] \in {dispatch[d], None}
    PROVE  VersionsOK'
<1>1. /\ \A g \in sets' : g \in sets /\ source'[g] = source[g]
      /\ \A g \in sets : source[g] \in Lists /\ source[g].ver \in Nat
      /\ \A d \in Directions : file[d].ver \in Nat /\ file'[d].ver \in Nat
  BY VersionTypes, TableAssumption DEF CalmKernel, Fades, Lists
<1>2. ASSUME NEW d \in Directions, NEW g, NotNewer(g, d)
      PROVE  g \in sets' => source'[g].ver <= file'[d].ver
  BY <1>1, <1>2 DEF NotNewer
<1>3. /\ \A d \in Directions : dispatch[d] # None => NotNewer(dispatch[d], d)
      /\ \A d \in Covered(active) : NotNewer(active[d].gen, d)
      /\ \A d \in Covered(candidate) : NotNewer(candidate[d].gen, d)
  BY DEF Setting, EInv, VersionsOK
<1>4. \A g \in sets' : source'[g] \in Lists
  BY <1>1
<1>5. \A d \in Directions : dispatch'[d] # None => NotNewer(dispatch[d], d)'
  <2> SUFFICES ASSUME NEW d \in Directions, dispatch'[d] # None
               PROVE  NotNewer(dispatch[d], d)'
    OBVIOUS
  <2>1. NotNewer(dispatch'[d], d)
    BY <1>3 DEF CalmKernel, Follows
  <2> QED
    BY <1>2, <2>1 DEF NotNewer
<1>6. \A d \in Covered(active') : NotNewer(active[d].gen, d)'
  <2> SUFFICES ASSUME NEW d \in Covered(active')
               PROVE  NotNewer(active[d].gen, d)'
    OBVIOUS
  <2>1. NotNewer(active'[d].gen, d)
    BY <1>3 DEF Retains
  <2> QED
    BY <1>2, <2>1 DEF NotNewer, Covered
<1>7. \A d \in Covered(candidate') : NotNewer(candidate[d].gen, d)'
  <2> SUFFICES ASSUME NEW d \in Covered(candidate')
               PROVE  NotNewer(candidate[d].gen, d)'
    OBVIOUS
  <2>1. NotNewer(candidate'[d].gen, d)
    BY <1>3 DEF Retains
  <2> QED
    BY <1>2, <2>1 DEF NotNewer, Covered
<1>8. CASE pc' \notin Replacing
  BY <1>4, <1>5, <1>6, <1>7, <1>8 DEF VersionsOK, Covered, Replacing
<1>9. CASE candidate' = NoTracked /\ pc' # "populate"
  BY <1>4, <1>5, <1>6, <1>7, <1>9, Empty DEF VersionsOK, Covered
<1>10. CASE /\ pc' = pc /\ pc \in Replacing
            /\ UNCHANGED <<active, todo, stage, candidate>>
            /\ \A d \in Directions : dispatch'[d] \in {dispatch[d], None}
  <2>1. pc \in {"begin", "populate"} \/ ~Initial => Head(todo) \in Directions
    BY <1>10 DEF Setting, Context, Shape, WorkOK, DaemonTypeOK, Replacing
  <2>2. ASSUME NEW d \in Directions, dispatch'[d] # None
        PROVE  dispatch'[d] = dispatch[d] /\ source'[dispatch[d]] = source[dispatch[d]]
               /\ dispatch[d] \in sets
    BY <1>1, <1>10, <2>2 DEF CalmKernel, Follows
  <2>3. pc' = "populate" =>
          /\ stage'.list.ver <= file'[Head(todo')].ver
          /\ dispatch'[Head(todo')] # None
               => source'[dispatch'[Head(todo')]].ver <= stage'.list.ver
    <3> SUFFICES ASSUME pc = "populate"
                 PROVE  /\ stage.list.ver <= file'[Head(todo)].ver
                        /\ dispatch'[Head(todo)] # None
                             => source'[dispatch'[Head(todo)]].ver <= stage.list.ver
      BY <1>10
    <3>1. /\ stage.list.ver <= file[Head(todo)].ver
          /\ dispatch[Head(todo)] # None => source[dispatch[Head(todo)]].ver <= stage.list.ver
          /\ stage.list.ver \in Nat
      BY TableAssumption DEF Setting, EInv, VersionsOK, Context, Shape, WorkOK, Stages, Lists
    <3> QED
      BY <1>1, <2>1, <2>2, <3>1
  <2>4. \A d \in Covered(candidate') :
          (Initial' \/ d = Head(todo')) /\ dispatch'[d] # None /\ candidate'[d].gen \in sets'
            => source'[dispatch'[d]].ver <= source'[candidate'[d].gen].ver
    BY <1>1, <1>10, <2>2 DEF Setting, EInv, VersionsOK, Replacing, Initial, Covered
  <2> QED
    BY <1>4, <1>5, <1>6, <1>7, <2>3, <2>4 DEF VersionsOK, Covered
<1> QED
  BY <1>8, <1>9, <1>10

\* A step that changes neither files nor what is being staged.
LEMMA StillVersions ==
    ASSUME Setting, CalmKernel, file' = file,
           active' \in {active, candidate, NoTracked}, candidate' \in {candidate, NoTracked},
           pc' \notin Replacing \/ (candidate' = NoTracked /\ pc' # "populate")
    PROVE  VersionsOK'
<1>1. Retains(active') /\ Retains(candidate')
  BY Empty DEF Retains
<1>2. /\ file' \in [Directions -> Lists]
      /\ \A d \in Directions : file'[d].ver >= file[d].ver
  BY VersionTypes DEF Setting, Context, Shape, DaemonTypeOK
<1> QED
  BY <1>1, <1>2, CalmVersions

LEMMA ProcessVersions ==
    ASSUME Setting, \/ Start \/ CheckFlowtables \/ CheckLayout \/ Bootstrap
                    \/ Exit \/ DeleteTable \/ Crash \/ Stop
    PROVE  VersionsOK'
<1> USE DEF Replacing
<1>1. file' = file /\ Context
  BY DEF Setting, Start, CheckFlowtables, CheckLayout, Bootstrap, Exit, DeleteTable, Crash, Stop,
     environment
<1>2. CalmKernel
  BY <1>1, StillCalm, AddTableCalm, DropTableCalm
     DEF Start, CheckFlowtables, CheckLayout, Bootstrap, Exit, DeleteTable, Crash, Stop, Transaction
<1>3. active' \in {active, NoTracked} /\ candidate' \in {candidate, NoTracked}
  BY DEF Start, CheckFlowtables, CheckLayout, Bootstrap, Exit, DeleteTable, Crash, Stop, Transaction,
     Dump, Down, Replace, work
<1>4. pc' \notin Replacing \/ (pc' = "begin" /\ candidate' = NoTracked)
  BY DEF Start, CheckFlowtables, CheckLayout, Bootstrap, Exit, DeleteTable, Crash, Stop, Transaction,
     Dump, Down, Replace, Abort
<1> QED
  BY <1>1, <1>2, <1>3, <1>4, StillVersions

LEMMA LoopVersions ==
    ASSUME Setting,
           \/ InstallWatcher \/ Reconcile \/ ReconcileLayout \/ ReconcileBootstrap
           \/ ReconcileHealth \/ RepairRules \/ \E d \in Directions : Reload(d)
    PROVE  VersionsOK'
<1> USE DEF Replacing
<1>1. file' = file /\ Context
  BY DEF Setting, InstallWatcher, Reconcile, ReconcileLayout, ReconcileBootstrap, ReconcileHealth,
     RepairRules, Reload, environment
<1>2. CalmKernel
  BY <1>1, StillCalm, AddTableCalm, ReplaceRulesCalm
     DEF InstallWatcher, Reconcile, ReconcileLayout, ReconcileBootstrap, ReconcileHealth,
     RepairRules, Reload, Transaction
<1>3. active' \in {active, NoTracked} /\ candidate' \in {candidate, NoTracked}
  BY DEF InstallWatcher, Reconcile, ReconcileLayout, ReconcileBootstrap, ReconcileHealth,
     RepairRules, Reload, Transaction, Dump, Replace, work
<1>4. pc' \notin Replacing \/ (pc' = "begin" /\ candidate' = NoTracked)
  BY DEF InstallWatcher, Reconcile, ReconcileLayout, ReconcileBootstrap, ReconcileHealth,
     RepairRules, Reload, Transaction, Dump, Replace
<1> QED
  BY <1>1, <1>2, <1>3, <1>4, StillVersions

LEMMA ReplacementVersions ==
    ASSUME Setting,
           VerifyCandidate \/ ActivateInitial \/ ActivateDirection \/ CleanupObsolete \/ Discard
    PROVE  VersionsOK'
<1> USE DEF Replacing
<1>1. file' = file /\ Context
  BY DEF Setting, VerifyCandidate, ActivateInitial, ActivateDirection, CleanupObsolete, Discard,
     environment
<1>2. CASE VerifyCandidate /\ pc' = "activate"
  <2>1. UNCHANGED <<kernel, file, active, todo, stage, candidate>> /\ pc = "verify"
    BY <1>2 DEF VerifyCandidate, Dump, Discarding, work, environment
  <2> QED
    BY <1>2, <2>1 DEF kernel, Setting, EInv, VersionsOK, NotNewer, Covered, Initial
<1>3. CASE VerifyCandidate /\ pc' # "activate"
  BY <1>1, <1>3, StillCalm, StillVersions DEF VerifyCandidate, Dump, Discarding
<1>4. CASE ActivateInitial
  <2>1. CalmKernel
    BY <1>1, <1>4, StillCalm, ReplaceRulesCalm DEF ActivateInitial, Transaction
  <2> QED
    BY <1>1, <1>4, <2>1, StillVersions
       DEF ActivateInitial, Transaction, Activated, NotActivated, Discarding, work
<1>5. CASE ActivateDirection
  <2>1. Head(todo) \in Covered(candidate)
    BY <1>5 DEF ActivateDirection, Setting, Context, Shape, DaemonTypeOK, WorkOK, Covered
  <2>2. CalmKernel
    BY <1>1, <1>5, <2>1, StillCalm, ReplaceDispatchCalm DEF ActivateDirection, Transaction
  <2> QED
    BY <1>1, <1>5, <2>2, StillVersions
       DEF ActivateDirection, Transaction, Activated, NotActivated, Discarding, work
<1>6. CASE CleanupObsolete
  <2>1. CalmKernel
    BY <1>1, <1>6, StillCalm, DeleteSetsCalm DEF CleanupObsolete, Transaction
  <2> QED
    BY <1>1, <1>6, <2>1, StillVersions
       DEF CleanupObsolete, Transaction, Replace, Succeed, Leave
<1>7. CASE Discard
  <2>1. CalmKernel
    BY <1>1, <1>7, StillCalm, DeleteSetsCalm DEF Discard, Transaction
  <2> QED
    BY <1>1, <1>7, <2>1, StillVersions DEF Discard, Transaction, Fail, Leave
<1> QED
  BY <1>2, <1>3, <1>4, <1>5, <1>6, <1>7

\* The stage is what the file holds now, and what is looked up is no newer.
LEMMA BeginStageVersions ==
    ASSUME Setting, BeginStage
    PROVE  VersionsOK'
<1> DEFINE d == Head(todo)
           list == file[d]
           g == <<d, next>>
<1>1. /\ pc = "begin" /\ active' = active /\ file' = file /\ Context
      /\ candidate \in [Directions -> Tracked \cup {None}]
  BY DEF BeginStage, environment, Setting, Context, Shape, DaemonTypeOK
<1>2. CASE StageFailed(Iter(candidate)) /\ UNCHANGED kernel
  BY <1>1, <1>2, StillCalm, StillVersions DEF StageFailed, Discarding, Fail, Leave, Replacing
<1>3. CASE /\ ~(list.shape \in Missing \/ Exhausted) /\ AddSets(g, list)
           /\ \/ StageFailed(Iter(candidate))
              \/ /\ pc' = "populate"
                 /\ stage' = [gen |-> g, list |-> list, sent |-> 0]
                 /\ UNCHANGED <<todo, candidate, junk>>
  <2>1. d \in Directions /\ list \in Lists
    BY DEF BeginStage, Setting, Context, Shape, WorkOK, DaemonTypeOK
  <2>2. g \in Gens /\ g[2] = next /\ next \in Nat
    BY <1>3, <2>1, TableAssumption DEF Exhausted, Setting, Context, Shape, DaemonTypeOK, Gens
  <2>3. g \notin sets
    BY <1>1, <2>2 DEF Setting, EInv, IInv, NumbersFresh
  <2>4. /\ sets' = sets \cup {g} /\ dispatch' = dispatch
        /\ \A x \in Gens : source'[x] = IF x = g THEN list ELSE source[x]
        /\ sets \subseteq Gens
    BY <1>3 DEF AddSets, Setting, Context, KernelTypeOK
  <2>5. /\ \A x \in Covered(active) : active[x].gen # g
        /\ \A x \in Covered(candidate) : candidate[x].gen # g
        /\ \A x \in Directions : dispatch[x] # None => dispatch[x] \in sets
    BY <2>2 DEF Setting, EInv, IInv, TrackedOK, EnforcedComplete
  <2>6. candidate' \in {candidate, NoTracked} /\ pc' \in {"populate", "watch", "exit", "discard"}
    BY <1>3 DEF StageFailed, Discarding, Fail, Leave
  <2>7. \A x \in sets' : source'[x] \in Lists
    BY <2>1, <2>2, <2>4, VersionTypes
  <2>8. /\ \A x \in Directions : dispatch'[x] # None => NotNewer(dispatch[x], x)'
        /\ \A x \in Covered(active') : NotNewer(active[x].gen, x)'
    BY <1>1, <2>3, <2>4, <2>5 DEF Setting, EInv, VersionsOK, NotNewer, Covered
  <2>9. \A x \in Covered(candidate') : NotNewer(candidate[x].gen, x)'
    <3>1. CASE candidate' = candidate
      BY <1>1, <2>3, <2>4, <2>5, <3>1 DEF Setting, EInv, VersionsOK, NotNewer, Covered
    <3>2. CASE candidate' = NoTracked
      BY <3>2, Empty
    <3> QED
      BY <2>6, <3>1, <3>2
  <2>10. CASE pc' # "populate"
    BY <2>6, <2>7, <2>8, <2>9, <2>10 DEF VersionsOK, Covered
  <2>11. CASE pc' = "populate" /\ stage' = [gen |-> g, list |-> list, sent |-> 0]
              /\ UNCHANGED <<todo, candidate, junk>>
    <3>1. stage'.list = list /\ Head(todo') = d
      BY <2>11
    <3>2. list.ver <= file[d].ver
      BY <2>1, VersionTypes
    <3>3. dispatch[d] # None => source'[dispatch[d]].ver <= list.ver
      BY <2>1, <2>3, <2>4, <2>5 DEF Setting, EInv, VersionsOK, NotNewer
    <3>4. \A x \in Covered(candidate') :
            (Initial' \/ x = Head(todo')) /\ dispatch'[x] # None /\ candidate'[x].gen \in sets'
              => source'[dispatch'[x]].ver <= source'[candidate'[x].gen].ver
      <4> SUFFICES ASSUME NEW x \in Covered(candidate), Initial \/ x = d, dispatch[x] # None,
                          candidate[x].gen \in sets'
                   PROVE  source'[dispatch[x]].ver <= source'[candidate[x].gen].ver
        BY <1>1, <2>4, <2>11 DEF Initial, Covered
      <4>1. candidate[x].gen \in sets /\ dispatch[x] \in sets
        BY <2>4, <2>5 DEF Covered
      <4>2. source[dispatch[x]].ver <= source[candidate[x].gen].ver
        BY <1>1, <4>1 DEF Setting, EInv, VersionsOK
      <4> QED
        BY <2>3, <2>4, <4>1, <4>2
    <3> QED
      BY <1>1, <2>4, <2>7, <2>8, <2>9, <2>11, <3>1, <3>2, <3>3, <3>4 DEF VersionsOK, Covered
  <2> QED
    BY <1>3, <2>6, <2>10, <2>11 DEF StageFailed, Fail, Leave, Discarding
<1> QED
  BY <1>2, <1>3 DEF BeginStage, Transaction

LEMMA PopulateVersions ==
    ASSUME Setting, Populate
    PROVE  VersionsOK'
<1>1. /\ pc = "populate" /\ UNCHANGED <<sets, source, dispatch, file, active>>
      /\ stage \in Stages
  BY DEF Populate, Transaction, AddItems, kernel, environment, Setting, Context, Shape, WorkOK
<1>2. CASE pc' = "populate" /\ stage' = [stage EXCEPT !.sent = @ + 1]
           /\ UNCHANGED <<todo, candidate>>
  <2>1. stage'.list = stage.list
    BY <1>1, <1>2 DEF Stages
  <2> QED
    BY <1>1, <1>2, <2>1 DEF Setting, EInv, VersionsOK, NotNewer, Covered, Initial
<1>3. CASE pc' = "discard" /\ candidate' = NoTracked
  BY <1>1, <1>3, Empty DEF Setting, EInv, VersionsOK, NotNewer, Covered
<1> QED
  BY <1>2, <1>3 DEF Populate, Transaction, Discarding

LEMMA EndOfStreamVersions ==
    ASSUME Setting, EndOfStream
    PROVE  VersionsOK'
<1> DEFINE d == Head(todo)
           g == stage.gen
           tracked == [gen |-> g, count |-> stage.sent]
<1>1. /\ pc = "populate" /\ UNCHANGED kernel /\ active' = active /\ file' = file /\ Context
      /\ d \in Directions
      /\ active \in [Directions -> Tracked \cup {None}]
      /\ candidate \in [Directions -> Tracked \cup {None}]
  BY DEF EndOfStream, environment, Setting, Context, Shape, WorkOK, DaemonTypeOK
<1>2. CASE Discarding(<<g>> \o Iter(candidate))
  BY <1>1, <1>2, StillCalm, StillVersions DEF Discarding, Replacing
<1>3. CASE /\ pc' \in {"verify", "begin"}
           /\ \/ Initial /\ candidate' = [candidate EXCEPT ![d] = tracked]
              \/ /\ ~Initial /\ candidate' = [active EXCEPT ![d] = tracked]
                 /\ todo' = todo
  <2>1. /\ sets' = sets /\ source' = source /\ dispatch' = dispatch
        /\ Initial' = Initial
    BY <1>1 DEF kernel, Initial
  <2>2. /\ candidate'[d] = tracked
        /\ \A x \in Directions \ {d} :
             candidate'[x] = IF Initial THEN candidate[x] ELSE active[x]
    BY <1>1, <1>3
  <2>3. g \in sets => source[g] = stage.list
    BY <1>1 DEF Setting, EInv, IInv, StageOK
  <2>4. /\ stage.list.ver <= file[d].ver
        /\ dispatch[d] # None => source[dispatch[d]].ver <= stage.list.ver
    BY <1>1 DEF Setting, EInv, VersionsOK
  <2>5. \A x \in Covered(candidate') : NotNewer(candidate[x].gen, x)'
    BY <1>1, <2>1, <2>2, <2>3, <2>4 DEF NotNewer, Covered, Setting, EInv, VersionsOK
  <2>6. \A x \in Covered(candidate') :
          (Initial' \/ x = Head(todo')) /\ dispatch'[x] # None /\ candidate'[x].gen \in sets'
            => source'[dispatch'[x]].ver <= source'[candidate'[x].gen].ver
    BY <1>1, <1>3, <2>1, <2>2, <2>3, <2>4 DEF Covered, Setting, EInv, VersionsOK
  <2>7. /\ \A x \in sets' : source'[x] \in Lists
        /\ \A x \in Directions : dispatch'[x] # None => NotNewer(dispatch[x], x)'
        /\ \A x \in Covered(active') : NotNewer(active[x].gen, x)'
    BY <1>1, <2>1 DEF NotNewer, Covered, Setting, EInv, VersionsOK
  <2> QED
    BY <1>3, <2>5, <2>6, <2>7 DEF VersionsOK, Covered
<1> QED
  BY <1>2, <1>3 DEF EndOfStream

LEMMA EnvironmentVersions ==
    ASSUME Setting,
           Tamper \/ UNCHANGED vars \/ \E d \in Directions : FileChange(d) \/ FileEvent(d)
    PROVE  VersionsOK'
<1>1. UNCHANGED <<pc, active, todo, stage, candidate>>
  BY DEF Tamper, vars, FileChange, FileEvent, daemon, work
<1>2. UNCHANGED kernel \/ Tamper
  BY DEF vars, FileChange, FileEvent
<1>3. CalmKernel
  BY <1>2, StillCalm, TamperCalm DEF Setting
<1>4. \A d \in Directions : dispatch'[d] \in {dispatch[d], None}
  BY <1>2 DEF kernel, Tamper, DropTable, AddItems, DeleteSets
<1>5. file' \in [Directions -> Lists]
  BY DEF Setting, Shape, DaemonTypeOK
<1>6. \A d \in Directions : file'[d].ver >= file[d].ver
  <2>1. CASE file' = file
    BY <2>1, VersionTypes
  <2>2. ASSUME NEW x \in Directions, FileChange(x)
        PROVE  \A d \in Directions : file'[d].ver >= file[d].ver
    <3>1. PICK s \in Shapes : file' = [file EXCEPT ![x] = [ver |-> @.ver + 1, shape |-> s]]
      BY <2>2 DEF FileChange
    <3>2. file \in [Directions -> Lists] /\ \A d \in Directions : file[d].ver \in Nat
      BY VersionTypes DEF Setting, Context, Shape, DaemonTypeOK
    <3>3. \A d \in Directions :
            file'[d].ver = IF d = x THEN file[d].ver + 1 ELSE file[d].ver
      BY <3>1, <3>2
    <3> QED
      BY <3>2, <3>3
  <2> QED
    BY <2>1, <2>2 DEF Tamper, vars, environment, FileEvent
<1>7. Retains(active') /\ Retains(candidate')
  BY <1>1 DEF Retains
<1> QED
  BY <1>1, <1>3, <1>4, <1>5, <1>6, <1>7, CalmVersions

LEMMA VersionsKept ==
    ASSUME Setting, [Next]_vars
    PROVE  VersionsOK'
<1>1. CASE Busy
  BY <1>1, ProcessVersions, LoopVersions, ReplacementVersions, BeginStageVersions,
     PopulateVersions, EndOfStreamVersions DEF Busy
<1>2. CASE Start \/ Crash \/ Stop
  BY <1>2, ProcessVersions
<1>3. CASE Reconcile \/ \E d \in Directions : Reload(d)
  BY <1>3, LoopVersions
<1>4. CASE Tamper \/ UNCHANGED vars \/ \E d \in Directions : FileChange(d) \/ FileEvent(d)
  BY <1>4, EnvironmentVersions
<1> QED
  BY <1>1, <1>2, <1>3, <1>4 DEF Next

-----------------------------------------------------------------------------
(* Nothing is left over.                                                   *)

Working == {"populate", "verify", "activate", "cleanup", "discard"}

\* Nothing is promised of a process that does not watch, but at its last step.
LEMMA TidyUnwatched ==
    ASSUME ~watching', pc' # "install"
    PROVE  SetsTidy'
BY DEF SetsTidy

\* Steps between two replacements neither create nor track anything.
LEMMA TidyQuiet ==
    ASSUME Setting, UNCHANGED <<sets, active>>, pc \notin Working, pc' \notin Working,
           watching' => watching \/ pc = "install", pc' = "install" => pc = "install"
    PROVE  SetsTidy'
<1>1. GenerationsOf(active)' = GenerationsOf(active)
  BY DEF GenerationsOf, Covered
<1> QED
  BY <1>1 DEF Setting, Thrifty, EInv, SetsTidy, Working

\* Undisturbed, a daemon that watches has something to track, so that it
\* replaces one direction at a time.
LEMMA WatchingTracks ==
    ASSUME Setting, Undisturbed', watching
    PROVE  /\ Undisturbed /\ ~Initial
           /\ ~Spend("reject") /\ ~Spend("unacked")
           /\ Referenced = GenerationsOf(active)
           /\ GenerationsOf(active) \subseteq sets
           /\ pc \in {"begin", "populate"} => candidate = NoTracked
<1>1. Undisturbed /\ ~Initial /\ ~Spend("reject") /\ ~Spend("unacked")
  BY DEF Undisturbed, Setting, Thrifty, EInv, TableOK
<1>2. pc \in {"begin", "populate"} => candidate = NoTracked
  BY <1>1 DEF Setting, Context, Shape, WorkOK
<1> QED
  BY <1>1, <1>2, TrackedExist DEF Undisturbed, Setting

LEMMA ProcessTidy ==
    ASSUME Setting, \/ Start \/ CheckFlowtables \/ CheckLayout \/ Bootstrap
                    \/ Exit \/ DeleteTable \/ Crash \/ Stop
    PROVE  SetsTidy'
<1>1. pc \in {"down", "flow", "layout", "bootstrap"} => ~watching
  BY DEF Setting, Context, Shape, WorkOK
<1>2. CASE Start \/ CheckFlowtables \/ CheckLayout \/ Bootstrap
  BY <1>1, <1>2, TidyUnwatched
     DEF Start, CheckFlowtables, CheckLayout, Bootstrap, Dump, Transaction, Abort, Replace
<1>3. CASE Exit
  <2>1. CASE Down
    BY <2>1, TidyUnwatched DEF Down
  <2>2. CASE pc' = "exit_delete" /\ UNCHANGED <<next, active, process, watching, pending>>
    BY <1>3, <2>2, TidyQuiet DEF Exit, kernel, Working
  <2> QED
    BY <1>3, <2>1, <2>2 DEF Exit, Dump
<1>4. CASE DeleteTable \/ Crash \/ Stop
  BY <1>4, TidyUnwatched DEF DeleteTable, Crash, Stop, Transaction, Down
<1> QED
  BY <1>2, <1>3, <1>4

LEMMA LoopTidy ==
    ASSUME Setting,
           \/ InstallWatcher \/ Reconcile \/ ReconcileLayout \/ ReconcileBootstrap
           \/ ReconcileHealth \/ RepairRules \/ \E d \in Directions : Reload(d)
    PROVE  SetsTidy'
<1> USE DEF Working
<1>1. pc \notin Working /\ pc' \notin Working \cup {"install"}
      /\ (watching' => watching \/ pc = "install")
  BY DEF InstallWatcher, Reconcile, ReconcileLayout, ReconcileBootstrap, ReconcileHealth,
     RepairRules, Reload, Replace, Dump, Transaction
<1>2. CASE ReconcileBootstrap
  BY <1>2 DEF ReconcileBootstrap, Setting, Thrifty, EInv, TableOK, SetsTidy
<1>3. CASE ~ReconcileBootstrap
  <2>1. UNCHANGED <<sets, active>>
    BY <1>3 DEF InstallWatcher, Reconcile, ReconcileLayout, ReconcileHealth, RepairRules, Reload,
       Transaction, ReplaceRules, kernel
  <2> QED
    BY <1>1, <2>1, TidyQuiet
<1> QED
  BY <1>2, <1>3

\* A single direction is staged on top of what is tracked, and a stage that
\* fails is the only thing to discard.
LEMMA StagingTidy ==
    ASSUME Setting, BeginStage \/ Populate \/ EndOfStream
    PROVE  SetsTidy'
<1> DEFINE d == Head(todo)
<1>0. watching' = watching /\ active' = active /\ pc \in {"begin", "populate"}
      /\ pc' # "install"
  BY DEF BeginStage, Populate, EndOfStream, Setting, Context, Shape, WorkOK, Transaction,
     StageFailed, Fail, Leave, Discarding
<1> SUFFICES ASSUME watching, Undisturbed'
             PROVE  SetsTidy'
  BY <1>0, TidyUnwatched DEF SetsTidy, Undisturbed
<1>1. /\ Undisturbed /\ ~Initial /\ ~Spend("reject") /\ ~Spend("unacked")
      /\ Referenced = GenerationsOf(active) /\ candidate = NoTracked
  BY <1>0, WatchingTracks
<1>2. Iter(candidate) = <<>>
  BY <1>1 DEF Iter, NoTracked, Directions
<1>3. GenerationsOf(active)' = GenerationsOf(active)
  BY <1>0 DEF GenerationsOf, Covered
<1>4. CASE BeginStage
  <2>1. sets = GenerationsOf(active)
    BY <1>1, <1>4 DEF BeginStage, Undisturbed, Setting, EInv, SetsTidy
  <2>2. CASE pc' = "watch" /\ UNCHANGED kernel
    BY <1>3, <2>1, <2>2 DEF SetsTidy, kernel
  <2>3. CASE AddSets(<<d, next>>, file[d]) /\ pc' = "populate"
             /\ stage' = [gen |-> <<d, next>>, list |-> file[d], sent |-> 0]
    <3>1. sets' = sets \cup {stage'.gen}
      BY <2>3 DEF AddSets
    <3> QED
      BY <1>3, <2>1, <2>3, <3>1 DEF SetsTidy
  <2> QED
    BY <1>0, <1>1, <1>2, <1>4, <2>2, <2>3 DEF BeginStage, Transaction, StageFailed, Fail, Leave
<1>5. ASSUME sets' = sets, dispatch' = dispatch, pc = "populate",
             Discarding(<<stage.gen>> \o Iter(candidate))
      PROVE  SetsTidy'
  <2>1. stage.gen \in Gens /\ stage.gen \notin Referenced
        /\ sets = GenerationsOf(active) \cup {stage.gen}
    BY <1>1, <1>5 DEF Undisturbed, Setting, EInv, SetsTidy, IInv, StageOK, Context, Shape, WorkOK,
       Stages
  <2>2. junk' = <<stage.gen>> /\ pc' = "discard"
    <3>1. <<stage.gen>> \o <<>> = <<stage.gen>>
      OBVIOUS
    <3> QED
      BY <1>2, <1>5, <3>1 DEF Discarding
  <2>3. Len(junk') = 1 /\ junk'[1] = stage.gen
    BY <2>2
  <2>4. Referenced' = Referenced
    BY <1>5 DEF Referenced
  <2> QED
    BY <1>3, <1>5, <2>1, <2>2, <2>3, <2>4 DEF SetsTidy
<1>6. CASE Populate
  <2>1. pc = "populate" /\ sets' = sets /\ dispatch' = dispatch /\ stage \in Stages
    BY <1>6 DEF Populate, Transaction, AddItems, kernel, Setting, Context, Shape, WorkOK
  <2>2. CASE stage' = [stage EXCEPT !.sent = @ + 1] /\ pc' = pc
    <3>1. stage'.gen = stage.gen
      BY <2>1, <2>2 DEF Stages
    <3> QED
      BY <1>1, <1>3, <2>1, <2>2, <3>1 DEF Undisturbed, Setting, EInv, SetsTidy
  <2> QED
    BY <1>5, <1>6, <2>1, <2>2 DEF Populate, Transaction
<1>7. CASE EndOfStream
  <2>1. pc = "populate" /\ sets' = sets /\ dispatch' = dispatch /\ d \in Directions
        /\ active \in [Directions -> Tracked \cup {None}]
    BY <1>7 DEF EndOfStream, kernel, Setting, Context, Shape, WorkOK, DaemonTypeOK
  <2>2. CASE /\ candidate' = [active EXCEPT ![d] = [gen |-> stage.gen, count |-> stage.sent]]
             /\ todo' = todo /\ pc' = "verify"
    <3>1. candidate'[Head(todo')].gen = stage.gen
      BY <2>1, <2>2
    <3>2. Referenced' = Referenced /\ stage.gen \notin Referenced
      BY <2>1 DEF Referenced, Setting, EInv, IInv, StageOK
    <3>3. sets = GenerationsOf(active) \cup {stage.gen}
      BY <1>1, <2>1 DEF Undisturbed, Setting, EInv, SetsTidy
    <3> QED
      BY <1>3, <2>1, <2>2, <3>1, <3>2, <3>3 DEF SetsTidy
  <2> QED
    BY <1>1, <1>5, <1>7, <2>1, <2>2 DEF EndOfStream
<1> QED
  BY <1>4, <1>6, <1>7

\* What is activated replaces the tracked generation of the same direction.
LEMMA ActivationTidy ==
    ASSUME Setting, VerifyCandidate \/ ActivateInitial \/ ActivateDirection
    PROVE  SetsTidy'
<1> DEFINE d == Head(todo)
           g == candidate[d].gen
<1>0. /\ watching' = watching /\ pc \in {"verify", "activate"} /\ pc' # "install"
      /\ sets' = sets
  BY DEF VerifyCandidate, ActivateInitial, ActivateDirection, Dump, Transaction, Activated,
     NotActivated, Discarding, ReplaceRules, ReplaceDispatch, kernel
<1> SUFFICES ASSUME watching, Undisturbed'
             PROVE  SetsTidy'
  BY <1>0, TidyUnwatched DEF SetsTidy, Undisturbed
<1>1. /\ Undisturbed /\ ~Initial /\ ~Spend("reject") /\ ~Spend("unacked")
      /\ Referenced = GenerationsOf(active)
  BY WatchingTracks
<1>2. sets = GenerationsOf(active) \cup {g} /\ g \notin Referenced
  BY <1>0, <1>1 DEF Undisturbed, Setting, EInv, SetsTidy
<1>3. CASE UNCHANGED <<dispatch, active>> /\ Discarding(Fresh)
  <2>1. Len(junk') = 1 /\ junk'[1] = g /\ pc' = "discard"
    BY <1>1, <1>3 DEF Discarding, Fresh
  <2>2. Referenced' = Referenced /\ GenerationsOf(active)' = GenerationsOf(active)
    BY <1>3 DEF Referenced, GenerationsOf, Covered
  <2> QED
    BY <1>0, <1>2, <2>1, <2>2 DEF SetsTidy
<1>4. CASE UNCHANGED <<dispatch, active, todo, candidate>> /\ pc' = "activate"
  <2>1. Referenced' = Referenced /\ GenerationsOf(active)' = GenerationsOf(active)
    BY <1>4 DEF Referenced, GenerationsOf, Covered
  <2> QED
    BY <1>0, <1>2, <1>4, <2>1 DEF SetsTidy
<1>5. CASE Activated
  <2>1. active' = candidate /\ pc' = "cleanup" /\ todo' = todo
    BY <1>5 DEF Activated, work
  <2>2. \A x \in Directions \ {d} : candidate[x] = active[x]
    BY <1>0, <1>1 DEF Setting, EInv, PlanOK
  <2>3. d \in Covered(candidate) /\ \A x \in Covered(active) : active[x].gen[1] = x
    BY <1>0, <1>1 DEF Covered, Setting, Context, Shape, WorkOK, DaemonTypeOK, IInv, TrackedOK
  <2>4. ASSUME NEW h \in sets, h \notin GenerationsOf(candidate)
        PROVE  h[1] = d
    <3>1. h # g
      BY <2>3, <2>4 DEF GenerationsOf
    <3>2. PICK x \in Covered(active) : h = active[x].gen
      BY <1>2, <3>1 DEF GenerationsOf
    <3>3. x = d
      BY <2>2, <2>4, <3>2 DEF GenerationsOf, Covered
    <3> QED
      BY <2>3, <3>2, <3>3
  <2>5. \A h \in Obsolete' : h[1] = Head(todo')
    BY <1>0, <2>1, <2>4 DEF Obsolete, GenerationsOf
  <2> QED
    BY <2>1, <2>5 DEF SetsTidy
<1> QED
  BY <1>1, <1>3, <1>4, <1>5 DEF VerifyCandidate, ActivateInitial, ActivateDirection, Dump,
     Transaction, NotActivated, kernel, work

\* The kernel has no reason to refuse: what is deleted exists and is not looked
\* up.
LEMMA CleanupTidy ==
    ASSUME Setting, CleanupObsolete
    PROVE  SetsTidy'
<1> SUFFICES ASSUME Undisturbed'
             PROVE  SetsTidy'
  BY DEF SetsTidy, Undisturbed
<1>1. /\ pc = "cleanup" /\ ~Initial /\ active' = active /\ pc' \in {"begin", "watch", "install"}
      /\ ~Spend("reject") /\ ~Spend("unacked") /\ Undisturbed
  BY DEF CleanupObsolete, Undisturbed, Setting, Thrifty, EInv, PlanOK, Transaction, Replace,
     Succeed, Leave
<1>2. Referenced = GenerationsOf(active) /\ GenerationsOf(active) \subseteq sets
  BY <1>1, TrackedExist DEF Undisturbed, Setting
<1>3. Obsolete = sets \ GenerationsOf(active)
  BY DEF Obsolete, GenerationsOf
<1>4. CanDeleteSets(Obsolete)
  BY <1>2, <1>3 DEF CanDeleteSets
<1>5. sets' = sets \ Obsolete
  BY <1>1, <1>4 DEF CleanupObsolete, Transaction, DeleteSets
<1>6. sets' = GenerationsOf(active)'
  BY <1>1, <1>2, <1>3, <1>5 DEF GenerationsOf, Covered
<1> QED
  BY <1>1, <1>6 DEF SetsTidy

LEMMA DiscardTidy ==
    ASSUME Setting, Discard
    PROVE  SetsTidy'
<1>0. watching' = watching /\ active' = active /\ pc = "discard"
      /\ pc' \in {"discard", "watch", "exit"}
  BY DEF Discard, Transaction, Fail, Leave
<1> SUFFICES ASSUME watching, Undisturbed'
             PROVE  SetsTidy'
  BY <1>0, TidyUnwatched DEF SetsTidy, Undisturbed
<1>1. /\ Undisturbed /\ ~Spend("reject") /\ ~Spend("unacked")
      /\ Referenced = GenerationsOf(active)
  BY WatchingTracks
<1>2. Len(junk) = 1 /\ junk[1] \notin Referenced
      /\ sets = GenerationsOf(active) \cup {junk[1]}
  BY <1>0, <1>1 DEF Undisturbed, Setting, EInv, SetsTidy
<1>3. Head(junk) = junk[1] /\ ~(Len(junk) > 1)
  BY <1>2
<1>4. CanDeleteSets({junk[1]})
  BY <1>2 DEF CanDeleteSets
<1>5. sets' = sets \ {junk[1]} /\ pc' = "watch"
  BY <1>1, <1>3, <1>4 DEF Discard, Transaction, DeleteSets, Fail, Leave
<1>6. sets' = GenerationsOf(active)'
  BY <1>0, <1>1, <1>2, <1>5 DEF GenerationsOf, Covered
<1> QED
  BY <1>5, <1>6 DEF SetsTidy

LEMMA EnvironmentTidy ==
    ASSUME Setting,
           Tamper \/ UNCHANGED vars \/ \E d \in Directions : FileChange(d) \/ FileEvent(d)
    PROVE  SetsTidy'
<1>1. CASE Tamper
  BY <1>1 DEF Tamper, SetsTidy, Setting, Thrifty
<1>2. CASE ~Tamper
  <2>1. UNCHANGED <<kernel, pc, active, todo, stage, candidate, junk, watching>>
    BY <1>2 DEF vars, daemon, work, FileChange, FileEvent
  <2>2. /\ GenerationsOf(active)' = GenerationsOf(active) /\ Referenced' = Referenced
        /\ Obsolete' = Obsolete
    BY <2>1 DEF GenerationsOf, Covered, Referenced, Obsolete, kernel
  <2> QED
    BY <2>1, <2>2 DEF kernel, Setting, Thrifty, EInv, SetsTidy
<1> QED
  BY <1>1, <1>2

LEMMA TidyKept ==
    ASSUME Setting, [Next]_vars
    PROVE  SetsTidy'
<1>1. CASE Busy
  BY <1>1, ProcessTidy, LoopTidy, StagingTidy, ActivationTidy, CleanupTidy, DiscardTidy DEF Busy
<1>2. CASE Start \/ Crash \/ Stop
  BY <1>2, ProcessTidy
<1>3. CASE Reconcile \/ \E d \in Directions : Reload(d)
  BY <1>3, LoopTidy
<1>4. CASE Tamper \/ UNCHANGED vars \/ \E d \in Directions : FileChange(d) \/ FileEvent(d)
  BY <1>4, EnvironmentTidy
<1> QED
  BY <1>1, <1>2, <1>3, <1>4 DEF Next

-----------------------------------------------------------------------------
(* The invariant, and what follows from it.                                *)

LEMMA InitEnforced == Init => EInv
<1> SUFFICES ASSUME Init PROVE EInv
  OBVIOUS
<1>1. IInv
  BY InitSafe
<1>2. BudgetOK
  BY DaemonAssumption DEF Init, BudgetOK
<1>3. PlanOK /\ TableOK /\ SetsTidy
  BY DEF Init, PlanOK, TableOK, SetsTidy, Initial
<1>4. VersionsOK
  BY Empty DEF Init, Absent, Foreign, VersionsOK
<1> QED
  BY <1>1, <1>2, <1>3, <1>4 DEF EInv

LEMMA StepSetting == EInv /\ [Next]_vars => Setting /\ IInv' /\ BudgetOK'
<1> SUFFICES ASSUME EInv, [Next]_vars PROVE Setting /\ IInv' /\ BudgetOK'
  OBVIOUS
<1>1. Context
  BY DEF EInv, Context, IInv, TypeOK, Shape
<1>2. Shape' /\ KernelTypeOK'
  BY <1>1, ShapeStep, KernelType DEF Context
<1>3. BudgetOK' /\ Thrifty
  BY BudgetAlways, BudgetKept
<1>4. IInv'
  BY StepSafe DEF EInv
<1> QED
  BY <1>1, <1>2, <1>3, <1>4 DEF Setting

LEMMA StepEnforced == EInv /\ [Next]_vars => EInv'
BY StepSetting, PlanKept, TableKept, VersionsKept, TidyKept DEF EInv

\* The strengthened invariant holds throughout: with it, everything that the
\* properties below say of one state.
THEOREM InvariantHolds == Spec => []EInv
BY InitEnforced, StepEnforced, PTL DEF Spec

\* Unless an activation's answer was lost or another program interfered, the
\* generations the daemon tracks while it watches are the ones looked up.
THEOREM TrackingIsTruthful == Spec => []TrackedIsEnforced
<1>1. EInv => TrackedIsEnforced
  BY DEF EInv, TableOK, TrackedIsEnforced
<1> QED
  BY <1>1, InvariantHolds, PTL

\* Whatever is refused, lost, killed or restarted: a daemon that watches
\* enforces a list for every direction it is configured for.
THEOREM WatchedMeansProtected == Spec => []ProtectedWhileWatching
<1>1. EInv => ProtectedWhileWatching
  BY DEF EInv, TableOK, ProtectedWhileWatching, Enforced
<1> QED
  BY <1>1, InvariantHolds, PTL

\* Every generation staged by this or an earlier process is activated or
\* deleted before the event loop waits again, if nothing was refused.
THEOREM NothingLeaks == Spec => []NoLeakAtRest
<1>1. EInv => NoLeakAtRest
  <2> SUFFICES ASSUME EInv, pc = "watch", Unspent("tamper"), Unspent("reject"),
                      Unspent("unacked")
               PROVE  sets = {active[d].gen : d \in Covered(active)}
    BY DEF NoLeakAtRest
  <2>1. watching
    BY DEF EInv, PlanOK
  <2> QED
    BY <2>1 DEF EInv, SetsTidy, GenerationsOf
<1> QED
  BY <1>1, InvariantHolds, PTL

\* Two generations of one direction cannot both be tracked.
LEMMA HeldTwiceAt ==
    ASSUME EInv, NEW x, \A g \in sets \ GenerationsOf(active) : g[1] = x
    PROVE  HeldTwice \subseteq {x}
<1> SUFFICES ASSUME NEW d \in Directions, NEW g \in sets, NEW h \in sets,
                    g # h, g[1] = d, h[1] = d, d # x
             PROVE  FALSE
  BY DEF HeldTwice
<1>1. g \in GenerationsOf(active) /\ h \in GenerationsOf(active)
  OBVIOUS
<1>2. \A c \in Covered(active) : active[c].gen[1] = c
  BY DEF EInv, IInv, TrackedOK
<1>3. g = active[d].gen /\ h = active[d].gen
  BY <1>1, <1>2 DEF GenerationsOf
<1> QED
  BY <1>3

\* While the daemon watches undisturbed, two generations are held of at most
\* one direction: a reload stages, activates and cleans up before the next.
THEOREM SequentialReplacement == Spec => []OneDirectionWhileWatching
<1>1. EInv => OneDirectionWhileWatching
  <2> SUFFICES ASSUME EInv, watching, Unspent("tamper"), Unspent("reject"), Unspent("unacked")
               PROVE  Cardinality(HeldTwice) <= 1
    BY DEF OneDirectionWhileWatching, OneDirectionAtATime
  <2> DEFINE Extra(x) == \A g \in sets \ GenerationsOf(active) : g[1] = x
  <2>1. \E x : Extra(x)
    <3>1. CASE pc \notin {"populate", "verify", "activate", "cleanup", "discard"}
      BY <3>1 DEF EInv, SetsTidy
    <3>2. CASE pc = "populate"
      <4>1. Extra(stage.gen[1])
        BY <3>2 DEF EInv, SetsTidy
      <4> QED
        BY <4>1
    <3>3. CASE pc \in {"verify", "activate"}
      <4>1. Extra(candidate[Head(todo)].gen[1])
        BY <3>3 DEF EInv, SetsTidy
      <4> QED
        BY <4>1
    <3>4. CASE pc = "cleanup"
      <4>1. Extra(Head(todo))
        BY <3>4 DEF EInv, SetsTidy, Obsolete, GenerationsOf
      <4> QED
        BY <4>1
    <3>5. CASE pc = "discard"
      <4>1. Extra(junk[1][1])
        BY <3>5 DEF EInv, SetsTidy
      <4> QED
        BY <4>1
    <3> QED
      BY <3>1, <3>2, <3>3, <3>4, <3>5
  <2>2. PICK x : Extra(x)
    BY <2>1
  <2>3. HeldTwice \subseteq {x}
    BY <2>2, HeldTwiceAt
  <2>4. IsFiniteSet({x}) /\ Cardinality({x}) = 1
    BY FS_Singleton
  <2>5. Cardinality(HeldTwice) <= Cardinality({x})
    BY <2>3, <2>4, FS_Subset
  <2> QED
    BY <2>4, <2>5
<1> QED
  BY <1>1, InvariantHolds, PTL

-----------------------------------------------------------------------------
(* What a step may never do.                                               *)

Forward ==
    \A d \in used \cap used' :
        Enforced(d) /\ table' # "absent" /\ Unspent("tamper")' /\ Unspent("unacked")
          => Enforced(d)' /\ EnforcedVersion(d)' >= EnforcedVersion(d)

\* Lookups that do not move keep what they look up.
LEMMA LookupsStay ==
    ASSUME Setting, dispatch' = dispatch, base => base',
           \A d \in Directions : dispatch[d] # None => source'[dispatch[d]] = source[dispatch[d]]
    PROVE  Forward
<1> SUFFICES ASSUME NEW d \in used, Enforced(d)
             PROVE  Enforced(d)' /\ EnforcedVersion(d)' >= EnforcedVersion(d)
  BY DEF Forward
<1>1. d \in Directions /\ dispatch[d] # None /\ base
  BY DEF Enforced, Setting, Context, Shape, DaemonTypeOK
<1>2. dispatch[d] \in sets /\ source[dispatch[d]].ver \in Nat
  BY <1>1, VersionTypes DEF Setting, EInv, IInv, EnforcedComplete
<1> QED
  BY <1>1, <1>2 DEF Enforced, EnforcedVersion

LEMMA KernelStays == Setting /\ UNCHANGED kernel => Forward
BY LookupsStay DEF kernel

LEMMA StagingForward ==
    ASSUME Setting, \/ Bootstrap \/ ReconcileBootstrap \/ BeginStage \/ Populate
                    \/ CleanupObsolete \/ Discard
    PROVE  Forward
<1>1. \A d \in Directions : dispatch[d] # None =>
        dispatch[d] \in sets /\ dispatch[d] \in Gens /\ dispatch[d] \in Referenced
  BY DEF Setting, EInv, IInv, EnforcedComplete, Context, KernelTypeOK, Referenced
<1>2. CASE AddTable
  BY <1>2, LookupsStay DEF AddTable
<1>3. CASE BeginStage /\ AddSets(<<Head(todo), next>>, file[Head(todo)])
  <2>1. /\ \A g \in sets : g[2] < next
        /\ next \in Nat
    BY <1>3, TableAssumption
       DEF BeginStage, Setting, EInv, IInv, NumbersFresh, Context, Shape, DaemonTypeOK
  <2>2. <<Head(todo), next>> \notin sets
    BY <2>1
  <2> QED
    BY <1>1, <1>3, <2>2, LookupsStay DEF AddSets, Setting, Context, KernelTypeOK
<1>4. CASE dispatch' = dispatch /\ base' = base /\ source' = source
  BY <1>4, LookupsStay
<1>5. ASSUME NEW G, CanDeleteSets(G), DeleteSets(G)
      PROVE  Forward
  BY <1>1, <1>5, LookupsStay DEF CanDeleteSets, DeleteSets
<1> QED
  BY <1>2, <1>3, <1>4, <1>5, KernelStays
     DEF Bootstrap, ReconcileBootstrap, BeginStage, Populate, CleanupObsolete, Discard, Transaction,
         AddItems

\* Only here do lookups move: to what was staged last for the direction.
LEMMA ActivationForward ==
    ASSUME Setting, ActivateInitial \/ ActivateDirection
    PROVE  Forward
<1>1. pc = "activate" /\ candidate \in [Directions -> Tracked \cup {None}] /\ used \subseteq Directions
  BY DEF ActivateInitial, ActivateDirection, Setting, Context, Shape, DaemonTypeOK
<1>2. \A d \in Covered(candidate) : candidate[d].gen # None
  BY <1>1, NoneAssumption DEF Covered, Tracked
<1>3. ASSUME NEW d \in Covered(candidate), Initial \/ d = Head(todo), Enforced(d),
             candidate[d].gen \in sets
      PROVE  source[candidate[d].gen].ver >= EnforcedVersion(d)
  <2>1. dispatch[d] \in sets /\ d \in Directions
    BY <1>3 DEF Enforced, Covered, Setting, EInv, IInv, EnforcedComplete
  <2>2. source[dispatch[d]].ver <= source[candidate[d].gen].ver
    BY <1>1, <1>3 DEF Enforced, Setting, EInv, VersionsOK
  <2> QED
    BY <1>3, <2>1, <2>2, VersionTypes DEF EnforcedVersion
<1>4. CASE ActivateInitial /\ CanReplaceRules(GenOf(candidate)) /\ ReplaceRules(GenOf(candidate))
  <2>1. Initial /\ Covered(candidate) = used
    BY <1>1, <1>4 DEF ActivateInitial, Setting, EInv, PlanOK
  <2> SUFFICES ASSUME NEW d \in used, Enforced(d)
               PROVE  Enforced(d)' /\ EnforcedVersion(d)' >= EnforcedVersion(d)
    BY DEF Forward
  <2>2. d \in Covered(candidate) /\ GenOf(candidate)[d] = candidate[d].gen
    BY <1>1, <2>1 DEF GenOf, Covered
  <2>3. candidate[d].gen # None /\ candidate[d].gen \in sets
    BY <1>1, <1>2, <1>4, <2>2 DEF CanReplaceRules
  <2>4. base' /\ dispatch'[d] = candidate[d].gen /\ source' = source
    BY <1>4, <2>2 DEF ReplaceRules
  <2> QED
    BY <1>3, <2>1, <2>2, <2>3, <2>4 DEF Enforced, EnforcedVersion
<1>5. CASE /\ ActivateDirection /\ CanReplaceDispatch(candidate[Head(todo)].gen)
           /\ ReplaceDispatch(Head(todo), candidate[Head(todo)].gen)
  <2>1. Head(todo) \in Covered(candidate)
    BY <1>1, <1>5 DEF ActivateDirection, Setting, Context, Shape, WorkOK, DaemonTypeOK, Covered
  <2> SUFFICES ASSUME NEW d \in used, Enforced(d)
               PROVE  Enforced(d)' /\ EnforcedVersion(d)' >= EnforcedVersion(d)
    BY DEF Forward
  <2>2. /\ base' = base /\ source' = source /\ d \in Directions
        /\ dispatch'[d] = IF d = Head(todo) THEN candidate[d].gen ELSE dispatch[d]
    BY <1>1, <1>5 DEF ReplaceDispatch, Setting, Context, KernelTypeOK
  <2>3. CASE d = Head(todo)
    BY <1>2, <1>3, <1>5, <2>1, <2>2, <2>3 DEF Enforced, EnforcedVersion, CanReplaceDispatch
  <2>4. CASE d # Head(todo)
    <3>1. source[dispatch[d]].ver \in Nat
      BY <2>2, VersionTypes DEF Enforced, Setting, EInv, IInv, EnforcedComplete
    <3> QED
      BY <2>2, <2>4, <3>1 DEF Enforced, EnforcedVersion
  <2> QED
    BY <2>3, <2>4
<1> QED
  BY <1>4, <1>5, KernelStays DEF ActivateInitial, ActivateDirection, Transaction

\* A repair of an acknowledged table writes what is there.
LEMMA RepairForward == Setting /\ RepairRules => Forward
<1> SUFFICES ASSUME Setting, RepairRules PROVE Forward
  OBVIOUS
<1>1. CASE UNCHANGED kernel
  BY <1>1, KernelStays
<1>2. CASE ReplaceRules(GenOf(active))
  <2> SUFFICES ASSUME Unspent("tamper")', Unspent("unacked")
               PROVE  Forward
    BY DEF Forward
  <2>1. ~Initial /\ Unspent("tamper")
    BY DEF RepairRules, Setting, Thrifty, EInv, PlanOK
  <2>2. dispatch = GenOf(active)
    BY <2>1, TrackedExist DEF Setting
  <2>3. base' /\ dispatch' = dispatch /\ source' = source
    BY <1>2, <2>2 DEF ReplaceRules
  <2> QED
    BY <2>3, LookupsStay
<1> QED
  BY <1>1, <1>2 DEF RepairRules, Transaction

\* Along every behaviour, a direction that stays configured is protected from
\* its first activation on, and its list only gets newer.
THEOREM NeverBackwards == Spec => ForwardOnly
<1>1. EInv /\ [Next]_vars => [Forward]_vars
  <2> SUFFICES ASSUME Setting, [Next]_vars PROVE Forward
    BY StepSetting
  <2>1. CASE \/ CheckFlowtables \/ CheckLayout \/ EndOfStream \/ VerifyCandidate \/ InstallWatcher
             \/ ReconcileLayout \/ ReconcileHealth \/ Exit
    BY <2>1, KernelStays DEF CheckFlowtables, CheckLayout, EndOfStream, VerifyCandidate,
       InstallWatcher, ReconcileLayout, ReconcileHealth, Exit
  <2>2. CASE Start \/ Reconcile \/ Stop \/ Crash \/ UNCHANGED vars
    BY <2>2, KernelStays DEF Start, Reconcile, Stop, Crash, vars
  <2>3. CASE \E d \in Directions : Reload(d) \/ FileChange(d) \/ FileEvent(d)
    BY <2>3, KernelStays DEF Reload, FileChange, FileEvent
  <2>4. CASE DeleteTable
    BY <2>4, KernelStays DEF DeleteTable, Transaction, DropTable, Forward
  <2>5. CASE Tamper
    BY <2>5 DEF Tamper, Setting, Thrifty, Forward
  <2> QED
    BY <2>1, <2>2, <2>3, <2>4, <2>5, StagingForward, ActivationForward, RepairForward
       DEF Next, Busy
<1> QED
  BY <1>1, InitEnforced, StepEnforced, PTL DEF Spec, ForwardOnly, Forward

\* No step of the daemon writes to a table that lacks the layout marker.
THEOREM ForeignTableUntouched == Spec => UnversionedUntouched
<1>1. EInv /\ [Next]_vars =>
        [table = "foreign" /\ Unspent("tamper")' => UNCHANGED kernel]_vars
  <2> SUFFICES ASSUME Setting, [Next]_vars, table = "foreign", Unspent("tamper")'
               PROVE  UNCHANGED kernel
    BY StepSetting
  <2>1. pc \in {"down", "flow", "layout"} /\ ~Tamper
    BY DEF Setting, Thrifty, EInv, TableOK, Tamper
  <2>2. ~Busy \/ CheckFlowtables \/ CheckLayout
    BY <2>1 DEF Busy, Bootstrap, BeginStage, Populate, EndOfStream, VerifyCandidate,
       ActivateInitial, ActivateDirection, CleanupObsolete, Discard, InstallWatcher,
       ReconcileLayout, ReconcileBootstrap, ReconcileHealth, RepairRules, Exit, DeleteTable
  <2> QED
    BY <2>1, <2>2 DEF Next, CheckFlowtables, CheckLayout, Start, Crash, Reconcile, Reload, Stop,
       FileChange, FileEvent, vars
<1> QED
  BY <1>1, InitEnforced, StepEnforced, PTL DEF Spec, UnversionedUntouched

-----------------------------------------------------------------------------
(* A start over the table of an earlier process.                           *)

\* Until the watcher is installed the replacement is an initial one, and
\* nothing but cleanup and the exit comes after its activation.
StartOK ==
    inherited =>
        /\ ~watching
        /\ ~Initial => pc \in {"cleanup", "install", "exit", "exit_delete"}
        /\ ~Initial /\ pc = "cleanup" => Len(todo) = 0

StartStep ==
    inherited /\ table # "absent" /\ Unspent("tamper")'
      => \/ LookupsKept
         \/ AllSwitched
         \/ CleanupOnExit /\ table' = "absent"

LEMMA StartKept == Setting /\ StartOK /\ [Next]_vars => StartOK'
<1> SUFFICES ASSUME Setting, StartOK, [Next]_vars, inherited' PROVE StartOK'
  BY DEF StartOK
<1> USE DEF StartOK, Initial
<1>1. /\ PlanOK
      /\ WorkOK
  BY DEF Setting, EInv, IInv
<1>2. CASE Start
  BY <1>1, <1>2 DEF Start, work, WorkOK
<1>3. CASE CheckFlowtables \/ CheckLayout \/ Bootstrap
  BY <1>1, <1>3 DEF CheckFlowtables, CheckLayout, Bootstrap, Dump, Transaction, Abort, Replace,
     process, WorkOK
<1>4. CASE BeginStage \/ Populate \/ EndOfStream \/ VerifyCandidate
  <2>1. Initial /\ active' = active /\ watching' = watching /\ inherited' = inherited
    BY <1>4 DEF BeginStage, Populate, EndOfStream, VerifyCandidate, process
  <2> QED
    BY <2>1
<1>5. CASE ActivateInitial \/ ActivateDirection
  <2>1. Initial /\ todo = <<>> /\ watching' = watching /\ inherited' = inherited
    BY <1>1, <1>5 DEF ActivateInitial, ActivateDirection, process, PlanOK
  <2>2. \/ Initial'
        \/ pc' = "cleanup" /\ todo' = todo
    BY <1>5, <2>1 DEF ActivateInitial, ActivateDirection, Transaction, Activated, NotActivated, work
  <2> QED
    BY <2>1, <2>2
<1>6. CASE CleanupObsolete
  <2>1. ~Initial /\ ~watching /\ Len(todo) = 0
    BY <1>1, <1>6 DEF CleanupObsolete, process, PlanOK
  <2>2. pc' = "install" /\ watching' = watching /\ active' = active
    BY <1>6, <2>1 DEF CleanupObsolete, Transaction, Succeed, Leave
  <2> QED
    BY <2>1, <2>2
<1>7. CASE Discard
  BY <1>7 DEF Discard, process
<1>8. CASE InstallWatcher \/ Stop \/ Crash \/ DeleteTable
  BY <1>1, <1>8 DEF InstallWatcher, Stop, Crash, DeleteTable, Down, Transaction, process, PlanOK
<1>9. CASE Exit
  BY <1>9 DEF Exit, Dump, Down, process
<1>10. CASE \/ ReconcileLayout \/ ReconcileBootstrap \/ ReconcileHealth \/ RepairRules
            \/ Reconcile \/ \E d \in Directions : Reload(d)
  BY <1>1, <1>10 DEF ReconcileLayout, ReconcileBootstrap, ReconcileHealth, RepairRules, Reconcile,
     Reload, process, PlanOK
<1>11. CASE Tamper \/ UNCHANGED vars \/ \E d \in Directions : FileChange(d) \/ FileEvent(d)
  BY <1>11 DEF Tamper, FileChange, FileEvent, vars, daemon, work, process
<1> QED
  BY <1>2, <1>3, <1>4, <1>5, <1>6, <1>7, <1>8, <1>9, <1>10, <1>11 DEF Next, Busy

LEMMA KernelKept == UNCHANGED kernel => LookupsKept
BY DEF kernel, LookupsKept

\* Staging and deleting never reach a set that is looked up.
LEMMA StagingKeepsLookups ==
    ASSUME Setting, BeginStage \/ Populate \/ CleanupObsolete \/ Discard
    PROVE  LookupsKept
<1>1. \A d \in Directions : dispatch[d] # None =>
        dispatch[d] \in Gens /\ dispatch[d] \in Referenced
  BY DEF Setting, EInv, IInv, EnforcedComplete, Context, KernelTypeOK, Referenced
<1>2. CASE UNCHANGED kernel
  BY <1>2, KernelKept
<1>3. ASSUME NEW g, NEW list, AddSets(g, list)
      PROVE  LookupsKept
  BY <1>3 DEF AddSets, LookupsKept
<1>4. CASE Populate /\ AddItems(stage.gen, {<<stage.list.ver, stage.sent + 1>>})
  <2>1. stage.gen \notin Referenced
    BY <1>4 DEF Populate, Setting, EInv, IInv, StageOK
  <2>2. elems \in [Gens -> SUBSET ({Alien} \cup Nat \X Nat)]
    BY DEF Setting, Context, KernelTypeOK
  <2> QED
    BY <1>1, <1>4, <2>1, <2>2 DEF AddItems, LookupsKept
<1>5. ASSUME NEW G, CanDeleteSets(G), DeleteSets(G)
      PROVE  LookupsKept
  BY <1>1, <1>5 DEF CanDeleteSets, DeleteSets, LookupsKept
<1> QED
  BY <1>2, <1>3, <1>4, <1>5 DEF BeginStage, Populate, CleanupObsolete, Discard, Transaction

\* Only here does a start move lookups: those of the whole configuration.
LEMMA ActivationSwitchesAll == Setting /\ ActivateInitial => LookupsKept \/ AllSwitched
<1> SUFFICES ASSUME Setting, ActivateInitial, ~LookupsKept PROVE AllSwitched
  OBVIOUS
<1>1. Covered(candidate) = used /\ candidate \in [Directions -> Tracked \cup {None}]
  BY DEF ActivateInitial, Setting, Context, Shape, DaemonTypeOK, EInv, PlanOK
<1>2. ReplaceRules(GenOf(candidate))
  BY KernelKept DEF ActivateInitial, Transaction
<1>3. ASSUME NEW d \in Directions
      PROVE  dispatch'[d] # None <=> d \in used
  <2>1. dispatch'[d] = IF candidate[d] = None THEN None ELSE candidate[d].gen
    BY <1>2 DEF ReplaceRules, GenOf
  <2>2. candidate[d] # None => candidate[d].gen # None
    BY <1>1, NoneAssumption DEF Tracked
  <2>3. d \in used <=> candidate[d] # None
    BY <1>1 DEF Covered
  <2> QED
    BY <2>1, <2>2, <2>3
<1> QED
  BY <1>2, <1>3 DEF ReplaceRules, AllSwitched

\* A start over an enforcing table keeps what it looks up or switches it as a
\* whole, for any configuration, lists, refusals, lost answers and kills.
THEOREM StartupIsAtomic == Spec => StartupAllOrNothing
<1>1. Init => StartOK
  BY DEF Init, StartOK
<1>2. EInv /\ StartOK /\ [Next]_vars => StartOK'
  BY StepSetting, StartKept
<1>3. EInv /\ StartOK /\ [Next]_vars => [StartStep]_vars
  <2> SUFFICES ASSUME Setting, StartOK, [Next]_vars, inherited, table # "absent",
                      Unspent("tamper")'
               PROVE  LookupsKept \/ AllSwitched \/ (CleanupOnExit /\ table' = "absent")
    BY StepSetting DEF StartStep
  <2>1. Unspent("tamper") /\ ~Tamper /\ PlanOK /\ TableOK
    BY DEF Setting, Thrifty, EInv, Tamper
  <2>2. /\ ~Bootstrap /\ ~ReconcileLayout /\ ~ReconcileBootstrap /\ ~ReconcileHealth
        /\ ~RepairRules /\ ~ActivateDirection
    BY <2>1 DEF Bootstrap, ReconcileLayout, ReconcileBootstrap, ReconcileHealth, RepairRules,
       ActivateDirection, StartOK, PlanOK, TableOK
  <2>3. CASE \/ CheckFlowtables \/ CheckLayout \/ EndOfStream \/ VerifyCandidate
             \/ InstallWatcher \/ Exit
    BY <2>3, KernelKept DEF CheckFlowtables, CheckLayout, EndOfStream, VerifyCandidate,
       InstallWatcher, Exit
  <2>4. CASE ~Busy
    <3>1. UNCHANGED kernel
      BY <2>1, <2>4 DEF Next, Start, Crash, Reconcile, Reload, Stop, FileChange, FileEvent, vars
    <3> QED
      BY <3>1, KernelKept
  <2>5. CASE DeleteTable
    BY <2>1, <2>5, KernelKept DEF DeleteTable, Transaction, DropTable, PlanOK
  <2> QED
    BY <2>2, <2>3, <2>4, <2>5, StagingKeepsLookups, ActivationSwitchesAll DEF Busy
<1> QED
  BY <1>1, <1>2, <1>3, InitEnforced, StepEnforced, PTL
     DEF Spec, StartupAllOrNothing, StartStep
=============================================================================
