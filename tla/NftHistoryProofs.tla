-------------------------- MODULE NftHistoryProofs --------------------------
(***************************************************************************)
(* The proof that the table keeps the promise of AtomicList in each        *)
(* direction, and that no consumed event goes by without effect.           *)
(*                                                                         *)
(* Both rest on EInv.  HistoryOK ties the generations to what the files    *)
(* have held, Untouched says that undisturbed generations hold nothing     *)
(* foreign, and ServedOK follows a consumed event through its reload.      *)
(***************************************************************************)
EXTENDS NftEnforcementProofs, NftHistory

-----------------------------------------------------------------------------
(* What one step does to the table, to the files and to the histories.     *)

\* Every step commits at most one transaction.
Moves ==
    \/ UNCHANGED kernel
    \/ pc \in {"bootstrap", "rec_bootstrap"} /\ AddTable
    \/ DeleteTable /\ DropTable
    \/ BeginStage /\ AddSets(<<Head(todo), next>>, file[Head(todo)])
    \/ Populate /\ AddItems(stage.gen, {<<stage.list.ver, stage.sent + 1>>})
    \/ \E G : CanDeleteSets(G) /\ DeleteSets(G)
    \/ /\ ActivateInitial
       /\ CanReplaceRules(GenOf(candidate)) /\ ReplaceRules(GenOf(candidate))
    \/ /\ ActivateDirection
       /\ CanReplaceDispatch(candidate[Head(todo)].gen)
       /\ ReplaceDispatch(Head(todo), candidate[Head(todo)].gen)
    \/ RepairRules /\ ReplaceRules(GenOf(active))
    \/ Tamper

LEMMA KernelMoves == [Next]_vars => Moves
<1> SUFFICES ASSUME [Next]_vars PROVE Moves
  OBVIOUS
<1> USE DEF Moves
<1>1. CASE Bootstrap \/ ReconcileBootstrap
  BY <1>1 DEF Bootstrap, ReconcileBootstrap, Transaction
<1>2. CASE BeginStage
  BY <1>2 DEF BeginStage, Transaction
<1>3. CASE Populate
  BY <1>3 DEF Populate, Transaction
<1>4. CASE ActivateInitial
  BY <1>4 DEF ActivateInitial, Transaction
<1>5. CASE ActivateDirection
  BY <1>5 DEF ActivateDirection, Transaction
<1>6. CASE CleanupObsolete \/ Discard
  BY <1>6 DEF CleanupObsolete, Discard, Transaction
<1>7. CASE RepairRules
  BY <1>7 DEF RepairRules, Transaction
<1>8. CASE DeleteTable
  BY <1>8 DEF DeleteTable, Transaction
<1>9. CASE \/ CheckFlowtables \/ CheckLayout \/ EndOfStream \/ VerifyCandidate \/ InstallWatcher
           \/ ReconcileLayout \/ ReconcileHealth \/ Exit
  BY <1>9 DEF CheckFlowtables, CheckLayout, EndOfStream, VerifyCandidate, InstallWatcher,
     ReconcileLayout, ReconcileHealth, Exit
<1>10. CASE Start \/ Reconcile \/ Stop \/ Crash \/ UNCHANGED vars
  BY <1>10 DEF Start, Reconcile, Stop, Crash, vars
<1>11. CASE \E d \in Directions : Reload(d) \/ FileChange(d) \/ FileEvent(d)
  BY <1>11 DEF Reload, FileChange, FileEvent
<1> QED
  BY <1>1, <1>2, <1>3, <1>4, <1>5, <1>6, <1>7, <1>8, <1>9, <1>10, <1>11 DEF Next, Busy

LEMMA FileMoves == [Next]_vars => file' = file \/ \E x \in Directions : FileChange(x)
<1> SUFFICES ASSUME [Next]_vars, ~\E x \in Directions : FileChange(x)
             PROVE  file' = file
  OBVIOUS
<1>1. CASE Busy
  BY <1>1 DEF Busy, CheckFlowtables, CheckLayout, Bootstrap, BeginStage, Populate, EndOfStream,
     VerifyCandidate, ActivateInitial, ActivateDirection, CleanupObsolete, Discard,
     InstallWatcher, ReconcileLayout, ReconcileBootstrap, ReconcileHealth, RepairRules,
     Exit, DeleteTable, environment
<1>2. CASE Start \/ Reconcile \/ Stop \/ Crash \/ Tamper \/ UNCHANGED vars
  BY <1>2 DEF Start, Reconcile, Stop, Crash, Tamper, vars, environment
<1>3. CASE \E d \in Directions : Reload(d) \/ FileEvent(d)
  BY <1>3 DEF Reload, FileEvent, environment
<1> QED
  BY <1>1, <1>2, <1>3 DEF Next

\* The histories are right about a stuttering step as well.
LEMMA AlwaysRecorded ==
    ASSUME HInv, [HNext]_<<vars, history>>
    PROVE  [Next]_vars /\ Record
<1>1. CASE HNext
  BY <1>1 DEF HNext
<1>2. CASE UNCHANGED <<vars, history>>
  <2>1. UNCHANGED <<vars, written, told, file, watching, pending>>
    BY <1>2 DEF vars, history, environment, daemon
  <2>2. /\ written \in [Directions -> Seq(Lists)]
        /\ pending \subseteq told /\ (watching \/ told = {})
    BY DEF HInv, HistoryOK, ServedOK
  <2>3. written' = [d \in Directions |-> written[d]]
    BY <2>1, <2>2
  <2>4. told' = IF watching' THEN told \cup pending' ELSE {}
    BY <2>1, <2>2
  <2> QED
    BY <2>1, <2>3, <2>4 DEF Record
<1> QED
  BY <1>1, <1>2

-----------------------------------------------------------------------------
(* The histories and the generations staged from them.                     *)

\* What is known of a step before a part of HInv is shown to be kept.
HSetting == Setting /\ HInv /\ [Next]_vars /\ Record

LEMMA StepHSetting == HInv /\ [HNext]_<<vars, history>> => HSetting
BY AlwaysRecorded, StepSetting DEF HInv, HSetting

\* A generation that exists after the step existed before it, or is staged from
\* what its file holds.
LEMMA SourceMoves ==
    ASSUME Setting, Moves, NEW g \in sets'
    PROVE  \/ g \in sets /\ source'[g] = source[g]
           \/ source'[g] = file[g[1]] /\ file' = file /\ g[1] \in Directions
<1>1. sets \subseteq Gens /\ sets' \subseteq Gens /\ source \in [Gens -> Lists \cup {None}]
  BY DEF Setting, Context, KernelTypeOK
<1>2. CASE BeginStage /\ AddSets(<<Head(todo), next>>, file[Head(todo)])
  <2>1. g \in Gens /\ file' = file
    BY <1>1, <1>2 DEF BeginStage, environment
  <2>2. CASE g = <<Head(todo), next>>
    BY <1>1, <1>2, <2>1, <2>2 DEF AddSets, Gens
  <2>3. CASE g # <<Head(todo), next>>
    BY <1>1, <1>2, <2>1, <2>3 DEF AddSets
  <2> QED
    BY <2>2, <2>3
<1>3. ASSUME NEW G, DeleteSets(G)
      PROVE  g \in sets /\ source'[g] = source[g]
  BY <1>1, <1>3 DEF DeleteSets
<1>4. CASE Tamper
  BY <1>1, <1>3, <1>4 DEF Tamper, DropTable, AddItems, kernel
<1> QED
  BY <1>2, <1>3, <1>4 DEF Moves, kernel, AddTable, DropTable, AddItems, ReplaceRules,
     ReplaceDispatch

\* A file's history grows by the list that is written to it.
LEMMA WrittenMoves ==
    ASSUME HSetting, NEW d \in Directions
    PROVE  /\ written'[d] \in Seq(Lists)
           /\ file' \in [Directions -> Lists]
           /\ Len(written'[d]) = file'[d].ver + 1
           /\ written'[d][Len(written'[d])] = file'[d]
           /\ \A i \in 1..Len(written[d]) : i \in 1..Len(written'[d])
                                            /\ written'[d][i] = written[d][i]
<1>1. /\ written[d] \in Seq(Lists)
      /\ Len(written[d]) = file[d].ver + 1
      /\ written[d][Len(written[d])] = file[d]
  BY DEF HSetting, HInv, HistoryOK
<1>2. /\ file \in [Directions -> Lists] /\ file' \in [Directions -> Lists]
      /\ file[d].ver \in Nat
  BY VersionTypes DEF HSetting, Setting, Context, Shape, DaemonTypeOK
<1>3. CASE file'[d] = file[d]
  <2>1. written'[d] = written[d]
    BY <1>3 DEF HSetting, Record
  <2> QED
    BY <1>1, <1>2, <1>3, <2>1
<1>4. CASE file'[d] # file[d]
  <2>1. written'[d] = Append(written[d], file'[d])
    BY <1>4 DEF HSetting, Record
  <2>2. PICK x \in Directions : FileChange(x)
    BY <1>4, FileMoves DEF HSetting
  <2>3. PICK s \in Shapes : file' = [file EXCEPT ![x] = [ver |-> @.ver + 1, shape |-> s]]
    BY <2>2 DEF FileChange
  <2>4. file'[d].ver = file[d].ver + 1
    BY <1>2, <1>4, <2>3
  <2>5. file'[d] \in Lists
    BY <1>2
  <2>6. /\ Append(written[d], file'[d]) \in Seq(Lists)
        /\ Len(Append(written[d], file'[d])) = Len(written[d]) + 1
        /\ \A i \in 1..Len(written[d]) : Append(written[d], file'[d])[i] = written[d][i]
        /\ Append(written[d], file'[d])[Len(written[d]) + 1] = file'[d]
    BY <1>1, <2>5
  <2> QED
    BY <1>1, <1>2, <2>1, <2>4, <2>6
<1> QED
  BY <1>3, <1>4

LEMMA HistoryKept == HSetting => HistoryOK'
<1> SUFFICES ASSUME HSetting PROVE HistoryOK'
  OBVIOUS
<1>1. written' \in [Directions -> Seq(Lists)]
  <2>1. \A d \in Directions : written'[d] \in Seq(Lists)
    BY WrittenMoves
  <2> QED
    BY <2>1 DEF HSetting, Record
<1>2. \A d \in Directions :
        Len(written'[d]) = file'[d].ver + 1 /\ written'[d][Len(written'[d])] = file'[d]
  BY WrittenMoves
<1>3. ASSUME NEW g \in sets'
      PROVE  /\ source'[g].ver + 1 \in 1..Len(written'[g[1]])
             /\ source'[g] = written'[g[1]][source'[g].ver + 1]
  <2>1. Moves /\ Setting
    BY KernelMoves DEF HSetting
  <2>2. CASE g \in sets /\ source'[g] = source[g]
    <3>1. g[1] \in Directions
      BY <2>1, <2>2 DEF Setting, Context, KernelTypeOK, Gens
    <3>2. /\ source[g].ver + 1 \in 1..Len(written[g[1]])
          /\ source[g] = written[g[1]][source[g].ver + 1]
      BY <2>2 DEF HSetting, HInv, HistoryOK
    <3> QED
      BY <2>2, <3>1, <3>2, WrittenMoves
  <2>3. CASE source'[g] = file[g[1]] /\ file' = file /\ g[1] \in Directions
    <3>1. /\ written'[g[1]] \in Seq(Lists)
          /\ Len(written'[g[1]]) = file[g[1]].ver + 1
          /\ written'[g[1]][Len(written'[g[1]])] = file[g[1]]
      BY <2>3, WrittenMoves
    <3>2. file[g[1]].ver \in Nat
      BY <2>1, <2>3, VersionTypes
    <3> QED
      BY <2>3, <3>1, <3>2
  <2> QED
    BY <2>1, <2>2, <2>3, SourceMoves
<1> QED
  BY <1>1, <1>2, <1>3 DEF HistoryOK

\* The items a daemon streams are numbered from 1.
LEMMA UntouchedKept == HSetting => Untouched'
<1> SUFFICES ASSUME HSetting, Unspent("tamper")', NEW g \in Gens
             PROVE  Alien \notin elems'[g]
  BY DEF Untouched
<1>1. Unspent("tamper") /\ ~Tamper
  BY DEF HSetting, Setting, Thrifty, Tamper
<1>2. Alien \notin elems[g] /\ elems \in [Gens -> SUBSET ({Alien} \cup Nat \X Nat)]
  BY <1>1 DEF HSetting, HInv, Untouched, Setting, Context, KernelTypeOK
<1>3. CASE Populate /\ AddItems(stage.gen, {<<stage.list.ver, stage.sent + 1>>})
  <2>1. stage.sent \in Nat
    BY <1>3 DEF Populate, HSetting, Setting, Context, Shape, WorkOK, Stages
  <2>2. <<stage.list.ver, stage.sent + 1>> # Alien
    BY <2>1 DEF Alien
  <2> QED
    BY <1>2, <1>3, <2>2 DEF AddItems
<1> QED
  BY <1>1, <1>2, <1>3, KernelMoves
     DEF HSetting, Moves, kernel, AddTable, DropTable, AddSets, DeleteSets, ReplaceRules,
     ReplaceDispatch

-----------------------------------------------------------------------------
(* Each step of the promise, as the table makes it.                        *)

Unseen(d) == UNCHANGED <<written[d], Version(d), Blocked(d)>>

Offers(d) ==
    /\ \E list \in Lists : written'[d] = Append(written[d], list)
    /\ UNCHANGED <<Version(d), Blocked(d)>>

Adopts(d) ==
    /\ \E v \in 1..Len(written[d]) :
        /\ v >= Version(d)
        /\ written[d][v] \in AcceptableLists
        /\ Version(d)' = v
        /\ Blocked(d)' = WholeList[written[d][v]]
    /\ UNCHANGED written[d]

Withdraws(d) ==
    /\ Version(d)' = 0
    /\ Blocked(d)' = {}
    /\ UNCHANGED written[d]

Keeps(d) == Unseen(d) \/ Offers(d) \/ Adopts(d) \/ Withdraws(d)

\* Undisturbed, an intact generation is a whole well-formed list.
LEMMA WholeGeneration ==
    ASSUME HInv, Unspent("tamper"), NEW g \in sets, Intact(g)
    PROVE  /\ Complete(g) /\ source[g] \in AcceptableLists
           /\ elems[g] = WholeList[source[g]]
<1>1. g \in Gens
  BY DEF HInv, EInv, IInv, TypeOK, KernelTypeOK
<1>2. Alien \notin elems[g]
  BY <1>1 DEF HInv, Untouched
<1>3. Complete(g)
  BY <1>2 DEF Intact
<1> QED
  BY <1>3 DEF Complete, AcceptableLists, WholeList

\* A lookup of the direction that does not move shows nothing.
LEMMA SameLookup ==
    ASSUME HSetting, NEW d \in Directions, file'[d] = file[d], dispatch'[d] = dispatch[d],
           base' = base,
           dispatch[d] # None => /\ source'[dispatch[d]] = source[dispatch[d]]
                                 /\ elems'[dispatch[d]] = elems[dispatch[d]]
    PROVE  Unseen(d)
<1>1. written'[d] = written[d]
  BY DEF HSetting, Record
<1> QED
  BY <1>1 DEF Unseen, Version, Blocked, Enforced, EnforcedVersion

\* Without rules before and after, or without a lookup, nothing is enforced.
LEMMA NoLookup ==
    ASSUME HSetting, NEW d \in Directions, file'[d] = file[d], ~Enforced(d)'
    PROVE  Withdraws(d)
<1>1. written'[d] = written[d]
  BY DEF HSetting, Record
<1> QED
  BY <1>1 DEF Withdraws, Version, Blocked, Enforced

\* The lookup of an intact generation that is no older than the enforced one.
LEMMA NewLookup ==
    ASSUME HSetting, Unspent("tamper"), NEW d \in Directions, NEW g \in sets,
           g # None, g[1] = d, Intact(g),
           Enforced(d) => EnforcedVersion(d) <= source[g].ver,
           file'[d] = file[d], base', dispatch'[d] = g, UNCHANGED <<elems, source>>
    PROVE  Adopts(d)
<1>1. /\ source[g] \in AcceptableLists /\ elems[g] = WholeList[source[g]]
  BY WholeGeneration DEF HSetting
<1>2. /\ source[g].ver + 1 \in 1..Len(written[d])
      /\ source[g] = written[d][source[g].ver + 1]
  BY DEF HSetting, HInv, HistoryOK
<1>3. Enforced(d)' /\ Version(d)' = source[g].ver + 1 /\ Blocked(d)' = elems[g]
  BY DEF Enforced, Version, Blocked, EnforcedVersion
<1>4. source[g].ver + 1 >= Version(d)
  <2>1. source[g].ver \in Nat
    BY VersionTypes DEF HSetting
  <2>2. CASE ~Enforced(d)
    BY <2>1, <2>2 DEF Version
  <2>3. CASE Enforced(d)
    <3>1. dispatch[d] \in sets
      BY <2>3 DEF Enforced, HSetting, HInv, EInv, IInv, EnforcedComplete
    <3>2. EnforcedVersion(d) \in Nat
      BY <3>1, VersionTypes DEF EnforcedVersion, HSetting
    <3> QED
      BY <2>1, <2>3, <3>2 DEF Version
  <2> QED
    BY <2>2, <2>3
<1>5. written'[d] = written[d]
  BY DEF HSetting, Record
<1> QED
  BY <1>1, <1>2, <1>3, <1>4, <1>5 DEF Adopts

\* A generation that is looked up is neither created, filled nor deleted.
LEMMA StagingUnseen ==
    ASSUME HSetting, NEW d \in Directions, file'[d] = file[d],
           \/ BeginStage /\ AddSets(<<Head(todo), next>>, file[Head(todo)])
           \/ Populate /\ AddItems(stage.gen, {<<stage.list.ver, stage.sent + 1>>})
           \/ \E G : CanDeleteSets(G) /\ DeleteSets(G)
    PROVE  Unseen(d)
<1>1. /\ source \in [Gens -> Lists \cup {None}]
      /\ elems \in [Gens -> SUBSET ({Alien} \cup Nat \X Nat)]
      /\ sets \subseteq Gens
  BY DEF HSetting, Setting, Context, KernelTypeOK
<1>2. dispatch[d] # None =>
        dispatch[d] \in sets /\ dispatch[d] \in Referenced
  BY DEF Referenced, HSetting, Setting, EInv, IInv, EnforcedComplete
<1>3. CASE BeginStage /\ AddSets(<<Head(todo), next>>, file[Head(todo)])
  <2>1. /\ \A g \in sets : g[2] < next
        /\ next \in Nat
    BY <1>3, TableAssumption
       DEF BeginStage, HSetting, Setting, EInv, IInv, NumbersFresh, Context, Shape, DaemonTypeOK
  <2>2. <<Head(todo), next>> \notin sets
    BY <2>1
  <2> QED
    BY <1>1, <1>2, <1>3, <2>2, SameLookup DEF AddSets
<1>4. CASE Populate /\ AddItems(stage.gen, {<<stage.list.ver, stage.sent + 1>>})
  <2>1. stage.gen \notin Referenced
    BY <1>4 DEF Populate, HSetting, Setting, EInv, IInv, StageOK
  <2> QED
    BY <1>1, <1>2, <1>4, <2>1, SameLookup DEF AddItems
<1>5. ASSUME NEW G, CanDeleteSets(G), DeleteSets(G)
      PROVE  Unseen(d)
  BY <1>1, <1>2, <1>5, SameLookup DEF CanDeleteSets, DeleteSets
<1> QED
  BY <1>3, <1>4, <1>5

\* The activation of everything adopts in each direction that is covered and
\* withdraws the rules of the others.
LEMMA ActivateInitialKeeps ==
    ASSUME HSetting, Unspent("tamper"), NEW d \in Directions, ActivateInitial,
           CanReplaceRules(GenOf(candidate)), ReplaceRules(GenOf(candidate))
    PROVE  Keeps(d)
<1>1. file'[d] = file[d] /\ dispatch'[d] = GenOf(candidate)[d] /\ base'
      /\ UNCHANGED <<elems, source>> /\ pc = "activate" /\ Initial
  BY DEF ActivateInitial, environment, ReplaceRules
<1>2. CASE d \notin Covered(candidate)
  BY <1>1, <1>2, NoLookup DEF GenOf, Covered, Enforced, Keeps
<1>3. CASE d \in Covered(candidate)
  <2> DEFINE g == candidate[d].gen
  <2>1. GenOf(candidate)[d] = g /\ g # None /\ candidate[d] \in Tracked
    BY <1>3, NoneAssumption DEF GenOf, Covered, Tracked, HSetting, Setting, Context, Shape,
       DaemonTypeOK
  <2>2. g \in sets
    BY <2>1 DEF CanReplaceRules
  <2>3. g[1] = d /\ Intact(g)
    BY <1>3 DEF HSetting, HInv, EInv, IInv, TrackedOK
  <2>4. Enforced(d) => EnforcedVersion(d) <= source[g].ver
    BY <1>1, <1>3, <2>2 DEF Enforced, EnforcedVersion, HSetting, HInv, EInv, VersionsOK
  <2> QED
    BY <1>1, <2>1, <2>2, <2>3, <2>4, NewLookup DEF Keeps
<1> QED
  BY <1>2, <1>3

LEMMA ActivateDirectionKeeps ==
    ASSUME HSetting, Unspent("tamper"), NEW d \in Directions, ActivateDirection,
           CanReplaceDispatch(candidate[Head(todo)].gen),
           ReplaceDispatch(Head(todo), candidate[Head(todo)].gen)
    PROVE  Keeps(d)
<1>1. file'[d] = file[d] /\ base' = base /\ UNCHANGED <<elems, source>>
      /\ pc = "activate" /\ ~Initial
      /\ dispatch' = [dispatch EXCEPT ![Head(todo)] = candidate[Head(todo)].gen]
      /\ dispatch \in [Directions -> Gens \cup {None}]
  BY DEF ActivateDirection, environment, ReplaceDispatch, HSetting, Setting, Context, KernelTypeOK
<1>2. CASE d # Head(todo)
  BY <1>1, <1>2, SameLookup DEF Keeps
<1>3. CASE d = Head(todo)
  <2> DEFINE g == candidate[d].gen
  <2>1. g # None /\ candidate[d] \in Tracked /\ d \in Covered(candidate)
    BY <1>1, <1>3, NoneAssumption DEF Covered, Tracked, HSetting, Setting, Context, Shape,
       DaemonTypeOK, WorkOK
  <2>2. g \in sets /\ dispatch'[d] = g
    BY <1>1, <1>3 DEF CanReplaceDispatch
  <2>3. g[1] = d /\ Intact(g)
    BY <2>1 DEF HSetting, HInv, EInv, IInv, TrackedOK
  <2>4. Enforced(d) => EnforcedVersion(d) <= source[g].ver
    BY <1>1, <1>3, <2>1, <2>2 DEF Enforced, EnforcedVersion, HSetting, HInv, EInv, VersionsOK
  <2>5. CASE base
    BY <1>1, <2>1, <2>2, <2>3, <2>4, <2>5, NewLookup DEF Keeps
  <2>6. CASE ~base
    BY <1>1, <2>6, NoLookup DEF Enforced, Keeps
  <2> QED
    BY <2>5, <2>6
<1> QED
  BY <1>2, <1>3

\* A table that is created holds nothing, and a repair of acknowledged rules
\* writes what is there.
LEMMA RulesUnseen ==
    ASSUME HSetting, Unspent("tamper")', Unspent("unacked"), NEW d \in Directions,
           file'[d] = file[d],
           \/ pc \in {"bootstrap", "rec_bootstrap"} /\ AddTable
           \/ RepairRules /\ ReplaceRules(GenOf(active))
    PROVE  Unseen(d)
<1>1. Unspent("tamper")
  BY DEF HSetting, Setting, Thrifty
<1>2. CASE pc \in {"bootstrap", "rec_bootstrap"} /\ AddTable
  <2>1. table = "absent"
    BY <1>1, <1>2 DEF HSetting, HInv, EInv, TableOK
  <2>2. dispatch[d] = None
    BY <2>1 DEF HSetting, HInv, EInv, IInv, SetsOK, EnforcedComplete
  <2>3. dispatch'[d] = None /\ written'[d] = written[d]
    BY <1>2, <2>2 DEF AddTable, HSetting, Record
  <2> QED
    BY <2>2, <2>3 DEF Unseen, Version, Blocked, Enforced
<1>3. CASE RepairRules /\ ReplaceRules(GenOf(active))
  <2>1. ~Initial /\ base /\ EInv
    BY <1>1, <1>3 DEF RepairRules, HSetting, HInv, EInv, PlanOK, TableOK
  <2>2. dispatch = GenOf(active)
    BY <1>1, <2>1, TrackedExist
  <2> QED
    BY <1>3, <2>1, <2>2, SameLookup DEF ReplaceRules
<1> QED
  BY <1>2, <1>3

LEMMA StepKeeps ==
    ASSUME HSetting, Unspent("tamper")', Unspent("unacked"), NEW d \in Directions
    PROVE  Keeps(d)
<1>1. Moves /\ Unspent("tamper") /\ ~Tamper
  BY KernelMoves DEF HSetting, Setting, Thrifty, Tamper
<1>2. CASE file'[d] # file[d]
  <2>1. UNCHANGED kernel
    BY <1>2, FileMoves DEF HSetting, FileChange
  <2>2. file'[d] \in Lists
    BY WrittenMoves
  <2>3. written'[d] = Append(written[d], file'[d])
    BY <1>2 DEF HSetting, Record
  <2>4. UNCHANGED <<Version(d), Blocked(d)>>
    BY <2>1 DEF kernel, Version, Blocked, Enforced, EnforcedVersion
  <2> QED
    BY <2>2, <2>3, <2>4 DEF Keeps, Offers
<1>3. CASE file'[d] = file[d]
  <2>1. CASE UNCHANGED kernel
    BY <1>3, <2>1, SameLookup DEF kernel, Keeps
  <2>2. CASE DropTable
    BY <1>3, <2>2, NoLookup DEF DropTable, Enforced, Keeps
  <2> QED
    BY <1>1, <1>3, <2>1, <2>2, StagingUnseen, RulesUnseen, ActivateInitialKeeps,
       ActivateDirectionKeeps DEF Moves, Keeps
<1> QED
  BY <1>2, <1>3

-----------------------------------------------------------------------------
(* From an event to the activation of the list it announced.               *)

\* While the daemon watches, its generation numbers only grow.
LEMMA NextGrows ==
    ASSUME HSetting, watching, watching', ~Exhausted'
    PROVE  ~Exhausted
<1>1. next \in 1..MaxGen /\ next' \in 1..MaxGen /\ MaxGen \in Nat
  BY TableAssumption DEF HSetting, Setting, Context, Shape, DaemonTypeOK
<1>2. pc \notin {"down", "flow", "layout", "bootstrap"}
  BY DEF HSetting, Setting, Context, Shape, WorkOK
<1>3. next' >= next
  <2>1. CASE Busy
    BY <1>1, <1>2, <2>1 DEF Busy, CheckFlowtables, CheckLayout, Bootstrap, BeginStage, Populate,
       EndOfStream, VerifyCandidate, ActivateInitial, ActivateDirection, CleanupObsolete, Discard,
       InstallWatcher, ReconcileLayout, ReconcileBootstrap, ReconcileHealth, RepairRules,
       Exit, DeleteTable, Observe, Dump, Transaction, Down
  <2>2. CASE Stop \/ Crash
    BY <2>2 DEF Stop, Crash, Down
  <2>3. CASE \/ Start \/ Reconcile \/ Tamper \/ UNCHANGED vars
             \/ \E d \in Directions : Reload(d) \/ FileChange(d) \/ FileEvent(d)
    <3>1. next' = next
      BY <2>3 DEF Start, Reconcile, Tamper, vars, daemon, Reload, FileChange, FileEvent
    <3> QED
      BY <1>1, <3>1
  <2> QED
    BY <2>1, <2>2, <2>3 DEF HSetting, Next
<1> QED
  BY <1>1, <1>3 DEF Exhausted

\* What is asked of an undisturbed step of a daemon that goes on watching.
Serving ==
    /\ HSetting
    /\ watching /\ watching'
    /\ Undisturbed'
    /\ ~Exhausted'

LEMMA ServingFacts ==
    ASSUME Serving
    PROVE  /\ Setting /\ EInv /\ Undisturbed /\ ~Initial /\ ~Exhausted
           /\ ~Spend("reject") /\ ~Spend("unacked") /\ ~Tamper
           /\ table = "current" /\ base
           /\ pc \notin {"down", "flow", "layout", "bootstrap", "rec_bootstrap"}
           /\ \A d \in Heard : IF Staging(d) THEN OnItsWay(d) ELSE Current(d)
<1>1. Setting /\ EInv
  BY DEF Serving, HSetting, Setting
<1>2. Undisturbed /\ ~Initial /\ ~Spend("reject") /\ ~Spend("unacked")
  BY <1>1, WatchingTracks DEF Serving
<1>3. ~Tamper
  BY DEF Serving, HSetting, Setting, Thrifty, Tamper, Undisturbed
<1>4. ~Exhausted
  BY NextGrows DEF Serving
<1>5. pc \notin {"down", "flow", "layout", "bootstrap", "rec_bootstrap"}
  BY <1>1, <1>2 DEF Serving, Setting, Context, Shape, WorkOK, EInv, TableOK, Undisturbed
<1>6. table = "current" /\ base
  BY <1>1, <1>2, <1>5 DEF EInv, TableOK, Undisturbed
<1>7. \A d \in Heard : IF Staging(d) THEN OnItsWay(d) ELSE Current(d)
  BY <1>2, <1>4 DEF Serving, HSetting, HInv, ServedOK
<1> QED
  BY <1>1, <1>2, <1>3, <1>4, <1>5, <1>6, <1>7

\* A direction whose events are all consumed after a step had them consumed
\* before, unless the step consumes one, and its file stays as it is.
LEMMA HeardBefore ==
    ASSUME Serving, NEW d \in Heard'
    PROVE  /\ d \in told /\ d \in used /\ d \in Directions
           /\ file'[d] = file[d] /\ WellFormed(file[d])
           /\ d \in Heard \/ (Reload(d) /\ todo' = <<d>> /\ pc' = "begin")
<1>1. /\ told \subseteq used /\ pending \subseteq told /\ used \subseteq Directions
      /\ told' = told \cup pending'
  BY DEF Serving, HSetting, HInv, ServedOK, Record, Setting, Context, Shape, DaemonTypeOK
<1>2. d \in told' /\ d \notin pending' /\ WellFormed(file[d])'
  BY DEF Heard
<1>3. d \in told /\ d \in used /\ d \in Directions
  BY <1>1, <1>2
<1>4. file'[d] = file[d]
  <2> SUFFICES ASSUME NEW x \in Directions, FileChange(x), file'[d] # file[d]
               PROVE  FALSE
    BY FileMoves DEF Serving, HSetting
  <2>1. x = d
    BY <1>3 DEF FileChange, Serving, HSetting, Setting, Context, Shape, DaemonTypeOK
  <2>2. d \in pending'
    BY <1>3, <2>1 DEF FileChange, Serving
  <2> QED
    BY <1>2, <2>2
<1>5. WellFormed(file[d])
  BY <1>2, <1>4 DEF WellFormed
<1>6. d \notin pending \/ Reload(d)
  <2>1. CASE Busy
    BY <1>2, <2>1 DEF Serving, Busy, CheckFlowtables, CheckLayout, Bootstrap, BeginStage, Populate,
       EndOfStream, VerifyCandidate, ActivateInitial, ActivateDirection, CleanupObsolete, Discard,
       InstallWatcher, ReconcileLayout, ReconcileBootstrap, ReconcileHealth, RepairRules,
       Exit, DeleteTable, Dump, Transaction, Down
  <2>2. CASE \/ Start \/ Reconcile \/ Stop \/ Crash \/ Tamper \/ UNCHANGED vars
             \/ \E x \in Directions : FileChange(x) \/ FileEvent(x)
    BY <1>2, <2>2 DEF Serving, Start, Reconcile, Stop, Crash, Down, Tamper, vars, daemon,
       FileChange, FileEvent
  <2>3. ASSUME NEW x \in Directions, Reload(x), x # d
        PROVE  d \notin pending
    BY <1>2, <2>3 DEF Reload, Consumed
  <2> QED
    BY <2>1, <2>2, <2>3 DEF Serving, HSetting, Next
<1>7. Reload(d) => todo' = <<d>> /\ pc' = "begin"
  BY ServingFacts DEF Reload, Replace
<1> QED
  BY <1>3, <1>4, <1>5, <1>6, <1>7 DEF Heard

\* Undisturbed, only an activation moves a lookup, and only its own direction's.
LEMMA LookupKept ==
    ASSUME Serving, NEW d \in Directions, Current(d), file'[d] = file[d],
           ~ActivateDirection \/ d # Head(todo)
    PROVE  Current(d)'
<1>1. /\ source \in [Gens -> Lists \cup {None}] /\ sets \subseteq Gens
      /\ dispatch \in [Directions -> Gens \cup {None}]
      /\ dispatch[d] # None /\ base /\ source[dispatch[d]] = file[d]
  BY DEF Current, Enforced, Serving, HSetting, Setting, Context, KernelTypeOK
<1>2. dispatch[d] \in sets /\ dispatch[d] \in Referenced
  BY <1>1 DEF Referenced, Serving, HSetting, HInv, EInv, IInv, EnforcedComplete
<1>3. base' /\ dispatch'[d] = dispatch[d] /\ source'[dispatch[d]] = source[dispatch[d]]
  <2>1. Moves /\ ~Tamper /\ ~Initial /\ EInv
    BY KernelMoves, ServingFacts DEF Serving, HSetting
  <2>2. ~DeleteTable
    BY DEF Serving, DeleteTable, Transaction, Down
  <2>3. CASE BeginStage /\ AddSets(<<Head(todo), next>>, file[Head(todo)])
    <3>1. /\ \A g \in sets : g[2] < next
          /\ next \in Nat
      BY <2>3, TableAssumption DEF BeginStage, Serving, HSetting, Setting, EInv, IInv, NumbersFresh,
         Context, Shape, DaemonTypeOK
    <3>2. <<Head(todo), next>> # dispatch[d]
      BY <1>2, <3>1
    <3> QED
      BY <1>1, <1>2, <2>3, <3>2 DEF AddSets
  <2>4. ASSUME NEW G, CanDeleteSets(G), DeleteSets(G)
        PROVE  base' /\ dispatch'[d] = dispatch[d] /\ source'[dispatch[d]] = source[dispatch[d]]
    BY <1>1, <1>2, <2>4 DEF CanDeleteSets, DeleteSets
  <2>5. CASE RepairRules /\ ReplaceRules(GenOf(active))
    <3>1. dispatch = GenOf(active)
      BY <2>1, ServingFacts, TrackedExist DEF Undisturbed
    <3> QED
      BY <1>1, <2>5, <3>1 DEF ReplaceRules
  <2>6. CASE ActivateDirection /\ ReplaceDispatch(Head(todo), candidate[Head(todo)].gen)
    BY <1>1, <2>6 DEF ReplaceDispatch
  <2> QED
    BY <1>1, <2>1, <2>2, <2>3, <2>4, <2>5, <2>6 DEF Moves, kernel, AddTable, AddItems,
       ActivateInitial
<1> QED
  BY <1>1, <1>3 DEF Current, Enforced

\* A step that does not work on a replacement.
LEMMA IdleServes ==
    ASSUME Serving, NEW d \in Heard, d \in Directions, file'[d] = file[d],
           ~Staging(d), ~Staging(d)', ~ActivateDirection \/ d # Head(todo)
    PROVE  IF Staging(d)' THEN OnItsWay(d)' ELSE Current(d)'
BY ServingFacts, LookupKept

\* The file is opened and the kernel has no reason to refuse the sets.
LEMMA BeginStageServes ==
    ASSUME Serving, BeginStage, NEW d \in Heard, d \in Directions, file'[d] = file[d]
    PROVE  IF Staging(d)' THEN OnItsWay(d)' ELSE Current(d)'
<1>1. pc = "begin" /\ pc' \in {"populate", "discard", "watch", "exit"}
      /\ todo' \in {todo, <<>>} /\ todo # <<>>
  BY DEF BeginStage, Transaction, StageFailed, Fail, Leave, Discarding, Serving, HSetting, Setting,
     Context, Shape, WorkOK
<1>2. CASE d # Head(todo)
  <2>1. ~Staging(d) /\ ~Staging(d)'
    BY <1>1, <1>2 DEF Staging
  <2> QED
    BY <1>2, <2>1, IdleServes
<1>3. CASE d = Head(todo)
  <2>1. file[d].shape \notin Missing
    BY DEF Heard, WellFormed
  <2>2. CanAddSets
    BY ServingFacts DEF CanAddSets
  <2>3. /\ pc' = "populate" /\ todo' = todo
        /\ stage' = [gen |-> <<d, next>>, list |-> file[d], sent |-> 0]
    BY <1>3, <2>1, <2>2, ServingFacts DEF BeginStage, Transaction
  <2> QED
    BY <1>1, <1>3, <2>3 DEF Staging, OnItsWay
<1> QED
  BY <1>2, <1>3

\* Every chunk finds the sets it belongs to.
LEMMA PopulateServes ==
    ASSUME Serving, Populate, NEW d \in Heard, d \in Directions, file'[d] = file[d]
    PROVE  IF Staging(d)' THEN OnItsWay(d)' ELSE Current(d)'
<1>1. pc = "populate" /\ stage \in Stages /\ todo # <<>>
  BY DEF Populate, Serving, HSetting, Setting, Context, Shape, WorkOK
<1>2. stage.gen \in sets
  BY <1>1, ServingFacts DEF Serving, Undisturbed, EInv, SetsTidy
<1>3. pc' = "populate" /\ todo' = todo /\ stage'.list = stage.list
  <2>1. stage' = [stage EXCEPT !.sent = @ + 1] /\ UNCHANGED <<pc, todo>>
    BY <1>2, ServingFacts DEF Populate, Transaction, CanAddItems
  <2> QED
    BY <1>1, <2>1 DEF Stages
<1>4. CASE d # Head(todo)
  <2>1. ~Staging(d) /\ ~Staging(d)'
    BY <1>3, <1>4 DEF Staging
  <2> QED
    BY <1>4, <2>1, IdleServes
<1>5. CASE d = Head(todo)
  <2>1. Staging(d) /\ Staging(d)'
    BY <1>1, <1>3, <1>5 DEF Staging
  <2>2. stage.list = file[d]
    BY <1>1, <2>1, ServingFacts DEF OnItsWay
  <2> QED
    BY <1>3, <2>1, <2>2 DEF OnItsWay
<1> QED
  BY <1>4, <1>5

\* A well-formed list streams to its end.
LEMMA EndOfStreamServes ==
    ASSUME Serving, EndOfStream, NEW d \in Heard, d \in Directions, file'[d] = file[d]
    PROVE  IF Staging(d)' THEN OnItsWay(d)' ELSE Current(d)'
<1>1. /\ pc = "populate" /\ stage \in Stages /\ todo # <<>> /\ ~Initial
      /\ UNCHANGED kernel
      /\ active \in [Directions -> Tracked \cup {None}]
  BY ServingFacts
     DEF EndOfStream, Serving, HSetting, Setting, Context, Shape, WorkOK, DaemonTypeOK
<1>2. stage.gen \in sets
  BY <1>1, ServingFacts DEF Serving, Undisturbed, EInv, SetsTidy
<1>3. pc' \in {"verify", "discard"} /\ todo' \in {todo, <<>>}
  BY <1>1 DEF EndOfStream, Discarding
<1>4. CASE d # Head(todo)
  <2>1. ~Staging(d) /\ ~Staging(d)'
    BY <1>3, <1>4 DEF Staging
  <2> QED
    BY <1>4, <2>1, IdleServes
<1>5. CASE d = Head(todo)
  <2>1. Staging(d)
    BY <1>1, <1>5 DEF Staging
  <2>2. stage.list = file[d]
    BY <1>1, <2>1, ServingFacts DEF OnItsWay
  <2>3. ~StreamFails(stage.list)
    BY <2>2 DEF Heard, WellFormed, StreamFails
  <2>4. /\ candidate' = [active EXCEPT ![d] = [gen |-> stage.gen, count |-> stage.sent]]
        /\ pc' = "verify" /\ todo' = todo /\ stage.sent = Chunks[stage.list.shape]
    BY <1>1, <1>5, <2>3 DEF EndOfStream
  <2>5. source'[stage.gen] = stage.list
    BY <1>1, <1>2 DEF kernel, Serving, HSetting, HInv, EInv, IInv, StageOK
  <2>6. candidate'[d] = [gen |-> stage.gen, count |-> stage.sent]
    BY <1>1, <2>4
  <2>7. source'[candidate'[d].gen] = file'[d] /\ candidate'[d].count = Chunks[file'[d].shape]
    BY <2>2, <2>4, <2>5, <2>6
  <2> QED
    BY <1>1, <1>5, <2>4, <2>7 DEF Staging, OnItsWay
<1> QED
  BY <1>4, <1>5

\* A list of n chunks puts n items into its sets.
LEMMA ContentsCounted ==
    ASSUME NEW list, NEW n \in Nat
    PROVE  Cardinality(Contents(list, n)) = n
<1> DEFINE f == [i \in 1..n |-> <<list.ver, i>>]
<1>1. f \in [1..n -> Contents(list, n)]
  BY DEF Contents
<1>2. \A i, j \in 1..n : f[i] = f[j] => i = j
  OBVIOUS
<1>3. \A x \in Contents(list, n) : \E i \in 1..n : f[i] = x
  BY DEF Contents
<1>4. f \in Bijection(1..n, Contents(list, n))
  BY <1>1, <1>2, <1>3, Zenon DEF Bijection, Injection, Surjection, IsInjective
<1> QED
  BY <1>4, FS_CountingElements DEF ExistsBijection

\* The head of what is left to replace is covered, and what is staged for it
\* exists.
LEMMA CandidateExists ==
    ASSUME Serving, pc \in {"verify", "activate"}
    PROVE  /\ todo # <<>> /\ Head(todo) \in Covered(candidate)
           /\ candidate[Head(todo)] \in Tracked
           /\ candidate[Head(todo)].gen \in sets
<1>1. todo # <<>> /\ candidate[Head(todo)] # None /\ Head(todo) \in Directions
  BY ServingFacts DEF Serving, HSetting, Setting, Context, Shape, WorkOK, DaemonTypeOK
<1>2. candidate[Head(todo)] \in Tracked
  BY <1>1 DEF Serving, HSetting, Setting, Context, Shape, DaemonTypeOK
<1>3. candidate[Head(todo)].gen \in sets
  BY ServingFacts DEF Serving, Undisturbed, EInv, SetsTidy
<1> QED
  BY <1>1, <1>2, <1>3 DEF Covered

\* The health check finds as many elements as were streamed.
LEMMA VerifyServes ==
    ASSUME Serving, VerifyCandidate, NEW d \in Heard, d \in Directions, file'[d] = file[d]
    PROVE  IF Staging(d)' THEN OnItsWay(d)' ELSE Current(d)'
<1>1. /\ pc = "verify" /\ UNCHANGED kernel
      /\ pc' \in {"activate", "discard"} /\ todo' \in {todo, <<>>}
  BY DEF VerifyCandidate, Dump, Discarding, work
<1>2. CASE d # Head(todo)
  <2>1. ~Staging(d) /\ ~Staging(d)'
    BY <1>1, <1>2 DEF Staging
  <2> QED
    BY <1>2, <2>1, IdleServes
<1>3. CASE d = Head(todo)
  <2> DEFINE g == candidate[d].gen
  <2>1. todo # <<>> /\ d \in Covered(candidate) /\ g \in sets
    BY <1>1, <1>3, CandidateExists
  <2>2. Staging(d)
    BY <1>1, <1>3, <2>1 DEF Staging
  <2>3. source[g] = file[d] /\ candidate[d].count = Chunks[file[d].shape]
    BY <1>1, <2>2, ServingFacts DEF OnItsWay
  <2>4. Complete(g)
    <3>1. Intact(g)
      BY <2>1 DEF Serving, HSetting, HInv, EInv, IInv, TrackedOK
    <3> QED
      BY <2>1, <3>1, ServingFacts, WholeGeneration DEF Serving, HSetting, Undisturbed
  <2>5. Cardinality(elems[g]) = candidate[d].count
    <3>1. Chunks[file[d].shape] \in Nat
      BY TableAssumption DEF Serving, HSetting, Setting, Context, Shape, DaemonTypeOK, Lists
    <3> QED
      BY <2>3, <2>4, <3>1, ContentsCounted DEF Complete
  <2>6. d \notin Damaged(candidate)
    BY <2>1, <2>5, ServingFacts DEF Damaged, Layout
  <2>7. pc' = "activate" /\ UNCHANGED work
    BY <1>3, <2>6, ServingFacts DEF VerifyCandidate, Dump
  <2>8. Staging(d)' /\ OnItsWay(d)'
    BY <1>1, <1>3, <2>1, <2>3, <2>7 DEF Staging, OnItsWay, work, kernel
  <2> QED
    BY <2>8
<1> QED
  BY <1>2, <1>3

\* The activation moves the lookup to what the file holds.
LEMMA ActivateServes ==
    ASSUME Serving, ActivateDirection, NEW d \in Heard, d \in Directions, file'[d] = file[d]
    PROVE  IF Staging(d)' THEN OnItsWay(d)' ELSE Current(d)'
<1>1. pc = "activate" /\ dispatch \in [Directions -> Gens \cup {None}]
  BY DEF ActivateDirection, Serving, HSetting, Setting, Context, KernelTypeOK
<1>2. /\ todo # <<>> /\ Head(todo) \in Covered(candidate)
      /\ candidate[Head(todo)] \in Tracked
      /\ candidate[Head(todo)].gen \in sets
  BY <1>1, CandidateExists
<1>3. /\ ReplaceDispatch(Head(todo), candidate[Head(todo)].gen)
      /\ pc' = "cleanup"
  BY <1>2, ServingFacts DEF ActivateDirection, Transaction, CanReplaceDispatch, Activated
<1>4. ~Staging(d)'
  BY <1>3 DEF Staging
<1>5. CASE d # Head(todo)
  BY <1>4, <1>5, IdleServes DEF Staging
<1>6. CASE d = Head(todo)
  <2>1. source[candidate[d].gen] = file[d]
    BY <1>1, <1>2, <1>6, ServingFacts DEF Staging, OnItsWay
  <2>2. candidate[d].gen # None
    BY <1>2, <1>6, NoneAssumption DEF Tracked
  <2>3. Current(d)'
    BY <1>1, <1>3, <1>6, <2>1, <2>2, ServingFacts DEF ReplaceDispatch, Current, Enforced
  <2> QED
    BY <1>4, <2>3
<1> QED
  BY <1>5, <1>6

\* A step outside a replacement, or of its tidying.
LEMMA OtherServes ==
    ASSUME Serving, NEW d \in Heard, d \in Directions, file'[d] = file[d],
           \/ InstallWatcher \/ Reconcile \/ ReconcileLayout \/ ReconcileHealth \/ RepairRules
           \/ CleanupObsolete \/ Discard \/ Exit \/ DeleteTable \/ Start
    PROVE  IF Staging(d)' THEN OnItsWay(d)' ELSE Current(d)'
<1>1. /\ pc \notin {"begin", "populate", "verify", "activate"}
      /\ pc' \notin {"populate", "verify", "activate"}
  <2>1. CASE Reconcile
    BY <2>1 DEF Reconcile, Dump, Replace
  <2>2. CASE InstallWatcher \/ ReconcileLayout \/ RepairRules
    BY <2>2 DEF InstallWatcher, ReconcileLayout, RepairRules, Dump
  <2>3. CASE ReconcileHealth
    BY <2>3 DEF ReconcileHealth, Dump, Replace
  <2>4. CASE CleanupObsolete \/ Discard
    BY <2>4 DEF CleanupObsolete, Discard, Transaction, Replace, Succeed, Fail, Leave
  <2>5. CASE Exit \/ DeleteTable \/ Start
    BY <2>5 DEF Exit, DeleteTable, Start, Dump, Transaction, Down
  <2> QED
    BY <2>1, <2>2, <2>3, <2>4, <2>5
<1>2. ~Staging(d) /\ ~ActivateDirection
  BY <1>1 DEF Staging, ActivateDirection
<1>3. Current(d)'
  BY <1>2, ServingFacts, LookupKept
<1>4. Staging(d)' => OnItsWay(d)'
  BY <1>1 DEF OnItsWay
<1> QED
  BY <1>3, <1>4

LEMMA EnvironmentServes ==
    ASSUME Serving, NEW d \in Heard, d \in Directions, file'[d] = file[d],
           UNCHANGED <<kernel, pc, todo, stage, candidate>>
    PROVE  IF Staging(d)' THEN OnItsWay(d)' ELSE Current(d)'
<1>1. /\ Staging(d)' = Staging(d) /\ OnItsWay(d)' = OnItsWay(d) /\ Current(d)' = Current(d)
  BY DEF kernel, Staging, OnItsWay, Current, Enforced
<1> QED
  BY <1>1, ServingFacts

LEMMA StepServes ==
    ASSUME Serving, NEW d \in Heard'
    PROVE  IF Staging(d)' THEN OnItsWay(d)' ELSE Current(d)'
<1>1. /\ d \in Directions /\ file'[d] = file[d]
      /\ d \in Heard \/ (Reload(d) /\ todo' = <<d>> /\ pc' = "begin")
  BY HeardBefore
<1>2. CASE Reload(d) /\ todo' = <<d>> /\ pc' = "begin"
  BY <1>2 DEF Staging, OnItsWay
<1>3. CASE d \in Heard
  <2>1. /\ pc \notin {"down", "flow", "layout", "bootstrap", "rec_bootstrap"}
        /\ ~Initial /\ ~Tamper
    BY ServingFacts
  <2>2. /\ ~CheckFlowtables /\ ~CheckLayout /\ ~Bootstrap /\ ~ReconcileBootstrap
        /\ ~ActivateInitial
    BY <2>1 DEF CheckFlowtables, CheckLayout, Bootstrap, ReconcileBootstrap, ActivateInitial
  <2>3. CASE Busy
    BY <1>1, <1>3, <2>2, <2>3, BeginStageServes, PopulateServes, EndOfStreamServes, VerifyServes,
       ActivateServes, OtherServes DEF Busy
  <2>4. CASE Start \/ Reconcile
    BY <1>1, <1>3, <2>4, OtherServes
  <2>5. CASE Stop \/ Crash
    BY <2>5 DEF Serving, Stop, Crash, Down
  <2>6. CASE UNCHANGED vars \/ \E x \in Directions : FileChange(x) \/ FileEvent(x)
    <3>1. UNCHANGED <<kernel, pc, todo, stage, candidate>>
      BY <2>6 DEF vars, daemon, work, FileChange, FileEvent
    <3> QED
      BY <1>1, <1>3, <3>1, EnvironmentServes
  <2>7. ASSUME NEW x \in Directions, Reload(x)
        PROVE  IF Staging(d)' THEN OnItsWay(d)' ELSE Current(d)'
    <3>1. pc = "watch" /\ pc' = "begin"
      BY <2>7 DEF Reload, Replace
    <3>2. ~Staging(d) /\ ~ActivateDirection
      BY <3>1 DEF Staging, ActivateDirection
    <3>3. Current(d)'
      BY <1>1, <1>3, <3>2, ServingFacts, LookupKept
    <3> QED
      BY <3>1, <3>3 DEF OnItsWay
  <2> QED
    BY <2>1, <2>3, <2>4, <2>5, <2>6, <2>7 DEF Serving, HSetting, Next
<1> QED
  BY <1>1, <1>2, <1>3

\* Events reach directions that are used, and a process that ends forgets them.
LEMMA ToldKept ==
    ASSUME HSetting
    PROVE  told' \subseteq used' /\ pending' \subseteq told' /\ (watching' \/ told' = {})
<1>1. /\ told \subseteq used /\ pending \subseteq told /\ (watching \/ told = {})
      /\ told' = IF watching' THEN told \cup pending' ELSE {}
  BY DEF HSetting, HInv, ServedOK, Record
<1>2. pending' \subseteq used' /\ (watching' => told \subseteq used')
  <2>1. pending' \subseteq used'
    BY DEF HSetting, Setting, Shape, WorkOK
  <2>2. CASE used' = used
    BY <1>1, <2>1, <2>2
  <2>3. CASE used' # used
    <3>1. CASE Start \/ CheckFlowtables \/ CheckLayout \/ Bootstrap
      <4>1. ~watching
        BY <3>1 DEF Start, CheckFlowtables, CheckLayout, Bootstrap, HSetting, Setting, Context,
           Shape, WorkOK
      <4> QED
        BY <1>1, <2>1, <4>1
    <3>2. CASE Exit \/ DeleteTable \/ Crash
      <4>1. watching' = FALSE
        BY <2>3, <3>2 DEF Exit, DeleteTable, Crash, Dump, Transaction, Down, process
      <4> QED
        BY <2>1, <4>1
    <3>3. CASE \/ BeginStage \/ Populate \/ EndOfStream \/ VerifyCandidate \/ ActivateInitial
               \/ ActivateDirection \/ CleanupObsolete \/ Discard \/ InstallWatcher
               \/ ReconcileLayout \/ ReconcileBootstrap \/ ReconcileHealth \/ RepairRules
      BY <2>3, <3>3 DEF BeginStage, Populate, EndOfStream, VerifyCandidate, ActivateInitial,
         ActivateDirection, CleanupObsolete, Discard, InstallWatcher, ReconcileLayout,
         ReconcileBootstrap, ReconcileHealth, RepairRules, process
    <3>4. CASE \/ Reconcile \/ Stop \/ Tamper \/ UNCHANGED vars
               \/ \E x \in Directions : Reload(x) \/ FileChange(x) \/ FileEvent(x)
      BY <2>3, <3>4 DEF Reconcile, Stop, Tamper, vars, daemon, Reload, FileChange, FileEvent,
         process
    <3> QED
      BY <3>1, <3>2, <3>3, <3>4 DEF HSetting, Next, Busy
  <2> QED
    BY <2>2, <2>3
<1>3. pending' \subseteq told'
  <2>1. watching' \/ pending' = {}
    <3>1. CASE Busy
      BY <1>1, <3>1 DEF Busy, CheckFlowtables, CheckLayout, Bootstrap, BeginStage, Populate,
         EndOfStream, VerifyCandidate, ActivateInitial, ActivateDirection, CleanupObsolete,
         Discard, InstallWatcher, ReconcileLayout, ReconcileBootstrap, ReconcileHealth,
         RepairRules, Exit, DeleteTable, Dump, Transaction, Down
    <3>2. CASE Stop \/ Crash
      BY <3>2 DEF Stop, Crash, Down
    <3>3. CASE \/ Start \/ Reconcile \/ Tamper \/ UNCHANGED vars
               \/ \E x \in Directions : Reload(x) \/ FileChange(x) \/ FileEvent(x)
      <4>1. watching' = watching
        BY <3>3 DEF Start, Reconcile, Tamper, vars, daemon, Reload, FileChange, FileEvent
      <4>2. watching \/ pending' = pending \/ pending' \subseteq pending
        BY <3>3 DEF Start, Reconcile, Tamper, vars, daemon, Reload, FileChange, FileEvent, Consumed
      <4> QED
        BY <1>1, <4>1, <4>2
    <3> QED
      BY <3>1, <3>2, <3>3 DEF HSetting, Next
  <2> QED
    BY <1>1, <2>1
<1> QED
  BY <1>1, <1>2, <1>3

LEMMA ServedKept == HSetting => ServedOK'
<1> SUFFICES ASSUME HSetting PROVE ServedOK'
  OBVIOUS
<1>1. told' \subseteq used' /\ pending' \subseteq told' /\ (watching' \/ told' = {})
  BY ToldKept
<1>2. ASSUME watching', Undisturbed', ~Exhausted', NEW d \in Heard'
      PROVE  IF Staging(d)' THEN OnItsWay(d)' ELSE Current(d)'
  <2>1. CASE watching
    BY <1>2, <2>1, StepServes DEF Serving
  <2>2. CASE ~watching
    <3>1. told = {} /\ told' \subseteq told \cup pending'
      BY <2>2 DEF HSetting, HInv, ServedOK, Record
    <3> QED
      BY <1>2, <3>1 DEF Heard
  <2> QED
    BY <2>1, <2>2
<1> QED
  BY <1>1, <1>2 DEF ServedOK

-----------------------------------------------------------------------------
(* The invariant, and what follows from it.                                *)

LEMMA InitHistory == HInit => HInv
<1> SUFFICES ASSUME HInit PROVE HInv
  OBVIOUS
<1>1. EInv /\ sets = {} /\ told = {} /\ pending = {} /\ ~watching
  BY InitEnforced DEF HInit, Init, Absent, Foreign
<1>2. \A d \in Directions : file[d] \in Lists /\ file[d].ver = 0
  BY TableAssumption DEF HInit, Init, Lists
<1>3. HistoryOK
  <2>1. \A d \in Directions : /\ written[d] \in Seq(Lists)
                              /\ Len(written[d]) = 1 /\ written[d][1] = file[d]
    BY <1>2 DEF HInit
  <2>2. written \in [Directions -> Seq(Lists)]
    BY <2>1 DEF HInit
  <2> QED
    BY <1>1, <1>2, <2>1, <2>2 DEF HistoryOK
<1>4. Untouched
  BY DEF HInit, Init, Absent, Foreign, Untouched
<1>5. ServedOK
  BY <1>1 DEF ServedOK, Heard
<1> QED
  BY <1>1, <1>3, <1>4, <1>5 DEF HInv

LEMMA StepHistory == HInv /\ [HNext]_<<vars, history>> => HInv'
<1> SUFFICES ASSUME HInv, [HNext]_<<vars, history>> PROVE HInv'
  OBVIOUS
<1>1. HSetting
  BY StepHSetting
<1>2. EInv'
  BY <1>1, StepEnforced DEF HSetting, HInv
<1> QED
  BY <1>1, <1>2, HistoryKept, UntouchedKept, ServedKept DEF HInv

\* What is true of the daemon with its histories in every state.
THEOREM HistoryHolds == HSpec => []HInv
BY InitHistory, StepHistory, PTL DEF HSpec

\* Undisturbed and with generation numbers left, no event is consumed in vain:
\* when the daemon waits again, the acceptable list it announced is enforced.
THEOREM EventsAreServed == HSpec => []EventsServed
<1>1. HInv => EventsServed
  <2> SUFFICES ASSUME HInv, pc = "watch", Undisturbed, ~Exhausted, NEW d \in Heard
               PROVE  Current(d)
    BY DEF EventsServed
  <2>1. watching
    BY DEF HInv, EInv, PlanOK
  <2>2. ~Staging(d)
    BY DEF Staging
  <2> QED
    BY <2>1, <2>2 DEF HInv, ServedOK
<1> QED
  BY <1>1, HistoryHolds, PTL

LEMMA InitImplements == HInit => Inbound!Init /\ Outbound!Init
<1> SUFFICES ASSUME HInit PROVE Inbound!Init /\ Outbound!Init
  OBVIOUS
<1>1. ASSUME NEW d \in Directions
      PROVE  /\ written[d] \in {<<list>> : list \in Lists}
             /\ Version(d) = 0 /\ Blocked(d) = {}
  <2>1. ~Enforced(d)
    BY DEF HInit, Init, Absent, Foreign, Enforced
  <2>2. file[d] \in Lists /\ written[d] = <<file[d]>>
    BY TableAssumption DEF HInit, Init, Lists
  <2> QED
    BY <2>1, <2>2 DEF Version, Blocked
<1> QED
  BY <1>1 DEF Directions, Inbound!Init, Outbound!Init

LEMMA StepImplements ==
    ASSUME HInv, Unspent("tamper")', Unspent("unacked"), [HNext]_<<vars, history>>
    PROVE  /\ [Inbound!Next]_<<written["in"], Version("in"), Blocked("in")>>
           /\ [Outbound!Next]_<<written["out"], Version("out"), Blocked("out")>>
<1>1. "in" \in Directions /\ "out" \in Directions
  BY DEF Directions
<1>2. Keeps("in") /\ Keeps("out")
  BY <1>1, StepHSetting, StepKeeps
<1>3. Keeps("in") => [Inbound!Next]_<<written["in"], Version("in"), Blocked("in")>>
  BY DEF Keeps, Unseen, Offers, Adopts, Withdraws, Inbound!Next, Inbound!Offer, Inbound!Adopt,
     Inbound!Withdraw
<1>4. Keeps("out") => [Outbound!Next]_<<written["out"], Version("out"), Blocked("out")>>
  BY DEF Keeps, Unseen, Offers, Adopts, Withdraws, Outbound!Next, Outbound!Offer, Outbound!Adopt,
     Outbound!Withdraw
<1> QED
  BY <1>2, <1>3, <1>4

\* In each direction the table blocks one whole acceptable list that its file
\* has held, adopts lists at once and never goes back to an older one, through
\* refused transactions, failed reloads, repairs, kills and restarts, unless
\* another program interferes or an activation's answer is lost.
THEOREM ImplementsAtomicLists ==
    HSpec /\ []Unspent("tamper") /\ []Unspent("unacked") => AtomicLists
<1>1. HInit => Inbound!Init /\ Outbound!Init
  BY InitImplements
<1>2. HInv /\ Unspent("tamper")' /\ Unspent("unacked") /\ [HNext]_<<vars, history>>
        => /\ [Inbound!Next]_<<written["in"], Version("in"), Blocked("in")>>
           /\ [Outbound!Next]_<<written["out"], Version("out"), Blocked("out")>>
  BY StepImplements
<1> QED
  BY <1>1, <1>2, HistoryHolds, PTL DEF HSpec, AtomicLists, Inbound!Spec, Outbound!Spec
=============================================================================
