------------------------------ MODULE NftProofs ------------------------------
(***************************************************************************)
(* Proofs about NftDaemon, for every value of its constants: the types,    *)
(* and that only complete, well-formed lists are ever enforced.            *)
(***************************************************************************)
EXTENDS NftProperties, TLAPS

\* What one transaction may do to the kernel's table.
KernelStep ==
    \/ UNCHANGED kernel
    \/ AddTable
    \/ DropTable
    \/ \E g \in Gens, list \in Lists : AddSets(g, list)
    \/ \E g \in Gens, item \in {Alien} \cup Nat \X Nat : AddItems(g, {item})
    \/ \E G \in SUBSET sets : DeleteSets(G)
    \/ \E gen \in [Directions -> Gens \cup {None}] : ReplaceRules(gen)
    \/ \E d \in Directions, g \in Gens : ReplaceDispatch(d, g)
    \/ /\ table' \in {"absent", "current", "foreign"}
       /\ base' \in BOOLEAN
       /\ dispatch' \in {dispatch, [d \in Directions |-> None]}
       /\ UNCHANGED <<sets, elems, source>>

\* Every kernel transaction keeps the table's types.
LEMMA KernelType == KernelTypeOK /\ KernelStep => KernelTypeOK'
<1> SUFFICES ASSUME KernelTypeOK, KernelStep PROVE KernelTypeOK'
  OBVIOUS
<1> USE DEF KernelTypeOK
<1>1. CASE UNCHANGED kernel
  BY <1>1 DEF kernel
<1>2. CASE AddTable
  BY <1>2 DEF AddTable
<1>3. CASE DropTable
  BY <1>3 DEF DropTable
<1>4. CASE \E g \in Gens, list \in Lists : AddSets(g, list)
  BY <1>4 DEF AddSets
<1>5. CASE \E g \in Gens, item \in {Alien} \cup Nat \X Nat : AddItems(g, {item})
  <2> PICK g \in Gens, item \in {Alien} \cup Nat \X Nat : AddItems(g, {item})
    BY <1>5
  <2>1. elems[g] \cup {item} \in SUBSET ({Alien} \cup Nat \X Nat)
    OBVIOUS
  <2> QED
    BY <2>1 DEF AddItems
<1>6. CASE \E G \in SUBSET sets : DeleteSets(G)
  BY <1>6 DEF DeleteSets
<1>7. CASE \E gen \in [Directions -> Gens \cup {None}] : ReplaceRules(gen)
  BY <1>7 DEF ReplaceRules
<1>8. CASE \E d \in Directions, g \in Gens : ReplaceDispatch(d, g)
  BY <1>8 DEF ReplaceDispatch
<1>9. CASE /\ table' \in {"absent", "current", "foreign"}
           /\ base' \in BOOLEAN
           /\ dispatch' \in {dispatch, [d \in Directions |-> None]}
           /\ UNCHANGED <<sets, elems, source>>
  BY <1>9
<1> QED
  BY <1>1, <1>2, <1>3, <1>4, <1>5, <1>6, <1>7, <1>8, <1>9 DEF KernelStep

-----------------------------------------------------------------------------
(* Helpers of the daemon.                                                  *)

LEMMA SequenceParts ==
    ASSUME NEW S, NEW s \in Seq(S), s # <<>>
    PROVE  /\ Head(s) \in S
           /\ Head(s) = s[1]
           /\ 1 \in 1..Len(s)
           /\ Tail(s) \in Seq(S)
           /\ Len(s) \in Nat /\ Len(Tail(s)) = Len(s) - 1
           /\ Len(s) > 1 => Tail(s) # <<>>
           /\ \A i \in 1..Len(Tail(s)) : i + 1 \in 1..Len(s) /\ Tail(s)[i] = s[i + 1]
<1>1. Len(s) \in Nat /\ Len(s) # 0
  OBVIOUS
<1>2. Head(s) = s[1] /\ 1 \in 1..Len(s) /\ s[1] \in S
  BY <1>1
<1>3. Tail(s) \in Seq(S) /\ Len(Tail(s)) = Len(s) - 1
  BY <1>1
<1>4. \A i \in 1..Len(Tail(s)) : i + 1 \in 1..Len(s) /\ Tail(s)[i] = s[i + 1]
  BY <1>1, <1>3
<1>5. ASSUME Len(s) > 1 PROVE Tail(s) # <<>>
  <2> DEFINE t == Tail(s)
  <2>1. Len(t) # 0
    BY <1>1, <1>3, <1>5
  <2>2. Len(<<>>) = 0
    OBVIOUS
  <2> HIDE DEF t
  <2>3. t # <<>>
    BY <2>1, <2>2
  <2> QED
    BY <2>3 DEF t
<1> QED
  BY <1>1, <1>2, <1>3, <1>4, <1>5

LEMMA InOrderType ==
    ASSUME NEW D \in SUBSET Directions
    PROVE  /\ InOrder(D) \in Seq(Directions)
           /\ D # {} => InOrder(D) # <<>>
           /\ \A i \in 1..Len(InOrder(D)) : InOrder(D)[i] \in D
<1>1. CASE "in" \in D /\ "out" \in D
  BY <1>1 DEF InOrder, Directions
<1>2. CASE "in" \in D /\ "out" \notin D
  BY <1>2 DEF InOrder, Directions
<1>3. CASE "in" \notin D /\ "out" \in D
  BY <1>3 DEF InOrder, Directions
<1>4. CASE "in" \notin D /\ "out" \notin D
  <2>1. D = {}
    BY <1>4 DEF Directions
  <2>2. InOrder(D) = <<>>
    BY <1>4 DEF InOrder
  <2>3. InOrder(D) \in Seq(Directions) /\ Len(InOrder(D)) = 0
    BY <2>2
  <2> QED
    BY <2>1, <2>3
<1> QED
  BY <1>1, <1>2, <1>3, <1>4

LEMMA IterType ==
    ASSUME NEW tracked \in [Directions -> Tracked \cup {None}]
    PROVE  /\ Iter(tracked) \in Seq(Gens)
           /\ Covered(tracked) # {} => Iter(tracked) # <<>>
<1>1. \A d \in Directions : tracked[d] # None => tracked[d].gen \in Gens
  BY DEF Tracked
<1>2. "in" \in Directions /\ "out" \in Directions /\ \A d \in Directions : d \in {"in", "out"}
  BY DEF Directions
<1>3. CASE tracked["in"] # None /\ tracked["out"] # None
  BY <1>1, <1>2, <1>3 DEF Iter
<1>4. CASE tracked["in"] # None /\ tracked["out"] = None
  BY <1>1, <1>2, <1>4 DEF Iter
<1>5. CASE tracked["in"] = None /\ tracked["out"] # None
  BY <1>1, <1>2, <1>5 DEF Iter
<1>6. CASE tracked["in"] = None /\ tracked["out"] = None
  BY <1>1, <1>2, <1>6 DEF Iter, Covered
<1> QED
  BY <1>3, <1>4, <1>5, <1>6

BudgetStep == UNCHANGED budget \/ \E kind \in Kinds : Spend(kind)

LEMMA BudgetType == budget \in [Kinds -> Nat] /\ BudgetStep => budget' \in [Kinds -> Nat]
BY DEF BudgetStep, Spend

\* The types of what is not the kernel's, and the shape of the work variables.
Shape == DaemonTypeOK /\ WorkOK

\* A replacement of a non-empty set of used directions starts well.
LEMMA ReplaceShape ==
    ASSUME Shape, NEW D \in SUBSET used, D # {}, Replace(InOrder(D)),
           UNCHANGED <<environment, used>>, inherited' \in BOOLEAN,
           next' \in 1..MaxGen, BudgetStep,
           active' \in {active, NoTracked}, watching' \in BOOLEAN, pending' \in SUBSET used
    PROVE  Shape'
<1>0. used # {}
  OBVIOUS
<1>1. D \in SUBSET Directions
  BY DEF Shape, DaemonTypeOK
<1>2. /\ todo' \in Seq(Directions)
      /\ todo' # <<>>
      /\ \A i \in 1..Len(todo') : todo'[i] \in used'
  BY <1>1, InOrderType DEF Replace
<1>3. NoTracked \in [Directions -> Tracked \cup {None}] /\ Covered(NoTracked) = {}
  BY DEF NoTracked, Covered
<1>4. budget' \in [Kinds -> Nat]
  BY BudgetType DEF Shape, DaemonTypeOK
<1>5. DaemonTypeOK'
  BY <1>2, <1>3, <1>4 DEF Shape, DaemonTypeOK, Replace, environment
<1>6. WorkOK'
  BY <1>0, <1>2, <1>3 DEF Shape, DaemonTypeOK, WorkOK, Replace, Initial, Covered, NoTracked
<1> QED
  BY <1>5, <1>6 DEF Shape

LEMMA LeaveShape ==
    ASSUME Shape, NEW to \in {"watch", "install", "exit"}, Leave(to), used # {},
           UNCHANGED <<environment, process, watching, pending>>,
           next' \in 1..MaxGen, BudgetStep, active' = active
    PROVE  Shape'
<1>1. NoTracked \in [Directions -> Tracked \cup {None}]
  BY DEF NoTracked
<1>2. budget' \in [Kinds -> Nat]
  BY BudgetType DEF Shape, DaemonTypeOK
<1>3. <<>> \in Seq(Directions) /\ <<>> \in Seq(Gens) /\ Len(<<>>) = 0
  OBVIOUS
<1>5. DaemonTypeOK'
  BY <1>1, <1>2, <1>3 DEF Shape, DaemonTypeOK, Leave, environment, process
<1>6. WorkOK'
  BY <1>3 DEF Shape, DaemonTypeOK, WorkOK, Leave, Initial, Covered, NoTracked, process
<1> QED
  BY <1>5, <1>6 DEF Shape

LEMMA DiscardingShape ==
    ASSUME Shape, NEW gens \in Seq(Gens), gens # <<>>, Discarding(gens), used # {},
           UNCHANGED <<environment, process, watching, pending>>,
           next' \in 1..MaxGen, BudgetStep, active' = active
    PROVE  Shape'
<1>1. NoTracked \in [Directions -> Tracked \cup {None}]
  BY DEF NoTracked
<1>2. budget' \in [Kinds -> Nat]
  BY BudgetType DEF Shape, DaemonTypeOK
<1>3. <<>> \in Seq(Directions) /\ Len(<<>>) = 0
  OBVIOUS
<1>5. DaemonTypeOK'
  BY <1>1, <1>2, <1>3 DEF Shape, DaemonTypeOK, Discarding, environment, process
<1>6. WorkOK'
  BY <1>3 DEF Shape, DaemonTypeOK, WorkOK, Discarding, Initial, Covered, NoTracked, process
<1> QED
  BY <1>5, <1>6 DEF Shape

LEMMA FailShape ==
    ASSUME Shape, used # {}, UNCHANGED <<environment, process, watching, pending>>,
           next' \in 1..MaxGen, BudgetStep, active' = active,
           NEW gens \in Seq(Gens), StageFailed(gens)
    PROVE  Shape'
<1>1. CASE gens = <<>>
  BY <1>1, LeaveShape DEF StageFailed, Fail
<1>2. CASE gens # <<>>
  BY <1>2, DiscardingShape DEF StageFailed
<1> QED
  BY <1>1, <1>2

\* The process starts, or ends again before it touched the table.
LEMMA StartShape == Shape /\ Start => Shape' /\ KernelStep
<1> SUFFICES ASSUME Shape, Start PROVE Shape' /\ KernelStep
  OBVIOUS
<1>1. budget' \in [Kinds -> Nat]
  BY BudgetType DEF Shape, DaemonTypeOK, BudgetStep, Start, Kinds
<1>2. used' \subseteq Directions /\ used' # {}
  BY DaemonAssumption DEF Start
<1>3. DaemonTypeOK'
  BY <1>1, <1>2 DEF Start, Shape, DaemonTypeOK, environment, work
<1>4. pc = "down" /\ pc' = "flow" /\ active = NoTracked /\ todo = <<>> /\ Covered(active) = {}
  BY DEF Start, Shape, WorkOK, Covered, NoTracked
<1> QED
  BY <1>2, <1>3, <1>4 DEF Start, Shape, WorkOK, KernelStep, Initial, Covered, environment, work

LEMMA AbortShape ==
    ASSUME Shape, pc \in {"flow", "layout", "bootstrap"}, Abort, BudgetStep,
           UNCHANGED <<environment, active, watching, pending, work>>
    PROVE  Shape'
<1>1. budget' \in [Kinds -> Nat] /\ 1 \in 1..MaxGen
  BY BudgetType, TableAssumption DEF Shape, DaemonTypeOK
<1>2. DaemonTypeOK'
  BY <1>1 DEF Abort, Shape, DaemonTypeOK, environment, work
<1>3. active = NoTracked /\ todo = <<>> /\ Covered(active) = {}
  BY DEF Shape, WorkOK, Covered, NoTracked
<1>4. WorkOK'
  BY <1>3 DEF Abort, Shape, WorkOK, Initial, Covered, work
<1> QED
  BY <1>2, <1>4 DEF Shape

LEMMA CheckFlowtablesShape == Shape /\ CheckFlowtables => Shape' /\ KernelStep
<1> SUFFICES ASSUME Shape, CheckFlowtables PROVE Shape' /\ KernelStep
  OBVIOUS
<1>1. BudgetStep /\ KernelStep
  BY DEF CheckFlowtables, Dump, BudgetStep, KernelStep, Kinds
<1>2. CASE Abort
  BY <1>1, <1>2, AbortShape DEF CheckFlowtables
<1>3. CASE pc' = "layout" /\ UNCHANGED <<process, next>>
  <2>1. budget' \in [Kinds -> Nat]
    BY <1>1, BudgetType DEF Shape, DaemonTypeOK
  <2>2. DaemonTypeOK'
    BY <1>3, <2>1 DEF CheckFlowtables, Shape, DaemonTypeOK, environment, work, process
  <2>3. WorkOK'
    BY <1>3 DEF CheckFlowtables, Shape, DaemonTypeOK, WorkOK, Initial, Covered, environment, work, process
  <2> QED
    BY <1>1, <2>2, <2>3 DEF Shape
<1> QED
  BY <1>1, <1>2, <1>3 DEF CheckFlowtables, Dump

LEMMA ObserveType == next \in 1..MaxGen /\ Observe => next' \in 1..MaxGen
BY TableAssumption DEF Observe

LEMMA CheckLayoutShape == Shape /\ CheckLayout => Shape' /\ KernelStep
<1> SUFFICES ASSUME Shape, CheckLayout PROVE Shape' /\ KernelStep
  OBVIOUS
<1>1. BudgetStep /\ KernelStep
  BY DEF CheckLayout, BudgetStep, KernelStep, Kinds
<1>2. CASE Abort /\ UNCHANGED work
  BY <1>1, <1>2, AbortShape DEF CheckLayout
<1>3. CASE Observe /\ Replace(InOrder(used)) /\ UNCHANGED <<budget, process>>
  <2>1. used \in SUBSET used /\ used # {}
    BY DEF CheckLayout, Shape, WorkOK
  <2>2. next' \in 1..MaxGen
    BY <1>3, ObserveType DEF Shape, DaemonTypeOK
  <2> QED
    BY <1>1, <1>3, <2>1, <2>2, ReplaceShape DEF CheckLayout, Shape, DaemonTypeOK, WorkOK, process
<1>4. CASE pc' = "bootstrap" /\ UNCHANGED <<next, work, budget, process>>
  <2>2. DaemonTypeOK'
    BY <1>4 DEF CheckLayout, Shape, DaemonTypeOK, environment, work, process
  <2>3. WorkOK'
    BY <1>4 DEF CheckLayout, Shape, DaemonTypeOK, WorkOK, Initial, Covered, environment, work, process
  <2> QED
    BY <1>1, <2>2, <2>3 DEF Shape
<1> QED
  BY <1>1, <1>2, <1>3, <1>4 DEF CheckLayout

LEMMA BootstrapShape == Shape /\ Bootstrap => Shape' /\ KernelStep
<1> SUFFICES ASSUME Shape, Bootstrap PROVE Shape' /\ KernelStep
  OBVIOUS
<1>1. BudgetStep /\ KernelStep
  BY DEF Bootstrap, Transaction, BudgetStep, KernelStep, Kinds
<1>2. CASE Abort /\ UNCHANGED work
  BY <1>1, <1>2, AbortShape DEF Bootstrap
<1>3. CASE Replace(InOrder(used)) /\ UNCHANGED <<next, process>>
  <2>1. used \in SUBSET used /\ used # {}
    BY DEF Bootstrap, Shape, WorkOK
  <2> QED
    BY <1>1, <1>3, <2>1, ReplaceShape DEF Bootstrap, Shape, DaemonTypeOK, WorkOK, process
<1> QED
  BY <1>1, <1>2, <1>3 DEF Bootstrap, Transaction

LEMMA BeginStageShape == Shape /\ BeginStage => Shape' /\ KernelStep
<1> SUFFICES ASSUME Shape, BeginStage PROVE Shape' /\ KernelStep
  OBVIOUS
<1> DEFINE d == Head(todo)
           list == file[d]
           g == <<d, next>>
<1>1. d \in Directions /\ list \in Lists /\ used # {}
  BY DEF BeginStage, Shape, WorkOK, DaemonTypeOK
<1>2. Iter(candidate) \in Seq(Gens)
  BY IterType DEF Shape, DaemonTypeOK
<1>3. CASE list.shape \in Missing \/ Exhausted
  <2>1. StageFailed(Iter(candidate)) /\ UNCHANGED <<kernel, budget, next>>
    BY <1>3 DEF BeginStage
  <2>2. BudgetStep /\ next' \in 1..MaxGen
    BY <2>1 DEF BudgetStep, Shape, DaemonTypeOK
  <2> QED
    BY <1>1, <1>2, <2>1, <2>2, FailShape DEF BeginStage, KernelStep
<1>4. CASE ~(list.shape \in Missing \/ Exhausted)
  <2>1. /\ next' = next + 1
        /\ Transaction(CanAddSets, AddSets(g, list),
                    /\ pc' = "populate"
                    /\ stage' = [gen |-> g, list |-> list, sent |-> 0]
                    /\ UNCHANGED <<todo, candidate, junk>>,
                    StageFailed(Iter(candidate)))
    BY <1>4 DEF BeginStage
  <2>2. next' \in 1..MaxGen /\ g \in Gens
    BY <1>1, <1>4, <2>1, TableAssumption DEF Exhausted, Shape, DaemonTypeOK, Gens
  <2>3. BudgetStep /\ KernelStep
    BY <1>1, <2>1, <2>2 DEF Transaction, BudgetStep, KernelStep, Kinds
  <2>4. CASE StageFailed(Iter(candidate))
    BY <1>1, <1>2, <2>2, <2>3, <2>4, FailShape DEF BeginStage
  <2>5. CASE /\ pc' = "populate"
             /\ stage' = [gen |-> g, list |-> list, sent |-> 0]
             /\ UNCHANGED <<todo, candidate, junk>>
    <3>1. budget' \in [Kinds -> Nat]
      BY <2>3, BudgetType DEF Shape, DaemonTypeOK
    <3>2. stage' \in Stages
      BY <1>1, <2>2, <2>5 DEF Stages
    <3>3. DaemonTypeOK'
      BY <2>2, <2>5, <3>1, <3>2 DEF BeginStage, Shape, DaemonTypeOK, environment, process
    <3>4. WorkOK'
      BY <2>5, <3>2 DEF BeginStage, Shape, DaemonTypeOK, WorkOK, Initial, Covered, process
    <3> QED
      BY <2>3, <3>3, <3>4 DEF Shape
  <2> QED
    BY <2>1, <2>4, <2>5 DEF Transaction
<1> QED
  BY <1>3, <1>4

LEMMA PopulateShape == Shape /\ Populate => Shape' /\ KernelStep
<1> SUFFICES ASSUME Shape, Populate PROVE Shape' /\ KernelStep
  OBVIOUS
<1> DEFINE item == <<stage.list.ver, stage.sent + 1>>
           failed == <<stage.gen>> \o Iter(candidate)
<1>1. stage \in Stages /\ used # {}
  BY DEF Populate, Shape, WorkOK, DaemonTypeOK
<1>2. stage.gen \in Gens /\ item \in Nat \X Nat
  BY <1>1, TableAssumption DEF Stages, Lists
<1>3. Iter(candidate) \in Seq(Gens)
  BY IterType DEF Shape, DaemonTypeOK
<1>4. failed \in Seq(Gens) /\ failed # <<>>
  BY <1>2, <1>3
<1>5. Transaction(CanAddItems(stage.gen), AddItems(stage.gen, {item}),
            /\ stage' = [stage EXCEPT !.sent = @ + 1]
            /\ UNCHANGED <<pc, todo, candidate, junk>>,
            Discarding(failed))
  BY DEF Populate
<1>6. BudgetStep /\ KernelStep
  BY <1>2, <1>5 DEF Transaction, BudgetStep, KernelStep, Kinds
<1>7. CASE Discarding(failed)
  BY <1>1, <1>4, <1>6, <1>7, DiscardingShape DEF Populate, Shape, DaemonTypeOK
<1>8. CASE /\ stage' = [stage EXCEPT !.sent = @ + 1]
           /\ UNCHANGED <<pc, todo, candidate, junk>>
  <2>1. budget' \in [Kinds -> Nat]
    BY <1>6, BudgetType DEF Shape, DaemonTypeOK
  <2>2. stage' \in Stages
    BY <1>1, <1>8 DEF Stages
  <2>3. DaemonTypeOK'
    BY <1>8, <2>1, <2>2 DEF Populate, Shape, DaemonTypeOK, environment, process
  <2>4. WorkOK'
    BY <1>8, <2>2 DEF Populate, Shape, DaemonTypeOK, WorkOK, Initial, Covered, process
  <2> QED
    BY <1>6, <2>3, <2>4 DEF Shape
<1> QED
  BY <1>5, <1>7, <1>8 DEF Transaction

LEMMA EndOfStreamShape == Shape /\ EndOfStream => Shape' /\ KernelStep
<1> SUFFICES ASSUME Shape, EndOfStream PROVE Shape' /\ KernelStep
  OBVIOUS
<1> DEFINE d == Head(todo)
           tracked == [gen |-> stage.gen, count |-> stage.sent]
           failed == <<stage.gen>> \o Iter(candidate)
<1>1. /\ stage \in Stages /\ used # {} /\ d \in Directions /\ d \in used
      /\ Tail(todo) \in Seq(Directions)
      /\ \A i \in 1..Len(Tail(todo)) : Tail(todo)[i] \in used
  <2>1. todo \in Seq(Directions) /\ todo # <<>>
    BY DEF EndOfStream, Shape, WorkOK, DaemonTypeOK
  <2>2. stage \in Stages /\ used # {} /\ \A i \in 1..Len(todo) : todo[i] \in used
    BY DEF EndOfStream, Shape, WorkOK
  <2> QED
    BY <2>1, <2>2, SequenceParts
<1>2. BudgetStep /\ KernelStep
  BY DEF EndOfStream, BudgetStep, KernelStep
<1>3. Iter(candidate) \in Seq(Gens) /\ stage.gen \in Gens
  BY <1>1, IterType DEF Shape, DaemonTypeOK, Stages
<1>4. failed \in Seq(Gens) /\ failed # <<>>
  BY <1>3
<1>5. CASE Discarding(failed)
  BY <1>1, <1>2, <1>4, <1>5, DiscardingShape DEF EndOfStream, Shape, DaemonTypeOK
<1>6. CASE ~StreamFails(stage.list)
  <2>1. tracked \in Tracked
    BY <1>1 DEF Stages, Tracked
  <2>2. CASE Initial
    <3>1. /\ candidate' = [candidate EXCEPT ![d] = tracked]
          /\ todo' = Tail(todo)
          /\ pc' = IF Tail(todo) = <<>> THEN "verify" ELSE "begin"
          /\ stage' = None /\ junk' = junk
      BY <1>6, <2>2 DEF EndOfStream
    <3>2. candidate' \in [Directions -> Tracked \cup {None}]
      BY <1>1, <2>1, <3>1 DEF Shape, DaemonTypeOK
    <3>3. DaemonTypeOK'
      BY <1>1, <3>1, <3>2 DEF EndOfStream, Shape, DaemonTypeOK, environment, process
    <3>4. candidate'[d] = tracked /\ \A x \in Directions \ {d} : candidate'[x] = candidate[x]
      BY <1>1, <3>1 DEF Shape, DaemonTypeOK
    <3>5. Covered(candidate') \subseteq used
      BY <1>1, <3>4 DEF Covered, Shape, WorkOK, EndOfStream
    <3>6. tracked # None => d \in Covered(candidate')
      BY <1>1, <3>4 DEF Covered
    <3>7. tracked # None
      BY <2>1, NoneAssumption
    <3>8. WorkOK'
      BY <1>1, <2>2, <3>1, <3>5, <3>6, <3>7 DEF EndOfStream, Shape, DaemonTypeOK, WorkOK, Initial, Covered, process
    <3> QED
      BY <1>2, <3>3, <3>8 DEF Shape
  <2>3. CASE ~Initial
    <3>1. /\ candidate' = [active EXCEPT ![d] = tracked]
          /\ pc' = "verify" /\ todo' = todo
          /\ stage' = None /\ junk' = junk
      BY <1>6, <2>3 DEF EndOfStream
    <3>2. candidate' \in [Directions -> Tracked \cup {None}]
      BY <1>1, <2>1, <3>1 DEF Shape, DaemonTypeOK
    <3>3. DaemonTypeOK'
      BY <1>1, <3>1, <3>2 DEF EndOfStream, Shape, DaemonTypeOK, environment, process
    <3>4. candidate'[d] = tracked /\ \A x \in Directions \ {d} : candidate'[x] = active[x]
      BY <1>1, <3>1 DEF Shape, DaemonTypeOK
    <3>5. Covered(candidate') \subseteq used
      BY <1>1, <3>4 DEF Covered, Shape, WorkOK, EndOfStream
    <3>7. tracked # None
      BY <2>1, NoneAssumption
    <3>8. WorkOK'
      BY <1>1, <2>3, <3>1, <3>4, <3>5, <3>7 DEF EndOfStream, Shape, DaemonTypeOK, WorkOK, Initial, Covered, process
    <3> QED
      BY <1>2, <3>3, <3>8 DEF Shape
  <2> QED
    BY <2>2, <2>3
<1> QED
  BY <1>5, <1>6 DEF EndOfStream

LEMMA FreshType ==
    ASSUME Shape, pc \in {"verify", "activate"}
    PROVE  Fresh \in Seq(Gens) /\ Fresh # <<>>
<1>1. CASE Initial
  BY <1>1, IterType DEF Fresh, Shape, DaemonTypeOK, WorkOK
<1>2. CASE ~Initial
  <2>1. Head(todo) \in Directions /\ candidate[Head(todo)] \in Tracked
    BY <1>2 DEF Shape, DaemonTypeOK, WorkOK
  <2>2. candidate[Head(todo)].gen \in Gens
    BY <2>1 DEF Tracked
  <2> QED
    BY <1>2, <2>2 DEF Fresh
<1> QED
  BY <1>1, <1>2

LEMMA VerifyCandidateShape == Shape /\ VerifyCandidate => Shape' /\ KernelStep
<1> SUFFICES ASSUME Shape, VerifyCandidate PROVE Shape' /\ KernelStep
  OBVIOUS
<1>1. BudgetStep /\ KernelStep
  BY DEF VerifyCandidate, Dump, BudgetStep, KernelStep, Kinds
<1>2. Fresh \in Seq(Gens) /\ Fresh # <<>> /\ used # {}
  BY FreshType DEF VerifyCandidate, Shape, WorkOK
<1>3. CASE Discarding(Fresh)
  BY <1>1, <1>2, <1>3, DiscardingShape DEF VerifyCandidate, Shape, DaemonTypeOK
<1>4. CASE pc' = "activate" /\ UNCHANGED work
  <2>1. budget' \in [Kinds -> Nat]
    BY <1>1, BudgetType DEF Shape, DaemonTypeOK
  <2>2. DaemonTypeOK'
    BY <1>4, <2>1 DEF VerifyCandidate, Shape, DaemonTypeOK, environment, work, process
  <2>3. WorkOK'
    BY <1>4 DEF VerifyCandidate, Shape, DaemonTypeOK, WorkOK, Initial, Covered, work, process
  <2> QED
    BY <1>1, <2>2, <2>3 DEF Shape
<1> QED
  BY <1>3, <1>4 DEF VerifyCandidate, Dump

\* Both activations end in the same two ways.
LEMMA ActivationShape ==
    ASSUME Shape, pc = "activate", Activated \/ NotActivated, BudgetStep,
           UNCHANGED <<environment, next, watching, pending, process>>
    PROVE  Shape'
<1>1. Fresh \in Seq(Gens) /\ Fresh # <<>> /\ used # {}
  BY FreshType DEF Shape, WorkOK
<1>2. CASE NotActivated
  BY <1>1, <1>2, DiscardingShape DEF NotActivated, Shape, DaemonTypeOK
<1>3. CASE Activated
  <2>1. budget' \in [Kinds -> Nat]
    BY BudgetType DEF Shape, DaemonTypeOK
  <2>2. DaemonTypeOK'
    BY <1>3, <2>1 DEF Activated, Shape, DaemonTypeOK, environment, work, process
  <2>3. WorkOK'
    BY <1>3 DEF Activated, Shape, DaemonTypeOK, WorkOK, Initial, Covered, work, process
  <2> QED
    BY <2>2, <2>3 DEF Shape
<1> QED
  BY <1>2, <1>3

LEMMA GenOfType ==
    ASSUME NEW tracked \in [Directions -> Tracked \cup {None}]
    PROVE  GenOf(tracked) \in [Directions -> Gens \cup {None}]
BY DEF GenOf, Tracked

LEMMA ActivateInitialShape == Shape /\ ActivateInitial => Shape' /\ KernelStep
<1> SUFFICES ASSUME Shape, ActivateInitial PROVE Shape' /\ KernelStep
  OBVIOUS
<1>1. GenOf(candidate) \in [Directions -> Gens \cup {None}]
  BY GenOfType DEF Shape, DaemonTypeOK
<1>2. BudgetStep /\ KernelStep
  BY <1>1 DEF ActivateInitial, Transaction, BudgetStep, KernelStep, Kinds
<1> QED
  BY <1>2, ActivationShape DEF ActivateInitial, Transaction

LEMMA ActivateDirectionShape == Shape /\ ActivateDirection => Shape' /\ KernelStep
<1> SUFFICES ASSUME Shape, ActivateDirection PROVE Shape' /\ KernelStep
  OBVIOUS
<1>1. Head(todo) \in Directions /\ candidate[Head(todo)].gen \in Gens
  BY DEF ActivateDirection, Shape, DaemonTypeOK, WorkOK, Tracked
<1>2. BudgetStep /\ KernelStep
  BY <1>1 DEF ActivateDirection, Transaction, BudgetStep, KernelStep, Kinds
<1> QED
  BY <1>2, ActivationShape DEF ActivateDirection, Transaction

LEMMA CleanupObsoleteShape == Shape /\ CleanupObsolete => Shape' /\ KernelStep
<1> SUFFICES ASSUME Shape, CleanupObsolete PROVE Shape' /\ KernelStep
  OBVIOUS
<1>1. Obsolete \in SUBSET sets /\ used # {}
  BY DEF Obsolete, CleanupObsolete, Shape, WorkOK
<1>2. BudgetStep /\ KernelStep
  BY <1>1 DEF CleanupObsolete, Transaction, BudgetStep, KernelStep, Kinds
<1>3. CASE Len(todo) > 1 /\ Replace(Tail(todo))
  <2>1. /\ Tail(todo) \in Seq(Directions) /\ Tail(todo) # <<>>
        /\ \A i \in 1..Len(Tail(todo)) : Tail(todo)[i] \in used
    <3>1. todo \in Seq(Directions) /\ todo # <<>> /\ \A i \in 1..Len(todo) : todo[i] \in used
      BY <1>3 DEF Shape, DaemonTypeOK, WorkOK
    <3>2. Tail(todo) \in Seq(Directions) /\ Tail(todo) # <<>>
      BY <1>3, <3>1, SequenceParts
    <3>3. \A i \in 1..Len(Tail(todo)) : i + 1 \in 1..Len(todo) /\ Tail(todo)[i] = todo[i + 1]
      BY <3>1, SequenceParts
    <3> QED
      BY <3>1, <3>2, <3>3
  <2>2. NoTracked \in [Directions -> Tracked \cup {None}] /\ Covered(NoTracked) = {}
    BY DEF NoTracked, Covered
  <2>3. budget' \in [Kinds -> Nat]
    BY <1>2, BudgetType DEF Shape, DaemonTypeOK
  <2>4. <<>> \in Seq(Gens)
    OBVIOUS
  <2>5. DaemonTypeOK'
    BY <1>3, <2>1, <2>2, <2>3, <2>4 DEF CleanupObsolete, Shape, DaemonTypeOK, Replace, environment, process
  <2>6. WorkOK'
    BY <1>1, <1>3, <2>1, <2>2 DEF CleanupObsolete, Shape, WorkOK, Replace, Initial, Covered, NoTracked, process
  <2> QED
    BY <1>2, <2>5, <2>6 DEF Shape
<1>4. CASE Succeed
  BY <1>1, <1>2, <1>4, LeaveShape DEF CleanupObsolete, Succeed, Shape, DaemonTypeOK
<1> QED
  BY <1>3, <1>4 DEF CleanupObsolete, Transaction

LEMMA DiscardShape == Shape /\ Discard => Shape' /\ KernelStep
<1> SUFFICES ASSUME Shape, Discard PROVE Shape' /\ KernelStep
  OBVIOUS
<1>1. Head(junk) \in Gens /\ used # {}
  BY DEF Discard, Shape, WorkOK, DaemonTypeOK
<1>2. BudgetStep /\ KernelStep
  BY <1>1 DEF Discard, Transaction, CanDeleteSets, BudgetStep, KernelStep, Kinds
<1>3. CASE Len(junk) > 1 /\ junk' = Tail(junk) /\ UNCHANGED <<pc, todo, stage, candidate>>
  <2>1. Tail(junk) \in Seq(Gens) /\ Tail(junk) # <<>>
    <3>1. junk \in Seq(Gens) /\ junk # <<>>
      BY DEF Discard, Shape, DaemonTypeOK, WorkOK
    <3> QED
      BY <1>3, <3>1, SequenceParts
  <2>3. budget' \in [Kinds -> Nat]
    BY <1>2, BudgetType DEF Shape, DaemonTypeOK
  <2>5. DaemonTypeOK'
    BY <1>3, <2>1, <2>3 DEF Discard, Shape, DaemonTypeOK, environment, process
  <2>6. WorkOK'
    BY <1>3, <2>1 DEF Discard, Shape, WorkOK, Initial, Covered, process
  <2> QED
    BY <1>2, <2>5, <2>6 DEF Shape
<1>4. CASE Fail
  BY <1>1, <1>2, <1>4, LeaveShape DEF Discard, Fail, Shape, DaemonTypeOK
<1> QED
  BY <1>3, <1>4 DEF Discard, Transaction

\* A step that leaves the work variables of an idle daemon alone.
LEMMA IdleShape ==
    ASSUME Shape, pc \in {"watch", "rec_layout", "rec_bootstrap", "rec_health", "repair",
                          "install", "exit"},
           pc' \in {"watch", "rec_layout", "rec_bootstrap", "rec_health", "repair",
                    "exit", "exit_delete"},
           UNCHANGED <<environment, used, active, work>>, BudgetStep,
           inherited' \in BOOLEAN, watching' \in BOOLEAN, pending' \in SUBSET used,
           next' \in 1..MaxGen
    PROVE  Shape'
<1>1. budget' \in [Kinds -> Nat]
  BY BudgetType DEF Shape, DaemonTypeOK
<1>2. DaemonTypeOK'
  BY <1>1 DEF Shape, DaemonTypeOK, environment, work
<1>3. WorkOK'
  BY DEF Shape, WorkOK, Initial, Covered, work
<1> QED
  BY <1>2, <1>3 DEF Shape

LEMMA InstallWatcherShape == Shape /\ InstallWatcher => Shape' /\ KernelStep
<1> SUFFICES ASSUME Shape, InstallWatcher PROVE Shape' /\ KernelStep
  OBVIOUS
<1>1. BudgetStep /\ KernelStep
  BY DEF InstallWatcher, BudgetStep, KernelStep, Kinds
<1> QED
  BY <1>1, IdleShape DEF InstallWatcher, Shape, DaemonTypeOK, WorkOK

LEMMA ReloadShape ==
    ASSUME Shape, NEW d \in Directions, Reload(d)
    PROVE  Shape' /\ KernelStep
<1>1. BudgetStep /\ KernelStep
  BY DEF Reload, BudgetStep, KernelStep
<1>2. used \in SUBSET Directions /\ used # {} /\ Consumed(d) \in SUBSET used
  BY DEF Reload, Consumed, Shape, DaemonTypeOK, WorkOK
<1>3. CASE Initial
  BY <1>1, <1>2, <1>3, ReplaceShape DEF Reload, Shape, DaemonTypeOK, WorkOK, process
<1>4. CASE ~Initial
  <2>1. d \in used
    BY DEF Reload, Shape, WorkOK
  <2>2. InOrder({d}) = <<d>>
    <3>1. CASE d = "in"
      BY <3>1 DEF InOrder
    <3>2. CASE d = "out"
      BY <3>2 DEF InOrder
    <3> QED
      BY <3>1, <3>2 DEF Directions
  <2>3. {d} \in SUBSET used /\ {d} # {} /\ Replace(InOrder({d}))
    BY <1>4, <2>1, <2>2 DEF Reload
  <2> QED
    BY <1>1, <1>2, <2>3, ReplaceShape DEF Reload, Shape, DaemonTypeOK, WorkOK, process
<1> QED
  BY <1>3, <1>4

LEMMA ReconcileShape == Shape /\ Reconcile => Shape' /\ KernelStep
<1> SUFFICES ASSUME Shape, Reconcile PROVE Shape' /\ KernelStep
  OBVIOUS
<1>1. BudgetStep /\ KernelStep
  BY DEF Reconcile, Dump, BudgetStep, KernelStep, Kinds
<1>2. used \in SUBSET used /\ used # {}
  BY DEF Reconcile, Shape, DaemonTypeOK, WorkOK
<1>3. CASE Replace(InOrder(used))
  BY <1>1, <1>2, <1>3, ReplaceShape DEF Reconcile, Shape, DaemonTypeOK, WorkOK, process
<1>4. CASE UNCHANGED <<pc, work>>
  BY <1>1, <1>4, IdleShape DEF Reconcile, Shape, DaemonTypeOK, WorkOK, process
<1>5. CASE pc' = "rec_layout" /\ UNCHANGED work
  BY <1>1, <1>5, IdleShape DEF Reconcile, Shape, DaemonTypeOK, WorkOK, process
<1> QED
  BY <1>3, <1>4, <1>5 DEF Reconcile, Dump

LEMMA ReconcileLayoutShape == Shape /\ ReconcileLayout => Shape' /\ KernelStep
<1> SUFFICES ASSUME Shape, ReconcileLayout PROVE Shape' /\ KernelStep
  OBVIOUS
<1>1. BudgetStep /\ KernelStep
  BY DEF ReconcileLayout, Dump, BudgetStep, KernelStep, Kinds
<1>2. next' \in 1..MaxGen
  BY ObserveType DEF ReconcileLayout, Dump, Shape, DaemonTypeOK
<1>3. pc' \in {"watch", "rec_bootstrap", "rec_health"}
  BY DEF ReconcileLayout, Dump
<1> QED
  BY <1>1, <1>2, <1>3, IdleShape DEF ReconcileLayout, Shape, DaemonTypeOK, WorkOK, process

LEMMA ReconcileBootstrapShape == Shape /\ ReconcileBootstrap => Shape' /\ KernelStep
<1> SUFFICES ASSUME Shape, ReconcileBootstrap PROVE Shape' /\ KernelStep
  OBVIOUS
<1>1. BudgetStep /\ KernelStep
  BY DEF ReconcileBootstrap, Transaction, BudgetStep, KernelStep, Kinds
<1>2. used \in SUBSET used /\ used # {}
  BY DEF ReconcileBootstrap, Shape, DaemonTypeOK, WorkOK
<1>3. CASE active' = NoTracked /\ Replace(InOrder(used))
  BY <1>1, <1>2, <1>3, ReplaceShape DEF ReconcileBootstrap, Shape, DaemonTypeOK, WorkOK, process
<1>4. CASE pc' = "watch" /\ UNCHANGED <<active, work>>
  BY <1>1, <1>4, IdleShape DEF ReconcileBootstrap, Shape, DaemonTypeOK, WorkOK, process
<1> QED
  BY <1>3, <1>4 DEF ReconcileBootstrap, Transaction

LEMMA ReconcileHealthShape == Shape /\ ReconcileHealth => Shape' /\ KernelStep
<1> SUFFICES ASSUME Shape, ReconcileHealth PROVE Shape' /\ KernelStep
  OBVIOUS
<1> DEFINE D == Damaged(active) \cap used
<1>1. BudgetStep /\ KernelStep
  BY DEF ReconcileHealth, Dump, BudgetStep, KernelStep, Kinds
<1>2. Damaged(active) # {} => D \in SUBSET used /\ D # {}
  BY DEF ReconcileHealth, Damaged, Covered, Shape, DaemonTypeOK, WorkOK
<1>3. CASE Damaged(active) # {} /\ Replace(InOrder(D))
  <2> HIDE DEF D
  <2> QED
    BY <1>1, <1>2, <1>3, ReplaceShape DEF ReconcileHealth, Shape, DaemonTypeOK, WorkOK, process
<1>4. CASE pc' \in {"repair", "watch"} /\ UNCHANGED work
  BY <1>1, <1>4, IdleShape DEF ReconcileHealth, Shape, DaemonTypeOK, WorkOK, process
<1> QED
  BY <1>3, <1>4 DEF ReconcileHealth, Dump

LEMMA RepairRulesShape == Shape /\ RepairRules => Shape' /\ KernelStep
<1> SUFFICES ASSUME Shape, RepairRules PROVE Shape' /\ KernelStep
  OBVIOUS
<1>1. GenOf(active) \in [Directions -> Gens \cup {None}]
  BY GenOfType DEF Shape, DaemonTypeOK
<1>2. BudgetStep /\ KernelStep
  BY <1>1 DEF RepairRules, Transaction, BudgetStep, KernelStep, Kinds
<1> QED
  BY <1>2, IdleShape DEF RepairRules, Shape, DaemonTypeOK, WorkOK, process

LEMMA StopShape == Shape /\ Stop => Shape' /\ KernelStep
<1> SUFFICES ASSUME Shape, Stop PROVE Shape' /\ KernelStep
  OBVIOUS
<1>1. BudgetStep /\ KernelStep
  BY DEF Stop, BudgetStep, KernelStep
<1> QED
  BY <1>1, IdleShape DEF Stop, Shape, DaemonTypeOK, WorkOK, process

\* However the process ends, nothing of it is left.
LEMMA DownShape ==
    ASSUME Shape, Down, BudgetStep, UNCHANGED environment,
           todo' = <<>>, candidate' = NoTracked,
           stage' \in {stage, None}, junk' \in {junk, <<>>}
    PROVE  Shape'
<1>1. budget' \in [Kinds -> Nat] /\ 1 \in 1..MaxGen
  BY BudgetType, TableAssumption DEF Shape, DaemonTypeOK
<1>2. /\ NoTracked \in [Directions -> Tracked \cup {None}] /\ Covered(NoTracked) = {}
      /\ <<>> \in Seq(Directions) /\ <<>> \in Seq(Gens) /\ Len(<<>>) = 0
  BY DEF NoTracked, Covered
<1>3. DaemonTypeOK'
  BY <1>1, <1>2 DEF Down, Shape, DaemonTypeOK, environment
<1>4. WorkOK'
  BY <1>2 DEF Down, Shape, WorkOK, Initial, Covered, NoTracked
<1> QED
  BY <1>3, <1>4 DEF Shape

LEMMA ExitShape == Shape /\ Exit => Shape' /\ KernelStep
<1> SUFFICES ASSUME Shape, Exit PROVE Shape' /\ KernelStep
  OBVIOUS
<1>1. BudgetStep /\ KernelStep
  BY DEF Exit, Dump, BudgetStep, KernelStep, Kinds
<1>2. todo = <<>> /\ candidate = NoTracked
  BY DEF Exit, Shape, WorkOK
<1>3. CASE Down
  BY <1>1, <1>2, <1>3, DownShape DEF Exit, work
<1>4. CASE pc' = "exit_delete" /\ UNCHANGED <<next, active, process, watching, pending>>
  BY <1>1, <1>4, IdleShape DEF Exit, Shape, DaemonTypeOK, WorkOK, process
<1> QED
  BY <1>3, <1>4 DEF Exit, Dump

LEMMA DeleteTableShape == Shape /\ DeleteTable => Shape' /\ KernelStep
<1> SUFFICES ASSUME Shape, DeleteTable PROVE Shape' /\ KernelStep
  OBVIOUS
<1>1. BudgetStep /\ KernelStep /\ Down
  BY DEF DeleteTable, Transaction, BudgetStep, KernelStep, Kinds
<1>2. todo = <<>> /\ candidate = NoTracked
  BY DEF DeleteTable, Shape, WorkOK
<1> QED
  BY <1>1, <1>2, DownShape DEF DeleteTable, work

LEMMA CrashShape == Shape /\ Crash => Shape' /\ KernelStep
<1> SUFFICES ASSUME Shape, Crash PROVE Shape' /\ KernelStep
  OBVIOUS
<1>1. BudgetStep /\ KernelStep
  BY DEF Crash, BudgetStep, KernelStep, Kinds
<1> QED
  BY <1>1, DownShape DEF Crash

\* The environment changes files, events, flowtables and the table.
LEMMA EnvironmentShape ==
    ASSUME Shape, BudgetStep, UNCHANGED <<pc, next, active, watching, work, process>>,
           file' \in [Directions -> Lists], flowtable' \in BOOLEAN,
           pending' = pending \/ (watching /\ pending' \in SUBSET used)
    PROVE  Shape'
<1>1. budget' \in [Kinds -> Nat]
  BY BudgetType DEF Shape, DaemonTypeOK
<1>2. DaemonTypeOK'
  BY <1>1 DEF Shape, DaemonTypeOK, work, process
<1>3. WorkOK'
  BY DEF Shape, WorkOK, Initial, Covered, work, process
<1> QED
  BY <1>2, <1>3 DEF Shape

LEMMA FileChangeShape ==
    ASSUME Shape, NEW d \in Directions, FileChange(d)
    PROVE  Shape' /\ KernelStep
<1>1. BudgetStep /\ KernelStep
  BY DEF FileChange, BudgetStep, KernelStep
<1>2. PICK s \in Shapes : file' = [file EXCEPT ![d] = [ver |-> @.ver + 1, shape |-> s]]
  BY DEF FileChange
<1>3. file[d].ver + 1 \in 0..MaxVer
  BY TableAssumption DEF FileChange, Shape, DaemonTypeOK, Lists
<1>4. [ver |-> file[d].ver + 1, shape |-> s] \in Lists
  BY <1>3 DEF Lists
<1>5. file' \in [Directions -> Lists]
  BY <1>2, <1>4 DEF Shape, DaemonTypeOK
<1>6. pending' = pending \/ (watching /\ pending' \in SUBSET used)
  BY DEF FileChange, Shape, WorkOK
<1> QED
  BY <1>1, <1>5, <1>6, EnvironmentShape DEF FileChange, Shape, DaemonTypeOK

LEMMA FileEventShape ==
    ASSUME Shape, NEW d \in Directions, FileEvent(d)
    PROVE  Shape' /\ KernelStep
<1>1. BudgetStep /\ KernelStep
  BY DEF FileEvent, BudgetStep, KernelStep, Kinds
<1> QED
  BY <1>1, EnvironmentShape DEF FileEvent, Shape, DaemonTypeOK, WorkOK, environment

LEMMA TamperShape == Shape /\ KernelTypeOK /\ Tamper => Shape' /\ KernelStep
<1> SUFFICES ASSUME Shape, KernelTypeOK, Tamper PROVE Shape' /\ KernelStep
  OBVIOUS
<1>1. BudgetStep /\ flowtable' \in BOOLEAN
  BY DEF Tamper, BudgetStep, Kinds, Shape, DaemonTypeOK
<1>2. KernelStep
  <2>1. ASSUME NEW g \in sets, AddItems(g, {Alien}) PROVE KernelStep
    <3>1. g \in Gens
      BY DEF KernelTypeOK
    <3> QED
      BY <2>1, <3>1 DEF KernelStep
  <2>2. ASSUME NEW g \in sets \ Referenced, DeleteSets({g}) PROVE KernelStep
    BY <2>2 DEF KernelStep
  <2> QED
    BY <2>1, <2>2 DEF Tamper, KernelStep, KernelTypeOK
<1>3. /\ pc' = pc /\ next' = next /\ active' = active /\ watching' = watching
      /\ work' = work /\ process' = process /\ pending' = pending
  BY DEF Tamper, daemon
<1>4. file' \in [Directions -> Lists]
  BY DEF Tamper, Shape, DaemonTypeOK
<1>5. Shape'
  BY <1>1, <1>3, <1>4, EnvironmentShape
<1> QED
  BY <1>2, <1>5

-----------------------------------------------------------------------------
(* Types.                                                                  *)

LEMMA ShapeStep == Shape /\ KernelTypeOK /\ [Next]_vars => Shape' /\ KernelStep
<1> SUFFICES ASSUME Shape, KernelTypeOK, [Next]_vars PROVE Shape' /\ KernelStep
  OBVIOUS
<1>1. CASE UNCHANGED vars
  BY <1>1 DEF vars, daemon, environment, work, process, kernel, KernelStep, Shape,
              DaemonTypeOK, WorkOK, Initial, Covered
<1>2. CASE Busy
  BY <1>2, CheckFlowtablesShape, CheckLayoutShape, BootstrapShape, BeginStageShape,
     PopulateShape, EndOfStreamShape, VerifyCandidateShape, ActivateInitialShape,
     ActivateDirectionShape, CleanupObsoleteShape, DiscardShape, InstallWatcherShape,
     ReconcileLayoutShape, ReconcileBootstrapShape, ReconcileHealthShape,
     RepairRulesShape, ExitShape, DeleteTableShape DEF Busy
<1>3. CASE Start \/ Reconcile \/ Stop \/ Crash \/ Tamper
  BY <1>3, StartShape, ReconcileShape, StopShape, CrashShape, TamperShape
<1>4. CASE \E d \in Directions : Reload(d) \/ FileChange(d) \/ FileEvent(d)
  BY <1>4, ReloadShape, FileChangeShape, FileEventShape
<1> QED
  BY <1>1, <1>2, <1>3, <1>4 DEF Next

LEMMA InitShape == Init => Shape /\ KernelTypeOK
<1> SUFFICES ASSUME Init PROVE Shape /\ KernelTypeOK
  OBVIOUS
<1>1. KernelTypeOK
  BY DEF Init, Absent, Foreign, KernelTypeOK
<1>2. /\ NoTracked \in [Directions -> Tracked \cup {None}] /\ Covered(NoTracked) = {}
      /\ <<>> \in Seq(Directions) /\ <<>> \in Seq(Gens) /\ Len(<<>>) = 0
  BY DEF NoTracked, Covered
<1>3. \A s \in Shapes : [ver |-> 0, shape |-> s] \in Lists
  BY TableAssumption DEF Lists
<1>4. file \in [Directions -> Lists]
  BY <1>3 DEF Init
<1>5. DaemonTypeOK
  <2>1. 1 \in 1..MaxGen /\ budget \in [Kinds -> Nat]
    BY TableAssumption, DaemonAssumption DEF Init
  <2>2. active \in [Directions -> Tracked \cup {None}] /\ candidate \in [Directions -> Tracked \cup {None}]
    BY <1>2 DEF Init
  <2> QED
    BY <1>2, <1>4, <2>1, <2>2 DEF Init, DaemonTypeOK
<1>6. WorkOK
  BY <1>2 DEF Init, WorkOK, Initial
<1> QED
  BY <1>1, <1>5, <1>6 DEF Shape

\* Every variable keeps its type in every run of the daemon.
THEOREM TypeCorrect == Spec => []TypeOK
<1>1. Init => Shape /\ KernelTypeOK
  BY InitShape
<1>2. Shape /\ KernelTypeOK /\ [Next]_vars => Shape' /\ KernelTypeOK'
  BY ShapeStep, KernelType
<1>3. Shape /\ KernelTypeOK => TypeOK
  BY DEF Shape, TypeOK
<1> QED
  BY <1>1, <1>2, <1>3, PTL DEF Spec

-----------------------------------------------------------------------------
(***************************************************************************)
(* The proof that only complete, well-formed lists are ever enforced.      *)
(*                                                                         *)
(* Only two steps put something new into a generation: BeginStage creates  *)
(* one under a fresh number, and Populate adds a chunk to the stage.  All  *)
(* other steps are calm: they add nothing to a generation, and the rules   *)
(* they install look up tracked generations.                               *)
(***************************************************************************)

\* No generation appears or gains items, but for those of another program.
Fades ==
    \A g \in sets' :
        /\ g \in sets
        /\ source'[g] = source[g]
        /\ elems'[g] = elems[g] \/ Alien \in elems'[g]

\* New lookups are those of tracked generations that exist.
Follows ==
    \A d \in Directions : dispatch'[d] # None =>
        /\ dispatch'[d] \in sets'
        /\ \/ dispatch'[d] = dispatch[d]
           \/ d \in Covered(active) /\ dispatch'[d] = active[d].gen
           \/ d \in Covered(candidate) /\ dispatch'[d] = candidate[d].gen

CalmKernel == Fades /\ Follows /\ SetsOK'

\* What is tracked after the step was tracked before it.
Retains(tracked) ==
    \A d \in Covered(tracked) :
        \/ d \in Covered(active) /\ tracked[d] = active[d]
        \/ d \in Covered(candidate) /\ tracked[d] = candidate[d]

CalmDaemon ==
    /\ Retains(active')
    /\ Retains(candidate')
    /\ next' >= next \/ (active' = NoTracked /\ candidate' = NoTracked)
    /\ NumbersFresh'

Context == KernelTypeOK /\ Shape /\ IInv

\* The invariant without its clause about the stage being populated.
Rest ==
    /\ TypeOK
    /\ WorkOK
    /\ SetsOK
    /\ NumbersFresh
    /\ TrackedOK(active)
    /\ TrackedOK(candidate)
    /\ EnforcedComplete

LEMMA Empty == Covered(NoTracked) = {}
BY DEF Covered, NoTracked

LEMMA IntactKept ==
    ASSUME Fades, NEW g \in Gens, Intact(g)
    PROVE  Intact(g)'
BY DEF Fades, Intact, Complete

\* Calm steps keep this much of the invariant.
LEMMA Calm ==
    ASSUME Context, Shape', KernelTypeOK', CalmKernel, CalmDaemon
    PROVE  Rest'
<1>1. TypeOK' /\ WorkOK' /\ SetsOK' /\ NumbersFresh'
  BY DEF Shape, TypeOK, CalmKernel, CalmDaemon
<1>3. ASSUME NEW tracked \in [Directions -> Tracked \cup {None}], Retains(tracked),
             next' >= next
      PROVE  \A d \in Covered(tracked) :
               /\ tracked[d].gen[1] = d
               /\ tracked[d].gen[2] < next'
               /\ Intact(tracked[d].gen)'
  <2> SUFFICES ASSUME NEW d \in Covered(tracked)
               PROVE  /\ tracked[d].gen[1] = d
                      /\ tracked[d].gen[2] < next'
                      /\ Intact(tracked[d].gen)'
    OBVIOUS
  <2>1. tracked[d] \in Tracked
    BY DEF Covered
  <2>2. tracked[d].gen \in Gens /\ tracked[d].gen[2] \in Nat
    BY <2>1, TableAssumption DEF Tracked, Gens
  <2>3. /\ tracked[d].gen[1] = d
        /\ tracked[d].gen[2] < next
        /\ Intact(tracked[d].gen)
    BY <1>3 DEF Retains, Context, IInv, TrackedOK
  <2>4. Intact(tracked[d].gen)'
    BY <2>2, <2>3, IntactKept DEF CalmKernel
  <2>5. next \in Nat /\ next' \in Nat
    BY TableAssumption DEF Context, Shape, DaemonTypeOK
  <2> QED
    BY <1>3, <2>2, <2>3, <2>4, <2>5
<1>4. TrackedOK(active)'
  <2>1. CASE next' >= next
    BY <1>3, <2>1 DEF CalmDaemon, TrackedOK, Shape, DaemonTypeOK
  <2>2. CASE active' = NoTracked
    BY <2>2, Empty DEF TrackedOK
  <2> QED
    BY <2>1, <2>2 DEF CalmDaemon
<1>5. TrackedOK(candidate)'
  <2>1. CASE next' >= next
    BY <1>3, <2>1 DEF CalmDaemon, TrackedOK, Shape, DaemonTypeOK
  <2>2. CASE candidate' = NoTracked
    BY <2>2, Empty DEF TrackedOK
  <2> QED
    BY <2>1, <2>2 DEF CalmDaemon
<1>6. EnforcedComplete'
  <2> SUFFICES ASSUME NEW d \in Directions, dispatch'[d] # None
               PROVE  (/\ dispatch[d] \in sets
                       /\ dispatch[d][1] = d
                       /\ Intact(dispatch[d]))'
    BY DEF EnforcedComplete
  <2>1. PICK g \in Gens : g = dispatch'[d]
    BY DEF KernelTypeOK
  <2>2. g \in sets'
    BY <2>1 DEF CalmKernel, Follows
  <2>3. g[1] = d /\ Intact(g)
    BY <2>1 DEF CalmKernel, Follows, Context, IInv, EnforcedComplete, TrackedOK
  <2>4. Intact(g)'
    BY <2>3, IntactKept DEF CalmKernel
  <2> QED
    BY <2>1, <2>2, <2>3, <2>4 DEF Intact, Complete
<1> QED
  BY <1>1, <1>4, <1>5, <1>6 DEF Rest

-----------------------------------------------------------------------------
(* Transactions.                                                           *)

LEMMA StillCalm == Context /\ UNCHANGED kernel => CalmKernel
BY DEF Context, IInv, kernel, CalmKernel, Fades, Follows, SetsOK, EnforcedComplete

LEMMA AddTableCalm == Context /\ AddTable => CalmKernel
BY DEF Context, IInv, AddTable, CalmKernel, Fades, Follows, SetsOK, EnforcedComplete

LEMMA DropTableCalm == Context /\ DropTable => CalmKernel
BY DEF DropTable, CalmKernel, Fades, Follows, SetsOK

LEMMA DeleteSetsCalm ==
    ASSUME Context, NEW G, CanDeleteSets(G), DeleteSets(G)
    PROVE  CalmKernel
<1>1. sets \subseteq Gens /\ sets' = sets \ G /\ dispatch' = dispatch /\ table' = table
  BY DEF Context, KernelTypeOK, DeleteSets
<1>2. \A g \in Gens : /\ elems'[g] = IF g \in G THEN {} ELSE elems[g]
                      /\ source'[g] = IF g \in G THEN None ELSE source[g]
  BY DEF DeleteSets
<1>3. Fades
  BY <1>1, <1>2 DEF Fades
<1>4. Follows
  BY <1>1 DEF Follows, CanDeleteSets, Referenced, Context, IInv, EnforcedComplete
<1>5. SetsOK'
  BY <1>1, <1>2 DEF SetsOK, Context, IInv
<1> QED
  BY <1>3, <1>4, <1>5 DEF CalmKernel

LEMMA ReplaceRulesCalm ==
    ASSUME Context, NEW tracked \in {active, candidate},
           CanReplaceRules(GenOf(tracked)), ReplaceRules(GenOf(tracked))
    PROVE  CalmKernel
<1>1. /\ sets' = sets /\ elems' = elems /\ source' = source /\ table' = table
      /\ \A d \in Directions : dispatch'[d] = IF tracked[d] = None THEN None ELSE tracked[d].gen
  BY DEF ReplaceRules, GenOf
<1>2. Fades /\ SetsOK'
  BY <1>1 DEF Fades, SetsOK, Context, IInv
<1>3. \A d \in Directions : dispatch'[d] # None => dispatch'[d] \in sets /\ d \in Covered(tracked)
  BY <1>1 DEF CanReplaceRules, GenOf, Covered
<1>4. Follows
  BY <1>1, <1>3 DEF Follows
<1> QED
  BY <1>2, <1>4 DEF CalmKernel

LEMMA ReplaceDispatchCalm ==
    ASSUME Context, NEW d \in Covered(candidate),
           CanReplaceDispatch(candidate[d].gen), ReplaceDispatch(d, candidate[d].gen)
    PROVE  CalmKernel
<1>1. /\ sets' = sets /\ elems' = elems /\ source' = source /\ table' = table
      /\ \A x \in Directions : dispatch'[x] = IF x = d THEN candidate[d].gen ELSE dispatch[x]
  BY DEF ReplaceDispatch, Covered, Context, KernelTypeOK
<1>2. Fades /\ SetsOK'
  BY <1>1 DEF Fades, SetsOK, Context, IInv
<1>3. Follows
  BY <1>1 DEF Follows, CanReplaceDispatch, Context, IInv, EnforcedComplete
<1> QED
  BY <1>2, <1>3 DEF CalmKernel

LEMMA AlienCalm ==
    ASSUME Context, NEW g \in sets, AddItems(g, {Alien})
    PROVE  CalmKernel
<1>1. /\ g \in Gens /\ sets' = sets /\ source' = source /\ table' = table /\ dispatch' = dispatch
      /\ \A x \in Gens : elems'[x] = IF x = g THEN elems[g] \cup {Alien} ELSE elems[x]
  BY DEF AddItems, Context, KernelTypeOK
<1>2. Fades
  BY <1>1 DEF Fades, Context, KernelTypeOK
<1>3. SetsOK'
  BY <1>1 DEF SetsOK, Context, IInv
<1>4. Follows
  BY <1>1 DEF Follows, Context, IInv, EnforcedComplete
<1> QED
  BY <1>2, <1>3, <1>4 DEF CalmKernel

LEMMA TamperCalm == Context /\ Tamper => CalmKernel
<1> SUFFICES ASSUME Context, Tamper PROVE CalmKernel
  OBVIOUS
<1>1. CASE DropTable
  BY <1>1, DropTableCalm
<1>2. CASE \E g \in sets : AddItems(g, {Alien})
  BY <1>2, AlienCalm
<1>3. CASE \E g \in sets \ Referenced : DeleteSets({g})
  BY <1>3, DeleteSetsCalm DEF CanDeleteSets
<1>4. CASE UNCHANGED kernel
  BY <1>4, StillCalm
<1>5. CASE table' = "foreign" /\ UNCHANGED <<sets, elems, base, dispatch, source>>
  BY <1>5 DEF Context, IInv, CalmKernel, Fades, Follows, SetsOK, EnforcedComplete
<1>6. CASE dispatch' = [d \in Directions |-> None] /\ UNCHANGED <<table, sets, elems, source>>
  BY <1>6 DEF Context, IInv, CalmKernel, Fades, Follows, SetsOK
<1> QED
  BY <1>1, <1>2, <1>3, <1>4, <1>5, <1>6 DEF Tamper

-----------------------------------------------------------------------------
(* What calm actions do to the daemon's variables.                         *)

LEMMA FewerSets ==
    ASSUME Context, Shape', Fades, pc \notin {"down", "flow", "layout"}, next' >= next
    PROVE  \A g \in sets' : g[2] < next'
<1>1. next \in Nat /\ next' \in Nat /\ \A g \in sets : g[2] \in Nat /\ g[2] < next
  BY TableAssumption DEF Context, Shape, DaemonTypeOK, IInv, NumbersFresh, KernelTypeOK, Gens
<1> QED
  BY <1>1 DEF Fades

LEMMA CalmStep ==
    ASSUME Context, Shape', KernelTypeOK', CalmKernel,
           active' \in {active, candidate, NoTracked}, candidate' \in {candidate, NoTracked},
           next' >= next \/ (active' = NoTracked /\ candidate' = NoTracked),
           \/ pc' \in {"down", "flow", "layout"}
           \/ pc \notin {"down", "flow", "layout"} /\ next' >= next
           \/ \A g \in sets' : g[2] < next'
    PROVE  Rest' /\ (pc' # "populate" => IInv')
<1>1. Retains(active') /\ Retains(candidate')
  BY Empty DEF Retains
<1>2. NumbersFresh'
  BY FewerSets DEF NumbersFresh, CalmKernel
<1>3. Rest'
  BY <1>1, <1>2, Calm DEF CalmDaemon
<1>4. pc' # "populate" => StageOK'
  BY DEF StageOK
<1> QED
  BY <1>3, <1>4 DEF Rest, IInv

LEMMA NextIsNat == Context => next >= next /\ next + 1 >= next /\ next \in Nat
BY TableAssumption DEF Context, Shape, DaemonTypeOK

\* Starting and ending the process.
LEMMA ProcessKeeps ==
    ASSUME Context, Shape', KernelTypeOK',
           Start \/ CheckFlowtables \/ Exit \/ DeleteTable \/ Crash
    PROVE  IInv'
<1> USE NextIsNat
<1>1. CASE Start
  BY <1>1, CalmStep, StillCalm DEF Start, work
<1>2. CASE CheckFlowtables
  <2>1. active = NoTracked /\ candidate = NoTracked
    BY <1>2 DEF CheckFlowtables, Context, Shape, WorkOK
  <2> QED
    BY <1>2, <2>1, CalmStep, StillCalm DEF CheckFlowtables, Dump, Abort, work
<1>3. CASE Exit
  <2>1. candidate = NoTracked
    BY <1>3 DEF Exit, Context, Shape, WorkOK
  <2> QED
    BY <1>3, <2>1, CalmStep, StillCalm DEF Exit, Dump, Down, work
<1>4. CASE DeleteTable
  <2>1. candidate = NoTracked
    BY <1>4 DEF DeleteTable, Context, Shape, WorkOK
  <2>2. CalmKernel
    BY <1>4, StillCalm, DropTableCalm DEF DeleteTable, Transaction
  <2> QED
    BY <1>4, <2>1, <2>2, CalmStep DEF DeleteTable, Transaction, Down, work
<1>5. CASE Crash
  BY <1>5, CalmStep, StillCalm DEF Crash, Down
<1> QED
  BY <1>1, <1>2, <1>3, <1>4, <1>5

\* Reading the layout makes the next number larger than all in use.
LEMMA LayoutKeeps ==
    ASSUME Context, Shape', KernelTypeOK', CheckLayout \/ Bootstrap \/ ReconcileLayout
    PROVE  IInv'
<1> USE NextIsNat
<1>1. Observe => next' >= next /\ \A g \in sets : g[2] < next'
  BY TableAssumption DEF Observe, Context, Shape, DaemonTypeOK
<1>2. CASE CheckLayout
  <2>1. active = NoTracked /\ candidate = NoTracked /\ sets' = sets
    BY <1>2 DEF CheckLayout, Context, Shape, WorkOK, kernel
  <2>2. Layout = "absent" => sets = {}
    BY DEF Layout, Context, IInv, SetsOK
  <2>3. CASE Layout = "absent" /\ pc' = "bootstrap" /\ UNCHANGED <<next, work>>
    BY <1>2, <2>1, <2>2, <2>3, CalmStep, StillCalm DEF CheckLayout, work
  <2>4. CASE Observe /\ Replace(InOrder(used))
    BY <1>1, <1>2, <2>1, <2>4, CalmStep, StillCalm DEF CheckLayout, Replace
  <2>5. CASE Abort /\ UNCHANGED work
    BY <1>2, <2>1, <2>5, CalmStep, StillCalm DEF CheckLayout, Abort, work
  <2> QED
    BY <1>2, <2>3, <2>4, <2>5 DEF CheckLayout
<1>3. CASE Bootstrap
  <2>1. active = NoTracked /\ candidate = NoTracked
    BY <1>3 DEF Bootstrap, Context, Shape, WorkOK
  <2>2. CalmKernel
    BY <1>3, StillCalm, AddTableCalm DEF Bootstrap, Transaction
  <2> QED
    BY <1>3, <2>1, <2>2, CalmStep DEF Bootstrap, Transaction, Abort, Replace, work
<1>4. CASE ReconcileLayout
  BY <1>1, <1>4, CalmStep, StillCalm DEF ReconcileLayout, Dump, work
<1> QED
  BY <1>2, <1>3, <1>4

\* The event loop and the reconciliation.
LEMMA LoopKeeps ==
    ASSUME Context, Shape', KernelTypeOK',
           \/ InstallWatcher \/ Reconcile \/ ReconcileBootstrap \/ ReconcileHealth
           \/ RepairRules \/ Stop \/ \E d \in Directions : Reload(d)
    PROVE  IInv'
<1> USE NextIsNat
<1>1. CASE InstallWatcher
  BY <1>1, CalmStep, StillCalm DEF InstallWatcher, work
<1>2. CASE Reconcile
  BY <1>2, CalmStep, StillCalm DEF Reconcile, Dump, Replace, work
<1>3. CASE ReconcileBootstrap
  <2>1. CalmKernel
    BY <1>3, StillCalm, AddTableCalm DEF ReconcileBootstrap, Transaction
  <2> QED
    BY <1>3, <2>1, CalmStep DEF ReconcileBootstrap, Transaction, Replace, work
<1>4. CASE ReconcileHealth
  BY <1>4, CalmStep, StillCalm DEF ReconcileHealth, Dump, Replace, work
<1>5. CASE RepairRules
  <2>1. CalmKernel
    BY <1>5, StillCalm, ReplaceRulesCalm DEF RepairRules, Transaction
  <2> QED
    BY <1>5, <2>1, CalmStep DEF RepairRules, work
<1>6. CASE Stop
  BY <1>6, CalmStep, StillCalm DEF Stop, work
<1>7. CASE \E d \in Directions : Reload(d)
  BY <1>7, CalmStep, StillCalm DEF Reload, Replace
<1> QED
  BY <1>1, <1>2, <1>3, <1>4, <1>5, <1>6, <1>7

\* The later half of a replacement.
LEMMA ReplacementKeeps ==
    ASSUME Context, Shape', KernelTypeOK',
           VerifyCandidate \/ ActivateInitial \/ ActivateDirection \/ CleanupObsolete \/ Discard
    PROVE  IInv'
<1> USE NextIsNat
<1>1. CASE VerifyCandidate
  BY <1>1, CalmStep, StillCalm DEF VerifyCandidate, Dump, Discarding, work
<1>2. CASE ActivateInitial
  <2>1. CalmKernel
    BY <1>2, StillCalm, ReplaceRulesCalm DEF ActivateInitial, Transaction
  <2> QED
    BY <1>2, <2>1, CalmStep
       DEF ActivateInitial, Transaction, Activated, NotActivated, Discarding, work
<1>3. CASE ActivateDirection
  <2>1. Head(todo) \in Covered(candidate)
    BY <1>3 DEF ActivateDirection, Context, Shape, DaemonTypeOK, WorkOK, Covered
  <2>2. CalmKernel
    BY <1>3, <2>1, StillCalm, ReplaceDispatchCalm DEF ActivateDirection, Transaction
  <2> QED
    BY <1>3, <2>2, CalmStep
       DEF ActivateDirection, Transaction, Activated, NotActivated, Discarding, work
<1>4. CASE CleanupObsolete
  <2>1. CalmKernel
    BY <1>4, StillCalm, DeleteSetsCalm DEF CleanupObsolete, Transaction
  <2> QED
    BY <1>4, <2>1, CalmStep DEF CleanupObsolete, Transaction, Replace, Succeed, Leave
<1>5. CASE Discard
  <2>1. CalmKernel
    BY <1>5, StillCalm, DeleteSetsCalm DEF Discard, Transaction
  <2> QED
    BY <1>5, <2>1, CalmStep DEF Discard, Transaction, Fail, Leave
<1> QED
  BY <1>1, <1>2, <1>3, <1>4, <1>5

\* Other programs and the writers of the files.
LEMMA EnvironmentKeeps ==
    ASSUME Context, Shape', KernelTypeOK',
           Tamper \/ UNCHANGED vars \/ \E d \in Directions : FileChange(d) \/ FileEvent(d)
    PROVE  IInv'
<1>1. /\ pc' = pc /\ next' = next /\ active' = active
      /\ todo' = todo /\ stage' = stage /\ candidate' = candidate
  BY DEF Tamper, vars, FileChange, FileEvent, daemon, work
<1>2. UNCHANGED kernel \/ Tamper
  BY DEF vars, FileChange, FileEvent
<1>3. CalmKernel
  BY <1>2, StillCalm, TamperCalm
<1>4. Rest'
  <2>1. CASE pc \in {"down", "flow", "layout"}
    BY <1>1, <1>3, <2>1, CalmStep, NextIsNat
  <2>2. CASE pc \notin {"down", "flow", "layout"}
    BY <1>1, <1>3, <2>2, CalmStep, NextIsNat
  <2> QED
    BY <2>1, <2>2
<1>5. \A d \in Directions : dispatch'[d] \in {dispatch[d], None}
  BY <1>2 DEF kernel, Tamper, DropTable, AddItems, DeleteSets
<1>6. stage.gen \in sets' =>
        /\ stage.gen \in sets
        /\ source'[stage.gen] = source[stage.gen]
        /\ elems'[stage.gen] = elems[stage.gen] \/ Alien \in elems'[stage.gen]
  BY <1>3 DEF CalmKernel, Fades
<1>7. StageOK'
  BY <1>1, <1>5, <1>6 DEF StageOK, Referenced, Context, IInv, Covered
<1> QED
  BY <1>4, <1>7 DEF Rest, IInv

\* Generations other than the one a step touches stay intact.
LEMMA OthersIntact ==
    ASSUME NEW g \in Gens, NEW x \in Gens, x # g, Intact(x),
           x \in sets' => x \in sets, source'[x] = source[x], elems'[x] = elems[x]
    PROVE  Intact(x)'
BY DEF Intact, Complete

\* What a step that touches only generation g leaves as it was.
LEMMA OthersKept ==
    ASSUME Context, Shape', KernelTypeOK', NEW g \in Gens,
           sets' \subseteq sets \cup {g}, sets \subseteq sets',
           \A x \in Gens \ {g} : source'[x] = source[x] /\ elems'[x] = elems[x],
           dispatch' = dispatch, g \notin Referenced, next' >= next,
           active' = active, \A d \in Covered(active) : active[d].gen # g,
           candidate' \in {candidate, NoTracked},
           \A d \in Covered(candidate) : candidate[d].gen # g
    PROVE  TrackedOK(active)' /\ TrackedOK(candidate)' /\ EnforcedComplete'
<1>1. ASSUME NEW tracked \in [Directions -> Tracked \cup {None}], TrackedOK(tracked),
             NEW d \in Covered(tracked), tracked[d].gen # g
      PROVE  /\ tracked[d].gen[1] = d
             /\ tracked[d].gen[2] < next'
             /\ Intact(tracked[d].gen)'
  <2>1. tracked[d].gen \in Gens /\ tracked[d].gen[2] \in Nat
    BY TableAssumption DEF Tracked, Covered, Gens
  <2>2. next \in Nat /\ next' \in Nat
    BY TableAssumption DEF Context, Shape, DaemonTypeOK
  <2>3. /\ tracked[d].gen[1] = d
        /\ tracked[d].gen[2] < next
        /\ Intact(tracked[d].gen)
    BY <1>1 DEF TrackedOK
  <2>4. PICK x \in Gens : x = tracked[d].gen
    BY <2>1
  <2>5. Intact(x)'
    BY <1>1, <2>3, <2>4, OthersIntact
  <2> QED
    BY <2>1, <2>2, <2>3, <2>4, <2>5
<1>2. TrackedOK(active) /\ TrackedOK(candidate)
  BY DEF Context, IInv
<1>3. /\ active \in [Directions -> Tracked \cup {None}]
      /\ candidate \in [Directions -> Tracked \cup {None}]
  BY DEF Context, Shape, DaemonTypeOK
<1>4. TrackedOK(active)'
  BY <1>1, <1>2, <1>3 DEF TrackedOK, Covered
<1>5. TrackedOK(candidate)'
  <2>1. CASE candidate' = candidate
    BY <1>1, <1>2, <1>3, <2>1 DEF TrackedOK, Covered
  <2>2. CASE candidate' = NoTracked
    BY <2>2, Empty DEF TrackedOK
  <2> QED
    BY <2>1, <2>2
<1>6. EnforcedComplete'
  <2> SUFFICES ASSUME NEW d \in Directions, dispatch[d] # None
               PROVE  (/\ dispatch[d] \in sets
                       /\ dispatch[d][1] = d
                       /\ Intact(dispatch[d]))'
    BY DEF EnforcedComplete
  <2>1. PICK x \in Gens : x = dispatch[d]
    BY DEF Context, KernelTypeOK
  <2>2. x # g /\ x \in sets /\ x[1] = d /\ Intact(x)
    BY <2>1 DEF Referenced, Context, IInv, EnforcedComplete
  <2>3. Intact(x)'
    BY <2>2, OthersIntact
  <2> QED
    BY <2>1, <2>2, <2>3 DEF Intact, Complete
<1> QED
  BY <1>4, <1>5, <1>6

LEMMA NoContents == \A list : Contents(list, 0) = {}
BY DEF Contents

\* A fresh number: the new generation is nobody's, so only its own clauses are new.
LEMMA BeginStageKeeps ==
    ASSUME Context, Shape', KernelTypeOK', BeginStage
    PROVE  IInv'
<1> DEFINE d == Head(todo)
           list == file[d]
           g == <<d, next>>
<1>1. /\ pc = "begin" /\ active' = active
      /\ \A x \in sets : x \in Gens /\ x[2] < next
  BY DEF BeginStage, Context, IInv, NumbersFresh, KernelTypeOK
<1>2. CASE StageFailed(Iter(candidate)) /\ UNCHANGED kernel /\ next' >= next
  BY <1>1, <1>2, CalmStep, StillCalm DEF StageFailed, Discarding, Fail, Leave
<1>3. CASE /\ ~(list.shape \in Missing \/ Exhausted)
           /\ CanAddSets /\ AddSets(g, list) /\ next' = next + 1
           /\ \/ StageFailed(Iter(candidate))
              \/ /\ pc' = "populate"
                 /\ stage' = [gen |-> g, list |-> list, sent |-> 0]
                 /\ UNCHANGED <<todo, candidate, junk>>
  <2>1. d \in Directions /\ list \in Lists
    BY DEF BeginStage, Context, Shape, WorkOK, DaemonTypeOK
  <2>2. g \in Gens /\ g[1] = d /\ g[2] = next /\ next \in Nat
    BY <1>3, <2>1, TableAssumption DEF Exhausted, Context, Shape, DaemonTypeOK, Gens
  <2>3. g \notin sets
    BY <1>1, <2>2
  <2>4. /\ sets' = sets \cup {g} /\ elems' = elems /\ dispatch' = dispatch /\ table' = table
        /\ \A x \in Gens : source'[x] = IF x = g THEN list ELSE source[x]
    BY <1>3 DEF AddSets, Context, KernelTypeOK
  <2>5. elems[g] = {}
    BY <2>2, <2>3 DEF Context, IInv, SetsOK
  <2>6. g \notin Referenced
    BY <2>3 DEF Referenced, Context, IInv, EnforcedComplete
  <2>7. /\ \A x \in Covered(active) : active[x].gen # g
        /\ \A x \in Covered(candidate) : candidate[x].gen # g
    BY <2>2 DEF Context, IInv, TrackedOK
  <2>8. candidate' \in {candidate, NoTracked}
    BY <1>3 DEF StageFailed, Discarding, Fail, Leave
  <2>9. TrackedOK(active)' /\ TrackedOK(candidate)' /\ EnforcedComplete'
    BY <1>1, <1>3, <2>2, <2>4, <2>6, <2>7, <2>8, OthersKept
  <2>10. SetsOK'
    BY <1>3, <2>4 DEF SetsOK, CanAddSets, Context, IInv
  <2>11. NumbersFresh'
    <3>1. \A x \in sets : x[2] \in Nat
      BY <1>1, TableAssumption DEF Gens
    <3> QED
      BY <1>1, <1>3, <2>2, <2>4, <3>1 DEF NumbersFresh
  <2>12. StageOK'
    <3>1. CASE StageFailed(Iter(candidate))
      BY <3>1 DEF StageFailed, Discarding, Fail, Leave, StageOK
    <3>2. CASE /\ pc' = "populate"
               /\ stage' = [gen |-> g, list |-> list, sent |-> 0]
               /\ UNCHANGED <<todo, candidate, junk>>
      <4>1. 0 <= Chunks[list.shape]
        BY <2>1, TableAssumption DEF Lists
      <4>2. Referenced' = Referenced /\ Covered(active)' = Covered(active)
            /\ Covered(candidate)' = Covered(candidate)
        BY <1>1, <2>4, <3>2 DEF Referenced, Covered
      <4>3. source'[g] = list /\ elems'[g] = Contents(list, 0)
        BY <2>2, <2>4, <2>5, NoContents
      <4>4. /\ stage'.gen = g /\ stage'.list = list /\ stage'.sent = 0
            /\ todo' = todo /\ candidate' = candidate
        BY <3>2
      <4> QED
        BY <1>1, <1>3, <2>2, <2>6, <2>7, <4>1, <4>2, <4>3, <4>4 DEF StageOK
    <3> QED
      BY <1>3, <3>1, <3>2
  <2> QED
    BY <2>9, <2>10, <2>11, <2>12 DEF IInv, TypeOK, Shape
<1> QED
  BY <1>2, <1>3, NextIsNat DEF BeginStage, Transaction

\* One more chunk: only the stage's own contents change, by the next item.
LEMMA PopulateKeeps ==
    ASSUME Context, Shape', KernelTypeOK', Populate
    PROVE  IInv'
<1> DEFINE g == stage.gen
           item == <<stage.list.ver, stage.sent + 1>>
<1>1. /\ stage \in Stages /\ g \in Gens /\ stage.sent \in Nat
      /\ stage.sent < Chunks[stage.list.shape] /\ Chunks[stage.list.shape] \in Nat
  BY TableAssumption DEF Populate, Context, Shape, WorkOK, Stages, Lists
<1>2. pc = "populate" /\ active' = active /\ next' = next
  BY DEF Populate
<1>3. CASE Discarding(<<g>> \o Iter(candidate)) /\ UNCHANGED kernel
  BY <1>2, <1>3, CalmStep, StillCalm, NextIsNat DEF Discarding
<1>4. CASE /\ CanAddItems(g) /\ AddItems(g, {item})
           /\ \/ Discarding(<<g>> \o Iter(candidate))
              \/ /\ stage' = [stage EXCEPT !.sent = @ + 1]
                 /\ UNCHANGED <<pc, todo, candidate, junk>>
  <2>1. /\ sets' = sets /\ source' = source /\ dispatch' = dispatch /\ table' = table
        /\ g \in sets
        /\ \A x \in Gens : elems'[x] = IF x = g THEN elems[g] \cup {item} ELSE elems[x]
    BY <1>1, <1>4 DEF CanAddItems, AddItems, Context, KernelTypeOK
  <2>2. /\ g \notin Referenced
        /\ \A x \in Covered(active) : active[x].gen # g
        /\ \A x \in Covered(candidate) : candidate[x].gen # g
    BY <1>2 DEF Context, IInv, StageOK
  <2>3. candidate' \in {candidate, NoTracked}
    BY <1>4 DEF Discarding
  <2>4. TrackedOK(active)' /\ TrackedOK(candidate)' /\ EnforcedComplete'
    BY <1>1, <1>2, <2>1, <2>2, <2>3, OthersKept, NextIsNat
  <2>5. SetsOK' /\ NumbersFresh'
    BY <1>2, <2>1 DEF SetsOK, NumbersFresh, Context, IInv
  <2>6. StageOK'
    <3>1. CASE Discarding(<<g>> \o Iter(candidate))
      BY <3>1 DEF Discarding, StageOK
    <3>2. CASE /\ stage' = [stage EXCEPT !.sent = @ + 1]
               /\ UNCHANGED <<pc, todo, candidate, junk>>
      <4>1. stage'.gen = g /\ stage'.list = stage.list /\ stage'.sent = stage.sent + 1
        BY <1>1, <3>2 DEF Stages
      <4>2. Referenced' = Referenced /\ Covered(active)' = Covered(active)
            /\ Covered(candidate)' = Covered(candidate)
        BY <1>2, <2>1, <3>2 DEF Referenced, Covered
      <4>3. stage.sent + 1 <= Chunks[stage.list.shape]
        BY <1>1
      <4>4. item # Alien
        BY <1>1 DEF Alien
      <4>5. Alien \notin elems'[g] =>
              elems'[g] = Contents(stage.list, stage.sent) \cup {item}
        BY <1>1, <1>2, <2>1, <4>4 DEF Context, IInv, StageOK
      <4>6. Contents(stage.list, stage.sent) \cup {item}
              = Contents(stage.list, stage.sent + 1)
        <5>1. 1..(stage.sent + 1) = 1..stage.sent \cup {stage.sent + 1}
          BY <1>1
        <5> QED
          BY <5>1 DEF Contents
      <4>7. /\ g[1] = Head(todo) /\ g[2] < next /\ stage.list.shape \notin Missing
            /\ source[g] = stage.list
        BY <1>2, <2>1 DEF Context, IInv, StageOK
      <4>8. \A x \in Covered(active)' : active'[x].gen # g
        BY <1>2, <2>2, <4>2
      <4>9. \A x \in Covered(candidate)' : candidate'[x].gen # g
        BY <2>2, <3>2, <4>2
      <4>10. g \notin Referenced' /\ Head(todo') = Head(todo) /\ next' = next /\ source'[g] = source[g]
        BY <1>2, <2>1, <2>2, <3>2, <4>2
      <4>11. Alien \notin elems'[g] => elems'[g] = Contents(stage.list, stage.sent + 1)
        BY <4>5, <4>6
      <4> QED
        BY <4>1, <4>3, <4>7, <4>8, <4>9, <4>10, <4>11 DEF StageOK
    <3> QED
      BY <1>4, <3>1, <3>2
  <2> QED
    BY <2>4, <2>5, <2>6 DEF IInv, TypeOK, Shape
<1> QED
  BY <1>3, <1>4 DEF Populate, Transaction

\* The whole well-formed list has been sent: the stage is intact.
LEMMA EndOfStreamKeeps ==
    ASSUME Context, Shape', KernelTypeOK', EndOfStream
    PROVE  IInv'
<1> DEFINE d == Head(todo)
           g == stage.gen
           tracked == [gen |-> g, count |-> stage.sent]
<1>1. /\ pc = "populate" /\ UNCHANGED kernel /\ active' = active /\ next' = next
      /\ stage \in Stages /\ g \in Gens /\ stage.list \in Lists
      /\ stage.sent = Chunks[stage.list.shape] /\ d \in Directions
  BY DEF EndOfStream, Context, Shape, WorkOK, DaemonTypeOK, Stages
<1>2. CASE Discarding(<<g>> \o Iter(candidate))
  BY <1>1, <1>2, CalmStep, StillCalm, NextIsNat DEF Discarding
<1>3. CASE /\ ~StreamFails(stage.list)
           /\ \/ Initial /\ candidate' = [candidate EXCEPT ![d] = tracked]
              \/ ~Initial /\ candidate' = [active EXCEPT ![d] = tracked]
           /\ pc' \in {"verify", "begin"}
  <2>1. g[1] = d /\ g[2] < next /\ Intact(g)
    BY <1>1, <1>3 DEF StreamFails, Intact, Complete, WellFormed, Context, IInv, StageOK
  <2>2. candidate'[d] = tracked
        /\ \A x \in Directions \ {d} : candidate'[x] \in {candidate[x], active[x]}
    BY <1>1, <1>3 DEF Context, Shape, DaemonTypeOK
  <2>3. \A x \in Covered(candidate') :
          /\ candidate'[x].gen[1] = x
          /\ candidate'[x].gen[2] < next
          /\ Intact(candidate'[x].gen)
    BY <2>1, <2>2 DEF Covered, Context, IInv, TrackedOK
  <2>4. TrackedOK(candidate)'
    BY <1>1, <2>3 DEF TrackedOK, Covered, Intact, Complete, kernel
  <2>5. TrackedOK(active)' /\ EnforcedComplete' /\ SetsOK' /\ NumbersFresh'
    BY <1>1, <1>3 DEF TrackedOK, Covered, EnforcedComplete, Intact, Complete, SetsOK, NumbersFresh,
       kernel, Context, IInv
  <2>6. StageOK'
    BY <1>3 DEF StageOK
  <2> QED
    BY <2>4, <2>5, <2>6 DEF IInv, TypeOK, Shape
<1> QED
  BY <1>2, <1>3 DEF EndOfStream

-----------------------------------------------------------------------------

LEMMA InitSafe == Init => IInv
<1> SUFFICES ASSUME Init PROVE IInv
  OBVIOUS
<1>1. TypeOK /\ WorkOK
  BY InitShape DEF Shape, TypeOK
<1>2. SetsOK /\ NumbersFresh /\ EnforcedComplete /\ StageOK
  BY DEF Init, Absent, Foreign, SetsOK, NumbersFresh, EnforcedComplete, StageOK
<1>3. TrackedOK(active) /\ TrackedOK(candidate)
  BY Empty DEF Init, TrackedOK
<1> QED
  BY <1>1, <1>2, <1>3 DEF IInv

LEMMA StepSafe == IInv /\ [Next]_vars => IInv'
<1> SUFFICES ASSUME IInv, [Next]_vars PROVE IInv'
  OBVIOUS
<1>1. Context
  BY DEF Context, IInv, TypeOK, Shape
<1>2. Shape' /\ KernelTypeOK'
  BY <1>1, ShapeStep, KernelType DEF Context
<1>3. CASE Busy
  BY <1>1, <1>2, <1>3, ProcessKeeps, LayoutKeeps, LoopKeeps, ReplacementKeeps, BeginStageKeeps,
     PopulateKeeps, EndOfStreamKeeps DEF Busy
<1>4. CASE Start \/ Crash
  BY <1>1, <1>2, <1>4, ProcessKeeps
<1>5. CASE Reconcile \/ Stop \/ \E d \in Directions : Reload(d)
  BY <1>1, <1>2, <1>5, LoopKeeps
<1>6. CASE Tamper \/ UNCHANGED vars \/ \E d \in Directions : FileChange(d) \/ FileEvent(d)
  BY <1>1, <1>2, <1>6, EnvironmentKeeps
<1> QED
  BY <1>3, <1>4, <1>5, <1>6 DEF Next

\* The invariant holds for any lists, any number of faults, restarts, crashes and
\* interferences, in any order.
THEOREM SafetyInvariantHolds == Spec => []IInv
BY InitSafe, StepSafe, PTL DEF Spec

\* What the rules look up is a whole well-formed list.
THEOREM OnlyCompleteListsEnforced == Spec => []EnforcedComplete
<1>1. IInv => EnforcedComplete
  BY DEF IInv
<1> QED
  BY <1>1, SafetyInvariantHolds, PTL
=============================================================================
