----------------------------- MODULE XdpProofs -----------------------------
(***************************************************************************)
(* The proof that IInv is an invariant of Xdp, action by action.           *)
(***************************************************************************)
EXTENDS XdpProperties, FiniteSetTheorems, TLAPS

\* A file always has a current version.
LEMMA FileShape ==
    ASSUME EnvTypeOK
    PROVE  /\ Len(file) \in Nat \ {0}
           /\ \A v \in 1..Len(file) : file[v] \in Shapes
BY DEF EnvTypeOK

\* No adverse event comes back.
Drawn ==
    /\ budget' \in [Kinds -> Nat]
    /\ \A k \in Kinds : budget'[k] <= budget[k]

LEMMA StillDrawn == EnvTypeOK /\ UNCHANGED budget => Drawn
BY DEF EnvTypeOK, Drawn

LEMMA SpendDrawn ==
    ASSUME EnvTypeOK, NEW kind \in Kinds, Spend(kind)
    PROVE  Drawn
BY DEF EnvTypeOK, Drawn, Spend

\* What is unspent after a step was unspent before it.
LEMMA UnspentBefore ==
    ASSUME EnvTypeOK, PhaseOK, Drawn, NEW k \in Kinds
    PROVE  /\ Unspent(k)' => Unspent(k)
           /\ budget'[k] <= Budget[k]
BY XdpAssumption DEF EnvTypeOK, PhaseOK, Drawn, Unspent

LEMMA DownType ==
    ASSUME EnvTypeOK, UNCHANGED file, Down
    PROVE  DaemonTypeOK'
<1> Len(file) \in Nat /\ Len(file)' = Len(file)
  BY FileShape
<1>1. pc' \in Steps /\ announced' \in 0..Len(file)'
  BY DEF Down, Steps
<1>2. desired' \subseteq Interfaces \X Nat /\ fresh' \subseteq attached'
  BY DEF Down
<1>3. started' \in BOOLEAN /\ watching' \in BOOLEAN /\ pending' \in BOOLEAN
  BY DEF Down
<1>4. stage' = None
  BY DEF Down
<1> QED
  BY <1>1, <1>2, <1>3, <1>4 DEF DaemonTypeOK

LEMMA GotoType ==
    ASSUME EnvTypeOK, DaemonTypeOK, UNCHANGED file, attached \subseteq attached',
           NEW to \in Steps, Goto(to)
    PROVE  DaemonTypeOK'
BY DEF EnvTypeOK, DaemonTypeOK, Goto

LEMMA ReturnType ==
    ASSUME EnvTypeOK, DaemonTypeOK, UNCHANGED <<file, attached>>, NEW to \in Steps, Return(to)
    PROVE  DaemonTypeOK'
BY DEF EnvTypeOK, DaemonTypeOK, Return

LEMMA StillType ==
    ASSUME EnvTypeOK, DaemonTypeOK, UNCHANGED <<file, daemon>>, attached \subseteq attached'
    PROVE  DaemonTypeOK'
BY DEF EnvTypeOK, DaemonTypeOK, daemon

-----------------------------------------------------------------------------
(* Steps that leave the kernel alone.                                      *)

\* What a step that only moves the daemon keeps.
LEMMA Private ==
    ASSUME IInv, Drawn, UNCHANGED <<file, devices, kernel, packet>>
    PROVE  /\ EnvTypeOK'
           /\ KernelTypeOK'
           /\ \A k \in Kinds : (Unspent(k)' => Unspent(k)) /\ budget'[k] <= Budget[k]
<1>1. EnvTypeOK'
  BY DEF IInv, TypeOK, EnvTypeOK, Drawn, devices
<1>2. KernelTypeOK'
  BY DEF IInv, TypeOK, KernelTypeOK, kernel
<1>3. ASSUME NEW k \in Kinds
      PROVE  (Unspent(k)' => Unspent(k)) /\ budget'[k] <= Budget[k]
  BY UnspentBefore DEF IInv, TypeOK
<1> QED
  BY <1>1, <1>2, <1>3

\* Only a cleanup that is cut short leaves a selector and its tries apart.
LEMMA SlotsStill ==
    ASSUME IInv, Unspent("partial")' => Unspent("partial"),
           UNCHANGED <<file, control, tries, enforced, packet>>,
           attached' \subseteq attached \/ control.layout = "current",
           pc # "unpin" \/ pc' = "unpin" \/ ~Unspent("partial")'
    PROVE  SlotsOK'
BY DEF IInv, SlotsOK, ActiveSlot, Listed

LEMMA NothingPinned ==
    ASSUME KernelTypeOK, MapsOK, pins = {}
    PROVE  control.layout = "none" /\ \A s \in Slots : tries[s] = {}
<1>1. control.layout = "none"
  BY DEF MapsOK
<1>2. \A m \in {"IPV4_A", "IPV4_B", "IPV6_A", "IPV6_B"} : tries[SlotOf(m)] \cap FamilyOf(m) = {}
  BY DEF MapsOK, Maps, MapNames
<1>3. \A s \in Slots : tries[s] \cap Family[4] = {} /\ tries[s] \cap Family[6] = {}
  BY <1>2 DEF SlotOf, FamilyOf, Slots
<1>4. \A s \in Slots : tries[s] \subseteq Family[4] \cup Family[6]
  BY DEF KernelTypeOK, Family, Families
<1> QED
  BY <1>1, <1>3, <1>4

LEMMA DownStep ==
    ASSUME IInv, Drawn, Down, UNCHANGED <<file, devices, kernel, packet>>,
           pc = "unpin" /\ Unspent("partial")' => pins = {}
    PROVE  IInv'
<1>1. EnvTypeOK' /\ KernelTypeOK' /\ DaemonTypeOK'
  BY Private, DownType DEF IInv, TypeOK
<1>2. PhaseOK'
  BY Private DEF PhaseOK, Down, Reloading
<1>3. LinksOK' /\ StageOK'
  BY DEF LinksOK, StageOK, Down, Reloading
<1>4. MapsOK'
  BY DEF IInv, MapsOK, Down, Loaded, Reloading, kernel
<1>5. EventsOK'
  BY DEF EventsOK, Down
<1>6. SlotsOK'
  <2>1. CASE pc = "unpin" /\ Unspent("partial")'
    <3>1. control.layout = "none" /\ (\A s \in Slots : tries[s] = {})
      BY <2>1, NothingPinned DEF IInv, TypeOK
    <3>2. Unspent("partial")
      BY <2>1, Private DEF Kinds
    <3> QED
      BY <3>1, <3>2 DEF IInv, SlotsOK, kernel, Down, ActiveSlot
  <2>2. CASE ~(pc = "unpin" /\ Unspent("partial")')
    <3> Unspent("partial")' => Unspent("partial")
      BY Private DEF Kinds
    <3> QED
      BY <2>2, SlotsStill DEF kernel
  <2> QED
    BY <2>1, <2>2
<1> QED
  BY <1>1, <1>2, <1>3, <1>4, <1>5, <1>6 DEF IInv, TypeOK

\* The same between two steps of a running daemon.
LEMMA PrivateStep ==
    ASSUME IInv, Drawn, UNCHANGED <<file, devices, kernel, packet>>,
           pc # "unpin", pc' \in Loaded => control.layout = "current",
           pc' # "control",
           DaemonTypeOK', PhaseOK', LinksOK', StageOK', EventsOK'
    PROVE  IInv'
<1>1. EnvTypeOK' /\ KernelTypeOK'
  BY Private
<1>2. MapsOK'
  BY DEF IInv, MapsOK, kernel
<1>3. Unspent("partial")' => Unspent("partial")
  BY Private DEF Kinds
<1>4. SlotsOK'
  BY <1>3, SlotsStill DEF kernel
<1> QED
  BY <1>1, <1>2, <1>4 DEF IInv, TypeOK

LEMMA StartStep == IInv /\ Start => IInv'
<1> SUFFICES ASSUME IInv, Start
             PROVE  IInv'
  OBVIOUS
<1>1. Drawn
  BY SpendDrawn DEF Start, IInv, TypeOK, Kinds
<1>2. CASE Down
  BY <1>1, <1>2, DownStep DEF Start
<1>3. ASSUME NEW D \in Configs,
             desired' = {Device(i) : i \in D},
             pc' = "load",
             UNCHANGED <<started, watching, pending, announced, stage, fresh>>
      PROVE  IInv'
  <2>1. desired' \subseteq Interfaces \X Nat
    BY <1>3, XdpAssumption DEF Device, IInv, TypeOK, EnvTypeOK
  <2>2. DaemonTypeOK'
    BY <1>3, <2>1 DEF Start, IInv, TypeOK, DaemonTypeOK, Steps, kernel
  <2>3. PhaseOK'
    BY <1>1, <1>3, Private DEF Start, IInv, PhaseOK, Reloading
  <2>4. LinksOK' /\ StageOK' /\ EventsOK'
    BY <1>3 DEF Start, IInv, PhaseOK, LinksOK, StageOK, EventsOK, Reloading
  <2> QED
    BY <1>1, <1>3, <2>2, <2>3, <2>4, PrivateStep DEF Start, Loaded, Reloading
<1> QED
  BY <1>2, <1>3 DEF Start

\* Refused calls are recorded in the budget.
LEMMA CallDrawn ==
    ASSUME EnvTypeOK, NEW ok, NEW err, Call(ok, err)
    PROVE  Drawn
BY StillDrawn, SpendDrawn DEF Call, Kinds

LEMMA InitialLoadStep == IInv /\ InitialLoad => IInv'
<1> SUFFICES ASSUME IInv, InitialLoad
             PROVE  IInv'
  OBVIOUS
<1>1. Drawn
  BY CallDrawn DEF InitialLoad, IInv, TypeOK
<1>2. CASE Down
  BY <1>1, <1>2, DownStep DEF InitialLoad
<1>3. CASE /\ pc' = "clear"
           /\ started' = TRUE
           /\ UNCHANGED <<desired, watching, pending, announced, stage, fresh>>
  <2>1. DaemonTypeOK'
    BY <1>3 DEF InitialLoad, IInv, TypeOK, DaemonTypeOK, Steps, kernel
  <2>2. PhaseOK' /\ LinksOK' /\ StageOK' /\ EventsOK'
    BY <1>1, <1>3, Private
    DEF InitialLoad, IInv, PhaseOK, LinksOK, StageOK, EventsOK, Reloading, kernel
  <2> QED
    BY <1>1, <1>3, <2>1, <2>2, PrivateStep
    DEF InitialLoad, IInv, MapsOK, Loaded, Reloading
<1> QED
  BY <1>2, <1>3 DEF InitialLoad, Call

\* A reload that returns goes back to where it was started from.
LEMMA ReturnStep ==
    ASSUME IInv, Drawn, UNCHANGED <<file, devices, kernel, packet>>,
           pc \in Reloading, NEW start \in {"install", "exit"},
           Return(IF watching THEN "watch" ELSE start),
           EventsOK'
    PROVE  IInv'
<1>1. DaemonTypeOK'
  BY ReturnType DEF IInv, TypeOK, kernel, Steps
<1>2. PhaseOK' /\ LinksOK' /\ StageOK'
  BY Private DEF IInv, PhaseOK, LinksOK, StageOK, Return, Reloading, kernel
<1> QED
  BY <1>1, <1>2, PrivateStep DEF IInv, MapsOK, Return, Loaded, Reloading

LEMMA OpenBlocklistStep == IInv /\ OpenBlocklist => IInv'
<1> SUFFICES ASSUME IInv, OpenBlocklist
             PROVE  IInv'
  OBVIOUS
<1>1. Drawn
  BY StillDrawn DEF OpenBlocklist, IInv, TypeOK
<1>2. CASE file[Len(file)] \in Missing
  <2>1. Return(IF watching THEN "watch" ELSE "exit")
    BY <1>2 DEF OpenBlocklist, Fail
  <2>2. EventsOK'
    BY <1>2, <2>1 DEF OpenBlocklist, EventsOK, Return, Acceptable
  <2> QED
    BY <1>1, <2>1, <2>2, ReturnStep DEF OpenBlocklist, Reloading
<1>3. CASE file[Len(file)] \notin Missing
  <2> USE <1>3 DEF OpenBlocklist
  <2>1. stage' \in [ver : 1..Len(file'), sent : SUBSET Addresses]
    BY FileShape DEF IInv, TypeOK
  <2>2. DaemonTypeOK'
    BY <2>1 DEF IInv, TypeOK, DaemonTypeOK, Steps, kernel
  <2>3. PhaseOK' /\ LinksOK' /\ EventsOK'
    BY <1>1, Private DEF IInv, PhaseOK, LinksOK, EventsOK, Reloading, kernel
  <2>4. StageOK'
    <3>1. \A f \in Families : Cardinality({} \cap Family[f]) <= MaxEntries[f]
      BY XdpAssumption, FS_EmptySet DEF Families
    <3>2. enforced <= Len(file)
      BY FileShape DEF IInv, TypeOK, KernelTypeOK
    <3>3. pc' = "insert" /\ stage'.ver = Len(file) /\ stage'.sent = {}
      OBVIOUS
    <3>4. StageShape' = file[Len(file)]
      BY <3>3 DEF StageShape
    <3>5. tries'[Inactive'] = {} /\ enforced' = enforced
      BY DEF IInv, StageOK, Inactive, ActiveSlot, kernel
    <3> QED
      BY <2>1, <3>1, <3>2, <3>3, <3>4, <3>5 DEF StageOK
  <2> QED
    BY <1>1, <2>2, <2>3, <2>4, PrivateStep DEF IInv, MapsOK, Loaded, Reloading
<1> QED
  BY <1>2, <1>3

LEMMA EndOfStreamStep == IInv /\ EndOfStream => IInv'
<1> SUFFICES ASSUME IInv, EndOfStream
             PROVE  IInv'
  OBVIOUS
<1>1. Drawn
  BY StillDrawn DEF EndOfStream, IInv, TypeOK
<1>2. PICK to \in {"reject", "switch"} :
        /\ Goto(to)
        /\ to = "reject" => StageShape \in Malformed
        /\ to = "switch" => StageShape \notin Malformed
  BY DEF EndOfStream, StreamFails
<1>3. DaemonTypeOK'
  BY <1>2, GotoType DEF EndOfStream, IInv, TypeOK, Steps, kernel
<1>4. PhaseOK' /\ LinksOK' /\ EventsOK'
  BY <1>1, <1>2, Private
  DEF EndOfStream, IInv, PhaseOK, LinksOK, EventsOK, Goto, Reloading, kernel
<1>5. StageOK'
  <2>1. /\ StageShape' = StageShape /\ stage' = stage /\ enforced' = enforced
        /\ tries'[Inactive'] = tries[Inactive]
        /\ Len(file') = Len(file)
    BY <1>2 DEF EndOfStream, StageShape, Inactive, ActiveSlot, Goto, kernel
  <2>2. stage.sent = Content[StageShape]
    BY DEF EndOfStream, Unsent, IInv, StageOK
  <2>3. pc = "insert" /\ pc' = to
    BY <1>2 DEF EndOfStream, Goto
  <2> QED
    BY <1>2, <2>1, <2>2, <2>3 DEF IInv, StageOK, Acceptable
<1> QED
  BY <1>1, <1>2, <1>3, <1>4, <1>5, PrivateStep
  DEF EndOfStream, IInv, MapsOK, Goto, Loaded, Reloading

LEMMA InstallWatcherStep == IInv /\ InstallWatcher => IInv'
<1> SUFFICES ASSUME IInv, InstallWatcher
             PROVE  IInv'
  OBVIOUS
<1> USE DEF InstallWatcher, Call, Goto
<1>1. Drawn
  BY CallDrawn DEF IInv, TypeOK
<1>2. pc' \in {"watch", "exit"} /\ (pc' = "watch" <=> watching')
  BY DEF IInv, PhaseOK, Reloading
<1>3. DaemonTypeOK'
  BY DEF IInv, TypeOK, DaemonTypeOK, Steps, kernel
<1>4. announced = 0 /\ announced' = announced
  BY DEF IInv, PhaseOK, Reloading
<1>5. PhaseOK' /\ LinksOK' /\ StageOK'
  BY <1>1, <1>2, Private DEF IInv, PhaseOK, LinksOK, StageOK, Reloading, kernel
<1>6. EventsOK'
  BY <1>4, FileShape DEF EventsOK, IInv, TypeOK
<1> QED
  BY <1>1, <1>2, <1>3, <1>5, <1>6, PrivateStep DEF IInv, MapsOK, Loaded, Reloading

LEMMA ReloadStep == IInv /\ Reload => IInv'
<1> SUFFICES ASSUME IInv, Reload
             PROVE  IInv'
  OBVIOUS
<1> USE DEF Reload
<1>1. Drawn
  BY StillDrawn DEF IInv, TypeOK
<1>2. DaemonTypeOK'
  BY DEF IInv, TypeOK, DaemonTypeOK, Steps, kernel
<1>3. PhaseOK' /\ LinksOK' /\ StageOK' /\ EventsOK'
  BY <1>1, Private DEF IInv, PhaseOK, LinksOK, StageOK, EventsOK, Reloading, kernel
<1> QED
  BY <1>1, <1>2, <1>3, PrivateStep DEF IInv, MapsOK, Loaded, Reloading

LEMMA ReconcileStep == IInv /\ Reconcile => IInv'
<1> SUFFICES ASSUME IInv, Reconcile
             PROVE  IInv'
  OBVIOUS
<1>1. Drawn
  BY CallDrawn DEF Reconcile, IInv, TypeOK
<1>2. PICK to \in {"attach", "watch"} : Goto(to)
  BY DEF Reconcile, Call
<1>3. UNCHANGED <<file, devices, kernel, packet>> /\ pc = "watch"
  BY DEF Reconcile
<1>4. DaemonTypeOK'
  BY <1>2, <1>3, GotoType DEF IInv, TypeOK, Steps, kernel
<1>5. PhaseOK' /\ LinksOK' /\ StageOK'
  BY <1>1, <1>2, <1>3, Private
  DEF IInv, PhaseOK, LinksOK, StageOK, Goto, Reloading, kernel
<1>6. EventsOK'
  BY <1>1, <1>2, <1>3, Private DEF IInv, EventsOK, Goto, kernel, Kinds
<1> QED
  BY <1>1, <1>2, <1>3, <1>4, <1>5, <1>6, PrivateStep
  DEF IInv, MapsOK, Goto, Loaded, Reloading

LEMMA StopStep == IInv /\ Stop => IInv'
<1> SUFFICES ASSUME IInv, Stop
             PROVE  IInv'
  OBVIOUS
<1> USE DEF Stop
<1>1. Drawn
  BY StillDrawn DEF IInv, TypeOK
<1>2. DaemonTypeOK'
  BY DEF IInv, TypeOK, DaemonTypeOK, Steps, kernel
<1>3. PhaseOK' /\ LinksOK' /\ StageOK' /\ EventsOK'
  BY <1>1, Private DEF IInv, PhaseOK, LinksOK, StageOK, EventsOK, Reloading, kernel
<1> QED
  BY <1>1, <1>2, <1>3, PrivateStep DEF IInv, MapsOK, Loaded, Reloading

\* Both ways to begin a cleanup.
LEMMA CleanupStep ==
    ASSUME IInv, Drawn, UNCHANGED <<file, devices, kernel, packet>>,
           pc \in {"down", "exit"}, control.layout = "current", Goto("unlink")
    PROVE  IInv'
<1>1. DaemonTypeOK'
  BY GotoType DEF IInv, TypeOK, Steps, kernel
<1>2. PhaseOK' /\ LinksOK' /\ StageOK' /\ EventsOK'
  BY Private DEF IInv, PhaseOK, LinksOK, StageOK, EventsOK, Goto, Reloading, kernel
<1> QED
  BY <1>1, <1>2, PrivateStep DEF Goto

LEMMA CleanupPinnedStep == IInv /\ CleanupPinned => IInv'
BY SpendDrawn, CleanupStep DEF CleanupPinned, IInv, TypeOK, Kinds

LEMMA ExitStep == IInv /\ Exit => IInv'
<1> SUFFICES ASSUME IInv, Exit
             PROVE  IInv'
  OBVIOUS
<1>1. Drawn
  BY StillDrawn DEF Exit, IInv, TypeOK
<1>2. CASE Down
  BY <1>1, <1>2, DownStep DEF Exit
<1>3. CASE Goto("unlink")
  BY <1>1, <1>3, CleanupStep DEF Exit, IInv, MapsOK, Loaded
<1> QED
  BY <1>2, <1>3 DEF Exit

LEMMA CrashStep == IInv /\ Crash => IInv'
<1> SUFFICES ASSUME IInv, Crash
             PROVE  IInv'
  OBVIOUS
<1>1. Drawn
  BY SpendDrawn DEF Crash, IInv, TypeOK, Kinds
<1>2. ASSUME pc = "unpin"
      PROVE  ~Unspent("partial")'
  BY <1>2 DEF Crash, Spend, Unspent, IInv, TypeOK, EnvTypeOK, PhaseOK, Kinds
<1> QED
  BY <1>1, <1>2, DownStep DEF Crash

-----------------------------------------------------------------------------
(* Steps that fill, clear and select slots.                                *)

\* What a write to the inactive slot keeps.
LEMMA InactiveWrite ==
    ASSUME IInv, Drawn, pc \in Reloading, pc' \in Loaded,
           NEW S \in SUBSET Addresses, tries' = [tries EXCEPT ![Inactive] = S],
           UNCHANGED <<file, devices, pins, control, attached, enforced, packet>>
    PROVE  /\ EnvTypeOK' /\ KernelTypeOK' /\ MapsOK' /\ SlotsOK'
           /\ tries'[Inactive'] = S
<1>1. Inactive \in Slots /\ ActiveSlot \in Slots /\ Inactive # ActiveSlot
  BY DEF IInv, TypeOK, KernelTypeOK, Inactive, ActiveSlot, Slots
<1>2. EnvTypeOK'
  BY DEF IInv, TypeOK, EnvTypeOK, Drawn, devices
<1>3. KernelTypeOK'
  BY <1>1 DEF IInv, TypeOK, KernelTypeOK
<1>4. tries'[Inactive'] = S /\ tries'[ActiveSlot] = tries[ActiveSlot]
  BY <1>1 DEF IInv, TypeOK, KernelTypeOK, Inactive, ActiveSlot
<1>5. control.layout = "current" /\ pins = Maps
  BY DEF IInv, MapsOK, Loaded
<1>6. MapsOK'
  BY <1>5 DEF IInv, MapsOK
<1>7. Unspent("partial")' => Unspent("partial")
  BY UnspentBefore DEF IInv, TypeOK, Kinds
<1>8. SlotsOK'
  BY <1>4, <1>5, <1>7 DEF IInv, SlotsOK, ActiveSlot, Listed
<1> QED
  BY <1>2, <1>3, <1>4, <1>6, <1>8

LEMMA RemoveKeyStep ==
    ASSUME IInv, pc \in {"clear", "reject", "obsolete"}, RemoveKey(Inactive),
           UNCHANGED <<file, devices, budget, pins, control, attached, enforced, packet, daemon>>
    PROVE  IInv'
<1>1. PICK a : tries' = [tries EXCEPT ![Inactive] = @ \ {a}]
  BY DEF RemoveKey
<1>2. tries[Inactive] \in SUBSET Addresses
  BY DEF IInv, TypeOK, KernelTypeOK, Inactive, ActiveSlot, Slots
<1>3. Drawn /\ pc' = pc
  BY StillDrawn DEF IInv, TypeOK, daemon
<1>4. EnvTypeOK' /\ KernelTypeOK' /\ MapsOK' /\ SlotsOK'
  BY <1>1, <1>2, <1>3, InactiveWrite DEF Loaded, Reloading
<1>5. DaemonTypeOK'
  BY StillType DEF IInv, TypeOK
<1>6. PhaseOK' /\ LinksOK'
  BY <1>3 DEF IInv, PhaseOK, LinksOK, daemon
<1>7. StageOK'
  BY <1>3 DEF IInv, StageOK, StageShape, Unspent, daemon
<1>8. EventsOK'
  BY <1>3 DEF IInv, EventsOK, Unspent, daemon
<1> QED
  BY <1>4, <1>5, <1>6, <1>7, <1>8 DEF IInv, TypeOK

LEMMA RefusedIsSpent ==
    ASSUME IInv, Spend("reject")
    PROVE  ~Unspent("reject")'
BY DEF IInv, TypeOK, EnvTypeOK, PhaseOK, Spend, Unspent, Kinds

LEMMA ClearInactiveStep == IInv /\ ClearInactive => IInv'
<1> SUFFICES ASSUME IInv, ClearInactive
             PROVE  IInv'
  OBVIOUS
<1> USE DEF ClearInactive
<1>1. CASE tries[Inactive] = {} /\ Goto("open") /\ UNCHANGED <<tries, budget>>
  <2>1. UNCHANGED kernel /\ Drawn
    BY <1>1, StillDrawn DEF IInv, TypeOK, kernel
  <2>2. DaemonTypeOK'
    BY <1>1, GotoType DEF IInv, TypeOK, Steps
  <2>3. PhaseOK' /\ LinksOK' /\ StageOK' /\ EventsOK'
    BY <1>1, <2>1, Private
    DEF IInv, PhaseOK, LinksOK, StageOK, EventsOK, Inactive, ActiveSlot, Goto, Reloading
  <2> QED
    BY <1>1, <2>1, <2>2, <2>3, PrivateStep DEF IInv, MapsOK, Goto, Loaded, Reloading
<1>2. CASE RemoveKey(Inactive) /\ UNCHANGED <<budget, daemon>>
  BY <1>2, RemoveKeyStep
<1>3. CASE Spend("reject") /\ Fail /\ UNCHANGED tries
  <2>1. UNCHANGED kernel /\ Drawn
    BY <1>3, SpendDrawn DEF IInv, TypeOK, kernel, Kinds
  <2>2. EventsOK'
    BY <1>3, RefusedIsSpent DEF EventsOK, Fail, Return
  <2> QED
    BY <1>3, <2>1, <2>2, ReturnStep DEF Fail, Reloading
<1> QED
  BY <1>1, <1>2, <1>3 DEF ClearSlot

LEMMA ClearRejectedStep == IInv /\ ClearRejected => IInv'
<1> SUFFICES ASSUME IInv, ClearRejected
             PROVE  IInv'
  OBVIOUS
<1> USE DEF ClearRejected
<1>1. CASE Fail /\ UNCHANGED tries /\ (UNCHANGED budget \/ Spend("reject"))
  <2>1. UNCHANGED kernel /\ Drawn
    BY <1>1, SpendDrawn, StillDrawn DEF IInv, TypeOK, kernel, Kinds
  <2>2. Unspent("reject")' => Unspent("reject")
    BY <2>1, Private DEF Kinds
  <2>3. EventsOK'
    BY <1>1, <2>2 DEF IInv, EventsOK, StageOK, StageShape, Fail, Return, kernel
  <2> QED
    BY <1>1, <2>1, <2>3, ReturnStep DEF Fail, Reloading
<1>2. CASE RemoveKey(Inactive) /\ UNCHANGED <<budget, daemon>>
  BY <1>2, RemoveKeyStep
<1> QED
  BY <1>1, <1>2 DEF ClearSlot

LEMMA ClearObsoleteStep == IInv /\ ClearObsolete => IInv'
<1> SUFFICES ASSUME IInv, ClearObsolete
             PROVE  IInv'
  OBVIOUS
<1> USE DEF ClearObsolete
<1>1. CASE Succeed /\ UNCHANGED tries /\ (UNCHANGED budget \/ Spend("reject"))
  <2>1. UNCHANGED kernel /\ Drawn
    BY <1>1, SpendDrawn, StillDrawn DEF IInv, TypeOK, kernel, Kinds
  <2>2. Unspent("reject")' => Unspent("reject")
    BY <2>1, Private DEF Kinds
  <2>3. EventsOK'
    BY <1>1, <2>2 DEF IInv, EventsOK, Succeed, Return, kernel
  <2> QED
    BY <1>1, <2>1, <2>3, ReturnStep DEF Succeed, Reloading
<1>2. CASE RemoveKey(Inactive) /\ UNCHANGED <<budget, daemon>>
  BY <1>2, RemoveKeyStep
<1> QED
  BY <1>1, <1>2 DEF ClearSlot

LEMMA NextFamilyUnsent ==
    ASSUME EnvTypeOK, stage \in [ver : 1..Len(file), sent : SUBSET Addresses], Unsent # {}
    PROVE  NextFamily \in Families /\ Unsent \cap Family[NextFamily] # {}
<1>1. Unsent \subseteq Addresses
  BY FileShape, XdpAssumption DEF Unsent, StageShape
<1>2. CASE Unsent \cap V4 # {}
  BY <1>2 DEF NextFamily, Family, Families
<1>3. CASE Unsent \cap V4 = {}
  BY <1>1, <1>3 DEF NextFamily, Family, Families
<1> QED
  BY <1>2, <1>3

\* One more address of a family is one more entry of that family.
LEMMA OneMore ==
    ASSUME NEW S, NEW a, NEW F, S \subseteq Addresses, a \notin S, a \in F
    PROVE  Cardinality((S \cup {a}) \cap F) = Cardinality(S \cap F) + 1
<1>1. IsFiniteSet(S \cap F)
  BY XdpAssumption, FS_Subset
<1>2. (S \cup {a}) \cap F = (S \cap F) \cup {a} /\ a \notin S \cap F
  OBVIOUS
<1>3. Cardinality((S \cap F) \cup {a}) = Cardinality(S \cap F) + 1
  BY <1>1, <1>2, FS_AddElement
<1> QED
  BY <1>2, <1>3

LEMMA FamiliesApart ==
    ASSUME NEW f \in Families, NEW g \in Families \ {f}
    PROVE  Family[f] \cap Family[g] = {}
BY DEF Family, Families

\* A list is refused for its size only when it exceeds a capacity: the
\* manager's count and the occupancy of the trie agree.
LEMMA OverfullUnacceptable ==
    ASSUME IInv, pc = "insert", Unsent # {},
           CapacityExceeded(NextFamily) \/ TrieFull(NextFamily)
    PROVE  StageShape \notin Acceptable
<1> DEFINE f == NextFamily
           sent == stage.sent
<1>1. /\ stage \in [ver : 1..Len(file), sent : SUBSET Addresses]
      /\ tries[Inactive] = sent
      /\ sent \subseteq Content[StageShape]
  BY DEF IInv, StageOK
<1>2. f \in Families /\ \E a \in Unsent : a \in Family[f]
  BY <1>1, NextFamilyUnsent DEF IInv, TypeOK
<1>3. PICK a \in Content[StageShape] \ sent : a \in Family[f]
  BY <1>2 DEF Unsent
<1>4. Content[StageShape] \subseteq Addresses
  BY <1>1, FileShape, XdpAssumption DEF StageShape, IInv, TypeOK
<1>5. Cardinality((sent \cup {a}) \cap Family[f]) = Cardinality(sent \cap Family[f]) + 1
  <2>1. sent \subseteq Addresses /\ a \notin sent
    BY <1>1, <1>4
  <2> HIDE DEF f, sent
  <2> QED
    BY <1>3, <2>1, OneMore
<1>6. Cardinality((sent \cup {a}) \cap Family[f]) <= Cardinality(Content[StageShape] \cap Family[f])
  <2>1. IsFiniteSet(Content[StageShape] \cap Family[f])
    BY <1>4, XdpAssumption, FS_Subset
  <2>2. (sent \cup {a}) \cap Family[f] \subseteq Content[StageShape] \cap Family[f]
    BY <1>1, <1>3
  <2> QED
    BY <2>1, <2>2, FS_Subset
<1>7. Cardinality(sent \cap Family[f]) >= MaxEntries[f]
  BY <1>1 DEF CapacityExceeded, TrieFull
<1>8. /\ MaxEntries[f] \in Nat
      /\ Cardinality(sent \cap Family[f]) \in Nat
      /\ Cardinality(Content[StageShape] \cap Family[f]) \in Nat
  <2>1. IsFiniteSet(sent \cap Family[f]) /\ IsFiniteSet(Content[StageShape] \cap Family[f])
    BY <1>1, <1>4, XdpAssumption, FS_Subset
  <2> QED
    BY <1>2, <2>1, XdpAssumption, FS_CardinalityType
<1>9. ~(Cardinality(Content[StageShape] \cap Family[f]) <= MaxEntries[f])
  <2> HIDE DEF f, sent
  <2> QED
    BY <1>5, <1>6, <1>7, <1>8
<1> QED
  BY <1>2, <1>9 DEF Acceptable, Fits

LEMMA InsertStep == IInv /\ Insert => IInv'
<1> SUFFICES ASSUME IInv, Insert
             PROVE  IInv'
  OBVIOUS
<1> USE DEF Insert
<1>1. /\ stage \in [ver : 1..Len(file), sent : SUBSET Addresses]
      /\ tries[Inactive] = stage.sent
      /\ stage.sent \subseteq Content[StageShape]
  BY DEF IInv, StageOK
\* The list is too long, or the kernel refuses an address.
<1>2. CASE /\ Goto("reject") /\ UNCHANGED tries
           /\ \/ UNCHANGED budget /\ StageShape \notin Acceptable
              \/ Spend("reject")
  <2>1. UNCHANGED kernel /\ Drawn
    BY <1>2, SpendDrawn, StillDrawn DEF IInv, TypeOK, kernel, Kinds
  <2>2. DaemonTypeOK'
    BY <1>2, GotoType DEF IInv, TypeOK, Steps
  <2>3. PhaseOK' /\ LinksOK'
    BY <1>2, <2>1, Private DEF IInv, PhaseOK, LinksOK, Goto, Reloading
  <2>4. pc' = "reject" /\ stage' = stage /\ StageShape' = StageShape
    BY <1>2 DEF Goto, StageShape
  <2>5. StageOK'
    <3>1. StageShape' \notin Acceptable \/ ~Unspent("reject")'
      BY <1>2, <2>4, RefusedIsSpent
    <3> QED
      BY <1>1, <2>4, <3>1 DEF StageOK
  <2>6. EventsOK'
    BY <1>2, <2>4 DEF IInv, EventsOK, Goto
  <2> QED
    BY <1>2, <2>1, <2>2, <2>3, <2>5, <2>6, PrivateStep
    DEF IInv, MapsOK, Goto, Loaded, Reloading
<1>3. ASSUME NEW a \in Unsent \cap Family[NextFamily],
             ~CapacityExceeded(NextFamily),
             tries' = [tries EXCEPT ![Inactive] = @ \cup {a}],
             stage' = [stage EXCEPT !.sent = @ \cup {a}],
             UNCHANGED <<pc, desired, started, watching, pending, announced, fresh, budget>>
      PROVE  IInv'
  <2>1. Drawn
    BY <1>3, StillDrawn DEF IInv, TypeOK
  <2>2. a \in Content[StageShape] \ stage.sent /\ Content[StageShape] \subseteq Addresses
    BY <1>1, FileShape, XdpAssumption DEF Unsent, StageShape, IInv, TypeOK
  <2>3. /\ EnvTypeOK' /\ KernelTypeOK' /\ MapsOK' /\ SlotsOK'
        /\ tries'[Inactive'] = stage.sent \cup {a}
    BY <1>1, <1>3, <2>1, <2>2, InactiveWrite DEF Loaded, Reloading
  <2>4. /\ stage' \in [ver : 1..Len(file'), sent : SUBSET Addresses]
        /\ stage'.sent = stage.sent \cup {a}
        /\ stage'.ver = stage.ver
    BY <1>1, <1>3, <2>2
  <2>5. DaemonTypeOK'
    BY <1>3, <2>4 DEF IInv, TypeOK, DaemonTypeOK
  <2>6. PhaseOK' /\ LinksOK' /\ EventsOK'
    BY <1>3, <2>4 DEF IInv, PhaseOK, LinksOK, EventsOK
  <2>7. \A f \in Families : Cardinality(stage'.sent \cap Family[f]) <= MaxEntries[f]
    <3> DEFINE n == NextFamily
    <3>1. n \in Families /\ a \in Family[n]
      BY <1>1, <1>3, NextFamilyUnsent DEF IInv, TypeOK
    <3>2. /\ Cardinality(stage'.sent \cap Family[n]) = Cardinality(stage.sent \cap Family[n]) + 1
          /\ \A g \in Families \ {n} : stage'.sent \cap Family[g] = stage.sent \cap Family[g]
      <4>1. stage.sent \subseteq Addresses /\ a \notin stage.sent
        BY <1>1, <2>2
      <4>2. Cardinality((stage.sent \cup {a}) \cap Family[n]) = Cardinality(stage.sent \cap Family[n]) + 1
        BY <3>1, <4>1, OneMore
      <4>3. \A g \in Families \ {n} : a \notin Family[g]
        BY <3>1, FamiliesApart
      <4> QED
        BY <2>4, <4>2, <4>3
    <3>3. Cardinality(stage.sent \cap Family[n]) \in Nat /\ MaxEntries[n] \in Nat
      <4>1. IsFiniteSet(stage.sent \cap Family[n])
        BY <1>1, XdpAssumption, FS_Subset
      <4> QED
        BY <3>1, <4>1, XdpAssumption, FS_CardinalityType
    <3>4. ~(Cardinality(stage.sent \cap Family[n]) >= MaxEntries[n])
      BY <1>3 DEF CapacityExceeded
    <3>5. \A f \in Families : Cardinality(stage.sent \cap Family[f]) <= MaxEntries[f]
      BY DEF IInv, StageOK
    <3>6. Cardinality(stage'.sent \cap Family[n]) <= MaxEntries[n]
      <4> HIDE DEF n
      <4> QED
        BY <3>2, <3>3, <3>4
    <3>7. \A g \in Families \ {n} : Cardinality(stage'.sent \cap Family[g]) <= MaxEntries[g]
      BY <3>2, <3>5
    <3> QED
      BY <3>6, <3>7
  <2>8. StageOK'
    <3>1. StageShape' = StageShape
      BY <2>4 DEF StageShape
    <3>2. stage.sent \cup {a} \subseteq Content[StageShape]
      BY <1>1, <2>2
    <3> QED
      BY <1>3, <2>3, <2>4, <2>7, <3>1, <3>2 DEF IInv, StageOK
  <2> QED
    BY <2>3, <2>5, <2>6, <2>8 DEF IInv, TypeOK
<1>4. CASE CapacityExceeded(NextFamily) \/ TrieFull(NextFamily)
  BY <1>2, <1>4, OverfullUnacceptable
<1> QED
  BY <1>2, <1>3, <1>4 DEF Call

LEMMA SwitchStep == IInv /\ Switch => IInv'
<1> SUFFICES ASSUME IInv, Switch
             PROVE  IInv'
  OBVIOUS
<1> USE DEF Switch
<1>1. CASE Spend("reject") /\ Fail /\ UNCHANGED <<control, enforced, packet>>
  <2>1. UNCHANGED kernel /\ Drawn
    BY <1>1, SpendDrawn DEF IInv, TypeOK, kernel, Kinds
  <2>2. EventsOK'
    BY <1>1, RefusedIsSpent DEF EventsOK, Fail, Return
  <2> QED
    BY <1>1, <2>1, <2>2, ReturnStep DEF Fail, Reloading
<1>2. CASE /\ control' = Control("current", Inactive)
           /\ enforced' = stage.ver
           /\ packet' = Overlapping(packet)
           /\ Goto("obsolete")
           /\ UNCHANGED budget
  <2>1. Drawn
    BY <1>2, StillDrawn DEF IInv, TypeOK
  <2>2. /\ stage \in [ver : 1..Len(file), sent : SUBSET Addresses]
        /\ tries[Inactive] = Content[file[stage.ver]]
    BY DEF IInv, StageOK, StageShape
  <2>3. Len(file) \in Nat /\ Inactive \in Slots
    BY FileShape DEF IInv, TypeOK, KernelTypeOK, Inactive, ActiveSlot, Slots
  <2>4. EnvTypeOK'
    BY <1>2 DEF IInv, TypeOK, EnvTypeOK, devices
  <2>5. /\ packet' = None \/ /\ packet' \in [addr : Addresses, slot : Slots,
                                             during : SUBSET (0..Len(file)), overlapped : BOOLEAN]
                             /\ packet'.overlapped
    <3>1. CASE packet = None
      BY <1>2, <3>1 DEF Overlapping
    <3>2. CASE packet # None
      <4>1. packet \in [addr : Addresses, slot : Slots,
                        during : SUBSET (0..Len(file)), overlapped : BOOLEAN]
        BY <3>2 DEF IInv, TypeOK, KernelTypeOK
      <4>2. packet' = [packet EXCEPT !.during = @ \cup {stage.ver}, !.overlapped = TRUE]
        BY <1>2, <3>2 DEF Overlapping
      <4>3. stage.ver \in 0..Len(file)
        BY <2>2, <2>3
      <4> QED
        BY <4>1, <4>2, <4>3
    <3> QED
      BY <3>1, <3>2
  <2>6. KernelTypeOK'
    BY <1>2, <2>2, <2>3, <2>5 DEF IInv, TypeOK, KernelTypeOK, Control, Layouts
  <2>7. DaemonTypeOK'
    BY <1>2, GotoType DEF IInv, TypeOK, Steps
  <2>8. PhaseOK' /\ LinksOK' /\ StageOK'
    BY <1>2 DEF IInv, PhaseOK, LinksOK, StageOK, Goto, Reloading
  <2>9. MapsOK'
    BY <1>2 DEF IInv, MapsOK, Goto, Control, Loaded, Reloading
  <2>10. EventsOK'
    BY <1>2 DEF IInv, EventsOK, Goto
  <2>11. SlotsOK'
    <3>1. tries'[ActiveSlot'] = Listed(enforced)'
      BY <1>2, <2>2, <2>3 DEF ActiveSlot, Listed, Control
    <3>2. ~(packet' # None /\ ~packet'.overlapped)
      BY <2>5
    <3> QED
      BY <1>2, <3>1, <3>2 DEF SlotsOK, Control
  <2> QED
    BY <2>4, <2>6, <2>7, <2>8, <2>9, <2>10, <2>11 DEF IInv, TypeOK
<1> QED
  BY <1>1, <1>2 DEF Call

-----------------------------------------------------------------------------
(* Steps that attach and remove links.                                     *)

\* What a step that only changes links keeps.
LEMMA LinkWrite ==
    ASSUME IInv, Drawn, UNCHANGED <<file, devices, pins, control, tries, enforced, packet>>,
           attached' \subseteq Interfaces \X Nat,
           control.layout = "current", pc # "unpin", pc' # "control"
    PROVE  /\ EnvTypeOK' /\ KernelTypeOK' /\ MapsOK' /\ SlotsOK'
           /\ \A k \in Kinds : (Unspent(k)' => Unspent(k)) /\ budget'[k] <= Budget[k]
<1>1. EnvTypeOK'
  BY DEF IInv, TypeOK, EnvTypeOK, Drawn, devices
<1>2. KernelTypeOK'
  BY DEF IInv, TypeOK, KernelTypeOK
<1>3. ASSUME NEW k \in Kinds
      PROVE  (Unspent(k)' => Unspent(k)) /\ budget'[k] <= Budget[k]
  BY UnspentBefore DEF IInv, TypeOK
<1>4. MapsOK'
  BY DEF IInv, MapsOK
<1>5. Unspent("partial")' => Unspent("partial")
  BY <1>3 DEF Kinds
<1>6. SlotsOK'
  BY <1>5, SlotsStill
<1> QED
  BY <1>1, <1>2, <1>3, <1>4, <1>6

LEMMA OpenOwnedLinksStep == IInv /\ OpenOwnedLinks => IInv'
<1> SUFFICES ASSUME IInv, OpenOwnedLinks
             PROVE  IInv'
  OBVIOUS
<1> USE DEF OpenOwnedLinks
<1>1. Drawn
  BY CallDrawn DEF IInv, TypeOK
<1>2. control.layout = "current" /\ ~watching /\ fresh = {} /\ announced = 0
  BY DEF IInv, MapsOK, PhaseOK, Loaded, Reloading
<1>3. CASE Down /\ UNCHANGED attached
  BY <1>1, <1>3, DownStep DEF kernel
<1>4. CASE ObsoleteLinks = {} /\ Goto("attach") /\ UNCHANGED attached
  <2>1. UNCHANGED kernel
    BY <1>4 DEF kernel
  <2>2. DaemonTypeOK'
    BY <1>4, GotoType DEF IInv, TypeOK, Steps
  <2>3. PhaseOK' /\ LinksOK' /\ StageOK' /\ EventsOK'
    BY <1>1, <1>2, <1>4, <2>1, Private
    DEF IInv, PhaseOK, LinksOK, StageOK, EventsOK, ObsoleteLinks, Goto, Reloading
  <2> QED
    BY <1>1, <1>2, <1>4, <2>1, <2>2, <2>3, PrivateStep DEF Goto
<1>5. CASE (\E i \in ObsoleteLinks : attached' = attached \ {i}) /\ UNCHANGED daemon
  <2>1. attached' \subseteq Interfaces \X Nat
    BY <1>5 DEF IInv, TypeOK, KernelTypeOK
  <2>2. pc' = "own" /\ fresh' = {} /\ watching' = watching
    BY <1>2, <1>5 DEF daemon
  <2>3. EnvTypeOK' /\ KernelTypeOK' /\ MapsOK' /\ SlotsOK'
    BY <1>1, <1>2, <2>1, <2>2, LinkWrite
  <2>4. DaemonTypeOK'
    BY <1>5, <2>2 DEF IInv, TypeOK, DaemonTypeOK, daemon
  <2>5. PhaseOK' /\ LinksOK' /\ StageOK' /\ EventsOK'
    BY <1>1, <1>2, <1>5, <2>1, <2>2, LinkWrite
    DEF IInv, PhaseOK, LinksOK, StageOK, EventsOK, daemon, Reloading
  <2> QED
    BY <2>3, <2>4, <2>5 DEF IInv, TypeOK
<1> QED
  BY <1>3, <1>4, <1>5 DEF Call

LEMMA AttachStep == IInv /\ Attach => IInv'
<1> SUFFICES ASSUME IInv, Attach
             PROVE  IInv'
  OBVIOUS
<1> USE DEF Attach
<1>1. Drawn
  BY CallDrawn, StillDrawn DEF IInv, TypeOK
<1>2. control.layout = "current" /\ attached \subseteq desired
  BY DEF IInv, MapsOK, LinksOK, Loaded
<1>3. CASE /\ desired \subseteq attached
           /\ pc' = IF watching THEN "watch" ELSE "nft"
           /\ fresh' = {}
           /\ UNCHANGED <<attached, desired, started, watching, pending, announced, stage>>
  <2>1. UNCHANGED kernel
    BY <1>3 DEF kernel
  <2>2. DaemonTypeOK'
    BY <1>3 DEF IInv, TypeOK, DaemonTypeOK, Steps
  <2>3. PhaseOK' /\ LinksOK' /\ StageOK'
    BY <1>1, <1>2, <1>3, <2>1, Private DEF IInv, PhaseOK, LinksOK, StageOK, Reloading
  <2>4. EventsOK'
    BY <1>1, <1>3, <2>1, Private DEF IInv, EventsOK, kernel, Kinds
  <2> QED
    BY <1>1, <1>2, <1>3, <2>1, <2>2, <2>3, <2>4, PrivateStep
<1>4. CASE ~(desired \subseteq attached) /\ Goto("rollback") /\ UNCHANGED attached
  <2>1. UNCHANGED kernel
    BY <1>4 DEF kernel
  <2>2. ~watching
    BY <1>4 DEF IInv, LinksOK
  <2>3. DaemonTypeOK'
    BY <1>4, GotoType DEF IInv, TypeOK, Steps
  <2>4. PhaseOK' /\ LinksOK' /\ StageOK' /\ EventsOK'
    BY <1>1, <1>2, <1>4, <2>1, <2>2, Private
    DEF IInv, PhaseOK, LinksOK, StageOK, EventsOK, Goto, Reloading
  <2> QED
    BY <1>1, <1>2, <1>4, <2>1, <2>3, <2>4, PrivateStep DEF Goto
<1>5. ASSUME NEW d \in desired \ attached,
             attached' = attached \cup {d},
             fresh' = fresh \cup {d},
             UNCHANGED <<pc, desired, started, watching, pending, announced, stage>>
      PROVE  IInv'
  <2>1. attached' \subseteq Interfaces \X Nat
    BY <1>5 DEF IInv, TypeOK, KernelTypeOK, DaemonTypeOK
  <2>2. EnvTypeOK' /\ KernelTypeOK' /\ MapsOK' /\ SlotsOK'
    BY <1>1, <1>2, <1>5, <2>1, LinkWrite
  <2>3. DaemonTypeOK'
    BY <1>5 DEF IInv, TypeOK, DaemonTypeOK
  <2>4. ~watching
    BY <1>5 DEF IInv, LinksOK
  <2>5. PhaseOK' /\ LinksOK' /\ StageOK' /\ EventsOK'
    BY <1>1, <1>2, <1>5, <2>1, <2>4, LinkWrite
    DEF IInv, PhaseOK, LinksOK, StageOK, EventsOK, Reloading
  <2> QED
    BY <2>2, <2>3, <2>5 DEF IInv, TypeOK
<1> QED
  BY <1>3, <1>4, <1>5 DEF Call

LEMMA RollbackStep == IInv /\ Rollback => IInv'
<1> SUFFICES ASSUME IInv, Rollback
             PROVE  IInv'
  OBVIOUS
<1> USE DEF Rollback
<1>1. Drawn
  BY CallDrawn, StillDrawn DEF IInv, TypeOK
<1>2. control.layout = "current" /\ attached \subseteq desired /\ ~watching
  BY DEF IInv, MapsOK, LinksOK, PhaseOK, Loaded, Reloading
<1>3. CASE Down /\ UNCHANGED attached
  BY <1>1, <1>3, DownStep DEF kernel
<1>4. ASSUME NEW i \in fresh,
             fresh' = fresh \ {i},
             attached' = attached \ {i} \/ UNCHANGED attached,
             UNCHANGED <<pc, desired, started, watching, pending, announced, stage>>
      PROVE  IInv'
  <2>1. attached' \subseteq Interfaces \X Nat
    BY <1>4 DEF IInv, TypeOK, KernelTypeOK
  <2>2. EnvTypeOK' /\ KernelTypeOK' /\ MapsOK' /\ SlotsOK'
    BY <1>1, <1>2, <1>4, <2>1, LinkWrite
  <2>3. DaemonTypeOK'
    BY <1>4 DEF IInv, TypeOK, DaemonTypeOK
  <2>4. PhaseOK' /\ LinksOK' /\ StageOK' /\ EventsOK'
    BY <1>1, <1>2, <1>4, <2>1, LinkWrite
    DEF IInv, PhaseOK, LinksOK, StageOK, EventsOK, Reloading
  <2> QED
    BY <2>2, <2>3, <2>4 DEF IInv, TypeOK
<1> QED
  BY <1>2, <1>3, <1>4 DEF Call, Undo, Undone

LEMMA UnlinkOneStep == IInv /\ UnlinkOne => IInv'
<1> SUFFICES ASSUME IInv, UnlinkOne
             PROVE  IInv'
  OBVIOUS
<1> USE DEF UnlinkOne
<1>1. Drawn
  BY StillDrawn, SpendDrawn DEF IInv, TypeOK, Kinds
<1>2. control.layout = "current" /\ ~watching /\ fresh = {}
  BY DEF IInv, MapsOK, PhaseOK, Loaded, Reloading
<1>3. CASE Down /\ UNCHANGED attached
  BY <1>1, <1>3, DownStep DEF kernel
<1>4. CASE attached = {} /\ Goto("unpin") /\ UNCHANGED attached
  <2>1. UNCHANGED kernel
    BY <1>4 DEF kernel
  <2>2. DaemonTypeOK'
    BY <1>4, GotoType DEF IInv, TypeOK, Steps
  <2>3. PhaseOK' /\ LinksOK' /\ StageOK' /\ EventsOK'
    BY <1>1, <1>2, <1>4, <2>1, Private
    DEF IInv, PhaseOK, LinksOK, StageOK, EventsOK, Goto, Reloading
  <2> QED
    BY <1>1, <1>2, <1>4, <2>1, <2>2, <2>3, PrivateStep DEF Goto
<1>5. CASE (\E i \in attached : attached' = attached \ {i}) /\ UNCHANGED daemon
  <2>1. attached' \subseteq Interfaces \X Nat
    BY <1>5 DEF IInv, TypeOK, KernelTypeOK
  <2>2. pc' = "unlink" /\ fresh' = {} /\ watching' = watching
    BY <1>2, <1>5 DEF daemon
  <2>3. EnvTypeOK' /\ KernelTypeOK' /\ MapsOK' /\ SlotsOK'
    BY <1>1, <1>2, <2>1, <2>2, LinkWrite
  <2>4. DaemonTypeOK'
    BY <1>5, <2>2 DEF IInv, TypeOK, DaemonTypeOK, daemon
  <2>5. PhaseOK' /\ LinksOK' /\ StageOK' /\ EventsOK'
    BY <1>1, <1>2, <1>5, <2>1, <2>2, LinkWrite
    DEF IInv, PhaseOK, LinksOK, StageOK, EventsOK, daemon, Reloading
  <2> QED
    BY <2>3, <2>4, <2>5 DEF IInv, TypeOK
<1> QED
  BY <1>3, <1>4, <1>5

-----------------------------------------------------------------------------
(* Steps that pin, recognise and unpin maps.                               *)

\* New maps are blank and empty; those that were pinned keep what they hold.
LEMMA PinMapsKeeps ==
    ASSUME IInv, pc = "load", Drawn, NEW names \in SUBSET Maps, PinMaps(names),
           pins \subseteq names,
           (pc' = "control" /\ names = Maps) \/ pc' = "down",
           UNCHANGED <<file, devices, tries, attached, enforced, packet>>
    PROVE  EnvTypeOK' /\ KernelTypeOK' /\ MapsOK' /\ SlotsOK'
<1> USE DEF PinMaps
<1>1. EnvTypeOK'
  BY DEF IInv, TypeOK, EnvTypeOK, Drawn, devices
<1>2. control' = control \/ control' = [layout |-> "blank", slot |-> 0]
  BY DEF Control
<1>3. control' \in [layout : Layouts, slot : Slots]
  BY <1>2 DEF IInv, TypeOK, KernelTypeOK, Layouts, Slots
<1>4. KernelTypeOK'
  BY <1>3 DEF IInv, TypeOK, KernelTypeOK
<1>5. \/ control' = control /\ ("CONTROL" \in names <=> "CONTROL" \in pins)
      \/ control.layout = "none" /\ control'.layout = "blank" /\ "CONTROL" \in names
  BY <1>2 DEF IInv, MapsOK, Control
<1>6. MapsOK'
  BY <1>5 DEF IInv, MapsOK, Loaded, Reloading
<1>7. Unspent("partial")' => Unspent("partial")
  BY UnspentBefore DEF IInv, TypeOK, Kinds
<1>8. SlotsOK'
  BY <1>5, <1>7 DEF IInv, SlotsOK, ActiveSlot, Listed
<1> QED
  BY <1>1, <1>4, <1>6, <1>8

LEMMA LoadMapsStep == IInv /\ LoadMaps => IInv'
<1> SUFFICES ASSUME IInv, LoadMaps
             PROVE  IInv'
  OBVIOUS
<1> USE DEF LoadMaps
<1>1. Drawn
  BY CallDrawn DEF IInv, TypeOK
<1>2. ~watching /\ announced = 0 /\ fresh = {}
  BY DEF IInv, PhaseOK, Reloading
<1>3. CASE PinMaps(Maps) /\ Goto("control")
  <2>1. EnvTypeOK' /\ KernelTypeOK' /\ MapsOK' /\ SlotsOK'
    BY <1>1, <1>3, PinMapsKeeps DEF Goto, IInv, TypeOK, KernelTypeOK
  <2>2. DaemonTypeOK'
    BY <1>3, GotoType DEF IInv, TypeOK, Steps
  <2>3. PhaseOK' /\ LinksOK' /\ StageOK' /\ EventsOK'
    BY <1>1, <1>2, <1>3, UnspentBefore
    DEF IInv, TypeOK, PhaseOK, LinksOK, StageOK, EventsOK, Goto, Reloading
  <2> QED
    BY <2>1, <2>2, <2>3 DEF IInv, TypeOK
<1>4. ASSUME NEW names \in SUBSET Maps, Down, pins \subseteq names, PinMaps(names)
      PROVE  IInv'
  <2>1. EnvTypeOK' /\ KernelTypeOK' /\ MapsOK' /\ SlotsOK'
    BY <1>1, <1>4, PinMapsKeeps DEF Down
  <2>2. DaemonTypeOK'
    BY <1>4, DownType DEF IInv, TypeOK
  <2>3. PhaseOK' /\ LinksOK' /\ StageOK' /\ EventsOK'
    BY <1>1, <1>4, UnspentBefore
    DEF IInv, TypeOK, PhaseOK, LinksOK, StageOK, EventsOK, Down, Reloading
  <2> QED
    BY <2>1, <2>2, <2>3 DEF IInv, TypeOK
<1> QED
  BY <1>3, <1>4 DEF Call

LEMMA InitControlStep == IInv /\ InitControl => IInv'
<1> SUFFICES ASSUME IInv, InitControl
             PROVE  IInv'
  OBVIOUS
<1> USE DEF InitControl
<1>1. Drawn
  BY CallDrawn, StillDrawn DEF IInv, TypeOK
<1>2. ~watching /\ announced = 0 /\ fresh = {}
  BY DEF IInv, PhaseOK, Reloading
<1>3. CASE Down /\ UNCHANGED control
  BY <1>1, <1>3, DownStep DEF kernel
<1>4. CASE /\ Goto("own")
           /\ \/ control.layout = "blank" /\ control' = Control("current", 0)
              \/ control.layout = "current" /\ UNCHANGED control
  <2>1. control'.layout = "current"
    BY <1>4 DEF Control
  <2>2. EnvTypeOK'
    BY <1>1 DEF IInv, TypeOK, EnvTypeOK, Drawn, devices
  <2>3. KernelTypeOK'
    BY <1>4 DEF IInv, TypeOK, KernelTypeOK, Control, Layouts, Slots
  <2>4. DaemonTypeOK'
    BY <1>4, GotoType DEF IInv, TypeOK, Steps
  <2>5. PhaseOK' /\ LinksOK' /\ StageOK' /\ EventsOK'
    BY <1>1, <1>2, <1>4, UnspentBefore
    DEF IInv, TypeOK, PhaseOK, LinksOK, StageOK, EventsOK, Goto, Reloading
  <2>6. MapsOK'
    BY <1>4, <2>1 DEF IInv, MapsOK, Goto
  <2>7. SlotsOK'
    <3>1. Unspent("partial")' => Unspent("partial")
      BY <1>1, UnspentBefore DEF IInv, TypeOK, Kinds
    <3>2. CASE control.layout = "blank" /\ control' = Control("current", 0)
      <4>1. Unspent("partial") => \A s \in Slots : tries[s] = {}
        BY <3>2 DEF IInv, SlotsOK
      <4>2. Unspent("partial") => tries[0] = {}
        BY <4>1 DEF Slots
      <4>3. enforced = 0
        BY <3>2 DEF IInv, MapsOK
      <4>4. ActiveSlot' = 0
        BY <3>2 DEF ActiveSlot, Control
      <4> QED
        BY <1>4, <2>1, <3>1, <3>2, <4>2, <4>3, <4>4 DEF IInv, SlotsOK, Listed
    <3>3. CASE UNCHANGED control
      BY <1>4, <3>1, <3>3, SlotsStill
    <3> QED
      BY <1>4, <3>2, <3>3
  <2> QED
    BY <2>2, <2>3, <2>4, <2>5, <2>6, <2>7 DEF IInv, TypeOK
<1> QED
  BY <1>3, <1>4 DEF Call

LEMMA UnpinOneStep == IInv /\ UnpinOne => IInv'
<1> SUFFICES ASSUME IInv, UnpinOne
             PROVE  IInv'
  OBVIOUS
<1> USE DEF UnpinOne
<1>1. Drawn
  BY StillDrawn, SpendDrawn DEF IInv, TypeOK, Kinds
<1>2. CASE /\ Down
           /\ UNCHANGED <<pins, control, tries, enforced, packet>>
           /\ pins = {} \/ Spend("partial")
  <2>1. Unspent("partial")' => pins = {}
    BY <1>2 DEF Spend, Unspent, IInv, TypeOK, EnvTypeOK, PhaseOK, Kinds
  <2> QED
    BY <1>1, <1>2, <2>1, DownStep DEF kernel
<1>3. ASSUME NEW m \in pins, Unpin(m), m # "CONTROL" => "CONTROL" \notin pins,
             UNCHANGED <<budget, daemon>>
      PROVE  IInv'
  <2> USE DEF Unpin
  <2>1. m \in Maps /\ SlotOf(m) \in Slots
    BY <1>3 DEF IInv, TypeOK, KernelTypeOK, SlotOf, Slots
  <2>2. pc' = "unpin" /\ ~watching /\ ~watching' /\ attached = {} /\ fresh' = {}
    BY <1>3 DEF IInv, PhaseOK, LinksOK, Reloading, daemon
  <2>3. EnvTypeOK'
    BY <1>3 DEF IInv, TypeOK, EnvTypeOK, devices
  <2>4. tries' \in [Slots -> SUBSET Addresses] /\ \A s \in Slots : tries'[s] \subseteq tries[s]
    BY <1>3, <2>1 DEF IInv, TypeOK, KernelTypeOK
  <2>5. control' \in [layout : Layouts, slot : Slots] /\ enforced' \in 0..Len(file')
    BY <1>3, FileShape DEF IInv, TypeOK, KernelTypeOK, Control, Layouts, Slots
  <2>6. KernelTypeOK'
    BY <1>3, <2>4, <2>5 DEF IInv, TypeOK, KernelTypeOK
  <2>7. DaemonTypeOK'
    BY <1>3, StillType DEF IInv, TypeOK
  <2>8. PhaseOK' /\ LinksOK' /\ StageOK' /\ EventsOK'
    BY <1>3, <2>2 DEF IInv, PhaseOK, LinksOK, StageOK, EventsOK, Reloading, daemon
  <2>9. MapsOK'
    <3>1. control'.layout = "none" /\ enforced' = 0 /\ "CONTROL" \notin pins'
      BY <1>3 DEF IInv, MapsOK, Control
    <3>2. ASSUME NEW n \in Maps \ (pins' \cup {"CONTROL"})
          PROVE  tries'[SlotOf(n)] \cap FamilyOf(n) = {}
      <4>1. SlotOf(n) \in Slots
        BY DEF SlotOf, Slots
      <4>2. CASE n = m
        BY <1>3, <2>1, <3>2, <4>2 DEF IInv, TypeOK, KernelTypeOK
      <4>3. CASE n # m
        BY <1>3, <2>4, <3>2, <4>1, <4>3 DEF IInv, MapsOK
      <4> QED
        BY <4>2, <4>3
    <3> QED
      BY <2>2, <3>1, <3>2 DEF MapsOK, Loaded, Reloading
  <2>10. SlotsOK'
    <3>1. control'.layout = "none" /\ packet' = None /\ attached' = {}
      BY <1>3, <2>2 DEF IInv, MapsOK, Control
    <3> QED
      BY <2>2, <3>1 DEF SlotsOK
  <2> QED
    BY <2>3, <2>6, <2>7, <2>8, <2>9, <2>10 DEF IInv, TypeOK
<1>4. ASSUME NEW n \in 1..Len(MapNames), MapNames[n] \in pins, MapNames[n] # "CONTROL",
             \A k \in 1..(n - 1) : MapNames[k] \notin pins
      PROVE  "CONTROL" \notin pins
  BY <1>4 DEF MapNames
<1> QED
  BY <1>2, <1>3, <1>4

-----------------------------------------------------------------------------
(* Steps of the packet program and the environment.                        *)

LEMMA PacketStep ==
    ASSUME IInv, UNCHANGED <<file, devices, budget, kernel, daemon>>, KernelTypeOK',
           Unspent("partial") /\ packet' # None /\ ~packet'.overlapped
               => control.layout = "current" /\ packet'.slot = ActiveSlot
    PROVE  IInv'
<1>1. EnvTypeOK'
  BY DEF IInv, TypeOK, EnvTypeOK, devices
<1>2. DaemonTypeOK'
  BY StillType DEF IInv, TypeOK, kernel
<1>3. PhaseOK' /\ LinksOK' /\ EventsOK'
  BY DEF IInv, PhaseOK, LinksOK, EventsOK, Unspent, kernel, daemon
<1>4. MapsOK' /\ SlotsOK'
  BY DEF IInv, MapsOK, SlotsOK, ActiveSlot, Listed, Unspent, kernel, daemon
<1>5. StageOK'
  BY DEF IInv, StageOK, StageShape, Inactive, ActiveSlot, Unspent, kernel, daemon
<1> QED
  BY <1>1, <1>2, <1>3, <1>4, <1>5 DEF IInv, TypeOK

LEMMA ReceiveStep ==
    ASSUME IInv, NEW a \in Senders, Receive(a)
    PROVE  IInv'
<1>1. packet' \in [addr : Addresses, slot : Slots,
                   during : SUBSET (0..Len(file')), overlapped : BOOLEAN]
  BY XdpAssumption DEF Receive, IInv, TypeOK, KernelTypeOK, ActiveSlot
<1>2. KernelTypeOK'
  BY <1>1 DEF Receive, IInv, TypeOK, KernelTypeOK, kernel
<1>3. attached # {} /\ packet'.slot = ActiveSlot
  BY DEF Receive
<1> QED
  BY <1>2, <1>3, PacketStep DEF Receive, IInv, SlotsOK

LEMMA VerdictStep == IInv /\ Verdict => IInv'
<1> SUFFICES ASSUME IInv, Verdict
             PROVE  IInv'
  OBVIOUS
<1>1. KernelTypeOK'
  BY DEF Verdict, IInv, TypeOK, KernelTypeOK, kernel
<1> QED
  BY <1>1, PacketStep DEF Verdict

LEMMA FileChangeStep == IInv /\ FileChange => IInv'
<1> SUFFICES ASSUME IInv, FileChange
             PROVE  IInv'
  OBVIOUS
<1> USE DEF FileChange
<1>1. PICK s \in Shapes : file' = Append(file, s)
  OBVIOUS
<1>2. /\ Len(file) \in Nat \ {0}
      /\ Len(file') = Len(file) + 1
      /\ \A v \in 1..Len(file) : file'[v] = file[v]
      /\ file' \in Seq(Shapes) \ {<<>>}
  BY <1>1, FileShape DEF IInv, TypeOK, EnvTypeOK
<1>3. EnvTypeOK'
  BY <1>2 DEF IInv, TypeOK, EnvTypeOK, devices
<1>4. KernelTypeOK'
  BY <1>2 DEF IInv, TypeOK, KernelTypeOK, kernel
<1>5. DaemonTypeOK'
  BY <1>2 DEF IInv, TypeOK, DaemonTypeOK, kernel
<1>6. LinksOK' /\ MapsOK'
  BY DEF IInv, LinksOK, MapsOK, kernel
<1>7. PhaseOK'
  BY <1>2 DEF IInv, PhaseOK
<1>8. StageOK'
  <2>1. CASE pc \in {"insert", "switch", "reject"}
    <3>1. stage \in [ver : 1..Len(file), sent : SUBSET Addresses]
      BY <2>1 DEF IInv, StageOK
    <3>2. StageShape' = StageShape /\ stage \in [ver : 1..Len(file'), sent : SUBSET Addresses]
      BY <1>2, <3>1 DEF StageShape
    <3> QED
      BY <2>1, <3>2 DEF IInv, StageOK, Inactive, ActiveSlot, Unspent, kernel
  <2>2. CASE pc \notin {"insert", "switch", "reject"}
    BY <2>2 DEF IInv, StageOK, Inactive, ActiveSlot, kernel
  <2> QED
    BY <2>1, <2>2
<1>9. EventsOK'
  <2>1. ~watching => announced' < Len(file')
    BY <1>2 DEF IInv, TypeOK, DaemonTypeOK
  <2> QED
    BY <1>2, <2>1 DEF EventsOK
<1>10. SlotsOK'
  <2>1. Listed(enforced)' = Listed(enforced)
    BY <1>2 DEF Listed, IInv, TypeOK, KernelTypeOK, kernel
  <2> QED
    BY <2>1 DEF IInv, SlotsOK, ActiveSlot, Unspent, kernel
<1> QED
  BY <1>3, <1>4, <1>5, <1>6, <1>7, <1>8, <1>9, <1>10 DEF IInv, TypeOK

LEMMA DeviceStep ==
    ASSUME IInv, Drawn, UNCHANGED <<file, kernel, packet, daemon>>,
           absent' \subseteq Interfaces, index' \in [Interfaces -> Nat]
    PROVE  IInv'
<1>1. EnvTypeOK' /\ KernelTypeOK'
  BY DEF IInv, TypeOK, EnvTypeOK, KernelTypeOK, Drawn, kernel
<1>2. DaemonTypeOK'
  BY StillType DEF IInv, TypeOK, kernel
<1>3. \A k \in Kinds : (Unspent(k)' => Unspent(k)) /\ budget'[k] <= Budget[k]
  BY UnspentBefore DEF IInv, TypeOK
<1>4. PhaseOK' /\ LinksOK' /\ MapsOK'
  BY <1>3 DEF IInv, PhaseOK, LinksOK, MapsOK, kernel, daemon
<1>5. StageOK'
  BY <1>3 DEF IInv, StageOK, StageShape, Inactive, ActiveSlot, kernel, daemon, Kinds
<1>6. EventsOK'
  BY <1>3 DEF IInv, EventsOK, kernel, daemon, Kinds
<1>7. SlotsOK'
  BY <1>3 DEF IInv, SlotsOK, ActiveSlot, Listed, kernel, daemon, Kinds
<1> QED
  BY <1>1, <1>2, <1>4, <1>5, <1>6, <1>7 DEF IInv, TypeOK

LEMMA VanishStep ==
    ASSUME IInv, NEW i \in Removable, Vanish(i)
    PROVE  IInv'
<1>1. Drawn
  BY SpendDrawn DEF Vanish, IInv, TypeOK, Kinds
<1>2. absent' \subseteq Interfaces /\ index' \in [Interfaces -> Nat]
  BY XdpAssumption DEF Vanish, IInv, TypeOK, EnvTypeOK
<1> QED
  BY <1>1, <1>2, DeviceStep DEF Vanish

LEMMA ReappearStep ==
    ASSUME IInv, NEW i \in Removable, Reappear(i)
    PROVE  IInv'
<1>1. Drawn
  BY StillDrawn DEF Reappear, IInv, TypeOK
<1>2. absent' \subseteq Interfaces /\ index' \in [Interfaces -> Nat]
  BY XdpAssumption DEF Reappear, IInv, TypeOK, EnvTypeOK
<1> QED
  BY <1>1, <1>2, DeviceStep DEF Reappear

-----------------------------------------------------------------------------
(* The invariant.                                                          *)

LEMMA InitInv == Init => IInv
<1> SUFFICES ASSUME Init
             PROVE  IInv
  OBVIOUS
<1> USE DEF Init
<1>1. EnvTypeOK
  <2>1. file \in Seq(Shapes) \ {<<>>}
    <3>1. PICK s \in Shapes : file = <<s>>
      OBVIOUS
    <3>2. <<s>> \in Seq(Shapes)
      OBVIOUS
    <3>3. Len(<<s>>) = 1 /\ Len(<<>>) = 0
      OBVIOUS
    <3> QED
      BY <3>1, <3>2, <3>3
  <2>2. budget \in [Kinds -> Nat]
    BY XdpAssumption
  <2>3. absent \subseteq Interfaces /\ index \in [Interfaces -> Nat]
    OBVIOUS
  <2> QED
    BY <2>1, <2>2, <2>3 DEF EnvTypeOK
<1>2. Len(file) \in Nat \ {0}
  BY <1>1, FileShape
<1>3. KernelTypeOK
  BY <1>2 DEF KernelTypeOK, Control, Layouts, Slots
<1>4. DaemonTypeOK
  <2>1. pc \in Steps /\ announced \in 0..Len(file)
    BY <1>2 DEF Steps
  <2>2. started \in BOOLEAN /\ watching \in BOOLEAN /\ pending \in BOOLEAN
    OBVIOUS
  <2> QED
    BY <2>1, <2>2 DEF DaemonTypeOK
<1>5. PhaseOK
  BY XdpAssumption DEF PhaseOK, Reloading
<1>6. LinksOK /\ StageOK /\ EventsOK
  BY DEF LinksOK, StageOK, EventsOK, Reloading
<1>7. MapsOK
  <2>1. "CONTROL" \in Maps
    BY DEF Maps, MapNames
  <2>2. \A m \in Maps : tries[SlotOf(m)] = {}
    BY DEF SlotOf, Slots
  <2>3. control.layout \in {"none", "foreign"} /\ (control.layout = "none" <=> "CONTROL" \notin pins)
    BY <2>1 DEF Control
  <2> QED
    BY <2>2, <2>3 DEF MapsOK, Loaded, Reloading
<1>8. SlotsOK
  BY DEF SlotsOK, Control
<1> QED
  BY <1>1, <1>3, <1>4, <1>5, <1>6, <1>7, <1>8 DEF IInv, TypeOK

LEMMA StepInv == IInv /\ [Next]_vars => IInv'
<1> SUFFICES ASSUME IInv, [Next]_vars
             PROVE  IInv'
  OBVIOUS
<1>1. CASE Busy
  BY <1>1, LoadMapsStep, InitControlStep, OpenOwnedLinksStep, AttachStep, RollbackStep,
     InitialLoadStep, ClearInactiveStep, OpenBlocklistStep, InsertStep, EndOfStreamStep,
     ClearRejectedStep, SwitchStep, ClearObsoleteStep, InstallWatcherStep, ExitStep,
     UnlinkOneStep, UnpinOneStep
  DEF Busy
<1>2. CASE Start \/ Reload \/ Reconcile \/ Stop \/ CleanupPinned \/ Crash
  BY <1>2, StartStep, ReloadStep, ReconcileStep, StopStep, CleanupPinnedStep, CrashStep
<1>3. CASE \E i \in Removable : Vanish(i) \/ Reappear(i)
  BY <1>3, VanishStep, ReappearStep
<1>4. CASE FileChange \/ (\E a \in Senders : Receive(a)) \/ Verdict
  BY <1>4, FileChangeStep, ReceiveStep, VerdictStep
<1>5. CASE UNCHANGED vars
  <2>1. Drawn /\ EnvTypeOK'
    BY <1>5, StillDrawn DEF vars, IInv, TypeOK, EnvTypeOK, devices
  <2> QED
    BY <1>5, <2>1, DeviceStep DEF vars, devices, EnvTypeOK
<1> QED
  BY <1>1, <1>2, <1>3, <1>4, <1>5 DEF Next

\* IInv holds in every state, whatever fails, is killed or is cleaned up.
THEOREM InvariantHolds == Spec => []IInv
BY InitInv, StepInv, PTL DEF Spec

\* Every variable keeps its type.
THEOREM TypeCorrect == Spec => []TypeOK
<1>1. IInv => TypeOK
  BY DEF IInv
<1> QED
  BY <1>1, InvariantHolds, PTL

\* The slot being staged holds what this reload inserted and nothing else.
THEOREM StagingIsExact == Spec => []StageExact
<1>1. IInv => StageExact
  BY DEF IInv, StageOK, StageExact
<1> QED
  BY <1>1, InvariantHolds, PTL

\* The program is attached to the configured devices and no other.
THEOREM LinksMatchConfig == Spec => []AttachedWhileWatching
<1>1. IInv => AttachedWhileWatching
  BY DEF IInv, LinksOK, AttachedWhileWatching
<1> QED
  BY <1>1, InvariantHolds, PTL

\* No change that arrives during a reload is swallowed by it.
THEOREM EventsAreServed == Spec => []EventsServed
<1>1. IInv => EventsServed
  BY DEF IInv, EventsOK, PhaseOK, EventsServed
<1> QED
  BY <1>1, InvariantHolds, PTL

\* An undisturbed packet gets the verdict of the enforced list, as long as no
\* cleanup was cut short.
THEOREM VerdictsFollowList == Spec => [](Unspent("partial") => VerdictOfEnforcedList)
<1>1. IInv => (Unspent("partial") => VerdictOfEnforcedList)
  BY DEF IInv, SlotsOK, VerdictOfEnforcedList, Lookup
<1> QED
  BY <1>1, InvariantHolds, PTL

\* The slot that an attached program reads holds one whole list.  A cleanup that
\* is cut short is the only way to lose that: run xdp_marker_first shows it.
THEOREM SelectedSlotComplete == Spec => [](Unspent("partial") => ActiveSlotComplete)
<1>1. IInv => (Unspent("partial") => ActiveSlotComplete)
  BY DEF IInv, SlotsOK, ActiveSlotComplete, Blocked
<1> QED
  BY <1>1, InvariantHolds, PTL

-----------------------------------------------------------------------------
(* No step takes the link of an interface that stays configured.           *)

LEMMA StepKeepsLinks ==
    ASSUME [Next]_vars, NEW i \in desired \cap attached, pc # "unlink", i \notin fresh
    PROVE  i \in attached'
<1>1. CASE OpenOwnedLinks
  BY <1>1 DEF OpenOwnedLinks, Call, ObsoleteLinks
<1>2. CASE Rollback
  BY <1>2 DEF Rollback, Call, Undo
<1>3. CASE Attach
  BY <1>3 DEF Attach, Call
<1>4. CASE UnlinkOne
  BY <1>4 DEF UnlinkOne
<1>5. CASE \/ LoadMaps \/ InitControl \/ InitialLoad \/ ClearInactive \/ OpenBlocklist
           \/ Insert \/ EndOfStream \/ ClearRejected \/ Switch \/ ClearObsolete
           \/ InstallWatcher \/ Exit \/ UnpinOne
  BY <1>5 DEF LoadMaps, InitControl, InitialLoad, ClearInactive, OpenBlocklist, Insert,
     EndOfStream, ClearRejected, Switch, ClearObsolete, InstallWatcher, Exit, UnpinOne, kernel
<1>6. CASE Start \/ Reload \/ Reconcile \/ Stop \/ CleanupPinned \/ Crash \/ FileChange \/ Verdict
  BY <1>6 DEF Start, Reload, Reconcile, Stop, CleanupPinned, Crash, FileChange, Verdict, kernel
<1>7. CASE \/ \E j \in Removable : Vanish(j) \/ Reappear(j)
           \/ \E a \in Senders : Receive(a)
  BY <1>7 DEF Vanish, Reappear, Receive, kernel
<1>8. CASE UNCHANGED vars
  BY <1>8 DEF vars, kernel
<1> QED
  BY <1>1, <1>2, <1>3, <1>4, <1>5, <1>6, <1>7, <1>8 DEF Next, Busy

\* Whatever fails, an interface that stays configured keeps its link.
THEOREM ConfiguredLinksKept == Spec => LinkKept
<1>1. [Next]_vars => [\A i \in desired \cap attached :
                        pc # "unlink" /\ i \notin fresh => i \in attached']_vars
  BY StepKeepsLinks
<1> QED
  BY <1>1, PTL DEF Spec, LinkKept

-----------------------------------------------------------------------------
(* Xdp implements AtomicList as long as no cleanup is cut short.  Three    *)
(* steps are seen from outside: a version is offered when the file         *)
(* changes, adopted when the selector moves, and withdrawn when the        *)
(* control map goes.                                                       *)

Unseen == UNCHANGED <<file, enforced, Blocked>>

LEMMA SelectionKept ==
    ASSUME UNCHANGED <<file, enforced, control>>, tries'[ActiveSlot] = tries[ActiveSlot]
    PROVE  Unseen
BY DEF Unseen, Blocked, ActiveSlot

\* The inactive slot can be written unseen.
LEMMA InactiveUnseen ==
    ASSUME IInv, UNCHANGED <<file, enforced, control>>,
           NEW S, tries' = [tries EXCEPT ![Inactive] = S]
    PROVE  Unseen
<1>1. Inactive # ActiveSlot /\ ActiveSlot \in Slots
  BY DEF IInv, TypeOK, KernelTypeOK, Inactive, ActiveSlot, Slots
<1>2. tries'[ActiveSlot] = tries[ActiveSlot]
  BY <1>1 DEF IInv, TypeOK, KernelTypeOK
<1> QED
  BY <1>2, SelectionKept

LEMMA ClearUnseen ==
    ASSUME IInv, NEW done, NEW err, ClearSlot(Inactive, done, err),
           UNCHANGED <<file, enforced, control>>
    PROVE  Unseen
<1>1. CASE UNCHANGED tries
  BY <1>1, SelectionKept
<1>2. CASE RemoveKey(Inactive)
  BY <1>2, InactiveUnseen DEF RemoveKey
<1> QED
  BY <1>1, <1>2 DEF ClearSlot

LEMMA InsertUnseen == IInv /\ Insert => Unseen
<1> SUFFICES ASSUME IInv, Insert
             PROVE  Unseen
  OBVIOUS
<1>1. CASE UNCHANGED tries
  BY <1>1, SelectionKept DEF Insert
<1>2. CASE \E a \in Unsent : tries' = [tries EXCEPT ![Inactive] = @ \cup {a}]
  BY <1>2, InactiveUnseen DEF Insert
<1> QED
  BY <1>1, <1>2 DEF Insert, Call

\* A new control map selects an empty slot.
LEMMA LoadMapsUnseen == IInv /\ Unspent("partial") /\ LoadMaps => Unseen
<1> SUFFICES ASSUME IInv, Unspent("partial"), LoadMaps
             PROVE  Unseen
  OBVIOUS
<1>1. UNCHANGED <<file, enforced, tries>>
  BY DEF LoadMaps
<1>2. CASE UNCHANGED control
  BY <1>1, <1>2, SelectionKept
<1>3. CASE "CONTROL" \notin pins /\ control' = Control("blank", 0)
  <2>1. control.layout = "none"
    BY <1>3 DEF IInv, MapsOK
  <2>2. \A s \in Slots : tries[s] = {}
    BY <2>1 DEF LoadMaps, IInv, SlotsOK
  <2>3. Blocked = {} /\ Blocked' = {}
    BY <1>1, <1>3, <2>1, <2>2 DEF Blocked, ActiveSlot, Control, Slots
  <2> QED
    BY <1>1, <2>3 DEF Unseen
<1> QED
  BY <1>2, <1>3 DEF LoadMaps, Call, PinMaps

LEMMA InitControlUnseen == IInv /\ Unspent("partial") /\ InitControl => Unseen
<1> SUFFICES ASSUME IInv, Unspent("partial"), InitControl
             PROVE  Unseen
  OBVIOUS
<1>1. UNCHANGED <<file, enforced, tries>>
  BY DEF InitControl
<1>2. CASE UNCHANGED control
  BY <1>1, <1>2, SelectionKept
<1>3. CASE control.layout = "blank" /\ control' = Control("current", 0)
  <2>1. \A s \in Slots : tries[s] = {}
    BY <1>3 DEF InitControl, IInv, SlotsOK
  <2>2. ActiveSlot \in Slots /\ ActiveSlot' \in Slots
    BY <1>3 DEF IInv, TypeOK, KernelTypeOK, ActiveSlot, Control, Slots
  <2>3. Blocked = {} /\ Blocked' = {}
    BY <1>1, <1>3, <2>1, <2>2 DEF Blocked, Control
  <2> QED
    BY <1>1, <2>3 DEF Unseen
<1> QED
  BY <1>2, <1>3 DEF InitControl, Call

\* The selector moves to a whole, acceptable list that is no older than the
\* one it leaves.
LEMMA SwitchImplements == IInv /\ Switch => Unseen \/ Abstract!Adopt
<1> SUFFICES ASSUME IInv, Switch
             PROVE  Unseen \/ Abstract!Adopt
  OBVIOUS
<1>1. CASE UNCHANGED control /\ UNCHANGED enforced
  BY <1>1, SelectionKept DEF Switch
<1>2. CASE control' = Control("current", Inactive) /\ enforced' = stage.ver
  <2>1. /\ stage.ver \in 1..Len(file)
        /\ stage.ver >= enforced
        /\ tries[Inactive] = Content[file[stage.ver]]
        /\ file[stage.ver] \notin Malformed
        /\ file[stage.ver] \notin Missing
    BY DEF Switch, IInv, StageOK, StageShape, TypeOK, KernelTypeOK
  <2>2. file[stage.ver] \in Acceptable
    <3>1. file[stage.ver] \in Shapes
      BY <2>1, FileShape DEF IInv, TypeOK
    <3>2. Fits(file[stage.ver])
      BY DEF Switch, IInv, StageOK, StageShape, Fits
    <3> QED
      BY <2>1, <3>1, <3>2 DEF Acceptable
  <2>3. Blocked' = Content[file[stage.ver]]
    BY <1>2, <2>1 DEF Switch, Blocked, ActiveSlot, Control
  <2>4. UNCHANGED file
    BY DEF Switch
  <2> QED
    BY <1>2, <2>1, <2>2, <2>3, <2>4 DEF Abstract!Adopt
<1> QED
  BY <1>1, <1>2 DEF Switch, Call

\* Without its control map the backend blocks nothing.
LEMMA UnpinImplements == IInv /\ UnpinOne => Unseen \/ Abstract!Withdraw
<1> SUFFICES ASSUME IInv, UnpinOne
             PROVE  Unseen \/ Abstract!Withdraw
  OBVIOUS
<1>1. UNCHANGED file
  BY DEF UnpinOne
<1>2. CASE UNCHANGED <<control, tries, enforced>>
  BY <1>1, <1>2, SelectionKept
<1>3. CASE control' = Control("none", 0) /\ enforced' = 0
  BY <1>1, <1>3 DEF Abstract!Withdraw, Blocked, Control
<1>4. CASE "CONTROL" \notin pins /\ UNCHANGED <<control, enforced>>
  <2>1. control.layout = "none" /\ control'.layout = "none"
    BY <1>4 DEF IInv, MapsOK
  <2> QED
    BY <1>1, <1>4, <2>1 DEF Unseen, Blocked
<1>5. ASSUME NEW n \in 1..Len(MapNames), MapNames[n] \in pins, MapNames[n] # "CONTROL",
             \A k \in 1..(n - 1) : MapNames[k] \notin pins
      PROVE  "CONTROL" \notin pins
  BY <1>5 DEF MapNames
<1> QED
  BY <1>2, <1>3, <1>4, <1>5 DEF UnpinOne, Unpin

LEMMA FileChangeImplements == FileChange => Abstract!Offer
BY DEF FileChange, Abstract!Offer, Blocked, ActiveSlot, kernel

LEMMA StepImplements ==
    ASSUME IInv, Unspent("partial"), [Next]_vars
    PROVE  [Abstract!Next]_<<file, enforced, Blocked>>
<1>1. CASE Switch
  BY <1>1, SwitchImplements DEF Unseen, Abstract!Next
<1>2. CASE UnpinOne
  BY <1>2, UnpinImplements DEF Unseen, Abstract!Next
<1>3. CASE FileChange
  BY <1>3, FileChangeImplements DEF Abstract!Next
<1>4. CASE LoadMaps \/ InitControl \/ Insert
  BY <1>4, LoadMapsUnseen, InitControlUnseen, InsertUnseen DEF Unseen
<1>5. CASE ClearInactive \/ ClearRejected \/ ClearObsolete
  BY <1>5, ClearUnseen DEF ClearInactive, ClearRejected, ClearObsolete, Unseen
<1>6. CASE \/ OpenOwnedLinks \/ Attach \/ Rollback \/ InitialLoad \/ OpenBlocklist
           \/ EndOfStream \/ InstallWatcher \/ Exit \/ UnlinkOne
  <2>1. UNCHANGED <<file, control, tries, enforced>>
    BY <1>6 DEF OpenOwnedLinks, Attach, Rollback, InitialLoad, OpenBlocklist, EndOfStream,
                InstallWatcher, Exit, UnlinkOne, kernel
  <2> QED
    BY <2>1, SelectionKept DEF Unseen
<1>7. CASE Start \/ Reload \/ Reconcile \/ Stop \/ CleanupPinned \/ Crash \/ Verdict
  <2>1. UNCHANGED <<file, control, tries, enforced>>
    BY <1>7 DEF Start, Reload, Reconcile, Stop, CleanupPinned, Crash, Verdict, kernel
  <2> QED
    BY <2>1, SelectionKept DEF Unseen
<1>8. CASE \/ \E i \in Removable : Vanish(i) \/ Reappear(i)
           \/ \E a \in Senders : Receive(a)
           \/ UNCHANGED vars
  <2>1. UNCHANGED <<file, control, tries, enforced>>
    BY <1>8 DEF Vanish, Reappear, Receive, vars, kernel
  <2> QED
    BY <2>1, SelectionKept DEF Unseen
<1> QED
  BY <1>1, <1>2, <1>3, <1>4, <1>5, <1>6, <1>7, <1>8 DEF Next, Busy

\* The backend blocks one whole acceptable list at a time and never goes back
\* to an older one, through reloads, failures, kills and restarts, unless a
\* cleanup is cut short.
THEOREM ImplementsAtomicList == Spec /\ []Unspent("partial") => AbstractSpec
<1>1. Init => Abstract!Init
  BY DEF Init, Abstract!Init, Blocked, ActiveSlot, Control, Slots
<1>2. IInv /\ Unspent("partial") /\ [Next]_vars => [Abstract!Next]_<<file, enforced, Blocked>>
  BY StepImplements
<1> QED
  BY <1>1, <1>2, InvariantHolds, PTL DEF Spec, AbstractSpec, Abstract!Spec
=============================================================================
