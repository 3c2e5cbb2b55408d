--------------------------- MODULE XdpProperties ---------------------------
(***************************************************************************)
(* What the XDP backend promises, stated over Xdp.                         *)
(***************************************************************************)
EXTENDS Xdp

Unspent(kind) == budget[kind] = Budget[kind]

Fits(s) == \A f \in Families : Cardinality(Content[s] \cap Family[f]) <= MaxEntries[f]
Acceptable == {s \in Shapes \ (Malformed \cup Missing) : Fits(s)}

Listed(v) == IF v = 0 THEN {} ELSE Content[file[v]]

\* What the packet program would drop now.
Blocked == IF control.layout = "none" THEN {} ELSE tries[ActiveSlot]

EnvTypeOK ==
    /\ file \in Seq(Shapes) \ {<<>>}
    /\ budget \in [Kinds -> Nat]
    /\ absent \subseteq Interfaces
    /\ index \in [Interfaces -> Nat]

KernelTypeOK ==
    /\ pins \subseteq Maps
    /\ control \in [layout : Layouts, slot : Slots]
    /\ tries \in [Slots -> SUBSET Addresses]
    /\ attached \subseteq Interfaces \X Nat
    /\ enforced \in 0..Len(file)
    /\ \/ packet = None
       \/ packet \in [addr : Addresses, slot : Slots,
                     during : SUBSET (0..Len(file)), overlapped : BOOLEAN]

Steps == {"down", "load", "control", "own", "attach", "rollback", "nft", "clear", "open",
          "insert", "reject", "switch", "obsolete", "install", "watch", "exit", "unlink", "unpin"}

DaemonTypeOK ==
    /\ pc \in Steps
    /\ desired \subseteq Interfaces \X Nat
    /\ started \in BOOLEAN
    /\ watching \in BOOLEAN
    /\ pending \in BOOLEAN
    /\ announced \in 0..Len(file)
    /\ \/ stage = None
       \/ stage \in [ver : 1..Len(file), sent : SUBSET Addresses]
    /\ fresh \subseteq attached

\* The variables range over the values the code gives them.
TypeOK == EnvTypeOK /\ KernelTypeOK /\ DaemonTypeOK

-----------------------------------------------------------------------------
(* Safety                                                                  *)

\* README.md:8-11: updates are activated atomically, and the selector moves
\* only after the inactive slot is complete; a rejected list leaves the active
\* one unchanged.  The backend implements the abstract list.
Abstract == INSTANCE AtomicList WITH blocked <- Blocked
AbstractSpec == Abstract!Spec

\* README.md:9-10: the selector moves only after the slot is complete.  The
\* slot an attached program reads holds exactly one whole list (or, before the
\* first activation, nothing), also after kills, restarts and cleanups.
ActiveSlotComplete == attached # {} => Blocked = Listed(enforced)

\* The slot being staged holds what this reload inserted and nothing else, so
\* that the manager's own count is the occupancy of the map and the kernel
\* never refuses a list that the configured capacity admits.
StageExact ==
    pc \in {"insert", "switch"} => tries[Inactive] = stage.sent

\* A packet whose two map reads no activation overlaps gets the verdict of the
\* enforced list.
VerdictOfEnforcedList ==
    packet # None /\ ~packet.overlapped
        => (Lookup(packet) <=> packet.addr \in Listed(enforced))

\* README.md:8: an update is activated atomically.  A packet from an address
\* that every list enforced since it arrived contains is dropped.
ListedIsDropped ==
    packet # None /\ (\A v \in packet.during : packet.addr \in Listed(v))
        => Lookup(packet)

\* While the daemon watches, the program is attached to the device that every
\* configured interface was at its start, and to no other: links of an earlier
\* configuration, of devices that are gone or of a failed attempt do not stay.
AttachedWhileWatching == watching => attached = desired

\* daemon.rs:482-507: an event is taken from the queue before its reload.  When
\* the loop waits again with no event left, the last change it heard of is
\* enforced, unless the list is unacceptable or the kernel refused a call: no
\* change that arrives during a reload is swallowed by it.
EventsServed ==
    pc = "watch" /\ ~pending /\ announced = Len(file)
        => \/ enforced = announced
           \/ file[announced] \notin Acceptable
           \/ ~Unspent("reject")

-----------------------------------------------------------------------------
(* What a step may never do                                                *)

\* An interface that stays configured never loses its link, whatever fails,
\* unless it was attached by the same failed attempt or state is cleaned up.
LinkKept ==
    [][\A i \in desired \cap attached :
         pc # "unlink" /\ i \notin fresh => i \in attached']_vars

-----------------------------------------------------------------------------
(* Liveness                                                                *)

\* README.md:3-6: cidrwall enforces the list, dropping packets at ingress, and
\* daemon.rs:445-455 reconciles at every interval.  A configured interface that
\* exists gets the program sooner or later, unless it goes away (again) or the
\* daemon stops watching.
ReturnedIsProtected ==
    \A i \in Interfaces :
        (watching /\ i \notin absent /\ \E d \in desired : d[1] = i)
          ~> Device(i) \in attached \/ i \in absent \/ ~watching

-----------------------------------------------------------------------------
(* What holds between any two steps, and keeps holding: TypeOK and the     *)
(* parts below together imply every safety property above that the run     *)
(* checks.                                                                 *)

Reloading == {"clear", "open", "insert", "reject", "switch", "obsolete"}

\* A step of a daemon whose maps are loaded and recognised.
Loaded == Reloading \cup {"own", "attach", "rollback", "nft", "install", "watch", "exit", "unlink"}

PhaseOK ==
    /\ watching => pc \in Reloading \cup {"watch", "attach"}
    /\ pc = "watch" => watching
    /\ pc \notin {"attach", "rollback"} => fresh = {}
    /\ announced # 0 => watching \/ pc \in {"exit", "unlink", "unpin"}
    /\ \A k \in Kinds : budget[k] <= Budget[k]

LinksOK ==
    /\ watching \/ pc \in Reloading \cup {"nft", "install"} => attached = desired
    /\ pc \in {"attach", "rollback"} => attached \subseteq desired
    /\ pc = "unpin" => attached = {}

\* An unpinned map is gone, and a trie that is gone holds nothing.
MapsOK ==
    /\ control.layout = "none" <=> "CONTROL" \notin pins
    /\ pc \in Loaded => control.layout = "current"
    /\ control.layout = "current" \/ pc = "control" => pins = Maps
    /\ control.layout # "current" => enforced = 0
    /\ \A m \in Maps \ (pins \cup {"CONTROL"}) : tries[SlotOf(m)] \cap FamilyOf(m) = {}

\* What is staged is a part of the list being read that fits the tries.
StageOK ==
    /\ pc = "open" => tries[Inactive] = {}
    /\ pc \in {"insert", "switch", "reject"} =>
         stage \in [ver : 1..Len(file), sent : SUBSET Addresses]
    /\ pc \in {"insert", "switch"} =>
         /\ tries[Inactive] = stage.sent
         /\ stage.sent \subseteq Content[StageShape]
         /\ \A f \in Families : Cardinality(stage.sent \cap Family[f]) <= MaxEntries[f]
         /\ StageShape \notin Missing
         /\ enforced <= stage.ver
    /\ pc = "switch" => stage.sent = Content[StageShape] /\ StageShape \notin Malformed
    /\ pc = "reject" => StageShape \notin Acceptable \/ ~Unspent("reject")

\* An event that has been taken from the queue is served by this reload.
EventsOK ==
    watching /\ ~pending /\ announced = Len(file) =>
        /\ pc \in {"insert", "switch", "reject"} => stage.ver = announced
        /\ pc \in {"obsolete", "watch", "attach"} =>
             \/ enforced = announced
             \/ file[announced] \notin Acceptable
             \/ ~Unspent("reject")

\* Unless a cleanup was cut short, a selector selects the enforced list, and a
\* trie without a recognised selector is empty.
SlotsOK ==
    Unspent("partial") =>
        /\ attached # {} => control.layout = "current"
        /\ control.layout = "current" => tries[ActiveSlot] = Listed(enforced)
        /\ control.layout # "current" /\ pc # "unpin" => \A s \in Slots : tries[s] = {}
        /\ packet # None /\ ~packet.overlapped =>
             control.layout = "current" /\ packet.slot = ActiveSlot

\* The inductive invariant of Spec.
IInv == TypeOK /\ PhaseOK /\ LinksOK /\ MapsOK /\ StageOK /\ EventsOK /\ SlotsOK
=============================================================================
