-------------------------------- MODULE Xdp --------------------------------
(***************************************************************************)
(* The XDP backend: XdpManager of src/src/xdp.rs as the daemon drives it,  *)
(* the pinned maps and links that outlive the process, `--cleanup xdp`,    *)
(* and the packet program of src/cidrwall-ebpf/src/main.rs, which reads    *)
(* the slot selector and then the trie of that slot while the daemon       *)
(* writes both.                                                            *)
(*                                                                         *)
(* An address stands for a prefix of a list and the packets it covers.     *)
(* Version v of the inbound file has the shape file[v].                    *)
(***************************************************************************)
EXTENDS Naturals, Sequences, FiniteSets

CONSTANTS
    Addresses, V4,          \* all addresses, and those of them that are IPv4
    Senders,                \* addresses whose packets are followed
    Shapes,                 \* what the inbound file can look like
    Content,                \* Content[s]: addresses streamed from a file of shape s
    Malformed, Missing,     \* shapes whose streaming fails after that; no file
    MaxEntries,             \* MaxEntries[f]: capacity of family f's tries
    Interfaces, Removable,  \* names of interfaces, and those that may disappear
    Configs,                \* sets of interfaces a configuration may protect
    CleanupOnExit,          \* xdp.cleanup_on_exit
    MaxVer,                 \* bound: versions the file may have
    Budget,                 \* bound: how often each adverse event happens
    None

Families == {4, 6}
Slots == {0, 1}
Family == [f \in Families |-> IF f = 4 THEN V4 ELSE Addresses \ V4]

\* start: the daemon is started       crash: it is killed outside a cleanup
\* reject: a call into the kernel fails
\* cleanup: `--cleanup xdp` is run    partial: a cleanup fails or is killed midway
\* vanish: an interface is removed
Kinds == {"start", "crash", "reject", "cleanup", "partial", "vanish"}

ASSUME XdpAssumption ==
    /\ IsFiniteSet(Addresses)
    /\ V4 \subseteq Addresses
    /\ Senders \subseteq Addresses
    /\ Content \in [Shapes -> SUBSET Addresses]
    /\ Malformed \subseteq Shapes
    /\ Missing \subseteq Shapes
    /\ Removable \subseteq Interfaces
    /\ MaxEntries \in [Families -> Nat \ {0}]
    /\ Configs \subseteq (SUBSET Interfaces) \ {{}}
    /\ CleanupOnExit \in BOOLEAN
    /\ MaxVer \in Nat \ {0}
    /\ Budget \in [Kinds -> Nat]

\* Both slots' tries, in the order in which remove_map_pins works.
MapNames == <<"CONTROL", "IPV4_A", "IPV4_B", "IPV6_A", "IPV6_B">>
Maps == {MapNames[n] : n \in 1..Len(MapNames)}

VARIABLES
    file,       \* the shapes the inbound file has had, the current one last
    budget,     \* adverse events left
    absent,     \* interfaces that do not exist now
    index,      \* index[i]: interface index of the last device of that name
    pins,       \* the maps pinned in bpffs
    control,    \* CONTROL: its layout ("none" without the map) and active slot
    tries,      \* tries[s]: what the two tries of slot s hold
    attached,   \* devices with a pinned link
    enforced,   \* history: version the control map selects, 0 for none
    packet,     \* a packet between its two map reads, with (history) the
                \* versions enforced meanwhile and whether a switch overlapped it
    pc,         \* the daemon's next step
    desired,    \* XdpManager::interfaces, devices as they were at the start
    started,    \* Daemon::xdp_started
    watching, pending,
    announced,  \* history: last version whose change raised an event for this daemon
    stage,      \* the list being staged: version, addresses inserted
    fresh       \* links attached by this reconcile_links

kernel == <<pins, control, tries, attached, enforced>>
daemon == <<pc, desired, started, watching, pending, announced, stage, fresh>>
devices == <<absent, index>>
vars == <<file, budget, devices, kernel, packet, daemon>>

\* What the kernel calls an interface: it keeps its index until it is removed.
Device(i) == <<i, index[i]>>
Live == {Device(i) : i \in Interfaces \ absent}

\* A missing or blank control map selects slot 0.
ActiveSlot == control.slot
MutInactive == ActiveSlot

Inactive == 1 - ActiveSlot

\* version 0, LAYOUT_VERSION and any other version, or no map
Layouts == {"blank", "current", "foreign", "none"}
Control(layout, slot) == [layout |-> layout, slot |-> slot]

Spend(kind) ==
    /\ budget[kind] > 0
    /\ budget' = [budget EXCEPT ![kind] = @ - 1]

\* A call into the kernel that succeeds, or is refused without any effect.
Call(ok, err) ==
    \/ ok /\ UNCHANGED budget
    \/ err /\ Spend("reject")

\* The process ends.
Down ==
    /\ pc' = "down"
    /\ desired' = {}
    /\ started' = FALSE
    /\ watching' = FALSE
    /\ pending' = FALSE
    /\ announced' = 0
    /\ stage' = None
    /\ fresh' = {}

Goto(to) ==
    /\ pc' = to
    /\ UNCHANGED <<desired, started, watching, pending, announced, stage, fresh>>

MutReturn(to) ==
    /\ pc' = to
    /\ stage' = None
    /\ pending' = FALSE
    /\ UNCHANGED <<desired, started, watching, announced, fresh>>

\* A reload returns: the event loop logs an error, start leaves with it.
Return(to) ==
    /\ pc' = to
    /\ stage' = None
    /\ UNCHANGED <<desired, started, watching, pending, announced, fresh>>

Succeed == Return(IF watching THEN "watch" ELSE "install")
Fail == Return(IF watching THEN "watch" ELSE "exit")

-----------------------------------------------------------------------------
(* XdpManager::new                                                         *)

\* resolve_interfaces: a missing interface fails the start.
Start ==
    /\ pc = "down"
    /\ Spend("start")
    /\ \E D \in Configs :
         IF D \cap absent = {}
         THEN /\ desired' = {Device(i) : i \in D}
              /\ pc' = "load"
              /\ UNCHANGED <<started, watching, pending, announced, stage, fresh>>
         ELSE Down
    /\ UNCHANGED <<file, devices, kernel, packet>>

\* Pinned maps are taken over with what they hold, missing ones are created;
\* when that fails, some of them may have been.
PinMaps(names) ==
    /\ pins' = names
    /\ control' = IF "CONTROL" \in names \ pins THEN Control("blank", 0) ELSE control

LoadMaps ==
    /\ pc = "load"
    /\ Call(PinMaps(Maps) /\ Goto("control"),
            Down /\ \E names \in SUBSET Maps : pins \subseteq names /\ PinMaps(names))
    /\ UNCHANGED <<file, devices, tries, attached, enforced, packet>>

InitControl ==
    /\ pc = "control"
    /\ \/ /\ control.layout = "blank"
          /\ Call(control' = Control("current", 0) /\ Goto("own"), Down /\ UNCHANGED control)
       \/ /\ control.layout = "foreign"
          /\ Down
          /\ UNCHANGED <<budget, control>>
       \/ /\ control.layout = "current"
          /\ Goto("own")
          /\ UNCHANGED <<budget, control>>
    /\ UNCHANGED <<file, devices, pins, tries, attached, enforced, packet>>

MutObsoleteLinks == {}

ObsoleteLinks == attached \ desired

\* open_owned_links: links of interfaces no longer configured are removed.
OpenOwnedLinks ==
    /\ pc = "own"
    /\ Call(IF ObsoleteLinks = {}
            THEN Goto("attach") /\ UNCHANGED attached
            ELSE /\ \E i \in ObsoleteLinks : attached' = attached \ {i}
                 /\ UNCHANGED daemon,
            Down /\ UNCHANGED attached)
    /\ UNCHANGED <<file, devices, pins, control, tries, enforced, packet>>

\* reconcile_links: one missing link after the other.  A link whose device is
\* gone is not missing.
Attach ==
    /\ pc = "attach"
    /\ IF desired \subseteq attached
       THEN /\ pc' = IF watching THEN "watch" ELSE "nft"
            /\ fresh' = {}
            /\ UNCHANGED <<budget, attached, desired, started, watching, pending, announced, stage>>
       ELSE \E d \in desired \ attached :
              \/ /\ d \in Live
                 /\ Call(/\ attached' = attached \cup {d}
                         /\ fresh' = fresh \cup {d}
                         /\ UNCHANGED <<pc, desired, started, watching, pending, announced, stage>>,
                         Goto("rollback") /\ UNCHANGED attached)
              \/ d \notin Live /\ Goto("rollback") /\ UNCHANGED <<budget, attached>>
    /\ UNCHANGED <<file, devices, pins, control, tries, enforced, packet>>

MutUndo == attached

Undo == fresh

MutUndone(i) == UNCHANGED fresh

Undone(i) == fresh' = fresh \ {i}

\* Links attached by a failed reconcile_links are removed again; a failure to
\* remove one is only logged.
Rollback ==
    /\ pc = "rollback"
    /\ IF Undo = {}
       THEN (IF watching THEN Goto("watch") ELSE Down) /\ UNCHANGED <<budget, attached>>
       ELSE \E i \in Undo :
              /\ Undone(i)
              /\ Call(attached' = attached \ {i}, UNCHANGED attached)
              /\ UNCHANGED <<pc, desired, started, watching, pending, announced, stage>>
    /\ UNCHANGED <<file, devices, pins, control, tries, enforced, packet>>

\* The nftables half of initial_load comes first.  When it fails, xdp_started
\* is not set yet and no cleanup of XDP state follows.
InitialLoad ==
    /\ pc = "nft"
    /\ Call(/\ pc' = "clear"
            /\ started' = TRUE
            /\ UNCHANGED <<desired, watching, pending, announced, stage, fresh>>,
            Down)
    /\ UNCHANGED <<file, devices, kernel, packet>>

-----------------------------------------------------------------------------
(* XdpManager::reload                                                      *)

\* clear_slot removes the keys of one trie, then those of the other.
RemoveKey(s) ==
    LET keys == IF tries[s] \cap V4 # {} THEN tries[s] \cap V4 ELSE tries[s]
    IN \E a \in keys : tries' = [tries EXCEPT ![s] = @ \ {a}]

MutClearSlot(s, done, err) == done /\ UNCHANGED <<tries, budget>>

ClearSlot(s, done, err) ==
    \/ tries[s] = {} /\ done /\ UNCHANGED <<tries, budget>>
    \/ tries[s] # {} /\ RemoveKey(s) /\ UNCHANGED <<budget, daemon>>
    \/ Spend("reject") /\ err /\ UNCHANGED tries

ClearInactive ==
    /\ pc = "clear"
    /\ ClearSlot(Inactive, Goto("open"), Fail)
    /\ UNCHANGED <<file, devices, pins, control, attached, enforced, packet>>

OpenBlocklist ==
    /\ pc = "open"
    /\ IF file[Len(file)] \in Missing
       THEN Fail
       ELSE /\ pc' = "insert"
            /\ stage' = [ver |-> Len(file), sent |-> {}]
            /\ UNCHANGED <<desired, started, watching, pending, announced, fresh>>
    /\ UNCHANGED <<file, devices, budget, kernel, packet>>

StageShape == file[stage.ver]
Unsent == Content[StageShape] \ stage.sent

\* Canonical lists have their IPv4 entries first.
NextFamily == IF Unsent \cap V4 # {} THEN 4 ELSE 6

\* The manager counts what it inserts; it does not ask the map.
CapacityExceeded(f) == Cardinality(stage.sent \cap Family[f]) >= MaxEntries[f]

\* The kernel refuses a new key when the trie is full.
TrieFull(f) == Cardinality(tries[Inactive] \cap Family[f]) >= MaxEntries[f]

Insert ==
    /\ pc = "insert"
    /\ Unsent # {}
    /\ IF CapacityExceeded(NextFamily) \/ TrieFull(NextFamily)
       THEN Goto("reject") /\ UNCHANGED <<budget, tries>>
       ELSE \E a \in Unsent \cap Family[NextFamily] :
              Call(/\ tries' = [tries EXCEPT ![Inactive] = @ \cup {a}]
                   /\ stage' = [stage EXCEPT !.sent = @ \cup {a}]
                   /\ UNCHANGED <<pc, desired, started, watching, pending, announced, fresh>>,
                   Goto("reject") /\ UNCHANGED tries)
    /\ UNCHANGED <<file, devices, pins, control, attached, enforced, packet>>

MutStreamFails(s) == FALSE

\* stream_chunks meets a line it cannot parse.
StreamFails(s) == s \in Malformed

EndOfStream ==
    /\ pc = "insert"
    /\ Unsent = {}
    /\ Goto(IF StreamFails(StageShape) THEN "reject" ELSE "switch")
    /\ UNCHANGED <<file, devices, budget, kernel, packet>>

\* The rejected slot is cleared; a failure of that is only logged.
ClearRejected ==
    /\ pc = "reject"
    /\ ClearSlot(Inactive, Fail, Fail)
    /\ UNCHANGED <<file, devices, pins, control, attached, enforced, packet>>

Overlapping(p) == IF p = None THEN None
                  ELSE [p EXCEPT !.during = @ \cup {stage.ver}, !.overlapped = TRUE]

\* The control map selects the staged slot from here on.
Switch ==
    /\ pc = "switch"
    /\ Call(/\ control' = Control("current", Inactive)
            /\ enforced' = stage.ver
            /\ packet' = Overlapping(packet)
            /\ Goto("obsolete"),
            Fail /\ UNCHANGED <<control, enforced, packet>>)
    /\ UNCHANGED <<file, devices, pins, tries, attached>>

\* The old slot is cleared at once; a failure is only logged.
ClearObsolete ==
    /\ pc = "obsolete"
    /\ ClearSlot(Inactive, Succeed, Succeed)
    /\ UNCHANGED <<file, devices, pins, control, attached, enforced, packet>>

-----------------------------------------------------------------------------
(* The event loop                                                          *)

InstallWatcher ==
    /\ pc = "install"
    /\ Call(/\ pc' = "watch"
            /\ watching' = TRUE
            /\ UNCHANGED <<desired, started, pending, announced, stage, fresh>>,
            Goto("exit"))
    /\ UNCHANGED <<file, devices, kernel, packet>>

\* The event is consumed before the reload.
Reload ==
    /\ pc = "watch"
    /\ pending
    /\ pc' = "clear"
    /\ pending' = FALSE
    /\ UNCHANGED <<file, devices, budget, kernel, packet,
                   desired, started, watching, announced, stage, fresh>>

\* XdpManager::reconcile
Reconcile ==
    /\ pc = "watch"
    /\ Call(Goto(IF control.layout = "current" THEN "attach" ELSE "watch"), Goto("watch"))
    /\ UNCHANGED <<file, devices, kernel, packet>>

Stop ==
    /\ pc = "watch"
    /\ pc' = "exit"
    /\ watching' = FALSE
    /\ pending' = FALSE
    /\ UNCHANGED <<file, devices, budget, kernel, packet,
                   desired, started, announced, stage, fresh>>

-----------------------------------------------------------------------------
(* Process end and cleanup                                                 *)

Exit ==
    /\ pc = "exit"
    /\ IF started /\ CleanupOnExit THEN Goto("unlink") ELSE Down
    /\ UNCHANGED <<file, devices, budget, kernel, packet>>

\* `--cleanup xdp` acts on recognised maps only.
CleanupPinned ==
    /\ pc = "down"
    /\ control.layout = "current"
    /\ Spend("cleanup")
    /\ Goto("unlink")
    /\ UNCHANGED <<file, devices, kernel, packet>>

UnlinkOne ==
    /\ pc = "unlink"
    /\ \/ /\ UNCHANGED budget
          /\ IF attached = {}
             THEN Goto("unpin") /\ UNCHANGED attached
             ELSE /\ \E i \in attached : attached' = attached \ {i}
                  /\ UNCHANGED daemon
       \/ Spend("partial") /\ Down /\ UNCHANGED attached
    /\ UNCHANGED <<file, devices, pins, control, tries, enforced, packet>>

SlotOf(m) == IF m \in {"IPV4_A", "IPV6_A"} THEN 0 ELSE 1
FamilyOf(m) == IF m \in {"IPV4_A", "IPV4_B"} THEN Family[4] ELSE Family[6]

\* A map that nothing refers to is gone with its pin.  A packet that is still
\* being processed keeps the old maps and needs no further attention.
Unpin(m) ==
    /\ pins' = pins \ {m}
    /\ IF m = "CONTROL"
       THEN control' = Control("none", 0) /\ enforced' = 0 /\ UNCHANGED tries
       ELSE /\ tries' = [tries EXCEPT ![SlotOf(m)] = @ \ FamilyOf(m)]
            /\ UNCHANGED <<control, enforced>>
    /\ packet' = None

\* remove_map_pins
UnpinOne ==
    /\ pc = "unpin"
    /\ \/ /\ pins # {}
          /\ \E n \in 1..Len(MapNames) :
               /\ MapNames[n] \in pins
               /\ \A k \in 1..(n - 1) : MapNames[k] \notin pins
               /\ Unpin(MapNames[n])
          /\ UNCHANGED <<budget, daemon>>
       \/ pins = {} /\ Down /\ UNCHANGED <<budget, pins, control, tries, enforced, packet>>
       \/ Spend("partial") /\ Down /\ UNCHANGED <<pins, control, tries, enforced, packet>>
    /\ UNCHANGED <<file, devices, attached>>

\* The process is killed; pinned maps and links stay.
Crash ==
    /\ pc # "down"
    /\ Spend(IF pc \in {"unlink", "unpin"} THEN "partial" ELSE "crash")
    /\ Down
    /\ UNCHANGED <<file, devices, kernel, packet>>

-----------------------------------------------------------------------------
(* The packet program and the environment                                  *)

\* try_cidrwall reads the selector ...
Receive(a) ==
    /\ attached \cap Live # {}
    /\ packet = None
    /\ packet' = [addr |-> a, slot |-> ActiveSlot,
                  during |-> {enforced}, overlapped |-> FALSE]
    /\ UNCHANGED <<file, devices, budget, kernel, daemon>>

\* ... then looks the source address up in that slot and drops what it finds.
Lookup(p) == p.addr \in tries[p.slot]

Verdict ==
    /\ packet # None
    /\ packet' = None
    /\ UNCHANGED <<file, devices, budget, kernel, daemon>>

FileChange ==
    /\ Len(file) < MaxVer
    /\ \E s \in Shapes : file' = Append(file, s)
    /\ pending' = (pending \/ watching)
    /\ announced' = IF watching THEN Len(file') ELSE announced
    /\ UNCHANGED <<budget, devices, kernel, packet, pc, desired, started, watching, stage, fresh>>

\* An interface is removed, and may come back as a new device.
Vanish(i) ==
    /\ i \notin absent
    /\ Spend("vanish")
    /\ absent' = absent \cup {i}
    /\ UNCHANGED <<file, index, kernel, packet, daemon>>

Reappear(i) ==
    /\ i \in absent
    /\ absent' = absent \ {i}
    /\ index' = [index EXCEPT ![i] = @ + 1]
    /\ UNCHANGED <<file, budget, kernel, packet, daemon>>

-----------------------------------------------------------------------------

Init ==
    /\ file \in {<<s>> : s \in Shapes}
    /\ budget = Budget
    /\ \/ pins = {} /\ control = Control("none", 0)
       \/ pins = Maps /\ control = Control("foreign", 0)
    /\ tries = [s \in Slots |-> {}]
    /\ absent = {}
    /\ index = [i \in Interfaces |-> 0]
    /\ attached = {}
    /\ enforced = 0
    /\ packet = None
    /\ pc = "down"
    /\ desired = {}
    /\ started = FALSE
    /\ watching = FALSE
    /\ pending = FALSE
    /\ announced = 0
    /\ stage = None
    /\ fresh = {}

Busy ==
    \/ LoadMaps \/ InitControl \/ OpenOwnedLinks \/ Attach \/ Rollback
    \/ InitialLoad
    \/ ClearInactive \/ OpenBlocklist \/ Insert \/ EndOfStream \/ ClearRejected
    \/ Switch \/ ClearObsolete
    \/ InstallWatcher
    \/ Exit \/ UnlinkOne \/ UnpinOne

Next ==
    \/ Start \/ Busy
    \/ Reload \/ Reconcile \/ Stop
    \/ CleanupPinned \/ Crash
    \/ (\E i \in Removable : Vanish(i) \/ Reappear(i))
    \/ FileChange
    \/ (\E a \in Senders : Receive(a)) \/ Verdict

Spec == Init /\ [][Next]_vars

\* A busy daemon goes on, and every loop iteration that takes place serves a due
\* event and a due reconciliation.  Nothing forces the environment.
Fairness ==
    /\ WF_vars(Busy)
    /\ SF_vars(Reconcile)
    /\ SF_vars(Reload)

FairSpec == Spec /\ Fairness
=============================================================================
