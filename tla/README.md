# TLA+ models of cidrwall

`cidrwall` (sources under `src/`) is a Linux daemon that enforces CIDR block lists. It reads one list per
direction (inbound, outbound), writes it into an nftables table over netlink, into XDP maps, or both,
and replaces a list when its file changes. This directory holds TLA+ models of it, TLC runs that check
them on small instances, and proofs checked by TLAPS. Paths like `daemon.rs` mean
`src/src/daemon.rs`, and `README.md:n` means line n of the program's own `src/README.md`.

## Parts of the system

| part | state it keeps | operations | talks to |
|---|---|---|---|
| daemon (`daemon.rs`) | `active` generations, `nft_started`, `xdp_started`, the `pending` events | `new`, `start`, `initial_load`, `stage`, `replace_both`, `reload_nft_for`, `watch`, `reconcile` | both backends, files, the watcher thread (a channel) |
| nftables backend (`netlink.rs`) | `next_generation` | the `Backend` trait: layout, bootstrap, stage, populate, activate, discard, cleanup, health, repair, flowtables | the kernel, one transaction or dump at a time |
| the kernel's table | sets, elements, base and dispatch chains, layout marker | commits or refuses a whole batch | every nftables user of the host |
| XDP manager (`xdp.rs`) | map and link handles; maps and links are pinned in bpffs and outlive the process | `new`, `reload`, `reconcile`, `cleanup`, `cleanup_pinned` | bpf system calls |
| packet program (`cidrwall-ebpf/src/main.rs`) | none | reads the selector, then the trie of that slot | the maps, while the daemon writes them |
| list streaming (`blocklist.rs`) | the growing interval and chunk | `stream_chunks`, `flush_pending`, `interval_prefixes` | hands chunks to a backend |
| configuration, zones, rules (`config.rs`, `zones.rs`, `rules.rs`) | none after start: the daemon keeps `rules`, `protected` and the interfaces | overrides, validation, zone resolution, rule expansion | the zones file, read twice |
| event loop (`daemon.rs:389-507`) | the channel, debounce deadlines, `next_reconcile`, the stop flag | `watch`, `classify_event`, `reload_backends`, `reconcile` | the watcher thread, signals, both backends |
| command line (`main.rs`) | none | run, `--check`, `--cleanup` | backends |
| netlink wrappers (`netlink/ffi.rs`) | a batch under construction | encoding, dumps | libnftnl, libmnl |

What makes them hard:

* **Two stores without a common transaction.** What the daemon tracks (`active`) and what the kernel
  enforces are updated one after the other, and the kernel part may fail, or succeed without telling.
* **Kills at any point.** Kernel state survives the process and is taken over by the next one, which
  restarts its generation counter and may have another configuration.
* **Other writers.** The table, its sets and its rules can be changed by others between any two of the
  daemon's transactions; files are replaced while they are read.
* **Readers without locks.** A packet reads the slot selector and the trie in two steps.
* **Events and retries.** An event is consumed before its reload; reconciliation and reload share the
  same code paths in different states (`active` present or not).
* **Time.** Every event moves its list's deadline, one event is taken in an iteration, reloads may last
  longer than the reconciliation interval, and reads raise events of their own.
* **Decisions on data that changes.** The zones file is read for validation and again for the rules;
  flowtables and interfaces change after they were looked at.

## Modules

```
NftTable         kernel table and transactions            (netlink.rs)
  NftDaemon      the daemon driving it                    (daemon.rs, netlink.rs)
    NftProperties    types, invariants, action and liveness properties
      MCNft          instances for TLC
      NftProofs      TypeCorrect, SafetyInvariantHolds, OnlyCompleteListsEnforced
          NftEnforcementProofs  tracking, protection, leaks, forward-only, foreign tables,
                                starts over an enforcing table
      NftHistory       histories; INSTANCE of AtomicList, once for each direction (refinement)
        MCNftHistory   MCNft with histories
        NftHistoryProofs        (also EXTENDS NftEnforcementProofs)
                                ImplementsAtomicLists, EventsAreServed
Xdp              XDP manager, pinned state, packets       (xdp.rs, cidrwall-ebpf)
  XdpProperties  properties; INSTANCE of AtomicList       (refinement)
    MCXdp
    XdpProofs        types, staging, links, events, verdicts, ImplementsAtomicList
AtomicList       what a backend promises: whole acceptable lists, never an older one
Watcher          the event loop and its timers            (daemon.rs)
  WatcherProperties
    MCWatcher
    WatcherProofs    TypeCorrect, ChangesRemembered
Policy           from the configuration to rules          (main.rs, config.rs, zones.rs, rules.rs,
  PolicyProperties                                         netlink.rs)
    MCPolicy
    PolicyProofs     TypeCorrect, RulesAreMappings, EnforcedOnce, FlowtablesExcluded,
                     EveryListHasFile
MCBlocklist      instance for TLC
  Blocklist      stream_chunks                            (blocklist.rs)
    BlocklistProofs  order, coverage, separation, chunks, prefixes, for lists of any length
                     (also EXTENDS PrefixesProofs)
  Prefixes       interval_prefixes                        (blocklist.rs)
    PrefixesProofs   PrefixesAreMinimal, MinimalIsExact, MinimalIsFewest
```

The parts meet at narrow interfaces, which is why they are separate. `Policy` decides which lists and
interfaces the other modules' constants (`Configs`, `NftRules`, `XdpRules`) stand for. `Watcher` decides
when a list is reloaded and treats a reload as one read of the file that succeeds or fails; `NftDaemon` and
`Xdp` are what such a reload does, and reduce the loop to "an event is queued". `Blocklist` is what feeds
a reload its chunks.

### NftTable and NftDaemon

A generation `<<d, n>>` is the pair of sets `<d>_v4_g<n>`, `<d>_v6_g<n>`: the code creates, references and
deletes the two together. An item `<<v, i>>` is chunk `i` of version `v` of the file, so the contents of a
set tell which list, and how much of it, was written. `Transaction(can, commit, ok, err)` is one netlink
batch: accepted and acknowledged; refused because `can` is false; refused or failed for another reason
(`reject`); committed with the acknowledgement lost (`unacked`). `Dump` is one read of kernel state.

The daemon is one thread, so its program counter `pc` names the next transaction, and every other actor
(file writers, other nftables users, SIGKILL) may act between two of them:

| `pc` | action | code |
|---|---|---|
| down, flow, layout, bootstrap | `Start`, `CheckFlowtables`, `CheckLayout`, `Bootstrap` | `Daemon::new`, `initial_load` |
| begin, populate | `BeginStage`, `Populate`, `EndOfStream` | `stage` |
| verify, activate | `VerifyCandidate`, `ActivateInitial`, `ActivateDirection` | `verify_candidate`, `replace_both`, `reload_nft_for` |
| cleanup, discard | `CleanupObsolete`, `Discard` | the tails of those functions |
| install, watch | `InstallWatcher`, `Reload`, `Reconcile`, `Stop` | `watch`, `reload_backends` |
| rec_layout, rec_bootstrap, rec_health, repair | `Reconcile*`, `RepairRules` | `reconcile_nft` |
| exit, exit_delete | `Exit`, `DeleteTable` | `start` after the loop, `Backend::cleanup` |

`todo`, `stage`, `candidate` and `junk` are the locals of `replace_both`, `reload_nft_for` and `stage`;
`active = NoTracked` is `Daemon::active == None`. `source`, `inherited` and (in properties) the unspent
budget are history: no guard of the daemon reads them. `next` is `next_generation`; `MaxGen` stands for the
end of `u64`.

Simplifications: `cleanup_obsolete` lists the sets and deletes them in one step; rules of a direction are
one lookup (`dispatch[d]`) plus the base chains (`base`); a health check is one dump; `layout_status` dumps
the names of the tables and then the sets of its own (`netlink.rs:276`, `280`), which is one step here, so that
a table deleted between the two, which the code takes for one without a marker instead of an absent one, does
not occur; the event loop is reduced to "an event is queued" (see Watcher).

`NftHistory` adds two history variables, which no step of the daemon reads: `written`, the lists each file
has had, and `told`, the directions the watcher has reported to this process. `HNext` is
`Next /\ Record`, so every behaviour of `Spec` has exactly one with histories. They make two
promises expressible: `AtomicLists`, the table as an `AtomicList` of each direction, with `blocked` mapped
to the contents of the generation that the rules look up and `enforced` to its version; and `EventsServed`,
that the loop never rests with an event consumed in vain. `nft_missed` is why `told` is needed: a file
that changes before the watcher exists raises no event.

### Xdp and AtomicList

An address stands for a prefix. `pins`, `control`, `tries`, `attached` are what bpffs and the kernel keep;
`packet` is one packet between its two map reads, with the versions enforced meanwhile as history. Clearing
and filling a slot is one key per step. The pinned maps' removal in the order of `MAP_NAMES`, the rollback
of attached links and both cleanups are step by step, and may end anywhere. `AtomicList` is the promise of
`README.md:8-11`; `XdpProperties!AbstractSpec` says `Xdp` implements it with `blocked` mapped to the
tries of the selected slot and `enforced` to the version switched to.

An interface is a name in the configuration and an index in the kernel, and a new index after it was removed
and created again: `Device(i)` is the pair. `resolve_interfaces` fixes the devices at the start; links
belong to devices. `announced` is history: the last version whose change raised an event, from which
`EventsServed` tells whether the loop may rest.

Since links only leave the manager's table in a rollback during construction, `reconcile_links` finds
nothing to do in the event loop; the model shows this with `AttachedWhileWatching`. That includes devices
that are gone, which `xdp_returned` turns into a finding.

### Watcher

One action per step of the loop body: `LoopTop` (the stop flag), `Receive`/`ReceiveNothing`
(`recv_timeout`), `CollectDue` (`now` and `due`), `BeginReload`, `Serve`, `EndReload` (`reload_backends`,
one backend at a time), `Reconcile` or `EndIteration`. Deadlines are the time that is left, so that time
may pass for ever without a bound: `Tick` may happen at any point, also in the middle of a reload, and
`elapsed` is the time that `now` is old when `next_reconcile` is computed from it. `status` is history:
whether a backend holds the file's content. The environment changes lists (one event may name both),
raises events that change nothing, access events among them, changes a list by an event that does not name
it, ends the watcher thread, and signals. Lists also change when the thread has ended and nobody reports it.
An nftables reload reads one list, or all lists of its rules when there is no active generation
(`daemon.rs:311-313`): `ReadWith` has both, and the run, whose rules use one list, only one. The theorems
cover rules that use both.

### Policy

A configuration is a record of what decides where a list is enforced; the checks of single numbers and
names are one flag. A zones document is a sequence of entries, since its validation is about duplicates.
`Load` is `Config::load` with `validate`, `NewDaemon` and the steps after it are `Daemon::new`, in the order
of the code, with the zones file and the flowtables changing in between; `PrintRules` is `--check`, with the
resolution of the XDP interfaces that follows the rules and may fail. A packet is
its chain, its interfaces and the lists that contain its source and its destination. Properties compare
the rules, as nftables evaluates them (`Drops`), with the mappings, read as the documentation reads them
(`Covers`), over all packets.

### Blocklist and Prefixes

`stream_chunks` is a machine with one step per line of the list; `interval_prefixes` is a recursive function
over both branches of the code. Both work on small address spaces and are compared with reference
definitions: the addresses and the order of the networks read, and `Minimal` (the maximal prefixes inside
an interval) for every interval a list hands on. `after_last = None` is the number one past the last
address. `chunk`, `boundaries` and `chunks` are `chunk`, `chunk_boundaries` and what was emitted; an `Out`
record is the three on their way through `flush_pending`. `read` and `chunks` are history. Properties are
about the sets of intervals in them (`Produced`, `Complete`) and about the set elements a chunk really adds
(`BoundariesOf`), which the code never computes. Backend errors inside `emit` are in `NftDaemon` and `Xdp`.

## Runs

All runs set `CHECK_DEADLOCK FALSE`: with its last start spent, a daemon that is down stays down, a list
that is read is done.

| run | shows | bounds, and why they suffice |
|---|---|---|
| `nft_faults` | complete lists, protection, forward-only, starts over an enforcing table, and `EInv`, the invariant of the proofs | two starts, one kill, one unacknowledged transaction, one interference, one extra event, cleanup at exit, no element counts; a refused transaction is in `nft_quiet`; each file may change once; lists with two chunks and with a malformed line; five generation numbers, so that the counter runs out; a restart may drop the outbound list |
| `nft_quiet` | refinement of `AtomicList` in each direction, events served, tracking, no leaks, one direction at a time in the loop, foreign tables untouched, and `HInv` | any directions at each start; a whole list of two chunks, one with a malformed line, a missing file; one refused transaction, one kill, one extra event; eight generation numbers. No lost answer and no interference: those are the premises of the theorem, and `nft_faults` has both |
| `nft_live` | `EventApplied`, `Recovers` | each file changes once, one unacknowledged transaction, one interference of any kind, two directions; eleven generation numbers |
| `xdp` | refinement of `AtomicList`, exact staging, verdicts, links, events, and `IInv` | two starts, each with one of two sets of interfaces, one kill, one refused call, one `--cleanup xdp`, cleanup at exit; one interface may vanish and return; three versions of the file, so that one changes while another is staged; capacity of one entry per trie; packets from the one address that every acceptable list has |
| `policy` | what is accepted, and what the rules then do | every single mapping over seven sets of zone names, alone or with an outbound forward mapping, six sets of XDP rules; seven zone documents, one for each reason of a refusal; two interfaces; one change of the zones file or of a flowtable at any point |
| `watcher` | nothing is forgotten, nobody starves | two lists, one for both backends and one that no rule references; a channel of two events, deadlines and interval of one tick: an event always finds a deadline that has not passed, has just passed, or is absent |
| `list_stream` | `Blocklist` and `Prefixes` against their references | every list of four lines over eight addresses of each family; limits 1, 3 and 4: one that a single interval exceeds, one that makes room before an interval and one that fills exactly; every interval such lists contain, the whole space among them |

A second fault of the same kind adds repetitions of a situation already reached, since a fault's trace in
the daemon's state is gone once the operation has returned; two starts are needed to take over what an
earlier process left. The bounds are the constants `Budget`,
`MaxVer`, `MaxGen`, `MaxLines`, `Width`, `MaxQueue` and `MaxRewrites`. `xdp` has no missing file (its effect is
that of a refused first key); `nft_quiet` has one. The code's channel
is unbounded (`daemon.rs:390`). In `Watcher` a full one delays the environment: a list that changes while two
events wait in the channel does not occur, and access events of the daemon's own reads, which it ignores, are
left out then. In `nft_live` a file changes once; a change during its own reload is met by `EventsServed`
in `nft_quiet` (as safety) and by `NoLostUpdate`.

### Disagreements between code and documents

The runs of kind "violation" each check one statement of the repository that the code does not keep; the
findings in `PROJECT.json` quote them.

| run | statement | what happens |
|---|---|---|
| `nft_stuck` | `daemon.rs:511-517` an absent table is repopulated | with `active = None` the layout is not looked at: a table deleted again is never recreated |
| `nft_missed` | `README.md:3` watches the files and enforces them | a change between the initial read and the watcher is never seen |
| `xdp_race` | `README.md:8-11` atomic activation | a packet that read the selector before the switch looks into an emptied slot |
| `xdp_marker_first` | `README.md:9-10` only complete slots are selected | `remove_map_pins` removes the marker first; a restart after a partial cleanup selects leftovers |
| `xdp_returned` | `README.md:3-6` XDP rules drop at ingress | an interface that is removed and created again has a new index; reconciliations go on for ever, succeed, and none attaches to it |

Other statements are narrower in the code than in the document, and the passing properties say what does
hold:

* `README.md:107-109` preserves an existing table when a startup fails. With `cleanup_on_exit` it is deleted:
  `nft_started` is set before the initial replacement (`daemon.rs:119`), and the cleanup at `daemon.rs:88` runs
  whether or not an error is returned. `README.md:111-112` can be read as saying so ("SIGINT/SIGTERM or
  another orderly return"), and the two passages contradict each other. `StartupAllOrNothing` excepts exactly
  this deletion, which occurs in `nft_faults`, and forbids every other change to what the table enforces but
  the switch of all directions at once.
* `daemon.rs:525` and `README.md:101-103` leave a table without the layout marker alone. Only the start and the
  reconciliation look at the marker: a file event stages sets into a table that has lost it while the
  daemon watches (`daemon.rs:318`). `UnversionedUntouched` is about tables that never had it.
* `README.md:57-60` refuses overlapping XDP and nftables rules. `validate` does, but `Daemon::new` reads the
  zones file again (`daemon.rs:40`) and does not look for overlaps: `NoDoubleEnforcement` excepts a file that
  changed in between.
* `README.md:33-34` makes the interfaces of a mapping's zones alternatives. A mapping whose zones have no
  interface at all (`LOCAL`) is not about no packet but about every packet of its chain (`rules.rs:26-35`);
  next to other zones such a zone adds nothing. `Covers` takes this over, and `RulesMatchMappings` says so.
* `README.md:96-98` keeps two generations for one direction at a time. An initial replacement
  (`daemon.rs:190`, `223`) stages both directions before either is activated, so a restart on an existing
  table holds two generations of both. `OneDirectionWhileWatching` is about the event loop.
* `README.md:94` bounds the elements of a population. An interval enters an empty chunk whatever its size
  (`blocklist.rs:157-163`), so a bound of one admits an interval of two (`list_stream` has that bound).
  `ChunksFit` says: within the limit, or a single interval.

## Fairness

`NftDaemon!Fairness` is weak fairness of `Busy` (a call that was begun is carried on; netlink answers) and
strong fairness of `Reload(d)` and `Reconcile`: the loop of `daemon.rs:415-456` wakes at least every 100 ms,
handles every due event and, when it is time, a reconciliation, so neither can be put off for ever by the
other, although each is disabled while the other runs.
Nothing is assumed of the environment, of signals or of starts. `EventApplied` and `Recovers` excuse
states in which the generation counter is nearly used up (`Headroom`): the bound of the model is within
reach, the code's is not.

`Watcher!Fairness` is weak fairness of the whole loop, since `recv_timeout` returns within 100 ms and a
reload ends, and weak fairness of `Tick`, since time passes. Nothing is assumed about which step of the
loop is taken (there is never a choice but between due lists) and nothing about the environment. From this
follows what `NftDaemon` takes for granted: the reconciliation takes place again and again
(`ReconcilesForever`), and so does the reload of a list whose own events cease (`ServedWhenQuiet`). A list that
is written more often than `debounce_ms` is never reloaded: `SF_vars(Reload(d))` assumes such writers away.

`Xdp!Fairness` is the same for the XDP manager and serves `ReturnedIsProtected` alone, which `xdp_returned`
refutes by a behaviour in which the loop waits and reconciles for ever without an error. Serving events is a
safety property there: `EventsServed` says that the loop never rests with an unserved event.

## Proofs

Every safety invariant, every action property and both refinements that a passing run checks are
theorems, for every value of the constants. `VerdictOfEnforcedList` and
the refinement of `AtomicList` by `Xdp` are proved for behaviours in which no cleanup of pinned maps is cut
short, which is what the run `xdp` allows, too; the refinement by the table for behaviours without
interference and without a lost answer, which is what `nft_quiet` allows.

| module | theorem | states |
|---|---|---|
| `NftProofs` | `TypeCorrect` | `Spec => []TypeOK` |
| | `SafetyInvariantHolds`, `OnlyCompleteListsEnforced` | `[]IInv`; `[]EnforcedComplete`: a generation the rules look up holds one whole well-formed list of its own direction, or another program wrote to its sets |
| `NftEnforcementProofs` | `InvariantHolds` | `[]EInv` |
| | `WatchedMeansProtected`, `TrackingIsTruthful` | `[]ProtectedWhileWatching`, `[]TrackedIsEnforced` |
| | `NothingLeaks`, `SequentialReplacement` | `[]NoLeakAtRest`, `[]OneDirectionWhileWatching` |
| | `NeverBackwards`, `ForeignTableUntouched`, `StartupIsAtomic` | `ForwardOnly`, `UnversionedUntouched`, `StartupAllOrNothing`: what a step may never do |
| `NftHistoryProofs` | `HistoryHolds`, `EventsAreServed` | `HSpec => []HInv`, `HSpec => []EventsServed` |
| | `ImplementsAtomicLists` | `HSpec /\ []Unspent("tamper") /\ []Unspent("unacked") => AtomicLists` |
| `XdpProofs` | `InvariantHolds`, `TypeCorrect` | `[]IInv`, `[]TypeOK` |
| | `StagingIsExact`, `LinksMatchConfig`, `EventsAreServed` | `[]StageExact`, `[]AttachedWhileWatching`, `[]EventsServed` |
| | `VerdictsFollowList`, `SelectedSlotComplete` | `VerdictOfEnforcedList` and `ActiveSlotComplete`, as long as no cleanup is cut short |
| | `ConfiguredLinksKept` | `LinkKept` |
| | `ImplementsAtomicList` | `Spec /\ []Unspent("partial") => AbstractSpec` |
| `BlocklistProofs` | `InvariantHolds`, `TypeCorrect` | `[]IInv`, `[]TypeOK` |
| | `NonCanonicalRejected`, `ListCovered`, `IntervalsCounted`, `ChunksWithinLimit` | `[]RejectsNonCanonical`, `[]CoversList`, `[]IntervalsSeparate`, `[]ChunksFit` |
| | `IntervalsAreProper`, `PrefixesAlwaysMinimal` | `[]IntervalsProper`, `[]PrefixesMinimal` |
| `PrefixesProofs` | `PrefixesAreMinimal` | `IntervalPrefixes` is `Minimal`, for every interval and width, in both branches |
| | `MinimalIsExact`, `MinimalIsFewest` | the maximal prefixes cover exactly the interval, none overlap, and no other decomposition has fewer |
| `PolicyProofs` | `TypeCorrect`, `RulesAreMappings`, `EnforcedOnce`, `FlowtablesExcluded`, `EveryListHasFile` | `[]TypeOK`, `[]RulesMatchMappings`, `[]NoDoubleEnforcement`, `[]NoFlowtableBypass`, `[]EnforcedHasFile` |
| `WatcherProofs` | `TypeCorrect`, `ChangesRemembered` | `[]TypeOK`, `[]NoLostUpdate` |

Assumptions: `TableAssumption`, `DaemonAssumption`, `NoneAssumption`, `XdpAssumption`,
`BlocklistAssumption`, `PolicyAssumption`, `WatcherAssumption`. They say that constants are of their kinds,
that `None` is no generation, packet, interval, interface, document or number, and, for `Xdp`, that there are
finitely many addresses (a trie counts its entries). Nothing is assumed of budgets: any number of
faults, kills and interferences may happen. Premises like `Unspent("tamper")` are part of the properties,
and end only with the first event of that kind.

### The table and the daemon

`EnforcedComplete` is not inductive: that the activation installs a complete generation rests on what was
checked earlier. `NftProperties!IInv` adds: the work variables fit the step (`WorkOK`); sets that do not
exist are empty (`SetsOK`); once the layout was read the next number is larger than every existing one
(`NumbersFresh`, which makes a new stage start empty although creation is not exclusive); the stage holds
exactly the chunks sent and nothing refers to it (`StageOK`, so that a malformed list or a late chunk never
reaches an enforced generation); what is tracked or about to be activated is complete (`TrackedOK`).

`EInv` adds what the properties about enforcement need, and each part has its own reason:

* `PlanOK`: an initial replacement covers exactly the used directions before it activates, a sequential one
  changes one direction of what is tracked. Without it an activation could leave a direction unprotected.
* `TableOK`: a table nobody else touches has the layout marker from the bootstrap on, every used direction
  has a lookup as soon as something is tracked, and the lookups are the tracked ones unless an answer was
  lost. This is `TrackedIsEnforced` and `ProtectedWhileWatching` for every step instead of the waiting loop.
* `VersionsOK`: what is staged was read from the file after the generation that it replaces, so that moving
  the lookups to it, or a repair that moves them back to what is tracked, never meets an older list.
  `ForwardOnly` is the step that this allows.
* `SetsTidy`: in the undisturbed loop only the tracked generations and the one being worked on exist, and
  that one is not referenced while it is verified: a refused activation can delete it.

`StartupIsAtomic` needs one more fact besides `EInv`: until the watcher is installed the replacement is an
initial one, and after its activation only cleanup and the exit follow (`StartOK`). Then a stage is not
referenced (`StageOK`), the kernel refuses to delete what is looked up, and the one activation covers
exactly the used directions (`PlanOK`).

Both proofs have one lemma per group of actions, each listing the conjuncts the action disturbs. TLC
checks `EInv`, of which `IInv` is the first conjunct, in `nft_faults`, and `HInv`, which contains both, in
`nft_quiet`.

`HInv` adds what the properties about histories need:

* `HistoryOK`: every generation was staged from an entry of its file's history, at the place of its version.
  That a generation holds a whole list (`EInv`) and that the list was once in the file are then one fact.
* `Untouched`: undisturbed sets hold nothing foreign, so that what they block is the list and no more.
* `ServedOK`: an acceptable list whose events were consumed is enforced, or is what the replacement under way
  is staging (`OnItsWay`). A change while it is staged raises an event, which takes the list out of `Heard`.

The refinement has one lemma that says what a step commits (`Moves`: at most one transaction, each
with what the daemon knows when it sends it) and then one case for each: creating, filling and deleting sets
is not seen, since no rule looks up those sets (the preconditions come from `EInv`); a replacement of the
rules adopts a complete list in the directions it installs and withdraws the others; a repair changes
nothing that is seen; deleting the table withdraws both. The premises are needed. Another program may fill the
enforced sets with anything. After an activation whose answer was lost the daemon still tracks the
old generation, and the next reconciliation's `repair_rules` (`daemon.rs:530-531`) goes back to it: the code
does enforce the older list again then, until the file changes. `ForwardOnly` has the same premise.

`EventsServed` excuses a daemon that was disturbed (an error is logged and the event is gone,
`daemon.rs:437`) and one whose generation numbers are used up. Nothing else is excused: kills,
changes during the reload, a malformed list in the other direction, and reconciliations in between all occur.

### XDP

`XdpProperties!IInv` is the conjunction of what each phase of the manager has established: `LinksOK` (links
are the desired ones after the reconciliation, a part of them before), `MapsOK` (a recognised layout means
that all maps are pinned; a map that is gone is empty), `StageOK` (the staged part belongs to the list
being read and fits), `EventsOK` (an event taken from the queue is served by this very reload) and `SlotsOK`
(the selected slot holds the enforced list). `SlotsOK` has the premise that no cleanup was cut short:
`remove_map_pins` takes the layout marker first, so a start after such a cleanup initialises a selector over
tries that are not empty. `xdp_marker_first` shows the consequence, and `SelectedSlotComplete` says
that this is the only way to it.

The refinement follows: with `blocked` mapped to the selected slot, only three actions are seen (the file
changes, the selector moves, the control map goes), and the lemma `InactiveUnseen` covers all
writes to the other slot, one key at a time. Insertion and clearing are steps of
their own, so the theorem includes a kill between any two keys.

### Block lists

`Blocklist!IInv` says why it is enough to compare a line with the pending interval and to count elements.
`PendingEndsWithLastLine` ties the pending interval to the last line, and the order of networks is transitive:
the last line decides what may follow (`LastDecides`). `CompleteIsBehind` (everything complete lies before
the pending interval and does not touch it) makes intervals separate and the statistics count each once
(`CountsComplete`). `ChunkIsCounted` says that `boundaries` is an upper bound of the elements a chunk adds, which
`flush_pending` keeps by `EmitKeeps`, `AddKeeps` and `PushKeeps`. That `TypeOK` ties the pending family to
`seenIpv6` is why the two `unreachable!()` arms of `stream_chunks` are.

`PrefixesAlwaysMinimal` joins two proofs. `IntervalsProper` (no interval is empty or leaves the address
space) makes `end - start + 1` the number of addresses left in both branches: the IPv6 branch wraps only for
the whole space, which it treats on its own. `PrefixesAreMinimal` is about the loop. The library's
induction theorems take operators, so `NatSetInduction` takes a set: a set of numbers with 0 and every
successor is `Nat`, by the well-foundedness of `<`. With it `Pow2`, a recursive function since the prover knows
nothing of `^`, is shown to satisfy its own equation. Two prefixes are nested or apart (`Nested`, `Apart`),
hence the largest prefix at the first address is maximal in the interval, and the maximal prefixes
behind it are those of the rest (`FirstAndRest`): `Minimal` satisfies the equation of the loop, and an induction
over the distance to the end shows that nothing else does. `MinimalIsFewest` maps each maximal prefix to
a member of the other decomposition that covers its first address; the map is injective because
that member lies inside the maximal prefix.

### Policy and event loop

The policy theorems rest on an invariant that says what each step of the start has established: after
`NewDaemon` the rules are those of the zones it read and every mapping resolved in them; after the
flowtable check no protected interface was in a flowtable, or one changed since; what was validated holds
of the same zones, unless the file changed. The step from rules to packets is a lemma about `Rendered`.
That a forward rule has two interfaces, without which an unconstrained one would escape the flowtable
check, follows from the refusal of `LOCAL` zones and the non-empty interfaces of all others.

`NoLostUpdate` is inductive together with the types and with `JobOK` (turns exist only while a reload is under
way): a change appends an event while the watcher thread lives (its premise: `watch` fails
once the thread has ended), `Receive` turns an event into a deadline, `BeginReload` a deadline into turns of
the backends that use the list, and `Serve` is the only step that ends a turn.

### Only model-checked

* `EventApplied`, `Recovers`, `ServedWhenQuiet`, `ReconcilesForever`, `StopsPromptly` and `Quiescent`: liveness
  under fairness needs `ENABLED`, which the prover does not handle.
* The histories of the XDP half and the event loop as one: that a reload of the table answers exactly the turn
  `Watcher` gave it is an argument between modules (see Modules), not a theorem. `ServedWhenQuiet` and
  `EventsServed` are its two sides.

## Not modelled

`netlink/ffi.rs` (wrappers that encode messages and own memory; what a batch does is `NftTable`), packet header
parsing, attach modes, the grammar of configuration files, logging, containers and the build. A
file is replaced at once: a writer that changes a file in place while it is read is outside the models.
The size of sets, memory and time appear only as counts.
