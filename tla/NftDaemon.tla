----------------------------- MODULE NftDaemon -----------------------------
(***************************************************************************)
(* The daemon of src/src/daemon.rs driving the nftables backend: process   *)
(* start, initial load, staging, health check, activation, cleanup of      *)
(* obsolete generations, file events, periodic reconciliation, shutdown    *)
(* and crash, against a kernel table that other programs may change.       *)
(*                                                                         *)
(* The daemon is one thread.  Every netlink transaction or dump is a step  *)
(* of its own, because other actors run between two of them.  Backend      *)
(* traffic of the XDP half is not part of this module.                     *)
(***************************************************************************)
EXTENDS NftTable, Sequences, FiniteSets

CONSTANTS
    Configs,                \* sets of directions a configuration may use
    KernelCounts,           \* the kernel reports element counts of sets
    CleanupOnExit,          \* nftables.cleanup_on_exit
    AllowFlowtableBypass,   \* nftables.allow_flowtable_bypass
    Budget                  \* bound: how often each kind of adverse event happens

\* start:   the daemon is started             crash: it is killed
\* reject:  a transaction or dump fails       unacked: it commits, the ACK is lost
\* tamper:  another program changes the table or adds a flowtable
\* event:   a file event without a new content
Kinds == {"start", "crash", "reject", "unacked", "tamper", "event"}

ASSUME DaemonAssumption ==
    /\ Configs \subseteq (SUBSET Directions) \ {{}}
    /\ KernelCounts \in BOOLEAN
    /\ CleanupOnExit \in BOOLEAN
    /\ AllowFlowtableBypass \in BOOLEAN
    /\ Budget \in [Kinds -> Nat]

VARIABLES
    file,       \* file[d]: the block list file of direction d
    flowtable,  \* a flowtable contains a protected interface
    budget,     \* adverse events left
    inherited,  \* history: the table predates this process, which has not yet loaded
    pc,         \* the daemon's next step
    used,       \* directions the configuration uses
    next,       \* next_generation of the backend
    active,     \* Daemon::active; its None is NoTracked
    watching,   \* the file watcher is installed
    pending,    \* directions with a file event queued or being debounced
    todo,       \* directions still to be staged by this replacement
    stage,      \* the stage being populated: list, generation, chunks sent
    candidate,  \* what the replacement is going to activate
    junk        \* generations still to be discarded after a failure

process == <<used, inherited>>
work == <<todo, stage, candidate, junk>>
daemon == <<pc, next, active, watching, pending, work, process>>
environment == <<file, flowtable>>
vars == <<kernel, environment, budget, daemon>>

Tracked == [gen : Gens, count : Nat]
NoTracked == [d \in Directions |-> None]
ASSUME NoneAssumption == None \notin Tracked /\ None \notin Gens

Stages == [gen : Gens, list : Lists, sent : Nat]

\* Inbound comes first wherever the code iterates over directions.
InOrder(D) == (IF "in" \in D THEN <<"in">> ELSE <<>>) \o
              (IF "out" \in D THEN <<"out">> ELSE <<>>)

Covered(tracked) == {d \in Directions : tracked[d] # None}

GenOf(tracked) ==
    [d \in Directions |-> IF tracked[d] = None THEN None ELSE tracked[d].gen]

\* ActiveGenerations::iter
Iter(tracked) ==
    (IF tracked["in"] # None THEN <<tracked["in"].gen>> ELSE <<>>) \o
    (IF tracked["out"] # None THEN <<tracked["out"].gen>> ELSE <<>>)

Spend(kind) ==
    /\ budget[kind] > 0
    /\ budget' = [budget EXCEPT ![kind] = @ - 1]

\* One netlink batch: committed and acknowledged, refused by the kernel, failed
\* for another reason, or committed with the acknowledgement lost.
Transaction(can, commit, ok, err) ==
    \/ can /\ commit /\ ok /\ UNCHANGED budget
    \/ ~can /\ UNCHANGED kernel /\ err /\ UNCHANGED budget
    \/ Spend("reject") /\ UNCHANGED kernel /\ err
    \/ can /\ Spend("unacked") /\ commit /\ err

\* A dump of kernel state: its answer is used, or it fails.
Dump(answer, err) ==
    \/ answer /\ UNCHANGED budget
    \/ Spend("reject") /\ err

\* The locals of replace_both and reload_nft_for go out of scope.
Leave(to) ==
    /\ pc' = to
    /\ todo' = <<>>
    /\ stage' = None
    /\ candidate' = NoTracked
    /\ junk' = <<>>

\* A replacement reports success to its caller, an error to the event loop
\* (which logs it) or to start, which leaves the process through its cleanup.
MutFail == Leave(IF watching THEN "watch" ELSE "install")

Succeed == Leave(IF watching THEN "watch" ELSE "install")
Fail == Leave(IF watching THEN "watch" ELSE "exit")

MutDiscarding(gens) == Fail

\* What was staged is deleted again before the error is returned.
Discarding(gens) ==
    /\ pc' = "discard"
    /\ junk' = gens
    /\ todo' = <<>>
    /\ stage' = None
    /\ candidate' = NoTracked

\* replace_both without an active generation replaces everything at once,
\* otherwise one direction after the other.
Replace(directions) ==
    /\ pc' = "begin"
    /\ todo' = directions
    /\ stage' = None
    /\ candidate' = NoTracked
    /\ junk' = <<>>

Initial == active = NoTracked

MutLayout == IF table = "foreign" THEN "current" ELSE table
MutDamaged(tracked) == {d \in Covered(tracked) : tracked[d].gen \notin sets}

\* Backend::layout_status.  The code dumps the names of the tables and then the
\* sets of the table, here one step: a table deleted between the two dumps,
\* which the code takes for a foreign one, is left out.
Layout == table

\* Backend::health as the set of damaged directions; a table without the marker
\* is damaged as a whole.
Damaged(tracked) ==
    IF Layout # "current" THEN Directions
    ELSE {d \in Covered(tracked) :
            \/ tracked[d].gen \notin sets
            \/ KernelCounts /\ Cardinality(elems[tracked[d].gen]) # tracked[d].count}

-----------------------------------------------------------------------------
(* Process start: Daemon::new and initial_load.                            *)

Start ==
    /\ pc = "down"
    /\ Spend("start")
    /\ \E u \in Configs : used' = u
    /\ inherited' = (table # "absent")
    /\ pc' = "flow"
    /\ UNCHANGED <<kernel, environment, next, active, watching, pending, work>>

\* An error before any table was touched ends the process at once.
Abort ==
    /\ pc' = "down"
    /\ next' = 1
    /\ used' = {}
    /\ inherited' = FALSE

FlowtableConflict == flowtable /\ ~AllowFlowtableBypass

CheckFlowtables ==
    /\ pc = "flow"
    /\ Dump(IF FlowtableConflict THEN Abort ELSE pc' = "layout" /\ UNCHANGED <<process, next>>,
            Abort)
    /\ UNCHANGED <<kernel, environment, active, watching, pending, work>>

MutObserve == UNCHANGED next

\* observe_generations: later generations get larger numbers than those present.
Observe ==
    /\ next' \in next..MaxGen
    /\ \A g \in sets : g[2] < next'
    /\ next' # next => \E g \in sets : next' = g[2] + 1

CheckLayout ==
    /\ pc = "layout"
    /\ \/ /\ UNCHANGED <<budget, process>>
          /\ \/ /\ Layout = "absent"
                /\ pc' = "bootstrap"
                /\ UNCHANGED <<next, work>>
             \/ /\ Layout = "current"
                /\ Observe
                /\ Replace(InOrder(used))
       \/ /\ Layout = "foreign"
          /\ Abort
          /\ UNCHANGED <<budget, work>>
       \/ /\ Spend("reject")
          /\ Abort
          /\ UNCHANGED work
    /\ UNCHANGED <<kernel, environment, active, watching, pending>>

Bootstrap ==
    /\ pc = "bootstrap"
    /\ Transaction(TRUE, AddTable,
                   Replace(InOrder(used)) /\ UNCHANGED <<next, process>>,
                   Abort /\ UNCHANGED work)
    /\ UNCHANGED <<environment, active, watching, pending>>

-----------------------------------------------------------------------------
(* Replacing generations: stage, replace_both and reload_nft_for.          *)

StageFailed(gens) ==
    IF gens = <<>> THEN Fail ELSE Discarding(gens)

MutExhausted == next > MaxGen

\* The generation after this one must exist.
Exhausted == next = MaxGen

\* The file is opened before the backend hands out a generation.  The counter
\* moves on whatever becomes of the transaction.
BeginStage ==
    /\ pc = "begin"
    /\ LET d == Head(todo)
           list == file[d]
           g == <<d, next>>
       IN IF list.shape \in Missing \/ Exhausted
          THEN /\ StageFailed(Iter(candidate))
               /\ UNCHANGED <<kernel, budget, next>>
          ELSE /\ next' = next + 1
               /\ Transaction(CanAddSets, AddSets(g, list),
                    /\ pc' = "populate"
                    /\ stage' = [gen |-> g, list |-> list, sent |-> 0]
                    /\ UNCHANGED <<todo, candidate, junk>>,
                    StageFailed(Iter(candidate)))
    /\ UNCHANGED <<environment, active, watching, pending, process>>

\* stream_chunks hands the next chunk to the backend.
Populate ==
    /\ pc = "populate"
    /\ stage.sent < Chunks[stage.list.shape]
    /\ LET item == <<stage.list.ver, stage.sent + 1>>
       IN Transaction(CanAddItems(stage.gen), AddItems(stage.gen, {item}),
            /\ stage' = [stage EXCEPT !.sent = @ + 1]
            /\ UNCHANGED <<pc, todo, candidate, junk>>,
            Discarding(<<stage.gen>> \o Iter(candidate)))
    /\ UNCHANGED <<environment, next, active, watching, pending, process>>

MutStreamFails(list) == FALSE

\* stream_chunks meets a line it cannot parse.
StreamFails(list) == list.shape \in Malformed

\* The stream ends: a malformed line rejects the stage, otherwise it becomes
\* the candidate of its direction.  Only an initial replacement goes on to
\* stage the other direction before anything is verified.
EndOfStream ==
    /\ pc = "populate"
    /\ stage.sent = Chunks[stage.list.shape]
    /\ LET d == Head(todo)
           tracked == [gen |-> stage.gen, count |-> stage.sent]
       IN IF StreamFails(stage.list)
          THEN Discarding(<<stage.gen>> \o Iter(candidate))
          ELSE /\ IF Initial
                  THEN /\ candidate' = [candidate EXCEPT ![d] = tracked]
                       /\ todo' = Tail(todo)
                       /\ pc' = IF Tail(todo) = <<>> THEN "verify" ELSE "begin"
                  ELSE /\ candidate' = [active EXCEPT ![d] = tracked]
                       /\ pc' = "verify"
                       /\ UNCHANGED todo
               /\ stage' = None
               /\ UNCHANGED junk
    /\ UNCHANGED <<kernel, environment, budget, next, active, watching, pending, process>>

\* What this replacement has staged and nobody uses yet.
Fresh == IF Initial THEN Iter(candidate) ELSE <<candidate[Head(todo)].gen>>

\* An initial candidate must be healthy, a single direction's only where it
\* was replaced.
VerifyCandidate ==
    /\ pc = "verify"
    /\ LET healthy == IF Initial THEN Damaged(candidate) = {}
                      ELSE Head(todo) \notin Damaged(candidate)
       IN Dump(IF healthy THEN pc' = "activate" /\ UNCHANGED work ELSE Discarding(Fresh),
               Discarding(Fresh))
    /\ UNCHANGED <<kernel, environment, next, active, watching, pending, process>>

MutActivated ==
    /\ active' = IF Initial THEN candidate ELSE active
    /\ pc' = "cleanup"
    /\ UNCHANGED work

Activated ==
    /\ active' = candidate
    /\ pc' = "cleanup"
    /\ UNCHANGED work

MutNotActivated == Discarding(Fresh) /\ active' = candidate

NotActivated == Discarding(Fresh) /\ UNCHANGED active

ActivateInitial ==
    /\ pc = "activate"
    /\ Initial
    /\ Transaction(CanReplaceRules(GenOf(candidate)), ReplaceRules(GenOf(candidate)),
                   Activated, NotActivated)
    /\ UNCHANGED <<environment, next, watching, pending, process>>

ActivateDirection ==
    /\ pc = "activate"
    /\ ~Initial
    /\ LET d == Head(todo) IN
       Transaction(CanReplaceDispatch(candidate[d].gen),
                   ReplaceDispatch(d, candidate[d].gen),
                   Activated, NotActivated)
    /\ UNCHANGED <<environment, next, watching, pending, process>>

MutObsolete == {}

Obsolete == sets \ {active[d].gen : d \in Covered(active)}

\* Every generation that is not active goes, in one batch; a failure is only
\* logged.  A sequential replacement then turns to its next direction; the
\* health check after its last one only decides what is logged.
CleanupObsolete ==
    /\ pc = "cleanup"
    /\ LET proceed == IF Len(todo) > 1 THEN Replace(Tail(todo)) ELSE Succeed
       IN Transaction(CanDeleteSets(Obsolete), DeleteSets(Obsolete), proceed, proceed)
    /\ UNCHANGED <<environment, next, active, watching, pending, process>>

\* Each rejected stage is deleted on its own; failures are only logged.
Discard ==
    /\ pc = "discard"
    /\ LET g == Head(junk)
           proceed == IF Len(junk) > 1
                      THEN junk' = Tail(junk) /\ UNCHANGED <<pc, todo, stage, candidate>>
                      ELSE Fail
       IN Transaction(CanDeleteSets({g}), DeleteSets({g}), proceed, proceed)
    /\ UNCHANGED <<environment, next, active, watching, pending, process>>

-----------------------------------------------------------------------------
(* The event loop: watch, reload_backends, reconcile.                      *)

\* Only now do file changes become events.
InstallWatcher ==
    /\ pc = "install"
    /\ \/ /\ pc' = "watch"
          /\ watching' = TRUE
          /\ UNCHANGED budget
       \/ /\ Spend("reject")
          /\ pc' = "exit"
          /\ UNCHANGED watching
    /\ inherited' = FALSE
    /\ UNCHANGED <<kernel, environment, next, active, pending, work, used>>

MutConsumed(d) == {}

Consumed(d) == pending \ {d}

\* The event is consumed before the reload it causes.
Reload(d) ==
    /\ pc = "watch"
    /\ d \in pending
    /\ pending' = Consumed(d)
    /\ Replace(IF Initial THEN InOrder(used) ELSE <<d>>)
    /\ UNCHANGED <<kernel, environment, budget, next, active, watching, process>>

\* Without an active generation the layout is not looked at.
Reconcile ==
    /\ pc = "watch"
    /\ IF FlowtableConflict
       THEN UNCHANGED <<pc, work>> /\ UNCHANGED budget
       ELSE Dump(IF Initial THEN Replace(InOrder(used))
                 ELSE pc' = "rec_layout" /\ UNCHANGED work,
                 UNCHANGED <<pc, work>>)
    /\ UNCHANGED <<kernel, environment, next, active, watching, pending, process>>

ReconcileLayout ==
    /\ pc = "rec_layout"
    /\ Dump(\/ Layout = "absent" /\ pc' = "rec_bootstrap" /\ UNCHANGED next
            \/ Layout = "foreign" /\ pc' = "watch" /\ Observe
            \/ Layout = "current" /\ pc' = "rec_health" /\ Observe,
            pc' = "watch" /\ UNCHANGED next)
    /\ UNCHANGED <<kernel, environment, active, watching, pending, work, process>>

ReconcileBootstrap ==
    /\ pc = "rec_bootstrap"
    /\ Transaction(TRUE, AddTable,
                   active' = NoTracked /\ Replace(InOrder(used)),
                   pc' = "watch" /\ UNCHANGED <<active, work>>)
    /\ UNCHANGED <<environment, next, watching, pending, process>>

ReconcileHealth ==
    /\ pc = "rec_health"
    /\ LET damaged == Damaged(active)
       IN Dump(IF damaged = {} THEN pc' = "repair" /\ UNCHANGED work
               ELSE Replace(InOrder(damaged \cap used)),
               pc' = "watch" /\ UNCHANGED work)
    /\ UNCHANGED <<kernel, environment, next, active, watching, pending, process>>

RepairRules ==
    /\ pc = "repair"
    /\ pc' = "watch"
    /\ Transaction(CanReplaceRules(GenOf(active)), ReplaceRules(GenOf(active)), TRUE, TRUE)
    /\ UNCHANGED <<environment, next, active, watching, pending, work, process>>

\* SIGINT or SIGTERM, or the watcher thread ends.
Stop ==
    /\ pc = "watch"
    /\ pc' = "exit"
    /\ watching' = FALSE
    /\ pending' = {}
    /\ UNCHANGED <<kernel, environment, budget, next, active, work, process>>

-----------------------------------------------------------------------------
(* Process end: the second half of start, and Backend::cleanup.            *)

CleansUp == CleanupOnExit /\ Layout = "current"

Down ==
    /\ pc' = "down"
    /\ next' = 1
    /\ active' = NoTracked
    /\ used' = {}
    /\ inherited' = FALSE
    /\ watching' = FALSE
    /\ pending' = {}

Exit ==
    /\ pc = "exit"
    /\ Dump(IF CleansUp
            THEN pc' = "exit_delete" /\ UNCHANGED <<next, active, process, watching, pending>>
            ELSE Down,
            Down)
    /\ UNCHANGED <<kernel, environment, work>>

DeleteTable ==
    /\ pc = "exit_delete"
    /\ Transaction(table # "absent", DropTable, Down, Down)
    /\ UNCHANGED <<environment, work>>

\* SIGKILL, power of the process lost, or a signal before its handler is set.
Crash ==
    /\ pc # "down"
    /\ Spend("crash")
    /\ Down
    /\ todo' = <<>>
    /\ stage' = None
    /\ candidate' = NoTracked
    /\ junk' = <<>>
    /\ UNCHANGED <<kernel, environment>>

-----------------------------------------------------------------------------
(* The environment: file writers, and other users of nftables.             *)

\* The file is replaced; a watched and used one raises an event.
FileChange(d) ==
    /\ file[d].ver < MaxVer
    /\ \E s \in Shapes : file' = [file EXCEPT ![d] = [ver |-> @.ver + 1, shape |-> s]]
    /\ pending' = IF watching /\ d \in used THEN pending \cup {d} ELSE pending
    /\ UNCHANGED <<kernel, flowtable, budget, pc, next, active, watching, work, process>>

\* A duplicate or late event of a file.
FileEvent(d) ==
    /\ watching
    /\ d \in used \ pending
    /\ Spend("event")
    /\ pending' = pending \cup {d}
    /\ UNCHANGED <<kernel, environment, pc, next, active, watching, work, process>>

Tamper ==
    /\ Spend("tamper")
    /\ UNCHANGED <<file, daemon>>
    /\ \/ table # "absent" /\ DropTable /\ UNCHANGED flowtable
       \/ /\ table = "absent"
          /\ table' = "foreign"
          /\ UNCHANGED <<sets, elems, base, dispatch, source, flowtable>>
       \/ /\ table = "current"      \* the marker set is deleted
          /\ table' = "foreign"
          /\ UNCHANGED <<sets, elems, base, dispatch, source, flowtable>>
       \/ /\ base                   \* the rules are flushed
          /\ base' = FALSE
          /\ dispatch' = [d \in Directions |-> None]
          /\ UNCHANGED <<table, sets, elems, source, flowtable>>
       \/ \E g \in sets : AddItems(g, {Alien}) /\ UNCHANGED flowtable
       \/ \E g \in sets \ Referenced : DeleteSets({g}) /\ UNCHANGED flowtable
       \/ flowtable' = ~flowtable /\ UNCHANGED kernel

-----------------------------------------------------------------------------

Init ==
    /\ Absent \/ Foreign
    /\ file \in [Directions -> {[ver |-> 0, shape |-> s] : s \in Shapes}]
    /\ flowtable \in BOOLEAN
    /\ budget = Budget
    /\ pc = "down"
    /\ used = {}
    /\ inherited = FALSE
    /\ next = 1
    /\ active = NoTracked
    /\ watching = FALSE
    /\ pending = {}
    /\ todo = <<>>
    /\ stage = None
    /\ candidate = NoTracked
    /\ junk = <<>>

\* What the daemon does once a request, a timer or a signal made it busy.
Busy ==
    \/ CheckFlowtables \/ CheckLayout \/ Bootstrap
    \/ BeginStage \/ Populate \/ EndOfStream \/ VerifyCandidate
    \/ ActivateInitial \/ ActivateDirection \/ CleanupObsolete \/ Discard
    \/ InstallWatcher
    \/ ReconcileLayout \/ ReconcileBootstrap \/ ReconcileHealth \/ RepairRules
    \/ Exit \/ DeleteTable

Next ==
    \/ Start \/ Busy
    \/ Reconcile
    \/ \E d \in Directions : Reload(d)
    \/ Stop \/ Crash
    \/ \E d \in Directions : FileChange(d) \/ FileEvent(d)
    \/ Tamper

Spec == Init /\ [][Next]_vars

\* A busy daemon goes on, and a loop iteration that takes place serves every
\* due event and a due reconciliation.  Nothing forces the environment.
Fairness ==
    /\ WF_vars(Busy)
    /\ SF_vars(Reconcile)
    /\ \A d \in Directions : SF_vars(Reload(d))

FairSpec == Spec /\ Fairness
=============================================================================
