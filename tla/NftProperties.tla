---------------------------- MODULE NftProperties ----------------------------
(***************************************************************************)
(* What the daemon promises about the nftables table, stated over          *)
(* NftDaemon.                                                              *)
(***************************************************************************)
EXTENDS NftDaemon

Unspent(kind) == budget[kind] = Budget[kind]
Undisturbed == Unspent("tamper") /\ Unspent("reject") /\ Unspent("unacked")

Enforced(d) == base /\ dispatch[d] # None
EnforcedVersion(d) == source[dispatch[d]].ver

KernelTypeOK ==
    /\ table \in {"absent", "current", "foreign"}
    /\ sets \subseteq Gens
    /\ elems \in [Gens -> SUBSET ({Alien} \cup Nat \X Nat)]
    /\ base \in BOOLEAN
    /\ dispatch \in [Directions -> Gens \cup {None}]
    /\ source \in [Gens -> Lists \cup {None}]

DaemonTypeOK ==
    /\ file \in [Directions -> Lists]
    /\ flowtable \in BOOLEAN
    /\ budget \in [Kinds -> Nat]
    /\ used \subseteq Directions
    /\ inherited \in BOOLEAN
    /\ pc \in {"down", "flow", "layout", "bootstrap", "begin", "populate", "verify",
               "activate", "cleanup", "discard", "install", "watch", "rec_layout",
               "rec_bootstrap", "rec_health", "repair", "exit", "exit_delete"}
    /\ next \in 1..MaxGen
    /\ active \in [Directions -> Tracked \cup {None}]
    /\ watching \in BOOLEAN
    /\ pending \subseteq Directions
    /\ todo \in Seq(Directions)
    /\ stage \in Stages \cup {None}
    /\ candidate \in [Directions -> Tracked \cup {None}]
    /\ junk \in Seq(Gens)

\* The variables range over the values the code gives them.
TypeOK == KernelTypeOK /\ DaemonTypeOK

-----------------------------------------------------------------------------
(* Safety                                                                  *)

\* What follows until EnforcedComplete is the strengthening that makes these
\* invariants inductive.

\* The work variables fit the step that reads them.
WorkOK ==
    /\ pc = "down" <=> used = {}
    /\ pc \in {"down", "flow", "layout", "bootstrap"} =>
         active = NoTracked /\ pending = {} /\ ~watching
    /\ pending \subseteq used
    /\ todo # <<>> \/ candidate # NoTracked =>
         pc \in {"begin", "populate", "verify", "activate", "cleanup"}
    /\ Covered(active) \subseteq used
    /\ pc \in {"begin", "populate"} => todo # <<>>
    /\ pc = "populate" => stage \in Stages
    /\ pc \in {"verify", "activate"} =>
         IF Initial THEN Covered(candidate) # {}
         ELSE todo # <<>> /\ candidate[Head(todo)] # None
    /\ pc \in {"begin", "populate", "verify", "activate"} => Covered(candidate) \subseteq used
    /\ pc \in {"begin", "populate"} /\ ~Initial => candidate = NoTracked
    /\ \A i \in 1..Len(todo) : todo[i] \in used
    /\ pc = "discard" => junk # <<>>

\* A set that does not exist has no elements, an absent table no sets.
SetsOK ==
    /\ \A g \in Gens \ sets : elems[g] = {}
    /\ table = "absent" => sets = {}

\* Once the layout was read, the next number is larger than those in use.
NumbersFresh ==
    pc \notin {"down", "flow", "layout"} => \A g \in sets : g[2] < next

\* An untampered generation that exists is complete.
Intact(g) == g \in sets /\ Alien \notin elems[g] => Complete(g)

\* What the daemon tracks, or is about to, are complete generations of the
\* right direction whose numbers have been handed out.
TrackedOK(tracked) ==
    \A d \in Covered(tracked) :
        /\ tracked[d].gen[1] = d
        /\ tracked[d].gen[2] < next
        /\ Intact(tracked[d].gen)

\* The stage being populated holds exactly the chunks sent, and nothing refers
\* to it yet.
StageOK ==
    pc = "populate" =>
        /\ stage.gen[1] = Head(todo)
        /\ stage.gen[2] < next
        /\ stage.sent <= Chunks[stage.list.shape]
        /\ stage.list.shape \notin Missing
        /\ stage.gen \notin Referenced
        /\ \A d \in Covered(active) : active[d].gen # stage.gen
        /\ \A d \in Covered(candidate) : candidate[d].gen # stage.gen
        /\ stage.gen \in sets =>
             /\ source[stage.gen] = stage.list
             /\ Alien \notin elems[stage.gen]
                  => elems[stage.gen] = Contents(stage.list, stage.sent)

\* A generation the rules look up holds one whole well-formed list of its own
\* direction, whatever was rejected, lost, killed or restarted on the way:
\* a half populated, malformed or merged generation is never activated.
EnforcedComplete ==
    \A d \in Directions : dispatch[d] # None =>
        /\ dispatch[d] \in sets
        /\ dispatch[d][1] = d
        /\ Intact(dispatch[d])

IInv ==
    /\ TypeOK
    /\ WorkOK
    /\ SetsOK
    /\ NumbersFresh
    /\ TrackedOK(active)
    /\ TrackedOK(candidate)
    /\ StageOK
    /\ EnforcedComplete

\* While the daemon watches and nobody else touched nftables, every direction
\* its configuration uses is enforced by rules that look up an existing set.
ProtectedWhileWatching ==
    watching /\ Unspent("tamper") => \A d \in used : Enforced(d)

\* The generations the daemon tracks are the ones the kernel enforces, so that
\* cleanup and repair act on what is really in force.
TrackedIsEnforced ==
    watching /\ Unspent("tamper") /\ Unspent("unacked") => dispatch = GenOf(active)

\* Back in the event loop no obsolete or rejected generation is left over, if
\* the kernel refused nothing: neither failed reloads nor earlier runs leak.
NoLeakAtRest ==
    pc = "watch" /\ Unspent("tamper") /\ Unspent("reject") /\ Unspent("unacked")
        => sets = {active[d].gen : d \in Covered(active)}

\* README.md:96-98: each direction is staged, activated and cleaned up before
\* the other, so that two generations are held for one direction at a time.
HeldTwice == {d \in Directions : \E g, h \in sets : g # h /\ g[1] = d /\ h[1] = d}
OneDirectionAtATime == Cardinality(HeldTwice) <= 1

\* The same, of the event loop, with nothing refused and nobody interfering.
OneDirectionWhileWatching ==
    watching /\ Unspent("tamper") /\ Unspent("reject") /\ Unspent("unacked")
        => OneDirectionAtATime

-----------------------------------------------------------------------------
(* What makes the properties about enforcement inductive, on top of IInv.  *)

Elements(seq) == {seq[i] : i \in 1..Len(seq)}
GenerationsOf(tracked) == {tracked[d].gen : d \in Covered(tracked)}

\* An initial replacement covers every used direction, a sequential one changes
\* one direction of what is tracked.
PlanOK ==
    /\ Initial \/ Covered(active) = used
    /\ pc \in {"cleanup", "install", "rec_layout", "rec_bootstrap", "rec_health", "repair"}
         => ~Initial
    /\ pc \in {"begin", "populate"} /\ Initial => Covered(candidate) \cup Elements(todo) = used
    /\ pc \in {"verify", "activate"} =>
         IF Initial THEN Covered(candidate) = used /\ todo = <<>>
         ELSE \A d \in Directions \ {Head(todo)} : candidate[d] = active[d]
    /\ pc = "exit_delete" => CleanupOnExit
    /\ pc \in {"watch", "rec_layout", "rec_bootstrap", "rec_health", "repair"} => watching

BudgetOK == \A k \in Kinds : budget[k] <= Budget[k]

\* A table nobody else touches is the one the daemon left, and it enforces what
\* the daemon tracks, or what an activation without an answer left there.
TableOK ==
    Unspent("tamper") =>
        /\ pc \notin {"down", "flow", "layout", "bootstrap"} => table = "current"
        /\ pc = "bootstrap" => table = "absent"
        /\ pc # "rec_bootstrap"
        /\ watching => ~Initial
        /\ ~Initial => base /\ \A d \in used : dispatch[d] # None
        /\ Unspent("unacked") /\ ~Initial => dispatch = GenOf(active)

\* The version of generation g, where it exists, is one the file of d has had.
NotNewer(g, d) == g \in sets => source[g].ver <= file[d].ver

\* What is staged is at least as new as what it is going to replace.
VersionsOK ==
    /\ \A g \in sets : source[g] \in Lists
    /\ \A d \in Directions : dispatch[d] # None => NotNewer(dispatch[d], d)
    /\ \A d \in Covered(active) : NotNewer(active[d].gen, d)
    /\ \A d \in Covered(candidate) : NotNewer(candidate[d].gen, d)
    /\ pc = "populate" =>
         /\ stage.list.ver <= file[Head(todo)].ver
         /\ dispatch[Head(todo)] # None => source[dispatch[Head(todo)]].ver <= stage.list.ver
    /\ pc \in {"begin", "populate", "verify", "activate"} =>
         \A d \in Covered(candidate) :
            (Initial \/ d = Head(todo)) /\ dispatch[d] # None /\ candidate[d].gen \in sets
              => source[dispatch[d]].ver <= source[candidate[d].gen].ver

\* In the event loop, undisturbed, only the generation being worked on exists
\* besides the tracked ones.
SetsTidy ==
    Unspent("tamper") /\ Unspent("reject") /\ Unspent("unacked") =>
        /\ pc = "install" => sets = GenerationsOf(active)
        /\ watching =>
            /\ pc \notin {"populate", "verify", "activate", "cleanup", "discard"}
                 => sets = GenerationsOf(active)
            /\ pc = "populate" => sets = GenerationsOf(active) \cup {stage.gen}
            /\ pc \in {"verify", "activate"}
                 => /\ sets = GenerationsOf(active) \cup {candidate[Head(todo)].gen}
                    /\ candidate[Head(todo)].gen \notin Referenced
            /\ pc = "cleanup" => \A g \in Obsolete : g[1] = Head(todo)
            /\ pc = "discard" => /\ Len(junk) = 1
                                 /\ junk[1] \notin Referenced
                                 /\ sets = GenerationsOf(active) \cup {junk[1]}

\* The inductive invariant of the properties about enforcement.
EInv == IInv /\ BudgetOK /\ PlanOK /\ TableOK /\ VersionsOK /\ SetsTidy

-----------------------------------------------------------------------------
(* What a step may never do                                                *)

\* An enforced direction that stays configured is never left unprotected and
\* never goes back to an older version of its list, across reloads, repairs,
\* failures, crashes and restarts (the table's removal at exit excepted).
ForwardOnly ==
    [][\A d \in used \cap used' :
         Enforced(d) /\ table' # "absent" /\ Unspent("tamper")' /\ Unspent("unacked")
           => Enforced(d)' /\ EnforcedVersion(d)' >= EnforcedVersion(d)]_vars

\* src/tests/netns.sh:173, daemon.rs:525: a table that was there without the
\* layout marker is not modified by the daemon.  (A table that loses the marker
\* while the daemon watches is: a file event does not look at the layout.)
UnversionedUntouched ==
    [][table = "foreign" /\ Unspent("tamper")' => UNCHANGED kernel]_vars

\* What a start does to a table that an earlier process left.
LookupsKept ==
    /\ UNCHANGED <<table, base, dispatch>>
    /\ \A d \in Directions : dispatch[d] # None => elems'[dispatch[d]] = elems[dispatch[d]]

AllSwitched ==
    /\ table' = table
    /\ base'
    /\ \A d \in Directions : dispatch'[d] # None <=> d \in used

\* README.md:105-109: a start that cannot stage, verify and activate everything
\* leaves what an earlier process enforced.  Until the watcher is installed,
\* every step keeps the lookups of that table and the elements they see, or
\* switches all directions of the configuration at once, whatever list,
\* transaction or dump fails on the way and wherever the process is killed.
\* One deletion is excepted: with cleanup_on_exit a start that fails removes
\* the table it found, as README.md:111-112 says of every orderly return,
\* although lines 107-109 promise its preservation without that condition.
StartupAllOrNothing ==
    [][inherited /\ table # "absent" /\ Unspent("tamper")'
         => \/ LookupsKept
            \/ AllSwitched
            \/ CleanupOnExit /\ table' = "absent"]_vars

-----------------------------------------------------------------------------
(* Liveness                                                                *)

\* Numbers are left for every replacement that can still be asked for.
Headroom == next + 4 <= MaxGen

\* A file event leads to the enforcement of the file's list, unless the file
\* stops being acceptable, the daemon stops watching or the backend fails.
EventApplied ==
    \A d \in Directions :
        (watching /\ d \in pending /\ WellFormed(file[d]))
          ~> \/ Enforced(d) /\ source[dispatch[d]] = file[d]
             \/ ~WellFormed(file[d])
             \/ ~watching
             \/ ~Unspent("reject") \/ ~Unspent("unacked") \/ ~Unspent("tamper")
             \/ ~Headroom

\* README.md:3: the daemon watches the files and enforces them.  A well-formed
\* file of a used direction is sooner or later the enforced one.
FileEnforced ==
    \A d \in Directions :
        (watching /\ d \in used /\ WellFormed(file[d]))
          ~> \/ Enforced(d) /\ source[dispatch[d]] = file[d]
             \/ ~WellFormed(file[d])
             \/ ~watching
             \/ ~Headroom

\* daemon.rs:511, 517: whatever another program did to cidrwall's table, the
\* reconciliation restores the enforcement of every used direction with the
\* generation the daemon tracks, also when the activation of another generation
\* was never acknowledged, unless a list is unacceptable, the table became a
\* foreign one or a flowtable bypasses.
Recovers ==
    watching
      ~> \/ \A d \in used : /\ Enforced(d) /\ Complete(dispatch[d])
                            /\ dispatch[d] = GenOf(active)[d]
         \/ \E d \in used : ~WellFormed(file[d])
         \/ ~watching
         \/ table = "foreign"
         \/ FlowtableConflict
         \/ ~Headroom

\* daemon.rs:516-522: a table that vanished is created again by the
\* reconciliation, provided the lists are well formed and nothing bypasses it.
TableRecreated ==
    (watching /\ table = "absent")
      ~> \/ table # "absent"
         \/ \E d \in used : ~WellFormed(file[d])
         \/ ~watching
         \/ FlowtableConflict
=============================================================================
