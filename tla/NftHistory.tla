----------------------------- MODULE NftHistory -----------------------------
(***************************************************************************)
(* NftDaemon with two history variables: the lists each file has had, and  *)
(* the directions of which the watcher has told this process.  No step of  *)
(* the daemon reads them.  With them the table can be shown to keep the    *)
(* promise of AtomicList in each direction, and a reload can be required   *)
(* to have been worth its event.                                           *)
(***************************************************************************)
EXTENDS NftProperties

VARIABLES
    written,    \* written[d]: the lists direction d's file has had, the current one last
    told        \* directions with a file event since the watcher was installed

history == <<written, told>>

Record ==
    /\ written' = [d \in Directions |->
                     IF file'[d] = file[d] THEN written[d] ELSE Append(written[d], file'[d])]
    /\ told' = IF watching' THEN told \cup pending' ELSE {}

HInit ==
    /\ Init
    /\ written = [d \in Directions |-> <<file[d]>>]
    /\ told = {}

HNext == Next /\ Record

HSpec == HInit /\ [][HNext]_<<vars, history>>

-----------------------------------------------------------------------------
(* The table as an AtomicList of each direction.                           *)

\* The version being enforced counts from 1, the file's first list.
Version(d) == IF Enforced(d) THEN EnforcedVersion(d) + 1 ELSE 0
Blocked(d) == IF Enforced(d) THEN elems[dispatch[d]] ELSE {}

WholeList == [list \in Lists |-> Contents(list, Chunks[list.shape])]
AcceptableLists == {list \in Lists : WellFormed(list)}

Inbound ==
    INSTANCE AtomicList WITH
        file <- written["in"], enforced <- Version("in"), blocked <- Blocked("in"),
        Shapes <- Lists, Content <- WholeList, Acceptable <- AcceptableLists

Outbound ==
    INSTANCE AtomicList WITH
        file <- written["out"], enforced <- Version("out"), blocked <- Blocked("out"),
        Shapes <- Lists, Content <- WholeList, Acceptable <- AcceptableLists

\* What a direction's sets block are the addresses of one whole well-formed
\* list its file has had, adopted in one step, and never of an older one than
\* before, until the table or the direction's rules are withdrawn as a whole.
AtomicLists == Inbound!Spec /\ Outbound!Spec

-----------------------------------------------------------------------------
(* A reload is worth its event.                                            *)

Current(d) == Enforced(d) /\ source[dispatch[d]] = file[d]

\* Directions whose last event has been consumed and whose list is acceptable.
Heard == {d \in told \ pending : WellFormed(file[d])}

\* Back in the event loop, the list of every file whose events were all
\* consumed is the one being enforced: neither a change during the reload nor
\* the reload of the other direction makes an event go by without effect.
EventsServed ==
    pc = "watch" /\ Undisturbed /\ ~Exhausted => \A d \in Heard : Current(d)

-----------------------------------------------------------------------------
(* What makes these inductive, on top of EInv.                             *)

\* Version v of a file is the entry v + 1 of its history, and every generation
\* was staged from an entry of its direction's.
HistoryOK ==
    /\ written \in [Directions -> Seq(Lists)]
    /\ \A d \in Directions :
        /\ Len(written[d]) = file[d].ver + 1
        /\ written[d][Len(written[d])] = file[d]
    /\ \A g \in sets : /\ source[g].ver + 1 \in 1..Len(written[g[1]])
                       /\ source[g] = written[g[1]][source[g].ver + 1]

\* Nobody else has written to a generation.
Untouched == Unspent("tamper") => \A g \in Gens : Alien \notin elems[g]

\* Direction d is being replaced and its generation not yet activated.
Staging(d) ==
    pc \in {"begin", "populate", "verify", "activate"} /\ todo # <<>> /\ d = Head(todo)

\* What is staged for direction d is what its file holds.
OnItsWay(d) ==
    /\ pc = "populate" => stage.list = file[d]
    /\ pc \in {"verify", "activate"} =>
         /\ source[candidate[d].gen] = file[d]
         /\ candidate[d].count = Chunks[file[d].shape]

\* What a consumed event asked for is enforced, or on its way there.
ServedOK ==
    /\ told \subseteq used
    /\ pending \subseteq told
    /\ watching \/ told = {}
    /\ watching /\ Undisturbed /\ ~Exhausted =>
         \A d \in Heard : IF Staging(d) THEN OnItsWay(d) ELSE Current(d)

\* The inductive invariant of the properties about histories.
HInv == EInv /\ HistoryOK /\ Untouched /\ ServedOK
=============================================================================
