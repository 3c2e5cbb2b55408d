------------------------------ MODULE NftTable ------------------------------
(***************************************************************************)
(* The nftables table cidrwall owns, as the kernel keeps it, and the       *)
(* transactions src/src/netlink.rs sends.  Every netlink batch is one      *)
(* kernel transaction: it commits whole or not at all.                     *)
(*                                                                         *)
(* A generation <<d, n>> stands for the pair of sets d_v4_g<n>, d_v6_g<n>, *)
(* which the code always creates, references and deletes in one batch.  A  *)
(* block list is streamed into its generation chunk by chunk; the item     *)
(* <<v, i>> stands for the intervals of chunk i of version v of the file.  *)
(***************************************************************************)
EXTENDS Naturals

CONSTANTS
    Shapes,         \* what a block list file can look like
    Chunks,         \* Chunks[s]: population chunks that a file of shape s yields
    Malformed,      \* shapes whose streaming fails after those chunks
    Missing,        \* shapes that cannot be opened at all
    MaxVer,         \* bound: number of times a block list file changes
    MaxGen,         \* end of the generation counter (u64::MAX in the code)
    None

ASSUME TableAssumption ==
    /\ Chunks \in [Shapes -> Nat]
    /\ Malformed \subseteq Shapes
    /\ Missing \subseteq Shapes
    /\ MaxVer \in Nat
    /\ MaxGen \in Nat \ {0}

Directions == {"in", "out"}
Gens == Directions \X (1..(MaxGen - 1))
Lists == [ver : 0..MaxVer, shape : Shapes]

WellFormed(list) == list.shape \notin Malformed \cup Missing

\* What the first k chunks of a list add to its sets.
Contents(list, k) == {<<list.ver, i>> : i \in 1..k}

\* An element of a set that the daemon did not write, or the trace of one
\* that somebody deleted: the kernel's count no longer fits the list.
Alien == <<0, 0>>

VARIABLES
    table,      \* "absent", "current" (has the layout marker), "foreign" (lacks it)
    sets,       \* the generations whose sets exist
    elems,      \* elems[g]: the items in generation g's sets
    base,       \* the base chains jump to the dispatch chains
    dispatch,   \* dispatch[d]: generation looked up by direction d's dispatch chain
    source      \* history: source[g] is the list g is staged from

kernel == <<table, sets, elems, base, dispatch, source>>

Absent ==
    /\ table = "absent"
    /\ sets = {}
    /\ elems = [g \in Gens |-> {}]
    /\ base = FALSE
    /\ dispatch = [d \in Directions |-> None]
    /\ source = [g \in Gens |-> None]

\* A table of another layout: nothing in it belongs to this layout.
Foreign ==
    /\ table = "foreign"
    /\ sets = {}
    /\ elems = [g \in Gens |-> {}]
    /\ base = FALSE
    /\ dispatch = [d \in Directions |-> None]
    /\ source = [g \in Gens |-> None]

Complete(g) ==
    /\ source[g] \in Lists
    /\ WellFormed(source[g])
    /\ elems[g] = Contents(source[g], Chunks[source[g].shape])

Referenced == {dispatch[d] : d \in Directions} \ {None}

-----------------------------------------------------------------------------
(* The transactions: "Can" is what the kernel accepts, the other operator  *)
(* is the effect of the commit.                                            *)

\* Adding chains, sets and rules never asks for exclusive creation, so the
\* bootstrap batch also succeeds on a table that exists.
AddTable ==
    /\ table' = "current"
    /\ base' = TRUE
    /\ UNCHANGED <<sets, elems, dispatch, source>>

DropTable ==
    /\ table' = "absent"
    /\ sets' = {}
    /\ elems' = [g \in Gens |-> {}]
    /\ base' = FALSE
    /\ dispatch' = [d \in Directions |-> None]
    /\ source' = [g \in Gens |-> None]

CanAddSets == table # "absent"

\* Without NLM_F_EXCL an existing set is kept with the elements it has.
AddSets(g, list) ==
    /\ sets' = sets \cup {g}
    /\ source' = [source EXCEPT ![g] = list]
    /\ UNCHANGED <<table, elems, base, dispatch>>

CanAddItems(g) == g \in sets

AddItems(g, items) ==
    /\ elems' = [elems EXCEPT ![g] = @ \cup items]
    /\ UNCHANGED <<table, sets, base, dispatch, source>>

\* A set that a rule looks up is busy and the whole batch is refused.
CanDeleteSets(G) == G \subseteq sets \ Referenced

DeleteSets(G) ==
    /\ sets' = sets \ G
    /\ elems' = [g \in Gens |-> IF g \in G THEN {} ELSE elems[g]]
    /\ source' = [g \in Gens |-> IF g \in G THEN None ELSE source[g]]
    /\ UNCHANGED <<table, base, dispatch>>

\* replace_rules: every chain is flushed and refilled in one batch, with one
\* lookup for each direction whose generation is given.
CanReplaceRules(gen) ==
    /\ table # "absent"
    /\ \A d \in Directions : gen[d] # None => gen[d] \in sets

ReplaceRules(gen) ==
    /\ base' = TRUE
    /\ dispatch' = gen
    /\ UNCHANGED <<table, sets, elems, source>>

\* replace_dispatch: only one direction's dispatch chain is flushed and refilled.
CanReplaceDispatch(g) == g \in sets

ReplaceDispatch(d, g) ==
    /\ dispatch' = [dispatch EXCEPT ![d] = g]
    /\ UNCHANGED <<table, sets, elems, base, source>>
=============================================================================
