----------------------------- MODULE AtomicList -----------------------------
(***************************************************************************)
(* What a backend promises its users (src/README.md:8-11): the addresses   *)
(* it blocks are those of one whole list the file has held, lists are      *)
(* adopted at once, only acceptable ones, and never an older one than      *)
(* before.  Version v of the file has the shape file[v].  Xdp        *)
(* implements it once (XdpProperties!AbstractSpec), the nftables table     *)
(* once in each direction (NftHistory!AtomicLists).                        *)
(***************************************************************************)
EXTENDS Naturals, Sequences

CONSTANTS Shapes, Content, Acceptable

VARIABLES
    file,       \* the shapes the file has had, the current one last
    enforced,   \* the version being enforced, 0 for none
    blocked     \* the addresses being blocked

Init ==
    /\ file \in {<<s>> : s \in Shapes}
    /\ enforced = 0
    /\ blocked = {}

Offer ==
    /\ \E s \in Shapes : file' = Append(file, s)
    /\ UNCHANGED <<enforced, blocked>>

\* The file may have changed again since the adopted version was read.
Adopt ==
    /\ \E v \in 1..Len(file) :
        /\ v >= enforced
        /\ file[v] \in Acceptable
        /\ enforced' = v
        /\ blocked' = Content[file[v]]
    /\ UNCHANGED file

\* A cleanup, the removal of the table, or a configuration without this list
\* ends the enforcement as a whole.
Withdraw ==
    /\ enforced' = 0
    /\ blocked' = {}
    /\ UNCHANGED file

Next == Offer \/ Adopt \/ Withdraw

Spec == Init /\ [][Next]_<<file, enforced, blocked>>
=============================================================================
