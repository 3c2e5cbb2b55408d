------------------------------ MODULE Prefixes ------------------------------
(***************************************************************************)
(* interval_prefixes of src/src/blocklist.rs: an interval becomes the CIDR *)
(* prefixes that the XDP tries hold.  Addresses have `width` bits.  The    *)
(* IPv4 branch computes in wider integers, the IPv6 branch in the width of *)
(* the address itself.                                                     *)
(***************************************************************************)
EXTENDS Naturals, FiniteSets, FiniteSetsExt

Pow2[k \in Nat] == IF k = 0 THEN 1 ELSE 2 * Pow2[k - 1]

Prefix(address, hostBits) == [address |-> address, hostBits |-> hostBits]

TrailingZeros(n, width) == Max({k \in 0..width : n % Pow2[k] = 0})
HighestBit(n, width) == Max({k \in 0..width : Pow2[k] <= n})

Alignment(start, width) == IF start = 0 THEN width ELSE TrailingZeros(start, width)

\* end - start + 1, in wider integers (IPv4), or wrapping (IPv6).
Remaining(family, start, end, width) ==
    IF family = 4 THEN end - start + 1 ELSE (end - start + 1) % Pow2[width]

MutHostBits(family, start, end, width) == Alignment(start, width)

HostBits(family, start, end, width) ==
    Min({Alignment(start, width), HighestBit(Remaining(family, start, end, width), width)})

\* The loop, from the first address not yet covered.  Only the IPv6 branch has
\* to treat the whole address space on its own.
IntervalPrefixes(family, first, end, width) ==
    LET from[start \in first..end] ==
          LET bits == HostBits(family, start, end, width)
              after == start + Pow2[bits]
          IN {Prefix(start, bits)} \cup (IF after > end THEN {} ELSE from[after])
    IN IF family = 6 /\ first = 0 /\ end = Pow2[width] - 1
       THEN {Prefix(0, width)}
       ELSE from[first]

-----------------------------------------------------------------------------

Covered(p) == p.address..(p.address + Pow2[p.hostBits] - 1)

\* Reference definition: the smallest decomposition of an interval consists of
\* the prefixes inside it that no other prefix inside it contains.
Inside(first, end, width) ==
    {p \in [address : first..end, hostBits : 0..width] :
        p.address % Pow2[p.hostBits] = 0 /\ p.address + Pow2[p.hostBits] - 1 <= end}
Minimal(first, end, width) ==
    LET inside == Inside(first, end, width)
    IN {p \in inside : ~\E q \in inside : q # p /\ Covered(p) \subseteq Covered(q)}
=============================================================================
