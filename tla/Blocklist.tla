----------------------------- MODULE Blocklist -----------------------------
(***************************************************************************)
(* stream_chunks of src/src/blocklist.rs: a canonical list is read line by *)
(* line, adjacent networks are coalesced into intervals, and the intervals *)
(* are handed on in chunks of bounded size.                                *)
(*                                                                         *)
(* Addresses of family f are 0..Size[f]-1.  An interval is kept as first   *)
(* and one past its last address, so that Size[f] is the code's            *)
(* after_last = None.                                                      *)
(***************************************************************************)
EXTENDS Naturals, Sequences, FiniteSets, SequencesExt, Prefixes

CONSTANTS
    Width,      \* Width[f]: bits of an address of family f
    Limits,     \* values of populate_batch_elements
    MaxLines,   \* bound: lines of a list
    None

Families == {4, 6}

Intervals == [family : Families, first : Nat, after : Nat]

ASSUME BlocklistAssumption ==
    /\ Width \in [Families -> Nat \ {0}]
    /\ Limits \subseteq Nat \ {0}
    /\ MaxLines \in Nat
    /\ None \notin Intervals

Size == [f \in Families |-> Pow2[Width[f]]]

\* The networks a line can name, those with host bits set among them.
Nets == UNION {[family : {f}, first : 0..(Size[f] - 1),
                size : {n \in 1..Size[f] : Size[f] % n = 0}] : f \in Families}
Aligned(net) == net.first % net.size = 0

VARIABLES
    limit,      \* max_boundary_elements of this call
    read,       \* history: the networks read
    status,     \* "reading", "done", or the error: "non-canonical", "invalid"
    pending,    \* the interval still growing
    seenIpv6,
    chunk,      \* intervals not handed on yet
    boundaries, \* chunk_boundaries: set elements these intervals take
    chunks,     \* history: the chunks handed on
    intervals   \* StreamStats: intervals[f]

output == <<chunk, boundaries, chunks>>
vars == <<limit, read, status, pending, seenIpv6, output, intervals>>

Boundaries(i) == IF i.after = Size[i.family] THEN 1 ELSE 2

\* A chunk under construction, its size and the chunks emitted, as
\* flush_pending passes them on.
Out == [chunk |-> chunk, boundaries |-> boundaries, chunks |-> chunks]

MutEmit(out) == [chunk |-> <<>>, boundaries |-> 0, chunks |-> out.chunks]

Emit(out) ==
    IF out.chunk = <<>> THEN out
    ELSE [chunk |-> <<>>, boundaries |-> 0, chunks |-> Append(out.chunks, out.chunk)]

MutMakeRoom(out, i) == out

MakeRoom(out, i) ==
    IF out.boundaries + Boundaries(i) > limit THEN Emit(out) ELSE out

Add(out, i) ==
    [chunk |-> Append(out.chunk, i),
     boundaries |-> out.boundaries + Boundaries(i),
     chunks |-> out.chunks]

MutEmitFull(out) == IF out.boundaries > limit THEN Emit(out) ELSE out

EmitFull(out) == IF out.boundaries >= limit THEN Emit(out) ELSE out

\* flush_pending: i goes into the chunk, before and after which a full chunk
\* is emitted.
Push(out, i) == EmitFull(Add(MakeRoom(out, i), i))
Flush(out) == IF pending = None THEN out ELSE Push(out, pending)

Set(out) ==
    /\ chunk' = out.chunk
    /\ boundaries' = out.boundaries
    /\ chunks' = out.chunks

Flushed(to) ==
    /\ pending' = to
    /\ intervals' = IF pending = None THEN intervals
                    ELSE [intervals EXCEPT ![pending.family] = @ + 1]

Interval(net) ==
    [family |-> net.family, first |-> net.first, after |-> net.first + net.size]

Reject(error) ==
    /\ status' = error
    /\ UNCHANGED <<pending, seenIpv6, output, intervals>>

MutAdjacent(net) == FALSE

\* Only a network of the pending interval's family can follow it directly: the
\* first IPv6 line flushes what is pending.
Adjacent(net) == pending.after = net.first

MutInOrder(net) == net.first >= pending.first

InOrder(net) == net.first >= pending.after

\* A network of the family being read.
Extend(net) ==
    IF pending = None
    THEN pending' = Interval(net) /\ UNCHANGED <<output, intervals>>
    ELSE IF Adjacent(net)
         THEN /\ pending' = [pending EXCEPT !.after = net.first + net.size]
              /\ UNCHANGED <<output, intervals>>
         ELSE Set(Flush(Out)) /\ Flushed(Interval(net))

\* The first IPv6 network closes the IPv4 part: no chunk mixes the families.
SwitchFamily(net) ==
    /\ Set(Emit(Flush(Out)))
    /\ Flushed(Interval(net))

ReadNet(net) ==
    /\ status = "reading"
    /\ Len(read) < MaxLines
    /\ read' = Append(read, net)
    /\ \/ /\ ~Aligned(net) \/ (net.family = 4 /\ seenIpv6)
          /\ Reject("non-canonical")
       \/ /\ Aligned(net)
          /\ net.family = 6 /\ ~seenIpv6
          /\ SwitchFamily(net)
          /\ seenIpv6' = TRUE
          /\ UNCHANGED status
       \/ /\ Aligned(net)
          /\ net.family = 6 <=> seenIpv6
          /\ IF pending # None /\ ~InOrder(net)
             THEN Reject("non-canonical")
             ELSE Extend(net) /\ UNCHANGED <<status, seenIpv6>>

\* A line that does not parse or cannot be read.  Blank lines and comments
\* leave no trace.
ReadInvalid ==
    /\ status = "reading"
    /\ Len(read) < MaxLines
    /\ Reject("invalid")
    /\ UNCHANGED read

End ==
    /\ status = "reading"
    /\ status' = "done"
    /\ Set(Emit(Flush(Out)))
    /\ Flushed(None)
    /\ UNCHANGED <<read, seenIpv6>>

Init ==
    /\ limit \in Limits
    /\ read = <<>>
    /\ status = "reading"
    /\ pending = None
    /\ seenIpv6 = FALSE
    /\ chunk = <<>>
    /\ boundaries = 0
    /\ chunks = <<>>
    /\ intervals = [f \in Families |-> 0]

Next ==
    /\ UNCHANGED limit
    /\ (\E net \in Nets : ReadNet(net)) \/ ReadInvalid \/ End

Spec == Init /\ [][Next]_vars

-----------------------------------------------------------------------------

\* Every interval produced so far: in the chunks handed on, in the one under
\* construction, or still growing.
Handed == UNION {ToSet(chunks[k]) : k \in 1..Len(chunks)}
Complete == Handed \cup ToSet(chunk)
Produced == Complete \cup (IF pending = None THEN {} ELSE {pending})

Addresses(i) == {<<i.family, a>> : a \in i.first..(i.after - 1)}
AddressesOf(S) == UNION {Addresses(i) : i \in S}
Networks == {Interval(read[k]) : k \in 1..Len(read)}

\* README.md:89-92 as a reference definition: numerically ordered, disjoint
\* IPv4 networks without host bits, followed by such IPv6 networks.
Precedes(net, other) ==
    \/ net.family < other.family
    \/ net.family = other.family /\ net.first + net.size <= other.first

Canonical ==
    \A k \in 1..Len(read) :
        /\ Aligned(read[k])
        /\ \A j \in 1..(k - 1) : Precedes(read[j], read[k])

\* A list is rejected as non-canonical exactly at its first line that makes it
\* so, although the code compares a line with the interval before it only.
RejectsNonCanonical == status = "non-canonical" <=> ~Canonical

\* At every moment the intervals produced cover exactly the addresses of the
\* networks read: nothing is lost or added between chunks or families.
CoversList ==
    status # "non-canonical" => AddressesOf(Produced) = AddressesOf(Networks)

\* No two intervals of a family touch, so that they share no boundary element,
\* and StreamStats counts each of them once: the health check compares the
\* number of the kernel's intervals with this count.
IntervalsSeparate ==
    /\ \A i, j \in Produced :
         i.family = j.family /\ i # j => i.after < j.first \/ j.after < i.first
    /\ status = "done" =>
         \A f \in Families : intervals[f] = Cardinality({i \in Produced : i.family = f})

\* The elements that a chunk adds to the sets of its family: where an interval
\* starts, and where it ends before the end of the address space.
BoundariesOf(c) ==
    {i.first : i \in ToSet(c)} \cup {i.after : i \in {j \in ToSet(c) : j.after # Size[j.family]}}

\* populate sends a chunk to the set of its first interval's family: no chunk
\* is empty or mixes families, and within the limit (or a single interval) it
\* stays.
Fits(c) ==
    /\ c # <<>>
    /\ \A i, j \in ToSet(c) : i.family = j.family
    /\ Cardinality(BoundariesOf(c)) <= limit \/ Len(c) = 1

ChunksFit == \A k \in 1..Len(chunks) : Fits(chunks[k])

\* blocklist.rs:36: the prefixes of an interval, which the XDP tries hold, are
\* the smallest set that covers it, up to the end of the address space.
PrefixesMinimal ==
    \A i \in Produced :
        LET width == Width[i.family]
        IN IntervalPrefixes(i.family, i.first, i.after - 1, width)
             = Minimal(i.first, i.after - 1, width)

\* The variables range over the values the code gives them.
TypeOK ==
    /\ limit \in Limits
    /\ read \in Seq(Nets)
    /\ status \in {"reading", "done", "non-canonical", "invalid"}
    /\ pending \in Intervals \cup {None}
    /\ pending # None => pending.first < pending.after /\ pending.after <= Size[pending.family]
    /\ seenIpv6 \in BOOLEAN
    /\ pending # None => (pending.family = 6 <=> seenIpv6)
    /\ chunk \in Seq(Intervals)
    /\ chunks \in Seq(Seq(Intervals))
    /\ boundaries \in Nat
    /\ IF chunk = <<>> THEN boundaries = 0 ELSE boundaries < limit
    /\ intervals \in [Families -> Nat]

-----------------------------------------------------------------------------
(***************************************************************************)
(* The inductive invariant: what the code relies on when it compares a     *)
(* line with the pending interval only, and when it counts the elements of *)
(* a chunk instead of collecting them.                                     *)
(***************************************************************************)

\* The pending interval ends where the line read last ends.
PendingEndsWithLastLine ==
    LET last == read[Len(read)]
    IN IF read = <<>> THEN pending = None /\ ~seenIpv6
       ELSE /\ pending # None
            /\ pending.family = last.family
            /\ pending.after = last.first + last.size

\* What is complete lies before the pending interval and does not touch it.
CompleteIsBehind ==
    \A i \in Complete :
        /\ pending # None
        /\ i.family < pending.family \/ (i.family = pending.family /\ i.after < pending.first)

\* Each complete interval was counted once.
CountsComplete ==
    /\ IsFiniteSet(Complete)
    /\ \A f \in Families : intervals[f] = Cardinality({i \in Complete : i.family = f})

\* The chunk under construction is one family's, which is the pending
\* interval's, and boundaries bounds the set elements it takes.
ChunkIsCounted ==
    /\ \A i \in ToSet(chunk) : pending # None /\ i.family = pending.family
    /\ IsFiniteSet(BoundariesOf(chunk))
    /\ Cardinality(BoundariesOf(chunk)) <= boundaries

\* All of it, and the properties it implies.
IInv ==
    /\ TypeOK /\ RejectsNonCanonical /\ CoversList /\ IntervalsSeparate /\ ChunksFit
    /\ status = "reading" => PendingEndsWithLastLine /\ CompleteIsBehind
    /\ status = "done" => pending = None
    /\ CountsComplete
    /\ ChunkIsCounted

\* What interval_prefixes is given: intervals with addresses of their family.
IntervalsProper ==
    \A i \in Produced : i.first < i.after /\ i.after <= Size[i.family]
=============================================================================
