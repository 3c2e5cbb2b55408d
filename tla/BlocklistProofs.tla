--------------------------- MODULE BlocklistProofs ---------------------------
(***************************************************************************)
(* The proof that a list is streamed exactly: stream_chunks compares every *)
(* line with the pending interval only, and counts the boundary elements   *)
(* of a chunk without looking at them, and is right all the same.          *)
(*                                                                         *)
(* The first part is about the operators on a chunk under construction     *)
(* (flush_pending), the second about lines and addresses, and the third    *)
(* takes the invariant through the actions.  With it, what PrefixesProofs  *)
(* shows of any interval holds of all that a list hands on.                *)
(***************************************************************************)
EXTENDS Blocklist, PrefixesProofs

LEMMA ToSetEmpty == ToSet(<<>>) = {}
BY DEF ToSet

LEMMA ToSetAppend ==
    ASSUME NEW S, NEW s \in Seq(S), NEW e \in S
    PROVE  ToSet(Append(s, e)) = ToSet(s) \cup {e}
<1>1. Append(s, e) \in Seq(S) /\ Len(Append(s, e)) = Len(s) + 1 /\ Len(s) \in Nat
  OBVIOUS
<1>2. Append(s, e)[Len(s) + 1] = e /\ \A i \in 1..Len(s) : Append(s, e)[i] = s[i]
  OBVIOUS
<1>3. DOMAIN s = 1..Len(s) /\ DOMAIN Append(s, e) = 1..(Len(s) + 1)
  BY <1>1
<1> HIDE <1>1
<1> QED
  BY <1>1, <1>2, <1>3 DEF ToSet

LEMMA ToSetTyped ==
    ASSUME NEW S, NEW s \in Seq(S)
    PROVE  ToSet(s) \subseteq S /\ (ToSet(s) = {} => s = <<>>)
<1>1. DOMAIN s = 1..Len(s) /\ Len(s) \in Nat /\ \A k \in 1..Len(s) : s[k] \in S
  OBVIOUS
<1>2. ToSet(s) \subseteq S
  BY <1>1 DEF ToSet
<1>3. ASSUME s # <<>> PROVE ToSet(s) # {}
  <2>1. Len(s) # 0
    BY <1>3
  <2>2. s[1] \in {s[k] : k \in 1..Len(s)}
    BY <1>1, <2>1
  <2> QED
    BY <1>1, <2>2 DEF ToSet
<1> QED
  BY <1>2, <1>3

-----------------------------------------------------------------------------
(* A chunk under construction.                                             *)

Outs == [chunk : Seq(Intervals), boundaries : Nat, chunks : Seq(Seq(Intervals))]

\* The intervals in it and in the chunks handed on.
Held(out) == (UNION {ToSet(out.chunks[k]) : k \in 1..Len(out.chunks)}) \cup ToSet(out.chunk)

\* Its intervals are of family f, and boundaries bounds their set elements.
Counted(out, f) ==
    /\ out \in Outs
    /\ \A k \in 1..Len(out.chunks) : Fits(out.chunks[k])
    /\ \A i \in ToSet(out.chunk) : i.family = f
    /\ IsFiniteSet(BoundariesOf(out.chunk))
    /\ Cardinality(BoundariesOf(out.chunk)) <= out.boundaries
    /\ out.chunk = <<>> => out.boundaries = 0

\* It may be handed on; there is room in it.
Sendable(out) == out.chunk # <<>> => out.boundaries <= limit \/ Len(out.chunk) = 1
Roomy(out) == out.chunk # <<>> => out.boundaries < limit

LEMMA EmptyBoundaries == BoundariesOf(<<>>) = {}
BY ToSetEmpty DEF BoundariesOf

\* Emitting a chunk moves its intervals and leaves an empty one.
LEMMA EmitKeeps ==
    ASSUME limit \in Nat, NEW f, NEW out, Counted(out, f), Sendable(out)
    PROVE  /\ Counted(Emit(out), f)
           /\ Emit(out).chunk = <<>>
           /\ Held(Emit(out)) = Held(out)
<1>1. CASE out.chunk = <<>>
  BY <1>1 DEF Emit
<1>2. CASE out.chunk # <<>>
  <2> DEFINE c  == out.chunk
             cs == out.chunks
             new == [chunk |-> <<>>, boundaries |-> 0, chunks |-> Append(cs, c)]
  <2>1. c \in Seq(Intervals) /\ cs \in Seq(Seq(Intervals)) /\ out.boundaries \in Nat
    BY DEF Counted, Outs
  <2>2. Emit(out) = new
    BY <1>2 DEF Emit
  <2>3. new \in Outs
    BY <2>1 DEF Outs
  <2>4. /\ Append(cs, c) \in Seq(Seq(Intervals))
        /\ Len(Append(cs, c)) = Len(cs) + 1
        /\ Len(cs) \in Nat
        /\ Append(cs, c)[Len(cs) + 1] = c
        /\ \A k \in 1..Len(cs) : Append(cs, c)[k] = cs[k]
    BY <2>1
  <2>5. Fits(c)
    <3>1. Cardinality(BoundariesOf(c)) <= out.boundaries /\ IsFiniteSet(BoundariesOf(c))
      BY DEF Counted
    <3>2. Cardinality(BoundariesOf(c)) \in Nat
      BY <3>1, FS_CardinalityType
    <3>3. Cardinality(BoundariesOf(c)) <= limit \/ Len(c) = 1
      <4> HIDE DEF c
      <4> QED
        BY <2>1, <3>1, <3>2, <1>2 DEF Sendable, c
    <3> QED
      BY <1>2, <3>3 DEF Fits, Counted
  <2>6. \A k \in 1..Len(Append(cs, c)) : Fits(Append(cs, c)[k])
    <3>1. \A k \in 1..Len(cs) : Fits(cs[k])
      BY DEF Counted
    <3> HIDE DEF c, cs
    <3> QED
      BY <2>4, <2>5, <3>1
  <2>7. IsFiniteSet(BoundariesOf(<<>>)) /\ Cardinality(BoundariesOf(<<>>)) = 0
    BY EmptyBoundaries, FS_EmptySet
  <2>8. Counted(new, f)
    BY <2>3, <2>6, <2>7, ToSetEmpty DEF Counted
  <2>9. Held(new) = Held(out)
    <3>1. UNION {ToSet(Append(cs, c)[k]) : k \in 1..Len(Append(cs, c))}
            = (UNION {ToSet(cs[k]) : k \in 1..Len(cs)}) \cup ToSet(c)
      <4> DEFINE e == Append(cs, c)
                 n == Len(cs)
      <4>1. /\ n \in Nat /\ Len(e) = n + 1 /\ e[n + 1] = c
            /\ \A k \in 1..n : e[k] = cs[k]
        BY <2>4
      <4> HIDE DEF c, cs, e, n
      <4>2. \A k \in 1..(n + 1) : k \in 1..n \/ k = n + 1
        BY <4>1
      <4>3. n + 1 \in 1..(n + 1) /\ 1..n \subseteq 1..(n + 1)
        BY <4>1
      <4>4. UNION {ToSet(e[k]) : k \in 1..(n + 1)}
              = (UNION {ToSet(cs[k]) : k \in 1..n}) \cup ToSet(c)
        BY <4>1, <4>2, <4>3, Zenon
      <4> QED
        BY <4>1, <4>4 DEF e, n
    <3> QED
      BY <3>1, ToSetEmpty DEF Held
  <2> QED
    BY <2>2, <2>8, <2>9
<1> QED
  BY <1>1, <1>2

\* An interval adds at most as many set elements as Boundaries counts.
LEMMA AddKeeps ==
    ASSUME NEW out, NEW i \in Intervals, Counted(out, i.family)
    PROVE  /\ Counted(Add(out, i), i.family)
           /\ Add(out, i).chunk # <<>>
           /\ Add(out, i).boundaries = out.boundaries + Boundaries(i)
           /\ Len(Add(out, i).chunk) = Len(out.chunk) + 1
           /\ Held(Add(out, i)) = Held(out) \cup {i}
<1> DEFINE c == out.chunk
           d == Append(c, i)
           new == Add(out, i)
<1>1. c \in Seq(Intervals) /\ out.boundaries \in Nat /\ out.chunks \in Seq(Seq(Intervals))
  BY DEF Counted, Outs
<1>2. /\ new.chunk = d
      /\ new.boundaries = out.boundaries + Boundaries(i)
      /\ new.chunks = out.chunks
  BY DEF Add
<1>3. d \in Seq(Intervals) /\ Len(d) = Len(c) + 1 /\ Len(c) \in Nat
  BY <1>1
<1>4. d # <<>>
  BY <1>3
<1>5. Boundaries(i) \in {1, 2}
  BY DEF Boundaries
<1>6. ToSet(d) = ToSet(c) \cup {i}
  BY <1>1, ToSetAppend
<1>7. \A j \in ToSet(d) : j.family = i.family
  <2> HIDE DEF c, d
  <2> QED
    BY <1>6 DEF Counted, c
<1>8. IsFiniteSet(BoundariesOf(d)) /\ Cardinality(BoundariesOf(d)) <= new.boundaries
  <2> DEFINE B == BoundariesOf(c)
             F == B \cup {i.first}
  <2>1. IsFiniteSet(B) /\ Cardinality(B) <= out.boundaries
    BY DEF Counted
  <2>2. Cardinality(B) \in Nat
    BY <2>1, FS_CardinalityType
  <2> HIDE DEF B, new
  <2>3. IsFiniteSet(F) /\ Cardinality(F) <= Cardinality(B) + 1 /\ Cardinality(F) \in Nat
    BY <2>1, <2>2, FS_AddElement
  <2>4. CASE i.after = Size[i.family]
    <3>1. BoundariesOf(d) = F
      <4> HIDE DEF c, d
      <4> QED
        BY <1>6, <2>4 DEF BoundariesOf, B
    <3>2. Boundaries(i) = 1
      BY <2>4 DEF Boundaries
    <3> HIDE DEF F
    <3> QED
      BY <3>1, <3>2, <2>1, <2>2, <2>3, <1>1, <1>2
  <2>5. CASE i.after # Size[i.family]
    <3>1. BoundariesOf(d) = F \cup {i.after}
      <4> HIDE DEF c, d
      <4> QED
        BY <1>6, <2>5 DEF BoundariesOf, B
    <3>2. Boundaries(i) = 2
      BY <2>5 DEF Boundaries
    <3> HIDE DEF F
    <3>3. /\ IsFiniteSet(F \cup {i.after})
          /\ Cardinality(F \cup {i.after}) <= Cardinality(F) + 1
          /\ Cardinality(F \cup {i.after}) \in Nat
      BY <2>3, FS_AddElement
    <3> QED
      BY <3>1, <3>2, <3>3, <2>1, <2>2, <2>3, <1>1, <1>2
  <2> QED
    BY <2>4, <2>5
<1>9. Counted(new, i.family)
  <2>1. new \in Outs
    BY <1>1, <1>3, <1>5 DEF Add, Outs
  <2>2. \A k \in 1..Len(out.chunks) : Fits(out.chunks[k])
    BY DEF Counted
  <2> HIDE DEF d, new
  <2> QED
    BY <2>1, <2>2, <1>2, <1>4, <1>7, <1>8 DEF Counted
<1>10. Held(new) = Held(out) \cup {i}
  <2> HIDE DEF d, c, new
  <2> QED
    BY <1>2, <1>6 DEF Held, c
<1> HIDE DEF d, c
<1> QED
  BY <1>2, <1>3, <1>4, <1>9, <1>10 DEF c

\* flush_pending keeps every interval, and every chunk within the limit.
LEMMA PushKeeps ==
    ASSUME limit \in Nat, NEW out, NEW i \in Intervals, Counted(out, i.family), Roomy(out)
    PROVE  /\ Counted(Push(out, i), i.family)
           /\ Roomy(Push(out, i))
           /\ Held(Push(out, i)) = Held(out) \cup {i}
<1> DEFINE room == MakeRoom(out, i)
           full == Add(room, i)
           done == EmitFull(full)
<1>1. out.boundaries \in Nat /\ Len(out.chunk) \in Nat
  BY DEF Counted, Outs
<1>2. Sendable(out)
  BY <1>1 DEF Sendable, Roomy
<1>3. /\ Counted(room, i.family)
      /\ Held(room) = Held(out)
      /\ room.chunk = <<>> \/ room.boundaries + Boundaries(i) <= limit
  <2>1. CASE out.boundaries + Boundaries(i) > limit
    BY <2>1, <1>2, EmitKeeps DEF MakeRoom
  <2>2. CASE ~(out.boundaries + Boundaries(i) > limit)
    <3>1. room = out
      BY <2>2 DEF MakeRoom
    <3>2. Boundaries(i) \in Nat
      BY DEF Boundaries
    <3> QED
      BY <3>1, <3>2, <2>2, <1>1
  <2> QED
    BY <2>1, <2>2
<1> HIDE DEF room
<1>4. /\ Counted(full, i.family)
      /\ Held(full) = Held(out) \cup {i}
      /\ full.boundaries = room.boundaries + Boundaries(i)
      /\ Len(full.chunk) = Len(room.chunk) + 1
  BY <1>3, AddKeeps
<1>5. Sendable(full)
  <2>1. CASE room.chunk = <<>>
    BY <2>1, <1>4 DEF Sendable
  <2>2. CASE room.boundaries + Boundaries(i) <= limit
    <3> HIDE DEF full
    <3> QED
      BY <2>2, <1>4 DEF Sendable
  <2> QED
    BY <2>1, <2>2, <1>3
<1>6. full.boundaries \in Nat
  BY <1>4 DEF Counted, Outs
<1> HIDE DEF full
<1>7. Counted(done, i.family) /\ Roomy(done) /\ Held(done) = Held(out) \cup {i}
  <2>1. CASE full.boundaries >= limit
    BY <2>1, <1>4, <1>5, EmitKeeps DEF EmitFull, Roomy
  <2>2. CASE ~(full.boundaries >= limit)
    <3>1. done = full
      BY <2>2 DEF EmitFull
    <3> QED
      BY <3>1, <2>2, <1>4, <1>6 DEF Roomy
  <2> QED
    BY <2>1, <2>2
<1>8. Push(out, i) = done
  BY DEF Push, done, full, room
<1> HIDE DEF done
<1> QED
  BY <1>7, <1>8

-----------------------------------------------------------------------------
(* Lines and addresses.                                                    *)

\* The first of f addresses that are aligned to n leaves room for n of them.
LEMMA AlignedFits ==
    ASSUME NEW f \in Nat, NEW n \in Nat \ {0}, NEW s \in Nat, f % n = 0, s % n = 0, f < s
    PROVE  f + n <= s
<1>1. f = n * (f \div n) /\ s = n * (s \div n) /\ f \div n \in Nat /\ s \div n \in Nat
  BY Z3
<1> DEFINE a == f \div n
           b == s \div n
<1>2. a \in Nat /\ b \in Nat /\ f = n * a /\ s = n * b
  BY <1>1
<1> HIDE DEF a, b
<1>3. a < b
  <2>1. CASE a >= b
    <3>1. n * a >= n * b
      BY <1>2, <2>1
    <3> QED
      BY <3>1, <1>2
  <2> QED
    BY <2>1, <1>2
<1>4. a + 1 <= b
  BY <1>2, <1>3
<1>5. n * (a + 1) <= n * b
  BY <1>2, <1>4
<1> QED
  BY <1>5, <1>2

LEMMA NetTyped ==
    ASSUME NEW net \in Nets
    PROVE  /\ net.family \in Families
           /\ net.first \in Nat
           /\ net.size \in Nat \ {0}
           /\ Size[net.family] \in Nat
           /\ net.first < Size[net.family]
           /\ Size[net.family] % net.size = 0
<1>1. PICK f \in Families :
        net \in [family : {f}, first : 0..(Size[f] - 1),
                size : {n \in 1..Size[f] : Size[f] % n = 0}]
  BY DEF Nets
<1>2. Size[f] \in Int
  <2>1. Width[f] \in Nat
    BY BlocklistAssumption
  <2> QED
    BY <2>1, Pow2Type, BlocklistAssumption DEF Size
<1> QED
  BY <1>1, <1>2

\* The interval of a network without host bits ends within the address space.
LEMMA IntervalTyped ==
    ASSUME NEW net \in Nets, Aligned(net)
    PROVE  /\ Interval(net) \in Intervals
           /\ Interval(net) # None
           /\ Interval(net).family = net.family
           /\ Interval(net).first = net.first
           /\ Interval(net).after = net.first + net.size
           /\ net.first < net.first + net.size
           /\ net.first + net.size <= Size[net.family]
<1>1. net.first + net.size <= Size[net.family]
  BY NetTyped, AlignedFits DEF Aligned
<1>2. Interval(net) \in Intervals
  BY NetTyped DEF Interval, Intervals
<1> QED
  BY <1>1, <1>2, NetTyped, BlocklistAssumption DEF Interval

LEMMA AddressesUnion ==
    ASSUME NEW S, NEW T
    PROVE  AddressesOf(S \cup T) = AddressesOf(S) \cup AddressesOf(T)
BY DEF AddressesOf

LEMMA AddressesOne ==
    ASSUME NEW i
    PROVE  AddressesOf({i}) = Addresses(i)
BY DEF AddressesOf

\* Extending an interval by the network that follows it adds its addresses.
LEMMA AddressesJoin ==
    ASSUME NEW i \in Intervals, NEW j \in Intervals, i.family = j.family,
           i.after = j.first, i.first < i.after, j.first < j.after
    PROVE  Addresses([i EXCEPT !.after = j.after]) = Addresses(i) \cup Addresses(j)
<1> DEFINE k == [i EXCEPT !.after = j.after]
<1>1. k.family = i.family /\ k.first = i.first /\ k.after = j.after
  BY DEF Intervals
<1>2. i.first \in Nat /\ i.after \in Nat /\ j.after \in Nat
  BY DEF Intervals
<1> HIDE DEF k
<1>3. i.first..(j.after - 1) = (i.first..(i.after - 1)) \cup (i.after..(j.after - 1))
  BY <1>2
<1>4. Addresses(k) = {<<i.family, a>> : a \in i.first..(j.after - 1)}
  BY <1>1 DEF Addresses
<1>5. Addresses(i) = {<<i.family, a>> : a \in i.first..(i.after - 1)}
  BY DEF Addresses
<1>6. Addresses(j) = {<<i.family, a>> : a \in i.after..(j.after - 1)}
  BY DEF Addresses
<1>7. Addresses(k) = Addresses(i) \cup Addresses(j)
  BY <1>3, <1>4, <1>5, <1>6, Zenon
<1> QED
  BY <1>7 DEF k

LEMMA ReadAppend ==
    ASSUME read \in Seq(Nets), NEW net \in Nets, read' = Append(read, net)
    PROVE  /\ read' \in Seq(Nets)
           /\ Len(read) \in Nat
           /\ Len(read') = Len(read) + 1
           /\ read'[Len(read) + 1] = net
           /\ \A k \in 1..Len(read) : read'[k] = read[k] /\ read[k] \in Nets
           /\ read' # <<>>
<1>1. Len(read) \in Nat /\ read' \in Seq(Nets) /\ Len(read') = Len(read) + 1
  OBVIOUS
<1>2. read' # <<>>
  BY <1>1
<1> QED
  BY <1>1, <1>2

LEMMA NetworksAppend ==
    ASSUME read \in Seq(Nets), NEW net \in Nets, read' = Append(read, net)
    PROVE  Networks' = Networks \cup {Interval(net)}
<1> DEFINE n == Len(read)
<1>1. /\ n \in Nat /\ Len(read') = n + 1 /\ read'[n + 1] = net
      /\ \A k \in 1..n : read'[k] = read[k]
  BY ReadAppend
<1>2. Networks = {Interval(read[k]) : k \in 1..n}
  BY DEF Networks
<1>3. Networks' = {Interval(read'[k]) : k \in 1..(n + 1)}
  BY <1>1 DEF Networks, Interval
<1> HIDE DEF n
<1>4. \A k \in 1..(n + 1) : k \in 1..n \/ k = n + 1
  BY <1>1
<1>5. n + 1 \in 1..(n + 1) /\ 1..n \subseteq 1..(n + 1)
  BY <1>1
<1> QED
  BY <1>1, <1>2, <1>3, <1>4, <1>5, Zenon

LEMMA CanonicalAppend ==
    ASSUME read \in Seq(Nets), NEW net \in Nets, read' = Append(read, net), Canonical
    PROVE  Canonical' <=> Aligned(net) /\ \A j \in 1..Len(read) : Precedes(read[j], net)
<1> DEFINE n == Len(read)
<1>1. /\ n \in Nat /\ Len(read') = n + 1 /\ read'[n + 1] = net
      /\ \A k \in 1..n : read'[k] = read[k]
  BY ReadAppend
<1>2. \A k \in 1..n : Aligned(read[k]) /\ \A j \in 1..(k - 1) : Precedes(read[j], read[k])
  BY DEF Canonical
<1>3. Canonical' <=>
        \A k \in 1..(n + 1) :
            Aligned(read'[k]) /\ \A j \in 1..(k - 1) : Precedes(read'[j], read'[k])
  BY <1>1 DEF Canonical, Aligned, Precedes
<1> HIDE DEF n
<1>4. \A k \in 1..n : \A j \in 1..(k - 1) : j \in 1..n
  BY <1>1
<1>5. \A k \in 1..n : Aligned(read'[k]) /\ \A j \in 1..(k - 1) : Precedes(read'[j], read'[k])
  BY <1>1, <1>2, <1>4
<1>6. \A k \in 1..(n + 1) : k \in 1..n \/ k = n + 1
  BY <1>1
<1>7. n + 1 \in 1..(n + 1) /\ (n + 1) - 1 = n
  BY <1>1
<1>8. Canonical' <=> Aligned(net) /\ \A j \in 1..n : Precedes(read'[j], net)
  BY <1>1, <1>3, <1>5, <1>6, <1>7
<1> QED
  BY <1>1, <1>8 DEF n

LEMMA PrecedesTransitive ==
    ASSUME NEW a \in Nets, NEW b \in Nets, NEW c \in Nets, Precedes(a, b), Precedes(b, c)
    PROVE  Precedes(a, c)
<1>1. a.family \in {4, 6} /\ b.family \in {4, 6} /\ c.family \in {4, 6}
  BY NetTyped DEF Families
<1>2. /\ a.first \in Nat /\ a.size \in Nat /\ b.first \in Nat /\ b.size \in Nat
      /\ c.first \in Nat /\ c.size \in Nat
  BY NetTyped
<1> QED
  BY <1>1, <1>2 DEF Precedes

\* In a canonical list, the last network decides what may follow.
LEMMA LastDecides ==
    ASSUME read \in Seq(Nets), read # <<>>, Canonical, NEW net \in Nets
    PROVE  (\A j \in 1..Len(read) : Precedes(read[j], net)) <=> Precedes(read[Len(read)], net)
<1> DEFINE n == Len(read)
           last == read[n]
<1>1. n \in Nat /\ n # 0 /\ \A k \in 1..n : read[k] \in Nets
  OBVIOUS
<1>2. n \in 1..n
  BY <1>1
<1>3. \A j \in 1..(n - 1) : Precedes(read[j], last)
  BY <1>2 DEF Canonical
<1>4. ASSUME Precedes(last, net), NEW j \in 1..n PROVE Precedes(read[j], net)
  <2> HIDE DEF n
  <2>1. CASE j = n
    BY <2>1, <1>4
  <2>2. CASE j # n
    <3>1. j \in 1..(n - 1)
      BY <2>2, <1>1
    <3> QED
      BY <3>1, <1>1, <1>2, <1>3, <1>4, PrecedesTransitive
  <2> QED
    BY <2>1, <2>2
<1> QED
  BY <1>2, <1>4

-----------------------------------------------------------------------------
(* Flushing the pending interval.                                          *)

LEMMA PendingTyped ==
    ASSUME IInv, pending # None
    PROVE  /\ pending \in Intervals
           /\ pending.family \in Families
           /\ pending.first \in Nat /\ pending.after \in Nat
           /\ pending.first < pending.after
           /\ pending.after <= Size[pending.family]
<1>1. pending \in Intervals
  BY DEF IInv, TypeOK
<1> QED
  BY <1>1 DEF IInv, TypeOK, Intervals

LEMMA CompleteTyped ==
    ASSUME IInv
    PROVE  Complete \subseteq Intervals
<1>1. chunk \in Seq(Intervals) /\ chunks \in Seq(Seq(Intervals))
  BY DEF IInv, TypeOK
<1>2. \A k \in 1..Len(chunks) : chunks[k] \in Seq(Intervals)
  BY <1>1
<1>3. /\ ToSet(chunk) \subseteq Intervals
      /\ \A k \in 1..Len(chunks) : ToSet(chunks[k]) \subseteq Intervals
  BY <1>1, <1>2, ToSetTyped
<1> QED
  BY <1>3 DEF Complete, Handed

LEMMA PendingIsNew ==
    ASSUME IInv, status = "reading", pending # None
    PROVE  pending \notin Complete
<1>1. \A i \in Complete :
        i.family < pending.family \/ (i.family = pending.family /\ i.after < pending.first)
  BY DEF IInv, CompleteIsBehind
<1>2. /\ ~(pending.family < pending.family)
      /\ ~(pending.after < pending.first)
  BY PendingTyped DEF Families
<1> QED
  BY <1>1, <1>2

LEMMA LimitTyped ==
    ASSUME IInv
    PROVE  limit \in Nat
BY BlocklistAssumption DEF IInv, TypeOK

LEMMA OutCounted ==
    ASSUME IInv, NEW f, pending # None => f = pending.family
    PROVE  Counted(Out, f) /\ Roomy(Out) /\ Held(Out) = Complete
<1>1. Out.chunk = chunk /\ Out.boundaries = boundaries /\ Out.chunks = chunks
  BY DEF Out
<1>2. chunk \in Seq(Intervals) /\ chunks \in Seq(Seq(Intervals)) /\ boundaries \in Nat
  BY DEF IInv, TypeOK
<1>3. Out \in Outs
  BY <1>2 DEF Out, Outs
<1>4. \A k \in 1..Len(chunks) : Fits(chunks[k])
  BY DEF IInv, ChunksFit
<1>5. /\ \A i \in ToSet(chunk) : i.family = f
      /\ IsFiniteSet(BoundariesOf(chunk))
      /\ Cardinality(BoundariesOf(chunk)) <= boundaries
  BY DEF IInv, ChunkIsCounted
<1>6. IF chunk = <<>> THEN boundaries = 0 ELSE boundaries < limit
  BY DEF IInv, TypeOK
<1>7. Counted(Out, f)
  BY <1>1, <1>3, <1>4, <1>5, <1>6 DEF Counted
<1>8. Roomy(Out)
  BY <1>1, <1>6 DEF Roomy
<1>9. Held(Out) = Complete
  BY <1>1 DEF Held, Complete, Handed
<1> QED
  BY <1>7, <1>8, <1>9

LEMMA FlushOut ==
    ASSUME IInv
    PROVE  \E f : /\ pending # None => f = pending.family
                  /\ Counted(Flush(Out), f)
                  /\ Roomy(Flush(Out))
                  /\ Held(Flush(Out)) = Produced
<1>1. CASE pending = None
  <2>1. Counted(Out, 4) /\ Roomy(Out) /\ Held(Out) = Complete
    BY <1>1, OutCounted
  <2>2. Flush(Out) = Out /\ Produced = Complete
    BY <1>1 DEF Flush, Produced
  <2> QED
    BY <1>1, <2>1, <2>2
<1>2. CASE pending # None
  <2>1. Counted(Out, pending.family) /\ Roomy(Out) /\ Held(Out) = Complete
    BY OutCounted
  <2>2. Flush(Out) = Push(Out, pending) /\ Produced = Complete \cup {pending}
    BY <1>2 DEF Flush, Produced
  <2>3. /\ Counted(Push(Out, pending), pending.family)
        /\ Roomy(Push(Out, pending))
        /\ Held(Push(Out, pending)) = Held(Out) \cup {pending}
    BY <1>2, <2>1, PendingTyped, LimitTyped, PushKeeps
  <2> QED
    BY <2>1, <2>2, <2>3
<1> QED
  BY <1>1, <1>2

LEMMA SetOut ==
    ASSUME NEW out \in Outs, Set(out), limit' = limit
    PROVE  /\ chunk' \in Seq(Intervals)
           /\ boundaries' \in Nat
           /\ chunks' \in Seq(Seq(Intervals))
           /\ Complete' = Held(out)
           /\ BoundariesOf(chunk)' = BoundariesOf(out.chunk)
           /\ (\A k \in 1..Len(out.chunks) : Fits(out.chunks[k])) => ChunksFit'
<1>1. chunk' = out.chunk /\ boundaries' = out.boundaries /\ chunks' = out.chunks
  BY DEF Set
<1>2. chunk' \in Seq(Intervals) /\ boundaries' \in Nat /\ chunks' \in Seq(Seq(Intervals))
  BY <1>1 DEF Outs
<1>3. Complete' = Held(out)
  BY <1>1 DEF Complete, Handed, Held, ToSet
<1>4. BoundariesOf(chunk)' = BoundariesOf(out.chunk)
  BY <1>1 DEF BoundariesOf, ToSet, Size
<1>5. ASSUME \A k \in 1..Len(out.chunks) : Fits(out.chunks[k]) PROVE ChunksFit'
  <2>1. ASSUME NEW k \in 1..Len(chunks') PROVE Fits(chunks[k])'
    <3> DEFINE c == out.chunks[k]
    <3>1. chunks'[k] = c /\ Fits(c)
      BY <1>1, <1>5
    <3>2. /\ c # <<>>
          /\ \A i, j \in ToSet(c) : i.family = j.family
          /\ Cardinality(BoundariesOf(c)) <= limit' \/ Len(c) = 1
      BY <3>1 DEF Fits
    <3> HIDE DEF c
    <3> QED
      BY <3>1, <3>2 DEF Fits
  <2> QED
    BY <2>1 DEF ChunksFit
<1> QED
  BY <1>2, <1>3, <1>4, <1>5

\* What flush_pending leaves, with or without the emission that ends a family.
LEMMA FlushKeeps ==
    ASSUME IInv, status = "reading", limit' = limit, NEW to, Flushed(to),
           NEW out, out = Flush(Out) \/ out = Emit(Flush(Out)), Set(out)
    PROVE  /\ Complete' = Produced
           /\ chunk' \in Seq(Intervals)
           /\ boundaries' \in Nat
           /\ chunks' \in Seq(Seq(Intervals))
           /\ IF chunk' = <<>> THEN boundaries' = 0 ELSE boundaries' < limit'
           /\ intervals' \in [Families -> Nat]
           /\ CountsComplete'
           /\ ChunksFit'
           /\ IsFiniteSet(BoundariesOf(chunk)')
           /\ Cardinality(BoundariesOf(chunk)') <= boundaries'
           /\ \A i \in ToSet(chunk') : pending # None /\ i.family = pending.family
           /\ out = Emit(Flush(Out)) => chunk' = <<>>
<1>1. PICK f : /\ pending # None => f = pending.family
               /\ Counted(Flush(Out), f)
               /\ Roomy(Flush(Out))
               /\ Held(Flush(Out)) = Produced
  BY FlushOut
<1>2. /\ Counted(out, f)
      /\ Roomy(out)
      /\ Held(out) = Produced
      /\ out = Emit(Flush(Out)) => out.chunk = <<>>
  <2>1. Sendable(Flush(Out))
    <3>1. Flush(Out).boundaries \in Nat
      BY <1>1 DEF Counted, Outs
    <3> QED
      BY <1>1, <3>1, LimitTyped DEF Roomy, Sendable
  <2>2. /\ Counted(Emit(Flush(Out)), f)
        /\ Emit(Flush(Out)).chunk = <<>>
        /\ Held(Emit(Flush(Out))) = Produced
    BY <1>1, <2>1, LimitTyped, EmitKeeps
  <2>3. Roomy(Emit(Flush(Out)))
    BY <2>2 DEF Roomy
  <2>4. CASE out = Emit(Flush(Out))
    BY <2>2, <2>3, <2>4
  <2>5. CASE out = Flush(Out) /\ out # Emit(Flush(Out))
    BY <2>5, <1>1
  <2> QED
    BY <2>4, <2>5
<1>3. out \in Outs
  BY <1>2 DEF Counted
<1>4. chunk' = out.chunk /\ boundaries' = out.boundaries
  BY DEF Set
<1>5. /\ chunk' \in Seq(Intervals)
      /\ boundaries' \in Nat
      /\ chunks' \in Seq(Seq(Intervals))
      /\ Complete' = Produced
      /\ ChunksFit'
  BY <1>2, <1>3, SetOut DEF Counted
<1>6. IF chunk' = <<>> THEN boundaries' = 0 ELSE boundaries' < limit'
  BY <1>2, <1>4 DEF Counted, Roomy
<1>7. IsFiniteSet(BoundariesOf(chunk)') /\ Cardinality(BoundariesOf(chunk)') <= boundaries'
  <2>1. BoundariesOf(chunk)' = BoundariesOf(out.chunk)
    BY <1>3, SetOut
  <2> QED
    BY <2>1, <1>2, <1>4 DEF Counted
<1>8. \A i \in ToSet(chunk') : pending # None /\ i.family = pending.family
  <2> SUFFICES ASSUME NEW i \in ToSet(chunk') PROVE pending # None /\ i.family = pending.family
    OBVIOUS
  <2>1. i \in ToSet(out.chunk)
    BY <1>4
  <2>2. i.family = f
    BY <2>1, <1>2 DEF Counted
  <2>3. i \in Produced
    BY <2>1, <1>2 DEF Held
  <2>4. pending # None
    BY <2>3 DEF Produced, IInv, CompleteIsBehind
  <2> QED
    BY <1>1, <2>2, <2>4
<1>9. intervals' \in [Families -> Nat] /\ CountsComplete'
  <2>1. intervals \in [Families -> Nat]
    BY DEF IInv, TypeOK
  <2>2. /\ IsFiniteSet(Complete)
        /\ \A g \in Families : intervals[g] = Cardinality({i \in Complete : i.family = g})
    BY DEF IInv, CountsComplete
  <2>3. CASE pending = None
    <3>1. intervals' = intervals /\ Complete' = Complete
      BY <2>3, <1>5 DEF Flushed, Produced
    <3> QED
      BY <3>1, <2>1, <2>2 DEF CountsComplete
  <2>4. CASE pending # None
    <3> DEFINE p == pending
               P == Complete
               Of(S, g) == {i \in S : i.family = g}
    <3>1. intervals' = [intervals EXCEPT ![p.family] = @ + 1] /\ Complete' = P \cup {p}
      BY <2>4, <1>5 DEF Flushed, Produced
    <3>2. p.family \in Families /\ p \notin P
      BY <2>4, PendingTyped, PendingIsNew
    <3>3. IsFiniteSet(P) /\ \A g \in Families : intervals[g] = Cardinality(Of(P, g))
      BY <2>2
    <3> HIDE DEF p, P
    <3>4. IsFiniteSet(P \cup {p})
      BY <3>3, FS_AddElement
    <3>5. intervals' \in [Families -> Nat]
      BY <2>1, <3>1, <3>2
    <3>6. ASSUME NEW g \in Families PROVE intervals'[g] = Cardinality(Of(P \cup {p}, g))
      <4>1. CASE g = p.family
        <5>1. Of(P \cup {p}, g) = Of(P, g) \cup {p} /\ p \notin Of(P, g)
          BY <4>1, <3>2
        <5>2. IsFiniteSet(Of(P, g))
          <6>1. Of(P, g) \in SUBSET P
            OBVIOUS
          <6> QED
            BY <6>1, <3>3, FS_Subset
        <5> HIDE DEF Of
        <5>3. Cardinality(Of(P \cup {p}, g)) = Cardinality(Of(P, g)) + 1
          BY <5>1, <5>2, FS_AddElement
        <5>4. intervals'[g] = intervals[g] + 1
          BY <4>1, <2>1, <3>1, <3>2
        <5> QED
          BY <5>3, <5>4, <3>3
      <4>2. CASE g # p.family
        <5>1. Of(P \cup {p}, g) = Of(P, g)
          BY <4>2
        <5>2. intervals'[g] = intervals[g]
          BY <4>2, <2>1, <3>1, <3>2
        <5> QED
          BY <5>1, <5>2, <3>3
      <4> QED
        BY <4>1, <4>2
    <3> QED
      BY <3>1, <3>4, <3>5, <3>6 DEF CountsComplete
  <2> QED
    BY <2>3, <2>4
<1> QED
  BY <1>2, <1>4, <1>5, <1>6, <1>7, <1>8, <1>9

-----------------------------------------------------------------------------
(* The actions.                                                            *)

LEMMA InitInvariant == Init => IInv
<1> SUFFICES ASSUME Init PROVE IInv
  OBVIOUS
<1>1. /\ read = <<>> /\ pending = None /\ chunk = <<>> /\ chunks = <<>> /\ boundaries = 0
      /\ limit \in Limits /\ status = "reading" /\ seenIpv6 = FALSE
      /\ intervals = [f \in Families |-> 0]
  BY DEF Init
<1>2. Len(read) = 0 /\ Len(chunks) = 0 /\ 1..0 = {}
  BY <1>1
<1>3. Complete = {} /\ Produced = {} /\ Networks = {}
  BY <1>1, <1>2, ToSetEmpty DEF Complete, Handed, Produced, Networks
<1>4. TypeOK
  <2>1. <<>> \in Seq(Nets) /\ <<>> \in Seq(Intervals) /\ <<>> \in Seq(Seq(Intervals))
    OBVIOUS
  <2>2. intervals \in [Families -> Nat]
    BY <1>1
  <2> QED
    BY <2>1, <2>2, <1>1 DEF TypeOK
<1>5. RejectsNonCanonical
  BY <1>1, <1>2 DEF RejectsNonCanonical, Canonical
<1>6. CoversList
  BY <1>3 DEF CoversList, AddressesOf
<1>7. IntervalsSeparate
  BY <1>1, <1>3 DEF IntervalsSeparate
<1>8. ChunksFit
  BY <1>2 DEF ChunksFit
<1>9. PendingEndsWithLastLine /\ CompleteIsBehind
  BY <1>1, <1>3 DEF PendingEndsWithLastLine, CompleteIsBehind
<1>10. CountsComplete
  <2>1. \A f : {i \in Complete : i.family = f} = {}
    BY <1>3
  <2> QED
    BY <2>1, <1>1, <1>3, FS_EmptySet DEF CountsComplete
<1>11. ChunkIsCounted
  BY <1>1, ToSetEmpty, EmptyBoundaries, FS_EmptySet DEF ChunkIsCounted
<1> QED
  BY <1>1, <1>4, <1>5, <1>6, <1>7, <1>8, <1>9, <1>10, <1>11 DEF IInv

\* A step that keeps what has been produced keeps what is said of it.
LEMMA StillProduced ==
    ASSUME UNCHANGED <<pending, output, intervals, limit>>
    PROVE  /\ Complete' = Complete /\ Produced' = Produced
           /\ CountsComplete' <=> CountsComplete
           /\ ChunkIsCounted' <=> ChunkIsCounted
           /\ ChunksFit' <=> ChunksFit
<1>1. pending' = pending /\ chunk' = chunk /\ chunks' = chunks /\ intervals' = intervals
      /\ boundaries' = boundaries /\ limit' = limit
  BY DEF output
<1>2. Complete' = Complete
  BY <1>1 DEF Complete, Handed
<1>3. Produced' = Produced
  BY <1>1, <1>2 DEF Produced
<1>4. CountsComplete' <=> CountsComplete
  BY <1>1, <1>2 DEF CountsComplete
<1>5. ChunkIsCounted' <=> ChunkIsCounted
  BY <1>1 DEF ChunkIsCounted
<1>6. ChunksFit' <=> ChunksFit
  BY <1>1 DEF ChunksFit, Fits
<1> QED
  BY <1>2, <1>3, <1>4, <1>5, <1>6

LEMMA StutterKeeps == IInv /\ UNCHANGED vars => IInv'
<1> SUFFICES ASSUME IInv, UNCHANGED vars PROVE IInv'
  OBVIOUS
<1>1. /\ UNCHANGED <<pending, output, intervals, limit>>
      /\ status' = status /\ read' = read /\ seenIpv6' = seenIpv6
      /\ chunk' = chunk /\ chunks' = chunks /\ boundaries' = boundaries
  BY DEF vars, output
<1>2. /\ Complete' = Complete /\ Produced' = Produced
      /\ CountsComplete' /\ ChunkIsCounted' /\ ChunksFit'
  BY <1>1, StillProduced DEF IInv
<1>3. TypeOK'
  BY <1>1 DEF IInv, TypeOK
<1>4. RejectsNonCanonical'
  BY <1>1 DEF IInv, RejectsNonCanonical, Canonical
<1>5. CoversList'
  BY <1>1, <1>2 DEF IInv, CoversList, Networks
<1>6. IntervalsSeparate'
  BY <1>1, <1>2 DEF IInv, IntervalsSeparate
<1>7. status' = "reading" => PendingEndsWithLastLine' /\ CompleteIsBehind'
  BY <1>1, <1>2 DEF IInv, PendingEndsWithLastLine, CompleteIsBehind
<1>8. status' = "done" => pending' = None
  BY <1>1 DEF IInv
<1> QED
  BY <1>2, <1>3, <1>4, <1>5, <1>6, <1>7, <1>8 DEF IInv

\* An error ends the reading and changes nothing else.
LEMMA RejectKeeps ==
    ASSUME IInv, limit' = limit, NEW error \in {"non-canonical", "invalid"}, Reject(error),
           read' \in Seq(Nets), error = "non-canonical" <=> ~Canonical',
           error = "invalid" => status = "reading" /\ read' = read
    PROVE  IInv'
<1>1. /\ UNCHANGED <<pending, output, intervals, limit>>
      /\ status' = error /\ seenIpv6' = seenIpv6
      /\ chunk' = chunk /\ chunks' = chunks /\ boundaries' = boundaries
  BY DEF Reject, output
<1>2. /\ Complete' = Complete /\ Produced' = Produced
      /\ CountsComplete' /\ ChunkIsCounted' /\ ChunksFit'
  BY <1>1, StillProduced DEF IInv
<1>3. TypeOK'
  BY <1>1 DEF IInv, TypeOK
<1>4. RejectsNonCanonical'
  BY <1>1 DEF RejectsNonCanonical
<1>5. CoversList'
  BY <1>1, <1>2 DEF IInv, CoversList, Networks
<1>6. IntervalsSeparate'
  BY <1>1, <1>2 DEF IInv, IntervalsSeparate
<1> QED
  BY <1>1, <1>2, <1>3, <1>4, <1>5, <1>6 DEF IInv

\* What an accepted line does to the list.
LEMMA AcceptedLine ==
    ASSUME IInv, status = "reading", NEW net \in Nets, Aligned(net), read' = Append(read, net),
           read # <<>> => Precedes(read[Len(read)], net)
    PROVE  /\ Canonical'
           /\ Networks' = Networks \cup {Interval(net)}
           /\ read' \in Seq(Nets)
<1>1. read \in Seq(Nets) /\ Canonical
  BY DEF IInv, TypeOK, RejectsNonCanonical
<1>2. \A j \in 1..Len(read) : Precedes(read[j], net)
  <2>1. CASE read = <<>>
    BY <2>1
  <2>2. CASE read # <<>>
    BY <2>2, <1>1, LastDecides
  <2> QED
    BY <2>1, <2>2
<1> QED
  BY <1>1, <1>2, CanonicalAppend, NetworksAppend, ReadAppend

LEMMA LastLine ==
    ASSUME read \in Seq(Nets), NEW net \in Nets, read' = Append(read, net),
           pending' # None, pending'.family = net.family, pending'.after = net.first + net.size
    PROVE  PendingEndsWithLastLine'
<1>1. read' # <<>> /\ read'[Len(read')] = net
  BY ReadAppend
<1> QED
  BY <1>1 DEF PendingEndsWithLastLine

\* A network that starts an interval while another one is flushed.
LEMMA NewIntervalKeeps ==
    ASSUME IInv, status = "reading", status' = status, limit' = limit,
           NEW net \in Nets, Aligned(net), read' = Append(read, net),
           read # <<>> => Precedes(read[Len(read)], net),
           NEW out, out = Flush(Out) \/ out = Emit(Flush(Out)), Set(out), Flushed(Interval(net)),
           seenIpv6' \in BOOLEAN, seenIpv6' <=> net.family = 6,
           pending # None =>
             \/ pending.family < net.family /\ out = Emit(Flush(Out))
             \/ pending.family = net.family /\ pending.after < net.first
    PROVE  IInv'
<1> DEFINE to == Interval(net)
<1>1. /\ Complete' = Produced
      /\ chunk' \in Seq(Intervals)
      /\ boundaries' \in Nat
      /\ chunks' \in Seq(Seq(Intervals))
      /\ IF chunk' = <<>> THEN boundaries' = 0 ELSE boundaries' < limit'
      /\ intervals' \in [Families -> Nat]
      /\ CountsComplete'
      /\ ChunksFit'
      /\ IsFiniteSet(BoundariesOf(chunk)')
      /\ Cardinality(BoundariesOf(chunk)') <= boundaries'
      /\ \A i \in ToSet(chunk') : pending # None /\ i.family = pending.family
      /\ out = Emit(Flush(Out)) => chunk' = <<>>
  BY FlushKeeps
<1>2. Canonical' /\ Networks' = Networks \cup {to} /\ read' \in Seq(Nets) /\ read \in Seq(Nets)
  BY AcceptedLine DEF IInv, TypeOK
<1>3. /\ to \in Intervals /\ to # None
      /\ to.family = net.family /\ to.first = net.first /\ to.after = net.first + net.size
      /\ to.first < to.after /\ to.after <= Size[to.family]
  BY IntervalTyped
<1>4. pending' = to
  BY DEF Flushed
<1> HIDE DEF to
<1>5. Produced' = Produced \cup {to}
  BY <1>1, <1>3, <1>4 DEF Produced
<1>6. \A i \in Produced :
        i.family < to.family \/ (i.family = to.family /\ i.after < to.first)
  <2> SUFFICES ASSUME NEW i \in Produced
               PROVE  i.family < to.family \/ (i.family = to.family /\ i.after < to.first)
    OBVIOUS
  <2>1. pending # None
    BY DEF Produced, IInv, CompleteIsBehind
  <2>2. CASE i = pending
    BY <2>1, <2>2, <1>3
  <2>3. CASE i \in Complete
    <3>1. i.family < pending.family \/ (i.family = pending.family /\ i.after < pending.first)
      BY <2>3 DEF IInv, CompleteIsBehind
    <3>2. i.family \in Families /\ i.after \in Nat
      BY <2>3, CompleteTyped DEF Intervals
    <3>3. to.family \in Families /\ to.first \in Nat
      BY <1>3 DEF Intervals
    <3> QED
      BY <2>1, <3>1, <3>2, <3>3, <1>3, PendingTyped DEF Families
  <2> QED
    BY <2>2, <2>3 DEF Produced
<1>7. TypeOK'
  <2>1. limit' \in Limits /\ status' \in {"reading", "done", "non-canonical", "invalid"}
    BY DEF IInv, TypeOK
  <2> QED
    BY <2>1, <1>1, <1>2, <1>3, <1>4 DEF TypeOK
<1>8. RejectsNonCanonical'
  BY <1>2 DEF RejectsNonCanonical
<1>9. CoversList'
  <2>1. AddressesOf(Produced) = AddressesOf(Networks)
    BY DEF IInv, CoversList
  <2>2. AddressesOf(Produced \cup {to}) = AddressesOf(Produced) \cup AddressesOf({to})
    BY AddressesUnion
  <2>3. AddressesOf(Networks \cup {to}) = AddressesOf(Networks) \cup AddressesOf({to})
    BY AddressesUnion
  <2> QED
    BY <2>1, <2>2, <2>3, <1>2, <1>5 DEF CoversList
<1>10. IntervalsSeparate'
  <2>1. \A i, j \in Produced :
          i.family = j.family /\ i # j => i.after < j.first \/ j.after < i.first
    BY DEF IInv, IntervalsSeparate
  <2>2. \A i \in Produced : i.family = to.family => i.after < to.first
    <3>1. ASSUME NEW i \in Produced, i.family = to.family, i.family < to.family PROVE FALSE
      BY <3>1, <1>3 DEF Intervals, Families
    <3> QED
      BY <3>1, <1>6
  <2>3. \A i, j \in Produced \cup {to} :
          i.family = j.family /\ i # j => i.after < j.first \/ j.after < i.first
    BY <2>1, <2>2
  <2> QED
    BY <2>3, <1>5 DEF IntervalsSeparate
<1>11. PendingEndsWithLastLine'
  BY <1>2, <1>3, <1>4, LastLine
<1>12. CompleteIsBehind'
  BY <1>1, <1>3, <1>4, <1>6 DEF CompleteIsBehind
<1>13. ChunkIsCounted'
  <2>1. \A i \in ToSet(chunk') : i.family = to.family
    <3> SUFFICES ASSUME NEW i \in ToSet(chunk') PROVE i.family = to.family
      OBVIOUS
    <3>1. pending # None /\ i.family = pending.family
      BY <1>1
    <3>2. chunk' # <<>>
      BY ToSetEmpty
    <3> QED
      BY <3>1, <3>2, <1>1, <1>3
  <2> QED
    BY <2>1, <1>1, <1>3, <1>4 DEF ChunkIsCounted
<1> QED
  BY <1>1, <1>7, <1>8, <1>9, <1>10, <1>11, <1>12, <1>13 DEF IInv

\* A network that starts the first interval, or extends the pending one.
LEMMA SameFamilyKeeps ==
    ASSUME IInv, status = "reading", status' = status, limit' = limit,
           NEW net \in Nets, Aligned(net), read' = Append(read, net),
           net.family = 6 <=> seenIpv6, seenIpv6' = seenIpv6,
           pending # None => InOrder(net), Extend(net)
    PROVE  IInv'
<1>1. read \in Seq(Nets) /\ PendingEndsWithLastLine /\ CompleteIsBehind
  BY DEF IInv, TypeOK
<1>2. /\ net.family \in Families /\ net.first \in Nat /\ net.size \in Nat
  BY NetTyped
<1>3. pending # None => pending.family = net.family /\ pending.after <= net.first
  <2>1. pending # None => pending.family \in Families /\ pending.after \in Nat
    BY PendingTyped
  <2>2. pending # None => (pending.family = 6 <=> seenIpv6)
    BY DEF IInv, TypeOK
  <2> QED
    BY <2>1, <2>2, <1>2 DEF Families, InOrder
<1>4. read # <<>> => Precedes(read[Len(read)], net)
  <2> SUFFICES ASSUME read # <<>> PROVE Precedes(read[Len(read)], net)
    OBVIOUS
  <2>1. /\ pending # None
        /\ pending.family = read[Len(read)].family
        /\ pending.after = read[Len(read)].first + read[Len(read)].size
    BY <1>1 DEF PendingEndsWithLastLine
  <2> QED
    BY <2>1, <1>3 DEF Precedes
<1>5. Canonical' /\ Networks' = Networks \cup {Interval(net)} /\ read' \in Seq(Nets)
  BY <1>4, AcceptedLine
<1>6. /\ Interval(net) \in Intervals /\ Interval(net) # None
      /\ Interval(net).family = net.family /\ Interval(net).first = net.first
      /\ Interval(net).after = net.first + net.size
      /\ net.first < net.first + net.size /\ net.first + net.size <= Size[net.family]
  BY IntervalTyped
<1>7. CASE pending # None /\ ~Adjacent(net)
  <2>1. Set(Flush(Out)) /\ Flushed(Interval(net))
    BY <1>7 DEF Extend
  <2>2. pending.after < net.first
    BY <1>2, <1>3, <1>7, PendingTyped DEF Adjacent
  <2>3. seenIpv6' \in BOOLEAN /\ (seenIpv6' <=> net.family = 6)
    BY DEF IInv, TypeOK
  <2> DEFINE out == Flush(Out)
  <2>4. Set(out) /\ out = Flush(Out)
    BY <2>1
  <2> HIDE DEF out
  <2> QED
    BY <2>1, <2>2, <2>3, <2>4, <1>3, <1>4, NewIntervalKeeps
<1>8. CASE pending = None \/ Adjacent(net)
  <2> DEFINE to == pending'
  <2>1. /\ UNCHANGED <<output, intervals>>
        /\ chunk' = chunk /\ boundaries' = boundaries /\ chunks' = chunks /\ intervals' = intervals
    BY <1>8 DEF Extend, output
  <2>2. /\ Complete' = Complete
        /\ BoundariesOf(chunk)' = BoundariesOf(chunk)
        /\ ChunksFit' /\ CountsComplete'
    <3>1. Complete' = Complete
      BY <2>1 DEF Complete, Handed
    <3>2. BoundariesOf(chunk)' = BoundariesOf(chunk)
      BY <2>1
    <3>3. ChunksFit'
      BY <2>1 DEF IInv, ChunksFit, Fits
    <3>4. CountsComplete'
      BY <2>1, <3>1 DEF IInv, CountsComplete
    <3> QED
      BY <3>1, <3>2, <3>3, <3>4
  <2>3. /\ to \in Intervals /\ to # None
        /\ to.family = net.family /\ to.after = net.first + net.size
        /\ to.first < to.after /\ to.after <= Size[to.family]
        /\ pending # None => to.family = pending.family /\ to.first = pending.first
        /\ AddressesOf(Produced') = AddressesOf(Produced) \cup Addresses(Interval(net))
    <3>1. CASE pending = None
      <4>1. to = Interval(net)
        BY <3>1 DEF Extend
      <4>2. Produced' = Produced \cup {Interval(net)}
        BY <3>1, <4>1, <1>6, <2>2 DEF Produced
      <4>3. AddressesOf(Produced \cup {Interval(net)})
              = AddressesOf(Produced) \cup AddressesOf({Interval(net)})
        BY AddressesUnion
      <4>4. AddressesOf({Interval(net)}) = Addresses(Interval(net))
        BY AddressesOne
      <4> QED
        BY <3>1, <4>1, <4>2, <4>3, <4>4, <1>6
    <3>2. CASE pending # None /\ Adjacent(net)
      <4>1. to = [pending EXCEPT !.after = net.first + net.size]
        BY <3>2 DEF Extend
      <4>2. /\ pending \in Intervals
            /\ pending.first \in Nat /\ pending.after \in Nat
            /\ pending.first < pending.after
        BY <3>2, PendingTyped
      <4>3. pending.after = net.first /\ pending.family = net.family
        BY <3>2, <1>3 DEF Adjacent
      <4>4. /\ to \in Intervals
            /\ to.family = pending.family /\ to.first = pending.first
            /\ to.after = net.first + net.size
        BY <4>1, <4>2, <1>2 DEF Intervals
      <4>5. to # None
        BY <4>4, BlocklistAssumption
      <4>6. Addresses(to) = Addresses(pending) \cup Addresses(Interval(net))
        BY <4>1, <4>2, <4>3, <1>6, AddressesJoin
      <4>7. Produced' = Complete \cup {to} /\ Produced = Complete \cup {pending}
        BY <3>2, <4>5, <2>2 DEF Produced
      <4>8. /\ AddressesOf(Produced') = AddressesOf(Complete) \cup Addresses(to)
            /\ AddressesOf(Produced) = AddressesOf(Complete) \cup Addresses(pending)
        <5>1. AddressesOf(Complete \cup {to}) = AddressesOf(Complete) \cup AddressesOf({to})
          BY AddressesUnion
        <5>2. AddressesOf(Complete \cup {pending})
                = AddressesOf(Complete) \cup AddressesOf({pending})
          BY AddressesUnion
        <5>3. AddressesOf({to}) = Addresses(to) /\ AddressesOf({pending}) = Addresses(pending)
          BY AddressesOne
        <5> QED
          BY <4>7, <5>1, <5>2, <5>3
      <4>9. AddressesOf(Produced') = AddressesOf(Produced) \cup Addresses(Interval(net))
        BY <4>6, <4>8
      <4> HIDE DEF to
      <4>10. to.first < to.after /\ to.after <= Size[to.family]
        BY <4>2, <4>3, <4>4, <1>2, <1>6
      <4> QED
        BY <4>3, <4>4, <4>5, <4>9, <4>10
    <3> QED
      BY <1>8, <3>1, <3>2
  <2>4. TypeOK'
    <3>1. /\ limit' \in Limits /\ status' \in {"reading", "done", "non-canonical", "invalid"}
          /\ seenIpv6' \in BOOLEAN /\ intervals' \in [Families -> Nat]
          /\ chunk' \in Seq(Intervals) /\ boundaries' \in Nat /\ chunks' \in Seq(Seq(Intervals))
          /\ IF chunk' = <<>> THEN boundaries' = 0 ELSE boundaries' < limit'
      BY <2>1 DEF IInv, TypeOK
    <3> QED
      BY <3>1, <2>3, <1>5 DEF TypeOK
  <2>5. RejectsNonCanonical'
    BY <1>5 DEF RejectsNonCanonical
  <2>6. CoversList'
    <3>1. AddressesOf(Produced) = AddressesOf(Networks)
      BY DEF IInv, CoversList
    <3>2. AddressesOf(Networks') = AddressesOf(Networks) \cup Addresses(Interval(net))
      <4>1. AddressesOf(Networks \cup {Interval(net)})
              = AddressesOf(Networks) \cup AddressesOf({Interval(net)})
        BY AddressesUnion
      <4>2. AddressesOf({Interval(net)}) = Addresses(Interval(net))
        BY AddressesOne
      <4> QED
        BY <1>5, <4>1, <4>2
    <3> QED
      BY <3>1, <3>2, <2>3 DEF CoversList
  <2>7. CompleteIsBehind'
    BY <2>2, <2>3, <1>1 DEF CompleteIsBehind
  <2>8. IntervalsSeparate'
    <3>1. \A i, j \in Complete :
            i.family = j.family /\ i # j => i.after < j.first \/ j.after < i.first
      BY DEF IInv, IntervalsSeparate, Produced
    <3>2. Produced' = Complete \cup {to}
      BY <2>2, <2>3 DEF Produced
    <3>3. \A i \in Complete : i.family = to.family => i.after < to.first
      <4> SUFFICES ASSUME NEW i \in Complete, i.family = to.family PROVE i.after < to.first
        OBVIOUS
      <4>1. i.family < to.family \/ (i.family = to.family /\ i.after < to.first)
        BY <2>2, <2>7 DEF CompleteIsBehind
      <4>2. to.family \in Families
        BY <2>3 DEF Intervals
      <4> QED
        BY <4>1, <4>2 DEF Families
    <3> HIDE DEF to
    <3>4. \A i, j \in Complete \cup {to} :
            i.family = j.family /\ i # j => i.after < j.first \/ j.after < i.first
      BY <3>1, <3>3
    <3> QED
      BY <3>2, <3>4 DEF IntervalsSeparate
  <2>9. PendingEndsWithLastLine'
    BY <2>3, <1>1, LastLine
  <2>10. ChunkIsCounted'
    BY <2>1, <2>2, <2>3 DEF IInv, ChunkIsCounted
  <2> QED
    BY <2>2, <2>4, <2>5, <2>6, <2>7, <2>8, <2>9, <2>10 DEF IInv
<1> QED
  BY <1>7, <1>8

LEMMA ReadNetKeeps ==
    ASSUME IInv, limit' = limit, NEW net \in Nets, ReadNet(net)
    PROVE  IInv'
<1>1. /\ status = "reading" /\ read' = Append(read, net) /\ read \in Seq(Nets)
      /\ PendingEndsWithLastLine /\ Canonical
  BY DEF ReadNet, IInv, TypeOK, RejectsNonCanonical
<1>2. read' \in Seq(Nets)
  BY <1>1, ReadAppend
<1>3. /\ net.family \in Families /\ net.first \in Nat /\ net.size \in Nat
  BY NetTyped
<1>4. /\ pending # None <=> read # <<>>
      /\ pending # None =>
           /\ pending.family = read[Len(read)].family
           /\ pending.after = read[Len(read)].first + read[Len(read)].size
           /\ pending.family = 6 <=> seenIpv6
           /\ pending.family \in Families /\ pending.after \in Nat
      /\ seenIpv6 => pending # None
  BY <1>1, PendingTyped DEF PendingEndsWithLastLine, IInv, TypeOK
<1>5. ASSUME ~Precedes(read[Len(read)], net) \/ ~Aligned(net), read # <<>> \/ ~Aligned(net),
             Reject("non-canonical")
      PROVE  IInv'
  <2>1. ~Canonical'
    BY <1>1, <1>5, CanonicalAppend, LastDecides
  <2> QED
    BY <2>1, <1>2, <1>5, RejectKeeps
<1>6. CASE ~Aligned(net) \/ (net.family = 4 /\ seenIpv6)
  <2>1. Reject("non-canonical")
    BY <1>6 DEF ReadNet
  <2>2. CASE ~Aligned(net)
    BY <2>1, <2>2, <1>5
  <2>3. CASE net.family = 4 /\ seenIpv6
    <3>1. read # <<>> /\ read[Len(read)].family = 6
      BY <2>3, <1>4
    <3>2. ~Precedes(read[Len(read)], net)
      BY <2>3, <3>1 DEF Precedes
    <3> QED
      BY <2>1, <3>1, <3>2, <1>5
  <2> QED
    BY <1>6, <2>2, <2>3
<1>7. CASE Aligned(net) /\ net.family = 6 /\ ~seenIpv6
  <2>1. SwitchFamily(net) /\ seenIpv6' = TRUE /\ status' = status
    BY <1>7 DEF ReadNet
  <2> DEFINE out == Emit(Flush(Out))
  <2>2. Set(out) /\ Flushed(Interval(net)) /\ out = Emit(Flush(Out))
    BY <2>1 DEF SwitchFamily
  <2> HIDE DEF out
  <2>3. pending # None => pending.family = 4
    BY <1>4, <1>7 DEF Families
  <2>4. read # <<>> => Precedes(read[Len(read)], net)
    BY <2>3, <1>4, <1>7 DEF Precedes
  <2>5. pending # None => pending.family < net.family
    BY <2>3, <1>7
  <2> QED
    BY <1>1, <1>7, <2>1, <2>2, <2>4, <2>5, NewIntervalKeeps
<1>8. CASE Aligned(net) /\ (net.family = 6 <=> seenIpv6)
  <2>1. CASE pending # None /\ ~InOrder(net)
    <3>1. Reject("non-canonical")
      BY <1>8, <2>1 DEF ReadNet, Families
    <3>2. read # <<>> /\ ~Precedes(read[Len(read)], net)
      <4>1. read[Len(read)].family = net.family
        BY <1>3, <1>4, <1>8, <2>1 DEF Families
      <4>2. ~(read[Len(read)].family < net.family)
        BY <4>1, <1>3 DEF Families
      <4> QED
        BY <4>2, <1>4, <2>1 DEF Precedes, InOrder
    <3> QED
      BY <3>1, <3>2, <1>5
  <2>2. CASE ~(pending # None /\ ~InOrder(net))
    <3>1. Extend(net) /\ status' = status /\ seenIpv6' = seenIpv6
      BY <1>3, <1>8, <2>2 DEF ReadNet, Families
    <3> QED
      BY <3>1, <2>2, <1>1, <1>8, SameFamilyKeeps
  <2> QED
    BY <2>1, <2>2
<1> QED
  BY <1>3, <1>6, <1>7, <1>8 DEF Families

LEMMA ReadInvalidKeeps ==
    ASSUME IInv, limit' = limit, ReadInvalid
    PROVE  IInv'
<1>1. status = "reading" /\ Reject("invalid") /\ read' = read
  BY DEF ReadInvalid
<1>2. read' \in Seq(Nets) /\ Canonical
  BY <1>1 DEF IInv, TypeOK, RejectsNonCanonical
<1>3. Canonical'
  BY <1>1, <1>2 DEF Canonical
<1> QED
  BY <1>1, <1>2, <1>3, RejectKeeps

LEMMA EndKeeps ==
    ASSUME IInv, limit' = limit, End
    PROVE  IInv'
<1> DEFINE out == Emit(Flush(Out))
<1>1. /\ status = "reading" /\ status' = "done" /\ read' = read /\ seenIpv6' = seenIpv6
      /\ Set(out) /\ Flushed(None) /\ out = Emit(Flush(Out))
  BY DEF End
<1> HIDE DEF out
<1>2. /\ Complete' = Produced
      /\ chunk' \in Seq(Intervals)
      /\ boundaries' \in Nat
      /\ chunks' \in Seq(Seq(Intervals))
      /\ IF chunk' = <<>> THEN boundaries' = 0 ELSE boundaries' < limit'
      /\ intervals' \in [Families -> Nat]
      /\ CountsComplete'
      /\ ChunksFit'
      /\ IsFiniteSet(BoundariesOf(chunk)')
      /\ Cardinality(BoundariesOf(chunk)') <= boundaries'
      /\ chunk' = <<>>
  BY <1>1, FlushKeeps
<1>3. pending' = None
  BY <1>1 DEF Flushed
<1>4. Produced' = Produced
  BY <1>2, <1>3 DEF Produced
<1>5. TypeOK'
  <2>1. limit' \in Limits /\ read' \in Seq(Nets) /\ seenIpv6' \in BOOLEAN
    BY <1>1 DEF IInv, TypeOK
  <2> QED
    BY <2>1, <1>1, <1>2, <1>3 DEF TypeOK
<1>6. RejectsNonCanonical'
  BY <1>1 DEF IInv, RejectsNonCanonical, Canonical
<1>7. CoversList'
  BY <1>1, <1>4 DEF IInv, CoversList, Networks
<1>8. IntervalsSeparate'
  <2>1. \A f \in Families : intervals'[f] = Cardinality({i \in Produced' : i.family = f})
    BY <1>2, <1>4 DEF CountsComplete
  <2> QED
    BY <2>1, <1>4 DEF IInv, IntervalsSeparate
<1>9. ChunkIsCounted'
  BY <1>2, ToSetEmpty DEF ChunkIsCounted
<1> QED
  BY <1>1, <1>2, <1>3, <1>5, <1>6, <1>7, <1>8, <1>9 DEF IInv

-----------------------------------------------------------------------------

\* The invariant holds whatever the list and the size of a batch.
THEOREM InvariantHolds == Spec => []IInv
<1>1. IInv /\ [Next]_vars => IInv'
  <2> SUFFICES ASSUME IInv, [Next]_vars PROVE IInv'
    OBVIOUS
  <2>1. CASE UNCHANGED vars
    BY <2>1, StutterKeeps
  <2>2. CASE Next
    BY <2>2, ReadNetKeeps, ReadInvalidKeeps, EndKeeps DEF Next
  <2> QED
    BY <2>1, <2>2
<1> QED
  BY <1>1, InitInvariant, PTL DEF Spec

\* The state of a stream stays well-formed.
THEOREM TypeCorrect == Spec => []TypeOK
<1>1. IInv => TypeOK
  BY DEF IInv
<1> QED
  BY <1>1, InvariantHolds, PTL

\* Comparing each line with the pending interval finds every list that is not
\* canonical, and no other.
THEOREM NonCanonicalRejected == Spec => []RejectsNonCanonical
<1>1. IInv => RejectsNonCanonical
  BY DEF IInv
<1> QED
  BY <1>1, InvariantHolds, PTL

\* The intervals cover exactly the networks read.
THEOREM ListCovered == Spec => []CoversList
<1>1. IInv => CoversList
  BY DEF IInv
<1> QED
  BY <1>1, InvariantHolds, PTL

\* Intervals do not touch, and are counted exactly.
THEOREM IntervalsCounted == Spec => []IntervalsSeparate
<1>1. IInv => IntervalsSeparate
  BY DEF IInv
<1> QED
  BY <1>1, InvariantHolds, PTL

\* Every chunk handed on is one family's and within the limit.
THEOREM ChunksWithinLimit == Spec => []ChunksFit
<1>1. IInv => ChunksFit
  BY DEF IInv
<1> QED
  BY <1>1, InvariantHolds, PTL

\* A step completes what was growing, or nothing.
LEMMA CompleteGrows ==
    ASSUME IInv, [Next]_vars
    PROVE  Complete' = Complete \/ Complete' = Produced
<1>1. ASSUME UNCHANGED output PROVE Complete' = Complete
  BY <1>1 DEF output, Complete, Handed
<1>2. ASSUME status = "reading", limit' = limit, NEW to, Flushed(to),
             Set(Flush(Out)) \/ Set(Emit(Flush(Out)))
      PROVE  Complete' = Produced
  <2> DEFINE full == Flush(Out)
             sent == Emit(Flush(Out))
  <2>1. CASE Set(full)
    <3>1. full = Flush(Out)
      OBVIOUS
    <3> HIDE DEF full
    <3> QED
      BY <1>2, <2>1, <3>1, FlushKeeps
  <2>2. CASE Set(sent)
    <3>1. sent = Emit(Flush(Out))
      OBVIOUS
    <3> HIDE DEF sent
    <3> QED
      BY <1>2, <2>2, <3>1, FlushKeeps
  <2> QED
    BY <1>2, <2>1, <2>2
<1>3. ASSUME limit' = limit, NEW net \in Nets, ReadNet(net)
      PROVE  Complete' = Complete \/ Complete' = Produced
  <2>1. status = "reading"
    BY <1>3 DEF ReadNet
  <2>2. CASE Reject("non-canonical")
    BY <2>2, <1>1 DEF Reject
  <2>3. CASE SwitchFamily(net)
    BY <1>2, <1>3, <2>1, <2>3 DEF SwitchFamily
  <2>4. CASE Extend(net)
    <3>1. UNCHANGED output \/ (Set(Flush(Out)) /\ Flushed(Interval(net)))
      BY <2>4 DEF Extend, output
    <3> QED
      BY <1>1, <1>2, <1>3, <2>1, <3>1
  <2> QED
    BY <1>3, <2>2, <2>3, <2>4 DEF ReadNet
<1>4. CASE ReadInvalid
  BY <1>4, <1>1 DEF ReadInvalid, Reject
<1>5. ASSUME limit' = limit, End PROVE Complete' = Produced
  BY <1>2, <1>5 DEF End
<1>6. CASE UNCHANGED vars
  BY <1>6, <1>1 DEF vars
<1> QED
  BY <1>3, <1>4, <1>5, <1>6 DEF Next

\* Intervals produced stay proper.
LEMMA ProperKept == IInv /\ IInv' /\ IntervalsProper /\ [Next]_vars => IntervalsProper'
<1> SUFFICES ASSUME IInv, IInv', IntervalsProper, [Next]_vars, NEW i \in Produced'
             PROVE  i.first < i.after /\ i.after <= Size[i.family]'
  BY DEF IntervalsProper
<1>1. Size[i.family]' = Size[i.family]
  BY DEF Size
<1>2. CASE pending' # None /\ i = pending'
  BY <1>2 DEF IInv, TypeOK
<1>3. CASE i \in Complete'
  <2>1. i \in Produced
    BY <1>3, CompleteGrows DEF Produced
  <2> QED
    BY <1>1, <2>1 DEF IntervalsProper
<1> QED
  BY <1>2, <1>3 DEF Produced

LEMMA InitProper == Init => IntervalsProper
<1> SUFFICES ASSUME Init PROVE Produced = {}
  BY DEF IntervalsProper
<1>1. pending = None /\ Len(chunks) = 0 /\ chunk = <<>> /\ 1..0 = {}
  BY DEF Init
<1> QED
  BY <1>1, ToSetEmpty DEF Produced, Complete, Handed

\* Every interval has addresses, and they are addresses of its family.
THEOREM IntervalsAreProper == Spec => []IntervalsProper
BY InvariantHolds, InitProper, ProperKept, PTL DEF Spec

\* Each interval that a list hands on, or would, is decomposed by
\* interval_prefixes into the fewest prefixes, however wide addresses are.
THEOREM PrefixesAlwaysMinimal == Spec => []PrefixesMinimal
<1>1. IInv /\ IntervalsProper => PrefixesMinimal
  <2> SUFFICES ASSUME IInv, IntervalsProper, NEW i \in Produced
               PROVE  IntervalPrefixes(i.family, i.first, i.after - 1, Width[i.family])
                        = Minimal(i.first, i.after - 1, Width[i.family])
    BY DEF PrefixesMinimal
  <2>1. i \in Intervals
    BY CompleteTyped, PendingTyped DEF Produced
  <2>2. i.family \in {4, 6} /\ i.first \in Nat /\ i.after \in Nat
    BY <2>1 DEF Intervals, Families
  <2>3. i.first < i.after /\ i.after <= Size[i.family]
    BY DEF IntervalsProper
  <2>4. Width[i.family] \in Nat /\ Size[i.family] = Pow2[Width[i.family]]
    BY <2>2, BlocklistAssumption DEF Size, Families
  <2> DEFINE end == i.after - 1
             width == Width[i.family]
  <2>5. width \in Nat /\ end \in Nat /\ i.first <= end /\ end < Pow2[width]
    BY <2>2, <2>3, <2>4, Pow2Type
  <2> HIDE DEF end, width
  <2>6. IntervalPrefixes(i.family, i.first, end, width) = Minimal(i.first, end, width)
    BY <2>2, <2>5, PrefixesAreMinimal
  <2> QED
    BY <2>6 DEF end, width
<1> QED
  BY <1>1, InvariantHolds, IntervalsAreProper, PTL
=============================================================================
