-------------------------- MODULE PolicyProperties --------------------------
(***************************************************************************)
(* What a configuration that cidrwall accepts enforces, stated over Policy *)
(* packet by packet.                                                       *)
(***************************************************************************)
EXTENDS Policy

\* Packets: no input packet has left yet, no output packet has entered.
Packets ==
    {p \in [chain : Chains, iif : Interfaces \cup {None}, oif : Interfaces \cup {None},
            src : SUBSET Directions, dst : SUBSET Directions] :
        /\ p.iif = None <=> p.chain = "output"
        /\ p.oif = None <=> p.chain = "input"}

Rule == [chain : Chains, direction : Directions, ingress : Interfaces \cup {None},
         egress : Interfaces \cup {None}, address : {"source", "destination"}]

\* The variables range over the values the code gives them.
TypeOK ==
    /\ config \in Config
    /\ cli \in Cli
    /\ zonesFile \in Documents \cup {None}
    /\ flowtables \subseteq Interfaces
    /\ rewrites \in Nat
    /\ pc \in {"load", "rejected", "cleanup", "print", "printed", "new", "flowtables",
               "xdp", "up"}
    /\ zones \in Documents \cup {None}
    /\ stale \in BOOLEAN
    /\ late \in BOOLEAN
    /\ rules \subseteq Rule
    /\ protected \subseteq Interfaces
    /\ attached \subseteq Interfaces

-----------------------------------------------------------------------------

\* An interface belongs to one of the named zones.
Within(names, interface) ==
    \E z \in names : \E n \in 1..Len(zones) :
        zones[n].name = z /\ interface \in zones[n].interfaces

\* The zones a mapping names have an interface at all.
Constrains(names) == \E i \in Interfaces : Within(names, i)

\* A mapping covers a packet of its chain that enters by one of its ingress
\* zones and leaves by one of its egress zones.
Covers(m, p) ==
    /\ p.chain = m.chain
    /\ Constrains(m.ingress) => Within(m.ingress, p.iif)
    /\ Constrains(m.egress) => Within(m.egress, p.oif)

\* README.md:33-34: alternatives of a zone are an OR, ingress and egress are an
\* AND.  The rules drop a packet exactly when a mapping covers it and the list of
\* the mapping has its source (inbound) or its destination (outbound); --check
\* prints the same rules.  A side whose zones have no interface between them
\* constrains nothing, as a side that names no zone: the README does not say so,
\* rules.rs:26-35 does it, and Covers takes it over.
RulesMatchMappings ==
    pc \in {"printed", "up"} =>
        /\ \A r \in rules : r.address = LookupField(r.direction)
        /\ \A p \in Packets :
             (\E r \in rules : Drops(r, p))
               <=> \E m \in config.rules :
                     /\ Covers(m, p)
                     /\ m.blocklist = "in" => "in" \in p.src
                     /\ m.blocklist = "out" => "out" \in p.dst

\* README.md:57-60: what enters on an interface of the XDP manager is not looked
\* up again by an inbound rule of the input or forward chain, unless that is
\* allowed, or the zones file changed between validate and Daemon::new, which
\* reads it again without looking for overlaps.
NoDoubleEnforcement ==
    pc = "up" /\ ~config.allowOverlap /\ ~stale =>
        \A r \in rules, p \in Packets :
            Jumps(r, p) /\ r.direction = "in" /\ p.chain # "output" => p.iif \notin attached

\* README.md:63-65: a forwarded packet that a rule looks up neither enters nor
\* leaves on an interface of a flowtable, whose flows skip the forward chain,
\* unless that is allowed, or a flowtable changed after the check.
NoFlowtableBypass ==
    pc = "up" /\ ~config.allowBypass /\ ~late =>
        \A r \in rules, p \in Packets :
            Jumps(r, p) /\ p.chain = "forward"
                => p.iif \notin flowtables /\ p.oif \notin flowtables

\* README.md:67-68: every list that a rule or the XDP manager enforces has a
\* file.
EnforcedHasFile ==
    pc = "up" => /\ \A r \in rules : r.direction \in config.files
                 /\ attached # {} => "in" \in config.files
=============================================================================
