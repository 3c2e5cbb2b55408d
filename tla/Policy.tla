------------------------------- MODULE Policy -------------------------------
(***************************************************************************)
(* What is enforced where: main of src/src/main.rs, Config::load and       *)
(* validate of config.rs, zones of zones.rs, the expansion of rules.rs,    *)
(* Daemon::new of daemon.rs, and the base and dispatch rules and the       *)
(* flowtable check of netlink.rs.                                          *)
(*                                                                         *)
(* A packet is described by its chain, its interfaces, and by the block    *)
(* lists that contain its source and its destination.  The rules of both   *)
(* address families are alike and count as one.                            *)
(***************************************************************************)
EXTENDS Naturals, Sequences, FiniteSets

CONSTANTS
    Interfaces,
    InvalidInterfaces,  \* empty names, or names with a NUL byte
    Names,              \* zone names
    LocalNames,         \* LOCAL in any case
    BlankNames,
    Documents,          \* what a zones table or file may hold, as entries
    Configurations,     \* what cidrwall.toml may hold
    Overrides,          \* what the command line may override
    MaxRewrites,        \* bound: changes of the zones file and of flowtables
    None

Directions == {"in", "out"}
Chains == {"input", "forward", "output"}

\* RuleMapping with its list, XdpRule, and ZoneEntry.
Mapping == [chain : Chains, blocklist : Directions,
            ingress : SUBSET Names, egress : SUBSET Names]
XdpRule == [blocklist : Directions, ingress : SUBSET Names]
ZoneEntry == [name : Names, interfaces : SUBSET Interfaces, local : BOOLEAN]

\* Config, without what does not decide where a list is enforced; numbers out
\* of range and ill-formed names make it not `sane`.
Config == [files : SUBSET Directions, zonesFile : BOOLEAN, zones : Documents \cup {None},
           rules : SUBSET Mapping, xdp : SUBSET XdpRule, sane : BOOLEAN,
           allowOverlap : BOOLEAN, allowBypass : BOOLEAN]
Modes == {"run", "check", "cleanup"}
Cli == [mode : Modes, files : SUBSET Directions, zonesFile : BOOLEAN,
        allowBypass : BOOLEAN \cup {None}]

ASSUME PolicyAssumption ==
    /\ InvalidInterfaces \subseteq Interfaces
    /\ LocalNames \subseteq Names
    /\ BlankNames \subseteq Names
    /\ Documents \subseteq Seq(ZoneEntry)
    /\ None \notin Documents
    /\ None \notin Interfaces
    /\ None \notin BOOLEAN
    /\ Configurations \subseteq Config
    /\ Overrides \subseteq Cli
    /\ MaxRewrites \in Nat

VARIABLES
    config,     \* the configuration, with its overrides once it is loaded
    cli,
    zonesFile,  \* what the zones file holds now, None when it cannot be read
    flowtables, \* interfaces that flowtables contain
    rewrites,
    pc,         \* what cidrwall does next
    zones,      \* history: the zones the daemon was built from
    stale,      \* history: the zones file changed between its two readings
    late,       \* history: a flowtable changed after the check
    rules,      \* Daemon::rules
    protected,  \* Daemon::protected
    attached    \* interfaces of the XDP manager

host == <<zonesFile, flowtables, rewrites, stale, late>>
daemon == <<zones, rules, protected, attached>>
vars == <<config, cli, pc, host, daemon>>

-----------------------------------------------------------------------------
(* Zones                                                                   *)

Local(entry) == entry.local \/ entry.name \in LocalNames

\* Zones::from_entries accepts a document.
ValidZones(doc) ==
    /\ \A n \in 1..Len(doc) :
         /\ doc[n].name \notin BlankNames
         /\ Local(doc[n]) \/ doc[n].interfaces # {}
         /\ doc[n].interfaces \cap InvalidInterfaces = {}
    /\ \A n, m \in 1..Len(doc) : doc[n].name = doc[m].name => n = m

Known(doc, names) == \A z \in names : \E n \in 1..Len(doc) : doc[n].name = z

Members(doc, names) == {n \in 1..Len(doc) : doc[n].name \in names}

\* Zones::expand accepts names.
MutExpandable(doc, names, forward) == Known(doc, names)

Expandable(doc, names, forward) ==
    /\ Known(doc, names)
    /\ forward => \A n \in Members(doc, names) : ~Local(doc[n])

Expand(doc, names) == UNION {doc[n].interfaces : n \in Members(doc, names)}

\* Zones::resolve_one accepts a mapping.
Resolvable(doc, m) ==
    /\ CASE m.chain = "input" -> m.egress = {}
         [] m.chain = "output" -> m.ingress = {}
         [] m.chain = "forward" -> m.ingress # {} /\ m.egress # {}
    /\ Expandable(doc, m.ingress, m.chain = "forward")
    /\ Expandable(doc, m.egress, m.chain = "forward")

-----------------------------------------------------------------------------
(* Configuration                                                           *)

\* Zones of the configuration are checked while it is parsed, used or not.
Parses(c) == c.zones # None => ValidZones(c.zones)

\* Config::load: the command line and the environment win, and a zones path
\* given there replaces zones defined in the configuration.
Overridden(c, o) ==
    [c EXCEPT !.files = @ \cup o.files,
              !.zonesFile = IF o.zonesFile THEN TRUE ELSE @,
              !.zones = IF o.zonesFile THEN None ELSE @,
              !.allowBypass = IF o.allowBypass = None THEN @ ELSE o.allowBypass]

\* Config::load_zones; None when it fails.
LoadZones(c) ==
    LET doc == IF c.zonesFile THEN zonesFile ELSE c.zones
    IN IF c.zonesFile = (c.zones # None) \/ doc = None THEN None
       ELSE IF ValidZones(doc) THEN doc ELSE None

UsesNftables(c) == {m.blocklist : m \in c.rules}
MutUses(c) == UsesNftables(c)
Uses(c) == UsesNftables(c) \cup {x.blocklist : x \in c.xdp}

XdpInterfaces(doc, c) == UNION {Expand(doc, x.ingress) : x \in c.xdp}

MutOverlaps(doc, c) ==
    \E m \in c.rules :
        /\ m.blocklist = "in"
        /\ m.chain # "output"
        /\ Expand(doc, m.ingress) \cap XdpInterfaces(doc, c) # {}

\* An nftables rule would look up inbound packets that XDP has looked up.
Overlaps(doc, c) ==
    \E m \in c.rules :
        /\ m.blocklist = "in"
        /\ m.chain # "output"
        /\ \/ Expand(doc, m.ingress) = {}
           \/ Expand(doc, m.ingress) \cap XdpInterfaces(doc, c) # {}

\* Config::validate after its checks of numbers and names (`sane`).  Mappings are
\* resolved here only where the overlap has to be known; otherwise Daemon::new
\* is the first to do it.
Valid(c) ==
    /\ c.rules # {} \/ c.xdp # {}
    /\ \A x \in c.xdp : x.blocklist = "in" /\ x.ingress # {}
    /\ Uses(c) \subseteq c.files
    /\ LoadZones(c) # None
    /\ LET doc == LoadZones(c) IN
         /\ \A x \in c.xdp : Expandable(doc, x.ingress, FALSE)
         /\ ~c.allowOverlap /\ XdpInterfaces(doc, c) # {}
              => /\ \A m \in c.rules : Resolvable(doc, m)
                 /\ ~Overlaps(doc, c)

-----------------------------------------------------------------------------
(* Rules                                                                   *)

\* One alternative, with None for no constraint.
Alternatives(interfaces) == IF interfaces = {} THEN {None} ELSE interfaces

\* The address of a packet that a list of a direction is about, as printed ...
AddressField(direction) == IF direction = "in" THEN "source" ELSE "destination"

\* render: one rule for every pair of interfaces.
Rendered(m, ingress, egress) ==
    {[chain |-> m.chain, direction |-> m.blocklist, ingress |-> i, egress |-> e,
      address |-> AddressField(m.blocklist)] :
        i \in Alternatives(ingress), e \in Alternatives(egress)}

MutRender(doc, mappings) ==
    UNION {Rendered(m, Expand(doc, m.ingress), {}) : m \in mappings}

Render(doc, mappings) ==
    UNION {Rendered(m, Expand(doc, m.ingress), Expand(doc, m.egress)) : m \in mappings}

\* ... and as add_lookup_rule of netlink.rs reads it.
LookupField(direction) == IF direction = "in" THEN "source" ELSE "destination"

MutProtected(rs) == {r.egress : r \in rs} \ {None}
MutProtectedAll(rs) == {r.ingress : r \in rs} \cup {r.egress : r \in rs}

\* What flowtables must not contain.
Protected(rs) == ({r.ingress : r \in rs} \cup {r.egress : r \in rs}) \ {None}

\* add_base_rules and add_lookup_rule: the constraints of a rule are ANDed, and
\* the dispatch chain it jumps to drops an address that its set contains.
Constrained(constraint, interface) == constraint = None \/ constraint = interface

Jumps(r, p) ==
    /\ p.chain = r.chain
    /\ Constrained(r.ingress, p.iif)
    /\ Constrained(r.egress, p.oif)

Drops(r, p) ==
    /\ Jumps(r, p)
    /\ r.direction \in (IF LookupField(r.direction) = "source" THEN p.src ELSE p.dst)

-----------------------------------------------------------------------------
(* A run of cidrwall                                                       *)

\* main: Config::load, and what the command line asks for.
Load ==
    /\ pc = "load"
    /\ config' = Overridden(config, cli)
    /\ pc' = IF ~Parses(config) \/ ~config.sane THEN "rejected"
             ELSE IF cli.mode = "cleanup" THEN "cleanup"
             ELSE IF ~Valid(config') THEN "rejected"
             ELSE IF cli.mode = "check" THEN "print" ELSE "new"
    /\ UNCHANGED <<cli, host, daemon>>

\* --check prints the rules, then resolves the XDP interfaces and prints them;
\* flowtables and the kernel it does not look at.
PrintRules ==
    /\ pc = "print"
    /\ LET doc == LoadZones(config) IN
         IF doc # None /\ \A m \in config.rules : Resolvable(doc, m)
         THEN /\ zones' = doc
              /\ rules' = Render(doc, config.rules)
              /\ pc' = IF \A x \in config.xdp : Expandable(doc, x.ingress, FALSE)
                       THEN "printed" ELSE "rejected"
         ELSE pc' = "rejected" /\ UNCHANGED <<zones, rules>>
    /\ UNCHANGED <<config, cli, host, protected, attached>>

\* Daemon::new reads the zones once more.
NewDaemon ==
    /\ pc = "new"
    /\ LET doc == LoadZones(config) IN
         IF doc # None /\ \A m \in config.rules : Resolvable(doc, m)
         THEN /\ zones' = doc
              /\ rules' = Render(doc, config.rules)
              /\ protected' = Protected(rules')
              /\ pc' = IF rules' # {} THEN "flowtables" ELSE "xdp"
         ELSE pc' = "rejected" /\ UNCHANGED <<zones, rules, protected>>
    /\ UNCHANGED <<config, cli, host, attached>>

\* check_flowtables
CheckFlowtables ==
    /\ pc = "flowtables"
    /\ pc' = IF ~config.allowBypass /\ flowtables \cap protected # {}
             THEN "rejected" ELSE "xdp"
    /\ late' = FALSE
    /\ UNCHANGED <<config, cli, zonesFile, flowtables, rewrites, stale, daemon>>

\* The XDP manager, and then the rules are enforced.
StartXdp ==
    /\ pc = "xdp"
    /\ \A x \in config.xdp : Expandable(zones, x.ingress, FALSE)
    /\ attached' = XdpInterfaces(zones, config)
    /\ pc' = "up"
    /\ UNCHANGED <<config, cli, host, zones, rules, protected>>

StartXdpFails ==
    /\ pc = "xdp"
    /\ \E x \in config.xdp : ~Expandable(zones, x.ingress, FALSE)
    /\ pc' = "rejected"
    /\ UNCHANGED <<config, cli, host, daemon>>

RewriteZones ==
    /\ rewrites > 0
    /\ rewrites' = rewrites - 1
    /\ \E doc \in Documents \cup {None} : zonesFile' = doc
    /\ stale' = (stale \/ pc \in {"print", "new"})
    /\ UNCHANGED <<config, cli, pc, flowtables, late, daemon>>

ChangeFlowtables ==
    /\ rewrites > 0
    /\ rewrites' = rewrites - 1
    /\ \E i \in Interfaces \ InvalidInterfaces :
         flowtables' = IF i \in flowtables THEN flowtables \ {i} ELSE flowtables \cup {i}
    /\ late' = TRUE
    /\ UNCHANGED <<config, cli, pc, zonesFile, stale, daemon>>

Init ==
    /\ config \in Configurations
    /\ cli \in Overrides
    /\ zonesFile \in Documents \cup {None}
    /\ flowtables \in {{i} : i \in Interfaces \ InvalidInterfaces} \cup {{}}
    /\ rewrites = MaxRewrites
    /\ pc = "load"
    /\ zones = None
    /\ stale = FALSE
    /\ late = FALSE
    /\ rules = {}
    /\ protected = {}
    /\ attached = {}

Next ==
    \/ Load \/ PrintRules \/ NewDaemon \/ CheckFlowtables \/ StartXdp \/ StartXdpFails
    \/ RewriteZones \/ ChangeFlowtables

Spec == Init /\ [][Next]_vars
=============================================================================
