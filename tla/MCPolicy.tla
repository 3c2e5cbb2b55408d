------------------------------ MODULE MCPolicy ------------------------------
(* Instances of Policy for TLC. *)
EXTENDS PolicyProperties, TLC

MCInterfaces == {"eth0", "eth1", "nul"}
MCNames == {"WAN", "LAN", "LOCAL", "self", "ghost", "blank"}

Zone(name, interfaces, local) == [name |-> name, interfaces |-> interfaces, local |-> local]

LocalZone == Zone("LOCAL", {}, FALSE)
Plain == <<Zone("WAN", {"eth0"}, FALSE), Zone("LAN", {"eth1"}, FALSE), LocalZone>>
Small == <<Zone("WAN", {"eth1"}, FALSE), LocalZone>>
Wide == <<Zone("WAN", {"eth0", "eth1"}, FALSE), Zone("LAN", {"eth1"}, TRUE), LocalZone>>

MCDocuments == {
    Plain, Small, Wide,
    <<Zone("WAN", {"eth0"}, FALSE), Zone("WAN", {"eth1"}, FALSE)>>,
    <<Zone("WAN", {}, FALSE)>>,
    <<Zone("WAN", {"nul"}, FALSE)>>,
    <<Zone("blank", {"eth0"}, FALSE)>>}

NameSets == {{}, {"WAN"}, {"LAN"}, {"WAN", "LAN"}, {"LOCAL"}, {"WAN", "LOCAL"}, {"ghost"}}
Mappings == [chain : Chains, blocklist : Directions, ingress : NameSets, egress : NameSets]

OutboundForward == [chain |-> "forward", blocklist |-> "out",
                    ingress |-> {"LAN"}, egress |-> {"WAN"}]
RuleSets == {{}} \cup {{m} : m \in Mappings} \cup
            {{m, OutboundForward} : m \in {x \in Mappings : x.egress = {}}}

Xdp(direction, names) == {[blocklist |-> direction, ingress |-> names]}
XdpSets == {{}, Xdp("in", {"WAN"}), Xdp("in", {"LOCAL"}), Xdp("in", {}), Xdp("out", {"WAN"}),
            Xdp("in", {"WAN"}) \cup Xdp("in", {"LAN"})}

Configured(files, file, doc, rs, xs, overlap, bypass) ==
    [files |-> files, zonesFile |-> file, zones |-> doc, rules |-> rs, xdp |-> xs,
     sane |-> TRUE, allowOverlap |-> overlap, allowBypass |-> bypass]

\* Zones in a file, every mapping, every XDP rule; zones in the configuration;
\* a number out of range.
MCConfigurations ==
    {[Configured(Directions, TRUE, None, {OutboundForward}, {}, FALSE, FALSE)
        EXCEPT !.sane = FALSE]}
    \cup {Configured(Directions, TRUE, None, rs, xs, FALSE, FALSE) : rs \in RuleSets, xs \in XdpSets}
    \cup {Configured(fs, file, doc, {m}, xs, overlap, bypass) :
            fs \in SUBSET Directions, file \in BOOLEAN, doc \in {None, Plain},
            m \in {x \in Mappings : x.ingress = {"WAN"} /\ x.egress \in {{}, {"LAN"}}},
            xs \in {{}, Xdp("in", {"WAN"})}, overlap \in BOOLEAN, bypass \in BOOLEAN}

Option(mode, files, file, bypass) ==
    [mode |-> mode, files |-> files, zonesFile |-> file, allowBypass |-> bypass]
MCOverrides == {
    Option("run", {}, FALSE, None), Option("run", {"in"}, TRUE, FALSE),
    Option("check", {}, FALSE, None), Option("cleanup", {}, FALSE, None)}
=============================================================================
