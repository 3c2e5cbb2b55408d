-------------------------------- MODULE MCXdp --------------------------------
(* Instances of Xdp for TLC. *)
EXTENDS XdpProperties, TLC

\* Two IPv4 addresses and one IPv6 address.
MCAddresses == {"a4", "b4", "c6"}
MCV4 == {"a4", "b4"}

\* two lists with a common address, one that exceeds the IPv4 capacity, and one
\* with a malformed line after its first address
MCShapes == {"mixed", "small", "big", "bad"}
MCContent == [s \in MCShapes |->
    CASE s = "mixed" -> {"a4", "c6"} [] s = "small" -> {"a4"}
      [] s = "big" -> {"a4", "b4"} [] s = "bad" -> {"b4"}]
MCFewShapes == {"mixed", "small", "bad"}
MCFewContent == [s \in MCFewShapes |-> MCContent[s]]
MCEntries == [f \in Families |-> 1]

MCInterfaces == {"eth0", "eth1"}
TwoConfigs == {{"eth0"}, {"eth0", "eth1"}}
OneConfig == {{"eth0"}}

Adverse(starts, crashes, rejects, cleanups, partials, vanishing) ==
    [start |-> starts, crash |-> crashes, reject |-> rejects,
     cleanup |-> cleanups, partial |-> partials, vanish |-> vanishing]

FaultBudget == Adverse(2, 1, 1, 1, 0, 1)
CleanStart == Adverse(1, 0, 0, 0, 0, 0)
PartialCleanup == Adverse(2, 1, 0, 1, 1, 0)
Removal == Adverse(1, 0, 0, 0, 0, 1)
=============================================================================
