-------------------------------- MODULE MCNft --------------------------------
(* Instances of NftDaemon for TLC. *)
EXTENDS NftProperties, TLC

\* two chunks, a malformed line after the first chunk, no file
MCShapes == {"two", "bad", "missing"}
MCFewShapes == {"two", "bad"}
MCChunks == [s \in MCShapes |->
               CASE s = "two" -> 2 [] s = "bad" -> 1 [] s = "missing" -> 0]
MCFewChunks == [s \in MCFewShapes |-> MCChunks[s]]

InboundOnly == {{"in"}}
BothDirections == {{"in", "out"}}
InboundAlways == {{"in", "out"}, {"in"}}
AnyDirections == (SUBSET Directions) \ {{}}

Adverse(starts, crashes, rejects, unacked, tampers, events) ==
    [start |-> starts, crash |-> crashes, reject |-> rejects,
     unacked |-> unacked, tamper |-> tampers, event |-> events]

QuietBudget == Adverse(2, 1, 1, 0, 0, 1)
TamperBudget == Adverse(2, 1, 0, 1, 1, 1)
CleanStart == Adverse(1, 0, 0, 0, 0, 0)
LiveBudget == Adverse(1, 0, 0, 1, 1, 0)
TwoTampers == Adverse(1, 0, 0, 0, 2, 0)
=============================================================================
