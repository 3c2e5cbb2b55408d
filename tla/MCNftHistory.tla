---------------------------- MODULE MCNftHistory ----------------------------
(* Instances of NftHistory for TLC. *)
EXTENDS NftHistory, MCNft
=============================================================================
