----------------------------- MODULE MCBlocklist -----------------------------
(* Instances of Blocklist for TLC. *)
EXTENDS Blocklist

\* Eight IPv4 and eight IPv6 addresses.
MCWidth == [f \in Families |-> 3]
=============================================================================
