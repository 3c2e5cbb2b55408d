----------------------------- MODULE MCWatcher ------------------------------
(* Instances of Watcher for TLC. *)
EXTENDS WatcherProperties, TLC
=============================================================================
