------------------------------ MODULE MCDaemon ------------------------------
(* Instances of Daemon for TLC.                                            *)
EXTENDS Daemon

CONSTANT a   \* the managed name

Managed1 == {a}
=============================================================================
