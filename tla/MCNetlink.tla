----------------------------- MODULE MCNetlink -----------------------------
(* Instances of the netlink transport for TLC.                             *)
EXTENDS NetlinkSocket

AllOperations == {"list", "up", "create", "configure"}

=============================================================================
