------------------------------- MODULE Netns -------------------------------
(***************************************************************************)
(* The named network namespaces of the host, as netlink.rs and netns_raw.rs *)
(* see them: a file under /run/netns, the namespaces bind-mounted on it     *)
(* (the last one mounted is the one a path lookup reaches), and the         *)
(* resolv.conf kept under /etc/netns, which survives the namespace.         *)
(*                                                                         *)
(* The content of a configuration file is abstracted to a version number.  *)
(* What a version put into a namespace is remembered per kind of setting,  *)
(* because the code treats the kinds differently: interfaces are set up    *)
(* only at creation, routes are added and never removed, DNS is overwritten.*)
(* Individual netlink commands may fail with a warning and no other effect: *)
(* the model records that a set-up was run, not that each command succeeded.*)
(***************************************************************************)
EXTENDS Naturals, Sequences

CONSTANTS
  Name,      \* full names of namespaces, managed by this daemon or not
  Version    \* contents a configuration file may have

ASSUME VersionAssumption == Version \subseteq Nat \ {0}

VARIABLE kernel

NoVersion == 0

Content == [ifaces : Version \cup {NoVersion}, routes : SUBSET Version]

\* What unshare(CLONE_NEWNET) yields: a namespace with nothing set up.
Bare == [ifaces |-> NoVersion, routes |-> {}]

Entry == [file : BOOLEAN, stack : Seq(Content), dns : Version \cup {NoVersion}]

KernelTypeOK == kernel \in [Name -> Entry]

-----------------------------------------------------------------------------
\* Path::exists: what create, delete, list and ExecAuthorize test.
Exists(n) == kernel[n].file

\* A namespace is really mounted on the file.
Mounted(n) == kernel[n].stack # <<>>

\* list_namespaces reports every file of the directory, mounted on or not.
ListNamespaces == {n \in Name : Exists(n)}

\* File::create: opens the file when somebody made it in the meantime.
CreatePlaceholder(n) == kernel' = [kernel EXCEPT ![n].file = TRUE]

\* The bind mount of a new namespace, over whatever is mounted already.
BindMount(n) ==
  /\ Exists(n)
  /\ kernel' = [kernel EXCEPT ![n].stack = <<Bare>> \o @]

\* unlink fails with EBUSY on a mount point, and the callers ignore or report it.
RemoveFile(n) == kernel' = [kernel EXCEPT ![n].file = Mounted(n)]

\* umount2(MNT_DETACH) of the topmost mount; EINVAL when nothing is mounted.
Unmount(n) ==
  /\ Mounted(n)
  /\ kernel' = [kernel EXCEPT ![n].stack = Tail(@)]

-----------------------------------------------------------------------------
\* The namespace a path lookup reaches gets content c. Without a mount setns
\* fails; the DNS file is written as long as the path exists.
Write(n, c, v) ==
  kernel' = [kernel EXCEPT
    ![n].stack = IF Mounted(n) THEN <<c>> \o Tail(@) ELSE @,
    ![n].dns = IF Exists(n) THEN v ELSE @]

Top(n) == Head(kernel[n].stack)

\* Interfaces, routes and DNS of version v: what a creation sets up.
SetUp(n, v) ==
  Write(n, [ifaces |-> v, routes |-> Top(n).routes \cup {v}], v)

\* Routes and DNS only: what an update re-applies.
ReApply(n, v) ==
  Write(n, [ifaces |-> Top(n).ifaces, routes |-> Top(n).routes \cup {v}], v)

-----------------------------------------------------------------------------
\* `ip netns add` and `ip netns delete`, run by somebody else.
IpNetnsAdd(n) ==
  /\ ~Exists(n)
  /\ kernel' = [kernel EXCEPT ![n].file = TRUE, ![n].stack = <<Bare>>]

IpNetnsDelete(n) ==
  /\ Exists(n)
  /\ kernel' = [kernel EXCEPT ![n].stack = IF Mounted(n) THEN Tail(@) ELSE @,
                              ![n].file = Len(kernel[n].stack) > 1]
=============================================================================
