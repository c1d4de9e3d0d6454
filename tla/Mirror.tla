------------------------------- MODULE Mirror -------------------------------
(***************************************************************************)
(* What the watcher and the configuration manager promise together: the    *)
(* loaded content of a file is the one it has when it is read, never an    *)
(* earlier one, a file that cannot be loaded leaves what was loaded before, *)
(* and in the end everything that can be loaded is.                        *)
(***************************************************************************)
CONSTANTS
  Path,       \* the files
  Content,    \* what a file may hold
  Loadable,   \* contents that can be loaded, Absent among them
  Absent

VARIABLES
  dir,    \* what each file holds
  view    \* what was loaded from it

mirrorVars == <<dir, view>>

Init ==
  /\ dir \in [Path -> Content]
  /\ view = [p \in Path |-> IF dir[p] \in Loadable THEN dir[p] ELSE Absent]

\* Somebody writes, deletes or renames.
Change ==
  /\ \E p, q \in Path, c \in Content, d \in Content : dir' = [dir EXCEPT ![p] = c, ![q] = d]
  /\ UNCHANGED view

Load(p) ==
  /\ dir[p] \in Loadable
  /\ view' = [view EXCEPT ![p] = dir[p]]
  /\ UNCHANGED dir

\* A deletion may be noticed when the file is there again.
Drop(p) ==
  /\ view' = [view EXCEPT ![p] = Absent]
  /\ UNCHANGED dir

Next == Change \/ \E p \in Path : Load(p) \/ Drop(p)

Spec == Init /\ [][Next]_mirrorVars

FairSpec == Spec /\ \A p \in Path : WF_mirrorVars(Load(p))
=============================================================================
