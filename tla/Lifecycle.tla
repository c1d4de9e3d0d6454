----------------------------- MODULE Lifecycle -----------------------------
(***************************************************************************)
(* What the state manager promises about the status it reports, without    *)
(* saying how: a namespace is tracked only while it is wanted, one         *)
(* creation is under way at a time and ends in success or failure, an       *)
(* active namespace never becomes failed, and only failed or unwanted ones *)
(* are forgotten, unless the daemon starts anew.                           *)
(***************************************************************************)
CONSTANT Name

VARIABLES
  status,   \* the reported status of every name
  wanted    \* the names with a loaded configuration

lifecycleVars == <<status, wanted>>

Resting == \A n \in Name : status[n] # "creating"

Init ==
  /\ status = [n \in Name |-> "untracked"]
  /\ wanted \in SUBSET Name

Become(n, s) == status' = [status EXCEPT ![n] = s]

\* A wanted namespace is taken up: created, refused or found in existence.
TakeUp(n) ==
  /\ n \in wanted /\ status[n] = "untracked" /\ Resting
  /\ \E s \in {"creating", "failed", "active"} : Become(n, s)
  /\ UNCHANGED wanted

Finish(n) ==
  /\ status[n] = "creating"
  /\ \E s \in {"failed", "active"} : Become(n, s)
  /\ UNCHANGED wanted

\* A failed one that exists after all is updated to a modified configuration.
Revive(n) ==
  /\ n \in wanted /\ status[n] = "failed" /\ Resting
  /\ Become(n, "active")
  /\ UNCHANGED wanted

Forget ==
  /\ Resting
  /\ \E gone \in SUBSET {n \in Name : n \notin wanted \/ status[n] = "failed"} :
       status' = [n \in Name |-> IF n \in gone THEN "untracked" ELSE status[n]]
  /\ UNCHANGED wanted

\* Configurations come and go, never during a creation.
ChangeOfMind ==
  /\ Resting
  /\ wanted' \in SUBSET Name
  /\ UNCHANGED status

Start ==
  /\ status' = [n \in Name |-> "untracked"]
  /\ wanted' \in SUBSET Name

Next ==
  \/ \E n \in Name : TakeUp(n) \/ Finish(n) \/ Revive(n)
  \/ Forget \/ ChangeOfMind \/ Start

Spec == Init /\ [][Next]_lifecycleVars

\* No creation stays under way.
FairSpec == Spec /\ \A n \in Name : WF_lifecycleVars(Finish(n))
=============================================================================
