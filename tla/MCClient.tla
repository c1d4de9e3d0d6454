----------------------------- MODULE MCClient -----------------------------
(***************************************************************************)
(* Scenes for Client: one command among the events around it, or two       *)
(* commands on one namespace, called by two of its names.                  *)
(***************************************************************************)
EXTENDS Client, TLC

Names == {"web", "sw-web", "9web"}
Prefixed == ("web" :> "sw-web") @@ ("sw-web" :> "sw-web") @@ ("9web" :> "9web")

Asks(command, name) == [command |-> command, name |-> name]
Wishes(one, two) == ("alice" :> one) @@ ("root" :> two)
Helpers(environment, standard) ==
  [p \in {Places[i] : i \in DOMAIN Places} |->
     CASE p = "environment" -> environment [] p = "standard" -> standard [] OTHER -> "absent"]

Everything == {"alice", "root"} \X {"exec", "delete", "status", "manage"}

Alone == [wish |-> Wishes(Asks("exec", "web"), Asks("exec", "web")), away |-> {"root"},
          rules |-> Everything, helpers |-> Helpers("absent", "setuid"),
          bus |-> TRUE, authorizer |-> TRUE, events |-> 2]
Of(command, name) == [Alone EXCEPT !.wish["alice"] = Asks(command, name)]
ByRoot(scene) == [scene EXCEPT !.wish["root"] = scene.wish["alice"], !.away = {"alice"}]
Denied(scene) == [scene EXCEPT !.rules = {}]

Together(one, two) ==
  [Alone EXCEPT !.wish = Wishes(one, two), !.away = {}, !.events = 0]

Scenes ==
  {Of("exec", "web"), Denied(Of("exec", "sw-web")), ByRoot(Denied(Of("exec", "web"))),
   Of("restart", "sw-web"), Denied(Of("restart", "web")), ByRoot(Denied(Of("restart", "web"))),
   Of("status", "web"), Of("list", "web"), Of("reload", "web"), Of("exec", "9web"), Of("restart", "9web"),
   [Of("exec", "web") EXCEPT !.helpers = Helpers("absent", "absent")],
   [Of("exec", "web") EXCEPT !.helpers = Helpers("plain", "setuid")],
   ByRoot([Of("exec", "web") EXCEPT !.helpers = Helpers("plain", "setuid")]),
   [Of("exec", "web") EXCEPT !.bus = FALSE],
   [Of("restart", "web") EXCEPT !.authorizer = FALSE],
   Together(Asks("exec", "web"), Asks("restart", "sw-web"))}
=============================================================================
