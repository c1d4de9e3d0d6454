-------------------------- MODULE MCConfigWatcher --------------------------
(***************************************************************************)
(* Instances of ConfigWatcher: files with names of their own, one of them  *)
(* written with its prefix, and files that contend for one name beside the *)
(* master configuration.                                                   *)
(***************************************************************************)
EXTENDS ConfigWatcher, TLC

Own == ("web" :> <<"none", "w">>) @@ ("dns" :> <<"sw", "d">>)

Contending == ("web" :> <<"none", "w">>) @@ ("dns" :> <<"lab", "w">>)
                @@ ("daemon" :> <<"none", "w">>)
=============================================================================
