--------------------------------- MODULE Inputs ---------------------------------
(***************************************************************************)
(* The functions without a state of their own, on every input: the         *)
(* patterns of Globs, the texts of Urls and the options of OperatorConfig. *)
(* A behaviour builds an input of one of the three; the others stay empty. *)
(***************************************************************************)
EXTENDS Globs, Urls, OperatorConfig

VARIABLE input

vars == <<input, glob, tokens, scheme, text, drawn, options>>

Init ==
  /\ NoPattern /\ NoText /\ NoOptions
  /\ input \in {"pattern", "url", "options"}
  /\ input # "url" => scheme = CHOOSE s \in Schemes : TRUE

Next ==
  \/ input = "pattern" /\ MorePattern /\ UNCHANGED <<input, scheme, text, drawn, options>>
  \/ input = "url" /\ MoreText /\ UNCHANGED <<input, glob, tokens, options>>
  \/ input = "options" /\ MoreOptions /\ UNCHANGED <<input, glob, tokens, scheme, text, drawn>>

Spec == Init /\ [][Next]_vars
================================================================================
