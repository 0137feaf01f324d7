---------------------------- MODULE MCSchemeDispatch ----------------------------
(* Two threads; names of one character, in both cases and between any separators. *)
EXTENDS SchemeDispatch, TLC

MCPaths == {"s://b/x", "S://b/y", "g://b/x", "no/url"}
MCSchemeOf ==
  ("s://b/x" :> <<"s">>) @@ ("S://b/y" :> <<"s">>) @@ ("g://b/x" :> <<"g">>)
    @@ ("no/url" :> <<>>)
MCCsvs ==
  {<<>>, <<"s">>, <<"S", ",">>, <<",", " ", "g">>, <<"s", ",", "G">>, <<"s", "g">>}
MCLower == ("s" :> "s") @@ ("S" :> "s") @@ ("g" :> "g") @@ ("G" :> "g")
================================================================================
