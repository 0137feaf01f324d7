---------------------------- MODULE MCOperatorCache ----------------------------
(* Configurations for OperatorCache.  Option 1 is a service key, option 2   *)
(* a cross-service one such as retry.max_times.                             *)
EXTENDS OperatorCache

CONSTANTS v1, v2

Empty == <<>>
NoSecret == [config |-> Empty, options |-> Empty]

\* SET GLOBAL of option 2 to one of two values.
MCGlobals == {2 :> v1, 2 :> v2}

\* No secret, or one with a service key that also overrides the global option.
MCSecrets == {NoSecret, [config |-> 1 :> v1, options |-> 2 :> v1]}

\* A service map that holds the name of a cross-service option.
CollidingGlobals == {Empty, 2 :> v1}
CollidingSecrets == {NoSecret, [config |-> 2 :> v1, options |-> Empty]}

Symmetry == Permutations(Threads) \cup Permutations(Ops) \cup Permutations(Targets)
================================================================================
