----------------------------- MODULE MCMutations -----------------------------
(* Configurations for Mutations.                                            *)
EXTENDS Mutations, TLC

CONSTANTS temporary, target, other

MCPaths == {temporary, target, other}
MCTree == {temporary, target}

\* A file system, an object store, one that can copy but not delete, one that can do nothing.
MCServices == {{"rename", "copy", "delete"}, {"copy", "delete"}, {"copy"}, {}}

Symmetry == Permutations(Clients) \cup Permutations(Configs) \cup Permutations(MCTree)
==============================================================================
