----------------------------- MODULE MCWriteHandle -----------------------------
(* WriteHandle on one handle that can write more than once; and on two that *)
(* race for one path.  The overflow guard of Write bounds the bytes.        *)
EXTENDS WriteHandle, TLC

HandleSymmetry == Permutations(Handles)
================================================================================
