----------------------------- MODULE MCReadHandle -----------------------------
(* Configuration for ReadHandle.                                             *)
EXTENDS ReadHandle

MCChunks == {0, 1, 2}
===============================================================================
