------------------------------ MODULE MCExistence ------------------------------
(* Configuration for Existence, which is finite as it is.                      *)
EXTENDS Existence
================================================================================
