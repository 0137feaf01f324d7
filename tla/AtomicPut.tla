------------------------------- MODULE AtomicPut -------------------------------
(***************************************************************************)
(* What a write handle promises, with nothing of how: several puts to one  *)
(* object.  A put collects acknowledged bytes and commits at most once, in *)
(* one step that makes exactly those bytes the object.  DuckDB is told     *)
(* "ok" only of a committed put, and a put it was told has "failed" never  *)
(* commits afterwards.  A put may commit and then be reported as failed    *)
(* (the answer was lost), and may commit or be dropped without a report    *)
(* (its handle was destroyed).                                             *)
(*                                                                         *)
(* A call that throws without having done anything ("thrown": a guard      *)
(* refused it, or the logger of the file system failed) decides nothing:   *)
(* the put goes on and may yet commit.  One that throws in the middle of   *)
(* its bookkeeping leads the put astray: it may commit bytes that were not *)
(* acknowledged, and more than once.                                       *)
(***************************************************************************)
EXTENDS Integers

CONSTANTS Puts, MaxLen, Nobody

VARIABLES put, object

putVars == <<put, object>>

Put == [phase: {"new", "open", "committed", "dropped"}, len: 0..MaxLen,
        told: {"pending", "thrown", "ok", "failed"}, astray: BOOLEAN]

Init ==
  /\ put = [p \in Puts |-> [phase |-> "new", len |-> 0, told |-> "pending", astray |-> FALSE]]
  /\ object = [by |-> Nobody, len |-> 0, torn |-> FALSE]

Undecided(p) == put[p].told \in {"pending", "thrown"}

Begin(p) ==
  /\ put[p].phase = "new" /\ put[p].told = "pending"
  /\ \E told \in {"pending", "failed"} :
       put' = [put EXCEPT ![p] = [@ EXCEPT !.phase = "open", !.told = told]]
  /\ UNCHANGED object

\* A put is over once it is committed, unless it went astray.
Going(p) == put[p].phase = "open" \/ (put[p].astray /\ put[p].phase = "committed")

Extend(p) ==
  /\ Going(p) /\ Undecided(p)
  /\ \E len \in put[p].len..MaxLen : put' = [put EXCEPT ![p].len = len]
  /\ UNCHANGED object

Commit(p) ==
  /\ Going(p) /\ Undecided(p)
  /\ put' = [put EXCEPT ![p].phase = "committed"]
  /\ \E torn \in {FALSE, put[p].astray} :
       object' = [by |-> p, len |-> put[p].len, torn |-> torn]

Drop(p) ==
  /\ put[p].phase = "open"
  /\ put' = [put EXCEPT ![p].phase = "dropped"]
  /\ UNCHANGED object

Throw(p) ==
  /\ put[p].phase # "new" /\ Undecided(p)
  /\ \E astray \in {put[p].astray, TRUE} :
       put' = [put EXCEPT ![p] = [@ EXCEPT !.told = "thrown", !.astray = astray]]
  /\ UNCHANGED object

Succeed(p) ==
  /\ put[p].phase = "committed" /\ Undecided(p)
  /\ put' = [put EXCEPT ![p].told = "ok"]
  /\ UNCHANGED object

Fail(p) ==
  /\ Undecided(p)
  /\ \E phase \in {put[p].phase} \cup (IF put[p].phase = "open" THEN {"dropped"} ELSE {}) :
       put' = [put EXCEPT ![p] = [@ EXCEPT !.phase = phase, !.told = "failed"]]
  /\ UNCHANGED object

Next ==
  \E p \in Puts :
    Begin(p) \/ Extend(p) \/ Commit(p) \/ Drop(p) \/ Throw(p) \/ Succeed(p) \/ Fail(p)

Spec == Init /\ [][Next]_putVars
================================================================================
