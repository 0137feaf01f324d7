---------------------------- MODULE SharedOperators ----------------------------
(***************************************************************************)
(* What the operator cache promises, with nothing of how: a table of       *)
(* shared objects, one for each name, from which callers borrow.  Who      *)
(* borrows a name gets, in one step, the object in the table, or puts a    *)
(* fresh one there and gets that.  An entry is never replaced, and the     *)
(* table is emptied once, after the last borrower has returned its object. *)
(***************************************************************************)
CONSTANTS Borrowers, Names, Objects, None

VARIABLES table, lent, open

sharedVars == <<table, lent, open>>

Init ==
  /\ table = [n \in Names |-> None]
  /\ lent = [b \in Borrowers |-> None]
  /\ open = TRUE

Lend(b, n, o) == lent[b] = None /\ lent' = [lent EXCEPT ![b] = [name |-> n, object |-> o]]

InTable(o) == \E n \in Names : table[n] = o

BorrowPresent(b, n) ==
  /\ open
  /\ table[n] # None
  /\ Lend(b, n, table[n])
  /\ UNCHANGED <<table, open>>

BorrowFresh(b, n, o) ==
  /\ open
  /\ table[n] = None /\ ~InTable(o)
  /\ table' = [table EXCEPT ![n] = o]
  /\ Lend(b, n, o)
  /\ UNCHANGED open

Return(b) ==
  /\ lent[b] # None
  /\ lent' = [lent EXCEPT ![b] = None]
  /\ UNCHANGED <<table, open>>

Close ==
  /\ open
  /\ \A b \in Borrowers : lent[b] = None
  /\ open' = FALSE
  /\ table' = [n \in Names |-> None]
  /\ UNCHANGED lent

Next ==
  \/ \E b \in Borrowers, n \in Names :
       BorrowPresent(b, n) \/ \E o \in Objects : BorrowFresh(b, n, o)
  \/ \E b \in Borrowers : Return(b)
  \/ Close

Spec == Init /\ [][Next]_sharedVars
================================================================================
