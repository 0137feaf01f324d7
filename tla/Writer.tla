-------------------------------- MODULE Writer --------------------------------
(***************************************************************************)
(* The Rust half of a write handle (opendal/src/writer.rs): a set of       *)
(* OdWriters, one per write handle, all aimed at the same object, and the  *)
(* storage service behind them.                                            *)
(*                                                                         *)
(* Every od_writer_* call runs to completion on the calling thread, but it *)
(* blocks on the service in between (block_on), so a call is two steps:    *)
(* the entry, which checks the WriterState and records the call in         *)
(* call[h], and the answer of the service, which ends it.  A failed write  *)
(* or close awaits a second time, in abort_after_failure; that is the call *)
(* "cleanup".                                                              *)
(*                                                                         *)
(* Data is abstracted to lengths: the image a writer commits is who wrote  *)
(* it, how many bytes, and whether it is torn, that is, holds bytes of a   *)
(* write that was reported as failed.                                      *)
(***************************************************************************)
EXTENDS Integers

CONSTANTS
  Handles,    \* the write handles
  MaxInt64,   \* the largest value of an int64_t
  Nobody      \* who wrote the object that is there before any handle opens

ASSUME WriterAssumption == MaxInt64 \in Nat \ {0} /\ Nobody \notin Handles

VARIABLES
  writer,     \* the OdWriter of each handle
  call,       \* the od_writer_* call each handle's thread is in
  uploads,    \* the handles whose service-side upload is neither completed nor cancelled
  object,     \* the image a reader of the path sees
  committed,  \* history: the handles whose image the service made visible
  panicked    \* history: the handles one of whose calls panicked

writerVars == <<writer, call, uploads, object, committed, panicked>>

Bytes == 0..MaxInt64

\* "Null" before od_writer_open, "Freed" after od_writer_free; the rest is WriterState.
WriterState == {"Null", "Open", "Closed", "Aborted", "Failed", "Freed"}
OdWriter    == [state: WriterState, len: Bytes, torn: BOOLEAN]
Image       == [by: Handles \cup {Nobody}, len: Bytes, torn: BOOLEAN]

Awaiting == {"write", "close", "abort", "cleanup"}   \* blocked on the service
Returned == {"ok", "error"}                          \* the FFI return code, not yet looked at
Call     == [op: Awaiting \cup Returned \cup {"none"}, n: Bytes]
NoCall   == [op |-> "none", n |-> 0]

WriterTypeOK ==
  /\ writer \in [Handles -> OdWriter]
  /\ call \in [Handles -> Call]
  /\ uploads \in SUBSET Handles
  /\ object \in Image
  /\ committed \in SUBSET Handles
  /\ panicked \in SUBSET Handles

WriterInit ==
  /\ writer = [h \in Handles |-> [state |-> "Null", len |-> 0, torn |-> FALSE]]
  /\ call = [h \in Handles |-> NoCall]
  /\ uploads = {}
  /\ object = [by |-> Nobody, len |-> 0, torn |-> FALSE]
  /\ committed = {}
  /\ panicked = {}

require_open(h) == writer[h].state = "Open"

Enter(h, op, n) == call' = [call EXCEPT ![h] = [op |-> op, n |-> n]]
Return(h, code) == call' = [call EXCEPT ![h].op = code]

(***************************************************************************)
(* Entries of the FFI functions.                                           *)
(***************************************************************************)
od_writer_open(h) ==
  /\ writer' = [writer EXCEPT ![h].state = "Open"]
  /\ UNCHANGED <<uploads, object, committed, panicked>>

\* An empty write succeeds before the state is looked at.
od_writer_write(h, n) ==
  /\ CASE n = 0 -> Enter(h, "ok", n)
       [] n # 0 /\ require_open(h) -> Enter(h, "write", n)
       [] n # 0 /\ ~require_open(h) -> Enter(h, "error", n)
  /\ UNCHANGED <<writer, uploads, object, committed, panicked>>

od_writer_close(h) ==
  /\ Enter(h, IF require_open(h) THEN "close" ELSE "error", 0)
  /\ UNCHANGED <<writer, uploads, object, committed, panicked>>

od_writer_abort(h) ==
  /\ Enter(h, IF require_open(h) THEN "abort" ELSE "error", 0)
  /\ UNCHANGED <<writer, uploads, object, committed, panicked>>

\* Frees the handle; "Does NOT flush".  Whatever the service holds for it stays there.
od_writer_free(h) ==
  /\ writer' = [writer EXCEPT ![h].state = "Freed"]
  /\ UNCHANGED <<uploads, object, committed, panicked>>

(***************************************************************************)
(* Answers of the service.  ffi_guard turns a panic inside a call into the *)
(* return code -1 and leaves the WriterState as it was.                    *)
(***************************************************************************)
Panic(h) == Return(h, "error") /\ panicked' = panicked \cup {h}

\* Mutant: the failure is returned at once, with nothing cancelled.
fail_without_abort(h) == Return(h, "error")

\* The call goes on to cancel what the service holds; AbortDone ends it.
abort_after_failure(h) == Return(h, "cleanup")

WriteDone(h) ==
  /\ call[h].op = "write"
  /\ uploads' = uploads \cup {h}
  /\ \/ /\ writer' = [writer EXCEPT ![h].len = @ + call[h].n]
        /\ Return(h, "ok")
        /\ UNCHANGED panicked
     \/ /\ writer' = [writer EXCEPT ![h].torn = TRUE]
        /\ \/ abort_after_failure(h) /\ UNCHANGED panicked
           \/ Panic(h)
  /\ UNCHANGED <<object, committed>>

\* The service makes what the writer holds the visible object.
Publish(h) ==
  /\ object' = [by |-> h, len |-> writer[h].len, torn |-> writer[h].torn]
  /\ uploads' = uploads \ {h}
  /\ committed' = committed \cup {h}

\* A close may take effect although its answer is an error: the answer was lost or timed out.
CloseDone(h) ==
  /\ call[h].op = "close"
  /\ \/ /\ Publish(h)
        /\ writer' = [writer EXCEPT ![h].state = "Closed"]
        /\ Return(h, "ok")
        /\ UNCHANGED panicked
     \/ /\ Publish(h) \/ UNCHANGED <<object, uploads, committed>>
        /\ \/ abort_after_failure(h) /\ UNCHANGED panicked
           \/ Panic(h)
        /\ UNCHANGED writer

\* The end of od_writer_abort and of abort_after_failure; the latter reports the failure that it
\* cleans up after.
AbortDone(h) ==
  /\ call[h].op \in {"abort", "cleanup"}
  /\ \/ /\ writer' = [writer EXCEPT ![h].state = "Aborted"]
        /\ uploads' = uploads \ {h}
        /\ Return(h, IF call[h].op = "abort" THEN "ok" ELSE "error")
        /\ UNCHANGED panicked
     \/ /\ writer' = [writer EXCEPT ![h].state = "Failed"]
        /\ Return(h, "error")
        /\ UNCHANGED <<uploads, panicked>>
     \/ /\ Panic(h)
        /\ UNCHANGED <<writer, uploads>>
  /\ UNCHANGED <<object, committed>>

ServiceAnswers(h) == WriteDone(h) \/ CloseDone(h) \/ AbortDone(h)
================================================================================
