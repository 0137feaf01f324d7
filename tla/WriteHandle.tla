------------------------------ MODULE WriteHandle ------------------------------
(***************************************************************************)
(* The C++ half of a write handle (OpenDalFileHandle and the write path of *)
(* OpenDalFileSystem in src/opendal_filesystem.cpp) over the Rust half in  *)
(* module Writer.                                                          *)
(*                                                                         *)
(* DuckDB uses a handle from one thread at a time and in any legal order:  *)
(* open, any number of writes and syncs, close, and in the end destroys it *)
(* -- also after an exception, with nothing closed.  Several handles may   *)
(* write the same path at once.  step[h] is the C++ function the thread is *)
(* in; each is an action that runs up to the FFI call and one that handles *)
(* its return code.                                                        *)
(*                                                                         *)
(* The logging macros of DuckDB may throw.  Each place where one stands    *)
(* between two changes of state has an action of its own (...Throws); in   *)
(* the destructor, which may not throw, that would end the process, and    *)
(* with it every behaviour there is something to say about.                *)
(***************************************************************************)
EXTENDS Writer

CONSTANT
  Timed       \* the handles whose operator has a `timeout` section: only there is the service
              \* certain to answer

ASSUME TimedAssumption == Timed \subseteq Handles

VARIABLES
  handle,     \* the OpenDalFileHandle members
  step,       \* the member function running on the handle
  told,       \* history: what DuckDB learned of the put
  threw       \* history: the functions that threw between two changes of state of the handle

vars == <<writer, call, uploads, object, committed, panicked, handle, step, told, threw>>

\* has_writer: the member `writer` is not nullptr.
Handle == [phase: {"unopened", "live", "gone"}, has_writer: BOOLEAN,
           bytes_written: Bytes, write_committable: BOOLEAN, write_finished: BOOLEAN]

Step == {"idle", "OpenFile", "Write", "FileSync", "Close", "Destroy"}

\* "thrown": an exception of a guard or of a logger, after which the handle can still be used;
\* "failed": opening, a write, a sync or a close did not do what it was called for.
Told == {"pending", "thrown", "ok", "failed"}

TypeOK ==
  /\ WriterTypeOK
  /\ handle \in [Handles -> Handle]
  /\ step \in [Handles -> Step]
  /\ told \in [Handles -> Told]
  /\ threw \in [Handles -> SUBSET {"Write", "Close"}]

Init ==
  /\ WriterInit
  /\ handle = [h \in Handles |->
        [phase |-> "unopened", has_writer |-> FALSE, bytes_written |-> 0,
         write_committable |-> FALSE, write_finished |-> FALSE]]
  /\ step = [h \in Handles |-> "idle"]
  /\ told = [h \in Handles |-> "pending"]
  /\ threw = [h \in Handles |-> {}]

\* A failure sticks; a mere exception does not unsay a success.
Tell(h, answer) ==
  told' = [told EXCEPT ![h] =
             IF @ = "failed" \/ (answer = "thrown" /\ @ # "pending") THEN @ ELSE answer]

Ready(h) == handle[h].phase = "live" /\ step[h] = "idle"
Goto(h, s) == step' = [step EXCEPT ![h] = s]
Answered(h, s) == step[h] = s /\ call[h].op \in Returned
Hangup(h) == call' = [call EXCEPT ![h] = NoCall]

(***************************************************************************)
(* OpenFile for writing.  The handle becomes committable only as the last  *)
(* thing: whatever throws before that unwinds through the destructor (or   *)
(* AbortAndFreeWriter), which then aborts instead of committing.           *)
(***************************************************************************)
OpenFileFails(h) ==
  /\ handle[h].phase = "unopened"
  /\ handle' = [handle EXCEPT ![h].phase = "gone"]
  /\ Tell(h, "failed")
  /\ UNCHANGED <<writerVars, step, threw>>

OpenFile(h) ==
  /\ handle[h].phase = "unopened"
  /\ od_writer_open(h)
  /\ handle' = [handle EXCEPT ![h] = [@ EXCEPT !.phase = "live", !.has_writer = TRUE,
                                           !.write_committable = TRUE]]
  /\ UNCHANGED <<call, step, told, threw>>

\* Mutant: the handle is committable from its construction on.
OpenFileThrowsCommittable(h) ==
  /\ handle[h].phase = "unopened"
  /\ od_writer_open(h)
  /\ handle' = [handle EXCEPT ![h] = [@ EXCEPT !.phase = "live", !.has_writer = TRUE,
                                           !.write_committable = TRUE]]
  /\ Goto(h, "OpenFile")
  /\ Tell(h, "failed")
  /\ UNCHANGED <<call, threw>>

\* The logger of the opener throws: after the handle took over the writer.
OpenFileThrows(h) ==
  /\ handle[h].phase = "unopened"
  /\ od_writer_open(h)
  /\ handle' = [handle EXCEPT ![h] = [@ EXCEPT !.phase = "live", !.has_writer = TRUE]]
  /\ Goto(h, "OpenFile")
  /\ Tell(h, "failed")
  /\ UNCHANGED <<call, threw>>

(***************************************************************************)
(* Write at a location (the sequential Write passes bytes_written).  A     *)
(* call a guard refuses throws and changes nothing: DuckDB has its         *)
(* exception, and the handle is as committable as before.                  *)
(***************************************************************************)
\* Mutant: no guard against overflow.
WriteAllowedUnbounded(h, n, location) ==
  handle[h].has_writer /\ ~handle[h].write_finished /\ location = handle[h].bytes_written

\* Mutant: a finalized writer is not refused.
WriteAllowedFinished(h, n, location) ==
  /\ handle[h].has_writer
  /\ location = handle[h].bytes_written
  /\ n <= MaxInt64 - handle[h].bytes_written

WriteAllowed(h, n, location) ==
  /\ handle[h].has_writer
  /\ ~handle[h].write_finished
  /\ location = handle[h].bytes_written
  /\ n <= MaxInt64 - handle[h].bytes_written

Write(h, n, location) ==
  /\ Ready(h)
  /\ WriteAllowed(h, n, location)
  /\ od_writer_write(h, n)
  /\ Goto(h, "Write")
  /\ UNCHANGED <<handle, told, threw>>

\* Mutant: what a guard refuses finishes the writer, as a failed write does.
WriteRefusedFinishes(h, n, location) ==
  /\ Ready(h)
  /\ ~WriteAllowed(h, n, location)
  /\ handle' = [handle EXCEPT ![h].write_finished = TRUE]
  /\ Tell(h, "thrown")
  /\ UNCHANGED <<writerVars, step, threw>>

WriteRefused(h, n, location) ==
  /\ Ready(h)
  /\ ~WriteAllowed(h, n, location)
  /\ Tell(h, "thrown")
  /\ UNCHANGED <<writerVars, handle, step, threw>>

\* Mutant: after a failed write the handle can still be closed.
AfterWriteUnfinished(h) ==
  [handle EXCEPT ![h].bytes_written = @ + (IF call[h].op = "ok" THEN call[h].n ELSE 0)]

AfterWrite(h) ==
  IF call[h].op = "ok" THEN [handle EXCEPT ![h].bytes_written = @ + call[h].n]
                       ELSE [handle EXCEPT ![h].write_finished = TRUE]

WriteReturns(h) ==
  /\ Answered(h, "Write")
  /\ handle' = AfterWrite(h)
  /\ IF call[h].op = "ok" THEN UNCHANGED told ELSE Tell(h, "failed")
  /\ Hangup(h)
  /\ Goto(h, "idle")
  /\ UNCHANGED <<writer, uploads, object, committed, panicked, threw>>

\* A writer that holds n of its bytes for a write that was reported as failed: they make it torn,
\* as those of any failed write do.
Disowned(w, n) == [w EXCEPT !.len = w.len - n, !.torn = (w.torn \/ n # 0)]

\* The logger throws after od_writer_write and before bytes_written is advanced: the handle does
\* not know of the bytes the writer took, and it is still committable.
WriteThrows(h) ==
  /\ Answered(h, "Write") /\ call[h].op = "ok"
  /\ writer' = [writer EXCEPT ![h] = Disowned(writer[h], call[h].n)]
  /\ threw' = [threw EXCEPT ![h] = @ \cup {"Write"}]
  /\ Tell(h, "thrown")
  /\ Hangup(h)
  /\ Goto(h, "idle")
  /\ UNCHANGED <<uploads, object, committed, panicked, handle>>

\* FileSync commits: there is no way to make bytes durable without closing the writer.
FileSync(h) ==
  /\ Ready(h)
  /\ handle[h].has_writer /\ ~handle[h].write_finished
  /\ od_writer_close(h)
  /\ Goto(h, "FileSync")
  /\ UNCHANGED <<handle, told, threw>>

\* Mutant: only a failed sync finishes the writer.
AfterSyncFinishedOnError(h) == [handle EXCEPT ![h].write_finished = (call[h].op = "error")]

AfterSync(h) == [handle EXCEPT ![h].write_finished = TRUE]

FileSyncReturns(h) ==
  /\ Answered(h, "FileSync")
  /\ handle' = AfterSync(h)
  /\ Tell(h, IF call[h].op = "error" THEN "failed" ELSE "ok")
  /\ Hangup(h)
  /\ Goto(h, "idle")
  /\ UNCHANGED <<writer, uploads, object, committed, panicked, threw>>

(***************************************************************************)
(* CloseInternal, shared by Close, by the destructor and by the unwinding  *)
(* of OpenFile.  Finish decides between close, abort and nothing to do;    *)
(* CloseInternal is what follows, up to od_writer_free.                    *)
(***************************************************************************)
Finish(h) ==
  IF handle[h].write_finished
    THEN UNCHANGED writerVars
    ELSE IF handle[h].write_committable THEN od_writer_close(h) ELSE od_writer_abort(h)

\* Mutant: the writer is freed only where it is also finished.
FreeWriterUnlessFinished(h) ==
  IF handle[h].write_finished THEN UNCHANGED <<writer, uploads, object, committed, panicked>>
                              ELSE od_writer_free(h)

FreeWriter(h) == od_writer_free(h)

CloseInternal(h, phase) ==
  /\ \/ call[h].op \in Returned
     \/ call[h].op = "none" /\ handle[h].write_finished
  /\ handle' = [handle EXCEPT ![h] = [@ EXCEPT !.phase = phase, !.has_writer = FALSE,
                                           !.write_finished = TRUE]]
  /\ FreeWriter(h)
  /\ Hangup(h)
  /\ Goto(h, "idle")
  /\ UNCHANGED threw

Close(h) ==
  /\ Ready(h)
  /\ handle[h].has_writer
  /\ Finish(h)
  /\ Goto(h, "Close")
  /\ UNCHANGED <<handle, told, threw>>

\* The logger at the top of CloseInternal throws: nothing is closed, and nothing has changed.
CloseThrows(h) ==
  /\ Ready(h)
  /\ handle[h].has_writer
  /\ Tell(h, "thrown")
  /\ UNCHANGED <<writerVars, handle, step, threw>>

CloseReturns(h) ==
  /\ step[h] = "Close"
  /\ CloseInternal(h, "live")
  /\ Tell(h, IF call[h].op = "error" THEN "failed" ELSE "ok")

\* The logger that reports the failed close throws: the writer is neither finished nor freed, and
\* the handle takes it for one that can still be written to and closed.
CloseErrorThrows(h) ==
  /\ step[h] = "Close" /\ call[h].op = "error"
  /\ threw' = [threw EXCEPT ![h] = @ \cup {"Close"}]
  /\ Tell(h, "thrown")
  /\ Hangup(h)
  /\ Goto(h, "idle")
  /\ UNCHANGED <<writer, uploads, object, committed, panicked, handle>>

\* An exception elsewhere in the query destroys the handle: it is closed, not aborted.
Destroy(h) ==
  /\ Ready(h)
  /\ IF handle[h].has_writer
       THEN Finish(h) /\ Goto(h, "Destroy") /\ UNCHANGED handle
       ELSE handle' = [handle EXCEPT ![h].phase = "gone"] /\ UNCHANGED <<writerVars, step>>
  /\ UNCHANGED <<told, threw>>

Unwind(h) ==
  /\ step[h] = "OpenFile" /\ call[h].op = "none"
  /\ Finish(h)
  /\ UNCHANGED <<handle, step, told, threw>>

\* The destructor swallows the result.
DestroyReturns(h) ==
  /\ step[h] \in {"Destroy", "OpenFile"}
  /\ CloseInternal(h, "gone")
  /\ UNCHANGED told

Returns(h) ==
  \/ WriteReturns(h) \/ WriteThrows(h)
  \/ FileSyncReturns(h)
  \/ CloseReturns(h) \/ CloseErrorThrows(h)
  \/ DestroyReturns(h)

\* The service's answer reaches the C++ side only through the return code.
Answers(h) == ServiceAnswers(h) /\ UNCHANGED <<handle, step, told, threw>>

Next ==
  \E h \in Handles :
    \/ OpenFileFails(h) \/ OpenFile(h) \/ OpenFileThrows(h)
    \/ \E n, location \in Bytes : Write(h, n, location) \/ WriteRefused(h, n, location)
    \/ FileSync(h) \/ Close(h) \/ CloseThrows(h) \/ Destroy(h) \/ Unwind(h)
    \/ Returns(h)
    \/ Answers(h)

Spec == Init /\ [][Next]_vars

\* Every C++ function returns or throws once its FFI call has returned.  The service answers a
\* call only where the timeout layer is applied, which it is if the configuration has a `timeout`
\* section; without one a call may hang for ever.
Fairness ==
  \A h \in Handles : WF_vars(Unwind(h) \/ Returns(h) \/ (h \in Timed /\ Answers(h)))

FairSpec == Spec /\ Fairness

--------------------------------------------------------------------------------
(***************************************************************************)
(* Properties.                                                             *)
(***************************************************************************)

\* The object readers see is never a mixture and never a prefix with a hole: it is what was
\* there before, or exactly the bytes whose writes were acknowledged to one handle -- whatever
\* failed, panicked or timed out on the way, whatever was refused or thrown in between, and in
\* whatever order close, sync, a failed write and the destructor came.  What can break it are the
\* two loggers that throw in the middle: that of Write leaves bytes in the writer that were not
\* acknowledged, that of a failed close a handle that can be written to after its commit.
ImageIsWhole ==
  object.by # Nobody =>
    /\ "Write" \notin threw[object.by] => ~object.torn
    /\ "Close" \notin threw[object.by] => object.len = handle[object.by].bytes_written

\* If no call on a handle has failed and its Close or FileSync has returned, the object was
\* made visible: a handle the destructor would abort, or one already finished by a failure,
\* never reports success.
OkMeansCommitted == \A h \in Handles : told[h] = "ok" => h \in committed

\* Once DuckDB was told that opening, a write, a sync or a close has failed, nothing publishes the
\* put later: not a retry of close, not the destructor.  (A put whose close failed may have been
\* published before.)  It is not so of an exception that only a guard or a logger threw: the
\* destructor commits what was written until then.
NoCommitAfterFailure ==
  [][\A h \in Handles : told[h] = "failed" => (h \in committed' => h \in committed)]_vars

\* The two layers agree on where a handle stands.  The C++ side has a writer exactly while there
\* is one, and calls no other, so none is leaked or used after it is freed, on any path; and
\* whenever it would still write, sync or close, the Rust side holds as many acknowledged bytes as
\* the next location says, is Open unless the logger of a failed close has thrown, so no other
\* call is ever refused for the writer's state, and holds no bytes of a failed write unless the
\* logger of that write has thrown.
LayersAgree ==
  \A h \in Handles :
    /\ handle[h].has_writer <=> writer[h].state \notin {"Null", "Freed"}
    /\ call[h].op # "none" => handle[h].has_writer
    /\ Ready(h) /\ handle[h].has_writer /\ ~handle[h].write_finished =>
         /\ "Close" \notin threw[h] => writer[h].state = "Open"
         /\ "Write" \notin threw[h] => ~writer[h].torn
         /\ writer[h].len = handle[h].bytes_written

\* od_writer_free runs with an upload left at the service only if cancelling it was tried and
\* failed, or a call panicked: a failed close is always followed by an abort, the claim behind
\* test/services/s3/verify.sh.
NoSilentOrphan ==
  [][\A h \in Handles :
       writer[h].state # "Freed" /\ writer'[h].state = "Freed" /\ h \in uploads =>
         writer[h].state = "Failed" \/ h \in panicked]_vars

\* Where the operator has a timeout section, a handle being destroyed or unwound is freed in the
\* end, on every path, and so is one being closed unless the logger of its failed close throws.
HandlesAreReleased ==
  \A h \in Timed :
    /\ step[h] \in {"Destroy", "OpenFile"} ~> writer[h].state = "Freed"
    /\ step[h] = "Close" ~> writer[h].state = "Freed" \/ "Close" \in threw[h]

(***************************************************************************)
(* The handles implement AtomicPut.                                        *)
(***************************************************************************)
PutPhase(h) ==
  IF h \in committed THEN "committed"
  ELSE IF writer[h].state = "Null" THEN "new"
  ELSE IF writer[h].state \in {"Open", "Closed"} THEN "open"
  ELSE "dropped"

\* A logger threw in the middle of a function of the handle.
Astray(h) == threw[h] # {}

put == [h \in Handles |->
          [phase |-> PutPhase(h), len |-> handle[h].bytes_written, told |-> told[h],
           astray |-> Astray(h)]]

Abstract == INSTANCE AtomicPut WITH Puts <- Handles, MaxLen <- MaxInt64

\* Every behaviour of the two layers, over every failure of the service, is one of AtomicPut.
ImplementsAtomicPut == Abstract!Spec
================================================================================
