--------------------------- MODULE WriteHandleProofs ---------------------------
(***************************************************************************)
(* Theorems about WriteHandle, for any number of handles and any MaxInt64. *)
(*                                                                         *)
(* None of the properties is inductive by itself: whether a close may      *)
(* publish depends on which call is in flight, on whose behalf, and on     *)
(* what the C++ side already knows.  IInv says, for one handle at a time,  *)
(* how its variables fit together.  The refinement of AtomicPut stands on  *)
(* the same invariant.                                                     *)
(***************************************************************************)
EXTENDS WriteHandle, TLAPS

\* Which calls each member function waits for.
CallFitsStep(h) ==
  /\ step[h] = "idle" => call[h].op = "none"
  /\ step[h] = "Write" => call[h].op \in {"write", "cleanup", "ok", "error"}
  /\ step[h] = "FileSync" => call[h].op \in {"close", "cleanup", "ok", "error"}
  /\ step[h] \in {"Close", "Destroy"} =>
       IF handle[h].write_finished THEN call[h].op = "none"
                                   ELSE call[h].op \in {"close", "cleanup", "ok", "error"}
  /\ step[h] = "OpenFile" => call[h].op \in {"none", "abort", "ok", "error"}
  /\ call[h].op \in Awaiting => writer[h].state = "Open"

\* Where the writer is in its life, as the members of the handle say.
WriterFitsHandle(h) ==
  /\ handle[h].phase = "unopened" =>
       /\ step[h] = "idle" /\ told[h] = "pending" /\ ~handle[h].has_writer
       /\ writer[h] = [state |-> "Null", len |-> 0, torn |-> FALSE]
       /\ handle[h].bytes_written = 0 /\ ~handle[h].write_committable /\ ~handle[h].write_finished
       /\ h \notin committed /\ h \notin uploads /\ threw[h] = {}
  /\ handle[h].has_writer =>
       handle[h].phase = "live" /\ writer[h].state \in {"Open", "Closed", "Aborted", "Failed"}
  /\ ~handle[h].has_writer => step[h] = "idle" /\ writer[h].state \in {"Null", "Freed"}
  /\ handle[h].phase = "live" /\ ~handle[h].has_writer =>
       handle[h].write_finished /\ writer[h].state = "Freed"
  /\ handle[h].has_writer => (handle[h].write_committable <=> step[h] # "OpenFile")
  /\ step[h] \in {"OpenFile", "Write", "FileSync"} => ~handle[h].write_finished

\* The bytes the writer holds, while the handle can still do something with them.
BytesAgree(h) ==
  handle[h].has_writer /\ ~handle[h].write_finished =>
    /\ call[h].op \in {"none", "write", "close", "abort"} =>
         writer[h].state = "Open" \/ "Close" \in threw[h]
    /\ step[h] # "Write" \/ call[h].op = "write" =>
         /\ writer[h].torn => "Write" \in threw[h]
         /\ writer[h].len = handle[h].bytes_written
    /\ step[h] = "Write" => call[h].n <= MaxInt64 - handle[h].bytes_written
    /\ step[h] = "Write" /\ call[h].op = "ok" =>
         /\ writer[h].state = "Open" \/ (call[h].n = 0 /\ "Close" \in threw[h])
         /\ writer[h].torn => "Write" \in threw[h]
         /\ writer[h].len = handle[h].bytes_written + call[h].n

\* A commit is the last thing a handle does, and what it published is what it wrote, as far as no
\* logger threw in the middle.
CommitIsLast(h) ==
  /\ h \in committed =>
       \/ handle[h].write_finished
       \/ step[h] \in {"FileSync", "Close", "Destroy"} /\ call[h].op \in {"cleanup", "ok", "error"}
       \/ "Close" \in threw[h]
  /\ step[h] \in {"FileSync", "Close", "Destroy"} /\ call[h].op = "ok" => h \in committed
  /\ object.by = h =>
       /\ h \in committed
       /\ object.torn => "Write" \in threw[h]
       /\ object.len = handle[h].bytes_written \/ "Close" \in threw[h]

\* What DuckDB was told.
ToldAgrees(h) ==
  /\ told[h] = "ok" => h \in committed /\ handle[h].write_finished
  /\ told[h] = "failed" =>
       handle[h].write_finished \/ step[h] = "OpenFile" \/ handle[h].phase = "gone"
  /\ handle[h].has_writer /\ handle[h].write_finished => told[h] \in {"ok", "failed"}

\* Why an upload may still be there when the writer is freed.
UploadExplained(h) ==
  /\ writer[h].state \in {"Closed", "Aborted"} => h \notin uploads
  /\ call[h].op = "error" /\ writer[h].state = "Open" => h \in panicked
  /\ handle[h].has_writer /\ handle[h].write_finished /\ writer[h].state = "Open" =>
       h \in panicked
  /\ step[h] # "Write" /\ call[h].op = "ok" => writer[h].state # "Open"

HandleInv(h) ==
  /\ CallFitsStep(h)
  /\ WriterFitsHandle(h)
  /\ BytesAgree(h)
  /\ CommitIsLast(h)
  /\ ToldAgrees(h)
  /\ UploadExplained(h)

IInv == TypeOK /\ \A h \in Handles : HandleInv(h)

--------------------------------------------------------------------------------
(***************************************************************************)
(* A step of one handle leaves the others alone, so it preserves IInv if   *)
(* it preserves the part of that handle.                                   *)
(***************************************************************************)
OnlyHandle(h) ==
  /\ \A k \in Handles \ {h} :
       /\ writer'[k] = writer[k] /\ call'[k] = call[k] /\ handle'[k] = handle[k]
       /\ step'[k] = step[k] /\ told'[k] = told[k] /\ threw'[k] = threw[k]
       /\ k \in uploads' <=> k \in uploads
       /\ k \in committed' <=> k \in committed
       /\ k \in panicked' <=> k \in panicked
  /\ object' = object \/ object'.by = h

LEMMA OneHandle ==
  ASSUME IInv, NEW h \in Handles, OnlyHandle(h), TypeOK', HandleInv(h)'
  PROVE  IInv'
<1> SUFFICES ASSUME NEW k \in Handles \ {h} PROVE HandleInv(k)'
  BY DEF IInv
<1>1. HandleInv(k)
  BY DEF IInv
<1>2. /\ writer'[k] = writer[k] /\ call'[k] = call[k] /\ handle'[k] = handle[k]
      /\ step'[k] = step[k] /\ told'[k] = told[k] /\ threw'[k] = threw[k]
      /\ k \in uploads' <=> k \in uploads
      /\ k \in committed' <=> k \in committed
      /\ k \in panicked' <=> k \in panicked
      /\ object' = object \/ object'.by # k
  BY DEF OnlyHandle
<1>3. CallFitsStep(k)' /\ WriterFitsHandle(k)'
  BY <1>1, <1>2 DEF HandleInv, CallFitsStep, WriterFitsHandle
<1>4. BytesAgree(k)' /\ UploadExplained(k)'
  BY <1>1, <1>2 DEF HandleInv, BytesAgree, UploadExplained
<1>5. CommitIsLast(k)' /\ ToldAgrees(k)'
  BY <1>1, <1>2 DEF HandleInv, CommitIsLast, ToldAgrees
<1> QED
  BY <1>3, <1>4, <1>5 DEF HandleInv

\* Zero bytes is a number of bytes.
LEMMA ZeroBytes == 0 \in Bytes
  BY WriterAssumption DEF Bytes

\* The overflow guard of Write keeps a sum within int64_t.
LEMMA SumInBytes ==
  ASSUME NEW a \in Bytes, NEW n \in Bytes, n <= MaxInt64 - a
  PROVE  a + n \in Bytes
  BY WriterAssumption DEF Bytes

(***************************************************************************)
(* What the updates of a handle and of a writer leave of their types.      *)
(***************************************************************************)
LEMMA OpenedHandle ==
  ASSUME NEW f \in [Handles -> Handle], NEW h \in Handles
  PROVE  [f EXCEPT ![h] = [@ EXCEPT !.phase = "live", !.has_writer = TRUE,
                                     !.write_committable = TRUE]] \in [Handles -> Handle]
<1>1. [f[h] EXCEPT !.phase = "live", !.has_writer = TRUE, !.write_committable = TRUE] \in Handle
  BY DEF Handle
<1> QED
  BY <1>1

LEMMA ClosedHandle ==
  ASSUME NEW f \in [Handles -> Handle], NEW h \in Handles, NEW phase \in {"live", "gone"}
  PROVE  [f EXCEPT ![h] = [@ EXCEPT !.phase = phase, !.has_writer = FALSE,
                                     !.write_finished = TRUE]] \in [Handles -> Handle]
<1>1. [f[h] EXCEPT !.phase = phase, !.has_writer = FALSE, !.write_finished = TRUE] \in Handle
  BY DEF Handle
<1> QED
  BY <1>1

LEMMA LongerWriter ==
  ASSUME NEW f \in [Handles -> OdWriter], NEW h \in Handles, NEW n, f[h].len + n \in Bytes
  PROVE  [f EXCEPT ![h].len = @ + n] \in [Handles -> OdWriter]
<1>1. [f[h] EXCEPT !.len = f[h].len + n] \in OdWriter
  BY DEF OdWriter
<1> QED
  BY <1>1

LEMMA TornWriter ==
  ASSUME NEW f \in [Handles -> OdWriter], NEW h \in Handles
  PROVE  [f EXCEPT ![h].torn = TRUE] \in [Handles -> OdWriter]
<1>1. [f[h] EXCEPT !.torn = TRUE] \in OdWriter
  BY DEF OdWriter
<1> QED
  BY <1>1

LEMMA InitEstablishes == Init => IInv
<1> SUFFICES ASSUME Init PROVE IInv
  OBVIOUS
<1>1. TypeOK
  BY ZeroBytes
    DEF Init, WriterInit, TypeOK, WriterTypeOK, OdWriter, WriterState, Call, NoCall, Image,
      Handle, Step, Told
<1>2. ASSUME NEW h \in Handles PROVE HandleInv(h)
  BY WriterAssumption
  DEF Init, WriterInit, NoCall, HandleInv, CallFitsStep, WriterFitsHandle, BytesAgree,
      CommitIsLast, ToldAgrees, UploadExplained, Awaiting
<1> QED
  BY <1>1, <1>2 DEF IInv

(***************************************************************************)
(* One lemma per action.                                                   *)
(***************************************************************************)
LEMMA OpenFileFailsStep ==
  ASSUME IInv, NEW h \in Handles, OpenFileFails(h)
  PROVE  IInv'
<1>1. TypeOK'
  <2>1. handle' \in [Handles -> Handle]
    BY DEF OpenFileFails, IInv, TypeOK, Handle
  <2>2. told' \in [Handles -> Told]
    BY DEF OpenFileFails, Tell, IInv, TypeOK, Told
  <2>3. UNCHANGED <<writer, call, uploads, object, committed, panicked, step, threw>>
    BY DEF OpenFileFails, Tell, writerVars
  <2> QED
    BY <2>1, <2>2, <2>3 DEF IInv, TypeOK, WriterTypeOK
<1>2. OnlyHandle(h)
  BY DEF OpenFileFails, Tell, writerVars, IInv, TypeOK, WriterTypeOK, OnlyHandle
<1>3. HandleInv(h)'
  BY DEF OpenFileFails, Tell, writerVars, NoCall, IInv, TypeOK, WriterTypeOK, OdWriter, Handle,
         Call, HandleInv, CallFitsStep, WriterFitsHandle, BytesAgree, CommitIsLast, ToldAgrees,
         UploadExplained, Awaiting, Returned
<1> QED
  BY <1>1, <1>2, <1>3, OneHandle

LEMMA OpenFileStep ==
  ASSUME IInv, NEW h \in Handles, OpenFile(h)
  PROVE  IInv'
<1>1. TypeOK'
  <2>1. writer' \in [Handles -> OdWriter]
    BY DEF OpenFile, od_writer_open, IInv, TypeOK, WriterTypeOK, OdWriter, WriterState
  <2>2. handle' \in [Handles -> Handle]
    BY OpenedHandle DEF OpenFile, IInv, TypeOK
  <2>3. UNCHANGED <<call, uploads, object, committed, panicked, step, told, threw>>
    BY DEF OpenFile, od_writer_open
  <2> QED
    BY <2>1, <2>2, <2>3 DEF IInv, TypeOK, WriterTypeOK
<1>2. OnlyHandle(h)
  BY DEF OpenFile, od_writer_open, IInv, TypeOK, WriterTypeOK, OnlyHandle
<1>3. HandleInv(h)'
  BY DEF OpenFile, od_writer_open, NoCall, IInv, TypeOK, WriterTypeOK, OdWriter, Handle, Call,
         HandleInv, CallFitsStep, WriterFitsHandle, BytesAgree, CommitIsLast, ToldAgrees,
         UploadExplained, Awaiting, Returned
<1> QED
  BY <1>1, <1>2, <1>3, OneHandle

LEMMA OpenFileThrowsStep ==
  ASSUME IInv, NEW h \in Handles, OpenFileThrows(h)
  PROVE  IInv'
<1>1. TypeOK'
  <2>1. writer' \in [Handles -> OdWriter]
    BY DEF OpenFileThrows, od_writer_open, IInv, TypeOK, WriterTypeOK, OdWriter, WriterState
  <2>2. handle' \in [Handles -> Handle]
    <3> DEFINE opened == [handle[h] EXCEPT !.phase = "live", !.has_writer = TRUE]
    <3>1. handle' = [handle EXCEPT ![h] = opened] /\ handle \in [Handles -> Handle]
      BY DEF OpenFileThrows, IInv, TypeOK
    <3>2. opened \in Handle
      BY <3>1 DEF Handle
    <3> HIDE DEF opened
    <3> QED
      BY <3>1, <3>2
  <2>3. step' \in [Handles -> Step]
    BY DEF OpenFileThrows, Goto, IInv, TypeOK, Step
  <2>4. told' \in [Handles -> Told]
    BY DEF OpenFileThrows, Tell, IInv, TypeOK, Told
  <2>5. UNCHANGED <<call, uploads, object, committed, panicked, threw>>
    BY DEF OpenFileThrows, od_writer_open, Goto, Tell
  <2> QED
    BY <2>1, <2>2, <2>3, <2>4, <2>5 DEF IInv, TypeOK, WriterTypeOK
<1>2. OnlyHandle(h)
  BY DEF OpenFileThrows, od_writer_open, Goto, Tell, IInv, TypeOK, WriterTypeOK, OnlyHandle
<1>3. /\ handle[h].phase = "unopened" /\ step[h] = "idle" /\ told[h] = "pending"
      /\ writer[h] = [state |-> "Null", len |-> 0, torn |-> FALSE] /\ call[h].op = "none"
      /\ handle[h].bytes_written = 0 /\ ~handle[h].write_committable /\ ~handle[h].write_finished
      /\ h \notin committed /\ h \notin uploads /\ threw[h] = {} /\ object.by # h
  BY DEF OpenFileThrows, IInv, HandleInv, CallFitsStep, WriterFitsHandle, CommitIsLast
<1>4. /\ handle'[h] = [handle[h] EXCEPT !.phase = "live", !.has_writer = TRUE]
      /\ writer'[h].state = "Open" /\ writer'[h].len = 0 /\ ~writer'[h].torn
      /\ step'[h] = "OpenFile" /\ told'[h] = "failed"
      /\ UNCHANGED <<call, uploads, object, committed, panicked, threw>>
  BY <1>3 DEF OpenFileThrows, od_writer_open, Goto, Tell, IInv, TypeOK, WriterTypeOK, OdWriter
<1>5. CallFitsStep(h)' /\ WriterFitsHandle(h)'
  BY <1>3, <1>4 DEF IInv, TypeOK, Handle, CallFitsStep, WriterFitsHandle, Awaiting
<1>6. BytesAgree(h)' /\ CommitIsLast(h)' /\ ToldAgrees(h)' /\ UploadExplained(h)'
  BY <1>3, <1>4
  DEF IInv, TypeOK, Handle, BytesAgree, CommitIsLast, ToldAgrees, UploadExplained
<1> QED
  BY <1>1, <1>2, <1>5, <1>6, OneHandle DEF HandleInv

LEMMA WriteStep ==
  ASSUME IInv, NEW h \in Handles, NEW n \in Bytes, NEW location \in Bytes,
         Write(h, n, location)
  PROVE  IInv'
<1>1. /\ writer[h].state = "Open" \/ "Close" \in threw[h]
      /\ writer[h].torn => "Write" \in threw[h]
      /\ writer[h].len = handle[h].bytes_written
      /\ handle[h].phase = "live" /\ handle[h].has_writer /\ ~handle[h].write_finished
      /\ n <= MaxInt64 - handle[h].bytes_written
      /\ step[h] = "idle" /\ call[h].op = "none"
  BY DEF Write, Ready, WriteAllowed, IInv, HandleInv, BytesAgree, CallFitsStep
<1> DEFINE op == IF n = 0 THEN "ok" ELSE IF writer[h].state = "Open" THEN "write" ELSE "error"
<1>2. call' = [call EXCEPT ![h] = [op |-> op, n |-> n]]
  BY <1>1 DEF Write, od_writer_write, require_open, Enter
<1>3. step' = [step EXCEPT ![h] = "Write"]
  BY DEF Write, Goto
<1>4. UNCHANGED <<writer, uploads, object, committed, panicked, handle, told, threw>>
  BY DEF Write, od_writer_write
<1>5. TypeOK'
  <2>1. call' \in [Handles -> Call]
    BY <1>2 DEF IInv, TypeOK, WriterTypeOK, Call, Awaiting, Returned
  <2>2. step' \in [Handles -> Step]
    BY <1>3 DEF IInv, TypeOK, Step
  <2> QED
    BY <2>1, <2>2, <1>4 DEF IInv, TypeOK, WriterTypeOK
<1>6. OnlyHandle(h)
  BY <1>2, <1>3, <1>4 DEF IInv, TypeOK, WriterTypeOK, OnlyHandle
<1>7. HandleInv(h)'
  <2>1. call'[h] = [op |-> op, n |-> n] /\ step'[h] = "Write"
    BY <1>2, <1>3 DEF IInv, TypeOK, WriterTypeOK
  <2>2. BytesAgree(h)'
    <3>1. handle[h].bytes_written \in Int
      BY WriterAssumption DEF IInv, TypeOK, Handle, Bytes
    <3> QED
      BY <1>1, <1>4, <2>1, <3>1 DEF BytesAgree
  <2>3. CallFitsStep(h)' /\ WriterFitsHandle(h)'
    BY <1>1, <1>4, <2>1 DEF IInv, HandleInv, CallFitsStep, WriterFitsHandle, Awaiting
  <2>4. CommitIsLast(h)' /\ ToldAgrees(h)' /\ UploadExplained(h)'
    BY <1>1, <1>4, <2>1 DEF IInv, HandleInv, CommitIsLast, ToldAgrees, UploadExplained
  <2> QED
    BY <2>2, <2>3, <2>4 DEF HandleInv
<1> QED
  BY <1>5, <1>6, <1>7, OneHandle

LEMMA WriteReturnsStep ==
  ASSUME IInv, NEW h \in Handles, WriteReturns(h)
  PROVE  IInv'
<1>1. step[h] = "Write" /\ call[h].op \in {"ok", "error"}
  BY DEF WriteReturns, Answered, Returned
<1>2. handle[h].phase = "live" /\ handle[h].has_writer /\ ~handle[h].write_finished
  BY <1>1 DEF IInv, HandleInv, WriterFitsHandle, TypeOK, Handle
<1>3. UNCHANGED <<writer, uploads, object, committed, panicked, threw>>
  BY DEF WriteReturns
<1>4. call' = [call EXCEPT ![h] = NoCall] /\ step' = [step EXCEPT ![h] = "idle"]
  BY DEF WriteReturns, Hangup, Goto
<1>5. call' \in [Handles -> Call] /\ step' \in [Handles -> Step]
  BY <1>4, ZeroBytes DEF IInv, TypeOK, WriterTypeOK, Call, NoCall, Step
<1>6. call'[h] = NoCall /\ step'[h] = "idle"
  BY <1>4 DEF IInv, TypeOK, WriterTypeOK
<1>7. CASE call[h].op = "ok"
  <2>1. handle' = [handle EXCEPT ![h].bytes_written = @ + call[h].n] /\ told' = told
    BY <1>7 DEF WriteReturns, AfterWrite
  <2>2. handle[h].bytes_written + call[h].n \in Bytes
    BY <1>1, <1>2, SumInBytes
    DEF IInv, TypeOK, WriterTypeOK, Handle, Call, HandleInv, BytesAgree
  <2>3. TypeOK'
    <3>1. handle' \in [Handles -> Handle]
      BY <2>1, <2>2 DEF IInv, TypeOK, Handle
    <3> QED
      BY <3>1, <2>1, <1>3, <1>5 DEF IInv, TypeOK, WriterTypeOK
  <2>4. OnlyHandle(h)
    BY <1>3, <1>4, <2>1 DEF IInv, TypeOK, WriterTypeOK, OnlyHandle
  <2>5. handle'[h] = [handle[h] EXCEPT !.bytes_written = @ + call[h].n]
    BY <2>1 DEF IInv, TypeOK
  <2>6. CallFitsStep(h)' /\ WriterFitsHandle(h)'
    BY <1>1, <1>2, <1>3, <1>6, <2>5, <1>7
    DEF IInv, TypeOK, Handle, HandleInv, CallFitsStep, WriterFitsHandle, NoCall, Awaiting
  <2>7. BytesAgree(h)'
    BY <1>1, <1>2, <1>3, <1>6, <2>5, <1>7
    DEF IInv, TypeOK, Handle, HandleInv, BytesAgree, NoCall
  <2>8. CommitIsLast(h)' /\ ToldAgrees(h)' /\ UploadExplained(h)'
    BY <1>1, <1>2, <1>3, <1>6, <2>1, <2>5, <1>7
    DEF IInv, TypeOK, Handle, HandleInv, CommitIsLast, ToldAgrees, UploadExplained, NoCall
  <2> QED
    BY <2>3, <2>4, <2>6, <2>7, <2>8, OneHandle DEF HandleInv
<1>8. CASE call[h].op = "error"
  <2>1. /\ handle' = [handle EXCEPT ![h].write_finished = TRUE]
        /\ told' = [told EXCEPT ![h] = "failed"]
    BY <1>8 DEF WriteReturns, AfterWrite, Tell
  <2>2. TypeOK'
    <3>1. handle' \in [Handles -> Handle]
      BY <2>1 DEF IInv, TypeOK, Handle
    <3>2. told' \in [Handles -> Told]
      BY <2>1 DEF IInv, TypeOK, Told
    <3> QED
      BY <3>1, <3>2, <1>3, <1>5 DEF IInv, TypeOK, WriterTypeOK
  <2>3. OnlyHandle(h)
    BY <1>3, <1>4, <2>1 DEF IInv, TypeOK, WriterTypeOK, OnlyHandle
  <2>4. handle'[h] = [handle[h] EXCEPT !.write_finished = TRUE] /\ told'[h] = "failed"
    BY <2>1 DEF IInv, TypeOK
  <2>5. CallFitsStep(h)' /\ WriterFitsHandle(h)'
    BY <1>1, <1>2, <1>3, <1>6, <2>4
    DEF IInv, TypeOK, Handle, HandleInv, CallFitsStep, WriterFitsHandle, NoCall, Awaiting
  <2>6. BytesAgree(h)' /\ CommitIsLast(h)' /\ ToldAgrees(h)' /\ UploadExplained(h)'
    BY <1>1, <1>2, <1>3, <1>6, <2>4, <1>8
    DEF IInv, TypeOK, Handle, HandleInv, BytesAgree, CommitIsLast, ToldAgrees, UploadExplained,
        NoCall
  <2> QED
    BY <2>2, <2>3, <2>5, <2>6, OneHandle DEF HandleInv
<1> QED
  BY <1>1, <1>7, <1>8

\* What a throw in the middle of Write makes of the writer.
LEMMA DisownedWriter ==
  ASSUME NEW w \in OdWriter, NEW n, w.len - n \in Bytes
  PROVE  /\ Disowned(w, n) \in OdWriter
         /\ Disowned(w, n).state = w.state
         /\ Disowned(w, n).len = w.len - n
<1> DEFINE torn == w.torn \/ n # 0
<1>1. torn \in BOOLEAN
  BY Zenon DEF OdWriter
<1> HIDE DEF torn
<1>2. /\ [w EXCEPT !.len = w.len - n, !.torn = torn] \in OdWriter
      /\ [w EXCEPT !.len = w.len - n, !.torn = torn].state = w.state
      /\ [w EXCEPT !.len = w.len - n, !.torn = torn].len = w.len - n
  BY <1>1 DEF OdWriter
<1>3. Disowned(w, n) = [w EXCEPT !.len = w.len - n, !.torn = torn]
  BY Zenon DEF Disowned, torn
<1> QED
  BY <1>2, <1>3

LEMMA WriteThrowsStep ==
  ASSUME IInv, NEW h \in Handles, WriteThrows(h)
  PROVE  IInv'
<1>1. step[h] = "Write" /\ call[h].op = "ok"
  BY DEF WriteThrows, Answered
<1>2. handle[h].phase = "live" /\ handle[h].has_writer /\ ~handle[h].write_finished
  BY <1>1 DEF IInv, HandleInv, WriterFitsHandle, TypeOK, Handle
<1>3. UNCHANGED <<uploads, object, committed, panicked, handle>>
  BY DEF WriteThrows
<1>4. call' = [call EXCEPT ![h] = NoCall] /\ step' = [step EXCEPT ![h] = "idle"]
  BY DEF WriteThrows, Hangup, Goto
<1>5. call'[h] = NoCall /\ step'[h] = "idle"
  BY <1>4 DEF IInv, TypeOK, WriterTypeOK
<1>6. told[h] \notin {"ok", "failed"}
  BY <1>1, <1>2 DEF IInv, HandleInv, ToldAgrees
<1>7. told' = [told EXCEPT ![h] = "thrown"]
  BY <1>6 DEF WriteThrows, Tell, IInv, TypeOK, Told
<1>8. threw' = [threw EXCEPT ![h] = @ \cup {"Write"}]
  BY DEF WriteThrows
<1>9. /\ writer[h].len = handle[h].bytes_written + call[h].n
      /\ writer[h].state = "Open" \/ "Close" \in threw[h]
  BY <1>1, <1>2 DEF IInv, HandleInv, BytesAgree
<1>10. writer' = [writer EXCEPT ![h] = Disowned(writer[h], call[h].n)]
  BY DEF WriteThrows
<1>11. writer[h].len - call[h].n = handle[h].bytes_written
  BY <1>9, WriterAssumption DEF IInv, TypeOK, WriterTypeOK, Call, Handle, Bytes
<1>12. TypeOK'
  <2>1. writer' \in [Handles -> OdWriter]
    <3>1. writer[h] \in OdWriter /\ handle[h].bytes_written \in Bytes
      BY DEF IInv, TypeOK, WriterTypeOK, Handle
    <3>2. Disowned(writer[h], call[h].n) \in OdWriter
      BY <1>11, <3>1, DisownedWriter
    <3> QED
      BY <1>10, <3>2 DEF IInv, TypeOK, WriterTypeOK
  <2>2. call' \in [Handles -> Call] /\ step' \in [Handles -> Step]
    BY <1>4, ZeroBytes DEF IInv, TypeOK, WriterTypeOK, Call, NoCall, Step
  <2>3. told' \in [Handles -> Told] /\ threw' \in [Handles -> SUBSET {"Write", "Close"}]
    BY <1>7, <1>8 DEF IInv, TypeOK, Told
  <2> QED
    BY <2>1, <2>2, <2>3, <1>3 DEF IInv, TypeOK, WriterTypeOK
<1>13. OnlyHandle(h)
  BY <1>3, <1>4, <1>7, <1>8, <1>10 DEF IInv, TypeOK, WriterTypeOK, OnlyHandle
<1>14. /\ writer'[h].state = writer[h].state
       /\ writer'[h].len = handle[h].bytes_written
       /\ told'[h] = "thrown" /\ threw'[h] = threw[h] \cup {"Write"}
  <2>1. told'[h] = "thrown" /\ threw'[h] = threw[h] \cup {"Write"}
    BY <1>7, <1>8 DEF IInv, TypeOK
  <2>2. writer[h] \in OdWriter /\ handle[h].bytes_written \in Bytes
    BY DEF IInv, TypeOK, WriterTypeOK, Handle
  <2>3. writer'[h] = Disowned(writer[h], call[h].n)
    BY <1>10 DEF IInv, TypeOK, WriterTypeOK
  <2>4. writer'[h].state = writer[h].state /\ writer'[h].len = writer[h].len - call[h].n
    BY <1>11, <2>2, <2>3, DisownedWriter
  <2> QED
    BY <2>1, <2>4, <1>11
<1>15. CallFitsStep(h)' /\ WriterFitsHandle(h)'
  BY <1>1, <1>2, <1>3, <1>5, <1>14
  DEF IInv, HandleInv, CallFitsStep, WriterFitsHandle, NoCall, Awaiting
<1>16. BytesAgree(h)'
  BY <1>2, <1>3, <1>5, <1>9, <1>14 DEF BytesAgree, NoCall
<1>17. CommitIsLast(h)' /\ ToldAgrees(h)' /\ UploadExplained(h)'
  BY <1>1, <1>2, <1>3, <1>5, <1>14
  DEF IInv, HandleInv, CommitIsLast, ToldAgrees, UploadExplained, NoCall
<1> QED
  BY <1>12, <1>13, <1>15, <1>16, <1>17, OneHandle DEF HandleInv

\* An exception that changes nothing else of a handle in use.
LEMMA MereThrowStep ==
  ASSUME IInv, NEW h \in Handles, Ready(h), Tell(h, "thrown"),
         UNCHANGED <<writerVars, handle, step, threw>>
  PROVE  IInv'
<1>1. told' = [told EXCEPT ![h] = told'[h]] /\ told'[h] \in {told[h], "thrown"}
  BY DEF Tell, IInv, TypeOK
<1>2. told[h] \in {"ok", "failed"} => told'[h] = told[h]
  BY DEF Tell, IInv, TypeOK
<1>3. UNCHANGED <<writer, call, uploads, object, committed, panicked, handle, step, threw>>
  BY DEF writerVars
<1>4. told' \in [Handles -> Told]
  BY DEF Tell, IInv, TypeOK, Told
<1>5. TypeOK'
  BY <1>3, <1>4 DEF IInv, TypeOK, WriterTypeOK
<1>6. OnlyHandle(h)
  BY <1>1, <1>3 DEF IInv, TypeOK, OnlyHandle
<1>7. CallFitsStep(h)' /\ BytesAgree(h)' /\ UploadExplained(h)' /\ CommitIsLast(h)'
  BY <1>3 DEF IInv, HandleInv, CallFitsStep, BytesAgree, UploadExplained, CommitIsLast
<1>8. WriterFitsHandle(h)'
  BY <1>3 DEF Ready, IInv, HandleInv, WriterFitsHandle
<1>9. ToldAgrees(h)'
  BY <1>1, <1>2, <1>3 DEF IInv, HandleInv, ToldAgrees
<1> QED
  BY <1>5, <1>6, <1>7, <1>8, <1>9, OneHandle DEF HandleInv

LEMMA CloseErrorThrowsStep ==
  ASSUME IInv, NEW h \in Handles, CloseErrorThrows(h)
  PROVE  IInv'
<1>1. step[h] = "Close" /\ call[h].op = "error"
  BY DEF CloseErrorThrows
<1>2. handle[h].phase = "live" /\ handle[h].has_writer /\ ~handle[h].write_finished
  BY <1>1 DEF IInv, HandleInv, CallFitsStep, WriterFitsHandle, TypeOK, Handle
<1>3. UNCHANGED <<writer, uploads, object, committed, panicked, handle>>
  BY DEF CloseErrorThrows
<1>4. call' = [call EXCEPT ![h] = NoCall] /\ step' = [step EXCEPT ![h] = "idle"]
  BY DEF CloseErrorThrows, Hangup, Goto
<1>5. told[h] \notin {"ok", "failed"}
  BY <1>1, <1>2 DEF IInv, HandleInv, ToldAgrees
<1>6. told' = [told EXCEPT ![h] = "thrown"]
  BY <1>5 DEF CloseErrorThrows, Tell, IInv, TypeOK, Told
<1>7. threw' = [threw EXCEPT ![h] = @ \cup {"Close"}]
  BY DEF CloseErrorThrows
<1>8. TypeOK'
  <2>1. call' \in [Handles -> Call] /\ step' \in [Handles -> Step]
    BY <1>4, ZeroBytes DEF IInv, TypeOK, WriterTypeOK, Call, NoCall, Step
  <2>2. told' \in [Handles -> Told] /\ threw' \in [Handles -> SUBSET {"Write", "Close"}]
    BY <1>6, <1>7 DEF IInv, TypeOK, Told
  <2> QED
    BY <2>1, <2>2, <1>3 DEF IInv, TypeOK, WriterTypeOK
<1>9. OnlyHandle(h)
  BY <1>3, <1>4, <1>6, <1>7 DEF IInv, TypeOK, WriterTypeOK, OnlyHandle
<1>10. /\ call'[h] = NoCall /\ step'[h] = "idle" /\ told'[h] = "thrown"
       /\ threw'[h] = threw[h] \cup {"Close"}
  BY <1>4, <1>6, <1>7 DEF IInv, TypeOK, WriterTypeOK
<1>11. CallFitsStep(h)' /\ WriterFitsHandle(h)'
  BY <1>1, <1>2, <1>3, <1>10
  DEF IInv, HandleInv, CallFitsStep, WriterFitsHandle, NoCall, Awaiting
<1>12. BytesAgree(h)'
  BY <1>1, <1>2, <1>3, <1>10 DEF IInv, HandleInv, BytesAgree, NoCall
<1>13. CommitIsLast(h)' /\ ToldAgrees(h)' /\ UploadExplained(h)'
  BY <1>1, <1>2, <1>3, <1>10
  DEF IInv, HandleInv, CommitIsLast, ToldAgrees, UploadExplained, NoCall
<1> QED
  BY <1>8, <1>9, <1>11, <1>12, <1>13, OneHandle DEF HandleInv

LEMMA FileSyncStep ==
  ASSUME IInv, NEW h \in Handles, FileSync(h)
  PROVE  IInv'
<1>1. TypeOK'
  <2>1. call' \in [Handles -> Call]
    BY ZeroBytes DEF FileSync, od_writer_close, require_open, Enter, IInv, TypeOK, WriterTypeOK,
                     Call, NoCall, Awaiting, Returned
  <2>2. step' \in [Handles -> Step]
    BY DEF FileSync, Goto, IInv, TypeOK, Step
  <2>3. UNCHANGED <<writer, uploads, object, committed, panicked, handle, told, threw>>
    BY DEF FileSync, Ready, od_writer_close, require_open, Enter, Goto
  <2> QED
    BY <2>1, <2>2, <2>3 DEF IInv, TypeOK, WriterTypeOK
<1>2. OnlyHandle(h)
  BY DEF FileSync, Ready, od_writer_close, require_open, Enter, Goto, IInv, TypeOK,
         WriterTypeOK, OnlyHandle
<1>3. HandleInv(h)'
  BY DEF FileSync, Ready, od_writer_close, require_open, Enter, Goto, NoCall, IInv, TypeOK,
         WriterTypeOK, OdWriter, Handle, Call, HandleInv, CallFitsStep, WriterFitsHandle,
         BytesAgree, CommitIsLast, ToldAgrees, UploadExplained, Awaiting, Returned
<1> QED
  BY <1>1, <1>2, <1>3, OneHandle

LEMMA FileSyncReturnsStep ==
  ASSUME IInv, NEW h \in Handles, FileSyncReturns(h)
  PROVE  IInv'
<1>1. TypeOK'
  <2>1. call' \in [Handles -> Call]
    BY ZeroBytes DEF FileSyncReturns, Hangup, IInv, TypeOK, WriterTypeOK, Call, NoCall,
                     Awaiting, Returned
  <2>2. handle' \in [Handles -> Handle]
    BY DEF FileSyncReturns, AfterSync, IInv, TypeOK, Handle
  <2>3. step' \in [Handles -> Step]
    BY DEF FileSyncReturns, Goto, IInv, TypeOK, Step
  <2>4. told' \in [Handles -> Told]
    BY DEF FileSyncReturns, Answered, Tell, IInv, TypeOK, Told
  <2>5. UNCHANGED <<writer, uploads, object, committed, panicked, threw>>
    BY DEF FileSyncReturns, Answered, AfterSync, Tell, Hangup, Goto
  <2> QED
    BY <2>1, <2>2, <2>3, <2>4, <2>5 DEF IInv, TypeOK, WriterTypeOK
<1>2. OnlyHandle(h)
  BY DEF FileSyncReturns, Answered, AfterSync, Tell, Hangup, Goto, IInv, TypeOK, WriterTypeOK,
         OnlyHandle
<1>3. HandleInv(h)'
    <2> USE DEF FileSyncReturns, Answered, AfterSync, Tell, Hangup, Goto, NoCall, IInv, TypeOK,
              WriterTypeOK, OdWriter, Handle, Call, HandleInv, Awaiting, Returned
  <2>1. CallFitsStep(h)'
    BY DEF CallFitsStep, WriterFitsHandle, BytesAgree, CommitIsLast, ToldAgrees, UploadExplained
  <2>2. WriterFitsHandle(h)'
    BY DEF CallFitsStep, WriterFitsHandle, BytesAgree, CommitIsLast, ToldAgrees, UploadExplained
  <2>3. BytesAgree(h)'
    BY DEF CallFitsStep, WriterFitsHandle, BytesAgree, CommitIsLast, ToldAgrees, UploadExplained
  <2>4. CommitIsLast(h)'
    BY DEF CallFitsStep, WriterFitsHandle, BytesAgree, CommitIsLast, ToldAgrees, UploadExplained
  <2>5. ToldAgrees(h)'
    BY DEF CallFitsStep, WriterFitsHandle, BytesAgree, CommitIsLast, ToldAgrees, UploadExplained
  <2>6. UploadExplained(h)'
    BY DEF CallFitsStep, WriterFitsHandle, BytesAgree, CommitIsLast, ToldAgrees, UploadExplained
  <2> QED
    BY <2>1, <2>2, <2>3, <2>4, <2>5, <2>6
<1> QED
  BY <1>1, <1>2, <1>3, OneHandle

LEMMA CloseStep ==
  ASSUME IInv, NEW h \in Handles, Close(h)
  PROVE  IInv'
<1>1. TypeOK'
  <2>1. call' \in [Handles -> Call]
    BY ZeroBytes DEF Close, Finish, od_writer_close, od_writer_abort, require_open, Enter,
                     writerVars, IInv, TypeOK, WriterTypeOK, Call, NoCall, Awaiting, Returned
  <2>2. step' \in [Handles -> Step]
    BY DEF Close, Goto, IInv, TypeOK, Step
  <2>3. UNCHANGED <<writer, uploads, object, committed, panicked, handle, told, threw>>
    BY DEF Close, Ready, Finish, od_writer_close, od_writer_abort, require_open, Enter, Goto,
           writerVars
  <2> QED
    BY <2>1, <2>2, <2>3 DEF IInv, TypeOK, WriterTypeOK
<1>2. OnlyHandle(h)
  BY DEF Close, Ready, Finish, od_writer_close, od_writer_abort, require_open, Enter, Goto,
         writerVars, IInv, TypeOK, WriterTypeOK, OnlyHandle
<1>3. HandleInv(h)'
  BY DEF Close, Ready, Finish, od_writer_close, od_writer_abort, require_open, Enter, Goto,
         writerVars, NoCall, IInv, TypeOK, WriterTypeOK, OdWriter, Handle, Call, HandleInv,
         CallFitsStep, WriterFitsHandle, BytesAgree, CommitIsLast, ToldAgrees, UploadExplained,
         Awaiting, Returned
<1> QED
  BY <1>1, <1>2, <1>3, OneHandle

LEMMA DestroyStep ==
  ASSUME IInv, NEW h \in Handles, Destroy(h)
  PROVE  IInv'
<1>1. handle[h].phase = "live" /\ step[h] = "idle" /\ call[h].op = "none"
  BY DEF Destroy, Ready, IInv, HandleInv, CallFitsStep
<1>2. UNCHANGED <<writer, uploads, object, committed, panicked, told, threw>>
  BY DEF Destroy, Finish, od_writer_close, od_writer_abort, writerVars
<1>3. CASE handle[h].has_writer
  <2> DEFINE op == IF writer[h].state = "Open" THEN "close" ELSE "error"
  <2>1. /\ call' = IF handle[h].write_finished THEN call
                   ELSE [call EXCEPT ![h] = [op |-> op, n |-> 0]]
        /\ step' = [step EXCEPT ![h] = "Destroy"]
        /\ handle' = handle
    BY <1>1, <1>3 DEF Destroy, Finish, od_writer_close, require_open, Enter, Goto, writerVars,
                      IInv, HandleInv, WriterFitsHandle, BytesAgree
  <2>2. call' \in [Handles -> Call] /\ step' \in [Handles -> Step]
    BY <2>1, ZeroBytes DEF IInv, TypeOK, WriterTypeOK, Call, Awaiting, Returned, Step
  <2>3. TypeOK'
    BY <1>2, <2>1, <2>2 DEF IInv, TypeOK, WriterTypeOK
  <2>4. OnlyHandle(h)
    BY <1>2, <2>1 DEF IInv, TypeOK, WriterTypeOK, OnlyHandle
  <2>5. /\ step'[h] = "Destroy"
        /\ call'[h].op = IF handle[h].write_finished THEN "none" ELSE op
    BY <1>1, <2>1 DEF IInv, TypeOK, WriterTypeOK
  <2>6. CallFitsStep(h)' /\ WriterFitsHandle(h)' /\ BytesAgree(h)'
    BY <1>1, <1>2, <1>3, <2>1, <2>5
    DEF IInv, HandleInv, CallFitsStep, WriterFitsHandle, BytesAgree, Awaiting
  <2>7. CommitIsLast(h)' /\ ToldAgrees(h)' /\ UploadExplained(h)'
    BY <1>1, <1>2, <1>3, <2>1, <2>5
    DEF IInv, HandleInv, CommitIsLast, ToldAgrees, UploadExplained
  <2> QED
    BY <2>3, <2>4, <2>6, <2>7, OneHandle DEF HandleInv
<1>4. CASE ~handle[h].has_writer
  <2>1. handle' = [handle EXCEPT ![h].phase = "gone"] /\ UNCHANGED <<call, step>>
    BY <1>4 DEF Destroy, writerVars
  <2>2. TypeOK'
    <3>1. handle' \in [Handles -> Handle]
      BY <2>1 DEF IInv, TypeOK, Handle
    <3> QED
      BY <3>1, <1>2, <2>1 DEF IInv, TypeOK, WriterTypeOK
  <2>3. OnlyHandle(h)
    BY <1>2, <2>1 DEF IInv, TypeOK, WriterTypeOK, OnlyHandle
  <2>4. handle'[h] = [handle[h] EXCEPT !.phase = "gone"] /\ call'[h] = call[h] /\ step'[h] = step[h]
    BY <2>1 DEF IInv, TypeOK
  <2>5. CallFitsStep(h)' /\ WriterFitsHandle(h)' /\ BytesAgree(h)'
    BY <1>1, <1>2, <1>4, <2>4
    DEF IInv, TypeOK, Handle, HandleInv, CallFitsStep, WriterFitsHandle, BytesAgree, Awaiting
  <2>6. CommitIsLast(h)' /\ ToldAgrees(h)' /\ UploadExplained(h)'
    BY <1>1, <1>2, <1>4, <2>4
    DEF IInv, TypeOK, Handle, HandleInv, CommitIsLast, ToldAgrees, UploadExplained
  <2> QED
    BY <2>2, <2>3, <2>5, <2>6, OneHandle DEF HandleInv
<1> QED
  BY <1>3, <1>4

LEMMA UnwindStep ==
  ASSUME IInv, NEW h \in Handles, Unwind(h)
  PROVE  IInv'
<1>1. TypeOK'
  <2>1. call' \in [Handles -> Call]
    BY ZeroBytes DEF Unwind, Finish, od_writer_close, od_writer_abort, require_open, Enter,
                     writerVars, IInv, TypeOK, WriterTypeOK, Call, NoCall, Awaiting, Returned
  <2>2. UNCHANGED <<writer, uploads, object, committed, panicked, handle, step, told, threw>>
    BY DEF Unwind, Finish, od_writer_close, od_writer_abort, require_open, Enter, writerVars
  <2> QED
    BY <2>1, <2>2 DEF IInv, TypeOK, WriterTypeOK
<1>2. OnlyHandle(h)
  BY DEF Unwind, Finish, od_writer_close, od_writer_abort, require_open, Enter, writerVars,
         IInv, TypeOK, WriterTypeOK, OnlyHandle
<1>3. HandleInv(h)'
  BY DEF Unwind, Finish, od_writer_close, od_writer_abort, require_open, Enter, writerVars,
         NoCall, IInv, TypeOK, WriterTypeOK, OdWriter, Handle, Call, HandleInv, CallFitsStep,
         WriterFitsHandle, BytesAgree, CommitIsLast, ToldAgrees, UploadExplained, Awaiting,
         Returned
<1> QED
  BY <1>1, <1>2, <1>3, OneHandle

LEMMA CloseReturnsStep ==
  ASSUME IInv, NEW h \in Handles, CloseReturns(h)
  PROVE  IInv'
<1>1. TypeOK'
  <2>1. writer' \in [Handles -> OdWriter]
    BY DEF CloseReturns, CloseInternal, FreeWriter, od_writer_free, IInv, TypeOK, WriterTypeOK,
           OdWriter, WriterState
  <2>2. call' \in [Handles -> Call]
    BY ZeroBytes DEF CloseReturns, CloseInternal, Hangup, IInv, TypeOK, WriterTypeOK, Call,
                     NoCall, Awaiting, Returned
  <2>3. handle' \in [Handles -> Handle]
    BY ClosedHandle DEF CloseReturns, CloseInternal, IInv, TypeOK
  <2>4. step' \in [Handles -> Step]
    BY DEF CloseReturns, CloseInternal, Goto, IInv, TypeOK, Step
  <2>5. told' \in [Handles -> Told]
    BY DEF CloseReturns, Tell, IInv, TypeOK, Told
  <2>6. UNCHANGED <<uploads, object, committed, panicked, threw>>
    BY DEF CloseReturns, CloseInternal, FreeWriter, od_writer_free, Tell, Hangup, Goto
  <2> QED
    BY <2>1, <2>2, <2>3, <2>4, <2>5, <2>6 DEF IInv, TypeOK, WriterTypeOK
<1>2. OnlyHandle(h)
  BY DEF CloseReturns, CloseInternal, FreeWriter, od_writer_free, Tell, Hangup, Goto, IInv,
         TypeOK, WriterTypeOK, OnlyHandle
<1>3. HandleInv(h)'
  BY DEF CloseReturns, CloseInternal, FreeWriter, od_writer_free, Tell, Hangup, Goto, NoCall,
         IInv, TypeOK, WriterTypeOK, OdWriter, Handle, Call, HandleInv, CallFitsStep,
         WriterFitsHandle, BytesAgree, CommitIsLast, ToldAgrees, UploadExplained, Awaiting,
         Returned
<1> QED
  BY <1>1, <1>2, <1>3, OneHandle

LEMMA DestroyReturnsStep ==
  ASSUME IInv, NEW h \in Handles, DestroyReturns(h)
  PROVE  IInv'
<1>1. TypeOK'
  <2>1. writer' \in [Handles -> OdWriter]
    BY DEF DestroyReturns, CloseInternal, FreeWriter, od_writer_free, IInv, TypeOK,
           WriterTypeOK, OdWriter, WriterState
  <2>2. call' \in [Handles -> Call]
    BY ZeroBytes DEF DestroyReturns, CloseInternal, Hangup, IInv, TypeOK, WriterTypeOK, Call,
                     NoCall, Awaiting, Returned
  <2>3. handle' \in [Handles -> Handle]
    BY ClosedHandle DEF DestroyReturns, CloseInternal, IInv, TypeOK
  <2>4. step' \in [Handles -> Step]
    BY DEF DestroyReturns, CloseInternal, Goto, IInv, TypeOK, Step
  <2>5. UNCHANGED <<uploads, object, committed, panicked, told, threw>>
    BY DEF DestroyReturns, CloseInternal, FreeWriter, od_writer_free, Hangup, Goto
  <2> QED
    BY <2>1, <2>2, <2>3, <2>4, <2>5 DEF IInv, TypeOK, WriterTypeOK
<1>2. OnlyHandle(h)
  BY DEF DestroyReturns, CloseInternal, FreeWriter, od_writer_free, Hangup, Goto, IInv, TypeOK,
         WriterTypeOK, OnlyHandle
<1>3. HandleInv(h)'
    <2> USE DEF DestroyReturns, CloseInternal, FreeWriter, od_writer_free, Hangup, Goto, NoCall,
              IInv, TypeOK, WriterTypeOK, OdWriter, Handle, Call, HandleInv, Awaiting, Returned
  <2>1. CallFitsStep(h)'
    BY DEF CallFitsStep, WriterFitsHandle, BytesAgree, CommitIsLast, ToldAgrees, UploadExplained
  <2>2. WriterFitsHandle(h)'
    BY DEF CallFitsStep, WriterFitsHandle, BytesAgree, CommitIsLast, ToldAgrees, UploadExplained
  <2>3. BytesAgree(h)'
    BY DEF CallFitsStep, WriterFitsHandle, BytesAgree, CommitIsLast, ToldAgrees, UploadExplained
  <2>4. CommitIsLast(h)'
    BY DEF CallFitsStep, WriterFitsHandle, BytesAgree, CommitIsLast, ToldAgrees, UploadExplained
  <2>5. ToldAgrees(h)'
    BY DEF CallFitsStep, WriterFitsHandle, BytesAgree, CommitIsLast, ToldAgrees, UploadExplained
  <2>6. UploadExplained(h)'
    BY DEF CallFitsStep, WriterFitsHandle, BytesAgree, CommitIsLast, ToldAgrees, UploadExplained
  <2> QED
    BY <2>1, <2>2, <2>3, <2>4, <2>5, <2>6
<1> QED
  BY <1>1, <1>2, <1>3, OneHandle

LEMMA WriteDoneStep ==
  ASSUME IInv, NEW h \in Handles, WriteDone(h), UNCHANGED <<handle, step, told, threw>>
  PROVE  IInv'
<1>1. /\ call[h].op = "write" /\ step[h] = "Write" /\ writer[h].state = "Open"
      /\ handle[h].phase = "live" /\ handle[h].has_writer /\ ~handle[h].write_finished
      /\ writer[h].torn => "Write" \in threw[h]
      /\ writer[h].len = handle[h].bytes_written
      /\ call[h].n <= MaxInt64 - handle[h].bytes_written
  <2>1. call[h].op = "write" /\ step[h] = "Write"
    BY DEF WriteDone, IInv, TypeOK, HandleInv, CallFitsStep, Step
  <2>2. handle[h].phase = "live" /\ handle[h].has_writer /\ ~handle[h].write_finished
    BY <2>1 DEF IInv, HandleInv, WriterFitsHandle
  <2> QED
    BY <2>1, <2>2 DEF IInv, HandleInv, BytesAgree, CallFitsStep, Awaiting
<1>2. /\ h \in committed => "Close" \in threw[h]
      /\ object.by = h =>
           /\ h \in committed
           /\ object.torn => "Write" \in threw[h]
           /\ object.len = handle[h].bytes_written \/ "Close" \in threw[h]
      /\ told[h] \notin {"ok", "failed"}
  BY <1>1 DEF IInv, TypeOK, HandleInv, CommitIsLast, ToldAgrees
<1>3. uploads' = uploads \cup {h} /\ UNCHANGED <<object, committed>>
  BY DEF WriteDone
<1>4. CASE /\ writer' = [writer EXCEPT ![h].len = @ + call[h].n]
           /\ call' = [call EXCEPT ![h].op = "ok"] /\ UNCHANGED panicked
  <2>1. writer[h].len + call[h].n \in Bytes
    BY <1>1, SumInBytes DEF IInv, TypeOK, WriterTypeOK, Call, Handle
  <2>2. TypeOK'
    <3>1. writer' \in [Handles -> OdWriter]
      BY <1>4, <2>1, LongerWriter DEF IInv, TypeOK, WriterTypeOK
    <3>2. call' \in [Handles -> Call]
      BY <1>4 DEF IInv, TypeOK, WriterTypeOK, Call, Returned
    <3> QED
      BY <3>1, <3>2, <1>3, <1>4 DEF IInv, TypeOK, WriterTypeOK
  <2>3. OnlyHandle(h)
    BY <1>3, <1>4 DEF IInv, TypeOK, WriterTypeOK, OnlyHandle
  <2>4. /\ writer'[h].state = "Open" /\ writer'[h].torn = writer[h].torn
        /\ writer'[h].len = writer[h].len + call[h].n
        /\ call'[h].op = "ok" /\ call'[h].n = call[h].n
    BY <1>1, <1>4 DEF IInv, TypeOK, WriterTypeOK, OdWriter, Call
  <2>5. CallFitsStep(h)' /\ WriterFitsHandle(h)' /\ BytesAgree(h)'
    BY <1>1, <2>4
    DEF IInv, HandleInv, CallFitsStep, WriterFitsHandle, BytesAgree, Awaiting
  <2>6. CommitIsLast(h)' /\ ToldAgrees(h)' /\ UploadExplained(h)'
    BY <1>1, <1>2, <1>3, <2>4 DEF CommitIsLast, ToldAgrees, UploadExplained
  <2> QED
    BY <2>2, <2>3, <2>5, <2>6, OneHandle DEF HandleInv
<1>5. CASE /\ writer' = [writer EXCEPT ![h].torn = TRUE]
           /\ \/ call' = [call EXCEPT ![h].op = "cleanup"] /\ UNCHANGED panicked
              \/ call' = [call EXCEPT ![h].op = "error"] /\ panicked' = panicked \cup {h}
  <2>1. TypeOK'
    <3>1. writer' \in [Handles -> OdWriter]
      BY <1>5, TornWriter DEF IInv, TypeOK, WriterTypeOK
    <3>2. call' \in [Handles -> Call]
      BY <1>5 DEF IInv, TypeOK, WriterTypeOK, Call, Returned, Awaiting
    <3> QED
      BY <3>1, <3>2, <1>3, <1>5 DEF IInv, TypeOK, WriterTypeOK
  <2>2. OnlyHandle(h)
    BY <1>3, <1>5 DEF IInv, TypeOK, WriterTypeOK, OnlyHandle
  <2>3. /\ writer'[h].state = "Open" /\ call'[h].n = call[h].n
        /\ \/ call'[h].op = "cleanup"
           \/ call'[h].op = "error" /\ h \in panicked'
    BY <1>1, <1>5 DEF IInv, TypeOK, WriterTypeOK, OdWriter, Call
  <2>4. CallFitsStep(h)' /\ WriterFitsHandle(h)' /\ BytesAgree(h)'
    BY <1>1, <2>3
    DEF IInv, HandleInv, CallFitsStep, WriterFitsHandle, BytesAgree, Awaiting
  <2>5. CommitIsLast(h)' /\ ToldAgrees(h)' /\ UploadExplained(h)'
    BY <1>1, <1>2, <1>3, <2>3 DEF CommitIsLast, ToldAgrees, UploadExplained
  <2> QED
    BY <2>1, <2>2, <2>4, <2>5, OneHandle DEF HandleInv
<1> QED
  BY <1>4, <1>5 DEF WriteDone, abort_after_failure, Panic, Return

LEMMA CloseDoneStep ==
  ASSUME IInv, NEW h \in Handles, CloseDone(h), UNCHANGED <<handle, step, told, threw>>
  PROVE  IInv'
<1>1. /\ call[h].op = "close" /\ step[h] \in {"FileSync", "Close", "Destroy"}
      /\ handle[h].phase = "live" /\ handle[h].has_writer /\ ~handle[h].write_finished
      /\ writer[h].state = "Open"
      /\ writer[h].torn => "Write" \in threw[h]
      /\ writer[h].len = handle[h].bytes_written
  <2>1. call[h].op = "close" /\ step[h] \in {"FileSync", "Close", "Destroy"}
    BY DEF CloseDone, IInv, TypeOK, HandleInv, CallFitsStep, Step
  <2>2. handle[h].phase = "live" /\ handle[h].has_writer /\ ~handle[h].write_finished
    BY <2>1 DEF IInv, HandleInv, WriterFitsHandle, CallFitsStep
  <2> QED
    BY <2>1, <2>2 DEF IInv, HandleInv, BytesAgree, CallFitsStep, Awaiting
<1>2. told[h] \notin {"ok", "failed"}
  BY <1>1 DEF IInv, TypeOK, HandleInv, ToldAgrees
<1>3. object' \in Image /\ (object' = object \/ object'.by = h)
  BY <1>1 DEF CloseDone, Publish, IInv, TypeOK, WriterTypeOK, OdWriter, Image
<1>4. /\ uploads' \in {uploads, uploads \ {h}}
      /\ committed' \in {committed, committed \cup {h}}
      /\ panicked' \in {panicked, panicked \cup {h}}
      /\ object'.by = h =>
           /\ h \in committed'
           /\ object'.torn => "Write" \in threw[h]
           /\ object'.len = handle[h].bytes_written \/ "Close" \in threw[h]
  BY <1>1 DEF CloseDone, Publish, Panic, IInv, HandleInv, CommitIsLast
<1>5. CASE /\ writer' = [writer EXCEPT ![h].state = "Closed"]
           /\ call' = [call EXCEPT ![h].op = "ok"]
           /\ h \notin uploads' /\ h \in committed'
  <2>1. TypeOK'
    <3>1. writer' \in [Handles -> OdWriter]
      BY <1>5 DEF IInv, TypeOK, WriterTypeOK, OdWriter, WriterState
    <3>2. call' \in [Handles -> Call]
      BY <1>5 DEF IInv, TypeOK, WriterTypeOK, Call, Returned
    <3> QED
      BY <3>1, <3>2, <1>3, <1>4 DEF IInv, TypeOK, WriterTypeOK
  <2>2. OnlyHandle(h)
    BY <1>3, <1>4, <1>5 DEF IInv, TypeOK, WriterTypeOK, OnlyHandle
  <2>3. /\ writer'[h].state = "Closed" /\ call'[h].op = "ok"
        /\ writer'[h].torn = writer[h].torn /\ writer'[h].len = writer[h].len
    BY <1>5 DEF IInv, TypeOK, WriterTypeOK, OdWriter, Call
  <2>4. CallFitsStep(h)' /\ WriterFitsHandle(h)' /\ BytesAgree(h)'
    BY <1>1, <2>3
    DEF IInv, HandleInv, CallFitsStep, WriterFitsHandle, BytesAgree, Awaiting
  <2>5. CommitIsLast(h)' /\ ToldAgrees(h)' /\ UploadExplained(h)'
    BY <1>1, <1>2, <1>4, <1>5, <2>3 DEF CommitIsLast, ToldAgrees, UploadExplained
  <2> QED
    BY <2>1, <2>2, <2>4, <2>5, OneHandle DEF HandleInv
<1>6. CASE /\ writer' = writer
           /\ \/ call' = [call EXCEPT ![h].op = "cleanup"]
              \/ call' = [call EXCEPT ![h].op = "error"] /\ h \in panicked'
  <2>1. TypeOK'
    <3>1. call' \in [Handles -> Call]
      BY <1>6 DEF IInv, TypeOK, WriterTypeOK, Call, Returned, Awaiting
    <3> QED
      BY <3>1, <1>3, <1>4, <1>6 DEF IInv, TypeOK, WriterTypeOK
  <2>2. OnlyHandle(h)
    BY <1>3, <1>4, <1>6 DEF IInv, TypeOK, WriterTypeOK, OnlyHandle
  <2>3. \/ call'[h].op = "cleanup"
        \/ call'[h].op = "error" /\ h \in panicked'
    BY <1>6 DEF IInv, TypeOK, WriterTypeOK, Call
  <2>4. CallFitsStep(h)' /\ WriterFitsHandle(h)' /\ BytesAgree(h)'
    BY <1>1, <1>6, <2>3
    DEF IInv, HandleInv, CallFitsStep, WriterFitsHandle, BytesAgree, Awaiting
  <2>5. CommitIsLast(h)' /\ ToldAgrees(h)' /\ UploadExplained(h)'
    BY <1>1, <1>2, <1>4, <1>6, <2>3 DEF CommitIsLast, ToldAgrees, UploadExplained
  <2> QED
    BY <2>1, <2>2, <2>4, <2>5, OneHandle DEF HandleInv
<1> QED
    BY <1>5, <1>6 DEF CloseDone, Publish, abort_after_failure, Panic, Return, IInv, TypeOK,
                    WriterTypeOK

LEMMA AbortDoneStep ==
  ASSUME IInv, NEW h \in Handles, AbortDone(h), UNCHANGED <<handle, step, told, threw>>
  PROVE  IInv'
<1>1. call[h].op \in {"abort", "cleanup"} /\ writer[h].state = "Open"
  BY DEF AbortDone, IInv, HandleInv, CallFitsStep, Awaiting
<1>2. handle[h].has_writer /\ ~handle[h].write_finished /\ step[h] # "idle"
  BY <1>1 DEF IInv, TypeOK, HandleInv, CallFitsStep, WriterFitsHandle, Step
<1>3. /\ UNCHANGED <<object, committed>>
      /\ uploads' \in {uploads, uploads \ {h}} /\ panicked' \in {panicked, panicked \cup {h}}
  BY DEF AbortDone, Panic
<1>4. /\ writer' \in {writer, [writer EXCEPT ![h].state = "Aborted"],
                      [writer EXCEPT ![h].state = "Failed"]}
      /\ call' \in {[call EXCEPT ![h].op = "ok"], [call EXCEPT ![h].op = "error"]}
  BY DEF AbortDone, Panic, Return
<1>5. TypeOK'
  <2>1. writer' \in [Handles -> OdWriter]
    <3>1. ASSUME NEW state \in {"Aborted", "Failed"}
          PROVE  [writer EXCEPT ![h].state = state] \in [Handles -> OdWriter]
      <4>1. writer \in [Handles -> OdWriter] /\ state \in WriterState
        BY DEF IInv, TypeOK, WriterTypeOK, WriterState
      <4>2. [writer[h] EXCEPT !.state = state] \in OdWriter
        BY <4>1 DEF OdWriter
      <4> QED
        BY <4>1, <4>2
    <3> QED
      BY <1>4, <3>1 DEF IInv, TypeOK, WriterTypeOK
  <2>2. call' \in [Handles -> Call]
    BY <1>4 DEF IInv, TypeOK, WriterTypeOK, Call, Returned
  <2> QED
    BY <2>1, <2>2, <1>3 DEF IInv, TypeOK, WriterTypeOK
<1>6. OnlyHandle(h)
  BY <1>3, <1>4 DEF IInv, TypeOK, WriterTypeOK, OnlyHandle
<1>7. HandleInv(h)'
  <2>1. \/ writer'[h].state = "Aborted" /\ h \notin uploads'
        \/ writer'[h].state = "Failed"
        \/ writer'[h].state = "Open" /\ h \in panicked'
    BY <1>1 DEF AbortDone, Panic, IInv, TypeOK, WriterTypeOK, OdWriter
  <2>2. /\ call'[h].op \in {"ok", "error"}
        /\ call'[h].op = "ok" => call[h].op = "abort" /\ writer'[h].state = "Aborted"
    BY <1>1 DEF AbortDone, Panic, Return, IInv, TypeOK, WriterTypeOK, OdWriter, Call
  <2>3. call[h].op = "abort" => step[h] = "OpenFile"
    BY DEF IInv, TypeOK, HandleInv, CallFitsStep, Step
  <2>4. CallFitsStep(h)'
    BY <1>1, <1>2, <2>2, <2>3 DEF IInv, HandleInv, CallFitsStep, Awaiting
  <2>6. WriterFitsHandle(h)'
    BY <1>1, <1>2, <1>3, <2>1 DEF IInv, HandleInv, WriterFitsHandle
  <2>7. BytesAgree(h)'
    <3>1. /\ call'[h].n = call[h].n
          /\ writer'[h].torn = writer[h].torn /\ writer'[h].len = writer[h].len
      BY <1>4 DEF IInv, TypeOK, WriterTypeOK, Call, OdWriter
    <3> QED
      BY <1>1, <1>2, <2>2, <2>3, <3>1 DEF IInv, HandleInv, BytesAgree
  <2>5. CommitIsLast(h)' /\ ToldAgrees(h)' /\ UploadExplained(h)'
    BY <1>1, <1>2, <1>3, <2>1, <2>2, <2>3
    DEF IInv, HandleInv, CommitIsLast, ToldAgrees, UploadExplained
  <2> QED
    BY <2>4, <2>5, <2>6, <2>7 DEF HandleInv
<1> QED
  BY <1>5, <1>6, <1>7, OneHandle

LEMMA StepPreserves == IInv /\ [Next]_vars => IInv'
<1> SUFFICES ASSUME IInv, [Next]_vars PROVE IInv'
  OBVIOUS
<1>1. CASE UNCHANGED vars
  BY <1>1
  DEF vars, IInv, TypeOK, WriterTypeOK, HandleInv, CallFitsStep, WriterFitsHandle, BytesAgree,
      CommitIsLast, ToldAgrees, UploadExplained
<1>2. ASSUME NEW h \in Handles, OpenFileFails(h) \/ OpenFile(h) \/ OpenFileThrows(h)
      PROVE  IInv'
  BY <1>2, OpenFileFailsStep, OpenFileStep, OpenFileThrowsStep
<1>3. ASSUME NEW h \in Handles, NEW n \in Bytes, NEW location \in Bytes,
             Write(h, n, location) \/ WriteRefused(h, n, location)
      PROVE  IInv'
  BY <1>3, WriteStep, MereThrowStep DEF WriteRefused
<1>4. ASSUME NEW h \in Handles,
             FileSync(h) \/ Close(h) \/ CloseThrows(h) \/ Destroy(h) \/ Unwind(h)
      PROVE  IInv'
  BY <1>4, FileSyncStep, CloseStep, MereThrowStep, DestroyStep, UnwindStep DEF CloseThrows
<1>5. ASSUME NEW h \in Handles, Returns(h)
      PROVE  IInv'
  BY <1>5, WriteReturnsStep, WriteThrowsStep, FileSyncReturnsStep, CloseReturnsStep,
     CloseErrorThrowsStep, DestroyReturnsStep DEF Returns
<1>6. ASSUME NEW h \in Handles, Answers(h)
      PROVE  IInv'
  BY <1>6, WriteDoneStep, CloseDoneStep, AbortDoneStep DEF Answers, ServiceAnswers
<1> QED
  BY <1>1, <1>2, <1>3, <1>4, <1>5, <1>6 DEF Next

LEMMA Invariance == Spec => []IInv
  BY InitEstablishes, StepPreserves, PTL DEF Spec

--------------------------------------------------------------------------------
(***************************************************************************)
(* The theorems.                                                           *)
(***************************************************************************)

\* Type correctness; with it, no sum of the lengths written to a handle overflows an int64_t.
THEOREM TypeCorrect == Spec => []TypeOK
<1>1. IInv => TypeOK
  BY DEF IInv
<1> QED
  BY <1>1, Invariance, PTL

\* Readers see the old object or exactly the acknowledged bytes of one handle, whatever fails,
\* is refused or throws on the write path, except what the loggers of Write and of a failed close
\* do to their own handle.
THEOREM ObjectIsWhole == Spec => []ImageIsWhole
<1>1. IInv => ImageIsWhole
  BY DEF IInv, TypeOK, WriterTypeOK, Image, HandleInv, CommitIsLast, ImageIsWhole
<1> QED
  BY <1>1, Invariance, PTL

\* A Close or FileSync that returned without an error, on a handle without one, has published
\* the object.
THEOREM SuccessIsCommitted == Spec => []OkMeansCommitted
<1>1. IInv => OkMeansCommitted
  BY DEF IInv, HandleInv, ToldAgrees, OkMeansCommitted
<1> QED
  BY <1>1, Invariance, PTL

\* The C++ flags and the Rust WriterState never contradict each other between two calls, and
\* every writer is freed exactly when its handle lets go of it.
THEOREM LayersStayInStep == Spec => []LayersAgree
<1>1. IInv => LayersAgree
  BY DEF IInv, HandleInv, CallFitsStep, WriterFitsHandle, BytesAgree, LayersAgree, Ready
<1> QED
  BY <1>1, Invariance, PTL

\* After DuckDB has been told that opening, a write, a sync or a close failed, neither a later
\* close nor the destructor of the handle publishes the put -- also if guards have refused calls
\* on it and loggers have thrown before.
THEOREM FailureIsFinal == Spec => NoCommitAfterFailure
<1> DEFINE Quiet == \A h \in Handles : told[h] = "failed" => (h \in committed' => h \in committed)
<1>1. ASSUME IInv, [Next]_vars
      PROVE  [Quiet]_vars
  <2> SUFFICES ASSUME NEW h \in Handles, told[h] = "failed", h \in committed', h \notin committed
               PROVE  FALSE
    OBVIOUS
  <2>1. CloseDone(h)
    <3>1. PICK k \in Handles :
            \/ OpenFileFails(k) \/ OpenFile(k) \/ OpenFileThrows(k)
            \/ \E n, location \in Bytes : Write(k, n, location) \/ WriteRefused(k, n, location)
            \/ FileSync(k) \/ Close(k) \/ CloseThrows(k) \/ Destroy(k) \/ Unwind(k)
            \/ Returns(k) \/ Answers(k)
      BY <1>1 DEF Next, vars, writerVars
    <3>2. ~(OpenFileFails(k) \/ OpenFile(k) \/ OpenFileThrows(k) \/ Returns(k))
      BY DEF OpenFileFails, OpenFile, OpenFileThrows, Returns, WriteReturns, WriteThrows,
        FileSyncReturns, CloseReturns, CloseErrorThrows, DestroyReturns, CloseInternal,
        FreeWriter, writerVars, od_writer_open, od_writer_free
    <3>3. ~(\E n, location \in Bytes : Write(k, n, location) \/ WriteRefused(k, n, location))
      BY DEF Write, WriteRefused, od_writer_write, writerVars
    <3>4. ~(FileSync(k) \/ Close(k) \/ CloseThrows(k) \/ Destroy(k) \/ Unwind(k))
      BY DEF FileSync, Close, CloseThrows, Destroy, Unwind, Finish, writerVars,
        od_writer_close, od_writer_abort
    <3>5. WriteDone(k) \/ CloseDone(k) \/ AbortDone(k)
      BY <3>1, <3>2, <3>3, <3>4 DEF Answers, ServiceAnswers
    <3>6. CloseDone(k)
      BY <3>5 DEF WriteDone, AbortDone
    <3>7. k = h
      BY <3>6 DEF CloseDone, Publish
    <3> QED
      BY <3>6, <3>7
  <2>2. call[h].op = "close" /\ step[h] \in {"FileSync", "Close", "Destroy"}
    BY <1>1, <2>1 DEF CloseDone, IInv, TypeOK, HandleInv, CallFitsStep, Step
  <2>3. ~handle[h].write_finished /\ handle[h].phase = "live"
    BY <1>1, <2>2 DEF IInv, HandleInv, CallFitsStep, WriterFitsHandle
  <2> QED
    BY <1>1, <2>2, <2>3 DEF IInv, HandleInv, ToldAgrees
<1> QED
  BY <1>1, Invariance, PTL DEF Spec, NoCommitAfterFailure

\* A writer is freed over an upload still at the service only if cancelling the upload failed or
\* a call on it panicked.
THEOREM UploadsAreCancelled == Spec => NoSilentOrphan
<1> DEFINE Excused ==
      \A h \in Handles :
        writer[h].state # "Freed" /\ writer'[h].state = "Freed" /\ h \in uploads =>
          writer[h].state = "Failed" \/ h \in panicked
<1>1. ASSUME IInv, [Next]_vars
      PROVE  [Excused]_vars
  <2> SUFFICES ASSUME NEW h \in Handles, writer[h].state # "Freed", writer'[h].state = "Freed",
                      h \in uploads, writer[h].state # "Failed"
               PROVE  h \in panicked
    OBVIOUS
  <2>1. writer' # writer
    BY DEF IInv
  <2>2. PICK k \in Handles :
          \/ OpenFile(k) \/ OpenFileThrows(k) \/ CloseReturns(k) \/ DestroyReturns(k)
          \/ WriteThrows(k) \/ ServiceAnswers(k)
    <3>1. ASSUME NEW k \in Handles,
                 \/ OpenFileFails(k) \/ FileSync(k) \/ Close(k) \/ CloseThrows(k) \/ Destroy(k)
                 \/ Unwind(k) \/ \E n, location \in Bytes : Write(k, n, location)
                                                          \/ WriteRefused(k, n, location)
          PROVE  writer' = writer
      BY <3>1 DEF OpenFileFails, FileSync, Close, CloseThrows, Destroy, Unwind, Write,
         WriteRefused, Finish, writerVars, od_writer_write, od_writer_close, od_writer_abort
    <3>2. ASSUME NEW k \in Handles, WriteReturns(k) \/ FileSyncReturns(k) \/ CloseErrorThrows(k)
          PROVE  writer' = writer
      BY <3>2 DEF WriteReturns, FileSyncReturns, CloseErrorThrows
    <3>3. vars' # vars
      BY <2>1 DEF vars
    <3> QED
      BY <1>1, <2>1, <3>1, <3>2, <3>3 DEF Next, Returns, Answers
  <2>3. CASE CloseReturns(k) \/ DestroyReturns(k)
    <3>1. writer' = [writer EXCEPT ![k].state = "Freed"]
      BY <2>3 DEF CloseReturns, DestroyReturns, CloseInternal, FreeWriter, od_writer_free
    <3>2. k = h
      BY <1>1, <3>1 DEF IInv, TypeOK, WriterTypeOK
    <3>3. step[h] \in {"Close", "Destroy", "OpenFile"}
      BY <2>3, <3>2 DEF CloseReturns, DestroyReturns
    <3>4. call[h].op \in {"ok", "error"} \/ (call[h].op = "none" /\ handle[h].write_finished)
      BY <2>3, <3>2 DEF CloseReturns, DestroyReturns, CloseInternal, Returned
    <3>5. handle[h].has_writer /\ writer[h].state \in {"Open", "Closed", "Aborted"}
      BY <1>1, <3>3 DEF IInv, HandleInv, WriterFitsHandle
    <3> QED
      BY <1>1, <3>3, <3>4, <3>5 DEF IInv, HandleInv, UploadExplained
  <2>4. CASE OpenFile(k) \/ OpenFileThrows(k)
    BY <1>1, <2>4 DEF OpenFile, OpenFileThrows, od_writer_open, IInv, TypeOK, WriterTypeOK, OdWriter
  <2>5. CASE ServiceAnswers(k)
    <3>1. \/ writer' = writer
          \/ writer' = [writer EXCEPT ![k].len = @ + call[k].n]
          \/ writer' = [writer EXCEPT ![k].torn = TRUE]
          \/ \E s \in {"Closed", "Aborted", "Failed"} : writer' = [writer EXCEPT ![k].state = s]
      BY <2>5 DEF ServiceAnswers, WriteDone, CloseDone, AbortDone
    <3> QED
      BY <1>1, <3>1 DEF IInv, TypeOK, WriterTypeOK, OdWriter
  <2>6. CASE WriteThrows(k)
    BY <1>1, <2>6 DEF WriteThrows, Disowned, IInv, TypeOK, WriterTypeOK, OdWriter
  <2> QED
    BY <2>2, <2>3, <2>4, <2>5, <2>6
<1> QED
  BY <1>1, Invariance, PTL DEF Spec, NoSilentOrphan

--------------------------------------------------------------------------------
(***************************************************************************)
(* WriteHandle implements AtomicPut.                                       *)
(*                                                                         *)
(* Seen through the refinement mapping a step of a handle is one step of   *)
(* its put or none: the entries of the FFI functions are invisible, and    *)
(* the service's answer to a close is where the put commits.  Which        *)
(* abstract step the return of a call is depends on what IInv knows of the *)
(* handle at that moment.                                                  *)
(***************************************************************************)
\* The put of handle h, in one piece.
PutOf(h) == [phase |-> PutPhase(h), len |-> handle[h].bytes_written, told |-> told[h],
             astray |-> Astray(h)]

\* What a step of handle h must leave alone for it to be a step of that put only.
OthersKeepPut(h) ==
  \A k \in Handles \ {h} :
    writer'[k].state = writer[k].state /\ (k \in committed' <=> k \in committed)
      /\ handle'[k].bytes_written = handle[k].bytes_written
      /\ told'[k] = told[k] /\ threw'[k] = threw[k]

AbstractStep == Abstract!Next \/ UNCHANGED <<put, object>>

\* PutPhase in one clause per phase.
LEMMA PhaseCases ==
  ASSUME TypeOK, NEW h \in Handles
  PROVE  /\ PutPhase(h) \in {"new", "open", "committed", "dropped"}
         /\ PutPhase(h) = "committed" <=> h \in committed
         /\ PutPhase(h) = "new" <=> h \notin committed /\ writer[h].state = "Null"
         /\ PutPhase(h) = "open" <=> h \notin committed /\ writer[h].state \in {"Open", "Closed"}
         /\ PutPhase(h) = "dropped" <=>
              h \notin committed /\ writer[h].state \in {"Aborted", "Failed", "Freed"}
<1>1. writer[h].state \in WriterState
  BY DEF TypeOK, WriterTypeOK, OdWriter
<1> QED
  BY <1>1 DEF PutPhase, WriterState

\* A handle is astray as long as it has thrown the same.
LEMMA StaysAstray ==
  ASSUME NEW h \in Handles, threw'[h] = threw[h]
  PROVE  Astray(h)' = Astray(h)
  BY DEF Astray

\* A step that changes one put replaces its record.
LEMMA PutChanges ==
  ASSUME TypeOK, TypeOK', NEW h \in Handles, OthersKeepPut(h)
  PROVE  put' = [put EXCEPT ![h] = PutOf(h)']
<1>1. ASSUME NEW k \in Handles \ {h} PROVE PutOf(k)' = PutOf(k)
  BY <1>1, StaysAstray DEF OthersKeepPut, PutOf, PutPhase
<1>2. put = [k \in Handles |-> PutOf(k)]
  BY DEF put, PutOf
<1>3. put' = [k \in Handles |-> PutOf(k)']
  BY DEF put, PutOf
<1> QED
  BY <1>1, <1>2, <1>3

\* A step that changes nothing the mapping looks at is a stutter.
LEMMA Stutter ==
  ASSUME TypeOK, TypeOK', object' = object,
         \A k \in Handles :
           writer'[k].state = writer[k].state /\ (k \in committed' <=> k \in committed)
             /\ handle'[k].bytes_written = handle[k].bytes_written
             /\ told'[k] = told[k] /\ threw'[k] = threw[k]
  PROVE  AbstractStep
<1>1. ASSUME NEW k \in Handles PROVE PutOf(k)' = PutOf(k)
  BY <1>1, StaysAstray DEF PutOf, PutPhase
<1>2. put = [k \in Handles |-> PutOf(k)] /\ put' = [k \in Handles |-> PutOf(k)']
  BY DEF put, PutOf
<1> QED
  BY <1>1, <1>2 DEF AbstractStep

\* A step that reports a failure: the put keeps its phase, or is dropped with it.
LEMMA FailsPut ==
  ASSUME TypeOK, TypeOK', NEW h \in Handles, OthersKeepPut(h), object' = object,
         told[h] \in {"pending", "thrown"}, told'[h] = "failed", threw'[h] = threw[h],
         handle'[h].bytes_written = handle[h].bytes_written,
         PutPhase(h)' = PutPhase(h) \/ (PutPhase(h) = "open" /\ PutPhase(h)' = "dropped")
  PROVE  AbstractStep
<1> DEFINE phase == PutPhase(h)'
<1>1. PutOf(h)' = [phase |-> phase, len |-> handle[h].bytes_written, told |-> "failed",
                   astray |-> Astray(h)]
  BY StaysAstray DEF PutOf, PutPhase
<1>2. put[h] = [phase |-> PutPhase(h), len |-> handle[h].bytes_written, told |-> told[h],
                astray |-> Astray(h)]
  BY DEF put
<1>3. put' = [put EXCEPT ![h] = [@ EXCEPT !.phase = phase, !.told = "failed"]]
  <2>1. put' = [put EXCEPT ![h] = PutOf(h)']
    BY PutChanges
  <2>2. PutOf(h)' = [[put[h] EXCEPT !.phase = phase] EXCEPT !.told = "failed"]
    <3> DEFINE between == [phase |-> phase, len |-> handle[h].bytes_written, told |-> told[h],
                           astray |-> Astray(h)]
    <3>1. [put[h] EXCEPT !.phase = phase] = between
      BY <1>2
    <3>2. [between EXCEPT !.told = "failed"] = PutOf(h)'
      BY <1>1
    <3> QED
      BY Zenon, <3>1, <3>2
  <2>3. put = [k \in Handles |-> put[k]]
    BY DEF put
  <2> QED
    BY <2>1, <2>2, <2>3
<1>4. put[h].told \in {"pending", "thrown"} /\ put[h].phase = PutPhase(h)
  BY DEF put
<1>5. phase \in {put[h].phase} \cup (IF put[h].phase = "open" THEN {"dropped"} ELSE {})
  BY <1>4
<1> HIDE DEF phase
<1>6. Abstract!Fail(h)
  BY <1>3, <1>4, <1>5 DEF Abstract!Fail, Abstract!Undecided
<1> QED
  BY <1>6 DEF AbstractStep, Abstract!Next

\* A step that ends an uncommitted put, with nothing new to report.
LEMMA DropsPut ==
  ASSUME TypeOK, TypeOK', NEW h \in Handles, OthersKeepPut(h), object' = object,
         told'[h] = told[h], threw'[h] = threw[h],
         handle'[h].bytes_written = handle[h].bytes_written,
         PutPhase(h) = "open", h \notin committed',
         writer'[h].state \in {"Aborted", "Failed", "Freed"}
  PROVE  AbstractStep
<1>1. PutOf(h)' = [phase |-> "dropped", len |-> handle[h].bytes_written, told |-> told[h],
                   astray |-> Astray(h)]
  BY StaysAstray DEF PutOf, PutPhase
<1>2. put[h] = [phase |-> "open", len |-> handle[h].bytes_written, told |-> told[h],
                astray |-> Astray(h)]
  BY DEF put
<1>3. put' = [put EXCEPT ![h].phase = "dropped"]
  BY <1>1, <1>2, PutChanges DEF put
<1>4. Abstract!Drop(h)
  BY <1>2, <1>3 DEF Abstract!Drop
<1> QED
  BY <1>4 DEF AbstractStep, Abstract!Next

\* A step that reports the success of a committed put.
LEMMA SucceedsPut ==
  ASSUME TypeOK, TypeOK', NEW h \in Handles, OthersKeepPut(h), object' = object,
         told[h] \in {"pending", "thrown"}, told'[h] = "ok", threw'[h] = threw[h],
         handle'[h].bytes_written = handle[h].bytes_written,
         h \in committed, h \in committed'
  PROVE  AbstractStep
<1>1. PutOf(h)' = [phase |-> "committed", len |-> handle[h].bytes_written, told |-> "ok",
                   astray |-> Astray(h)]
  BY StaysAstray DEF PutOf, PutPhase
<1>2. put[h] = [phase |-> "committed", len |-> handle[h].bytes_written, told |-> told[h],
                astray |-> Astray(h)]
  BY DEF put, PutPhase
<1>3. put' = [put EXCEPT ![h].told = "ok"]
  BY <1>1, <1>2, PutChanges DEF put
<1>4. Abstract!Succeed(h)
  BY <1>2, <1>3 DEF Abstract!Succeed, Abstract!Undecided
<1> QED
  BY <1>4 DEF AbstractStep, Abstract!Next

\* A step that ends in an exception, which may have led the put astray.
LEMMA ThrowsPut ==
  ASSUME TypeOK, TypeOK', NEW h \in Handles, OthersKeepPut(h), object' = object,
         told[h] \in {"pending", "thrown"}, told'[h] = "thrown",
         handle'[h].bytes_written = handle[h].bytes_written,
         PutPhase(h)' = PutPhase(h), PutPhase(h) # "new",
         threw'[h] = threw[h] \/ threw'[h] # {}
  PROVE  AbstractStep
<1> DEFINE is == Astray(h)'
<1>1. is \in {Astray(h), TRUE}
  <2>1. CASE threw'[h] = threw[h]
    BY <2>1, StaysAstray
  <2>2. CASE threw'[h] # {}
    BY <2>2, Zenon DEF Astray
  <2> QED
    BY <2>1, <2>2
<1>2. PutOf(h)' = [phase |-> PutPhase(h), len |-> handle[h].bytes_written, told |-> "thrown",
                   astray |-> is]
  BY DEF PutOf
<1> HIDE DEF is
<1>3. put[h] = [phase |-> PutPhase(h), len |-> handle[h].bytes_written, told |-> told[h],
                astray |-> Astray(h)]
  BY DEF put
<1>4. put' = [put EXCEPT ![h] = [@ EXCEPT !.told = "thrown", !.astray = is]]
  <2>1. put' = [put EXCEPT ![h] = PutOf(h)']
    BY PutChanges
  <2>2. PutOf(h)' = [[put[h] EXCEPT !.told = "thrown"] EXCEPT !.astray = is]
    <3> DEFINE between == [phase |-> PutPhase(h), len |-> handle[h].bytes_written,
                           told |-> "thrown", astray |-> Astray(h)]
    <3>1. [put[h] EXCEPT !.told = "thrown"] = between
      BY <1>3
    <3>2. [between EXCEPT !.astray = is] = PutOf(h)'
      BY <1>2
    <3> QED
      BY Zenon, <3>1, <3>2
  <2>3. put = [k \in Handles |-> put[k]]
    BY DEF put
  <2> QED
    BY <2>1, <2>2, <2>3
<1>5. put[h].told \in {"pending", "thrown"} /\ put[h].phase # "new" /\ put[h].astray = Astray(h)
  BY <1>3
<1>6. Abstract!Throw(h)
  BY <1>1, <1>4, <1>5 DEF Abstract!Throw, Abstract!Undecided
<1> QED
  BY <1>6 DEF AbstractStep, Abstract!Next

\* The initial states map to the initial state.
LEMMA InitRefines == Init => Abstract!Init
<1> SUFFICES ASSUME Init PROVE Abstract!Init
  OBVIOUS
<1>1. ASSUME NEW h \in Handles PROVE Astray(h) = FALSE
  BY <1>1, Zenon DEF Init, Astray
<1> QED
  BY <1>1 DEF Init, WriterInit, Abstract!Init, put, PutPhase

--------------------------------------------------------------------------------
(***************************************************************************)
(* Opening a handle begins its put; failing to open it only reports.       *)
(***************************************************************************)
LEMMA OpenFileFailsRefines ==
  ASSUME IInv, IInv', NEW h \in Handles, OpenFileFails(h)
  PROVE  AbstractStep
<1>1. OthersKeepPut(h) /\ object' = object
  BY DEF OpenFileFails, Tell, writerVars, IInv, TypeOK, WriterTypeOK, OthersKeepPut
<1>2. told[h] = "pending"
  BY DEF OpenFileFails, IInv, HandleInv, WriterFitsHandle
<1>3. /\ told'[h] = "failed" /\ handle'[h].bytes_written = handle[h].bytes_written
      /\ UNCHANGED <<writer, committed, threw>>
  BY <1>2 DEF OpenFileFails, Tell, writerVars, IInv, TypeOK, Handle
<1>4. PutPhase(h)' = PutPhase(h)
  BY <1>3 DEF PutPhase
<1> QED
  BY <1>1, <1>2, <1>3, <1>4, FailsPut DEF IInv

LEMMA OpenFileRefines ==
  ASSUME IInv, IInv', NEW h \in Handles, OpenFile(h) \/ OpenFileThrows(h)
  PROVE  AbstractStep
<1>1. OthersKeepPut(h) /\ object' = object
  BY DEF OpenFile, OpenFileThrows, od_writer_open, Tell, IInv, TypeOK, WriterTypeOK, Handle,
         OthersKeepPut
<1>2. told[h] = "pending" /\ writer[h].state = "Null" /\ h \notin committed
  BY DEF OpenFile, OpenFileThrows, IInv, HandleInv, WriterFitsHandle
<1>3. writer'[h].state = "Open" /\ committed' = committed /\ threw' = threw
  BY DEF OpenFile, OpenFileThrows, od_writer_open, IInv, TypeOK, WriterTypeOK, OdWriter
<1>4. /\ handle'[h].bytes_written = handle[h].bytes_written
      /\ told'[h] \in {"pending", "failed"}
  <2>1. h \in DOMAIN handle /\ h \in DOMAIN told /\ handle[h] \in Handle
    BY DEF IInv, TypeOK
  <2>2. CASE OpenFile(h)
    <3>1. handle'[h].bytes_written = handle[h].bytes_written
      BY <2>1, <2>2 DEF OpenFile, Handle
    <3>2. told' = told
      BY <2>2 DEF OpenFile
    <3>3. QED
      BY <1>2, <3>1, <3>2
  <2>3. CASE OpenFileThrows(h)
    <3>1. handle'[h].bytes_written = handle[h].bytes_written
      BY <2>1, <2>3 DEF OpenFileThrows, Handle
    <3>2. told'[h] = "failed"
      BY <1>2, <2>1, <2>3 DEF OpenFileThrows, Tell
    <3>3. QED
      BY <3>1, <3>2
  <2>4. QED
    BY <2>2, <2>3
<1>5. PutOf(h)' = [phase |-> "open", len |-> handle[h].bytes_written, told |-> told'[h],
                   astray |-> Astray(h)]
  BY <1>2, <1>3, <1>4, StaysAstray DEF PutOf, PutPhase
<1>6. put[h] = [phase |-> "new", len |-> handle[h].bytes_written, told |-> "pending",
                astray |-> Astray(h)]
  BY <1>2 DEF put, PutPhase
<1>7. put' = [put EXCEPT ![h] = [@ EXCEPT !.phase = "open", !.told = told'[h]]]
  <2>1. put' = [put EXCEPT ![h] = PutOf(h)']
    BY <1>1, PutChanges DEF IInv
  <2>2. PutOf(h)' = [[put[h] EXCEPT !.phase = "open"] EXCEPT !.told = told'[h]]
    <3> DEFINE between == [phase |-> "open", len |-> handle[h].bytes_written,
                           told |-> "pending", astray |-> Astray(h)]
    <3>1. [put[h] EXCEPT !.phase = "open"] = between
      BY <1>6
    <3>2. [between EXCEPT !.told = told'[h]] = PutOf(h)'
      BY <1>5
    <3> QED
      BY Zenon, <3>1, <3>2
  <2>3. put = [k \in Handles |-> put[k]]
    BY DEF put
  <2> QED
    BY <2>1, <2>2, <2>3
<1>8. put[h].phase = "new" /\ put[h].told = "pending"
  BY <1>6
<1>9. Abstract!Begin(h)
  BY <1>1, <1>4, <1>7, <1>8 DEF Abstract!Begin
<1> QED
  BY <1>9 DEF AbstractStep, Abstract!Next

(***************************************************************************)
(* The entries of the FFI functions are invisible.                         *)
(***************************************************************************)
LEMMA EntryRefines ==
  ASSUME IInv, IInv', NEW h \in Handles,
         \/ \E n, location \in Bytes : Write(h, n, location)
         \/ FileSync(h) \/ Close(h) \/ Destroy(h) \/ Unwind(h)
  PROVE  AbstractStep
<1>1. UNCHANGED <<writer, object, committed, told, threw>>
  BY DEF Write, FileSync, Close, Destroy, Unwind, Finish, writerVars, od_writer_write,
         od_writer_close, od_writer_abort
<1>2. \A k \in Handles : handle'[k].bytes_written = handle[k].bytes_written
  BY DEF Write, FileSync, Close, Destroy, Unwind, IInv, TypeOK, Handle
<1> QED
  BY <1>1, <1>2, Stutter DEF IInv

(***************************************************************************)
(* The returns: what the put grows by, and what DuckDB is told of it.      *)
(***************************************************************************)
LEMMA WriteReturnsRefines ==
  ASSUME IInv, IInv', NEW h \in Handles, WriteReturns(h)
  PROVE  AbstractStep
<1>1. OthersKeepPut(h) /\ UNCHANGED <<writer, object, committed>>
  BY DEF WriteReturns, AfterWrite, Tell, IInv, TypeOK, WriterTypeOK, Handle, OthersKeepPut
<1>2. step[h] = "Write" /\ handle[h].has_writer /\ ~handle[h].write_finished
  BY DEF WriteReturns, Answered, IInv, HandleInv, WriterFitsHandle
<1>3. told[h] \in {"pending", "thrown"} /\ threw' = threw
  BY <1>2 DEF WriteReturns, IInv, TypeOK, Told, HandleInv, WriterFitsHandle, ToldAgrees
<1>4. CASE call[h].op = "ok" /\ writer[h].state # "Open"
  <2>1. call[h].n = 0
    BY <1>2, <1>4 DEF IInv, HandleInv, BytesAgree
  <2>2. /\ told' = told
        /\ \A k \in Handles : handle'[k].bytes_written = handle[k].bytes_written
    BY <1>4, <2>1, WriterAssumption DEF WriteReturns, AfterWrite, IInv, TypeOK, Handle, Bytes
  <2> QED
    BY <1>1, <1>3, <2>2, Stutter DEF IInv
<1>5. CASE call[h].op = "ok" /\ writer[h].state = "Open"
  <2>1. h \in committed => "Close" \in threw[h]
    BY <1>2, <1>5 DEF IInv, HandleInv, CommitIsLast
  <2>2. /\ told' = told
        /\ handle'[h].bytes_written = handle[h].bytes_written + call[h].n
    BY <1>5 DEF WriteReturns, AfterWrite, IInv, TypeOK, Handle
  <2>3. handle'[h].bytes_written \in handle[h].bytes_written..MaxInt64
    BY <2>2, WriterAssumption DEF IInv, TypeOK, WriterTypeOK, Call, Handle, Bytes
  <2>4. PutOf(h)' = [PutOf(h) EXCEPT !.len = handle'[h].bytes_written]
    BY <1>1, <1>3, <2>2, StaysAstray DEF PutOf, PutPhase
  <2>5. put' = [put EXCEPT ![h].len = handle'[h].bytes_written]
    BY <1>1, <2>4, PutChanges DEF IInv, put, PutOf
  <2>6. /\ put[h].phase = "open" \/ (put[h].astray /\ put[h].phase = "committed")
        /\ put[h].told \in {"pending", "thrown"} /\ put[h].len = handle[h].bytes_written
    <3>1. h \in committed => Astray(h)
      BY <2>1, Zenon DEF Astray
    <3> QED
      BY <1>3, <1>5, <3>1 DEF put, PutPhase
  <2>7. Abstract!Extend(h)
    BY <1>1, <2>3, <2>5, <2>6 DEF Abstract!Extend, Abstract!Going, Abstract!Undecided
  <2> QED
    BY <2>7 DEF AbstractStep, Abstract!Next
<1>6. CASE call[h].op # "ok"
  <2>1. told'[h] = "failed" /\ handle'[h].bytes_written = handle[h].bytes_written
    BY <1>3, <1>6 DEF WriteReturns, AfterWrite, Tell, IInv, TypeOK, Handle
  <2>2. PutPhase(h)' = PutPhase(h)
    BY <1>1 DEF PutPhase
  <2> QED
    BY <1>1, <1>3, <2>1, <2>2, FailsPut DEF IInv
<1> QED
  BY <1>4, <1>5, <1>6

\* An exception of a guard or a logger, with nothing done.
LEMMA MereThrowRefines ==
  ASSUME IInv, IInv', NEW h \in Handles, Ready(h), Tell(h, "thrown"),
         UNCHANGED <<writerVars, handle, step, threw>>
  PROVE  AbstractStep
<1>1. OthersKeepPut(h) /\ UNCHANGED <<writer, object, committed, handle, threw>>
  BY DEF Tell, writerVars, IInv, TypeOK, OthersKeepPut
<1>2. CASE told[h] \in {"pending", "thrown"}
  <2>1. told'[h] = "thrown"
    BY <1>2 DEF Tell, IInv, TypeOK
  <2>2. PutPhase(h) # "new"
    <3>1. writer[h].state # "Null"
      BY DEF Ready, IInv, HandleInv, WriterFitsHandle
    <3> QED
      BY <3>1 DEF PutPhase
  <2>3. PutPhase(h)' = PutPhase(h)
    BY <1>1 DEF PutPhase
  <2> QED
    BY <1>1, <1>2, <2>1, <2>2, <2>3, ThrowsPut DEF IInv
<1>3. CASE told[h] \notin {"pending", "thrown"}
  <2>1. told' = told
    BY <1>3 DEF Tell, IInv, TypeOK, Told
  <2> QED
    BY <1>1, <2>1, Stutter DEF IInv
<1> QED
  BY <1>2, <1>3

\* The loggers that throw in the middle lead the put astray.
LEMMA ThrowsRefine ==
  ASSUME IInv, IInv', NEW h \in Handles, WriteThrows(h) \/ CloseErrorThrows(h)
  PROVE  AbstractStep
<1>1. step[h] \in {"Write", "Close"} /\ call[h].op \in {"ok", "error"}
  BY DEF WriteThrows, CloseErrorThrows, Answered
<1>2. handle[h].has_writer /\ ~handle[h].write_finished /\ handle[h].phase = "live"
  BY <1>1 DEF IInv, HandleInv, CallFitsStep, WriterFitsHandle
<1>3. told[h] \in {"pending", "thrown"}
  BY <1>1, <1>2 DEF IInv, TypeOK, Told, HandleInv, ToldAgrees
<1>4. UNCHANGED <<object, committed, handle>>
  BY DEF WriteThrows, CloseErrorThrows
<1>5. \A k \in Handles : writer'[k].state = writer[k].state
  <2>1. CASE CloseErrorThrows(h)
    BY <2>1 DEF CloseErrorThrows
  <2>2. CASE WriteThrows(h)
    <3>1. writer' = [writer EXCEPT ![h] = Disowned(writer[h], call[h].n)]
      BY <2>2 DEF WriteThrows
    <3>2. writer[h] \in OdWriter
      BY DEF IInv, TypeOK, WriterTypeOK
    <3>3. Disowned(writer[h], call[h].n).state = writer[h].state
      BY <3>2, Zenon DEF Disowned, OdWriter
    <3> QED
      BY <3>1, <3>3 DEF IInv, TypeOK, WriterTypeOK
  <2> QED
    BY <2>1, <2>2
<1>6. OthersKeepPut(h)
  BY <1>4, <1>5 DEF WriteThrows, CloseErrorThrows, Tell, IInv, TypeOK, OthersKeepPut
<1>7. told'[h] = "thrown" /\ threw'[h] # {}
  <2>1. Tell(h, "thrown")
    BY DEF WriteThrows, CloseErrorThrows
  <2>2. told'[h] = "thrown"
    BY <1>3, <2>1 DEF Tell, IInv, TypeOK
  <2>3. \/ threw' = [threw EXCEPT ![h] = @ \cup {"Write"}]
        \/ threw' = [threw EXCEPT ![h] = @ \cup {"Close"}]
    BY DEF WriteThrows, CloseErrorThrows
  <2> QED
    BY <2>2, <2>3 DEF IInv, TypeOK
<1>8. PutPhase(h)' = PutPhase(h)
  BY <1>4, <1>5 DEF PutPhase
<1>9. PutPhase(h) # "new"
  BY <1>2 DEF IInv, HandleInv, WriterFitsHandle, PutPhase
<1> QED
  BY <1>3, <1>4, <1>6, <1>7, <1>8, <1>9, ThrowsPut DEF IInv

LEMMA FileSyncReturnsRefines ==
  ASSUME IInv, IInv', NEW h \in Handles, FileSyncReturns(h)
  PROVE  AbstractStep
<1>1. OthersKeepPut(h) /\ UNCHANGED <<writer, object, committed>>
  BY DEF FileSyncReturns, AfterSync, Tell, IInv, TypeOK, WriterTypeOK, Handle, OthersKeepPut
<1>2. step[h] = "FileSync" /\ handle[h].has_writer /\ ~handle[h].write_finished
  BY DEF FileSyncReturns, Answered, IInv, HandleInv, WriterFitsHandle
<1>3. told[h] \in {"pending", "thrown"} /\ threw' = threw
  BY <1>2 DEF FileSyncReturns, IInv, TypeOK, Told, HandleInv, WriterFitsHandle, ToldAgrees
<1>4. /\ told'[h] = IF call[h].op = "error" THEN "failed" ELSE "ok"
      /\ call[h].op \in {"ok", "error"}
      /\ handle'[h].bytes_written = handle[h].bytes_written
  BY <1>3 DEF FileSyncReturns, Answered, AfterSync, Tell, IInv, TypeOK, Handle, Returned
<1>5. PutPhase(h)' = PutPhase(h)
  BY <1>1 DEF PutPhase
<1>6. CASE call[h].op = "error"
  BY <1>1, <1>3, <1>4, <1>5, <1>6, FailsPut DEF IInv
<1>7. CASE call[h].op = "ok"
  <2>1. h \in committed
    BY <1>2, <1>7 DEF IInv, HandleInv, CommitIsLast
  <2> QED
    BY <1>1, <1>3, <1>4, <1>7, <2>1, SucceedsPut DEF IInv
<1> QED
  BY <1>4, <1>6, <1>7

\* What freeing the writer does to a put: it drops it if it is not committed.
LEMMA CloseInternalFrees ==
  ASSUME IInv, NEW h \in Handles, NEW phase \in {"live", "gone"}, CloseInternal(h, phase),
         step[h] # "idle"
  PROVE  /\ writer'[h].state = "Freed" /\ UNCHANGED <<object, committed, threw>>
         /\ \A k \in Handles : handle'[k].bytes_written = handle[k].bytes_written
         /\ \A k \in Handles \ {h} : writer'[k].state = writer[k].state
         /\ PutPhase(h) # "new"
         /\ PutPhase(h)' = PutPhase(h) \/ (PutPhase(h) = "open" /\ PutPhase(h)' = "dropped")
<1>1. writer' = [writer EXCEPT ![h].state = "Freed"] /\ UNCHANGED <<object, committed, threw>>
  BY DEF CloseInternal, FreeWriter, od_writer_free
<1>2. writer'[h].state = "Freed" /\ \A k \in Handles \ {h} : writer'[k].state = writer[k].state
  BY <1>1 DEF IInv, TypeOK, WriterTypeOK, OdWriter
<1>3. \A k \in Handles : handle'[k].bytes_written = handle[k].bytes_written
  BY DEF CloseInternal, IInv, TypeOK, Handle
<1>4. writer[h].state \in {"Open", "Closed", "Aborted", "Failed"}
  BY DEF IInv, HandleInv, WriterFitsHandle
<1>5. PutPhase(h) # "new"
  BY <1>4 DEF PutPhase
<1>6. PutPhase(h)' = PutPhase(h) \/ (PutPhase(h) = "open" /\ PutPhase(h)' = "dropped")
  BY <1>1, <1>2, <1>4 DEF PutPhase
<1> QED
  BY <1>1, <1>2, <1>3, <1>5, <1>6

\* Freeing a writer with nothing new to report.
LEMMA FreesPut ==
  ASSUME IInv, IInv', NEW h \in Handles, NEW phase \in {"live", "gone"}, CloseInternal(h, phase),
         step[h] # "idle", told' = told
  PROVE  AbstractStep
<1>1. /\ writer'[h].state = "Freed" /\ UNCHANGED <<object, committed, threw>>
      /\ \A k \in Handles : handle'[k].bytes_written = handle[k].bytes_written
      /\ \A k \in Handles \ {h} : writer'[k].state = writer[k].state
  BY CloseInternalFrees
<1>2. OthersKeepPut(h)
  BY <1>1 DEF OthersKeepPut
<1>3. CASE PutPhase(h) = "open"
  <2>1. h \notin committed
    BY <1>3 DEF PutPhase
  <2> QED
    BY <1>1, <1>2, <1>3, <2>1, DropsPut DEF IInv
<1>4. CASE PutPhase(h) # "open"
  <2>1. PutOf(h)' = put[h]
    BY <1>1, <1>4, CloseInternalFrees, StaysAstray DEF put, PutOf
  <2>2. put' = put
    BY <1>2, <2>1, PutChanges DEF IInv, put
  <2> QED
    BY <1>1, <2>2 DEF AbstractStep
<1> QED
  BY <1>3, <1>4

LEMMA CloseReturnsRefines ==
  ASSUME IInv, IInv', NEW h \in Handles, CloseReturns(h)
  PROVE  AbstractStep
<1>1. step[h] = "Close" /\ CloseInternal(h, "live")
  BY DEF CloseReturns
<1>2. /\ writer'[h].state = "Freed" /\ UNCHANGED <<object, committed, threw>>
      /\ \A k \in Handles : handle'[k].bytes_written = handle[k].bytes_written
      /\ \A k \in Handles \ {h} : writer'[k].state = writer[k].state
      /\ PutPhase(h)' = PutPhase(h) \/ (PutPhase(h) = "open" /\ PutPhase(h)' = "dropped")
  BY <1>1, CloseInternalFrees
<1>3. OthersKeepPut(h)
  BY <1>2 DEF CloseReturns, Tell, IInv, TypeOK, OthersKeepPut
<1>4. CASE told[h] \notin {"pending", "thrown"}
  <2>1. told' = told
    BY <1>4 DEF CloseReturns, Tell, IInv, TypeOK, Told, HandleInv, CallFitsStep, WriterFitsHandle,
                ToldAgrees, Returned
  <2> QED
    BY <1>1, <2>1, FreesPut
<1>5. CASE told[h] \in {"pending", "thrown"}
  <2>1. call[h].op \in {"ok", "error"} /\ ~handle[h].write_finished
    BY <1>1, <1>5 DEF CloseInternal, IInv, HandleInv, CallFitsStep, WriterFitsHandle, ToldAgrees,
                      Returned
  <2>2. told'[h] = IF call[h].op = "error" THEN "failed" ELSE "ok"
    BY <1>5, <2>1 DEF CloseReturns, Tell, IInv, TypeOK
  <2>3. CASE call[h].op = "error"
    BY <1>2, <1>3, <1>5, <2>2, <2>3, FailsPut DEF IInv
  <2>4. CASE call[h].op = "ok"
    <3>1. h \in committed
      BY <1>1, <2>4 DEF IInv, HandleInv, CommitIsLast
    <3> QED
      BY <1>2, <1>3, <1>5, <2>2, <2>4, <3>1, SucceedsPut DEF IInv
  <2> QED
    BY <2>1, <2>3, <2>4
<1> QED
  BY <1>4, <1>5

LEMMA DestroyReturnsRefines ==
  ASSUME IInv, IInv', NEW h \in Handles, DestroyReturns(h)
  PROVE  AbstractStep
  BY FreesPut DEF DestroyReturns

(***************************************************************************)
(* The answers of the service: a write's is invisible, a close's commits,  *)
(* an abort's drops what no close has published.                           *)
(***************************************************************************)
LEMMA WriteDoneRefines ==
  ASSUME IInv, IInv', NEW h \in Handles, WriteDone(h), UNCHANGED <<handle, step, told, threw>>
  PROVE  AbstractStep
<1>1. UNCHANGED <<object, committed>> /\ \A k \in Handles : writer'[k].state = writer[k].state
  BY DEF WriteDone, IInv, TypeOK, WriterTypeOK, OdWriter
<1> QED
  BY <1>1, Stutter DEF IInv

LEMMA CloseDoneRefines ==
  ASSUME IInv, IInv', NEW h \in Handles, CloseDone(h), UNCHANGED <<handle, step, told, threw>>
  PROVE  AbstractStep
<1>1. call[h].op = "close" /\ writer[h].state = "Open"
  BY DEF CloseDone, IInv, HandleInv, CallFitsStep, Awaiting
<1>2. step[h] \in {"FileSync", "Close", "Destroy"} /\ ~handle[h].write_finished
  BY <1>1 DEF IInv, TypeOK, HandleInv, CallFitsStep, WriterFitsHandle, Step
<1>3. /\ handle[h].has_writer /\ told[h] \in {"pending", "thrown"}
      /\ h \in committed => Astray(h)
  BY <1>1, <1>2
  DEF IInv, TypeOK, Told, HandleInv, WriterFitsHandle, CommitIsLast, ToldAgrees, Astray
<1>4. /\ writer[h].torn => threw[h] # {}
      /\ writer[h].len = handle[h].bytes_written
  BY <1>1, <1>2, <1>3 DEF IInv, HandleInv, BytesAgree
<1>5. /\ writer'[h].state \in {"Open", "Closed"}
      /\ \A k \in Handles \ {h} : writer'[k].state = writer[k].state
  BY <1>1 DEF CloseDone, IInv, TypeOK, WriterTypeOK, OdWriter
<1>6. CASE Publish(h)
  <2>1. OthersKeepPut(h) /\ h \in committed'
    BY <1>5, <1>6 DEF Publish, OthersKeepPut
  <2>2. PutOf(h)' = [PutOf(h) EXCEPT !.phase = "committed"]
    BY <2>1, StaysAstray DEF PutOf, PutPhase
  <2>3. /\ put[h] = PutOf(h)
        /\ put[h].len = handle[h].bytes_written /\ put[h].told \in {"pending", "thrown"}
        /\ put[h].phase = "open" \/ (put[h].astray /\ put[h].phase = "committed")
    BY <1>1, <1>3 DEF put, PutOf, PutPhase
  <2>4. put' = [put EXCEPT ![h].phase = "committed"]
    BY <2>1, <2>2, <2>3, PutChanges DEF IInv, put
  <2>5. \E torn \in {FALSE, put[h].astray} :
          object' = [by |-> h, len |-> put[h].len, torn |-> torn]
    <3>1. writer[h].torn \in BOOLEAN
      BY DEF IInv, TypeOK, WriterTypeOK, OdWriter
    <3>2. put[h].astray = Astray(h)
      BY DEF put
    <3>3. Astray(h) \in BOOLEAN /\ (writer[h].torn => Astray(h))
      BY <1>4, Zenon DEF Astray
    <3>6. writer[h].torn \in {FALSE, put[h].astray}
      BY <3>1, <3>2, <3>3
    <3>4. object' = [by |-> h, len |-> writer[h].len, torn |-> writer[h].torn]
      BY <1>6 DEF Publish
    <3>5. put[h].len = writer[h].len
      BY <1>4, <2>3
    <3> QED
      BY <3>4, <3>5, <3>6, Zenon
  <2>6. Abstract!Commit(h)
    BY <2>3, <2>4, <2>5 DEF Abstract!Commit, Abstract!Going, Abstract!Undecided
  <2> QED
    BY <2>6 DEF AbstractStep, Abstract!Next
<1>7. CASE ~Publish(h)
  <2>1. UNCHANGED <<writer, object, committed>>
    BY <1>7 DEF CloseDone
  <2> QED
    BY <2>1, Stutter DEF IInv
<1> QED
  BY <1>6, <1>7

LEMMA AbortDoneRefines ==
  ASSUME IInv, IInv', NEW h \in Handles, AbortDone(h), UNCHANGED <<handle, step, told, threw>>
  PROVE  AbstractStep
<1>1. writer[h].state = "Open"
  BY DEF AbortDone, IInv, HandleInv, CallFitsStep, Awaiting
<1>2. /\ UNCHANGED <<object, committed>>
      /\ writer' = writer \/ writer'[h].state \in {"Aborted", "Failed"}
      /\ \A k \in Handles \ {h} : writer'[k].state = writer[k].state
  BY DEF AbortDone, IInv, TypeOK, WriterTypeOK, OdWriter
<1>3. OthersKeepPut(h)
  BY <1>2 DEF OthersKeepPut
<1>4. CASE writer' = writer
  BY <1>2, <1>4, Stutter DEF IInv
<1>5. CASE h \notin committed /\ writer'[h].state \in {"Aborted", "Failed"}
  <2>1. PutPhase(h) = "open"
    BY <1>1, <1>5 DEF PutPhase
  <2> QED
    BY <1>2, <1>3, <1>5, <2>1, DropsPut DEF IInv
<1>6. CASE h \in committed
  <2>1. PutOf(h)' = put[h]
    BY <1>2, <1>6, StaysAstray DEF PutOf, PutPhase, put
  <2>2. put' = put
    BY <1>3, <2>1, PutChanges DEF IInv, put
  <2> QED
    BY <1>2, <2>2 DEF AbstractStep
<1> QED
  BY <1>2, <1>4, <1>5, <1>6

--------------------------------------------------------------------------------
LEMMA StepRefines == IInv /\ IInv' /\ [Next]_vars => AbstractStep
<1> SUFFICES ASSUME IInv, IInv', [Next]_vars PROVE AbstractStep
  OBVIOUS
<1>1. CASE UNCHANGED vars
  BY <1>1, Stutter DEF vars, IInv
<1>2. ASSUME NEW h \in Handles, OpenFileFails(h) \/ OpenFile(h) \/ OpenFileThrows(h)
      PROVE  AbstractStep
  BY <1>2, OpenFileFailsRefines, OpenFileRefines
<1>3. ASSUME NEW h \in Handles,
             \/ \E n, location \in Bytes : Write(h, n, location)
             \/ FileSync(h) \/ Close(h) \/ Destroy(h) \/ Unwind(h)
      PROVE  AbstractStep
  BY <1>3, EntryRefines
<1>4. ASSUME NEW h \in Handles,
             CloseThrows(h) \/ \E n, location \in Bytes : WriteRefused(h, n, location)
      PROVE  AbstractStep
  BY <1>4, MereThrowRefines DEF CloseThrows, WriteRefused
<1>5. ASSUME NEW h \in Handles, Returns(h)
      PROVE  AbstractStep
  BY <1>5, WriteReturnsRefines, FileSyncReturnsRefines, CloseReturnsRefines,
     DestroyReturnsRefines, ThrowsRefine DEF Returns
<1>6. ASSUME NEW h \in Handles, Answers(h)
      PROVE  AbstractStep
  BY <1>6, WriteDoneRefines, CloseDoneRefines, AbortDoneRefines DEF Answers, ServiceAnswers
<1> QED
  BY <1>1, <1>2, <1>3, <1>4, <1>5, <1>6 DEF Next

\* Whatever the service answers, whatever guards and loggers throw and whenever DuckDB drops a
\* handle, the write handles of a path are puts: none commits after a failure was reported, success
\* is reported only of a committed one, and one whose loggers did not throw in the middle commits
\* at most once, in one step, exactly the bytes acknowledged to it.
THEOREM HandlesArePuts == Spec => ImplementsAtomicPut
<1>1. IInv /\ IInv' /\ [Next]_vars => [Abstract!Next]_(Abstract!putVars)
  BY StepRefines DEF AbstractStep, Abstract!putVars
<1> QED
  BY <1>1, InitRefines, Invariance, PTL DEF Spec, ImplementsAtomicPut, Abstract!Spec
================================================================================
