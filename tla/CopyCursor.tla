------------------------------- MODULE CopyCursor -------------------------------
(***************************************************************************)
(* opendal_copy: the scan function CopyFunc and its OpenCopyCursor         *)
(* (src/opendal_table_functions.cpp) over the copy cursor of               *)
(* opendal/src/table.rs -- od_table_copy_open, which plans (source, size)  *)
(* pairs, and od_copy_cursor_next / copy_one, which copy one of them.      *)
(*                                                                         *)
(* The plan is made once, at the first scan; the copies run one by one in  *)
(* later calls, while other clients go on writing the sources, and while   *)
(* the scan's own copies may land on objects still to be copied: source    *)
(* and destination names live in one store, and Dest says where a source   *)
(* goes.  A source and its destination on two services are two disjoint    *)
(* sets of names.                                                          *)
(*                                                                         *)
(* An object is the sequence of its blocks; each block is the content it   *)
(* came from, so a copy that mixes two versions of its source or stops     *)
(* short of one is visible.                                                *)
(***************************************************************************)
EXTENDS Integers, Sequences, FiniteSets, SequencesExt

CONSTANTS
  Objects,      \* object names, of the sources and of the destinations
  Sources,      \* the names the source URL, directory or glob covers
  Dest,         \* [Sources -> Objects]: join_dest(destination, strip_base(base, path))
  Contents,     \* what other clients write
  BlocksOf,     \* [Contents -> Nat]: the size of each content, in blocks
  ChunkSize,    \* options.chunk, in blocks
  VectorSize,   \* STANDARD_VECTOR_SIZE, the rows of one CopyFunc call
  MaxChanges,   \* bound: how often other clients write during the scan
  Nil           \* no object

ASSUME CopyAssumption ==
  /\ Sources \subseteq Objects /\ IsFiniteSet(Sources) /\ Dest \in [Sources -> Objects]
  /\ BlocksOf \in [Contents -> Nat] /\ ChunkSize \in Nat \ {0} /\ VectorSize \in Nat \ {0}
  /\ Nil \notin Seq(Contents) /\ MaxChanges \in Nat

VARIABLES
  store,      \* the visible objects
  pc,         \* where the scan is
  same_op,    \* same_op_copy, settled when the cursor is opened
  plan,       \* the pairs not yet copied
  current,    \* the pair copy_one works on
  offset,     \* its offset
  buffer,     \* the blocks written to its writer
  writing,    \* its destination writer is open
  abortFailed,\* an abort of a destination writer failed
  panicked,   \* copy_one panicked: ffi_guard made an error of it and nothing was aborted
  rows,       \* the rows of the output chunk being filled
  delivered,  \* the rows of the chunks CopyFunc has returned
  commits,    \* history: what the scan made visible, in order
  planned,    \* history: the store when the plan was made
  touched,    \* history: the objects that changed since
  changes     \* bound: writes by other clients so far

scan == <<same_op, plan, current, offset, buffer, writing, abortFailed, panicked, rows,
          delivered>>
vars == <<store, pc, scan, commits, planned, touched, changes>>

Whole(c) == [i \in 1..BlocksOf[c] |-> c]
Pair == [source: Sources, size: Nat]

PC == {"unopened", "loop", "stream", "close", "abort", "copier",
       "returned", "finished", "failed", "stopped"}

TypeOK ==
  /\ store \in [Objects -> Seq(Contents) \cup {Nil}]
  /\ pc \in PC
  /\ {same_op, writing, abortFailed, panicked} \subseteq BOOLEAN
  /\ plan \in Seq(Pair) /\ current \in Pair \cup {Nil}
  /\ offset \in Nat /\ buffer \in Seq(Contents)
  /\ rows \in Seq([source: Sources, bytes: Nat]) /\ Len(rows) <= VectorSize
  /\ delivered \in Seq([source: Sources, bytes: Nat])
  /\ commits \in Seq([source: Sources, image: Seq(Contents)])
  /\ planned \in [Objects -> Seq(Contents) \cup {Nil}]
  /\ touched \in SUBSET Objects
  /\ changes \in 0..MaxChanges

Init ==
  /\ store \in {s \in [Objects -> {Whole(c) : c \in Contents} \cup {Nil}] :
                  \A o \in Objects \ Sources : s[o] = Nil}
  /\ pc = "unopened"
  /\ same_op = FALSE /\ writing = FALSE /\ abortFailed = FALSE /\ panicked = FALSE
  /\ plan = <<>> /\ current = Nil /\ offset = 0 /\ buffer = <<>>
  /\ rows = <<>> /\ delivered = <<>> /\ commits = <<>>
  /\ planned = store /\ touched = {} /\ changes = 0

Goto(from, to) == pc = from /\ pc' = to

\* Another client replaces or deletes a source.
ClientWrites(o, image) ==
  /\ changes < MaxChanges
  /\ store[o] # image
  /\ store' = [store EXCEPT ![o] = image]
  /\ touched' = touched \cup {o}
  /\ changes' = changes + 1
  /\ UNCHANGED <<pc, scan, commits, planned>>

(***************************************************************************)
(* OpenCopyCursor and od_table_copy_open: capabilities are checked and the *)
(* sources listed; the plan follows the listing's order.                   *)
(***************************************************************************)
OpenFails ==
  /\ Goto("unopened", "failed")
  /\ UNCHANGED <<store, scan, commits, planned, touched, changes>>

OpenCopyCursor ==
  /\ Goto("unopened", "loop")
  /\ same_op' \in BOOLEAN
  /\ \E listing \in SetToSeqs({s \in Sources : store[s] # Nil}) :
       plan' = [i \in DOMAIN listing |-> [source |-> listing[i], size |-> Len(store[listing[i]])]]
  /\ planned' = store /\ touched' = {}
  /\ UNCHANGED <<store, current, offset, buffer, writing, abortFailed, panicked, rows, delivered,
                 commits, changes>>

(***************************************************************************)
(* CopyFunc: fill a chunk of rows.  An error throws out of it, and the     *)
(* rows of the chunk go with it.                                           *)
(***************************************************************************)
Throw ==
  /\ pc' = "failed"
  /\ rows' = <<>>

ChunkHasRoom == Len(rows) < VectorSize

\* Mutant: the plan's iterator is not advanced.
PeekPair == current' = Head(plan) /\ UNCHANGED plan

TakePair == current' = Head(plan) /\ plan' = Tail(plan)

NextPair ==
  /\ pc = "loop" /\ ChunkHasRoom /\ plan # <<>>
  /\ TakePair
  /\ offset' = 0 /\ buffer' = <<>>
  /\ IF same_op THEN pc' = "copier" /\ UNCHANGED writing
                ELSE pc' = "stream" /\ writing' = TRUE
  /\ UNCHANGED <<store, same_op, abortFailed, panicked, rows, delivered, commits, planned,
                 touched, changes>>

\* The copier, the reader or the writer cannot be opened.
PairFailsToOpen ==
  /\ pc = "loop" /\ ChunkHasRoom /\ plan # <<>>
  /\ TakePair
  /\ Throw
  /\ UNCHANGED <<store, same_op, offset, buffer, writing, abortFailed, panicked, delivered,
                 commits, planned, touched, changes>>

\* Mutant: the end of the plan does not end the call.
ChunkIsFull == ~ChunkHasRoom /\ pc' = "returned"

ChunkEnds ==
  \/ ~ChunkHasRoom /\ pc' = "returned"
  \/ ChunkHasRoom /\ plan = <<>> /\ pc' = "finished"

ChunkReturns ==
  /\ pc = "loop"
  /\ ChunkEnds
  /\ delivered' = delivered \o rows
  /\ rows' = <<>>
  /\ UNCHANGED <<store, same_op, plan, current, offset, buffer, writing, abortFailed, panicked,
                 commits, planned, touched, changes>>

CopyFunc ==
  /\ Goto("returned", "loop")
  /\ UNCHANGED <<store, scan, commits, planned, touched, changes>>

\* LIMIT reached, or the query is cancelled between two chunks.
ScanStops ==
  /\ Goto("returned", "stopped")
  /\ UNCHANGED <<store, scan, commits, planned, touched, changes>>

(***************************************************************************)
(* copy_one, Reader -> Writer: ranges of at most a chunk, up to the size   *)
(* that was planned, each read from what the source is at that moment.  A  *)
(* range past the end is an error or comes back short (the service's       *)
(* choice, external).                                                      *)
(***************************************************************************)
\* Mutant: the last range is not cut at the size.
EndOfChunk == offset + ChunkSize

End == IF current.size < offset + ChunkSize THEN current.size ELSE offset + ChunkSize

StreamChunk ==
  /\ pc = "stream" /\ offset < current.size
  /\ store[current.source] # Nil
  /\ LET image == store[current.source]
         stop == IF Len(image) < End THEN Len(image) ELSE End
     IN  buffer' = buffer \o SubSeq(image, offset + 1, stop)
  /\ offset' = End
  /\ UNCHANGED <<store, pc, same_op, plan, current, writing, abortFailed, panicked, rows, delivered,
                 commits, planned, touched, changes>>

\* A read or a write fails.
StreamFails ==
  /\ Goto("stream", "abort")
  /\ offset < current.size
  /\ UNCHANGED <<store, scan, commits, planned, touched, changes>>

StreamEnds ==
  /\ Goto("stream", "close")
  /\ offset >= current.size
  /\ UNCHANGED <<store, scan, commits, planned, touched, changes>>

Commit(image) ==
  /\ store' = [store EXCEPT ![Dest[current.source]] = image]
  /\ commits' = Append(commits, [source |-> current.source, image |-> image])
  /\ touched' = touched \cup {Dest[current.source]}

\* A denied stat of the destination does not fail the copy: its row is emitted all the same.
\* A name that is no C string does, after the commit.
Row(bytes) ==
  \/ pc' = "loop" /\ rows' = Append(rows, [source |-> current.source, bytes |-> bytes])
  \/ Throw

StreamCloses ==
  /\ pc = "close"
  /\ Commit(buffer)
  /\ Row(offset)
  /\ writing' = FALSE
  /\ UNCHANGED <<same_op, plan, current, offset, buffer, abortFailed, panicked, delivered,
                 planned, changes>>

\* Mutant: a failed close counts as a copy.
StreamCloseIgnored ==
  /\ pc = "close"
  /\ Commit(buffer) \/ UNCHANGED <<store, commits, touched>>
  /\ Row(offset)
  /\ writing' = FALSE
  /\ UNCHANGED <<same_op, plan, current, offset, buffer, abortFailed, panicked, delivered,
                 planned, changes>>

\* Mutant: a failed close is tried again.
StreamCloseRetries ==
  /\ pc = "close"
  /\ Commit(buffer) \/ UNCHANGED <<store, commits, touched>>
  /\ UNCHANGED <<pc, scan, planned, changes>>

\* The close is reported as failed, though it may have taken effect.
StreamCloseFails ==
  /\ Goto("close", "abort")
  /\ Commit(buffer) \/ UNCHANGED <<store, commits, touched>>
  /\ UNCHANGED <<scan, planned, changes>>

\* Mutant: the error is returned without an abort.
ThrowWithoutAbort ==
  /\ pc = "abort"
  /\ Throw
  /\ UNCHANGED <<store, same_op, plan, current, offset, buffer, writing, abortFailed, panicked,
                 delivered, commits, planned, touched, changes>>

AbortWriter ==
  /\ pc = "abort"
  /\ \/ writing' = FALSE /\ UNCHANGED abortFailed
     \/ abortFailed' = TRUE /\ UNCHANGED writing
  /\ Throw
  /\ UNCHANGED <<store, same_op, plan, current, offset, buffer, panicked, delivered,
                 commits, planned, touched, changes>>

(***************************************************************************)
(* copy_one, server-side Copier: the service copies what the source is     *)
(* when it commits; the progress it reports (none, for a one-request copy) *)
(* counts for at least the planned size.                                   *)
(***************************************************************************)
CopierCloses ==
  /\ pc = "copier"
  /\ store[current.source] # Nil
  /\ Commit(store[current.source])
  /\ \E copied \in {0, Len(store[current.source])} :
       Row(IF copied < current.size THEN current.size ELSE copied)
  /\ UNCHANGED <<same_op, plan, current, offset, buffer, writing, abortFailed, panicked, delivered,
                 planned, changes>>

\* copier.next or copier.close fails; the copy may have taken effect nevertheless.
CopierFails ==
  /\ pc = "copier"
  /\ \/ store[current.source] # Nil /\ Commit(store[current.source])
     \/ UNCHANGED <<store, commits, touched>>
  /\ Throw
  /\ UNCHANGED <<same_op, plan, current, offset, buffer, writing, abortFailed, panicked, delivered,
                 planned, changes>>

\* A panic in a call to a service, which may or may not have taken effect.
CopyPanics ==
  /\ pc \in {"stream", "close", "abort", "copier"}
  /\ \/ pc = "close" /\ Commit(buffer)
     \/ UNCHANGED <<store, commits, touched>>
  /\ panicked' = TRUE
  /\ Throw
  /\ UNCHANGED <<same_op, plan, current, offset, buffer, writing, abortFailed, delivered,
                 planned, changes>>

copy_one ==
  \/ StreamChunk \/ StreamFails \/ StreamEnds \/ StreamCloses \/ StreamCloseFails
  \/ AbortWriter \/ CopierCloses \/ CopierFails \/ CopyPanics

FillChunk == NextPair \/ PairFailsToOpen \/ ChunkReturns

Clients ==
  \E o \in Sources, image \in {Whole(c) : c \in Contents} \cup {Nil} : ClientWrites(o, image)

Next ==
  \/ OpenFails \/ OpenCopyCursor \/ CopyFunc \/ ScanStops
  \/ FillChunk \/ copy_one
  \/ Clients

Spec == Init /\ [][Next]_vars

\* Inside one CopyFunc call the thread does not stop; every call to a service is answered.
FairSpec == Spec /\ WF_vars(FillChunk \/ copy_one)

--------------------------------------------------------------------------------
(***************************************************************************)
(* Properties.                                                             *)
(***************************************************************************)
Sourced(s) == [i \in DOMAIN s |-> s[i].source]

\* A row stands for a commit: the rows returned and those of the chunk being filled are, in
\* order, the copies that took effect, except that the last copy of a failed scan may have
\* taken effect without a row.  ("Success emits one row after commit", copy.test.)
RowsFollowCommits == IsPrefix(Sourced(delivered), Sourced(commits))
                     /\ (pc # "failed" => IsPrefix(Sourced(delivered \o rows), Sourced(commits)))

\* No source is copied twice and nothing is copied that was not there when the cursor was
\* opened, even when destinations fall inside the source tree or sources appear meanwhile.
CopiesPlanOnce ==
  /\ \A i, j \in DOMAIN commits : commits[i].source = commits[j].source => i = j
  /\ \A i \in DOMAIN commits : planned[commits[i].source] # Nil

\* A source nobody touched since the plan was made is copied whole, and its row says its size.
FaithfulCopy ==
  [][Len(commits') > Len(commits) =>
       LET c == Last(commits')
       IN  c.source \notin touched =>
             /\ c.image = planned[c.source]
             /\ Len(rows') > Len(rows) =>
                  Last(rows') = [source |-> c.source, bytes |-> Len(c.image)]]_vars

\* However a copy ends, its destination writer is closed or aborted before the cursor goes on
\* or throws, unless the abort itself failed or a call panicked.
NoWriterLeftOpen == writing => pc \in {"stream", "close", "abort"} \/ abortFailed \/ panicked

\* How much of a call is ahead of each stage, within one pair.
StageOf(stage) ==
  CASE stage \in {"stream", "copier"} -> 4
    [] stage = "close" -> 3
    [] stage = "abort" -> 2
    [] stage = "loop" -> 1
    [] stage \in {"returned", "finished", "failed", "stopped"} -> 0

\* A pair is taken off the plan, a stage of the pair is done, or a range of its source is.
Advances ==
  \/ Len(plan') < Len(plan)
  \/ /\ plan' = plan
     /\ \/ StageOf(pc') < StageOf(pc)
        \/ pc' = pc /\ current' = current /\ offset < offset' /\ offset' <= current.size

\* No loop of a call goes round for nothing: whatever the services answer, and although sources
\* shrink, grow and go while they are copied, a call only ever gets nearer to its end.
CallAdvances ==
  [][pc \notin {"unopened", "returned"} => Advances \/ (Clients /\ UNCHANGED <<pc, scan>>)]_vars

\* A call of CopyFunc returns: every chunk is filled, ends the scan or throws.
CallReturns == pc = "loop" ~> pc \in {"returned", "finished", "failed"}

\* "Returns one row per copied object ... as each copy commits" (docs/table-functions.md): the
\* row of a committed copy is not dropped.
RowPerCommit ==
  [][rows # <<>> /\ rows' = <<>> => delivered' = delivered \o rows]_vars
================================================================================
