---------------------------- MODULE MutationsProofs ----------------------------
(***************************************************************************)
(* Theorems about Mutations, for any clients, paths, services and bounds.  *)
(*                                                                         *)
(* What an undisturbed mutation has achieved so far depends on the call it *)
(* is in: before a copy the version is at the source, before the delete of *)
(* a move it is at the target, and during a rename, whose answer may have  *)
(* been lost, it is at one of the two.                                     *)
(***************************************************************************)
EXTENDS Mutations, TLAPS

\* Which calls each operation makes, and with which arguments.
ShapeFits(j) ==
  /\ j.op \in {"move", "remove"} => j.source \in Paths /\ j.target \in Paths
  /\ j.op = "none" => j.pc = "idle" /\ ~j.clean
  /\ j.pc \in {"source", "target"} => ~j.clean
  /\ j.pc \in {"target", "rename", "copy"} => j.op = "move"
  /\ j.pc = "delete" => j.op \in {"move", "remove"}
  /\ j.pc = "delete_all" => j.op = "remove_dir"
  /\ j.todo \subseteq Tree /\ (j.pc # "delete_all" => j.todo = {})

\* How far an undisturbed move is.
MoveFits(j) ==
  j.op = "move" /\ j.clean =>
    /\ j.pc = "rename" =>
         \/ files[j.source] = j.version
         \/ files[j.source] = Absent /\ files[j.target] = j.version
    /\ j.pc = "copy" => files[j.source] = j.version
    /\ j.pc = "delete" => j.source # j.target /\ files[j.target] = j.version
    /\ j.outcome = "ok" => files[j.source] = Absent /\ files[j.target] = j.version
    /\ j.outcome = "error" =>
         j.version = Absent \/ j.version \in {files[j.source], files[j.target]}
    /\ j.version # Absent /\ j.had_target /\ j.source # j.target => files[j.target] # Absent

\* How far an undisturbed removal is.
RemoveFits(j) ==
  /\ j.op = "remove" /\ j.clean /\ j.outcome = "ok" => files[j.source] = Absent
  /\ j.op = "remove_dir" /\ j.clean =>
       /\ j.pc = "delete_all" => \A p \in Tree : files[p] # Absent => p \in j.todo
       /\ j.outcome = "ok" => \A p \in Tree : files[p] = Absent

JobInv(c) == ShapeFits(job[c]) /\ MoveFits(job[c]) /\ RemoveFits(job[c])

IInv == TypeOK /\ \A c \in Clients : JobInv(c)

--------------------------------------------------------------------------------
\* What a step that writes the given paths leaves to a client that does not take it.
Spared(d, paths) ==
  /\ \A p \in Paths \ paths : files'[p] = files[p]
  /\ \/ job'[d] = job[d] /\ Concerns(job[d]) \cap paths = {}
     \/ job'[d] = [job[d] EXCEPT !.clean = FALSE]

LEMMA SparedKeeps ==
  ASSUME TypeOK, NEW d \in Clients, JobInv(d), NEW paths \in SUBSET Paths, Spared(d, paths)
  PROVE  JobInv(d)'
<1>1. job[d] \in Job
  BY DEF TypeOK
<1>2. CASE job'[d] = job[d] /\ Concerns(job[d]) \cap paths = {}
  <2>1. job[d].op \in {"move", "remove"} =>
          /\ files'[job[d].source] = files[job[d].source]
          /\ files'[job[d].target] = files[job[d].target]
    BY <1>2 DEF Spared, Concerns, JobInv, ShapeFits
  <2>2. job[d].op = "remove_dir" => \A p \in Tree : files'[p] = files[p]
    BY <1>2, MutationsAssumption DEF Spared, Concerns
  <2>3. ShapeFits(job[d])' /\ MoveFits(job[d])' /\ RemoveFits(job[d])'
    BY <1>2, <2>1, <2>2 DEF JobInv, ShapeFits, MoveFits, RemoveFits
  <2> QED
    BY <2>3 DEF JobInv
<1>3. CASE job'[d] = [job[d] EXCEPT !.clean = FALSE]
  <2>1. /\ job'[d].clean = FALSE /\ job'[d].op = job[d].op /\ job'[d].pc = job[d].pc
        /\ job'[d].source = job[d].source /\ job'[d].target = job[d].target
        /\ job'[d].todo = job[d].todo
    BY <1>1, <1>3 DEF Job
  <2> QED
    BY <2>1 DEF JobInv, ShapeFits, MoveFits, RemoveFits
<1> QED
  BY <1>2, <1>3 DEF Spared

\* A step of one client that changes its own job and writes the given paths.
LEMMA OneClient ==
  ASSUME IInv, TypeOK', NEW c \in Clients, NEW paths \in SUBSET Paths, JobInv(c)',
         \A d \in Clients \ {c} : Spared(d, paths)
  PROVE  IInv'
<1>1. ASSUME NEW d \in Clients \ {c} PROVE JobInv(d)'
  BY SparedKeeps DEF IInv
<1> QED
  BY <1>1 DEF IInv

\* The same, for a step that writes nothing.
LEMMA QuietStep ==
  ASSUME IInv, TypeOK', NEW c \in Clients, UNCHANGED files, JobInv(c)',
         \A d \in Clients \ {c} : job'[d] = job[d]
  PROVE  IInv'
<1>1. \A d \in Clients \ {c} : Spared(d, {})
  BY DEF Spared
<1> QED
  BY <1>1, OneClient

LEMMA InitEstablishes == Init => IInv
<1> SUFFICES ASSUME Init PROVE IInv
  OBVIOUS
<1>1. NoJob \in Job
  BY MutationsAssumption DEF NoJob, Job, Calls, Versions
<1>2. TypeOK
  BY <1>1, MutationsAssumption DEF Init, TypeOK, NoJob, Versions
<1>3. ASSUME NEW c \in Clients PROVE JobInv(c)
  BY DEF Init, NoJob, JobInv, ShapeFits, MoveFits, RemoveFits
<1> QED
  BY <1>2, <1>3 DEF IInv

\* A job that is disturbed.
LEMMA DirtyJob ==
  ASSUME NEW k \in Job
  PROVE  /\ [k EXCEPT !.clean = FALSE] \in Job
         /\ [k EXCEPT !.clean = FALSE].pc = k.pc
         /\ [k EXCEPT !.clean = FALSE].outcome = k.outcome
  BY DEF Job

LEMMA OtherWritesStep ==
  ASSUME IInv, NEW p \in Paths, OtherWrites(p)
  PROVE  IInv'
<1>1. written' \in Versions
  BY MutationsAssumption DEF OtherWrites, IInv, TypeOK, Versions
<1>2. ASSUME NEW d \in Clients
      PROVE  /\ job'[d] \in Job /\ job'[d].pc = job[d].pc /\ job'[d].outcome = job[d].outcome
             /\ Spared(d, {p})
  <2>1. job[d] \in Job
    BY DEF IInv, TypeOK
  <2>2. job'[d] = IF p \in Concerns(job[d]) THEN [job[d] EXCEPT !.clean = FALSE] ELSE job[d]
    BY DEF OtherWrites
  <2>3. \A q \in Paths \ {p} : files'[q] = files[q]
    BY DEF OtherWrites, IInv, TypeOK
  <2>4. job'[d] \in Job /\ job'[d].pc = job[d].pc /\ job'[d].outcome = job[d].outcome
    BY <2>1, <2>2, DirtyJob
  <2>5. Spared(d, {p})
    BY <2>2, <2>3 DEF Spared
  <2> QED
    BY <2>4, <2>5
<1>3. TypeOK'
  <2>1. job' \in [Clients -> Job]
    BY <1>2 DEF OtherWrites
  <2> QED
    BY <1>1, <1>2, <2>1 DEF OtherWrites, IInv, TypeOK
<1>4. ASSUME NEW d \in Clients PROVE JobInv(d)'
  BY <1>2, SparedKeeps DEF IInv
<1> QED
  BY <1>3, <1>4 DEF IInv

LEMMA ReconfigureStep ==
  ASSUME IInv, NEW g \in Configs, Reconfigure(g)
  PROVE  IInv'
<1>1. TypeOK'
  BY DEF Reconfigure, IInv, TypeOK
<1>2. ASSUME NEW d \in Clients PROVE JobInv(d)'
  BY DEF Reconfigure, IInv, JobInv, ShapeFits, MoveFits, RemoveFits
<1> QED
  BY <1>1, <1>2 DEF IInv

(***************************************************************************)
(* The steps of a client on the C++ side: they write nothing.              *)
(***************************************************************************)
\* The record of a mutation that ends.
LEMMA FinishedFields ==
  ASSUME NEW j \in Job, NEW outcome \in {"ok", "error"}
  PROVE  /\ Finished(j, outcome) \in Job
         /\ Finished(j, outcome).pc = "idle" /\ Finished(j, outcome).outcome = outcome
         /\ Finished(j, outcome).op = j.op /\ Finished(j, outcome).source = j.source
         /\ Finished(j, outcome).target = j.target /\ Finished(j, outcome).clean = j.clean
         /\ Finished(j, outcome).version = j.version
         /\ Finished(j, outcome).had_target = j.had_target /\ Finished(j, outcome).todo = {}
<1>1. 0 \in 0..MaxRetries
  BY MutationsAssumption
<1>2. Finished(j, outcome) \in Job
  BY <1>1 DEF Finished, Job
<1> QED
  BY <1>2 DEF Finished, Job

\* Replacing the record of one client by one of the right type.
LEMMA JobType ==
  ASSUME TypeOK, NEW c \in Clients, NEW j \in Job, job' = [job EXCEPT ![c] = j],
         j.pc = "idle" <=> j.outcome # "pending",
         UNCHANGED <<caps, config, files, written>>
  PROVE  TypeOK' /\ job'[c] = j /\ \A d \in Clients \ {c} : job'[d] = job[d]
<1>1. job'[c] = j /\ \A d \in Clients \ {c} : job'[d] = job[d]
  BY DEF TypeOK
<1>2. job' \in [Clients -> Job]
  BY DEF TypeOK
<1> QED
  BY <1>1, <1>2 DEF TypeOK

LEMMA StartStep ==
  ASSUME IInv, NEW c \in Clients, NEW op \in {"move", "remove", "remove_dir"},
         NEW source \in Paths \cup {Nil}, NEW target \in Paths \cup {Nil},
         op # "remove_dir" => source \in Paths /\ target \in Paths,
         Start(c, op, source, target)
  PROVE  IInv'
<1> DEFINE j == [NoJob EXCEPT !.op = op, !.source = source, !.target = target,
                              !.pc = "source", !.outcome = "pending"]
<1>1. /\ j \in Job /\ j.op = op /\ j.source = source /\ j.target = target /\ j.pc = "source"
      /\ j.outcome = "pending" /\ j.clean = FALSE /\ j.todo = {}
  <2>1. NoJob \in Job
    BY MutationsAssumption DEF NoJob, Job, Calls, Versions
  <2>2. NoJob.clean = FALSE /\ NoJob.todo = {}
    BY DEF NoJob
  <2>3. j \in Job
    BY <2>1 DEF Job
  <2> QED
    BY <2>1, <2>2, <2>3 DEF Job
<1>2. job' = [job EXCEPT ![c] = j] /\ UNCHANGED <<caps, config, files, written>>
  BY DEF Start
<1> HIDE DEF j
<1>3. TypeOK' /\ job'[c] = j /\ \A d \in Clients \ {c} : job'[d] = job[d]
  BY <1>1, <1>2, JobType DEF IInv
<1>4. JobInv(c)'
  BY <1>1, <1>3 DEF JobInv, ShapeFits, MoveFits, RemoveFits
<1> QED
  BY <1>2, <1>3, <1>4, QuietStep

\* An exception before the first call.
LEMMA ThrowStep ==
  ASSUME IInv, NEW c \in Clients, job[c].pc \in {"source", "target"}, Throw(c),
         UNCHANGED <<caps, config, files, written>>
  PROVE  IInv'
<1> DEFINE j == Finished(job[c], "error")
<1>1. /\ j \in Job /\ j.op = job[c].op /\ j.source = job[c].source /\ j.target = job[c].target
      /\ j.pc = "idle" /\ j.outcome = "error" /\ j.clean = job[c].clean /\ j.todo = {}
  BY FinishedFields DEF IInv, TypeOK
<1>2. job' = [job EXCEPT ![c] = j]
  BY DEF Throw
<1> HIDE DEF j
<1>3. TypeOK' /\ job'[c] = j /\ \A d \in Clients \ {c} : job'[d] = job[d]
  BY <1>1, <1>2, JobType DEF IInv
<1>4. ~job[c].clean /\ job[c].op # "none"
  BY DEF IInv, JobInv, ShapeFits
<1>5. JobInv(c)'
  BY <1>1, <1>3, <1>4 DEF IInv, JobInv, ShapeFits, MoveFits, RemoveFits
<1> QED
  BY <1>3, <1>5, QuietStep

\* The first call finds the version it is going to move or remove.
LEMMA FirstCallStep ==
  ASSUME IInv, NEW c \in Clients, NEW call \in {"rename", "copy", "delete"},
         job[c].pc \in {"source", "target"},
         job[c].op = (IF call = "delete" THEN "remove" ELSE "move"),
         FirstCall(c, call), UNCHANGED <<caps, config, files, written>>
  PROVE  IInv'
<1> DEFINE j == [job[c] EXCEPT !.pc = call, !.operator = Nil, !.clean = TRUE,
                               !.version = files[job[c].source],
                               !.had_target = files[job[c].target] # Absent]
<1>1. job[c] \in Job /\ job[c].source \in Paths /\ job[c].target \in Paths /\ job[c].todo = {}
  BY DEF IInv, TypeOK, JobInv, ShapeFits
<1>2. /\ j \in Job /\ j.op = job[c].op /\ j.source = job[c].source /\ j.target = job[c].target
      /\ j.pc = call /\ j.outcome = job[c].outcome /\ j.todo = {}
      /\ j.version = files[job[c].source]
      /\ j.had_target = (files[job[c].target] # Absent)
  BY <1>1 DEF IInv, TypeOK, Job, Calls
<1>3. job' = [job EXCEPT ![c] = j] /\ job[c].outcome = "pending"
  BY <1>1 DEF FirstCall, IInv, TypeOK, Job
<1> HIDE DEF j
<1>4. TypeOK' /\ job'[c] = j /\ \A d \in Clients \ {c} : job'[d] = job[d]
  BY <1>2, <1>3, JobType DEF IInv
<1>5. JobInv(c)'
  BY <1>1, <1>2, <1>3, <1>4 DEF JobInv, ShapeFits, MoveFits, RemoveFits
<1> QED
  BY <1>4, <1>5, QuietStep

LEMMA ResolveSourceStep ==
  ASSUME IInv, NEW c \in Clients, ResolveSource(c)
  PROVE  IInv'
<1>1. job[c] \in Job /\ job[c].outcome = "pending" /\ ~job[c].clean /\ job[c].todo = {}
  BY DEF ResolveSource, IInv, TypeOK, Job, JobInv, ShapeFits
<1>2. CASE /\ job[c].op = "move"
           /\ job' = [job EXCEPT ![c] = [@ EXCEPT !.pc = "target", !.operator = config]]
  <2> DEFINE j == [job[c] EXCEPT !.pc = "target", !.operator = config]
  <2>1. /\ j \in Job /\ j.op = "move" /\ j.source = job[c].source /\ j.target = job[c].target
        /\ j.pc = "target" /\ j.outcome = "pending" /\ j.clean = job[c].clean /\ j.todo = {}
    BY <1>1, <1>2 DEF Job, IInv, TypeOK
  <2>2. job' = [job EXCEPT ![c] = j]
    BY <1>2 DEF IInv, TypeOK
  <2> HIDE DEF j
  <2>3. TypeOK' /\ job'[c] = j /\ \A d \in Clients \ {c} : job'[d] = job[d]
    BY <2>1, <2>2, JobType DEF ResolveSource, IInv
  <2>4. JobInv(c)'
    BY <1>1, <1>2, <2>1, <2>3 DEF IInv, JobInv, ShapeFits, MoveFits, RemoveFits
  <2> QED
    BY <2>3, <2>4, QuietStep DEF ResolveSource
<1>3. CASE Throw(c)
  BY <1>3, ThrowStep DEF ResolveSource
<1>4. CASE job[c].op = "remove" /\ FirstCall(c, "delete")
  BY <1>4, FirstCallStep DEF ResolveSource
<1>5. CASE job[c].op = "remove_dir" /\ FirstList(c)
  <2> DEFINE j == [job[c] EXCEPT !.pc = "delete_all", !.clean = TRUE,
                                 !.todo = {p \in Tree : files[p] # Absent}]
  <2>1. /\ j \in Job /\ j.op = "remove_dir" /\ j.pc = "delete_all" /\ j.outcome = "pending"
        /\ j.todo = {p \in Tree : files[p] # Absent}
    BY <1>1, <1>5, MutationsAssumption DEF Job, Calls
  <2>2. job' = [job EXCEPT ![c] = j]
    BY <1>5 DEF FirstList, IInv, TypeOK
  <2> HIDE DEF j
  <2>3. TypeOK' /\ job'[c] = j /\ \A d \in Clients \ {c} : job'[d] = job[d]
    BY <2>1, <2>2, JobType DEF ResolveSource, IInv
  <2>4. JobInv(c)'
    BY <2>1, <2>3 DEF ResolveSource, JobInv, ShapeFits, MoveFits, RemoveFits
  <2> QED
    BY <2>3, <2>4, QuietStep DEF ResolveSource
<1> QED
  BY <1>2, <1>3, <1>4, <1>5 DEF ResolveSource

LEMMA ResolveTargetStep ==
  ASSUME IInv, NEW c \in Clients, ResolveTarget(c)
  PROVE  IInv'
<1>1. job[c].op = "move"
  BY DEF ResolveTarget, IInv, JobInv, ShapeFits
<1>2. Throw(c) \/ FirstCall(c, "rename") \/ FirstCall(c, "copy")
  BY DEF ResolveTarget, Transfer
<1> QED
  BY <1>1, <1>2, ThrowStep, FirstCallStep DEF ResolveTarget

(***************************************************************************)
(* The calls.                                                              *)
(***************************************************************************)
\* What a call does to the paths of its own job.
LEMMA EffectOnPaths ==
  ASSUME TypeOK, NEW c \in Clients, ShapeFits(job[c]), job[c].pc \in {"rename", "copy", "delete"},
         CanPerform(job[c]), files' = Effect(job[c])
  PROVE  /\ files' \in [Paths -> Versions \cup {Absent}]
         /\ Touched(job[c]) \in SUBSET Paths
         /\ \A p \in Paths \ Touched(job[c]) : files'[p] = files[p]
         /\ job[c].pc = "rename" =>
              /\ job[c].source # job[c].target /\ files[job[c].source] # Absent
              /\ files'[job[c].target] = files[job[c].source]
              /\ files'[job[c].source] = Absent
         /\ job[c].pc = "copy" =>
              /\ job[c].source # job[c].target /\ files[job[c].source] # Absent
              /\ files'[job[c].target] = files[job[c].source]
              /\ files'[job[c].source] = files[job[c].source]
         /\ job[c].pc = "delete" =>
              /\ files'[job[c].source] = Absent
              /\ job[c].target # job[c].source =>
                   files'[job[c].target] = files[job[c].target]
<1>1. job[c].source \in Paths /\ job[c].target \in Paths
  BY DEF ShapeFits
<1>2. CASE job[c].pc = "rename"
  BY <1>1, <1>2 DEF CanPerform, Effect, Touched, TypeOK
<1>3. CASE job[c].pc = "copy"
  BY <1>1, <1>3 DEF CanPerform, Effect, Touched, TypeOK
<1>4. CASE job[c].pc = "delete"
  BY <1>1, <1>4 DEF CanPerform, Effect, Touched, TypeOK
<1> QED
  BY <1>2, <1>3, <1>4

\* A step that disturbs the clients whose paths it touches spares all others.
LEMMA DisturbSpares ==
  ASSUME TypeOK, NEW c \in Clients, NEW paths \in SUBSET Paths, NEW j \in Job,
         j.pc = "idle" <=> j.outcome # "pending",
         files' \in [Paths -> Versions \cup {Absent}],
         \A p \in Paths \ paths : files'[p] = files[p],
         job' = [Disturb(c, paths) EXCEPT ![c] = j], UNCHANGED <<caps, config, written>>
  PROVE  TypeOK' /\ job'[c] = j /\ \A d \in Clients \ {c} : Spared(d, paths)
<1>1. job'[c] = j
  BY DEF Disturb
<1>2. ASSUME NEW d \in Clients \ {c}
      PROVE  /\ Spared(d, paths) /\ job'[d] \in Job
             /\ job'[d].pc = job[d].pc /\ job'[d].outcome = job[d].outcome
  <2>1. job'[d] = IF Concerns(job[d]) \cap paths # {} THEN [job[d] EXCEPT !.clean = FALSE]
                                                      ELSE job[d]
    BY DEF Disturb
  <2>2. job[d] \in Job
    BY DEF TypeOK
  <2>3. Spared(d, paths)
    BY <2>1 DEF Spared
  <2>4. CASE job'[d] = job[d]
    BY <2>2, <2>3, <2>4
  <2>5. CASE job'[d] = [job[d] EXCEPT !.clean = FALSE]
    BY <2>2, <2>3, <2>5, DirtyJob
  <2> QED
    BY <2>1, <2>4, <2>5
<1>3. job' \in [Clients -> Job]
  BY <1>1, <1>2 DEF Disturb
<1>4. \A d \in Clients : job'[d].pc = "idle" <=> job'[d].outcome # "pending"
  BY <1>1, <1>2 DEF TypeOK
<1> QED
  BY <1>1, <1>2, <1>3, <1>4 DEF TypeOK

LEMMA AnswerStep ==
  ASSUME IInv, NEW c \in Clients, Answer(c)
  PROVE  IInv'
<1> DEFINE j == AfterOk(job[c])
<1>1. /\ job[c].pc \in {"rename", "copy", "delete"} /\ CanPerform(job[c])
      /\ files' = Effect(job[c]) /\ UNCHANGED <<caps, config, written>>
      /\ job' = [Disturb(c, Touched(job[c])) EXCEPT ![c] = j]
  BY DEF Answer, Perform, Calls
<1>2. job[c] \in Job /\ ShapeFits(job[c]) /\ MoveFits(job[c]) /\ job[c].outcome = "pending"
  BY <1>1 DEF IInv, TypeOK, JobInv, Job
<1>3. /\ j \in Job /\ j.op = job[c].op /\ j.source = job[c].source /\ j.target = job[c].target
      /\ j.clean = job[c].clean /\ j.version = job[c].version
      /\ j.had_target = job[c].had_target /\ j.todo = {}
      /\ \/ job[c].pc # "copy" /\ j.pc = "idle" /\ j.outcome = "ok"
         \/ job[c].pc = "copy" /\ j.pc = "idle" /\ j.outcome = "error"
         \/ job[c].pc = "copy" /\ j.pc = "delete" /\ j.outcome = "pending"
  <2>1. CASE job[c].pc # "copy" \/ "delete" \notin caps
    BY <1>2, <2>1, FinishedFields DEF AfterOk
  <2>2. CASE job[c].pc = "copy" /\ "delete" \in caps
    <3>1. j = [job[c] EXCEPT !.pc = "delete", !.retries = 0] /\ 0 \in 0..MaxRetries
      BY <2>2, MutationsAssumption DEF AfterOk
    <3> QED
      BY <1>2, <2>2, <3>1 DEF Job, Calls, ShapeFits
  <2> QED
    BY <2>1, <2>2
<1> HIDE DEF j
<1>4. /\ files' \in [Paths -> Versions \cup {Absent}] /\ Touched(job[c]) \in SUBSET Paths
      /\ \A p \in Paths \ Touched(job[c]) : files'[p] = files[p]
  BY <1>1, <1>2, EffectOnPaths DEF IInv
<1>5. TypeOK' /\ job'[c] = j /\ \A d \in Clients \ {c} : Spared(d, Touched(job[c]))
  BY <1>1, <1>3, <1>4, DisturbSpares DEF IInv
<1>6. ShapeFits(job[c])'
  BY <1>1, <1>2, <1>3, <1>5, EffectOnPaths DEF IInv, ShapeFits
<1>7. MoveFits(job[c])'
  <2>1. CASE job[c].pc = "rename"
    <3>1. /\ files'[job[c].target] = files[job[c].source] /\ files'[job[c].source] = Absent
          /\ files[job[c].source] # Absent
      BY <1>1, <1>2, <2>1, EffectOnPaths DEF IInv
    <3> QED
      BY <1>2, <1>3, <1>5, <2>1, <3>1 DEF MoveFits
  <2>2. CASE job[c].pc = "copy"
    <3>1. /\ files'[job[c].target] = files[job[c].source] /\ job[c].source # job[c].target
          /\ files'[job[c].source] = files[job[c].source] /\ files[job[c].source] # Absent
      BY <1>1, <1>2, <2>2, EffectOnPaths DEF IInv
    <3> QED
      BY <1>2, <1>3, <1>5, <2>2, <3>1 DEF MoveFits
  <2>3. CASE job[c].pc = "delete"
    <3>1. /\ files'[job[c].source] = Absent
          /\ job[c].target # job[c].source => files'[job[c].target] = files[job[c].target]
      BY <1>1, <1>2, <2>3, EffectOnPaths DEF IInv
    <3> QED
      BY <1>2, <1>3, <1>5, <2>3, <3>1 DEF MoveFits
  <2> QED
    BY <1>1, <2>1, <2>2, <2>3
<1>8. RemoveFits(job[c])'
  BY <1>1, <1>2, <1>3, <1>5, EffectOnPaths DEF IInv, RemoveFits, ShapeFits
<1> QED
  BY <1>4, <1>5, <1>6, <1>7, <1>8, OneClient DEF JobInv

LEMMA LoseAnswerStep ==
  ASSUME IInv, NEW c \in Clients, LoseAnswer(c)
  PROVE  IInv'
<1> DEFINE j == [job[c] EXCEPT !.retries = @ + 1]
<1>1. /\ job[c].pc \in {"rename", "copy", "delete"} /\ CanPerform(job[c])
      /\ files' = Effect(job[c]) /\ UNCHANGED <<caps, config, written>>
      /\ job' = [Disturb(c, Touched(job[c])) EXCEPT ![c] = j] /\ job[c].retries < MaxRetries
  BY DEF LoseAnswer, Perform, Calls
<1>2. /\ job[c] \in Job /\ ShapeFits(job[c]) /\ MoveFits(job[c])
      /\ job[c].outcome = "pending"
  BY <1>1 DEF IInv, TypeOK, JobInv, Job
<1>3. /\ j \in Job /\ j.op = job[c].op /\ j.source = job[c].source /\ j.target = job[c].target
      /\ j.clean = job[c].clean /\ j.version = job[c].version
      /\ j.had_target = job[c].had_target /\ j.todo = job[c].todo
      /\ j.pc = job[c].pc /\ j.outcome = job[c].outcome
  <2>1. job[c].retries + 1 \in 0..MaxRetries
    BY <1>1, <1>2, MutationsAssumption DEF Job
  <2> QED
    BY <1>2, <2>1 DEF Job
<1> HIDE DEF j
<1>4. /\ files' \in [Paths -> Versions \cup {Absent}] /\ Touched(job[c]) \in SUBSET Paths
      /\ \A p \in Paths \ Touched(job[c]) : files'[p] = files[p]
  BY <1>1, <1>2, EffectOnPaths DEF IInv
<1>5. j.pc = "idle" <=> j.outcome # "pending"
  BY <1>1, <1>2, <1>3
<1>6. TypeOK' /\ job'[c] = j /\ \A d \in Clients \ {c} : Spared(d, Touched(job[c]))
  BY <1>1, <1>3, <1>4, <1>5, DisturbSpares DEF IInv
<1>7. ShapeFits(job[c])'
  BY <1>1, <1>2, <1>3, <1>6 DEF ShapeFits
<1>8. MoveFits(job[c])'
  <2>1. CASE job[c].pc = "rename"
    <3>1. files'[job[c].target] = files[job[c].source] /\ files'[job[c].source] = Absent
      BY <1>1, <1>2, <2>1, EffectOnPaths DEF IInv
    <3>2. files[job[c].source] # Absent
      BY <1>1, <1>2, <2>1, EffectOnPaths DEF IInv
    <3> QED
      BY <1>2, <1>3, <1>6, <2>1, <3>1, <3>2 DEF MoveFits
  <2>2. CASE job[c].pc = "copy"
    <3>1. /\ files'[job[c].target] = files[job[c].source]
          /\ files'[job[c].source] = files[job[c].source] /\ files[job[c].source] # Absent
      BY <1>1, <1>2, <2>2, EffectOnPaths DEF IInv
    <3> QED
      BY <1>2, <1>3, <1>6, <2>2, <3>1 DEF MoveFits
  <2>3. CASE job[c].pc = "delete"
    <3>1. /\ files'[job[c].source] = Absent
          /\ job[c].target # job[c].source => files'[job[c].target] = files[job[c].target]
      BY <1>1, <1>2, <2>3, EffectOnPaths DEF IInv
    <3> QED
      BY <1>2, <1>3, <1>6, <2>3, <3>1 DEF MoveFits
  <2> QED
    BY <1>1, <2>1, <2>2, <2>3
<1>9. RemoveFits(job[c])'
  BY <1>1, <1>2, <1>3, <1>6 DEF RemoveFits, ShapeFits
<1> QED
  BY <1>4, <1>6, <1>7, <1>8, <1>9, OneClient DEF JobInv

\* A call that fails leaves what the calls before it have done.
LEMMA RefuseStep ==
  ASSUME IInv, NEW c \in Clients, Refuse(c)
  PROVE  IInv'
<1> DEFINE j == Finished(job[c], "error")
<1>1. /\ job[c] \in Job /\ ShapeFits(job[c]) /\ MoveFits(job[c]) /\ job[c].pc # "idle"
      /\ job[c].pc \in Calls
  BY DEF Refuse, IInv, TypeOK, JobInv, Calls
<1>2. /\ j \in Job /\ j.op = job[c].op /\ j.source = job[c].source /\ j.target = job[c].target
      /\ j.pc = "idle" /\ j.outcome = "error" /\ j.clean = job[c].clean
      /\ j.version = job[c].version /\ j.had_target = job[c].had_target /\ j.todo = {}
  BY <1>1, FinishedFields
<1>3. job' = [job EXCEPT ![c] = j] /\ UNCHANGED <<caps, config, files, written>>
  BY DEF Refuse, AfterError, CleanUp
<1> HIDE DEF j
<1>4. TypeOK' /\ job'[c] = j /\ \A d \in Clients \ {c} : job'[d] = job[d]
  BY <1>2, <1>3, JobType DEF IInv
<1>5. ShapeFits(job[c])' /\ RemoveFits(job[c])'
  BY <1>1, <1>2, <1>3, <1>4 DEF ShapeFits, RemoveFits, Calls
<1>6. MoveFits(job[c])'
  BY <1>1, <1>2, <1>3, <1>4 DEF ShapeFits, MoveFits, Calls
<1> QED
  BY <1>3, <1>4, <1>5, <1>6, QuietStep DEF JobInv

LEMMA DeleteOneStep ==
  ASSUME IInv, NEW c \in Clients, NEW p \in Tree, DeleteOne(c, p)
  PROVE  IInv'
<1> DEFINE j == [job[c] EXCEPT !.todo = @ \ {p}]
<1>1. /\ job[c] \in Job /\ ShapeFits(job[c]) /\ RemoveFits(job[c])
      /\ job[c].pc = "delete_all" /\ job[c].op = "remove_dir" /\ p \in Paths
  BY MutationsAssumption DEF DeleteOne, IInv, TypeOK, JobInv, ShapeFits
<1>2. job[c].outcome = "pending"
  BY <1>1 DEF IInv, TypeOK, Job
<1>3. /\ j \in Job /\ j.op = "remove_dir" /\ j.pc = "delete_all" /\ j.outcome = "pending"
      /\ j.clean = job[c].clean /\ j.todo = job[c].todo \ {p}
  BY <1>1, <1>2 DEF Job
<1>4. /\ files' \in [Paths -> Versions \cup {Absent}]
      /\ \A q \in Paths \ {p} : files'[q] = files[q]
      /\ files'[p] = Absent
  BY <1>1 DEF DeleteOne, IInv, TypeOK
<1>5. job' = [Disturb(c, {p}) EXCEPT ![c] = j] /\ UNCHANGED <<caps, config, written>>
  BY DEF DeleteOne, Disturb
<1> HIDE DEF j
<1>6. TypeOK' /\ job'[c] = j /\ \A d \in Clients \ {c} : Spared(d, {p})
  BY <1>1, <1>3, <1>4, <1>5, DisturbSpares DEF IInv
<1>7. ShapeFits(job[c])' /\ MoveFits(job[c])'
  BY <1>1, <1>3, <1>6 DEF ShapeFits, MoveFits
<1>8. RemoveFits(job[c])'
  BY <1>1, <1>3, <1>4, <1>6, MutationsAssumption DEF RemoveFits
<1> QED
  BY <1>1, <1>4, <1>6, <1>7, <1>8, OneClient DEF JobInv

LEMMA DeleteEndsStep ==
  ASSUME IInv, NEW c \in Clients, DeleteEnds(c)
  PROVE  IInv'
<1> DEFINE j == Finished(job[c], "ok")
<1>1. /\ job[c] \in Job /\ ShapeFits(job[c]) /\ RemoveFits(job[c])
      /\ job[c].pc = "delete_all" /\ job[c].todo = {} /\ job[c].op = "remove_dir"
  BY DEF DeleteEnds, IInv, TypeOK, JobInv, ShapeFits
<1>2. /\ j \in Job /\ j.op = "remove_dir" /\ j.pc = "idle" /\ j.outcome = "ok"
      /\ j.clean = job[c].clean /\ j.todo = {}
  BY <1>1, FinishedFields
<1>3. job' = [job EXCEPT ![c] = j] /\ UNCHANGED <<caps, config, files, written>>
  BY DEF DeleteEnds
<1> HIDE DEF j
<1>4. TypeOK' /\ job'[c] = j /\ \A d \in Clients \ {c} : job'[d] = job[d]
  BY <1>2, <1>3, JobType DEF IInv
<1>5. JobInv(c)'
  BY <1>1, <1>2, <1>3, <1>4 DEF JobInv, ShapeFits, MoveFits, RemoveFits
<1> QED
  BY <1>3, <1>4, <1>5, QuietStep

--------------------------------------------------------------------------------
LEMMA StepPreserves == IInv /\ [Next]_vars => IInv'
<1> SUFFICES ASSUME IInv, [Next]_vars PROVE IInv'
  OBVIOUS
<1>1. ASSUME NEW p \in Paths, OtherWrites(p) PROVE IInv'
  BY <1>1, OtherWritesStep
<1>2. ASSUME NEW g \in Configs, Reconfigure(g) PROVE IInv'
  BY <1>2, ReconfigureStep
<1>3. ASSUME NEW c \in Clients, NEW p \in Paths, RemoveFile(c, p) PROVE IInv'
  BY <1>3, StartStep DEF RemoveFile
<1>4. ASSUME NEW c \in Clients, NEW p \in Paths, NEW q \in Paths, MoveFile(c, p, q)
      PROVE  IInv'
  BY <1>4, StartStep DEF MoveFile
<1>5. ASSUME NEW c \in Clients, RemoveDirectory(c) PROVE IInv'
  BY <1>5, StartStep DEF RemoveDirectory
<1>6. ASSUME NEW c \in Clients, ResolveFails(c) PROVE IInv'
  BY <1>6, ThrowStep DEF ResolveFails
<1>7. ASSUME NEW c \in Clients, Runs(c) PROVE IInv'
  BY <1>6, <1>7, ResolveSourceStep, ResolveTargetStep, AnswerStep, LoseAnswerStep, RefuseStep,
     DeleteOneStep, DeleteEndsStep DEF Runs
<1>8. CASE UNCHANGED vars
  BY <1>8 DEF vars, IInv, TypeOK, JobInv, ShapeFits, MoveFits, RemoveFits
<1> QED
  BY <1>1, <1>2, <1>3, <1>4, <1>5, <1>7, <1>8 DEF Next

\* IInv is inductive.
LEMMA Invariance == Spec => []IInv
<1>1. Init => IInv
  BY InitEstablishes
<1>2. IInv /\ [Next]_vars => IInv'
  BY StepPreserves
<1> QED
  BY <1>1, <1>2, PTL DEF Spec

\* The variables of MoveFile, RemoveFile and RemoveDirectory keep their types, and a result is
\* there exactly when the call has returned.
THEOREM TypeCorrect == Spec => []TypeOK
<1>1. IInv => TypeOK
  BY DEF IInv
<1> QED
  BY <1>1, Invariance, PTL

\* MoveFile never loses what it moves, whichever transfer the service allows, whichever call
\* fails and however many answers are lost.
THEOREM ContentKept == Spec => []MoveKeepsContent
<1>1. IInv => MoveKeepsContent
  <2> SUFFICES ASSUME IInv, NEW c \in Clients, Move(c)
               PROVE  job[c].version \in {files[job[c].source], files[job[c].target]}
    BY DEF MoveKeepsContent
  <2>1. job[c] \in Job /\ ShapeFits(job[c]) /\ MoveFits(job[c])
    BY DEF IInv, TypeOK, JobInv
  <2> QED
    BY <2>1 DEF Move, IInv, TypeOK, Job, Calls, ShapeFits, MoveFits
<1> QED
  BY <1>1, Invariance, PTL

\* A return without an exception from MoveFile, RemoveFile or RemoveDirectory means that the
\* mutation is complete.
THEOREM SuccessIsDone == Spec => []OkMeansDone
<1>1. IInv => OkMeansDone
  <2> SUFFICES ASSUME IInv, NEW c \in Clients, job[c].clean, job[c].outcome = "ok"
               PROVE CASE job[c].op = "move" ->
                            /\ files[job[c].target] = job[c].version
                            /\ files[job[c].source] = Absent
                       [] job[c].op = "remove" -> files[job[c].source] = Absent
                       [] job[c].op = "remove_dir" -> \A p \in Tree : files[p] = Absent
    BY DEF OkMeansDone
  <2>1. /\ job[c] \in Job /\ ShapeFits(job[c]) /\ MoveFits(job[c]) /\ RemoveFits(job[c])
        /\ job[c].op \in {"move", "remove", "remove_dir"}
    BY DEF IInv, TypeOK, JobInv, ShapeFits, Job
  <2> QED
    BY <2>1 DEF MoveFits, RemoveFits
<1> QED
  BY <1>1, Invariance, PTL

\* MoveFile onto an existing target replaces it without a moment in which it is missing.
THEOREM TargetAnswers == Spec => []TargetStays
<1>1. IInv => TargetStays
  BY DEF IInv, JobInv, MoveFits, TargetStays, Move
<1> QED
  BY <1>1, Invariance, PTL
================================================================================
