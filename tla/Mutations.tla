------------------------------- MODULE Mutations -------------------------------
(***************************************************************************)
(* MoveFile, RemoveFile and RemoveDirectory (src/opendal_filesystem.cpp    *)
(* over opendal/src/mutate.rs) called by several clients on the objects of *)
(* one bucket, which other programs write as well.                         *)
(*                                                                         *)
(* A mutation resolves its operators, chooses a transfer by what the       *)
(* service supports and makes one or two blocking FFI calls.  The service  *)
(* may refuse a call, perform it and answer, or perform it and lose the    *)
(* answer; the retry layer under the FFI then sends the call again.        *)
(*                                                                         *)
(* OperatorCache shows that threads which resolve the same configuration   *)
(* get the same operator, so an operator is the configuration it was       *)
(* built from.  The content of an object is a version number.              *)
(***************************************************************************)
EXTENDS Integers

CONSTANTS
  Clients,      \* threads inside the file system
  Paths,        \* the objects' names
  Services,     \* the sets of capabilities a service can have
  Configs,      \* what the settings and secrets of the bucket can be
  Tree,         \* the paths under the directory RemoveDirectory is called with
  MaxVersion,   \* bound: versions other programs write
  MaxRetries,   \* bound: lost answers the retry layer recovers from in one call
  Nil           \* no operator yet

ASSUME MutationsAssumption ==
  /\ Tree \subseteq Paths /\ Services \subseteq SUBSET {"rename", "copy", "delete"}
  /\ MaxVersion \in Nat /\ MaxRetries \in Nat /\ Nil \notin Configs

VARIABLES
  caps,     \* what the service supports
  config,   \* the configuration BuildOperator would use now
  files,    \* the version of each object, or Absent
  job,      \* the mutation each client is in, or was in last
  written   \* the newest version

vars == <<caps, config, files, job, written>>

Absent == -1
Versions == 0..MaxVersion

\* FFI calls in flight.
Calls == {"rename", "copy", "delete", "delete_all"}

\* pc: "source" and "target" resolve an operator.  version, had_target, clean: history, the
\* version at the source and whether the target existed when the first call was made, and
\* whether nobody else has touched the two since.  todo: what a recursive delete has listed.
Job == [op: {"none", "move", "remove", "remove_dir"},
        source: Paths \cup {Nil}, target: Paths \cup {Nil},
        pc: {"idle", "source", "target"} \cup Calls, operator: Configs \cup {Nil},
        outcome: {"pending", "ok", "error"}, retries: 0..MaxRetries,
        version: Versions \cup {Absent}, had_target: BOOLEAN, clean: BOOLEAN,
        todo: SUBSET Paths]

TypeOK ==
  /\ caps \in Services
  /\ config \in Configs
  /\ files \in [Paths -> Versions \cup {Absent}]
  /\ job \in [Clients -> Job]
  /\ \A c \in Clients : job[c].pc = "idle" <=> job[c].outcome # "pending"
  /\ written \in Versions

NoJob == [op |-> "none", source |-> Nil, target |-> Nil, pc |-> "idle", operator |-> Nil,
          outcome |-> "ok", retries |-> 0, version |-> Absent, had_target |-> FALSE,
          clean |-> FALSE, todo |-> {}]

Init ==
  /\ caps \in Services
  /\ config \in Configs
  /\ files \in [Paths -> {0, Absent}]
  /\ job = [c \in Clients |-> NoJob]
  /\ written = 0

\* The paths a mutation is about.
Concerns(j) == IF j.op = "remove_dir" THEN Tree ELSE {j.source, j.target}

\* Everyone but c whose paths are touched is disturbed.
Disturb(c, paths) ==
  [d \in Clients |-> IF d # c /\ Concerns(job[d]) \cap paths # {}
                       THEN [job[d] EXCEPT !.clean = FALSE] ELSE job[d]]

Finished(j, outcome) == [j EXCEPT !.pc = "idle", !.operator = Nil, !.outcome = outcome,
                                    !.retries = 0, !.todo = {}]
Throw(c) == job' = [job EXCEPT ![c] = Finished(@, "error")]

(***************************************************************************)
(* Other programs, and other sessions.                                     *)
(***************************************************************************)
OtherWrites(p) ==
  /\ written < MaxVersion
  /\ written' = written + 1
  /\ files' = [files EXCEPT ![p] = written']
  /\ job' = [c \in Clients |-> IF p \in Concerns(job[c]) THEN [job[c] EXCEPT !.clean = FALSE]
                                                         ELSE job[c]]
  /\ UNCHANGED <<caps, config>>

Reconfigure(g) == config' = g /\ UNCHANGED <<caps, files, job, written>>

(***************************************************************************)
(* The C++ side.                                                           *)
(***************************************************************************)
Start(c, op, source, target) ==
  /\ job[c].pc = "idle"
  /\ job' = [job EXCEPT ![c] = [NoJob EXCEPT !.op = op, !.source = source,
                                  !.target = target, !.pc = "source", !.outcome = "pending"]]
  /\ UNCHANGED <<caps, config, files, written>>

MoveFile(c, source, target) == Start(c, "move", source, target)
RemoveFile(c, path) == Start(c, "remove", path, path)
RemoveDirectory(c) == Start(c, "remove_dir", Nil, Nil)

\* A call begins: what it finds is remembered, and from here on interference counts.
FirstCall(c, call) ==
  job' = [job EXCEPT ![c] = [@ EXCEPT !.pc = call, !.operator = Nil, !.clean = TRUE,
                               !.version = files[job[c].source],
                               !.had_target = files[job[c].target] # Absent]]

\* A recursive delete lists first.
FirstList(c) ==
  job' = [job EXCEPT ![c] = [@ EXCEPT !.pc = "delete_all", !.clean = TRUE,
                               !.todo = {p \in Tree : files[p] # Absent}]]

\* BuildOperator can throw, for either operator; od_remove begins with a guard of its own.
ResolveFails(c) ==
  /\ job[c].pc \in {"source", "target"}
  /\ Throw(c)
  /\ UNCHANGED <<caps, config, files, written>>

ResolveSource(c) ==
  /\ job[c].pc = "source"
  /\ \/ /\ job[c].op = "move"
        /\ job' = [job EXCEPT ![c] = [@ EXCEPT !.pc = "target", !.operator = config]]
     \/ job[c].op # "move" /\ "delete" \notin caps /\ Throw(c)
     \/ job[c].op = "remove" /\ "delete" \in caps /\ FirstCall(c, "delete")
     \/ job[c].op = "remove_dir" /\ "delete" \in caps /\ FirstList(c)
  /\ UNCHANGED <<caps, config, files, written>>

\* Mutant: the copy comes last.
TransferDeletingFirst(c) ==
  \/ "rename" \in caps /\ FirstCall(c, "rename")
  \/ "rename" \notin caps /\ "copy" \in caps /\ FirstCall(c, "delete")
  \/ caps \cap {"rename", "copy"} = {} /\ Throw(c)

\* Rename where the service has it, otherwise copy and delete, otherwise an error.
Transfer(c) ==
  \/ "rename" \in caps /\ FirstCall(c, "rename")
  \/ "rename" \notin caps /\ "copy" \in caps /\ FirstCall(c, "copy")
  \/ caps \cap {"rename", "copy"} = {} /\ Throw(c)

\* A move between two operators is refused, be it that the settings changed in between.
ResolveTarget(c) ==
  /\ job[c].pc = "target"
  /\ IF job[c].operator = config THEN Transfer(c) ELSE Throw(c)
  /\ UNCHANGED <<caps, config, files, written>>

(***************************************************************************)
(* The service (external).  Rename and copy refuse a missing source and a  *)
(* source that is the target; deleting what is not there succeeds.         *)
(***************************************************************************)
CanPerform(j) ==
  j.pc \in {"rename", "copy"} => files[j.source] # Absent /\ j.source # j.target

Effect(j) ==
  CASE j.pc = "rename" -> [files EXCEPT ![j.target] = files[j.source], ![j.source] = Absent]
    [] j.pc = "copy" -> [files EXCEPT ![j.target] = files[j.source]]
    [] j.pc = "delete" -> [files EXCEPT ![j.source] = Absent]

Touched(j) == IF j.pc = "rename" THEN {j.source, j.target}
              ELSE IF j.pc = "copy" THEN {j.target} ELSE {j.source}

\* Mutant: the source stays.
AfterOkWithoutDelete(j) == Finished(j, "ok")

\* A return code of 0: after the copy of a move comes the delete, with od_remove's own guard.
AfterOk(j) ==
  IF j.pc # "copy" THEN Finished(j, "ok")
  ELSE IF "delete" \in caps THEN [j EXCEPT !.pc = "delete", !.retries = 0]
  ELSE Finished(j, "error")

\* Mutant: a failed move removes the target it may have begun to write.
CleanUpTarget(j) == IF j.op = "move" THEN [files EXCEPT ![j.target] = Absent] ELSE files

\* Any other return code is thrown, with nothing undone.
CleanUp(j) == files
AfterError(j) == Finished(j, "error")

Perform(c, after) ==
  /\ job[c].pc \in Calls \ {"delete_all"} /\ CanPerform(job[c])
  /\ files' = Effect(job[c])
  /\ job' = [Disturb(c, Touched(job[c])) EXCEPT ![c] = after]
  /\ UNCHANGED <<caps, config, written>>

Answer(c) == Perform(c, AfterOk(job[c]))

\* The answer is lost, and the retry layer sends the call again.
LoseAnswer(c) ==
  /\ job[c].retries < MaxRetries
  /\ Perform(c, [job[c] EXCEPT !.retries = @ + 1])

\* A call fails without effect, for good; a panic in it ends the same way.
Refuse(c) ==
  /\ job[c].pc \in Calls
  /\ job' = [job EXCEPT ![c] = AfterError(@)]
  /\ files' = CleanUp(job[c])
  /\ UNCHANGED <<caps, config, written>>

\* A recursive delete removes one object after the other; failing, it leaves the rest.
DeleteOne(c, p) ==
  /\ p \in job[c].todo
  /\ files' = [files EXCEPT ![p] = Absent]
  /\ job' = [Disturb(c, {p}) EXCEPT ![c].todo = @ \ {p}]
  /\ UNCHANGED <<caps, config, written>>

DeleteEnds(c) ==
  /\ job[c].pc = "delete_all" /\ job[c].todo = {}
  /\ job' = [job EXCEPT ![c] = Finished(@, "ok")]
  /\ UNCHANGED <<caps, config, files, written>>

Runs(c) ==
  \/ ResolveFails(c) \/ ResolveSource(c) \/ ResolveTarget(c)
  \/ Answer(c) \/ LoseAnswer(c) \/ Refuse(c)
  \/ \E p \in Tree : DeleteOne(c, p)
  \/ DeleteEnds(c)

Next ==
  \/ \E p \in Paths : OtherWrites(p)
  \/ \E g \in Configs : Reconfigure(g)
  \/ \E c \in Clients, p \in Paths :
       RemoveFile(c, p) \/ \E q \in Paths : MoveFile(c, p, q)
  \/ \E c \in Clients : RemoveDirectory(c) \/ Runs(c)

Spec == Init /\ [][Next]_vars

--------------------------------------------------------------------------------
(***************************************************************************)
(* Properties.                                                             *)
(***************************************************************************)
Move(c) == job[c].op = "move" /\ job[c].clean /\ job[c].version # Absent

\* A move that nobody disturbs never loses what it moves, neither between copy and delete nor
\* after a failure, a lost answer or a retry: the version is at the source or at the target.
MoveKeepsContent ==
  \A c \in Clients : Move(c) =>
    job[c].version \in {files[job[c].source], files[job[c].target]}

\* A mutation that reports success has had its whole effect, if nobody disturbed it: the target
\* has the source's version and the source is gone; what was removed is gone.
OkMeansDone ==
  \A c \in Clients : job[c].clean /\ job[c].outcome = "ok" =>
    CASE job[c].op = "move" ->
           files[job[c].target] = job[c].version /\ files[job[c].source] = Absent
      [] job[c].op = "remove" -> files[job[c].source] = Absent
      [] job[c].op = "remove_dir" -> \A p \in Tree : files[p] = Absent

\* Overwriting by temporary file and move never makes the target disappear, even for a moment:
\* readers find the old version or the new one.
TargetStays ==
  \A c \in Clients : Move(c) /\ job[c].had_target /\ job[c].source # job[c].target =>
    files[job[c].target] # Absent
================================================================================
