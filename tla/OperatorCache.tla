----------------------------- MODULE OperatorCache -----------------------------
(***************************************************************************)
(* BuildOperator and the operator cache of OpenDalFileSystem               *)
(* (src/opendal_filesystem.cpp), run by several query threads while SET    *)
(* GLOBAL and CREATE/DROP SECRET statements of other sessions change what  *)
(* an operator is built from.                                              *)
(*                                                                         *)
(* The two mutexes make three short critical sections: the snapshot of the *)
(* global options (g_config_mu), the lookup and the publication in         *)
(* operators_ (mu_).  Everything between them interleaves, above all       *)
(* od_operator_new, which is deliberately called outside mu_.              *)
(*                                                                         *)
(* An operator is an address; freed addresses can be handed out again.     *)
(* A configuration map is a function from option names (numbers, standing  *)
(* for the strings in their sorted order) to values.                       *)
(***************************************************************************)
EXTENDS Integers, TLC, SequencesExt

CONSTANTS
  Threads,   \* query threads
  Targets,   \* the scheme://authority pairs in use
  Globals,   \* the option maps SET GLOBAL can leave in g_global_config
  Secrets,   \* what a secret lookup can find: [config |-> map, options |-> map]
  Ops,       \* addresses of OdOperators
  Nil        \* nullptr, or a local not set yet

VARIABLES
  global,    \* g_global_config, sections folded into the option names
  secret,    \* the secret that matches the URLs of each target
  operators, \* operators_: the published operator of each key, or Nil
  live,      \* OdOperators allocated and not freed
  built,     \* what each live operator was built from: [target, options and config]
  pc,        \* where each thread is in BuildOperator
  local,     \* its locals: target, options, config
  op,        \* its operator: under construction, or returned to the caller
  alive,     \* FALSE once ~OpenDalFileSystem has run
  leaked,    \* history: operators lost to an exception between od_operator_new and emplace
  seen       \* history: the globals and secrets in force at some time since the call began

vars == <<global, secret, operators, live, built, pc, local, op, alive, leaked, seen>>

\* Secret values override global options key by key; service config comes from the secret alone.
Merge(g, s) == [config |-> s.config, options |-> s.options @@ g]

Effective == {Merge(g, s) : g \in Globals, s \in Secrets}

\* std::map iterates in key order.
Entries(map) == SetToSortSeq({<<k, map[k]>> : k \in DOMAIN map}, LAMBDA a, b : a[1] < b[1])

\* Mutant: the service configuration is not part of the identity.
ConfigIdentityOfOptions(target, e) == <<target>> \o Entries(e.options)

\* The config entries, then the option entries, with nothing in between.  Every value is
\* length-prefixed, so the identity is as good as the sequence it is made of.
ConfigIdentity(target, e) == <<target>> \o Entries(e.config) \o Entries(e.options)

Keys == {ConfigIdentity(target, e) : target \in Targets, e \in Effective}

Key(t) == ConfigIdentity(local[t].target, local[t].effective)

PC == {"idle", "snapshot", "secret", "lookup", "build", "publish", "using"}
Local == [target: Targets, options: Globals \cup {Nil}, effective: Effective \cup {Nil}]
Origin == [target: Targets, effective: Effective]

Loan == [name: Keys, object: Ops]

ASSUME CacheAssumption == Nil \notin Ops /\ Nil \notin Local /\ Nil \notin Loan

TypeOK ==
  /\ global \in Globals
  /\ secret \in [Targets -> Secrets]
  /\ operators \in [Keys -> Ops \cup {Nil}]
  /\ live \in SUBSET Ops
  /\ built \in [Ops -> Origin \cup {Nil}]
  /\ pc \in [Threads -> PC]
  /\ local \in [Threads -> Local \cup {Nil}]
  /\ op \in [Threads -> Ops \cup {Nil}]
  /\ \A t \in Threads : local[t] = Nil <=> pc[t] = "idle"
  /\ \A t \in Threads : op[t] = Nil <=> pc[t] \notin {"publish", "using"}
  /\ alive \in BOOLEAN
  /\ leaked \in SUBSET Ops
  /\ seen \in [Threads -> [globals: SUBSET Globals, secrets: SUBSET Secrets]]

NothingSeen == [globals |-> {}, secrets |-> {}]

Init ==
  /\ global \in Globals
  /\ secret \in [Targets -> Secrets]
  /\ operators = [k \in Keys |-> Nil]
  /\ live = {}
  /\ built = [o \in Ops |-> Nil]
  /\ local = [t \in Threads |-> Nil]
  /\ pc = [t \in Threads |-> "idle"]
  /\ op = [t \in Threads |-> Nil]
  /\ alive = TRUE
  /\ leaked = {}
  /\ seen = [t \in Threads |-> NothingSeen]

Step(t, from, to) == pc[t] = from /\ pc' = [pc EXCEPT ![t] = to]

(***************************************************************************)
(* The other sessions.                                                     *)
(***************************************************************************)
Resolving(t) == pc[t] \notin {"idle", "using"}

SetGlobalConfig(g) ==
  /\ global' = g
  /\ seen' = [t \in Threads |->
                IF Resolving(t) THEN [seen[t] EXCEPT !.globals = @ \cup {g}] ELSE seen[t]]
  /\ UNCHANGED <<secret, operators, live, built, pc, local, op, alive, leaked>>

\* CREATE, REPLACE or DROP SECRET; a dropped secret is the record with two empty maps.
ChangeSecret(target, s) ==
  /\ secret' = [secret EXCEPT ![target] = s]
  /\ seen' = [t \in Threads |->
                IF Resolving(t) /\ local[t].target = target
                  THEN [seen[t] EXCEPT !.secrets = @ \cup {s}] ELSE seen[t]]
  /\ UNCHANGED <<global, operators, live, built, pc, local, op, alive, leaked>>

(***************************************************************************)
(* BuildOperator.                                                          *)
(***************************************************************************)
Forget(t) ==
  /\ local' = [local EXCEPT ![t] = Nil]
  /\ seen' = [seen EXCEPT ![t] = NothingSeen]

\* od_operator_free of each address in os.
Free(os) ==
  /\ live' = live \ os
  /\ built' = [o \in Ops |-> IF o \in os THEN Nil ELSE built[o]]

Call(t, target) ==
  /\ alive
  /\ Step(t, "idle", "snapshot")
  /\ local' = [local EXCEPT ![t] = [target |-> target, options |-> Nil, effective |-> Nil]]
  /\ seen' = [seen EXCEPT ![t] = [globals |-> {global}, secrets |-> {secret[target]}]]
  /\ UNCHANGED <<global, secret, operators, live, built, op, alive, leaked>>

GlobalConfigSnapshot(t) ==
  /\ Step(t, "snapshot", "secret")
  /\ local' = [local EXCEPT ![t].options = global]
  /\ UNCHANGED <<global, secret, operators, live, built, op, alive, leaked, seen>>

ApplySecret(t) ==
  /\ Step(t, "secret", "lookup")
  /\ local' = [local EXCEPT ![t] = [@ EXCEPT !.options = Nil,
                 !.effective = Merge(local[t].options, secret[local[t].target])]]
  /\ UNCHANGED <<global, secret, operators, live, built, op, alive, leaked, seen>>

LookupHit(t) ==
  /\ Step(t, "lookup", "using")
  /\ operators[Key(t)] # Nil
  /\ op' = [op EXCEPT ![t] = operators[Key(t)]]
  /\ UNCHANGED <<global, secret, operators, live, built, local, alive, leaked, seen>>

LookupMiss(t) ==
  /\ Step(t, "lookup", "build")
  /\ operators[Key(t)] = Nil
  /\ UNCHANGED <<global, secret, operators, live, built, local, op, alive, leaked, seen>>

\* od_operator_new, outside mu_: a malformed value or the service itself can refuse.
Build(t) ==
  /\ Step(t, "build", "publish")
  /\ \E o \in Ops \ live :
       /\ live' = live \cup {o}
       /\ op' = [op EXCEPT ![t] = o]
       /\ built' = [built EXCEPT ![o] = [target |-> local[t].target,
                                         effective |-> local[t].effective]]
  /\ UNCHANGED <<global, secret, operators, local, alive, leaked, seen>>

\* The matched secret is no key-value secret, or od_operator_new refuses.
BuildFails(t) ==
  /\ Step(t, "secret", "idle") \/ Step(t, "build", "idle")
  /\ Forget(t)
  /\ UNCHANGED <<global, secret, operators, live, built, op, alive, leaked>>

\* The operator new to this thread warns of an option, and the logger that is told so throws: op
\* is a raw pointer that nothing has stored yet, so the operator is never freed.
WarningThrows(t) ==
  /\ Step(t, "publish", "idle")
  /\ leaked' = leaked \cup {op[t]}
  /\ op' = [op EXCEPT ![t] = Nil]
  /\ Forget(t)
  /\ UNCHANGED <<global, secret, operators, live, built, alive>>

\* Mutants: the loser returns the operator it frees; does not free its own; keeps its own.
LoseAndReturnFreed(t) == Free({op[t]}) /\ UNCHANGED op
LoseWithoutFree(t) == op' = [op EXCEPT ![t] = operators[Key(t)]] /\ UNCHANGED <<live, built>>
LoseButKeep(t) == UNCHANGED <<op, live, built>>

\* The loser frees its own operator and returns the published one.
Lose(t) == Free({op[t]}) /\ op' = [op EXCEPT ![t] = operators[Key(t)]]

\* emplace keeps the operator that was published first.
Publish(t) ==
  /\ Step(t, "publish", "using")
  /\ IF operators[Key(t)] = Nil
       THEN /\ operators' = [operators EXCEPT ![Key(t)] = op[t]]
            /\ UNCHANGED <<live, built, op>>
       ELSE Lose(t) /\ UNCHANGED operators
  /\ UNCHANGED <<global, secret, local, alive, leaked, seen>>

\* The caller is done with the pointer.
Done(t) ==
  /\ Step(t, "using", "idle")
  /\ op' = [op EXCEPT ![t] = Nil]
  /\ Forget(t)
  /\ UNCHANGED <<global, secret, operators, live, built, alive, leaked>>

\* ~OpenDalFileSystem.  DuckDB destroys its file systems after the last query (external).
Destruct ==
  /\ alive
  /\ \A t \in Threads : pc[t] = "idle"
  /\ alive' = FALSE
  /\ Free({operators[k] : k \in Keys})
  /\ operators' = [k \in Keys |-> Nil]
  /\ UNCHANGED <<global, secret, pc, local, op, leaked, seen>>

BuildOperator(t) ==
  \/ GlobalConfigSnapshot(t) \/ ApplySecret(t) \/ LookupHit(t) \/ LookupMiss(t)
  \/ Build(t) \/ BuildFails(t) \/ WarningThrows(t) \/ Publish(t)

Next ==
  \/ \E g \in Globals : SetGlobalConfig(g)
  \/ \E target \in Targets, s \in Secrets : ChangeSecret(target, s)
  \/ \E t \in Threads, target \in Targets : Call(t, target)
  \/ \E t \in Threads : BuildOperator(t) \/ Done(t)
  \/ Destruct

Spec == Init /\ [][Next]_vars

--------------------------------------------------------------------------------
(***************************************************************************)
(* Properties.                                                             *)
(***************************************************************************)

\* An operator a caller works with has not been freed, whoever lost a race to publish it.
UsedIsLive == \A t \in Threads : pc[t] = "using" => op[t] \in live

\* Every live operator has exactly one owner, a key of operators_ or the thread that has just
\* built it, and the destructor frees each of them once.  The one exception is an operator whose
\* warning could not be logged, which nobody owns: nothing else leaks, whoever loses a race.
Owners(o) == {k \in Keys : operators[k] = o} \cup {t \in Threads : pc[t] = "publish" /\ op[t] = o}

Ownership ==
  /\ \A o \in Ops : o \in live <=> Owners(o) # {} \/ o \in leaked
  /\ \A o \in leaked : Owners(o) = {}
  /\ \A o \in Ops : \A x, y \in Owners(o) : x = y

\* Threads that resolved the same key concurrently end up with the same operator, the published
\* one: MoveFile and opendal_copy compare operators by address.
SameKeySameOperator == \A t \in Threads : pc[t] = "using" => op[t] = operators[Key(t)]

\* The operator a call returns was built for the caller's target from options and a secret that
\* were in force at some time since the call began: "Changing a setting or secret affects
\* operations started afterwards" (docs/configuration.md).
CurrentConfig ==
  \A t \in Threads : pc[t] = "using" =>
    /\ built[op[t]].target = local[t].target
    /\ \E g \in seen[t].globals, s \in seen[t].secrets : built[op[t]].effective = Merge(g, s)

(***************************************************************************)
(* The cache implements SharedOperators.  A call borrows where it finds or *)
(* publishes the operator, or loses the race to do so; what it did before  *)
(* is invisible.                                                           *)
(***************************************************************************)
Lent == [t \in Threads |-> IF pc[t] = "using" THEN [name |-> Key(t), object |-> op[t]] ELSE Nil]

Shared == INSTANCE SharedOperators
            WITH Borrowers <- Threads, Names <- Keys, Objects <- Ops, None <- Nil,
                 table <- operators, lent <- Lent, open <- alive

\* The two critical sections of BuildOperator, with od_operator_new unlocked between them and
\* any number of threads in the middle, look to callers like one atomic find-or-create.
ImplementsSharedOperators == Shared!Spec
================================================================================
