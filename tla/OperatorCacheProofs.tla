-------------------------- MODULE OperatorCacheProofs --------------------------
(***************************************************************************)
(* Theorems about OperatorCache, for any threads, targets, settings,       *)
(* secrets and addresses.                                                  *)
(*                                                                         *)
(* That callers never hold a freed operator rests on facts about threads   *)
(* in the middle of BuildOperator: what each of them has built is live,    *)
(* its own and unpublished; what is published was built for the key it is  *)
(* published under.  ConfigIdentity is left unexpanded: only               *)
(* FreshUnlessCollision depends on what it computes.  The last theorem is  *)
(* the refinement of SharedOperators.                                      *)
(***************************************************************************)
EXTENDS OperatorCache, TLAPS

Resolved(t) == pc[t] \in {"lookup", "build", "publish", "using"}

\* The locals a thread has assigned.
LocalFits(t) ==
  /\ pc[t] = "secret" => local[t].options \in Globals
  /\ Resolved(t) => local[t].effective \in Effective

\* The settings and secrets a thread has read were in force since its call began.
SeenFits(t) ==
  /\ Resolving(t) => global \in seen[t].globals /\ secret[local[t].target] \in seen[t].secrets
  /\ pc[t] = "secret" => local[t].options \in seen[t].globals
  /\ Resolved(t) => \E g \in seen[t].globals, s \in seen[t].secrets :
                      local[t].effective = Merge(g, s)

\* The operator a thread is about to publish is its own; the one it uses is the published one.
OperatorFits(t) ==
  /\ pc[t] = "publish" =>
       /\ op[t] \in live
       /\ built[op[t]] = [target |-> local[t].target, effective |-> local[t].effective]
       /\ \A k \in Keys : operators[k] # op[t]
       /\ \A u \in Threads \ {t} : pc[u] = "publish" => op[u] # op[t]
  /\ pc[t] = "using" => op[t] = operators[Key(t)]

\* A published operator is live and was built for its key.
MapFits ==
  \A k \in Keys : operators[k] # Nil =>
    /\ operators[k] \in live /\ built[operators[k]] \in Origin
    /\ ConfigIdentity(built[operators[k]].target, built[operators[k]].effective) = k

\* Nothing is live that nobody owns, except what leaked.
LiveIsOwned ==
  \A o \in live : \/ \E k \in Keys : operators[k] = o
                  \/ \E t \in Threads : pc[t] = "publish" /\ op[t] = o
                  \/ o \in leaked

\* What leaked stays allocated, so its address is not handed out again, and nobody has it.
LeakedIsLost ==
  /\ leaked \subseteq live
  /\ \A k \in Keys : operators[k] \notin leaked
  /\ \A t \in Threads : pc[t] = "publish" => op[t] \notin leaked

IInv ==
  /\ TypeOK
  /\ \A t \in Threads : LocalFits(t) /\ SeenFits(t) /\ OperatorFits(t)
  /\ MapFits
  /\ LiveIsOwned
  /\ LeakedIsLost

--------------------------------------------------------------------------------
\* The key of a thread that has resolved its configuration.
LEMMA KeyInKeys ==
  ASSUME TypeOK, NEW t \in Threads, LocalFits(t), Resolved(t)
  PROVE  Key(t) \in Keys
<1>1. local[t].target \in Targets /\ local[t].effective \in Effective
  BY DEF TypeOK, LocalFits, Resolved, Local
<1> QED
  BY <1>1 DEF Key, Keys

LEMMA MergeIsEffective ==
  ASSUME NEW g \in Globals, NEW s \in Secrets
  PROVE  Merge(g, s) \in Effective
  BY DEF Effective

LEMMA InitEstablishes == Init => IInv
<1> SUFFICES ASSUME Init PROVE IInv
  OBVIOUS
<1>1. TypeOK
  BY DEF Init, TypeOK, PC, NothingSeen
<1>2. \A t \in Threads : LocalFits(t) /\ SeenFits(t) /\ OperatorFits(t)
  BY DEF Init, LocalFits, SeenFits, OperatorFits, Resolved, Resolving
<1>3. MapFits /\ LiveIsOwned /\ LeakedIsLost
  BY DEF Init, MapFits, LiveIsOwned, LeakedIsLost
<1> QED
  BY <1>1, <1>2, <1>3 DEF IInv

(***************************************************************************)
(* The other sessions change only what is in force, and what each thread   *)
(* has seen in force grows.                                                *)
(***************************************************************************)
LEMMA SetGlobalConfigStep ==
  ASSUME IInv, NEW g \in Globals, SetGlobalConfig(g)
  PROVE  IInv'
<1>1. UNCHANGED <<secret, operators, live, built, pc, local, op, alive, leaked>> /\ global' = g
  BY DEF SetGlobalConfig
<1>2. ASSUME NEW t \in Threads
      PROVE  /\ seen'[t] \in [globals: SUBSET Globals, secrets: SUBSET Secrets]
             /\ seen[t].globals \subseteq seen'[t].globals
             /\ seen'[t].secrets = seen[t].secrets
             /\ Resolving(t) => g \in seen'[t].globals
  BY DEF SetGlobalConfig, IInv, TypeOK
<1>3. TypeOK'
  <2>1. seen' \in [Threads -> [globals: SUBSET Globals, secrets: SUBSET Secrets]]
    BY <1>2 DEF SetGlobalConfig
  <2> QED
    BY <1>1, <2>1 DEF IInv, TypeOK
<1>4. ASSUME NEW t \in Threads PROVE SeenFits(t)'
  <2>1. SeenFits(t)
    BY DEF IInv
  <2> QED
    BY <1>1, <1>2, <2>1 DEF SeenFits, Resolving, Resolved
<1>5. ASSUME NEW t \in Threads PROVE LocalFits(t)' /\ OperatorFits(t)'
  BY <1>1 DEF IInv, LocalFits, OperatorFits, Resolved, Key
<1>6. MapFits' /\ LiveIsOwned' /\ LeakedIsLost'
  BY <1>1 DEF IInv, MapFits, LiveIsOwned, LeakedIsLost
<1> QED
  BY <1>3, <1>4, <1>5, <1>6 DEF IInv

LEMMA ChangeSecretStep ==
  ASSUME IInv, NEW target \in Targets, NEW s \in Secrets, ChangeSecret(target, s)
  PROVE  IInv'
<1>1. /\ UNCHANGED <<global, operators, live, built, pc, local, op, alive, leaked>>
      /\ secret' = [secret EXCEPT ![target] = s]
  BY DEF ChangeSecret
<1>2. ASSUME NEW t \in Threads
      PROVE  /\ seen'[t] \in [globals: SUBSET Globals, secrets: SUBSET Secrets]
             /\ seen[t].secrets \subseteq seen'[t].secrets
             /\ seen'[t].globals = seen[t].globals
             /\ Resolving(t) /\ local[t].target = target => s \in seen'[t].secrets
  BY DEF ChangeSecret, IInv, TypeOK
<1>3. TypeOK'
  <2>1. seen' \in [Threads -> [globals: SUBSET Globals, secrets: SUBSET Secrets]]
    BY <1>2 DEF ChangeSecret
  <2> QED
    BY <1>1, <2>1 DEF IInv, TypeOK
<1>4. ASSUME NEW t \in Threads PROVE SeenFits(t)'
  <2>1. SeenFits(t)
    BY DEF IInv
  <2>2. Resolving(t) => secret'[local[t].target] \in seen'[t].secrets
    BY <1>1, <1>2, <2>1 DEF SeenFits, Resolving, IInv, TypeOK, Local
  <2> QED
    BY <1>1, <1>2, <2>1, <2>2 DEF SeenFits, Resolving, Resolved
<1>5. ASSUME NEW t \in Threads PROVE LocalFits(t)' /\ OperatorFits(t)'
  BY <1>1 DEF IInv, LocalFits, OperatorFits, Resolved, Key
<1>6. MapFits' /\ LiveIsOwned' /\ LeakedIsLost'
  BY <1>1 DEF IInv, MapFits, LiveIsOwned, LeakedIsLost
<1> QED
  BY <1>3, <1>4, <1>5, <1>6 DEF IInv

(***************************************************************************)
(* The steps of a thread.                                                  *)
(***************************************************************************)
\* What a step of thread t leaves alone.
OnlyThread(t) ==
  /\ UNCHANGED <<global, secret>>
  /\ \A u \in Threads \ {t} :
       pc'[u] = pc[u] /\ local'[u] = local[u] /\ seen'[u] = seen[u] /\ op'[u] = op[u]

LEMMA OtherLocals ==
  ASSUME IInv, NEW t \in Threads, OnlyThread(t), LocalFits(t)', SeenFits(t)'
  PROVE  \A u \in Threads : LocalFits(u)' /\ SeenFits(u)'
<1> SUFFICES ASSUME NEW u \in Threads \ {t} PROVE LocalFits(u)' /\ SeenFits(u)'
  OBVIOUS
<1>1. LocalFits(u) /\ SeenFits(u)
  BY DEF IInv
<1> QED
  BY <1>1 DEF OnlyThread, LocalFits, SeenFits, Resolved, Resolving

\* A step that touches no operator keeps what is known of the operators.
LEMMA QuietStep ==
  ASSUME IInv, TypeOK', NEW t \in Threads, OnlyThread(t), LocalFits(t)', SeenFits(t)',
         UNCHANGED <<operators, live, built, op, leaked>>,
         pc[t] \notin {"publish", "using"}, pc'[t] \notin {"publish", "using"}
  PROVE  IInv'
<1>1. \A u \in Threads : LocalFits(u)' /\ SeenFits(u)'
  BY OtherLocals
<1>2. ASSUME NEW u \in Threads PROVE OperatorFits(u)'
  <2>1. OperatorFits(u)
    BY DEF IInv
  <2>2. CASE u = t
    BY <2>2 DEF OperatorFits
  <2>3. CASE u # t
    BY <2>1, <2>3 DEF OperatorFits, OnlyThread, Key
  <2> QED
    BY <2>2, <2>3
<1>3. MapFits'
  BY DEF IInv, MapFits
<1>4. LiveIsOwned' /\ LeakedIsLost'
  BY DEF IInv, LiveIsOwned, LeakedIsLost, OnlyThread
<1> QED
  BY <1>1, <1>2, <1>3, <1>4 DEF IInv

LEMMA CallStep ==
  ASSUME IInv, NEW t \in Threads, NEW target \in Targets, Call(t, target)
  PROVE  IInv'
<1>1. /\ UNCHANGED <<global, secret, operators, live, built, op, alive, leaked>>
      /\ pc[t] = "idle" /\ pc' = [pc EXCEPT ![t] = "snapshot"]
      /\ local' = [local EXCEPT ![t] = [target |-> target, options |-> Nil, effective |-> Nil]]
      /\ seen' = [seen EXCEPT ![t] = [globals |-> {global}, secrets |-> {secret[target]}]]
  BY DEF Call, Step
<1>2. [target |-> target, options |-> Nil, effective |-> Nil] \in Local
  BY DEF Local
<1>3. TypeOK'
  <2>1. local' \in [Threads -> Local \cup {Nil}]
    BY <1>1, <1>2 DEF IInv, TypeOK
  <2>2. seen' \in [Threads -> [globals: SUBSET Globals, secrets: SUBSET Secrets]]
    BY <1>1 DEF IInv, TypeOK
  <2>3. pc' \in [Threads -> PC]
    BY <1>1 DEF IInv, TypeOK, PC
  <2>4. \A u \in Threads : local'[u] = Nil <=> pc'[u] = "idle"
    BY <1>1, <1>2, CacheAssumption DEF IInv, TypeOK
  <2>5. \A u \in Threads : op'[u] = Nil <=> pc'[u] \notin {"publish", "using"}
    BY <1>1 DEF IInv, TypeOK
  <2> QED
    BY <1>1, <2>1, <2>2, <2>3, <2>4, <2>5 DEF IInv, TypeOK
<1>4. OnlyThread(t)
  BY <1>1 DEF OnlyThread, IInv, TypeOK
<1>5. LocalFits(t)' /\ SeenFits(t)'
  BY <1>1 DEF LocalFits, SeenFits, Resolved, Resolving, IInv, TypeOK
<1> QED
  BY <1>1, <1>3, <1>4, <1>5, QuietStep DEF IInv, TypeOK

LEMMA GlobalConfigSnapshotStep ==
  ASSUME IInv, NEW t \in Threads, GlobalConfigSnapshot(t)
  PROVE  IInv'
<1>1. /\ UNCHANGED <<global, secret, operators, live, built, op, alive, leaked, seen>>
      /\ pc[t] = "snapshot" /\ pc' = [pc EXCEPT ![t] = "secret"]
      /\ local' = [local EXCEPT ![t].options = global]
  BY DEF GlobalConfigSnapshot, Step
<1>2. local[t] \in Local
  BY <1>1 DEF IInv, TypeOK
<1>3. local' = [local EXCEPT ![t] = [local[t] EXCEPT !.options = global]]
  BY <1>1 DEF IInv, TypeOK
<1>4. [local[t] EXCEPT !.options = global] \in Local
  BY <1>2 DEF IInv, TypeOK, Local
<1>5. TypeOK'
  <2>1. local' \in [Threads -> Local \cup {Nil}]
    BY <1>3, <1>4 DEF IInv, TypeOK
  <2>2. pc' \in [Threads -> PC]
    BY <1>1 DEF IInv, TypeOK, PC
  <2>3. \A u \in Threads : local'[u] = Nil <=> pc'[u] = "idle"
    BY <1>1, <1>3, <1>4, CacheAssumption DEF IInv, TypeOK
  <2>4. \A u \in Threads : op'[u] = Nil <=> pc'[u] \notin {"publish", "using"}
    BY <1>1 DEF IInv, TypeOK
  <2> QED
    BY <1>1, <2>1, <2>2, <2>3, <2>4 DEF IInv, TypeOK
<1>6. OnlyThread(t)
  BY <1>1, <1>3 DEF OnlyThread, IInv, TypeOK
<1>7. local'[t].options = global /\ local'[t].target = local[t].target
  BY <1>2, <1>3 DEF IInv, TypeOK, Local
<1>8. SeenFits(t) /\ global \in Globals
  BY DEF IInv, TypeOK
<1>9. LocalFits(t)' /\ SeenFits(t)'
  BY <1>1, <1>7, <1>8 DEF LocalFits, SeenFits, Resolved, Resolving, IInv, TypeOK
<1> QED
  BY <1>1, <1>5, <1>6, <1>9, QuietStep DEF IInv, TypeOK

LEMMA ApplySecretStep ==
  ASSUME IInv, NEW t \in Threads, ApplySecret(t)
  PROVE  IInv'
<1> DEFINE effective == Merge(local[t].options, secret[local[t].target])
           l == [local[t] EXCEPT !.options = Nil, !.effective = effective]
<1>1. /\ UNCHANGED <<global, secret, operators, live, built, op, alive, leaked, seen>>
      /\ pc[t] = "secret" /\ pc' = [pc EXCEPT ![t] = "lookup"]
      /\ local' = [local EXCEPT ![t] = l]
  BY DEF ApplySecret, Step, IInv, TypeOK
<1>2. local[t] \in Local /\ LocalFits(t) /\ SeenFits(t)
  BY <1>1 DEF IInv, TypeOK
<1>3. effective \in Effective
  BY <1>1, <1>2, MergeIsEffective DEF LocalFits, IInv, TypeOK, Local
<1>4. \E g \in seen[t].globals, s \in seen[t].secrets : effective = Merge(g, s)
  BY <1>1, <1>2 DEF SeenFits, Resolving
<1> HIDE DEF effective
<1>5. l \in Local /\ l.effective = effective /\ l.target = local[t].target
  BY <1>2, <1>3 DEF Local
<1> HIDE DEF l
<1>6. TypeOK'
  <2>1. local' \in [Threads -> Local \cup {Nil}]
    BY <1>1, <1>5 DEF IInv, TypeOK
  <2>2. pc' \in [Threads -> PC]
    BY <1>1 DEF IInv, TypeOK, PC
  <2>3. \A u \in Threads : local'[u] = Nil <=> pc'[u] = "idle"
    BY <1>1, <1>5, CacheAssumption DEF IInv, TypeOK
  <2>4. \A u \in Threads : op'[u] = Nil <=> pc'[u] \notin {"publish", "using"}
    BY <1>1 DEF IInv, TypeOK
  <2> QED
    BY <1>1, <2>1, <2>2, <2>3, <2>4 DEF IInv, TypeOK
<1>7. OnlyThread(t)
  BY <1>1 DEF OnlyThread, IInv, TypeOK
<1>8. pc'[t] = "lookup" /\ local'[t] = l
  BY <1>1 DEF IInv, TypeOK
<1>9. LocalFits(t)'
  BY <1>3, <1>5, <1>8 DEF LocalFits, Resolved
<1>10. SeenFits(t)'
  BY <1>1, <1>2, <1>4, <1>5, <1>8 DEF SeenFits, Resolved, Resolving
<1> QED
  BY <1>1, <1>6, <1>7, <1>8, <1>9, <1>10, QuietStep

LEMMA LookupMissStep ==
  ASSUME IInv, NEW t \in Threads, LookupMiss(t)
  PROVE  IInv'
<1>1. /\ UNCHANGED <<global, secret, operators, live, built, local, op, alive, leaked, seen>>
      /\ pc[t] = "lookup" /\ pc' = [pc EXCEPT ![t] = "build"]
  BY DEF LookupMiss, Step
<1>2. TypeOK'
  BY <1>1 DEF IInv, TypeOK, PC
<1>3. OnlyThread(t)
  BY <1>1 DEF OnlyThread, IInv, TypeOK
<1>4. LocalFits(t)' /\ SeenFits(t)'
  BY <1>1 DEF IInv, TypeOK, LocalFits, SeenFits, Resolved, Resolving
<1> QED
  BY <1>1, <1>2, <1>3, <1>4, QuietStep DEF IInv, TypeOK

LEMMA BuildFailsStep ==
  ASSUME IInv, NEW t \in Threads, BuildFails(t)
  PROVE  IInv'
<1>1. /\ UNCHANGED <<global, secret, operators, live, built, op, alive, leaked>>
      /\ pc[t] \in {"secret", "build"} /\ pc' = [pc EXCEPT ![t] = "idle"]
      /\ local' = [local EXCEPT ![t] = Nil] /\ seen' = [seen EXCEPT ![t] = NothingSeen]
  BY DEF BuildFails, Step, Forget
<1>2. TypeOK'
  BY <1>1 DEF IInv, TypeOK, PC, NothingSeen
<1>3. OnlyThread(t)
  BY <1>1 DEF OnlyThread, IInv, TypeOK
<1>4. LocalFits(t)' /\ SeenFits(t)'
  BY <1>1 DEF IInv, TypeOK, LocalFits, SeenFits, Resolved, Resolving
<1> QED
  BY <1>1, <1>2, <1>3, <1>4, QuietStep DEF IInv, TypeOK

LEMMA LookupHitStep ==
  ASSUME IInv, NEW t \in Threads, LookupHit(t)
  PROVE  IInv'
<1>1. /\ UNCHANGED <<global, secret, operators, live, built, local, alive, leaked, seen>>
      /\ pc[t] = "lookup" /\ pc' = [pc EXCEPT ![t] = "using"]
      /\ operators[Key(t)] # Nil /\ op' = [op EXCEPT ![t] = operators[Key(t)]]
  BY DEF LookupHit, Step
<1>2. Key(t) \in Keys
  BY <1>1, KeyInKeys DEF IInv, Resolved
<1>3. TypeOK'
  BY <1>1, <1>2, CacheAssumption DEF IInv, TypeOK, PC
<1>4. OnlyThread(t)
  BY <1>1 DEF OnlyThread, IInv, TypeOK
<1>5. LocalFits(t)' /\ SeenFits(t)'
  BY <1>1 DEF IInv, TypeOK, LocalFits, SeenFits, Resolved, Resolving
<1>6. ASSUME NEW u \in Threads PROVE OperatorFits(u)'
  <2>1. CASE u = t
    BY <1>1, <2>1 DEF IInv, TypeOK, OperatorFits, Key
  <2>2. CASE u # t
    BY <1>1, <2>2 DEF IInv, TypeOK, OperatorFits, Key
  <2> QED
    BY <2>1, <2>2
<1>7. MapFits' /\ LiveIsOwned' /\ LeakedIsLost'
  BY <1>1 DEF IInv, TypeOK, MapFits, LiveIsOwned, LeakedIsLost
<1> QED
  BY <1>3, <1>4, <1>5, <1>6, <1>7, OtherLocals DEF IInv

LEMMA BuildStep ==
  ASSUME IInv, NEW t \in Threads, Build(t)
  PROVE  IInv'
<1> DEFINE origin == [target |-> local[t].target, effective |-> local[t].effective]
<1>1. PICK o \in Ops \ live :
        /\ live' = live \cup {o} /\ op' = [op EXCEPT ![t] = o]
        /\ built' = [built EXCEPT ![o] = origin]
  BY DEF Build
<1>2. /\ UNCHANGED <<global, secret, operators, local, alive, leaked, seen>>
      /\ pc[t] = "build" /\ pc' = [pc EXCEPT ![t] = "publish"]
  BY DEF Build, Step
<1>3. LocalFits(t) /\ SeenFits(t)
  BY DEF IInv
<1>4. origin \in Origin
  BY <1>2, <1>3 DEF IInv, TypeOK, Local, LocalFits, Resolved, Origin
<1> HIDE DEF origin
<1>5. TypeOK'
  <2>1. live' \in SUBSET Ops /\ built' \in [Ops -> Origin \cup {Nil}]
    BY <1>1, <1>4 DEF IInv, TypeOK
  <2>2. op' \in [Threads -> Ops \cup {Nil}] /\ pc' \in [Threads -> PC]
    BY <1>1, <1>2 DEF IInv, TypeOK, PC
  <2>3. \A u \in Threads : op'[u] = Nil <=> pc'[u] \notin {"publish", "using"}
    BY <1>1, <1>2, CacheAssumption DEF IInv, TypeOK
  <2>4. \A u \in Threads : local'[u] = Nil <=> pc'[u] = "idle"
    BY <1>2 DEF IInv, TypeOK
  <2> QED
    BY <1>2, <2>1, <2>2, <2>3, <2>4 DEF IInv, TypeOK
<1>6. OnlyThread(t)
  BY <1>1, <1>2 DEF OnlyThread, IInv, TypeOK
<1>7. LocalFits(t)' /\ SeenFits(t)'
  BY <1>2, <1>3 DEF IInv, TypeOK, LocalFits, SeenFits, Resolved, Resolving
<1>8. \A k \in Keys : operators[k] # o
  BY CacheAssumption DEF IInv, MapFits
<1>9. \A u \in Threads : pc[u] = "publish" => op[u] \in live
  BY DEF IInv, OperatorFits
<1>10. ASSUME NEW u \in Threads PROVE OperatorFits(u)'
  <2>1. CASE u = t
    <3>1. pc'[t] = "publish" /\ op'[t] = o /\ built'[o] = origin /\ o \in live'
      BY <1>1, <1>2 DEF IInv, TypeOK
    <3>2. \A v \in Threads \ {t} : pc'[v] = "publish" => op'[v] # o
      BY <1>1, <1>2, <1>9 DEF IInv, TypeOK
    <3> QED
      BY <1>2, <1>8, <2>1, <3>1, <3>2 DEF OperatorFits, origin
  <2>2. CASE u # t
    <3>1. OperatorFits(u)
      BY DEF IInv
    <3>2. pc'[u] = pc[u] /\ op'[u] = op[u] /\ Key(u)' = Key(u)
      BY <1>1, <1>2, <2>2 DEF IInv, TypeOK, Key
    <3>3. pc[u] = "publish" => built'[op[u]] = built[op[u]]
      BY <1>1, <1>9 DEF IInv, TypeOK
    <3>4. \A v \in Threads \ {u} : pc[u] = "publish" /\ pc'[v] = "publish" => op'[v] # op[u]
      BY <1>1, <1>2, <1>9, <3>1 DEF IInv, TypeOK, OperatorFits
    <3> QED
      BY <1>1, <1>2, <3>1, <3>2, <3>3, <3>4 DEF OperatorFits
  <2> QED
    BY <2>1, <2>2
<1>11. MapFits'
  BY <1>1, <1>2 DEF IInv, TypeOK, MapFits
<1>12. LiveIsOwned'
  <2> SUFFICES ASSUME NEW x \in live'
               PROVE  \/ \E k \in Keys : operators'[k] = x
                      \/ \E u \in Threads : pc'[u] = "publish" /\ op'[u] = x
                      \/ x \in leaked'
    BY DEF LiveIsOwned
  <2>1. CASE x = o
    BY <1>1, <1>2, <2>1 DEF IInv, TypeOK
  <2>2. CASE x # o
    BY <1>1, <1>2, <2>2 DEF IInv, TypeOK, LiveIsOwned
  <2> QED
    BY <2>1, <2>2
<1>13. LeakedIsLost'
  BY <1>1, <1>2 DEF IInv, TypeOK, LeakedIsLost
<1> QED
  BY <1>5, <1>6, <1>7, <1>10, <1>11, <1>12, <1>13, OtherLocals DEF IInv

\* The first to publish: its operator becomes the operator of the key.
LEMMA PublishFirst ==
  ASSUME IInv, NEW t \in Threads, Publish(t), operators[Key(t)] = Nil
  PROVE  IInv'
<1>1. /\ UNCHANGED <<global, secret, live, built, op, local, alive, leaked, seen>>
      /\ pc[t] = "publish" /\ pc' = [pc EXCEPT ![t] = "using"]
      /\ operators' = [operators EXCEPT ![Key(t)] = op[t]]
  BY DEF Publish, Step
<1>2. LocalFits(t) /\ SeenFits(t) /\ OperatorFits(t)
  BY DEF IInv
<1>3. Key(t) \in Keys
  BY <1>1, <1>2, KeyInKeys DEF IInv, Resolved
<1>4. TypeOK'
  <2>1. operators' \in [Keys -> Ops \cup {Nil}]
    BY <1>1, <1>3 DEF IInv, TypeOK
  <2> QED
    BY <1>1, <2>1 DEF IInv, TypeOK, PC
<1>5. OnlyThread(t)
  BY <1>1 DEF OnlyThread, IInv, TypeOK
<1>6. LocalFits(t)' /\ SeenFits(t)'
  BY <1>1, <1>2 DEF IInv, TypeOK, LocalFits, SeenFits, Resolved, Resolving
<1>7. ASSUME NEW u \in Threads PROVE OperatorFits(u)'
  <2>1. CASE u = t
    BY <1>1, <1>3, <2>1 DEF IInv, TypeOK, OperatorFits, Key
  <2>2. CASE u # t
    <3>1. OperatorFits(u) /\ pc'[u] = pc[u] /\ Key(u)' = Key(u)
      BY <1>1, <2>2 DEF IInv, TypeOK, Key
    <3>2. CASE pc[u] = "publish"
      <4>1. op[u] # op[t]
        BY <1>1, <1>2, <2>2, <3>2 DEF OperatorFits
      <4>2. \A k \in Keys : operators'[k] # op[u]
        BY <1>1, <3>1, <3>2, <4>1 DEF OperatorFits, IInv, TypeOK
      <4> QED
        BY <1>1, <3>1, <3>2, <4>2 DEF OperatorFits, IInv, TypeOK
    <3>3. CASE pc[u] = "using"
      <4>1. op[u] = operators[Key(u)] /\ op[u] # Nil
        BY <3>1, <3>3 DEF OperatorFits, IInv, TypeOK
      <4>2. Key(u) # Key(t)
        BY <4>1
      <4>3. Key(u) \in Keys
        BY <3>3, KeyInKeys DEF IInv, Resolved
      <4> QED
        BY <1>1, <3>1, <3>3, <4>1, <4>2, <4>3 DEF OperatorFits, IInv, TypeOK
    <3> QED
      BY <3>1, <3>2, <3>3 DEF OperatorFits
  <2> QED
    BY <2>1, <2>2
<1>8. MapFits'
  <2> SUFFICES ASSUME NEW k \in Keys, operators'[k] # Nil
               PROVE  /\ operators'[k] \in live /\ built[operators'[k]] \in Origin
                      /\ ConfigIdentity(built[operators'[k]].target,
                                        built[operators'[k]].effective) = k
    BY <1>1 DEF MapFits
  <2>1. CASE k = Key(t)
    <3>1. operators'[k] = op[t] /\ op[t] \in live
      BY <1>1, <1>2, <1>3, <2>1 DEF IInv, TypeOK, OperatorFits
    <3>2. built[op[t]] = [target |-> local[t].target, effective |-> local[t].effective]
      BY <1>1, <1>2 DEF OperatorFits
    <3>3. local[t].target \in Targets /\ local[t].effective \in Effective
      BY <1>1, <1>2 DEF LocalFits, Resolved, IInv, TypeOK, Local
    <3>4. built[op[t]] \in Origin
      BY <3>2, <3>3 DEF Origin
    <3>5. ConfigIdentity(built[op[t]].target, built[op[t]].effective) = k
      BY <2>1, <3>2 DEF Key
    <3> QED
      BY <3>1, <3>4, <3>5
  <2>2. CASE k # Key(t)
    BY <1>1, <2>2 DEF IInv, TypeOK, MapFits
  <2> QED
    BY <2>1, <2>2
<1>9. LiveIsOwned'
  <2> SUFFICES ASSUME NEW x \in live
               PROVE  \/ \E k \in Keys : operators'[k] = x
                      \/ \E u \in Threads : pc'[u] = "publish" /\ op[u] = x
                      \/ x \in leaked
    BY <1>1 DEF LiveIsOwned
  <2>1. CASE x = op[t]
    BY <1>1, <1>3, <2>1 DEF IInv, TypeOK
  <2>2. CASE \E k \in Keys : operators[k] = x
    <3>1. PICK k \in Keys : operators[k] = x
      BY <2>2
    <3>2. k # Key(t)
      BY <3>1, CacheAssumption DEF IInv, TypeOK
    <3> QED
      BY <1>1, <3>1, <3>2 DEF IInv, TypeOK
  <2>3. CASE \E u \in Threads \ {t} : pc[u] = "publish" /\ op[u] = x
    BY <1>1, <2>3 DEF IInv, TypeOK
  <2> QED
    BY <2>1, <2>2, <2>3 DEF IInv, LiveIsOwned
<1>10. LeakedIsLost'
  BY <1>1, <1>3 DEF IInv, TypeOK, LeakedIsLost
<1> QED
  BY <1>4, <1>5, <1>6, <1>7, <1>8, <1>9, <1>10, OtherLocals DEF IInv

\* The loser: it frees its own operator and takes the published one.
LEMMA PublishSecond ==
  ASSUME IInv, NEW t \in Threads, Publish(t), operators[Key(t)] # Nil
  PROVE  IInv'
<1>1. /\ UNCHANGED <<global, secret, operators, local, alive, leaked, seen>>
      /\ pc[t] = "publish" /\ pc' = [pc EXCEPT ![t] = "using"]
      /\ live' = live \ {op[t]}
      /\ built' = [o \in Ops |-> IF o \in {op[t]} THEN Nil ELSE built[o]]
      /\ op' = [op EXCEPT ![t] = operators[Key(t)]]
  BY DEF Publish, Step, Lose, Free
<1>2. LocalFits(t) /\ SeenFits(t) /\ OperatorFits(t)
  BY DEF IInv
<1>3. Key(t) \in Keys
  BY <1>1, <1>2, KeyInKeys DEF IInv, Resolved
<1>4. TypeOK'
  <2>1. live' \in SUBSET Ops /\ built' \in [Ops -> Origin \cup {Nil}]
    BY <1>1 DEF IInv, TypeOK
  <2>2. op' \in [Threads -> Ops \cup {Nil}] /\ pc' \in [Threads -> PC]
    BY <1>1, <1>3 DEF IInv, TypeOK, PC
  <2>3. \A u \in Threads : op'[u] = Nil <=> pc'[u] \notin {"publish", "using"}
    BY <1>1 DEF IInv, TypeOK
  <2>4. \A u \in Threads : local'[u] = Nil <=> pc'[u] = "idle"
    BY <1>1 DEF IInv, TypeOK
  <2> QED
    BY <1>1, <2>1, <2>2, <2>3, <2>4 DEF IInv, TypeOK
<1>5. OnlyThread(t)
  BY <1>1 DEF OnlyThread, IInv, TypeOK
<1>6. LocalFits(t)' /\ SeenFits(t)'
  BY <1>1, <1>2 DEF IInv, TypeOK, LocalFits, SeenFits, Resolved, Resolving
<1>7. ASSUME NEW u \in Threads PROVE OperatorFits(u)'
  <2>1. CASE u = t
    BY <1>1, <2>1 DEF IInv, TypeOK, OperatorFits, Key
  <2>2. CASE u # t
    <3>1. OperatorFits(u) /\ pc'[u] = pc[u] /\ Key(u)' = Key(u) /\ op'[u] = op[u]
      BY <1>1, <2>2 DEF IInv, TypeOK, Key
    <3>2. CASE pc[u] = "publish"
      <4>1. op[u] # op[t] /\ op[u] \in live /\ op[u] \in Ops
        BY <1>1, <1>2, <2>2, <3>1, <3>2 DEF OperatorFits, IInv, TypeOK
      <4>2. op[u] \in live' /\ built'[op[u]] = built[op[u]]
        BY <1>1, <4>1
      <4>3. \A v \in Threads \ {u} : pc'[v] = "publish" => op'[v] # op[u]
        BY <1>1, <3>1, <3>2 DEF OperatorFits, IInv, TypeOK
      <4> QED
        BY <1>1, <3>1, <3>2, <4>2, <4>3 DEF OperatorFits
    <3>3. CASE pc[u] # "publish"
      BY <1>1, <3>1, <3>3 DEF OperatorFits
    <3> QED
      BY <3>2, <3>3
  <2> QED
    BY <2>1, <2>2
<1>8. MapFits'
  <2> SUFFICES ASSUME NEW k \in Keys, operators[k] # Nil
               PROVE  /\ operators[k] \in live' /\ built'[operators[k]] = built[operators[k]]
    BY <1>1 DEF IInv, MapFits
  <2>1. operators[k] # op[t]
    BY <1>1, <1>2 DEF OperatorFits
  <2> QED
    BY <1>1, <2>1 DEF IInv, TypeOK, MapFits
<1>9. LiveIsOwned' /\ LeakedIsLost'
  BY <1>1 DEF IInv, TypeOK, LiveIsOwned, LeakedIsLost
<1> QED
  BY <1>4, <1>5, <1>6, <1>7, <1>8, <1>9, OtherLocals DEF IInv

\* An exception of the logger loses the operator that was about to be published.
LEMMA WarningThrowsStep ==
  ASSUME IInv, NEW t \in Threads, WarningThrows(t)
  PROVE  IInv'
<1>1. /\ UNCHANGED <<global, secret, operators, live, built, alive>>
      /\ pc[t] = "publish" /\ pc' = [pc EXCEPT ![t] = "idle"] /\ op' = [op EXCEPT ![t] = Nil]
      /\ local' = [local EXCEPT ![t] = Nil] /\ seen' = [seen EXCEPT ![t] = NothingSeen]
      /\ leaked' = leaked \cup {op[t]}
  BY DEF WarningThrows, Step, Forget
<1>2. op[t] \in Ops /\ OperatorFits(t)
  BY <1>1 DEF IInv, TypeOK
<1>3. TypeOK'
  BY <1>1, <1>2 DEF IInv, TypeOK, PC, NothingSeen
<1>4. OnlyThread(t)
  BY <1>1 DEF OnlyThread, IInv, TypeOK
<1>5. LocalFits(t)' /\ SeenFits(t)'
  BY <1>1 DEF IInv, TypeOK, LocalFits, SeenFits, Resolved, Resolving
<1>6. ASSUME NEW u \in Threads PROVE OperatorFits(u)'
  <2>1. OperatorFits(u)
    BY DEF IInv
  <2>2. CASE u = t
    BY <1>1, <2>2 DEF IInv, TypeOK, OperatorFits
  <2>3. CASE u # t
    <3>1. \A v \in Threads : pc'[v] = "publish" => pc[v] = "publish" /\ op'[v] = op[v]
      BY <1>1 DEF IInv, TypeOK
    <3>2. pc'[u] = pc[u] /\ op'[u] = op[u] /\ local'[u] = local[u]
      BY <1>1, <2>3 DEF IInv, TypeOK
    <3> QED
      BY <1>1, <2>1, <3>1, <3>2 DEF OperatorFits, Key
  <2> QED
    BY <2>2, <2>3
<1>7. MapFits'
  BY <1>1 DEF IInv, MapFits
<1>8. LiveIsOwned'
  BY <1>1 DEF IInv, TypeOK, LiveIsOwned
<1>9. LeakedIsLost'
  BY <1>1, <1>2 DEF IInv, TypeOK, LeakedIsLost, OperatorFits
<1> QED
  BY <1>3, <1>4, <1>5, <1>6, <1>7, <1>8, <1>9, OtherLocals DEF IInv

LEMMA DoneStep ==
  ASSUME IInv, NEW t \in Threads, Done(t)
  PROVE  IInv'
<1>1. /\ UNCHANGED <<global, secret, operators, live, built, alive, leaked>>
      /\ pc[t] = "using" /\ pc' = [pc EXCEPT ![t] = "idle"] /\ op' = [op EXCEPT ![t] = Nil]
      /\ local' = [local EXCEPT ![t] = Nil] /\ seen' = [seen EXCEPT ![t] = NothingSeen]
  BY DEF Done, Step, Forget
<1>2. TypeOK'
  BY <1>1 DEF IInv, TypeOK, PC, NothingSeen
<1>3. OnlyThread(t)
  BY <1>1 DEF OnlyThread, IInv, TypeOK
<1>4. LocalFits(t)' /\ SeenFits(t)'
  BY <1>1 DEF IInv, TypeOK, LocalFits, SeenFits, Resolved, Resolving
<1>5. ASSUME NEW u \in Threads PROVE OperatorFits(u)'
  BY <1>1 DEF IInv, TypeOK, OperatorFits, Key
<1>6. MapFits' /\ LiveIsOwned' /\ LeakedIsLost'
  BY <1>1 DEF IInv, TypeOK, MapFits, LiveIsOwned, LeakedIsLost
<1> QED
  BY <1>2, <1>3, <1>4, <1>5, <1>6, OtherLocals DEF IInv

\* The destructor frees every published operator; by then only what leaked is live besides.
LEMMA DestructStep == IInv /\ Destruct => IInv'
<1> SUFFICES ASSUME IInv, Destruct PROVE IInv'
  OBVIOUS
<1>1. /\ UNCHANGED <<global, secret, pc, local, op, leaked, seen>>
      /\ \A t \in Threads : pc[t] = "idle"
      /\ operators' = [k \in Keys |-> Nil] /\ live' = live \ {operators[k] : k \in Keys}
      /\ alive' = FALSE
      /\ built' = [o \in Ops |-> IF o \in {operators[k] : k \in Keys} THEN Nil ELSE built[o]]
  BY DEF Destruct, Free
<1>2. TypeOK'
  BY <1>1 DEF IInv, TypeOK
<1>3. \A t \in Threads : LocalFits(t)' /\ SeenFits(t)' /\ OperatorFits(t)'
  BY <1>1 DEF LocalFits, SeenFits, OperatorFits, Resolved, Resolving
<1>4. MapFits'
  BY <1>1 DEF MapFits
<1>5. LiveIsOwned'
  BY <1>1 DEF IInv, LiveIsOwned
<1>6. LeakedIsLost'
  BY <1>1, CacheAssumption DEF IInv, TypeOK, LeakedIsLost
<1> QED
  BY <1>2, <1>3, <1>4, <1>5, <1>6 DEF IInv

LEMMA StepPreserves == IInv /\ [Next]_vars => IInv'
<1> SUFFICES ASSUME IInv, [Next]_vars PROVE IInv'
  OBVIOUS
<1>1. CASE UNCHANGED vars
  BY <1>1 DEF vars, IInv, TypeOK, LocalFits, SeenFits, OperatorFits, MapFits, LiveIsOwned,
              LeakedIsLost, Resolved, Resolving, Key
<1>2. CASE \E g \in Globals : SetGlobalConfig(g)
  BY <1>2, SetGlobalConfigStep
<1>3. CASE \E target \in Targets, s \in Secrets : ChangeSecret(target, s)
  BY <1>3, ChangeSecretStep
<1>4. CASE \E t \in Threads, target \in Targets : Call(t, target)
  BY <1>4, CallStep
<1>5. ASSUME NEW t \in Threads, BuildOperator(t)
      PROVE  IInv'
  BY <1>5, GlobalConfigSnapshotStep, ApplySecretStep, LookupHitStep, LookupMissStep, BuildStep,
     BuildFailsStep, WarningThrowsStep, PublishFirst, PublishSecond DEF BuildOperator
<1>6. ASSUME NEW t \in Threads, Done(t)
      PROVE  IInv'
  BY <1>6, DoneStep
<1>7. CASE Destruct
  BY <1>7, DestructStep
<1> QED
  BY <1>1, <1>2, <1>3, <1>4, <1>5, <1>6, <1>7 DEF Next

LEMMA Invariance == Spec => []IInv
  BY InitEstablishes, StepPreserves, PTL DEF Spec

\* The operator a thread uses is the published one, live, and built for the thread's key.
LEMMA OperatorInUse ==
  ASSUME IInv, NEW t \in Threads, pc[t] = "using"
  PROVE  /\ op[t] = operators[Key(t)] /\ op[t] \in live /\ built[op[t]] \in Origin
         /\ ConfigIdentity(built[op[t]].target, built[op[t]].effective) = Key(t)
<1>1. op[t] = operators[Key(t)] /\ op[t] # Nil
  BY DEF IInv, OperatorFits, TypeOK
<1>2. Key(t) \in Keys
  BY KeyInKeys DEF IInv, Resolved
<1> QED
  BY <1>1, <1>2 DEF IInv, MapFits

--------------------------------------------------------------------------------
(***************************************************************************)
(* The theorems.                                                           *)
(***************************************************************************)

\* Type correctness; with it, a thread past the publication always holds an operator.
THEOREM TypeCorrect == Spec => []TypeOK
<1>1. IInv => TypeOK
  BY DEF IInv
<1> QED
  BY <1>1, Invariance, PTL

\* BuildOperator never returns an operator that is or will be freed while its caller uses it,
\* however many threads race to build the same key.
THEOREM NoUseAfterFree == Spec => []UsedIsLive
<1>1. IInv => UsedIsLive
  BY OperatorInUse DEF UsedIsLive
<1> QED
  BY <1>1, Invariance, PTL

\* Callers that resolved the same key share one operator.
THEOREM KeyDeterminesOperator == Spec => []SameKeySameOperator
<1>1. IInv => SameKeySameOperator
  BY OperatorInUse DEF SameKeySameOperator
<1> QED
  BY <1>1, Invariance, PTL

\* No operator leaks out of the race to publish it, and none is freed twice: the only operators
\* nobody owns are those whose warning could not be logged.
THEOREM EveryOperatorHasOneOwner == Spec => []Ownership
<1>1. ASSUME IInv, NEW o \in Ops PROVE o \in live <=> Owners(o) # {} \/ o \in leaked
  <2>1. ASSUME o \in live PROVE Owners(o) # {} \/ o \in leaked
    BY <1>1, <2>1 DEF IInv, LiveIsOwned, Owners
  <2>2. ASSUME NEW x \in Owners(o) PROVE o \in live
    <3>1. CASE x \in Keys /\ operators[x] = o
      BY <1>1, <3>1, CacheAssumption DEF IInv, MapFits
    <3>2. CASE x \in Threads /\ pc[x] = "publish" /\ op[x] = o
      BY <1>1, <3>2 DEF IInv, OperatorFits
    <3> QED
      BY <2>2, <3>1, <3>2 DEF Owners
  <2>3. o \in leaked => o \in live
    BY <1>1 DEF IInv, LeakedIsLost
  <2> QED
    BY <2>1, <2>2, <2>3
<1>2. ASSUME IInv, NEW o \in Ops, NEW x \in Owners(o), NEW y \in Owners(o) PROVE x = y
  <2>1. ASSUME NEW k \in Keys, operators[k] = o
        PROVE  /\ ConfigIdentity(built[o].target, built[o].effective) = k
               /\ ~\E t \in Threads : pc[t] = "publish" /\ op[t] = o
    <3>1. operators[k] # Nil
      BY <2>1, CacheAssumption
    <3>2. ~\E t \in Threads : pc[t] = "publish" /\ op[t] = o
      BY <1>2, <2>1 DEF IInv, OperatorFits
    <3> QED
      BY <1>2, <2>1, <3>1, <3>2 DEF IInv, MapFits
  <2>2. ASSUME NEW t \in Threads, NEW u \in Threads, t # u, pc[t] = "publish", pc[u] = "publish"
        PROVE  op[t] # op[u]
    BY <1>2, <2>2 DEF IInv, OperatorFits
  <2>3. ASSUME NEW z \in Owners(o)
        PROVE  \/ z \in Keys /\ operators[z] = o
               \/ z \in Threads /\ pc[z] = "publish" /\ op[z] = o
    BY <2>3 DEF Owners
  <2> QED
    BY <2>1, <2>2, <2>3
<1>3. ASSUME IInv, NEW o \in leaked PROVE Owners(o) = {}
  BY <1>3 DEF IInv, LeakedIsLost, Owners
<1>4. IInv => Ownership
  BY <1>1, <1>2, <1>3 DEF Ownership
<1> QED
  BY <1>4, Invariance, PTL

\* Distinct configurations have distinct identities.
NoCollision ==
  \A x, y \in Targets, e, f \in Effective :
    ConfigIdentity(x, e) = ConfigIdentity(y, f) => x = y /\ e = f

\* The operator a call returns was built for its target from settings and a secret in force at
\* some time since the call began, whenever ConfigIdentity tells configurations apart: the
\* collision of ConfigIdentity is the only way to be served an operator of another configuration.
THEOREM FreshUnlessCollision == NoCollision /\ Spec => []CurrentConfig
<1>1. ASSUME IInv, NoCollision, NEW t \in Threads, pc[t] = "using"
      PROVE  /\ built[op[t]].target = local[t].target
             /\ \E g \in seen[t].globals, s \in seen[t].secrets :
                  built[op[t]].effective = Merge(g, s)
  <2>1. local[t].target \in Targets /\ local[t].effective \in Effective
    BY <1>1 DEF IInv, TypeOK, Local, LocalFits, Resolved
  <2>2. built[op[t]].target \in Targets /\ built[op[t]].effective \in Effective
    BY <1>1, OperatorInUse DEF Origin
  <2>3. built[op[t]].target = local[t].target /\ built[op[t]].effective = local[t].effective
    BY <1>1, <2>1, <2>2, OperatorInUse DEF NoCollision, Key
  <2> QED
    BY <1>1, <2>3 DEF IInv, SeenFits, Resolved
<1>2. IInv /\ NoCollision => CurrentConfig
  BY <1>1 DEF CurrentConfig
<1> SUFFICES ASSUME NoCollision PROVE Spec => []CurrentConfig
  OBVIOUS
<1> QED
  BY <1>2, Invariance, PTL

--------------------------------------------------------------------------------
(***************************************************************************)
(* OperatorCache implements SharedOperators.                               *)
(*                                                                         *)
(* A step of a thread changes what that thread has borrowed or nothing at  *)
(* all: LookupHit and a lost race borrow what is in the table, a won race  *)
(* what the thread adds to it, and IInv knows that to be new.              *)
(***************************************************************************)
\* A call runs only before the destructor.
OpenWhileBusy == \A t \in Threads : pc[t] # "idle" => alive

LEMMA BusyPreserves == IInv /\ OpenWhileBusy /\ [Next]_vars => OpenWhileBusy'
<1> SUFFICES ASSUME IInv, OpenWhileBusy, [Next]_vars PROVE OpenWhileBusy'
  OBVIOUS
<1>1. CASE UNCHANGED vars
  BY <1>1 DEF vars, OpenWhileBusy
<1>2. CASE \/ \E g \in Globals : SetGlobalConfig(g)
           \/ \E target \in Targets, s \in Secrets : ChangeSecret(target, s)
  BY <1>2 DEF SetGlobalConfig, ChangeSecret, OpenWhileBusy
<1>3. CASE \E t \in Threads, target \in Targets : Call(t, target)
  BY <1>3 DEF Call, OpenWhileBusy
<1>4. ASSUME NEW t \in Threads, BuildOperator(t) \/ Done(t)
      PROVE  OpenWhileBusy'
  <2>1. alive' = alive /\ pc[t] # "idle"
    BY <1>4 DEF BuildOperator, GlobalConfigSnapshot, ApplySecret, LookupHit, LookupMiss, Build,
                BuildFails, WarningThrows, Publish, Done, Step
  <2> QED
    BY <2>1 DEF OpenWhileBusy
<1>5. CASE Destruct
  BY <1>5 DEF Destruct, OpenWhileBusy
<1> QED
  BY <1>1, <1>2, <1>3, <1>4, <1>5 DEF Next

SharedStep == Shared!Next \/ UNCHANGED <<operators, Lent, alive>>

LoanOf(t) == [name |-> Key(t), object |-> op[t]]

\* A step of thread t leaves the other threads' loans alone.
LEMMA OtherLoans ==
  ASSUME IInv, NEW t \in Threads, OnlyThread(t)
  PROVE  Lent' = [Lent EXCEPT ![t] = IF pc'[t] = "using" THEN LoanOf(t)' ELSE Nil]
<1>1. ASSUME NEW u \in Threads \ {t} PROVE pc'[u] = pc[u] /\ LoanOf(u)' = LoanOf(u)
  BY <1>1 DEF OnlyThread, LoanOf, Key
<1>2. /\ Lent = [u \in Threads |-> IF pc[u] = "using" THEN LoanOf(u) ELSE Nil]
      /\ Lent' = [u \in Threads |-> IF pc'[u] = "using" THEN LoanOf(u)' ELSE Nil]
  BY DEF Lent, LoanOf
<1> QED
  BY <1>1, <1>2

\* A step within BuildOperator that publishes nothing and returns nothing is invisible.
LEMMA InvisibleStep ==
  ASSUME IInv, NEW t \in Threads, OnlyThread(t), UNCHANGED <<operators, alive>>,
         pc[t] # "using", pc'[t] # "using"
  PROVE  SharedStep
<1>1. Lent[t] = Nil /\ Lent \in [Threads -> {Lent[u] : u \in Threads}]
  BY DEF Lent
<1>2. Lent' = [Lent EXCEPT ![t] = Nil]
  BY OtherLoans
<1>3. Lent' = Lent
  BY <1>1, <1>2
<1> QED
  BY <1>3 DEF SharedStep

\* A thread that returns the published operator borrows it.
LEMMA BorrowsPresent ==
  ASSUME IInv, NEW t \in Threads, OnlyThread(t), UNCHANGED <<operators, alive, local>>, alive,
         Key(t) \in Keys, operators[Key(t)] # Nil,
         pc[t] # "using", pc'[t] = "using", op'[t] = operators[Key(t)]
  PROVE  SharedStep
<1>1. Lent[t] = Nil
  BY DEF Lent
<1>2. LoanOf(t)' = [name |-> Key(t), object |-> operators[Key(t)]]
  BY DEF LoanOf, Key
<1>3. Lent' = [Lent EXCEPT ![t] = [name |-> Key(t), object |-> operators[Key(t)]]]
  BY <1>2, OtherLoans
<1>4. Shared!BorrowPresent(t, Key(t))
  BY <1>1, <1>3 DEF Shared!BorrowPresent, Shared!Lend
<1> QED
  BY <1>4 DEF SharedStep, Shared!Next

\* The steps that are invisible.
LEMMA QuietRefines ==
  ASSUME IInv, NEW t \in Threads,
         \/ \E target \in Targets : Call(t, target)
         \/ GlobalConfigSnapshot(t) \/ ApplySecret(t) \/ LookupMiss(t) \/ Build(t)
         \/ BuildFails(t) \/ WarningThrows(t)
  PROVE  SharedStep
<1>1. UNCHANGED <<operators, alive, global, secret>>
  BY DEF Call, GlobalConfigSnapshot, ApplySecret, LookupMiss, Build, BuildFails,
         WarningThrows
<1>2. pc[t] # "using" /\ pc'[t] # "using" /\ \A u \in Threads \ {t} : pc'[u] = pc[u]
  BY DEF Call, GlobalConfigSnapshot, ApplySecret, LookupMiss, Build, BuildFails,
         WarningThrows, Step, IInv, TypeOK
<1>3. \A u \in Threads \ {t} : local'[u] = local[u] /\ seen'[u] = seen[u]
  BY DEF Call, GlobalConfigSnapshot, ApplySecret, LookupMiss, Build, BuildFails,
         WarningThrows, Forget, IInv, TypeOK
<1>4. \A u \in Threads \ {t} : op'[u] = op[u]
  BY DEF Call, GlobalConfigSnapshot, ApplySecret, LookupMiss, Build, BuildFails,
         WarningThrows, IInv, TypeOK
<1> QED
  BY <1>1, <1>2, <1>3, <1>4, InvisibleStep DEF OnlyThread

LEMMA LookupHitRefines ==
  ASSUME IInv, OpenWhileBusy, NEW t \in Threads, LookupHit(t)
  PROVE  SharedStep
<1>1. /\ UNCHANGED <<operators, alive, local, global, secret, seen>>
      /\ pc[t] = "lookup" /\ pc' = [pc EXCEPT ![t] = "using"]
      /\ operators[Key(t)] # Nil /\ op' = [op EXCEPT ![t] = operators[Key(t)]]
  BY DEF LookupHit, Step
<1>2. Key(t) \in Keys
  BY <1>1, KeyInKeys DEF IInv, Resolved
<1>3. OnlyThread(t) /\ op'[t] = operators[Key(t)] /\ pc'[t] = "using"
  BY <1>1 DEF OnlyThread, IInv, TypeOK
<1> QED
  BY <1>1, <1>2, <1>3, BorrowsPresent DEF OpenWhileBusy

\* The winner puts a fresh object into the table, the loser borrows the winner's.
LEMMA PublishRefines ==
  ASSUME IInv, OpenWhileBusy, NEW t \in Threads, Publish(t)
  PROVE  SharedStep
<1>1. /\ UNCHANGED <<alive, local, global, secret, seen>>
      /\ pc[t] = "publish" /\ pc' = [pc EXCEPT ![t] = "using"]
  BY DEF Publish, Step
<1>2. Key(t) \in Keys /\ alive
  BY <1>1, KeyInKeys DEF IInv, Resolved, OpenWhileBusy
<1>3. CASE operators[Key(t)] = Nil
  <2>1. operators' = [operators EXCEPT ![Key(t)] = op[t]] /\ op' = op
    BY <1>3 DEF Publish
  <2>2. OnlyThread(t) /\ pc'[t] = "using"
    BY <1>1, <2>1 DEF OnlyThread, IInv, TypeOK
  <2>3. Lent[t] = Nil /\ LoanOf(t)' = [name |-> Key(t), object |-> op[t]]
    BY <1>1, <2>1 DEF Lent, LoanOf, Key
  <2>4. Lent' = [Lent EXCEPT ![t] = [name |-> Key(t), object |-> op[t]]]
    BY <2>2, <2>3, OtherLoans
  <2>5. op[t] \in Ops /\ ~Shared!InTable(op[t])
    BY <1>1 DEF IInv, TypeOK, OperatorFits, Shared!InTable
  <2>6. Shared!BorrowFresh(t, Key(t), op[t])
    BY <1>1, <1>2, <1>3, <2>1, <2>3, <2>4, <2>5 DEF Shared!BorrowFresh, Shared!Lend
  <2> QED
    BY <1>2, <2>5, <2>6 DEF SharedStep, Shared!Next
<1>4. CASE operators[Key(t)] # Nil
  <2>1. operators' = operators /\ op' = [op EXCEPT ![t] = operators[Key(t)]]
    BY <1>4 DEF Publish, Lose
  <2>2. OnlyThread(t) /\ op'[t] = operators[Key(t)] /\ pc'[t] = "using"
    BY <1>1, <2>1 DEF OnlyThread, IInv, TypeOK
  <2> QED
    BY <1>1, <1>2, <1>4, <2>1, <2>2, BorrowsPresent
<1> QED
  BY <1>3, <1>4

LEMMA DoneRefines ==
  ASSUME IInv, NEW t \in Threads, Done(t)
  PROVE  SharedStep
<1>1. /\ UNCHANGED <<operators, alive, global, secret>>
      /\ pc[t] = "using" /\ pc' = [pc EXCEPT ![t] = "idle"] /\ op' = [op EXCEPT ![t] = Nil]
      /\ local' = [local EXCEPT ![t] = Nil] /\ seen' = [seen EXCEPT ![t] = NothingSeen]
  BY DEF Done, Step, Forget
<1>2. OnlyThread(t) /\ pc'[t] = "idle"
  BY <1>1 DEF OnlyThread, IInv, TypeOK
<1>3. Key(t) \in Keys /\ op[t] \in Ops
  BY <1>1, KeyInKeys DEF IInv, Resolved, TypeOK
<1>4. Lent[t] # Nil
  BY <1>1, <1>3, CacheAssumption DEF Lent, Loan
<1>5. Lent' = [Lent EXCEPT ![t] = Nil]
  BY <1>2, OtherLoans
<1>6. Shared!Return(t)
  BY <1>1, <1>4, <1>5 DEF Shared!Return
<1> QED
  BY <1>6 DEF SharedStep, Shared!Next

LEMMA SharedStepRefines == IInv /\ OpenWhileBusy /\ [Next]_vars => SharedStep
<1> SUFFICES ASSUME IInv, OpenWhileBusy, [Next]_vars PROVE SharedStep
  OBVIOUS
<1>1. CASE \/ UNCHANGED vars
           \/ \E g \in Globals : SetGlobalConfig(g)
           \/ \E target \in Targets, s \in Secrets : ChangeSecret(target, s)
  BY <1>1 DEF vars, SetGlobalConfig, ChangeSecret, SharedStep, Lent, Key
<1>2. CASE \E t \in Threads, target \in Targets : Call(t, target)
  BY <1>2, QuietRefines
<1>3. ASSUME NEW t \in Threads, BuildOperator(t) PROVE SharedStep
  BY <1>3, QuietRefines, LookupHitRefines, PublishRefines DEF BuildOperator
<1>4. ASSUME NEW t \in Threads, Done(t) PROVE SharedStep
  BY <1>4, DoneRefines
<1>5. CASE Destruct
  <2>1. \A t \in Threads : Lent[t] = Nil
    BY <1>5 DEF Destruct, Lent
  <2>2. Lent' = Lent
    BY <1>5 DEF Destruct, Lent
  <2>3. Shared!Close
    BY <1>5, <2>1, <2>2 DEF Destruct, Shared!Close
  <2> QED
    BY <2>3 DEF SharedStep, Shared!Next
<1> QED
  BY <1>1, <1>2, <1>3, <1>4, <1>5 DEF Next

\* However the calls of any number of threads interleave, with each other and with SET GLOBAL and
\* CREATE SECRET, callers see a table in which an operator is found or created in one step, is
\* never replaced while the file system lives, and outlives everyone who uses it.
THEOREM CacheIsSharedTable == Spec => ImplementsSharedOperators
<1>1. Init => Shared!Init /\ OpenWhileBusy
  BY DEF Init, Shared!Init, Lent, OpenWhileBusy
<1>2. IInv /\ OpenWhileBusy /\ [Next]_vars => [Shared!Next]_(Shared!sharedVars)
  BY SharedStepRefines DEF SharedStep, Shared!sharedVars
<1> QED
  BY <1>1, <1>2, BusyPreserves, Invariance, PTL DEF Spec, ImplementsSharedOperators, Shared!Spec
================================================================================
