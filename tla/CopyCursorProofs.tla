---------------------------- MODULE CopyCursorProofs ----------------------------
(***************************************************************************)
(* Theorems about CopyCursor, for any objects, destinations, contents,     *)
(* chunks and number of changes.                                           *)
(*                                                                         *)
(* The sources of the plan, of the pair being copied and of the commits    *)
(* are all different, so each is copied at most once; the rows returned    *)
(* and the rows of the chunk are the commits, but for the last one of a    *)
(* copy that fails; and as long as nobody has touched the source, the      *)
(* blocks written so far are the first ones of what was planned.  The last *)
(* theorem is that a call comes nearer to its end with every step.         *)
(***************************************************************************)
EXTENDS CopyCursor, SequenceTheorems, FiniteSetTheorems, TLAPS

OutRow == [source: Sources, bytes: Nat]
Commits == [source: Sources, image: Seq(Contents)]
Images == Seq(Contents) \cup {Nil}

Working == pc \in {"stream", "close", "abort", "copier"}
SourcesOf(s) == {s[i].source : i \in DOMAIN s}
Distinct(s) == \A i, j \in DOMAIN s : s[i].source = s[j].source => i = j

\* What TypeOK says, and what the phases of the scan say besides.
Shape ==
  /\ Working => current \in Pair /\ Len(rows) < VectorSize
  /\ pc = "unopened" => plan = <<>> /\ rows = <<>> /\ delivered = <<>> /\ commits = <<>>
  /\ NoWriterLeftOpen

\* A pair that may still be copied.
Planned(pair) ==
  planned[pair.source] # Nil /\ pair.size = Len(planned[pair.source])

PlanFits ==
  pc # "failed" =>
    /\ Distinct(plan)
    /\ \A i \in DOMAIN plan : Planned(plan[i]) /\ plan[i].source \notin SourcesOf(commits)
    /\ Working =>
         /\ Planned(current) /\ current.source \notin SourcesOf(plan)
         /\ pc # "abort" => current.source \notin SourcesOf(commits)

Matched ==
  /\ Len(delivered) + Len(rows) <= Len(commits)
  /\ pc \notin {"abort", "failed"} => Len(delivered) + Len(rows) = Len(commits)
  /\ \A i \in 1..Len(delivered) : delivered[i].source = commits[i].source
  /\ \A i \in 1..Len(rows) : rows[i].source = commits[Len(delivered) + i].source

Untouched == \A o \in Objects \ touched : store[o] = planned[o]

Streamed ==
  pc \in {"stream", "close"} =>
    /\ offset <= current.size /\ (pc = "close" => offset = current.size)
    /\ current.source \notin touched => buffer = SubSeq(planned[current.source], 1, offset)

IInv ==
  /\ TypeOK /\ Shape /\ CopiesPlanOnce /\ PlanFits
  /\ Matched /\ Untouched /\ Streamed

--------------------------------------------------------------------------------
(***************************************************************************)
(* Sequences.                                                              *)
(***************************************************************************)
\* One more element, of a source that none of the others has.
LEMMA AppendFacts ==
  ASSUME NEW S, NEW s \in Seq(S), NEW e \in S
  PROVE  LET more == Append(s, e) IN
         /\ more \in Seq(S) /\ Len(more) = Len(s) + 1 /\ more[Len(s) + 1] = e
         /\ \A i \in 1..Len(s) : more[i] = s[i]
         /\ SourcesOf(more) = SourcesOf(s) \cup {e.source}
         /\ Distinct(s) /\ e.source \notin SourcesOf(s) => Distinct(more)
<1> DEFINE more == Append(s, e)
<1>1. /\ more \in Seq(S) /\ Len(more) = Len(s) + 1 /\ more[Len(s) + 1] = e
      /\ \A i \in 1..Len(s) : more[i] = s[i]
  BY AppendProperties
<1>2. DOMAIN s = 1..Len(s) /\ DOMAIN more = 1..Len(s) + 1 /\ Len(s) \in Nat
  BY <1>1
<1> HIDE DEF more
<1>3. \A i \in DOMAIN more :
        (i = Len(s) + 1 /\ more[i] = e) \/ (i \in DOMAIN s /\ more[i] = s[i])
  BY <1>1, <1>2
<1>4. SourcesOf(more) \subseteq SourcesOf(s) \cup {e.source}
  BY <1>3 DEF SourcesOf
<1>5. SourcesOf(s) \subseteq SourcesOf(more)
  BY <1>1, <1>2 DEF SourcesOf
<1>6. e.source \in SourcesOf(more)
  BY <1>1, <1>2 DEF SourcesOf
<1>7. Distinct(s) /\ e.source \notin SourcesOf(s) => Distinct(more)
  BY <1>3 DEF Distinct, SourcesOf
<1>8. QED
  BY <1>1, <1>4, <1>5, <1>6, <1>7 DEF more

\* What is left of a sequence without its first element.
LEMMA TailFacts ==
  ASSUME NEW S, NEW s \in Seq(S), s # <<>>, Distinct(s)
  PROVE  /\ Head(s) \in S /\ Tail(s) \in Seq(S) /\ Head(s) = s[1] /\ 1 \in DOMAIN s
         /\ \A i \in DOMAIN Tail(s) : i + 1 \in DOMAIN s /\ Tail(s)[i] = s[i + 1]
         /\ Distinct(Tail(s)) /\ Head(s).source \notin SourcesOf(Tail(s))
<1> DEFINE t == Tail(s)
<1>1. /\ Head(s) \in S /\ t \in Seq(S) /\ Len(t) = Len(s) - 1
      /\ \A i \in 1..Len(t) : t[i] = s[i + 1]
  BY HeadTailProperties
<1>2. Len(s) \in Nat /\ Len(s) > 0 /\ DOMAIN s = 1..Len(s) /\ DOMAIN t = 1..Len(t)
  BY <1>1, LenProperties
<1>3. Head(s) = s[1] /\ 1 \in DOMAIN s
  BY <1>2
<1> HIDE DEF t
<1>4. \A i \in DOMAIN t : i + 1 \in DOMAIN s /\ t[i] = s[i + 1] /\ i + 1 # 1
  BY <1>1, <1>2
<1>5. Distinct(t)
  <2> SUFFICES ASSUME NEW i \in DOMAIN t, NEW j \in DOMAIN t, t[i].source = t[j].source
               PROVE  i = j
    BY DEF Distinct
  <2>1. i + 1 = j + 1
    BY <1>4 DEF Distinct
  <2>2. QED
    BY <1>1, <1>2, <2>1
<1>6. Head(s).source \notin SourcesOf(t)
  BY <1>3, <1>4 DEF Distinct, SourcesOf
<1>7. QED
  BY <1>1, <1>3, <1>4, <1>5, <1>6 DEF t

\* Two sequences one after the other.
LEMMA ConcatFacts ==
  ASSUME NEW S, NEW s \in Seq(S), NEW t \in Seq(S)
  PROVE  /\ s \o t \in Seq(S) /\ Len(s \o t) = Len(s) + Len(t)
         /\ \A i \in 1..Len(s) : (s \o t)[i] = s[i]
         /\ \A i \in 1..Len(t) : (s \o t)[Len(s) + i] = t[i]
<1>1. /\ s \o t \in Seq(S) /\ Len(s \o t) = Len(s) + Len(t)
      /\ \A i \in 1..Len(s) + Len(t) : (s \o t)[i] = IF i <= Len(s) THEN s[i] ELSE t[i - Len(s)]
  BY ConcatProperties
<1>2. Len(s) \in Nat /\ Len(t) \in Nat
  OBVIOUS
<1>3. \A i \in 1..Len(s) : (s \o t)[i] = s[i]
  BY <1>1, <1>2
<1>4. \A i \in 1..Len(t) : (s \o t)[Len(s) + i] = t[i]
  <2> SUFFICES ASSUME NEW i \in 1..Len(t) PROVE (s \o t)[Len(s) + i] = t[i]
    OBVIOUS
  <2>1. /\ Len(s) + i \in 1..Len(s) + Len(t) /\ ~(Len(s) + i <= Len(s))
        /\ (Len(s) + i) - Len(s) = i
    BY <1>2
  <2>2. QED
    BY <1>1, <2>1
<1>5. QED
  BY <1>1, <1>3, <1>4

\* A prefix, element by element.
LEMMA PrefixOfSources ==
  ASSUME NEW R, NEW C, NEW r \in Seq(R), NEW c \in Seq(C), Len(r) <= Len(c),
         \A i \in 1..Len(r) : r[i].source = c[i].source
  PROVE  IsPrefix(Sourced(r), Sourced(c))
<1> DEFINE a == Sourced(r)
           b == Sourced(c)
           All == {a[i] : i \in 1..Len(r)} \cup {b[i] : i \in 1..Len(c)}
<1>1. Len(r) \in Nat /\ Len(c) \in Nat /\ DOMAIN r = 1..Len(r) /\ DOMAIN c = 1..Len(c)
  OBVIOUS
<1>2. a = [i \in 1..Len(r) |-> r[i].source] /\ b = [i \in 1..Len(c) |-> c[i].source]
  BY <1>1 DEF Sourced
<1> HIDE DEF a, b
<1>3. a \in [1..Len(r) -> All] /\ b \in [1..Len(c) -> All]
  BY <1>2
<1> HIDE DEF All
<1>4. a \in Seq(All) /\ b \in Seq(All) /\ Len(a) = Len(r) /\ Len(b) = Len(c)
  <2>1. \A n \in Nat : \A f \in [1..n -> All] : f \in Seq(All) /\ Len(f) = n
    OBVIOUS
  <2>2. a \in Seq(All) /\ Len(a) = Len(r)
    BY <1>1, <1>3, <2>1
  <2>3. b \in Seq(All) /\ Len(b) = Len(c)
    BY <1>1, <1>3, <2>1
  <2>4. QED
    BY <2>2, <2>3
<1>5. \A i \in 1..Len(a) : a[i] = b[i]
  BY <1>1, <1>2, <1>4
<1>6. ASSUME NEW q \in Seq(All), Len(a) <= Len(q)
      PROVE  /\ SubSeq(q, 1, Len(a)) \in Seq(All) /\ Len(SubSeq(q, 1, Len(a))) = Len(a)
             /\ \A i \in 1..Len(a) : SubSeq(q, 1, Len(a))[i] = q[i]
  <2>1. Len(a) \in Nat /\ Len(q) \in Nat /\ 1 \in Int /\ \A i \in 1..Len(a) : q[i] \in All
    BY <1>1, <1>4, <1>6
  <2>2. /\ SubSeq(q, 1, Len(a)) \in Seq(All)
        /\ Len(SubSeq(q, 1, Len(a))) = IF 1 <= Len(a) THEN Len(a) - 1 + 1 ELSE 0
        /\ \A i \in 1..Len(a) - 1 + 1 : SubSeq(q, 1, Len(a))[i] = q[1 + i - 1]
    BY <2>1, SubSeqProperties
  <2>3. QED
    BY <2>1, <2>2
<1>7. SubSeq(a, 1, Len(a)) = SubSeq(b, 1, Len(a))
  <2>1. Len(a) <= Len(a) /\ Len(a) <= Len(b)
    BY <1>1, <1>4
  <2>2. \A i \in 1..Len(a) : SubSeq(a, 1, Len(a))[i] = SubSeq(b, 1, Len(a))[i]
    BY <1>4, <1>5, <1>6, <2>1
  <2>3. QED
    BY <1>4, <1>6, <2>1, <2>2, SeqEqual
<1>8. QED
  BY <1>4, <1>7 DEF IsPrefix, a, b

--------------------------------------------------------------------------------
(***************************************************************************)
(* Steps.                                                                  *)
(***************************************************************************)
LEMMA InitHolds == Init => IInv
<1> SUFFICES ASSUME Init PROVE IInv
  OBVIOUS
<1>1. \A c \in Contents : Whole(c) \in Seq(Contents)
  BY CopyAssumption DEF Whole
<1>2. store \in [Objects -> Images]
  BY <1>1 DEF Init, Images
<1>3. /\ pc = "unopened" /\ plan = <<>> /\ rows = <<>> /\ delivered = <<>> /\ commits = <<>>
      /\ planned = store /\ current = Nil /\ ~writing
      /\ Len(plan) = 0 /\ Len(rows) = 0 /\ Len(delivered) = 0 /\ Len(commits) = 0
      /\ DOMAIN plan = {} /\ DOMAIN commits = {}
  BY DEF Init
<1>4. TypeOK
  <2>1. {same_op, writing, abortFailed, panicked} \subseteq BOOLEAN
    BY DEF Init
  <2>2. /\ offset \in Nat /\ buffer = <<>> /\ touched = {} /\ changes \in 0..MaxChanges
        /\ Len(rows) <= VectorSize
    BY <1>3, CopyAssumption DEF Init
  <2>3. QED
    BY <1>2, <1>3, <2>1, <2>2 DEF TypeOK, Images, PC
<1>5. Shape
  BY <1>3 DEF Shape, Working, NoWriterLeftOpen
<1>6. CopiesPlanOnce /\ PlanFits
  BY <1>3 DEF CopiesPlanOnce, PlanFits, Distinct, Working
<1>7. Matched
  BY <1>3 DEF Matched
<1>8. Untouched /\ Streamed
  BY <1>3 DEF Init, Untouched, Streamed
<1>9. QED
  BY <1>4, <1>5, <1>6, <1>7, <1>8 DEF IInv

\* A step that only changes where the scan is.
LEMMA PhaseKeeps ==
  ASSUME IInv, OpenFails \/ CopyFunc \/ ScanStops \/ StreamFails \/ StreamEnds
  PROVE  IInv'
<1>1. /\ UNCHANGED <<store, scan, commits, planned, touched, changes>>
      /\ \/ pc = "unopened" /\ pc' = "failed"
         \/ pc = "returned" /\ pc' \in {"loop", "stopped"}
         \/ pc = "stream" /\ pc' = "abort"
         \/ pc = "stream" /\ pc' = "close" /\ offset >= current.size
  BY DEF OpenFails, CopyFunc, ScanStops, StreamFails, StreamEnds, Goto
<1>2. UNCHANGED <<store, same_op, plan, current, offset, buffer, writing, abortFailed, panicked,
                  rows, delivered, commits, planned, touched, changes>>
  BY <1>1 DEF scan
<1>3. pc' \in PC /\ (pc' = "failed" => rows = <<>> /\ delivered = <<>>)
  BY <1>1 DEF PC, IInv, Shape
<1>4. TypeOK'
  BY <1>2, <1>3 DEF IInv, TypeOK
<1>5. Shape'
  BY <1>1, <1>2 DEF IInv, Shape, Working, NoWriterLeftOpen
<1>6. CopiesPlanOnce' /\ Untouched'
  BY <1>2 DEF IInv, CopiesPlanOnce, Untouched
<1>7. PlanFits'
  BY <1>1, <1>2 DEF IInv, PlanFits, Working, Planned, Distinct, SourcesOf
<1>8. Matched'
  BY <1>1, <1>2 DEF IInv, Matched
<1>9. Streamed'
  <2>1. pc = "stream" => current.size \in Nat /\ offset \in Nat
    BY DEF IInv, Shape, Working, TypeOK, Pair
  <2>2. QED
    BY <1>1, <1>2, <2>1 DEF IInv, Streamed
<1>10. QED
  BY <1>4, <1>5, <1>6, <1>7, <1>8, <1>9 DEF IInv

LEMMA ClientsKeep ==
  ASSUME IInv, Clients
  PROVE  IInv'
<1>1. PICK o \in Sources, image \in {Whole(c) : c \in Contents} \cup {Nil} : ClientWrites(o, image)
  BY DEF Clients
<1>2. /\ store' = [store EXCEPT ![o] = image] /\ touched' = touched \cup {o}
      /\ changes < MaxChanges /\ changes' = changes + 1
      /\ UNCHANGED <<pc, same_op, plan, current, offset, buffer, writing, abortFailed, panicked,
                     rows, delivered, commits, planned>>
  BY <1>1 DEF ClientWrites, scan
<1>3. image \in Images /\ o \in Objects
  BY CopyAssumption DEF Whole, Images
<1>4. TypeOK'
  <2>1. changes' \in 0..MaxChanges
    BY <1>2, CopyAssumption DEF IInv, TypeOK
  <2>2. store' \in [Objects -> Images] /\ touched' \in SUBSET Objects
    BY <1>2, <1>3 DEF IInv, TypeOK, Images
  <2>3. QED
    BY <1>2, <2>1, <2>2 DEF IInv, TypeOK, Images
<1>5. Shape' /\ CopiesPlanOnce' /\ Matched'
  BY <1>2 DEF IInv, Shape, Working, NoWriterLeftOpen, CopiesPlanOnce, Matched
<1>6. PlanFits'
  BY <1>2 DEF IInv, PlanFits, Working, Planned, Distinct, SourcesOf
<1>7. Untouched'
  BY <1>2 DEF IInv, Untouched, TypeOK
<1>8. Streamed'
  BY <1>2 DEF IInv, Streamed
<1>9. QED
  BY <1>4, <1>5, <1>6, <1>7, <1>8 DEF IInv

\* The plan: every source that exists, once, with its size.
LEMMA OpenKeeps ==
  ASSUME IInv, OpenCopyCursor
  PROVE  IInv'
<1> DEFINE there == {s \in Sources : store[s] # Nil}
<1>1. PICK listing \in SetToSeqs(there) :
        plan' = [i \in DOMAIN listing |->
                   [source |-> listing[i], size |-> Len(store[listing[i]])]]
  BY DEF OpenCopyCursor
<1>2. /\ UNCHANGED <<store, current, offset, buffer, writing, abortFailed, panicked, rows,
                     delivered, commits, changes>>
      /\ pc = "unopened" /\ pc' = "loop" /\ same_op' \in BOOLEAN
      /\ planned' = store /\ touched' = {}
  BY DEF OpenCopyCursor, Goto
<1>3. rows = <<>> /\ delivered = <<>> /\ commits = <<>>
  BY <1>2 DEF IInv, Shape
<1>4. IsFiniteSet(there) /\ Cardinality(there) \in Nat
  BY CopyAssumption, FS_Subset, FS_CardinalityType
<1>5. /\ listing \in [1..Cardinality(there) -> there]
      /\ \A i, j \in 1..Cardinality(there) : i # j => listing[i] # listing[j]
  BY DEF SetToSeqs
<1>6. \A s \in there : store[s] \in Seq(Contents) /\ Len(store[s]) \in Nat
  BY CopyAssumption DEF IInv, TypeOK
<1>7. /\ plan' \in Seq(Pair) /\ Distinct(plan')
      /\ \A i \in DOMAIN plan' :
           store[plan'[i].source] # Nil /\ plan'[i].size = Len(store[plan'[i].source])
  <2> HIDE DEF there
  <2>1. /\ DOMAIN plan' = 1..Cardinality(there)
        /\ \A i \in DOMAIN plan' :
             /\ listing[i] \in there
             /\ plan'[i] = [source |-> listing[i], size |-> Len(store[listing[i]])]
    BY <1>1, <1>5
  <2>2. \A i \in DOMAIN plan' :
          plan'[i].source = listing[i] /\ plan'[i].size = Len(store[listing[i]])
    BY <2>1
  <2>3. Distinct(plan')
    BY <1>5, <2>1, <2>2 DEF Distinct
  <2>4. \A s \in there : s \in Sources /\ store[s] # Nil
    BY DEF there
  <2>5. \A i \in DOMAIN plan' : plan'[i] \in Pair
    BY <1>6, <2>1, <2>4 DEF Pair
  <2>6. plan' \in [1..Cardinality(there) -> Pair]
    BY <1>1, <1>5, <2>1, <2>5
  <2>7. QED
    BY <1>4, <2>1, <2>2, <2>3, <2>4, <2>6, IsASeq
<1>8. TypeOK'
  <2>1. {same_op', writing', abortFailed', panicked'} \subseteq BOOLEAN
    BY <1>2 DEF IInv, TypeOK
  <2>2. QED
    BY <1>2, <1>7, <2>1 DEF IInv, TypeOK, PC
<1>9. Shape' /\ Streamed'
  BY <1>2 DEF IInv, Shape, Working, NoWriterLeftOpen, Streamed
<1>10. CopiesPlanOnce' /\ Matched' /\ Untouched'
  BY <1>2, <1>3 DEF CopiesPlanOnce, Matched, Untouched
<1>11. PlanFits'
  BY <1>2, <1>3, <1>7 DEF PlanFits, Working, Planned, Distinct, SourcesOf
<1>12. QED
  BY <1>8, <1>9, <1>10, <1>11 DEF IInv

\* What a step that may commit leaves to the history and the store.
Kept ==
  /\ store' \in [Objects -> Images] /\ commits' \in Seq(Commits) /\ touched' \in SUBSET Objects
  /\ CopiesPlanOnce' /\ Untouched'
  /\ Len(commits) <= Len(commits') /\ \A i \in 1..Len(commits) : commits'[i] = commits[i]

LEMMA Unchanged ==
  ASSUME IInv, UNCHANGED <<store, commits, touched, planned>>
  PROVE  Kept
<1>1. Len(commits) \in Nat
  BY DEF IInv, TypeOK
<1>2. QED
  BY <1>1 DEF Kept, IInv, TypeOK, Images, Commits, CopiesPlanOnce, Untouched

LEMMA CommitKeeps ==
  ASSUME IInv, pc \in {"close", "copier"}, NEW image \in Seq(Contents), Commit(image),
         planned' = planned
  PROVE  /\ Kept
         /\ Len(commits') = Len(commits) + 1
         /\ commits'[Len(commits) + 1] = [source |-> current.source, image |-> image]
         /\ SourcesOf(commits') = SourcesOf(commits) \cup {current.source}
<1> DEFINE e == [source |-> current.source, image |-> image]
<1>1. /\ current \in Pair /\ current.source \in Sources /\ Dest[current.source] \in Objects
      /\ planned[current.source] # Nil /\ current.source \notin SourcesOf(commits)
  BY CopyAssumption DEF IInv, Shape, PlanFits, Planned, Working, Pair
<1>2. /\ store' = [store EXCEPT ![Dest[current.source]] = image]
      /\ touched' = touched \cup {Dest[current.source]} /\ commits' = Append(commits, e)
  BY DEF Commit
<1>3. e \in Commits /\ e.source = current.source /\ commits \in Seq(Commits)
  BY <1>1 DEF Commits, IInv, TypeOK
<1> HIDE DEF e
<1>4. Distinct(commits) /\ \A i \in DOMAIN commits : planned[commits[i].source] # Nil
  BY DEF IInv, CopiesPlanOnce, Distinct
<1>5. /\ commits' \in Seq(Commits) /\ Len(commits') = Len(commits) + 1
      /\ commits'[Len(commits) + 1] = e /\ \A i \in 1..Len(commits) : commits'[i] = commits[i]
      /\ SourcesOf(commits') = SourcesOf(commits) \cup {current.source} /\ Distinct(commits')
  BY <1>1, <1>2, <1>3, <1>4, AppendFacts
<1>6. \A s \in SourcesOf(commits') : planned[s] # Nil
  BY <1>1, <1>4, <1>5 DEF SourcesOf
<1>7. CopiesPlanOnce'
  BY <1>5, <1>6 DEF CopiesPlanOnce, Distinct, SourcesOf
<1>8. store' \in [Objects -> Images] /\ touched' \in SUBSET Objects
  BY <1>1, <1>2 DEF IInv, TypeOK, Images
<1>9. Untouched'
  BY <1>1, <1>2 DEF IInv, Untouched, TypeOK
<1>10. Len(commits) \in Nat
  BY <1>3
<1>11. QED
  BY <1>5, <1>7, <1>8, <1>9, <1>10 DEF Kept, e

\* An error: the rows of the chunk are gone, and the scan with them.
LEMMA ThrowKeeps ==
  ASSUME IInv, Kept, Throw, UNCHANGED <<planned, delivered, changes>>,
         plan' \in Seq(Pair), current' \in Pair \cup {Nil}, offset' \in Nat,
         buffer' \in Seq(Contents),
         {same_op', writing', abortFailed', panicked'} \subseteq BOOLEAN,
         writing' => abortFailed' \/ panicked'
  PROVE  IInv'
<1>1. pc' = "failed" /\ rows' = <<>> /\ Len(rows') = 0
  BY DEF Throw
<1>2. TypeOK'
  <2>1. Len(rows') <= VectorSize
    BY <1>1, CopyAssumption
  <2>2. rows' \in Seq([source: Sources, bytes: Nat])
    BY <1>1
  <2>3. QED
    BY <1>1, <2>1, <2>2 DEF Kept, IInv, TypeOK, PC, Images, Commits
<1>3. Shape' /\ PlanFits' /\ Streamed'
  BY <1>1 DEF Shape, Working, NoWriterLeftOpen, PlanFits, Streamed
<1>4. Matched'
  <2>1. /\ Len(delivered) \in Nat /\ Len(rows) \in Nat /\ Len(commits) \in Nat
        /\ Len(commits') \in Nat
    BY DEF IInv, TypeOK, Kept
  <2>2. Len(delivered) <= Len(commits) /\ Len(delivered) <= Len(commits')
    BY <2>1 DEF IInv, Matched, Kept
  <2>3. \A i \in 1..Len(delivered) : delivered[i].source = commits'[i].source
    <3>1. \A i \in 1..Len(delivered) :
            delivered[i].source = commits[i].source /\ i \in 1..Len(commits)
      BY <2>1, <2>2 DEF IInv, Matched
    <3>2. \A i \in 1..Len(commits) : commits'[i] = commits[i]
      BY DEF Kept
    <3>3. QED
      BY <3>1, <3>2
  <2>4. QED
    BY <1>1, <2>1, <2>2, <2>3 DEF Matched
<1>5. QED
  BY <1>2, <1>3, <1>4 DEF IInv, Kept

\* A copy that took effect and its row.
LEMMA RowKeeps ==
  ASSUME IInv, pc \in {"close", "copier"}, NEW image \in Seq(Contents), Commit(image),
         NEW bytes \in Nat, pc' = "loop",
         rows' = Append(rows, [source |-> current.source, bytes |-> bytes]),
         UNCHANGED <<same_op, plan, current, offset, buffer, abortFailed, panicked, delivered,
                     planned, changes>>,
         writing' \in BOOLEAN, writing' => abortFailed' \/ panicked'
  PROVE  IInv'
<1> DEFINE row == [source |-> current.source, bytes |-> bytes]
<1>1. /\ Kept /\ Len(commits') = Len(commits) + 1
      /\ commits'[Len(commits) + 1].source = current.source
      /\ SourcesOf(commits') = SourcesOf(commits) \cup {current.source}
  <2>1. commits'[Len(commits) + 1] = [source |-> current.source, image |-> image]
    BY CommitKeeps
  <2>2. QED
    BY <2>1, CommitKeeps
<1>2. current \in Pair /\ Len(rows) < VectorSize
  BY DEF IInv, Shape, Working
<1>3. row \in OutRow /\ row.source = current.source /\ rows \in Seq(OutRow)
  BY <1>2 DEF OutRow, Pair, IInv, TypeOK
<1> HIDE DEF row
<1>4. /\ rows' \in Seq(OutRow) /\ Len(rows') = Len(rows) + 1 /\ rows'[Len(rows) + 1] = row
      /\ \A i \in 1..Len(rows) : rows'[i] = rows[i]
  BY <1>3, AppendFacts DEF row
<1>5. /\ Len(rows) \in Nat /\ Len(delivered) \in Nat /\ Len(commits) \in Nat
      /\ VectorSize \in Nat
  BY <1>3, CopyAssumption DEF IInv, TypeOK
<1>6. TypeOK'
  <2>1. Len(rows') <= VectorSize
    BY <1>2, <1>4, <1>5
  <2>2. {same_op, writing, abortFailed, panicked} \subseteq BOOLEAN
    BY DEF IInv, TypeOK
  <2>3. {same_op', writing', abortFailed', panicked'} \subseteq BOOLEAN
    BY <2>2
  <2>4. QED
    BY <1>1, <1>4, <2>1, <2>3 DEF Kept, IInv, TypeOK, PC, OutRow, Images, Commits
<1>7. Shape' /\ Streamed'
  BY DEF Shape, Working, NoWriterLeftOpen, Streamed
<1>8. PlanFits'
  <2>1. /\ Distinct(plan) /\ current.source \notin SourcesOf(plan)
        /\ \A i \in DOMAIN plan : Planned(plan[i]) /\ plan[i].source \notin SourcesOf(commits)
    BY DEF IInv, PlanFits, Working
  <2>2. \A i \in DOMAIN plan : plan[i].source \notin SourcesOf(commits')
    BY <1>1, <2>1 DEF SourcesOf
  <2>3. Distinct(plan') /\ \A i \in DOMAIN plan : Planned(plan[i])'
    BY <2>1 DEF Distinct, Planned
  <2>4. QED
    BY <2>2, <2>3 DEF PlanFits, Working, SourcesOf
<1>9. Matched'
  <2>1. /\ Len(delivered) + Len(rows) = Len(commits)
        /\ \A i \in 1..Len(delivered) : delivered[i].source = commits[i].source
        /\ \A i \in 1..Len(rows) : rows[i].source = commits[Len(delivered) + i].source
    BY DEF IInv, Matched
  <2>2. \A i \in 1..Len(commits) : commits'[i] = commits[i]
    BY <1>1 DEF Kept
  <2>3. \A i \in 1..Len(delivered) : delivered[i].source = commits'[i].source
    BY <1>5, <2>1, <2>2
  <2>4. \A i \in 1..Len(rows') : rows'[i].source = commits'[Len(delivered) + i].source
    <3> SUFFICES ASSUME NEW i \in 1..Len(rows')
                 PROVE  rows'[i].source = commits'[Len(delivered) + i].source
      OBVIOUS
    <3>1. CASE i \in 1..Len(rows)
      <4>1. Len(delivered) + i \in 1..Len(commits)
        BY <1>5, <2>1, <3>1
      <4>2. QED
        BY <1>4, <2>1, <2>2, <3>1, <4>1
    <3>2. CASE i = Len(rows) + 1
      BY <1>1, <1>3, <1>4, <1>5, <2>1, <3>2
    <3>3. QED
      BY <1>4, <1>5, <3>1, <3>2
  <2>5. QED
    BY <1>1, <1>4, <1>5, <2>1, <2>3, <2>4 DEF Matched
<1>10. QED
  BY <1>1, <1>6, <1>7, <1>8, <1>9 DEF IInv, Kept

\* The next pair is taken from the plan, and fails to open or not.
LEMMA NextPairKeeps ==
  ASSUME IInv, NextPair \/ PairFailsToOpen
  PROVE  IInv'
<1>1. /\ pc = "loop" /\ Len(rows) < VectorSize /\ plan # <<>>
      /\ current' = Head(plan) /\ plan' = Tail(plan)
      /\ UNCHANGED <<store, same_op, abortFailed, panicked, delivered, commits, planned,
                     touched, changes>>
  BY DEF NextPair, PairFailsToOpen, ChunkHasRoom, TakePair
<1>2. plan \in Seq(Pair) /\ Distinct(plan)
  BY <1>1 DEF IInv, TypeOK, PlanFits
<1>3. /\ Head(plan) \in Pair /\ plan' \in Seq(Pair) /\ Head(plan) = plan[1] /\ 1 \in DOMAIN plan
      /\ \A i \in DOMAIN plan' : i + 1 \in DOMAIN plan /\ plan'[i] = plan[i + 1]
      /\ Distinct(plan') /\ Head(plan).source \notin SourcesOf(plan')
  BY <1>1, <1>2, TailFacts
<1>4. {same_op, writing, abortFailed, panicked} \subseteq BOOLEAN
  BY DEF IInv, TypeOK
<1>5. CASE PairFailsToOpen
  <2>1. UNCHANGED <<offset, buffer, writing>> /\ Throw
    BY <1>5 DEF PairFailsToOpen
  <2>2. writing => abortFailed \/ panicked
    BY <1>1 DEF IInv, Shape, NoWriterLeftOpen
  <2>3. Kept
    BY <1>1, Unchanged
  <2>4. {same_op', writing', abortFailed', panicked'} \subseteq BOOLEAN
    BY <1>1, <1>4, <2>1
  <2>5. offset' \in Nat /\ buffer' \in Seq(Contents)
    BY <2>1 DEF IInv, TypeOK
  <2>6. QED
    BY <1>1, <1>3, <2>1, <2>2, <2>3, <2>4, <2>5, ThrowKeeps
<1>6. CASE NextPair
  <2>1. /\ offset' = 0 /\ buffer' = <<>> /\ rows' = rows
        /\ \/ pc' = "copier" /\ writing' = writing
           \/ pc' = "stream" /\ writing' = TRUE
    BY <1>6 DEF NextPair
  <2>2. TypeOK'
    <3>1. {same_op', writing', abortFailed', panicked'} \subseteq BOOLEAN
      BY <1>1, <1>4, <2>1
    <3>2. QED
      BY <1>1, <1>3, <2>1, <3>1 DEF IInv, TypeOK, PC
  <2>3. Shape'
    BY <1>1, <1>3, <2>1 DEF IInv, Shape, Working, NoWriterLeftOpen
  <2>4. CopiesPlanOnce' /\ Untouched'
    BY <1>1 DEF IInv, CopiesPlanOnce, Untouched
  <2>5. PlanFits'
    <3>1. \A i \in DOMAIN plan : Planned(plan[i]) /\ plan[i].source \notin SourcesOf(commits)
      BY <1>1 DEF IInv, PlanFits
    <3>2. \A i \in DOMAIN plan' : Planned(plan'[i]) /\ plan'[i].source \notin SourcesOf(commits)
      BY <1>3, <3>1
    <3>3. Planned(Head(plan)) /\ Head(plan).source \notin SourcesOf(commits)
      BY <1>3, <3>1
    <3>4. SourcesOf(commits)' = SourcesOf(commits) /\ \A p : Planned(p)' <=> Planned(p)
      BY <1>1 DEF SourcesOf, Planned
    <3>5. \A i \in DOMAIN plan' :
            Planned(plan[i])' /\ plan'[i].source \notin SourcesOf(commits)'
      BY <1>1, <3>2, <3>4 DEF Planned
    <3>6. Planned(current)' /\ current'.source \notin SourcesOf(plan)'
            /\ current'.source \notin SourcesOf(commits)'
      BY <1>1, <1>3, <3>3, <3>4 DEF Planned, SourcesOf
    <3>7. QED
      BY <1>3, <3>5, <3>6 DEF PlanFits, Distinct
  <2>6. Matched'
    BY <1>1, <2>1 DEF IInv, Matched
  <2>7. Streamed'
    <3>1. current'.size \in Nat /\ SubSeq(planned[current'.source], 1, 0) = <<>>
      BY <1>1, <1>3, SubSeqEmpty DEF Pair
    <3>2. QED
      BY <1>1, <2>1, <3>1 DEF Streamed
  <2>8. QED
    BY <2>2, <2>3, <2>4, <2>5, <2>6, <2>7 DEF IInv
<1>7. QED
  BY <1>5, <1>6

\* A chunk is returned with its rows.
LEMMA ChunkKeeps ==
  ASSUME IInv, ChunkReturns
  PROVE  IInv'
<1>1. /\ pc = "loop" /\ pc' \in {"returned", "finished"}
      /\ delivered' = delivered \o rows /\ rows' = <<>> /\ Len(rows') = 0
      /\ UNCHANGED <<store, same_op, plan, current, offset, buffer, writing, abortFailed, panicked,
                     commits, planned, touched, changes>>
  BY DEF ChunkReturns, ChunkEnds
<1>2. delivered \in Seq(OutRow) /\ rows \in Seq(OutRow)
  BY DEF IInv, TypeOK, OutRow
<1>3. /\ delivered' \in Seq(OutRow) /\ Len(delivered') = Len(delivered) + Len(rows)
      /\ \A i \in 1..Len(delivered) : delivered'[i] = delivered[i]
      /\ \A i \in 1..Len(rows) : delivered'[Len(delivered) + i] = rows[i]
  BY <1>1, <1>2, ConcatFacts
<1>4. TypeOK'
  <2>1. Len(rows') <= VectorSize
    BY <1>1, CopyAssumption
  <2>2. rows' \in Seq(OutRow) /\ pc' \in PC
    BY <1>1 DEF PC
  <2>3. QED
    BY <1>1, <1>3, <2>1, <2>2 DEF IInv, TypeOK, OutRow
<1>5. Shape' /\ Streamed' /\ CopiesPlanOnce' /\ Untouched'
  BY <1>1
  DEF IInv, Shape, Working, NoWriterLeftOpen, Streamed, CopiesPlanOnce, Untouched
<1>6. PlanFits'
  BY <1>1 DEF IInv, PlanFits, Working, Planned, Distinct, SourcesOf
<1>7. Matched'
  <2>1. /\ Len(delivered) + Len(rows) = Len(commits)
        /\ \A i \in 1..Len(delivered) : delivered[i].source = commits[i].source
        /\ \A i \in 1..Len(rows) : rows[i].source = commits[Len(delivered) + i].source
    BY <1>1 DEF IInv, Matched
  <2>2. Len(delivered) \in Nat /\ Len(rows) \in Nat
    BY <1>2
  <2>3. \A i \in 1..Len(delivered') : delivered'[i].source = commits[i].source
    <3> SUFFICES ASSUME NEW i \in 1..Len(delivered')
                 PROVE  delivered'[i].source = commits[i].source
      OBVIOUS
    <3>1. CASE i <= Len(delivered)
      BY <1>3, <2>1, <2>2, <3>1
    <3>2. CASE ~(i <= Len(delivered))
      <4>1. i - Len(delivered) \in 1..Len(rows) /\ Len(delivered) + (i - Len(delivered)) = i
        BY <1>3, <2>2, <3>2
      <4>2. QED
        BY <1>3, <2>1, <4>1
    <3>3. QED
      BY <3>1, <3>2
  <2>4. QED
    BY <1>1, <1>3, <2>1, <2>2, <2>3 DEF Matched
<1>8. QED
  BY <1>4, <1>5, <1>6, <1>7 DEF IInv

--------------------------------------------------------------------------------
(***************************************************************************)
(* copy_one.                                                               *)
(***************************************************************************)
LEMMA ChunkBounds ==
  ASSUME IInv, pc = "stream", offset < current.size
  PROVE  /\ current \in Pair /\ current.source \in Objects /\ current.size \in Nat
         /\ End \in Nat /\ offset \in Nat /\ offset < End /\ End <= current.size
BY CopyAssumption DEF IInv, Shape, Working, TypeOK, Pair, End

LEMMA StreamChunkKeeps ==
  ASSUME IInv, StreamChunk
  PROVE  IInv'
<1> DEFINE image == store[current.source]
           stop == IF Len(image) < End THEN Len(image) ELSE End
<1>1. /\ pc = "stream" /\ offset < current.size /\ image # Nil
      /\ buffer' = buffer \o SubSeq(image, offset + 1, stop) /\ offset' = End
      /\ UNCHANGED <<store, pc, same_op, plan, current, writing, abortFailed, panicked, rows,
                     delivered, commits, planned, touched, changes>>
  BY DEF StreamChunk
<1>2. /\ current \in Pair /\ current.source \in Objects /\ current.size \in Nat
      /\ End \in Nat /\ offset \in Nat /\ offset < End /\ End <= current.size
  BY <1>1, ChunkBounds
<1>3. image \in Seq(Contents) /\ Len(image) \in Nat
  BY <1>1, <1>2 DEF IInv, TypeOK
<1> HIDE DEF image
<1>4. stop \in Nat /\ stop <= Len(image) /\ (End <= Len(image) => stop = End)
  BY <1>2, <1>3
<1> HIDE DEF stop
<1>5. buffer \in Seq(Contents) /\ buffer' \in Seq(Contents)
  <2>1. \A i \in offset + 1..stop : image[i] \in Contents
    BY <1>2, <1>3, <1>4
  <2>2. offset + 1 \in Int /\ stop \in Int
    BY <1>2, <1>4
  <2>3. SubSeq(image, offset + 1, stop) \in Seq(Contents)
    BY <2>1, <2>2, SubSeqProperties
  <2>4. QED
    BY <1>1, <2>3 DEF IInv, TypeOK
<1>6. TypeOK' /\ Shape'
  BY <1>1, <1>2, <1>5 DEF IInv, TypeOK, Shape, Working, NoWriterLeftOpen
<1>7. CopiesPlanOnce' /\ Matched' /\ Untouched'
  BY <1>1 DEF IInv, CopiesPlanOnce, Matched, Untouched
<1>8. PlanFits'
  BY <1>1 DEF IInv, PlanFits, Working, Planned, Distinct, SourcesOf
<1>9. Streamed'
  <2> SUFFICES ASSUME current.source \notin touched
               PROVE  buffer' = SubSeq(planned[current.source], 1, End)
    BY <1>1, <1>2 DEF Streamed
  <2>1. image = planned[current.source] /\ current.size = Len(image)
    BY <1>1, <1>2 DEF IInv, Untouched, PlanFits, Planned, Working, image
  <2>2. buffer = SubSeq(image, 1, offset)
    BY <1>1, <2>1 DEF IInv, Streamed
  <2>3. stop = End /\ offset \in 1 - 1..End /\ 1 \in 1..Len(image) + 1 /\ End \in 1 - 1..Len(image)
    BY <1>2, <1>3, <1>4, <2>1
  <2>4. SubSeq(image, 1, offset) \o SubSeq(image, offset + 1, End) = SubSeq(image, 1, End)
    BY <1>3, <2>3, ConcatAdjacentSubSeq
  <2>5. QED
    BY <1>1, <2>1, <2>2, <2>3, <2>4
<1>10. QED
  BY <1>6, <1>7, <1>8, <1>9 DEF IInv

\* The writer is closed: the object becomes visible, and its row is kept or, if a name is no C
\* string, lost.
LEMMA ClosesKeep ==
  ASSUME IInv, StreamCloses \/ CopierCloses
  PROVE  IInv'
<1>1. PICK image \in Seq(Contents), bytes \in Nat :
        /\ pc \in {"close", "copier"} /\ Commit(image) /\ Row(bytes)
        /\ UNCHANGED <<same_op, plan, current, offset, buffer, abortFailed, panicked, delivered,
                       planned, changes>>
        /\ writing' = FALSE \/ (pc = "copier" /\ writing' = writing)
  <2>1. CASE StreamCloses
    <3>1. buffer \in Seq(Contents) /\ offset \in Nat
      BY DEF IInv, TypeOK
    <3>2. QED
      BY <2>1, <3>1 DEF StreamCloses
  <2>2. CASE CopierCloses
    <3>1. current \in Pair
      BY <2>2 DEF CopierCloses, IInv, Shape, Working
    <3>2. store[current.source] \in Seq(Contents) /\ Len(store[current.source]) \in Nat
            /\ current.size \in Nat
      BY <2>2, <3>1, CopyAssumption DEF CopierCloses, IInv, TypeOK, Pair
    <3>3. PICK copied \in {0, Len(store[current.source])} :
            Row(IF copied < current.size THEN current.size ELSE copied)
      BY <2>2 DEF CopierCloses
    <3>4. (IF copied < current.size THEN current.size ELSE copied) \in Nat
      BY <3>2
    <3>5. /\ pc = "copier" /\ Commit(store[current.source]) /\ writing' = writing
          /\ UNCHANGED <<same_op, plan, current, offset, buffer, abortFailed, panicked, delivered,
                         planned, changes>>
      BY <2>2 DEF CopierCloses
    <3>6. QED
      BY <3>2, <3>3, <3>4, <3>5
  <2>3. QED
    BY <2>1, <2>2
<1>2. {same_op, writing, abortFailed, panicked} \subseteq BOOLEAN
  BY DEF IInv, TypeOK
<1>3. {same_op', writing', abortFailed', panicked'} \subseteq BOOLEAN /\ writing' \in BOOLEAN
  BY <1>1, <1>2
<1>4. writing' => abortFailed' \/ panicked'
  BY <1>1 DEF IInv, Shape, NoWriterLeftOpen
<1>5. CASE Throw
  <2>1. Kept
    BY <1>1, CommitKeeps
  <2>2. /\ plan' \in Seq(Pair) /\ current' \in Pair \cup {Nil} /\ offset' \in Nat
        /\ buffer' \in Seq(Contents)
    BY <1>1 DEF IInv, TypeOK
  <2>3. QED
    BY <1>1, <1>3, <1>4, <1>5, <2>1, <2>2, ThrowKeeps
<1>6. CASE ~Throw
  <2>1. pc' = "loop" /\ rows' = Append(rows, [source |-> current.source, bytes |-> bytes])
    BY <1>1, <1>6 DEF Row
  <2>2. QED
    BY <1>1, <1>3, <1>4, <2>1, RowKeeps
<1>7. QED
  BY <1>5, <1>6

\* The close fails, having taken effect or not, and the writer is to be aborted.
LEMMA CloseFailsKeeps ==
  ASSUME IInv, StreamCloseFails
  PROVE  IInv'
<1>1. /\ pc = "close" /\ pc' = "abort"
      /\ Commit(buffer) \/ UNCHANGED <<store, commits, touched>>
      /\ UNCHANGED <<same_op, plan, current, offset, buffer, writing, abortFailed, panicked, rows,
                     delivered, planned, changes>>
  BY DEF StreamCloseFails, Goto, scan
<1>2. buffer \in Seq(Contents) /\ Len(commits) \in Nat
  BY DEF IInv, TypeOK
<1>3. /\ Kept
      /\ SourcesOf(commits') \subseteq SourcesOf(commits) \cup {current.source}
  <2>1. CASE Commit(buffer)
    BY <1>1, <1>2, <2>1, CommitKeeps
  <2>2. CASE UNCHANGED <<store, commits, touched>>
    BY <1>1, <2>2, Unchanged
  <2>3. QED
    BY <1>1, <2>1, <2>2
<1>4. TypeOK'
  BY <1>1, <1>3 DEF Kept, IInv, TypeOK, PC, Images, Commits
<1>5. Shape' /\ Streamed'
  BY <1>1 DEF IInv, Shape, Working, NoWriterLeftOpen, Streamed
<1>6. PlanFits'
  <2>1. /\ Distinct(plan) /\ current.source \notin SourcesOf(plan) /\ Planned(current)
        /\ \A i \in DOMAIN plan : Planned(plan[i]) /\ plan[i].source \notin SourcesOf(commits)
    BY <1>1 DEF IInv, PlanFits, Working
  <2>2. \A i \in DOMAIN plan : plan[i].source \notin SourcesOf(commits')
    BY <1>3, <2>1 DEF SourcesOf
  <2>3. /\ Distinct(plan') /\ \A i \in DOMAIN plan : Planned(plan[i])'
        /\ Planned(current)' /\ current'.source \notin SourcesOf(plan')
    BY <1>1, <2>1 DEF Distinct, Planned, SourcesOf
  <2>4. QED
    BY <1>1, <2>2, <2>3 DEF PlanFits, Working, SourcesOf
<1>7. Matched'
  <2>1. /\ Len(delivered) + Len(rows) = Len(commits)
        /\ \A i \in 1..Len(delivered) : delivered[i].source = commits[i].source
        /\ \A i \in 1..Len(rows) : rows[i].source = commits[Len(delivered) + i].source
    BY <1>1 DEF IInv, Matched
  <2>2. Len(delivered) \in Nat /\ Len(rows) \in Nat
    BY DEF IInv, TypeOK
  <2>3. /\ Len(commits) <= Len(commits')
        /\ \A i \in 1..Len(commits) : commits'[i] = commits[i]
    BY <1>3 DEF Kept
  <2>4. /\ \A i \in 1..Len(delivered) : i \in 1..Len(commits)
        /\ \A i \in 1..Len(rows) : Len(delivered) + i \in 1..Len(commits)
    BY <2>1, <2>2
  <2>5. QED
    BY <1>1, <2>1, <2>3, <2>4 DEF Matched
<1>8. QED
  BY <1>3, <1>4, <1>5, <1>6, <1>7 DEF IInv, Kept

\* The abort of the writer, a copier that fails and a panic end the scan.
LEMMA FailuresKeep ==
  ASSUME IInv, AbortWriter \/ CopierFails \/ CopyPanics
  PROVE  IInv'
<1>1. /\ Throw /\ UNCHANGED <<same_op, plan, current, offset, buffer, delivered, planned, changes>>
      /\ \/ UNCHANGED <<store, commits, touched>>
         \/ pc = "close" /\ Commit(buffer)
         \/ pc = "copier" /\ store[current.source] # Nil /\ Commit(store[current.source])
  BY DEF AbortWriter, CopierFails, CopyPanics
<1>2. {same_op, writing, abortFailed, panicked} \subseteq BOOLEAN
  BY DEF IInv, TypeOK
<1>3. /\ writing' => abortFailed' \/ panicked'
      /\ {same_op', writing', abortFailed', panicked'} \subseteq BOOLEAN
  <2>1. CASE AbortWriter
    <3>1. /\ panicked' = panicked /\ same_op' = same_op
          /\ \/ writing' = FALSE /\ abortFailed' = abortFailed
             \/ abortFailed' = TRUE /\ writing' = writing
      BY <2>1 DEF AbortWriter
    <3>2. QED
      BY <1>2, <3>1
  <2>2. CASE CopierFails
    <3>1. pc = "copier" /\ UNCHANGED <<same_op, writing, abortFailed, panicked>>
      BY <2>2 DEF CopierFails
    <3>2. QED
      BY <1>2, <3>1 DEF IInv, Shape, NoWriterLeftOpen
  <2>3. CASE CopyPanics
    <3>1. panicked' = TRUE /\ UNCHANGED <<same_op, writing, abortFailed>>
      BY <2>3 DEF CopyPanics
    <3>2. QED
      BY <1>2, <3>1
  <2>4. QED
    BY <2>1, <2>2, <2>3
<1>4. Kept
  <2>1. CASE UNCHANGED <<store, commits, touched>>
    BY <1>1, <2>1, Unchanged
  <2>2. CASE pc = "close" /\ Commit(buffer)
    <3>1. buffer \in Seq(Contents)
      BY DEF IInv, TypeOK
    <3>2. QED
      BY <1>1, <2>2, <3>1, CommitKeeps
  <2>3. CASE pc = "copier" /\ store[current.source] # Nil /\ Commit(store[current.source])
    <3>1. current.source \in Objects
      BY <2>3, CopyAssumption DEF IInv, Shape, Working, Pair
    <3>2. store[current.source] \in Seq(Contents)
      BY <2>3, <3>1 DEF IInv, TypeOK
    <3>3. QED
      BY <1>1, <2>3, <3>2, CommitKeeps
  <2>4. QED
    BY <1>1, <2>1, <2>2, <2>3
<1>5. /\ plan' \in Seq(Pair) /\ current' \in Pair \cup {Nil} /\ offset' \in Nat
      /\ buffer' \in Seq(Contents)
  BY <1>1 DEF IInv, TypeOK
<1>6. QED
  BY <1>1, <1>3, <1>4, <1>5, ThrowKeeps

LEMMA NextKeeps == IInv /\ [Next]_vars => IInv'
<1> SUFFICES ASSUME IInv, [Next]_vars PROVE IInv'
  OBVIOUS
<1>1. CASE OpenFails \/ CopyFunc \/ ScanStops \/ StreamFails \/ StreamEnds
  BY <1>1, PhaseKeeps
<1>2. CASE OpenCopyCursor
  BY <1>2, OpenKeeps
<1>3. CASE NextPair \/ PairFailsToOpen
  BY <1>3, NextPairKeeps
<1>4. CASE ChunkReturns
  BY <1>4, ChunkKeeps
<1>5. CASE StreamChunk
  BY <1>5, StreamChunkKeeps
<1>6. CASE StreamCloses \/ CopierCloses
  BY <1>6, ClosesKeep
<1>7. CASE StreamCloseFails
  BY <1>7, CloseFailsKeeps
<1>8. CASE AbortWriter \/ CopierFails \/ CopyPanics
  BY <1>8, FailuresKeep
<1>9. CASE Clients
  BY <1>9, ClientsKeep
<1>10. CASE UNCHANGED vars
  <2>1. UNCHANGED <<store, pc, same_op, plan, current, offset, buffer, writing, abortFailed,
                    panicked, rows, delivered, commits, planned, touched, changes>>
    BY <1>10 DEF vars, scan
  <2>2. TypeOK' /\ Shape' /\ CopiesPlanOnce' /\ Untouched'
    BY <2>1
    DEF IInv, TypeOK, Shape, Working, NoWriterLeftOpen, CopiesPlanOnce, Untouched
  <2>3. PlanFits' /\ Matched' /\ Streamed'
    BY <2>1 DEF IInv, PlanFits, Working, Planned, Distinct, SourcesOf, Matched, Streamed
  <2>4. QED
    BY <2>2, <2>3 DEF IInv
<1>11. QED
  BY <1>1, <1>2, <1>3, <1>4, <1>5, <1>6, <1>7, <1>8, <1>9, <1>10 DEF Next, FillChunk, copy_one

\* IInv is inductive.
LEMMA Invariance == Spec => []IInv
  BY InitHolds, NextKeeps, PTL DEF Spec

--------------------------------------------------------------------------------
(***************************************************************************)
(* Theorems.                                                               *)
(***************************************************************************)
\* The state of a scan keeps its types; a chunk never has more rows than a vector.
THEOREM TypeCorrectness == Spec => []TypeOK
  BY Invariance, PTL DEF IInv

\* No source is copied twice, and none that was not there when the cursor was opened, wherever the
\* destinations are.
THEOREM PlanIsCopiedOnce == Spec => []CopiesPlanOnce
  BY Invariance, PTL DEF IInv

\* A destination writer is closed or aborted before the cursor goes on or throws.
THEOREM WritersAreClosed == Spec => []NoWriterLeftOpen
  BY Invariance, PTL DEF IInv, Shape

LEMMA MatchedMeansRows == IInv => RowsFollowCommits
<1> SUFFICES ASSUME IInv PROVE RowsFollowCommits
  OBVIOUS
<1>1. delivered \in Seq(OutRow) /\ rows \in Seq(OutRow) /\ commits \in Seq(Commits)
  BY DEF IInv, TypeOK, OutRow, Commits
<1>2. Len(delivered) \in Nat /\ Len(rows) \in Nat /\ Len(commits) \in Nat
  BY <1>1
<1>3. /\ Len(delivered) + Len(rows) <= Len(commits)
      /\ \A i \in 1..Len(delivered) : delivered[i].source = commits[i].source
      /\ \A i \in 1..Len(rows) : rows[i].source = commits[Len(delivered) + i].source
  BY DEF IInv, Matched
<1>4. IsPrefix(Sourced(delivered), Sourced(commits))
  BY <1>1, <1>2, <1>3, PrefixOfSources
<1> DEFINE both == delivered \o rows
<1>5. /\ both \in Seq(OutRow) /\ Len(both) = Len(delivered) + Len(rows)
      /\ \A i \in 1..Len(delivered) : both[i] = delivered[i]
      /\ \A i \in 1..Len(rows) : both[Len(delivered) + i] = rows[i]
  BY <1>1, ConcatFacts
<1> HIDE DEF both
<1>6. \A i \in 1..Len(both) : both[i].source = commits[i].source
  <2> SUFFICES ASSUME NEW i \in 1..Len(both) PROVE both[i].source = commits[i].source
    OBVIOUS
  <2>1. CASE i <= Len(delivered)
    BY <1>2, <1>3, <1>5, <2>1
  <2>2. CASE ~(i <= Len(delivered))
    <3>1. i - Len(delivered) \in 1..Len(rows) /\ Len(delivered) + (i - Len(delivered)) = i
      BY <1>2, <1>5, <2>2
    <3>2. QED
      BY <1>3, <1>5, <3>1
  <2>3. QED
    BY <2>1, <2>2
<1>7. IsPrefix(Sourced(both), Sourced(commits))
  BY <1>1, <1>3, <1>5, <1>6, PrefixOfSources
<1>8. QED
  BY <1>4, <1>7 DEF RowsFollowCommits, both

\* The rows are the commits, in order, but for the last one of a scan that fails.
THEOREM RowsAreCommits == Spec => []RowsFollowCommits
  BY Invariance, MatchedMeansRows, PTL

--------------------------------------------------------------------------------
(***************************************************************************)
(* What one step commits.                                                  *)
(***************************************************************************)
Faithful ==
  Len(commits') > Len(commits) =>
    LET c == Last(commits')
    IN  c.source \notin touched =>
          /\ c.image = planned[c.source]
          /\ Len(rows') > Len(rows) =>
               Last(rows') = [source |-> c.source, bytes |-> Len(c.image)]

\* The first elements of a sequence, all of them.
LEMMA WholeSubSeq ==
  ASSUME NEW S, NEW s \in Seq(S)
  PROVE  SubSeq(s, 1, Len(s)) = s
<1>1. Len(s) \in Nat /\ \A i \in 1..Len(s) : s[i] \in S
  OBVIOUS
<1>2. /\ SubSeq(s, 1, Len(s)) \in Seq(S)
      /\ Len(SubSeq(s, 1, Len(s))) = IF 1 <= Len(s) THEN Len(s) - 1 + 1 ELSE 0
      /\ \A i \in 1..Len(s) - 1 + 1 : SubSeq(s, 1, Len(s))[i] = s[1 + i - 1]
  BY <1>1, SubSeqProperties
<1>3. Len(SubSeq(s, 1, Len(s))) = Len(s)
  BY <1>1, <1>2
<1>4. \A i \in 1..Len(s) : SubSeq(s, 1, Len(s))[i] = s[i]
  BY <1>1, <1>2
<1>5. QED
  BY <1>2, <1>3, <1>4, SeqEqual

\* A commit of what was planned, with a row of its size or without one.
LEMMA CommitIsFaithful ==
  ASSUME IInv, pc \in {"close", "copier"}, NEW image \in Seq(Contents), NEW bytes \in Nat,
         Commit(image),
         current.source \notin touched =>
           image = planned[current.source] /\ bytes = current.size,
         \/ rows' = Append(rows, [source |-> current.source, bytes |-> bytes])
         \/ rows' = <<>> \/ rows' = rows
  PROVE  Faithful
<1> DEFINE done == [source |-> current.source, image |-> image]
           row == [source |-> current.source, bytes |-> bytes]
<1>1. /\ current \in Pair /\ Planned(current)
      /\ rows \in Seq(OutRow) /\ commits \in Seq(Commits)
  BY DEF IInv, TypeOK, Shape, PlanFits, Working, OutRow, Commits
<1>2. done \in Commits /\ row \in OutRow
  BY <1>1 DEF Pair, Commits, OutRow
<1>3. done.source = current.source /\ done.image = image /\ Len(rows) \in Nat
  BY <1>1
<1>4. Last(commits') = done
  <2>1. commits' = Append(commits, done)
    BY DEF Commit
  <2> HIDE DEF done
  <2>2. /\ Len(Append(commits, done)) = Len(commits) + 1
        /\ Append(commits, done)[Len(commits) + 1] = done
    BY <1>1, <1>2, AppendProperties
  <2>3. QED
    BY <2>1, <2>2 DEF Last
<1>5. Len(rows') > Len(rows) => Last(rows') = row
  <2>1. CASE rows' = Append(rows, row)
    <3> HIDE DEF row
    <3>1. /\ Len(Append(rows, row)) = Len(rows) + 1
          /\ Append(rows, row)[Len(rows) + 1] = row
      BY <1>1, <1>2, AppendProperties
    <3>2. QED
      BY <2>1, <3>1 DEF Last
  <2>2. CASE rows' = <<>> \/ rows' = rows
    <3>1. Len(rows') <= Len(rows)
      BY <1>3, <2>2
    <3>2. Len(rows') \in Nat
      BY <1>3, <2>2
    <3>3. QED
      BY <1>3, <3>1, <3>2
  <2>3. QED
    BY <2>1, <2>2
<1> HIDE DEF done
<1>6. current.source \notin touched => image = planned[current.source] /\ bytes = Len(image)
  BY <1>1 DEF Planned
<1>7. QED
  BY <1>3, <1>4, <1>5, <1>6 DEF Faithful, row

\* What the writer holds when all of a source nobody touched has been read.
LEMMA BufferIsPlanned ==
  ASSUME IInv, pc = "close"
  PROVE  /\ buffer \in Seq(Contents) /\ offset \in Nat
         /\ current.source \notin touched =>
              buffer = planned[current.source] /\ offset = current.size
<1>1. /\ buffer \in Seq(Contents) /\ offset \in Nat /\ offset = current.size
      /\ planned[current.source] # Nil /\ current.size = Len(planned[current.source])
      /\ current.source \notin touched => buffer = SubSeq(planned[current.source], 1, offset)
  BY DEF IInv, TypeOK, PlanFits, Planned, Working, Streamed
<1>2. planned[current.source] \in Seq(Contents)
  BY <1>1, CopyAssumption DEF IInv, TypeOK, Shape, Working, Pair
<1>3. QED
  BY <1>1, <1>2, WholeSubSeq

\* What the copier finds, if nobody touched it.
LEMMA StoreIsPlanned ==
  ASSUME IInv, pc = "copier", store[current.source] # Nil
  PROVE  /\ store[current.source] \in Seq(Contents) /\ current.size \in Nat
         /\ current.source \notin touched =>
              /\ store[current.source] = planned[current.source]
              /\ Len(store[current.source]) = current.size
<1>1. /\ current.source \in Objects /\ current.size \in Nat
      /\ current.size = Len(planned[current.source])
  BY CopyAssumption DEF IInv, Shape, PlanFits, Planned, Working, Pair
<1>2. store[current.source] \in Seq(Contents)
  BY <1>1 DEF IInv, TypeOK
<1>3. current.source \notin touched => store[current.source] = planned[current.source]
  BY <1>1 DEF IInv, Untouched
<1>4. QED
  BY <1>1, <1>2, <1>3

\* Without a commit there is nothing to show.
LEMMA NoCommit ==
  ASSUME IInv, UNCHANGED commits
  PROVE  Faithful
<1>1. Len(commits) \in Nat
  BY DEF IInv, TypeOK
<1>2. QED
  BY <1>1 DEF Faithful

LEMMA StepIsFaithful ==
  ASSUME IInv, [Next]_vars
  PROVE  Faithful
<1>1. CASE UNCHANGED commits
  BY <1>1, NoCommit
<1>2. CASE pc = "close" /\ Commit(buffer)
           /\ \/ rows' = Append(rows, [source |-> current.source, bytes |-> offset])
              \/ rows' = <<>> \/ rows' = rows
  BY <1>2, BufferIsPlanned, CommitIsFaithful
<1>3. ASSUME pc = "copier", store[current.source] # Nil, Commit(store[current.source]),
             NEW copied \in {0, Len(store[current.source])},
             \/ Row(IF copied < current.size THEN current.size ELSE copied) \/ Throw
      PROVE  Faithful
  <2> DEFINE bytes == IF copied < current.size THEN current.size ELSE copied
  <2>1. /\ store[current.source] \in Seq(Contents) /\ current.size \in Nat
        /\ current.source \notin touched =>
             /\ store[current.source] = planned[current.source]
             /\ Len(store[current.source]) = current.size
    BY <1>3, StoreIsPlanned
  <2>2. Len(store[current.source]) \in Nat
    BY <2>1
  <2>3. bytes \in Nat /\ (current.source \notin touched => bytes = current.size)
    BY <2>1, <2>2
  <2>4. \/ rows' = Append(rows, [source |-> current.source, bytes |-> bytes])
        \/ rows' = <<>>
    BY <1>3 DEF Row, Throw
  <2> HIDE DEF bytes
  <2>5. QED
    BY <1>3, <2>1, <2>3, <2>4, CommitIsFaithful
<1>4. CASE StreamCloses
  BY <1>2, <1>4 DEF StreamCloses, Row, Throw
<1>5. CASE StreamCloseFails
  BY <1>1, <1>2, <1>5 DEF StreamCloseFails, Goto, scan
<1>6. CASE CopierCloses
  BY <1>3, <1>6 DEF CopierCloses
<1>7. CASE CopierFails
  <2>1. CASE UNCHANGED commits
    BY <1>1, <2>1
  <2>2. CASE store[current.source] # Nil /\ Commit(store[current.source])
    <3>1. 0 \in {0, Len(store[current.source])} /\ pc = "copier" /\ Throw
      BY <1>7 DEF CopierFails
    <3>2. QED
      BY <1>3, <2>2, <3>1
  <2>3. QED
    BY <1>7, <2>1, <2>2 DEF CopierFails
<1>8. CASE CopyPanics
  BY <1>1, <1>2, <1>8 DEF CopyPanics, Throw
<1>9. CASE OpenFails \/ OpenCopyCursor \/ CopyFunc \/ ScanStops \/ FillChunk
           \/ StreamChunk \/ StreamFails \/ StreamEnds \/ AbortWriter
  BY <1>1, <1>9
  DEF OpenFails, OpenCopyCursor, CopyFunc, ScanStops, FillChunk, NextPair, PairFailsToOpen,
      ChunkReturns, StreamChunk, StreamFails, StreamEnds, AbortWriter
<1>10. CASE Clients
  BY <1>1, <1>10 DEF Clients, ClientWrites
<1>11. CASE UNCHANGED vars
  BY <1>1, <1>11 DEF vars
<1>12. QED
  BY <1>4, <1>5, <1>6, <1>7, <1>8, <1>9, <1>10, <1>11 DEF Next, copy_one

\* A source nobody touched since the plan was made is copied whole, by either way of copying, and
\* its row says its size.
THEOREM CopiesAreFaithful == Spec => FaithfulCopy
<1>1. IInv /\ [Next]_vars => [Faithful]_vars
  BY StepIsFaithful
<1>2. QED
  BY <1>1, Invariance, PTL DEF Spec, FaithfulCopy, Faithful

--------------------------------------------------------------------------------
(***************************************************************************)
(* A call comes to its end.                                                *)
(***************************************************************************)
LEMMA PairIsTaken ==
  ASSUME IInv, NextPair \/ PairFailsToOpen
  PROVE  Advances
<1>1. plan # <<>> /\ plan' = Tail(plan) /\ plan \in Seq(Pair)
  BY DEF NextPair, PairFailsToOpen, TakePair, IInv, TypeOK
<1>2. Len(plan') = Len(plan) - 1 /\ Len(plan) \in Nat
  BY <1>1, HeadTailProperties
<1> QED
  BY <1>2 DEF Advances

LEMMA RangeIsDone ==
  ASSUME IInv, StreamChunk
  PROVE  Advances
<1>1. pc' = pc /\ plan' = plan /\ current' = current /\ offset' = End /\ offset < current.size
  BY DEF StreamChunk
<1>2. offset \in Nat /\ current.size \in Nat /\ ChunkSize \in Nat \ {0}
  BY CopyAssumption DEF StreamChunk, IInv, Shape, Working, Pair, TypeOK
<1>3. offset < End /\ End <= current.size
  BY <1>1, <1>2 DEF End
<1> QED
  BY <1>1, <1>3 DEF Advances

LEMMA CallGoesOn ==
  ASSUME IInv, Next, pc \notin {"unopened", "returned"}
  PROVE  Advances \/ (Clients /\ UNCHANGED <<pc, scan>>)
<1>1. CASE NextPair \/ PairFailsToOpen
  BY <1>1, PairIsTaken
<1>2. CASE StreamChunk
  BY <1>2, RangeIsDone
<1>3. CASE Clients
  BY <1>3 DEF Clients, ClientWrites
<1>4. CASE \/ ChunkReturns \/ StreamFails \/ StreamEnds \/ StreamCloses \/ StreamCloseFails
           \/ AbortWriter \/ CopierCloses \/ CopierFails \/ CopyPanics
  <2>1. plan' = plan
    BY <1>4
    DEF ChunkReturns, StreamFails, StreamEnds, StreamCloses, StreamCloseFails, AbortWriter,
        CopierCloses, CopierFails, CopyPanics, scan
  <2>2. \/ pc = "loop" /\ pc' \in {"returned", "finished"}
        \/ pc = "stream" /\ pc' \in {"abort", "close", "failed"}
        \/ pc = "close" /\ pc' \in {"loop", "abort", "failed"}
        \/ pc = "abort" /\ pc' = "failed"
        \/ pc = "copier" /\ pc' \in {"loop", "failed"}
    BY <1>4
    DEF ChunkReturns, ChunkEnds, StreamFails, StreamEnds, StreamCloses, StreamCloseFails,
        AbortWriter, CopierCloses, CopierFails, CopyPanics, Goto, Row, Throw
  <2>3. StageOf(pc') < StageOf(pc)
    BY <2>2 DEF StageOf
  <2> QED
    BY <2>1, <2>3 DEF Advances
<1>5. ~(OpenFails \/ OpenCopyCursor \/ CopyFunc \/ ScanStops)
  BY DEF OpenFails, OpenCopyCursor, CopyFunc, ScanStops, Goto
<1> QED
  BY <1>1, <1>2, <1>3, <1>4, <1>5 DEF Next, FillChunk, copy_one

\* Every step of a call of CopyFunc brings it nearer to its end, for any sizes, chunks and vectors
\* and whatever happens to the sources: with a thread that does not stop, that is why it returns.
THEOREM CallsAdvance == Spec => CallAdvances
<1>1. IInv /\ [Next]_vars =>
        [pc \notin {"unopened", "returned"}
           => Advances \/ (Clients /\ UNCHANGED <<pc, scan>>)]_vars
  BY CallGoesOn
<1> QED
  BY <1>1, Invariance, PTL DEF Spec, CallAdvances
================================================================================
