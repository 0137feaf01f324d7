-------------------------- MODULE SchemeDispatchProofs --------------------------
(***************************************************************************)
(* Theorems about SchemeDispatch, for any threads, paths and settings.     *)
(*                                                                         *)
(* At every moment what is overridden now has been at some moment of the   *)
(* last dispatch of every thread, and what has been all along is now; so   *)
(* an answer that looks at the list as it is now is true of the dispatch.  *)
(*                                                                         *)
(* Reading a list one character at a time finds exactly its names: after   *)
(* each character those that have ended, and the one that has begun.       *)
(***************************************************************************)
EXTENDS SchemeDispatch, SequenceTheorems, WellFoundedInduction, TLAPS

HistoryIsKept ==
  \A t \in Threads : always[t] \subseteq g_override_schemes /\ g_override_schemes \subseteq ever[t]

\* Between its two calls a thread's scheme is that of the path it dispatches.
SchemeIsKept ==
  \A t \in Threads : dispatch[t].answer = "pending" => t_last_scheme[t] = Scheme(t)

IInv == TypeOK /\ SchemeIsKept /\ HistoryIsKept /\ TakenOnlyIfListed /\ LeftOnlyIfUnlisted

LEMMA InitHolds == Init => IInv
<1> SUFFICES ASSUME Init PROVE IInv
  OBVIOUS
<1> DEFINE d == [path |-> NoPath, answer |-> "not manual"]
<1>2. d \in Dispatch /\ d.answer = "not manual" /\ d.path = NoPath
  BY DEF Dispatch
<1> HIDE DEF d
<1>3. dispatch = [t \in Threads |-> d]
  BY DEF d, Init
<1>4. \A t \in Threads : dispatch[t] = d /\ always[t] = {} /\ ever[t] = {}
  BY <1>3 DEF Init
<1>5. TypeOK
  BY <1>2, <1>3, DispatchAssumption DEF Init, TypeOK
<1>6. SchemeIsKept /\ HistoryIsKept /\ TakenOnlyIfListed /\ LeftOnlyIfUnlisted
  BY <1>2, <1>4
  DEF Init, SchemeIsKept, HistoryIsKept, TakenOnlyIfListed, LeftOnlyIfUnlisted
<1>7. QED
  BY <1>5, <1>6 DEF IInv

\* What a dispatch record holds, and what setting its answer makes of it.
LEMMA AnswerIsTyped ==
  ASSUME NEW d \in Dispatch, d.answer = "pending", NEW a \in Answers
  PROVE  /\ d.path \in Paths /\ [d EXCEPT !.answer = a] \in Dispatch
         /\ [d EXCEPT !.answer = a].answer = a /\ [d EXCEPT !.answer = a].path = d.path
  BY DEF Dispatch, Answers

LEMMA SettingKeeps ==
  ASSUME IInv, NEW csv \in Csvs, SetOverrideSchemes(csv)
  PROVE  IInv'
<1>1. TypeOK' /\ SchemeIsKept'
  BY DEF IInv, TypeOK, SchemeIsKept, Scheme, SetOverrideSchemes, dispatching
<1>2. \A t \in Threads : always'[t] \subseteq always[t] /\ ever[t] \subseteq ever'[t]
  BY DEF SetOverrideSchemes
<1>3. HistoryIsKept'
  BY DEF SetOverrideSchemes, HistoryIsKept
<1>4. TakenOnlyIfListed' /\ LeftOnlyIfUnlisted'
  BY <1>2 DEF IInv, SetOverrideSchemes, dispatching, TakenOnlyIfListed, LeftOnlyIfUnlisted, Scheme
<1>5. QED
  BY <1>1, <1>3, <1>4 DEF IInv

LEMMA CanHandleKeeps ==
  ASSUME IInv, NEW t \in Threads, NEW p \in Paths, CanHandleFile(t, p)
  PROVE  IInv'
<1> DEFINE a == IF SchemeOf[p] = <<>> THEN "not manual" ELSE "pending"
           d == [path |-> p, answer |-> a]
<1>1. d \in Dispatch /\ d.answer = a /\ d.path = p
  BY DEF Dispatch, Answers
<1> HIDE DEF d
<1>2. /\ dispatch' = [dispatch EXCEPT ![t] = d]
      /\ t_last_scheme' = [t_last_scheme EXCEPT ![t] = SchemeOf[p]]
      /\ ever' = [ever EXCEPT ![t] = g_override_schemes]
      /\ always' = [always EXCEPT ![t] = g_override_schemes]
      /\ g_override_schemes' = g_override_schemes /\ setting' = setting
  BY DEF CanHandleFile, Slot, d
<1>3. /\ dispatch'[t] = d /\ t_last_scheme'[t] = SchemeOf[p]
      /\ ever'[t] = g_override_schemes /\ always'[t] = g_override_schemes
      /\ \A u \in Threads \ {t} :
           /\ dispatch'[u] = dispatch[u] /\ t_last_scheme'[u] = t_last_scheme[u]
           /\ ever'[u] = ever[u] /\ always'[u] = always[u]
  BY <1>2 DEF IInv, TypeOK
<1>4. TypeOK' /\ SchemeIsKept'
  BY <1>1, <1>2, <1>3 DEF IInv, TypeOK, SchemeIsKept, Scheme
<1>5. HistoryIsKept'
  BY <1>2, <1>3 DEF IInv, HistoryIsKept
<1>6. TakenOnlyIfListed' /\ LeftOnlyIfUnlisted'
  BY <1>1, <1>3 DEF IInv, TakenOnlyIfListed, LeftOnlyIfUnlisted, Scheme
<1>7. QED
  BY <1>4, <1>5, <1>6 DEF IInv

LEMMA ManuallySetKeeps ==
  ASSUME IInv, NEW t \in Threads, IsManuallySet(t)
  PROVE  IInv'
<1> DEFINE a == IF t_last_scheme[t] \in g_override_schemes THEN "manual" ELSE "not manual"
           d == [dispatch[t] EXCEPT !.answer = a]
<1>1. /\ dispatch[t] \in Dispatch /\ dispatch[t].answer = "pending"
      /\ t_last_scheme[t] = Scheme(t)
  BY DEF IInv, TypeOK, SchemeIsKept, IsManuallySet, Scheme
<1>2. a \in Answers
  BY DEF Answers
<1> HIDE DEF a
<1>3. d \in Dispatch /\ d.answer = a /\ d.path = dispatch[t].path /\ d.path \in Paths
  BY <1>1, <1>2, AnswerIsTyped
<1> HIDE DEF d
<1>4. /\ dispatch' = [dispatch EXCEPT ![t] = d]
      /\ UNCHANGED <<g_override_schemes, setting, t_last_scheme, ever, always>>
  BY DEF IsManuallySet, SchemeIsOverridden, Slot, history, d, a
<1>5. /\ dispatch'[t] = d
      /\ \A u \in Threads \ {t} : dispatch'[u] = dispatch[u]
  BY <1>4 DEF IInv, TypeOK
<1>6. TypeOK' /\ SchemeIsKept'
  <2>1. a # "pending"
    BY DEF a
  <2>2. \A u \in Threads : dispatch'[u].answer = "pending" => u # t /\ dispatch'[u] = dispatch[u]
    BY <1>3, <1>5, <2>1
  <2>3. dispatch' \in [Threads -> Dispatch]
    BY <1>3, <1>4 DEF IInv, TypeOK
  <2>4. QED
    BY <1>4, <2>2, <2>3 DEF IInv, TypeOK, SchemeIsKept, Scheme
<1>7. HistoryIsKept'
  BY <1>4 DEF IInv, HistoryIsKept
<1>8. Scheme(t)' = Scheme(t) /\ \A u \in Threads \ {t} : Scheme(u)' = Scheme(u)
  BY <1>3, <1>5 DEF Scheme
<1>9. \A u \in Threads : ever'[u] = ever[u] /\ always'[u] = always[u]
  BY <1>4
<1>10. TakenOnlyIfListed'
  <2>1. a = "manual" => Scheme(t) \in ever[t]
    BY <1>1 DEF a, IInv, HistoryIsKept
  <2>2. QED
    BY <1>3, <1>5, <1>8, <1>9, <2>1 DEF IInv, TakenOnlyIfListed
<1>11. LeftOnlyIfUnlisted'
  <2>1. a = "not manual" => Scheme(t) \notin always[t]
    BY <1>1 DEF a, IInv, HistoryIsKept
  <2>2. QED
    BY <1>3, <1>5, <1>8, <1>9, <2>1 DEF IInv, LeftOnlyIfUnlisted
<1>12. QED
  BY <1>6, <1>7, <1>10, <1>11 DEF IInv

LEMMA NextKeeps == IInv /\ [Next]_vars => IInv'
<1> SUFFICES ASSUME IInv, [Next]_vars PROVE IInv'
  OBVIOUS
<1>1. ASSUME NEW csv \in Csvs, SetOverrideSchemes(csv) PROVE IInv'
  BY <1>1, SettingKeeps
<1>2. ASSUME NEW t \in Threads, NEW p \in Paths, CanHandleFile(t, p)
      PROVE  IInv'
  BY <1>2, CanHandleKeeps
<1>3. ASSUME NEW t \in Threads, IsManuallySet(t) PROVE IInv'
  BY <1>3, ManuallySetKeeps
<1>4. CASE UNCHANGED vars
  BY <1>4
  DEF IInv, TypeOK, SchemeIsKept, HistoryIsKept, TakenOnlyIfListed, LeftOnlyIfUnlisted, Scheme,
      vars, dispatching, history
<1>5. QED
  BY <1>1, <1>2, <1>3, <1>4 DEF Next

LEMMA Invariance == Spec => []IInv
  BY InitHolds, NextKeeps, PTL DEF Spec

\* IsManuallySet is only asked after CanHandleFile has accepted a path.
THEOREM TypeCorrectness == Spec => []TypeOK
  BY Invariance, PTL DEF IInv

\* opendal takes a path only if its scheme was in the list at some moment of the dispatch, and
\* leaves one it can serve only if the scheme was out of the list at some moment.
THEOREM AnswersFit == Spec => []AnswersFitTheList
  BY Invariance, PTL DEF IInv, AnswersFitTheList

--------------------------------------------------------------------------------
(***************************************************************************)
(* Reading a list.  A recursive function is only known to be what its      *)
(* definition says once some function is; and the library's induction over *)
(* the numbers takes an operator, so it is done with a least               *)
(* counterexample.                                                         *)
(***************************************************************************)
\* A set of numbers has a least one.
LEMMA NatLeast ==
  ASSUME NEW T, T \subseteq Nat, T # {}
  PROVE  \E x \in T : \A y \in T : x <= y
<1>1. IsWellFoundedOn({ss \in Nat \X Nat : ss[1] < ss[2]}, Nat)
  BY NatLessThanWellFounded DEF OpToRel
<1>2. PICK x \in T : \A y \in T : <<y, x>> \notin {ss \in Nat \X Nat : ss[1] < ss[2]}
  BY <1>1, WFMin
<1>3. \A y \in T : ~(y < x)
  BY <1>2
<1>4. QED
  BY <1>3

\* A set that has 0 and with a number the next one has all up to n.
LEMMA UpTo ==
  ASSUME NEW n \in Nat, NEW T, 0 \in T, \A k \in 0..n : k < n /\ k \in T => k + 1 \in T
  PROVE  0..n \subseteq T
<1> SUFFICES ASSUME (0..n) \ T # {} PROVE FALSE
  OBVIOUS
<1>1. PICK k \in (0..n) \ T : \A j \in (0..n) \ T : k <= j
  <2>1. (0..n) \ T \subseteq Nat
    OBVIOUS
  <2>2. QED
    BY <2>1, NatLeast
<1>2. k # 0 /\ k - 1 \in 0..n /\ k - 1 < n
  OBVIOUS
<1>3. k - 1 \in T
  BY <1>1, <1>2
<1>4. (k - 1) + 1 \in T
  BY <1>2, <1>3
<1>5. QED
  BY <1>4

\* A function begins with s0 and goes on as F says.
Follows(f, s0, F, n) == f[0] = s0 /\ \A k \in 1..n : f[k] = F[<<k, f[k - 1]>>]

\* There is such a function.
LEMMA Recursion ==
  ASSUME NEW S, NEW s0 \in S, NEW n \in Nat, NEW F \in [(1..n) \X S -> S]
  PROVE  \E f \in [0..n -> S] : Follows(f, s0, F, n)
<1> DEFINE T == {k \in 0..n : \E f \in [0..n -> S] : Follows(f, s0, F, k)}
<1>1. 0 \in T
  <2> DEFINE f == [k \in 0..n |-> s0]
  <2>1. f \in [0..n -> S] /\ Follows(f, s0, F, 0) /\ 0 \in 0..n
    BY DEF Follows
  <2> HIDE DEF f
  <2>2. QED
    BY <2>1
<1>2. ASSUME NEW k \in 0..n, k < n, k \in T
      PROVE  k + 1 \in T
  <2>1. PICK f \in [0..n -> S] : Follows(f, s0, F, k)
    BY <1>2
  <2> DEFINE g == [f EXCEPT ![k + 1] = F[<<k + 1, f[k]>>]]
  <2>2. k + 1 \in 1..n /\ k + 1 \in 0..n
    BY <1>2
  <2>3. g \in [0..n -> S]
    BY <2>2
  <2>4. \A j \in 0..k : g[j] = f[j]
    BY <2>2
  <2>5. g[k + 1] = F[<<k + 1, f[k]>>]
    BY <2>2
  <2> HIDE DEF g
  <2>6. ASSUME NEW j \in 1..k + 1
        PROVE  g[j] = F[<<j, g[j - 1]>>]
    <3>1. CASE j = k + 1
      BY <2>4, <2>5, <3>1
    <3>2. CASE j # k + 1
      <4>1. j \in 0..k /\ j - 1 \in 0..k /\ j \in 1..k
        BY <3>2
      <4>2. QED
        BY <2>1, <2>4, <4>1 DEF Follows
    <3>3. QED
      BY <3>1, <3>2
  <2>7. g[0] = s0
    BY <2>1, <2>4 DEF Follows
  <2>8. QED
    BY <2>2, <2>3, <2>6, <2>7 DEF Follows
<1> HIDE DEF T
<1>3. n \in T
  BY <1>1, <1>2, UpTo
<1>4. QED
  BY <1>3 DEF T

\* What is read of a list with one more character.
Step(csv, before, k) ==
  IF csv[k] \in Separators
  THEN [set |-> before.set \cup ({before.cur} \ {<<>>}), cur |-> <<>>]
  ELSE [set |-> before.set, cur |-> Append(before.cur, Lower[csv[k]])]

LEMMA ReadingIs ==
  ASSUME NEW csv \in Seq(DOMAIN Lower \cup Separators)
  PROVE  /\ Reading(csv)[0] = [set |-> {}, cur |-> <<>>]
         /\ \A k \in 1..Len(csv) : Reading(csv)[k] = Step(csv, Reading(csv)[k - 1], k)
<1> DEFINE n == Len(csv)
           L == {Lower[c] : c \in DOMAIN Lower}
           S == [set : SUBSET Seq(L), cur : Seq(L)]
           s0 == [set |-> {}, cur |-> <<>>]
           F == [p \in (1..n) \X S |-> Step(csv, p[2], p[1])]
<1>1. s0 \in S
  OBVIOUS
<1>2. n \in Nat
  OBVIOUS
<1>3. F \in [(1..n) \X S -> S]
  <2> SUFFICES ASSUME NEW k \in 1..n, NEW before \in S
               PROVE  Step(csv, before, k) \in S
    OBVIOUS
  <2>1. csv[k] \in Separators \/ Lower[csv[k]] \in L
    OBVIOUS
  <2>2. QED
    BY <2>1 DEF Step
<1>4. \A k \in 1..n, before \in S : F[<<k, before>>] = Step(csv, before, k)
  OBVIOUS
<1> HIDE DEF n, L, S, s0, F
<1>5. /\ \A k \in 1..n : k - 1 \in 0..n /\ k \in 0..n /\ k # 0
      /\ \A k \in 0..n : k = 0 \/ k \in 1..n
      /\ 0 \in 0..n
  BY <1>2
<1>6. PICK f \in [0..n -> S] : Follows(f, s0, F, n)
  BY <1>1, <1>2, <1>3, Recursion
<1>7. \A k \in 1..n : f[k] = Step(csv, f[k - 1], k)
  <2> SUFFICES ASSUME NEW k \in 1..n PROVE f[k] = Step(csv, f[k - 1], k)
    OBVIOUS
  <2>1. f[k - 1] \in S
    BY Zenon, <1>5, <1>6
  <2> QED
    BY Zenon, <1>4, <1>6, <2>1 DEF Follows
<1> DEFINE Next1(h, k) == IF k = 0 THEN [set |-> {}, cur |-> <<>>]
             ELSE IF csv[k] \in Separators
               THEN [set |-> h[k - 1].set \cup ({h[k - 1].cur} \ {<<>>}), cur |-> <<>>]
               ELSE [set |-> h[k - 1].set, cur |-> Append(h[k - 1].cur, Lower[csv[k]])]
<1>8. f = [k \in 0..Len(csv) |-> Next1(f, k)]
  <2>1. ASSUME NEW k \in 0..n PROVE f[k] = Next1(f, k)
    <3>1. CASE k = 0
      BY Zenon, <1>6, <3>1 DEF s0, Follows
    <3>2. CASE k # 0
      BY Zenon, <1>5, <1>7, <3>2 DEF Step
    <3> QED
      BY <3>1, <3>2
  <2> HIDE DEF Next1
  <2> QED
    BY Zenon, <1>6, <2>1 DEF n
<1>9. Reading(csv) = [k \in 0..Len(csv) |-> Next1(Reading(csv), k)]
  BY Zenon, <1>8 DEF Reading
<1> HIDE DEF Next1
<1>10. \A k \in 0..n : Reading(csv)[k] = Next1(Reading(csv), k)
  BY Zenon, <1>9 DEF n
<1> QED
  BY Zenon, <1>5, <1>10 DEF n, Next1, Step

--------------------------------------------------------------------------------
\* The names that a character up to the k-th follows, and the name that has begun before it.
Read(csv, k) == {Name(csv, e) : e \in {x \in Names(csv) : x[2] < k}}
Begun(csv, b, k) ==
  /\ b \in 1..k + 1 /\ Bound(csv, b - 1)
  /\ \A i \in b..k : ~Bound(csv, i)

LEMMA NameIsEmpty ==
  ASSUME NEW csv \in Seq(DOMAIN Lower \cup Separators),
         NEW b \in Nat, NEW k \in Nat, b <= k + 1
  PROVE  Name(csv, <<b, k>>) = <<>> <=> b = k + 1
<1> DEFINE m == k + 1 - b
           nm == [i \in 1..m |-> Lower[csv[b + i - 1]]]
<1>1. Name(csv, <<b, k>>) = nm
  BY DEF Name
<1>2. m \in Nat /\ (m = 0 <=> b = k + 1)
  OBVIOUS
<1> HIDE DEF m
<1>3. m # 0 => 1 \in DOMAIN nm
  BY <1>2
<1>4. m = 0 => nm = <<>>
  BY <1>2
<1>5. QED
  BY <1>1, <1>2, <1>3, <1>4

\* A separator, or the end, ends the name that has begun, if it has a character.
LEMMA NameEnds ==
  ASSUME NEW csv \in Seq(DOMAIN Lower \cup Separators), NEW k \in 0..Len(csv), NEW b,
         Begun(csv, b, k), Bound(csv, k + 1)
  PROVE  Read(csv, k + 1) = Read(csv, k) \cup ({Name(csv, <<b, k>>)} \ {<<>>})
<1> DEFINE e0 == <<b, k>>
<1>0. b \in 1..k + 1 /\ b \in Nat /\ k \in Nat /\ DOMAIN csv = 1..Len(csv) /\ Len(csv) \in Nat
  BY DEF Begun
<1>1. ASSUME NEW e \in Names(csv), e[2] = k
      PROVE  e = e0 /\ b <= k
  <2>1. /\ e = <<e[1], k>> /\ e[1] \in 1..k /\ Bound(csv, e[1] - 1)
        /\ \A i \in e[1]..k : ~Bound(csv, i)
    BY <1>0, <1>1 DEF Names
  <2>2. ~(e[1] < b)
    <3> SUFFICES ASSUME e[1] < b PROVE FALSE
      OBVIOUS
    <3>1. b - 1 \in e[1]..k
      BY <1>0, <2>1
    <3>2. QED
      BY <2>1, <3>1 DEF Begun
  <2>3. ~(b < e[1])
    <3> SUFFICES ASSUME b < e[1] PROVE FALSE
      OBVIOUS
    <3>1. e[1] - 1 \in b..k
      BY <1>0, <2>1
    <3>2. QED
      BY <2>1, <3>1 DEF Begun
  <2>4. e[1] = b
    BY <1>0, <2>1, <2>2, <2>3
  <2>5. QED
    BY <1>0, <2>1, <2>4
<1>2. b <= k => e0 \in Names(csv) /\ e0[2] = k
  BY <1>0 DEF Begun, Names
<1>3. (b <= k) <=> Name(csv, e0) # <<>>
  <2>1. b <= k + 1 /\ (b = k + 1 <=> ~(b <= k))
    BY <1>0
  <2>2. Name(csv, <<b, k>>) = <<>> <=> b = k + 1
    BY <1>0, <2>1, NameIsEmpty
  <2>3. QED
    BY <2>1, <2>2
<1>4. \A e \in Names(csv) : e[2] \in Nat
  BY <1>0 DEF Names
<1>5. ASSUME NEW e \in Names(csv)
      PROVE  e[2] < k + 1 <=> e[2] < k \/ e[2] = k
  BY <1>0, <1>4
<1> HIDE DEF e0
<1>6. {x \in Names(csv) : x[2] < k + 1} =
        {x \in Names(csv) : x[2] < k} \cup (IF b <= k THEN {e0} ELSE {})
  BY <1>1, <1>2, <1>5
<1>7. QED
  BY <1>3, <1>6 DEF Read, e0

\* Any other character goes on with it.
LEMMA NameGoesOn ==
  ASSUME NEW csv \in Seq(DOMAIN Lower \cup Separators), NEW k \in 0..Len(csv) - 1, NEW b,
         Begun(csv, b, k), ~Bound(csv, k + 1)
  PROVE  /\ Read(csv, k + 1) = Read(csv, k) /\ Begun(csv, b, k + 1)
         /\ Name(csv, <<b, k + 1>>) = Append(Name(csv, <<b, k>>), Lower[csv[k + 1]])
<1>0. b \in 1..k + 1 /\ b \in Nat /\ k \in Nat /\ DOMAIN csv = 1..Len(csv) /\ Len(csv) \in Nat
  BY DEF Begun
<1>1. Read(csv, k + 1) = Read(csv, k)
  <2>1. ASSUME NEW e \in Names(csv)
        PROVE  e[2] < k + 1 <=> e[2] < k
    <3>1. e[2] \in Nat /\ Bound(csv, e[2] + 1)
      BY <1>0 DEF Names
    <3>2. QED
      BY <1>0, <3>1
  <2>2. QED
    BY <2>1 DEF Read
<1>2. Begun(csv, b, k + 1)
  <2>1. \A i \in b..k + 1 : i \in b..k \/ i = k + 1
    BY <1>0
  <2>2. QED
    BY <1>0, <2>1 DEF Begun
<1>3. Name(csv, <<b, k + 1>>) = Append(Name(csv, <<b, k>>), Lower[csv[k + 1]])
  <2> DEFINE m == k + 1 - b
             L == {Lower[csv[b + i - 1]] : i \in 1..m + 1}
             s1 == [i \in 1..m |-> Lower[csv[b + i - 1]]]
             s2 == [i \in 1..m + 1 |-> Lower[csv[b + i - 1]]]
  <2>1. m \in Nat /\ b + (m + 1) - 1 = k + 1
    BY <1>0
  <2>2. Name(csv, <<b, k>>) = s1
    BY DEF Name
  <2>3. Name(csv, <<b, k + 1>>) = s2
    <3>1. (k + 1) + 1 - b = m + 1
      BY <1>0
    <3>2. QED
      BY <3>1 DEF Name
  <2>4. s1 \in [1..m -> L] /\ s2 \in [1..m + 1 -> L]
    BY <2>1
  <2>5. \A i \in 1..m : s2[i] = s1[i]
    BY <2>1
  <2>6. s2[m + 1] = Lower[csv[k + 1]]
    BY <2>1
  <2> HIDE DEF m, L, s1, s2
  <2>7. s1 \in Seq(L) /\ Len(s1) = m
    BY <2>1, <2>4
  <2>8. s2 = Append(s1, Lower[csv[k + 1]])
    BY <2>1, <2>4, <2>5, <2>6, <2>7
  <2>9. QED
    BY <2>2, <2>3, <2>8
<1>4. QED
  BY <1>1, <1>2, <1>3

LEMMA SchemesAreNames ==
  ASSUME NEW csv \in Csvs
  PROVE  Schemes(csv) = {Name(csv, e) : e \in Names(csv)}
<1>0. csv \in Seq(DOMAIN Lower \cup Separators)
  BY DispatchAssumption
<1> DEFINE n == Len(csv)
           Right(k) == \E b \in 1..k + 1 :
             /\ Begun(csv, b, k)
             /\ Reading(csv)[k] = [set |-> Read(csv, k), cur |-> Name(csv, <<b, k>>)]
           T == {k \in 0..n : Right(k)}
<1>1. n \in Nat /\ DOMAIN csv = 1..n
  BY <1>0
<1>2. 0 \in T
  <2>1. Name(csv, <<1, 0>>) = <<>>
    <3>1. 1 \in Nat /\ 0 \in Nat /\ 1 <= 0 + 1 /\ 1 = 0 + 1
      OBVIOUS
    <3>2. QED
      BY <1>0, <3>1, NameIsEmpty, Zenon
  <2>2. Read(csv, 0) = {}
    BY <1>1 DEF Read, Names
  <2>3. Begun(csv, 1, 0)
    BY <1>1 DEF Begun, Bound
  <2>4. Reading(csv)[0] = [set |-> Read(csv, 0), cur |-> Name(csv, <<1, 0>>)]
    BY <1>0, <2>1, <2>2, ReadingIs
  <2>5. QED
    BY <1>1, <2>3, <2>4
<1>3. ASSUME NEW k \in 0..n, k < n, k \in T
      PROVE  k + 1 \in T
  <2>1. PICK b \in 1..k + 1 :
          /\ Begun(csv, b, k)
          /\ Reading(csv)[k] = [set |-> Read(csv, k), cur |-> Name(csv, <<b, k>>)]
    BY <1>3
  <2>2. /\ k + 1 \in 1..n /\ (k + 1) - 1 = k
        /\ k \in 0..Len(csv) - 1 /\ k \in 0..Len(csv) /\ k \in Nat
    BY <1>1, <1>3
  <2>3. Reading(csv)[k + 1] = Step(csv, Reading(csv)[k], k + 1)
    BY <1>0, <2>2, ReadingIs
  <2>4. Bound(csv, k + 1) <=> csv[k + 1] \in Separators
    BY <1>1, <2>2 DEF Bound
  <2> SUFFICES Right(k + 1)
    BY <2>2
  <2> HIDE DEF n
  <2>5. CASE csv[k + 1] \in Separators
    <3>1. Reading(csv)[k + 1] =
            [set |-> Read(csv, k) \cup ({Name(csv, <<b, k>>)} \ {<<>>}), cur |-> <<>>]
      BY <2>1, <2>3, <2>5 DEF Step
    <3>2. Read(csv, k + 1) = Read(csv, k) \cup ({Name(csv, <<b, k>>)} \ {<<>>})
      BY <1>0, <2>1, <2>2, <2>4, <2>5, NameEnds
    <3>3. Name(csv, <<k + 2, k + 1>>) = <<>>
      <4>1. k + 1 \in Nat /\ k + 2 \in Nat /\ k + 2 <= (k + 1) + 1 /\ k + 2 = (k + 1) + 1
        BY <2>2
      <4>2. QED
        BY <1>0, <4>1, NameIsEmpty, Zenon
    <3>4. Begun(csv, k + 2, k + 1)
      BY <2>2, <2>4, <2>5 DEF Begun
    <3>5. k + 2 \in 1..(k + 1) + 1
      BY <2>2
    <3>6. QED
      BY <2>2, <3>1, <3>2, <3>3, <3>4, <3>5
  <2>6. CASE csv[k + 1] \notin Separators
    <3>1. Reading(csv)[k + 1] =
            [set |-> Read(csv, k), cur |-> Append(Name(csv, <<b, k>>), Lower[csv[k + 1]])]
      BY <2>1, <2>3, <2>6 DEF Step
    <3>2. /\ Read(csv, k + 1) = Read(csv, k) /\ Begun(csv, b, k + 1)
          /\ Name(csv, <<b, k + 1>>) = Append(Name(csv, <<b, k>>), Lower[csv[k + 1]])
      BY <1>0, <2>1, <2>2, <2>4, <2>6, NameGoesOn
    <3>3. b \in 1..(k + 1) + 1
      BY <2>2
    <3>4. QED
      BY <2>2, <3>1, <3>2, <3>3
  <2>7. QED
    BY <2>5, <2>6
<1> HIDE DEF T
<1>4. n \in T
  <2>1. 0..n \subseteq T
    BY <1>1, <1>2, <1>3, UpTo
  <2>2. QED
    BY <1>1, <2>1
<1>5. PICK b \in 1..n + 1 :
        /\ Begun(csv, b, n)
        /\ Reading(csv)[n] = [set |-> Read(csv, n), cur |-> Name(csv, <<b, n>>)]
  BY <1>4 DEF T
<1>6. Bound(csv, n + 1) /\ n \in 0..Len(csv)
  BY <1>1 DEF Bound
<1>7. Read(csv, n + 1) = Read(csv, n) \cup ({Name(csv, <<b, n>>)} \ {<<>>})
  BY <1>0, <1>1, <1>5, <1>6, NameEnds
<1>8. Read(csv, n + 1) = {Name(csv, e) : e \in Names(csv)}
  <2>1. \A e \in Names(csv) : e[2] < n + 1
    BY <1>1 DEF Names
  <2>2. QED
    BY <2>1 DEF Read
<1>9. Schemes(csv) = Read(csv, n) \cup ({Name(csv, <<b, n>>)} \ {<<>>})
  BY <1>5 DEF Schemes
<1>10. QED
  BY <1>7, <1>8, <1>9

\* The list is at every moment what the last SET of it, of whatever session, says: every name of the
\* setting, in lower case, whatever separators are around it, and nothing else.
THEOREM ListIsTheSetting == Spec => []ListIsRead
<1>1. Init => ListIsRead
  <2>1. Names(<<>>) = {}
    <3>1. DOMAIN <<>> = {}
      OBVIOUS
    <3>2. QED
      BY <3>1 DEF Names
  <2>2. QED
    BY <2>1 DEF Init, ListIsRead
<1>2. ListIsRead /\ [Next]_vars => ListIsRead'
  <2> SUFFICES ASSUME ListIsRead, [Next]_vars PROVE ListIsRead'
    OBVIOUS
  <2>1. ASSUME NEW csv \in Csvs, SetOverrideSchemes(csv) PROVE ListIsRead'
    BY <2>1, SchemesAreNames DEF SetOverrideSchemes, ListIsRead
  <2>2. CASE UNCHANGED <<g_override_schemes, setting>>
    BY <2>2 DEF ListIsRead, Names, Name, Bound
  <2>3. QED
    BY <2>1, <2>2 DEF Next, CanHandleFile, IsManuallySet, vars
<1>3. QED
  BY <1>1, <1>2, PTL DEF Spec
================================================================================
