----------------------------- MODULE SchemeDispatch -----------------------------
(***************************************************************************)
(* Which file system serves a URL: CanHandleFile and IsManuallySet of      *)
(* OpenDalFileSystem, which DuckDB calls one after the other on one        *)
(* thread, opendal_is_manually_set, which does the same, and the setting   *)
(* opendal_override_native_filesystems, which any session may change at    *)
(* any moment.                                                             *)
(*                                                                         *)
(* A scheme is a sequence of lower-case characters, empty where ParseUrl   *)
(* refuses the path.                                                       *)
(***************************************************************************)
EXTENDS Naturals, Sequences

CONSTANTS
  Threads,
  Paths,
  SchemeOf,    \* the scheme ParseUrl gives a path
  Csvs,        \* bound: the values of the setting to explore
  Lower        \* std::tolower of the characters in use

Separators == {",", " ", "\t"}

ASSUME DispatchAssumption == <<>> \in Csvs /\ Csvs \subseteq Seq(DOMAIN Lower \cup Separators)

VARIABLES
  g_override_schemes,
  setting,        \* the value of the last SET, of whatever session
  t_last_scheme,
  dispatch,       \* the last dispatch of each thread, possibly in progress
  ever,           \* history: the schemes overridden at some moment of it
  always          \* history: the schemes overridden all along

dispatching == <<t_last_scheme, dispatch>>
history == <<ever, always>>
vars == <<g_override_schemes, setting, dispatching, history>>

NoPath == "no path"
Answers == {"pending", "manual", "not manual"}
Dispatch ==
  [path: Paths, answer: Answers] \cup [path: {NoPath}, answer: {"not manual"}]

TypeOK ==
  /\ setting \in Csvs
  /\ DOMAIN t_last_scheme = Threads /\ dispatch \in [Threads -> Dispatch]
  /\ DOMAIN ever = Threads /\ DOMAIN always = Threads
  /\ \A t \in Threads : dispatch[t].answer = "pending" => SchemeOf[dispatch[t].path] # <<>>

Init ==
  /\ g_override_schemes = {}
  /\ setting = <<>>
  /\ t_last_scheme = [t \in Threads |-> <<>>]
  /\ dispatch = [t \in Threads |-> [path |-> NoPath, answer |-> "not manual"]]
  /\ ever = [t \in Threads |-> {}] /\ always = ever

--------------------------------------------------------------------------------
\* What is read of a list up to each of its characters: the names that a separator follows, and the
\* one that has begun.
Reading(csv) ==
  LET read[k \in 0..Len(csv)] ==
        IF k = 0 THEN [set |-> {}, cur |-> <<>>]
        ELSE IF csv[k] \in Separators
          THEN [set |-> read[k - 1].set \cup ({read[k - 1].cur} \ {<<>>}), cur |-> <<>>]
          ELSE [set |-> read[k - 1].set, cur |-> Append(read[k - 1].cur, Lower[csv[k]])]
  IN read

\* Mutant: a name is only complete when a separator follows it.
Schemes_unflushed(csv) == Reading(csv)[Len(csv)].set

Schemes(csv) ==
  LET all == Reading(csv)[Len(csv)] IN all.set \cup ({all.cur} \ {<<>>})

\* The list is read first, then replaces the old one under the mutex.  There is one list in the
\* process: the scope of the SET is not looked at.
SetOverrideSchemes(csv) ==
  /\ g_override_schemes' = Schemes(csv)
  /\ setting' = csv
  /\ ever' = [t \in Threads |-> ever[t] \cup g_override_schemes']
  /\ always' = [t \in Threads |-> always[t] \cap g_override_schemes']
  /\ UNCHANGED dispatching

\* Mutant: one variable for all threads.
Slot_shared(t) == CHOOSE u \in Threads : TRUE

\* thread_local.
Slot(t) == t

\* A path that is refused is left to the other file systems.
CanHandleFile(t, p) ==
  /\ dispatch[t].answer # "pending"
  /\ t_last_scheme' = [t_last_scheme EXCEPT ![Slot(t)] = SchemeOf[p]]
  /\ dispatch' = [dispatch EXCEPT ![t] =
       [path |-> p, answer |-> IF SchemeOf[p] = <<>> THEN "not manual" ELSE "pending"]]
  /\ ever' = [ever EXCEPT ![t] = g_override_schemes]
  /\ always' = [always EXCEPT ![t] = g_override_schemes]
  /\ UNCHANGED <<g_override_schemes, setting>>

SchemeIsOverridden(scheme) == scheme \in g_override_schemes

IsManuallySet(t) ==
  /\ dispatch[t].answer = "pending"
  /\ dispatch' = [dispatch EXCEPT ![t].answer =
       IF SchemeIsOverridden(t_last_scheme[Slot(t)]) THEN "manual" ELSE "not manual"]
  /\ UNCHANGED <<g_override_schemes, setting, t_last_scheme, history>>

Next ==
  \/ \E csv \in Csvs : SetOverrideSchemes(csv)
  \/ \E t \in Threads, p \in Paths : CanHandleFile(t, p)
  \/ \E t \in Threads : IsManuallySet(t)

Spec == Init /\ [][Next]_vars

--------------------------------------------------------------------------------
(***************************************************************************)
(* Properties.                                                             *)
(***************************************************************************)
Scheme(t) == SchemeOf[dispatch[t].path]

\* opendal takes a path from the native file systems only if the scheme of that very path was in
\* the list at some moment of the dispatch, whatever the other threads dispatch meanwhile and
\* however the list changes between the two calls.
TakenOnlyIfListed ==
  \A t \in Threads : dispatch[t].answer = "manual" => Scheme(t) \in ever[t]

\* It leaves a path it can serve to them only if the scheme was out of the list at some moment: a
\* change from one list with the scheme to another with it is never seen as a list without it.
LeftOnlyIfUnlisted ==
  \A t \in Threads :
    dispatch[t].answer = "not manual" /\ dispatch[t].path # NoPath /\ Scheme(t) # <<>> =>
      Scheme(t) \notin always[t]

\* Both: an answer fits the path it is about and a list that was in force during the dispatch.
AnswersFitTheList == TakenOnlyIfListed /\ LeftOnlyIfUnlisted

Bound(csv, k) == k \notin DOMAIN csv \/ csv[k] \in Separators
Names(csv) ==
  {e \in (DOMAIN csv) \X (DOMAIN csv) :
     /\ e[1] <= e[2] /\ Bound(csv, e[1] - 1) /\ Bound(csv, e[2] + 1)
     /\ \A k \in e[1]..e[2] : ~Bound(csv, k)}
Name(csv, e) == [k \in 1..e[2] + 1 - e[1] |-> Lower[csv[e[1] + k - 1]]]

\* The list holds the longest stretches of a setting without separators, in lower case, the last
\* one included, and never the empty scheme of a path that was refused.
ListIsRead == g_override_schemes = {Name(setting, e) : e \in Names(setting)}
================================================================================
