----------------------------- MODULE EntryScanProofs -----------------------------
(***************************************************************************)
(* Theorems about EntryScan, for any entries, directories, patterns, sizes *)
(* and chunks.                                                             *)
(*                                                                         *)
(* Every entry that has existed all along and is wanted is still ahead of  *)
(* the listing, on the page, or delivered; what is delivered comes before  *)
(* what is on the page, and that before what is ahead.  opendal_du changes *)
(* from entries to directories in between: the same then holds of the      *)
(* directories, with nothing ahead, and the totals are counted from a page *)
(* that lies between what existed all along and what has existed.  Then    *)
(* come the budget of an operation, and the theorems about Existence.      *)
(***************************************************************************)
EXTENDS EntryScan, Existence, SequenceTheorems, FiniteSetTheorems, TLAPS

\* What each phase says of the rest.
Stage ==
  /\ phase \in {"init", "collect"} => rows = <<>>
  /\ phase = "init" => page = {} /\ last = 0
  /\ phase = "collect" => ~finished
  /\ phase = "callback" => kind \in Calls /\ last = NumKeys
  /\ phase = "idle" /\ count = 0 => finished
  /\ finished => page = {} /\ last = NumKeys /\ phase \notin {"init", "ready", "call"}
  /\ phase = "done" => page = {} /\ (absent \/ last = NumKeys)
  /\ absent => phase = "done" /\ kind \in Calls /\ rows = <<>>

\* Whether the page holds directories.
Grouped == kind \in Totals /\ phase \notin {"init", "collect"}

InOrder ==
  /\ RowsInOrder
  /\ \A i \in DOMAIN rows : \A p \in page : rows[i] < p
  /\ kind \notin Totals => /\ \A p \in page : p <= last
                           /\ \A i \in DOMAIN rows : rows[i] <= last

PageIsReal ==
  phase # "failed" =>
    /\ Grouped => last = NumKeys /\ page \subseteq ItemsOf(seen)
    /\ ~Grouped => page \subseteq seen

NothingLost ==
  phase # "failed" /\ ~absent =>
    \A k \in stable : Wanted(k) =>
      IF Grouped THEN Parent[k] \in page \cup Range(rows)
                 ELSE last < k \/ k \in page \cup Range(rows)

IInv ==
  /\ TypeOK /\ Stage
  /\ InOrder /\ PageIsReal /\ NothingInvented /\ NothingLost

--------------------------------------------------------------------------------
\* What is wanted depends on the operation alone, and more entries have more items.
LEMMA ItemsGrow ==
  ASSUME kind' = kind, NEW a, NEW b, a \subseteq b
  PROVE  /\ \A k : Wanted(k)' <=> Wanted(k)
         /\ ItemsOf(a) \subseteq ItemsOf(b)
         /\ ItemsOf(b)' = ItemsOf(b)
<1>1. \A k : Wanted(k)' <=> Wanted(k)
  BY DEF Wanted
<1>2. \A k : Item(k)' = Item(k)
  BY DEF Item
<1>3. QED
  BY <1>1, <1>2 DEF ItemsOf

\* A row that comes after all the others.
LEMMA AppendInOrder ==
  ASSUME NEW rs \in Seq(Things), NEW item \in Things,
         \A i, j \in DOMAIN rs : i < j => rs[i] < rs[j],
         \A i \in DOMAIN rs : rs[i] < item
  PROVE  LET more == Append(rs, item) IN
         /\ more \in Seq(Things)
         /\ \A i, j \in DOMAIN more : i < j => more[i] < more[j]
         /\ \A i \in DOMAIN more : more[i] = item \/ more[i] \in Range(rs)
         /\ Range(more) = Range(rs) \cup {item}
<1> DEFINE more == Append(rs, item)
<1>1. /\ more \in Seq(Things) /\ Len(more) = Len(rs) + 1
      /\ \A i \in 1..Len(rs) : more[i] = rs[i]
      /\ more[Len(rs) + 1] = item
  BY AppendProperties
<1>2. DOMAIN rs = 1..Len(rs) /\ DOMAIN more = 1..Len(rs) + 1 /\ Len(rs) \in Nat
  BY <1>1
<1> HIDE DEF more
<1>3. \A i \in DOMAIN more : \/ i = Len(rs) + 1 /\ more[i] = item
                             \/ i \in DOMAIN rs /\ more[i] = rs[i]
  BY <1>1, <1>2
<1>4. \A i, j \in DOMAIN more : i < j => more[i] < more[j]
  <2> SUFFICES ASSUME NEW i \in DOMAIN more, NEW j \in DOMAIN more, i < j
               PROVE  more[i] < more[j]
    OBVIOUS
  <2>1. i \in DOMAIN rs /\ more[i] = rs[i]
    BY <1>2, <1>3
  <2>2. QED
    BY <1>3, <2>1
<1>5. Range(more) = Range(rs) \cup {item}
  <2>1. Range(more) \subseteq Range(rs) \cup {item}
    BY <1>3 DEF Range
  <2>2. Range(rs) \subseteq Range(more)
    BY <1>1, <1>2 DEF Range
  <2>3. item \in Range(more)
    BY <1>1, <1>2 DEF Range
  <2>4. QED
    BY <2>1, <2>2, <2>3
<1>6. \A i \in DOMAIN more : more[i] = item \/ more[i] \in Range(rs)
  BY <1>3 DEF Range
<1>7. QED
  BY <1>1, <1>4, <1>5, <1>6 DEF more

--------------------------------------------------------------------------------
\* A step that moves nothing, only from one phase to another.
LEMMA QuietKeeps ==
  ASSUME IInv, UNCHANGED <<world, last, page, rows>>, phase # "failed",
         phase' \in Phases, count' \in 0..VectorSize, finished' \in BOOLEAN, Stage',
         phase' # "failed" => (Grouped' <=> Grouped)
  PROVE  IInv'
<1>1. UNCHANGED <<kind, absent, store, stable, seen, last, page, rows>>
  BY DEF world
<1>2. TypeOK'
  BY <1>1 DEF IInv, TypeOK
<1>3. InOrder'
  BY <1>1 DEF IInv, InOrder, RowsInOrder
<1>4. /\ ItemsOf(seen)' = ItemsOf(seen)
      /\ \A k : Wanted(k)' <=> Wanted(k)
  BY <1>1, ItemsGrow
<1>5. PageIsReal'
  BY <1>1, <1>4 DEF IInv, PageIsReal
<1>6. NothingInvented'
  BY <1>1, <1>4 DEF IInv, NothingInvented
<1>7. NothingLost'
  BY <1>1, <1>4 DEF IInv, NothingLost
<1>8. QED
  BY <1>2, <1>3, <1>5, <1>6, <1>7 DEF IInv

LEMMA InitHolds == Init => IInv
<1> SUFFICES ASSUME Init PROVE IInv
  OBVIOUS
<1>1. rows = <<>> /\ DOMAIN rows = {} /\ Range(rows) = {}
  BY DEF Init, Range
<1>2. TypeOK
  <2>1. /\ stable \subseteq store /\ store \subseteq seen /\ seen \subseteq Keys
        /\ phase \in Phases /\ page \subseteq Things /\ finished \in BOOLEAN /\ kind \in Kinds
        /\ absent \in BOOLEAN
    BY DEF Init, Phases
  <2>2. last \in 0..NumKeys /\ count \in 0..VectorSize
    BY ScanAssumption DEF Init
  <2>3. rows \in Seq(Things)
    BY <1>1
  <2>4. QED
    BY <2>1, <2>2, <2>3 DEF TypeOK
<1>3. Stage
  BY <1>1 DEF Init, Stage
<1>4. InOrder /\ PageIsReal /\ NothingInvented
  BY <1>1, ScanAssumption
  DEF Init, InOrder, RowsInOrder, PageIsReal, Grouped, NothingInvented
<1>5. ~Grouped /\ last = 0 /\ stable \subseteq Keys
  BY DEF Init, Grouped
<1>6. \A k \in stable : last < k
  BY <1>5, ScanAssumption DEF Keys
<1>7. NothingLost
  BY <1>5, <1>6 DEF NothingLost
<1>8. QED
  BY <1>2, <1>3, <1>4, <1>7 DEF IInv

\* Another program creates or removes an entry.
LEMMA ChangeKeeps ==
  ASSUME IInv, NEW k \in Keys, Change(k)
  PROVE  IInv'
<1>1. /\ UNCHANGED <<kind, absent, phase, last, page, rows, count, finished>>
      /\ stable' = stable \cap store' /\ seen' = seen \cup store' /\ store' \subseteq Keys
  BY DEF Change, delivery, IInv, TypeOK
<1>2. TypeOK'
  BY <1>1 DEF IInv, TypeOK
<1>3. Stage' /\ InOrder'
  BY <1>1 DEF IInv, Stage, InOrder, RowsInOrder
<1>4. /\ ItemsOf(seen) \subseteq ItemsOf(seen)'
      /\ \A key : Wanted(key)' <=> Wanted(key)
  BY <1>1 DEF ItemsOf, Item, Wanted
<1>5. Grouped' <=> Grouped
  BY <1>1 DEF Grouped
<1>6. PageIsReal' /\ NothingInvented'
  BY <1>1, <1>4, <1>5 DEF IInv, PageIsReal, NothingInvented
<1>7. NothingLost'
  BY <1>1, <1>4, <1>5 DEF IInv, NothingLost
<1>8. QED
  BY <1>2, <1>3, <1>6, <1>7 DEF IInv

\* A page is fetched: what is ahead of the listing lands on the page or stays ahead.
LEMMA FetchKeeps ==
  ASSUME IInv, Fetch
  PROVE  IInv'
<1>1. PICK m \in Keys :
        /\ last < m /\ last' = m
        /\ page' = page \cup {k \in store : last < k /\ k <= m}
  BY DEF Fetch
<1>2. /\ UNCHANGED <<kind, absent, store, stable, seen, phase, rows, count, finished>>
      /\ phase \in {"collect", "call"}
  BY DEF Fetch, world, delivery
<1>3. last \in 0..NumKeys /\ last # NumKeys /\ m \in Nat /\ m <= NumKeys
  BY <1>1, ScanAssumption DEF IInv, TypeOK, Keys
<1>4. ~Grouped /\ ~Grouped' /\ (kind \in Totals => phase = "collect")
  <2>1. Grouped => last = NumKeys
    BY <1>2 DEF IInv, PageIsReal
  <2>2. ~Grouped
    BY <1>3, <2>1
  <2>3. QED
    BY <1>2, <2>2 DEF Grouped
<1>5. TypeOK'
  <2>1. page' \subseteq Things
    BY <1>1 DEF IInv, TypeOK, Things
  <2>2. last' \in 0..NumKeys
    BY <1>1, <1>3, ScanAssumption
  <2>3. QED
    BY <1>2, <2>1, <2>2 DEF IInv, TypeOK
<1>6. Stage'
  BY <1>2, <1>3 DEF IInv, Stage
<1>7. InOrder'
  <2>1. CASE kind \in Totals
    BY <1>2, <1>4, <2>1 DEF IInv, Stage, InOrder, RowsInOrder
  <2>2. CASE kind \notin Totals
    <3>1. \A p \in page' : p \in page \/ (p \in Keys /\ last < p /\ p <= m)
      BY <1>1 DEF IInv, TypeOK
    <3>2. \A i \in DOMAIN rows : rows[i] \in Int /\ rows[i] <= last
      BY <2>2, ScanAssumption DEF IInv, InOrder, TypeOK, Things, Keys, Directories
    <3>3. \A p \in page : p \in Int /\ p <= last
      BY <2>2, ScanAssumption DEF IInv, InOrder, TypeOK, Things, Keys, Directories
    <3>4. \A i \in DOMAIN rows : \A p \in page' : rows[i] < p
      BY <1>3, <3>1, <3>2 DEF IInv, InOrder, Keys
    <3>5. (\A p \in page' : p <= m) /\ (\A i \in DOMAIN rows : rows[i] <= m)
      BY <1>1, <1>3, <3>1, <3>2, <3>3
    <3>6. QED
      BY <1>1, <1>2, <3>4, <3>5 DEF IInv, InOrder, RowsInOrder
  <2>3. QED
    BY <2>1, <2>2
<1>8. /\ ItemsOf(seen)' = ItemsOf(seen)
      /\ \A k : Wanted(k)' <=> Wanted(k)
  BY <1>2, ItemsGrow
<1>9. PageIsReal'
  BY <1>1, <1>2, <1>4 DEF IInv, PageIsReal, TypeOK
<1>10. NothingInvented'
  BY <1>2, <1>8 DEF IInv, NothingInvented
<1>11. NothingLost'
  <2> SUFFICES ASSUME NEW k \in stable, Wanted(k)
               PROVE  m < k \/ k \in page' \cup Range(rows)
    BY <1>1, <1>2, <1>4, <1>8 DEF NothingLost
  <2>1. last < k \/ k \in page \cup Range(rows)
    BY <1>2, <1>4 DEF IInv, Stage, NothingLost
  <2>2. k \in store /\ k \in Nat
    BY DEF IInv, TypeOK, Keys
  <2>3. QED
    BY <1>1, <1>3, <2>1, <2>2
<1>12. QED
  BY <1>5, <1>6, <1>7, <1>9, <1>10, <1>11 DEF IInv

--------------------------------------------------------------------------------
\* The operation fails: nothing is said of what it leaves.
LEMMA FailKeeps ==
  ASSUME IInv, Fail, phase \notin Ended
  PROVE  IInv'
<1>1. UNCHANGED <<world, last, page, rows, count, finished>> /\ phase' = "failed"
  BY DEF Fail, delivery
<1>2. Stage'
  BY <1>1 DEF world, Ended, IInv, Stage
<1>3. QED
  BY <1>1, <1>2, QuietKeeps DEF Phases, Ended, IInv, TypeOK

\* Something is not found: what was listed is dropped, and no row has been given yet.
LEMMA NotFoundKeeps ==
  ASSUME IInv, NotFound
  PROVE  IInv'
<1>1. /\ UNCHANGED <<kind, store, stable, seen, last, rows, count, finished>>
      /\ kind \in Calls /\ phase \in {"init", "collect"}
      /\ phase' = "done" /\ absent' = TRUE /\ page' = {}
  BY DEF NotFound, delivery
<1>2. rows = <<>> /\ DOMAIN rows = {} /\ Range(rows) = {} /\ ~finished
  BY <1>1 DEF IInv, Stage, Range
<1>3. ~Grouped'
  BY <1>1 DEF Grouped, Calls, Totals
<1>4. TypeOK'
  BY <1>1 DEF IInv, TypeOK, Phases, Ended
<1>5. Stage'
  BY <1>1, <1>2 DEF Stage
<1>6. InOrder'
  BY <1>1, <1>2 DEF InOrder, RowsInOrder
<1>7. PageIsReal' /\ NothingInvented'
  BY <1>1, <1>2, <1>3 DEF PageIsReal, NothingInvented
<1>8. NothingLost'
  BY <1>1 DEF NothingLost
<1>9. QED
  BY <1>4, <1>5, <1>6, <1>7, <1>8 DEF IInv

\* The steps that only go on to another phase.
LEMMA PhaseKeeps ==
  ASSUME IInv,
         OpenList \/ OpenWhole \/ Collected \/ CallFunc \/ EndQuery \/ Drop \/ ChunkIsFull
           \/ ListingEnds \/ CallReturns
  PROVE  IInv'
<1>1. CASE OpenList \/ OpenWhole \/ Collected
  <2>1. /\ UNCHANGED <<world, last, page, rows, count, finished>>
        /\ phase \in {"init", "collect"} /\ phase' \in {"collect", "ready", "callback"}
        /\ phase' = "collect" => phase = "init"
        /\ phase' = "ready" => kind \in Lists
        /\ phase' = "callback" => kind \in Calls /\ last = NumKeys
    BY <1>1 DEF OpenList, OpenWhole, Collected, delivery
  <2>2. kind' = kind /\ ~finished
    BY <2>1 DEF world, IInv, Stage
  <2>3. Stage'
    BY <2>1, <2>2 DEF world, IInv, Stage
  <2>4. phase' # "collect" => kind \notin Totals
    BY <2>1 DEF Lists, Totals, Calls
  <2>5. Grouped' <=> Grouped
    BY <2>1, <2>2, <2>4 DEF Grouped
  <2>6. QED
    BY <2>1, <2>3, <2>5, QuietKeeps DEF Phases, IInv, TypeOK
<1>2. CASE CallFunc
  <2>1. /\ UNCHANGED <<world, last, page, rows, finished>> /\ count' = 0
        /\ phase \in {"ready", "idle"} /\ phase' = IF finished THEN "idle" ELSE "call"
    BY <1>2 DEF CallFunc
  <2>2. Stage'
    BY <2>1 DEF world, IInv, Stage
  <2>3. Grouped' <=> Grouped
    BY <2>1 DEF Grouped, world
  <2>4. count' \in 0..VectorSize
    BY <2>1, ScanAssumption
  <2>5. QED
    BY <2>1, <2>2, <2>3, <2>4, QuietKeeps DEF Phases, IInv, TypeOK
<1>3. CASE EndQuery \/ Drop \/ ChunkIsFull \/ CallReturns
  <2>1. /\ UNCHANGED <<world, last, page, rows, count, finished>>
        /\ phase \in {"ready", "idle", "call", "callback"}
        /\ phase' \in {"idle", "done", "dropped"}
        /\ phase' = "idle" => count = VectorSize /\ ~finished
        /\ phase' = "done" => page = {} /\ last = NumKeys
    BY <1>3 DEF EndQuery, Drop, ChunkIsFull, CallReturns, delivery, IInv, Stage
  <2>2. Stage'
    BY <2>1, ScanAssumption DEF world, IInv, Stage
  <2>3. Grouped' <=> Grouped
    BY <2>1 DEF Grouped, world
  <2>4. QED
    BY <2>1, <2>2, <2>3, QuietKeeps DEF Phases, Ended, IInv, TypeOK
<1>4. CASE ListingEnds
  <2>1. /\ UNCHANGED <<world, last, page, rows, count>>
        /\ phase = "call" /\ phase' = "idle" /\ finished' = TRUE
        /\ page = {} /\ last = NumKeys
    BY <1>4 DEF ListingEnds
  <2>2. Stage'
    BY <2>1 DEF world, IInv, Stage
  <2>3. Grouped' <=> Grouped
    BY <2>1 DEF Grouped, world
  <2>4. QED
    BY <2>1, <2>2, <2>3, QuietKeeps DEF Phases, IInv, TypeOK
<1>5. QED
  BY <1>1, <1>2, <1>3, <1>4

\* The stat of the target puts it on the page, and there is nothing else to list.
LEMMA OpenOneKeeps ==
  ASSUME IInv, OpenOne
  PROVE  IInv'
<1>1. /\ UNCHANGED <<kind, absent, store, stable, seen, rows, count, finished>>
      /\ phase = "init" /\ Target \in store /\ page' = {Target} /\ last' = NumKeys
      /\ \/ kind = "stat" /\ phase' = "ready"
         \/ kind = "du_file" /\ phase' = "collect"
  BY DEF OpenOne, world, delivery
<1>2. rows = <<>> /\ DOMAIN rows = {} /\ Range(rows) = {} /\ ~finished
  BY <1>1 DEF IInv, Stage, Range
<1>3. Target \in Keys /\ Target <= NumKeys /\ NumKeys \in 0..NumKeys
  BY ScanAssumption DEF Keys
<1>4. ~Grouped'
  BY <1>1 DEF Grouped, Totals
<1>5. TypeOK'
  BY <1>1, <1>3 DEF IInv, TypeOK, Phases, Things
<1>6. Stage'
  BY <1>1, <1>2 DEF IInv, Stage
<1>7. InOrder'
  BY <1>1, <1>2, <1>3 DEF InOrder, RowsInOrder
<1>8. PageIsReal' /\ NothingInvented'
  BY <1>1, <1>2, <1>4 DEF IInv, TypeOK, PageIsReal, NothingInvented
<1>9. NothingLost'
  <2>1. \A k : Wanted(k)' => k = Target
    BY <1>1 DEF Wanted
  <2>2. QED
    BY <1>1, <1>4, <2>1 DEF NothingLost
<1>10. QED
  BY <1>5, <1>6, <1>7, <1>8, <1>9 DEF IInv

\* opendal_du goes over from entries to the directories they are in.
LEMMA GroupKeeps ==
  ASSUME IInv, Group
  PROVE  IInv'
<1>1. CASE ~Fits(page)
  BY <1>1, FailKeeps DEF Group, Ended
<1>2. CASE Fits(page)
  <2>1. /\ UNCHANGED <<kind, absent, store, stable, seen, last, rows, count, finished>>
        /\ phase = "collect" /\ kind \in Totals /\ last = NumKeys /\ phase' = "ready"
        /\ page' = {d \in Directories : FilesOf(page, d) # {}}
    BY <1>2 DEF Group, world, delivery
  <2>2. rows = <<>> /\ DOMAIN rows = {} /\ Range(rows) = {} /\ ~finished
    BY <2>1 DEF IInv, Stage, Range
  <2>3. ~Grouped /\ Grouped'
    BY <2>1 DEF Grouped
  <2>4. TypeOK'
    BY <2>1 DEF IInv, TypeOK, Phases, Things
  <2>5. Stage'
    BY <2>1, <2>2 DEF IInv, Stage
  <2>6. InOrder'
    BY <2>1, <2>2 DEF InOrder, RowsInOrder
  <2>7. /\ ItemsOf(seen)' = ItemsOf(seen)
        /\ \A k : Wanted(k)' <=> Wanted(k)
    BY <2>1, ItemsGrow
  <2>8. page \subseteq seen
    BY <2>1, <2>3 DEF IInv, PageIsReal
  <2>9. page' \subseteq ItemsOf(seen)
    BY <2>1, <2>8 DEF FilesOf, ItemsOf, Item
  <2>10. PageIsReal' /\ NothingInvented'
    BY <2>1, <2>2, <2>3, <2>7, <2>9 DEF PageIsReal, NothingInvented
  <2>11. NothingLost'
    <3> SUFFICES ASSUME NEW k \in stable, Wanted(k)
                 PROVE  Parent[k] \in page'
      BY <2>1, <2>3, <2>7 DEF NothingLost
    <3>1. k \in Keys /\ Parent[k] \in Directories
      BY ScanAssumption DEF IInv, TypeOK
    <3>2. k \in page
      BY <2>1, <2>2, <2>3, <3>1, ScanAssumption DEF IInv, Stage, NothingLost, Keys
    <3>3. k \in FilesOf(page, Parent[k])
      BY <3>2 DEF FilesOf
    <3>4. QED
      BY <2>1, <3>1, <3>3
  <2>12. QED
    BY <2>4, <2>5, <2>6, <2>10, <2>11 DEF IInv
<1>3. QED
  BY <1>1, <1>2

\* The first thing on the page is delivered, or left out because it is not wanted.
LEMMA TakeKeeps ==
  ASSUME IInv, Take
  PROVE  IInv'
<1>1. PICK item \in page :
        /\ \A other \in page : item <= other
        /\ page' = page \ {item}
        /\ rows' = IF Delivers(item) THEN Append(rows, item) ELSE rows
        /\ count' = IF phase = "call" /\ Delivers(item) THEN count + 1 ELSE count
  BY DEF Take
<1>2. /\ UNCHANGED <<kind, absent, store, stable, seen, phase, last, finished>>
      /\ phase = "callback" \/ (phase = "call" /\ count < VectorSize)
  BY DEF Take, world
<1>3. /\ rows \in Seq(Things) /\ page \subseteq Things /\ item \in Things
      /\ \A i \in DOMAIN rows : rows[i] < item
      /\ \A i, j \in DOMAIN rows : i < j => rows[i] < rows[j]
  BY DEF IInv, TypeOK, InOrder, RowsInOrder
<1>4. /\ rows' \in Seq(Things)
      /\ \A i, j \in DOMAIN rows' : i < j => rows'[i] < rows'[j]
      /\ \A i \in DOMAIN rows' : rows'[i] = item \/ rows'[i] \in Range(rows)
      /\ Range(rows') = Range(rows) \cup IF Delivers(item) THEN {item} ELSE {}
  <2>1. CASE Delivers(item)
    BY <1>1, <1>3, <2>1, AppendInOrder, Zenon
  <2>2. CASE ~Delivers(item)
    BY <1>1, <1>3, <2>2 DEF Range
  <2>3. QED
    BY <2>1, <2>2
<1>5. Grouped' <=> Grouped
  BY <1>2 DEF Grouped
<1>6. TypeOK'
  <2>1. count' \in 0..VectorSize
    BY <1>1, <1>2, ScanAssumption DEF IInv, TypeOK
  <2>2. QED
    BY <1>1, <1>2, <1>4, <2>1 DEF IInv, TypeOK
<1>7. Stage'
  BY <1>1, <1>2 DEF IInv, Stage
<1>8. InOrder'
  <2>1. \A x \in Things : x \in Int
    BY ScanAssumption DEF Things, Keys, Directories
  <2>2. \A p \in page' : item < p
    BY <1>1, <1>3, <2>1
  <2>3. \A x \in Range(rows) : x \in Int /\ x < item
    BY <1>3, <2>1 DEF Range
  <2>4. \A i \in DOMAIN rows' : rows'[i] \in Int /\ rows'[i] <= item
    BY <1>3, <1>4, <2>1, <2>3
  <2>5. \A i \in DOMAIN rows' : \A p \in page' : rows'[i] < p
    BY <1>1, <1>3, <2>1, <2>2, <2>4
  <2>6. kind \notin Totals => item <= last /\ \A p \in page' : p <= last
    BY <1>1 DEF IInv, InOrder
  <2>7. last \in Int
    BY ScanAssumption DEF IInv, TypeOK
  <2>8. kind \notin Totals => \A i \in DOMAIN rows' : rows'[i] <= last
    BY <1>3, <2>1, <2>4, <2>6, <2>7
  <2>9. QED
    BY <1>2, <1>4, <2>5, <2>6, <2>8 DEF InOrder, RowsInOrder
<1>9. /\ ItemsOf(seen)' = ItemsOf(seen)
      /\ \A k : Wanted(k)' <=> Wanted(k)
  BY <1>2, ItemsGrow
<1>10. PageIsReal'
  BY <1>1, <1>2, <1>5, <1>9 DEF IInv, PageIsReal
<1>11. NothingInvented'
  <2>1. CASE Delivers(item)
    <3>1. item \in ItemsOf(seen)
      <4>1. CASE kind \in Totals
        BY <1>2, <4>1 DEF IInv, PageIsReal, Grouped
      <4>2. CASE kind \notin Totals
        <5>1. item \in seen /\ Wanted(item) /\ Item(item) = item
          BY <1>2, <2>1, <4>2 DEF IInv, PageIsReal, Grouped, Delivers, Item
        <5>2. QED
          BY <5>1 DEF ItemsOf
      <4>3. QED
        BY <4>1, <4>2
    <3>2. QED
      BY <1>4, <1>9, <2>1, <3>1 DEF IInv, NothingInvented
  <2>2. CASE ~Delivers(item)
    BY <1>4, <1>9, <2>2 DEF IInv, NothingInvented
  <2>3. QED
    BY <2>1, <2>2
<1>12. NothingLost'
  <2>1. \A x \in page : x \in page' \/ x = item
    BY <1>1
  <2> SUFFICES ASSUME NEW k \in stable, Wanted(k)
               PROVE  IF Grouped THEN Parent[k] \in page' \cup Range(rows')
                                 ELSE last < k \/ k \in page' \cup Range(rows')
    BY <1>2, <1>5, <1>9 DEF NothingLost
  <2>2. IF Grouped THEN Parent[k] \in page \cup Range(rows)
                   ELSE last < k \/ k \in page \cup Range(rows)
    BY <1>2 DEF IInv, Stage, NothingLost
  <2>3. CASE Grouped
    <3>1. Delivers(item)
      BY <2>3 DEF Grouped, Delivers
    <3>2. QED
      BY <1>4, <2>1, <2>2, <2>3, <3>1
  <2>4. CASE ~Grouped
    <3>1. k = item => Delivers(item)
      BY DEF Delivers
    <3>2. QED
      BY <1>4, <2>1, <2>2, <2>4, <3>1
  <2>5. QED
    BY <2>3, <2>4
<1>13. QED
  BY <1>6, <1>7, <1>8, <1>10, <1>11, <1>12 DEF IInv

LEMMA NextKeeps == IInv /\ [Next]_vars => IInv'
<1> SUFFICES ASSUME IInv, [Next]_vars PROVE IInv'
  OBVIOUS
<1>1. CASE Refuse \/ CursorFails
  <2>1. Fail /\ phase \notin Ended
    BY <1>1 DEF Refuse, CursorFails, Ended
  <2>2. QED
    BY <2>1, FailKeeps
<1>2. CASE \/ OpenList \/ OpenWhole \/ Collected \/ CallFunc \/ EndQuery \/ Drop
           \/ ChunkIsFull \/ ListingEnds \/ CallReturns
  BY <1>2, PhaseKeeps
<1>3. CASE OpenOne
  BY <1>3, OpenOneKeeps
<1>4. CASE Fetch
  BY <1>4, FetchKeeps
<1>5. CASE Group
  BY <1>5, GroupKeeps
<1>6. CASE Take
  BY <1>6, TakeKeeps
<1>7. CASE \E k \in Keys : Change(k)
  BY <1>7, ChangeKeeps
<1>8. CASE UNCHANGED vars
  <2>1. UNCHANGED <<kind, absent, store, stable, seen, phase, last, page, rows, count, finished>>
    BY <1>8 DEF vars
  <2>2. /\ ItemsOf(seen)' = ItemsOf(seen)
        /\ \A k : Wanted(k)' <=> Wanted(k)
    BY <2>1, ItemsGrow
  <2>3. (Grouped' <=> Grouped) /\ (Stage' <=> Stage)
    BY <2>1 DEF Grouped, Stage
  <2>4. QED
    BY <2>1, <2>2, <2>3
    DEF IInv, TypeOK, InOrder, RowsInOrder, PageIsReal, NothingInvented, NothingLost
<1>9. CASE NotFound
  BY <1>9, NotFoundKeeps
<1>10. QED
  BY <1>1, <1>2, <1>3, <1>4, <1>5, <1>6, <1>7, <1>8, <1>9 DEF Next, Scan

LEMMA Invariance == Spec => []IInv
  BY InitHolds, NextKeeps, PTL DEF Spec

--------------------------------------------------------------------------------
LEMMA DoneMeansComplete == IInv => CompleteScan
<1> SUFFICES ASSUME IInv, phase = "done", ~absent, NEW k \in stable, Wanted(k)
             PROVE  Item(k) \in Range(rows)
  BY DEF CompleteScan, ItemsOf, IInv, Stage
<1>1. page = {} /\ last = NumKeys /\ k \in Keys
  BY DEF IInv, Stage, TypeOK
<1>2. ~(last < k)
  BY <1>1, ScanAssumption DEF Keys
<1>3. QED
  BY <1>1, <1>2 DEF IInv, NothingLost, Grouped, Item

\* Files and bytes are counted in finite sets, and more files have no fewer bytes.
LEMMA CountsGrow ==
  ASSUME NEW a, NEW b, NEW d, b \subseteq Keys, FilesOf(a, d) \subseteq FilesOf(b, d)
  PROVE  /\ Cardinality(FilesOf(a, d)) \in Nat /\ BytesOf(a, d) \in Nat
         /\ Cardinality(FilesOf(a, d)) <= Cardinality(FilesOf(b, d))
         /\ BytesOf(a, d) <= BytesOf(b, d)
<1> DEFINE F(keys) == FilesOf(keys, d)
           parts(keys) == {{k} \X (1..Size[k]) : k \in F(keys)}
           B(keys) == UNION parts(keys)
<1>1. IsFiniteSet(F(b)) /\ F(b) \subseteq Keys /\ F(a) \subseteq F(b)
  <2>1. IsFiniteSet(Keys)
    BY FS_Interval, ScanAssumption DEF Keys
  <2>2. F(b) \subseteq Keys /\ F(a) \subseteq F(b)
    BY DEF FilesOf
  <2>3. QED
    BY <2>1, <2>2, FS_Subset
<1>2. IsFiniteSet(B(b))
  <2> DEFINE g == [k \in F(b) |-> {k} \X (1..Size[k])]
  <2>1. g \in Surjection(F(b), parts(b))
    BY DEF Surjection
  <2>2. IsFiniteSet(parts(b))
    BY <1>1, <2>1, FS_Surjection DEF ExistsSurjection
  <2>3. ASSUME NEW k \in F(b)
        PROVE  IsFiniteSet({k} \X (1..Size[k]))
    <3>1. Size[k] \in Nat
      BY <1>1, ScanAssumption
    <3>2. IsFiniteSet(1..Size[k])
      BY <3>1, FS_Interval
    <3>3. IsFiniteSet({k})
      BY FS_Singleton
    <3>4. QED
      BY <3>2, <3>3, FS_Product
  <2>4. \A part \in parts(b) : IsFiniteSet(part)
    BY <2>3
  <2> HIDE DEF parts
  <2>5. QED
    BY <2>2, <2>4, FS_UNION
<1>3. B(a) \subseteq B(b)
  BY <1>1
<1>4. BytesOf(a, d) = Cardinality(B(a)) /\ BytesOf(b, d) = Cardinality(B(b))
  BY DEF BytesOf
<1> HIDE DEF B, F
<1>5. /\ IsFiniteSet(F(a)) /\ Cardinality(F(a)) <= Cardinality(F(b))
      /\ IsFiniteSet(B(a)) /\ Cardinality(B(a)) <= Cardinality(B(b))
  BY <1>1, <1>2, <1>3, FS_Subset
<1>6. QED
  BY <1>4, <1>5, FS_CardinalityType DEF F

\* Every directory has its two totals.
TotalsTyped == totals \in [Directories -> [files : Nat, bytes : Nat]]

\* A page of opendal_du that is not grouped yet has all that is stable and wanted, once the
\* listing has come to its end, and nothing that has not been seen.
LEMMA PageIsBetween ==
  ASSUME IInv, phase = "collect", last = NumKeys, NEW d
  PROVE  /\ FilesOf(stable, d) \subseteq FilesOf(page, d)
         /\ FilesOf(page, d) \subseteq FilesOf(seen, d)
<1>1. ~Grouped /\ ~absent /\ Range(rows) = {}
  BY DEF Grouped, IInv, Stage, Range
<1>2. \A k \in stable : ~(last < k)
  BY ScanAssumption DEF IInv, TypeOK, Keys
<1>3. page \subseteq seen /\ \A k \in stable : Wanted(k) => k \in page
  BY <1>1, <1>2 DEF IInv, PageIsReal, NothingLost
<1>4. QED
  BY <1>3 DEF FilesOf

\* Which files are wanted of a set of entries depends on the operation alone.
LEMMA FilesStay ==
  ASSUME kind' = kind
  PROVE  \A keys, d : FilesOf(keys, d)' = FilesOf(keys, d) /\ BytesOf(keys, d)' = BytesOf(keys, d)
<1>1. \A k : Wanted(k)' <=> Wanted(k)
  BY DEF Wanted
<1>2. \A keys, d : FilesOf(keys, d)' = FilesOf(keys, d)
  BY <1>1 DEF FilesOf
<1>3. QED
  BY <1>2 DEF BytesOf

LEMMA TotalsKeep ==
  ASSUME IInv, IInv', TotalsTyped, TotalsAreBetween, [Next]_vars
  PROVE  TotalsTyped' /\ TotalsAreBetween'
<1>1. CASE Group /\ Fits(page)
  <2>1. /\ phase = "collect" /\ last = NumKeys
        /\ totals' = [d \in Directories |-> [files |-> Cardinality(FilesOf(page, d)),
                                             bytes |-> BytesOf(page, d)]]
        /\ \A d \in Directories : BytesOf(page, d) <= MaxU64
        /\ UNCHANGED <<kind, stable, seen>>
    BY <1>1 DEF Group, Fits, Sum, world
  <2>2. page \subseteq Keys /\ seen \subseteq Keys
    BY <2>1 DEF IInv, TypeOK, PageIsReal, Grouped
  <2>3. ASSUME NEW d \in Directories
        PROVE  /\ Cardinality(FilesOf(page, d)) \in Nat /\ BytesOf(page, d) \in Nat
               /\ Cardinality(FilesOf(stable, d)) <= Cardinality(FilesOf(page, d))
               /\ Cardinality(FilesOf(page, d)) <= Cardinality(FilesOf(seen, d))
               /\ BytesOf(stable, d) <= BytesOf(page, d)
               /\ BytesOf(page, d) <= BytesOf(seen, d)
    BY <2>1, <2>2, PageIsBetween, CountsGrow
  <2>4. TotalsTyped'
    BY <2>1, <2>3 DEF TotalsTyped
  <2>5. \A d : /\ FilesOf(stable, d)' = FilesOf(stable, d) /\ FilesOf(seen, d)' = FilesOf(seen, d)
               /\ BytesOf(stable, d)' = BytesOf(stable, d) /\ BytesOf(seen, d)' = BytesOf(seen, d)
    BY <2>1, FilesStay
  <2>6. TotalsAreBetween'
    BY <2>1, <2>3, <2>5 DEF TotalsAreBetween
  <2>7. QED
    BY <2>4, <2>6
<1>2. CASE ~(Group /\ Fits(page))
  <2>1. /\ UNCHANGED <<kind, totals>> /\ stable' \subseteq stable /\ seen \subseteq seen'
        /\ kind \in Totals /\ phase' \in {"ready", "call", "idle", "done"}
             => phase \in {"ready", "call", "idle", "done"}
    <3>1. CASE \E k \in Keys : Change(k)
      BY <3>1 DEF Change
    <3>2. CASE Drop \/ UNCHANGED vars
      BY <3>2 DEF Drop, vars, world
    <3>3. CASE Refuse \/ CursorFails \/ NotFound \/ (Group /\ ~Fits(page))
      BY <3>3 DEF Refuse, CursorFails, NotFound, Group, Fail, Totals, Calls, world
    <3>4. CASE OpenList \/ OpenOne \/ OpenWhole \/ Fetch \/ Collected
      BY <3>4 DEF OpenList, OpenOne, OpenWhole, Fetch, Collected, Lists, Totals, Calls, world
    <3>5. CASE \/ CallFunc \/ EndQuery \/ Take \/ ChunkIsFull \/ ListingEnds \/ CallReturns
      BY <3>5
      DEF CallFunc, EndQuery, Take, ChunkIsFull, ListingEnds, CallReturns, world,
          IInv, Stage, Totals, Calls
    <3>6. QED
      BY <1>2, <3>1, <3>2, <3>3, <3>4, <3>5 DEF Next, Scan
  <2>2. TotalsTyped'
    BY <2>1 DEF TotalsTyped
  <2>3. ASSUME kind \in Totals, phase' \in {"ready", "call", "idle", "done"},
               NEW d \in Directories
        PROVE  /\ Cardinality(FilesOf(stable, d))' <= totals[d].files
               /\ totals[d].files <= Cardinality(FilesOf(seen, d))'
               /\ BytesOf(stable, d)' <= totals[d].bytes
               /\ totals[d].bytes <= BytesOf(seen, d)' /\ totals[d].bytes <= MaxU64
    <3>1. /\ Cardinality(FilesOf(stable, d)) <= totals[d].files
          /\ totals[d].files <= Cardinality(FilesOf(seen, d))
          /\ BytesOf(stable, d) <= totals[d].bytes
          /\ totals[d].bytes <= BytesOf(seen, d) /\ totals[d].bytes <= MaxU64
          /\ totals[d].files \in Nat /\ totals[d].bytes \in Nat
      BY <2>1, <2>3 DEF TotalsAreBetween, TotalsTyped
    <3>2. /\ FilesOf(stable', d) \subseteq FilesOf(stable, d)
          /\ FilesOf(seen, d) \subseteq FilesOf(seen', d)
          /\ stable \subseteq Keys /\ stable' \subseteq Keys /\ seen \subseteq Keys
          /\ seen' \subseteq Keys
      BY <2>1 DEF FilesOf, IInv, TypeOK
    <3>3. /\ Cardinality(FilesOf(stable', d)) <= Cardinality(FilesOf(stable, d))
          /\ BytesOf(stable', d) <= BytesOf(stable, d)
          /\ Cardinality(FilesOf(seen, d)) <= Cardinality(FilesOf(seen', d))
          /\ BytesOf(seen, d) <= BytesOf(seen', d)
      BY <3>2, CountsGrow
    <3>4. /\ Cardinality(FilesOf(stable', d)) \in Nat /\ BytesOf(stable', d) \in Nat
          /\ Cardinality(FilesOf(stable, d)) \in Nat /\ BytesOf(stable, d) \in Nat
          /\ Cardinality(FilesOf(seen, d)) \in Nat /\ BytesOf(seen, d) \in Nat
          /\ Cardinality(FilesOf(seen', d)) \in Nat /\ BytesOf(seen', d) \in Nat
      BY <3>2, CountsGrow
    <3>5. \A keys : FilesOf(keys, d)' = FilesOf(keys, d) /\ BytesOf(keys, d)' = BytesOf(keys, d)
      BY <2>1, FilesStay
    <3>6. QED
      BY <3>1, <3>3, <3>4, <3>5
  <2>4. QED
    BY <2>1, <2>2, <2>3 DEF TotalsAreBetween
<1>3. QED
  BY <1>1, <1>2

\* The state of a scan keeps its types, and no chunk has more rows than a vector.
THEOREM TypeCorrectness == Spec => []TypeOK
  BY Invariance, PTL DEF IInv

\* opendal_ls, opendal_stat and opendal_du end without an error only when they have given
\* everything wanted that existed all along, whatever the pages, the chunks and the filters;
\* ListFiles and Glob give all of that or nothing, and nothing only when a listing is answered
\* with not found.
THEOREM ScansAreComplete == Spec => []CompleteScan
  BY Invariance, DoneMeansComplete, PTL

\* They give nothing that has not existed meanwhile, and nothing that is filtered out.
THEOREM NothingIsInvented == Spec => []NothingInvented
  BY Invariance, PTL DEF IInv

\* They give nothing twice, in the order of the listing.
THEOREM RowsAreInOrder == Spec => []RowsInOrder
  BY Invariance, PTL DEF IInv, InOrder

\* opendal_du counts every file that existed all along and none that never did, files and bytes,
\* however the listing is changed under it, and never gives a sum that does not fit in a u64.
THEOREM TotalsAreRight == Spec => []TotalsAreBetween
<1>1. Init => TotalsTyped /\ TotalsAreBetween
  BY DEF Init, TotalsTyped, TotalsAreBetween
<1>2. IInv /\ IInv' /\ TotalsTyped /\ TotalsAreBetween /\ [Next]_vars
        => TotalsTyped' /\ TotalsAreBetween'
  BY TotalsKeep
<1>3. QED
  BY <1>1, <1>2, Invariance, PTL DEF Spec

--------------------------------------------------------------------------------
(***************************************************************************)
(* The budget of an operation.                                             *)
(***************************************************************************)
\* What is on the page, and what can come onto it, is counted.
Counted ==
  IsFiniteSet(page) /\ Cardinality(page) \in Nat /\ last \in Nat /\ NumKeys - last \in Nat

LEMMA PageIsCounted == TypeOK => Counted
<1> SUFFICES ASSUME TypeOK PROVE Counted
  OBVIOUS
<1>1. IsFiniteSet(Keys) /\ IsFiniteSet(Directories)
  BY FS_Interval, ScanAssumption DEF Keys, Directories
<1>2. IsFiniteSet(Things)
  BY <1>1, FS_Union DEF Things
<1>3. IsFiniteSet(page)
  BY <1>2, FS_Subset DEF TypeOK
<1>4. last \in Nat /\ NumKeys - last \in Nat
  BY ScanAssumption DEF TypeOK
<1> QED
  BY <1>3, <1>4, FS_CardinalityType DEF Counted

LEMMA PageWillBeCounted == TypeOK' => Counted'
  BY PageIsCounted, PTL

\* The steps of every phase, one fact for each.
StepsOfPhases ==
  /\ phase = "init" => PhaseSteps = 3 * NumDirs + 7
  /\ phase = "collect" => PhaseSteps = 3 * NumDirs + 6
  /\ phase = "ready" => PhaseSteps = 5
  /\ phase = "call" => PhaseSteps = IF count = 0 THEN 2 ELSE 4
  /\ phase = "idle" => PhaseSteps = IF count = 0 THEN 1 ELSE 3
  /\ phase = "callback" => PhaseSteps = 1
  /\ phase \in Ended => PhaseSteps = 0
  /\ PhaseSteps \in Nat /\ (phase \notin Ended => PhaseSteps > 0)

LEMMA PhaseStepsAre == TypeOK => StepsOfPhases
<1> SUFFICES ASSUME TypeOK PROVE StepsOfPhases
  OBVIOUS
<1> DEFINE n == 3 * NumDirs
<1>1. n \in Nat /\ phase \in Phases
  BY ScanAssumption DEF TypeOK
<1>2. PhaseSteps = CASE phase = "init" -> n + 7
                     [] phase = "collect" -> n + 6
                     [] phase = "ready" -> 5
                     [] phase = "call" -> IF count = 0 THEN 2 ELSE 4
                     [] phase = "idle" -> IF count = 0 THEN 1 ELSE 3
                     [] phase = "callback" -> 1
                     [] phase \in Ended -> 0
  BY DEF PhaseSteps
<1>3. /\ phase = "init" => PhaseSteps = 3 * NumDirs + 7
      /\ phase = "collect" => PhaseSteps = 3 * NumDirs + 6
  BY DEF PhaseSteps, Ended
<1> HIDE DEF n
<1>4. /\ phase = "init" => PhaseSteps = n + 7
      /\ phase = "collect" => PhaseSteps = n + 6
      /\ phase = "ready" => PhaseSteps = 5
      /\ phase = "call" => PhaseSteps = IF count = 0 THEN 2 ELSE 4
      /\ phase = "idle" => PhaseSteps = IF count = 0 THEN 1 ELSE 3
      /\ phase = "callback" => PhaseSteps = 1
      /\ phase \in Ended => PhaseSteps = 0
  BY <1>2 DEF Ended
<1>5. PhaseSteps \in Nat /\ (phase \notin Ended => PhaseSteps > 0)
  BY <1>1, <1>4 DEF Phases
<1> QED
  BY <1>3, <1>4, <1>5 DEF StepsOfPhases

LEMMA PhaseStepsWillBe == TypeOK' => StepsOfPhases'
  BY PhaseStepsAre, PTL

StepIsPaid == StepsLeft' \in 0..StepsLeft /\ StepsLeft' # StepsLeft

\* A step pays if the phase gives more than the page and what is ahead take.
LEMMA Pays ==
  ASSUME TypeOK, TypeOK', NEW d \in Nat,
         4 * (NumKeys - last') + 3 * Cardinality(page')
           <= 4 * (NumKeys - last) + 3 * Cardinality(page) + d,
         PhaseSteps' + d < PhaseSteps
  PROVE  StepIsPaid
<1> DEFINE a == NumKeys - last
           b == NumKeys - last'
           c == Cardinality(page)
           e == Cardinality(page')
           p == PhaseSteps
           q == PhaseSteps'
<1>1. a \in Nat /\ b \in Nat /\ c \in Nat /\ e \in Nat /\ p \in Nat /\ q \in Nat
  BY PageIsCounted, PageWillBeCounted, PhaseStepsAre, PhaseStepsWillBe DEF Counted, StepsOfPhases
<1>2. StepsLeft = 4 * a + 3 * c + p /\ StepsLeft' = 4 * b + 3 * e + q
  BY DEF StepsLeft
<1>3. 4 * b + 3 * e <= 4 * a + 3 * c + d /\ q + d < p
  OBVIOUS
<1> HIDE DEF a, b, c, e, p, q
<1>4. StepsLeft \in Nat /\ StepsLeft' \in Nat /\ StepsLeft' < StepsLeft
  BY <1>1, <1>2, <1>3
<1> QED
  BY <1>4 DEF StepIsPaid

LEMMA PaysByPhase ==
  ASSUME TypeOK, TypeOK', last' = last, page' = page, PhaseSteps' < PhaseSteps
  PROVE  StepIsPaid
<1> DEFINE a == NumKeys - last
           c == Cardinality(page)
           p == PhaseSteps
           q == PhaseSteps'
<1>1. a \in Nat /\ c \in Nat /\ p \in Nat /\ q \in Nat /\ q < p
  BY PageIsCounted, PhaseStepsAre, PhaseStepsWillBe DEF Counted, StepsOfPhases
<1>2. (NumKeys - last') = a /\ Cardinality(page') = c
  OBVIOUS
<1> HIDE DEF a, c, p, q
<1>3. 4 * a + 3 * c <= 4 * a + 3 * c + 0 /\ q + 0 < p
  BY <1>1
<1> QED
  BY <1>2, <1>3, Pays DEF a, c, p, q

\* The steps that go on to a cheaper phase and leave the rest alone.
LEMMA PhasePays ==
  ASSUME IInv, IInv',
         \/ Refuse \/ OpenList \/ OpenWhole \/ CursorFails \/ Collected \/ CallFunc \/ EndQuery
         \/ ChunkIsFull \/ ListingEnds \/ CallReturns \/ (Group /\ ~Fits(page))
  PROVE  StepIsPaid
<1>1. TypeOK /\ TypeOK' /\ Stage
  BY DEF IInv
<1>2. last' = last /\ page' = page
  BY DEF Refuse, OpenList, OpenWhole, CursorFails, Collected, CallFunc, EndQuery, ChunkIsFull,
         ListingEnds, CallReturns, Group, Fail
<1>3. NumDirs \in Nat /\ VectorSize # 0
  BY ScanAssumption
<1>4. CASE \/ OpenList \/ OpenWhole \/ Collected \/ CallFunc \/ EndQuery
           \/ ChunkIsFull \/ ListingEnds \/ CallReturns
  <2>1. \/ phase = "init" /\ phase' \in {"ready", "collect"}
        \/ phase = "collect" /\ phase' = "callback"
        \/ phase = "ready" /\ phase' = "call" /\ count' = 0
        \/ phase = "idle" /\ count > 0 /\ phase' \in {"call", "idle"} /\ count' = 0
        \/ phase = "call" /\ phase' = "idle" /\ count' = count
        \/ phase \in {"idle", "callback"} /\ phase' = "done"
    BY <1>1, <1>4 DEF OpenList, OpenWhole, Collected, CallFunc, EndQuery, ChunkIsFull,
                      ListingEnds, CallReturns, delivery, Stage
  <2>2. PhaseSteps' < PhaseSteps
    <3>1. StepsOfPhases /\ StepsOfPhases'
      BY <1>1, PhaseStepsAre, PhaseStepsWillBe
    <3>2. count \in Nat
      BY <1>1, ScanAssumption DEF TypeOK
    <3> QED
      BY <1>3, <2>1, <3>1, <3>2 DEF StepsOfPhases, Ended
  <2> QED
    BY <1>1, <1>2, <2>2, PaysByPhase
<1>5. CASE Refuse \/ CursorFails \/ (Group /\ ~Fits(page))
  <2>1. phase \notin Ended /\ phase' \in Ended
    BY <1>5 DEF Refuse, CursorFails, Group, Fail, Ended
  <2>2. PhaseSteps' < PhaseSteps
    BY <1>1, <2>1, PhaseStepsAre, PhaseStepsWillBe DEF StepsOfPhases
  <2> QED
    BY <1>1, <1>2, <2>2, PaysByPhase
<1> QED
  BY <1>4, <1>5

\* An operation that ends because something is not found gives up its page as well.
LEMMA NotFoundPays ==
  ASSUME IInv, IInv', NotFound
  PROVE  StepIsPaid
<1>1. /\ TypeOK /\ TypeOK' /\ last' = last /\ page' = {}
      /\ phase \notin Ended /\ phase' \in Ended
  BY DEF NotFound, IInv, Ended
<1> DEFINE a == NumKeys - last
           c == Cardinality(page)
<1>2. a \in Nat /\ c \in Nat /\ Cardinality(page') = 0
  BY <1>1, PageIsCounted, FS_EmptySet DEF Counted
<1>3. PhaseSteps' = 0 /\ PhaseSteps \in Nat /\ PhaseSteps > 0
  BY <1>1, PhaseStepsAre, PhaseStepsWillBe DEF StepsOfPhases
<1>4. 4 * (NumKeys - last') + 3 * Cardinality(page') <= 4 * a + 3 * c + 0
  <2>1. NumKeys - last' = a
    BY <1>1
  <2> HIDE DEF a, c
  <2> QED
    BY <1>2, <2>1
<1> QED
  BY <1>1, <1>3, <1>4, Pays

\* A page brings no more than it takes off what is ahead.
LEMMA FetchPays ==
  ASSUME IInv, IInv', Fetch
  PROVE  StepIsPaid
<1>1. PICK m \in Keys :
        /\ last < m /\ last' = m
        /\ page' = page \cup {k \in store : last < k /\ k <= m}
  BY DEF Fetch
<1>2. TypeOK /\ TypeOK' /\ phase' = phase /\ count' = count /\ NumKeys \in Nat /\ m \in Nat
  BY ScanAssumption DEF Fetch, delivery, IInv, Keys
<1> DEFINE new == {k \in store : last < k /\ k <= m}
           ahead == (last + 1)..m
           a == NumKeys - last
           c == Cardinality(page)
           e == Cardinality(page')
<1>3. Counted /\ Counted' /\ StepsOfPhases /\ PhaseSteps' = PhaseSteps
  BY <1>2, PageIsCounted, PageWillBeCounted, PhaseStepsAre DEF PhaseSteps
<1>4. IsFiniteSet(ahead) /\ Cardinality(ahead) = m - last
  <2>1. last + 1 \in Int /\ m \in Int /\ ~(last + 1 > m) /\ m - (last + 1) + 1 = m - last
    BY <1>1, <1>2, <1>3 DEF Counted
  <2>2. Cardinality(ahead) = IF last + 1 > m THEN 0 ELSE m - (last + 1) + 1
    BY <2>1, FS_Interval
  <2>3. IsFiniteSet(ahead)
    BY <2>1, FS_Interval
  <2> QED
    BY <2>1, <2>2, <2>3
<1>5. new \subseteq ahead
  <2>1. \A k \in store : k \in Int
    BY <1>2, ScanAssumption DEF TypeOK, Keys
  <2> QED
    BY <1>2, <1>3, <2>1 DEF Counted
<1>6. IsFiniteSet(new) /\ Cardinality(new) <= m - last /\ Cardinality(new) \in Nat
  <2>1. new \in SUBSET ahead
    BY <1>5
  <2> HIDE DEF new, ahead
  <2>2. IsFiniteSet(new) /\ Cardinality(new) <= Cardinality(ahead)
    BY <1>4, <2>1, FS_Subset
  <2> QED
    BY <1>4, <2>2, FS_CardinalityType
<1>7. IsFiniteSet(page \cap new) /\ Cardinality(page \cap new) \in Nat
  <2>1. page \cap new \in SUBSET new
    OBVIOUS
  <2> HIDE DEF new
  <2> QED
    BY <1>6, <2>1, FS_Subset, FS_CardinalityType
<1>8. e = c + Cardinality(new) - Cardinality(page \cap new)
  BY <1>1, <1>3, <1>6, FS_Union DEF Counted
<1>9. a \in Nat /\ c \in Nat /\ e \in Nat /\ NumKeys - m = a - (m - last) /\ m - last \in Nat \ {0}
  BY <1>1, <1>2, <1>3 DEF Counted
<1> HIDE DEF new, ahead, c, e, a
<1> DEFINE s == m - last
<1>10. e <= c + s
  BY <1>6, <1>7, <1>8, <1>9
<1> HIDE DEF s
<1>11. 4 * (a - s) + 3 * e < 4 * a + 3 * c
  BY <1>9, <1>10 DEF s
<1>12. StepsLeft = 4 * a + 3 * c + PhaseSteps /\ StepsLeft' = 4 * (a - s) + 3 * e + PhaseSteps
  BY <1>1, <1>3, <1>9 DEF StepsLeft, a, c, e, s
<1>13. PhaseSteps \in Nat /\ a - s \in Nat
  BY <1>1, <1>3, <1>9 DEF StepsOfPhases, Counted, s
<1> DEFINE p == PhaseSteps
<1> HIDE DEF p
<1>14. StepsLeft = 4 * a + 3 * c + p /\ StepsLeft' = 4 * (a - s) + 3 * e + p /\ p \in Nat
  BY <1>12, <1>13 DEF p
<1>15. StepsLeft \in Nat /\ StepsLeft' \in Nat /\ StepsLeft' < StepsLeft
  BY <1>9, <1>11, <1>13, <1>14
<1> QED
  BY <1>15 DEF StepIsPaid

\* What is taken is paid for by the page.
LEMMA TakePays ==
  ASSUME IInv, IInv', Take
  PROVE  StepIsPaid
<1>1. PICK item \in page :
        /\ page' = page \ {item}
        /\ count' = IF phase = "call" /\ Delivers(item) THEN count + 1 ELSE count
  BY DEF Take
<1>2. TypeOK /\ TypeOK' /\ phase' = phase /\ last' = last /\ phase \in {"call", "callback"}
  BY DEF Take, world, IInv
<1> DEFINE a == NumKeys - last
           c == Cardinality(page)
           e == Cardinality(page')
           p == PhaseSteps
           q == PhaseSteps'
<1>3. Counted /\ Counted' /\ StepsOfPhases /\ StepsOfPhases' /\ count \in Nat
  BY <1>2, PageIsCounted, PageWillBeCounted, PhaseStepsAre, PhaseStepsWillBe, ScanAssumption
  DEF TypeOK
<1>4. a \in Nat /\ c \in Nat /\ e \in Nat /\ p \in Nat /\ q \in Nat
  BY <1>3 DEF Counted, StepsOfPhases
<1>5. e = c - 1
  BY <1>1, <1>3, FS_RemoveElement DEF Counted
<1>6. q <= p + 2
  BY <1>1, <1>2, <1>3 DEF StepsOfPhases
<1>7. StepsLeft = 4 * a + 3 * c + p /\ StepsLeft' = 4 * a + 3 * e + q
  BY <1>2 DEF StepsLeft
<1> HIDE DEF a, c, e, p, q
<1>8. StepsLeft \in Nat /\ StepsLeft' \in Nat /\ StepsLeft' < StepsLeft
  BY <1>4, <1>5, <1>6, <1>7
<1> QED
  BY <1>8 DEF StepIsPaid

\* The stat of the target takes everything off what is ahead.
LEMMA OpenOnePays ==
  ASSUME IInv, IInv', OpenOne
  PROVE  StepIsPaid
<1>1. /\ phase = "init" /\ phase' \in {"ready", "collect"} /\ page' = {Target} /\ last' = NumKeys
      /\ TypeOK /\ TypeOK' /\ page = {} /\ last = 0
  BY DEF OpenOne, IInv, Stage
<1>2. Cardinality(page) = 0 /\ Cardinality(page') = 1
  BY <1>1, FS_EmptySet, FS_Singleton
<1>3. StepsOfPhases /\ StepsOfPhases' /\ NumDirs \in Nat
  BY <1>1, PhaseStepsAre, PhaseStepsWillBe, ScanAssumption
<1>4. NumKeys \in Nat \ {0}
  BY ScanAssumption DEF Keys
<1>5. PhaseSteps = 3 * NumDirs + 7 /\ PhaseSteps' <= 3 * NumDirs + 6 /\ PhaseSteps' \in Nat
  BY <1>1, <1>3 DEF StepsOfPhases
<1>6. StepsLeft = 4 * NumKeys + PhaseSteps /\ StepsLeft' = 3 + PhaseSteps'
  <2>1. StepsLeft = 4 * (NumKeys - 0) + 3 * 0 + PhaseSteps
    BY <1>1, <1>2 DEF StepsLeft
  <2>2. StepsLeft' = 4 * (NumKeys - NumKeys) + 3 * 1 + PhaseSteps'
    BY <1>1, <1>2 DEF StepsLeft
  <2> QED
    BY <1>3, <1>4, <2>1, <2>2 DEF StepsOfPhases
<1> DEFINE n == 3 * NumDirs
           p == PhaseSteps
           q == PhaseSteps'
<1>7. n \in Nat /\ p = n + 7 /\ q <= n + 6 /\ q \in Nat
  BY <1>3, <1>5
<1>8. StepsLeft = 4 * NumKeys + p /\ StepsLeft' = 3 + q
  BY <1>6
<1> HIDE DEF n, p, q
<1>9. StepsLeft \in Nat /\ StepsLeft' \in Nat /\ StepsLeft' < StepsLeft
  BY <1>4, <1>7, <1>8
<1> QED
  BY <1>9 DEF StepIsPaid

\* The directories cost no more than opendal_du has put by for them.
LEMMA GroupPays ==
  ASSUME IInv, IInv', Group, Fits(page)
  PROVE  StepIsPaid
<1>1. /\ phase = "collect" /\ phase' = "ready" /\ last' = last /\ TypeOK /\ TypeOK'
      /\ page' \subseteq Directories
  BY DEF Group, IInv
<1>2. IsFiniteSet(Directories) /\ Cardinality(Directories) = NumDirs /\ NumDirs \in Nat
  BY FS_Interval, ScanAssumption DEF Directories
<1>3. Cardinality(page') <= NumDirs
  BY <1>1, <1>2, FS_Subset
<1>4. Counted /\ Counted' /\ PhaseSteps = 3 * NumDirs + 6 /\ PhaseSteps' = 5
  BY <1>1, PageIsCounted, PageWillBeCounted, PhaseStepsAre, PhaseStepsWillBe DEF StepsOfPhases
<1> DEFINE a == NumKeys - last
           c == Cardinality(page)
           e == Cardinality(page')
<1>5. StepsLeft = 4 * a + 3 * c + 3 * NumDirs + 6 /\ StepsLeft' = 4 * a + 3 * e + 5
  <2>1. StepsLeft = 4 * a + 3 * c + (3 * NumDirs + 6) /\ StepsLeft' = 4 * a + 3 * e + 5
    BY <1>1, <1>4 DEF StepsLeft
  <2> QED
    BY <1>2, <1>4, <2>1 DEF Counted
<1>6. a \in Nat /\ c \in Nat /\ e \in Nat
  BY <1>4 DEF Counted
<1> HIDE DEF a, c, e
<1>7. StepsLeft \in Nat /\ StepsLeft' \in Nat /\ StepsLeft' < StepsLeft
  BY <1>2, <1>3, <1>5, <1>6 DEF e
<1> QED
  BY <1>7 DEF StepIsPaid

LEMMA StepsArePaid ==
  IInv /\ IInv' /\ [Next]_vars => [StepsLeft' \in 0..StepsLeft /\ (Scan => StepsLeft' # StepsLeft)]_vars
<1> SUFFICES ASSUME IInv, IInv', Next
             PROVE  StepsLeft' \in 0..StepsLeft /\ (Scan => StepsLeft' # StepsLeft)
  OBVIOUS
<1>1. ASSUME Scan PROVE StepIsPaid
  <2>1. CASE \/ Refuse \/ OpenList \/ OpenWhole \/ CursorFails \/ Collected \/ CallFunc \/ EndQuery
             \/ ChunkIsFull \/ ListingEnds \/ CallReturns \/ (Group /\ ~Fits(page))
    BY <2>1, PhasePays
  <2>2. CASE OpenOne \/ Fetch \/ Take \/ NotFound \/ (Group /\ Fits(page))
    BY <2>2, NotFoundPays, OpenOnePays, FetchPays, TakePays, GroupPays
  <2> QED
    BY <1>1, <2>1, <2>2 DEF Scan
<1>2. ASSUME Drop PROVE StepIsPaid
  <2>1. TypeOK /\ TypeOK' /\ last' = last /\ page' = page
    BY <1>2 DEF Drop, IInv
  <2>2. StepsOfPhases /\ StepsOfPhases' /\ phase \in {"ready", "idle"} /\ phase' = "dropped"
    BY <1>2, <2>1, PhaseStepsAre, PhaseStepsWillBe DEF Drop
  <2>3. PhaseSteps' < PhaseSteps
    BY <2>2 DEF StepsOfPhases, Ended
  <2> QED
    BY <2>1, <2>3, PaysByPhase
<1>3. ASSUME NEW k \in Keys, Change(k) PROVE StepsLeft' = StepsLeft
  BY <1>3 DEF Change, delivery, StepsLeft, PhaseSteps
<1>4. StepsLeft \in 0..StepsLeft
  <2> DEFINE a == NumKeys - last
             c == Cardinality(page)
             p == PhaseSteps
  <2>1. a \in Nat /\ c \in Nat /\ p \in Nat
    BY PageIsCounted, PhaseStepsAre DEF IInv, Counted, StepsOfPhases
  <2>2. StepsLeft = 4 * a + 3 * c + p
    BY DEF StepsLeft
  <2> HIDE DEF a, c, p
  <2> QED
    BY <2>1, <2>2
<1> QED
  BY <1>1, <1>2, <1>3, <1>4 DEF Next, StepIsPaid

\* The loops of od_table_cursor_next, EntryFunc, od_du_cursor_next, DuFunc, ListFiles and Glob
\* make progress with every round: an operation over NumKeys entries in NumDirs directories takes
\* at most 4 * NumKeys + 3 * NumDirs + 7 steps, whatever the service sends and whatever other
\* programs create and remove meanwhile.
THEOREM ScansAdvance ==
  /\ Spec => ScanAdvances
  /\ Init => StepsLeft = 4 * NumKeys + 3 * NumDirs + 7
<1>1. Spec => ScanAdvances
  BY Invariance, StepsArePaid, PTL DEF Spec, ScanAdvances
<1>2. ASSUME Init PROVE StepsLeft = 4 * NumKeys + 3 * NumDirs + 7
  <2>1. TypeOK /\ phase = "init" /\ last = 0 /\ page = {}
    BY <1>2, InitHolds DEF Init, IInv
  <2>2. PhaseSteps = 3 * NumDirs + 7 /\ Cardinality(page) = 0
    BY <2>1, PhaseStepsAre, FS_EmptySet DEF StepsOfPhases
  <2>3. StepsLeft = 4 * (NumKeys - 0) + 3 * 0 + (3 * NumDirs + 7)
    BY <2>1, <2>2 DEF StepsLeft
  <2> QED
    BY <2>3, ScanAssumption
<1> QED
  BY <1>1, <1>2

--------------------------------------------------------------------------------
(***************************************************************************)
(* Existence, for any service and whatever other programs do: the calls    *)
(* that list to find out whether one name exists.  While a call waits its  *)
(* history holds what is true now, so what stat or the probe says has been *)
(* true of the call, whichever of them answers it.                         *)
(***************************************************************************)
\* Which service calls a call makes.
StepFits ==
  /\ step = "stat" => call \in {"FileExists", "DirectoryExists"}
  /\ step = "probe" => call = "DirectoryExists"
  /\ step = "create" => call = "CreateDirectory"

ExistInv == ExistenceTypeOK /\ StepFits /\ AnswersHaveHeld

LEMMA ExistInit == ExistenceInit => ExistInv
  BY DEF ExistenceInit, ExistInv, ExistenceTypeOK, StepFits, AnswersHaveHeld, YesHasHeld,
         NoHasHeld, Now, Facts, Answers

\* What is true now is a fact.
FactsAreRight ==
  /\ Now \subseteq Facts
  /\ file <=> "file" \in Now
  /\ ~file <=> "no file" \in Now
  /\ IsDirectory <=> "directory" \in Now
  /\ ~IsDirectory <=> "no directory" \in Now

LEMMA NowAreFacts == FactsAreRight
  BY DEF FactsAreRight, Now, Facts

LEMMA NowWillBeFacts == FactsAreRight'
  BY NowAreFacts, PTL

\* An answer that the facts of the call bear out.
LEMMA AnsweredKeeps ==
  ASSUME ExistInv, step # "idle", NEW a \in {"yes", "no", "error"}, Answered(a),
         a = "yes" => (IF call = "FileExists" THEN "file" ELSE "directory") \in held,
         a = "no" => \/ call = "FileExists" /\ "no file" \in held
                     \/ /\ call = "DirectoryExists"
                        /\ ~lists \/ held \cap {"no directory", "file"} # {}
  PROVE  ExistInv'
<1>1. /\ UNCHANGED <<flat, lists, file, marker, child, call, held>>
      /\ step' = "idle" /\ answer' = a
  BY DEF Answered, service, objects
<1>2. ExistenceTypeOK'
  BY <1>1 DEF ExistInv, ExistenceTypeOK, Legal, Answers
<1>3. StepFits'
  BY <1>1 DEF StepFits
<1>4. YesHasHeld' /\ NoHasHeld'
  BY <1>1 DEF YesHasHeld, NoHasHeld
<1> QED
  BY <1>2, <1>3, <1>4 DEF ExistInv, AnswersHaveHeld

LEMMA ExistNext == ExistInv /\ [ExistenceNext]_existenceVars => ExistInv'
<1> SUFFICES ASSUME ExistInv, [ExistenceNext]_existenceVars PROVE ExistInv'
  OBVIOUS
<1> USE DEF ExistInv, ExistenceTypeOK
<1>1. CASE UNCHANGED existenceVars
  BY <1>1
  DEF existenceVars, service, objects, StepFits, AnswersHaveHeld,
      YesHasHeld, NoHasHeld, Legal, Now, IsDirectory
<1>2. CASE Others
  <2>1. /\ UNCHANGED <<flat, lists, call, step, answer>> /\ Legal'
        /\ held' = IF step = "idle" THEN held ELSE held \cup Now'
        /\ file' \in BOOLEAN /\ marker' \in BOOLEAN /\ child' \in BOOLEAN
    BY <1>2 DEF Others, service
  <2>2. ExistenceTypeOK'
    BY <2>1, NowWillBeFacts DEF FactsAreRight
  <2>3. StepFits' /\ YesHasHeld' /\ NoHasHeld'
    BY <2>1 DEF StepFits, AnswersHaveHeld, YesHasHeld, NoHasHeld
  <2> QED
    BY <2>2, <2>3 DEF AnswersHaveHeld
<1>3. ASSUME NEW c \in ExistenceCalls, Begin(c) PROVE ExistInv'
  <2>1. /\ UNCHANGED <<flat, lists, file, marker, child>> /\ call' = c /\ answer' = "none"
        /\ step' = IF c = "CreateDirectory" THEN "create" ELSE "stat"
        /\ held' = Now /\ Now' = Now
    BY <1>3 DEF Begin, service, objects, Now, IsDirectory
  <2>2. ExistenceTypeOK'
    BY <2>1, NowAreFacts DEF FactsAreRight, Legal, Answers
  <2>3. StepFits' /\ YesHasHeld' /\ NoHasHeld'
    BY <2>1 DEF StepFits, ExistenceCalls, YesHasHeld, NoHasHeld
  <2> QED
    BY <2>2, <2>3 DEF AnswersHaveHeld
<1>4. CASE Fails
  BY <1>4, AnsweredKeeps DEF Fails
<1>5. CASE FileExists
  <2>1. IF Stat = "file" THEN "file" \in held ELSE "no file" \in held
    BY <1>5, NowAreFacts DEF FactsAreRight, FileExists, Stat
  <2> QED
    BY <1>5, <2>1, AnsweredKeeps DEF FileExists
<1>6. CASE DirectoryStat
  <2>1. step = "stat" /\ call = "DirectoryExists" /\ Now \subseteq held
    BY <1>6 DEF DirectoryStat
  <2>2. CASE Stat = "directory" /\ Answered("yes")
    <3>1. "directory" \in held
      BY <2>1, <2>2, NowAreFacts DEF FactsAreRight, Stat, IsDirectory
    <3> QED
      BY <2>1, <2>2, <3>1, AnsweredKeeps
  <2>3. CASE Stat = "file" /\ Answered("no")
    <3>1. "file" \in held
      BY <2>1, <2>3, NowAreFacts DEF FactsAreRight, Stat
    <3> QED
      BY <2>1, <2>3, <3>1, AnsweredKeeps
  <2>4. CASE ~lists /\ Answered("no")
    BY <2>1, <2>4, AnsweredKeeps
  <2>5. CASE step' = "probe" /\ UNCHANGED <<flat, lists, file, marker, child, call, held, answer>>
    <3>1. ExistenceTypeOK' /\ StepFits'
      BY <2>1, <2>5 DEF StepFits, Legal, Now, IsDirectory
    <3>2. AnswersHaveHeld'
      BY <2>1, <2>5 DEF AnswersHaveHeld, YesHasHeld, NoHasHeld
    <3> QED
      BY <3>1, <3>2
  <2> QED
    BY <1>6, <2>2, <2>3, <2>4, <2>5 DEF DirectoryStat, service, objects
<1>7. CASE DirectoryProbe
  <2>1. step = "probe" /\ call = "DirectoryExists" /\ Now \subseteq held
    BY <1>7 DEF DirectoryProbe, StepFits
  <2>2. IF IsDirectory THEN "directory" \in held ELSE "no directory" \in held
    BY <2>1, NowAreFacts DEF FactsAreRight
  <2> QED
    BY <1>7, <2>1, <2>2, AnsweredKeeps DEF DirectoryProbe
<1>8. CASE CreateDirectory
  <2>1. /\ UNCHANGED <<flat, lists, file, child, call>> /\ marker' = TRUE /\ (flat \/ ~file)
        /\ held' = held \cup Now' /\ step' = "idle" /\ answer' \in {"yes", "error"}
        /\ call = "CreateDirectory"
    BY <1>8 DEF CreateDirectory, service, StepFits
  <2>2. ExistenceTypeOK'
    BY <2>1, NowWillBeFacts DEF FactsAreRight, Legal, Answers
  <2>3. "directory" \in held'
    BY <2>1, NowWillBeFacts DEF FactsAreRight, IsDirectory
  <2>4. StepFits' /\ YesHasHeld' /\ NoHasHeld'
    BY <2>1, <2>3 DEF StepFits, YesHasHeld, NoHasHeld
  <2> QED
    BY <2>2, <2>4 DEF AnswersHaveHeld
<1> QED
  BY <1>1, <1>2, <1>3, <1>4, <1>5, <1>6, <1>7, <1>8 DEF ExistenceNext, Step

\* A waiting call knows everything that has been true since it began, its present included.
THEOREM CallsKeepTheirHistory == ExistenceSpec => []ExistenceTypeOK
  BY ExistInit, ExistNext, PTL DEF ExistenceSpec, ExistInv

\* No answer of FileExists, DirectoryExists or CreateDirectory is made up of moments that never
\* were: a yes was true during the call, and so was a no, unless nothing can be listed.
THEOREM AnswersWereTrue == ExistenceSpec => []AnswersHaveHeld
  BY ExistInit, ExistNext, PTL DEF ExistenceSpec, ExistInv
================================================================================
