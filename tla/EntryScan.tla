------------------------------- MODULE EntryScan -------------------------------
(***************************************************************************)
(* The operations that list: the scans opendal_ls, opendal_stat and        *)
(* opendal_du over the cursors of opendal/src/table.rs, and ListFiles and  *)
(* Glob over opendal/src/lister.rs, while other programs create and remove *)
(* what is listed.                                                         *)
(*                                                                         *)
(* The entries a listing of the target can give are numbered in the order  *)
(* the service lists them, the directories they are in likewise, so a      *)
(* fetched page is a set that is taken from its least member on.  One      *)
(* operation is modelled: none shares anything with another.               *)
(***************************************************************************)
EXTENDS Integers, Sequences, FiniteSetsExt, Functions

CONSTANTS
  NumKeys,     \* entries, in the order they are listed
  NumDirs,     \* directories, in the order of their names
  Parent,      \* the directory an entry is in
  Dirs,        \* the entries that are directories
  Self,        \* the entry of the listed directory itself
  Matching,    \* the entries that match the glob
  Target,      \* the entry of a target that is a file
  Size,        \* content lengths
  MaxU64,      \* the largest u64
  VectorSize,  \* STANDARD_VECTOR_SIZE
  Kinds        \* bound: the operations to explore

Keys == 1..NumKeys
Directories == 1..NumDirs
Lists == {"ls", "ls_glob"}
Totals == {"du", "du_glob", "du_file"}
Calls == {"files", "glob"}
AllKinds == Lists \cup Totals \cup Calls \cup {"stat"}

ASSUME ScanAssumption ==
  /\ NumKeys \in Nat /\ NumDirs \in Nat
  /\ Parent \in [Keys -> Directories] /\ Size \in [Keys -> Nat] /\ MaxU64 \in Nat
  /\ Target \in Keys \ Dirs /\ Self \in Dirs
  /\ VectorSize \in Nat \ {0}
  /\ Kinds \subseteq AllKinds

VARIABLES
  kind,       \* the operation
  missing,    \* whether the service lacks a capability the operation needs
  store,      \* the entries that exist now
  phase,      \* where the operation is
  last,       \* how far the listing has come
  page,       \* what is fetched and not yet taken
  totals,     \* the files and bytes of a directory
  rows,       \* what the callers got, and count more in the chunk being filled
  count,
  finished,
  absent,     \* history: ListFiles or Glob has answered that there is nothing to list
  stable,     \* history: the entries that exist since the operation has begun
  seen        \* history: the entries that have existed since then

vars ==
  <<kind, missing, store, phase, last, page, totals, rows, count, finished, absent, stable, seen>>

Ended == {"failed", "dropped", "done"}

Phases == {"init", "collect", "ready", "call", "idle", "callback"} \cup Ended
Things == Keys \cup Directories

TypeOK ==
  /\ kind \in Kinds /\ stable \subseteq store /\ store \subseteq seen /\ seen \subseteq Keys
  /\ phase \in Phases /\ last \in 0..NumKeys /\ page \subseteq Things
  /\ rows \in Seq(Things) /\ count \in 0..VectorSize /\ finished \in BOOLEAN
  /\ absent \in BOOLEAN

Init ==
  /\ kind \in Kinds /\ missing \in BOOLEAN
  /\ store \in SUBSET Keys /\ stable = store /\ seen = store
  /\ phase = "init" /\ last = 0 /\ page = {}
  /\ totals = [d \in Directories |-> [files |-> 0, bytes |-> 0]]
  /\ rows = <<>> /\ count = 0 /\ finished = FALSE /\ absent = FALSE

world == <<kind, missing, absent, store, stable, seen>>
delivery == <<rows, count, finished>>

--------------------------------------------------------------------------------
(***************************************************************************)
(* The other programs, and the service's listing.                          *)
(***************************************************************************)
Change(k) ==
  /\ phase \notin Ended
  /\ \/ store' = store \cup {k}
     \/ store' = store \ {k}
  /\ stable' = stable \cap store'
  /\ seen' = seen \cup store'
  /\ UNCHANGED <<kind, missing, absent, phase, last, page, totals, delivery>>

\* A page covers some of what is ahead, as it is when the page is fetched.
Fetch ==
  /\ \/ phase = "collect"
     \/ phase = "call" /\ page = {} /\ count < VectorSize
  /\ \E m \in Keys :
       /\ last < m /\ last' = m
       /\ page' = page \cup {k \in store : last < k /\ k <= m}
  /\ UNCHANGED <<world, phase, totals, delivery>>

--------------------------------------------------------------------------------
(***************************************************************************)
(* Opening.                                                                *)
(***************************************************************************)
Fail ==
  /\ phase' = "failed"
  /\ UNCHANGED <<world, last, page, totals, delivery>>

\* An operator, a capability or an option that is refused, by a table function a URL too, or an
\* error of the service.
Refuse == phase = "init" /\ Fail

\* od_table_stat_open, od_table_list_open and od_list check what the service supports first.
require == ~missing

OpenList ==
  /\ phase = "init" /\ kind \in Lists /\ require
  /\ phase' = "ready"
  /\ UNCHANGED <<world, last, page, totals, delivery>>

\* The stat of one object, whose cursor gives it and ends: od_table_stat_open, and the stat of
\* opendal_du, which checks no capability.
OpenOne ==
  /\ phase = "init" /\ ((kind = "stat" /\ require) \/ kind = "du_file")
  /\ Target \in store
  /\ phase' = IF kind = "stat" THEN "ready" ELSE "collect"
  /\ page' = {Target} /\ last' = NumKeys
  /\ UNCHANGED <<world, totals, delivery>>

\* opendal_du, ListFiles and Glob take the whole listing before they go on.
OpenWhole ==
  /\ phase = "init" /\ ((kind \in Calls /\ require) \/ kind \in {"du", "du_glob"})
  /\ phase' = "collect"
  /\ UNCHANGED <<world, last, page, totals, delivery>>

\* A later page fails, or an entry cannot be made into a row: the query fails with it.
CursorFails == phase \in {"collect", "call"} /\ count < VectorSize /\ Fail

\* The service answers od_list that the directory, or one below it that a later page is about, is
\* not found, or ParseUrl refuses the URL: no error, but nothing of what has been listed either.
\* ListFiles returns false, and Glob no file.
NotFound ==
  /\ kind \in Calls /\ phase \in {"init", "collect"}
  /\ phase' = "done" /\ absent' = TRUE /\ page' = {}
  /\ UNCHANGED <<kind, missing, store, stable, seen, last, totals, delivery>>

--------------------------------------------------------------------------------
(***************************************************************************)
(* What is wanted of a listing.                                            *)
(***************************************************************************)
Wanted(k) ==
  /\ kind \in Lists \cup {"files"} => k # Self
  /\ kind \in Totals \cup {"glob"} => k \notin Dirs
  /\ kind \in {"ls_glob", "du_glob", "glob"} => k \in Matching
  /\ kind \in {"stat", "du_file"} => k = Target

FilesOf(keys, d) == {k \in keys : Wanted(k) /\ Parent[k] = d}
BytesOf(keys, d) == Cardinality(UNION {{k} \X (1..Size[k]) : k \in FilesOf(keys, d)})

\* Mutant: the sums wrap around.
Sum_wraps(keys, d) == BytesOf(keys, d) % (MaxU64 + 1)

Sum(keys, d) == BytesOf(keys, d)

Fits(keys) == \A d \in Directories : Sum(keys, d) <= MaxU64

\* opendal_du adds up by directory; a sum that does not fit fails the query.
Group ==
  /\ phase = "collect" /\ kind \in Totals /\ last = NumKeys
  /\ IF Fits(page)
     THEN /\ totals' = [d \in Directories |-> [files |-> Cardinality(FilesOf(page, d)),
                                               bytes |-> Sum(page, d)]]
          /\ phase' = "ready"
          /\ page' = {d \in Directories : FilesOf(page, d) # {}}
          /\ UNCHANGED <<world, last, delivery>>
     ELSE Fail

\* ListFiles and Glob go through what they have taken.
Collected ==
  /\ phase = "collect" /\ kind \in Calls /\ last = NumKeys
  /\ phase' = "callback"
  /\ UNCHANGED <<world, last, page, totals, delivery>>

--------------------------------------------------------------------------------
(***************************************************************************)
(* Delivering.                                                             *)
(***************************************************************************)
\* DuckDB asks for a chunk until it gets an empty one.
CallFunc ==
  /\ phase = "ready" \/ (phase = "idle" /\ count > 0)
  /\ phase' = IF finished THEN "idle" ELSE "call"
  /\ count' = 0
  /\ UNCHANGED <<world, last, page, totals, rows, finished>>

EndQuery ==
  /\ phase = "idle" /\ count = 0
  /\ phase' = "done"
  /\ UNCHANGED <<world, last, page, totals, delivery>>

\* A LIMIT is reached, or the query is cancelled.
Drop ==
  /\ phase \in {"ready", "idle"}
  /\ phase' = "dropped"
  /\ UNCHANGED <<world, last, page, totals, delivery>>

\* Mutant: the listed directory is not left out.
Delivers_self(item) == kind \in Totals \/ Wanted(item) \/ item = Self

Delivers(item) == kind \in Totals \/ Wanted(item)

\* Mutant: an entry that is filtered out is looked at again.
Take_stuck ==
  /\ phase = "callback" \/ (phase = "call" /\ count < VectorSize)
  /\ \E item \in page :
       /\ \A other \in page : item <= other
       /\ page' = IF Delivers(item) THEN page \ {item} ELSE page
       /\ rows' = IF Delivers(item) THEN Append(rows, item) ELSE rows
       /\ count' = IF phase = "call" /\ Delivers(item) THEN count + 1 ELSE count
  /\ UNCHANGED <<world, phase, last, totals, finished>>

\* Mutant: an entry that is filtered out ends the chunk.
Take_ends ==
  /\ phase = "callback" \/ (phase = "call" /\ count < VectorSize)
  /\ \E item \in page :
       /\ \A other \in page : item <= other
       /\ page' = page \ {item}
       /\ rows' = IF Delivers(item) THEN Append(rows, item) ELSE rows
       /\ count' = IF phase = "call" /\ Delivers(item) THEN count + 1 ELSE count
       /\ phase' = IF phase = "call" /\ ~Delivers(item) THEN "idle" ELSE phase
  /\ UNCHANGED <<world, last, totals, finished>>

\* One round of the loops of od_table_cursor_next and EntryFunc, of od_du_cursor_next and DuFunc,
\* or of ListFiles and Glob.
Take ==
  /\ phase = "callback" \/ (phase = "call" /\ count < VectorSize)
  /\ \E item \in page :
       /\ \A other \in page : item <= other
       /\ page' = page \ {item}
       /\ rows' = IF Delivers(item) THEN Append(rows, item) ELSE rows
       /\ count' = IF phase = "call" /\ Delivers(item) THEN count + 1 ELSE count
  /\ UNCHANGED <<world, phase, last, totals, finished>>

\* Mutant: a row stays where it was, and comes again with the next chunk.
ChunkIsFull_repeats ==
  /\ phase = "call" /\ count = VectorSize
  /\ phase' = "idle"
  /\ page' = page \cup {rows[Len(rows)]}
  /\ UNCHANGED <<world, last, totals, delivery>>

ChunkIsFull ==
  /\ phase = "call" /\ count = VectorSize
  /\ phase' = "idle"
  /\ UNCHANGED <<world, last, page, totals, delivery>>

ListingEnds ==
  /\ phase = "call" /\ count < VectorSize /\ page = {} /\ last = NumKeys
  /\ phase' = "idle" /\ finished' = TRUE
  /\ UNCHANGED <<world, last, page, totals, rows, count>>

CallReturns ==
  /\ phase = "callback" /\ page = {}
  /\ phase' = "done"
  /\ UNCHANGED <<world, last, page, totals, delivery>>

Scan ==
  \/ Refuse \/ OpenList \/ OpenOne \/ OpenWhole \/ Fetch \/ CursorFails \/ NotFound \/ Group
  \/ Collected \/ CallFunc \/ EndQuery \/ Take \/ ChunkIsFull \/ ListingEnds \/ CallReturns

Next == Scan \/ Drop \/ \E k \in Keys : Change(k)

Spec == Init /\ [][Next]_vars /\ WF_vars(Scan)

--------------------------------------------------------------------------------
(***************************************************************************)
(* Properties.                                                             *)
(***************************************************************************)
Item(k) == IF kind \in Totals THEN Parent[k] ELSE k
ItemsOf(keys) == {Item(k) : k \in {key \in keys : Wanted(key)}}

\* An operation that ends without an error has given everything wanted that existed all along:
\* no chunk before the last is empty, so that DuckDB does not stop early, and filters hide nothing.
\* The exception is an answer that something is not found, which ListFiles and Glob, but no table
\* function, take for an empty directory: then they give nothing at all, never a part.
CompleteScan ==
  phase = "done" => IF absent THEN kind \in Calls /\ rows = <<>>
                              ELSE ItemsOf(stable) \subseteq Range(rows)

\* Nothing is given that has not existed meanwhile, and no filtered entry, its own included.
NothingInvented == Range(rows) \subseteq ItemsOf(seen)

\* Nothing is given twice, whatever the pages and the chunks, and the order is the listing's.
RowsInOrder == \A i, j \in DOMAIN rows : i < j => rows[i] < rows[j]

\* opendal_du counts every file that existed all along and none that never did, in bytes too, which
\* fit in a u64.
TotalsAreBetween ==
  kind \in Totals /\ phase \in {"ready", "call", "idle", "done"} =>
    \A d \in Directories :
      /\ Cardinality(FilesOf(stable, d)) <= totals[d].files
      /\ totals[d].files <= Cardinality(FilesOf(seen, d))
      /\ BytesOf(stable, d) <= totals[d].bytes
      /\ totals[d].bytes <= BytesOf(seen, d) /\ totals[d].bytes <= MaxU64

\* How many more steps an operation over the entries ahead can take at most.  A row costs three:
\* it is taken, its chunk may be full, and the next one asked for.
PhaseSteps ==
  CASE phase = "init" -> 3 * NumDirs + 7
    [] phase = "collect" -> 3 * NumDirs + 6
    [] phase = "ready" -> 5
    [] phase = "call" -> IF count = 0 THEN 2 ELSE 4
    [] phase = "idle" -> IF count = 0 THEN 1 ELSE 3
    [] phase = "callback" -> 1
    [] phase \in Ended -> 0
StepsLeft == 4 * (NumKeys - last) + 3 * Cardinality(page) + PhaseSteps

\* No loop of an operation goes round for nothing: whatever page the service sends, whatever the
\* filters leave out and wherever a chunk ends, a step uses up some of a fixed budget, and what
\* other programs do gives none back.
ScanAdvances ==
  [][StepsLeft' \in 0..StepsLeft /\ (Scan => StepsLeft' # StepsLeft)]_vars

\* Every operation ends, however many entries the filters leave out.
ScanEnds == <>(phase \in Ended)
================================================================================
