# Specifications of duckdb-opendal

TLA+ models of the stateful core of the extension, model-checked with TLC, and
theorems about them checked with TLAPS. Paths below are relative to the
repository root.

## 1. The system

The extension registers one DuckDB `FileSystem` (C++, `src/`) whose every
operation ends in the OpenDAL Rust core (`opendal/src/`) through a C FFI. DuckDB
calls it from many query threads; every FFI call that does I/O blocks its
thread in `block_on` on one Tokio runtime.

| component | state | operations | talks to |
|---|---|---|---|
| write handle (`opendal_filesystem.cpp`, `writer.rs`) | C++: `writer`, `bytes_written`, `write_committable`, `write_finished`; Rust: `WriterState`, the OpenDAL writer | OpenFile, Write, FileSync, Close, destructor; `od_writer_open/write/close/abort/free` | the service, several blocking calls per operation |
| operator cache (`BuildOperator`) | `operators_` under `mu_`, `g_global_config` under `g_config_mu` | resolve settings and secret, look up, build outside the lock, publish | settings and secrets of other sessions, `od_operator_new` |
| `opendal_copy` (`CopyFunc`, `table.rs`) | the plan, its cursor, the output chunk | plan, copy one pair, return a chunk | two operators, the services, other clients of them |
| MoveFile and mutations (`mutate.rs`) | none | rename, copy and delete, remove, create | two resolutions of the cache |
| read handle (`reader.rs`) | `file_size`, `position` taken at the open | positioned and sequential Read, Seek | the service; the file may change |
| scheme dispatch | override list, thread-local `t_last_scheme` | CanHandleFile, IsManuallySet, SetOverrideSchemes | DuckDB's VFS |
| operator configuration (`config/`) | option values | parse, apply the layers | `od_operator_new` |
| table cursors, listing, globbing (`table.rs`, `lister.rs`, `stat.rs`) | lister, filters, groups | next, du, ls, stat, glob | the service |
| globs and URLs (`glob_matches`, `uri.rs`, `od_url_build`) | none | pure functions | |
| capabilities, secret types, extension entry, FFI glue | tables and registrations | | DuckDB |

What is hard: a write handle can be left at any point by an exception, of a guard, of
the service or of DuckDB's logger, and is then finished by its destructor; every service call can fail, panic, or fail
after it took effect; operators are built outside the lock and shared by
address; settings and secrets change between two steps of a resolution; a copy
runs over many scan calls against a plan that others make stale.

What makes each part correct:

- *write handle*: readers of the path only ever see whole writes; a success
  that was reported is visible; an open, a write, a sync or a close that failed never becomes
  visible later; uploads are cancelled; handles are freed.
- *operator cache*: a caller's operator is alive, unique for its key, and was
  built from settings valid during the call; no race leaks one.
- *copy*: every planned source is copied at most once; rows and commits agree;
  an undisturbed source is copied byte for byte; no half-written destination.
- *MoveFile*: never loses the only copy. *read handle*: bytes and positions
  belong to the file that was opened. *dispatch*: the answer of IsManuallySet is
  about the path that was asked for. *configuration*: what is accepted means what was
  written. *cursors and listing*:
  every entry once, none lost, none made up, and the scan ends. *existence*: the answer
  was true at some moment of the call. *globs and URLs*: a pattern matches what it
  stands for, and the URL given for a name means the name.

## 2. Modules

| module | models |
|---|---|
| `Writer` | the Rust `OdWriter`s of several handles on one path, and the service behind them |
| `WriteHandle` | extends `Writer` by the C++ handle; the specification, its properties, the refinement mapping to `AtomicPut` |
| `AtomicPut` | abstract: a put commits at most once, in one step, exactly its acknowledged bytes |
| `WriteHandleProofs` | the inductive invariant of `WriteHandle`, the theorems, and the proof that it implements `AtomicPut` |
| `OperatorCache` | `BuildOperator` run by several threads while settings and secrets change |
| `SharedOperators` | abstract: a table in which an object is found or created in one step and never replaced |
| `OperatorCacheProofs` | the inductive invariant of `OperatorCache`, the theorems, and the proof that it implements `SharedOperators` |
| `CopyCursor` | `CopyFunc` and its cursor, `copy_one` with both transfer modes |
| `CopyCursorProofs` | the inductive invariant of `CopyCursor` and the theorems |
| `Mutations` | `MoveFile`, `RemoveFile`, `RemoveDirectory` of several clients over `od_rename`, `od_copy`, `od_remove` |
| `MutationsProofs` | the inductive invariant of `Mutations` and the theorems |
| `ReadHandle` | a handle opened for reading, with its FFI calls |
| `ReadHandleProofs` | the inductive invariant of `ReadHandle` and the theorems |
| `EntryScan` | `opendal_ls`, `opendal_stat`, `opendal_du`, `ListFiles` and `Glob` over the listing of a store that changes |
| `EntryScanProofs` | the inductive invariants of `EntryScan` and of `Existence` and the theorems about both |
| `Existence` | `FileExists`, `DirectoryExists` and `CreateDirectory` over `od_stat`, `od_dir_exists`, `od_create_dir` |
| `SchemeDispatch` | `CanHandleFile` and `IsManuallySet` of several threads, and the setting they depend on |
| `SchemeDispatchProofs` | the inductive invariant of `SchemeDispatch` and the theorems |
| `Globs` | `glob_matches`, and the listings `Glob`, `opendal_ls` and `opendal_du` match against it |
| `Urls` | `resolve` and `od_url_build` |
| `OperatorConfig` | the options of `config/`, what is accepted of them, and the range of the cache |
| `Inputs` | extends `Globs`, `Urls` and `OperatorConfig`: behaviours that build an input of one of them |
| `InputsProofs` | theorems about the functions of the three |
| `MC*` | values of the constants for TLC |

### Writer and WriteHandle

A blocking FFI call is two steps: the entry, which checks the state and leaves
the call in `call[h]`, and the service's answer (`WriteDone`, `CloseDone`,
`AbortDone`). `abort_after_failure` blocks a second time: the call "cleanup". The
C++ function in progress is `step[h]`; each is an action up to the FFI call
(`Write`, `FileSync`, `Close`, `Destroy`, `Unwind`) and one that handles the return
code (`WriteReturns`, ...). `Finish` and `CloseInternal` are the two halves of
`CloseInternal` in the code. A throw inside `OpenFile` after the writer exists is
`OpenFileThrows`, followed by `Unwind`.

Data is reduced to lengths and to whether an image is torn (holds bytes of a
write that threw). The service may fail any call, may fail a close although it took
effect, and a call may panic (`ffi_guard` makes it an error and the WriterState stays Open).

`told[h]` is what DuckDB knows of the put. "failed": opening, a write, a sync or a close
did not do what it was called for; this sticks, and the put is over. "thrown": an exception
after which the handle is as committable as before, and its destructor may yet publish what
was written until then. So it is when a guard of `Write` refuses a call (`WriteRefused`:
closed, finalized, non-sequential or overflowing), and when a logger throws, which DuckDB's
logging macros may:

| logger of | action | what it leaves behind |
|---|---|---|
| `OpenFile` (469) | `OpenFileThrows` | a handle that is not committable; it is aborted: "failed" |
| `CloseInternal`, before anything (134) | `CloseThrows` | nothing has changed |
| `CloseInternal`, a failed close (148) | `CloseErrorThrows` | a handle that seems open over a writer that has failed, or has panicked and may yet be closed again |
| `Write`, after the writer took the bytes (535) | `WriteThrows` | bytes in the writer that the handle does not know of; the next write is taken at the old location |

The last two throw between two changes of state. `threw` remembers them, and the properties
that they break say so: `ImageIsWhole` and `LayersAgree` are about the handles without them,
and in `AtomicPut` they lead a put astray. In the destructor, and so in the unwinding of
`OpenFile`, a logger that throws ends the process (`std::terminate`); that is not modelled.

### OperatorCache

One action per critical section, and one per step between them; an operator is
an address of a small pool, so that use after free and double free would be
visible. An option map is a function from option names to values. The identity
of a configuration is the sequence of the map entries, as in `ConfigIdentity`,
whose length prefixes make the string as good as that sequence. A resolution without a
context and without a database, which `ApplySecret` leaves as it is, is one that matches no
secret.

An operator that warns of its cache is logged while only a raw pointer knows it. If that
logger throws (`WarningThrows`), the operator is leaked: `leaked` counts these, and
`Ownership` says that nothing else is.

The secret is looked up after the settings were copied, so the two may be of different
moments of one call. `CurrentConfig` allows that: each was in force at some time during the call.

`SharedOperators` is what callers see of it: a call borrows, in one step, the operator of its
key. That step is `LookupHit`, or `Publish` whether or not it wins; all else is a stutter
(`Lent` is the mapping).

### CopyCursor

Sources and destinations are names of one store, so that a tree copied into
itself is covered; two services are two disjoint sets of names. An object is the
sequence of its blocks. The plan is the (source, size) pairs; the scan then fills
chunks of `VectorSize` rows, pair by pair, by the server-side Copier or by ranges of
`ChunkSize`. Other clients replace or delete sources at any time, `MaxChanges` times.
A streamed copy stops at the size found when it was planned (`table.rs:997`), so a source that has
grown meanwhile is copied up to there; `FaithfulCopy` is about the sources nobody touched.

### Mutations

`job[c]` is the call a client is in. `ResolveSource` and `ResolveTarget` are the two
`OperatorFor` of `MoveFile`, between which `Reconfigure` may change the settings;
`OperatorCache` shows that one configuration has one operator, so here the operator
*is* the configuration. Then come one or two blocking calls. A service answers
(`Answer`), refuses (`Refuse`), or performs the call and loses the answer, whereupon
the retry layer sends it again (`LoseAnswer`). A request that was abandoned has taken
effect by then or never will. A recursive delete lists, then deletes one by one.

Content is a version number. The history variables `version`, `had_target` and
`clean` remember what the first call found, and whether anybody else has touched the
paths since; the properties speak of undisturbed calls, since a copy followed by an
unconditional delete can promise nothing against a writer in between.

`CreateDirectory` is an action of `Existence`.

### ReadHandle

One handle, since DuckDB makes one call at a time on each (`reader.rs:21`) and handles
share nothing. `step` is where `OpenFile` or a read is: `od_stat`, `od_reader_open`,
the construction under the reader's guard, and, in a read, one `Fetch` per request to
the service; a read is one request, or several if `read.chunk_size` is set (which are
modelled one after the other). The object is replaced by one of another length, deleted
or made a directory at any time. A byte is named by its offset.

`ToInt64` and `ToUInt64` are the casts of `Seek` and the sequential `Read`. After a seek
beyond the signed range `file_size - position` may overflow; `Remaining` then allows the
wrapped and the exact value, independently in each use. `readers` counts `OdReader`s,
`reader` tells whether the handle points at one. `origin` and `stream` remember where
DuckDB last put the position and which bytes sequential reads have returned since;
`clean` tells that the object is the one `OpenFile` has found, `seen` how long it was when the
last request to the service met it.

### EntryScan

All operations that list are one module, since they are one loop: fetch a page, take its
entries in order, keep what is wanted. `kind` tells which it is. `opendal_ls` (`ls`,
`ls_glob`) and `opendal_stat` deliver in chunks of `VectorSize` rows while they fetch;
`opendal_du` (`du`, `du_glob`, `du_file`) collects everything, adds up by directory (`Group`)
and delivers the directories; `ListFiles` and `Glob` (`files`, `glob`) collect and then call
back. DuckDB asks for chunks until one is empty (`CallFunc`, `EndQuery`), or drops the query
(`Drop`). Entries are numbered in the order of the listing, a page is a set, and `Change`
creates and removes entries at any moment, so that a page shows what there is when it is
fetched. One operation is modelled: cursors share nothing. `stable` and `seen` remember what
has existed all along and at some moment. The metadata columns are copied, and left out.

An error of the service is an exception, with one exception: `ListFiles` and `Glob` take a
NotFound of `od_list` for an empty directory, and return false or no file, as they do for a URL
that `ParseUrl` refuses (`NotFound`). Since `od_list` takes all pages before it returns, this
hides what earlier pages have listed when a directory below vanishes between two of them.
`absent` remembers such an answer.

### Existence

One name `d`, which may be a file, a directory marker and a prefix of other keys; `flat`
tells an object store, where all three may exist together, from a file system.
`DirectoryExists` asks for the stat and then, if nothing is found and the service can list,
for the prefix; `Others` changes everything between the two. `held` remembers what was true
at some moment of the call. `od_exists` is never called by the C++ side and left out. The name is
one that `ParseUrl` accepts; of a URL it refuses the checks answer no, and `CreateDirectory`
throws, without any call of the service.

### SchemeDispatch

DuckDB asks `CanHandleFile` and then `IsManuallySet` on one thread, and the first leaves the
scheme for the second in the thread-local `t_last_scheme` (`Slot`). `SetOverrideSchemes` reads
the new list character by character (`Reading`: the names so far and the one being read) and
replaces the old one under its mutex by its set of names (`Schemes`); it may come between the two calls, and there is one list for all sessions. `ever` and `always`
remember which schemes were listed at some moment and all along the dispatch.

### Globs, Urls and OperatorConfig

These functions keep no state: the variables are an input, which grows token by token or
option by option, so that every state is an input and the operators are the program. `Inputs`
puts the three together: a behaviour builds a pattern, a text or a set of options, and leaves
the other two empty.

`Globs` builds patterns from tokens (characters, separators, the wildcards, brackets) and gives
each token of a pattern its meaning, a set of words (`Meaning`); the meaning of a pattern
(`Language`) is theirs, one after the other. Of the brackets, those of one range or of single
characters have a meaning (`Meaningful`): several ranges, or a range beside single characters,
are matched by the model as by the code, but `MatchesMeaning` says nothing of them. `glob_matches` works on the characters, with the
same cases and the same order as the code (`Matched`: one place of pattern and value, by the
answers for the places behind it); its memo is the recursive function. `LsGlob` and
`Glob` list the directory before the first wildcard and match what comes.

`Urls` has texts with separators, whole and broken escapes, and characters that need one.
Decoding goes through a text once (`Decoding`: what has come out so far, and how many
characters of the last escape are left). `od_url_build` also escapes every byte of a character
that is not ASCII, which the model passes through; decoding undoes it. `glob_matches` works on
bytes: a character of the model is a byte of the code, so that a character of several bytes
takes as many "?".

`OperatorConfig` has values that are a number and a unit, and a u64 of `MaxU64`. What the
layers do to a call belongs to OpenDAL and is not modelled here.

## 3. Runs

| run | configuration | shows |
|---|---|---|
| `write_handle` | 1 handle with a timeout section, `MaxInt64` = 3, all failures and throws | types, success, failure and cancellation, the two layers, release of the handle, refinement of `AtomicPut` |
| `write_race` | 2 handles on a path without a timeout section, `MaxInt64` = 1, all failures and throws; symmetric | whole images, refinement of `AtomicPut` |
| `operator_cache` | 2 threads, 2 targets, 2 addresses, 2 settings, 2 secrets; symmetric | operators in use are live, ownership, freshness, refinement of `SharedOperators` |
| `cache_collision` | 1 thread, an option name that is also a service key | *violation* of `CurrentConfig` |
| `copy` | 3 sources copied onto one another and out, sizes 1 and 3, ranges of 2, chunks of 2 rows, 2 changes | the properties of the copy, progress and end of each call |
| `mutations` | 2 clients, 3 paths (2 in the removed tree), 4 kinds of service, 2 configurations, 1 version by others, 1 lost answer per call; symmetric | no content lost, success is complete, targets stay |
| `read_handle` | int64 of 3 bits, objects of 0 to 4 bytes, reads of 0 to 3, chunks of 1, 2 or none | contiguous reads, true ends, full buffers, readers freed |
| `entry_scan` | 5 entries in 2 directories, all of them coming and going, chunks of 2 rows, a u64 of 0 to 2, all 8 kinds of operation, with and without the capability | every entry once and in order, none made up, true sums, an end after a bounded number of steps |
| `existence` | one name, object store and file system, with and without listing | answers have been true |
| `scheme_dispatch` | 2 threads, 4 paths with 2 schemes in both cases, 6 lists | the answer is about the own path and a list in force |
| `inputs` | patterns of up to 4 of 11 tokens against paths of up to 4 characters; texts of up to 4 of 15 tokens, 3 schemes; up to 3 of 19 options and 3 unknown ones, a u64 of 5 bits | globs match what they stand for and lose nothing, names have URLs, options mean what they say |
| `copy_rows` | as `copy`, without changes | *violation* of `RowPerCommit` |

Why these bounds are enough to be of interest: two handles are what it takes to
race for a path, and the properties relate a handle to the object, never three
handles; with `MaxInt64` = 1 each writes once or nothing, and hits the overflow guard. Alone
and with `MaxInt64` = 3 a handle can write three times, before and after a write that was
refused or threw. Two threads and two addresses give the race of two builds for one key, reuse of
the address that its loser has freed, and a leak beside an operator in use. Three sources give an overlap chain, a full chunk and a partial one;
sizes of 1 and 3 blocks with ranges of 2 give a short last range, growth and
shrinking. Two clients and three paths let two mutations meet in none, one or all of
their paths, source and target of one be the other's; a lost answer is what it
takes to send a rename or a copy twice, one version of others to disturb a call. Integers of 3 bits leave room for a file of
several reads and for positions beyond, at and past the sign bit. Five entries are a
directory, its own entry, a subdirectory and more rows than a chunk has, and a sum of three
sizes beyond the largest. Two threads are what it takes to use another's slot. Four tokens
make a double star before and after a name and a bracket after a star, an escape of an
escape, and an escaped separator after a real one; three options are both bounds of a range
and the section that does not matter to it.

`TypeOK` is checked in `write_handle`, where it holds the overflow check of `Write`; in the
other modules it is a theorem.

`CHECK_DEADLOCK FALSE` in all runs but `mutations`, `read_handle`, `existence` and
`scheme_dispatch`: handles end destroyed, the file system ends destructed, a copy or scan
ends, an input is complete.

Fairness. `WriteHandle!Fairness`: a C++ function goes on once its FFI call has
returned. That the service answers is assumed only for the handles in `Timed`, whose operator
has a `timeout` section: OpenDAL's timeout layer bounds each call, and it is applied only if
there is such a section (`config/mod.rs:58`; "omit a section and its behaviour is simply not
applied", `docs/configuration.md:58`). Without one a call may hang, and `HandlesAreReleased` says
nothing of the handle. Nothing makes DuckDB open, write, close or destroy.
`CopyCursor!FairSpec`: inside one scan call the thread goes on; nothing makes
DuckDB ask for another chunk. `EntryScan!Spec`: the thread goes on, and
DuckDB goes on asking, as it does until a chunk is empty, unless it drops the query; then the
operation ends, since a listing has finitely many entries, however many are filtered out and
whatever is created behind it. In these two, that the service answers each call is an assumption
about the environment, which a `timeout` section makes good for both operators; `CallReturns`
and `ScanEnds` are about the loops of the code, which must end if the calls in them do. The other
modules have no liveness property.

### Where code and documents disagree

1. `ConfigIdentity` puts nothing between the service map and the option map, so
   moving an entry from one to the other does not change the key, and operations
   started after the change use the old operator (`docs/configuration.md:93`).
2. An error drops the rows of earlier copies in the same chunk, although
   `opendal_copy` returns "one row per copied object ... as each copy commits"
   (`docs/table-functions.md:80`).

Those are shown by a run each. Others were met while the code was translated; the
models follow the code, and no run is about them:

- Operators are cached per effective configuration, not "per scheme://authority"
  (`src/include/opendal_filesystem.hpp:36`), and never evicted.
- `resolve` turns every backslash into a separator before it decodes (`uri.rs:15`), and
  `od_url_build` does not escape one, so a path that came out of `%5C` is rebuilt into a URL
  of another path (`src/include/opendal_filesystem.hpp:132`). `EveryNameHasAUrl` therefore
  leaves out names with a backslash.
- `resolve` refuses a URL with a question mark (`uri.rs:16`), although a path with one
  "switches to glob matching" (`docs/table-functions.md:29`).
- The table functions look for wildcards in the decoded path
  (`opendal_table_functions.cpp:183`), `Glob` looks in the URL (`opendal_filesystem.cpp:737`):
  with `%2A` they take one URL for a pattern and for a name, although "one URL always means
  one object" (`docs/configuration.md:109`).
- `od_table_du_open` has no `require` (`table.rs:747`), unlike the other listings
  (`capability.rs:7`).
- `od_dir_exists` answers no for a name that is an object, although it is a prefix too
  (`stat.rs:134`, against the comment at `stat.rs:143`). `NoHasHeld` allows for it.
- `SET opendal_override_native_filesystems` in one session changes all of them
  (`opendal_extension.cpp:28`), although it is registered as "a session/global setting"
  (`docs/coexistence.md:44`).

## 4. Theorems

All theorems hold for any number of handles or threads and any values of the
constants, from the assumptions named in the modules (`WriterAssumption`: `MaxInt64`
is positive and `Nobody` is no handle; `CacheAssumption`: `Nil` is neither an
address, nor a set of locals, nor a loan). In every module `TypeCorrect` or `TypeCorrectness` is the type
invariant, which `IInv` contains.

**`WriteHandleProofs`.** No property of the write handle is inductive: whether a
close may publish depends on the call in flight, on whose behalf it is made, and on
what the C++ side knows already. `IInv` says for one handle at a time how its
variables fit together:

| conjunct | says |
|---|---|
| `CallFitsStep` | which FFI calls each C++ function waits for |
| `WriterFitsHandle` | where the writer is in its life, as the handle's members tell |
| `BytesAgree` | while the handle can still act, writer and handle count the same bytes, and none is of a write that threw, unless its logger did |
| `CommitIsLast` | a commit finishes the handle and what it published is what was written, unless a logger threw in the middle |
| `ToldAgrees` | what was reported fits what happened; a failure has finished the handle, a refused write has not |
| `UploadExplained` | why an upload may still be at the service |

`OneHandle` is the frame: a step of one handle leaves the others alone (they share
only `object`, which names its writer), so each action is shown to preserve the
conjuncts of its own handle only, one lemma per action. The theorems `TypeCorrect`,
`ObjectIsWhole`, `SuccessIsCommitted`, `LayersStayInStep` follow from `IInv` (the last says also
that a writer exists exactly while its handle has it, so each is freed once);
`FailureIsFinal` and `UploadsAreCancelled` are action properties: they find the one
action that could break them and contradict it with `IInv`. All of them hold with refused writes
and throwing loggers among the steps: what those leave behind is part of the invariant, not
left out of it.

`HandlesArePuts` is there too: the handles implement `AtomicPut`. A refused write and a logger
that throws are `Throw`, which leads the put astray if it was in the middle. The entries of the FFI functions are stutters; the answer to a close is the commit,
whether or not it is answered by success; the returns report it; freeing a writer or
finishing an abort drops a put that no close has published. Which abstract step a
return is depends on `IInv`.

**`OperatorCacheProofs`.** What makes a returned operator safe are facts about
threads in the middle of `BuildOperator`: what a thread is about to publish is live,
its own and unpublished (`OperatorFits`), a published operator is live and was built
for its key (`MapFits`), a leaked one is live and nobody's (`LeakedIsLost`), and nothing else is
live (`LiveIsOwned`). `NoUseAfterFree`,
`KeyDeterminesOperator`, `EveryOperatorHasOneOwner` follow. `FreshUnlessCollision` has
the hypothesis `NoCollision` (`ConfigIdentity` is injective on the configurations in
use): under it a caller is served settings that were in force since its call began.
The hypothesis is what the run `cache_collision` lacks, so the collision is the only
way to be served the operator of another configuration.

`CacheIsSharedTable` is the refinement, without that hypothesis. Every action of a thread is
matched with a step of `SharedOperators` or a stutter (`SharedStepRefines`); what needs `IInv` is
that a fresh operator is in no entry yet, that the loser of a race borrows what the winner has
published, and that the destructor finds nothing lent (`OpenWhileBusy`).

**`MutationsProofs`.** `IInv` says how far an undisturbed call has come (`MoveFits`,
`RemoveFits`): before a copy the version is at the source, before the delete of a move
at the target, which is then another path, during a rename at one of the two.
`SparedKeeps` is the frame: a step of another client leaves a job's paths alone or
marks it as disturbed. `TypeCorrect`, `ContentKept`, `SuccessIsDone` and `TargetAnswers`
follow, from `MutationsAssumption` (the tree is a set of paths, services have
capabilities from the three named, bounds are naturals, `Nil` is no configuration).

**`ReadHandleProofs`.** `IInv` adds to the properties where the position is, namely
where the stream ends, up to the cast (`Cursor`), and what the request in flight may
still bring (`RequestFits`): its range starts at the position and stays in the file. A position that has wrapped
around is past the end of any object (`PastTheEnd`), so nothing is ever read there.
`SequentialReads`, `EmptyIsTheEnd`, `FullReads` and `ReadersAreFreed` follow. The theorems hold for integers of any width, any object sizes and any chunk sizes
(`ReadAssumption`).

**`CopyCursorProofs`.** Five facts hold between any two steps: which variables mean
something in which phase (`Shape`), how the rest of the plan and the pair in hand share the
sources with what has been copied (`PlanFits`), how far the rows lag behind the commits
(`Matched`), which sources nobody has touched since they were planned (`Untouched`), and how
much of the source a streamed destination holds (`Streamed`). `PlanIsCopiedOnce`,
`WritersAreClosed`, `RowsAreCommits` and the action property `CopiesAreFaithful` follow, for any
finite set of sources, anywhere among their own destinations (`CopyAssumption`).

`CallsAdvance` is what safety there is in the end of a call: every step of it shortens the plan,
or keeps the plan and ends a stage of the pair (`StageOf`), or keeps both and comes further in
the source, never beyond the planned size. Other clients take nothing of that back, so a call
could only fail to end by standing still.

**`EntryScanProofs`.** What is wanted and has existed all along is ahead of the listing, on
the page, or delivered (`NothingLost`), unless the operation has ended with nothing because something was not found; the page and the rows are things that existed
(`PageIsReal`), the rows come before the page and the page before what is ahead (`InOrder`);
`Stage` says what each phase leaves of the others. When `opendal_du` groups, the same facts
pass from entries to directories, with nothing ahead. `ScansAreComplete`, `NothingIsInvented`
and `RowsAreInOrder` follow, for any number of entries, directories, pages and rows in a
chunk (`ScanAssumption`). `TotalsAreRight` adds that the totals of `opendal_du` lie between
those of the files that existed all along and of those that ever did: they are counted from
the page, which lies between the two, counts and bytes are monotone in the set counted, and
bytes are counted as the cardinality of a set of (entry, byte) pairs, so that no induction
over the entries is needed.

`ScansAdvance` gives every operation a budget (`StepsLeft`): each of its steps uses some of it up,
none adds to it, whatever others create or remove. An operation over n entries in d
directories takes at most 4n + 3d + 7 steps, and what remains of `ScanEnds` is that steps are taken.

The same module has the theorems about `Existence`. Its invariant is that the history of a waiting
call holds what is true now (`CallsKeepTheirHistory`), and that a call waits for a service call of
its own kind (`StepFits`). An answer then comes from a moment of the call, whichever of stat and
probe gives it: `AnswersWereTrue`.

**`SchemeDispatchProofs`.** Between its two calls a thread's slot holds the scheme of its own
path (`SchemeIsKept`), and the list of the moment lies between what was listed all along and
what was listed ever (`HistoryIsKept`), so an answer that looks at the list once is right
about the dispatch: `AnswersFit`. `ListIsTheSetting` says that the list is
exactly the names between the separators of the setting, in lower case and without the empty
ones, for texts of any length: after k characters the names read are those that end before k,
and the name in hand is what follows the last separator (`Read`). `DispatchAssumption`: the empty
list is a value of the setting, and settings are texts of separators and of characters that have
a lower case.

**`InputsProofs`.** The functions, for inputs of any size.

- Options (`ConfigAssumption`: factors and largest numbers are naturals). `AcceptedMeansWritten`:
  an accepted size in bytes is the number that was written times its unit, to the bit, without a
  wrap or a division that loses something; what must be positive is; the cache takes the sizes
  of its range.
- URLs (`UrlAssumption`: texts are UTF-8 without a NUL, the digits of an escape are no
  characters that mean something in a URL, and what must be escaped has an escape).
  `NamesHaveUrls`: a name that is encoded and resolved is that name (`RoundTrip`), since every
  percent sign of an encoded name begins an escape of it (`EncodedMeans`), and decoding a text
  that ends with a whole escape does not depend on what follows (`DecodingOfAPrefix`).
  `SeparatorsShow`: decoding a text without an escaped separator keeps their number
  (`DecodingKeepsSlashes`), so the path has those of the text after the authority.
- Patterns (`GlobAssumption`: patterns are made of sequences of characters).
  `PatternsMean`: `glob_matches` accepts exactly the words of the pattern. The pattern is its
  tokens, each where the one before ends and followed by nothing that would make it another
  token (`Made`, the inductive invariant, kept by `Separate`); from the place of a token the
  matcher accepts a value if some beginning of it is a word of the token and it accepts the rest
  from the next one (`TokenIsRead`, by kind of token: the backtracking of the stars is
  `Skipping`, the loop over a bracket `ClassHasMembers`); so after k tokens it is where the words
  of k tokens end (`ReadUpTo`), and after the last one at the end of the value.
  `NoMatchIsLost`: what comes before the first wildcard is matched character by character
  (`LiteralsMatch`), so what matches lies below the directory that is listed; where that is
  listed without its subdirectories, no "/" and no "**" is left in the pattern, and what matches
  the rest has no separator (`OneLevel`).

Recursive functions. What is known of a recursive function `f[k \in D] == ...` is that it solves
its equation, if anything does. So each comes with a lemma that something does (`Recursion`, for
any definition whose values depend on those of a smaller measure), and what it computes is
shown from the equation by least counterexample (`NatLeast`, `UpTo`), which take a set where an
induction theorem would take a predicate.

How the proofs guard against the prover. Two translations of tlapm 1.4.5 to SMT are wrong, and a
leaf that meets one of them proves anything: an EXCEPT with several components of one element
(`[f EXCEPT ![h].a = x, ![h].b = y]`), and, wherever a sequence is in sight, a function whose
domain is known not to begin with 1. The first form is used nowhere: such an update is
`[f EXCEPT ![h] = [@ EXCEPT !.a = x, !.b = y]]`. Where the second cannot be avoided (`ReadingIs`,
`DecodingIs`, `LanguagesAre`: a recursive function over `0..n` that reads a text), the arithmetic is
settled before the function is in sight, the steps with the function are Zenon's, and what needs
arithmetic and the function is a lemma without a text (`Iteration`, `IterationStaysIn`); other lemmas
are told such a function's values one by one, never its domain. Besides, each leaf has been tried with
FALSE in the place of what it shows, from the same facts: SMT found a contradiction only in steps
that refute a case, and in the steps of those three lemmas that are left to Zenon for that reason.

Only model-checked: `HandlesAreReleased`, `CallReturns` and `ScanEnds`, since liveness under fairness
is out of the prover's reach. Proved of them is what is safety: who owns a writer
(`LayersStayInStep`), and that no step goes back (`CallsAdvance`, `ScansAdvance`).

## 5. Plan

1. (done) write handle: model, abstract specification, runs, invariants and refinement
   proved.
2. (done) operator cache: model, runs, safety proved; copy: model and runs.
3. (done) MoveFile over two resolutions of the cache, rename or copy and delete; remove.
4. (done) read handle: positioned and sequential reads over a file that changes.
5. (done) scheme dispatch: threads, thread-local scheme, changing override list; proved.
6. (done) retries that are not idempotent, in `Mutations`, where an answer is lost and the call
   sent again.
7. (done) table cursors and du, listing and existence, safety of the scans proved;
   `glob_matches`, `resolve` and `od_url_build` against reference definitions.
8. (done) option parsing.
9. (done) proofs of `CopyCursor`.
10. (done) proofs about recursive functions: the totals of `opendal_du`, the list of schemes,
    options, URLs there and back, the listings behind a glob.
11. (done) the meaning of patterns, for all patterns and paths, by induction over the tokens.
12. (done) the cache as a shared table; progress of copies and scans; existence for any service.
13. (done) what throws beside the service: refused writes, loggers in the middle of a change, and
    what is not found in the middle of a listing.
14. A meaning for brackets with several ranges, or with a range beside single characters.

## 6. Not modelled

- *Capabilities and opendal_info*: a table of flags copied out of OpenDAL. The guard that reads
  them is `require` in `EntryScan`.
- *Secret types*: registration with DuckDB. What a secret does to a configuration is in
  `OperatorCache`.
- *Extension entry, FFI glue, runtime*: registration, error codes, one Tokio runtime. What they
  do to the rest is in the models: a blocking call is two steps, a panic is an error.
- *Build, CI, packaging*: not part of the running program.
- Inside modelled components: the metadata columns of the table functions; the parsing of
  their named parameters at bind time, which ends in an error or in the kinds and constants of
  the models; `od_exists`, which has no caller; `apply_layers` and what OpenDAL's layers do to
  a call, beyond the retries of `Mutations` and the timeout that `Timed` stands for; a logger that
  throws in a destructor, which ends the process.
- Inside OpenDAL: the permits of its concurrency limit, which it alone takes and returns, the
  disk cache of the foyer library, and the services. They are represented by what the code can
  observe of them.
