------------------------------ MODULE ReadHandle ------------------------------
(***************************************************************************)
(* A file opened for reading: OpenFile, both Reads, Seek and Close of      *)
(* src/opendal_filesystem.cpp over opendal/src/reader.rs, on an object     *)
(* that other programs replace at any time.                                *)
(*                                                                         *)
(* DuckDB makes one call at a time on a handle, and handles share nothing, *)
(* so there is one handle.  The content of an object is its length: a byte *)
(* is named by its offset.  Integers are as wide as int64_t and uint64_t,  *)
(* with a smaller maximum.                                                 *)
(***************************************************************************)
EXTENDS Integers, Sequences, FiniteSetsExt

CONSTANTS
  MaxInt64,   \* the largest int64_t and isize
  MaxLength,  \* bound: bytes DuckDB asks for in one read
  Chunks      \* the values of read.chunk a session can have, 0 if unset

ASSUME ReadAssumption ==
  MaxInt64 \in Nat \ {0} /\ MaxLength \in 0..MaxInt64 /\ Chunks \subseteq Nat

VARIABLES
  chunk,      \* read.chunk of the operator
  file,       \* the length of the object, or Absent, or Directory
  step,       \* where the C++ call in progress is
  readers,    \* OdReaders that exist
  reader,     \* whether the handle's pointer to its OdReader is set
  file_size, position,
  request,    \* the call of od_reader_read in progress
  result,     \* the last read
  clean,      \* history: the object is the one OpenFile has found
  seen,       \* history: the length of the object that the last request to the service has met
  origin,     \* history: where DuckDB has put the position
  stream      \* history: the bytes sequential reads have returned since

openVars == <<readers, reader, file_size>>
readVars == <<position, request, result, origin, stream>>
vars == <<chunk, file, step, openVars, readVars, clean, seen>>

Two64 == 2 * (MaxInt64 + 1)
Int64 == -(MaxInt64 + 1)..MaxInt64
UInt64 == 0..(Two64 - 1)
ToInt64(u) == IF u > MaxInt64 THEN u - Two64 ELSE u
ToUInt64(i) == IF i < 0 THEN i + Two64 ELSE i

Absent == -1
Directory == -2
Objects == {Absent, Directory} \cup 0..(MaxInt64 + 1)

Idle == [sequential |-> FALSE, asked |-> 0, offset |-> 0, length |-> 0, done |-> 0]
Requests == [sequential: BOOLEAN, asked: 0..MaxLength, offset: UInt64, length: 0..MaxInt64,
             done: 0..MaxInt64]

\* What a read has told DuckDB: the bytes returned, or -1 for an exception.
NoResult == [sequential |-> FALSE, asked |-> 0, offset |-> 0, n |-> -1]
Results == [sequential: BOOLEAN, asked: 0..MaxLength, offset: UInt64, n: -1..MaxInt64]

TypeOK ==
  /\ chunk \in Chunks /\ file \in Objects /\ clean \in BOOLEAN
  /\ step \in {"none", "stat", "open", "construct", "idle", "read"}
  /\ readers \in {0, 1} /\ reader \in BOOLEAN
  /\ file_size \in 0..(MaxInt64 + 1) /\ position \in Int64
  /\ request \in Requests /\ result \in Results
  /\ origin \in UInt64 /\ stream \in Seq(UInt64) /\ seen \in 0..(MaxInt64 + 1)

Init ==
  /\ chunk \in Chunks /\ file \in Objects /\ clean = FALSE
  /\ step = "none" /\ readers = 0 /\ reader = FALSE
  /\ file_size = 0 /\ position = 0 /\ request = Idle /\ result = NoResult
  /\ origin = 0 /\ stream = <<>> /\ seen = 0

\* Another program replaces or deletes the object.
Replace(object) ==
  /\ file' = object
  /\ clean' = FALSE
  /\ UNCHANGED <<chunk, step, openVars, readVars, seen>>

(***************************************************************************)
(* OpenFile.                                                               *)
(***************************************************************************)
OpenFile ==
  /\ step = "none"
  /\ step' = "stat"
  /\ UNCHANGED <<chunk, file, openVars, readVars, clean, seen>>

Stat ==
  /\ step = "stat" /\ file \in 0..(MaxInt64 + 1)
  /\ file_size' = file
  /\ clean' = TRUE
  /\ step' = "open"
  /\ UNCHANGED <<chunk, file, readers, reader, readVars, seen>>

\* The object is missing or a directory, a capability is missing, or a call fails.
OpenFails ==
  /\ step \in {"stat", "open"}
  /\ step' = "none" /\ file_size' = 0 /\ clean' = FALSE
  /\ UNCHANGED <<chunk, file, readers, reader, readVars, seen>>

\* From here on the reader belongs to a guard.
OpenReader ==
  /\ step = "open"
  /\ readers' = readers + 1
  /\ step' = "construct"
  /\ UNCHANGED <<chunk, file, reader, file_size, readVars, clean, seen>>

Construct ==
  /\ step = "construct" /\ file_size <= MaxInt64
  /\ reader' = TRUE
  /\ step' = "idle"
  /\ UNCHANGED <<chunk, file, readers, file_size, readVars, clean, seen>>

\* Mutant: nobody frees the reader of a file that is too large.
ConstructLeaks == UNCHANGED readers

\* The file is too large, or a logger throws and takes the new handle with it.
ConstructCleansUp == readers' = readers - 1

ConstructFails ==
  /\ step = "construct"
  /\ ConstructCleansUp
  /\ step' = "none" /\ file_size' = 0 /\ clean' = FALSE
  /\ UNCHANGED <<chunk, file, reader, readVars, seen>>

(***************************************************************************)
(* Reads.                                                                  *)
(***************************************************************************)
Return(sequential, asked, offset, n) ==
  result' = [sequential |-> sequential, asked |-> asked, offset |-> offset, n |-> n]

\* od_reader_read up to the first request; its error paths return -1 and DuckDB gets an exception.
Request(sequential, asked, offset, length) ==
  \/ /\ length = 0 /\ Return(sequential, asked, offset, 0)
     /\ IF sequential THEN UNCHANGED <<position, origin, stream>>
        ELSE position' = offset /\ origin' = offset /\ stream' = <<>>
     /\ UNCHANGED <<step, request>>
  \/ /\ length > MaxInt64 \/ (length > 0 /\ offset + length > Two64 - 1)
     /\ Return(sequential, asked, offset, -1)
     /\ UNCHANGED <<step, position, request, origin, stream>>
  \/ /\ length \in 1..MaxInt64 /\ offset + length <= Two64 - 1
     /\ request' = [sequential |-> sequential, asked |-> asked, offset |-> offset,
                    length |-> length, done |-> 0]
     /\ step' = "read"
     /\ UNCHANGED <<position, result, origin, stream>>

\* A read of a closed handle, of a negative length or out of the ranges throws.
ReadThrows ==
  /\ step = "idle"
  /\ result' = NoResult
  /\ UNCHANGED <<chunk, file, step, openVars, position, request, origin, stream, clean, seen>>

\* The positioned Read; a negative length and a location above MaxInt64 are ReadThrows.
ReadAt(nr_bytes, location) ==
  /\ step = "idle" /\ reader /\ location <= MaxInt64 /\ nr_bytes <= Two64 - 1 - location
  /\ Request(FALSE, nr_bytes, location, nr_bytes)
  /\ UNCHANGED <<chunk, file, openVars, clean, seen>>

\* file_size - position; where it overflows, the build may go on with the sum or wrap it around.
Remaining ==
  LET difference == file_size - position
  IN  IF difference <= MaxInt64 THEN {difference} ELSE {difference, difference - Two64}

\* Mutant: the last byte is left out.
ToReadShort(nr_bytes, remaining) == Min({nr_bytes, remaining - 1})

ToRead(nr_bytes, remaining) == Min({nr_bytes, remaining})

\* The sequential Read.  Each use of an overflowed difference may see another value.
Read(nr_bytes) ==
  /\ step = "idle" /\ reader
  /\ \E test, remaining \in Remaining :
       \/ /\ test <= 0
          /\ Return(TRUE, nr_bytes, ToUInt64(position), 0)
          /\ UNCHANGED <<step, position, request, origin, stream>>
       \/ /\ test > 0
          /\ Request(TRUE, nr_bytes, ToUInt64(position), ToUInt64(ToRead(nr_bytes, remaining)))
  /\ UNCHANGED <<chunk, file, openVars, clean, seen>>

\* Mutant: the position follows the request, not the answer.
AdvanceByRequest(n) == position' = position + request.length

Advance(n) == position' = position + n

\* Mutant: a short answer is passed over.
PositionedIsFullUnchecked(n) == TRUE

PositionedIsFull(n) == n = request.asked

\* What the C++ side does with an answer of n bytes.
ReadReturns(n) ==
  \/ /\ request.sequential
     /\ Return(TRUE, request.asked, request.offset, n)
     /\ Advance(n)
     /\ stream' = stream \o [i \in 1..n |-> request.offset + i - 1]
     /\ UNCHANGED origin
  \/ /\ ~request.sequential /\ PositionedIsFull(n)
     /\ Return(FALSE, request.asked, request.offset, request.asked)
     /\ position' = ToInt64(request.offset + n)
     /\ origin' = request.offset + n /\ stream' = <<>>
  \/ /\ ~request.sequential /\ ~PositionedIsFull(n)
     /\ Return(FALSE, request.asked, request.offset, -1)
     /\ UNCHANGED <<position, origin, stream>>

\* One request to the service (external): it answers what there is of the range.
Fetch ==
  /\ step = "read" /\ file \in 0..(MaxInt64 + 1)
  /\ LET left == request.length - request.done
         size == IF chunk = 0 THEN left ELSE Min({chunk, left})
         got == Max({0, Min({size, file - request.offset - request.done})})
         done == request.done + got
     IN  \/ /\ got = size /\ done < request.length
            /\ request' = [request EXCEPT !.done = done]
            /\ UNCHANGED <<step, position, result, origin, stream>>
         \/ /\ got < size \/ done = request.length
            /\ ReadReturns(done)
            /\ request' = Idle /\ step' = "idle"
  /\ seen' = file
  /\ UNCHANGED <<chunk, file, openVars, clean>>

\* A request fails, be it that the range is outside the object or that the logger throws.
FetchFails ==
  /\ step = "read"
  /\ Return(request.sequential, request.asked, request.offset, -1)
  /\ request' = Idle /\ step' = "idle"
  /\ UNCHANGED <<chunk, file, openVars, position, origin, stream, clean, seen>>

Seek(location) ==
  /\ step = "idle"
  /\ position' = ToInt64(location)
  /\ origin' = location /\ stream' = <<>> /\ result' = NoResult
  /\ UNCHANGED <<chunk, file, step, openVars, request, clean, seen>>

(***************************************************************************)
(* Close, and the destructor, which closes what is still open.             *)
(***************************************************************************)
ForgetReader == reader' = FALSE

CloseInternal ==
  IF reader THEN readers' = readers - 1 /\ ForgetReader ELSE UNCHANGED <<readers, reader>>

Close ==
  /\ step = "idle"
  /\ CloseInternal
  /\ UNCHANGED <<chunk, file, step, file_size, readVars, clean, seen>>

Destroy ==
  /\ step = "idle"
  /\ CloseInternal
  /\ step' = "none" /\ file_size' = 0 /\ clean' = FALSE
  /\ position' = 0 /\ request' = Idle /\ result' = NoResult /\ origin' = 0 /\ stream' = <<>>
  /\ UNCHANGED <<chunk, file, seen>>

Next ==
  \/ \E object \in Objects : Replace(object)
  \/ OpenFile \/ Stat \/ OpenFails \/ OpenReader \/ Construct \/ ConstructFails
  \/ \E nr_bytes \in 0..MaxLength : Read(nr_bytes) \/ \E l \in UInt64 : ReadAt(nr_bytes, l)
  \/ ReadThrows \/ Fetch \/ FetchFails
  \/ \E l \in UInt64 : Seek(l)
  \/ Close \/ Destroy

Spec == Init /\ [][Next]_vars

--------------------------------------------------------------------------------
(***************************************************************************)
(* Properties.                                                             *)
(***************************************************************************)
\* Sequential reads neither skip nor repeat a byte, starting where DuckDB last put the position,
\* although reads fall short or fail when the object shrinks under them.
StreamIsContiguous == \A i \in DOMAIN stream : stream[i] = origin + i - 1

\* No sequential read goes beyond the size OpenFile has found, even if the object has grown.
StreamStaysInFile == \A i \in DOMAIN stream : stream[i] < file_size

\* Both: what sequential reads have returned is a stretch of the file, byte by byte, however reads
\* fall short or fail and however the object changes.
StreamIsTheFile == StreamIsContiguous /\ StreamStaysInFile

\* When a sequential read returns nothing, everything from where the position was put to the end
\* of an unchanged object has been returned: DuckDB takes an empty read for the end of the file.
EndIsTheEnd ==
  clean /\ result.sequential /\ result.asked > 0 /\ result.n = 0 =>
    origin + Len(stream) >= file

\* A positioned read that succeeds has filled the buffer: the last of its requests has met an
\* object that reaches to the end of the range, also when the object shrinks between two requests
\* of one read.
FullReadIsInFile ==
  step = "idle" /\ ~result.sequential /\ result.n > 0 => result.offset + result.asked <= seen

\* An OdReader lives as long as the handle that points at it or the open that is about to make
\* one: a failed open leaves none behind, and a closed handle points at none.
ReaderIsOwned == readers = (IF reader \/ step = "construct" THEN 1 ELSE 0)
================================================================================
