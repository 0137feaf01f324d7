--------------------------- MODULE ReadHandleProofs ---------------------------
(***************************************************************************)
(* Theorems about ReadHandle, for integers of any width and any chunks.    *)
(*                                                                         *)
(* The position is where the bytes that DuckDB was given end (Cursor), so  *)
(* what the next bytes are depends on the request in flight (RequestFits). *)
(***************************************************************************)
EXTENDS ReadHandle, TLAPS

\* Outside of an open handle nothing is remembered.
Fresh ==
  step \notin {"idle", "read"} =>
    /\ position = 0 /\ origin = 0 /\ stream = <<>> /\ ~reader /\ result.n = -1

\* The open handle has a size in range, that of the object if nobody has replaced it.
SizeFits ==
  /\ step \in {"idle", "read"} => file_size <= MaxInt64
  /\ clean => file = file_size
  /\ step = "read" => reader

\* The position is where the stream ends.
Cursor ==
  /\ origin + Len(stream) \in UInt64
  /\ position = ToInt64(origin + Len(stream))

\* What a request may still bring.
RequestFits ==
  step = "read" =>
    /\ request.length > 0 /\ request.done < request.length
    /\ request.sequential =>
         /\ request.offset = ToUInt64(position)
         /\ position >= 0 => request.length <= file_size - position
         /\ position < 0 => request.done = 0
    /\ ~request.sequential => request.length = request.asked /\ request.offset <= MaxInt64

IInv ==
  /\ TypeOK /\ ReaderIsOwned /\ Fresh /\ SizeFits /\ Cursor /\ RequestFits
  /\ StreamIsContiguous /\ StreamStaysInFile /\ EndIsTheEnd /\ FullReadIsInFile

--------------------------------------------------------------------------------
LEMMA MinOfTwo ==
  ASSUME NEW a \in Int, NEW b \in Int
  PROVE  Min({a, b}) = IF a <= b THEN a ELSE b
<1>1. \E m \in {a, b} : \A y \in {a, b} : m <= y
  OBVIOUS
<1>2. /\ Min({a, b}) \in {a, b} /\ \A y \in {a, b} : Min({a, b}) <= y
  BY <1>1 DEF Min
<1> QED
  BY <1>2

LEMMA MaxOfTwo ==
  ASSUME NEW a \in Int, NEW b \in Int
  PROVE  Max({a, b}) = IF a >= b THEN a ELSE b
<1>1. \E m \in {a, b} : \A y \in {a, b} : m >= y
  OBVIOUS
<1>2. /\ Max({a, b}) \in {a, b} /\ \A y \in {a, b} : Max({a, b}) >= y
  BY <1>1 DEF Max
<1> QED
  BY <1>2

LEMMA InitEstablishes == Init => IInv
<1> SUFFICES ASSUME Init PROVE IInv
  OBVIOUS
<1>1. TypeOK
  <2>1. Idle \in Requests /\ NoResult \in Results
    BY ReadAssumption DEF Idle, Requests, NoResult, Results, UInt64, Two64
  <2>2. 0 \in Int64 /\ 0 \in UInt64 /\ 0 \in 0..(MaxInt64 + 1)
    BY ReadAssumption DEF Int64, UInt64, Two64
  <2>3. <<>> \in Seq(UInt64) /\ stream = <<>>
    BY DEF Init
  <2>4. /\ chunk \in Chunks /\ file \in Objects /\ clean \in BOOLEAN /\ step = "none"
        /\ readers \in {0, 1} /\ reader \in BOOLEAN /\ seen = 0
    BY DEF Init
  <2>5. file_size \in 0..(MaxInt64 + 1) /\ position \in Int64 /\ origin \in UInt64
    BY <2>2 DEF Init
  <2>6. request \in Requests /\ result \in Results
    BY <2>1 DEF Init
  <2> QED
    BY <2>2, <2>3, <2>4, <2>5, <2>6 DEF TypeOK
<1>2. Fresh /\ SizeFits /\ Cursor
  BY ReadAssumption DEF Init, Fresh, SizeFits, Cursor, NoResult, ToInt64, UInt64, Two64
<1>3. ReaderIsOwned /\ RequestFits /\ StreamIsContiguous /\ StreamStaysInFile
  BY DEF Init, ReaderIsOwned, RequestFits, StreamIsContiguous, StreamStaysInFile
<1>4. EndIsTheEnd /\ FullReadIsInFile
  BY DEF Init, EndIsTheEnd, FullReadIsInFile
<1> QED
  BY <1>1, <1>2, <1>3, <1>4 DEF IInv

LEMMA ReplaceStep ==
  ASSUME IInv, NEW object \in Objects, Replace(object)
  PROVE  IInv'
<1> USE DEF Replace, openVars, readVars
<1>1. TypeOK'
  BY DEF IInv, TypeOK
<1>2. ReaderIsOwned' /\ Fresh' /\ SizeFits' /\ Cursor' /\ RequestFits'
  BY DEF IInv, ReaderIsOwned, Fresh, SizeFits, Cursor, RequestFits
<1>3. StreamIsContiguous' /\ StreamStaysInFile' /\ EndIsTheEnd' /\ FullReadIsInFile'
  BY DEF IInv, StreamIsContiguous, StreamStaysInFile, EndIsTheEnd, FullReadIsInFile
<1> QED
  BY <1>1, <1>2, <1>3 DEF IInv

\* The steps of OpenFile and the destructor: no handle before or after the step.
LEMMA OpenStep ==
  ASSUME IInv, OpenFile \/ Stat \/ OpenFails \/ OpenReader \/ Construct \/ ConstructFails
  PROVE  IInv'
<1> USE DEF OpenFile, Stat, OpenFails, OpenReader, Construct, ConstructFails, ConstructCleansUp,
            openVars, readVars
<1>1. step \notin {"idle", "read"} /\ stream = <<>> /\ ~reader /\ result.n = -1
  BY DEF IInv, Fresh
<1>2. readers = (IF step = "construct" THEN 1 ELSE 0)
  BY <1>1 DEF IInv, ReaderIsOwned
<1>3. /\ UNCHANGED <<chunk, file, readVars, seen>>
      /\ file_size' \in {0, file_size, file} /\ step' # "read"
      /\ step' \in {"none", "stat", "open", "construct", "idle", "read"}
  OBVIOUS
<1>4. TypeOK'
  <2>1. file_size' \in 0..(MaxInt64 + 1)
    BY ReadAssumption DEF IInv, TypeOK
  <2>2. clean' \in BOOLEAN /\ reader' \in BOOLEAN
    BY DEF IInv, TypeOK
  <2>3. readers' \in {0, 1}
    BY <1>2 DEF IInv, TypeOK
  <2> QED
    BY <1>3, <2>1, <2>2, <2>3 DEF IInv, TypeOK
<1>5. ReaderIsOwned'
  BY <1>1, <1>2 DEF ReaderIsOwned
<1>6. Fresh' /\ SizeFits'
  BY <1>1, <1>3 DEF IInv, Fresh, SizeFits
<1>7. Cursor' /\ RequestFits'
  BY <1>3 DEF IInv, Cursor, RequestFits
<1>8. StreamIsContiguous' /\ StreamStaysInFile'
  BY <1>1, <1>3 DEF StreamIsContiguous, StreamStaysInFile
<1>9. EndIsTheEnd' /\ FullReadIsInFile'
  BY <1>1, <1>3 DEF EndIsTheEnd, FullReadIsInFile
<1> QED
  BY <1>4, <1>5, <1>6, <1>7, <1>8, <1>9 DEF IInv
(***************************************************************************)
(* Reads.                                                                  *)
(***************************************************************************)
\* A step that changes only the result of the last read, between two calls.
LEMMA ResultStep ==
  ASSUME IInv, result' \in Results,
         step \in {"idle", "read"}, step' = "idle",
         request' \in Requests,
         seen' \in 0..(MaxInt64 + 1),
         UNCHANGED <<chunk, file, openVars, position, origin, stream, clean>>,
         EndIsTheEnd', FullReadIsInFile'
  PROVE  IInv'
<1> USE DEF openVars
<1>1. TypeOK' /\ ReaderIsOwned'
  BY DEF IInv, TypeOK, ReaderIsOwned
<1>2. Fresh' /\ SizeFits' /\ Cursor' /\ RequestFits'
  BY DEF IInv, Fresh, SizeFits, Cursor, RequestFits
<1>3. StreamIsContiguous' /\ StreamStaysInFile'
  BY DEF IInv, StreamIsContiguous, StreamStaysInFile
<1> QED
  BY <1>1, <1>2, <1>3 DEF IInv

\* Neither property says anything of a read that has thrown.
LEMMA NothingRead ==
  ASSUME result'.n = -1
  PROVE  EndIsTheEnd' /\ FullReadIsInFile'
  BY DEF EndIsTheEnd, FullReadIsInFile

LEMMA ResultTypes ==
  ASSUME NEW sequential \in BOOLEAN, NEW asked \in 0..MaxLength, NEW offset \in UInt64,
         NEW n \in -1..MaxInt64, Return(sequential, asked, offset, n)
  PROVE  /\ result' \in Results /\ result'.sequential = sequential /\ result'.asked = asked
         /\ result'.offset = offset /\ result'.n = n
  BY DEF Return, Results

LEMMA Types ==
  ASSUME IInv
  PROVE  /\ NoResult \in Results /\ NoResult.n = -1 /\ Idle \in Requests
         /\ -1 \in -1..MaxInt64 /\ 0 \in -1..MaxInt64 /\ 0 \in UInt64 /\ 0 \in Int64
         /\ ToUInt64(position) \in UInt64 /\ position \in Int64
         /\ request \in Requests /\ result \in Results
         /\ Len(stream) \in Nat /\ origin \in UInt64 /\ seen \in 0..(MaxInt64 + 1)
         /\ position >= 0 => origin + Len(stream) = position
         /\ position < 0 => origin + Len(stream) = position + Two64
<1>1. NoResult \in Results /\ NoResult.n = -1 /\ Idle \in Requests
  BY ReadAssumption DEF NoResult, Results, Idle, Requests, UInt64, Two64
<1>2. position \in Int64 /\ ToUInt64(position) \in UInt64 /\ 0 \in UInt64 /\ 0 \in Int64
  BY ReadAssumption DEF IInv, TypeOK, ToUInt64, UInt64, Int64, Two64
<1>3. Len(stream) \in Nat
  BY DEF IInv, TypeOK
<1>4. /\ position >= 0 => origin + Len(stream) = position
      /\ position < 0 => origin + Len(stream) = position + Two64
  <2> DEFINE end == origin + Len(stream)
  <2>1. end \in UInt64 /\ position = ToInt64(end)
    BY DEF IInv, Cursor
  <2> HIDE DEF end
  <2>2. /\ position >= 0 => end = position
        /\ position < 0 => end = position + Two64
    BY <2>1, ReadAssumption DEF ToInt64, UInt64, Two64
  <2> QED
    BY <2>2 DEF end
<1> QED
  BY <1>1, <1>2, <1>3, <1>4, ReadAssumption DEF IInv, TypeOK

LEMMA ReadThrowsStep ==
  ASSUME IInv, ReadThrows
  PROVE  IInv'
<1>1. result' \in Results /\ result'.n = -1
  BY Types DEF ReadThrows
<1> QED
  BY <1>1, ResultStep, NothingRead, Types DEF ReadThrows

LEMMA FetchFailsStep ==
  ASSUME IInv, FetchFails
  PROVE  IInv'
<1>1. request.sequential \in BOOLEAN /\ request.asked \in 0..MaxLength /\ request.offset \in UInt64
  BY Types DEF Requests
<1>2. result' \in Results /\ result'.n = -1
  BY <1>1, Types, ResultTypes DEF FetchFails
<1> QED
  BY <1>2, ResultStep, NothingRead, Types DEF FetchFails

\* The position is put somewhere.
LEMMA PutStep ==
  ASSUME IInv, NEW location \in UInt64, step \in {"idle", "read"}, step' = "idle",
         position' = ToInt64(location), origin' = location, stream' = <<>>,
         result' \in Results, ~result'.sequential \/ result'.n = -1, request' \in Requests,
         seen' \in 0..(MaxInt64 + 1),
         UNCHANGED <<chunk, file, openVars, clean>>, FullReadIsInFile'
  PROVE  IInv'
<1> USE DEF openVars
<1>1. position' \in Int64
  BY ReadAssumption DEF ToInt64, UInt64, Int64, Two64
<1>2. TypeOK' /\ ReaderIsOwned'
  BY <1>1 DEF IInv, TypeOK, ReaderIsOwned
<1>3. Fresh' /\ SizeFits' /\ RequestFits'
  BY DEF IInv, Fresh, SizeFits, RequestFits
<1>4. Cursor'
  BY ReadAssumption DEF Cursor, UInt64, Two64
<1>5. StreamIsContiguous' /\ StreamStaysInFile' /\ EndIsTheEnd'
  BY DEF StreamIsContiguous, StreamStaysInFile, EndIsTheEnd
<1> QED
  BY <1>2, <1>3, <1>4, <1>5 DEF IInv

LEMMA SeekStep ==
  ASSUME IInv, NEW location \in UInt64, Seek(location)
  PROVE  IInv'
<1>1. result' \in Results /\ result'.n = -1
  BY Types DEF Seek
<1> QED
  BY <1>1, PutStep, NothingRead, Types DEF Seek

\* A call of od_reader_read that DuckDB's arguments allow.
LEMMA RequestStep ==
  ASSUME IInv, step = "idle", reader,
         UNCHANGED <<chunk, file, openVars, clean, seen>>,
         NEW sequential \in BOOLEAN, NEW asked \in 0..MaxLength, NEW offset \in UInt64,
         NEW length \in Nat,
         sequential =>
           /\ offset = ToUInt64(position)
           /\ length \in 1..MaxInt64 /\ position >= 0 => length <= file_size - position
           /\ length = 0 /\ clean /\ asked > 0 => origin + Len(stream) >= file,
         ~sequential => length = asked /\ offset <= MaxInt64,
         Request(sequential, asked, offset, length)
  PROVE  IInv'
<1>1. CASE length = 0 /\ sequential /\ Return(sequential, asked, offset, 0)
           /\ UNCHANGED <<position, origin, stream, step, request>>
  <2>1. result' \in Results /\ result'.sequential /\ result'.asked = asked /\ result'.n = 0
    BY <1>1, ResultTypes, Types
  <2>2. EndIsTheEnd' /\ FullReadIsInFile'
    BY <1>1, <2>1 DEF EndIsTheEnd, FullReadIsInFile
  <2> QED
    BY <1>1, <2>1, <2>2, ResultStep, Types
<1>2. CASE length = 0 /\ ~sequential /\ Return(sequential, asked, offset, 0)
           /\ position' = offset /\ origin' = offset /\ stream' = <<>>
           /\ UNCHANGED <<step, request>>
  <2>1. result' \in Results /\ ~result'.sequential /\ result'.n = 0
    BY <1>2, ResultTypes, Types
  <2>2. FullReadIsInFile'
    BY <2>1 DEF FullReadIsInFile
  <2>3. position' = ToInt64(offset)
    BY <1>2, ReadAssumption DEF ToInt64, UInt64, Two64
  <2> QED
    BY <1>2, <2>1, <2>2, <2>3, PutStep, Types
<1>3. CASE Return(sequential, asked, offset, -1)
           /\ UNCHANGED <<step, position, request, origin, stream>>
  <2>1. result' \in Results /\ result'.n = -1
    BY <1>3, ResultTypes, Types
  <2> QED
    BY <1>3, <2>1, NothingRead, ResultStep, Types
<1>4. CASE /\ length \in 1..MaxInt64 /\ offset + length <= Two64 - 1
           /\ request' = [sequential |-> sequential, asked |-> asked, offset |-> offset,
                          length |-> length, done |-> 0]
           /\ step' = "read" /\ UNCHANGED <<position, result, origin, stream>>
  <2> USE DEF openVars
  <2>1. request' \in Requests
    BY <1>4, ReadAssumption DEF Requests
  <2>2. TypeOK' /\ ReaderIsOwned'
    BY <1>4, <2>1 DEF IInv, TypeOK, ReaderIsOwned
  <2>3. Fresh' /\ SizeFits' /\ Cursor'
    BY <1>4 DEF IInv, Fresh, SizeFits, Cursor
  <2>4. RequestFits'
    BY <1>4, ReadAssumption DEF RequestFits
  <2>5. StreamIsContiguous' /\ StreamStaysInFile' /\ EndIsTheEnd' /\ FullReadIsInFile'
    BY <1>4 DEF IInv, StreamIsContiguous, StreamStaysInFile, EndIsTheEnd, FullReadIsInFile
  <2> QED
    BY <2>2, <2>3, <2>4, <2>5 DEF IInv
<1> QED
  BY <1>1, <1>2, <1>3, <1>4 DEF Request
LEMMA ReadAtStep ==
  ASSUME IInv, NEW nr_bytes \in 0..MaxLength, NEW location \in UInt64, ReadAt(nr_bytes, location)
  PROVE  IInv'
<1>1. nr_bytes \in Nat /\ FALSE \in BOOLEAN
  OBVIOUS
<1>2. /\ step = "idle" /\ reader /\ location <= MaxInt64
      /\ Request(FALSE, nr_bytes, location, nr_bytes)
      /\ UNCHANGED <<chunk, file, openVars, clean, seen>>
  BY DEF ReadAt
<1> QED
  BY <1>1, <1>2, RequestStep

\* A handle whose position has wrapped around is past the end of any object.
LEMMA PastTheEnd ==
  ASSUME IInv, step \in {"idle", "read"}, position < 0 \/ position >= file_size
  PROVE  clean => origin + Len(stream) >= file
<1>1. /\ file_size \in 0..MaxInt64 /\ (clean => file = file_size)
  BY DEF IInv, TypeOK, SizeFits
<1>2. position < 0 => position + Two64 > MaxInt64
  BY Types, ReadAssumption DEF Int64, Two64
<1> QED
  BY <1>1, <1>2, Types, ReadAssumption DEF Int64, UInt64, Two64

LEMMA ReadStep ==
  ASSUME IInv, NEW nr_bytes \in 0..MaxLength, Read(nr_bytes)
  PROVE  IInv'
<1>1. step = "idle" /\ reader /\ UNCHANGED <<chunk, file, openVars, clean, seen>>
  BY DEF Read
<1>2. file_size \in 0..MaxInt64 /\ position \in Int64
  BY <1>1 DEF IInv, TypeOK, SizeFits
<1>3. PICK test \in Remaining, remaining \in Remaining :
        \/ /\ test <= 0
           /\ Return(TRUE, nr_bytes, ToUInt64(position), 0)
           /\ UNCHANGED <<step, position, request, origin, stream>>
        \/ /\ test > 0
           /\ Request(TRUE, nr_bytes, ToUInt64(position), ToUInt64(ToRead(nr_bytes, remaining)))
  BY DEF Read
<1>4. /\ test \in Int /\ remaining \in Int /\ remaining >= -(MaxInt64 + 1)
      /\ position >= 0 => test = file_size - position /\ remaining = file_size - position
      /\ test <= 0 \/ remaining <= 0 => position < 0 \/ position >= file_size
  BY <1>2, ReadAssumption DEF Remaining, Int64, Two64
<1>5. CASE /\ test <= 0 /\ Return(TRUE, nr_bytes, ToUInt64(position), 0)
           /\ UNCHANGED <<step, position, request, origin, stream>>
  <2>1. result' \in Results /\ result'.sequential /\ result'.n = 0
    BY <1>5, ResultTypes, Types
  <2>2. EndIsTheEnd'
    BY <1>1, <1>4, <1>5, PastTheEnd DEF EndIsTheEnd
  <2>3. FullReadIsInFile'
    BY <2>1 DEF FullReadIsInFile
  <2> QED
    BY <1>1, <1>5, <2>1, <2>2, <2>3, ResultStep, Types
<1>6. CASE /\ test > 0
           /\ Request(TRUE, nr_bytes, ToUInt64(position), ToUInt64(ToRead(nr_bytes, remaining)))
  <2> DEFINE length == ToUInt64(ToRead(nr_bytes, remaining))
  <2>1. ToRead(nr_bytes, remaining) = IF nr_bytes <= remaining THEN nr_bytes ELSE remaining
    BY <1>4, MinOfTwo DEF ToRead
  <2>2. /\ length \in Nat
        /\ position >= 0 => length <= file_size - position
        /\ length = 0 /\ nr_bytes > 0 => position < 0
    BY <1>2, <1>4, <1>6, <2>1, ReadAssumption DEF ToUInt64, Two64, Int64
  <2>3. length = 0 /\ clean /\ nr_bytes > 0 => origin + Len(stream) >= file
    BY <1>1, <2>2, PastTheEnd
  <2>4. ToUInt64(position) \in UInt64 /\ TRUE \in BOOLEAN
    BY Types
  <2> HIDE DEF length
  <2>5. Request(TRUE, nr_bytes, ToUInt64(position), length)
    BY <1>6 DEF length
  <2> QED
    BY <1>1, <2>2, <2>3, <2>4, <2>5, RequestStep
<1> QED
  BY <1>3, <1>5, <1>6

\* Concatenation.
LEMMA Joined ==
  ASSUME NEW S, NEW s \in Seq(S), NEW t \in Seq(S)
  PROVE  /\ s \o t \in Seq(S) /\ Len(s \o t) = Len(s) + Len(t)
         /\ \A i \in 1..(Len(s) + Len(t)) :
              (s \o t)[i] = IF i <= Len(s) THEN s[i] ELSE t[i - Len(s)]
<1>1. s \o t \in Seq(S)
  OBVIOUS
<1>2. Len(s \o t) = Len(s) + Len(t)
  OBVIOUS
<1> QED
  BY <1>1, <1>2

\* The stream after an answer of n bytes.
LEMMA StreamGrows ==
  ASSUME IInv, step = "read", position >= 0, NEW n \in 0..(file_size - position),
         NEW offset, offset = position,
         stream' = stream \o [i \in 1..n |-> offset + i - 1],
         position' = position + n, UNCHANGED <<origin, file_size>>
  PROVE  /\ stream' \in Seq(UInt64) /\ position' \in Int64
         /\ Cursor' /\ StreamIsContiguous' /\ StreamStaysInFile'
<1>1. /\ file_size \in 0..MaxInt64 /\ position \in Nat /\ n \in Nat
      /\ stream \in Seq(UInt64) /\ Len(stream) \in Nat /\ origin \in Nat
      /\ origin + Len(stream) = position
  BY Types DEF IInv, TypeOK, SizeFits, Int64, UInt64
<1> DEFINE new == [i \in 1..n |-> offset + i - 1]
<1>2. new \in Seq(UInt64) /\ Len(new) = n /\ \A i \in 1..n : new[i] = position + i - 1
  <2>1. \A i \in 1..n : offset + i - 1 \in UInt64
    BY <1>1, ReadAssumption DEF UInt64, Two64
  <2> QED
    BY <1>1, <2>1
<1> HIDE DEF new
<1>3. stream' = stream \o new
  BY DEF new
<1>4. /\ stream' \in Seq(UInt64) /\ Len(stream') = Len(stream) + n
      /\ \A i \in 1..Len(stream') :
           stream'[i] = IF i <= Len(stream) THEN stream[i] ELSE new[i - Len(stream)]
  <2>1. new \in Seq(UInt64) /\ stream \in Seq(UInt64)
    BY <1>1, <1>2
  <2>2. /\ stream \o new \in Seq(UInt64) /\ Len(stream \o new) = Len(stream) + Len(new)
        /\ \A i \in 1..(Len(stream) + Len(new)) :
             (stream \o new)[i] = IF i <= Len(stream) THEN stream[i] ELSE new[i - Len(stream)]
    BY <2>1, Joined
  <2> QED
    BY <1>2, <1>3, <2>2
<1>5. ASSUME NEW i \in DOMAIN stream'
      PROVE  stream'[i] = origin + i - 1 /\ stream'[i] < file_size
  <2>1. i \in 1..Len(stream')
    BY <1>4
  <2>2. CASE i <= Len(stream)
    <3>1. i \in DOMAIN stream
      BY <1>1, <2>1, <2>2
    <3> QED
      BY <1>4, <2>1, <2>2, <3>1 DEF IInv, StreamIsContiguous, StreamStaysInFile
  <2>3. CASE i > Len(stream)
    <3>1. i - Len(stream) \in 1..n
      BY <1>1, <1>4, <2>1, <2>3
    <3>2. stream'[i] = position + (i - Len(stream)) - 1
      BY <1>1, <1>2, <1>4, <2>1, <2>3, <3>1
    <3> QED
      BY <1>1, <3>1, <3>2
  <2> QED
    BY <1>1, <1>4, <2>1, <2>2, <2>3
<1>6. origin + Len(stream') = position' /\ position' \in 0..MaxInt64
  <2>1. position' = position + n /\ Len(stream') = Len(stream) + n
    BY <1>4
  <2> QED
    BY <1>1, <2>1, ReadAssumption
<1>7. Cursor' /\ position' \in Int64
  BY <1>6, ReadAssumption DEF Cursor, ToInt64, UInt64, Int64, Two64
<1> QED
  BY <1>4, <1>5, <1>7 DEF StreamIsContiguous, StreamStaysInFile

LEMMA ReadReturnsStep ==
  ASSUME IInv, step = "read", step' = "idle", request' = Idle,
         seen' = file, UNCHANGED <<chunk, file, openVars, clean>>,
         NEW n \in 0..request.length, ReadReturns(n),
         n = request.length => request.offset + n <= file,
         request.sequential /\ position < 0 => n = 0,
         n = 0 => file <= request.offset,
         file \in 0..(MaxInt64 + 1)
  PROVE  IInv'
<1>1. /\ request.sequential \in BOOLEAN /\ request.asked \in 0..MaxLength
      /\ request.offset \in UInt64 /\ request.length \in 0..MaxInt64 /\ n \in -1..MaxInt64
  BY Types, ReadAssumption DEF Requests
<1>2. request.length > 0 /\ request' \in Requests
  BY Types DEF IInv, RequestFits
<1>3. CASE /\ request.sequential /\ Return(TRUE, request.asked, request.offset, n) /\ Advance(n)
           /\ stream' = stream \o [i \in 1..n |-> request.offset + i - 1] /\ UNCHANGED origin
  <2> USE DEF openVars
  <2>1. /\ result' \in Results /\ result'.sequential /\ result'.n = n
    BY <1>1, <1>3, ResultTypes
  <2>2. request.offset = ToUInt64(position) /\ position' = position + n
    BY <1>3 DEF IInv, RequestFits, Advance
  <2>3. /\ stream' \in Seq(UInt64) /\ position' \in Int64
        /\ Cursor' /\ StreamIsContiguous' /\ StreamStaysInFile'
        /\ (n = 0 => stream' = stream)
    <3>1. CASE position >= 0
      <4>1. request.offset = position /\ n \in 0..(file_size - position)
        BY <1>1, <1>3, <2>2, <3>1, Types DEF IInv, TypeOK, RequestFits, ToUInt64, Int64
      <4>2. n = 0 => stream' = stream
        BY <1>3, Types DEF IInv, TypeOK
      <4> QED
        BY <1>3, <2>2, <3>1, <4>1, <4>2, StreamGrows
    <3>2. CASE position < 0
      <4>1. n = 0
        BY <1>3, <3>2
      <4>2. stream' = stream
        BY <1>3, <4>1, Types DEF IInv, TypeOK
      <4> QED
        BY <1>3, <2>2, <4>1, <4>2, Types
           DEF IInv, TypeOK, Cursor, StreamIsContiguous, StreamStaysInFile, Int64
    <3> QED
      BY <3>1, <3>2, Types DEF Int64
  <2>4. TypeOK'
    BY <1>2, <1>3, <2>1, <2>3 DEF IInv, TypeOK
  <2>5. ReaderIsOwned' /\ Fresh' /\ SizeFits' /\ RequestFits'
    BY DEF IInv, ReaderIsOwned, Fresh, SizeFits, RequestFits
  <2>6. EndIsTheEnd'
    <3> SUFFICES ASSUME clean, n = 0 PROVE origin + Len(stream) >= file
      BY <1>3, <2>1, <2>3 DEF EndIsTheEnd
    <3>1. position < 0 \/ position >= file_size
      BY <2>2, Types DEF IInv, TypeOK, SizeFits, ToUInt64, Int64
    <3> QED
      BY <3>1, PastTheEnd
  <2>7. FullReadIsInFile'
    BY <2>1 DEF FullReadIsInFile
  <2> QED
    BY <2>3, <2>4, <2>5, <2>6, <2>7 DEF IInv
<1>4. CASE /\ ~request.sequential /\ n = request.asked
           /\ Return(FALSE, request.asked, request.offset, request.asked)
           /\ position' = ToInt64(request.offset + n)
           /\ origin' = request.offset + n /\ stream' = <<>>
  <2>1. /\ result' \in Results /\ ~result'.sequential /\ result'.n = n
        /\ result'.asked = n /\ result'.offset = request.offset
    BY <1>1, <1>4, ResultTypes
  <2>2. n > 0
    BY <1>2, <1>4 DEF IInv, RequestFits
  <2>3. request.offset + n \in UInt64
    BY <1>1, <1>4, <2>2, ReadAssumption DEF IInv, RequestFits, UInt64, Two64
  <2>4. n = request.length
    BY <1>4 DEF IInv, RequestFits
  <2>5. FullReadIsInFile'
    BY <2>1, <2>4 DEF FullReadIsInFile
  <2> QED
    BY <1>2, <1>4, <2>1, <2>3, <2>5, PutStep
<1>5. CASE Return(FALSE, request.asked, request.offset, -1) /\ UNCHANGED <<position, origin, stream>>
  <2>1. result' \in Results /\ result'.n = -1
    BY <1>1, <1>5, ResultTypes, Types
  <2> QED
    BY <1>2, <1>5, <2>1, NothingRead, ResultStep
<1> QED
  BY <1>3, <1>4, <1>5 DEF ReadReturns, PositionedIsFull

\* What one request to the service brings.
LEMMA FetchStep ==
  ASSUME IInv, Fetch
  PROVE  IInv'
<1> DEFINE left == request.length - request.done
           size == IF chunk = 0 THEN left ELSE Min({chunk, left})
           rest == file - request.offset - request.done
           got == Max({0, Min({size, rest})})
           done == request.done + got
<1>1. /\ request.sequential \in BOOLEAN /\ request.asked \in 0..MaxLength
      /\ request.offset \in UInt64 /\ request.length \in 0..MaxInt64
      /\ request.done \in 0..MaxInt64 /\ request \in Requests
  BY Types DEF Requests
<1>2. /\ step = "read" /\ file \in 0..(MaxInt64 + 1) /\ seen' = file
      /\ UNCHANGED <<chunk, file, openVars, clean>>
      /\ \/ /\ got = size /\ done < request.length
            /\ request' = [request EXCEPT !.done = done]
            /\ UNCHANGED <<step, position, result, origin, stream>>
         \/ /\ got < size \/ done = request.length
            /\ ReadReturns(done)
            /\ request' = Idle /\ step' = "idle"
  BY DEF Fetch
<1>3. RequestFits /\ request.done < request.length
  BY <1>2 DEF IInv, RequestFits
<1>4. left \in Nat \ {0} /\ chunk \in Nat /\ rest \in Int
  <2>1. chunk \in Nat
    BY ReadAssumption DEF IInv, TypeOK
  <2>2. left \in Nat \ {0}
    BY <1>1, <1>3, ReadAssumption
  <2>3. rest \in Int
    BY <1>1, <1>2, ReadAssumption DEF UInt64
  <2> QED
    BY <2>1, <2>2, <2>3
<1>5. /\ size \in 1..left /\ got \in 0..size
      /\ got > 0 => got <= rest
      /\ got < size => (got = 0 /\ rest <= 0) \/ got = rest
  <2>1. size = (IF chunk = 0 THEN left ELSE Min({chunk, left})) /\ got = Max({0, Min({size, rest})})
    OBVIOUS
  <2> HIDE DEF left, rest, size, got
  <2> QED
    <3>1. size \in 1..left
      BY <1>4, <2>1, MinOfTwo
    <3>2. Min({size, rest}) = IF size <= rest THEN size ELSE rest
      BY <1>4, <3>1, MinOfTwo
    <3>3. got = Max({0, IF size <= rest THEN size ELSE rest})
      BY <2>1, <3>2
    <3>4. got = IF size <= rest THEN size ELSE IF 0 >= rest THEN 0 ELSE rest
      BY <1>4, <3>1, <3>3, MaxOfTwo
    <3> QED
      BY <1>4, <3>1, <3>4
<1> HIDE DEF size, got
<1>6. /\ done \in 0..request.length
      /\ got > 0 => request.offset + done <= file
      /\ done = 0 => got = 0
  BY <1>1, <1>2, <1>4, <1>5 DEF UInt64
<1>7. request.sequential /\ position < 0 => got = 0 /\ done = 0
  <2> SUFFICES ASSUME request.sequential, position < 0 PROVE got = 0 /\ request.done = 0
    OBVIOUS
  <2>1. request.offset = position + Two64 /\ request.done = 0
    BY <1>2, <1>3, Types DEF RequestFits, ToUInt64, Int64
  <2>2. rest <= 0
    BY <1>2, <2>1, Types, ReadAssumption DEF Int64, Two64
  <2> HIDE DEF left, rest
  <2> QED
    BY <1>4, <1>5, <2>1, <2>2
<1>8. CASE /\ got = size /\ done < request.length
           /\ request' = [request EXCEPT !.done = done]
           /\ UNCHANGED <<step, position, result, origin, stream>>
  <2> USE DEF openVars
  <2>1. /\ request' \in Requests /\ request'.done = done /\ request'.length = request.length
        /\ request'.sequential = request.sequential /\ request'.offset = request.offset
        /\ request'.asked = request.asked
    <3> HIDE DEF done
    <3>1. done \in 0..MaxInt64
      BY <1>1, <1>6, ReadAssumption
    <3> QED
      BY <1>1, <1>8, <3>1 DEF Requests
  <2>2. TypeOK' /\ ReaderIsOwned'
    BY <1>2, <1>8, <2>1 DEF IInv, TypeOK, ReaderIsOwned
  <2>3. Fresh' /\ SizeFits' /\ Cursor'
    BY <1>2, <1>8 DEF IInv, Fresh, SizeFits, Cursor
  <2>4. got > 0
    BY <1>4, <1>5, <1>8
  <2>5. request.sequential => position >= 0
    BY <1>7, <2>4, Types DEF Int64
  <2>6. RequestFits'
    BY <1>1, <1>2, <1>3, <1>6, <1>8, <2>1, <2>4, <2>5, Types DEF RequestFits, IInv, TypeOK, Int64
  <2>7. StreamIsContiguous' /\ StreamStaysInFile' /\ EndIsTheEnd' /\ FullReadIsInFile'
    BY <1>2, <1>8 DEF IInv, StreamIsContiguous, StreamStaysInFile, EndIsTheEnd, FullReadIsInFile
  <2> QED
    BY <2>2, <2>3, <2>6, <2>7 DEF IInv
<1>9. CASE /\ got < size \/ done = request.length
           /\ ReadReturns(done)
           /\ request' = Idle /\ step' = "idle"
  <2>1. done = request.length => request.offset + done <= file
    BY <1>1, <1>2, <1>3, <1>5, <1>6
  <2>2. done = 0 => file <= request.offset
    BY <1>1, <1>2, <1>3, <1>5, <1>6, <1>9 DEF UInt64
  <2>3. request.sequential /\ position < 0 => done = 0
    BY <1>7
  <2> HIDE DEF done
  <2> QED
    BY <1>2, <1>6, <1>9, <2>1, <2>2, <2>3, ReadReturnsStep
<1> QED
  BY <1>2, <1>8, <1>9

--------------------------------------------------------------------------------
LEMMA CloseStep ==
  ASSUME IInv, Close
  PROVE  IInv'
<1> USE DEF Close, CloseInternal, ForgetReader, readVars
<1>1. readers' = 0 /\ reader' = FALSE
  BY DEF IInv, TypeOK, ReaderIsOwned
<1>2. TypeOK' /\ ReaderIsOwned'
  BY <1>1 DEF IInv, TypeOK, ReaderIsOwned
<1>3. Fresh' /\ SizeFits' /\ Cursor' /\ RequestFits'
  BY <1>1 DEF IInv, Fresh, SizeFits, Cursor, RequestFits
<1>4. StreamIsContiguous' /\ StreamStaysInFile' /\ EndIsTheEnd' /\ FullReadIsInFile'
  BY DEF IInv, StreamIsContiguous, StreamStaysInFile, EndIsTheEnd, FullReadIsInFile
<1> QED
  BY <1>2, <1>3, <1>4 DEF IInv

LEMMA DestroyStep ==
  ASSUME IInv, Destroy
  PROVE  IInv'
<1> USE DEF Destroy, CloseInternal, ForgetReader
<1>1. readers' = 0 /\ reader' = FALSE
  BY DEF IInv, TypeOK, ReaderIsOwned
<1>2. /\ result' \in Results /\ result'.n = -1 /\ request' \in Requests /\ position' \in Int64
      /\ origin' \in UInt64 /\ stream' \in Seq(UInt64) /\ file_size' \in 0..(MaxInt64 + 1)
  BY Types, ReadAssumption
<1>3. TypeOK' /\ ReaderIsOwned'
  BY <1>1, <1>2 DEF IInv, TypeOK, ReaderIsOwned
<1>4. Fresh' /\ SizeFits' /\ RequestFits'
  BY <1>1, <1>2 DEF Fresh, SizeFits, RequestFits
<1>5. Cursor'
  BY ReadAssumption DEF Cursor, ToInt64, UInt64, Two64
<1>6. StreamIsContiguous' /\ StreamStaysInFile' /\ EndIsTheEnd' /\ FullReadIsInFile'
  BY <1>2, NothingRead DEF StreamIsContiguous, StreamStaysInFile
<1> QED
  BY <1>3, <1>4, <1>5, <1>6 DEF IInv

LEMMA StepPreserves == IInv /\ [Next]_vars => IInv'
<1> SUFFICES ASSUME IInv, [Next]_vars PROVE IInv'
  OBVIOUS
<1>1. ASSUME NEW object \in Objects, Replace(object) PROVE IInv'
  BY <1>1, ReplaceStep
<1>2. CASE OpenFile \/ Stat \/ OpenFails \/ OpenReader \/ Construct \/ ConstructFails
  BY <1>2, OpenStep
<1>3. ASSUME NEW nr_bytes \in 0..MaxLength, Read(nr_bytes) PROVE IInv'
  BY <1>3, ReadStep
<1>4. ASSUME NEW nr_bytes \in 0..MaxLength, NEW location \in UInt64, ReadAt(nr_bytes, location)
      PROVE  IInv'
  BY <1>4, ReadAtStep
<1>5. CASE ReadThrows \/ Fetch \/ FetchFails
  BY <1>5, ReadThrowsStep, FetchStep, FetchFailsStep
<1>6. ASSUME NEW location \in UInt64, Seek(location) PROVE IInv'
  BY <1>6, SeekStep
<1>7. CASE Close \/ Destroy
  BY <1>7, CloseStep, DestroyStep
<1>8. CASE UNCHANGED vars
  BY <1>8 DEF vars, openVars, readVars, IInv, TypeOK, ReaderIsOwned, Fresh, SizeFits, Cursor,
     RequestFits, StreamIsContiguous, StreamStaysInFile, EndIsTheEnd, FullReadIsInFile
<1> QED
  BY <1>1, <1>2, <1>3, <1>4, <1>5, <1>6, <1>7, <1>8 DEF Next

\* IInv is inductive.
LEMMA Invariance == Spec => []IInv
<1>1. Init => IInv
  BY InitEstablishes
<1>2. IInv /\ [Next]_vars => IInv'
  BY StepPreserves
<1> QED
  BY <1>1, <1>2, PTL DEF Spec

\* The members of a read handle and the arguments of od_reader_read stay in the ranges of their
\* C++ and Rust types.
THEOREM TypeCorrect == Spec => []TypeOK
<1>1. IInv => TypeOK
  BY DEF IInv
<1> QED
  BY <1>1, Invariance, PTL

\* Sequential reads of an object of any size, in any chunks, that changes at any time neither
\* skip nor repeat bytes, nor do they pass the size that OpenFile has found.
THEOREM SequentialReads == Spec => []StreamIsTheFile
<1>1. IInv => StreamIsTheFile
  BY DEF IInv, StreamIsTheFile
<1> QED
  BY <1>1, Invariance, PTL

\* Of an object that does not change, an empty sequential read is the end.
THEOREM EmptyIsTheEnd == Spec => []EndIsTheEnd
<1>1. IInv => EndIsTheEnd
  BY DEF IInv
<1> QED
  BY <1>1, Invariance, PTL

\* A positioned read that returns has filled the buffer from an object that reached to the end of
\* the range when its last request met it, whatever the object does between two requests.
THEOREM FullReads == Spec => []FullReadIsInFile
<1>1. IInv => FullReadIsInFile
  BY DEF IInv
<1> QED
  BY <1>1, Invariance, PTL

\* No OdReader is leaked, freed twice or used after it was freed.
THEOREM ReadersAreFreed == Spec => []ReaderIsOwned
<1>1. IInv => ReaderIsOwned
  BY DEF IInv
<1> QED
  BY <1>1, Invariance, PTL
================================================================================
