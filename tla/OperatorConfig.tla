----------------------------- MODULE OperatorConfig -----------------------------
(***************************************************************************)
(* The cross-service options of an operator: OperatorConfig::parse with    *)
(* the typed values of opendal/src/config/, and the size range of the      *)
(* cache layer.                                                            *)
(*                                                                         *)
(* A value is a number with a unit; words that are no number have a unit   *)
(* of their own.  usize is as wide as u64, with a smaller maximum, and the *)
(* factors of the units are small.  Options are set one at a time, and     *)
(* every state is a possible set of options; the operators are the         *)
(* program.                                                                *)
(***************************************************************************)
EXTENDS Integers, FiniteSets

CONSTANTS
  MaxU64,      \* the largest u64
  SizeFactor,  \* the factor of each unit of size; "" is plain
  Bits,        \* the units that count bits
  TimeFactor,  \* the length of each unit of time; "" is plain seconds
  Texts,       \* bound: the values to try for each type of option
  Strangers,   \* options that do not exist
  MaxOptions   \* bound: options set at once

VARIABLE
  options      \* the values that are set

\* The options of each section and what their values are.
IoType ==
  [name \in {"read.concurrent", "write.concurrent", "concurrent_limit",
             "read.chunk_size", "write.chunk_size"} |->
     IF name \in {"read.chunk_size", "write.chunk_size"} THEN "positive size" ELSE "positive"]

RetryType ==
  [max_times |-> "usize", factor |-> "factor", jitter |-> "boolean",
   min_delay |-> "duration", max_delay |-> "duration"]

TimeoutType == [operation_timeout |-> "positive duration", io_timeout |-> "positive duration"]

CacheType ==
  [memory_size |-> "positive size", disk_size |-> "positive size", block_size |-> "positive size",
   min_file_size |-> "size", max_file_size |-> "size", disk_path |-> "path", shards |-> "positive"]

Sections == [io |-> IoType, retry |-> RetryType, timeout |-> TimeoutType, cache |-> CacheType]

Options == UNION {{section} \X DOMAIN Sections[section] : section \in DOMAIN Sections}
Type(o) == Sections[o[1]][o[2]]

Types ==
  {"positive", "positive size", "positive duration", "size", "duration", "usize", "factor",
   "boolean", "path"}

ASSUME ConfigAssumption ==
  /\ MaxU64 \in Nat
  /\ \A unit \in DOMAIN SizeFactor : SizeFactor[unit] \in Nat \ {0}
  /\ \A unit \in DOMAIN TimeFactor : TimeFactor[unit] \in Nat \ {0}
  /\ \A type \in Types : \A v \in Texts[type] : v.n \in Nat

NoOptions == options = <<>>

SetOption(o, v) ==
  /\ Cardinality(DOMAIN options) < MaxOptions /\ o \notin DOMAIN options
  /\ options' = [p \in DOMAIN options \cup {o} |-> IF p = o THEN v ELSE options[p]]

MoreOptions ==
  \/ \E o \in Options : \E v \in Texts[Type(o)] : SetOption(o, v)
  \/ \E o \in Strangers : \E v \in Texts["usize"] : SetOption(o, v)

--------------------------------------------------------------------------------
Malformed == -1

\* Mutant: the product is cut to the width of a u64, and bits to whole bytes.
parse_bytes_wraps(text) ==
  IF text.n > MaxU64 \/ text.unit \notin DOMAIN SizeFactor THEN Malformed
  ELSE LET value == (text.n * SizeFactor[text.unit]) % (MaxU64 + 1)
       IN IF text.unit \in Bits THEN value \div 8 ELSE value

parse_bytes(text) ==
  IF text.n > MaxU64 \/ text.unit \notin DOMAIN SizeFactor THEN Malformed
  ELSE LET value == text.n * SizeFactor[text.unit]
       IN IF value > MaxU64 THEN Malformed
          ELSE IF text.unit \notin Bits THEN value
          ELSE IF value % 8 = 0 THEN value \div 8 ELSE Malformed

duration(text) ==
  IF text.unit \in DOMAIN TimeFactor THEN text.n * TimeFactor[text.unit] ELSE Malformed

usize_value(text) == IF text.unit = "" /\ text.n <= MaxU64 THEN text.n ELSE Malformed

\* Mutant: zero is only checked for where it is written as such.
Value_plain_zero(type, text) ==
  LET value ==
        CASE type \in {"size", "positive size"} -> parse_bytes(text)
          [] type \in {"duration", "positive duration"} -> duration(text)
          [] type \in {"usize", "positive", "factor", "boolean"} -> usize_value(text)
          [] type = "path" -> text.n
  IN IF \/ /\ type \in {"positive", "positive size", "positive duration", "factor", "path"}
           /\ text = [n |-> 0, unit |-> ""]
        \/ type = "boolean" /\ value > 1
     THEN Malformed ELSE value

\* Integers, booleans and factors have no units; the length of a path is what matters of it.
Value(type, text) ==
  LET value ==
        CASE type \in {"size", "positive size"} -> parse_bytes(text)
          [] type \in {"duration", "positive duration"} -> duration(text)
          [] type \in {"usize", "positive", "factor", "boolean"} -> usize_value(text)
          [] type = "path" -> text.n
  IN IF \/ /\ type \in {"positive", "positive size", "positive duration", "factor", "path"}
           /\ value = 0
        \/ type = "boolean" /\ value > 1
     THEN Malformed ELSE value

Set(o) == o \in DOMAIN options
Get(o) == Value(Type(o), options[o])

Ordered(lower, upper) == Set(lower) /\ Set(upper) => Get(lower) <= Get(upper)

\* OperatorConfig::parse: an option without a section, an unknown one, a value that does not parse
\* or bounds in the wrong order refuse the operator.
parse_accepts ==
  /\ \A o \in DOMAIN options : o \in Options /\ Get(o) # Malformed
  /\ Ordered(<<"retry", "min_delay">>, <<"retry", "max_delay">>)
  /\ Ordered(<<"cache", "min_file_size">>, <<"cache", "max_file_size">>)

\* CacheConfig::apply: the half-open range of sizes is min..max + 1, or min.. if that overflows.
SizeLimit ==
  LET min == IF Set(<<"cache", "min_file_size">>) THEN Get(<<"cache", "min_file_size">>) ELSE 0
      max == IF Set(<<"cache", "max_file_size">>) THEN Get(<<"cache", "max_file_size">>) ELSE MaxU64
  IN IF max < MaxU64 THEN {s \in 0..MaxU64 : min <= s /\ s < max + 1} ELSE min..MaxU64

--------------------------------------------------------------------------------
(***************************************************************************)
(* Properties.                                                             *)
(***************************************************************************)
Sizes == {o \in DOMAIN options : o \in Options /\ Type(o) \in {"size", "positive size"}}

\* A size is exactly what was written, in whatever unit: no product wraps around and no bits are
\* dropped.
SizesAreExact ==
  \A o \in Sizes : LET v == options[o] IN
    Get(o) * (IF v.unit \in Bits THEN 8 ELSE 1) = v.n * SizeFactor[v.unit]

\* There is no chunk, shard, permit or time of nothing, however the nothing is written, and no
\* range of sizes or delays without a member.
NothingIsZero ==
  /\ \A o \in DOMAIN options :
       Type(o) \in {"positive", "positive size", "positive duration"} => Get(o) > 0
  /\ SizeLimit # {}
  /\ Set(<<"retry", "min_delay">>) /\ Set(<<"retry", "max_delay">>) =>
       duration(options[<<"retry", "min_delay">>]) <= duration(options[<<"retry", "max_delay">>])

\* The cache takes the objects from the smallest size to the largest, both included, up to the
\* largest number there is.
CacheTakesItsRange ==
  \A s \in 0..MaxU64 :
    s \in SizeLimit <=>
      /\ Set(<<"cache", "min_file_size">>) => Get(<<"cache", "min_file_size">>) <= s
      /\ Set(<<"cache", "max_file_size">>) => s <= Get(<<"cache", "max_file_size">>)

\* What is accepted means what was written, up to the limits of the numbers, and can be worked with.
AcceptedIsMeant == parse_accepts => SizesAreExact /\ NothingIsZero /\ CacheTakesItsRange
================================================================================
