------------------------------ MODULE InputsProofs ------------------------------
(***************************************************************************)
(* Theorems about the functions of Inputs, for any units, widths, texts    *)
(* and patterns.                                                           *)
(***************************************************************************)
EXTENDS Inputs, FiniteSetTheorems, SequenceTheorems, WellFoundedInduction, TLAPS

--------------------------------------------------------------------------------
(***************************************************************************)
(* Recursion.  A recursive function is known only by what it solves, and   *)
(* that it solves it needs a proof that there is a solution: there is one  *)
(* wherever values depend on those of smaller measure.                     *)
(***************************************************************************)
\* A set of numbers has a least one.
LEMMA NatLeast ==
  ASSUME NEW T, T \subseteq Nat, T # {}
  PROVE  \E x \in T : \A y \in T : x <= y
<1>1. IsWellFoundedOn({ss \in Nat \X Nat : ss[1] < ss[2]}, Nat)
  BY NatLessThanWellFounded DEF OpToRel
<1>2. PICK x \in T : \A y \in T : <<y, x>> \notin {ss \in Nat \X Nat : ss[1] < ss[2]}
  BY <1>1, WFMin
<1>3. \A y \in T : ~(y < x)
  BY <1>2
<1>4. QED
  BY <1>3

\* A set that has 0 and with a number the next one has all up to n.
LEMMA UpTo ==
  ASSUME NEW n \in Nat, NEW T, 0 \in T, \A k \in 0..n : k < n /\ k \in T => k + 1 \in T
  PROVE  0..n \subseteq T
<1> SUFFICES ASSUME (0..n) \ T # {} PROVE FALSE
  OBVIOUS
<1>1. PICK k \in (0..n) \ T : \A j \in (0..n) \ T : k <= j
  <2>1. (0..n) \ T \subseteq Nat
    OBVIOUS
  <2>2. QED
    BY <2>1, NatLeast
<1>2. k # 0 /\ k - 1 \in 0..n /\ k - 1 < n
  OBVIOUS
<1>3. k - 1 \in T
  BY <1>1, <1>2
<1>4. (k - 1) + 1 \in T
  BY <1>2, <1>3
<1>5. QED
  BY <1>4

\* f solves the recursive definition whose right-hand side is F.
Solves(f, F, D) == \A d \in D : f[d] = F[<<d, f>>]

\* The value for d depends only on those of smaller measure.
DependsOnLess(F, D, S, m) ==
  \A d \in D : \A g, h \in [D -> S] :
    (\A e \in D : m[e] < m[d] => g[e] = h[e]) => F[<<d, g>>] = F[<<d, h>>]

\* Such a definition has a solution.
LEMMA Recursion ==
  ASSUME NEW D, NEW S, NEW s0 \in S, NEW n \in Nat, NEW m \in [D -> 0..n],
         NEW F \in [D \X [D -> S] -> S],
         DependsOnLess(F, D, S, m)
  PROVE  \E f \in [D -> S] : Solves(f, F, D)
<1> DEFINE Below(k) == {d \in D : m[d] < k}
           T == {k \in 0..n + 1 : \E f \in [D -> S] : Solves(f, F, Below(k))}
<1>1. 0 \in T
  <2> DEFINE f == [d \in D |-> s0]
  <2>1. f \in [D -> S] /\ Below(0) = {} /\ 0 \in 0..n + 1
    OBVIOUS
  <2> HIDE DEF f, Below
  <2>2. QED
    BY <2>1 DEF Solves
<1>2. ASSUME NEW k \in 0..n + 1, k < n + 1, k \in T
      PROVE  k + 1 \in T
  <2>1. PICK f \in [D -> S] : Solves(f, F, Below(k))
    BY <1>2
  <2> DEFINE g == [d \in D |-> IF m[d] < k THEN f[d] ELSE F[<<d, f>>]]
  <2>2. g \in [D -> S]
    OBVIOUS
  <2>3. ASSUME NEW d \in D, m[d] < k + 1
        PROVE  g[d] = F[<<d, g>>]
    <3>1. g[d] = F[<<d, f>>]
      BY <2>1 DEF Solves
    <3>2. \A e \in D : m[e] < m[d] => f[e] = g[e]
      BY <2>3
    <3> HIDE DEF g
    <3>3. QED
      BY <2>2, <3>1, <3>2 DEF DependsOnLess
  <2> HIDE DEF g
  <2>4. Solves(g, F, Below(k + 1))
    BY <2>3 DEF Solves
  <2>5. k + 1 \in 0..n + 1
    BY <1>2
  <2> HIDE DEF Below
  <2>6. QED
    BY <2>2, <2>4, <2>5
<1>3. n + 1 \in T
  <2> HIDE DEF T
  <2>1. n + 1 \in Nat
    OBVIOUS
  <2>2. 0..n + 1 \subseteq T
    BY <1>1, <1>2, <2>1, UpTo
  <2>3. QED
    BY <2>2
<1>4. Below(n + 1) = D
  OBVIOUS
<1>5. QED
  BY <1>3, <1>4

\* f has what n steps make of s0, where F makes one.
Iterates(f, s0, F, n) == f[0] = s0 /\ \A k \in 1..n : f[k] = F[<<k, f[k - 1]>>]

\* There is a value after each step.
LEMMA Iteration ==
  ASSUME NEW n \in Nat, NEW S, NEW s0 \in S, NEW F \in [(1..n) \X S -> S]
  PROVE  \E f \in [0..n -> S] : Iterates(f, s0, F, n)
<1> DEFINE D == 0..n
           G == [x \in D \X [D -> S] |-> IF x[1] = 0 THEN s0 ELSE F[<<x[1], x[2][x[1] - 1]>>]]
           m == [k \in D |-> k]
<1>1. \A k \in D : k # 0 => k \in 1..n /\ k - 1 \in D
  OBVIOUS
<1>2. G \in [D \X [D -> S] -> S]
  BY <1>1
<1>3. \A d \in D, g \in [D -> S] : G[<<d, g>>] = IF d = 0 THEN s0 ELSE F[<<d, g[d - 1]>>]
  OBVIOUS
<1>4. DependsOnLess(G, D, S, m)
  <2> SUFFICES ASSUME NEW d \in D, NEW g \in [D -> S], NEW h \in [D -> S],
                      \A e \in D : m[e] < m[d] => g[e] = h[e]
               PROVE  G[<<d, g>>] = G[<<d, h>>]
    BY DEF DependsOnLess
  <2>1. d # 0 => g[d - 1] = h[d - 1]
    BY <1>1
  <2> HIDE DEF G
  <2>2. QED
    BY <1>3, <2>1
<1>5. m \in [D -> 0..n]
  OBVIOUS
<1>6. PICK f \in [D -> S] : Solves(f, G, D)
  <2> HIDE DEF D, G, m
  <2>1. QED
    BY <1>2, <1>4, <1>5, Recursion
<1> HIDE DEF G
<1>7. \A d \in D : f[d] = IF d = 0 THEN s0 ELSE F[<<d, f[d - 1]>>]
  BY <1>3, <1>6 DEF Solves
<1>8. 0 \in D /\ \A k \in 1..n : k \in D /\ k # 0
  OBVIOUS
<1>9. QED
  BY <1>7, <1>8, Zenon DEF Iterates

\* What holds of the first value, and with a value of the next one, holds of all.
LEMMA IterationStaysIn ==
  ASSUME NEW n \in Nat, NEW S, NEW f, f[0] \in S, \A k \in 1..n : f[k - 1] \in S => f[k] \in S
  PROVE  \A k \in 0..n : f[k] \in S
<1> DEFINE T == {k \in 0..n : f[k] \in S}
<1>1. 0 \in T
  OBVIOUS
<1>2. ASSUME NEW k \in 0..n, k < n, k \in T
      PROVE  k + 1 \in T
  <2>1. k + 1 \in 1..n /\ (k + 1) - 1 = k
    BY <1>2
  <2>2. QED
    BY <1>2, <2>1
<1> HIDE DEF T
<1>3. 0..n \subseteq T
  BY <1>1, <1>2, UpTo
<1>4. QED
  BY <1>3 DEF T

--------------------------------------------------------------------------------
(***************************************************************************)
(* OperatorConfig.                                                         *)
(***************************************************************************)
\* Every value that is set has a number in it.
ConfigTyped == \A o \in DOMAIN options : options[o].n \in Nat

LEMMA TypesOfOptions ==
  ASSUME NEW o \in Options
  PROVE  Type(o) \in Types
<1>1. PICK section \in DOMAIN Sections :
        \E name \in DOMAIN Sections[section] : o = <<section, name>>
  BY DEF Options
<1>2. \A name \in DOMAIN IoType : IoType[name] \in Types
  BY DEF IoType, Types
<1>3. \A name \in DOMAIN RetryType : RetryType[name] \in Types
  <2>1. DOMAIN RetryType = {"max_times", "factor", "jitter", "min_delay", "max_delay"}
    BY DEF RetryType
  <2>2. /\ RetryType["max_times"] \in Types /\ RetryType["factor"] \in Types
        /\ RetryType["jitter"] \in Types
        /\ RetryType["min_delay"] \in Types /\ RetryType["max_delay"] \in Types
    BY DEF RetryType, Types
  <2>3. QED
    BY <2>1, <2>2
<1>4. \A name \in DOMAIN TimeoutType : TimeoutType[name] \in Types
  <2>1. DOMAIN TimeoutType = {"operation_timeout", "io_timeout"}
    BY DEF TimeoutType
  <2>2. TimeoutType["operation_timeout"] \in Types /\ TimeoutType["io_timeout"] \in Types
    BY DEF TimeoutType, Types
  <2>3. QED
    BY <2>1, <2>2
<1>5. \A name \in DOMAIN CacheType : CacheType[name] \in Types
  <2>1. DOMAIN CacheType = {"memory_size", "disk_size", "block_size", "min_file_size",
                            "max_file_size", "disk_path", "shards"}
    BY DEF CacheType
  <2>2. /\ CacheType["memory_size"] \in Types /\ CacheType["disk_size"] \in Types
        /\ CacheType["block_size"] \in Types /\ CacheType["min_file_size"] \in Types
        /\ CacheType["max_file_size"] \in Types /\ CacheType["disk_path"] \in Types
        /\ CacheType["shards"] \in Types
    BY DEF CacheType, Types
  <2>3. QED
    BY <2>1, <2>2
<1>6. Sections[section] \in {IoType, RetryType, TimeoutType, CacheType}
  BY DEF Sections
<1>7. \A name \in DOMAIN Sections[section] : Sections[section][name] \in Types
  BY <1>2, <1>3, <1>4, <1>5, <1>6
<1>8. QED
  BY <1>1, <1>7 DEF Type

\* The types of the options that the properties name.
LEMMA NamedOptions ==
  /\ <<"retry", "max_times">> \in Options /\ Type(<<"retry", "max_times">>) = "usize"
  /\ <<"retry", "min_delay">> \in Options /\ Type(<<"retry", "min_delay">>) = "duration"
  /\ <<"retry", "max_delay">> \in Options /\ Type(<<"retry", "max_delay">>) = "duration"
  /\ <<"timeout", "operation_timeout">> \in Options
  /\ Type(<<"timeout", "operation_timeout">>) = "positive duration"
  /\ <<"cache", "min_file_size">> \in Options /\ Type(<<"cache", "min_file_size">>) = "size"
  /\ <<"cache", "max_file_size">> \in Options /\ Type(<<"cache", "max_file_size">>) = "size"
<1>1. DOMAIN Sections = {"io", "retry", "timeout", "cache"}
  BY DEF Sections
<1>2. Sections["retry"] = RetryType /\ Sections["timeout"] = TimeoutType
        /\ Sections["cache"] = CacheType
  BY DEF Sections
<1>3. /\ "max_times" \in DOMAIN RetryType /\ RetryType["max_times"] = "usize"
      /\ "min_delay" \in DOMAIN RetryType /\ RetryType["min_delay"] = "duration"
      /\ "max_delay" \in DOMAIN RetryType /\ RetryType["max_delay"] = "duration"
  BY DEF RetryType
<1>4. /\ "operation_timeout" \in DOMAIN TimeoutType
      /\ TimeoutType["operation_timeout"] = "positive duration"
  BY DEF TimeoutType
<1>5. /\ "min_file_size" \in DOMAIN CacheType /\ CacheType["min_file_size"] = "size"
      /\ "max_file_size" \in DOMAIN CacheType /\ CacheType["max_file_size"] = "size"
  BY DEF CacheType
<1>6. \A section \in DOMAIN Sections : \A name \in DOMAIN Sections[section] :
        <<section, name>> \in Options /\ Type(<<section, name>>) = Sections[section][name]
  BY DEF Options, Type
<1>7. QED
  BY <1>1, <1>2, <1>3, <1>4, <1>5, <1>6

\* A number of bytes that is accepted fits in a u64 and is exactly what was written.
LEMMA BytesAreExact ==
  ASSUME NEW v, v.n \in Nat, parse_bytes(v) # Malformed
  PROVE  /\ parse_bytes(v) \in 0..MaxU64
         /\ parse_bytes(v) * (IF v.unit \in Bits THEN 8 ELSE 1) = v.n * SizeFactor[v.unit]
<1> DEFINE value == v.n * SizeFactor[v.unit]
<1>1. v.unit \in DOMAIN SizeFactor /\ ~(value > MaxU64)
  BY DEF parse_bytes
<1>2. value \in Nat
  BY <1>1, ConfigAssumption
<1>3. parse_bytes(v) = IF v.unit \notin Bits THEN value ELSE value \div 8
  BY <1>1 DEF parse_bytes
<1>4. v.unit \in Bits => value % 8 = 0
  BY <1>1 DEF parse_bytes
<1> HIDE DEF value
<1>5. QED
  BY <1>1, <1>2, <1>3, <1>4, ConfigAssumption DEF value

LEMMA DurationsAreNatural ==
  ASSUME NEW v, v.n \in Nat, duration(v) # Malformed
  PROVE  duration(v) \in Nat
BY ConfigAssumption DEF duration

\* What an option that is accepted is worth.
LEMMA AcceptedValues ==
  ASSUME ConfigTyped, parse_accepts, NEW o \in DOMAIN options
  PROVE  /\ o \in Options /\ Get(o) \in Nat
         /\ Type(o) \in {"size", "positive size"} =>
              parse_bytes(options[o]) # Malformed /\ Get(o) = parse_bytes(options[o])
         /\ Type(o) \in {"duration", "positive duration"} => Get(o) = duration(options[o])
         /\ Type(o) \in {"positive", "positive size", "positive duration"} => Get(o) > 0
<1>1. /\ o \in Options /\ Get(o) = Value(Type(o), options[o]) /\ Get(o) # Malformed
      /\ options[o].n \in Nat /\ Type(o) \in Types
  BY TypesOfOptions DEF ConfigTyped, parse_accepts, Get
<1>2. ASSUME Type(o) \in {"size", "positive size"}
      PROVE  /\ parse_bytes(options[o]) # Malformed /\ Get(o) = parse_bytes(options[o])
             /\ Get(o) \in Nat
  <2>1. Get(o) = parse_bytes(options[o])
    BY <1>1, <1>2 DEF Value
  <2>2. parse_bytes(options[o]) \in 0..MaxU64
    BY <1>1, <2>1, BytesAreExact
  <2>3. QED
    BY <1>1, <2>1, <2>2, ConfigAssumption
<1>3. ASSUME Type(o) \in {"duration", "positive duration"}
      PROVE  Get(o) = duration(options[o]) /\ Get(o) \in Nat
  <2>1. Get(o) = duration(options[o])
    BY <1>1, <1>3 DEF Value
  <2>2. QED
    BY <1>1, <2>1, DurationsAreNatural
<1>4. ASSUME Type(o) \in {"usize", "positive", "factor", "boolean"}
      PROVE  Get(o) \in Nat
  <2>1. Get(o) = usize_value(options[o])
    BY <1>1, <1>4 DEF Value
  <2>2. QED
    BY <1>1, <2>1 DEF usize_value
<1>5. ASSUME Type(o) = "path"
      PROVE  Get(o) \in Nat
  BY <1>1, <1>5 DEF Value
<1>6. Get(o) \in Nat
  BY <1>1, <1>2, <1>3, <1>4, <1>5 DEF Types
<1>7. Type(o) \in {"positive", "positive size", "positive duration"} => Get(o) # 0
  BY <1>1 DEF Value
<1>8. Get(o) # 0 => Get(o) > 0
  BY <1>6
<1>9. QED
  BY <1>1, <1>2, <1>3, <1>6, <1>7, <1>8

LEMMA ConfigIsTyped == Spec => []ConfigTyped
<1>1. Init => ConfigTyped
  BY ConfigAssumption DEF Init, NoOptions, ConfigTyped
<1>2. ASSUME ConfigTyped, [Next]_vars
      PROVE  ConfigTyped'
  <2>1. CASE MoreOptions
    <3>1. PICK o, v : SetOption(o, v) /\ v.n \in Nat
      <4>1. \A o \in Options : \A v \in Texts[Type(o)] : v.n \in Nat
        BY TypesOfOptions, ConfigAssumption
      <4>2. \A v \in Texts["usize"] : v.n \in Nat
        BY ConfigAssumption DEF Types
      <4>3. QED
        BY <2>1, <4>1, <4>2 DEF MoreOptions
    <3>2. QED
      BY <1>2, <3>1 DEF SetOption, ConfigTyped
  <2>2. CASE UNCHANGED options
    BY <1>2, <2>2 DEF ConfigTyped
  <2>3. QED
    BY <1>2, <2>1, <2>2 DEF Next, vars
<1>3. QED
  BY <1>1, <1>2, PTL DEF Spec

LEMMA SizeLimitIsTheRange ==
  ASSUME ConfigTyped, parse_accepts
  PROVE  SizeLimit # {} /\ CacheTakesItsRange
<1> DEFINE lower == <<"cache", "min_file_size">>
           upper == <<"cache", "max_file_size">>
           min == IF Set(lower) THEN Get(lower) ELSE 0
           max == IF Set(upper) THEN Get(upper) ELSE MaxU64
<1>1. /\ Set(lower) => Get(lower) \in 0..MaxU64
      /\ Set(upper) => Get(upper) \in 0..MaxU64
  BY AcceptedValues, NamedOptions, BytesAreExact DEF Set, ConfigTyped
<1>2. Set(lower) /\ Set(upper) => Get(lower) <= Get(upper)
  BY DEF parse_accepts, Ordered
<1>3. min \in 0..MaxU64 /\ max \in 0..MaxU64 /\ min <= max
  BY <1>1, <1>2, ConfigAssumption
<1>4. SizeLimit = IF max < MaxU64 THEN {s \in 0..MaxU64 : min <= s /\ s < max + 1} ELSE min..MaxU64
  BY DEF SizeLimit
<1>5. \A s \in 0..MaxU64 : s \in SizeLimit <=> min <= s /\ s <= max
  <2> HIDE DEF min, max
  <2>1. QED
    BY <1>3, <1>4, ConfigAssumption
<1>6. min \in SizeLimit
  BY <1>3, <1>5
<1>7. CacheTakesItsRange
  <2>1. ASSUME NEW s \in 0..MaxU64
        PROVE  /\ min <= s <=> (Set(lower) => Get(lower) <= s)
               /\ s <= max <=> (Set(upper) => s <= Get(upper))
    BY <2>1, ConfigAssumption
  <2>2. QED
    BY <1>5, <2>1 DEF CacheTakesItsRange
<1>8. QED
  BY <1>6, <1>7

LEMMA NothingIsEmpty ==
  ASSUME ConfigTyped, parse_accepts
  PROVE  NothingIsZero
<1>1. \A o \in DOMAIN options :
        Type(o) \in {"positive", "positive size", "positive duration"} => Get(o) > 0
  BY AcceptedValues
<1>2. ASSUME Set(<<"retry", "min_delay">>), Set(<<"retry", "max_delay">>)
      PROVE  duration(options[<<"retry", "min_delay">>]) <= duration(options[<<"retry", "max_delay">>])
  BY <1>2, AcceptedValues, NamedOptions DEF parse_accepts, Ordered, Set
<1>3. QED
  BY <1>1, <1>2, SizeLimitIsTheRange DEF NothingIsZero

\* What is accepted of the options, in whatever units and up to whatever largest number, is exactly
\* what was written, and neither a size nor a time nor a range of them is empty.
THEOREM AcceptedMeansWritten == Spec => []AcceptedIsMeant
<1>1. ConfigTyped => AcceptedIsMeant
  <2> SUFFICES ASSUME ConfigTyped, parse_accepts
               PROVE  SizesAreExact
    BY NothingIsEmpty, SizeLimitIsTheRange DEF AcceptedIsMeant
  <2>1. ASSUME NEW o \in Sizes
        PROVE  Get(o) * (IF options[o].unit \in Bits THEN 8 ELSE 1)
                 = options[o].n * SizeFactor[options[o].unit]
    BY AcceptedValues, BytesAreExact DEF Sizes, ConfigTyped
  <2>2. QED
    BY <2>1 DEF SizesAreExact
<1>2. QED
  BY <1>1, ConfigIsTyped, PTL

--------------------------------------------------------------------------------
(***************************************************************************)
(* Urls.                                                                   *)
(***************************************************************************)
\* Decoding does what it says, one character after the other.
LEMMA DecodingIs ==
  ASSUME NEW C, NEW s \in Seq(C)
  PROVE  /\ \A k \in 0..Len(s) : Decoding(s)[k] \in [out : Seq(C \cup Range(Escapes)), left : 0..2]
         /\ Decoding(s)[0] = [out |-> <<>>, left |-> 0]
         /\ \A k \in 1..Len(s) : Decoding(s)[k] = Decoded(s, Decoding(s)[k - 1], k)
<1> DEFINE n == Len(s)
           D == 0..n
           S == [out : Seq(C \cup Range(Escapes)), left : 0..2]
           s0 == [out |-> <<>>, left |-> 0]
           F == [p \in (1..n) \X S |-> Decoded(s, p[2], p[1])]
           Values(f) == [k \in D |-> IF k = 0 THEN s0 ELSE Decoded(s, f[k - 1], k)]
           read == Decoding(s)
<1>1. n \in Nat
  OBVIOUS
<1>2. s0 \in S
  OBVIOUS
<1>3. ASSUME NEW k \in 1..n, NEW r \in S
      PROVE  Decoded(s, r, k) \in S
  <2>1. s[k] \in C
    OBVIOUS
  <2>2. Escaped(s, k) => Escapes[<<s[k + 1], s[k + 2]>>] \in Range(Escapes)
    BY DEF Escaped, Range
  <2>3. QED
    BY <2>1, <2>2 DEF Decoded
<1> HIDE DEF S, s0
<1>4. F \in [(1..n) \X S -> S]
  BY <1>3
<1>5. \A k \in 1..n, r \in S : F[<<k, r>>] = Decoded(s, r, k)
  OBVIOUS
<1>6. 0 \in D /\ \A k \in D : k # 0 => k \in 1..n /\ k - 1 \in D
  BY <1>1
<1>7. \A k \in 1..n : k \in D /\ k # 0 /\ k - 1 \in D
  BY <1>1
<1> HIDE DEF D, F, n
<1>8. PICK f \in [0..n -> S] : Iterates(f, s0, F, n)
  BY <1>1, <1>2, <1>4, Iteration, Zenon
<1>9. \A k \in D : f[k] = IF k = 0 THEN s0 ELSE Decoded(s, f[k - 1], k)
  BY <1>5, <1>6, <1>8, Zenon DEF D, Iterates
<1>10. f = Values(f)
  BY <1>8, <1>9, Zenon DEF D
<1>11. read = Values(read)
  BY <1>10, Zenon DEF Decoding, D, s0, n
<1> HIDE DEF read
<1>12. read[0] = s0
  BY <1>6, <1>11, Zenon
<1>13. \A k \in 1..n : read[k] = Decoded(s, read[k - 1], k)
  BY <1>7, <1>11, Zenon
<1> HIDE DEF Values
<1>14. read[0] \in S /\ \A k \in 1..n : read[k - 1] \in S => read[k] \in S
  BY <1>2, <1>3, <1>12, <1>13, Zenon
<1>15. \A k \in 0..n : read[k] \in S
  BY <1>1, <1>14, IterationStaysIn, Zenon
<1>16. QED
  BY <1>12, <1>13, <1>15, Zenon DEF read, s0, S, n
--------------------------------------------------------------------------------
\* The separators among the first k characters.
Slashes(s, k) == {i \in 1..k : s[i] = "/"}

LEMMA SlashesAreCounted ==
  ASSUME NEW s, NEW k \in Nat
  PROVE  /\ IsFiniteSet(Slashes(s, k)) /\ Cardinality(Slashes(s, k)) \in Nat
         /\ Cardinality(Slashes(s, k + 1))
              = Cardinality(Slashes(s, k)) + (IF s[k + 1] = "/" THEN 1 ELSE 0)
<1>1. IsFiniteSet(1..k)
  BY FS_Interval
<1>2. IsFiniteSet(Slashes(s, k)) /\ Cardinality(Slashes(s, k)) \in Nat
  BY <1>1, FS_Subset, FS_CardinalityType DEF Slashes
<1>3. CASE s[k + 1] = "/"
  <2>1. Slashes(s, k + 1) = Slashes(s, k) \cup {k + 1} /\ k + 1 \notin Slashes(s, k)
    BY <1>3 DEF Slashes
  <2>2. QED
    BY <1>2, <1>3, <2>1, FS_AddElement
<1>4. CASE s[k + 1] # "/"
  <2>1. Slashes(s, k + 1) = Slashes(s, k)
    BY <1>4 DEF Slashes
  <2>2. QED
    BY <1>2, <1>4, <2>1
<1>5. QED
  BY <1>2, <1>3, <1>4

\* An appended character adds itself.
LEMMA AppendedSlash ==
  ASSUME NEW C, NEW q \in Seq(C), NEW c \in C
  PROVE  Cardinality(Slashes(Append(q, c), Len(Append(q, c))))
           = Cardinality(Slashes(q, Len(q))) + (IF c = "/" THEN 1 ELSE 0)
<1> DEFINE a == Append(q, c)
<1>1. Len(q) \in Nat /\ Len(a) = Len(q) + 1 /\ a[Len(q) + 1] = c
  OBVIOUS
<1>2. \A i \in 1..Len(q) : a[i] = q[i]
  OBVIOUS
<1> HIDE DEF a
<1>3. Slashes(a, Len(q)) = Slashes(q, Len(q))
  BY <1>2 DEF Slashes
<1>4. Cardinality(Slashes(a, Len(a)))
        = Cardinality(Slashes(q, Len(q))) + (IF c = "/" THEN 1 ELSE 0)
  BY <1>1, <1>3, SlashesAreCounted
<1>5. QED
  BY <1>4 DEF a

\* A text without an escaped separator is decoded to one with as many separators.
LEMMA DecodingKeepsSlashes ==
  ASSUME NEW C, NEW s \in Seq(C), ~EscapedSeparator(s)
  PROVE  Cardinality(Slashes(decoded(s), Len(decoded(s)))) = Cardinality(Slashes(s, Len(s)))
<1> DEFINE n == Len(s)
           out(k) == Decoding(s)[k].out
           left(k) == Decoding(s)[k].left
           Kept(k) ==
             /\ Cardinality(Slashes(out(k), Len(out(k)))) = Cardinality(Slashes(s, k))
             /\ \A j \in 1..2 : j <= left(k) => k + j <= n /\ s[k + j] # "/"
           T == {k \in 0..n : Kept(k)}
           E == C \cup Range(Escapes)
<1>1. n \in Nat /\ DOMAIN s = 1..n
  OBVIOUS
<1>2. \A k \in 0..n : out(k) \in Seq(E) /\ left(k) \in 0..2
  <2>1. \A k \in 0..n : Decoding(s)[k] \in [out : Seq(E), left : 0..2]
    BY DecodingIs
  <2>2. QED
    BY <2>1
<1>3. Kept(0)
  <2>1. out(0) = <<>> /\ left(0) = 0
    <3>1. Decoding(s)[0] = [out |-> <<>>, left |-> 0]
      BY DecodingIs
    <3>2. QED
      BY <3>1
  <2>2. Slashes(<<>>, 0) = Slashes(s, 0)
    BY DEF Slashes
  <2>3. QED
    BY <2>1, <2>2
<1>4. ASSUME NEW k \in 0..n, k < n, Kept(k)
      PROVE  Kept(k + 1)
  <2> DEFINE c == s[k + 1]
             r == Decoding(s)[k]
  <2>1. k \in Nat /\ k + 1 \in 1..n /\ (k + 1) - 1 = k /\ k + 1 \in 0..n
    BY <1>1, <1>4
  <2>2. Decoding(s)[k + 1] = Decoded(s, r, k + 1)
    BY <2>1, DecodingIs
  <2>3. Cardinality(Slashes(s, k + 1))
          = Cardinality(Slashes(s, k)) + (IF c = "/" THEN 1 ELSE 0)
    BY <2>1, SlashesAreCounted
  <2>4. Cardinality(Slashes(s, k)) \in Nat
    BY <2>1, SlashesAreCounted
  <2>5. CASE left(k) > 0
    <3>1. out(k + 1) = out(k) /\ left(k + 1) = left(k) - 1
      BY <2>2, <2>5 DEF Decoded
    <3>2. c # "/"
      BY <1>2, <1>4, <2>5
    <3>3. \A j \in 1..2 : j <= left(k + 1) => (k + 1) + j <= n /\ s[(k + 1) + j] # "/"
      <4> SUFFICES ASSUME NEW j \in 1..2, j <= left(k + 1)
                   PROVE  (k + 1) + j <= n /\ s[(k + 1) + j] # "/"
        OBVIOUS
      <4>1. j + 1 \in 1..2 /\ j + 1 <= left(k) /\ k + (j + 1) = (k + 1) + j
        BY <1>2, <2>1, <3>1
      <4>2. QED
        BY <1>4, <4>1
    <3>4. QED
      BY <1>4, <2>3, <2>4, <3>1, <3>2, <3>3
  <2>6. CASE ~(left(k) > 0) /\ Escaped(s, k + 1)
    <3> DEFINE d == <<s[(k + 1) + 1], s[(k + 1) + 2]>>
    <3>1. out(k + 1) = Append(out(k), Escapes[d]) /\ left(k + 1) = 2
      BY <2>2, <2>6 DEF Decoded
    <3>2. c = "%" /\ d \in DOMAIN Escapes /\ (k + 1) + 2 <= n
      BY <2>6 DEF Escaped
    <3>3. Escapes[d] # "/"
      BY <1>1, <2>1, <2>6 DEF EscapedSeparator, EscapeAt
    <3>4. s[(k + 1) + 1] # "/" /\ s[(k + 1) + 2] # "/"
      BY <3>2, UrlAssumption
    <3>5. Escapes[d] \in E
      BY <3>2 DEF Range
    <3>6. Cardinality(Slashes(out(k + 1), Len(out(k + 1)))) = Cardinality(Slashes(out(k), Len(out(k))))
      <4> HIDE DEF d, E
      <4>1. Cardinality(Slashes(out(k), Len(out(k)))) \in Nat
        BY <1>2, SlashesAreCounted
      <4>2. QED
        BY <1>2, <3>1, <3>3, <3>5, <4>1, AppendedSlash
    <3>7. \A j \in 1..2 : (k + 1) + j <= n /\ s[(k + 1) + j] # "/"
      <4>1. \A j \in 1..2 : j = 1 \/ j = 2
        OBVIOUS
      <4>2. QED
        BY <2>1, <3>2, <3>4, <4>1
    <3>8. QED
      BY <1>4, <2>3, <2>4, <3>2, <3>6, <3>7
  <2>7. CASE ~(left(k) > 0) /\ ~Escaped(s, k + 1)
    <3>1. out(k + 1) = Append(out(k), c) /\ left(k + 1) = 0
      BY <2>2, <2>7 DEF Decoded
    <3>2. c \in E
      BY <2>1
    <3>3. Cardinality(Slashes(out(k + 1), Len(out(k + 1))))
            = Cardinality(Slashes(out(k), Len(out(k)))) + (IF c = "/" THEN 1 ELSE 0)
      <4> HIDE DEF c, E
      <4>1. QED
        BY <1>2, <3>1, <3>2, AppendedSlash
    <3>4. QED
      BY <1>4, <2>3, <3>1, <3>3
  <2>8. QED
    BY <2>5, <2>6, <2>7
<1>5. Kept(n)
  <2> HIDE DEF Kept, n
  <2>1. 0..n \subseteq T
    <3>1. 0 \in T
      BY <1>1, <1>3
    <3>2. \A k \in 0..n : k < n /\ k \in T => k + 1 \in T
      BY <1>1, <1>4
    <3> HIDE DEF T
    <3>3. QED
      BY <1>1, <3>1, <3>2, UpTo
  <2>2. QED
    BY <1>1, <2>1
<1>6. QED
  BY <1>5 DEF decoded
--------------------------------------------------------------------------------
Forward(s) == [k \in DOMAIN s |-> IF s[k] = "\\" THEN "/" ELSE s[k]]

\* The first separator, which ends the authority.
LEMMA FirstSlash ==
  ASSUME NEW C, NEW u \in Seq(C), NEW k \in Slashes(u, Len(u))
  PROVE  /\ SelectInSeq(u, LAMBDA c : c = "/") \in Slashes(u, Len(u))
         /\ \A i \in Slashes(u, Len(u)) : SelectInSeq(u, LAMBDA c : c = "/") <= i
<1> DEFINE I == {i \in 1..Len(u) : u[i] = "/"}
<1>1. I \subseteq Nat /\ I # {}
  BY DEF Slashes
<1>2. \E x \in I : \A y \in I : x <= y
  <2> HIDE DEF I
  <2>1. QED
    BY <1>1, NatLeast
<1>3. SelectInSeq(u, LAMBDA c : c = "/") = Min(I)
  BY <1>1 DEF SelectInSeq
<1>4. Min(I) \in I /\ \A y \in I : Min(I) <= y
  <2> HIDE DEF I
  <2>1. QED
    BY <1>2 DEF Min
<1>5. QED
  BY <1>3, <1>4 DEF Slashes

\* What follows a separator has one less than the whole from there on.
LEMMA SlashesAfter ==
  ASSUME NEW C, NEW u \in Seq(C), NEW k \in Slashes(u, Len(u)),
         \A i \in Slashes(u, Len(u)) : k <= i
  PROVE  Cardinality(Slashes(SubSeq(u, k + 1, Len(u)), Len(SubSeq(u, k + 1, Len(u)))))
           = Cardinality(Slashes(u, Len(u))) - 1
<1> DEFINE n == Len(u)
           rest == SubSeq(u, k + 1, n)
           A == Slashes(rest, Len(rest))
           B == Slashes(u, n) \ {k}
           f == [i \in A |-> i + k]
<1>1. n \in Nat /\ k \in 1..n
  BY DEF Slashes
<1>2. /\ Len(rest) = n - k /\ Len(rest) \in Nat
      /\ \A i \in 1..n - k : rest[i] = u[i + k]
  BY <1>1
<1> HIDE DEF n, rest
<1>3. A \subseteq 1..n - k /\ \A i \in A : u[i + k] = "/"
  BY <1>2 DEF Slashes
<1>4. f \in Bijection(A, B)
  <2>1. \A i \in A : i + k \in B
    BY <1>1, <1>3 DEF Slashes
  <2>2. \A i, j \in A : i + k = j + k => i = j
    BY <1>1, <1>3
  <2>3. \A b \in B : \E i \in A : i + k = b
    <3> SUFFICES ASSUME NEW b \in B PROVE \E i \in A : i + k = b
      OBVIOUS
    <3>1. b \in 1..n /\ b > k /\ u[b] = "/"
      BY <1>1 DEF Slashes, n
    <3>2. b - k \in 1..n - k /\ (b - k) + k = b
      BY <1>1, <3>1
    <3>3. b - k \in A
      BY <1>2, <3>1, <3>2 DEF Slashes
    <3>4. QED
      BY <3>2, <3>3
  <2>4. f \in [A -> B] /\ \A i \in A : f[i] = i + k
    BY <2>1
  <2> HIDE DEF f, A, B
  <2>5. f \in Injection(A, B)
    BY <2>2, <2>4 DEF Injection, IsInjective
  <2>6. f \in Surjection(A, B)
    BY <2>3, <2>4 DEF Surjection
  <2>7. QED
    BY <2>5, <2>6 DEF Bijection
<1>5. IsFiniteSet(Slashes(u, n))
  BY <1>1, SlashesAreCounted
<1>6. IsFiniteSet(B) /\ Cardinality(B) = Cardinality(Slashes(u, n)) - 1
  BY <1>5, FS_RemoveElement DEF n
<1>7. IsFiniteSet(A)
  BY <1>2, SlashesAreCounted
<1>8. Cardinality(A) = Cardinality(B)
  <2> HIDE DEF A, B
  <2>1. QED
    BY <1>4, <1>6, <1>7, FS_Bijection DEF ExistsBijection
<1>9. QED
  BY <1>6, <1>8 DEF n, rest
\* The text of a URL once backslashes are separators.
LEMMA ForwardIs ==
  ASSUME NEW C, NEW s \in Seq(C)
  PROVE  /\ Forward(s) \in Seq(C \cup {"/"}) /\ Len(Forward(s)) = Len(s)
         /\ \A k \in 1..Len(s) : Forward(s)[k] = IF s[k] = "\\" THEN "/" ELSE s[k]
         /\ Separators(s) = Slashes(Forward(s), Len(Forward(s)))
<1> DEFINE n == Len(s)
           u == [k \in 1..n |-> IF s[k] = "\\" THEN "/" ELSE s[k]]
<1>1. n \in Nat /\ DOMAIN s = 1..n /\ \A k \in 1..n : s[k] \in C
  OBVIOUS
<1>2. Forward(s) = u
  BY <1>1 DEF Forward
<1>3. u \in [1..n -> C \cup {"/"}]
  BY <1>1
<1>4. u \in Seq(C \cup {"/"}) /\ Len(u) = n
  <2> HIDE DEF u, n
  <2>1. QED
    BY <1>1, <1>3
<1>5. Separators(s) = {k \in 1..n : s[k] \in {"/", "\\"}}
  BY <1>1 DEF Separators
<1>6. \A k \in 1..n : u[k] = "/" <=> s[k] \in {"/", "\\"}
  OBVIOUS
<1>7. Separators(s) = Slashes(u, n)
  BY <1>5, <1>6 DEF Slashes
<1>8. QED
  BY <1>2, <1>4, <1>7

\* The path of a URL that is accepted has the separators of the text but for the first.
LEMMA ResolvedSlashes ==
  ASSUME NEW C, NEW s \in Seq(C), NEW spelling, resolve(spelling, s).ok, Separators(s) # {}
  PROVE  Cardinality({k \in DOMAIN resolve(spelling, s).path : resolve(spelling, s).path[k] = "/"})
           = Cardinality(Separators(s)) - 1
<1> DEFINE u == Forward(s)
           slash == SelectInSeq(u, LAMBDA c : c = "/")
           enc == SubSeq(u, slash + 1, Len(u))
           path == resolve(spelling, s).path
           D == C \cup {"/"}
<1>1. u \in Seq(D) /\ Separators(s) = Slashes(u, Len(u))
  BY ForwardIs
<1> HIDE DEF u
<1>2. slash \in Slashes(u, Len(u)) /\ \A i \in Slashes(u, Len(u)) : slash <= i
  <2> HIDE DEF D
  <2>1. QED
    BY <1>1, FirstSlash
<1>3. slash \in 1..Len(u)
  BY <1>2 DEF Slashes
<1>4. ~EscapedSeparator(enc) /\ path = decoded(enc)
  <2>1. slash # 0
    BY <1>3
  <2> HIDE DEF slash
  <2>2. resolve(spelling, s).ok # FALSE
    OBVIOUS
  <2>3. QED
    BY <2>1, <2>2 DEF resolve, Refused, u, slash, Forward
<1> HIDE DEF slash, path
<1>5. enc \in Seq(D)
  BY <1>1, <1>3
<1>6. decoded(enc) \in Seq(D \cup Range(Escapes))
  <2> HIDE DEF enc, D
  <2>1. \A k \in 0..Len(enc) :
          Decoding(enc)[k] \in [out : Seq(D \cup Range(Escapes)), left : 0..2]
    BY <1>5, DecodingIs
  <2>2. Len(enc) \in 0..Len(enc)
    BY <1>5
  <2>3. QED
    BY <2>1, <2>2 DEF decoded
<1>7. {k \in DOMAIN path : path[k] = "/"} = Slashes(decoded(enc), Len(decoded(enc)))
  BY <1>4, <1>6 DEF Slashes
<1>8. Cardinality(Slashes(decoded(enc), Len(decoded(enc)))) = Cardinality(Slashes(enc, Len(enc)))
  <2> HIDE DEF enc, D
  <2>1. QED
    BY <1>4, <1>5, DecodingKeepsSlashes
<1>9. Cardinality(Slashes(enc, Len(enc))) = Cardinality(Slashes(u, Len(u))) - 1
  <2> HIDE DEF D
  <2>1. QED
    BY <1>1, <1>2, SlashesAfter
<1>10. QED
  BY <1>1, <1>7, <1>8, <1>9 DEF path
--------------------------------------------------------------------------------
\* Every "%" begins an escape, and none of a separator.
Whole(s) ==
  \A k \in 1..Len(s) : s[k] = "%" => Escaped(s, k) /\ Escapes[<<s[k + 1], s[k + 2]>>] # "/"

LEMMA EscapesOfAPrefix ==
  ASSUME NEW C, NEW s \in Seq(C), NEW t \in Seq(C), Whole(s), NEW k \in 1..Len(s)
  PROVE  /\ (s \o t)[k] = s[k] /\ (Escaped(s \o t, k) <=> Escaped(s, k))
         /\ Escaped(s, k) => (s \o t)[k + 1] = s[k + 1] /\ (s \o t)[k + 2] = s[k + 2]
<1> DEFINE st == s \o t
<1>1. /\ Len(s) \in Nat /\ Len(t) \in Nat /\ Len(st) = Len(s) + Len(t)
      /\ \A i \in 1..Len(s) : st[i] = s[i]
  OBVIOUS
<1> HIDE DEF st
<1>2. CASE s[k] = "%"
  <2>1. Escaped(s, k) /\ k + 2 <= Len(s) /\ k + 1 \in 1..Len(s) /\ k + 2 \in 1..Len(s)
    BY <1>1, <1>2 DEF Whole, Escaped
  <2>2. st[k + 1] = s[k + 1] /\ st[k + 2] = s[k + 2]
    BY <1>1, <2>1
  <2>3. Escaped(st, k)
    BY <1>1, <2>1, <2>2 DEF Escaped
  <2>4. QED
    BY <1>1, <2>1, <2>2, <2>3 DEF st
<1>3. CASE s[k] # "%"
  <2>1. ~Escaped(s, k) /\ ~Escaped(st, k)
    BY <1>1, <1>3 DEF Escaped
  <2>2. QED
    BY <1>1, <2>1 DEF st
<1>4. QED
  BY <1>2, <1>3

\* What has been decoded does not depend on what follows.
LEMMA DecodingOfAPrefix ==
  ASSUME NEW C, NEW s \in Seq(C), NEW t \in Seq(C), Whole(s)
  PROVE  \A k \in 0..Len(s) : Decoding(s \o t)[k] = Decoding(s)[k]
<1> DEFINE n == Len(s)
           st == s \o t
           T == {k \in 0..n : Decoding(st)[k] = Decoding(s)[k]}
<1>1. n \in Nat /\ st \in Seq(C) /\ Len(st) \in Nat /\ Len(st) >= n
  OBVIOUS
<1>2. /\ Decoding(s)[0] = [out |-> <<>>, left |-> 0]
      /\ \A k \in 1..n : Decoding(s)[k] = Decoded(s, Decoding(s)[k - 1], k)
  BY DecodingIs
<1>3. /\ Decoding(st)[0] = [out |-> <<>>, left |-> 0]
      /\ \A k \in 1..Len(st) : Decoding(st)[k] = Decoded(st, Decoding(st)[k - 1], k)
  <2> HIDE DEF st
  <2>1. QED
    BY <1>1, DecodingIs
<1>4. 0 \in T
  BY <1>1, <1>2, <1>3
<1>5. ASSUME NEW k \in 0..n, k < n, k \in T
      PROVE  k + 1 \in T
  <2>1. k + 1 \in 1..n /\ k + 1 \in 0..n /\ k + 1 \in 1..Len(st) /\ (k + 1) - 1 = k
    BY <1>1, <1>5
  <2>2. /\ st[k + 1] = s[k + 1] /\ (Escaped(st, k + 1) <=> Escaped(s, k + 1))
        /\ Escaped(s, k + 1) =>
             st[(k + 1) + 1] = s[(k + 1) + 1] /\ st[(k + 1) + 2] = s[(k + 1) + 2]
    BY <2>1, EscapesOfAPrefix
  <2>3. Decoding(st)[k] = Decoding(s)[k]
    BY <1>5
  <2> HIDE DEF st
  <2>4. Decoded(st, Decoding(st)[k], k + 1) = Decoded(s, Decoding(s)[k], k + 1)
    BY <2>2, <2>3 DEF Decoded
  <2>5. QED
    BY <1>2, <1>3, <2>1, <2>4
<1>6. 0..n \subseteq T
  <2> HIDE DEF T
  <2>1. QED
    BY <1>1, <1>4, <1>5, UpTo
<1>7. QED
  BY <1>6

\* A text of whole escapes that is decoded to the end, and what it is decoded to.
Means(s, path) == Whole(s) /\ Decoding(s)[Len(s)] = [out |-> path, left |-> 0]

LEMMA OneMore ==
  ASSUME NEW C, NEW s \in Seq(C), NEW path, Means(s, path), NEW c \in C, c # "%"
  PROVE  Means(s \o <<c>>, Append(path, c))
<1> DEFINE n == Len(s)
           one == <<c>>
           st == s \o one
<1>1. /\ n \in Nat /\ st \in Seq(C) /\ Len(st) = n + 1 /\ st[n + 1] = c
      /\ n + 1 \in 1..Len(st) /\ (n + 1) - 1 = n /\ n \in 0..n /\ one \in Seq(C)
  OBVIOUS
<1> HIDE DEF one
<1>2. \A k \in 1..n :
        /\ st[k] = s[k] /\ (Escaped(st, k) <=> Escaped(s, k))
        /\ Escaped(s, k) => st[k + 1] = s[k + 1] /\ st[k + 2] = s[k + 2]
  <2>1. Whole(s) /\ one \in Seq(C)
    BY <1>1 DEF Means
  <2>2. QED
    BY <2>1, EscapesOfAPrefix
<1>3. Decoding(st)[n] = [out |-> path, left |-> 0]
  BY <1>1, DecodingOfAPrefix DEF Means
<1> HIDE DEF n, st
<1>4. Decoding(st)[n + 1] = Decoded(st, Decoding(st)[n], n + 1)
  BY <1>1, DecodingIs
<1>5. ~Escaped(st, n + 1)
  BY <1>1 DEF Escaped
<1>6. Decoding(st)[n + 1] = [out |-> Append(path, c), left |-> 0]
  BY <1>1, <1>3, <1>4, <1>5 DEF Decoded
<1>7. Whole(st)
  <2> SUFFICES ASSUME NEW k \in 1..Len(st), st[k] = "%"
               PROVE  Escaped(st, k) /\ Escapes[<<st[k + 1], st[k + 2]>>] # "/"
    BY DEF Whole
  <2>1. k \in 1..n
    BY <1>1
  <2>2. QED
    BY <1>2, <2>1 DEF Means, Whole, n
<1>8. QED
  BY <1>1, <1>6, <1>7 DEF Means, st, one

LEMMA OneEscapeMore ==
  ASSUME NEW C, NEW s \in Seq(C), NEW path, Means(s, path), "%" \in C,
         NEW a \in C, NEW b \in C, a # "%", b # "%",
         <<a, b>> \in DOMAIN Escapes, Escapes[<<a, b>>] # "/"
  PROVE  Means(s \o <<"%", a, b>>, Append(path, Escapes[<<a, b>>]))
<1> DEFINE n == Len(s)
           three == <<"%", a, b>>
           st == s \o three
           c == Escapes[<<a, b>>]
<1>1. /\ n \in Nat /\ st \in Seq(C) /\ Len(st) = n + 3
      /\ st[n + 1] = "%" /\ st[n + 2] = a /\ st[n + 3] = b /\ three \in Seq(C)
  OBVIOUS
<1>2. /\ n \in 0..n /\ n + 1 \in 1..Len(st) /\ n + 2 \in 1..Len(st) /\ n + 3 \in 1..Len(st)
      /\ (n + 1) - 1 = n /\ (n + 2) - 1 = n + 1 /\ (n + 3) - 1 = n + 2
      /\ (n + 1) + 1 = n + 2 /\ (n + 1) + 2 = n + 3
  BY <1>1
<1> HIDE DEF three
<1>3. \A k \in 1..n :
        /\ st[k] = s[k] /\ (Escaped(st, k) <=> Escaped(s, k))
        /\ Escaped(s, k) => st[k + 1] = s[k + 1] /\ st[k + 2] = s[k + 2]
  BY <1>1, EscapesOfAPrefix DEF Means
<1>4. Decoding(st)[n] = [out |-> path, left |-> 0]
  BY <1>1, <1>2, DecodingOfAPrefix DEF Means
<1> HIDE DEF n, st, c
<1>5. \A k \in 1..Len(st) : Decoding(st)[k] = Decoded(st, Decoding(st)[k - 1], k)
  BY <1>1, DecodingIs
<1>6. Escaped(st, n + 1) /\ Escapes[<<st[(n + 1) + 1], st[(n + 1) + 2]>>] = c
  <2>1. <<st[(n + 1) + 1], st[(n + 1) + 2]>> = <<a, b>>
    BY <1>1, <1>2
  <2>2. (n + 1) + 2 <= Len(st)
    BY <1>1
  <2>3. QED
    BY <1>1, <2>1, <2>2 DEF Escaped, c
<1>7. Decoding(st)[n + 1] = [out |-> Append(path, c), left |-> 2]
  <2>1. Decoding(st)[n + 1] = Decoded(st, Decoding(st)[n], n + 1)
    BY <1>2, <1>5
  <2>2. QED
    BY <1>4, <1>6, <2>1 DEF Decoded
<1>8. Decoding(st)[n + 2] = [out |-> Append(path, c), left |-> 1]
  <2>1. Decoding(st)[n + 2] = Decoded(st, Decoding(st)[n + 1], n + 2)
    BY <1>2, <1>5
  <2>2. QED
    BY <1>7, <2>1 DEF Decoded
<1>9. Decoding(st)[n + 3] = [out |-> Append(path, c), left |-> 0]
  <2>1. Decoding(st)[n + 3] = Decoded(st, Decoding(st)[n + 2], n + 3)
    BY <1>2, <1>5
  <2>2. QED
    BY <1>8, <2>1 DEF Decoded
<1>10. Whole(st)
  <2> SUFFICES ASSUME NEW k \in 1..Len(st), st[k] = "%"
               PROVE  Escaped(st, k) /\ Escapes[<<st[k + 1], st[k + 2]>>] # "/"
    BY DEF Whole
  <2>1. k \in 1..n \/ k = n + 1
    BY <1>1
  <2>2. CASE k = n + 1
    BY <1>6, <2>2 DEF c
  <2>3. CASE k \in 1..n
    BY <1>3, <2>3 DEF Means, Whole, n
  <2>4. QED
    BY <2>1, <2>2, <2>3
<1>11. QED
  BY <1>1, <1>9, <1>10 DEF Means, st, three, c
\* The parts of a text, put together one after the other.
LEMMA Flattening ==
  ASSUME NEW C, NEW ss \in Seq(Seq(C))
  PROVE  \E g : /\ g[0] = <<>> /\ g[Len(ss)] = FlattenSeq(ss)
                /\ \A i \in 1..Len(ss) : g[i] = g[i - 1] \o ss[i]
<1> DEFINE n == Len(ss)
<1>0. n \in Nat /\ \A i \in 1..n : ss[i] \in Seq(C)
  OBVIOUS
<1>1. CASE n = 0
  <2> DEFINE g == [i \in {0} |-> <<>>]
  <2>1. FlattenSeq(ss) = ss /\ ss = <<>>
    BY <1>1 DEF FlattenSeq
  <2>2. g[0] = <<>>
    OBVIOUS
  <2> HIDE DEF g
  <2>3. QED
    BY <1>1, <2>1, <2>2
<1>2. CASE n # 0
  <2> DEFINE D == 1..n
             S == Seq(C)
             m == [i \in D |-> i]
             F == [p \in D \X [D -> S] |->
                     IF p[1] = 1 THEN ss[1] ELSE p[2][p[1] - 1] \o ss[p[1]]]
  <2>1. 1 \in D /\ \A i \in D : i # 1 => i - 1 \in D
    BY <1>0, <1>2
  <2>2. \A i \in D, h \in [D -> S] :
          F[<<i, h>>] = IF i = 1 THEN ss[1] ELSE h[i - 1] \o ss[i]
    OBVIOUS
  <2>3. F \in [D \X [D -> S] -> S]
    <3>1. \A x, y \in S : x \o y \in S
      OBVIOUS
    <3> HIDE DEF S
    <3>2. QED
      BY <1>0, <2>1, <3>1 DEF S
  <2>4. m \in [D -> 0..n] /\ \A i \in D : m[i] = i
    BY <1>0
  <2>5. <<>> \in S
    OBVIOUS
  <2> HIDE DEF D, S, F, m
  <2>6. DependsOnLess(F, D, S, m)
    <3> SUFFICES ASSUME NEW i \in D, NEW g \in [D -> S], NEW h \in [D -> S],
                        \A e \in D : m[e] < m[i] => g[e] = h[e]
                 PROVE  F[<<i, g>>] = F[<<i, h>>]
      BY DEF DependsOnLess
    <3>1. i # 1 => g[i - 1] = h[i - 1]
      <4>1. i \in Nat /\ (i # 1 => i - 1 \in D)
        BY <1>0, <2>1 DEF D
      <4>2. QED
        BY <2>4, <4>1
    <3>2. QED
      BY <2>2, <3>1
  <2>7. PICK f \in [D -> S] : Solves(f, F, D)
    BY <1>0, <2>3, <2>4, <2>5, <2>6, Recursion
  <2>8. \A i \in D : f[i] = IF i = 1 THEN ss[1] ELSE f[i - 1] \o ss[i]
    BY <2>2, <2>7 DEF Solves
  <2>9. f = [i \in D |-> IF i = 1 THEN ss[i] ELSE f[i - 1] \o ss[i]]
    BY <2>7, <2>8
  <2>10. \E f1 : /\ f1 = [i \in 1..n |-> IF i = 1 THEN ss[i] ELSE f1[i - 1] \o ss[i]]
                 /\ FlattenSeq(ss) = f1[n]
    BY <1>2, <2>9 DEF FlattenSeq, D
  <2>11. PICK f1 : /\ f1 = [i \in 1..n |-> IF i = 1 THEN ss[i] ELSE f1[i - 1] \o ss[i]]
                   /\ FlattenSeq(ss) = f1[n]
    BY <2>10
  <2>12. \A i \in 1..n : f1[i] = IF i = 1 THEN ss[i] ELSE f1[i - 1] \o ss[i]
    BY <2>11
  <2> DEFINE g == [i \in 0..n |-> IF i = 0 THEN <<>> ELSE f1[i]]
  <2>13. g[0] = <<>> /\ \A i \in 1..n : g[i] = f1[i]
    BY <1>0
  <2> HIDE DEF g
  <2>14. \A i \in 1..n : g[i] = g[i - 1] \o ss[i]
    <3> SUFFICES ASSUME NEW i \in 1..n PROVE g[i] = g[i - 1] \o ss[i]
      OBVIOUS
    <3>1. CASE i = 1
      <4>1. <<>> \o ss[1] = ss[1]
        BY <1>0, <1>2
      <4>2. g[1] = ss[1] /\ 1 - 1 = 0
        BY <2>12, <2>13, <3>1
      <4>3. QED
        BY <2>13, <3>1, <4>1, <4>2
    <3>2. CASE i # 1
      <4>1. i - 1 \in 1..n
        BY <1>0, <3>2
      <4>2. QED
        BY <2>12, <2>13, <3>2, <4>1
    <3>3. QED
      BY <3>1, <3>2
  <2>15. g[n] = FlattenSeq(ss)
    <3>1. n \in 1..n
      BY <1>0, <1>2
    <3>2. QED
      BY <2>11, <2>13, <3>1
  <2>16. QED
    BY <2>13, <2>14, <2>15
<1>3. QED
  BY <1>1, <1>2

LEMMA EscapeIs ==
  ASSUME NEW c \in URL_PATH_ENCODE_SET
  PROVE  \E d \in DOMAIN Escapes :
           EscapeOf(c) = <<"%", d[1], d[2]>> /\ Escapes[<<d[1], d[2]>>] = c
             /\ <<d[1], d[2]>> \in DOMAIN Escapes
<1> DEFINE d == CHOOSE d \in DOMAIN Escapes : Escapes[d] = c /\ d[2] # "f"
<1>1. d \in DOMAIN Escapes /\ Escapes[d] = c
  BY UrlAssumption
<1>2. d = <<d[1], d[2]>>
  BY <1>1, UrlAssumption
<1>3. EscapeOf(c) = <<"%">> \o d
  BY DEF EscapeOf
<1> HIDE DEF d
<1>4. <<"%">> \o <<d[1], d[2]>> = <<"%", d[1], d[2]>>
  <2> DEFINE X == {"%", d[1], d[2]}
             l == <<"%">> \o <<d[1], d[2]>>
             r == <<"%", d[1], d[2]>>
  <2>1. l \in Seq(X) /\ r \in Seq(X) /\ Len(l) = 3 /\ Len(r) = 3
    OBVIOUS
  <2>2. l[1] = r[1] /\ l[2] = r[2] /\ l[3] = r[3]
    OBVIOUS
  <2> HIDE DEF l, r, X
  <2>3. \A i \in 1..3 : l[i] = r[i]
    <3>1. \A i \in 1..3 : i = 1 \/ i = 2 \/ i = 3
      OBVIOUS
    <3>2. QED
      BY <2>2, <3>1
  <2>4. l = r
    BY <2>1, <2>3, SeqEqual
  <2>5. QED
    BY <2>4 DEF l, r
<1>5. QED
  BY <1>1, <1>2, <1>3, <1>4
Digits == UNION {{d[1], d[2]} : d \in DOMAIN Escapes}
Part(c) == IF c \in URL_PATH_ENCODE_SET THEN EscapeOf(c) ELSE <<c>>

\* An encoded name has only whole escapes, nothing that ends a path, and means the name.
LEMMA EncodedMeans ==
  ASSUME NEW C, NEW path \in Seq(C), ~HasAny(path, {"\\"})
  PROVE  LET e == FlattenSeq([k \in DOMAIN path |-> Part(path[k])])
         IN e \in Seq((C \cup {"%"} \cup Digits) \ {"?", "#", "\\"}) /\ Means(e, path)
<1> DEFINE K == (C \cup {"%"} \cup Digits) \ {"?", "#", "\\"}
           n == Len(path)
           ss == [k \in DOMAIN path |-> Part(path[k])]
           pre(j) == SubSeq(path, 1, j)
<1>1. n \in Nat /\ DOMAIN path = 1..n /\ \A k \in 1..n : path[k] \in C /\ path[k] # "\\"
  BY DEF HasAny
<1>2. ASSUME NEW c \in C, c # "\\"
      PROVE  /\ Part(c) \in Seq(K)
             /\ \A s \in Seq(K) : \A p : Means(s, p) => Means(s \o Part(c), Append(p, c))
  <2>1. CASE c \in URL_PATH_ENCODE_SET
    <3>1. PICK d \in DOMAIN Escapes :
            EscapeOf(c) = <<"%", d[1], d[2]>> /\ Escapes[<<d[1], d[2]>>] = c
              /\ <<d[1], d[2]>> \in DOMAIN Escapes
      BY <2>1, EscapeIs
    <3>2. d[1] \in K /\ d[2] \in K /\ d[1] # "%" /\ d[2] # "%" /\ "%" \in K
      <4>1. {d[1], d[2]} \cap {"%", "/", "\\", "?", "#"} = {}
        BY UrlAssumption
      <4>2. d[1] \in Digits /\ d[2] \in Digits
        BY DEF Digits
      <4>3. QED
        BY <4>1, <4>2
    <3>3. Part(c) = <<"%", d[1], d[2]>>
      BY <2>1, <3>1 DEF Part
    <3>4. c # "/"
      BY <2>1 DEF URL_PATH_ENCODE_SET
    <3> HIDE DEF K
    <3>5. Part(c) \in Seq(K)
      BY <3>2, <3>3
    <3>6. ASSUME NEW s \in Seq(K), NEW p, Means(s, p)
          PROVE  Means(s \o Part(c), Append(p, c))
      BY <3>1, <3>2, <3>3, <3>4, <3>6, OneEscapeMore
    <3>7. QED
      BY <3>5, <3>6
  <2>2. CASE c \notin URL_PATH_ENCODE_SET
    <3>1. c \in K /\ c # "%" /\ Part(c) = <<c>>
      BY <1>2, <2>2 DEF Part, URL_PATH_ENCODE_SET
    <3> HIDE DEF K
    <3>2. Part(c) \in Seq(K)
      BY <3>1
    <3>3. ASSUME NEW s \in Seq(K), NEW p, Means(s, p)
          PROVE  Means(s \o Part(c), Append(p, c))
      BY <3>1, <3>3, OneMore
    <3>4. QED
      BY <3>2, <3>3
  <2>3. QED
    BY <2>1, <2>2
<1> HIDE DEF K
<1>3. /\ ss \in Seq(Seq(K)) /\ Len(ss) = n
      /\ \A k \in 1..n : ss[k] = Part(path[k])
  <2>1. ss \in [1..n -> Seq(K)]
    BY <1>1, <1>2
  <2>2. QED
    BY <1>1, <2>1
<1> HIDE DEF ss
<1>4. PICK g : /\ g[0] = <<>> /\ g[n] = FlattenSeq(ss)
               /\ \A i \in 1..n : g[i] = g[i - 1] \o ss[i]
  BY <1>3, Flattening
<1> DEFINE T == {j \in 0..n : g[j] \in Seq(K) /\ Means(g[j], pre(j))}
<1>5. 0 \in T
  <2>1. Decoding(<<>>)[0] = [out |-> <<>>, left |-> 0]
    <3>1. <<>> \in Seq(K)
      OBVIOUS
    <3>2. QED
      BY <3>1, DecodingIs
  <2>2. Len(<<>>) = 0 /\ pre(0) = <<>> /\ 0 \in 0..n
    BY <1>1
  <2>3. Means(<<>>, <<>>)
    BY <2>1, <2>2 DEF Means, Whole
  <2>4. g[0] \in Seq(K) /\ Means(g[0], pre(0))
    <3> HIDE DEF pre
    <3>1. QED
      BY <1>4, <2>2, <2>3
  <2>5. QED
    BY <2>2, <2>4
<1>6. ASSUME NEW j \in 0..n, j < n, j \in T
      PROVE  j + 1 \in T
  <2> DEFINE c == path[j + 1]
  <2>1. j + 1 \in 1..n /\ j + 1 \in 0..n /\ (j + 1) - 1 = j
    BY <1>1, <1>6
  <2>2. g[j + 1] = g[j] \o Part(c)
    BY <1>3, <1>4, <2>1
  <2>3. pre(j + 1) = Append(pre(j), c)
    BY <1>1, <2>1
  <2>4. g[j] \in Seq(K) /\ Means(g[j], pre(j))
    BY <1>6
  <2> HIDE DEF pre
  <2>5. Part(c) \in Seq(K) /\ Means(g[j] \o Part(c), Append(pre(j), c))
    BY <1>1, <1>2, <2>1, <2>4
  <2>6. Means(g[j + 1], pre(j + 1))
    BY <2>2, <2>3, <2>5
  <2>7. g[j + 1] \in Seq(K)
    BY <2>2, <2>4, <2>5
  <2>8. QED
    BY <2>1, <2>6, <2>7
<1>7. 0..n \subseteq T
  <2> HIDE DEF T
  <2>1. QED
    BY <1>1, <1>5, <1>6, UpTo
<1>8. g[n] \in Seq(K) /\ Means(g[n], pre(n))
  BY <1>1, <1>7
<1>9. pre(n) = path
  BY <1>1
<1>10. QED
  BY <1>4, <1>8, <1>9 DEF K, ss

\* A name that is encoded, and resolved again.
LEMMA RoundTrip ==
  ASSUME NEW C, NEW path \in Seq(C), ~HasAny(path, {"\\"}), ~HasAny(path, NotUtf8 \cup {"NUL"}),
         NEW spelling, Lower[spelling] \in Registered
  PROVE  resolve(spelling, od_url_build(<<"b">>, path)) =
           [ok |-> TRUE, scheme |-> Lower[spelling], authority |-> <<"b">>, path |-> path]
<1> DEFINE K == (C \cup {"%"} \cup Digits) \ {"?", "#", "\\"}
           L == K \cup {"b", "/"}
           e == FlattenSeq([k \in DOMAIN path |-> Part(path[k])])
           u == <<"b">> \o <<"/">> \o e
           slash == SelectInSeq(u, LAMBDA c : c = "/")
<1>1. e \in Seq(K) /\ Means(e, path)
  BY EncodedMeans
<1>2. od_url_build(<<"b">>, path) = u
  BY DEF od_url_build, Part
<1> HIDE DEF e
<1>3. \A c \in L : c # "\\" /\ c # "?" /\ c # "#"
  OBVIOUS
<1>4. /\ u \in Seq(L) /\ Len(u) = Len(e) + 2 /\ Len(e) \in Nat
      /\ u[1] = "b" /\ u[2] = "/" /\ \A i \in 1..Len(e) : u[i + 2] = e[i]
  <2>1. e \in Seq(L)
    BY <1>1
  <2> HIDE DEF L
  <2>2. "b" \in L /\ "/" \in L
    BY DEF L
  <2>3. QED
    BY <2>1, <2>2
<1> HIDE DEF K, L, u
<1>5. \A i \in 1..Len(u) : u[i] # "\\" /\ u[i] # "?" /\ u[i] # "#"
  BY <1>3, <1>4
<1>6. DOMAIN u = 1..Len(u)
  BY <1>4
<1>7. Forward(u) = u
  <2>1. Forward(u) = [i \in 1..Len(u) |-> u[i]]
    BY <1>5, <1>6 DEF Forward
  <2>2. QED
    BY <1>4, <2>1
<1>8. slash = 2
  <2>1. 2 \in Slashes(u, Len(u)) /\ 1 \notin Slashes(u, Len(u))
    BY <1>4 DEF Slashes
  <2>2. slash \in Slashes(u, Len(u)) /\ slash <= 2
    BY <1>4, <2>1, FirstSlash
  <2>3. slash \in 1..Len(u)
    BY <2>2 DEF Slashes
  <2>4. QED
    BY <1>4, <2>1, <2>2, <2>3
<1> HIDE DEF slash
<1>9. SubSeq(u, slash + 1, Len(u)) = e
  <2>1. SubSeq(u, 3, Len(u)) \in Seq(L) /\ Len(SubSeq(u, 3, Len(u))) = Len(e)
    BY <1>4
  <2>2. \A i \in 1..Len(e) : SubSeq(u, 3, Len(u))[i] = u[i + 2]
    BY <1>4
  <2>3. e \in Seq(L)
    BY <1>1 DEF L
  <2>4. SubSeq(u, 3, Len(u)) = e
    BY <1>4, <2>1, <2>2, <2>3, SeqEqual
  <2>5. QED
    BY <1>8, <2>4
<1>10. SubSeq(u, 1, slash - 1) = <<"b">>
  <2>1. SubSeq(u, 1, 1) \in Seq(L) /\ Len(SubSeq(u, 1, 1)) = 1 /\ SubSeq(u, 1, 1)[1] = u[1]
    BY <1>4
  <2>2. <<"b">> \in Seq(L) /\ Len(<<"b">>) = 1 /\ <<"b">>[1] = "b"
    BY <1>4 DEF L
  <2>3. SubSeq(u, 1, 1) = <<"b">>
    <3> DEFINE one == <<"b">>
               head == SubSeq(u, 1, 1)
    <3>1. \A i \in 1..Len(one) : head[i] = one[i]
      BY <1>4, <2>1, <2>2
    <3>2. one \in Seq(L) /\ head \in Seq(L) /\ Len(head) = Len(one)
      BY <2>1, <2>2
    <3> HIDE DEF one, head
    <3>3. head = one
      BY <3>1, <3>2, SeqEqual
    <3>4. QED
      BY <3>3 DEF one, head
  <2>4. QED
    BY <1>8, <2>3
<1>11. decoded(e) = path
  BY <1>1 DEF decoded, Means
<1>12. ~EscapedSeparator(e)
  <2>1. DOMAIN e = 1..Len(e)
    BY <1>1
  <2>2. QED
    BY <1>1, <2>1 DEF EscapedSeparator, EscapeAt, Escaped, Means, Whole
<1>13. ~HasAny(u, {"?", "#"})
  BY <1>5, <1>6 DEF HasAny
<1>14. ~HasAny(<<"b">>, {"@"})
  BY DEF HasAny
<1>15. resolve(spelling, u) =
         [ok |-> TRUE, scheme |-> Lower[spelling], authority |-> <<"b">>, path |-> path]
  <2>1. slash # 0
    BY <1>8
  <2>2. QED
    BY <1>7, <1>9, <1>10, <1>11, <1>12, <1>13, <1>14, <2>1 DEF resolve, Forward, slash
<1>16. QED
  BY <1>2, <1>15

--------------------------------------------------------------------------------
\* The characters of the texts; none of them is one that a path may not have.
UrlCharacters == UNION {Range(t) : t \in UrlTokens}
TextTyped == text \in Seq(UrlCharacters)

LEMMA TokensAreTexts ==
  /\ UrlTokens \subseteq Seq(UrlCharacters)
  /\ UrlCharacters \cap (NotUtf8 \cup {"NUL"}) = {}
<1>1. ASSUME NEW t \in UrlTokens
      PROVE  t \in Seq(UrlCharacters)
  <2>1. t \in Seq(Range(t)) /\ Range(t) \subseteq UrlCharacters
    BY UrlAssumption DEF UrlCharacters
  <2>2. QED
    BY <2>1
<1>2. UrlCharacters \cap (NotUtf8 \cup {"NUL"}) = {}
  BY UrlAssumption DEF UrlCharacters
<1>3. QED
  BY <1>1, <1>2

LEMMA TextIsTyped == Spec => []TextTyped
<1>1. Init => TextTyped
  BY DEF Init, NoText, TextTyped
<1>2. ASSUME TextTyped, [Next]_vars
      PROVE  TextTyped'
  <2>1. CASE MoreText
    <3>1. PICK t \in UrlTokens : text' = text \o t
      BY <2>1 DEF MoreText
    <3>2. t \in Seq(UrlCharacters)
      BY TokensAreTexts
    <3>3. QED
      BY <1>2, <3>1, <3>2 DEF TextTyped
  <2>2. CASE UNCHANGED text
    BY <1>2, <2>2 DEF TextTyped
  <2>3. QED
    BY <1>2, <2>1, <2>2 DEF Next, vars
<1>3. QED
  BY <1>1, <1>2, PTL DEF Spec

\* Whatever characters a name is made of, the URL that Glob returns for it opens that name: what
\* od_url_build escapes, resolve finds again, and nothing else in the name looks like an escape.
THEOREM NamesHaveUrls == Spec => []EveryNameHasAUrl
<1>1. TextTyped => EveryNameHasAUrl
  <2> SUFFICES ASSUME TextTyped, Lower[scheme] \in Registered, ~HasAny(text, {"\\"})
               PROVE  resolve(scheme, od_url_build(<<"b">>, text)) =
                        [ok |-> TRUE, scheme |-> Lower[scheme], authority |-> <<"b">>, path |-> text]
    BY DEF EveryNameHasAUrl
  <2>1. ~HasAny(text, NotUtf8 \cup {"NUL"})
    BY TokensAreTexts DEF TextTyped, HasAny
  <2>2. QED
    BY <2>1, RoundTrip DEF TextTyped
<1>2. QED
  BY <1>1, TextIsTyped, PTL

\* The path of a URL that is accepted has the separators that are seen in the text but for the one
\* that ends the authority, however its escapes are spelled, broken, or made by other escapes.
THEOREM SeparatorsShow == Spec => []SeparatorsAreVisible
<1>1. TextTyped => SeparatorsAreVisible
  BY ResolvedSlashes DEF SeparatorsAreVisible, TextTyped
<1>2. QED
  BY <1>1, TextIsTyped, PTL

--------------------------------------------------------------------------------
(***************************************************************************)
(* Globs.                                                                  *)
(***************************************************************************)
Places(p, v) == (1..Len(p) + 1) \X (1..Len(v) + 1)
Runs(p, v, r) == r = [place \in Places(p, v) |-> Matched(p, v, r, place[1], place[2])]

\* How many characters of both are left.
Left(p, v) == [d \in Places(p, v) |-> (Len(p) + 1 - d[1]) + (Len(v) + 1 - d[2])]

LEMMA MatchedIsBoolean ==
  ASSUME NEW p, NEW v, NEW r, NEW i, NEW j
  PROVE  Matched(p, v, r, i, j) \in BOOLEAN
BY DEF Matched

\* g and h answer the same for what is ahead of i and j.
SameAhead(n, l, g, h, i, j) ==
  \A a \in 1..n + 1, b \in 1..l + 1 :
    (n + 1 - a) + (l + 1 - b) < (n + 1 - i) + (l + 1 - j) => g[<<a, b>>] = h[<<a, b>>]

LEMMA MatchedLooksAhead ==
  ASSUME NEW n \in Nat, NEW l \in Nat, NEW p, NEW v, Len(p) = n, Len(v) = l,
         NEW g, NEW h, NEW i \in 1..n + 1, NEW j \in 1..l + 1, SameAhead(n, l, g, h, i, j)
  PROVE  Matched(p, v, g, i, j) = Matched(p, v, h, i, j)
<1>1. \A k : At(p, k) # "end" => k <= n
  BY DEF At
<1>2. j < l + 1 => g[<<i, j + 1>>] = h[<<i, j + 1>>]
  BY DEF SameAhead
<1>3. i < n + 1 => g[<<i + 1, j>>] = h[<<i + 1, j>>]
  BY DEF SameAhead
<1>4. i < n => g[<<i + 2, j>>] = h[<<i + 2, j>>]
  BY DEF SameAhead
<1>5. i + 1 < n => g[<<i + 3, j>>] = h[<<i + 3, j>>]
  BY DEF SameAhead
<1>6. \A end \in i..n : j < l + 1 => g[<<end + 1, j + 1>>] = h[<<end + 1, j + 1>>]
  BY DEF SameAhead
<1>7. j <= l => j < l + 1
  OBVIOUS
<1>8. CASE At(p, i) = "end"
  BY <1>8 DEF Matched
<1>9. CASE At(p, i) = "*" /\ At(p, i + 1) = "*"
  <2>1. i + 1 <= n
    BY <1>1, <1>9
  <2>2. At(p, i + 2) = "/" => i + 2 <= n
    BY <1>1
  <2>3. g[<<i + 2, j>>] = h[<<i + 2, j>>]
    BY <2>1, <1>4
  <2>4. At(p, i + 2) = "/" => g[<<i + 3, j>>] = h[<<i + 3, j>>]
    BY <2>2, <1>5
  <2>5. QED
    BY <1>2, <1>7, <1>9, <2>3, <2>4 DEF Matched
<1>10. CASE At(p, i) = "*" /\ At(p, i + 1) # "*"
  <2>1. g[<<i + 1, j>>] = h[<<i + 1, j>>]
    BY <1>1, <1>3, <1>10
  <2>2. QED
    BY <1>2, <1>7, <1>10, <2>1 DEF Matched
<1>11. CASE At(p, i) \notin {"end", "*", "["}
  <2>1. i \in i..n
    BY <1>1, <1>11
  <2>2. j < l + 1 => g[<<i + 1, j + 1>>] = h[<<i + 1, j + 1>>]
    BY <1>6, <2>1
  <2>3. QED
    BY <1>7, <1>11, <2>2 DEF Matched
<1>12. CASE At(p, i) = "["
  <2>1. \A end \in i + 1..n : j <= l => g[<<end + 1, j + 1>>] = h[<<end + 1, j + 1>>]
    BY <1>6
  <2>2. QED
    BY <1>12, <2>1 DEF Matched
<1>13. QED
  BY <1>8, <1>9, <1>10, <1>11, <1>12

\* The matcher is what it says it is.
LEMMA MatchingIs ==
  ASSUME NEW C, NEW p \in Seq(C), NEW v \in Seq(C)
  PROVE  \E r : /\ glob_matches(p, v) <=> r[<<1, 1>>]
                /\ \A i \in 1..Len(p) + 1, j \in 1..Len(v) + 1 :
                     r[<<i, j>>] <=> Matched(p, v, r, i, j)
<1> DEFINE D == Places(p, v)
           n == Len(p)
           l == Len(v)
           F == [x \in D \X [D -> BOOLEAN] |-> Matched(p, v, x[2], x[1][1], x[1][2])]
<1>1. n \in Nat /\ l \in Nat
  OBVIOUS
<1>2. F \in [D \X [D -> BOOLEAN] -> BOOLEAN]
  BY MatchedIsBoolean
<1>3. Left(p, v) \in [D -> 0..n + l]
  BY <1>1 DEF Left, Places
<1>4. \A d \in D, g \in [D -> BOOLEAN] : F[<<d, g>>] = Matched(p, v, g, d[1], d[2])
  OBVIOUS
<1>5. DependsOnLess(F, D, BOOLEAN, Left(p, v))
  <2> SUFFICES ASSUME NEW d \in D, NEW g \in [D -> BOOLEAN], NEW h \in [D -> BOOLEAN],
                      \A e \in D : Left(p, v)[e] < Left(p, v)[d] => g[e] = h[e]
               PROVE  F[<<d, g>>] = F[<<d, h>>]
    BY DEF DependsOnLess
  <2>1. d[1] \in 1..n + 1 /\ d[2] \in 1..l + 1
    BY DEF Places
  <2>2. SameAhead(n, l, g, h, d[1], d[2])
    <3> SUFFICES ASSUME NEW a \in 1..n + 1, NEW b \in 1..l + 1,
                        (n + 1 - a) + (l + 1 - b) < (n + 1 - d[1]) + (l + 1 - d[2])
                 PROVE  g[<<a, b>>] = h[<<a, b>>]
      BY DEF SameAhead
    <3>1. <<a, b>> \in D
      BY DEF Places
    <3>2. Left(p, v)[<<a, b>>] = (n + 1 - a) + (l + 1 - b)
            /\ Left(p, v)[d] = (n + 1 - d[1]) + (l + 1 - d[2])
      BY <3>1 DEF Left
    <3>3. QED
      BY <3>1, <3>2
  <2>3. Len(p) = n /\ Len(v) = l
    OBVIOUS
  <2> HIDE DEF n, l
  <2>4. Matched(p, v, g, d[1], d[2]) = Matched(p, v, h, d[1], d[2])
    BY <1>1, <2>1, <2>2, <2>3, MatchedLooksAhead
  <2> HIDE DEF F
  <2>5. QED
    BY <1>4, <2>4
<1>6. PICK f \in [D -> BOOLEAN] : Solves(f, F, D)
  <2>1. n + l \in Nat
    BY <1>1
  <2> HIDE DEF D, F, n, l
  <2>2. QED
    BY <1>2, <1>3, <1>5, <2>1, Recursion
<1> HIDE DEF F
<1>7. Runs(p, v, f)
  BY <1>4, <1>6 DEF Runs, Solves
<1> DEFINE r == CHOOSE q : Runs(p, v, q)
<1>8. Runs(p, v, r)
  BY <1>7
<1>9. glob_matches(p, v) <=> r[<<1, 1>>]
  BY DEF glob_matches, Runs, Places
<1> HIDE DEF r
<1>10. \A d \in D : r[d] = Matched(p, v, r, d[1], d[2])
  BY <1>8 DEF Runs
<1>11. ASSUME NEW i \in 1..Len(p) + 1, NEW j \in 1..Len(v) + 1
       PROVE  r[<<i, j>>] <=> Matched(p, v, r, i, j)
  <2>1. <<i, j>> \in D
    BY DEF Places
  <2>2. QED
    BY <1>10, <2>1
<1>12. QED
  BY <1>9, <1>11

--------------------------------------------------------------------------------
\* As many of the first n numbers come before the first that is in T.
Before(n, T, z) ==
  /\ \A i \in 1..z : i \notin T
  /\ z < n => z + 1 \in T
  /\ Cardinality({k \in 1..n : \A i \in 1..k : i \notin T}) = z
  /\ Cardinality({k \in 1..n : \E i \in 1..k : i \in T}) = n - z

LEMMA SomeBefore ==
  ASSUME NEW n \in Nat, NEW T, T \subseteq 1..n
  PROVE  \E z \in 0..n : Before(n, T, z)
<1>1. \E z \in 0..n : (\A i \in 1..z : i \notin T) /\ (z < n => z + 1 \in T)
  <2>1. CASE T = {}
    <3>1. n \in 0..n /\ ~(n < n)
      OBVIOUS
    <3>2. QED
      BY <2>1, <3>1
  <2>2. CASE T # {}
    <3>1. PICK x \in T : \A y \in T : x <= y
      <4>1. T \subseteq Nat
        OBVIOUS
      <4>2. QED
        BY <2>2, <4>1, NatLeast
    <3>2. x - 1 \in 0..n /\ (x - 1) + 1 = x /\ \A i \in 1..x - 1 : i \notin T
      BY <3>1
    <3>3. QED
      BY <3>2
  <2>3. QED
    BY <2>1, <2>2
<1>2. PICK z \in 0..n : (\A i \in 1..z : i \notin T) /\ (z < n => z + 1 \in T)
  BY <1>1
<1>3. {k \in 1..n : \A i \in 1..k : i \notin T} = 1..z
  <2>1. ASSUME NEW k \in 1..n, k > z
        PROVE  z + 1 \in 1..k /\ z + 1 \in T
    BY <1>2, <2>1
  <2>2. \A k \in 1..z : k \in 1..n /\ \A i \in 1..k : i \in 1..z
    OBVIOUS
  <2>3. \A k \in 1..n : k > z \/ k \in 1..z
    OBVIOUS
  <2>4. QED
    BY <1>2, <2>1, <2>2, <2>3
<1>4. {k \in 1..n : \E i \in 1..k : i \in T} = z + 1..n
  <2>1. ASSUME NEW k \in z + 1..n
        PROVE  k \in 1..n /\ z + 1 \in 1..k /\ z + 1 \in T
    BY <1>2
  <2>2. ASSUME NEW k \in 1..n, k \notin z + 1..n
        PROVE  \A i \in 1..k : i \in 1..z
    BY <2>2
  <2>3. QED
    BY <1>2, <2>1, <2>2
<1>5. Cardinality(1..z) = z
  BY FS_Interval
<1>6. Cardinality(z + 1..n) = n - z
  <2>1. z + 1 \in Int /\ n \in Int
    OBVIOUS
  <2>2. Cardinality(z + 1..n) = IF z + 1 > n THEN 0 ELSE n - (z + 1) + 1
    BY <2>1, FS_Interval
  <2>3. QED
    BY <2>2
<1>7. QED
  BY <1>2, <1>3, <1>4, <1>5, <1>6 DEF Before

\* A text without its leading separators.
LEMMA Trimmed ==
  ASSUME NEW C, NEW s \in Seq(C)
  PROVE  \E z \in 0..Len(s) :
           /\ \A i \in 1..z : s[i] = "/"
           /\ z < Len(s) => s[z + 1] # "/"
           /\ trim_start(s) = SubSeq(s, z + 1, Len(s))
<1> DEFINE n == Len(s)
           T == {k \in 1..n : s[k] # "/"}
<1>1. n \in Nat /\ T \subseteq 1..n /\ DOMAIN s = 1..n
  OBVIOUS
<1>2. {k \in DOMAIN s : \E i \in 1..k : s[i] # "/"} = {k \in 1..n : \E i \in 1..k : i \in T}
  <2>1. \A k \in 1..n : \A i \in 1..k : i \in 1..n
    OBVIOUS
  <2>2. QED
    BY <1>1, <2>1
<1>3. PICK z \in 0..n : Before(n, T, z)
  <2> HIDE DEF n, T
  <2>1. QED
    BY <1>1, SomeBefore
<1>4. trim_start(s) = SubSeq(s, 1 + n - (n - z), n)
  BY <1>2, <1>3 DEF trim_start, Before
<1>5. 1 + n - (n - z) = z + 1
  OBVIOUS
<1>6. \A i \in 1..z : i \in 1..n
  OBVIOUS
<1>7. QED
  BY <1>3, <1>4, <1>5, <1>6 DEF Before

\* A set of positions has a last one.
LEMMA MaxIs ==
  ASSUME NEW n \in Nat, NEW T, T \subseteq 1..n, T # {}
  PROVE  Max(T) \in T /\ \A i \in T : i <= Max(T)
<1> DEFINE U == {n - i : i \in T}
<1>1. U \subseteq Nat /\ U # {}
  <2>1. \A i \in T : i \in 1..n
    OBVIOUS
  <2>2. \A i \in T : n - i \in Nat
    BY <2>1
  <2>3. QED
    BY <2>2
<1>2. PICK x \in U : \A y \in U : x <= y
  <2> HIDE DEF U
  <2>1. QED
    BY <1>1, NatLeast
<1>3. PICK k \in T : x = n - k
  BY <1>2
<1>4. \A i \in T : n - k <= n - i
  BY <1>2, <1>3
<1>5. \A i \in T : k >= i
  BY <1>4
<1>6. Max(T) \in T /\ \A i \in T : Max(T) >= i
  BY <1>3, <1>5 DEF Max
<1>7. QED
  BY <1>6

\* The directory a pattern is listed from.
LEMMA Root ==
  ASSUME NEW C, NEW s \in Seq(C)
  PROVE  \E m \in 0..Len(s) :
           /\ glob_root(s) = SubSeq(s, 1, m)
           /\ m > 0 => s[m] = "/"
           /\ \A i \in 1..m : s[i] \notin Wildcards
           /\ \A k \in m + 1..Len(s) : s[k] = "/" => \E i \in 1..k : s[i] \in Wildcards
<1> DEFINE n == Len(s)
           T == {k \in 1..n : s[k] \in Wildcards}
           slashes == {k \in 1..fixed(s) : s[k] = "/"}
           m == IF slashes = {} THEN 0 ELSE Max(slashes)
<1>1. n \in Nat /\ T \subseteq 1..n /\ DOMAIN s = 1..n
  OBVIOUS
<1>2. {k \in DOMAIN s : \A i \in 1..k : s[i] \notin Wildcards}
        = {k \in 1..n : \A i \in 1..k : i \notin T}
  <2>1. \A k \in 1..n : \A i \in 1..k : i \in 1..n
    OBVIOUS
  <2>2. QED
    BY <1>1, <2>1
<1>3. PICK z \in 0..n : Before(n, T, z)
  <2> HIDE DEF n, T
  <2>1. QED
    BY <1>1, SomeBefore
<1>4. fixed(s) = z
  BY <1>2, <1>3 DEF fixed, Before
<1>5. slashes \subseteq 1..z /\ z \in Nat
  BY <1>4
<1>6. slashes # {} => Max(slashes) \in slashes /\ \A i \in slashes : i <= Max(slashes)
  <2> HIDE DEF slashes
  <2>1. QED
    BY <1>5, MaxIs
<1>7. m \in 0..z /\ (m > 0 => s[m] = "/") /\ \A k \in slashes : k <= m
  <2>1. CASE slashes = {}
    BY <2>1, <1>5
  <2>2. CASE slashes # {}
    <3>1. m = Max(slashes) /\ m \in slashes
      BY <2>2, <1>6
    <3>2. QED
      BY <2>2, <1>5, <1>6, <3>1
  <2>3. QED
    BY <2>1, <2>2
<1>8. \A i \in 1..m : s[i] \notin Wildcards
  <2>1. \A i \in 1..m : i \in 1..z /\ i \in 1..n
    BY <1>7
  <2> HIDE DEF m
  <2>2. QED
    BY <1>3, <2>1 DEF Before
<1>9. ASSUME NEW k \in m + 1..n, s[k] = "/"
      PROVE  \E i \in 1..k : s[i] \in Wildcards
  <2>1. k \in 1..n /\ ~(k <= m)
    BY <1>7
  <2>2. k \notin 1..z
    BY <1>4, <1>7, <1>9, <2>1
  <2>3. z < n /\ z + 1 \in 1..k
    BY <2>1, <2>2
  <2>4. s[z + 1] \in Wildcards
    BY <1>3, <2>3 DEF Before
  <2>5. QED
    BY <2>3, <2>4
<1>10. glob_root(s) = SubSeq(s, 1, m)
  BY DEF glob_root
<1>11. m \in 0..n
  BY <1>7
<1> HIDE DEF m
<1>12. QED
  BY <1>7, <1>8, <1>9, <1>10, <1>11

\* A pattern that is trimmed, and its directory, trimmed: both lose the same separators.
LEMMA TrimmedRoot ==
  ASSUME NEW C, NEW s \in Seq(C)
  PROVE  \E m \in 0..Len(s), z \in 0..Len(s) :
           /\ z <= m
           /\ trim_start(s) = SubSeq(s, z + 1, Len(s))
           /\ glob_root(s) = SubSeq(s, 1, m)
           /\ trim_start(glob_root(s)) = SubSeq(s, z + 1, m)
           /\ m > 0 => s[m] = "/"
           /\ \A i \in 1..m : s[i] \notin Wildcards
<1> DEFINE n == Len(s)
<1>1. n \in Nat
  OBVIOUS
<1>2. PICK z \in 0..n :
        /\ \A i \in 1..z : s[i] = "/"
        /\ z < n => s[z + 1] # "/"
        /\ trim_start(s) = SubSeq(s, z + 1, n)
  BY Trimmed
<1>3. PICK m \in 0..n :
        /\ glob_root(s) = SubSeq(s, 1, m)
        /\ m > 0 => s[m] = "/"
        /\ \A i \in 1..m : s[i] \notin Wildcards
        /\ \A k \in m + 1..n : s[k] = "/" => \E i \in 1..k : s[i] \in Wildcards
  BY Root
<1>4. z <= m
  <2> SUFFICES ASSUME z > m PROVE FALSE
    OBVIOUS
  <2>1. z \in m + 1..n /\ z \in 1..z
    OBVIOUS
  <2>2. PICK i \in 1..z : s[i] \in Wildcards
    BY <1>2, <1>3, <2>1
  <2>3. s[i] = "/"
    BY <1>2
  <2>4. QED
    BY <2>2, <2>3 DEF Wildcards
<1> DEFINE r == SubSeq(s, 1, m)
<1>5. r \in Seq(C) /\ Len(r) = m /\ \A i \in 1..m : r[i] = s[i]
  <2>1. r \in Seq(C)
    BY <1>3
  <2>2. QED
    BY <1>1, <2>1
<1>6. PICK y \in 0..m :
        /\ \A i \in 1..y : r[i] = "/"
        /\ y < m => r[y + 1] # "/"
        /\ trim_start(r) = SubSeq(r, y + 1, m)
  <2> HIDE DEF r
  <2>1. QED
    BY <1>5, Trimmed
<1>7. y = z
  <2>1. CASE y < z
    <3>1. y < m /\ y + 1 \in 1..z /\ y + 1 \in 1..m
      BY <1>4, <2>1
    <3> HIDE DEF r
    <3>2. QED
      BY <1>2, <1>5, <1>6, <3>1
  <2>2. CASE y > z
    <3>1. z < n /\ z + 1 \in 1..y /\ z + 1 \in 1..m
      BY <2>2
    <3> HIDE DEF r
    <3>2. QED
      BY <1>2, <1>5, <1>6, <3>1
  <2>3. QED
    BY <2>1, <2>2
<1>8. SubSeq(r, z + 1, m) = SubSeq(s, z + 1, m)
  <2> DEFINE a == SubSeq(r, z + 1, m)
             b == SubSeq(s, z + 1, m)
  <2>1. b \in Seq(C) /\ Len(b) = m - z /\ \A i \in 1..m - z : b[i] = s[z + i]
    BY <1>1, <1>4
  <2> HIDE DEF r
  <2>2. a \in Seq(C) /\ Len(a) = m - z /\ \A i \in 1..m - z : a[i] = r[z + i]
    BY <1>4, <1>5
  <2>3. \A i \in 1..m - z : z + i \in 1..m
    BY <1>4
  <2>4. \A i \in 1..m - z : a[i] = b[i]
    BY <1>5, <2>1, <2>2, <2>3
  <2> HIDE DEF a, b
  <2>5. a = b
    BY <2>1, <2>2, <2>4, SeqEqual
  <2>6. QED
    BY <2>5 DEF a, b
<1>9. trim_start(glob_root(s)) = SubSeq(s, z + 1, m)
  BY <1>3, <1>6, <1>7, <1>8
<1> HIDE DEF r
<1>10. QED
  BY <1>2, <1>3, <1>4, <1>9

--------------------------------------------------------------------------------
\* r answers for every place as the matcher does.
Answers(p, v, r) ==
  \A i \in 1..Len(p) + 1, j \in 1..Len(v) + 1 : r[<<i, j>>] <=> Matched(p, v, r, i, j)

LEMMA AtIs ==
  ASSUME NEW C, "end" \notin C, NEW p \in Seq(C)
  PROVE  /\ \A i \in 1..Len(p) : At(p, i) = p[i] /\ At(p, i) # "end"
         /\ \A i \in Nat : At(p, i) # "end" => i <= Len(p)
BY DEF At

\* A value that matches begins with what comes before the first wildcard.
LEMMA LiteralsMatch ==
  ASSUME NEW C, "end" \notin C, NEW p \in Seq(C), NEW V, NEW v \in Seq(V),
         NEW r, Answers(p, v, r), r[<<1, 1>>],
         NEW w \in 0..Len(p), \A i \in 1..w : p[i] \notin Wildcards
  PROVE  w <= Len(v) /\ r[<<w + 1, w + 1>>] /\ \A i \in 1..w : v[i] = p[i]
<1> DEFINE T == {k \in 0..w : k <= Len(v) /\ r[<<k + 1, k + 1>>] /\ \A i \in 1..k : v[i] = p[i]}
<1>1. Len(p) \in Nat /\ Len(v) \in Nat /\ w \in Nat
  OBVIOUS
<1>2. 0 \in T
  BY <1>1
<1>3. ASSUME NEW k \in 0..w, k < w, k \in T
      PROVE  k + 1 \in T
  <2>1. k + 1 \in 1..w /\ k + 1 \in 1..Len(p) + 1 /\ k + 1 \in 1..Len(v) + 1 /\ k + 1 \in 1..Len(p)
    BY <1>1, <1>3
  <2>2. Matched(p, v, r, k + 1, k + 1)
    BY <1>3, <2>1 DEF Answers
  <2>3. At(p, k + 1) = p[k + 1] /\ At(p, k + 1) \notin {"end", "*", "?", "["}
    BY <2>1, AtIs DEF Wildcards
  <2>4. k + 1 <= Len(v) /\ p[k + 1] = v[k + 1] /\ r[<<(k + 1) + 1, (k + 1) + 1>>]
    BY <2>2, <2>3 DEF Matched
  <2>5. \A i \in 1..k + 1 : i \in 1..k \/ i = k + 1
    BY <2>1
  <2>6. \A i \in 1..k + 1 : v[i] = p[i]
    BY <1>3, <2>4, <2>5
  <2>7. k + 1 \in 0..w
    BY <2>1
  <2>8. QED
    BY <2>4, <2>6, <2>7
<1>4. w \in T
  <2> HIDE DEF T
  <2>1. 0..w \subseteq T
    BY <1>1, <1>2, <1>3, UpTo
  <2>2. QED
    BY <1>1, <2>1
<1>5. QED
  BY <1>4

\* What matches a rest of the pattern without "/" and "**" has no separator.
LEMMA OneLevel ==
  ASSUME NEW C, "end" \notin C, NEW p \in Seq(C), NEW V, NEW v \in Seq(V),
         NEW r, Answers(p, v, r),
         NEW first \in 1..Len(p) + 1,
         \A k \in first..Len(p) : p[k] # "/",
         \A k \in first..Len(p) - 1 : ~(p[k] = "*" /\ p[k + 1] = "*"),
         NEW start \in 1..Len(v) + 1, r[<<first, start>>]
  PROVE  \A k \in start..Len(v) : v[k] # "/"
<1> DEFINE n == Len(p)
           l == Len(v)
           Flat(j) == \A k \in j..l : v[k] # "/"
           Holds(i, j) == r[<<i, j>>] => Flat(j)
           T == {t \in 0..n + l : \A i \in first..n + 1, j \in 1..l + 1 :
                                    (n + 1 - i) + (l + 1 - j) <= t => Holds(i, j)}
<1>1. n \in Nat /\ l \in Nat /\ n + l \in Nat
  OBVIOUS
<1>2. ASSUME NEW i \in first..n + 1, NEW j \in 1..l + 1, r[<<i, j>>],
             \A a \in first..n + 1, b \in 1..l + 1 :
               (n + 1 - a) + (l + 1 - b) < (n + 1 - i) + (l + 1 - j) => Holds(a, b)
      PROVE  Flat(j)
  <2>1. i \in 1..n + 1 /\ i \in Nat /\ i + 1 \in Nat
    BY <1>1
  <2>2. Matched(p, v, r, i, j)
    BY <1>2, <2>1 DEF Answers
  <2> DEFINE more == j <= l
             name == more /\ v[j] # "/"
  <2>3. \A k \in Nat : At(p, k) # "end" => k <= n
    BY AtIs
  <2>4. \A k \in 1..n : At(p, k) = p[k]
    BY AtIs
  <2>5. name /\ Flat(j + 1) => Flat(j)
    <3>1. \A k \in j..l : k = j \/ k \in j + 1..l
      OBVIOUS
    <3>2. QED
      BY <3>1
  <2>6. ASSUME name, NEW a \in i..n, r[<<a + 1, j + 1>>]
        PROVE  Flat(j)
    <3>1. a + 1 \in first..n + 1 /\ j + 1 \in 1..l + 1
            /\ (n + 1 - (a + 1)) + (l + 1 - (j + 1)) < (n + 1 - i) + (l + 1 - j)
      BY <1>1, <2>6
    <3>2. Flat(j + 1)
      BY <1>2, <2>6, <3>1
    <3>3. QED
      BY <2>5, <2>6, <3>2
  <2>7. CASE At(p, i) = "end"
    <3>1. ~more
      BY <2>2, <2>7 DEF Matched
    <3>2. QED
      BY <1>1, <3>1
  <2>8. CASE At(p, i) = "*" /\ At(p, i + 1) = "*"
    <3>1. i + 1 <= n
      BY <2>1, <2>3, <2>8
    <3>2. i \in first..n - 1 /\ i \in 1..n /\ i + 1 \in 1..n
      BY <1>1, <2>1, <3>1
    <3>3. QED
      BY <2>4, <2>8, <3>2
  <2>9. CASE At(p, i) = "*" /\ At(p, i + 1) # "*"
    <3>1. r[<<i + 1, j>>] \/ (name /\ r[<<i, j + 1>>])
      BY <2>2, <2>9 DEF Matched
    <3>2. i <= n
      BY <2>1, <2>3, <2>9
    <3>3. ASSUME r[<<i + 1, j>>]
          PROVE  Flat(j)
      <4>1. i + 1 \in first..n + 1
              /\ (n + 1 - (i + 1)) + (l + 1 - j) < (n + 1 - i) + (l + 1 - j)
        BY <1>1, <3>2
      <4>2. QED
        BY <1>2, <3>3, <4>1
    <3>4. ASSUME name, r[<<i, j + 1>>]
          PROVE  Flat(j)
      <4>1. j + 1 \in 1..l + 1 /\ (n + 1 - i) + (l + 1 - (j + 1)) < (n + 1 - i) + (l + 1 - j)
        BY <1>1, <3>4
      <4>2. Flat(j + 1)
        BY <1>2, <3>4, <4>1
      <4>3. QED
        BY <2>5, <3>4, <4>2
    <3>5. QED
      BY <3>1, <3>3, <3>4
  <2>10. CASE At(p, i) = "?"
    <3>1. name /\ r[<<i + 1, j + 1>>]
      BY <2>2, <2>10 DEF Matched
    <3>2. i \in i..n
      BY <2>1, <2>3, <2>10
    <3>3. QED
      BY <2>6, <3>1, <3>2
  <2>11. CASE At(p, i) = "["
    <3>1. PICK end \in i + 1..n : name /\ r[<<end + 1, j + 1>>]
      BY <2>2, <2>11 DEF Matched
    <3>2. end \in i..n
      OBVIOUS
    <3>3. QED
      BY <2>6, <3>1, <3>2
  <2>12. CASE At(p, i) \notin {"end", "*", "?", "["}
    <3>1. more /\ At(p, i) = v[j] /\ r[<<i + 1, j + 1>>]
      BY <2>2, <2>12 DEF Matched
    <3>2. i \in i..n /\ i \in first..n /\ i \in 1..n
      BY <2>1, <2>3, <2>12
    <3>3. v[j] # "/"
      BY <2>4, <3>1, <3>2
    <3>4. QED
      BY <2>6, <3>1, <3>2, <3>3
  <2>13. QED
    BY <2>7, <2>8, <2>9, <2>10, <2>11, <2>12
<1>3. 0 \in T
  <2>1. \A i \in first..n + 1, j \in 1..l + 1 :
          /\ 0 <= (n + 1 - i) + (l + 1 - j)
          /\ \A a \in first..n + 1, b \in 1..l + 1 :
               (n + 1 - i) + (l + 1 - j) <= 0 =>
                 ~((n + 1 - a) + (l + 1 - b) < (n + 1 - i) + (l + 1 - j))
    BY <1>1
  <2> HIDE DEF Flat
  <2>2. 0 \in 0..n + l
    BY <1>1
  <2>3. QED
    BY <1>2, <2>1, <2>2
<1>4. ASSUME NEW t \in 0..n + l, t < n + l, t \in T
      PROVE  t + 1 \in T
  <2>1. t + 1 \in 0..n + l
    BY <1>1, <1>4
  <2>2. ASSUME NEW i \in first..n + 1, NEW j \in 1..l + 1, (n + 1 - i) + (l + 1 - j) <= t + 1
        PROVE  Holds(i, j)
    <3>1. \A a \in first..n + 1, b \in 1..l + 1 :
            (n + 1 - a) + (l + 1 - b) < (n + 1 - i) + (l + 1 - j)
              => (n + 1 - a) + (l + 1 - b) <= t
      BY <1>1, <2>2
    <3>2. \A a \in first..n + 1, b \in 1..l + 1 :
            (n + 1 - a) + (l + 1 - b) <= t => Holds(a, b)
      BY <1>4
    <3> HIDE DEF Flat
    <3>3. QED
      BY <1>2, <3>1, <3>2
  <2> HIDE DEF Holds
  <2>3. QED
    BY <2>1, <2>2
<1>5. 0..n + l \subseteq T
  <2> HIDE DEF T, n, l
  <2>1. QED
    BY <1>1, <1>3, <1>4, UpTo
<1>6. Holds(first, start)
  <2>1. n + l \in T
    <3> HIDE DEF T, n, l
    <3>1. QED
      BY <1>1, <1>5
  <2>2. first \in first..n + 1 /\ (n + 1 - first) + (l + 1 - start) <= n + l
    BY <1>1
  <2> HIDE DEF Holds
  <2>3. QED
    BY <2>1, <2>2
<1>7. QED
  BY <1>6

\* A file that matches is in the listing of the pattern's directory, of that directory alone
\* wherever the pattern is not listed recursively.
LEMMA MatchesAreListed ==
  ASSUME NEW C, "end" \notin C, NEW s \in Seq(C), NEW V, NEW v \in Seq(V),
         v # <<>>, Last(v) # "/", glob_matches(trim_start(s), v)
  PROVE  Lists(glob_root(s), TRUE, v) /\ Lists(glob_root(s), glob_recursive(s), v)
<1> DEFINE n == Len(s)
           l == Len(v)
           p == trim_start(s)
           q == trim_start(glob_root(s))
           rest == SubSeq(v, Len(q) + 1, l)
<1>1. n \in Nat /\ l \in Nat /\ l > 0
  OBVIOUS
<1>2. PICK m \in 0..n, z \in 0..n :
        /\ z <= m
        /\ p = SubSeq(s, z + 1, n)
        /\ glob_root(s) = SubSeq(s, 1, m)
        /\ q = SubSeq(s, z + 1, m)
        /\ m > 0 => s[m] = "/"
        /\ \A i \in 1..m : s[i] \notin Wildcards
  BY TrimmedRoot
<1> DEFINE w == m - z
<1>3. w \in Nat /\ w <= n - z /\ z + w = m
  BY <1>1, <1>2
<1>4. p \in Seq(C) /\ Len(p) = n - z /\ \A i \in 1..n - z : p[i] = s[z + i]
  <2> HIDE DEF p
  <2>1. QED
    BY <1>1, <1>2
<1>5. q \in Seq(C) /\ Len(q) = w /\ \A i \in 1..w : q[i] = s[z + i]
  <2> HIDE DEF q
  <2>1. QED
    BY <1>1, <1>2
<1> HIDE DEF p, q
<1>6. PICK r : Answers(p, v, r) /\ r[<<1, 1>>]
  <2> DEFINE D == C \cup V
  <2>1. p \in Seq(D) /\ v \in Seq(D)
    BY <1>4
  <2> HIDE DEF D
  <2>2. glob_matches(p, v)
    BY DEF p
  <2>3. QED
    BY <2>1, <2>2, MatchingIs DEF Answers
<1>7. w <= l /\ r[<<w + 1, w + 1>>] /\ \A i \in 1..w : v[i] = p[i]
  <2>1. \A i \in 1..w : p[i] \notin Wildcards
    <3>1. \A i \in 1..w : i \in 1..n - z /\ z + i \in 1..m
      BY <1>1, <1>3
    <3>2. QED
      BY <1>2, <1>4, <3>1
  <2>2. w \in 0..Len(p)
    BY <1>3, <1>4
  <2> HIDE DEF w
  <2>3. QED
    BY <1>4, <1>6, <2>1, <2>2, LiteralsMatch
<1>8. IsPrefix(q, v)
  <2> HIDE DEF w
  <2>1. SubSeq(q, 1, w) \in Seq(C \cup V) /\ Len(SubSeq(q, 1, w)) = w
          /\ \A i \in 1..w : SubSeq(q, 1, w)[i] = q[i]
    <3>1. q \in Seq(C \cup V)
      BY <1>5
    <3>2. QED
      BY <1>3, <1>5, <3>1
  <2>2. SubSeq(v, 1, w) \in Seq(C \cup V) /\ Len(SubSeq(v, 1, w)) = w
          /\ \A i \in 1..w : SubSeq(v, 1, w)[i] = v[i]
    <3>1. v \in Seq(C \cup V)
      OBVIOUS
    <3>2. QED
      BY <1>1, <1>3, <1>7, <3>1
  <2>3. \A i \in 1..w : v[i] = q[i]
    <3>1. \A i \in 1..w : i \in 1..n - z
      BY <1>1, <1>3
    <3>2. QED
      BY <1>4, <1>5, <1>7, <3>1
  <2>4. SubSeq(q, 1, w) = SubSeq(v, 1, w)
    <3> DEFINE a == SubSeq(q, 1, w)
               b == SubSeq(v, 1, w)
               D == C \cup V
    <3>1. a \in Seq(D) /\ b \in Seq(D) /\ Len(a) = Len(b) /\ \A i \in 1..Len(a) : a[i] = b[i]
      BY <2>1, <2>2, <2>3
    <3> HIDE DEF a, b, D
    <3>2. a = b
      BY <3>1, SeqEqual
    <3>3. QED
      BY <3>2 DEF a, b
  <2>5. QED
    BY <1>5, <1>7, <2>4 DEF IsPrefix
<1>9. rest \in Seq(V) /\ Len(rest) = l - w /\ DOMAIN rest = 1..l - w
        /\ \A k \in 1..l - w : rest[k] = v[w + k]
  <2> HIDE DEF w
  <2>1. rest = SubSeq(v, w + 1, l)
    BY <1>5
  <2>2. SubSeq(v, w + 1, l) \in Seq(V) /\ Len(SubSeq(v, w + 1, l)) = l - w
          /\ \A k \in 1..l - w : SubSeq(v, w + 1, l)[k] = v[w + k]
    BY <1>1, <1>3, <1>7
  <2> HIDE DEF rest
  <2>3. QED
    BY <2>1, <2>2
<1> HIDE DEF rest
<1>10. rest # <<>>
  <2>1. w < l
    <3>1. CASE w = 0
      BY <1>1, <3>1
    <3>2. CASE w > 0
      <4>1. w \in 1..w /\ w \in 1..n - z /\ m > 0
        BY <1>1, <1>2, <1>3, <3>2
      <4>2. v[w] = "/"
        BY <1>2, <1>3, <1>4, <1>7, <4>1
      <4>3. v[l] # "/"
        BY DEF Last
      <4>4. QED
        BY <1>1, <1>3, <1>7, <4>2, <4>3
    <3>3. QED
      BY <1>3, <3>1, <3>2
  <2>2. Len(rest) > 0
    BY <1>1, <1>3, <1>9, <2>1
  <2>3. QED
    BY <2>2
<1>11. ASSUME ~glob_recursive(s)
       PROVE  \A k \in DOMAIN rest : rest[k] # "/"
  <2> DEFINE tail == SubSeq(s, m + 1, n)
  <2>1. Len(SubSeq(s, 1, m)) = m
    BY <1>1
  <2>2. tail \in Seq(C) /\ Len(tail) = n - m /\ DOMAIN tail = 1..n - m
          /\ \A k \in 1..n - m : tail[k] = s[m + k]
    BY <1>1
  <2> HIDE DEF tail
  <2>3. /\ \A k \in DOMAIN tail : tail[k] # "/"
        /\ \A k \in 1..Len(tail) - 1 : ~(tail[k] = "*" /\ tail[k + 1] = "*")
    BY <1>2, <1>11, <2>1 DEF glob_recursive, tail
  <2>4. \A k \in w + 1..n - z : /\ k - w \in 1..n - m /\ m + (k - w) = z + k
                               /\ k \in 1..n - z
    BY <1>1, <1>2
  <2>5. \A k \in w + 1..n - z : p[k] = tail[k - w]
    BY <1>4, <2>2, <2>4
  <2>6. \A k \in w + 1..Len(p) : p[k] # "/"
    <3>1. \A k \in 1..n - m : tail[k] # "/"
      BY <2>2, <2>3
    <3> HIDE DEF w
    <3>2. \A k \in w + 1..n - z : p[k] # "/"
      BY <2>4, <2>5, <3>1
    <3>3. QED
      BY <1>4, <3>2
  <2>7. \A k \in w + 1..Len(p) - 1 : ~(p[k] = "*" /\ p[k + 1] = "*")
    <3> SUFFICES ASSUME NEW k \in w + 1..Len(p) - 1
                 PROVE  ~(p[k] = "*" /\ p[k + 1] = "*")
      OBVIOUS
    <3>1. k \in w + 1..n - z /\ k + 1 \in w + 1..n - z /\ (k + 1) - w = (k - w) + 1
            /\ k - w \in 1..Len(tail) - 1
      BY <1>1, <1>2, <1>4, <2>2
    <3>2. QED
      BY <2>3, <2>5, <3>1
  <2>8. w + 1 \in 1..Len(p) + 1 /\ w + 1 \in 1..Len(v) + 1
    BY <1>1, <1>3, <1>4, <1>7
  <2> DEFINE next == w + 1
  <2> HIDE DEF next
  <2>9. \A k \in next..Len(v) : v[k] # "/"
    <3>1. /\ next \in 1..Len(p) + 1 /\ next \in 1..Len(v) + 1
          /\ \A k \in next..Len(p) : p[k] # "/"
          /\ \A k \in next..Len(p) - 1 : ~(p[k] = "*" /\ p[k + 1] = "*")
          /\ r[<<next, next>>]
      BY <1>7, <2>6, <2>7, <2>8 DEF next
    <3>2. QED
      BY <1>4, <1>6, <3>1, OneLevel
  <2>10. \A k \in 1..l - w : w + k \in next..l
    BY <1>1, <1>3 DEF next
  <2>11. QED
    BY <1>9, <2>9, <2>10
<1>12. QED
  BY <1>8, <1>10, <1>11 DEF Lists, q, rest

--------------------------------------------------------------------------------
\* The characters of the patterns and of the values.
GlobCharacters == UNION {Range(t) : t \in PatternTokens}
GlobTyped == glob \in Seq(GlobCharacters)

LEMMA PatternTokensAreTexts ==
  /\ \A t \in PatternTokens : t \in Seq(GlobCharacters)
  /\ "end" \notin GlobCharacters
<1>1. ASSUME NEW t \in PatternTokens
      PROVE  t \in Seq(GlobCharacters)
  <2>1. t \in Seq(Range(t)) /\ Range(t) \subseteq GlobCharacters
    BY GlobAssumption DEF GlobCharacters
  <2>2. QED
    BY <2>1
<1>2. "end" \notin GlobCharacters
  BY GlobAssumption DEF GlobCharacters
<1>3. QED
  BY <1>1, <1>2

\* The words are the texts that are not too long.
LEMMA WordsAre == \A w : w \in Words <=> w \in Seq(Alphabet) /\ Len(w) <= MaxLength
<1>1. ASSUME NEW w \in Words
      PROVE  w \in Seq(Alphabet) /\ Len(w) <= MaxLength
  <2>1. PICK m \in 0..MaxLength : w \in [1..m -> Alphabet]
    BY DEF Words, BoundedSeq, SeqOf
  <2>2. QED
    BY <2>1, GlobAssumption
<1>2. ASSUME NEW w \in Seq(Alphabet), Len(w) <= MaxLength
      PROVE  w \in Words
  <2>1. Len(w) \in 0..MaxLength /\ w \in [1..Len(w) -> Alphabet]
    BY <1>2, GlobAssumption
  <2>2. QED
    BY <2>1 DEF Words, BoundedSeq, SeqOf
<1>3. QED
  BY <1>1, <1>2

LEMMA PatternIsTyped == Spec => []GlobTyped
<1>1. Init => GlobTyped
  BY DEF Init, NoPattern, GlobTyped
<1>2. \A t \in PatternTokens : t \in Seq(GlobCharacters)
  BY PatternTokensAreTexts
<1>3. ASSUME GlobTyped, [Next]_vars
      PROVE  GlobTyped'
  <2>1. CASE MorePattern
    <3>1. PICK t \in PatternTokens : glob' = glob \o t
      BY <2>1 DEF MorePattern
    <3>2. QED
      BY <1>2, <1>3, <3>1 DEF GlobTyped
  <2>2. CASE UNCHANGED glob
    BY <1>3, <2>2 DEF GlobTyped
  <2>3. QED
    BY <1>3, <2>1, <2>2 DEF Next, vars
<1>4. QED
  BY <1>1, <1>3, PTL DEF Spec

\* Whatever pattern: every file that matches is in the listing that Glob asks the service for, and
\* in the recursive one of opendal_ls and opendal_du, so that all three find the same files.
THEOREM NoMatchIsLost == Spec => []ListingLosesNothing
<1>1. GlobTyped => ListingLosesNothing
  <2> SUFFICES ASSUME GlobTyped
               PROVE  LET matching == {f \in Files : glob_matches(trim_start(glob), f)}
                      IN Glob(glob, Files) = matching /\ LsGlob(glob, Files) = matching
    BY DEF ListingLosesNothing
  <2>1. ASSUME NEW f \in Files, glob_matches(trim_start(glob), f)
        PROVE  Lists(glob_root(glob), TRUE, f) /\ Lists(glob_root(glob), glob_recursive(glob), f)
    <3>1. f \in Seq(Alphabet) /\ f # <<>> /\ Last(f) # "/"
      BY WordsAre DEF Files
    <3>2. QED
      BY <2>1, <3>1, PatternTokensAreTexts, MatchesAreListed DEF GlobTyped
  <2>2. QED
    BY <2>1 DEF Glob, LsGlob
<1>2. QED
  BY <1>1, PatternIsTyped, PTL

--------------------------------------------------------------------------------
\* What the loop over a bracket answers at its k-th character, by the answers of hit.
Hit(class, c, hit, k) ==
  IF k > Len(class) THEN FALSE
  ELSE IF k + 2 <= Len(class) /\ class[k + 1] = "-"
    THEN Code(c) \in Code(class[k])..Code(class[k + 2]) \/ hit[k + 3]
    ELSE class[k] = c \/ hit[k + 1]

Hits(class, c, hit) == hit = [k \in 1..Len(class) + 3 |-> Hit(class, c, hit, k)]

LEMMA HitsAre ==
  ASSUME NEW C, NEW class \in Seq(C), NEW c
  PROVE  /\ ClassHas(class, c) \in BOOLEAN
         /\ \E hit : /\ ClassHas(class, c) <=> hit[1]
                     /\ \A k \in 1..Len(class) + 3 : hit[k] <=> Hit(class, c, hit, k)
<1> DEFINE n == Len(class)
           D == 1..n + 3
           F == [x \in D \X [D -> BOOLEAN] |-> Hit(class, c, x[2], x[1])]
           m == [k \in D |-> n + 3 - k]
<1>1. n \in Nat
  OBVIOUS
<1>2. \A hit, k : Hit(class, c, hit, k) \in BOOLEAN
  BY DEF Hit
<1>3. F \in [D \X [D -> BOOLEAN] -> BOOLEAN]
  BY <1>2
<1>4. m \in [D -> 0..n + 3]
  BY <1>1
<1>5. \A d \in D, g \in [D -> BOOLEAN] : F[<<d, g>>] = Hit(class, c, g, d)
  OBVIOUS
<1>6. DependsOnLess(F, D, BOOLEAN, m)
  <2> SUFFICES ASSUME NEW d \in D, NEW g \in [D -> BOOLEAN], NEW h \in [D -> BOOLEAN],
                      \A e \in D : m[e] < m[d] => g[e] = h[e]
               PROVE  F[<<d, g>>] = F[<<d, h>>]
    BY DEF DependsOnLess
  <2>1. d <= n => g[d + 1] = h[d + 1]
    BY <1>1
  <2>2. ASSUME d + 2 <= n
        PROVE  g[d + 3] = h[d + 3]
    <3>1. d + 3 \in D /\ n + 3 - (d + 3) < n + 3 - d
      BY <1>1, <2>2
    <3>2. m[d + 3] < m[d]
      BY <3>1
    <3> HIDE DEF D, m
    <3>3. QED
      BY <3>1, <3>2
  <2>3. Hit(class, c, g, d) = Hit(class, c, h, d)
    <3>1. CASE d > n
      BY <3>1 DEF Hit
    <3>2. CASE d <= n /\ d + 2 <= n /\ class[d + 1] = "-"
      BY <1>1, <2>2, <3>2 DEF Hit
    <3>3. CASE d <= n /\ ~(d + 2 <= n /\ class[d + 1] = "-")
      BY <1>1, <2>1, <3>3 DEF Hit
    <3>4. QED
      BY <1>1, <3>1, <3>2, <3>3
  <2> HIDE DEF F
  <2>4. QED
    BY <1>5, <2>3
<1>7. PICK f \in [D -> BOOLEAN] : Solves(f, F, D)
  <2>1. n + 3 \in Nat
    BY <1>1
  <2> DEFINE top == n + 3
  <2> HIDE DEF D, F, m, top
  <2>2. top \in Nat /\ m \in [D -> 0..top]
    BY <1>4, <2>1 DEF top
  <2>3. QED
    BY <1>3, <1>6, <2>2, Recursion
<1> HIDE DEF F
<1>8. Hits(class, c, f)
  BY <1>5, <1>7 DEF Hits, Solves
<1> DEFINE r == CHOOSE q : Hits(class, c, q)
<1>9. Hits(class, c, r)
  BY <1>8
<1>10. ClassHas(class, c) = r[1]
  BY DEF ClassHas, Hits, Hit
<1> HIDE DEF r
<1>11. \A k \in D : r[k] = Hit(class, c, r, k)
  BY <1>9 DEF Hits
<1>12. r[1] \in BOOLEAN
  <2>1. 1 \in D
    BY <1>1
  <2>2. QED
    BY <1>2, <1>11, <2>1
<1>13. QED
  BY <1>10, <1>11, <1>12

\* A bracket has the characters it names.
LEMMA ClassHasMembers ==
  ASSUME NEW C, NEW class \in Seq(C), IsRange(class) \/ Single(class), NEW c \in Alphabet
  PROVE  ClassHas(class, c) <=> c \in Members(class)
<1> DEFINE n == Len(class)
<1>1. n \in Nat
  OBVIOUS
<1>2. PICK hit : /\ ClassHas(class, c) <=> hit[1]
                 /\ \A k \in 1..n + 3 : hit[k] <=> Hit(class, c, hit, k)
  BY HitsAre
<1>3. CASE IsRange(class)
  <2>1. n = 3 /\ class[2] = "-"
    BY <1>3 DEF IsRange
  <2>2. hit[1] <=> Code(c) \in Code(class[1])..Code(class[3]) \/ hit[4]
    BY <1>2, <2>1 DEF Hit
  <2>3. ~hit[4]
    BY <1>2, <2>1 DEF Hit
  <2>4. QED
    BY <1>2, <1>3, <2>2, <2>3 DEF Members
<1>4. CASE ~IsRange(class)
  <2>1. \A k \in 1..n : ~(k + 2 <= n /\ class[k + 1] = "-")
    BY <1>1, <1>4 DEF Single
  <2>2. \A k \in 1..n : hit[k] <=> class[k] = c \/ hit[k + 1]
    BY <1>1, <1>2, <2>1 DEF Hit
  <2>3. ~hit[n + 1]
    BY <1>1, <1>2 DEF Hit
  <2> DEFINE T == {t \in 0..n : hit[n + 1 - t] <=> \E k \in n + 1 - t..n : class[k] = c}
  <2>4. 0 \in T
    <3>1. n + 1 - 0 = n + 1 /\ n + 1..n = {} /\ 0 \in 0..n
      BY <1>1
    <3>2. QED
      BY <2>3, <3>1
  <2>5. ASSUME NEW t \in 0..n, t < n, t \in T
        PROVE  t + 1 \in T
    <3> DEFINE k == n + 1 - (t + 1)
    <3>1. k \in 1..n /\ k + 1 = n + 1 - t /\ t + 1 \in 0..n
      BY <1>1, <2>5
    <3>2. \A i \in k..n : i = k \/ i \in k + 1..n
      BY <3>1
    <3>3. \A i \in k + 1..n : i \in k..n
      BY <3>1
    <3>4. hit[k + 1] <=> \E i \in k + 1..n : class[i] = c
      BY <2>5, <3>1
    <3> HIDE DEF k
    <3>5. k \in k..n
      BY <1>1, <3>1
    <3>6. hit[k] <=> \E i \in k..n : class[i] = c
      BY <2>2, <3>1, <3>2, <3>3, <3>4, <3>5
    <3>7. QED
      BY <3>1, <3>6 DEF k
  <2>6. n \in T
    <3> HIDE DEF T, n
    <3>1. 0..n \subseteq T
      BY <1>1, <2>4, <2>5, UpTo
    <3>2. QED
      BY <1>1, <3>1
  <2>7. n + 1 - n = 1 /\ DOMAIN class = 1..n
    BY <1>1
  <2>8. hit[1] <=> \E k \in 1..n : class[k] = c
    BY <2>6, <2>7
  <2>9. QED
    BY <1>2, <1>4, <2>7, <2>8 DEF Members, Range
<1>5. QED
  BY <1>3, <1>4

\* What is in A is in B already, or may be skipped and the next one is in A.
Skips(l, A, B, K) ==
  \A j \in 1..l + 1 : j \in A <=> j \in B \/ (j <= l /\ j \in K /\ j + 1 \in A)

\* B can be reached from j over what may be skipped.
Leads(l, B, K, j) == \E e \in j..l + 1 : e \in B /\ \A q \in j..e - 1 : q \in K

LEMMA Skipping ==
  ASSUME NEW l \in Nat, NEW A, NEW B, NEW K, Skips(l, A, B, K), NEW start \in 1..l + 1
  PROVE  start \in A <=> Leads(l, B, K, start)
<1> DEFINE Reaches(j) == \E e \in j..l + 1 : e \in B /\ \A q \in j..e - 1 : q \in K
           T == {t \in 0..l : l + 1 - t \in A <=> Reaches(l + 1 - t)}
<1>1. ASSUME NEW j \in 1..l + 1
      PROVE  Reaches(j) <=> j \in B \/ (j <= l /\ j \in K /\ Reaches(j + 1))
  <2>1. ASSUME Reaches(j)
        PROVE  j \in B \/ (j <= l /\ j \in K /\ Reaches(j + 1))
    <3>1. PICK e \in j..l + 1 : e \in B /\ \A q \in j..e - 1 : q \in K
      BY <2>1
    <3>2. CASE e = j
      BY <3>1, <3>2
    <3>3. CASE e # j
      <4>1. e \in j + 1..l + 1 /\ j \in j..e - 1 /\ j <= l /\ \A q \in j + 1..e - 1 : q \in j..e - 1
        BY <3>3
      <4>2. QED
        BY <3>1, <4>1
    <3>4. QED
      BY <3>2, <3>3
  <2>2. ASSUME j \in B
        PROVE  Reaches(j)
    <3>1. j \in j..l + 1 /\ j..j - 1 = {}
      OBVIOUS
    <3>2. QED
      BY <2>2, <3>1
  <2>3. ASSUME j <= l, j \in K, Reaches(j + 1)
        PROVE  Reaches(j)
    <3>1. PICK e \in j + 1..l + 1 : e \in B /\ \A q \in j + 1..e - 1 : q \in K
      BY <2>3
    <3>2. e \in j..l + 1 /\ \A q \in j..e - 1 : q = j \/ q \in j + 1..e - 1
      OBVIOUS
    <3>3. QED
      BY <2>3, <3>1, <3>2
  <2> HIDE DEF Reaches
  <2>4. QED
    BY <2>1, <2>2, <2>3
<1>2. 0 \in T
  <2>1. l + 1 - 0 = l + 1 /\ l + 1 \in 1..l + 1 /\ ~(l + 1 <= l) /\ 0 \in 0..l
    OBVIOUS
  <2> HIDE DEF Reaches
  <2>2. QED
    BY <1>1, <2>1 DEF Skips
<1>3. ASSUME NEW t \in 0..l, t < l, t \in T
      PROVE  t + 1 \in T
  <2> DEFINE j == l + 1 - (t + 1)
  <2>1. j \in 1..l + 1 /\ j + 1 = l + 1 - t /\ t + 1 \in 0..l
    BY <1>3
  <2> HIDE DEF Reaches
  <2>2. j + 1 \in A <=> Reaches(j + 1)
    BY <1>3, <2>1
  <2> HIDE DEF j
  <2>3. j \in A <=> Reaches(j)
    BY <1>1, <2>1, <2>2 DEF Skips
  <2>4. QED
    BY <2>1, <2>3 DEF j
<1>4. 0..l \subseteq T
  <2> HIDE DEF T
  <2>1. QED
    BY <1>2, <1>3, UpTo
<1>5. ASSUME NEW j \in 1..l + 1
      PROVE  j \in A <=> Reaches(j)
  <2>1. l + 1 - j \in 0..l /\ l + 1 - (l + 1 - j) = j
    OBVIOUS
  <2>2. l + 1 - j \in T
    BY <1>4, <2>1
  <2> HIDE DEF Reaches
  <2>3. QED
    BY <2>1, <2>2
<1>6. QED
  BY <1>5 DEF Leads

--------------------------------------------------------------------------------
\* What may follow a token that ends before i.
Follows(t, p, i) ==
  /\ t = Star => At(p, i) # "*"
  /\ t = <<"*", "*">> => At(p, i) # "/"
  /\ t = <<"[">> => At(p, i) = "end"

\* The pattern has a token from its i-th character on.
TokenAt(t, p, i) ==
  /\ i + Len(t) <= Len(p) + 1
  /\ \A k \in 1..Len(t) : p[i + k - 1] = t[k]
  /\ Follows(t, p, i + Len(t))

\* From j on the value has a word of the token, and the rest matches.
Reads(v, t, r, i, j) ==
  \E e \in j..Len(v) + 1 : SubSeq(v, j, e - 1) \in Meaning(t) /\ r[<<i + Len(t), e>>]

LEMMA PartOfAWord ==
  ASSUME NEW v \in Words, NEW j \in 1..Len(v) + 1, NEW e \in j..Len(v) + 1
  PROVE  /\ SubSeq(v, j, e - 1) \in Words /\ Len(SubSeq(v, j, e - 1)) = e - j
         /\ \A k \in 1..e - j : SubSeq(v, j, e - 1)[k] = v[j + k - 1]
         /\ Range(SubSeq(v, j, e - 1)) = {v[q] : q \in j..e - 1}
<1> DEFINE w == SubSeq(v, j, e - 1)
<1>1. v \in Seq(Alphabet) /\ Len(v) \in Nat /\ Len(v) <= MaxLength
  BY WordsAre
<1>2. w \in Seq(Alphabet) /\ Len(w) = e - j /\ \A k \in 1..e - j : w[k] = v[j + k - 1]
  BY <1>1
<1> HIDE DEF w
<1>3. w \in Words
  BY <1>1, <1>2, WordsAre, GlobAssumption
<1>4. Range(w) = {v[q] : q \in j..e - 1}
  <2>1. DOMAIN w = 1..e - j
    BY <1>2
  <2>2. \A q \in j..e - 1 : q - j + 1 \in 1..e - j /\ j + (q - j + 1) - 1 = q
    BY <1>1
  <2>3. \A k \in 1..e - j : j + k - 1 \in j..e - 1
    BY <1>1
  <2>4. \A x \in Range(w) : x \in {v[q] : q \in j..e - 1}
    BY <1>2, <2>1, <2>3 DEF Range
  <2>5. ASSUME NEW q \in j..e - 1
        PROVE  v[q] \in Range(w)
    <3>1. w[q - j + 1] = v[q]
      BY <1>2, <2>2
    <3>2. QED
      BY <2>1, <2>2, <3>1 DEF Range
  <2>6. QED
    BY <2>4, <2>5
<1>5. QED
  BY <1>2, <1>3, <1>4 DEF w

\* A token that stands for single characters: the next one must be such a one.
LEMMA OneCharacter ==
  ASSUME NEW v \in Words, NEW t, NEW r, NEW i \in Nat, Len(t) \in Nat, NEW j \in 1..Len(v) + 1,
         NEW Ok,
         \A w \in Words : w \in Meaning(t) <=> Len(w) = 1 /\ w[1] \in Ok
  PROVE  Reads(v, t, r, i, j) <=> j <= Len(v) /\ v[j] \in Ok /\ r[<<i + Len(t), j + 1>>]
<1>1. Len(v) \in Nat
  BY WordsAre
<1>2. ASSUME NEW e \in j..Len(v) + 1
      PROVE  SubSeq(v, j, e - 1) \in Meaning(t) <=> e = j + 1 /\ v[j] \in Ok
  <2> DEFINE w == SubSeq(v, j, e - 1)
  <2>1. w \in Words /\ Len(w) = e - j /\ \A k \in 1..e - j : w[k] = v[j + k - 1]
    BY PartOfAWord
  <2> HIDE DEF w
  <2>2. w \in Meaning(t) <=> Len(w) = 1 /\ w[1] \in Ok
    BY <2>1
  <2>3. Len(w) = 1 <=> e = j + 1
    BY <1>1, <2>1
  <2>4. e = j + 1 => w[1] = v[j]
    <3>1. e = j + 1 => 1 \in 1..e - j /\ j + 1 - 1 = j
      BY <1>1
    <3>2. QED
      BY <2>1, <3>1
  <2>5. QED
    BY <2>2, <2>3, <2>4 DEF w
<1>3. j <= Len(v) <=> j + 1 \in j..Len(v) + 1
  BY <1>1
<1>4. QED
  BY <1>2, <1>3 DEF Reads

\* The tokens that the meaning of a pattern is made of.
TokensMeant == {t \in PatternTokens : Meaningful(t)}

LEMMA TokenIs ==
  ASSUME NEW t \in TokensMeant
  PROVE  /\ t \in PatternTokens /\ t \in Seq(Range(t))
         /\ \/ t \in {Star, <<"*", "*">>, <<"*", "*", "/">>, <<"?">>, <<"[">>}
            \/ Literal(t)
            \/ Bracket(t) /\ (IsRange(Class(t)) \/ Single(Class(t)))
<1>1. t \in PatternTokens /\ Meaningful(t)
  BY DEF TokensMeant
<1>2. QED
  BY <1>1, GlobAssumption DEF Meaningful

\* No token is empty.
LEMMA TokenIsSome ==
  ASSUME NEW t \in TokensMeant
  PROVE  Len(t) \in Nat /\ Len(t) > 0
<1>1. Len(t) \in Nat
  <2>1. t \in Seq(Range(t))
    BY TokenIs
  <2>2. QED
    BY <2>1
<1>2. Len(t) > 0
  <2>1. \/ t = <<"*">> \/ t = <<"*", "*">> \/ t = <<"*", "*", "/">> \/ t = <<"?">> \/ t = <<"[">>
        \/ Len(t) = 1 \/ Len(t) > 1
    BY TokenIs DEF Literal, Bracket, Star
  <2>2. /\ Len(<<"*">>) = 1 /\ Len(<<"*", "*">>) = 2 /\ Len(<<"*", "*", "/">>) = 3
        /\ Len(<<"?">>) = 1 /\ Len(<<"[">>) = 1
    OBVIOUS
  <2>3. Len(t) = 1 \/ Len(t) = 2 \/ Len(t) = 3 \/ Len(t) > 1
    BY <2>1, <2>2, Zenon
  <2> DEFINE n == Len(t)
  <2> HIDE DEF n
  <2>4. n \in Nat /\ (n = 1 \/ n = 2 \/ n = 3 \/ n > 1)
    BY <1>1, <2>3 DEF n
  <2>5. n > 0
    BY <2>4
  <2>6. QED
    BY <2>5 DEF n
<1>3. QED
  BY <1>1, <1>2

LEMMA Occurs ==
  ASSUME NEW C, "end" \notin C, NEW p \in Seq(C), NEW t \in TokensMeant, NEW i \in 1..Len(p) + 1,
         TokenAt(t, p, i)
  PROVE  /\ Len(t) \in Nat /\ Len(t) > 0 /\ i + Len(t) - 1 \in i..Len(p)
         /\ \A k \in 1..Len(t) : /\ i + k - 1 \in 1..Len(p)
                                 /\ p[i + k - 1] = t[k] /\ At(p, i + k - 1) = t[k]
<1>1. Len(t) \in Nat /\ Len(p) \in Nat
  BY TokenIsSome
<1>2. Len(t) > 0
  BY TokenIsSome
<1>3. i + Len(t) <= Len(p) + 1
  BY DEF TokenAt
<1>4. \A k \in 1..Len(t) : i + k - 1 \in 1..Len(p)
  BY <1>1, <1>3
<1>5. QED
  BY <1>1, <1>2, <1>3, <1>4 DEF TokenAt, At

--------------------------------------------------------------------------------
LEMMA MeaningIs ==
  ASSUME NEW w \in Words
  PROVE  /\ w \in Meaning(Star) <=> "/" \notin Range(w)
         /\ w \in Meaning(<<"*", "*">>) /\ w \in Meaning(<<"*", "*", "/">>)
         /\ w \in Meaning(<<"?">>) <=> Len(w) = 1 /\ w[1] # "/"
         /\ w \notin Meaning(<<"[">>)
<1>1. ASSUME NEW t, t \in {<<"*">>, <<"?">>, <<"[">>}
      PROVE  Len(t) = 1 /\ t[1] \in Wildcards
  BY <1>1 DEF Wildcards
<1>2. ASSUME NEW t, t \in {<<"*">>, <<"?">>, <<"[">>}
      PROVE  ~Literal(t) /\ ~Bracket(t)
  BY <1>1, <1>2 DEF Literal, Bracket
<1>3. <<"*">> # <<"?">> /\ <<"*">> # <<"[">> /\ <<"?">> # <<"[">>
  <2>1. <<"*">>[1] = "*" /\ <<"?">>[1] = "?" /\ <<"[">>[1] = "["
    OBVIOUS
  <2>2. QED
    BY <2>1
<1>4. ASSUME NEW t, t \in {<<"*">>, <<"?">>, <<"[">>}
      PROVE  t \notin {<<"*", "*">>, <<"*", "*", "/">>}
  <2>1. Len(<<"*", "*">>) = 2 /\ Len(<<"*", "*", "/">>) = 3
    OBVIOUS
  <2>2. Len(t) = 1
    BY <1>1, <1>4
  <2>3. QED
    BY <2>1, <2>2
<1>5. w \in Meaning(<<"*", "*">>) /\ w \in Meaning(<<"*", "*", "/">>)
  BY DEF Meaning
<1>6. w \in Meaning(Star) <=> "/" \notin Range(w)
  BY <1>2, <1>3, <1>4 DEF Meaning, Star
<1>7. w \in Meaning(<<"?">>) <=> Len(w) = 1 /\ w[1] # "/"
  BY <1>2, <1>3, <1>4 DEF Meaning, Star
<1>8. w \notin Meaning(<<"[">>)
  BY <1>2, <1>3, <1>4 DEF Meaning, Star
<1>9. QED
  BY <1>5, <1>6, <1>7, <1>8

LEMMA LiteralMeans ==
  ASSUME NEW w \in Words, NEW t, Literal(t)
  PROVE  w \in Meaning(t) <=> w = t
<1>1. Len(t) = 1 /\ t[1] \notin Wildcards
  BY DEF Literal
<1>2. t # Star /\ t # <<"?">>
  <2>1. <<"*">>[1] = "*" /\ <<"?">>[1] = "?"
    OBVIOUS
  <2>2. QED
    BY <1>1, <2>1 DEF Star, Wildcards
<1>3. t \notin {<<"*", "*">>, <<"*", "*", "/">>}
  <2>1. Len(<<"*", "*">>) = 2 /\ Len(<<"*", "*", "/">>) = 3
    OBVIOUS
  <2>2. QED
    BY <1>1, <2>1
<1>4. ~Bracket(t)
  BY <1>1 DEF Bracket
<1>5. QED
  BY <1>2, <1>3, <1>4 DEF Meaning

LEMMA BracketMeans ==
  ASSUME NEW w \in Words, NEW t, Bracket(t)
  PROVE  w \in Meaning(t) <=>
           Len(w) = 1 /\ w[1] # "/" /\ (w[1] \in Members(Class(t)) <=> ~Negated(t))
<1>1. Len(t) > 1 /\ t[1] = "["
  BY DEF Bracket
<1>2. t # Star /\ t # <<"*", "*">> /\ t # <<"*", "*", "/">> /\ t # <<"?">>
  <2>1. <<"*">>[1] = "*" /\ <<"?">>[1] = "?" /\ <<"*", "*">>[1] = "*" /\ <<"*", "*", "/">>[1] = "*"
    OBVIOUS
  <2>2. QED
    BY <1>1, <2>1 DEF Star
<1>3. ~Literal(t)
  BY <1>1 DEF Literal, Wildcards
<1>4. QED
  BY <1>2, <1>3 DEF Meaning

\* Whether a character is in a bracket.
LEMMA InClassIs ==
  ASSUME NEW t \in TokensMeant, Bracket(t), NEW c \in Alphabet
  PROVE  InClass(Between(t), c) <=> (c \in Members(Class(t)) <=> ~Negated(t))
<1>1. t \in Seq(Range(t)) /\ (IsRange(Class(t)) \/ Single(Class(t)))
  <2>1. /\ Len(t) > 1 /\ t[1] = "["
    BY DEF Bracket
  <2>2. t # Star /\ t # <<"*", "*">> /\ t # <<"*", "*", "/">> /\ t # <<"?">> /\ t # <<"[">>
    <3>1. /\ <<"*">>[1] = "*" /\ <<"?">>[1] = "?" /\ <<"*", "*">>[1] = "*"
          /\ <<"*", "*", "/">>[1] = "*"
      OBVIOUS
    <3>2. t # Star /\ t # <<"*", "*">> /\ t # <<"*", "*", "/">> /\ t # <<"?">>
      BY <2>1, <3>1 DEF Star
    <3>3. t # <<"[">>
      <4>1. Len(<<"[">>) = 1 /\ ~(1 > 1)
        OBVIOUS
      <4>2. QED
        BY <2>1, <4>1, Zenon
    <3>4. QED
      BY <3>2, <3>3, Zenon
  <2>3. ~Literal(t)
    BY <2>1 DEF Literal, Wildcards
  <2>4. QED
    BY <2>2, <2>3, TokenIs
<1>2. Between(t) \in Seq(Range(t))
  BY <1>1 DEF Between
<1>3. Class(t) \in Seq(Range(t))
  BY <1>2 DEF Class, Negated
<1>4. ClassHas(Class(t), c) \in BOOLEAN /\ (ClassHas(Class(t), c) <=> c \in Members(Class(t)))
  BY <1>1, <1>3, HitsAre, ClassHasMembers
<1>5. InClass(Between(t), c) <=> (ClassHas(Class(t), c) # Negated(t))
  BY DEF InClass, Class, Negated
<1>6. Negated(t) \in BOOLEAN
  BY DEF Negated
<1>7. QED
  BY <1>4, <1>5, <1>6

--------------------------------------------------------------------------------
LEMMA StarIsRead ==
  ASSUME NEW C, "end" \notin C, NEW p \in Seq(C), NEW v \in Words, NEW r, Answers(p, v, r),
         Star \in TokensMeant, NEW i \in 1..Len(p) + 1, TokenAt(Star, p, i),
         NEW j \in 1..Len(v) + 1
  PROVE  r[<<i, j>>] <=> Reads(v, Star, r, i, j)
<1> DEFINE l == Len(v)
           A == {k \in 1..l + 1 : r[<<i, k>>]}
           B == {k \in 1..l + 1 : r[<<i + 1, k>>]}
           K == {k \in 1..l : v[k] # "/"}
<1>1. l \in Nat /\ Len(p) \in Nat /\ Len(Star) = 1 /\ Star[1] = "*" /\ i \in Nat
  BY WordsAre DEF Star
<1>2. At(p, i) = "*" /\ At(p, i + 1) # "*"
  <2>1. At(p, i + 1 - 1) = Star[1] /\ At(p, i + Len(Star)) # "*"
    <3>1. \A k \in 1..Len(Star) : At(p, i + k - 1) = Star[k]
      BY Occurs
    <3>2. 1 \in 1..Len(Star)
      BY <1>1
    <3>3. QED
      BY <3>1, <3>2 DEF TokenAt, Follows
  <2>2. i + 1 - 1 = i
    OBVIOUS
  <2>3. QED
    BY <1>1, <2>1, <2>2
<1>3. Skips(l, A, B, K)
  <2> SUFFICES ASSUME NEW k \in 1..l + 1
               PROVE  k \in A <=> k \in B \/ (k <= l /\ k \in K /\ k + 1 \in A)
    BY DEF Skips
  <2>1. r[<<i, k>>] <=> Matched(p, v, r, i, k)
    BY DEF Answers
  <2>2. Matched(p, v, r, i, k) <=> r[<<i + 1, k>>] \/ (k <= l /\ v[k] # "/" /\ r[<<i, k + 1>>])
    BY <1>2 DEF Matched
  <2>3. k <= l <=> k \in 1..l
    BY <1>1
  <2>4. QED
    BY <2>1, <2>2, <2>3
<1>4. r[<<i, j>>] <=> \E e \in j..l + 1 : e \in B /\ \A q \in j..e - 1 : q \in K
  <2>1. r[<<i, j>>] <=> j \in A
    OBVIOUS
  <2> HIDE DEF l, A, B, K
  <2>2. j \in 1..l + 1
    BY DEF l
  <2>3. j \in A <=> Leads(l, B, K, j)
    BY <1>1, <1>3, <2>2, Skipping
  <2>4. QED
    BY <2>1, <2>3 DEF Leads
<1>5. ASSUME NEW e \in j..l + 1
      PROVE  /\ e \in B <=> r[<<i + Len(Star), e>>]
             /\ SubSeq(v, j, e - 1) \in Meaning(Star) <=> \A q \in j..e - 1 : q \in K
  <2>1. e \in 1..l + 1 /\ \A q \in j..e - 1 : q \in 1..l
    BY <1>1
  <2>2. SubSeq(v, j, e - 1) \in Words /\ Range(SubSeq(v, j, e - 1)) = {v[q] : q \in j..e - 1}
    BY PartOfAWord
  <2>3. SubSeq(v, j, e - 1) \in Meaning(Star) <=> "/" \notin {v[q] : q \in j..e - 1}
    BY <2>2, MeaningIs
  <2>4. QED
    BY <1>1, <2>1, <2>3
<1> HIDE DEF A, B, K
<1>6. QED
  BY <1>4, <1>5 DEF Reads

\* The two double stars, of which the second takes the separator behind it along.
LEMMA DoubleStarIsRead ==
  ASSUME NEW C, "end" \notin C, NEW p \in Seq(C), NEW v \in Words, NEW r, Answers(p, v, r),
         NEW t, t = <<"*", "*">> \/ t = <<"*", "*", "/">>,
         t \in TokensMeant, NEW i \in 1..Len(p) + 1, TokenAt(t, p, i),
         NEW j \in 1..Len(v) + 1
  PROVE  r[<<i, j>>] <=> Reads(v, t, r, i, j)
<1> DEFINE l == Len(v)
           slash == At(p, i + 2) = "/"
           A == {k \in 1..l + 1 : r[<<i, k>>]}
           B == {k \in 1..l + 1 : (slash /\ r[<<i + 3, k>>]) \/ r[<<i + 2, k>>]}
           K == 1..l
<1>1. l \in Nat /\ Len(p) \in Nat /\ i \in Nat
  BY WordsAre
<1>2. /\ t[1] = "*" /\ t[2] = "*"
      /\ (Len(t) = 2 /\ t = <<"*", "*">>) \/ (Len(t) = 3 /\ t[3] = "/")
  <2>1. CASE t = <<"*", "*">>
    BY <2>1
  <2>2. CASE t = <<"*", "*", "/">>
    BY <2>2
  <2>3. QED
    BY <2>1, <2>2
<1>3. At(p, i) = "*" /\ At(p, i + 1) = "*" /\ i + Len(t) \in 1..Len(p) + 1
      /\ (slash <=> Len(t) = 3)
  <2>1. \A k \in 1..Len(t) : At(p, i + k - 1) = t[k]
    BY Occurs
  <2>2. 1 \in 1..Len(t) /\ 2 \in 1..Len(t) /\ (Len(t) = 3 => 3 \in 1..Len(t))
    <3> DEFINE n == Len(t)
    <3>1. n = 2 \/ n = 3
      BY <1>2
    <3> HIDE DEF n
    <3>2. 1 \in 1..n /\ 2 \in 1..n /\ (n = 3 => 3 \in 1..n)
      BY <3>1
    <3>3. QED
      BY <3>2 DEF n
  <2>3. i + 1 - 1 = i /\ i + 2 - 1 = i + 1 /\ i + 3 - 1 = i + 2
    OBVIOUS
  <2>4. At(p, i) = t[1] /\ At(p, i + 1) = t[2] /\ (Len(t) = 3 => At(p, i + 2) = t[3])
    <3>1. At(p, i + 1 - 1) = t[1] /\ At(p, i + 2 - 1) = t[2]
            /\ (Len(t) = 3 => At(p, i + 3 - 1) = t[3])
      BY <2>1, <2>2
    <3>2. QED
      BY <2>3, <3>1
  <2>5. t = <<"*", "*">> => At(p, i + Len(t)) # "/"
    BY DEF TokenAt, Follows
  <2>6. Len(t) = 2 => ~slash
    BY <1>2, <2>5
  <2>7. i + Len(t) \in 1..Len(p) + 1
    BY <1>1, <1>2 DEF TokenAt
  <2>8. QED
    BY <1>2, <2>4, <2>6, <2>7
<1> HIDE DEF slash
<1>4. Skips(l, A, B, K)
  <2> SUFFICES ASSUME NEW k \in 1..l + 1
               PROVE  k \in A <=> k \in B \/ (k <= l /\ k \in K /\ k + 1 \in A)
    BY DEF Skips
  <2>1. r[<<i, k>>] <=> Matched(p, v, r, i, k)
    BY DEF Answers
  <2>2. Matched(p, v, r, i, k) <=>
          (slash /\ r[<<i + 3, k>>]) \/ r[<<i + 2, k>>] \/ (k <= l /\ r[<<i, k + 1>>])
    BY <1>3 DEF Matched, slash
  <2>3. k <= l <=> k \in 1..l
    BY <1>1
  <2>4. QED
    BY <2>1, <2>2, <2>3
<1>5. r[<<i, j>>] <=> \E e \in j..l + 1 : e \in B /\ \A q \in j..e - 1 : q \in 1..l
  <2>1. r[<<i, j>>] <=> j \in A
    OBVIOUS
  <2> HIDE DEF l, A, B, K
  <2>2. j \in 1..l + 1
    BY DEF l
  <2>3. j \in A <=> Leads(l, B, K, j)
    BY <1>1, <1>4, <2>2, Skipping
  <2>4. QED
    BY <2>1, <2>3 DEF Leads, K
<1> HIDE DEF A, K
<1>6. \A e \in j..l + 1 : \A q \in j..e - 1 : q \in 1..l
  BY <1>1
<1>7. Reads(v, t, r, i, j) <=> \E e \in j..l + 1 : r[<<i + Len(t), e>>]
  <2>1. ASSUME NEW e \in j..l + 1
        PROVE  SubSeq(v, j, e - 1) \in Meaning(t)
    <3>1. SubSeq(v, j, e - 1) \in Words
      BY PartOfAWord
    <3>2. QED
      BY <3>1, MeaningIs
  <2>2. QED
    BY <2>1 DEF Reads
<1>8. CASE Len(t) = 2
  <2>1. ~slash /\ \A e \in j..l + 1 : e \in 1..l + 1
    BY <1>1, <1>3, <1>8
  <2>2. \A e \in j..l + 1 : e \in B <=> r[<<i + Len(t), e>>]
    BY <1>8, <2>1
  <2> HIDE DEF B
  <2>3. QED
    BY <1>5, <1>6, <1>7, <2>2
<1>9. CASE Len(t) = 3
  <2>1. slash /\ i + 2 \in 1..Len(p) + 1
    BY <1>1, <1>3, <1>9
  <2>2. ASSUME NEW k \in 1..l + 1, r[<<i + 2, k>>]
        PROVE  k + 1 \in 1..l + 1 /\ r[<<i + 3, k + 1>>]
    <3>1. Matched(p, v, r, i + 2, k)
      BY <2>1, <2>2 DEF Answers
    <3>2. k <= l /\ r[<<i + 2 + 1, k + 1>>]
      BY <2>1, <3>1 DEF Matched, slash
    <3>3. i + 2 + 1 = i + 3
      OBVIOUS
    <3>4. QED
      BY <1>1, <3>2, <3>3
  <2>3. ASSUME NEW e \in j..l + 1, e \in B
        PROVE  \E d \in j..l + 1 : r[<<i + 3, d>>]
    <3>1. CASE r[<<i + 3, e>>]
      BY <3>1
    <3>2. CASE r[<<i + 2, e>>]
      <4>1. e + 1 \in 1..l + 1 /\ r[<<i + 3, e + 1>>]
        BY <2>2, <2>3, <3>2
      <4>2. e + 1 \in j..l + 1
        BY <1>1, <4>1
      <4>3. QED
        BY <4>1, <4>2
    <3>3. QED
      BY <2>3, <3>1, <3>2
  <2>4. ASSUME NEW e \in j..l + 1, r[<<i + 3, e>>]
        PROVE  e \in B
    BY <1>1, <2>1, <2>4
  <2> HIDE DEF B
  <2>5. QED
    BY <1>5, <1>6, <1>7, <1>9, <2>3, <2>4
<1>10. QED
  BY <1>2, <1>8, <1>9

\* A part of a sequence.
LEMMA PartOf ==
  ASSUME NEW S, NEW s \in Seq(S), NEW from \in 1..Len(s) + 1, NEW to \in from - 1..Len(s)
  PROVE  /\ SubSeq(s, from, to) \in Seq(S) /\ Len(SubSeq(s, from, to)) = to - from + 1
         /\ \A k \in 1..to - from + 1 : SubSeq(s, from, to)[k] = s[from + k - 1]
<1>1. Len(s) \in Nat
  OBVIOUS
<1>2. QED
  BY <1>1

\* The one character of a word of one character.
LEMMA TheCharacter ==
  ASSUME NEW w \in Words, Len(w) = 1
  PROVE  w[1] \in Alphabet
<1>1. w \in Seq(Alphabet)
  BY WordsAre
<1>2. 1 \in 1..Len(w)
  OBVIOUS
<1>3. QED
  BY <1>1, <1>2

\* A question mark, a bracket or a literal takes one character, of those in Ok.
LEMMA SingleIsRead ==
  ASSUME NEW C, "end" \notin C, NEW p \in Seq(C), NEW v \in Words, NEW r, Answers(p, v, r),
         NEW t \in TokensMeant, t = <<"?">> \/ Bracket(t) \/ Literal(t),
         NEW i \in 1..Len(p) + 1, TokenAt(t, p, i), NEW j \in 1..Len(v) + 1
  PROVE  r[<<i, j>>] <=> Reads(v, t, r, i, j)
<1> DEFINE l == Len(v)
           m == Len(t)
<1>1. l \in Nat /\ Len(p) \in Nat /\ i \in Nat /\ v \in Seq(Alphabet)
  BY WordsAre
<1>2. /\ m \in Nat /\ m > 0 /\ i + m - 1 \in i..Len(p)
      /\ \A k \in 1..m : /\ i + k - 1 \in 1..Len(p)
                         /\ p[i + k - 1] = t[k] /\ At(p, i + k - 1) = t[k]
  BY Occurs
<1>3. At(p, i) = t[1]
  <2>1. 1 \in 1..m /\ i + 1 - 1 = i
    BY <1>2
  <2>2. QED
    BY <1>2, <2>1
<1>4. r[<<i, j>>] <=> Matched(p, v, r, i, j)
  BY DEF Answers
<1>5. j <= l => v[j] \in Alphabet
  BY <1>1
<1>6. CASE t = <<"?">>
  <2> DEFINE Ok == {c \in Alphabet : c # "/"}
  <2>1. Len(t) = 1 /\ t[1] = "?"
    BY <1>6
  <2>2. \A w \in Words : w \in Meaning(t) <=> Len(w) = 1 /\ w[1] \in Ok
    <3> SUFFICES ASSUME NEW w \in Words
                 PROVE  w \in Meaning(t) <=> Len(w) = 1 /\ w[1] \in Ok
      OBVIOUS
    <3>2. Len(w) = 1 => w[1] \in Alphabet
      BY TheCharacter
    <3>3. w \in Meaning(t) <=> Len(w) = 1 /\ w[1] # "/"
      BY <1>6, MeaningIs
    <3>4. QED
      BY <3>2, <3>3
  <2>3. Reads(v, t, r, i, j) <=> j <= l /\ v[j] \in Ok /\ r[<<i + Len(t), j + 1>>]
    <3> HIDE DEF Ok
    <3>1. QED
      BY <1>1, <1>2, <2>2, OneCharacter
  <2>4. Matched(p, v, r, i, j) <=> j <= l /\ v[j] # "/" /\ r[<<i + 1, j + 1>>]
    BY <1>3, <2>1 DEF Matched
  <2>5. QED
    BY <1>4, <1>5, <2>1, <2>3, <2>4
<1>7. CASE Literal(t)
  <2>1. Len(t) = 1 /\ t[1] \notin Wildcards
    BY <1>7 DEF Literal
  <2>2. t \in Seq(Range(t))
    BY TokenIs
  <2>3. \A w \in Words : w \in Meaning(t) <=> Len(w) = 1 /\ w[1] \in {t[1]}
    <3> SUFFICES ASSUME NEW w \in Words
                 PROVE  w = t <=> Len(w) = 1 /\ w[1] = t[1]
      BY <1>7, LiteralMeans
    <3>1. w \in Seq(Alphabet)
      BY WordsAre
    <3>2. ASSUME Len(w) = 1, w[1] = t[1]
          PROVE  w = t
      <4> DEFINE D == Alphabet \cup Range(t)
      <4>1. w \in Seq(D) /\ t \in Seq(D)
        BY <2>2, <3>1
      <4>2. \A k \in 1..Len(w) : w[k] = t[k]
        BY <3>2
      <4>3. Len(w) = Len(t)
        BY <2>1, <3>2
      <4> HIDE DEF D
      <4>4. QED
        BY <4>1, <4>2, <4>3, SeqEqual
    <3>3. QED
      BY <2>1, <3>2
  <2>4. Reads(v, t, r, i, j) <=> j <= l /\ v[j] \in {t[1]} /\ r[<<i + Len(t), j + 1>>]
    <3> DEFINE Ok == {t[1]}
    <3> HIDE DEF Ok
    <3>1. \A w \in Words : w \in Meaning(t) <=> Len(w) = 1 /\ w[1] \in Ok
      BY <2>3 DEF Ok
    <3>2. Reads(v, t, r, i, j) <=> j <= l /\ v[j] \in Ok /\ r[<<i + Len(t), j + 1>>]
      BY <1>1, <1>2, <3>1, OneCharacter
    <3>3. QED
      BY <3>2 DEF Ok
  <2>5. At(p, i) \notin {"end", "*", "?", "["}
    <3>1. i \in 1..Len(p)
      BY <1>1, <1>2
    <3>2. At(p, i) # "end"
      BY <3>1, AtIs
    <3>3. QED
      BY <1>3, <2>1, <3>2 DEF Wildcards
  <2>6. Matched(p, v, r, i, j) <=> j <= l /\ t[1] = v[j] /\ r[<<i + 1, j + 1>>]
    BY <1>3, <2>5 DEF Matched
  <2>7. QED
    BY <1>4, <2>1, <2>4, <2>6
<1>8. CASE Bracket(t)
  <2> DEFINE Ok == {c \in Alphabet : c # "/" /\ (c \in Members(Class(t)) <=> ~Negated(t))}
             last == i + m - 1
  <2>1. m > 1 /\ t[1] = "[" /\ t[m] = "]" /\ \A k \in 1..m - 1 : t[k] # "]"
    BY <1>8 DEF Bracket
  <2>2. \A w \in Words : w \in Meaning(t) <=> Len(w) = 1 /\ w[1] \in Ok
    <3> SUFFICES ASSUME NEW w \in Words
                 PROVE  w \in Meaning(t) <=> Len(w) = 1 /\ w[1] \in Ok
      OBVIOUS
    <3>2. Len(w) = 1 => w[1] \in Alphabet
      BY TheCharacter
    <3>3. w \in Meaning(t) <=>
            Len(w) = 1 /\ w[1] # "/" /\ (w[1] \in Members(Class(t)) <=> ~Negated(t))
      BY <1>8, BracketMeans
    <3>4. QED
      BY <3>2, <3>3
  <2>3. Reads(v, t, r, i, j) <=> j <= l /\ v[j] \in Ok /\ r[<<i + m, j + 1>>]
    <3> HIDE DEF Ok
    <3>1. QED
      BY <1>1, <1>2, <2>2, OneCharacter
  <2>4. /\ last \in i + 1..Len(p) /\ p[last] = "]"
        /\ \A k \in i..last - 1 : p[k] # "]"
    <3>1. m \in 1..m /\ last \in i + 1..Len(p)
      BY <1>1, <1>2, <2>1
    <3>2. p[last] = t[m]
      BY <1>2, <3>1
    <3>3. ASSUME NEW k \in i..last - 1
          PROVE  p[k] # "]"
      <4>1. k - i + 1 \in 1..m - 1 /\ k - i + 1 \in 1..m /\ i + (k - i + 1) - 1 = k
        BY <1>1, <1>2
      <4>2. p[k] = t[k - i + 1]
        BY <1>2, <4>1
      <4>3. QED
        BY <2>1, <4>1, <4>2
    <3>4. QED
      BY <2>1, <3>1, <3>2, <3>3
  <2>5. SubSeq(p, i + 1, last - 1) = Between(t)
    <3> DEFINE a == SubSeq(p, i + 1, last - 1)
               b == SubSeq(t, 2, m - 1)
               D == C \cup Range(t)
    <3>1. t \in Seq(D) /\ p \in Seq(D)
      <4>1. t \in Seq(Range(t))
        BY TokenIs
      <4>2. QED
        BY <4>1
    <3>2. /\ m - 2 \in Nat /\ last \in Int /\ i + 1 \in 1..Len(p) + 1 /\ last - 1 \in i..Len(p)
          /\ (last - 1) - (i + 1) + 1 = m - 2 /\ (m - 1) - 2 + 1 = m - 2
          /\ \A k \in 1..m - 2 : /\ (i + 1) + k - 1 = i + k /\ 2 + k - 1 = k + 1
                                 /\ k + 1 \in 1..m /\ i + (k + 1) - 1 = i + k
      BY <1>1, <1>2, <2>1
    <3> HIDE DEF D
    <3>3. a \in Seq(D) /\ Len(a) = m - 2 /\ \A k \in 1..m - 2 : a[k] = p[i + k]
      <4> DEFINE from == i + 1
                 to == last - 1
      <4>1. /\ from \in 1..Len(p) + 1 /\ to \in from - 1..Len(p)
            /\ to - from + 1 = m - 2 /\ \A k \in 1..m - 2 : from + k - 1 = i + k
        BY <1>1, <3>2
      <4> HIDE DEF from, to, last
      <4> DEFINE q == SubSeq(p, from, to)
      <4>2. q \in Seq(D) /\ Len(q) = to - from + 1
              /\ \A k \in 1..to - from + 1 : q[k] = p[from + k - 1]
        BY <3>1, <4>1, PartOf
      <4> HIDE DEF q
      <4>3. q \in Seq(D) /\ Len(q) = m - 2 /\ \A k \in 1..m - 2 : q[k] = p[i + k]
        BY <4>1, <4>2
      <4>4. QED
        BY <4>3 DEF q, from, to
    <3>4. b \in Seq(D) /\ Len(b) = m - 2 /\ \A k \in 1..m - 2 : b[k] = t[k + 1]
      <4> DEFINE to == m - 1
      <4>1. /\ 2 \in 1..m + 1 /\ to \in 2 - 1..m
            /\ to - 2 + 1 = m - 2 /\ \A k \in 1..m - 2 : 2 + k - 1 = k + 1
        BY <1>2, <2>1
      <4> HIDE DEF to
      <4> DEFINE q == SubSeq(t, 2, to)
      <4>2. q \in Seq(D) /\ Len(q) = to - 2 + 1
              /\ \A k \in 1..to - 2 + 1 : q[k] = t[2 + k - 1]
        BY <3>1, <4>1, PartOf
      <4> HIDE DEF q
      <4>3. q \in Seq(D) /\ Len(q) = m - 2 /\ \A k \in 1..m - 2 : q[k] = t[k + 1]
        BY <4>1, <4>2
      <4>4. QED
        BY <4>3 DEF q, to
    <3>5. \A k \in 1..m - 2 : p[i + k] = t[k + 1]
      BY <1>2, <3>2
    <3> HIDE DEF a, b
    <3>6. a = b
      BY <3>3, <3>4, <3>5, SeqEqual
    <3>7. QED
      BY <3>6 DEF a, b, Between
  <2>6. At(p, i) = "["
    BY <1>3, <2>1
  <2>7. ASSUME NEW end \in i + 1..Len(p), p[end] = "]", \A k \in i..end - 1 : p[k] # "]"
        PROVE  end = last
    <3>1. ~(end < last) /\ ~(last < end)
      <4>1. end < last => end \in i..last - 1
        BY <1>1, <2>4
      <4>2. last < end => last \in i..end - 1
        BY <1>1, <2>4
      <4> HIDE DEF last
      <4>3. QED
        BY <2>4, <2>7, <4>1, <4>2
    <3>2. last \in Int /\ end \in Int
      BY <1>1, <1>2
    <3> HIDE DEF last
    <3>3. QED
      BY <3>1, <3>2
  <2>8. Matched(p, v, r, i, j) <=>
          \E end \in i + 1..Len(p) :
            /\ p[end] = "]" /\ \A k \in i..end - 1 : p[k] # "]"
            /\ j <= l /\ v[j] # "/" /\ InClass(SubSeq(p, i + 1, end - 1), v[j])
            /\ r[<<end + 1, j + 1>>]
    BY <2>6 DEF Matched
  <2>9. last + 1 = i + m
    BY <1>1, <1>2
  <2> HIDE DEF last
  <2>10. Matched(p, v, r, i, j) <=>
           j <= l /\ v[j] # "/" /\ InClass(Between(t), v[j]) /\ r[<<i + m, j + 1>>]
    <3>1. Matched(p, v, r, i, j) <=>
            j <= l /\ v[j] # "/" /\ InClass(SubSeq(p, i + 1, last - 1), v[j]) /\ r[<<last + 1, j + 1>>]
      BY <2>4, <2>7, <2>8
    <3>2. QED
      BY <2>5, <2>9, <3>1
  <2>11. j <= l => (InClass(Between(t), v[j]) <=> (v[j] \in Members(Class(t)) <=> ~Negated(t)))
    BY <1>5, <1>8, InClassIs
  <2>12. QED
    BY <1>4, <1>5, <2>3, <2>10, <2>11
<1>9. QED
  BY <1>6, <1>7, <1>8

\* Every token is read as it is meant.
LEMMA TokenIsRead ==
  ASSUME NEW C, "end" \notin C, NEW p \in Seq(C), NEW v \in Words, NEW r, Answers(p, v, r),
         NEW t \in TokensMeant, NEW i \in 1..Len(p) + 1, TokenAt(t, p, i),
         NEW j \in 1..Len(v) + 1
  PROVE  r[<<i, j>>] <=> Reads(v, t, r, i, j)
<1>1. CASE t = <<"[">>
  <2>1. Len(t) = 1 /\ t[1] = "["
    BY <1>1
  <2>2. At(p, i) = "[" /\ At(p, i + 1) = "end"
    <3>1. At(p, i + 1 - 1) = t[1]
      <4>1. 1 \in 1..Len(t)
        BY <2>1
      <4>2. QED
        BY <4>1, Occurs
    <3>2. At(p, i + 1) = "end"
      BY <1>1, <2>1 DEF TokenAt, Follows
    <3>3. i + 1 - 1 = i
      OBVIOUS
    <3>4. QED
      BY <2>1, <3>1, <3>2, <3>3
  <2>3. i + 1..Len(p) = {}
    <3>1. ~(i + 1 <= Len(p))
      BY <2>2, AtIs
    <3>2. QED
      BY <3>1
  <2>4. ~Matched(p, v, r, i, j)
    BY <2>2, <2>3 DEF Matched
  <2>5. ~Reads(v, t, r, i, j)
    BY <1>1, PartOfAWord, MeaningIs DEF Reads
  <2>6. QED
    BY <2>4, <2>5 DEF Answers
<1>2. CASE t = Star
  BY <1>2, StarIsRead
<1>3. CASE t = <<"*", "*">> \/ t = <<"*", "*", "/">>
  BY <1>3, DoubleStarIsRead
<1>4. CASE t = <<"?">> \/ Bracket(t) \/ Literal(t)
  BY <1>4, SingleIsRead
<1>5. QED
  BY <1>1, <1>2, <1>3, <1>4, TokenIs

--------------------------------------------------------------------------------
LEMMA ThenIs ==
  ASSUME NEW ws, ws \subseteq Words, NEW t
  PROVE  /\ Then(ws, t) \subseteq Words
         /\ \A w : w \in Then(ws, t) <=>
                     Len(w) <= MaxLength /\ \E u \in ws, v \in Meaning(t) : w = u \o v
<1>1. \A w : w \in Then(ws, t) <=>
               Len(w) <= MaxLength /\ \E u \in ws, v \in Meaning(t) : w = u \o v
  BY DEF Then
<1>2. ASSUME NEW w \in Then(ws, t)
      PROVE  w \in Words
  <2>1. PICK u \in ws, v \in Meaning(t) : w = u \o v
    BY <1>1
  <2>2. u \in Seq(Alphabet) /\ v \in Seq(Alphabet)
    <3>1. u \in Words /\ v \in Words
      BY DEF Meaning
    <3>2. QED
      BY <3>1, WordsAre
  <2>3. w \in Seq(Alphabet)
    <3>1. u \o v \in Seq(Alphabet)
      BY <2>2
    <3>2. QED
      BY <2>1, <3>1, Zenon
  <2>4. QED
    BY <1>1, <2>3, WordsAre
<1>3. QED
  BY <1>1, <1>2

LEMMA LanguagesAre ==
  ASSUME NEW T, NEW ts \in Seq(T)
  PROVE  /\ Languages(ts)[0] = {<<>>}
         /\ \A k \in 1..Len(ts) : Languages(ts)[k] = Then(Languages(ts)[k - 1], ts[k])
         /\ \A k \in 0..Len(ts) : Languages(ts)[k] \subseteq Words
<1> DEFINE n == Len(ts)
           D == 0..n
           S == SUBSET Words
           s0 == {<<>>}
           F == [x \in (1..n) \X S |-> Then(x[2], ts[x[1]])]
           Values(f) == [k \in D |-> IF k = 0 THEN s0 ELSE Then(f[k - 1], ts[k])]
           language == Languages(ts)
<1>1. n \in Nat
  OBVIOUS
<1>2. s0 \in S
  <2> DEFINE e == <<>>
  <2>1. e \in Seq(Alphabet) /\ Len(e) = 0 /\ 0 <= MaxLength
    BY GlobAssumption
  <2> HIDE DEF e
  <2>2. e \in Words
    BY <2>1, WordsAre
  <2>3. QED
    BY <2>2 DEF e
<1> HIDE DEF s0
<1>3. \A k \in 1..n, ws \in S : Then(ws, ts[k]) \in S
  BY ThenIs
<1> HIDE DEF S
<1>4. F \in [(1..n) \X S -> S]
  BY <1>3
<1>5. \A k \in 1..n, ws \in S : F[<<k, ws>>] = Then(ws, ts[k])
  OBVIOUS
<1>6. 0 \in D /\ \A k \in D : k # 0 => k \in 1..n /\ k - 1 \in D
  BY <1>1
<1>7. \A k \in 1..n : k \in D /\ k # 0 /\ k - 1 \in D
  BY <1>1
<1> HIDE DEF D, F, n
<1>8. PICK f \in [0..n -> S] : Iterates(f, s0, F, n)
  BY <1>1, <1>2, <1>4, Iteration, Zenon
<1>9. \A k \in D : f[k] = IF k = 0 THEN s0 ELSE Then(f[k - 1], ts[k])
  BY <1>5, <1>6, <1>8, Zenon DEF D, Iterates
<1>10. f = Values(f)
  BY <1>8, <1>9, Zenon DEF D
<1>11. language = Values(language)
  BY <1>10, Zenon DEF Languages, D, s0, n
<1> HIDE DEF language
<1>12. language[0] = s0
  BY <1>6, <1>11, Zenon
<1>13. \A k \in 1..n : language[k] = Then(language[k - 1], ts[k])
  BY <1>7, <1>11, Zenon
<1> HIDE DEF Values
<1>14. language[0] \in S /\ \A k \in 1..n : language[k - 1] \in S => language[k] \in S
  BY <1>2, <1>3, <1>12, <1>13, Zenon
<1>15. \A k \in 0..n : language[k] \in S
  BY <1>1, <1>14, IterationStaysIn, Zenon
<1>16. QED
  BY <1>12, <1>13, <1>15, Zenon DEF language, s0, S, n

\* A beginning of a word is a word of one language and then one of a token.
LEMMA Split ==
  ASSUME NEW ws, ws \subseteq Words, NEW t, NEW v \in Words, NEW e \in 1..Len(v) + 1
  PROVE  SubSeq(v, 1, e - 1) \in Then(ws, t) <=>
           \E j \in 1..e : SubSeq(v, 1, j - 1) \in ws /\ SubSeq(v, j, e - 1) \in Meaning(t)
<1> DEFINE w == SubSeq(v, 1, e - 1)
<1>1. v \in Seq(Alphabet) /\ Len(v) \in Nat /\ Len(v) <= MaxLength
  BY WordsAre
<1>2. w \in Seq(Alphabet) /\ Len(w) = e - 1 /\ \A k \in 1..e - 1 : w[k] = v[k]
  BY <1>1
<1>3. Len(w) <= MaxLength
  BY <1>1, <1>2, GlobAssumption
<1>4. w \in Then(ws, t) <=> \E u \in ws, x \in Meaning(t) : w = u \o x
  <2> HIDE DEF w
  <2>1. \A q : q \in Then(ws, t) <=>
                 Len(q) <= MaxLength /\ \E u \in ws, x \in Meaning(t) : q = u \o x
    BY DEF Then
  <2>2. QED
    BY <1>3, <2>1
<1>5. ASSUME NEW u \in ws, NEW x \in Meaning(t), w = u \o x
      PROVE  \E j \in 1..e : SubSeq(v, 1, j - 1) \in ws /\ SubSeq(v, j, e - 1) \in Meaning(t)
  <2> DEFINE j == Len(u) + 1
  <2>1. u \in Seq(Alphabet) /\ x \in Seq(Alphabet)
    <3>1. u \in Words /\ x \in Words
      BY DEF Meaning
    <3>2. QED
      BY <3>1, WordsAre
  <2> HIDE DEF w
  <2>2. Len(u) \in Nat /\ Len(x) \in Nat /\ Len(u) + Len(x) = e - 1
    BY <1>2, <1>5, <2>1
  <2>3. j \in 1..e /\ j - 1 = Len(u) /\ e - j = Len(x)
    BY <2>2
  <2>4. SubSeq(v, 1, j - 1) = u
    <3> DEFINE a == SubSeq(v, 1, Len(u))
    <3>1. a \in Seq(Alphabet) /\ Len(a) = Len(u) /\ \A k \in 1..Len(u) : a[k] = v[k]
      BY <1>1, <2>2
    <3>2. \A k \in 1..Len(u) : k \in 1..e - 1 /\ w[k] = u[k]
      BY <1>5, <2>1, <2>2
    <3>3. \A k \in 1..Len(u) : a[k] = u[k]
      BY <1>2, <3>1, <3>2
    <3> HIDE DEF a, j
    <3>4. a = u
      BY <2>1, <3>1, <3>3, SeqEqual
    <3>5. QED
      BY <2>3, <3>4 DEF a
  <2>5. SubSeq(v, j, e - 1) = x
    <3>1. e \in j..Len(v) + 1 /\ j \in 1..Len(v) + 1
      BY <1>1, <2>3
    <3> DEFINE b == SubSeq(v, j, e - 1)
    <3>2. b \in Words /\ Len(b) = e - j /\ \A k \in 1..e - j : b[k] = v[j + k - 1]
      <4> HIDE DEF j
      <4>1. QED
        BY <3>1, PartOfAWord
    <3>3. b \in Seq(Alphabet)
      <4> HIDE DEF b
      <4>1. QED
        BY <3>2, WordsAre
    <3>4. \A k \in 1..Len(x) : j + k - 1 \in 1..e - 1 /\ j + k - 1 = Len(u) + k
      BY <2>2
    <3>5. \A k \in 1..Len(x) : w[Len(u) + k] = x[k]
      BY <1>5, <2>1
    <3> HIDE DEF b, j
    <3>6. \A k \in 1..Len(x) : b[k] = x[k]
      BY <1>2, <2>3, <3>2, <3>4, <3>5
    <3>7. b = x
      BY <2>1, <2>3, <3>2, <3>3, <3>6, SeqEqual
    <3>8. QED
      BY <3>7 DEF b
  <2> HIDE DEF j
  <2>6. QED
    BY <1>5, <2>3, <2>4, <2>5
<1>6. ASSUME NEW j \in 1..e, SubSeq(v, 1, j - 1) \in ws, SubSeq(v, j, e - 1) \in Meaning(t)
      PROVE  \E u \in ws, x \in Meaning(t) : w = u \o x
  <2> DEFINE u == SubSeq(v, 1, j - 1)
             x == SubSeq(v, j, e - 1)
  <2>1. u \in Seq(Alphabet) /\ Len(u) = j - 1 /\ \A k \in 1..j - 1 : u[k] = v[k]
    BY <1>1
  <2>2. j \in 1..Len(v) + 1 /\ e \in j..Len(v) + 1
    BY <1>1
  <2>3. x \in Words /\ Len(x) = e - j /\ \A k \in 1..e - j : x[k] = v[j + k - 1]
    BY <2>2, PartOfAWord
  <2>4. x \in Seq(Alphabet)
    <3> HIDE DEF x
    <3>1. QED
      BY <2>3, WordsAre
  <2> HIDE DEF u, x, w
  <2> DEFINE y == u \o x
  <2>5. y \in Seq(Alphabet) /\ Len(y) = e - 1
    <3>1. y \in Seq(Alphabet) /\ Len(y) = Len(u) + Len(x)
      <4>1. u \in Seq(Alphabet)
        BY <2>1
      <4>2. QED
        BY <2>4, <4>1
    <3>2. Len(u) + Len(x) = e - 1
      <4>1. j \in Int /\ e \in Int
        BY <1>1
      <4>2. Len(u) = j - 1 /\ Len(x) = e - j
        BY <2>1, <2>3
      <4>3. (j - 1) + (e - j) = e - 1
        BY <4>1
      <4>4. QED
        BY <4>2, <4>3
    <3>3. QED
      BY <3>1, <3>2
  <2>6. \A k \in 1..e - 1 : y[k] = v[k]
    <3> SUFFICES ASSUME NEW k \in 1..e - 1
                 PROVE  y[k] = v[k]
      OBVIOUS
    <3>1. y[k] = IF k <= j - 1 THEN u[k] ELSE x[k - (j - 1)]
      BY <2>1, <2>3, <2>4
    <3>2. CASE k <= j - 1
      <4>1. k \in 1..j - 1
        BY <3>2
      <4>2. QED
        BY <2>1, <3>1, <3>2, <4>1
    <3>3. CASE ~(k <= j - 1)
      <4>1. k - (j - 1) \in 1..e - j /\ j + (k - (j - 1)) - 1 = k
        BY <3>3
      <4>2. QED
        BY <2>3, <3>1, <3>3, <4>1
    <3>4. QED
      BY <3>2, <3>3
  <2> HIDE DEF y
  <2>7. w = y
    BY <1>2, <2>5, <2>6, SeqEqual
  <2>8. QED
    BY <1>6, <2>7 DEF u, x, y
<1>7. QED
  BY <1>4, <1>5, <1>6

--------------------------------------------------------------------------------
\* The pattern is made of the tokens, of which the k-th begins at at[k].
MadeAt(ts, p, at) ==
  /\ at[1] = 1 /\ at[Len(ts) + 1] = Len(p) + 1
  /\ \A k \in 1..Len(ts) : at[k + 1] = at[k] + Len(ts[k]) /\ TokenAt(ts[k], p, at[k])

Made(ts, p) == \E at \in [1..Len(ts) + 1 -> 1..Len(p) + 1] : MadeAt(ts, p, at)

\* After its first k tokens the matcher is where the words of these tokens end.
ReadUpTo(v, words, r, i, k) ==
  r[<<1, 1>>] <=> \E j \in 1..Len(v) + 1 : SubSeq(v, 1, j - 1) \in words[k] /\ r[<<i, j>>]

LEMMA OneTokenMore ==
  ASSUME NEW C, "end" \notin C, NEW p \in Seq(C), NEW v \in Words, NEW r, Answers(p, v, r),
         NEW t \in TokensMeant, NEW i \in 1..Len(p) + 1, TokenAt(t, p, i),
         NEW words, NEW k \in Nat, words[k] \subseteq Words, words[k + 1] = Then(words[k], t),
         ReadUpTo(v, words, r, i, k)
  PROVE  ReadUpTo(v, words, r, i + Len(t), k + 1)
<1> DEFINE l == Len(v)
           ws == words[k]
           next == i + Len(t)
<1>1. l \in Nat
  BY WordsAre
<1>2. \A j \in 1..l + 1 :
        r[<<i, j>>] <=> \E e \in j..l + 1 : SubSeq(v, j, e - 1) \in Meaning(t) /\ r[<<next, e>>]
  BY TokenIsRead DEF Reads
<1>3. \A e \in 1..l + 1 :
        SubSeq(v, 1, e - 1) \in words[k + 1] <=>
          \E j \in 1..e : SubSeq(v, 1, j - 1) \in ws /\ SubSeq(v, j, e - 1) \in Meaning(t)
  BY Split
<1> HIDE DEF l, ws, next
<1>4. (\E j \in 1..l + 1 : SubSeq(v, 1, j - 1) \in ws /\ r[<<i, j>>])
        <=> \E e \in 1..l + 1 : SubSeq(v, 1, e - 1) \in words[k + 1] /\ r[<<next, e>>]
  <2>1. ASSUME NEW j \in 1..l + 1, SubSeq(v, 1, j - 1) \in ws, r[<<i, j>>]
        PROVE  \E e \in 1..l + 1 : SubSeq(v, 1, e - 1) \in words[k + 1] /\ r[<<next, e>>]
    <3>1. PICK e \in j..l + 1 : SubSeq(v, j, e - 1) \in Meaning(t) /\ r[<<next, e>>]
      BY <1>2, <2>1
    <3>2. e \in 1..l + 1 /\ j \in 1..e
      BY <1>1
    <3>3. QED
      BY <1>3, <2>1, <3>1, <3>2
  <2>2. ASSUME NEW e \in 1..l + 1, SubSeq(v, 1, e - 1) \in words[k + 1], r[<<next, e>>]
        PROVE  \E j \in 1..l + 1 : SubSeq(v, 1, j - 1) \in ws /\ r[<<i, j>>]
    <3>1. PICK j \in 1..e : SubSeq(v, 1, j - 1) \in ws /\ SubSeq(v, j, e - 1) \in Meaning(t)
      BY <1>3, <2>2
    <3>2. j \in 1..l + 1 /\ e \in j..l + 1
      BY <1>1
    <3>3. QED
      BY <1>2, <2>2, <3>1, <3>2
  <2>3. QED
    BY <2>1, <2>2
<1>5. QED
  BY <1>4 DEF ReadUpTo, l, ws, next

LEMMA TokensAreRead ==
  ASSUME NEW C, "end" \notin C, NEW p \in Seq(C), NEW ts \in Seq(TokensMeant), Made(ts, p),
         NEW v \in Words, NEW r, Answers(p, v, r)
  PROVE  r[<<1, 1>>] <=> v \in Languages(ts)[Len(ts)]
<1> DEFINE n == Len(ts)
           l == Len(v)
           words == Languages(ts)
<1>1. n \in Nat /\ Len(p) \in Nat /\ l \in Nat /\ v \in Seq(Alphabet)
  BY WordsAre
<1>2. PICK at \in [1..n + 1 -> 1..Len(p) + 1] : MadeAt(ts, p, at)
  BY DEF Made
<1>3. /\ at[1] = 1 /\ at[n + 1] = Len(p) + 1
      /\ \A k \in 1..n : at[k + 1] = at[k] + Len(ts[k]) /\ TokenAt(ts[k], p, at[k])
  BY <1>2 DEF MadeAt
<1>4. /\ words[0] = {<<>>}
      /\ \A k \in 1..n : words[k] = Then(words[k - 1], ts[k])
      /\ \A k \in 0..n : words[k] \subseteq Words
  BY LanguagesAre
<1> HIDE DEF words
<1>5. ReadUpTo(v, words, r, at[1], 0)
  <2> DEFINE ok(j) == SubSeq(v, 1, j - 1) \in words[0]
  <2>1. \A j \in 1..l + 1 : ok(j) <=> j = 1
    <3> SUFFICES ASSUME NEW j \in 1..l + 1
                 PROVE  ok(j) <=> j = 1
      OBVIOUS
    <3> DEFINE w == SubSeq(v, 1, j - 1)
    <3>1. w \in Seq(Alphabet) /\ Len(w) = j - 1
      BY <1>1
    <3> HIDE DEF w
    <3>2. w = <<>> <=> j = 1
      BY <3>1
    <3>3. QED
      BY <1>4, <3>2 DEF w
  <2> HIDE DEF ok
  <2>2. 1 \in 1..l + 1 /\ at[1] = 1
    BY <1>1, <1>3
  <2>3. r[<<1, 1>>] <=> \E j \in 1..l + 1 : ok(j) /\ r[<<1, j>>]
    BY <2>1, <2>2
  <2>4. QED
    BY <2>2, <2>3 DEF ok, ReadUpTo
<1> DEFINE Q == {k \in 0..n : ReadUpTo(v, words, r, at[k + 1], k)}
<1>6. 0 \in Q
  BY <1>1, <1>5
<1>7. ASSUME NEW k \in 0..n, k < n, k \in Q
      PROVE  k + 1 \in Q
  <2> DEFINE t == ts[k + 1]
             i == at[k + 1]
  <2>1. k + 1 \in 1..n /\ k + 1 \in 0..n /\ (k + 1) - 1 = k /\ k \in Nat
    BY <1>1, <1>7
  <2>2. t \in TokensMeant /\ i \in 1..Len(p) + 1
    <3>1. k + 1 \in 1..n + 1
      BY <1>1, <2>1
    <3>2. i \in 1..Len(p) + 1
      BY <3>1
    <3>3. t \in TokensMeant
      BY <2>1
    <3>4. QED
      BY <3>2, <3>3
  <2>3. TokenAt(t, p, i) /\ at[(k + 1) + 1] = i + Len(t)
    BY <1>3, <2>1
  <2>4. words[k] \subseteq Words /\ words[k + 1] = Then(words[k], t)
    BY <1>4, <2>1
  <2>5. ReadUpTo(v, words, r, i, k)
    BY <1>7
  <2> HIDE DEF t, i, Q
  <2>6. ReadUpTo(v, words, r, i + Len(t), k + 1)
    BY <2>1, <2>2, <2>3, <2>4, <2>5, OneTokenMore
  <2>7. ReadUpTo(v, words, r, at[(k + 1) + 1], k + 1)
    BY <2>3, <2>6
  <2>8. QED
    BY <2>1, <2>7 DEF Q
<1>8. n \in Q
  <2> HIDE DEF Q, n
  <2>1. 0..n \subseteq Q
    BY <1>1, <1>6, <1>7, UpTo
  <2>2. QED
    BY <1>1, <2>1
<1>9. ReadUpTo(v, words, r, Len(p) + 1, n)
  BY <1>3, <1>8
<1>10. \A j \in 1..l + 1 : r[<<Len(p) + 1, j>>] <=> j = l + 1
  <2> SUFFICES ASSUME NEW j \in 1..l + 1
               PROVE  r[<<Len(p) + 1, j>>] <=> j = l + 1
    OBVIOUS
  <2>1. Len(p) + 1 \in 1..Len(p) + 1
    BY <1>1
  <2>2. r[<<Len(p) + 1, j>>] <=> Matched(p, v, r, Len(p) + 1, j)
    BY <2>1 DEF Answers
  <2>3. At(p, Len(p) + 1) = "end"
    BY <1>1 DEF At
  <2>4. Matched(p, v, r, Len(p) + 1, j) <=> ~(j <= l)
    BY <2>3 DEF Matched
  <2>5. QED
    BY <1>1, <2>2, <2>4
<1>11. SubSeq(v, 1, (l + 1) - 1) = v
  <2> DEFINE w == SubSeq(v, 1, (l + 1) - 1)
  <2>1. w \in Seq(Alphabet) /\ Len(w) = Len(v) /\ \A k \in 1..Len(v) : w[k] = v[k]
    BY <1>1
  <2> HIDE DEF w
  <2>2. w = v
    BY <1>1, <2>1, SeqEqual
  <2>3. QED
    BY <2>2 DEF w
<1>12. l + 1 \in 1..l + 1
  BY <1>1
<1>13. QED
  BY <1>9, <1>10, <1>11, <1>12 DEF ReadUpTo, words

--------------------------------------------------------------------------------
TokensTyped ==
  /\ tokens \in Seq(PatternTokens) /\ glob \in Seq(GlobCharacters)
  /\ tokens \in Seq(TokensMeant) => Made(tokens, glob)

LEMMA WithoutTheLast ==
  ASSUME NEW S, NEW T, NEW s \in Seq(S), NEW x, Append(s, x) \in Seq(T)
  PROVE  s \in Seq(T) /\ x \in T
<1> DEFINE n == Len(s)
           a == Append(s, x)
<1>1. n \in Nat
  OBVIOUS
<1>2. Len(a) = n + 1 /\ a[n + 1] = x /\ \A k \in 1..n : a[k] = s[k]
  <2>1. s \in Seq(S \cup {x}) /\ x \in S \cup {x}
    OBVIOUS
  <2>2. QED
    BY <2>1
<1>3. a \in Seq(T)
  OBVIOUS
<1> HIDE DEF a
<1>4. \A k \in 1..n + 1 : a[k] \in T
  BY <1>2, <1>3
<1>5. n + 1 \in 1..n + 1 /\ \A k \in 1..n : k \in 1..n + 1
  BY <1>1
<1>6. x \in T /\ \A k \in 1..n : s[k] \in T
  BY <1>2, <1>4, <1>5
<1>7. s \in Seq(T)
  <2>1. s = [k \in 1..n |-> s[k]]
    OBVIOUS
  <2>2. [k \in 1..n |-> s[k]] \in Seq(T)
    BY <1>1, <1>6
  <2>3. QED
    BY <2>1, <2>2, Zenon
<1>8. QED
  BY <1>6, <1>7

\* A token behind the others is where it is put, and the others stay where they are.
LEMMA PutBehind ==
  ASSUME NEW C, "end" \notin C, NEW p \in Seq(C), NEW ts \in Seq(TokensMeant), Made(ts, p),
         NEW t \in TokensMeant, t \in Seq(C), Separate(ts, t)
  PROVE  Made(Append(ts, t), p \o t)
<1> DEFINE n == Len(ts)
           q == p \o t
           us == Append(ts, t)
           m == Len(p)
<1>1. n \in Nat /\ m \in Nat /\ Len(t) \in Nat
  OBVIOUS
<1>2. PICK at \in [1..n + 1 -> 1..m + 1] : MadeAt(ts, p, at)
  BY DEF Made
<1>3. /\ at[1] = 1 /\ at[n + 1] = m + 1
      /\ \A k \in 1..n : at[k + 1] = at[k] + Len(ts[k]) /\ TokenAt(ts[k], p, at[k])
  BY <1>2 DEF MadeAt
<1>4. /\ q \in Seq(C) /\ Len(q) = m + Len(t)
      /\ \A i \in 1..m : q[i] = p[i]
      /\ \A i \in 1..Len(t) : q[m + i] = t[i]
  OBVIOUS
<1>5. Len(us) = n + 1 /\ us[n + 1] = t /\ \A k \in 1..n : us[k] = ts[k]
  OBVIOUS
<1>6. Len(t) > 0
  BY TokenIsSome
<1>7. \A i \in 1..m : At(q, i) = At(p, i)
  BY <1>1, <1>4 DEF At
<1>8. At(q, m + 1) = t[1] /\ Head(t) = t[1]
  BY <1>1, <1>4, <1>6 DEF At
<1>9. At(q, m + Len(t) + 1) = "end"
  BY <1>1, <1>4 DEF At
<1> DEFINE to == [k \in 1..n + 2 |-> IF k <= n + 1 THEN at[k] ELSE m + Len(t) + 1]
<1>10. to \in [1..n + 2 -> 1..m + Len(t) + 1]
  BY <1>1
<1>11. /\ to[1] = 1 /\ to[n + 2] = m + Len(t) + 1 /\ to[n + 1] = m + 1
       /\ \A k \in 1..n : to[k] = at[k] /\ to[k + 1] = at[k + 1]
  BY <1>1, <1>3
<1> HIDE DEF to, q, us
<1>12. TokenAt(t, q, m + 1)
  <2> DEFINE i == m + 1
  <2>1. i + Len(t) <= Len(q) + 1
    BY <1>1, <1>4
  <2>2. \A k \in 1..Len(t) : q[i + k - 1] = t[k]
    <3>1. \A k \in 1..Len(t) : i + k - 1 = m + k
      BY <1>1
    <3>2. QED
      BY <1>4, <3>1
  <2>3. At(q, i + Len(t)) = "end"
    <3>1. i + Len(t) = m + Len(t) + 1
      BY <1>1
    <3>2. QED
      BY <1>9, <3>1
  <2>4. Follows(t, q, i + Len(t))
    BY <2>3 DEF Follows
  <2> HIDE DEF i
  <2>5. TokenAt(t, q, i)
    BY <2>1, <2>2, <2>4 DEF TokenAt
  <2>6. QED
    BY <2>5 DEF i
<1>13. ASSUME NEW k \in 1..n
       PROVE  TokenAt(ts[k], q, at[k])
  <2> DEFINE u == ts[k]
             i == at[k]
             next == at[k + 1]
  <2>1. u \in TokensMeant /\ k \in 1..n + 1 /\ k + 1 \in 1..n + 1
    BY <1>1
  <2>2. i \in 1..m + 1 /\ next \in 1..m + 1
    BY <2>1
  <2>3. next = i + Len(u) /\ TokenAt(u, p, i)
    BY <1>3
  <2>4. /\ Len(u) \in Nat /\ Len(u) > 0 /\ i + Len(u) - 1 \in i..m
        /\ \A a \in 1..Len(u) : i + a - 1 \in 1..m /\ p[i + a - 1] = u[a]
    <3> HIDE DEF u, i
    <3>1. QED
      BY <2>1, <2>2, <2>3, Occurs
  <2> HIDE DEF u, i, next
  <2>5. i + Len(u) <= Len(q) + 1
    BY <1>1, <1>4, <2>2, <2>3
  <2>6. \A a \in 1..Len(u) : q[i + a - 1] = u[a]
    BY <1>4, <2>4
  <2>7. Follows(u, q, next)
    <3>1. Follows(u, p, next)
      BY <2>3 DEF TokenAt
    <3>2. CASE k = n
      <4>1. next = m + 1 /\ ts # <<>> /\ Last(ts) = u
        BY <1>1, <1>3, <3>2 DEF Last, u, next
      <4>2. At(q, next) = Head(t)
        BY <1>8, <4>1
      <4>3. /\ u = Star => Head(t) # "*"
            /\ u = <<"*", "*">> => Head(t) # "/"
            /\ u # <<"[">>
        BY <4>1 DEF Separate
      <4>4. QED
        BY <4>2, <4>3 DEF Follows
    <3>3. CASE k # n
      <4>1. k + 1 \in 1..n
        BY <1>1, <3>3
      <4>2. TokenAt(ts[k + 1], p, next) /\ ts[k + 1] \in TokensMeant
        BY <1>3, <4>1 DEF next
      <4>3. Len(ts[k + 1]) \in Nat /\ Len(ts[k + 1]) > 0
        BY <4>2, TokenIsSome
      <4>4. next + Len(ts[k + 1]) <= m + 1
        BY <4>2 DEF TokenAt
      <4>5. next \in 1..m
        BY <1>1, <2>2, <4>3, <4>4
      <4>6. At(q, next) = At(p, next)
        BY <1>7, <4>5
      <4>7. QED
        BY <3>1, <4>6 DEF Follows
    <3>4. QED
      BY <3>2, <3>3
  <2>8. TokenAt(u, q, i)
    BY <2>3, <2>5, <2>6, <2>7 DEF TokenAt
  <2>9. QED
    BY <2>8 DEF u, i
<1>14. ASSUME NEW k \in 1..n + 1
       PROVE  to[k + 1] = to[k] + Len(us[k]) /\ TokenAt(us[k], q, to[k])
  <2>1. CASE k \in 1..n
    <3>1. us[k] = ts[k] /\ to[k] = at[k] /\ to[k + 1] = at[k + 1]
      BY <1>5, <1>11, <2>1
    <3>2. at[k + 1] = at[k] + Len(ts[k]) /\ TokenAt(ts[k], q, at[k])
      BY <1>3, <1>13, <2>1
    <3>3. QED
      BY <3>1, <3>2
  <2>2. CASE k = n + 1
    <3>1. k + 1 = n + 2
      BY <1>1, <2>2
    <3>2. us[k] = t /\ to[k + 1] = m + Len(t) + 1 /\ to[k] = m + 1
      BY <1>5, <1>11, <2>2, <3>1
    <3>3. m + Len(t) + 1 = (m + 1) + Len(t)
      BY <1>1
    <3>4. QED
      BY <1>12, <3>2, <3>3
  <2>3. QED
    BY <1>1, <2>1, <2>2
<1>15. MadeAt(us, q, to)
  <2>1. Len(us) + 1 = n + 2 /\ Len(q) + 1 = m + Len(t) + 1
    BY <1>1, <1>4, <1>5
  <2>2. QED
    BY <1>5, <1>11, <1>14, <2>1 DEF MadeAt
<1>16. to \in [1..Len(us) + 1 -> 1..Len(q) + 1]
  <2>1. Len(us) + 1 = n + 2 /\ Len(q) + 1 = m + Len(t) + 1
    BY <1>1, <1>4, <1>5
  <2>2. QED
    BY <1>10, <2>1
<1>17. QED
  BY <1>15, <1>16 DEF Made, q, us

LEMMA TokensAreTyped == Spec => []TokensTyped
<1>1. Init => TokensTyped
  <2> SUFFICES ASSUME Init
               PROVE  TokensTyped
    OBVIOUS
  <2>1. tokens = <<>> /\ glob = <<>>
    BY DEF Init, NoPattern
  <2> DEFINE at == [k \in 1..1 |-> 1]
  <2>2. at \in [1..1 -> 1..1] /\ at[1] = 1
    OBVIOUS
  <2>3. /\ Len(tokens) = 0 /\ Len(glob) = 0 /\ 1..0 = {}
        /\ Len(tokens) + 1 = 1 /\ Len(glob) + 1 = 1
    BY <2>1
  <2> HIDE DEF at
  <2>4. Made(tokens, glob)
    BY <2>2, <2>3 DEF Made, MadeAt
  <2>5. QED
    BY <2>1, <2>4 DEF TokensTyped
<1>2. ASSUME TokensTyped, [Next]_vars
      PROVE  TokensTyped'
  <2>1. CASE MorePattern
    <3>1. PICK t \in PatternTokens :
            Separate(tokens, t) /\ glob' = glob \o t /\ tokens' = Append(tokens, t)
      BY <2>1 DEF MorePattern
    <3>2. t \in Seq(GlobCharacters) /\ "end" \notin GlobCharacters
      BY PatternTokensAreTexts
    <3>3. /\ tokens \in Seq(PatternTokens) /\ glob \in Seq(GlobCharacters)
          /\ tokens \in Seq(TokensMeant) => Made(tokens, glob)
      BY <1>2 DEF TokensTyped
    <3>4. ASSUME Append(tokens, t) \in Seq(TokensMeant)
          PROVE  Made(Append(tokens, t), glob \o t)
      <4>1. tokens \in Seq(TokensMeant) /\ t \in TokensMeant
        BY <3>3, <3>4, WithoutTheLast
      <4>2. QED
        BY <3>1, <3>2, <3>3, <4>1, PutBehind
    <3>5. tokens' \in Seq(PatternTokens) /\ glob' \in Seq(GlobCharacters)
      BY <3>1, <3>2, <3>3
    <3>6. QED
      BY <3>1, <3>4, <3>5 DEF TokensTyped
  <2>2. CASE UNCHANGED <<glob, tokens>>
    BY <1>2, <2>2 DEF TokensTyped
  <2>3. QED
    BY <1>2, <2>1, <2>2 DEF Next, vars
<1>3. QED
  BY <1>1, <1>2, PTL DEF Spec

\* Whatever pattern of tokens with a meaning: glob_matches accepts a path exactly if it is a word of
\* the pattern, token by token; its memo and its backtracking neither lose nor add one.
THEOREM PatternsMean == Spec => []MatchesMeaning
<1>1. TokensTyped => MatchesMeaning
  <2> SUFFICES ASSUME TokensTyped, \A k \in DOMAIN tokens : Meaningful(tokens[k])
               PROVE  {w \in Words : glob_matches(glob, w)} = Language
    BY DEF MatchesMeaning
  <2>1. /\ tokens \in Seq(TokensMeant) /\ glob \in Seq(GlobCharacters) /\ Made(tokens, glob)
        /\ "end" \notin GlobCharacters
    <3>1. tokens \in Seq(PatternTokens) /\ glob \in Seq(GlobCharacters)
      BY DEF TokensTyped
    <3>2. tokens \in Seq(TokensMeant)
      <4>1. Len(tokens) \in Nat /\ DOMAIN tokens = 1..Len(tokens)
              /\ \A k \in 1..Len(tokens) : tokens[k] \in PatternTokens
        BY <3>1
      <4>2. \A k \in 1..Len(tokens) : tokens[k] \in TokensMeant
        BY <4>1 DEF TokensMeant
      <4>3. tokens = [k \in 1..Len(tokens) |-> tokens[k]]
        BY <3>1
      <4>4. [k \in 1..Len(tokens) |-> tokens[k]] \in Seq(TokensMeant)
        BY <4>1, <4>2
      <4>5. QED
        BY <4>3, <4>4, Zenon
    <3>3. QED
      BY <3>1, <3>2, PatternTokensAreTexts DEF TokensTyped
  <2>2. Language \subseteq Words
    <3>1. Len(tokens) \in 0..Len(tokens)
      BY <2>1
    <3>2. QED
      BY <2>1, <3>1, LanguagesAre DEF Language
  <2>3. ASSUME NEW v \in Words
        PROVE  glob_matches(glob, v) <=> v \in Language
    <3> DEFINE C == GlobCharacters \cup Alphabet
    <3>1. glob \in Seq(C) /\ v \in Seq(C)
      <4>1. v \in Seq(Alphabet)
        BY WordsAre
      <4>2. QED
        BY <2>1, <4>1
    <3> HIDE DEF C
    <3>2. PICK r : (glob_matches(glob, v) <=> r[<<1, 1>>]) /\ Answers(glob, v, r)
      BY <3>1, MatchingIs DEF Answers
    <3>3. r[<<1, 1>>] <=> v \in Languages(tokens)[Len(tokens)]
      BY <2>1, <3>2, TokensAreRead
    <3>4. QED
      BY <3>2, <3>3 DEF Language
  <2>4. QED
    BY <2>2, <2>3
<1>2. QED
  BY <1>1, TokensAreTyped, PTL
================================================================================
