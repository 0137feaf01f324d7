--------------------------------- MODULE Globs ---------------------------------
(***************************************************************************)
(* Full-path globs: the matcher (glob_matches in opendal/src/table.rs) and *)
(* the three callers that list a directory and keep what matches: Glob of  *)
(* the file system, opendal_ls and opendal_du.                             *)
(*                                                                         *)
(* A pattern is built from tokens, one per step, so that its meaning can   *)
(* be given token by token and compared with what the matcher makes of the *)
(* characters.  Every state is an input; the operators are the program.    *)
(***************************************************************************)
EXTENDS Integers, SequencesExt

CONSTANTS
  PatternTokens,     \* sequences of characters patterns are built from
  MaxPatternTokens,  \* bound: tokens in a pattern
  Alphabet,          \* the characters of the paths matched against
  MaxLength,         \* bound: characters of a path
  Characters         \* the characters in use, in the order of their codes

Wildcards == {"*", "?", "["}
Star == <<"*">>

ASSUME GlobAssumption ==
  /\ MaxLength \in Nat
  /\ \A t \in PatternTokens : t \in Seq(Range(t)) /\ "end" \notin Range(t)

VARIABLES
  glob,       \* a pattern
  tokens      \* what it is made of

\* A token that would merge with the one before it is not a token of its own: after a star, and
\* after a bracket that is left open.
Separate(ts, t) ==
  ts # <<>> =>
    /\ Last(ts) = Star => Head(t) # "*"
    /\ Last(ts) = <<"*", "*">> => Head(t) # "/"
    /\ Last(ts) # <<"[">>

NoPattern == glob = <<>> /\ tokens = <<>>

MorePattern ==
  \E t \in PatternTokens :
    /\ Len(tokens) < MaxPatternTokens /\ Separate(tokens, t)
    /\ glob' = glob \o t /\ tokens' = Append(tokens, t)

--------------------------------------------------------------------------------
Code(c) == CHOOSE k \in DOMAIN Characters : Characters[k] = c

\* Mutant: the end of a range is not part of it.
ClassHasOpenRange(class, c) ==
  LET hit[k \in 1..Len(class) + 3] ==
        IF k > Len(class) THEN FALSE
        ELSE IF k + 2 <= Len(class) /\ class[k + 1] = "-"
          THEN Code(c) \in Code(class[k])..(Code(class[k + 2]) - 1) \/ hit[k + 3]
          ELSE class[k] = c \/ hit[k + 1]
  IN hit[1]

\* The members of a bracket: characters, and ranges wherever a "-" has a character on both sides.
ClassHas(class, c) ==
  LET hit[k \in 1..Len(class) + 3] ==
        IF k > Len(class) THEN FALSE
        ELSE IF k + 2 <= Len(class) /\ class[k + 1] = "-"
          THEN Code(c) \in Code(class[k])..Code(class[k + 2]) \/ hit[k + 3]
          ELSE class[k] = c \/ hit[k + 1]
  IN hit[1]

InClass(class, c) ==
  LET negated == class # <<>> /\ Head(class) \in {"!", "^"}
  IN ClassHas(IF negated THEN Tail(class) ELSE class, c) # negated

At(pattern, k) == IF k <= Len(pattern) THEN pattern[k] ELSE "end"

\* Does the pattern from its i-th character match the value from its j-th, by the answers of run?
Matched(pattern, value, run, i, j) ==
  LET c == At(pattern, i)
      doubled == At(pattern, i + 1) = "*"
      more == j <= Len(value)
      name == more /\ value[j] # "/"
  IN CASE c = "end" -> ~more
       [] c = "*" /\ doubled ->
            \/ At(pattern, i + 2) = "/" /\ run[<<i + 3, j>>]
            \/ run[<<i + 2, j>>]
            \/ more /\ run[<<i, j + 1>>]
       [] c = "*" /\ ~doubled -> run[<<i + 1, j>>] \/ (name /\ run[<<i, j + 1>>])
       [] c = "?" -> name /\ run[<<i + 1, j + 1>>]
       [] c = "[" ->
            \E end \in i + 1..Len(pattern) :
              /\ pattern[end] = "]" /\ \A k \in i..end - 1 : pattern[k] # "]"
              /\ name /\ InClass(SubSeq(pattern, i + 1, end - 1), value[j])
              /\ run[<<end + 1, j + 1>>]
       [] OTHER -> more /\ c = value[j] /\ run[<<i + 1, j + 1>>]

glob_matches(pattern, value) ==
  LET run[place \in (1..Len(pattern) + 1) \X (1..Len(value) + 1)] ==
        Matched(pattern, value, run, place[1], place[2])
  IN run[<<1, 1>>]

has_glob(path) == \E k \in DOMAIN path : path[k] \in Wildcards

trim_start(path) ==
  SubSeq(path, 1 + Len(path) - Cardinality({k \in DOMAIN path : \E i \in 1..k : path[i] # "/"}),
         Len(path))

\* How many characters come before the first wildcard: the text itself without one.
fixed(path) ==
  Cardinality({k \in DOMAIN path : \A i \in 1..k : path[i] \notin Wildcards})

\* Mutant: the directory is cut at the last separator of the whole pattern.
glob_root_last(pattern) ==
  LET slashes == {k \in DOMAIN pattern : pattern[k] = "/"}
  IN SubSeq(pattern, 1, IF slashes = {} THEN 0 ELSE Max(slashes))

\* Everything up to the last separator before the first wildcard.
glob_root(pattern) ==
  LET slashes == {k \in 1..fixed(pattern) : pattern[k] = "/"}
  IN SubSeq(pattern, 1, IF slashes = {} THEN 0 ELSE Max(slashes))

\* The service's listing of a directory, of the files among paths; a leading separator is the root.
Lists(dir, recursive, path) ==
  LET prefix == trim_start(dir)
      rest == SubSeq(path, Len(prefix) + 1, Len(path))
  IN /\ IsPrefix(prefix, path) /\ rest # <<>>
     /\ recursive \/ \A k \in DOMAIN rest : rest[k] # "/"

\* od_table_glob_open and the glob branch of od_table_du_open: always recursive.
LsGlob(pattern, files) ==
  {path \in files : Lists(glob_root(pattern), TRUE, path)
                      /\ glob_matches(trim_start(pattern), path)}

\* OpenDalFileSystem::Glob lists one level if no separator and no "**" follows the directory.
glob_recursive(rel) ==
  LET rest == SubSeq(rel, Len(glob_root(rel)) + 1, Len(rel))
  IN \/ \E k \in DOMAIN rest : rest[k] = "/"
     \/ \E k \in 1..Len(rest) - 1 : rest[k] = "*" /\ rest[k + 1] = "*"

Glob(rel, files) ==
  {path \in files : Lists(glob_root(rel), glob_recursive(rel), path)
                      /\ glob_matches(trim_start(rel), path)}

--------------------------------------------------------------------------------
(***************************************************************************)
(* Properties.                                                             *)
(***************************************************************************)
Words == BoundedSeq(Alphabet, MaxLength)

Literal(t) == Len(t) = 1 /\ t[1] \notin Wildcards

Bracket(t) ==
  /\ Len(t) > 1 /\ t[1] = "[" /\ t[Len(t)] = "]" /\ \A k \in 1..Len(t) - 1 : t[k] # "]"
Between(t) == SubSeq(t, 2, Len(t) - 1)
Negated(t) == Between(t) # <<>> /\ Head(Between(t)) \in {"!", "^"}
Class(t) == IF Negated(t) THEN Tail(Between(t)) ELSE Between(t)
IsRange(class) == Len(class) = 3 /\ class[2] = "-"
Single(class) == \A k \in 2..Len(class) - 1 : class[k] # "-"

\* The tokens with a meaning of their own: of the brackets, one range or single characters.
Meaningful(t) ==
  \/ t \in {Star, <<"*", "*">>, <<"*", "*", "/">>, <<"?">>, <<"[">>}
  \/ Literal(t)
  \/ Bracket(t) /\ (IsRange(Class(t)) \/ Single(Class(t)))

Members(class) ==
  IF IsRange(class) THEN {c \in Alphabet : Code(c) \in Code(class[1])..Code(class[3])}
                    ELSE Range(class)

\* The words a token stands for.
Meaning(t) ==
  {w \in Words :
     \/ t = Star /\ "/" \notin Range(w)
     \/ t \in {<<"*", "*">>, <<"*", "*", "/">>}
     \/ Literal(t) /\ w = t
     \/ /\ Len(w) = 1 /\ w[1] # "/"
        /\ \/ t = <<"?">>
           \/ Bracket(t) /\ (w[1] \in Members(Class(t)) <=> ~Negated(t))}

\* Those that begin with one of ws and go on with one of t.
Then(ws, t) == {w \in {u \o v : u \in ws, v \in Meaning(t)} : Len(w) <= MaxLength}

\* The words that the first tokens of a list stand for, one after the other.
Languages(ts) ==
  LET language[k \in 0..Len(ts)] == IF k = 0 THEN {<<>>} ELSE Then(language[k - 1], ts[k])
  IN language
Language == Languages(tokens)[Len(tokens)]

\* The matcher, with its memo, its backtracking and its brackets, accepts exactly the words the
\* pattern stands for: "*" and "?" and brackets stop at a separator, "**" does not, and "**/"
\* stands for the same as "**", so a name after it may begin in the middle of a segment.
MatchesMeaning ==
  (\A k \in DOMAIN tokens : Meaningful(tokens[k])) =>
    {w \in Words : glob_matches(glob, w)} = Language

Files == {w \in Words : w # <<>> /\ Head(w) # "/" /\ Last(w) # "/"
                          /\ \A k \in 1..Len(w) - 1 : w[k] # "/" \/ w[k + 1] # "/"}

\* Restricting the listing to a directory, and to one level, loses no match: Glob, opendal_ls and
\* opendal_du find every file that matches, so they find the same ones.
ListingLosesNothing ==
  has_glob(glob) =>
    LET matching == {f \in Files : glob_matches(trim_start(glob), f)}
    IN Glob(glob, Files) = matching /\ LsGlob(glob, Files) = matching
================================================================================
