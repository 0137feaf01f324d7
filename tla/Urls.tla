--------------------------------- MODULE Urls ---------------------------------
(***************************************************************************)
(* File URLs: resolve (opendal/src/uri.rs) and od_url_build (lib.rs).      *)
(*                                                                         *)
(* A text is a sequence of characters and grows by a token at a step, a    *)
(* token being a character or a whole escape; the scheme and its "://" are *)
(* taken off, and texts without them are refused.  Every state is an       *)
(* input; the operators are the program.                                   *)
(***************************************************************************)
EXTENDS Naturals, SequencesExt

CONSTANTS
  UrlTokens,     \* sequences of characters texts are built from
  MaxUrlTokens,  \* bound: tokens in a text
  Schemes,       \* the spellings of a scheme a URL may have
  Lower,         \* their lower-case forms
  Registered,    \* the schemes OpenDAL's registry knows
  Escapes,       \* the byte of each pair of hexadecimal digits
  NotUtf8        \* the bytes among them that no valid UTF-8 text has

\* Mutant: a percent sign in a name is left as it is.
URL_PATH_ENCODE_SET_percent == {" ", "\"", "#", "?"}

\* Besides the control characters.
URL_PATH_ENCODE_SET == {" ", "\"", "#", "%", "?"}

\* Texts are C strings and UTF-8; digits are none of the characters that mean something in a URL;
\* what must be escaped can be.
ASSUME UrlAssumption ==
  /\ \A t \in UrlTokens : t \in Seq(Range(t)) /\ Range(t) \cap (NotUtf8 \cup {"NUL"}) = {}
  /\ \A d \in DOMAIN Escapes : d = <<d[1], d[2]>>
  /\ \A d \in DOMAIN Escapes : {d[1], d[2]} \cap {"%", "/", "\\", "?", "#"} = {}
  /\ \A byte \in URL_PATH_ENCODE_SET : \E d \in DOMAIN Escapes : Escapes[d] = byte /\ d[2] # "f"

VARIABLES
  scheme,
  text,       \* what follows "://"
  drawn       \* how many tokens it is made of

NoText == scheme \in Schemes /\ text = <<>> /\ drawn = 0

MoreText ==
  /\ drawn < MaxUrlTokens /\ drawn' = drawn + 1
  /\ \E t \in UrlTokens : text' = text \o t
  /\ UNCHANGED scheme

--------------------------------------------------------------------------------
HasAny(s, chars) == \E k \in DOMAIN s : s[k] \in chars

\* Where a text holds an escape, and where one of a given byte.
Escaped(s, k) == k + 2 <= Len(s) /\ s[k] = "%" /\ <<s[k + 1], s[k + 2]>> \in DOMAIN Escapes
EscapeAt(s, k, byte) == Escaped(s, k) /\ Escapes[<<s[k + 1], s[k + 2]>>] = byte

\* The character at k, after what has been decoded before it: how many more the last escape has.
Decoded(s, before, k) ==
  IF before.left > 0 THEN [out |-> before.out, left |-> before.left - 1]
  ELSE IF Escaped(s, k)
    THEN [out |-> Append(before.out, Escapes[<<s[k + 1], s[k + 2]>>]), left |-> 2]
    ELSE [out |-> Append(before.out, s[k]), left |-> 0]

Decoding(s) ==
  LET read[k \in 0..Len(s)] ==
        IF k = 0 THEN [out |-> <<>>, left |-> 0] ELSE Decoded(s, read[k - 1], k)
  IN read

\* percent_decode_str: a "%" without two digits after it stands for itself.
decoded(s) == Decoding(s)[Len(s)].out

Refused == [ok |-> FALSE]

\* Mutant: only the upper-case spelling of an escaped separator is refused.
EscapedSeparator_uppercase(encoded) ==
  \E k \in DOMAIN encoded : EscapeAt(encoded, k, "/") /\ encoded[k + 2] = "F"

EscapedSeparator(encoded) == \E k \in DOMAIN encoded : EscapeAt(encoded, k, "/")

resolve(spelling, rest) ==
  LET url == [k \in DOMAIN rest |-> IF rest[k] = "\\" THEN "/" ELSE rest[k]]
      slash == SelectInSeq(url, LAMBDA c : c = "/")
      authority == IF slash = 0 THEN url ELSE SubSeq(url, 1, slash - 1)
      encoded == IF slash = 0 THEN <<>> ELSE SubSeq(url, slash + 1, Len(url))
      path == decoded(encoded)
  IN IF \/ HasAny(url, {"?", "#"}) \/ Lower[spelling] \notin Registered \/ HasAny(authority, {"@"})
        \/ EscapedSeparator(encoded) \/ HasAny(path, NotUtf8 \cup {"NUL"})
     THEN Refused
     ELSE [ok |-> TRUE, scheme |-> Lower[spelling], authority |-> authority, path |-> path]

\* The capital spelling of a byte's escape.
EscapeOf(byte) == <<"%">> \o CHOOSE d \in DOMAIN Escapes : Escapes[d] = byte /\ d[2] # "f"

\* What follows "://" in the URL od_url_build gives an entry.
od_url_build(authority, path) ==
  authority \o <<"/">>
    \o FlattenSeq([k \in DOMAIN path |->
                     IF path[k] \in URL_PATH_ENCODE_SET THEN EscapeOf(path[k]) ELSE <<path[k]>>])

--------------------------------------------------------------------------------
(***************************************************************************)
(* Properties.                                                             *)
(***************************************************************************)
Separators(s) == {k \in DOMAIN s : s[k] \in {"/", "\\"}}

\* Every name without a backslash, those that look like escapes, queries or fragments included, has
\* a URL that means it: what Glob returns for an entry opens that entry.
EveryNameHasAUrl ==
  LET r == resolve(scheme, od_url_build(<<"b">>, text))
  IN Lower[scheme] \in Registered /\ ~HasAny(text, {"\\"}) =>
       r = [ok |-> TRUE, scheme |-> Lower[scheme], authority |-> <<"b">>, path |-> text]

\* No escape, of whatever case and after whatever other, puts a separator into the path of a URL
\* that is accepted: the path has those of the text, but for the one that ends the authority.
SeparatorsAreVisible ==
  LET r == resolve(scheme, text)
  IN r.ok /\ Separators(text) # {} =>
       Cardinality({k \in DOMAIN r.path : r.path[k] = "/"}) = Cardinality(Separators(text)) - 1
================================================================================
