------------------------------- MODULE MCInputs -------------------------------
EXTENDS Inputs

(* Patterns of up to four tokens against paths of up to four characters over     *)
(* two letters and the separator.                                                *)
MCPatternTokens ==
  {<<"a">>, <<"b">>, <<"/">>, <<"*">>, <<"?">>, <<"*", "*">>, <<"*", "*", "/">>,
   <<"[", "a", "-", "b", "]">>, <<"[", "!", "a", "]">>, <<"[", "/", "-", "]">>, <<"[">>}

MCCharacters == <<"!", "*", "-", "/", "?", "[", "]", "^", "a", "b">>

--------------------------------------------------------------------------------
(* Texts of up to four tokens: separators, escapes of both cases, broken         *)
(* escapes, and characters that only mean something when escaped.                *)
MCUrlTokens ==
  {<<"x">>, <<"2">>, <<"F">>, <<"%">>, <<"/">>, <<"\\">>, <<"@">>, <<"?">>, <<"*">>,
   <<"%", "2", "f">>, <<"%", "2", "5">>, <<"%", "3", "F">>, <<"%", "5", "C">>,
   <<"%", "2", "A">>, <<"%", "0", "0">>}

MCEscapes ==
  (<<"2", "F">> :> "/") @@ (<<"2", "f">> :> "/") @@ (<<"2", "5">> :> "%")
    @@ (<<"2", "0">> :> " ") @@ (<<"2", "3">> :> "#") @@ (<<"2", "2">> :> "\"")
    @@ (<<"3", "F">> :> "?") @@ (<<"5", "C">> :> "\\")
    @@ (<<"2", "A">> :> "*") @@ (<<"0", "0">> :> "NUL")
    @@ (<<"F", "F">> :> "0xFF") @@ (<<"F", "2">> :> "0xF2")

MCLower == [s3 |-> "s3", S3 |-> "s3", ftp |-> "ftp"]

--------------------------------------------------------------------------------
(* Up to three options and a u64 of five bits; "K" stands for the decimal and    *)
(* binary units of bytes, "k" for those of bits.                                 *)
Number(n) == [n |-> n, unit |-> ""]
In(ns, unit) == {[n |-> n, unit |-> unit] : n \in ns}
Junk == [n |-> 1, unit |-> "shards"]

TheSizes == {Number(0), Number(31), Number(32)} \cup In({0, 3, 4}, "K")
              \cup In({7, 16}, "b") \cup In({2}, "k") \cup {Junk}
TheTimes == In({0, 3}, "") \cup In({0, 5}, "ms") \cup In({1}, "m") \cup {Junk}
TheNumbers == {Number(0), Number(2), Number(32), Junk}

MCTexts ==
  [type \in {"size", "positive size"} |-> TheSizes]
  @@ [type \in {"duration", "positive duration"} |-> TheTimes]
  @@ [type \in {"usize", "positive", "factor", "boolean", "path"} |-> TheNumbers]

MCSizeFactor == ("" :> 1) @@ ("K" :> 10) @@ ("b" :> 1) @@ ("k" :> 12)
MCTimeFactor == ("" :> 2) @@ ("ms" :> 1) @@ ("m" :> 8)
MCStrangers == {<<"cache", "shradz">>, <<"opendal">>, <<"net", "shards">>}
================================================================================
