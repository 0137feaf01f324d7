------------------------------ MODULE MCCopyCursor ------------------------------
(* A tree copied into itself: s1 is copied onto s2, which is a source too,  *)
(* s2 onto s3, and s3 onto d, a name outside the listing.  (dir/ copied to  *)
(* dir/x/ when dir/a, dir/x/a and dir/x/x/a exist.)                         *)
EXTENDS CopyCursor, TLC

CONSTANTS s1, s2, s3, d, small, large

MCObjects == {s1, s2, s3, d}
MCSources == {s1, s2, s3}
MCContents == {small, large}
MCBlocksOf == small :> 1 @@ large :> 3

IntoItself == s1 :> s2 @@ s2 :> s3 @@ s3 :> d
================================================================================
