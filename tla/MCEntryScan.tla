------------------------------ MODULE MCEntryScan ------------------------------
(* A directory with a subdirectory, one file in each and one more:             *)
(* 1 = d/, 2 = d/a, 3 = d/s/, 4 = d/s/b, 5 = d/s/c.                            *)
EXTENDS EntryScan

MCParent == <<1, 1, 1, 2, 2>>
MCDirs == {1, 3}
MCMatching == {1, 4}
MCSize == <<0, 1, 0, 1, 2>>
================================================================================
