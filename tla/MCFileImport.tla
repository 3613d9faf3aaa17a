---------------------------- MODULE MCFileImport ----------------------------
(***************************************************************************)
(* Three uploads, as many at a time as there are (one sets a version, two  *)
(* that race for the next), two contents so that a duplicate and a         *)
(* correction both occur, beside one request that moves the analysis on.   *)
(***************************************************************************)
EXTENDS FileImport, TLC

MCSymmetry == Permutations(Uploaders) \cup Permutations(Contents)
                \cup Permutations(Extensions)
=============================================================================
