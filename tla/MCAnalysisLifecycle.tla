------------------------ MODULE MCAnalysisLifecycle ------------------------
(***************************************************************************)
(* Three analyses, enough for a version of a version or two versions of    *)
(* one, and three requests at a time: one that finishes the analysis while *)
(* two others hold what they read before.                                  *)
(***************************************************************************)
EXTENDS AnalysisLifecycle, TLC

MCSymmetry == Permutations(Clerks) \cup Permutations(Analyses)
=============================================================================
