---------------------------- MODULE MCMatchTable ----------------------------
(***************************************************************************)
(* Two concurrent requests; MaxCalls bounds the requests in all, at five:  *)
(* a run, two that overlap, a run that repairs and one that follows it.    *)
(* Two transactions on each side, of which the engine pairs one.           *)
(***************************************************************************)
EXTENDS MatchTable, TLC

CONSTANTS p1, p2, q1, q2
MCPos == {p1, p2}
MCPlat == {q1, q2}
MCAutoPairs == {<<p1, q1>>}
MCSymmetry == Permutations(Workers)
=============================================================================
