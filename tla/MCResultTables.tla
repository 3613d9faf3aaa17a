--------------------------- MODULE MCResultTables ---------------------------
(***************************************************************************)
(* Two concurrent requests.  Two cancelled orders that share a reference,  *)
(* of which one has no contract on its day; an order that is paired,       *)
(* charged too much and paid short; a refunded one; a payment for nothing. *)
(* Five requests: a comparison, a detection, two answers and a detection.  *)
(* The match rows change once, by a matching run or by hand.               *)
(***************************************************************************)
EXTENDS AnalysisResults, TLC

CONSTANTS p1, p2, p3, p4, q1, q2, a, b
MCPos == {p1, p2, p3, p4}
MCPlat == {q1, q2}
MCAutoPairs == {<<p3, q1>>}
MCRefs == {a, b}
MCRef == (p1 :> a) @@ (p2 :> a) @@ (p3 :> b) @@ (p4 :> b)
MCStatus == (p1 :> "CANCELLED") @@ (p2 :> "CANCELLED") @@ (p3 :> "OTHER") @@ (p4 :> "REFUNDED_OR_VOID")
MCAmount == (p1 :> 4002) @@ (p2 :> 3000) @@ (p3 :> 10000) @@ (p4 :> 2500)
              @@ (q1 :> 9890) @@ (q2 :> 2400)
MCCharged == (q1 :> 2601) @@ (q2 :> 500)
MCRate == (p1 :> 250) @@ (p2 :> None) @@ (p3 :> 250) @@ (p4 :> 250)
MCSymmetry == Permutations(Workers)
=============================================================================
