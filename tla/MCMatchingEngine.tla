-------------------------- MODULE MCMatchingEngine --------------------------
(***************************************************************************)
(* Up to two POS and three platform transactions.  Local dates are two     *)
(* instants long and shifted by one, so instants 1 and 2 share a date and  *)
(* 0..3 span three dates: a POS order on the middle date has platform rows *)
(* on both sides at the same distance, one on the first date has the last  *)
(* date outside a window of one day.                                       *)
(***************************************************************************)
EXTENDS MatchingEngine

MCInstants == 0..3
MCLocalDay == [t \in MCInstants |-> (t + 1) \div 2]
MCPosInputs ==
  [ref : {<<"a", "plain">>, <<"b", "plain">>}, price : {"x"}, at : MCInstants]
MCPlatInputs ==
  [ref : {<<"a", "padded">>, <<"c", "plain">>}, price : {"x"}, at : MCInstants]
    \cup [ref : {<<"b", "plain">>}, price : {"y"}, at : {0, 2}]

=============================================================================
