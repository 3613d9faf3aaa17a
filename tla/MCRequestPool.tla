---------------------------- MODULE MCRequestPool ----------------------------
(***************************************************************************)
(* Two threads and three connections, the thread limit below the pool as   *)
(* docs/SETTINGS.md asks, and five requests.                               *)
(***************************************************************************)
EXTENDS RequestPool, TLC

CONSTANTS q1, q2, q3, q4, q5
=============================================================================
