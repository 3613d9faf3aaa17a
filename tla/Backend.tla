------------------------------- MODULE Backend -------------------------------
(***************************************************************************)
(* What the modules of the services that are checked together share.  A    *)
(* worker is a request with a database session of its own.                 *)
(***************************************************************************)
EXTENDS Naturals, FiniteSets, Sequences

CONSTANTS
  Workers,
  None       \* SQL NULL, and the absence of a value in a request

ASSUME WorkersAssumption == Workers # {} /\ None \notin Workers

\* A table with a row more.
Extend(f, x, y) == [z \in DOMAIN f \cup {x} |-> IF z = x THEN y ELSE f[z]]
=============================================================================
