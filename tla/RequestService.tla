--------------------------- MODULE RequestService ---------------------------
(***************************************************************************)
(* What the request execution promises: requests are accepted at any time, *)
(* a bounded number of them run, a bounded number holds a connection, which *)
(* only a running request takes, and every accepted request is answered.   *)
(* RequestPool implements it.                                              *)
(***************************************************************************)
EXTENDS Naturals, FiniteSets

CONSTANTS Requests, Threads, Connections

VARIABLES
  pending,    \* requests accepted and not answered
  running,    \* those that have a thread
  attached    \* those that have a connection

service == <<pending, running, attached>>

ServiceInit == pending = {} /\ running = {} /\ attached = {}

Accept(q) ==
  /\ q \notin pending
  /\ pending' = pending \cup {q}
  /\ UNCHANGED <<running, attached>>

Work(q) ==
  /\ q \in pending
  /\ running' \in {running, running \cup {q}, running \ {q}}
  /\ attached' \in {attached, attached \ {q}} \cup {attached \cup {r} : r \in running \cap {q}}
  /\ Cardinality(running') <= Threads /\ Cardinality(attached') <= Connections
  /\ UNCHANGED pending

Reply(q) ==
  /\ q \in pending \ running
  /\ pending' = pending \ {q}
  /\ attached' = attached \ {q}
  /\ UNCHANGED running

ServiceNext == \E q \in Requests : Accept(q) \/ Work(q) \/ Reply(q)

ServiceSafe == ServiceInit /\ [][ServiceNext]_service

AllAnswered == \A q \in Requests : q \in pending ~> q \notin pending

ServiceSpec == ServiceSafe /\ AllAnswered
=============================================================================
