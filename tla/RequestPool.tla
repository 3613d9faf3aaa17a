----------------------------- MODULE RequestPool -----------------------------
(***************************************************************************)
(* How a request gets its threads and its database connection.             *)
(*                                                                         *)
(* enforce_policy and the handler run one after the other in the thread    *)
(* pool whose limiter main.py sets; the session of get_db takes a          *)
(* connection with its first query and keeps it until it commits or is     *)
(* closed, so that a request that has been checked waits for its next      *)
(* thread with a connection in hand.  The threads of get_db, current_access *)
(* and the service factories are taken and returned in the same way, and   *)
(* are not told apart from those of the check and the handler.             *)
(***************************************************************************)
EXTENDS Naturals, FiniteSets, Sequences

CONSTANTS
  Requests,      \* requests being served or not
  Public,        \* those to public routes
  Threads,       \* total_tokens of the limiter
  Connections    \* pool_size + max_overflow of the engine

ASSUME PoolAssumption == Public \subseteq Requests /\ Threads \in Nat \ {0} /\ Connections \in Nat \ {0}

VARIABLES
  stage,      \* where each request is
  queue,      \* the limiter's waiting tasks, oldest first
  connected   \* requests whose session holds a connection

pvars == <<stage, queue, connected>>

\* A thread of the pool runs the request; in the last three it has to have,
\* in the first two it has to get, a connection for its next statement.
Acquiring == {"check", "handle", "record"}
OnThread == Acquiring \cup {"checking", "handling", "recording"}
Stages == OnThread \cup {"idle", "await_check", "await_handler", "closing"}

PoolInit ==
  /\ stage = [q \in Requests |-> "idle"] /\ queue = <<>> /\ connected = {}

BusyThreads == {q \in Requests : stage[q] \in OnThread}
WaitsForConnection(q) ==
  stage[q] \in Acquiring /\ q \notin connected /\ ~ (stage[q] = "check" /\ q \in Public)

\* anyio hands a token that is returned to the oldest waiting task.
Arrive(q) ==
  /\ stage[q] = "idle"
  /\ stage' = [stage EXCEPT ![q] = "await_check"]
  /\ queue' = Append(queue, q)
  /\ UNCHANGED connected

TakeThread ==
  /\ queue # <<>> /\ Cardinality(BusyThreads) < Threads
  /\ stage' = [stage EXCEPT ![Head(queue)] = IF @ = "await_check" THEN "check" ELSE "handle"]
  /\ queue' = Tail(queue)
  /\ UNCHANGED connected

\* A public route is let through without a query.
PassPublic(q) ==
  /\ stage[q] = "check" /\ q \in Public
  /\ stage' = [stage EXCEPT ![q] = "await_handler"]
  /\ queue' = Append(queue, q)
  /\ UNCHANGED connected

\* A statement starts: with the session's connection, or with one of the pool.
Connect(q) ==
  /\ stage[q] \in Acquiring /\ ~ (stage[q] = "check" /\ q \in Public)
  /\ q \in connected \/ Cardinality(connected) < Connections
  /\ stage' = [stage EXCEPT ![q] = CASE @ = "check" -> "checking" [] @ = "handle" -> "handling"
                                     [] OTHER -> "recording"]
  /\ connected' = connected \cup {q}
  /\ UNCHANGED queue

NeverGiveUp(q) == FALSE /\ UNCHANGED pvars  \* mutant: the pool waits without a limit
\* pool_timeout: TimeoutError, and the request fails.
GiveUp(q) ==
  /\ WaitsForConnection(q)
  /\ stage' = [stage EXCEPT ![q] = "closing"]
  /\ UNCHANGED <<queue, connected>>

\* _enforce returns its thread; it has read and not committed.
Checked(q) ==
  /\ stage[q] = "checking"
  /\ stage' = [stage EXCEPT ![q] = "await_handler"]
  /\ queue' = Append(queue, q)
  /\ UNCHANGED connected

\* The handler commits, which returns the connection; what follows (refresh,
\* the audit entry) needs one again.
CommitWork(q) ==
  /\ stage[q] = "handling"
  /\ stage' = [stage EXCEPT ![q] = "record"]
  /\ connected' = connected \ {q}
  /\ UNCHANGED queue

\* The check refuses, or the handler returns or raises.
Answer(q) ==
  /\ stage[q] \in {"checking", "handling", "recording"}
  /\ stage' = [stage EXCEPT ![q] = "closing"]
  /\ UNCHANGED <<queue, connected>>

\* get_db closes the session, on a thread outside the limiter.
Close(q) ==
  /\ stage[q] = "closing"
  /\ stage' = [stage EXCEPT ![q] = "idle"]
  /\ connected' = connected \ {q}
  /\ UNCHANGED queue

Serve(q) == PassPublic(q) \/ Connect(q) \/ Checked(q) \/ CommitWork(q) \/ Answer(q)

PoolNext ==
  \/ TakeThread
  \/ \E q \in Requests : Arrive(q) \/ Serve(q) \/ GiveUp(q) \/ Close(q)

\* A thread that can go on does, a timer fires, a free token is handed out.
PoolFairness ==
  /\ WF_pvars(TakeThread)
  /\ \A q \in Requests : WF_pvars(Serve(q)) /\ WF_pvars(GiveUp(q)) /\ WF_pvars(Close(q))

PoolSpec == PoolInit /\ [][PoolNext]_pvars /\ PoolFairness

(***************************************************************************)
(* Properties                                                              *)
(***************************************************************************)
\* The queue holds the requests that wait for a thread, once each, and neither
\* limit is exceeded.
PoolTypeOK ==
  /\ stage \in [Requests -> Stages]
  /\ queue \in Seq(Requests)
  /\ {queue[i] : i \in DOMAIN queue} = {q \in Requests : stage[q] \in {"await_check", "await_handler"}}
  /\ \A i, j \in DOMAIN queue : queue[i] = queue[j] => i = j
  /\ connected \subseteq Requests
  /\ Cardinality(BusyThreads) <= Threads /\ Cardinality(connected) <= Connections

Service == INSTANCE RequestService WITH
  pending <- {q \in Requests : stage[q] # "idle"}, running <- BusyThreads, attached <- connected

\* The request execution keeps its promise: threads and connections stay within
\* their limits, a request lets go of both before it is forgotten, and every
\* request is answered, also when each thread waits for a connection that a
\* request holds which waits for a thread.
EveryRequestAnswered == Service!ServiceSpec

\* main.py says of a thread limit within the database pool: "so threads never
\* starve waiting for a connection".
ThreadsNeverStarve ==
  ~ /\ Cardinality({q \in Requests : WaitsForConnection(q)}) = Threads
    /\ Cardinality({q \in connected : stage[q] = "await_handler"}) = Connections
=============================================================================
