----------------------------- MODULE MatchTable -----------------------------
(***************************************************************************)
(* The reconciliation_matches and match_reviews tables of one analysis and *)
(* the requests that write them: MatchingService._persist (a matching run, *)
(* modules/matching/service.py) and ManualReviewService's review_match and *)
(* create_manual_match (modules/manual_review/service.py).                 *)
(*                                                                         *)
(* A request is a worker with its own database session on PostgreSQL at    *)
(* READ COMMITTED.  rows, active and reviews are the committed tables;     *)
(* locked[w] is what w's open transaction has updated.  Each statement     *)
(* reads what is committed when it starts.  An UPDATE waits for the locks  *)
(* on its rows; one with a WHERE clause re-checks a row it waited for.     *)
(* Taking the locks of one statement together only adds interleavings.     *)
(*                                                                         *)
(* The transactions are fixed, so that every run computes the same pairs   *)
(* AutoPairs (MatchingEngine: a matching, one row per transaction).        *)
(***************************************************************************)
EXTENDS Naturals

CONSTANTS
  Workers,
  Pos, Plat,     \* the analysis's transactions
  AutoPairs,     \* what the engine pairs
  MaxCalls,      \* bound: requests that start
  None           \* SQL NULL

ASSUME SidesAssumption == /\ Pos # {} /\ Plat # {} /\ Pos \cap Plat = {}
                          /\ None \notin Pos \cup Plat
ASSUME PairsAssumption ==
  /\ AutoPairs \subseteq Pos \X Plat
  /\ \A a, b \in AutoPairs : a[1] = b[1] \/ a[2] = b[2] => a = b
ASSUME CallsAssumption == MaxCalls \in Nat

VARIABLES
  rows,       \* every ReconciliationMatch row ever committed
  active,     \* those with superseded_at IS NULL
  reviews,    \* MatchReview rows
  calls,      \* number of requests started
  pc,         \* where each worker's request is
  call,       \* the number of its request
  pair,       \* create_manual_match: the two transactions
  seen,       \* rows its UPDATE is going to touch
  locked,     \* rows its open transaction has updated
  solo,       \* ghost: no other request has overlapped with it
  clean       \* ghost: no overlap since a matching run that had none

tables == <<rows, active, reviews>>
locals == <<pc, call, pair, seen, locked>>
vars == <<tables, calls, locals, solo, clean>>

Row(n, by, p, q) == [call |-> n, by |-> by, pos |-> p, plat |-> q]
Rows == [call : 1..MaxCalls, by : {"run", "manual"}, pos : Pos \cup {None}, plat : Plat \cup {None}]
Decisions == {"CONFIRM", "REJECT", "MANUALLY_PAIRED"}

\* The rows run_matching hands to _persist in its n-th request.
PlanRows(n) ==
  {Row(n, "run", a[1], a[2]) : a \in AutoPairs}
    \cup {Row(n, "run", p, None) : p \in {x \in Pos : \A a \in AutoPairs : a[1] # x}}
    \cup {Row(n, "run", None, q) : q \in {y \in Plat : \A a \in AutoPairs : a[2] # y}}

TwoSided(r) == r.pos # None /\ r.plat # None

Init ==
  /\ rows = {} /\ active = {} /\ reviews = {} /\ calls = 0
  /\ pc = [w \in Workers |-> "idle"]
  /\ call = [w \in Workers |-> 0]
  /\ pair = [w \in Workers |-> <<>>]
  /\ seen = [w \in Workers |-> {}]
  /\ locked = [w \in Workers |-> {}]
  /\ solo = [w \in Workers |-> FALSE]
  /\ clean = TRUE

(***************************************************************************)
(* Sessions.                                                               *)
(***************************************************************************)
Start(w) ==
  /\ pc[w] = "idle" /\ calls < MaxCalls
  /\ calls' = calls + 1
  /\ call' = [call EXCEPT ![w] = calls + 1]
  /\ solo' = [v \in Workers |-> v = w /\ \A u \in Workers \ {w} : pc[u] = "idle"]
  /\ UNCHANGED <<tables, locked, clean>>

Goto(w, label) == pc' = [pc EXCEPT ![w] = label]

\* The session closes: its locks are released.
Close(w) ==
  /\ Goto(w, "idle")
  /\ pair' = [pair EXCEPT ![w] = <<>>]
  /\ seen' = [seen EXCEPT ![w] = {}]
  /\ locked' = [locked EXCEPT ![w] = {}]
  /\ UNCHANGED <<calls, call, solo>>

LockFree(w, R) == \A v \in Workers \ {w} : locked[v] \cap R = {}

\* A failed commit, a deadlock victim, a crash: the database rolls back.
Abort(w) ==
  /\ pc[w] # "idle"
  /\ Close(w)
  /\ UNCHANGED <<tables, clean>>

(***************************************************************************)
(* A matching run.  Its UPDATE selects the active rows by its snapshot...  *)
(***************************************************************************)
RunUpdateBegin(w) ==
  /\ Start(w)
  /\ Goto(w, "run_updating")
  /\ seen' = [seen EXCEPT ![w] = active]
  /\ UNCHANGED pair

\* ...and, once nobody else holds them, updates those that still are active.
RunUpdateEnd(w) ==
  /\ pc[w] = "run_updating" /\ LockFree(w, seen[w])
  /\ Goto(w, "run_inserting")
  /\ locked' = [locked EXCEPT ![w] = seen[w] \cap active]
  /\ UNCHANGED <<tables, calls, call, pair, seen, solo, clean>>

RunCommitDeleting(w) ==  \* mutant: delete-and-replace, as before superseded_at
  /\ pc[w] = "run_inserting"
  /\ rows' = (rows \ locked[w]) \cup PlanRows(call[w])
  /\ active' = (active \ locked[w]) \cup PlanRows(call[w])
  /\ clean' = solo[w]
  /\ Close(w)
  /\ UNCHANGED reviews

RunCommitKeeping(w) ==  \* mutant: the previous run's rows stay active
  /\ pc[w] = "run_inserting"
  /\ rows' = rows \cup PlanRows(call[w])
  /\ active' = active \cup PlanRows(call[w])
  /\ clean' = solo[w]
  /\ Close(w)
  /\ UNCHANGED reviews

RunCommit(w) ==
  /\ pc[w] = "run_inserting"
  /\ rows' = rows \cup PlanRows(call[w])
  /\ active' = (active \ locked[w]) \cup PlanRows(call[w])
  /\ clean' = solo[w]
  /\ Close(w)
  /\ UNCHANGED reviews

(***************************************************************************)
(* create_manual_match.                                                    *)
(***************************************************************************)
AnyMatch(found) == TRUE  \* mutant: _check_not_already_matched dropped

\* _check_not_already_matched: a one-sided row may be superseded.
NotAlreadyMatched(found) == \A r \in found : ~ TwoSided(r)

\* _active_match_referencing(...).first(): some active row, if there is one.
FirstOf(S) == IF S = {} THEN {{}} ELSE {{r} : r \in S}

\* The lookup on the POS side; a row in a pair is refused without a trace.
ManualReadPos(w, p, q) ==
  /\ Start(w)
  /\ \E found \in FirstOf({r \in active : r.pos = p}) :
       /\ NotAlreadyMatched(found)
       /\ seen' = [seen EXCEPT ![w] = found]
  /\ pair' = [pair EXCEPT ![w] = <<p, q>>]
  /\ Goto(w, "manual_pos")

\* The lookup on the platform side, a statement of its own.
ManualReadPlat(w) ==
  /\ pc[w] = "manual_pos"
  /\ \E found \in FirstOf({r \in active : r.plat = pair[w][2]}) :
       /\ NotAlreadyMatched(found)
       /\ seen' = [seen EXCEPT ![w] = @ \cup found]
  /\ Goto(w, "manual_plat")
  /\ UNCHANGED <<tables, calls, call, pair, locked, solo, clean>>

ManualRefuse(w) ==
  /\ pc[w] = "manual_pos"
  /\ \E found \in FirstOf({r \in active : r.plat = pair[w][2]}) : ~ NotAlreadyMatched(found)
  /\ Close(w)
  /\ UNCHANGED <<tables, clean>>

\* flush(): UPDATE ... WHERE id = the rows found, whatever they hold by now.
ManualFlush(w) ==
  /\ pc[w] = "manual_plat" /\ LockFree(w, seen[w])
  /\ Goto(w, "manual_flushed")
  /\ locked' = [locked EXCEPT ![w] = seen[w]]
  /\ UNCHANGED <<tables, calls, call, pair, seen, solo, clean>>

SwappedRow(w) == Row(call[w], "manual", pair[w][2], pair[w][1])  \* mutant: ids swapped
ManualRow(w) == Row(call[w], "manual", pair[w][1], pair[w][2])

ManualCommitNoReview(w) ==  \* mutant: the pair is committed before its review
  /\ pc[w] = "manual_flushed"
  /\ rows' = rows \cup {ManualRow(w)}
  /\ active' = (active \ locked[w]) \cup {ManualRow(w)}
  /\ clean' = (clean /\ solo[w])
  /\ Close(w)
  /\ UNCHANGED reviews

ManualCommitSwapped(w) ==  \* mutant: the pair replaces the rows only as history
  /\ pc[w] = "manual_flushed"
  /\ rows' = rows \cup {ManualRow(w)}
  /\ active' = active \ locked[w]
  /\ reviews' = reviews \cup {[call |-> call[w], match |-> ManualRow(w), decision |-> "MANUALLY_PAIRED"]}
  /\ clean' = (clean /\ solo[w])
  /\ Close(w)

ManualCommit(w) ==
  /\ pc[w] = "manual_flushed"
  /\ rows' = rows \cup {ManualRow(w)}
  /\ active' = (active \ locked[w]) \cup {ManualRow(w)}
  /\ reviews' = reviews \cup {[call |-> call[w], match |-> ManualRow(w), decision |-> "MANUALLY_PAIRED"]}
  /\ clean' = (clean /\ solo[w])
  /\ Close(w)

(***************************************************************************)
(* review_match: one INSERT for a row that exists, superseded or not.      *)
(***************************************************************************)
ReviewMatch(m, decision) ==
  /\ calls < MaxCalls
  /\ m \in rows
  /\ calls' = calls + 1
  /\ reviews' = reviews \cup {[call |-> calls + 1, match |-> m, decision |-> decision]}
  /\ UNCHANGED <<rows, active, locals, solo, clean>>

Next ==
  \/ \E w \in Workers : RunUpdateBegin(w)
  \/ \E w \in Workers : RunUpdateEnd(w)
  \/ \E w \in Workers : RunCommit(w)
  \/ \E w \in Workers, p \in Pos, q \in Plat : ManualReadPos(w, p, q)
  \/ \E w \in Workers : ManualReadPlat(w)
  \/ \E w \in Workers : ManualRefuse(w)
  \/ \E w \in Workers : ManualFlush(w)
  \/ \E w \in Workers : ManualCommit(w)
  \/ \E w \in Workers : Abort(w)
  \/ \E m \in rows, d \in Decisions : ReviewMatch(m, d)

Spec == Init /\ [][Next]_vars

(***************************************************************************)
(* Properties.                                                             *)
(***************************************************************************)
Labels == {"idle", "run_updating", "run_inserting", "manual_pos", "manual_plat", "manual_flushed"}

\* The tables hold rows, the sessions hold what their place in the code needs.
TypeOK ==
  /\ rows \subseteq Rows /\ active \subseteq rows
  /\ reviews \subseteq [call : 1..MaxCalls, match : rows, decision : Decisions]
  /\ calls \in 0..MaxCalls
  /\ pc \in [Workers -> Labels]
  /\ call \in [Workers -> 0..calls]
  /\ pair \in [Workers -> (Pos \X Plat) \cup {<<>>}]
  /\ seen \in [Workers -> SUBSET rows] /\ locked \in [Workers -> SUBSET rows]
  /\ solo \in [Workers -> BOOLEAN] /\ clean \in BOOLEAN

ActivePos(p) == {r \in active : r.pos = p}
ActivePlat(q) == {r \in active : r.plat = q}

\* Once matching has run, every transaction is in some active row, whatever
\* overlaps, aborts or is paired by hand: superseding never loses an order.
NoTransactionLost ==
  (\E r \in rows : r.by = "run") => /\ \A p \in Pos : ActivePos(p) # {}
                                    /\ \A q \in Plat : ActivePlat(q) # {}

\* No transaction is in two active rows.
OneActiveRow ==
  \A r, s \in active : r # s => /\ r.pos = s.pos => r.pos = None
                                /\ r.plat = s.plat => r.plat = None

\* Requests that do not overlap keep one active row per transaction, and a
\* matching run that nothing overlaps restores it after requests that did.
SoloRunsRepair == clean => OneActiveRow

\* A pair, made by the engine or by hand, stops being current only when a
\* matching run replaces the whole active set; another manual pairing, or
\* the abort of one, never undoes it.
PairsOnlyReplacedByRuns ==
  [][\A r \in active \ active' : TwoSided(r) => \E s \in active' \ rows : s.by = "run"]_vars

\* A row is never deleted and never becomes current again, so a review of it
\* stays valid permanently.
HistoryIsKept == [][rows \subseteq rows' /\ active' \cap rows \subseteq active]_vars

\* A pair made by hand and the review that says so appear together.
ManualPairHasReview ==
  \A r \in rows : r.by = "manual" =>
    \E v \in reviews : v.match = r /\ v.decision = "MANUALLY_PAIRED"
=============================================================================
