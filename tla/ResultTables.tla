---------------------------- MODULE ResultTables ----------------------------
(***************************************************************************)
(* The comparison_results, discrepancies, cancellation_confirmations and   *)
(* discrepancy_reviews tables of one analysis, and the requests that write *)
(* them: ComparisonService (modules/financial_comparison/service.py),      *)
(* DiscrepancyService (modules/discrepancies/service.py) and               *)
(* review_discrepancy (modules/manual_review/service.py).  A request is a  *)
(* worker with its own session at READ COMMITTED: every query sees what is *)
(* committed when it runs, writes are seen from the commit on.  Waiting    *)
(* for a row lock only delays a request and is left out.                   *)
(*                                                                         *)
(* The match rows change under them (Rematch, PairByHand), each time in    *)
(* one commit: MatchTable models those requests step by step.  Orders and  *)
(* contracts are fixed; money is in cents, rates are in thousandths.       *)
(***************************************************************************)
EXTENDS Integers

CONSTANTS
  Workers,
  Pos, Plat,       \* the analysis's transactions
  AutoPairs,       \* what the matching engine pairs
  Refs,            \* order references: two orders may share one
  Ref,             \* Pos -> Refs
  Status,          \* Pos -> StatusClass of the order
  Amount,          \* transaction -> cents
  Charged,         \* Plat -> the platform's commission
  Rate,            \* Pos -> the contract's rate on that day, None without one
  TolerancePct, ToleranceFloor,
  MaxCalls,        \* bound: comparisons, detections, confirmations, reviews
  MaxMatchings,    \* bound: commits that change the match rows
  None             \* SQL NULL

CancelledBy == {"CUSTOMER", "PLATFORM", "RESTAURANT"}
StatusClass == {"CANCELLED", "REFUNDED_OR_VOID", "OTHER"}

ASSUME SidesAssumption == Pos \cap Plat = {} /\ None \notin Pos \cup Plat
ASSUME PairsAssumption == AutoPairs \subseteq Pos \X Plat
ASSUME OrdersAssumption ==
  /\ Ref \in [Pos -> Refs]
  /\ Status \in [Pos -> StatusClass]
  /\ Amount \in [Pos \cup Plat -> Int]
  /\ Charged \in [Plat -> Int]
  /\ Rate \in [Pos -> 0..1000 \cup {None}]
  /\ TolerancePct \in Nat /\ ToleranceFloor \in Nat
ASSUME NoneAssumption == None \notin Int
ASSUME NamesAssumption == None \notin CancelledBy
ASSUME BoundsAssumption == MaxCalls \in Nat /\ MaxMatchings \in Nat \ {0}

VARIABLES
  matches,        \* every ReconciliationMatch row
  active,         \* those with superseded_at IS NULL
  results,        \* ComparisonResult rows
  discrepancies,  \* Discrepancy row -> its treatment and claimable_amount
  confirmations,  \* order reference -> cancelled_by, None without a row
  reviewed,       \* discrepancies that a DiscrepancyReview row names
  matchings,      \* number of commits to the match rows
  calls,          \* number of requests started
  pc, call,       \* where each worker's request is, and its number
  known, seen,    \* the match rows it read: all of them, the active ones
  given,          \* the comparison results it read
  told,           \* the confirmations it read
  doomed,         \* the rows its DELETE removes
  target,         \* confirm_cancellation: the row as read, and the answer
  solo,           \* ghost: nothing else has happened since it started
  fresh           \* ghost: what has been recomputed since the matches changed

matchVars == <<matches, active, matchings>>
tables == <<results, discrepancies, confirmations, reviewed>>
locals == <<pc, call, known, seen, given, told, doomed, target>>
vars == <<matchVars, tables, calls, locals, solo, fresh>>

Match(n, p, q) == [no |-> n, pos |-> p, plat |-> q]
Matches == [no : 1..MaxMatchings, pos : Pos \cup {None}, plat : Plat \cup {None}]
TwoSided(m) == m.pos # None /\ m.plat # None

Result(n, m) == [call |-> n, match |-> m]
Results == [call : 1..MaxCalls, match : Matches]

Categories == {"MISSING_SETTLEMENT", "UNEXPECTED_SETTLEMENT", "INCORRECT_COMMISSION",
               "SETTLEMENT_AMOUNT_MISMATCH", "CANCELLED_AFTER_PREPARATION"}
CLAIMABLE_CANCELLERS == {"CUSTOMER", "PLATFORM"}
Treatments == {"RECOVERABLE", "NEEDS_CONFIRMATION", "NEEDS_CONTRACT", "TO_VERIFY", "NOT_CLAIMABLE"}
Classified == [treatment : Treatments, claimable : Int \cup {None}]

\* A discrepancy: the detection and the comparison (0: none) it comes from.
Discrepancy(n, m, c, r) == [call |-> n, match |-> m, category |-> c, from |-> r]
Discrepancies == [call : 1..MaxCalls, match : Matches, category : Categories, from : 0..MaxCalls]

(***************************************************************************)
(* Arithmetic.                                                             *)
(***************************************************************************)
\* quantize(0.01, ROUND_HALF_UP) of n / 1000: ties away from zero.
HalfUp(n) == IF n >= 0 THEN (n + 500) \div 1000 ELSE - ((500 - n) \div 1000)

NetOfCommission(gross, rate) == HalfUp(gross * (1000 - rate))
ExpectedCommission(p) == HalfUp(Amount[p] * Rate[p])

\* max(base * tolerance_pct, tolerance_floor) bounds the variance, inclusively.
Within(variance, base) ==
  \E limit \in {base * TolerancePct, 1000 * ToleranceFloor} :
    -limit <= 1000 * variance /\ 1000 * variance <= limit

CommissionVariance(m) == Charged[m.plat] - ExpectedCommission(m.pos)
SettlementVariance(m) == Amount[m.plat] - Amount[m.pos]
CommissionWithin(m) == Within(CommissionVariance(m), ExpectedCommission(m.pos))
SettlementWithin(m) == Within(SettlementVariance(m), Amount[m.pos])

(***************************************************************************)
(* Classification.                                                         *)
(***************************************************************************)
Verdict(t, claim) == [treatment |-> t, claimable |-> claim]
ToVerify == Verdict("TO_VERIFY", None)

RecoverableGross(gross, rate) ==
  IF gross <= 0 THEN ToVerify
  ELSE IF rate = None THEN Verdict("NEEDS_CONTRACT", None)
  ELSE Verdict("RECOVERABLE", NetOfCommission(gross, rate))

ClaimFirst(p, by) ==  \* mutant: claimed unless the restaurant cancelled
  IF by = "RESTAURANT" THEN Verdict("NOT_CLAIMABLE", None)
  ELSE RecoverableGross(Amount[p], Rate[p])

ClassifyCancellation(p, by) ==
  IF by = None THEN Verdict("NEEDS_CONFIRMATION", None)
  ELSE IF by \notin CLAIMABLE_CANCELLERS THEN Verdict("NOT_CLAIMABLE", None)
  ELSE RecoverableGross(Amount[p], Rate[p])

\* A pair whose match row was not among the rows read has no order, so no rate.
ClassifyVariance(d, rows) ==
  IF d.category = "INCORRECT_COMMISSION"
  THEN IF CommissionVariance(d.match) > 0
       THEN Verdict("RECOVERABLE", CommissionVariance(d.match)) ELSE ToVerify
  ELSE IF SettlementVariance(d.match) < 0
       THEN RecoverableGross(- SettlementVariance(d.match),
                             IF d.match \in rows THEN Rate[d.match.pos] ELSE None)
       ELSE ToVerify

Classify(d, rows, confirmed) ==
  CASE d.category = "UNEXPECTED_SETTLEMENT" -> ToVerify
    [] d.category = "MISSING_SETTLEMENT" -> RecoverableGross(Amount[d.match.pos], Rate[d.match.pos])
    [] d.category = "CANCELLED_AFTER_PREPARATION" ->
         ClassifyCancellation(d.match.pos, confirmed[Ref[d.match.pos]])
    [] OTHER -> ClassifyVariance(d, rows)

\* _detect_unmatched: one row per one-sided match, none for a refund or a void.
Unmatched(n, rows) ==
  {Discrepancy(n, m, "UNEXPECTED_SETTLEMENT", 0) : m \in {x \in rows : x.pos = None}}
    \cup {Discrepancy(n, m, "MISSING_SETTLEMENT", 0) :
            m \in {x \in rows : x.pos # None /\ x.plat = None /\ Status[x.pos] = "OTHER"}}
    \cup {Discrepancy(n, m, "CANCELLED_AFTER_PREPARATION", 0) :
            m \in {x \in rows : x.pos # None /\ x.plat = None /\ Status[x.pos] = "CANCELLED"}}

\* _detect_out_of_tolerance: up to two rows per comparison result.
OutOfTolerance(n, R) ==
  {Discrepancy(n, r.match, "INCORRECT_COMMISSION", r.call) :
      r \in {x \in R : ~ CommissionWithin(x.match)}}
    \cup {Discrepancy(n, r.match, "SETTLEMENT_AMOUNT_MISMATCH", r.call) :
            r \in {x \in R : ~ SettlementWithin(x.match)}}

(***************************************************************************)
(* The match rows, each change in one commit.                              *)
(***************************************************************************)
PlanRows(n) ==
  {Match(n, a[1], a[2]) : a \in AutoPairs}
    \cup {Match(n, p, None) : p \in {x \in Pos : \A a \in AutoPairs : a[1] # x}}
    \cup {Match(n, None, q) : q \in {y \in Plat : \A a \in AutoPairs : a[2] # y}}

Init ==
  /\ matches = PlanRows(1) /\ active = PlanRows(1) /\ matchings = 1
  /\ results = {} /\ reviewed = {} /\ calls = 0
  /\ discrepancies = [d \in {} |-> ToVerify]
  /\ confirmations = [x \in Refs |-> None]
  /\ pc = [w \in Workers |-> "idle"] /\ call = [w \in Workers |-> 0]
  /\ known = [w \in Workers |-> {}] /\ seen = [w \in Workers |-> {}]
  /\ given = [w \in Workers |-> {}] /\ doomed = [w \in Workers |-> {}]
  /\ told = [w \in Workers |-> confirmations]
  /\ target = [w \in Workers |-> {}]
  /\ solo = [w \in Workers |-> FALSE] /\ fresh = "none"

MatchesChange ==
  /\ matchings < MaxMatchings
  /\ matchings' = matchings + 1
  /\ fresh' = "none"
  /\ solo' = [w \in Workers |-> FALSE]
  /\ UNCHANGED <<tables, calls, locals>>

Rematch ==
  /\ MatchesChange
  /\ matches' = matches \cup PlanRows(matchings + 1)
  /\ active' = PlanRows(matchings + 1)

\* create_manual_match supersedes the one-sided rows of both transactions.
PairByHand(p, q) ==
  /\ \A m \in active : m.pos = p \/ m.plat = q => ~ TwoSided(m)
  /\ MatchesChange
  /\ matches' = matches \cup {Match(matchings + 1, p, q)}
  /\ active' = {m \in active : m.pos # p /\ m.plat # q} \cup {Match(matchings + 1, p, q)}

(***************************************************************************)
(* Sessions.                                                               *)
(***************************************************************************)
Goto(w, label) == pc' = [pc EXCEPT ![w] = label]

Start(w) ==
  /\ pc[w] = "idle" /\ calls < MaxCalls
  /\ calls' = calls + 1
  /\ call' = [call EXCEPT ![w] = calls + 1]
  /\ solo' = [v \in Workers |-> v = w /\ \A u \in Workers \ {w} : pc[u] = "idle"]
  /\ UNCHANGED <<matchVars, tables, fresh>>

\* One more query or statement of an open request.
Step(w, from, to) ==
  /\ pc[w] = from /\ Goto(w, to)
  /\ UNCHANGED <<matchVars, tables, calls, call, solo, fresh>>

Close(w) ==
  /\ Goto(w, "idle")
  /\ known' = [known EXCEPT ![w] = {}] /\ seen' = [seen EXCEPT ![w] = {}]
  /\ given' = [given EXCEPT ![w] = {}] /\ doomed' = [doomed EXCEPT ![w] = {}]
  /\ told' = [told EXCEPT ![w] = [x \in Refs |-> None]]
  /\ target' = [target EXCEPT ![w] = {}]
  /\ UNCHANGED <<matchVars, calls, call, solo>>

\* A failed commit, an error, a crash: the database rolls back.
Abort(w) ==
  /\ pc[w] # "idle"
  /\ Close(w)
  /\ UNCHANGED <<tables, fresh>>

(***************************************************************************)
(* run_comparison.                                                         *)
(***************************************************************************)
CompareRead(w) ==
  /\ Start(w)
  /\ Goto(w, "compare_delete")
  /\ seen' = [seen EXCEPT ![w] = active]
  /\ UNCHANGED <<known, given, told, doomed, target>>

CompareDelete(w) ==
  /\ Step(w, "compare_delete", "compare_commit")
  /\ doomed' = [doomed EXCEPT ![w] = results]
  /\ UNCHANGED <<known, seen, given, told, target>>

\* Pairs without a contract on the day are skipped.
Compared(w) == {Result(call[w], m) : m \in {x \in seen[w] : TwoSided(x) /\ Rate[x.pos] # None}}

CompareCommit(w) ==
  /\ pc[w] = "compare_commit"
  /\ results' = (results \ doomed[w]) \cup Compared(w)
  /\ fresh' = IF solo[w] THEN "compared" ELSE "none"
  /\ Close(w)
  /\ UNCHANGED <<discrepancies, confirmations, reviewed>>

(***************************************************************************)
(* detect_discrepancies.                                                   *)
(***************************************************************************)
DetectReadMatches(w) ==
  /\ Start(w)
  /\ Goto(w, "detect_results")
  /\ known' = [known EXCEPT ![w] = matches]
  /\ seen' = [seen EXCEPT ![w] = active]
  /\ UNCHANGED <<given, told, doomed, target>>

DetectReadResults(w) ==
  /\ Step(w, "detect_results", "detect_confirmations")
  /\ given' = [given EXCEPT ![w] = results]
  /\ UNCHANGED <<known, seen, told, doomed, target>>

DetectReadConfirmations(w) ==
  /\ Step(w, "detect_confirmations", "detect_delete")
  /\ told' = [told EXCEPT ![w] = confirmations]
  /\ UNCHANGED <<known, seen, given, doomed, target>>

DetectDelete(w) ==
  /\ Step(w, "detect_delete", "detect_commit")
  /\ doomed' = [doomed EXCEPT ![w] = DOMAIN discrepancies]
  /\ UNCHANGED <<known, seen, given, told, target>>

Found(w) == Unmatched(call[w], seen[w]) \cup OutOfTolerance(call[w], given[w])

\* The rows deleted must not be named by a review: the foreign key aborts.
MayDelete(w) == doomed[w] \cap reviewed = {}

Replaced(w, gone) ==
  [d \in (DOMAIN discrepancies \ gone) \cup Found(w) |->
     IF d \in Found(w) THEN Classify(d, known[w], told[w]) ELSE discrepancies[d]]

Recomputed(w) ==
  IF fresh # "none" /\ solo[w] THEN "detected" ELSE IF fresh = "none" THEN "none" ELSE "compared"

DetectCommitCascading(w) ==  \* mutant: reviewed rows are deleted with the others
  /\ pc[w] = "detect_commit"
  /\ discrepancies' = Replaced(w, doomed[w])
  /\ fresh' = Recomputed(w)
  /\ Close(w)
  /\ UNCHANGED <<results, confirmations, reviewed>>

DetectCommit(w) ==
  /\ pc[w] = "detect_commit" /\ MayDelete(w)
  /\ discrepancies' = Replaced(w, doomed[w])
  /\ fresh' = Recomputed(w)
  /\ Close(w)
  /\ UNCHANGED <<results, confirmations, reviewed>>

(***************************************************************************)
(* confirm_cancellation: reads the row, reads the answer recorded so far,  *)
(* then commits both.  The session writes the columns whose value differs  *)
(* from the one it read, and nothing else.                                 *)
(***************************************************************************)
ConfirmReadAny(w, d, by) ==  \* mutant: any discrepancy may be confirmed
  /\ Start(w)
  /\ Goto(w, "confirm_lookup")
  /\ target' = [target EXCEPT ![w] = {[row |-> d, was |-> discrepancies[d], by |-> by]}]
  /\ UNCHANGED <<known, seen, given, told, doomed>>

ConfirmRead(w, d, by) ==
  /\ Start(w)
  /\ d.category = "CANCELLED_AFTER_PREPARATION"
  /\ Goto(w, "confirm_lookup")
  /\ target' = [target EXCEPT ![w] = {[row |-> d, was |-> discrepancies[d], by |-> by]}]
  /\ UNCHANGED <<known, seen, given, told, doomed>>

ConfirmLookup(w) ==
  /\ Step(w, "confirm_lookup", "confirm_commit")
  /\ told' = [told EXCEPT ![w] = confirmations]
  /\ UNCHANGED <<known, seen, given, doomed, target>>

\* What an UPDATE leaves in a column: a value equal to the one read is not sent.
Column(now, read, new) == IF new = read THEN now ELSE new

\* uq_cancellation_order refuses a second INSERT for the order.
MayInsert(w, x) == told[w][x] = None => confirmations[x] = None

\* An UPDATE that matches no row is an error.
MayUpdate(t, new) == new # t.was => t.row \in DOMAIN discrepancies

\* Other orders of the same reference keep their treatment until a detection.
Twins(d) == {e \in DOMAIN discrepancies :
               /\ e # d /\ e.category = "CANCELLED_AFTER_PREPARATION"
               /\ Ref[e.match.pos] = Ref[d.match.pos]}

AnswerOnly(w, t, x, new) ==  \* mutant: the row is left for the next detection
  /\ confirmations' = [confirmations EXCEPT ![x] = Column(@, told[w][x], t.by)]
  /\ UNCHANGED discrepancies

Answer(w, t, x, new) ==
  /\ confirmations' = [confirmations EXCEPT ![x] = Column(@, told[w][x], t.by)]
  /\ discrepancies' = [d \in DOMAIN discrepancies |->
       IF d = t.row
       THEN Verdict(Column(discrepancies[d].treatment, t.was.treatment, new.treatment),
                    Column(discrepancies[d].claimable, t.was.claimable, new.claimable))
       ELSE discrepancies[d]]

ConfirmCommit(w) ==
  /\ pc[w] = "confirm_commit"
  /\ \E t \in target[w] :
       LET x == Ref[t.row.match.pos]
           new == ClassifyCancellation(t.row.match.pos, t.by)
       IN /\ MayInsert(w, x) /\ MayUpdate(t, new)
          /\ Answer(w, t, x, new)
          /\ fresh' = IF fresh = "detected" /\ (~ solo[w] \/ Twins(t.row) # {})
                      THEN "compared" ELSE fresh
  /\ Close(w)
  /\ UNCHANGED <<results, reviewed>>

\* review_discrepancy: one INSERT that names a row that exists.
ReviewDiscrepancy(d) ==
  /\ calls < MaxCalls /\ calls' = calls + 1
  /\ reviewed' = reviewed \cup {d}
  /\ UNCHANGED <<matchVars, results, discrepancies, confirmations, locals, solo, fresh>>

Next ==
  \/ Rematch
  \/ \E p \in Pos, q \in Plat : PairByHand(p, q)
  \/ \E w \in Workers : CompareRead(w)
  \/ \E w \in Workers : CompareDelete(w)
  \/ \E w \in Workers : CompareCommit(w)
  \/ \E w \in Workers : DetectReadMatches(w)
  \/ \E w \in Workers : DetectReadResults(w)
  \/ \E w \in Workers : DetectReadConfirmations(w)
  \/ \E w \in Workers : DetectDelete(w)
  \/ \E w \in Workers : DetectCommit(w)
  \/ \E w \in Workers, d \in DOMAIN discrepancies, by \in CancelledBy : ConfirmRead(w, d, by)
  \/ \E w \in Workers : ConfirmLookup(w)
  \/ \E w \in Workers : ConfirmCommit(w)
  \/ \E w \in Workers : Abort(w)
  \/ \E d \in DOMAIN discrepancies : ReviewDiscrepancy(d)

Spec == Init /\ [][Next]_vars

(***************************************************************************)
(* Properties.                                                             *)
(***************************************************************************)
Labels == {"idle", "compare_delete", "compare_commit", "detect_results", "detect_confirmations",
           "detect_delete", "detect_commit", "confirm_lookup", "confirm_commit"}

Confirmations == [Refs -> CancelledBy \cup {None}]
Targets == [row : Discrepancies, was : Classified, by : CancelledBy]

Cancellation(d) == d.category = "CANCELLED_AFTER_PREPARATION"

\* The tables hold rows, the sessions what they read, and a cancellation that
\* is being confirmed is the row of an order nobody paid.
TypeOK ==
  /\ matches \subseteq Matches /\ active \subseteq matches
  /\ matchings \in 1..MaxMatchings /\ calls \in 0..MaxCalls
  /\ results \subseteq Results
  /\ discrepancies \in [DOMAIN discrepancies -> Classified]
  /\ DOMAIN discrepancies \subseteq Discrepancies
  /\ confirmations \in Confirmations
  /\ reviewed \subseteq Discrepancies
  /\ pc \in [Workers -> Labels] /\ call \in [Workers -> 0..calls]
  /\ known \in [Workers -> SUBSET Matches] /\ seen \in [Workers -> SUBSET Matches]
  /\ given \in [Workers -> SUBSET Results]
  /\ doomed \in [Workers -> SUBSET (Results \cup Discrepancies)]
  /\ told \in [Workers -> Confirmations]
  /\ target \in [Workers -> SUBSET Targets]
  /\ \A w \in Workers : \A t \in target[w] : Cancellation(t.row)
  /\ solo \in [Workers -> BOOLEAN] /\ fresh \in {"none", "compared", "detected"}

\* What the restaurant lost in one discrepancy, before commission is deducted.
Loss(d) ==
  CASE d.category = "UNEXPECTED_SETTLEMENT" -> 0
    [] d.category = "INCORRECT_COMMISSION" -> CommissionVariance(d.match)
    [] d.category = "SETTLEMENT_AMOUNT_MISMATCH" -> - SettlementVariance(d.match)
    [] OTHER -> Amount[d.match.pos]

AnswerTo(d) == confirmations[Ref[d.match.pos]]
Rated(d) == d.match.pos # None /\ Rate[d.match.pos] # None

\* The verdict the orders, the contracts and the answers recorded call for.
VerdictDue(d) ==
  LET v == discrepancies[d]
      lost == Loss(d) > 0 /\ (Cancellation(d) => AnswerTo(d) \in CLAIMABLE_CANCELLERS)
  IN /\ v.treatment = "RECOVERABLE" <=> lost /\ Rated(d)
     /\ v.treatment = "NEEDS_CONTRACT" <=> lost /\ ~ Rated(d)
     /\ v.treatment = "NEEDS_CONFIRMATION" <=> Cancellation(d) /\ AnswerTo(d) = None
     /\ v.treatment = "NOT_CLAIMABLE" <=> Cancellation(d) /\ AnswerTo(d) = "RESTAURANT"
     /\ v.claimable = IF v.treatment # "RECOVERABLE" THEN None
                      ELSE IF d.category = "INCORRECT_COMMISSION" THEN Loss(d)
                      ELSE NetOfCommission(Loss(d), Rate[d.match.pos])

\* The categories an active match calls for.
CategoriesDue(m) ==
  IF m.pos = None THEN {"UNEXPECTED_SETTLEMENT"}
  ELSE IF m.plat = None
  THEN {c \in Categories : \/ Status[m.pos] = "OTHER" /\ c = "MISSING_SETTLEMENT"
                           \/ Status[m.pos] = "CANCELLED" /\ c = "CANCELLED_AFTER_PREPARATION"}
  ELSE {c \in Categories : /\ Rate[m.pos] # None
                           /\ \/ c = "INCORRECT_COMMISSION" /\ ~ CommissionWithin(m)
                              \/ c = "SETTLEMENT_AMOUNT_MISMATCH" /\ ~ SettlementWithin(m)}

\* After a comparison and then a detection that nothing overlapped, the table
\* has one row for each category an active match calls for, no other row, and
\* each row the verdict due; it stays so, whatever reviews and confirmations
\* follow, until the matches change: the update of one row in place by
\* confirm_cancellation agrees with what a new detection would write.
UpToDate ==
  fresh = "detected" =>
    /\ {<<d.match, d.category>> : d \in DOMAIN discrepancies}
         = UNION {{<<m, c>> : c \in CategoriesDue(m)} : m \in active}
    /\ \A d, e \in DOMAIN discrepancies : d.match = e.match /\ d.category = e.category => d = e
    /\ \A d \in DOMAIN discrepancies : VerdictDue(d)

\* Whatever overlaps: a discrepancy counted as recoverable has a contract; if
\* its order was never paid, the order was not refunded or void, and somebody
\* has said who cancelled it if it was cancelled.
ClaimsJustified ==
  \A d \in DOMAIN discrepancies :
    discrepancies[d].treatment = "RECOVERABLE" =>
      /\ Rated(d)
      /\ d.match.plat = None => /\ Status[d.match.pos] # "REFUNDED_OR_VOID"
                                /\ Status[d.match.pos] = "CANCELLED" => AnswerTo(d) # None

\* A discrepancy somebody has reviewed is never deleted, whatever is detected
\* again: the trail of a review keeps its subject.
ReviewedKept == reviewed \subseteq DOMAIN discrepancies

\* A detection that nothing overlaps writes rows for active matches only: "Modules
\* reading ReconciliationMatch elsewhere (Financial Comparison, Discrepancy
\* Detection) filter to superseded_at IS NULL to see only the current state."
DetectsActiveOnly ==
  [][\A w \in Workers : DetectCommit(w) /\ solo[w] =>
       \A d \in DOMAIN discrepancies' : d.match \in active]_vars
=============================================================================
