------------------------- MODULE ResultTablesProofs -------------------------
(***************************************************************************)
(* What overlapping comparisons, detections, confirmations, reviews and    *)
(* changes of the matches can never do to the discrepancies, for any       *)
(* number of requests, orders and references; and what comparisons and     *)
(* detections that nothing overlaps make of them, down to the figures that *)
(* are shown.                                                              *)
(***************************************************************************)
EXTENDS AnalysisResults, FiniteSums, TLAPS

\* Commission rates, in tenths of a percent, are whole numbers.
Permille == 0..1000
LEMMA RatesAreInt == \A r \in Permille : r \in Int
BY DEF Permille

USE SidesAssumption, PairsAssumption, NoneAssumption, BoundsAssumption

Rates == Permille \cup {None}

\* The data of the orders, one by one.
LEMMA OrderData ==
  /\ \A p \in Pos : Amount[p] \in Int /\ Rate[p] \in Rates /\ Ref[p] \in Refs /\ Status[p] \in StatusClass
  /\ \A q \in Plat : Amount[q] \in Int /\ Charged[q] \in Int
BY OrdersAssumption DEF Rates, Permille

\* A pair that a comparison may have looked at: two sides and a contract.
Comparable(m) == m.pos \in Pos /\ m.plat \in Plat /\ Rate[m.pos] # None

\* A row's category fits its match and its order.
WellFormed(d) ==
  /\ d.category \in {"MISSING_SETTLEMENT", "CANCELLED_AFTER_PREPARATION"} =>
       d.match.pos \in Pos /\ d.match.plat = None
  /\ d.category = "MISSING_SETTLEMENT" => Status[d.match.pos] = "OTHER"
  /\ d.category = "CANCELLED_AFTER_PREPARATION" => Status[d.match.pos] = "CANCELLED"
  /\ d.category \in {"INCORRECT_COMMISSION", "SETTLEMENT_AMOUNT_MISMATCH"} => Comparable(d.match)

RowsInv == \A d \in DOMAIN discrepancies : WellFormed(d)

\* What the sessions read: results of comparable pairs, cancellations, and
\* answers, which are replaced but never withdrawn.
SessionInv ==
  /\ \A r \in results : Comparable(r.match)
  /\ \A w \in Workers :
       /\ pc[w] # "idle" => call[w] \in 1..MaxCalls
       /\ \A r \in given[w] : Comparable(r.match)
       /\ \A t \in target[w] : WellFormed(t.row)
       /\ \A x \in Refs : told[w][x] # None => confirmations[x] # None

IInv == TypeOK /\ SessionInv /\ RowsInv /\ ClaimsJustified /\ ReviewedKept

(***************************************************************************)
(* Arithmetic and classification.                                          *)
(***************************************************************************)
\* Rounding gives a whole number of cents.
LEMMA HalfUpInt == ASSUME NEW n \in Int PROVE HalfUp(n) \in Int
BY DEF HalfUp

\* So does an amount net of commission.
LEMMA NetInt ==
  ASSUME NEW gross \in Int, NEW rate \in Permille
  PROVE  NetOfCommission(gross, rate) \in Int
<1>1. 1000 - rate \in Int
  BY RatesAreInt
<1>2. gross * (1000 - rate) \in Int
  BY <1>1
<1> QED BY <1>2, HalfUpInt DEF NetOfCommission

\* _recoverable_gross claims nothing without a rate.
LEMMA RecoverableNeedsRate ==
  ASSUME NEW gross \in Int, NEW rate \in Rates
  PROVE  /\ RecoverableGross(gross, rate) \in Classified
         /\ RecoverableGross(gross, rate).treatment = "RECOVERABLE" => rate # None
<1>1. CASE rate = None
  BY <1>1 DEF RecoverableGross, Classified, Treatments, Verdict, ToVerify
<1>2. CASE rate # None
  <2>1. rate \in Permille
    BY <1>2 DEF Rates
  <2>2. NetOfCommission(gross, rate) \in Int
    BY <2>1, NetInt
  <2> QED BY <1>2, <2>2 DEF RecoverableGross, Classified, Treatments, Verdict, ToVerify
<1> QED BY <1>1, <1>2

\* _classify_cancellation claims nothing without a rate and an answer.
LEMMA CancellationNeedsAnswer ==
  ASSUME NEW p \in Pos, NEW by \in CancelledBy \cup {None}
  PROVE  /\ ClassifyCancellation(p, by) \in Classified
         /\ ClassifyCancellation(p, by).treatment = "RECOVERABLE" => Rate[p] # None /\ by # None
<1>1. Amount[p] \in Int /\ Rate[p] \in Rates
  BY OrderData
<1>2. RecoverableGross(Amount[p], Rate[p]) \in Classified
  BY <1>1, RecoverableNeedsRate
<1>3. RecoverableGross(Amount[p], Rate[p]).treatment = "RECOVERABLE" => Rate[p] # None
  BY <1>1, RecoverableNeedsRate
<1> QED BY <1>2, <1>3 DEF ClassifyCancellation, Classified, Treatments, Verdict

\* The variances of a pair that was compared are whole numbers of cents.
LEMMA VarianceInt ==
  ASSUME NEW m, Comparable(m)
  PROVE  CommissionVariance(m) \in Int /\ SettlementVariance(m) \in Int
<1>1. /\ Amount[m.pos] \in Int /\ Amount[m.plat] \in Int /\ Charged[m.plat] \in Int
      /\ Rate[m.pos] \in Int
  <2>1. m.pos \in Pos /\ m.plat \in Plat /\ Rate[m.pos] # None
    BY DEF Comparable
  <2>2. Rate[m.pos] \in Rates
    BY <2>1, OrderData
  <2>3. Rate[m.pos] \in Permille
    BY <2>1, <2>2 DEF Rates
  <2>4. Rate[m.pos] \in Int
    BY <2>3, RatesAreInt
  <2> QED BY <2>1, <2>4, OrderData
<1>2. Amount[m.pos] * Rate[m.pos] \in Int
  BY <1>1
<1>3. ExpectedCommission(m.pos) \in Int
  BY <1>2, HalfUpInt DEF ExpectedCommission
<1> QED BY <1>1, <1>3 DEF CommissionVariance, SettlementVariance

\* What justifies a claim, given the answers.
Justified(d, answers) ==
  /\ Rated(d)
  /\ d.match.plat = None => /\ Status[d.match.pos] # "REFUNDED_OR_VOID"
                            /\ Status[d.match.pos] = "CANCELLED" => answers[Ref[d.match.pos]] # None

\* A detection's verdict is well typed, and what it claims is justified by the
\* answers it has read.
LEMMA ClassifyJustified ==
  ASSUME NEW d \in Discrepancies, WellFormed(d), NEW rows, NEW answers \in Confirmations
  PROVE  /\ Classify(d, rows, answers) \in Classified
         /\ Classify(d, rows, answers).treatment = "RECOVERABLE" => Justified(d, answers)
<1> DEFINE v == Classify(d, rows, answers)
<1>0. ToVerify \in Classified /\ ToVerify.treatment # "RECOVERABLE"
  BY DEF ToVerify, Verdict, Classified, Treatments
<1>1. CASE d.category = "UNEXPECTED_SETTLEMENT"
  BY <1>0, <1>1 DEF Classify
<1>2. CASE d.category = "MISSING_SETTLEMENT"
  <2>1. d.match.pos \in Pos /\ Status[d.match.pos] = "OTHER"
    BY <1>2 DEF WellFormed
  <2>2. Amount[d.match.pos] \in Int /\ Rate[d.match.pos] \in Rates
    BY <2>1, OrderData
  <2>3. v = RecoverableGross(Amount[d.match.pos], Rate[d.match.pos])
    BY <1>2 DEF Classify
  <2>4. v \in Classified /\ (v.treatment = "RECOVERABLE" => Rate[d.match.pos] # None)
    BY <2>2, <2>3, RecoverableNeedsRate
  <2> QED BY <2>1, <2>4 DEF Justified, Rated
<1>3. CASE d.category = "CANCELLED_AFTER_PREPARATION"
  <2>1. d.match.pos \in Pos /\ Status[d.match.pos] = "CANCELLED"
    BY <1>3 DEF WellFormed
  <2>2. answers[Ref[d.match.pos]] \in CancelledBy \cup {None}
    BY <2>1, OrderData DEF Confirmations
  <2>3. v = ClassifyCancellation(d.match.pos, answers[Ref[d.match.pos]])
    BY <1>3 DEF Classify
  <2>4. /\ v \in Classified
        /\ v.treatment = "RECOVERABLE" => Rate[d.match.pos] # None /\ answers[Ref[d.match.pos]] # None
    BY <2>1, <2>2, <2>3, CancellationNeedsAnswer
  <2> QED BY <2>1, <2>4 DEF Justified, Rated
<1>4. CASE d.category \in {"INCORRECT_COMMISSION", "SETTLEMENT_AMOUNT_MISMATCH"}
  <2>1. Comparable(d.match)
    BY <1>4 DEF WellFormed
  <2>2. Justified(d, answers)
    BY <2>1 DEF Comparable, Justified, Rated
  <2>3. CommissionVariance(d.match) \in Int /\ SettlementVariance(d.match) \in Int
    BY <2>1, VarianceInt
  <2>4. v = ClassifyVariance(d, rows)
    BY <1>4 DEF Classify
  <2>5. Verdict("RECOVERABLE", CommissionVariance(d.match)) \in Classified
    BY <2>3 DEF Verdict, Classified, Treatments
  <2>6. (IF d.match \in rows THEN Rate[d.match.pos] ELSE None) \in Rates
    <3>1. Rate[d.match.pos] \in Rates
      BY <2>1, OrderData DEF Comparable
    <3>2. None \in Rates
      BY DEF Rates
    <3> QED BY <3>1, <3>2
  <2>7. - SettlementVariance(d.match) \in Int
    BY <2>3
  <2>8. RecoverableGross(- SettlementVariance(d.match),
                         IF d.match \in rows THEN Rate[d.match.pos] ELSE None) \in Classified
    BY <2>6, <2>7, RecoverableNeedsRate
  <2> QED BY <1>0, <2>2, <2>4, <2>5, <2>8 DEF ClassifyVariance
<1> QED BY <1>1, <1>2, <1>3, <1>4 DEF Discrepancies, Categories

(***************************************************************************)
(* What a detection writes.                                                *)
(***************************************************************************)
\* The rows found fit their matches and orders.
LEMMA FoundWellFormed ==
  ASSUME IInv, NEW w \in Workers, pc[w] # "idle"
  PROVE  Found(w) \subseteq Discrepancies /\ \A d \in Found(w) : WellFormed(d)
<1> DEFINE n == call[w]
<1>1. n \in 1..MaxCalls /\ seen[w] \subseteq Matches /\ given[w] \subseteq Results
      /\ \A r \in given[w] : Comparable(r.match)
  BY DEF IInv, SessionInv, TypeOK
<1>2. \A d \in Unmatched(n, seen[w]) : d \in Discrepancies /\ WellFormed(d)
  <2> SUFFICES ASSUME NEW d \in Unmatched(n, seen[w])
               PROVE  d \in Discrepancies /\ WellFormed(d)
    OBVIOUS
  <2>1. PICK m \in seen[w] :
          \/ d = Discrepancy(n, m, "UNEXPECTED_SETTLEMENT", 0)
          \/ /\ d = Discrepancy(n, m, "MISSING_SETTLEMENT", 0)
             /\ m.pos # None /\ m.plat = None /\ Status[m.pos] = "OTHER"
          \/ /\ d = Discrepancy(n, m, "CANCELLED_AFTER_PREPARATION", 0)
             /\ m.pos # None /\ m.plat = None /\ Status[m.pos] = "CANCELLED"
    BY DEF Unmatched
  <2>2. m \in Matches /\ (m.pos # None => m.pos \in Pos)
    BY <1>1 DEF Matches
  <2>3. d \in Discrepancies
    BY <1>1, <2>1, <2>2 DEF Discrepancy, Discrepancies, Categories
  <2>4. WellFormed(d)
    BY <2>1, <2>2 DEF Discrepancy, WellFormed
  <2> QED BY <2>3, <2>4
<1>3. \A d \in OutOfTolerance(n, given[w]) : d \in Discrepancies /\ WellFormed(d)
  <2> SUFFICES ASSUME NEW d \in OutOfTolerance(n, given[w])
               PROVE  d \in Discrepancies /\ WellFormed(d)
    OBVIOUS
  <2>1. PICK r \in given[w] :
          \/ d = Discrepancy(n, r.match, "INCORRECT_COMMISSION", r.call)
          \/ d = Discrepancy(n, r.match, "SETTLEMENT_AMOUNT_MISMATCH", r.call)
    BY DEF OutOfTolerance
  <2>2. r.match \in Matches /\ r.call \in 0..MaxCalls /\ Comparable(r.match)
    BY <1>1 DEF Results
  <2>3. d \in Discrepancies
    BY <1>1, <2>1, <2>2 DEF Discrepancy, Discrepancies, Categories
  <2>4. WellFormed(d)
    BY <2>1, <2>2 DEF Discrepancy, WellFormed
  <2> QED BY <2>3, <2>4
<1> QED BY <1>2, <1>3 DEF Found

\* A comparison writes results of pairs that have a contract.
LEMMA ComparedComparable ==
  ASSUME IInv, NEW w \in Workers, pc[w] # "idle"
  PROVE  Compared(w) \subseteq Results /\ \A r \in Compared(w) : Comparable(r.match)
<1>1. call[w] \in 1..MaxCalls /\ seen[w] \subseteq Matches
  BY DEF IInv, SessionInv, TypeOK
<1> SUFFICES ASSUME NEW r \in Compared(w) PROVE r \in Results /\ Comparable(r.match)
  OBVIOUS
<1>2. PICK m \in seen[w] : r = Result(call[w], m) /\ TwoSided(m) /\ Rate[m.pos] # None
  BY DEF Compared
<1>3. m \in Matches /\ m.pos \in Pos /\ m.plat \in Plat
  BY <1>1, <1>2 DEF Matches, TwoSided
<1> QED BY <1>1, <1>2, <1>3 DEF Result, Results, Comparable

\* The rows of a matching run are typed.
LEMMA PlanTyped == ASSUME NEW n \in 1..MaxMatchings PROVE PlanRows(n) \subseteq Matches
<1> SUFFICES ASSUME NEW m \in PlanRows(n) PROVE m \in Matches
  OBVIOUS
<1>1. PICK p \in Pos \cup {None}, q \in Plat \cup {None} : m = Match(n, p, q)
  BY DEF PlanRows
<1> QED BY <1>1 DEF Match, Matches

(***************************************************************************)
(* The invariant.                                                          *)
(***************************************************************************)
LEMMA InitInv == Init => IInv
<1> SUFFICES ASSUME Init PROVE IInv
  OBVIOUS
<1>1. 1 \in 1..MaxMatchings
  OBVIOUS
<1>2. PlanRows(1) \subseteq Matches
  BY <1>1, PlanTyped
<1>3. TypeOK
  <2>1. discrepancies \in [DOMAIN discrepancies -> Classified] /\ DOMAIN discrepancies = {}
    BY DEF Init
  <2>2. confirmations \in Confirmations /\ told \in [Workers -> Confirmations]
    BY DEF Init, Confirmations
  <2> QED BY <1>1, <1>2, <2>1, <2>2 DEF Init, TypeOK, Labels
<1>4. SessionInv /\ RowsInv /\ ClaimsJustified /\ ReviewedKept
  BY DEF Init, SessionInv, RowsInv, ClaimsJustified, ReviewedKept
<1> QED BY <1>3, <1>4 DEF IInv

\* A step that leaves the discrepancies, the answers and the reviews alone.
LEMMA QuietStep ==
  ASSUME IInv, UNCHANGED <<discrepancies, confirmations, reviewed>>
  PROVE  RowsInv' /\ ClaimsJustified' /\ ReviewedKept'
BY DEF IInv, RowsInv, ClaimsJustified, ReviewedKept, Rated, AnswerTo, WellFormed, Comparable

\* The matches change.
LEMMA MatchesStep ==
  ASSUME IInv, MatchesChange, matches' \subseteq Matches, active' \subseteq matches'
  PROVE  IInv'
<1>1. matchings' \in 1..MaxMatchings
  BY DEF IInv, TypeOK, MatchesChange
<1>2. TypeOK'
  BY <1>1 DEF IInv, TypeOK, MatchesChange, tables, locals
<1>3. SessionInv'
  BY DEF IInv, SessionInv, MatchesChange, tables, locals
<1>4. RowsInv' /\ ClaimsJustified' /\ ReviewedKept'
  BY QuietStep DEF MatchesChange, tables
<1> QED BY <1>2, <1>3, <1>4 DEF IInv

\* A request closes: the tables it leaves behind decide.
LEMMA CloseStep ==
  ASSUME IInv, NEW w \in Workers, Close(w),
         results' \subseteq Results, \A r \in results' : Comparable(r.match),
         discrepancies' \in [DOMAIN discrepancies' -> Classified],
         DOMAIN discrepancies' \subseteq Discrepancies,
         confirmations' \in Confirmations,
         \A x \in Refs : confirmations[x] # None => confirmations'[x] # None,
         reviewed' \subseteq Discrepancies,
         fresh' \in {"none", "compared", "detected"}
  PROVE  TypeOK' /\ SessionInv'
<1>1. [x \in Refs |-> None] \in Confirmations
  BY DEF Confirmations
<1>2. TypeOK'
  BY <1>1 DEF IInv, TypeOK, Close, Goto, matchVars, Labels
<1>3. SessionInv'
  BY DEF IInv, TypeOK, SessionInv, Close, Goto, matchVars
<1> QED BY <1>2, <1>3

\* A request starts, having read what its first statement reads.
LEMMA StartStep ==
  ASSUME IInv, NEW w \in Workers, Start(w), NEW to \in Labels, Goto(w, to),
         known' \in [Workers -> SUBSET Matches], seen' \in [Workers -> SUBSET Matches],
         UNCHANGED <<given, told, doomed>>,
         target' \in [Workers -> SUBSET Targets],
         \A v \in Workers : \A t \in target'[v] : Cancellation(t.row) /\ WellFormed(t.row)
  PROVE  IInv'
<1>1. calls' \in 1..MaxCalls /\ calls' = calls + 1 /\ calls \in 0..MaxCalls
  BY DEF IInv, TypeOK, Start
<1>2. call' \in [Workers -> 0..calls']
  BY <1>1 DEF IInv, TypeOK, Start
<1>3. solo' \in [Workers -> BOOLEAN]
  BY DEF Start
<1>4. TypeOK'
  BY <1>1, <1>2, <1>3 DEF IInv, TypeOK, Start, Goto, matchVars, tables
<1>5. SessionInv'
  BY <1>1 DEF IInv, TypeOK, SessionInv, Start, Goto, matchVars, tables
<1>6. RowsInv' /\ ClaimsJustified' /\ ReviewedKept'
  BY QuietStep DEF Start, tables
<1> QED BY <1>4, <1>5, <1>6 DEF IInv

\* An open request reads or deletes: what it holds is typed, and comparable.
LEMMA ReadStep ==
  ASSUME IInv, NEW w \in Workers, NEW from \in Labels, NEW to \in Labels, from # "idle",
         Step(w, from, to), UNCHANGED <<known, seen, target>>,
         given' \in [Workers -> SUBSET Results],
         \A v \in Workers : \A r \in given'[v] : Comparable(r.match),
         doomed' \in [Workers -> SUBSET (Results \cup Discrepancies)],
         told' \in [Workers -> Confirmations],
         \A v \in Workers : \A x \in Refs : told'[v][x] # None => confirmations[x] # None
  PROVE  IInv'
<1>1. TypeOK'
  BY DEF IInv, TypeOK, Step, Goto, matchVars, tables
<1>2. SessionInv'
  BY DEF IInv, TypeOK, SessionInv, Step, Goto, matchVars, tables
<1>3. RowsInv' /\ ClaimsJustified' /\ ReviewedKept'
  BY QuietStep DEF Step, tables
<1> QED BY <1>1, <1>2, <1>3 DEF IInv

\* A comparison replaces results only.
LEMMA CompareCommitInv == ASSUME IInv, NEW w \in Workers, CompareCommit(w) PROVE IInv'
<1>1. pc[w] # "idle"
  BY DEF CompareCommit
<1>2. results' \subseteq Results /\ \A r \in results' : Comparable(r.match)
  BY <1>1, ComparedComparable DEF IInv, TypeOK, SessionInv, CompareCommit
<1>3. TypeOK' /\ SessionInv'
  <2>1. fresh' \in {"none", "compared", "detected"}
    BY DEF CompareCommit
  <2>2. /\ discrepancies' \in [DOMAIN discrepancies' -> Classified]
        /\ DOMAIN discrepancies' \subseteq Discrepancies
        /\ confirmations' \in Confirmations /\ reviewed' \subseteq Discrepancies
    BY DEF IInv, TypeOK, CompareCommit
  <2>3. Close(w) /\ confirmations' = confirmations
    BY DEF CompareCommit
  <2> QED BY <1>2, <2>1, <2>2, <2>3, CloseStep
<1>4. RowsInv' /\ ClaimsJustified' /\ ReviewedKept'
  BY QuietStep DEF CompareCommit
<1> QED BY <1>3, <1>4 DEF IInv

\* A detection keeps what it did not see and what is reviewed, and adds rows
\* whose claims the answers it has read justify; answers are never withdrawn.
LEMMA DetectCommitInv == ASSUME IInv, NEW w \in Workers, DetectCommit(w) PROVE IInv'
<1> DEFINE F == Found(w)
           D == (DOMAIN discrepancies \ doomed[w]) \cup F
<1>1. pc[w] # "idle"
  BY DEF DetectCommit
<1>2. F \subseteq Discrepancies /\ \A d \in F : WellFormed(d)
  BY <1>1, FoundWellFormed
<1>3. told[w] \in Confirmations /\ \A x \in Refs : told[w][x] # None => confirmations[x] # None
  BY DEF IInv, TypeOK, SessionInv
<1>4. /\ DOMAIN discrepancies' = D
      /\ \A d \in D : discrepancies'[d] = IF d \in F THEN Classify(d, known[w], told[w])
                                                    ELSE discrepancies[d]
      /\ discrepancies' = [d \in D |-> discrepancies'[d]]
  BY DEF DetectCommit, Replaced
<1>5. UNCHANGED <<results, confirmations, reviewed>> /\ Close(w)
  BY DEF DetectCommit
<1>6. D \subseteq Discrepancies /\ \A d \in D : WellFormed(d)
  BY <1>2 DEF IInv, TypeOK, RowsInv
<1>7. ASSUME NEW d \in D
      PROVE  /\ discrepancies'[d] \in Classified
             /\ discrepancies'[d].treatment = "RECOVERABLE" => Justified(d, confirmations)
  <2>1. CASE d \in F
    <3>1. d \in Discrepancies /\ WellFormed(d) /\ discrepancies'[d] = Classify(d, known[w], told[w])
      BY <1>2, <1>4, <2>1
    <3>2. /\ discrepancies'[d] \in Classified
          /\ discrepancies'[d].treatment = "RECOVERABLE" => Justified(d, told[w])
      BY <1>3, <3>1, ClassifyJustified
    <3>3. Justified(d, told[w]) => Justified(d, confirmations)
      <4> SUFFICES ASSUME Justified(d, told[w]) PROVE Justified(d, confirmations)
        OBVIOUS
      <4>1. CASE d.match.plat # None
        BY <4>1 DEF Justified
      <4>2. CASE d.match.plat = None
        <5>1. d.match.pos \in Pos
          BY <3>1 DEF Justified, Rated, Discrepancies, Matches
        <5>2. Ref[d.match.pos] \in Refs
          BY <5>1, OrderData
        <5> QED BY <1>3, <5>2 DEF Justified
      <4> QED BY <4>1, <4>2
    <3> QED BY <3>2, <3>3
  <2>2. CASE d \notin F
    <3>1. d \in DOMAIN discrepancies /\ discrepancies'[d] = discrepancies[d]
      BY <1>4, <2>2
    <3> QED BY <3>1 DEF IInv, TypeOK, ClaimsJustified, Justified, AnswerTo
  <2> QED BY <2>1, <2>2
<1>8. discrepancies' \in [DOMAIN discrepancies' -> Classified]
  BY <1>4, <1>7
<1>9. TypeOK' /\ SessionInv'
  <2>1. fresh' \in {"none", "compared", "detected"}
    BY DEF DetectCommit, Recomputed
  <2>2. /\ results' \subseteq Results /\ \A r \in results' : Comparable(r.match)
        /\ confirmations' \in Confirmations /\ reviewed' \subseteq Discrepancies
    BY <1>5 DEF IInv, TypeOK, SessionInv
  <2>3. DOMAIN discrepancies' \subseteq Discrepancies
    BY <1>4, <1>6
  <2> QED BY <1>5, <1>8, <2>1, <2>2, <2>3, CloseStep
<1>10. RowsInv'
  BY <1>4, <1>6 DEF RowsInv, WellFormed, Comparable
<1>11. ClaimsJustified'
  BY <1>4, <1>5, <1>7 DEF ClaimsJustified, Justified, AnswerTo, Rated
<1>12. ReviewedKept'
  BY <1>4, <1>5 DEF IInv, ReviewedKept, DetectCommit, MayDelete
<1> QED BY <1>9, <1>10, <1>11, <1>12 DEF IInv

\* A confirmation leaves an answer where it found one or none, so that a claim
\* it writes, and one it leaves standing, has an answer.
LEMMA ConfirmCommitInv == ASSUME IInv, NEW w \in Workers, ConfirmCommit(w) PROVE IInv'
<1>1. PICK t \in target[w] :
        /\ Answer(w, t, Ref[t.row.match.pos], ClassifyCancellation(t.row.match.pos, t.by))
        /\ fresh' = IF fresh = "detected" /\ (~ solo[w] \/ Twins(t.row) # {})
                    THEN "compared" ELSE fresh
  BY DEF ConfirmCommit
<1> DEFINE p == t.row.match.pos
           x == Ref[p]
           new == ClassifyCancellation(p, t.by)
<1>2. Close(w) /\ UNCHANGED <<results, reviewed>>
  BY DEF ConfirmCommit
<1>3. /\ t \in Targets /\ WellFormed(t.row) /\ Cancellation(t.row)
      /\ told[w] \in Confirmations
      /\ told[w][x] # None => confirmations[x] # None
  <2>1. t \in Targets /\ WellFormed(t.row) /\ Cancellation(t.row) /\ told[w] \in Confirmations
    BY DEF IInv, TypeOK, SessionInv
  <2>2. p \in Pos
    BY <2>1 DEF WellFormed, Cancellation
  <2>3. x \in Refs
    BY <2>2, OrderData
  <2> QED BY <2>1, <2>3 DEF IInv, SessionInv
<1>4. /\ p \in Pos /\ x \in Refs /\ t.by \in CancelledBy /\ t.by # None
      /\ t.was \in Classified
  <2>1. p \in Pos
    BY <1>3 DEF WellFormed, Cancellation
  <2>2. x \in Refs
    BY <2>1, OrderData
  <2>3. t.by \in CancelledBy /\ t.was \in Classified
    BY <1>3 DEF Targets
  <2> QED BY <2>1, <2>2, <2>3, NamesAssumption
<1>5. new \in Classified /\ (new.treatment = "RECOVERABLE" => Rate[p] # None)
  BY <1>4, CancellationNeedsAnswer
<1>6. /\ confirmations' \in Confirmations /\ confirmations'[x] # None
      /\ \A y \in Refs : confirmations[y] # None => confirmations'[y] # None
  BY <1>1, <1>3, <1>4 DEF Answer, Column, Confirmations, IInv, TypeOK
<1>7. /\ DOMAIN discrepancies' = DOMAIN discrepancies
      /\ discrepancies' = [d \in DOMAIN discrepancies |-> discrepancies'[d]]
      /\ \A d \in DOMAIN discrepancies : d # t.row => discrepancies'[d] = discrepancies[d]
      /\ t.row \in DOMAIN discrepancies =>
           discrepancies'[t.row] =
             Verdict(Column(discrepancies[t.row].treatment, t.was.treatment, new.treatment),
                     Column(discrepancies[t.row].claimable, t.was.claimable, new.claimable))
  BY <1>1 DEF Answer
<1>8. ASSUME NEW d \in DOMAIN discrepancies
      PROVE  /\ discrepancies'[d] \in Classified
             /\ discrepancies'[d].treatment = "RECOVERABLE" => Justified(d, confirmations')
  <2>1. d \in Discrepancies /\ discrepancies[d] \in Classified
    BY DEF IInv, TypeOK
  <2>2. discrepancies[d].treatment = "RECOVERABLE" => Justified(d, confirmations)
    BY DEF IInv, ClaimsJustified, Justified, AnswerTo
  <2>3. Justified(d, confirmations) => Justified(d, confirmations')
    <3> SUFFICES ASSUME Justified(d, confirmations) PROVE Justified(d, confirmations')
      OBVIOUS
    <3>1. d.match.pos \in Pos
      BY <2>1 DEF Justified, Rated, Discrepancies, Matches
    <3>2. Ref[d.match.pos] \in Refs
      BY <3>1, OrderData
    <3> QED BY <1>6, <3>2 DEF Justified
  <2>4. CASE d # t.row
    BY <1>7, <2>1, <2>2, <2>3, <2>4
  <2>5. CASE d = t.row
    <3>1. new.treatment = "RECOVERABLE" => Justified(d, confirmations')
      <4>1. Status[p] = "CANCELLED"
        BY <1>3 DEF WellFormed, Cancellation
      <4> QED BY <1>4, <1>5, <1>6, <2>5, <4>1 DEF Justified, Rated
    <3>2. /\ discrepancies'[d].treatment \in {discrepancies[d].treatment, new.treatment}
          /\ discrepancies'[d] \in Classified
      BY <1>5, <1>7, <2>1, <2>5 DEF Verdict, Column, Classified
    <3> QED BY <2>2, <2>3, <3>1, <3>2
  <2> QED BY <2>4, <2>5
<1>9. discrepancies' \in [DOMAIN discrepancies' -> Classified]
  BY <1>7, <1>8
<1>10. TypeOK' /\ SessionInv'
  <2>1. fresh' \in {"none", "compared", "detected"}
    BY <1>1 DEF IInv, TypeOK
  <2>2. /\ results' \subseteq Results /\ \A r \in results' : Comparable(r.match)
        /\ reviewed' \subseteq Discrepancies /\ DOMAIN discrepancies' \subseteq Discrepancies
    BY <1>2, <1>7 DEF IInv, TypeOK, SessionInv
  <2> QED BY <1>2, <1>6, <1>9, <2>1, <2>2, CloseStep
<1>11. RowsInv'
  BY <1>7 DEF IInv, RowsInv, WellFormed, Comparable
<1>12. ClaimsJustified'
  BY <1>7, <1>8 DEF ClaimsJustified, Justified, AnswerTo, Rated
<1>13. ReviewedKept'
  BY <1>2, <1>7 DEF IInv, ReviewedKept
<1> QED BY <1>10, <1>11, <1>12, <1>13 DEF IInv

\* Every step preserves the invariant.
LEMMA NextInv == IInv /\ [Next]_vars => IInv'
<1> SUFFICES ASSUME IInv, [Next]_vars PROVE IInv'
  OBVIOUS
<1>1. CASE Rematch
  <2>1. PlanRows(matchings + 1) \subseteq Matches
    BY <1>1, PlanTyped DEF Rematch, MatchesChange, IInv, TypeOK
  <2> QED BY <1>1, <2>1, MatchesStep DEF Rematch, IInv, TypeOK
<1>2. ASSUME NEW p \in Pos, NEW q \in Plat, PairByHand(p, q) PROVE IInv'
  <2>1. Match(matchings + 1, p, q) \in Matches
    BY <1>2 DEF PairByHand, MatchesChange, IInv, TypeOK, Match, Matches
  <2> QED BY <1>2, <2>1, MatchesStep DEF PairByHand, IInv, TypeOK
<1>3. ASSUME NEW w \in Workers, CompareRead(w) PROVE IInv'
  <2>1. /\ "compare_delete" \in Labels /\ Start(w) /\ Goto(w, "compare_delete")
        /\ UNCHANGED <<given, told, doomed>>
        /\ known' \in [Workers -> SUBSET Matches] /\ seen' \in [Workers -> SUBSET Matches]
        /\ target' \in [Workers -> SUBSET Targets]
    BY <1>3 DEF CompareRead, Labels, IInv, TypeOK
  <2>2. \A v \in Workers : \A t \in target'[v] : Cancellation(t.row) /\ WellFormed(t.row)
    BY <1>3 DEF CompareRead, IInv, TypeOK, SessionInv
  <2> QED BY <2>1, <2>2, StartStep
<1>4. ASSUME NEW w \in Workers, CompareDelete(w) PROVE IInv'
  <2>1. /\ "compare_delete" \in Labels /\ "compare_commit" \in Labels
        /\ Step(w, "compare_delete", "compare_commit") /\ UNCHANGED <<known, seen, target>>
        /\ given' \in [Workers -> SUBSET Results] /\ told' \in [Workers -> Confirmations]
        /\ doomed' \in [Workers -> SUBSET (Results \cup Discrepancies)]
    BY <1>4 DEF CompareDelete, Labels, IInv, TypeOK
  <2>2. /\ \A v \in Workers : \A r \in given'[v] : Comparable(r.match)
        /\ \A v \in Workers : \A x \in Refs : told'[v][x] # None => confirmations[x] # None
    BY <1>4 DEF CompareDelete, IInv, SessionInv
  <2> QED BY <2>1, <2>2, ReadStep
<1>5. ASSUME NEW w \in Workers, DetectReadMatches(w) PROVE IInv'
  <2>1. /\ "detect_results" \in Labels /\ Start(w) /\ Goto(w, "detect_results")
        /\ UNCHANGED <<given, told, doomed>>
        /\ known' \in [Workers -> SUBSET Matches] /\ seen' \in [Workers -> SUBSET Matches]
        /\ target' \in [Workers -> SUBSET Targets]
    BY <1>5 DEF DetectReadMatches, Labels, IInv, TypeOK
  <2>2. \A v \in Workers : \A t \in target'[v] : Cancellation(t.row) /\ WellFormed(t.row)
    BY <1>5 DEF DetectReadMatches, IInv, TypeOK, SessionInv
  <2> QED BY <2>1, <2>2, StartStep
<1>6. ASSUME NEW w \in Workers, DetectReadResults(w) PROVE IInv'
  <2>1. /\ "detect_results" \in Labels /\ "detect_confirmations" \in Labels
        /\ Step(w, "detect_results", "detect_confirmations") /\ UNCHANGED <<known, seen, target>>
        /\ given' \in [Workers -> SUBSET Results] /\ told' \in [Workers -> Confirmations]
        /\ doomed' \in [Workers -> SUBSET (Results \cup Discrepancies)]
    BY <1>6 DEF DetectReadResults, Labels, IInv, TypeOK
  <2>2. /\ \A v \in Workers : \A r \in given'[v] : Comparable(r.match)
        /\ \A v \in Workers : \A x \in Refs : told'[v][x] # None => confirmations[x] # None
    BY <1>6 DEF DetectReadResults, IInv, TypeOK, SessionInv
  <2> QED BY <2>1, <2>2, ReadStep
<1>7. ASSUME NEW w \in Workers, DetectReadConfirmations(w) PROVE IInv'
  <2>1. /\ "detect_confirmations" \in Labels /\ "detect_delete" \in Labels
        /\ Step(w, "detect_confirmations", "detect_delete") /\ UNCHANGED <<known, seen, target>>
        /\ given' \in [Workers -> SUBSET Results] /\ told' \in [Workers -> Confirmations]
        /\ doomed' \in [Workers -> SUBSET (Results \cup Discrepancies)]
    BY <1>7 DEF DetectReadConfirmations, Labels, IInv, TypeOK
  <2>2. /\ \A v \in Workers : \A r \in given'[v] : Comparable(r.match)
        /\ \A v \in Workers : \A x \in Refs : told'[v][x] # None => confirmations[x] # None
    BY <1>7 DEF DetectReadConfirmations, IInv, TypeOK, SessionInv
  <2> QED BY <2>1, <2>2, ReadStep
<1>8. ASSUME NEW w \in Workers, DetectDelete(w) PROVE IInv'
  <2>1. /\ "detect_delete" \in Labels /\ "detect_commit" \in Labels
        /\ Step(w, "detect_delete", "detect_commit") /\ UNCHANGED <<known, seen, target>>
        /\ given' \in [Workers -> SUBSET Results] /\ told' \in [Workers -> Confirmations]
        /\ doomed' \in [Workers -> SUBSET (Results \cup Discrepancies)]
    BY <1>8 DEF DetectDelete, Labels, IInv, TypeOK
  <2>2. /\ \A v \in Workers : \A r \in given'[v] : Comparable(r.match)
        /\ \A v \in Workers : \A x \in Refs : told'[v][x] # None => confirmations[x] # None
    BY <1>8 DEF DetectDelete, IInv, SessionInv
  <2> QED BY <2>1, <2>2, ReadStep
<1>9. ASSUME NEW w \in Workers, NEW d \in DOMAIN discrepancies, NEW by \in CancelledBy,
             ConfirmRead(w, d, by)
      PROVE  IInv'
  <2>1. /\ "confirm_lookup" \in Labels /\ Start(w) /\ Goto(w, "confirm_lookup")
        /\ UNCHANGED <<given, told, doomed>>
        /\ known' \in [Workers -> SUBSET Matches] /\ seen' \in [Workers -> SUBSET Matches]
    BY <1>9 DEF ConfirmRead, Labels, IInv, TypeOK
  <2> DEFINE t0 == [row |-> d, was |-> discrepancies[d], by |-> by]
  <2>2. t0 \in Targets /\ Cancellation(d) /\ WellFormed(d)
    BY <1>9 DEF Targets, ConfirmRead, Cancellation, IInv, TypeOK, RowsInv
  <2>3. target' = [target EXCEPT ![w] = {t0}]
    BY <1>9 DEF ConfirmRead
  <2>4. target' \in [Workers -> SUBSET Targets]
    BY <2>2, <2>3 DEF IInv, TypeOK
  <2>5. \A v \in Workers : \A t \in target'[v] : Cancellation(t.row) /\ WellFormed(t.row)
    BY <2>2, <2>3 DEF IInv, TypeOK, SessionInv
  <2> QED BY <2>1, <2>4, <2>5, StartStep
<1>10. ASSUME NEW w \in Workers, ConfirmLookup(w) PROVE IInv'
  <2>1. /\ "confirm_lookup" \in Labels /\ "confirm_commit" \in Labels
        /\ Step(w, "confirm_lookup", "confirm_commit") /\ UNCHANGED <<known, seen, target>>
        /\ given' \in [Workers -> SUBSET Results] /\ told' \in [Workers -> Confirmations]
        /\ doomed' \in [Workers -> SUBSET (Results \cup Discrepancies)]
    BY <1>10 DEF ConfirmLookup, Labels, IInv, TypeOK
  <2>2. /\ \A v \in Workers : \A r \in given'[v] : Comparable(r.match)
        /\ \A v \in Workers : \A x \in Refs : told'[v][x] # None => confirmations[x] # None
    BY <1>10 DEF ConfirmLookup, IInv, TypeOK, SessionInv
  <2> QED BY <2>1, <2>2, ReadStep
<1>11. ASSUME NEW w \in Workers, Abort(w) PROVE IInv'
  <2>1. Close(w) /\ UNCHANGED <<tables, fresh>>
    BY <1>11 DEF Abort
  <2>2. TypeOK' /\ SessionInv'
    <3>1. /\ results' \subseteq Results /\ \A r \in results' : Comparable(r.match)
          /\ discrepancies' \in [DOMAIN discrepancies' -> Classified]
          /\ DOMAIN discrepancies' \subseteq Discrepancies
          /\ confirmations' \in Confirmations /\ confirmations' = confirmations
          /\ reviewed' \subseteq Discrepancies /\ fresh' \in {"none", "compared", "detected"}
      BY <2>1 DEF tables, IInv, TypeOK, SessionInv
    <3> QED BY <2>1, <3>1, CloseStep
  <2>3. RowsInv' /\ ClaimsJustified' /\ ReviewedKept'
    BY <2>1, QuietStep DEF tables
  <2> QED BY <2>2, <2>3 DEF IInv
<1>12. ASSUME NEW d \in DOMAIN discrepancies, ReviewDiscrepancy(d) PROVE IInv'
  <2>1. calls \in 0..MaxCalls /\ calls' = calls + 1 /\ calls' \in 0..MaxCalls
    BY <1>12 DEF ReviewDiscrepancy, IInv, TypeOK
  <2>2. call' \in [Workers -> 0..calls']
    BY <1>12, <2>1 DEF ReviewDiscrepancy, IInv, TypeOK, locals
  <2>3. TypeOK'
    BY <1>12, <2>1, <2>2 DEF ReviewDiscrepancy, IInv, TypeOK, matchVars, locals
  <2>4. SessionInv'
    BY <1>12 DEF ReviewDiscrepancy, IInv, SessionInv, matchVars, locals
  <2>5. RowsInv' /\ ClaimsJustified' /\ ReviewedKept'
    BY <1>12 DEF ReviewDiscrepancy, IInv, RowsInv, ClaimsJustified, ReviewedKept, Rated, AnswerTo,
                 WellFormed, Comparable
  <2> QED BY <2>3, <2>4, <2>5 DEF IInv
<1>13. CASE UNCHANGED vars
  BY <1>13 DEF vars, matchVars, tables, locals, IInv, TypeOK, SessionInv, RowsInv, ClaimsJustified,
               ReviewedKept, Rated, AnswerTo, WellFormed, Comparable
<1> QED
  BY <1>1, <1>2, <1>3, <1>4, <1>5, <1>6, <1>7, <1>8, <1>9, <1>10, <1>11, <1>12, <1>13,
     CompareCommitInv, DetectCommitInv, ConfirmCommitInv DEF Next

LEMMA Invariant == Spec => []IInv
<1>1. Init => IInv
  BY InitInv
<1>2. IInv /\ [Next]_vars => IInv'
  BY NextInv
<1> QED BY <1>1, <1>2, PTL DEF Spec

(***************************************************************************)
(* Requests that nothing overlaps.                                         *)
(***************************************************************************)
Comparing == {"compare_delete", "compare_commit"}
Detecting == {"detect_results", "detect_confirmations", "detect_delete", "detect_commit"}
Confirming == {"confirm_lookup", "confirm_commit"}

\* What a request has read is still what the tables hold.
Undisturbed(w) ==
  /\ \A u \in Workers \ {w} : pc[u] = "idle"
  /\ pc[w] \in Comparing \cup Detecting => seen[w] = active
  /\ pc[w] = "compare_commit" => doomed[w] = results
  /\ pc[w] \in Detecting => known[w] = matches
  /\ pc[w] \in Detecting \ {"detect_results"} => given[w] = results
  /\ pc[w] \in {"detect_delete", "detect_commit", "confirm_commit"} => told[w] = confirmations
  /\ pc[w] = "detect_commit" => doomed[w] = DOMAIN discrepancies
  /\ pc[w] \in Confirming =>
       \A t \in target[w] : t.row \in DOMAIN discrepancies /\ t.was = discrepancies[t.row]

SoloInv == \A w \in Workers : solo[w] /\ pc[w] # "idle" => Undisturbed(w)

\* A match row has a side.
Sided(m) == m.pos # None \/ m.plat # None
SidesInv ==
  /\ \A m \in matches : Sided(m)
  /\ \A w \in Workers : \A m \in seen[w] : Sided(m)
  /\ \A d \in DOMAIN discrepancies :
       d.category = "UNEXPECTED_SETTLEMENT" => d.match.pos = None /\ d.match.plat \in Plat

\* The results are of the active pairs that have a contract, one of each.
ResultsDue ==
  /\ \A r \in results : r.match \in active /\ TwoSided(r.match) /\ Rate[r.match.pos] # None
  /\ \A m \in active : TwoSided(m) /\ Rate[m.pos] # None => \E r \in results : r.match = m
  /\ \A r, s \in results : r.match = s.match => r = s

DueInv == fresh # "none" => ResultsDue

\* A request that closes disturbs nobody: it was alone or it was not.
LEMMA SoloClose ==
  ASSUME TypeOK, SoloInv, NEW w \in Workers, Close(w), pc[w] # "idle"
  PROVE  SoloInv'
BY DEF TypeOK, SoloInv, Undisturbed, Close, Goto

\* What a request that runs alone reads stays as it was read.
LEMMA SoloStep == ASSUME TypeOK, SoloInv, [Next]_vars PROVE SoloInv'
<1>1. ASSUME MatchesChange PROVE SoloInv'
  BY <1>1 DEF MatchesChange, SoloInv
<1>2. ASSUME NEW w \in Workers, CompareRead(w) PROVE SoloInv'
  BY <1>2 DEF CompareRead, Start, Goto, TypeOK, SoloInv, Undisturbed, Comparing, Detecting, Confirming, matchVars, tables
<1>3. ASSUME NEW w \in Workers, CompareDelete(w) PROVE SoloInv'
  BY <1>3 DEF CompareDelete, Step, Goto, TypeOK, SoloInv, Undisturbed, Comparing, Detecting, Confirming, matchVars, tables
<1>4. ASSUME NEW w \in Workers, DetectReadMatches(w) PROVE SoloInv'
  BY <1>4 DEF DetectReadMatches, Start, Goto, TypeOK, SoloInv, Undisturbed, Comparing, Detecting, Confirming, matchVars, tables
<1>5. ASSUME NEW w \in Workers, DetectReadResults(w) PROVE SoloInv'
  BY <1>5 DEF DetectReadResults, Step, Goto, TypeOK, SoloInv, Undisturbed, Comparing, Detecting, Confirming, matchVars, tables
<1>6. ASSUME NEW w \in Workers, DetectReadConfirmations(w) PROVE SoloInv'
  BY <1>6 DEF DetectReadConfirmations, Step, Goto, TypeOK, SoloInv, Undisturbed, Comparing, Detecting, Confirming, matchVars, tables
<1>7. ASSUME NEW w \in Workers, DetectDelete(w) PROVE SoloInv'
  BY <1>7 DEF DetectDelete, Step, Goto, TypeOK, SoloInv, Undisturbed, Comparing, Detecting, Confirming, matchVars, tables
<1>8. ASSUME NEW w \in Workers, NEW d \in DOMAIN discrepancies, NEW by \in CancelledBy, ConfirmRead(w, d, by)
      PROVE  SoloInv'
  <2>1. /\ \A v \in Workers : solo'[v] => v = w /\ \A u \in Workers \ {w} : pc[u] = "idle"
        /\ pc'[w] = "confirm_lookup" /\ \A u \in Workers \ {w} : pc'[u] = pc[u]
        /\ discrepancies' = discrepancies
    BY <1>8 DEF ConfirmRead, Start, Goto, TypeOK, tables
  <2>2. target'[w] = {[row |-> d, was |-> discrepancies[d], by |-> by]}
    BY <1>8 DEF ConfirmRead, TypeOK
  <2>3. \A t \in target'[w] : t.row \in DOMAIN discrepancies' /\ t.was = discrepancies'[t.row]
    BY <2>1, <2>2
  <2> QED BY <2>1, <2>3 DEF SoloInv, Undisturbed, Comparing, Detecting, Confirming
<1>9. ASSUME NEW w \in Workers, ConfirmLookup(w) PROVE SoloInv'
  BY <1>9 DEF ConfirmLookup, Step, Goto, TypeOK, SoloInv, Undisturbed, Comparing, Detecting, Confirming, matchVars, tables
<1>10. ASSUME NEW w \in Workers, CompareCommit(w) \/ DetectCommit(w) \/ ConfirmCommit(w) \/ Abort(w)
       PROVE  SoloInv'
  <2>1. Close(w) /\ pc[w] # "idle"
    BY <1>10 DEF CompareCommit, DetectCommit, ConfirmCommit, Abort
  <2> QED BY <2>1, SoloClose
<1>11. ASSUME NEW d \in DOMAIN discrepancies, ReviewDiscrepancy(d) PROVE SoloInv'
  BY <1>11 DEF ReviewDiscrepancy, SoloInv, Undisturbed, matchVars, locals
<1>12. CASE UNCHANGED vars
  BY <1>12 DEF vars, matchVars, tables, locals, SoloInv, Undisturbed
<1> QED
  BY <1>1, <1>2, <1>3, <1>4, <1>5, <1>6, <1>7, <1>8, <1>9, <1>10, <1>11, <1>12
  DEF Next, Rematch, PairByHand


\* The rows of a matching run and of a pairing by hand have a side.
LEMMA SidesStep ==
  ASSUME IInv, SidesInv, [Next]_vars
  PROVE  SidesInv'
<1>1. CASE Rematch
  <2>1. \A m \in PlanRows(matchings + 1) : Sided(m)
    BY DEF PlanRows, Match, Sided
  <2> QED BY <1>1, <2>1 DEF Rematch, MatchesChange, tables, locals, SidesInv
<1>2. ASSUME NEW p \in Pos, NEW q \in Plat, PairByHand(p, q) PROVE SidesInv'
  <2>1. Sided(Match(matchings + 1, p, q))
    BY DEF Match, Sided
  <2> QED BY <1>2, <2>1 DEF PairByHand, MatchesChange, tables, locals, SidesInv
<1>3. ASSUME NEW w \in Workers, CompareRead(w) \/ DetectReadMatches(w) PROVE SidesInv'
  BY <1>3 DEF CompareRead, DetectReadMatches, Start, matchVars, tables, SidesInv, IInv, TypeOK
<1>4. ASSUME NEW w \in Workers, DetectCommit(w) PROVE SidesInv'
  <2>1. /\ matches' = matches /\ \A v \in Workers : seen'[v] \subseteq seen[v]
        /\ DOMAIN discrepancies' \subseteq DOMAIN discrepancies \cup Found(w)
    BY <1>4 DEF DetectCommit, Replaced, Close, matchVars, IInv, TypeOK
  <2>2. ASSUME NEW d \in Found(w), d.category = "UNEXPECTED_SETTLEMENT"
        PROVE  d.match.pos = None /\ d.match.plat \in Plat
    <3>1. PICK m \in seen[w] : m.pos = None /\ d.match = m
      BY <2>2 DEF Found, Unmatched, OutOfTolerance, Discrepancy
    <3>2. m \in Matches /\ Sided(m)
      BY DEF SidesInv, IInv, TypeOK
    <3> QED BY <3>1, <3>2 DEF Sided, Matches
  <2> QED BY <2>1, <2>2 DEF SidesInv
<1>5. ASSUME NEW w \in Workers, CompareCommit(w) \/ ConfirmCommit(w) \/ Abort(w) PROVE SidesInv'
  <2>1. matches' = matches /\ \A v \in Workers : seen'[v] \subseteq seen[v]
    BY <1>5 DEF CompareCommit, ConfirmCommit, Abort, Close, matchVars, IInv, TypeOK
  <2>2. DOMAIN discrepancies' = DOMAIN discrepancies
    BY <1>5 DEF CompareCommit, ConfirmCommit, Answer, Abort, tables
  <2> QED BY <2>1, <2>2 DEF SidesInv
<1>6. ASSUME NEW w \in Workers, \/ CompareDelete(w) \/ DetectReadResults(w) \/ DetectReadConfirmations(w)
                                \/ DetectDelete(w) \/ ConfirmLookup(w)
      PROVE  SidesInv'
  BY <1>6 DEF CompareDelete, DetectReadResults, DetectReadConfirmations, DetectDelete, ConfirmLookup, Step,
     matchVars, tables, SidesInv
<1>7. ASSUME NEW w \in Workers, NEW d \in DOMAIN discrepancies, NEW by \in CancelledBy, ConfirmRead(w, d, by)
      PROVE  SidesInv'
  BY <1>7 DEF ConfirmRead, Start, matchVars, tables, SidesInv
<1>8. ASSUME NEW d \in DOMAIN discrepancies, ReviewDiscrepancy(d) PROVE SidesInv'
  BY <1>8 DEF ReviewDiscrepancy, matchVars, locals, SidesInv
<1>9. CASE UNCHANGED vars
  BY <1>9 DEF vars, matchVars, tables, locals, SidesInv
<1> QED
  BY <1>1, <1>2, <1>3, <1>4, <1>5, <1>6, <1>7, <1>8, <1>9 DEF Next

\* A step that leaves the results and the matches alone and claims no more.
LEMMA DueKept ==
  ASSUME DueInv, UNCHANGED <<results, active>>, fresh' # "none" => fresh # "none"
  PROVE  DueInv'
BY DEF DueInv, ResultsDue

\* An undisturbed comparison writes one result for each pair that has a contract.
LEMMA DueStep ==
  ASSUME IInv, SoloInv, DueInv, [Next]_vars
  PROVE  DueInv'
<1>1. ASSUME MatchesChange PROVE DueInv'
  BY <1>1 DEF MatchesChange, DueInv
<1>2. ASSUME NEW w \in Workers, CompareCommit(w) PROVE DueInv'
  <2>1. CASE ~ solo[w]
    BY <1>2, <2>1 DEF CompareCommit, DueInv
  <2>2. CASE solo[w]
    <3>1. seen[w] = active /\ doomed[w] = results /\ active' = active
      BY <1>2, <2>2 DEF CompareCommit, SoloInv, Undisturbed, Comparing, Close, matchVars
    <3>2. results' = {Result(call[w], m) : m \in {x \in active : TwoSided(x) /\ Rate[x.pos] # None}}
      BY <1>2, <3>1 DEF CompareCommit, Compared
    <3>3. \A r \in results' : \E m \in active : /\ r = Result(call[w], m) /\ r.match = m
                                             /\ TwoSided(m) /\ Rate[m.pos] # None
      BY <3>2 DEF Result
    <3>4. \A m \in active : TwoSided(m) /\ Rate[m.pos] # None => \E r \in results' : r.match = m
      <4>1. ASSUME NEW m \in active, TwoSided(m), Rate[m.pos] # None PROVE \E r \in results' : r.match = m
        <5>1. Result(call[w], m) \in results' /\ Result(call[w], m).match = m
          BY <3>2, <4>1 DEF Result
        <5> QED BY <5>1
      <4> QED BY <4>1
    <3>5. ResultsDue'
      BY <3>1, <3>3, <3>4 DEF ResultsDue, TwoSided
    <3> QED BY <3>5 DEF DueInv
  <2> QED BY <2>1, <2>2
<1>3. ASSUME NEW w \in Workers, DetectCommit(w) PROVE DueInv'
  BY <1>3, DueKept DEF DetectCommit, Recomputed, Close, matchVars
<1>4. ASSUME NEW w \in Workers, ConfirmCommit(w) PROVE DueInv'
  BY <1>4, DueKept DEF ConfirmCommit, Close, matchVars
<1>5. ASSUME NEW w \in Workers, Abort(w) PROVE DueInv'
  BY <1>5, DueKept DEF Abort, Close, matchVars, tables
<1>6. ASSUME NEW w \in Workers, CompareRead(w) \/ DetectReadMatches(w) PROVE DueInv'
  BY <1>6, DueKept DEF CompareRead, DetectReadMatches, Start, matchVars, tables
<1>7. ASSUME NEW w \in Workers, NEW d \in DOMAIN discrepancies, NEW by \in CancelledBy, ConfirmRead(w, d, by)
      PROVE  DueInv'
  BY <1>7, DueKept DEF ConfirmRead, Start, matchVars, tables
<1>8. ASSUME NEW w \in Workers, \/ CompareDelete(w) \/ DetectReadResults(w) \/ DetectReadConfirmations(w)
                                \/ DetectDelete(w) \/ ConfirmLookup(w)
      PROVE  DueInv'
  BY <1>8, DueKept DEF CompareDelete, DetectReadResults, DetectReadConfirmations, DetectDelete, ConfirmLookup, Step,
     matchVars, tables
<1>9. ASSUME NEW d \in DOMAIN discrepancies, ReviewDiscrepancy(d) PROVE DueInv'
  BY <1>9, DueKept DEF ReviewDiscrepancy, matchVars
<1>10. CASE UNCHANGED vars
  BY <1>10, DueKept DEF vars, matchVars, tables
<1> QED
  BY <1>1, <1>2, <1>3, <1>4, <1>5, <1>6, <1>7, <1>8, <1>9, <1>10 DEF Next, Rematch, PairByHand

\* What a detection finds when it has read the results and the matches as they
\* are: the rows that the active matches call for, one of each.
LEMMA FoundDue ==
  ASSUME IInv, ResultsDue, NEW w \in Workers, seen[w] = active, given[w] = results
  PROVE  /\ {<<d.match, d.category>> : d \in Found(w)} = UNION {{<<m, c>> : c \in CategoriesDue(m)} : m \in active}
         /\ \A d, e \in Found(w) : d.match = e.match /\ d.category = e.category => d = e
<1> DEFINE n == call[w]
<1>1. ASSUME NEW d \in Found(w)
      PROVE  /\ d.match \in active /\ d.category \in CategoriesDue(d.match)
             /\ \/ d = Discrepancy(n, d.match, d.category, 0)
                   /\ d.category \notin {"INCORRECT_COMMISSION", "SETTLEMENT_AMOUNT_MISMATCH"}
                \/ /\ d.category \in {"INCORRECT_COMMISSION", "SETTLEMENT_AMOUNT_MISMATCH"}
                   /\ \E r \in results : r.match = d.match /\ d = Discrepancy(n, r.match, d.category, r.call)
  <2>1. CASE d \in Unmatched(n, active)
    <3>1. PICK m \in active :
            \/ d = Discrepancy(n, m, "UNEXPECTED_SETTLEMENT", 0) /\ m.pos = None
            \/ /\ d = Discrepancy(n, m, "MISSING_SETTLEMENT", 0)
               /\ m.pos # None /\ m.plat = None /\ Status[m.pos] = "OTHER"
            \/ /\ d = Discrepancy(n, m, "CANCELLED_AFTER_PREPARATION", 0)
               /\ m.pos # None /\ m.plat = None /\ Status[m.pos] = "CANCELLED"
      BY <2>1 DEF Unmatched
    <3> QED BY <3>1 DEF Discrepancy, CategoriesDue, Categories
  <2>2. CASE d \in OutOfTolerance(n, results)
    <3>1. PICK r \in results :
            \/ d = Discrepancy(n, r.match, "INCORRECT_COMMISSION", r.call) /\ ~ CommissionWithin(r.match)
            \/ d = Discrepancy(n, r.match, "SETTLEMENT_AMOUNT_MISMATCH", r.call) /\ ~ SettlementWithin(r.match)
      BY <2>2 DEF OutOfTolerance
    <3>2. r.match \in active /\ r.match.pos # None /\ r.match.plat # None /\ Rate[r.match.pos] # None
      BY DEF ResultsDue, TwoSided
    <3> QED BY <3>1, <3>2 DEF Discrepancy, CategoriesDue, Categories
  <2> QED BY <2>1, <2>2 DEF Found
<1>2. ASSUME NEW m \in active, NEW c \in CategoriesDue(m)
      PROVE  \E d \in Found(w) : d.match = m /\ d.category = c
  <2>1. CASE m.pos = None
    <3>1. c = "UNEXPECTED_SETTLEMENT"
      BY <1>2, <2>1 DEF CategoriesDue
    <3>2. Discrepancy(n, m, c, 0) \in Found(w)
      BY <2>1, <3>1 DEF Found, Unmatched
    <3> QED BY <3>2 DEF Discrepancy
  <2>2. CASE m.pos # None /\ m.plat = None
    <3>1. \/ Status[m.pos] = "OTHER" /\ c = "MISSING_SETTLEMENT"
          \/ Status[m.pos] = "CANCELLED" /\ c = "CANCELLED_AFTER_PREPARATION"
      BY <1>2, <2>2 DEF CategoriesDue
    <3>2. Discrepancy(n, m, c, 0) \in Found(w)
      BY <2>2, <3>1 DEF Found, Unmatched
    <3> QED BY <3>2 DEF Discrepancy
  <2>3. CASE m.pos # None /\ m.plat # None
    <3>1. /\ Rate[m.pos] # None
          /\ \/ c = "INCORRECT_COMMISSION" /\ ~ CommissionWithin(m)
             \/ c = "SETTLEMENT_AMOUNT_MISMATCH" /\ ~ SettlementWithin(m)
      BY <1>2, <2>3 DEF CategoriesDue
    <3>2. PICK r \in results : r.match = m
      BY <2>3, <3>1 DEF ResultsDue, TwoSided
    <3>3. Discrepancy(n, m, c, r.call) \in Found(w)
      BY <3>1, <3>2 DEF Found, OutOfTolerance
    <3> QED BY <3>3 DEF Discrepancy
  <2> QED BY <2>1, <2>2, <2>3
<1>3. ASSUME NEW d \in Found(w), NEW e \in Found(w), d.match = e.match, d.category = e.category
      PROVE  d = e
  <2>1. CASE d.category \notin {"INCORRECT_COMMISSION", "SETTLEMENT_AMOUNT_MISMATCH"}
    BY <1>1, <1>3, <2>1
  <2>2. CASE d.category \in {"INCORRECT_COMMISSION", "SETTLEMENT_AMOUNT_MISMATCH"}
    <3>1. PICK r \in results : r.match = d.match /\ d = Discrepancy(n, r.match, d.category, r.call)
      BY <1>1, <2>2
    <3>2. PICK s \in results : s.match = e.match /\ e = Discrepancy(n, s.match, e.category, s.call)
      BY <1>1, <1>3, <2>2
    <3>3. r = s
      BY <1>3, <3>1, <3>2 DEF ResultsDue
    <3> QED BY <1>3, <3>1, <3>2, <3>3
  <2> QED BY <2>1, <2>2
<1>4. \A d \in Found(w) : d.match \in active /\ d.category \in CategoriesDue(d.match)
  BY <1>1
<1> HIDE DEF n
<1>5. {<<d.match, d.category>> : d \in Found(w)} \subseteq UNION {{<<m, c>> : c \in CategoriesDue(m)} : m \in active}
  BY <1>4
<1>6. ASSUME NEW m \in active, NEW c \in CategoriesDue(m)
      PROVE  <<m, c>> \in {<<d.match, d.category>> : d \in Found(w)}
  BY <1>2
<1>7. UNION {{<<m, c>> : c \in CategoriesDue(m)} : m \in active} \subseteq {<<d.match, d.category>> : d \in Found(w)}
  BY <1>6
<1> QED BY <1>3, <1>5, <1>7

\* VerdictDue, of any verdict and with any answers.
DueWith(d, v, answers) ==
  LET lost == Loss(d) > 0 /\ (Cancellation(d) => answers[Ref[d.match.pos]] \in CLAIMABLE_CANCELLERS)
  IN /\ v.treatment = "RECOVERABLE" <=> lost /\ Rated(d)
     /\ v.treatment = "NEEDS_CONTRACT" <=> lost /\ ~ Rated(d)
     /\ v.treatment = "NEEDS_CONFIRMATION" <=> Cancellation(d) /\ answers[Ref[d.match.pos]] = None
     /\ v.treatment = "NOT_CLAIMABLE" <=> Cancellation(d) /\ answers[Ref[d.match.pos]] = "RESTAURANT"
     /\ v.claimable = IF v.treatment # "RECOVERABLE" THEN None
                      ELSE IF d.category = "INCORRECT_COMMISSION" THEN Loss(d)
                      ELSE NetOfCommission(Loss(d), Rate[d.match.pos])

LEMMA VerdictDueIs ==
  ASSUME NEW d \in DOMAIN discrepancies
  PROVE  VerdictDue(d) <=> DueWith(d, discrepancies[d], confirmations)
BY DEF VerdictDue, DueWith, AnswerTo

LEMMA VerdictDueNext ==
  ASSUME NEW d \in DOMAIN discrepancies'
  PROVE  VerdictDue(d)' <=> DueWith(d, discrepancies'[d], confirmations')
BY DEF VerdictDue, DueWith, AnswerTo

\* The verdict on a cancellation is due, given the answer it uses.
LEMMA CancellationDue ==
  ASSUME NEW d, Cancellation(d), WellFormed(d), NEW answers \in Confirmations, NEW by,
         by = answers[Ref[d.match.pos]]
  PROVE  DueWith(d, ClassifyCancellation(d.match.pos, by), answers)
<1> DEFINE p == d.match.pos
<1>1. p \in Pos /\ Ref[p] \in Refs /\ Amount[p] \in Int /\ p # None
  BY OrderData DEF WellFormed, Cancellation
<1>2. by \in CancelledBy \cup {None}
  BY <1>1 DEF Confirmations
<1>3. Loss(d) = Amount[p]
  BY DEF Loss, Cancellation
<1>4. d.category # "INCORRECT_COMMISSION" /\ (Rated(d) <=> Rate[p] # None)
  BY <1>1 DEF Cancellation, Rated
<1>5. by \in CLAIMABLE_CANCELLERS \/ by = "RESTAURANT" \/ by = None
  BY <1>2 DEF CancelledBy, CLAIMABLE_CANCELLERS
<1>6. CASE by = None
  <2>1. None \notin CLAIMABLE_CANCELLERS /\ None # "RESTAURANT"
    BY NamesAssumption DEF CancelledBy, CLAIMABLE_CANCELLERS
  <2> QED BY <1>6, <2>1 DEF DueWith, ClassifyCancellation, Verdict
<1>7. CASE by = "RESTAURANT"
  <2>1. by \notin CLAIMABLE_CANCELLERS /\ by # None
    BY <1>7, NamesAssumption DEF CancelledBy, CLAIMABLE_CANCELLERS
  <2> QED BY <1>7, <2>1 DEF DueWith, ClassifyCancellation, Verdict
<1>8. CASE by \in CLAIMABLE_CANCELLERS
  <2>1. by # None /\ by # "RESTAURANT"
    BY <1>8, NamesAssumption DEF CancelledBy, CLAIMABLE_CANCELLERS
  <2>2. ClassifyCancellation(p, by) = RecoverableGross(Amount[p], Rate[p])
    BY <1>8, <2>1 DEF ClassifyCancellation
  <2>3. CASE Amount[p] <= 0
    BY <1>1, <1>3, <1>8, <2>1, <2>2, <2>3 DEF DueWith, RecoverableGross, ToVerify, Verdict
  <2>4. CASE Amount[p] > 0 /\ Rate[p] = None
    BY <1>1, <1>3, <1>4, <1>8, <2>1, <2>2, <2>4 DEF DueWith, RecoverableGross, Verdict
  <2>5. CASE Amount[p] > 0 /\ Rate[p] # None
    BY <1>1, <1>3, <1>4, <1>8, <2>1, <2>2, <2>5 DEF DueWith, RecoverableGross, Verdict
  <2> QED BY <1>1, <2>3, <2>4, <2>5
<1> QED BY <1>5, <1>6, <1>7, <1>8

\* A detection that knows the match rows and the answers writes verdicts due.
LEMMA ClassifyDue ==
  ASSUME NEW d \in Discrepancies, WellFormed(d), NEW rows, d.match \in rows, NEW answers \in Confirmations
  PROVE  DueWith(d, Classify(d, rows, answers), answers)
<1> DEFINE m == d.match
<1>1. CASE d.category = "UNEXPECTED_SETTLEMENT"
  BY <1>1 DEF Classify, DueWith, Loss, Cancellation, ToVerify, Verdict
<1>2. CASE d.category = "MISSING_SETTLEMENT"
  <2>1. m.pos \in Pos /\ m.pos # None /\ Amount[m.pos] \in Int /\ Loss(d) = Amount[m.pos] /\ ~ Cancellation(d)
    BY <1>2, OrderData DEF WellFormed, Loss, Cancellation
  <2>2. Classify(d, rows, answers) = RecoverableGross(Amount[m.pos], Rate[m.pos])
    BY <1>2 DEF Classify
  <2>3. Rated(d) <=> Rate[m.pos] # None
    BY <2>1 DEF Rated
  <2>4. CASE Amount[m.pos] <= 0
    BY <2>1, <2>2, <2>4 DEF DueWith, RecoverableGross, ToVerify, Verdict
  <2>5. CASE Amount[m.pos] > 0
    BY <1>2, <2>1, <2>2, <2>3, <2>5 DEF DueWith, RecoverableGross, Verdict
  <2> QED BY <2>1, <2>4, <2>5
<1>3. CASE d.category = "CANCELLED_AFTER_PREPARATION"
  <2>1. Classify(d, rows, answers) = ClassifyCancellation(m.pos, answers[Ref[m.pos]])
    BY <1>3 DEF Classify
  <2> QED BY <1>3, <2>1, CancellationDue DEF Cancellation
<1>4. CASE d.category = "INCORRECT_COMMISSION"
  <2>1. Comparable(m) /\ Rated(d) /\ ~ Cancellation(d) /\ Loss(d) = CommissionVariance(m)
    BY <1>4 DEF WellFormed, Comparable, Rated, Loss, Cancellation
  <2>2. CommissionVariance(m) \in Int
    BY <2>1, VarianceInt
  <2>3. Classify(d, rows, answers) =
          IF CommissionVariance(m) > 0 THEN Verdict("RECOVERABLE", CommissionVariance(m)) ELSE ToVerify
    BY <1>4 DEF Classify, ClassifyVariance
  <2> QED BY <1>4, <2>1, <2>2, <2>3 DEF DueWith, ToVerify, Verdict
<1>5. CASE d.category = "SETTLEMENT_AMOUNT_MISMATCH"
  <2>1. Comparable(m) /\ Rated(d) /\ ~ Cancellation(d) /\ Loss(d) = - SettlementVariance(m)
    BY <1>5 DEF WellFormed, Comparable, Rated, Loss, Cancellation
  <2>2. SettlementVariance(m) \in Int
    BY <2>1, VarianceInt
  <2>3. Classify(d, rows, answers) =
          IF SettlementVariance(m) < 0 THEN RecoverableGross(- SettlementVariance(m), Rate[m.pos]) ELSE ToVerify
    BY <1>5 DEF Classify, ClassifyVariance
  <2>4. CASE SettlementVariance(m) < 0
    <3>1. - SettlementVariance(m) > 0 /\ Rate[m.pos] # None
      BY <2>1, <2>2, <2>4 DEF Comparable
    <3>2. Classify(d, rows, answers) = Verdict("RECOVERABLE", NetOfCommission(- SettlementVariance(m), Rate[m.pos]))
      BY <2>2, <2>3, <2>4, <3>1 DEF RecoverableGross
    <3> QED BY <1>5, <2>1, <3>1, <3>2 DEF DueWith, Verdict
  <2>5. CASE ~ SettlementVariance(m) < 0
    <3>1. ~ (Loss(d) > 0)
      BY <2>1, <2>2, <2>5
    <3> QED BY <2>1, <2>3, <2>5, <3>1 DEF DueWith, ToVerify, Verdict
  <2> QED BY <2>4, <2>5
<1> QED BY <1>1, <1>2, <1>3, <1>4, <1>5 DEF Discrepancies, Categories

\* A step that leaves the rows, the answers and the matches alone.
LEMMA UpToDateKept ==
  ASSUME UpToDate, UNCHANGED <<discrepancies, confirmations, active>>, fresh' = "detected" => fresh = "detected"
  PROVE  UpToDate'
BY DEF UpToDate, VerdictDue, AnswerTo

\* An undisturbed detection brings the table up to date.
LEMMA DetectUpToDate ==
  ASSUME IInv, SoloInv, DueInv, NEW w \in Workers, DetectCommit(w)
  PROVE  UpToDate'
<1> SUFFICES ASSUME fresh' = "detected"
             PROVE  UpToDate'
  BY DEF UpToDate
<1>1. fresh # "none" /\ solo[w]
  BY DEF DetectCommit, Recomputed
<1>2. /\ seen[w] = active /\ known[w] = matches /\ given[w] = results /\ told[w] = confirmations
      /\ doomed[w] = DOMAIN discrepancies
  BY <1>1 DEF DetectCommit, SoloInv, Undisturbed, Detecting
<1>3. DOMAIN discrepancies' = Found(w)
  BY <1>2 DEF DetectCommit, Replaced
<1>4. \A d \in Found(w) : discrepancies'[d] = Classify(d, matches, confirmations)
  BY <1>2 DEF DetectCommit, Replaced
<1>5. active' = active /\ confirmations' = confirmations
  BY DEF DetectCommit, Close, matchVars
<1>6. ResultsDue
  BY <1>1 DEF DueInv
<1>7. /\ {<<d.match, d.category>> : d \in Found(w)} = UNION {{<<m, c>> : c \in CategoriesDue(m)} : m \in active}
      /\ \A d, e \in Found(w) : d.match = e.match /\ d.category = e.category => d = e
  BY <1>2, <1>6, FoundDue
<1>8. ASSUME NEW d \in Found(w) PROVE VerdictDue(d)'
  <2>1. d \in Discrepancies /\ WellFormed(d)
    BY FoundWellFormed DEF DetectCommit
  <2>2. d.match \in matches
    <3>1. <<d.match, d.category>> \in UNION {{<<m, c>> : c \in CategoriesDue(m)} : m \in active}
      BY <1>7
    <3>2. d.match \in active
      BY <3>1
    <3> QED BY <3>2 DEF IInv, TypeOK
  <2>3. confirmations \in Confirmations
    BY DEF IInv, TypeOK
  <2>4. DueWith(d, Classify(d, matches, confirmations), confirmations)
    BY <2>1, <2>2, <2>3, ClassifyDue
  <2> QED BY <1>3, <1>4, <1>5, <2>4, VerdictDueNext
<1>9. {<<d.match, d.category>> : d \in DOMAIN discrepancies'}
        = UNION {{<<m, c>> : c \in CategoriesDue(m)} : m \in active'}
  BY <1>3, <1>5, <1>7
<1>10. \A d, e \in DOMAIN discrepancies' : d.match = e.match /\ d.category = e.category => d = e
  BY <1>3, <1>7
<1>11. \A d \in DOMAIN discrepancies' : VerdictDue(d)'
  BY <1>3, <1>8
<1> QED BY <1>9, <1>10, <1>11 DEF UpToDate

\* An undisturbed confirmation of an order whose reference no other one has
\* writes what a detection would.
LEMMA ConfirmUpToDate ==
  ASSUME IInv, SoloInv, UpToDate, NEW w \in Workers, ConfirmCommit(w)
  PROVE  UpToDate'
<1> SUFFICES ASSUME fresh' = "detected"
             PROVE  UpToDate'
  BY DEF UpToDate
<1>1. PICK t \in target[w] :
        /\ Answer(w, t, Ref[t.row.match.pos], ClassifyCancellation(t.row.match.pos, t.by))
        /\ fresh' = IF fresh = "detected" /\ (~ solo[w] \/ Twins(t.row) # {})
                    THEN "compared" ELSE fresh
  BY DEF ConfirmCommit
<1> DEFINE p == t.row.match.pos
           x == Ref[p]
           new == ClassifyCancellation(p, t.by)
<1>2. fresh = "detected" /\ solo[w] /\ Twins(t.row) = {}
  BY <1>1
<1>3. told[w] = confirmations /\ t.row \in DOMAIN discrepancies /\ t.was = discrepancies[t.row]
  BY <1>2 DEF ConfirmCommit, SoloInv, Undisturbed, Confirming
<1>4. Cancellation(t.row) /\ WellFormed(t.row) /\ p \in Pos /\ x \in Refs
  <2>1. Cancellation(t.row) /\ WellFormed(t.row)
    BY DEF IInv, TypeOK, SessionInv
  <2> QED BY <2>1, OrderData DEF WellFormed, Cancellation
<1>5. confirmations' \in Confirmations /\ confirmations'[x] = t.by
      /\ \A y \in Refs : y # x => confirmations'[y] = confirmations[y]
  <2>1. t.by \in CancelledBy
    BY DEF IInv, TypeOK, Targets
  <2> QED BY <1>1, <1>3, <1>4, <2>1 DEF Answer, Column, Confirmations, IInv, TypeOK
<1>6. /\ DOMAIN discrepancies' = DOMAIN discrepancies
      /\ \A d \in DOMAIN discrepancies : d # t.row => discrepancies'[d] = discrepancies[d]
      /\ discrepancies'[t.row] = new
  <2>1. new \in Classified /\ discrepancies[t.row] \in Classified
    <3>1. t.by \in CancelledBy \cup {None}
      BY DEF IInv, TypeOK, Targets
    <3> QED BY <1>3, <1>4, <3>1, CancellationNeedsAnswer DEF IInv, TypeOK
  <2>2. /\ DOMAIN discrepancies' = DOMAIN discrepancies
        /\ \A d \in DOMAIN discrepancies : d # t.row => discrepancies'[d] = discrepancies[d]
        /\ discrepancies'[t.row] =
             Verdict(Column(discrepancies[t.row].treatment, t.was.treatment, new.treatment),
                     Column(discrepancies[t.row].claimable, t.was.claimable, new.claimable))
    BY <1>1, <1>3 DEF Answer
  <2>3. discrepancies'[t.row] = Verdict(new.treatment, new.claimable)
    BY <1>3, <2>2 DEF Column
  <2>4. Verdict(new.treatment, new.claimable) = new
    BY <2>1 DEF Verdict, Classified
  <2> QED BY <2>2, <2>3, <2>4
<1>7. active' = active
  BY DEF ConfirmCommit, Close, matchVars
<1>8. ASSUME NEW d \in DOMAIN discrepancies PROVE VerdictDue(d)'
  <2>1. CASE d = t.row
    <3>1. DueWith(d, new, confirmations')
      BY <1>4, <1>5, <2>1, CancellationDue
    <3> QED BY <1>6, <2>1, <3>1, VerdictDueNext
  <2>2. CASE d # t.row
    <3>1. discrepancies'[d] = discrepancies[d] /\ DueWith(d, discrepancies[d], confirmations)
      BY <1>2, <1>6, <2>2, VerdictDueIs DEF UpToDate
    <3>2. Cancellation(d) => confirmations'[Ref[d.match.pos]] = confirmations[Ref[d.match.pos]]
      <4> SUFFICES ASSUME Cancellation(d) PROVE confirmations'[Ref[d.match.pos]] = confirmations[Ref[d.match.pos]]
        OBVIOUS
      <4>1. Ref[d.match.pos] # x
        BY <1>2, <2>2 DEF Twins, Cancellation
      <4>2. Ref[d.match.pos] \in Refs
        BY OrderData DEF IInv, RowsInv, WellFormed, Cancellation
      <4> QED BY <1>5, <4>1, <4>2
    <3>3. DueWith(d, discrepancies'[d], confirmations')
      BY <3>1, <3>2 DEF DueWith
    <3> QED BY <1>6, <3>3, VerdictDueNext
  <2> QED BY <2>1, <2>2
<1>9. /\ {<<d.match, d.category>> : d \in DOMAIN discrepancies}
           = UNION {{<<m, c>> : c \in CategoriesDue(m)} : m \in active}
      /\ \A d, e \in DOMAIN discrepancies : d.match = e.match /\ d.category = e.category => d = e
  BY <1>2 DEF UpToDate
<1> QED BY <1>6, <1>7, <1>8, <1>9 DEF UpToDate

LEMMA UpToDateStep ==
  ASSUME IInv, SoloInv, DueInv, UpToDate, [Next]_vars
  PROVE  UpToDate'
<1>1. ASSUME MatchesChange PROVE UpToDate'
  BY <1>1 DEF MatchesChange, UpToDate
<1>2. ASSUME NEW w \in Workers, CompareCommit(w) PROVE UpToDate'
  BY <1>2, UpToDateKept DEF CompareCommit, Close, matchVars
<1>3. ASSUME NEW w \in Workers, Abort(w) PROVE UpToDate'
  BY <1>3, UpToDateKept DEF Abort, Close, matchVars, tables
<1>4. ASSUME NEW w \in Workers, CompareRead(w) \/ DetectReadMatches(w) PROVE UpToDate'
  BY <1>4, UpToDateKept DEF CompareRead, DetectReadMatches, Start, matchVars, tables
<1>5. ASSUME NEW w \in Workers, NEW d \in DOMAIN discrepancies, NEW by \in CancelledBy, ConfirmRead(w, d, by)
      PROVE  UpToDate'
  BY <1>5, UpToDateKept DEF ConfirmRead, Start, matchVars, tables
<1>6. ASSUME NEW w \in Workers, \/ CompareDelete(w) \/ DetectReadResults(w) \/ DetectReadConfirmations(w)
                                \/ DetectDelete(w) \/ ConfirmLookup(w)
      PROVE  UpToDate'
  BY <1>6, UpToDateKept DEF CompareDelete, DetectReadResults, DetectReadConfirmations, DetectDelete, ConfirmLookup,
     Step, matchVars, tables
<1>7. ASSUME NEW d \in DOMAIN discrepancies, ReviewDiscrepancy(d) PROVE UpToDate'
  BY <1>7, UpToDateKept DEF ReviewDiscrepancy, matchVars
<1>8. CASE UNCHANGED vars
  BY <1>8, UpToDateKept DEF vars, matchVars, tables
<1> QED
  BY <1>1, <1>2, <1>3, <1>4, <1>5, <1>6, <1>7, <1>8, DetectUpToDate, ConfirmUpToDate DEF Next, Rematch, PairByHand

LEMMA UpToDateInductive == Spec => [](SidesInv /\ UpToDate)
<1> DEFINE I == SidesInv /\ SoloInv /\ DueInv /\ UpToDate
<1>1. Init => I
  <2>1. \A m \in PlanRows(1) : Sided(m)
    BY DEF PlanRows, Match, Sided
  <2> QED BY <2>1 DEF Init, SidesInv, SoloInv, DueInv, UpToDate
<1>2. IInv /\ I /\ [Next]_vars => I'
  BY SidesStep, SoloStep, DueStep, UpToDateStep DEF IInv
<1> QED BY <1>1, <1>2, Invariant, PTL DEF Spec

(***************************************************************************)
(* The figures that are shown.                                             *)
(***************************************************************************)
LEMMA NamesFinite == IsFiniteSet(Treatments) /\ IsFiniteSet(Severities) /\ IsFiniteSet(Categories)
<1>1. IsFiniteSet(Treatments)
  BY FiveElements DEF Treatments
<1>2. IsFiniteSet(Severities)
  <2>1. Severities = {"CRITICAL", "HIGH", "MEDIUM", "LOW", "LOW"}
    BY DEF Severities
  <2> QED BY <2>1, FiveElements
<1>3. IsFiniteSet(Categories)
  BY FiveElements DEF Categories
<1> QED BY <1>1, <1>2, <1>3

\* There are finitely many discrepancies that could ever be found.
LEMMA RowsFinite == ASSUME TypeOK PROVE IsFiniteSet(Rows)
<1> DEFINE P == Pos \cup {None}
           Q == Plat \cup {None}
           A == (1..MaxMatchings) \X (P \X Q)
           f == [t \in A |-> [no |-> t[1], pos |-> t[2][1], plat |-> t[2][2]]]
           B == ((1..MaxCalls) \X (0..MaxCalls)) \X (Matches \X Categories)
           g == [t \in B |-> [call |-> t[1][1], match |-> t[2][1], category |-> t[2][2], from |-> t[1][2]]]
<1>1. IsFiniteSet(1..MaxMatchings) /\ IsFiniteSet(1..MaxCalls) /\ IsFiniteSet(0..MaxCalls)
  BY FS_Interval
<1>2. IsFiniteSet(P) /\ IsFiniteSet(Q)
  BY FiniteAssumption, FS_AddElement
<1>3. IsFiniteSet(A)
  <2>1. IsFiniteSet(P \X Q)
    BY <1>2, FS_Product
  <2> QED BY <1>1, <2>1, FS_Product
<1>4. IsFiniteSet(Matches)
  <2>1. ASSUME NEW m \in Matches PROVE \E t \in A : f[t] = m
    <3>1. <<m.no, <<m.pos, m.plat>>>> \in A /\ m = [no |-> m.no, pos |-> m.pos, plat |-> m.plat]
      BY DEF Matches
    <3> QED BY <3>1
  <2>2. f \in [A -> Matches]
    BY DEF Matches
  <2>3. f \in Surjection(A, Matches)
    <3> HIDE DEF A, f
    <3> QED BY <2>1, <2>2 DEF Surjection
  <2> HIDE DEF A, f
  <2> QED BY <1>3, <2>3, FS_Surjection
<1>5. IsFiniteSet(Categories)
  BY NamesFinite
<1>6. IsFiniteSet(B)
  <2>1. IsFiniteSet((1..MaxCalls) \X (0..MaxCalls)) /\ IsFiniteSet(Matches \X Categories)
    BY <1>1, <1>4, <1>5, FS_Product
  <2> QED BY <2>1, FS_Product
<1>7. IsFiniteSet(Discrepancies)
  <2>1. ASSUME NEW d \in Discrepancies PROVE \E t \in B : g[t] = d
    <3>1. /\ <<<<d.call, d.from>>, <<d.match, d.category>>>> \in B
          /\ d = [call |-> d.call, match |-> d.match, category |-> d.category, from |-> d.from]
      BY DEF Discrepancies
    <3> QED BY <3>1
  <2>2. g \in [B -> Discrepancies]
    BY DEF Discrepancies
  <2>3. g \in Surjection(B, Discrepancies)
    <3> HIDE DEF B, g
    <3> QED BY <2>1, <2>2 DEF Surjection
  <2> HIDE DEF B, g
  <2> QED BY <1>6, <2>3, FS_Surjection
<1> QED BY <1>7, FS_Subset DEF TypeOK, Rows

\* Every amount has a severity.
LEMMA SeverityNamed == ASSUME NEW x PROVE SeverityFor(x) \in Severities
<1> DEFINE A == x >= 100000
           B == x \in 20000..99999
           C == x \in 5000..19999
           v == CASE A -> "CRITICAL" [] B -> "HIGH" [] C -> "MEDIUM" [] OTHER -> "LOW"
<1>1. SeverityFor(x) = v
  BY DEF SeverityFor
<1> HIDE DEF A, B, C
<1>2. v \in Severities
  BY DEF Severities
<1> QED BY <1>1, <1>2

\* Each row is shown with a whole number of cents.
LEMMA AmountsInt ==
  ASSUME IInv, SidesInv, NEW d \in Rows
  PROVE  Losses[d] \in Int /\ Claims[d] \in Int
<1>1. d \in Discrepancies /\ WellFormed(d) /\ discrepancies[d] \in Classified
  BY DEF IInv, TypeOK, RowsInv, Rows
<1>2. Claims[d] \in Int
  BY <1>1 DEF Claims, Claimed, Classified
<1>3. EstimatedLoss(d) \in Int
  <2>1. CASE d.category = "UNEXPECTED_SETTLEMENT"
    <3>1. d.match.plat \in Plat
      BY <2>1 DEF SidesInv, Rows
    <3> QED BY <2>1, <3>1, OrderData DEF EstimatedLoss
  <2>2. CASE d.category \in {"INCORRECT_COMMISSION", "SETTLEMENT_AMOUNT_MISMATCH"}
    <3>1. CommissionVariance(d.match) \in Int /\ SettlementVariance(d.match) \in Int
      BY <1>1, <2>2, VarianceInt DEF WellFormed
    <3> QED BY <2>2, <3>1 DEF EstimatedLoss, AbsOf
  <2>3. CASE d.category \in {"MISSING_SETTLEMENT", "CANCELLED_AFTER_PREPARATION"}
    <3>1. Amount[d.match.pos] \in Int
      BY <1>1, <2>3, OrderData DEF WellFormed
    <3> QED BY <2>3, <3>1 DEF EstimatedLoss
  <2> QED BY <1>1, <2>1, <2>2, <2>3 DEF Discrepancies, Categories
<1> QED BY <1>2, <1>3 DEF Losses

\* The page and the insight show the same sums, however they group the rows.
LEMMA FiguresFromRows == ASSUME IInv, SidesInv PROVE FiguresAgree
<1> DEFINE K == {d.category : d \in Rows}
           R == WithTreatment("RECOVERABLE")
           byTreatment == [d \in Rows |-> discrepancies[d].treatment]
           byCategory == [d \in Rows |-> d.category]
           bySeverity == [d \in Rows |-> SeverityFor(AbsOf(EstimatedLoss(d)))]
<1>1. IsFiniteSet(Rows) /\ IsFiniteSet(R) /\ R \subseteq Rows
  BY RowsFinite, FS_Subset DEF IInv, WithTreatment
<1>2. IsFiniteSet(K)
  <2>1. K \subseteq Categories
    BY DEF IInv, TypeOK, Rows, Discrepancies
  <2> QED BY <2>1, NamesFinite, FS_Subset
<1>3. \A d \in Rows : Losses[d] \in Int /\ Claims[d] \in Int
  BY AmountsInt
<1>4. \A d \in Rows : byTreatment[d] \in Treatments /\ byCategory[d] \in K /\ bySeverity[d] \in Severities
  <2> SUFFICES ASSUME NEW d \in Rows
               PROVE  byTreatment[d] \in Treatments /\ byCategory[d] \in K /\ bySeverity[d] \in Severities
    OBVIOUS
  <2>1. byTreatment[d] \in Treatments
    BY DEF IInv, TypeOK, Rows, Classified
  <2>2. byCategory[d] \in K
    OBVIOUS
  <2>3. bySeverity[d] \in Severities
    BY SeverityNamed
  <2> QED BY <2>1, <2>2, <2>3
<1>5. /\ \A t : Group(Rows, byTreatment, t) = WithTreatment(t)
      /\ \A c : Group(Rows, byCategory, c) = {d \in Rows : d.category = c}
      /\ \A c : Group(R, byCategory, c) = {d \in Rows : d.category = c} \cap R
      /\ \A s : Group(Rows, bySeverity, s) = {d \in Rows : SeverityFor(AbsOf(EstimatedLoss(d))) = s}
  BY <1>1 DEF Group, WithTreatment
<1> HIDE DEF byTreatment, byCategory, bySeverity, R
<1>6. SumFunction([t \in Treatments |-> Summary.groups[t].count]) = Facts.total
  <2> DEFINE g == [t \in Treatments |-> Summary.groups[t].count]
  <2>1. \A t \in Treatments : g[t] = Cardinality(Group(Rows, byTreatment, t))
    BY <1>5 DEF Summary, Groups
  <2>2. DOMAIN g = Treatments
    OBVIOUS
  <2> HIDE DEF g
  <2>3. SumFunctionOnSet(g, Treatments) = Cardinality(Rows)
    BY <1>1, <1>4, <2>1, NamesFinite, CountByGroup
  <2> QED BY <2>2, <2>3 DEF SumFunction, Facts, g
<1>7. SumFunction([c \in DOMAIN Summary.breakdown |-> Summary.breakdown[c].count]) = Facts.total
  <2> DEFINE g == [c \in DOMAIN Summary.breakdown |-> Summary.breakdown[c].count]
  <2>1. DOMAIN g = K
    BY DEF Summary
  <2>2. \A c \in K : g[c] = Cardinality(Group(Rows, byCategory, c))
    BY <1>5 DEF Summary, GroupByCategory
  <2> HIDE DEF g, K
  <2>3. SumFunctionOnSet(g, K) = Cardinality(Rows)
    BY <1>1, <1>2, <1>4, <2>2, CountByGroup
  <2> QED BY <2>1, <2>3 DEF SumFunction, Facts, g
<1>8. SumFunction(Facts.severity) = Facts.total
  <2> DEFINE g == Facts.severity
  <2>1. /\ DOMAIN g = Severities
        /\ \A s \in Severities : g[s] = Cardinality(Group(Rows, bySeverity, s))
    BY <1>5 DEF Facts
  <2> HIDE DEF g
  <2>2. SumFunctionOnSet(g, Severities) = Cardinality(Rows)
    BY <1>1, <1>4, <2>1, NamesFinite, CountByGroup
  <2> QED BY <2>1, <2>2 DEF SumFunction, Facts, g
<1>9. SumFunction([c \in DOMAIN Summary.breakdown |-> Summary.breakdown[c].recoverable]) = Summary.total_recoverable
  <2> DEFINE g == [c \in DOMAIN Summary.breakdown |-> Summary.breakdown[c].recoverable]
  <2>1. DOMAIN g = K
    BY DEF Summary
  <2>2. \A c \in K : g[c] = SumFunctionOnSet(Claims, Group(R, byCategory, c))
    BY <1>5 DEF Summary, GroupByCategory, R
  <2>3. Summary.total_recoverable = SumFunctionOnSet(Claims, R)
    BY DEF Summary, Groups, R
  <2> HIDE DEF g, K
  <2>4. \A d \in R : Claims[d] \in Int /\ byCategory[d] \in K
    BY <1>1, <1>3, <1>4
  <2>5. SumFunctionOnSet(g, K) = SumFunctionOnSet(Claims, R)
    BY <1>1, <1>2, <2>2, <2>4, SumByGroup
  <2> QED BY <2>1, <2>3, <2>5 DEF SumFunction, g
<1>10. SumFunction([c \in DOMAIN Summary.breakdown |-> Summary.breakdown[c].total]) = Facts.loss
  <2> DEFINE g == [c \in DOMAIN Summary.breakdown |-> Summary.breakdown[c].total]
  <2>1. DOMAIN g = K
    BY DEF Summary
  <2>2. \A c \in K : g[c] = SumFunctionOnSet(Losses, Group(Rows, byCategory, c))
    BY <1>5 DEF Summary, GroupByCategory
  <2>3. Facts.loss = SumFunctionOnSet(Losses, Rows)
    BY DEF Facts, SumFunction, Losses
  <2> HIDE DEF g, K
  <2>4. SumFunctionOnSet(g, K) = SumFunctionOnSet(Losses, Rows)
    BY <1>1, <1>2, <1>3, <1>4, <2>2, SumByGroup
  <2> QED BY <2>1, <2>3, <2>4 DEF SumFunction, g
<1> QED BY <1>6, <1>7, <1>8, <1>9, <1>10 DEF FiguresAgree

\* A claim that is due depends on the match and the category of a row alone.
LEMMA ClaimDueSame ==
  ASSUME NEW d, NEW e, d.match = e.match, d.category = e.category
  PROVE  ClaimDue(d) = ClaimDue(e)
<1>1. Loss(d) = Loss(e) /\ (Rated(d) <=> Rated(e)) /\ (Cancellation(d) <=> Cancellation(e)) /\ AnswerTo(d) = AnswerTo(e)
  BY DEF Loss, Rated, Cancellation, AnswerTo
<1> QED BY <1>1 DEF ClaimDue

\* A row with the verdict due claims what is due if it is recoverable, and
\* nothing is due for any other.
LEMMA ClaimOfVerdict ==
  ASSUME IInv, NEW d \in Rows, VerdictDue(d)
  PROVE  ClaimDue(d) = IF discrepancies[d].treatment = "RECOVERABLE" THEN Claims[d] ELSE 0
<1>1. discrepancies[d] \in Classified /\ WellFormed(d) /\ d \in Discrepancies
  BY DEF IInv, TypeOK, RowsInv, Rows
<1>2. CASE discrepancies[d].treatment # "RECOVERABLE"
  BY <1>2 DEF VerdictDue, ClaimDue
<1>3. CASE discrepancies[d].treatment = "RECOVERABLE"
  <2>1. /\ Loss(d) > 0 /\ Rated(d) /\ (Cancellation(d) => AnswerTo(d) \in CLAIMABLE_CANCELLERS)
        /\ discrepancies[d].claimable = IF d.category = "INCORRECT_COMMISSION" THEN Loss(d)
                                        ELSE NetOfCommission(Loss(d), Rate[d.match.pos])
    BY <1>3 DEF VerdictDue
  <2>2. ClaimDue(d) = discrepancies[d].claimable
    BY <2>1 DEF ClaimDue
  <2>3. discrepancies[d].claimable # None
    <3>1. d.match.pos \in Pos /\ Rate[d.match.pos] \in Permille
      <4>1. d.match.pos \in Pos
        BY <1>1, <2>1 DEF Rated, Discrepancies, Matches
      <4> QED BY <2>1, <4>1, OrderData DEF Rated, Rates
    <3>2. Loss(d) \in Int
      <4>1. CASE d.category \in {"INCORRECT_COMMISSION", "SETTLEMENT_AMOUNT_MISMATCH"}
        <5>1. CommissionVariance(d.match) \in Int /\ SettlementVariance(d.match) \in Int
          BY <1>1, <4>1, VarianceInt DEF WellFormed
        <5> QED BY <4>1, <5>1 DEF Loss
      <4>2. CASE d.category \notin {"INCORRECT_COMMISSION", "SETTLEMENT_AMOUNT_MISMATCH"}
        BY <3>1, <4>2, OrderData DEF Loss
      <4> QED BY <4>1, <4>2
    <3>3. NetOfCommission(Loss(d), Rate[d.match.pos]) \in Int
      BY <3>1, <3>2, NetInt
    <3> QED BY <2>1, <3>2, <3>3
  <2> QED BY <1>3, <2>2, <2>3 DEF Claims, Claimed
<1> QED BY <1>2, <1>3

\* The headline is what may be claimed for the active matches.
LEMMA HeadlineDue ==
  ASSUME IInv, SidesInv, UpToDate, fresh = "detected"
  PROVE  Summary.total_recoverable = SumFunction([d \in RowsDue |-> ClaimDue(d)])
<1> DEFINE R == WithTreatment("RECOVERABLE")
           plain == [d \in Rows |-> Discrepancy(1, d.match, d.category, 0)]
           mine == [d \in Rows |-> ClaimDue(d)]
           due == [d \in RowsDue |-> ClaimDue(d)]
<1>1. /\ {<<d.match, d.category>> : d \in Rows} = UNION {{<<m, c>> : c \in CategoriesDue(m)} : m \in active}
      /\ \A d, e \in Rows : d.match = e.match /\ d.category = e.category => d = e
      /\ \A d \in Rows : VerdictDue(d)
  BY DEF UpToDate, Rows
<1>2. IsFiniteSet(Rows) /\ IsFiniteSet(R) /\ IsFiniteSet(Rows \ R) /\ R \subseteq Rows
  BY RowsFinite, FS_Subset DEF IInv, WithTreatment
<1>3. RowsDue = {plain[d] : d \in Rows}
  <2>1. ASSUME NEW d \in Rows PROVE plain[d] \in RowsDue
    <3>1. <<d.match, d.category>> \in UNION {{<<m, c>> : c \in CategoriesDue(m)} : m \in active}
      BY <1>1
    <3>2. d.match \in active /\ d.category \in CategoriesDue(d.match)
      BY <3>1
    <3> QED BY <3>2 DEF RowsDue
  <2>2. ASSUME NEW m \in active, NEW c \in CategoriesDue(m)
        PROVE  \E d \in Rows : plain[d] = Discrepancy(1, m, c, 0)
    <3>1. <<m, c>> \in {<<d.match, d.category>> : d \in Rows}
      <4>1. <<m, c>> \in UNION {{<<n, k>> : k \in CategoriesDue(n)} : n \in active}
        OBVIOUS
      <4> QED BY <1>1, <4>1
    <3>2. PICK d \in Rows : d.match = m /\ d.category = c
      BY <3>1
    <3> QED BY <3>2
  <2> HIDE DEF plain
  <2> QED BY <2>1, <2>2 DEF RowsDue
<1>4. \A d, e \in Rows : plain[d] = plain[e] => d = e
  BY <1>1 DEF Discrepancy
<1>5. ASSUME NEW d \in Rows PROVE due[plain[d]] = mine[d]
  <2>1. plain[d] \in RowsDue
    BY <1>3
  <2>2. plain[d].match = d.match /\ plain[d].category = d.category
    BY DEF Discrepancy
  <2> HIDE DEF plain
  <2>3. ClaimDue(plain[d]) = ClaimDue(d)
    BY <2>2, ClaimDueSame
  <2> QED BY <2>1, <2>3
<1>6. ASSUME NEW d \in Rows PROVE mine[d] = (IF d \in R THEN Claims[d] ELSE 0) /\ mine[d] \in Int
  BY <1>1, ClaimOfVerdict, AmountsInt DEF WithTreatment
<1> HIDE DEF plain, mine, due, R
<1>7. SumFunctionOnSet(due, RowsDue) = SumFunctionOnSet(mine, Rows)
  BY <1>2, <1>3, <1>4, <1>5, <1>6, SumRenamed
<1>8. SumFunctionOnSet(mine, R \cup (Rows \ R)) = SumFunctionOnSet(mine, R) + SumFunctionOnSet(mine, Rows \ R)
  <2>1. R \cap (Rows \ R) = {} /\ \A d \in R \cup (Rows \ R) : mine[d] \in Int
    BY <1>2, <1>6
  <2> QED BY <1>2, <2>1, SumUnion
<1>9. SumFunctionOnSet(mine, R) = SumFunctionOnSet(Claims, R) /\ SumFunctionOnSet(mine, R) \in Int
  <2>1. \A d \in R : mine[d] \in Int /\ mine[d] = Claims[d]
    BY <1>2, <1>6
  <2> QED BY <1>2, <2>1, SumEqual, SumWithout
<1>10. SumFunctionOnSet(mine, Rows \ R) = 0
  <2>1. \A d \in Rows \ R : mine[d] = 0
    BY <1>6
  <2> QED BY <1>2, <2>1, SumOfZeros
<1>11. R \cup (Rows \ R) = Rows
  BY <1>2
<1>12. SumFunctionOnSet(due, RowsDue) = SumFunctionOnSet(Claims, R)
  <2>1. \A s \in Int : s + 0 = s
    OBVIOUS
  <2>2. SumFunctionOnSet(mine, Rows) = SumFunctionOnSet(mine, R) + 0
    BY <1>8, <1>10, <1>11
  <2> QED BY <1>7, <1>9, <2>1, <2>2
<1>13. Summary.total_recoverable = SumFunctionOnSet(Claims, R)
  BY DEF Summary, Groups, R
<1>14. SumFunction(due) = SumFunctionOnSet(due, RowsDue)
  BY DEF SumFunction, due
<1> QED BY <1>12, <1>13, <1>14 DEF due

LEMMA UpToDateFigures ==
  ASSUME IInv, SidesInv, UpToDate
  PROVE  ResultsUpToDate
BY FiguresFromRows, HeadlineDue DEF ResultsUpToDate

(***************************************************************************)
(* Theorems.                                                               *)
(***************************************************************************)
\* The tables and the sessions hold what they should.
THEOREM TypeCorrect == Spec => []TypeOK
<1>1. IInv => TypeOK
  BY DEF IInv
<1> QED BY <1>1, Invariant, PTL

\* Nothing is claimed without a contract, for a refund, or for a cancellation
\* nobody has answered for, whatever the requests that overlap.
THEOREM ClaimsAreJustified == Spec => []ClaimsJustified
<1>1. IInv => ClaimsJustified
  BY DEF IInv
<1> QED BY <1>1, Invariant, PTL

\* What has been reviewed is never deleted.
THEOREM ReviewedIsKept == Spec => []ReviewedKept
<1>1. IInv => ReviewedKept
  BY DEF IInv
<1> QED BY <1>1, Invariant, PTL

\* After a comparison and a detection that nothing overlaps, the discrepancies
\* are those the active matches call for, with the verdicts due, and the headline
\* is their sum; in every state the page and the insight show the same figures.
THEOREM ResultsAreUpToDate == Spec => []ResultsUpToDate
<1>1. IInv /\ SidesInv /\ UpToDate => ResultsUpToDate
  BY UpToDateFigures
<1> QED BY <1>1, Invariant, UpToDateInductive, PTL
=============================================================================
