--------------------------- MODULE AnalysisResults ---------------------------
(***************************************************************************)
(* What is shown of the discrepancies of ResultTables: the summary of      *)
(* AnalysisResultsService, and the facts AIInsightService hands to the     *)
(* language model.  Both read the table with one statement and add it up,  *)
(* each in its own way.                                                    *)
(***************************************************************************)
EXTENDS ResultTables, FiniteSets, Functions

ASSUME FiniteAssumption == IsFiniteSet(Pos) /\ IsFiniteSet(Plat)

Rows == DOMAIN discrepancies

(***************************************************************************)
(* _make                                                                   *)
(***************************************************************************)
AbsOf(n) == IF n < 0 THEN -n ELSE n

\* estimated_loss: gross, and for a variance without its sign.
EstimatedLoss(d) ==
  CASE d.category = "UNEXPECTED_SETTLEMENT"      -> Amount[d.match.plat]
    [] d.category = "INCORRECT_COMMISSION"       -> AbsOf(CommissionVariance(d.match))
    [] d.category = "SETTLEMENT_AMOUNT_MISMATCH" -> AbsOf(SettlementVariance(d.match))
    [] OTHER                                     -> Amount[d.match.pos]

Severities == {"CRITICAL", "HIGH", "MEDIUM", "LOW"}
SeverityFor(loss) ==
  CASE loss >= 100000 -> "CRITICAL"
    [] loss \in 20000..99999 -> "HIGH"
    [] loss \in 5000..19999 -> "MEDIUM"
    [] OTHER -> "LOW"

(***************************************************************************)
(* get_summary                                                             *)
(***************************************************************************)
Claimed(d) == IF discrepancies[d].claimable = None THEN 0 ELSE discrepancies[d].claimable

WithTreatment(t) == {d \in Rows : discrepancies[d].treatment = t}

\* The column of each row that a figure adds up.
Losses == [d \in Rows |-> EstimatedLoss(d)]
Claims == [d \in Rows |-> Claimed(d)]

GroupsGross(t) ==  \* mutant: what is recoverable is shown before commission
  [count  |-> Cardinality(WithTreatment(t)),
   amount |-> SumFunctionOnSet(Losses, WithTreatment(t))]
\* _groups: recoverable is summed net, every other group gross.
Groups(t) ==
  [count  |-> Cardinality(WithTreatment(t)),
   amount |-> SumFunctionOnSet(IF t = "RECOVERABLE" THEN Claims ELSE Losses, WithTreatment(t))]

\* _group_by_category
GroupByCategory(c) ==
  LET rows == {d \in Rows : d.category = c}
  IN  [count       |-> Cardinality(rows),
       total       |-> SumFunctionOnSet(Losses, rows),
       recoverable |-> SumFunctionOnSet(Claims, rows \cap WithTreatment("RECOVERABLE"))]

Summary ==
  [total_recoverable |-> Groups("RECOVERABLE").amount,
   groups            |-> [t \in Treatments |-> Groups(t)],
   breakdown         |-> [c \in {d.category : d \in Rows} |-> GroupByCategory(c)]]

(***************************************************************************)
(* _gather_facts                                                           *)
(***************************************************************************)
Facts ==
  [total    |-> Cardinality(Rows),
   severity |-> [s \in Severities |-> Cardinality({d \in Rows : SeverityFor(AbsOf(EstimatedLoss(d))) = s})],
   loss     |-> SumFunction(Losses)]

(***************************************************************************)
(* Properties.                                                             *)
(***************************************************************************)
\* The page and the executive summary agree, whatever has overlapped: the
\* groups, the breakdown and the facts count the same rows, the breakdown's
\* recoverable amounts add up to the headline and its totals to the facts' loss.
FiguresAgree ==
  LET facts == Facts
      groups == Summary.groups
      breakdown == Summary.breakdown
  IN  /\ SumFunction([t \in Treatments |-> groups[t].count]) = facts.total
      /\ SumFunction([c \in DOMAIN breakdown |-> breakdown[c].count]) = facts.total
      /\ SumFunction(facts.severity) = facts.total
      /\ SumFunction([c \in DOMAIN breakdown |-> breakdown[c].recoverable]) = Summary.total_recoverable
      /\ SumFunction([c \in DOMAIN breakdown |-> breakdown[c].total]) = facts.loss

\* What may be claimed for an active match in a category that it calls for.
ClaimDue(d) ==
  IF Loss(d) > 0 /\ Rated(d) /\ (Cancellation(d) => AnswerTo(d) \in CLAIMABLE_CANCELLERS)
  THEN IF d.category = "INCORRECT_COMMISSION" THEN Loss(d) ELSE NetOfCommission(Loss(d), Rate[d.match.pos])
  ELSE 0

\* The rows that the active matches call for, wherever they come from.
RowsDue == UNION {{Discrepancy(1, m, c, 0) : c \in CategoriesDue(m)} : m \in active}

\* After a comparison and a detection that nothing overlapped, the table is what
\* it should be, and the headline is what may be claimed for the active matches:
\* no order is counted twice and none is left out.
ResultsUpToDate ==
  /\ UpToDate
  /\ FiguresAgree
  /\ fresh = "detected" =>
       Summary.total_recoverable =
         SumFunction([d \in RowsDue |-> ClaimDue(d)])
=============================================================================
