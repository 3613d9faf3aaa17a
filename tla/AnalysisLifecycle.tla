-------------------------- MODULE AnalysisLifecycle --------------------------
(***************************************************************************)
(* The analyses table and the requests that write it:                      *)
(* AnalysisOrchestrationService, modules/analysis_orchestration/service.py.*)
(* A clerk is a request with its own database session.  It reads the       *)
(* analysis once, checks the status it read, and later commits an UPDATE   *)
(* by primary key (or an INSERT): nothing re-checks the status in between. *)
(***************************************************************************)
EXTENDS Naturals

CONSTANTS
  Clerks,    \* concurrent orchestration requests
  Analyses,  \* ids a new row may get
  None       \* SQL NULL

ASSUME NoneAssumption == None \notin Analyses
ASSUME ReasonAssumption == None # "given"

VARIABLES
  analyses,  \* the table: id -> row, defined on the rows that exist
  pending    \* per clerk: what it has read and is about to commit, or None

lifecycleVars == <<analyses, pending>>

Statuses == {"AWAITING_FILES", "PROCESSING", "COMPLETED", "FAILED"}

\* Mutant: a completed analysis may be processed again.
RetryTransitions ==
  [AWAITING_FILES |-> {"PROCESSING"}, PROCESSING |-> {"COMPLETED", "FAILED"},
   COMPLETED |-> {"PROCESSING"}, FAILED |-> {}]

\* DRAFT, the fifth status, is reserved and assigned by no code.
AllowedTransitions ==
  [AWAITING_FILES |-> {"PROCESSING"}, PROCESSING |-> {"COMPLETED", "FAILED"},
   COMPLETED |-> {}, FAILED |-> {}]

VersionableFrom == {"COMPLETED", "FAILED"}
Exists(a) == a \in DOMAIN analyses
Request(a, to) == [on |-> a, to |-> to]

LifecycleInit ==
  /\ analyses = [a \in {} |-> None]
  /\ pending = [k \in Clerks |-> None]

DraftAnalysis(version, parent) ==  \* mutant: created in the reserved status
  [status |-> "DRAFT", version |-> version, parent |-> parent, reason |-> None]
NewAnalysis(version, parent) ==
  [status |-> "AWAITING_FILES", version |-> version, parent |-> parent, reason |-> None]

Insert(b, row) ==
  /\ ~ Exists(b)
  /\ analyses' = [a \in DOMAIN analyses \cup {b} |-> IF a = b THEN row ELSE analyses[a]]

Finish(k) == pending' = [pending EXCEPT ![k] = None]

\* create_analysis: one INSERT.
CreateAnalysis(b) ==
  /\ Insert(b, NewAnalysis(1, None))
  /\ UNCHANGED pending

\* mark_processing, mark_completed, mark_failed: read and check.
BeginTransition(k, a, to) ==
  /\ pending[k] = None /\ Exists(a)
  /\ to \in AllowedTransitions[analyses[a].status]
  /\ pending' = [pending EXCEPT ![k] = Request(a, to)]
  /\ UNCHANGED analyses

UpdatedWithoutReason(row, to) ==  \* mutant: mark_failed done by _transition
  [row EXCEPT !.status = to]
\* The columns the UPDATE sets; only mark_failed writes failure_reason.
Updated(row, to) ==
  [row EXCEPT !.status = to, !.reason = IF to = "FAILED" THEN "given" ELSE @]

\* ...and the UPDATE by primary key, whatever the row holds by now.
CommitTransition(k) ==
  /\ pending[k] # None /\ pending[k].to # "NEW_VERSION"
  /\ analyses' = [analyses EXCEPT ![pending[k].on] = Updated(@, pending[k].to)]
  /\ Finish(k)

\* create_new_version: read the previous analysis and check its status...
BeginNewVersion(k, a) ==
  /\ pending[k] = None /\ Exists(a)
  /\ analyses[a].status \in VersionableFrom
  /\ pending' = [pending EXCEPT ![k] = Request(a, "NEW_VERSION")]
  /\ UNCHANGED analyses

SameVersion(k, b) ==  \* mutant: the version is copied with the period
  /\ pending[k] # None /\ pending[k].to = "NEW_VERSION"
  /\ LET a == pending[k].on IN Insert(b, NewAnalysis(analyses[a].version, a))
  /\ Finish(k)

\* ...and INSERT its successor.
CommitNewVersion(k, b) ==
  /\ pending[k] # None /\ pending[k].to = "NEW_VERSION"
  /\ LET a == pending[k].on IN Insert(b, NewAnalysis(analyses[a].version + 1, a))
  /\ Finish(k)

\* A failed commit is rolled back; a crash loses the session.
AbandonRequest(k) ==
  /\ pending[k] # None
  /\ Finish(k)
  /\ UNCHANGED analyses

LifecycleNext ==
  \/ \E b \in Analyses : CreateAnalysis(b)
  \/ \E k \in Clerks, a \in Analyses, to \in Statuses : BeginTransition(k, a, to)
  \/ \E k \in Clerks : CommitTransition(k)
  \/ \E k \in Clerks, a \in Analyses : BeginNewVersion(k, a)
  \/ \E k \in Clerks, b \in Analyses : CommitNewVersion(k, b)
  \/ \E k \in Clerks : AbandonRequest(k)

LifecycleSpec == LifecycleInit /\ [][LifecycleNext]_lifecycleVars

(***************************************************************************)
(* Properties                                                              *)
(***************************************************************************)
AnalysisRows == [status : Statuses, version : Nat \ {0},
                 parent : Analyses \cup {None}, reason : {"given", None}]
Requests == [on : Analyses, to : Statuses \cup {"NEW_VERSION"}]

\* The table holds analyses, DRAFT is never used, and a request in flight is
\* about a row that exists.
AnalysisTypeOK ==
  /\ DOMAIN analyses \subseteq Analyses
  /\ analyses \in [DOMAIN analyses -> AnalysisRows]
  /\ pending \in [Clerks -> Requests \cup {None}]
  /\ \A k \in Clerks : pending[k] # None => Exists(pending[k].on)

\* A version follows an earlier one that is past its uploads: numbers grow by
\* one along a lineage, so following the parents always ends at version 1.
Lineage ==
  \A b \in DOMAIN analyses :
    LET a == analyses[b].parent
    IN  IF a = None THEN analyses[b].version = 1
        ELSE /\ Exists(a) /\ analyses[a].status # "AWAITING_FILES"
             /\ analyses[b].version = analyses[a].version + 1

\* A FAILED analysis says why, whichever requests raced to finish it.
FailureExplained ==
  \A a \in DOMAIN analyses : analyses[a].status = "FAILED" => analyses[a].reason # None

Settled(a) ==
  /\ Exists(a) /\ analyses[a].status \in VersionableFrom
  /\ \A k \in Clerks : pending[k] # None => pending[k].on # a \/ pending[k].to = "NEW_VERSION"

\* Once an analysis has finished and no status request that read it earlier
\* is still in flight, its row never changes again.
FinalWhenSettled ==
  [][\A a \in Analyses : Settled(a) => Settled(a)' /\ analyses'[a] = analyses[a]]_lifecycleVars

\* Every change of status is one the state machine allows.
OnlyAllowedTransitions ==
  [][\A a \in DOMAIN analyses : \/ analyses'[a].status = analyses[a].status
                                \/ analyses'[a].status \in AllowedTransitions[analyses[a].status]
    ]_lifecycleVars
=============================================================================
