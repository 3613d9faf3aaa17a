------------------------------ MODULE Outputs ------------------------------
(***************************************************************************)
(* The services that write beside the pipeline, for one analysis and one   *)
(* deployment: generate_report, generate_insight, send_notification,       *)
(* record_lead, get_deployment_info and record_license.  Each of them      *)
(* reads, does something that the database does not undo (a file, a        *)
(* message, a call of the provider), and commits; requests overlap, fail   *)
(* between two of these, and are lost in crashes.                          *)
(***************************************************************************)
EXTENDS Backend

CONSTANTS MaxOps     \* bound: requests

ASSUME OpsAssumption == MaxOps \in Nat

Calls == 1..MaxOps

VARIABLES
  completed,    \* the analysis is COMPLETED
  files,        \* report files in the file storage, by the request that made them
  reports,      \* Report rows
  insights,     \* AIInsight rows of the analysis
  lead,         \* the AnalysisLead row: the request that wrote it last
  sent,         \* messages the channel has delivered
  notices,      \* Notification rows
  deployments,  \* DeploymentInfo rows
  nops,         \* number of requests
  lost,         \* ghost: requests that ended in an error or a crash after their outside step
  opc,          \* where each worker's request is
  ocall,        \* its number
  oseen,        \* what it has read, or written outside the database
  omet          \* ghost: a request of the same kind has overlapped

otables == <<completed, files, reports, insights, lead, sent, notices, deployments>>
ovars == <<otables, nops, lost, opc, ocall, oseen, omet>>

Insights == [call : Calls, met : BOOLEAN]
Deployments == [call : Calls, licensed : BOOLEAN, met : BOOLEAN]
Statuses == {"SENT", "FAILED"}

OutputsInit ==
  /\ completed \in BOOLEAN
  /\ files = {} /\ reports = {} /\ insights = {} /\ lead = None
  /\ sent = {} /\ notices = {} /\ deployments = {}
  /\ nops = 0 /\ lost = {}
  /\ opc = [w \in Workers |-> "idle"]
  /\ ocall = [w \in Workers |-> 0]
  /\ oseen = [w \in Workers |-> None]
  /\ omet = [w \in Workers |-> FALSE]

InsightSteps == {"insight", "replacing"}
DeploymentSteps == {"deploying", "created"}
SameKind(w, steps) == opc[w] \in steps

OpStart(w, label, seen, steps) ==
  /\ opc[w] = "idle" /\ nops < MaxOps
  /\ nops' = nops + 1
  /\ ocall' = [ocall EXCEPT ![w] = nops + 1]
  /\ opc' = [opc EXCEPT ![w] = label]
  /\ oseen' = [oseen EXCEPT ![w] = seen]
  /\ omet' = [v \in Workers |-> IF v = w THEN \E u \in Workers : SameKind(u, steps)
                                ELSE omet[v] \/ SameKind(v, steps)]
  /\ UNCHANGED lost

OpGoto(w, label, seen) ==
  /\ opc' = [opc EXCEPT ![w] = label]
  /\ oseen' = [oseen EXCEPT ![w] = seen]
  /\ UNCHANGED <<nops, lost, ocall, omet>>

OpDone(w) ==
  /\ opc' = [opc EXCEPT ![w] = "idle"]
  /\ ocall' = [ocall EXCEPT ![w] = 0]
  /\ oseen' = [oseen EXCEPT ![w] = None]
  /\ omet' = [omet EXCEPT ![w] = FALSE]
  /\ UNCHANGED nops

OpFinish(w) == OpDone(w) /\ UNCHANGED lost

\* An exception between two steps (of the provider, the storage, the grounding
\* check, the commit), or a crash: the transaction is rolled back.
OpLost(w) ==
  /\ opc[w] \notin {"idle", "saved"}
  /\ OpDone(w)
  /\ lost' = lost \cup {ocall[w]}
  /\ UNCHANGED otables

\* run_orchestration ends (modelled in AnalysisLifecycle).
Complete ==
  /\ ~ completed /\ completed' = TRUE
  /\ UNCHANGED <<files, reports, insights, lead, sent, notices, deployments>>
  /\ UNCHANGED <<nops, lost, opc, ocall, oseen, omet>>

(***************************************************************************)
(* generate_report                                                         *)
(***************************************************************************)
StartReport(w) ==
  /\ completed
  /\ OpStart(w, "report", None, {"report", "saved"})
  /\ UNCHANGED otables

\* The path has a fresh uuid.
SaveReport(w) ==
  /\ opc[w] = "report"
  /\ files' = files \cup {ocall[w]}
  /\ OpGoto(w, "saved", None)
  /\ UNCHANGED <<completed, reports, insights, lead, sent, notices, deployments>>

CommitReport(w) ==
  /\ opc[w] = "saved"
  /\ reports' = reports \cup {ocall[w]}
  /\ OpFinish(w)
  /\ UNCHANGED <<completed, files, insights, lead, sent, notices, deployments>>

FailReportOnly(w) ==  \* mutant: the file is not deleted
  /\ opc[w] = "saved"
  /\ UNCHANGED files
  /\ OpFinish(w)
  /\ UNCHANGED <<completed, reports, insights, lead, sent, notices, deployments>>
\* ReportPersistError, after the file has been deleted again.
FailReport(w) ==
  /\ opc[w] = "saved"
  /\ files' = files \ {ocall[w]}
  /\ OpFinish(w)
  /\ UNCHANGED <<completed, reports, insights, lead, sent, notices, deployments>>

\* A crash, or an exception of the delete itself: the file stays.
OrphanReport(w) ==
  /\ opc[w] = "saved"
  /\ OpDone(w)
  /\ lost' = lost \cup {ocall[w]}
  /\ UNCHANGED otables

(***************************************************************************)
(* generate_insight                                                        *)
(***************************************************************************)
\* _gather_facts, and the call of the provider.
StartInsight(w) == OpStart(w, "insight", None, InsightSteps) /\ UNCHANGED otables

SeeNoInsight(w) ==  \* mutant: prior insights are left
  /\ opc[w] = "insight"
  /\ OpGoto(w, "replacing", {})
  /\ UNCHANGED otables
\* Grounded text: the DELETE sees the rows of now.
SeeInsights(w) ==
  /\ opc[w] = "insight"
  /\ OpGoto(w, "replacing", insights)
  /\ UNCHANGED otables

\* It has waited for those that another request was replacing, and skips them.
CommitInsight(w) ==
  /\ opc[w] = "replacing"
  /\ insights' = (insights \ oseen[w]) \cup {[call |-> ocall[w], met |-> omet[w]]}
  /\ OpFinish(w)
  /\ UNCHANGED <<completed, files, reports, lead, sent, notices, deployments>>

(***************************************************************************)
(* send_notification                                                       *)
(***************************************************************************)
StartNotice(w) == OpStart(w, "notice", None, {}) /\ UNCHANGED otables

SendNotice(w) ==
  /\ opc[w] = "notice"
  /\ sent' = sent \cup {ocall[w]}
  /\ OpGoto(w, "attempted", "SENT")
  /\ UNCHANGED <<completed, files, reports, insights, lead, notices, deployments>>

\* The exception is kept as the reason; the message may have gone out.
SendRaises(w) ==
  /\ opc[w] = "notice"
  /\ sent' \in {sent, sent \cup {ocall[w]}}
  /\ OpGoto(w, "attempted", "FAILED")
  /\ UNCHANGED <<completed, files, reports, insights, lead, notices, deployments>>

RecordNotice(w) ==
  /\ opc[w] = "attempted"
  /\ notices' = notices \cup {[call |-> ocall[w], status |-> oseen[w]]}
  /\ OpFinish(w)
  /\ UNCHANGED <<completed, files, reports, insights, lead, sent, deployments>>

(***************************************************************************)
(* record_lead                                                             *)
(***************************************************************************)
ReadLead(w) == OpStart(w, "lead", lead, {}) /\ UNCHANGED otables

\* The row that was read is updated; an insert meets the unique analysis_id.
CommitLead(w) ==
  /\ opc[w] = "lead" /\ (oseen[w] = None => lead = None)
  /\ lead' = ocall[w]
  /\ OpFinish(w)
  /\ UNCHANGED <<completed, files, reports, insights, sent, notices, deployments>>

(***************************************************************************)
(* get_deployment_info and record_license                                  *)
(***************************************************************************)
\* first() of a SELECT without an order.
ReadDeployment(w) ==
  /\ \/ deployments = {} /\ OpStart(w, "deploying", None, DeploymentSteps)
     \/ \E d \in deployments : OpStart(w, "created", d.call, DeploymentSteps)
  /\ UNCHANGED otables

CreateDeployment(w) ==
  /\ opc[w] = "deploying"
  /\ deployments' = deployments \cup {[call |-> ocall[w], licensed |-> FALSE, met |-> omet[w]]}
  /\ OpGoto(w, "created", ocall[w])
  /\ UNCHANGED <<completed, files, reports, insights, lead, sent, notices>>

ReturnDeployment(w) == opc[w] = "created" /\ OpFinish(w) /\ UNCHANGED otables

RecordLicense(w) ==
  /\ opc[w] = "created"
  /\ deployments' = {IF d.call = oseen[w] THEN [d EXCEPT !.licensed = TRUE] ELSE d : d \in deployments}
  /\ OpFinish(w)
  /\ UNCHANGED <<completed, files, reports, insights, lead, sent, notices>>

OutputsNext ==
  \/ Complete
  \/ \E w \in Workers :
       \/ StartReport(w) \/ SaveReport(w) \/ CommitReport(w) \/ FailReport(w) \/ OrphanReport(w)
       \/ StartInsight(w) \/ SeeInsights(w) \/ CommitInsight(w)
       \/ StartNotice(w) \/ SendNotice(w) \/ SendRaises(w) \/ RecordNotice(w)
       \/ ReadLead(w) \/ CommitLead(w)
       \/ ReadDeployment(w) \/ CreateDeployment(w) \/ ReturnDeployment(w) \/ RecordLicense(w)
       \/ OpLost(w)

OutputsSpec == OutputsInit /\ [][OutputsNext]_ovars

(***************************************************************************)
(* Properties                                                              *)
(***************************************************************************)
OutputsTypeOK ==
  /\ completed \in BOOLEAN /\ (reports # {} => completed)
  /\ files \subseteq Calls /\ reports \subseteq Calls /\ sent \subseteq Calls
  /\ insights \subseteq Insights /\ lead \in Calls \cup {None}
  /\ notices \subseteq [call : Calls, status : Statuses]
  /\ deployments \subseteq Deployments
  /\ nops \in 0..MaxOps /\ lost \subseteq Calls
  /\ opc \in [Workers -> {"idle", "report", "saved", "notice", "attempted", "lead"}
                           \cup InsightSteps \cup DeploymentSteps]
  /\ ocall \in [Workers -> 0..MaxOps]
  /\ omet \in [Workers -> BOOLEAN]

Underway(label) == {ocall[w] : w \in {v \in Workers : opc[v] = label}}

\* Every report that is listed can be downloaded, and a file without a report is
\* being committed or was left by a crash.
ReportsReadable == reports \subseteq files /\ files \ reports \subseteq lost \cup Underway("saved")

\* What is recorded as SENT has been sent, and a message without a record is
\* being recorded or its request failed.
NoticesRecorded ==
  /\ \A n \in notices : n.status = "SENT" => n.call \in sent
  /\ sent \subseteq {n.call : n \in notices} \cup lost \cup Underway("attempted")

\* What is outside the database agrees with what is in it, up to the requests
\* that failed between the two: report files with reports, messages with notices.
OutputsAccounted == ReportsReadable /\ NoticesRecorded

\* An insight supersedes the prior ones: two stand beside each other only when
\* the requests that made them overlapped.
OneInsight == \A x, y \in insights : x # y => x.met /\ y.met

\* The deployment has one row, unless the first requests overlapped; a license
\* recorded in one of two rows can be missing from what is read.
OneDeployment == \A d, e \in deployments : d # e => d.met /\ e.met
=============================================================================
