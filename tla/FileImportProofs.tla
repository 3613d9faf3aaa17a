-------------------------- MODULE FileImportProofs --------------------------
(***************************************************************************)
(* Proofs of the properties of AnalysisLifecycle and of FileImport, which  *)
(* extends it, for any number of clerks, analyses, uploads and contents.   *)
(***************************************************************************)
EXTENDS FileImport, TLAPS

(***************************************************************************)
(* The lifecycle.  The invariant adds to the properties what a request in  *)
(* flight knows for good: it never moves an analysis back to               *)
(* AWAITING_FILES, and a version is only made of one that has left it.     *)
(***************************************************************************)
\* What a request read before still holds when it commits.
PendingOK ==
  \A k \in Clerks : pending[k] # None =>
    /\ pending[k].to # "AWAITING_FILES"
    /\ pending[k].to = "NEW_VERSION" => analyses[pending[k].on].status # "AWAITING_FILES"

IInv == AnalysisTypeOK /\ PendingOK /\ Lineage /\ FailureExplained

\* The initial state satisfies the invariant.
LEMMA InitInv == LifecycleInit => IInv
BY DEF LifecycleInit, IInv, AnalysisTypeOK, PendingOK, Lineage, FailureExplained, Exists

\* Where a transition may go from the status it read.
LEMMA Targets ==
  ASSUME NEW s \in Statuses
  PROVE  /\ AllowedTransitions[s] \subseteq Statuses \ {"AWAITING_FILES"}
         /\ s \in VersionableFrom => AllowedTransitions[s] = {}
BY DEF Statuses, AllowedTransitions, VersionableFrom

\* Inserting a row that is well linked keeps the table well formed.
LEMMA InsertKeeps ==
  ASSUME IInv, NEW b \in Analyses, NEW row \in AnalysisRows, Insert(b, row),
         row.status = "AWAITING_FILES",
         IF row.parent = None THEN row.version = 1
         ELSE /\ Exists(row.parent) /\ analyses[row.parent].status # "AWAITING_FILES"
              /\ row.version = analyses[row.parent].version + 1
  PROVE  /\ DOMAIN analyses' = DOMAIN analyses \cup {b}
         /\ \A a \in DOMAIN analyses : analyses'[a] = analyses[a]
         /\ DOMAIN analyses' \subseteq Analyses
         /\ analyses' \in [DOMAIN analyses' -> AnalysisRows]
         /\ Lineage' /\ FailureExplained'
<1>1. /\ DOMAIN analyses' = DOMAIN analyses \cup {b}
      /\ b \notin DOMAIN analyses
      /\ analyses'[b] = row
      /\ \A a \in DOMAIN analyses : analyses'[a] = analyses[a]
  BY DEF Insert, Exists
<1>2. /\ DOMAIN analyses' \subseteq Analyses
      /\ analyses' \in [DOMAIN analyses' -> AnalysisRows]
  BY <1>1 DEF IInv, AnalysisTypeOK, Insert
<1>3. Lineage'
  <2> SUFFICES ASSUME NEW c \in DOMAIN analyses'
               PROVE  LET a == analyses'[c].parent
                      IN  IF a = None THEN analyses'[c].version = 1
                          ELSE /\ a \in DOMAIN analyses'
                               /\ analyses'[a].status # "AWAITING_FILES"
                               /\ analyses'[c].version = analyses'[a].version + 1
    BY DEF Lineage, Exists
  <2>1. CASE c = b
    BY <1>1, <2>1 DEF Exists
  <2>2. CASE c # b
    BY <1>1, <2>2 DEF IInv, Lineage, Exists
  <2> QED BY <2>1, <2>2
<1>4. FailureExplained'
  BY <1>1 DEF IInv, FailureExplained
<1> QED BY <1>1, <1>2, <1>3, <1>4

\* A request that ends leaves the others right about the rows they read.
LEMMA RequestsKeep ==
  ASSUME IInv, NEW k \in Clerks, Finish(k),
         \A a \in DOMAIN analyses : a \in DOMAIN analyses' /\ analyses'[a] = analyses[a],
         DOMAIN analyses' \subseteq Analyses
  PROVE  /\ pending' \in [Clerks -> Requests \cup {None}]
         /\ \A j \in Clerks : pending'[j] # None => pending'[j].on \in DOMAIN analyses'
         /\ PendingOK'
<1>1. /\ pending' \in [Clerks -> Requests \cup {None}]
      /\ \A j \in Clerks : pending'[j] # None => pending'[j] = pending[j]
  BY DEF Finish, IInv, AnalysisTypeOK
<1> QED BY <1>1 DEF IInv, AnalysisTypeOK, PendingOK, Exists

\* Every step keeps the invariant: one step of the proof per action.
LEMMA StepInv == IInv /\ [LifecycleNext]_lifecycleVars => IInv'
<1> SUFFICES ASSUME IInv, [LifecycleNext]_lifecycleVars PROVE IInv'
  OBVIOUS
<1> USE NoneAssumption
<1>1. ASSUME NEW b \in Analyses, CreateAnalysis(b) PROVE IInv'
  <2>1. NewAnalysis(1, None) \in AnalysisRows
    BY DEF NewAnalysis, AnalysisRows, Statuses
  <2>2. /\ DOMAIN analyses' = DOMAIN analyses \cup {b}
        /\ \A a \in DOMAIN analyses : analyses'[a] = analyses[a]
        /\ DOMAIN analyses' \subseteq Analyses
        /\ analyses' \in [DOMAIN analyses' -> AnalysisRows]
        /\ Lineage' /\ FailureExplained'
    BY <1>1, <2>1, InsertKeeps DEF CreateAnalysis, NewAnalysis
  <2> QED BY <1>1, <2>2 DEF CreateAnalysis, IInv, AnalysisTypeOK, PendingOK, Exists
<1>2. ASSUME NEW k \in Clerks, NEW a \in Analyses, NEW to \in Statuses, BeginTransition(k, a, to)
      PROVE  IInv'
  <2>1. /\ Exists(a) /\ analyses[a].status \in Statuses
        /\ to # "AWAITING_FILES" /\ to # "NEW_VERSION"
    BY <1>2, Targets DEF BeginTransition, IInv, AnalysisTypeOK, Exists, AnalysisRows, Statuses
  <2>2. AnalysisTypeOK'
    BY <1>2, <2>1 DEF BeginTransition, IInv, AnalysisTypeOK, Request, Requests, Exists
  <2>3. PendingOK'
    BY <1>2, <2>1 DEF BeginTransition, IInv, AnalysisTypeOK, PendingOK, Request
  <2> QED BY <1>2, <2>2, <2>3 DEF BeginTransition, IInv, Lineage, FailureExplained, Exists
<1>3. ASSUME NEW k \in Clerks, CommitTransition(k) PROVE IInv'
  <2> DEFINE a == pending[k].on
             to == pending[k].to
  <2>1. /\ a \in DOMAIN analyses /\ to \in Statuses \ {"AWAITING_FILES"}
        /\ analyses[a] \in AnalysisRows
    BY <1>3 DEF CommitTransition, IInv, AnalysisTypeOK, PendingOK, Requests, Exists
  <2>2. /\ DOMAIN analyses' = DOMAIN analyses
        /\ analyses'[a] = Updated(analyses[a], to)
        /\ \A c \in DOMAIN analyses : c # a => analyses'[c] = analyses[c]
    BY <1>3, <2>1 DEF CommitTransition
  <2>3. /\ Updated(analyses[a], to) \in AnalysisRows
        /\ Updated(analyses[a], to).status = to
        /\ Updated(analyses[a], to).version = analyses[a].version
        /\ Updated(analyses[a], to).parent = analyses[a].parent
        /\ to = "FAILED" => Updated(analyses[a], to).reason = "given"
    BY <2>1 DEF Updated, AnalysisRows
  <2>4. /\ pending' \in [Clerks -> Requests \cup {None}]
        /\ \A j \in Clerks : pending'[j] # None => pending'[j] = pending[j]
    BY <1>3 DEF CommitTransition, Finish, IInv, AnalysisTypeOK
  <2>5. AnalysisTypeOK'
    <3>1. analyses' \in [DOMAIN analyses' -> AnalysisRows]
      BY <1>3, <2>1, <2>2, <2>3 DEF CommitTransition, IInv, AnalysisTypeOK
    <3> QED BY <2>2, <2>4, <3>1 DEF IInv, AnalysisTypeOK, Exists
  <2>6. PendingOK'
    BY <2>1, <2>2, <2>3, <2>4 DEF IInv, PendingOK, AnalysisTypeOK, Exists
  <2>7. Lineage'
    <3>1. \A c \in DOMAIN analyses : /\ analyses'[c].version = analyses[c].version
                                     /\ analyses'[c].parent = analyses[c].parent
                                     /\ analyses'[c].status = "AWAITING_FILES" =>
                                          analyses[c].status = "AWAITING_FILES"
      BY <2>1, <2>2, <2>3
    <3> QED BY <2>2, <3>1 DEF IInv, Lineage, Exists
  <2>8. FailureExplained'
    <3>1. ASSUME NEW c \in DOMAIN analyses', analyses'[c].status = "FAILED"
          PROVE  analyses'[c].reason # None
      <4>1. CASE c = a
        BY <2>2, <2>3, <3>1, <4>1, ReasonAssumption
      <4>2. CASE c # a
        BY <2>2, <3>1, <4>2 DEF IInv, FailureExplained
      <4> QED BY <4>1, <4>2
    <3> QED BY <3>1 DEF FailureExplained
  <2> QED BY <2>5, <2>6, <2>7, <2>8 DEF IInv
<1>4. ASSUME NEW k \in Clerks, NEW a \in Analyses, BeginNewVersion(k, a) PROVE IInv'
  <2>1. Exists(a) /\ analyses[a].status # "AWAITING_FILES"
    BY <1>4 DEF BeginNewVersion, VersionableFrom
  <2>2. AnalysisTypeOK'
    BY <1>4, <2>1 DEF BeginNewVersion, IInv, AnalysisTypeOK, Request, Requests, Exists
  <2>3. PendingOK'
    BY <1>4, <2>1 DEF BeginNewVersion, IInv, AnalysisTypeOK, PendingOK, Request
  <2> QED BY <1>4, <2>2, <2>3 DEF BeginNewVersion, IInv, Lineage, FailureExplained, Exists
<1>5. ASSUME NEW k \in Clerks, NEW b \in Analyses, CommitNewVersion(k, b) PROVE IInv'
  <2> DEFINE a == pending[k].on
             row == NewAnalysis(analyses[a].version + 1, a)
  <2>1. /\ a \in Analyses /\ Exists(a) /\ analyses[a].status # "AWAITING_FILES"
        /\ analyses[a].version \in Nat \ {0}
    BY <1>5 DEF CommitNewVersion, IInv, AnalysisTypeOK, PendingOK, Requests, Exists, AnalysisRows
  <2>2. /\ row \in AnalysisRows /\ row.status = "AWAITING_FILES"
        /\ row.parent = a /\ row.version = analyses[a].version + 1 /\ a # None
    BY <2>1 DEF NewAnalysis, AnalysisRows, Statuses
  <2>3. Insert(b, row)
    BY <1>5 DEF CommitNewVersion
  <2>4. /\ DOMAIN analyses' = DOMAIN analyses \cup {b}
        /\ \A c \in DOMAIN analyses : analyses'[c] = analyses[c]
        /\ DOMAIN analyses' \subseteq Analyses
        /\ analyses' \in [DOMAIN analyses' -> AnalysisRows]
        /\ Lineage' /\ FailureExplained'
    <3> HIDE DEF row, a
    <3> QED BY <2>1, <2>2, <2>3, InsertKeeps
  <2>5. Finish(k)
    BY <1>5 DEF CommitNewVersion
  <2>6. /\ pending' \in [Clerks -> Requests \cup {None}]
        /\ \A j \in Clerks : pending'[j] # None => pending'[j].on \in DOMAIN analyses'
        /\ PendingOK'
    BY <2>4, <2>5, RequestsKeep
  <2> QED BY <2>4, <2>6 DEF IInv, AnalysisTypeOK, Exists
<1>6. ASSUME NEW k \in Clerks, AbandonRequest(k) PROVE IInv'
  <2>1. Finish(k)
    BY <1>6 DEF AbandonRequest
  <2>2. UNCHANGED analyses
    BY <1>6 DEF AbandonRequest
  <2>3. /\ pending' \in [Clerks -> Requests \cup {None}]
        /\ \A j \in Clerks : pending'[j] # None => pending'[j].on \in DOMAIN analyses'
        /\ PendingOK'
    BY <2>1, <2>2, RequestsKeep DEF IInv, AnalysisTypeOK
  <2> QED BY <2>2, <2>3 DEF IInv, AnalysisTypeOK, Lineage, FailureExplained, Exists
<1>7. CASE UNCHANGED lifecycleVars
  BY <1>7 DEF lifecycleVars, IInv, AnalysisTypeOK, PendingOK, Lineage, FailureExplained, Exists
<1> QED BY <1>1, <1>2, <1>3, <1>4, <1>5, <1>6, <1>7 DEF LifecycleNext

\* The invariant holds in every reachable state.
THEOREM Invariant == LifecycleSpec => []IInv
<1> QED BY InitInv, StepInv, PTL DEF LifecycleSpec

\* The tables hold rows of their kind, whatever requests overlap or fail.
THEOREM TypeCorrect == LifecycleSpec => []AnalysisTypeOK
<1>1. IInv => AnalysisTypeOK BY DEF IInv
<1> QED BY <1>1, Invariant, PTL

\* Version numbers grow by one along every lineage of create_new_version.
THEOREM LineageHolds == LifecycleSpec => []Lineage
<1>1. IInv => Lineage BY DEF IInv
<1> QED BY <1>1, Invariant, PTL

\* A FAILED analysis has a failure_reason.
THEOREM FailuresExplained == LifecycleSpec => []FailureExplained
<1>1. IInv => FailureExplained BY DEF IInv
<1> QED BY <1>1, Invariant, PTL

\* A row that is terminal with no status request in flight is final.
LEMMA SettledStep ==
  ASSUME IInv, LifecycleNext, NEW a \in Analyses, Settled(a)
  PROVE  Settled(a)' /\ analyses'[a] = analyses[a]
<1>1. /\ a \in DOMAIN analyses /\ analyses[a].status \in Statuses
      /\ AllowedTransitions[analyses[a].status] = {}
      /\ analyses[a].status \in VersionableFrom
  BY Targets DEF Settled, Exists, IInv, AnalysisTypeOK, AnalysisRows
<1>2. ASSUME NEW b \in Analyses, CreateAnalysis(b) PROVE Settled(a)' /\ analyses'[a] = analyses[a]
  BY <1>1, <1>2 DEF CreateAnalysis, Insert, Settled, Exists
<1>3. ASSUME NEW k \in Clerks, NEW c \in Analyses, NEW to \in Statuses, BeginTransition(k, c, to)
      PROVE  Settled(a)' /\ analyses'[a] = analyses[a]
  <2>1. c # a
    BY <1>1, <1>3 DEF BeginTransition
  <2> QED BY <1>1, <1>3, <2>1 DEF BeginTransition, Settled, Exists, Request, IInv, AnalysisTypeOK
<1>4. ASSUME NEW k \in Clerks, CommitTransition(k)
      PROVE  Settled(a)' /\ analyses'[a] = analyses[a]
  <2>1. pending[k].on # a
    BY <1>4 DEF CommitTransition, Settled
  <2> QED BY <1>1, <1>4, <2>1 DEF CommitTransition, Finish, Settled, Exists, IInv, AnalysisTypeOK
<1>5. ASSUME NEW k \in Clerks, NEW c \in Analyses, BeginNewVersion(k, c)
      PROVE  Settled(a)' /\ analyses'[a] = analyses[a]
  BY <1>1, <1>5 DEF BeginNewVersion, Settled, Exists, Request, IInv, AnalysisTypeOK
<1>6. ASSUME NEW k \in Clerks, NEW b \in Analyses, CommitNewVersion(k, b)
      PROVE  Settled(a)' /\ analyses'[a] = analyses[a]
  BY <1>1, <1>6 DEF CommitNewVersion, Insert, Finish, Settled, Exists, IInv, AnalysisTypeOK
<1>7. ASSUME NEW k \in Clerks, AbandonRequest(k)
      PROVE  Settled(a)' /\ analyses'[a] = analyses[a]
  BY <1>1, <1>7 DEF AbandonRequest, Finish, Settled, Exists, IInv, AnalysisTypeOK
<1> QED BY <1>2, <1>3, <1>4, <1>5, <1>6, <1>7 DEF LifecycleNext

\* A finished analysis that no earlier status request can still reach is
\* final: the terminal states really are terminal once requests drain.
THEOREM FinalState == LifecycleSpec => FinalWhenSettled
<1>1. IInv /\ [LifecycleNext]_lifecycleVars =>
        [\A a \in Analyses : Settled(a) => Settled(a)' /\ analyses'[a] = analyses[a]]_lifecycleVars
  BY SettledStep
<1> QED BY <1>1, Invariant, PTL DEF LifecycleSpec, FinalWhenSettled

(***************************************************************************)
(* The uploads.  The invariant says what an upload in flight knows:        *)
(* RequestOK always, SoloOK as long as the uploads of its analysis have    *)
(* not overlapped.                                                         *)
(***************************************************************************)
Uncommitted == {"accepted", "unique", "saving", "saved"}
Located == {"saving", "saved", "undoing"}

\* The file it found current belongs to its analysis; its id is its own.
RequestOK ==
  /\ \A u \in Uploaders : \A f \in previous[u] : ~ Idle(u) /\ f.analysis = upload[u].analysis
  /\ \A u \in Uploaders : upc[u] \in Uncommitted => \A f \in files : f.id # upload[u].id
  /\ \A u, v \in Uploaders :
       ~ Idle(u) /\ ~ Idle(v) /\ upload[u].id = upload[v].id => u = v

\* Without overlap, the request in flight is the only one, what it found is
\* still current, and its version is above every row's.
Alone(u) ==
  /\ \A v \in Uploaders : ~ Idle(v) /\ upload[v].analysis = upload[u].analysis => u = v
  /\ upc[u] \in Located =>
       \A f \in files : f.analysis = upload[u].analysis => f.version < NextVersion(u)
  /\ upc[u] \in {"saving", "saved"} => previous[u] = FilesOf(upload[u].analysis)
  /\ upc[u] = "saved" => Intact(Record(u))

SoloOK == \A u \in Uploaders : ~ Idle(u) /\ upload[u].analysis \in clean => Alone(u)

ImportInv ==
  /\ IInv /\ ImportTypeOK /\ RequestOK
  /\ CurrentFileKept /\ VersionHistory /\ SoloOK /\ SoloFilesIntact

(***************************************************************************)
(* The composition implements its component.                               *)
(***************************************************************************)

\* Every step is a step of AnalysisLifecycle or leaves its variables alone.
LEMMA LifecycleStep == [Next]_vars => [LifecycleNext]_lifecycleVars
BY DEF Next, vars, lifecycleVars, BeginUpload, CheckDuplicate, RejectDuplicate, FindCurrent,
       SeveralCurrent, SaveFile, SaveFails, CommitUpload, CommitFails, UndoSave, Crash, EndUpload

\* Uploads never write the analyses table: whatever holds of the lifecycle
\* requests alone holds beside uploads.
THEOREM ImplementsLifecycle == Spec => LifecycleSpec
<1>1. LifecycleInit /\ ImportInit => LifecycleInit
  OBVIOUS
<1> QED BY <1>1, LifecycleStep, PTL DEF Spec, LifecycleSpec

(***************************************************************************)
(* Helpers                                                                 *)
(***************************************************************************)

\* The next version is one above what the request found, or 1.
LEMMA NextVersionIs ==
  ASSUME ImportTypeOK, NEW u \in Uploaders
  PROVE  /\ NextVersion(u) \in Nat \ {0}
         /\ previous[u] = {} => NextVersion(u) = 1
         /\ \A f \in previous[u] : /\ previous[u] = {f} /\ f \in files
                                   /\ NextVersion(u) = f.version + 1
<1>1. CASE previous[u] = {}
  BY <1>1 DEF NextVersion
<1>2. CASE previous[u] # {}
  <2>1. PICK f \in files : previous[u] = {f}
    BY <1>2 DEF ImportTypeOK
  <2>2. (CHOOSE g \in previous[u] : TRUE) = f
    BY <2>1
  <2>3. f.version \in Nat \ {0}
    BY <2>1 DEF ImportTypeOK, FileRows
  <2> QED BY <1>2, <2>1, <2>2, <2>3 DEF NextVersion
<1> QED BY <1>1, <1>2

\* The same of the next state.
LEMMA NextVersionPrime ==
  ASSUME ImportTypeOK', NEW u \in Uploaders, NEW f \in previous'[u]
  PROVE  NextVersion(u)' = f.version + 1
<1>1. PICK g \in files' : previous'[u] = {g}
  BY DEF ImportTypeOK
<1>2. (CHOOSE g2 \in previous'[u] : TRUE) = f
  BY <1>1
<1> QED BY <1>1, <1>2 DEF NextVersion

\* The row a request is going to insert.
LEMMA RecordIs ==
  ASSUME ImportTypeOK, NEW u \in Uploaders, ~ Idle(u)
  PROVE  /\ Record(u) \in FileRows
         /\ upload[u] \in Arguments
         /\ Record(u).id = upload[u].id
         /\ Record(u).analysis = upload[u].analysis
         /\ Record(u).version = NextVersion(u)
         /\ Record(u).content = upload[u].content
         /\ Record(u).extension = upload[u].extension
<1>1. upload[u] \in Arguments
  BY DEF ImportTypeOK
<1> QED BY <1>1, NextVersionIs DEF Record, Arguments, FileRows

\* Rows with the same path have the same analysis and version.
LEMMA PathFields ==
  ASSUME NEW f, NEW g, PathOf(f) = PathOf(g)
  PROVE  f.analysis = g.analysis /\ f.version = g.version
BY DEF PathOf

\* A request that ends is idle, and no other request is touched.
LEMMA EndIs ==
  ASSUME ImportTypeOK, NEW u \in Uploaders, EndUpload(u)
  PROVE  /\ upc' \in [Uploaders -> Labels]
         /\ upload' \in [Uploaders -> Arguments \cup {None}]
         /\ previous' \in [Uploaders -> {{}} \cup {{f} : f \in files}]
         /\ upc'[u] = "idle" /\ previous'[u] = {}
         /\ \A v \in Uploaders : v # u => /\ upc'[v] = upc[v]
                                          /\ upload'[v] = upload[v]
                                          /\ previous'[v] = previous[v]
         /\ UNCHANGED <<analyses, uploads>>
BY DEF ImportTypeOK, EndUpload, Goto, Labels, lifecycleVars

\* The table of files changes only when a saved upload commits its row.
LEMMA FilesChange ==
  ASSUME [Next]_vars
  PROVE  \/ UNCHANGED <<files, received>>
         \/ \E u \in Uploaders : upc[u] = "saved" /\ InsertRecord(u)
BY DEF Next, vars, importVars, BeginUpload, CheckDuplicate, RejectDuplicate, FindCurrent,
       SeveralCurrent, SaveFile, SaveFails, CommitUpload, CommitFails, UndoSave, Crash

\* Analyses are never deleted.
LEMMA AnalysesStay ==
  ASSUME IInv, [LifecycleNext]_lifecycleVars
  PROVE  DOMAIN analyses \subseteq DOMAIN analyses'
BY DEF LifecycleNext, lifecycleVars, CreateAnalysis, BeginTransition, CommitTransition,
       BeginNewVersion, CommitNewVersion, AbandonRequest, Insert

(***************************************************************************)
(* Initially.                                                              *)
(***************************************************************************)

\* The initial state satisfies the invariant.
LEMMA ImportInitInv == LifecycleInit /\ ImportInit => ImportInv
<1> SUFFICES ASSUME LifecycleInit, ImportInit PROVE ImportInv
  OBVIOUS
<1>1. IInv
  BY InitInv
<1>2. ImportTypeOK
  BY UploadsAssumption DEF ImportInit, ImportTypeOK, Labels, Idle
<1> QED
  BY <1>1, <1>2 DEF ImportInit, ImportInv, RequestOK, CurrentFileKept, VersionHistory, SoloOK,
                    SoloFilesIntact, Idle, Uncommitted

(***************************************************************************)
(* Type correctness.                                                       *)
(***************************************************************************)

\* What a row, or a request's arguments, may be only grows.
LEMMA RowsGrow ==
  ASSUME DOMAIN analyses \subseteq DOMAIN analyses', uploads \in Nat,
         uploads' \in Nat, uploads <= uploads'
  PROVE  FileRows \subseteq FileRows' /\ Arguments \subseteq Arguments'
BY DEF FileRows, Arguments

\* Inserting the record of a request keeps the table of files well typed.
LEMMA InsertTypes ==
  ASSUME ImportTypeOK, NEW u \in Uploaders, ~ Idle(u), InsertRecord(u),
         UNCHANGED <<analyses, uploads>>
  PROVE  /\ files' \subseteq FileRows' /\ received' \subseteq files'
         /\ files \subseteq files'
<1>1. Record(u) \in FileRows
  BY RecordIs
<1> QED BY <1>1 DEF InsertRecord, ImportTypeOK, FileRows

\* Saving or deleting a file keeps the storage well typed.
LEMMA StoredTypes ==
  ASSUME ImportTypeOK, NEW u \in Uploaders, ~ Idle(u),
         AnalysisTypeOK, NEW c \in Contents \cup {Torn}
  PROVE  LET s == Written(PathOf(Record(u)), c)
         IN  /\ s \in [DOMAIN s -> Contents \cup {Torn}]
             /\ DOMAIN s \subseteq Analyses \X (Nat \ {0}) \X Extensions
<1>1. PathOf(Record(u)) \in Analyses \X (Nat \ {0}) \X Extensions
  BY RecordIs DEF PathOf, FileRows, AnalysisTypeOK
<1> QED BY <1>1 DEF Written, ImportTypeOK

\* Every step of an upload keeps the types.
LEMMA ImportTypeStep ==
  ASSUME IInv, ImportTypeOK, [Next]_vars
  PROVE  ImportTypeOK'
<1> USE DEF Labels
<1>t. AnalysisTypeOK
  BY DEF IInv
<1>0. CASE LifecycleNext /\ UNCHANGED importVars
  <2>1. DOMAIN analyses \subseteq DOMAIN analyses'
    BY <1>0, AnalysesStay
  <2>2. FileRows \subseteq FileRows' /\ Arguments \subseteq Arguments'
    BY <1>0, <2>1, RowsGrow, UploadsAssumption DEF importVars, ImportTypeOK
  <2> QED BY <1>0, <2>2 DEF importVars, ImportTypeOK, Idle
<1>1. ASSUME NEW u \in Uploaders, NEW a \in Analyses, NEW c \in Contents, NEW e \in Extensions,
             BeginUpload(u, a, c, e)
      PROVE  ImportTypeOK'
  <2>1. /\ uploads \in Nat /\ uploads' = uploads + 1 /\ uploads' \in 0..MaxUploads
        /\ UNCHANGED <<analyses, files, received, stored, previous>>
    BY <1>1, UploadsAssumption DEF BeginUpload, ImportTypeOK, lifecycleVars
  <2>2. FileRows \subseteq FileRows' /\ Arguments \subseteq Arguments'
    BY <2>1, RowsGrow
  <2>3. [id |-> uploads + 1, analysis |-> a, content |-> c, extension |-> e] \in Arguments'
    BY <1>1, <2>1 DEF BeginUpload, Arguments, Exists
  <2>4. /\ upload' \in [Uploaders -> Arguments' \cup {None}]
        /\ upc' \in [Uploaders -> Labels]
        /\ \A v \in Uploaders : upc'[v] # "idle" => upload'[v] \in Arguments'
    BY <1>1, <2>2, <2>3 DEF BeginUpload, Goto, ImportTypeOK, Idle
  <2>5. clean' \subseteq Analyses
    BY <1>1 DEF BeginUpload, ImportTypeOK
  <2> QED BY <2>1, <2>2, <2>4, <2>5 DEF ImportTypeOK, Idle
<1>2. ASSUME NEW u \in Uploaders, CheckDuplicate(u) PROVE ImportTypeOK'
  BY <1>2 DEF CheckDuplicate, Goto, ImportTypeOK, Idle, FileRows, Arguments, lifecycleVars
<1>3. ASSUME NEW u \in Uploaders, RejectDuplicate(u) PROVE ImportTypeOK'
  BY <1>3, EndIs DEF RejectDuplicate, ImportTypeOK, Idle, FileRows, Arguments
<1>4. ASSUME NEW u \in Uploaders, FindCurrent(u) PROVE ImportTypeOK'
  <2>1. FilesOf(upload[u].analysis) \in {{}} \cup {{f} : f \in files}
    BY <1>4 DEF FindCurrent, Several, FilesOf, ImportTypeOK
  <2> HIDE DEF FilesOf
  <2>2. previous' \in [Uploaders -> {{}} \cup {{f} : f \in files}]
    BY <1>4, <2>1 DEF FindCurrent, ImportTypeOK
  <2> QED BY <1>4, <2>2 DEF FindCurrent, Goto, ImportTypeOK, Idle, FileRows, Arguments, lifecycleVars
<1>5. ASSUME NEW u \in Uploaders, SeveralCurrent(u) PROVE ImportTypeOK'
  BY <1>5, EndIs DEF SeveralCurrent, ImportTypeOK, Idle, FileRows, Arguments
<1>6. ASSUME NEW u \in Uploaders, SaveFile(u) PROVE ImportTypeOK'
  <2>1. ~ Idle(u) /\ upload[u].content \in Contents
    BY <1>6, RecordIs DEF SaveFile, Idle, Arguments
  <2>2. /\ stored' \in [DOMAIN stored' -> Contents \cup {Torn}]
        /\ DOMAIN stored' \subseteq Analyses \X (Nat \ {0}) \X Extensions
    BY <1>6, <1>t, <2>1, StoredTypes DEF SaveFile
  <2> QED BY <1>6, <2>2 DEF SaveFile, Goto, ImportTypeOK, Idle, FileRows, Arguments, lifecycleVars
<1>7. ASSUME NEW u \in Uploaders, SaveFails(u) PROVE ImportTypeOK'
  <2>1. ~ Idle(u)
    BY <1>7 DEF SaveFails, Idle
  <2>2. /\ stored' \in [DOMAIN stored' -> Contents \cup {Torn}]
        /\ DOMAIN stored' \subseteq Analyses \X (Nat \ {0}) \X Extensions
    <3>1. CASE stored' = stored
      BY <3>1 DEF ImportTypeOK
    <3>2. CASE stored' = Written(PathOf(Record(u)), Torn)
      BY <1>t, <2>1, <3>2, StoredTypes
    <3> QED BY <1>7, <3>1, <3>2 DEF SaveFails
  <2> QED BY <1>7, <2>2, EndIs DEF SaveFails, ImportTypeOK, Idle, FileRows, Arguments
<1>8. ASSUME NEW u \in Uploaders, CommitUpload(u) PROVE ImportTypeOK'
  <2>1. ~ Idle(u) /\ InsertRecord(u) /\ EndUpload(u) /\ UNCHANGED <<stored, clean>>
    BY <1>8 DEF CommitUpload, Idle
  <2>2. /\ upc' \in [Uploaders -> Labels]
        /\ upload' \in [Uploaders -> Arguments \cup {None}]
        /\ previous' \in [Uploaders -> {{}} \cup {{f} : f \in files}]
        /\ \A v \in Uploaders : upc'[v] # "idle" => upload'[v] \in Arguments
        /\ UNCHANGED <<analyses, uploads>>
    BY <2>1, EndIs DEF ImportTypeOK, Idle
  <2>3. files' \subseteq FileRows' /\ received' \subseteq files' /\ files \subseteq files'
    BY <2>1, <2>2, InsertTypes
  <2>4. previous' \in [Uploaders -> {{}} \cup {{f} : f \in files'}]
    BY <2>2, <2>3
  <2> QED BY <2>1, <2>2, <2>3, <2>4 DEF ImportTypeOK, Idle, Arguments
<1>9. ASSUME NEW u \in Uploaders, CommitFails(u) PROVE ImportTypeOK'
  <2>1. /\ ~ Idle(u) /\ UNCHANGED <<analyses, uploads, stored, upload, previous>>
        /\ upc' \in [Uploaders -> Labels]
        /\ \A v \in Uploaders : upc'[v] # "idle" => ~ Idle(v)
        /\ clean' \subseteq Analyses
    BY <1>9 DEF CommitFails, Idle, Goto, ImportTypeOK, lifecycleVars
  <2>2. files' \subseteq FileRows' /\ received' \subseteq files' /\ files \subseteq files'
    <3>1. CASE UNCHANGED <<files, received>>
      BY <2>1, <3>1 DEF ImportTypeOK, FileRows
    <3>2. CASE InsertRecord(u)
      BY <2>1, <3>2, InsertTypes
    <3> QED BY <1>9, <3>1, <3>2 DEF CommitFails
  <2>3. previous' \in [Uploaders -> {{}} \cup {{f} : f \in files'}]
    BY <2>1, <2>2 DEF ImportTypeOK
  <2> QED BY <2>1, <2>2, <2>3 DEF ImportTypeOK, Idle, Arguments
<1>10. ASSUME NEW u \in Uploaders, UndoSave(u) PROVE ImportTypeOK'
  <2>1. /\ stored' \in [DOMAIN stored' -> Contents \cup {Torn}]
        /\ DOMAIN stored' \subseteq Analyses \X (Nat \ {0}) \X Extensions
    BY <1>10 DEF UndoSave, ImportTypeOK
  <2> QED BY <1>10, <2>1, EndIs DEF UndoSave, ImportTypeOK, Idle, FileRows, Arguments
<1>11. ASSUME NEW u \in Uploaders, Crash(u) PROVE ImportTypeOK'
  BY <1>11, EndIs DEF Crash, ImportTypeOK, Idle, FileRows, Arguments
<1>12. CASE UNCHANGED vars
  BY <1>12 DEF vars, lifecycleVars, importVars, ImportTypeOK, Idle, FileRows, Arguments
<1> QED
  BY <1>0, <1>1, <1>2, <1>3, <1>4, <1>5, <1>6, <1>7, <1>8, <1>9, <1>10, <1>11, <1>12 DEF Next

(***************************************************************************)
(* What a request in flight knows.                                         *)
(***************************************************************************)

\* A step that starts no upload and commits none keeps what requests know.
LEMMA RequestsKeepOn ==
  ASSUME RequestOK, UNCHANGED files,
         \A v \in Uploaders :
           /\ upc'[v] # "idle" => upc[v] # "idle" /\ upload'[v] = upload[v]
           /\ upc'[v] \in Uncommitted => upc[v] \in Uncommitted
           /\ previous'[v] # {} => /\ upc'[v] # "idle"
                                   /\ \A f \in previous'[v] : f.analysis = upload[v].analysis
  PROVE  RequestOK'
BY DEF RequestOK, Idle, Uncommitted

\* Every step keeps what the requests in flight know.
LEMMA RequestStep ==
  ASSUME IInv, ImportTypeOK, RequestOK, [Next]_vars
  PROVE  RequestOK'
<1> USE DEF Labels, Uncommitted
<1>0. CASE LifecycleNext /\ UNCHANGED importVars
  BY <1>0 DEF importVars, RequestOK, Idle
<1>1. ASSUME NEW u \in Uploaders, NEW a \in Analyses, NEW c \in Contents, NEW e \in Extensions,
             BeginUpload(u, a, c, e)
      PROVE  RequestOK'
  <2>1. /\ Idle(u) /\ UNCHANGED <<files, previous>>
        /\ upc'[u] = "accepted" /\ upload'[u].id = uploads + 1
        /\ \A v \in Uploaders : v # u => upc'[v] = upc[v] /\ upload'[v] = upload[v]
    BY <1>1 DEF BeginUpload, Goto, ImportTypeOK
  <2>2. \A v \in Uploaders : ~ Idle(v) => upload[v].id # uploads + 1
    BY UploadsAssumption DEF ImportTypeOK, Arguments
  <2>3. \A f \in files : f.id # uploads + 1
    BY UploadsAssumption DEF ImportTypeOK, FileRows
  <2>4. \A v \in Uploaders : \A f \in previous'[v] :
          upc'[v] # "idle" /\ f.analysis = upload'[v].analysis
    BY <2>1 DEF RequestOK, Idle
  <2>5. \A v \in Uploaders : upc'[v] \in Uncommitted => \A f \in files' : f.id # upload'[v].id
    BY <2>1, <2>3 DEF RequestOK
  <2>6. \A v, w \in Uploaders :
          upc'[v] # "idle" /\ upc'[w] # "idle" /\ upload'[v].id = upload'[w].id => v = w
    BY <2>1, <2>2 DEF RequestOK, Idle
  <2> QED BY <2>4, <2>5, <2>6 DEF RequestOK, Idle
<1>2. ASSUME NEW u \in Uploaders, CheckDuplicate(u) PROVE RequestOK'
  BY <1>2, RequestsKeepOn DEF CheckDuplicate, Goto, ImportTypeOK, RequestOK, Idle
<1>3. ASSUME NEW u \in Uploaders, EndUpload(u), UNCHANGED files PROVE RequestOK'
  BY <1>3, EndIs, RequestsKeepOn DEF RequestOK, Idle
<1>4. ASSUME NEW u \in Uploaders, FindCurrent(u) PROVE RequestOK'
  BY <1>4, RequestsKeepOn DEF FindCurrent, FilesOf, Goto, ImportTypeOK, RequestOK, Idle
<1>6. ASSUME NEW u \in Uploaders, SaveFile(u) PROVE RequestOK'
  BY <1>6, RequestsKeepOn DEF SaveFile, Goto, ImportTypeOK, RequestOK, Idle
<1>8. ASSUME NEW u \in Uploaders, CommitUpload(u) PROVE RequestOK'
  <2>1. /\ upc[u] = "saved" /\ ~ Idle(u) /\ EndUpload(u)
        /\ files' = files \cup {Record(u)}
    BY <1>8 DEF CommitUpload, InsertRecord, Idle
  <2>2. Record(u).id = upload[u].id
    BY <2>1, RecordIs
  <2> QED BY <2>1, <2>2, EndIs DEF RequestOK, Idle
<1>9. ASSUME NEW u \in Uploaders, CommitFails(u) PROVE RequestOK'
  <2>1. /\ upc[u] = "saved" /\ ~ Idle(u) /\ UNCHANGED <<upload, previous>>
        /\ upc'[u] = "undoing" /\ \A v \in Uploaders : v # u => upc'[v] = upc[v]
        /\ files' \subseteq files \cup {Record(u)}
    BY <1>9 DEF CommitFails, InsertRecord, Idle, Goto, ImportTypeOK
  <2>2. Record(u).id = upload[u].id
    BY <2>1, RecordIs
  <2> QED BY <2>1, <2>2 DEF RequestOK, Idle
<1>12. CASE UNCHANGED vars
  BY <1>12 DEF vars, importVars, RequestOK, Idle
<1> QED
  BY <1>0, <1>1, <1>2, <1>3, <1>4, <1>6, <1>8, <1>9, <1>12
  DEF Next, RejectDuplicate, SeveralCurrent, SaveFails, UndoSave, Crash

(***************************************************************************)
(* The table of files.                                                     *)
(***************************************************************************)

\* Every step keeps a current file and the history behind each version.
LEMMA HistoryStep ==
  ASSUME ImportTypeOK, RequestOK, CurrentFileKept, VersionHistory, [Next]_vars
  PROVE  CurrentFileKept' /\ VersionHistory'
<1>1. CASE UNCHANGED <<files, received>>
  BY <1>1 DEF CurrentFileKept, VersionHistory, FilesOf
<1>2. ASSUME NEW u \in Uploaders, upc[u] = "saved", InsertRecord(u)
      PROVE  CurrentFileKept' /\ VersionHistory'
  <2> DEFINE r == Record(u)
  <2>1. /\ ~ Idle(u) /\ r.id = upload[u].id /\ r.analysis = upload[u].analysis
        /\ r.version = NextVersion(u)
    BY <1>2, RecordIs DEF Idle
  <2>2. \A f \in files : f # r
    BY <1>2, <2>1 DEF RequestOK, Uncommitted
  <2>3. \A f \in previous[u] : f.analysis = r.analysis
    BY <2>1 DEF RequestOK
  <2> HIDE DEF r
  <2>4. files' = files \cup {r} /\ received' = (received \ previous[u]) \cup {r}
    BY <1>2 DEF InsertRecord, r
  <2>5. CurrentFileKept'
    <3> SUFFICES ASSUME NEW f \in files'
                 PROVE  \E g \in received' : g.analysis = f.analysis
      BY DEF CurrentFileKept, FilesOf
    <3>1. CASE f.analysis = r.analysis
      BY <2>4, <3>1
    <3>2. CASE f.analysis # r.analysis
      <4>1. PICK g \in received : g.analysis = f.analysis
        BY <2>4, <3>2 DEF CurrentFileKept, FilesOf
      <4> QED BY <2>3, <2>4, <3>2, <4>1
    <3> QED BY <3>1, <3>2
  <2>6. VersionHistory'
    <3> SUFFICES ASSUME NEW f \in files', f.version > 1
                 PROVE  \E g \in files' \ received' :
                          g.analysis = f.analysis /\ g.version = f.version - 1
      BY DEF VersionHistory
    <3>1. CASE f = r
      <4>1. previous[u] # {}
        BY <2>1, <3>1, NextVersionIs
      <4>2. PICK g \in previous[u] : TRUE
        BY <4>1
      <4>3. /\ g \in files /\ NextVersion(u) = g.version + 1 /\ g.version \in Nat
        BY <4>2, NextVersionIs DEF ImportTypeOK, FileRows
      <4> QED BY <2>1, <2>2, <2>3, <2>4, <3>1, <4>2, <4>3
    <3>2. CASE f # r
      <4>1. PICK g \in files \ received : g.analysis = f.analysis /\ g.version = f.version - 1
        BY <2>4, <3>2 DEF VersionHistory
      <4> QED BY <2>2, <2>4, <4>1
    <3> QED BY <3>1, <3>2
  <2> QED BY <2>5, <2>6
<1> QED BY <1>1, <1>2, FilesChange

(***************************************************************************)
(* Uploads that do not overlap.                                            *)
(***************************************************************************)

\* A request that has picked its path picked one no row, and no other lone
\* request, has.
LEMMA SafePath ==
  ASSUME ImportTypeOK, SoloOK, NEW u \in Uploaders, upc[u] \in Located
  PROVE  /\ \A f \in files : f.analysis \in clean => PathOf(f) # PathOf(Record(u))
         /\ \A v \in Uploaders : v # u /\ ~ Idle(v) /\ upload[v].analysis \in clean =>
              PathOf(Record(v)) # PathOf(Record(u))
<1>1. /\ ~ Idle(u) /\ Record(u).analysis = upload[u].analysis
      /\ Record(u).version = NextVersion(u) /\ NextVersion(u) \in Nat
  BY RecordIs, NextVersionIs DEF Idle, Located
<1>2. ASSUME NEW f \in files, f.analysis \in clean, PathOf(f) = PathOf(Record(u))
      PROVE  FALSE
  <2>1. f.analysis = upload[u].analysis /\ f.version = NextVersion(u)
    BY <1>1, <1>2, PathFields
  <2>2. f.version < NextVersion(u)
    BY <1>1, <1>2, <2>1 DEF SoloOK, Alone
  <2> QED BY <1>1, <2>1, <2>2
<1>3. ASSUME NEW v \in Uploaders, v # u, ~ Idle(v), upload[v].analysis \in clean,
             PathOf(Record(v)) = PathOf(Record(u))
      PROVE  FALSE
  <2>1. upload[v].analysis = upload[u].analysis
    BY <1>1, <1>3, RecordIs, PathFields
  <2> QED BY <1>1, <1>3, <2>1 DEF SoloOK, Alone
<1> QED BY <1>2, <1>3

\* The storage keeps every path but q.
KeepsBut(q) == \A p \in DOMAIN stored : p # q => p \in DOMAIN stored' /\ stored'[p] = stored[p]

\* Writing or deleting q keeps every other path.
LEMMA StorageKeeps ==
  ASSUME NEW q, NEW c,
         stored' = Written(q, c) \/ stored' = [p \in DOMAIN stored \ {q} |-> stored[p]]
  PROVE  KeepsBut(q)
BY DEF Written, KeepsBut

\* A lone request stays so while nothing touches it, the rows of its
\* analysis or its path.
LEMMA AloneStays ==
  ASSUME NEW v \in Uploaders, Alone(v),
         upc'[v] = upc[v], upload'[v] = upload[v], previous'[v] = previous[v],
         \A w \in Uploaders : upc'[w] # "idle" /\ w # v => upload'[w].analysis # upload[v].analysis,
         RowsOf(upload[v].analysis)' = RowsOf(upload[v].analysis),
         FilesOf(upload[v].analysis)' = FilesOf(upload[v].analysis),
         upc[v] = "saved" /\ Intact(Record(v)) => Intact(Record(v))'
  PROVE  Alone(v)'
<1>1. NextVersion(v)' = NextVersion(v)
  BY DEF NextVersion
<1>2. \A f : f \in files' /\ f.analysis = upload[v].analysis =>
              f \in files /\ f.analysis = upload[v].analysis
  BY DEF RowsOf
<1>3. \A w \in Uploaders : upc'[w] # "idle" /\ upload'[w].analysis = upload'[v].analysis => v = w
  BY DEF Alone
<1>4. upc'[v] \in Located =>
        \A f \in files' : f.analysis = upload'[v].analysis => f.version < NextVersion(v)'
  BY <1>1, <1>2 DEF Alone
<1>5. upc'[v] \in {"saving", "saved"} => previous'[v] = FilesOf(upload[v].analysis)'
  BY DEF Alone
<1>7. upc'[v] = "saved" => Intact(Record(v))'
  BY DEF Alone
<1> QED BY <1>3, <1>4, <1>5, <1>7 DEF Alone, Idle

TouchesOwn(U, u) == /\ upc[u] \in Located /\ KeepsBut(PathOf(Record(u)))
                    /\ u \in U \/ upc'[u] = "idle"

\* Intact rows stay intact, and lone requests alone, in a step that leaves the
\* table of files and the requests still in flight as they are, and of the
\* storage touches at most the path of one request that has picked it.
LEMMA QuietStep ==
  ASSUME ImportTypeOK, SoloOK, SoloFilesIntact, UNCHANGED <<files, received>>,
         clean' \subseteq clean,
         NEW U \in SUBSET Uploaders,
         \A v \in Uploaders \ U : upc'[v] # "idle" =>
            upc'[v] = upc[v] /\ upload'[v] = upload[v] /\ previous'[v] = previous[v],
         \A v \in U : upc'[v] # "idle" => ~ Idle(v) /\ upload'[v] = upload[v],
         \/ UNCHANGED stored
         \/ \E u \in Uploaders : TouchesOwn(U, u)
  PROVE  /\ SoloFilesIntact'
         /\ \A v \in Uploaders \ U : upc'[v] # "idle" /\ upload'[v].analysis \in clean' => Alone(v)'
<1>1. SoloFilesIntact'
  <2> SUFFICES ASSUME NEW f \in files, f.analysis \in clean PROVE Intact(f)'
    BY DEF SoloFilesIntact, FilesOf
  <2>1. Intact(f)
    BY DEF SoloFilesIntact
  <2>2. CASE UNCHANGED stored
    BY <2>1, <2>2 DEF Intact, PathOf
  <2>3. CASE \E u \in Uploaders : TouchesOwn(U, u)
    <3>1. PICK u \in Uploaders : upc[u] \in Located /\ KeepsBut(PathOf(Record(u)))
      BY <2>3 DEF TouchesOwn
    <3>2. PathOf(f) # PathOf(Record(u))
      BY <3>1, SafePath
    <3> QED BY <2>1, <3>1, <3>2 DEF Intact, KeepsBut, PathOf
  <2> QED BY <2>2, <2>3
<1>2. ASSUME NEW v \in Uploaders \ U, upc'[v] # "idle", upload'[v].analysis \in clean'
      PROVE  Alone(v)'
  <2>1. /\ ~ Idle(v) /\ upload[v].analysis \in clean /\ Alone(v)
        /\ upc'[v] = upc[v] /\ upload'[v] = upload[v] /\ previous'[v] = previous[v]
    BY <1>2 DEF SoloOK, Idle
  <2>2. Record(v)' = Record(v)
    BY <2>1 DEF Record, NextVersion
  <2>3. upc[v] = "saved" /\ Intact(Record(v)) => Intact(Record(v))'
    <3>1. CASE UNCHANGED stored
      BY <2>2, <3>1 DEF Intact, PathOf
    <3>2. CASE \E u \in Uploaders : TouchesOwn(U, u)
      <4>1. PICK u \in Uploaders : TouchesOwn(U, u)
        BY <3>2
      <4>2. upc[u] \in Located /\ KeepsBut(PathOf(Record(u))) /\ u # v
        BY <1>2, <4>1 DEF TouchesOwn
      <4>3. PathOf(Record(v)) # PathOf(Record(u))
        BY <2>1, <4>2, SafePath
      <4> QED BY <2>2, <4>2, <4>3 DEF Intact, KeepsBut, PathOf
    <3> QED BY <3>1, <3>2
  <2>4. /\ RowsOf(upload[v].analysis)' = RowsOf(upload[v].analysis)
        /\ FilesOf(upload[v].analysis)' = FilesOf(upload[v].analysis)
    BY <2>1 DEF RowsOf, FilesOf
  <2>5. \A w \in Uploaders : upc'[w] # "idle" /\ w # v => upload'[w].analysis # upload[v].analysis
    BY <2>1 DEF Idle, Alone
  <2> QED BY <2>1, <2>3, <2>4, <2>5, AloneStays
<1> QED BY <1>1, <1>2

\* Inserting the record of u: intact rows stay intact, and the lone requests
\* of other analyses alone.
LEMMA InsertStep ==
  ASSUME ImportTypeOK, RequestOK, SoloOK, SoloFilesIntact, CurrentFileKept,
         NEW u \in Uploaders, upc[u] = "saved", InsertRecord(u), UNCHANGED stored,
         clean' \subseteq clean,
         upc'[u] # "idle" => upload'[u].analysis = upload[u].analysis,
         \A v \in Uploaders : v # u =>
            upc'[v] = upc[v] /\ upload'[v] = upload[v] /\ previous'[v] = previous[v]
  PROVE  /\ SoloFilesIntact'
         /\ \A v \in Uploaders : v # u /\ upc'[v] # "idle" /\ upload'[v].analysis \in clean' => Alone(v)'
<1> DEFINE r == Record(u)
           a == upload[u].analysis
<1>1. /\ ~ Idle(u) /\ r.analysis = a /\ r.version = NextVersion(u) /\ NextVersion(u) \in Nat
  BY RecordIs, NextVersionIs DEF Idle
<1>2. files' = files \cup {r} /\ received' = (received \ previous[u]) \cup {r}
  BY DEF InsertRecord
<1>3. \A f \in previous[u] : f.analysis = a
  BY DEF RequestOK
<1>4. a \in clean => /\ Intact(r) /\ previous[u] = FilesOf(a)
                    /\ \A f \in files : f.analysis = a => f.version < r.version
  BY <1>1 DEF SoloOK, Alone, Located
<1>5. \A f : Intact(f)' <=> PathOf(f) \in DOMAIN stored /\ stored[PathOf(f)] = f.content
  BY DEF Intact, PathOf
<1> HIDE DEF r
<1>6. SoloFilesIntact'
  <2> SUFFICES ASSUME NEW f \in files', f.analysis \in clean,
                      NEW g \in received', g.analysis = f.analysis
               PROVE  Intact(f)' /\ f.version <= g.version
    <3>1. \A f \in files : \E g \in received : g.analysis = f.analysis
      BY DEF CurrentFileKept, FilesOf
    <3>2. ASSUME NEW f \in files', f.analysis \in clean'
          PROVE  \E g \in received' : g.analysis = f.analysis
      BY <1>1, <1>2, <1>3, <3>1
    <3> QED BY <3>2 DEF SoloFilesIntact, FilesOf
  <2>1. CASE f.analysis = a
    <3>1. received' \cap {x \in received' : x.analysis = a} = {r}
      BY <1>1, <1>2, <1>4, <2>1 DEF FilesOf
    <3>2. g = r
      BY <2>1, <3>1
    <3>3. CASE f = r
      BY <1>1, <1>4, <1>5, <2>1, <3>2, <3>3 DEF Intact
    <3>4. CASE f # r
      <4>1. f \in files /\ f.version < r.version /\ f.version \in Nat
        BY <1>2, <1>4, <2>1, <3>4 DEF ImportTypeOK, FileRows
      <4>2. Intact(f)
        BY <4>1 DEF SoloFilesIntact
      <4> QED BY <1>1, <1>5, <3>2, <4>1, <4>2 DEF Intact
    <3> QED BY <3>3, <3>4
  <2>2. CASE f.analysis # a
    <3>1. f \in files /\ g \in received
      BY <1>1, <1>2, <2>2
    <3>2. Intact(f) /\ f.version <= g.version
      BY <3>1 DEF SoloFilesIntact, FilesOf
    <3> QED BY <1>5, <3>2 DEF Intact
  <2> QED BY <2>1, <2>2
<1>7. ASSUME NEW v \in Uploaders, v # u, upc'[v] # "idle", upload'[v].analysis \in clean'
      PROVE  Alone(v)'
  <2>1. /\ ~ Idle(v) /\ Alone(v) /\ upc'[v] = upc[v] /\ upload'[v] = upload[v]
        /\ previous'[v] = previous[v]
    BY <1>7 DEF SoloOK, Idle
  <2>2. upload[v].analysis # a
    BY <1>1, <1>7, <2>1 DEF Alone
  <2>3. /\ RowsOf(upload[v].analysis)' = RowsOf(upload[v].analysis)
        /\ FilesOf(upload[v].analysis)' = FilesOf(upload[v].analysis)
    BY <1>1, <1>2, <1>3, <2>1, <2>2 DEF RowsOf, FilesOf
  <2>4. Record(v)' = Record(v)
    BY <2>1 DEF Record, NextVersion
  <2>5. Intact(Record(v)) => Intact(Record(v))'
    BY <2>4 DEF Intact, PathOf
  <2>6. \A w \in Uploaders : upc'[w] # "idle" /\ w # v => upload'[w].analysis # upload[v].analysis
    BY <2>1, <2>2 DEF Alone, Idle
  <2> QED BY <2>1, <2>3, <2>5, <2>6, AloneStays
<1> QED BY <1>6, <1>7

\* Every step keeps lone requests alone and their analyses' files intact.
LEMMA SoloStep ==
  ASSUME IInv, ImportTypeOK, RequestOK, CurrentFileKept, SoloOK, SoloFilesIntact, [Next]_vars
  PROVE  SoloOK' /\ SoloFilesIntact'
<1> USE DEF Located
<1>e. ASSUME UNCHANGED <<files, received, stored, upc, upload, previous, clean>>
      PROVE  SoloOK' /\ SoloFilesIntact'
  BY <1>e, QuietStep DEF SoloOK, Idle
<1>0. CASE LifecycleNext /\ UNCHANGED importVars
  BY <1>0, <1>e DEF importVars
<1>1. ASSUME NEW u \in Uploaders, NEW a \in Analyses, NEW c \in Contents, NEW e \in Extensions,
             BeginUpload(u, a, c, e)
      PROVE  SoloOK' /\ SoloFilesIntact'
  <2>1. /\ Idle(u) /\ UNCHANGED <<files, received, stored, previous>>
        /\ upc'[u] = "accepted" /\ upload'[u].analysis = a
        /\ \A v \in Uploaders : v # u => upc'[v] = upc[v] /\ upload'[v] = upload[v]
        /\ clean' \subseteq clean
        /\ a \in clean' => \A v \in Uploaders : ~ Idle(v) => upload[v].analysis # a
    BY <1>1 DEF BeginUpload, Goto, ImportTypeOK, InFlight
  <2>2. SoloFilesIntact'
    BY <2>1 DEF SoloFilesIntact, Intact, PathOf, FilesOf
  <2>3. ASSUME a \in clean' PROVE Alone(u)'
    BY <2>1, <2>3 DEF Alone, Idle
  <2>4. ASSUME NEW v \in Uploaders, v # u, upc'[v] # "idle", upload'[v].analysis \in clean'
        PROVE  Alone(v)'
    <3>1. /\ ~ Idle(v) /\ Alone(v) /\ upc'[v] = upc[v] /\ upload'[v] = upload[v]
          /\ previous'[v] = previous[v] /\ upload[v].analysis # a
      BY <2>1, <2>4 DEF SoloOK, Idle
    <3>2. Record(v)' = Record(v)
      BY <3>1 DEF Record, NextVersion
    <3>3. Intact(Record(v)) => Intact(Record(v))'
      BY <2>1, <3>2 DEF Intact, PathOf
    <3>4. /\ RowsOf(upload[v].analysis)' = RowsOf(upload[v].analysis)
          /\ FilesOf(upload[v].analysis)' = FilesOf(upload[v].analysis)
      BY <2>1, <3>1 DEF RowsOf, FilesOf
    <3>5. \A w \in Uploaders : upc'[w] # "idle" /\ w # v => upload'[w].analysis # upload[v].analysis
      BY <2>1, <3>1 DEF Alone, Idle
    <3> QED BY <3>1, <3>3, <3>4, <3>5, AloneStays
  <2> QED BY <2>1, <2>2, <2>3, <2>4 DEF SoloOK, Idle
<1>2. ASSUME NEW u \in Uploaders, CheckDuplicate(u) PROVE SoloOK' /\ SoloFilesIntact'
  <2>1. /\ ~ Idle(u) /\ UNCHANGED <<files, received, stored, upload, previous, clean>>
        /\ upc'[u] = "unique" /\ \A v \in Uploaders : v # u => upc'[v] = upc[v]
    BY <1>2 DEF CheckDuplicate, Goto, ImportTypeOK, Idle
  <2>2. /\ SoloFilesIntact'
        /\ \A v \in Uploaders \ {u} : upc'[v] # "idle" /\ upload'[v].analysis \in clean' => Alone(v)'
    BY <2>1, QuietStep
  <2>3. upload[u].analysis \in clean => Alone(u)'
    BY <2>1 DEF SoloOK, Alone, Idle
  <2> QED BY <2>1, <2>2, <2>3 DEF SoloOK, Idle
<1>3. ASSUME NEW u \in Uploaders, EndUpload(u), UNCHANGED <<files, received, clean>>,
             UNCHANGED stored \/ (upc[u] \in Located /\ KeepsBut(PathOf(Record(u))))
      PROVE  SoloOK' /\ SoloFilesIntact'
  <2>1. /\ upc'[u] = "idle"
        /\ \A v \in Uploaders : upc'[v] # "idle" =>
              upc'[v] = upc[v] /\ upload'[v] = upload[v] /\ previous'[v] = previous[v]
    BY <1>3, EndIs
  <2>2. UNCHANGED stored \/ TouchesOwn({}, u)
    BY <1>3, <2>1 DEF TouchesOwn
  <2>3. /\ SoloFilesIntact'
        /\ \A v \in Uploaders \ {} : upc'[v] # "idle" /\ upload'[v].analysis \in clean' => Alone(v)'
    BY <1>3, <2>1, <2>2, QuietStep
  <2> QED BY <2>3 DEF SoloOK, Idle
<1>4. ASSUME NEW u \in Uploaders, FindCurrent(u) PROVE SoloOK' /\ SoloFilesIntact'
  <2> DEFINE a == upload[u].analysis
  <2>1. /\ ~ Idle(u) /\ UNCHANGED <<files, received, stored, upload, clean>>
        /\ upc'[u] = "saving" /\ previous'[u] = FilesOf(a)
        /\ \A v \in Uploaders : v # u => upc'[v] = upc[v] /\ previous'[v] = previous[v]
        /\ ~ Several(FilesOf(a))
    BY <1>4 DEF FindCurrent, Goto, ImportTypeOK, Idle
  <2>2. /\ SoloFilesIntact'
        /\ \A v \in Uploaders \ {u} : upc'[v] # "idle" /\ upload'[v].analysis \in clean' => Alone(v)'
    BY <2>1, QuietStep
  <2>3. ASSUME a \in clean PROVE Alone(u)'
    <3>1. FilesOf(a)' = FilesOf(a)
      BY <2>1 DEF FilesOf
    <3>2. ImportTypeOK'
      BY <1>4, ImportTypeStep
    <3>3. ASSUME NEW f \in files, f.analysis = a PROVE f.version < NextVersion(u)'
      <4>1. PICK g \in FilesOf(a) : f.version <= g.version
        BY <2>3, <3>3 DEF CurrentFileKept, SoloFilesIntact
      <4>2. g \in previous'[u]
        BY <2>1, <4>1
      <4>3. NextVersion(u)' = g.version + 1
        BY <3>2, <4>2, NextVersionPrime
      <4>4. f.version \in Nat /\ g.version \in Nat
        BY <3>3, <4>1 DEF ImportTypeOK, FileRows, FilesOf
      <4> QED BY <4>1, <4>3, <4>4
    <3>4. \A v \in Uploaders : upc'[v] # "idle" /\ upload'[v].analysis = a => u = v
      BY <2>1, <2>3 DEF SoloOK, Alone, Idle
    <3> QED BY <2>1, <3>1, <3>3, <3>4 DEF Alone, Idle
  <2> QED BY <2>1, <2>2, <2>3 DEF SoloOK, Idle
<1>6. ASSUME NEW u \in Uploaders, SaveFile(u) PROVE SoloOK' /\ SoloFilesIntact'
  <2>1. /\ upc[u] = "saving" /\ ~ Idle(u)
        /\ UNCHANGED <<files, received, upload, previous, clean>>
        /\ upc'[u] = "saved" /\ \A v \in Uploaders : v # u => upc'[v] = upc[v]
        /\ stored' = Written(PathOf(Record(u)), upload[u].content)
    BY <1>6 DEF SaveFile, Goto, ImportTypeOK, Idle
  <2>2. TouchesOwn({u}, u)
    BY <2>1, StorageKeeps DEF TouchesOwn
  <2>3. /\ SoloFilesIntact'
        /\ \A v \in Uploaders \ {u} : upc'[v] # "idle" /\ upload'[v].analysis \in clean' => Alone(v)'
    BY <2>1, <2>2, QuietStep
  <2>4. ASSUME upload[u].analysis \in clean PROVE Alone(u)'
    <3>1. Alone(u)
      BY <2>1, <2>4 DEF SoloOK
    <3>2. Record(u)' = Record(u) /\ NextVersion(u)' = NextVersion(u)
      BY <2>1 DEF Record, NextVersion
    <3>3. Record(u).content = upload[u].content
      BY <2>1, RecordIs
    <3>4. Intact(Record(u))'
      BY <2>1, <3>2, <3>3 DEF Intact, PathOf, Written
    <3> QED BY <2>1, <3>1, <3>2, <3>4 DEF Alone, Idle, FilesOf
  <2> QED BY <2>1, <2>3, <2>4 DEF SoloOK, Idle
<1>7. ASSUME NEW u \in Uploaders, SaveFails(u) PROVE SoloOK' /\ SoloFilesIntact'
  <2>1. UNCHANGED stored \/ KeepsBut(PathOf(Record(u)))
    BY <1>7, StorageKeeps DEF SaveFails
  <2> QED BY <1>3, <1>7, <2>1 DEF SaveFails
<1>8. ASSUME NEW u \in Uploaders, CommitUpload(u) PROVE SoloOK' /\ SoloFilesIntact'
  <2>1. /\ upc[u] = "saved" /\ InsertRecord(u) /\ EndUpload(u) /\ UNCHANGED <<stored, clean>>
    BY <1>8 DEF CommitUpload
  <2>2. /\ upc'[u] = "idle"
        /\ \A v \in Uploaders : v # u =>
              upc'[v] = upc[v] /\ upload'[v] = upload[v] /\ previous'[v] = previous[v]
    BY <2>1, EndIs
  <2> QED BY <2>1, <2>2, InsertStep DEF SoloOK, Idle
<1>9. ASSUME NEW u \in Uploaders, CommitFails(u) PROVE SoloOK' /\ SoloFilesIntact'
  <2>1. /\ upc[u] = "saved" /\ ~ Idle(u) /\ UNCHANGED <<stored, upload, previous>>
        /\ upc'[u] = "undoing" /\ \A v \in Uploaders : v # u => upc'[v] = upc[v]
    BY <1>9 DEF CommitFails, Goto, ImportTypeOK, Idle
  <2>2. CASE UNCHANGED <<files, received, clean>>
    <3>1. /\ SoloFilesIntact'
          /\ \A v \in Uploaders \ {u} : upc'[v] # "idle" /\ upload'[v].analysis \in clean' => Alone(v)'
      BY <2>1, <2>2, QuietStep
    <3>2. NextVersion(u)' = NextVersion(u)
      BY <2>1 DEF NextVersion
    <3>3. upload[u].analysis \in clean => Alone(u)'
      BY <2>1, <2>2, <3>2 DEF SoloOK, Alone, Idle
    <3> QED BY <2>1, <2>2, <3>1, <3>3 DEF SoloOK, Idle
  <2>3. CASE InsertRecord(u) /\ clean' = clean \ {upload[u].analysis}
    BY <2>1, <2>3, InsertStep DEF SoloOK, Idle
  <2> QED BY <1>9, <2>2, <2>3 DEF CommitFails
<1>10. ASSUME NEW u \in Uploaders, UndoSave(u) PROVE SoloOK' /\ SoloFilesIntact'
  <2>1. KeepsBut(PathOf(Record(u)))
    BY <1>10, StorageKeeps DEF UndoSave
  <2> QED BY <1>3, <1>10, <2>1 DEF UndoSave
<1>12. CASE UNCHANGED vars
  BY <1>12, <1>e DEF vars, importVars
<1> QED
  BY <1>0, <1>1, <1>2, <1>3, <1>4, <1>6, <1>7, <1>8, <1>9, <1>10, <1>12
  DEF Next, RejectDuplicate, SeveralCurrent, Crash

(***************************************************************************)
(* The theorems.                                                           *)
(***************************************************************************)

\* Every step keeps the invariant.
LEMMA ImportStepInv == ImportInv /\ [Next]_vars => ImportInv'
BY LifecycleStep, StepInv, ImportTypeStep, RequestStep, HistoryStep, SoloStep DEF ImportInv

\* The invariant holds in every reachable state.
THEOREM ImportInvariant == Spec => []ImportInv
<1> QED BY ImportInitInv, ImportStepInv, PTL DEF Spec

\* The tables, the storage and the requests are well formed throughout.
THEOREM ImportTypeCorrect == Spec => []ImportTypeOK
<1>1. ImportInv => ImportTypeOK BY DEF ImportInv
<1> QED BY <1>1, ImportInvariant, PTL

\* However uploads overlap, fail or crash, an analysis that has received a
\* file keeps a current one.
THEOREM CurrentFileStays == Spec => []CurrentFileKept
<1>1. ImportInv => CurrentFileKept BY DEF ImportInv
<1> QED BY <1>1, ImportInvariant, PTL

\* However uploads overlap, every version but the first has its superseded
\* predecessor.
THEOREM HistoryComplete == Spec => []VersionHistory
<1>1. ImportInv => VersionHistory BY DEF ImportInv
<1> QED BY <1>1, ImportInvariant, PTL

\* Uploads that do not overlap keep every version of the file intact across
\* failed writes, failed commits and crashes.
THEOREM SoloUploadsIntact == Spec => []SoloFilesIntact
<1>1. ImportInv => SoloFilesIntact BY DEF ImportInv
<1> QED BY <1>1, ImportInvariant, PTL

\* An analysis that left AWAITING_FILES does not go back to it.
LEMMA StaysClosed ==
  ASSUME IInv, [LifecycleNext]_lifecycleVars, NEW a \in Analyses, Exists(a),
         analyses[a].status \notin UploadAcceptingStates
  PROVE  Exists(a)' /\ analyses'[a].status \notin UploadAcceptingStates
<1> USE DEF Exists, UploadAcceptingStates
<1>1. ASSUME NEW b \in Analyses, CreateAnalysis(b) PROVE Exists(a)' /\ analyses'[a].status \notin UploadAcceptingStates
  BY <1>1 DEF CreateAnalysis, Insert
<1>2. ASSUME NEW k \in Clerks, CommitTransition(k) PROVE Exists(a)' /\ analyses'[a].status \notin UploadAcceptingStates
  <2>1. pending[k].to \notin {"DRAFT", "AWAITING_FILES"}
    BY <1>2 DEF CommitTransition, IInv, PendingOK, AnalysisTypeOK, Requests, Statuses
  <2>2. a \in DOMAIN analyses /\ analyses[a] \in AnalysisRows
    BY DEF IInv, AnalysisTypeOK
  <2>3. Updated(analyses[a], pending[k].to).status = pending[k].to
    BY <2>2 DEF Updated, AnalysisRows
  <2> QED BY <1>2, <2>1, <2>2, <2>3 DEF CommitTransition
<1>3. ASSUME NEW k \in Clerks, NEW b \in Analyses, CommitNewVersion(k, b)
      PROVE  Exists(a)' /\ analyses'[a].status \notin UploadAcceptingStates
  BY <1>3 DEF CommitNewVersion, Insert
<1>4. CASE UNCHANGED analyses
  BY <1>4
<1> QED BY <1>1, <1>2, <1>3, <1>4
        DEF LifecycleNext, lifecycleVars, BeginTransition, BeginNewVersion, AbandonRequest

\* A sealed analysis stays sealed, with the files it has.
LEMMA SealedStep ==
  ASSUME ImportInv, [Next]_vars, NEW a \in Analyses, Sealed(a)
  PROVE  Sealed(a)' /\ RowsOf(a)' = RowsOf(a) /\ FilesOf(a)' = FilesOf(a)
<1>1. \A u \in Uploaders : ~ Idle(u) => upload[u].analysis # a
  BY DEF Sealed, InFlight
<1>2. Exists(a)' /\ analyses'[a].status \notin UploadAcceptingStates
  BY LifecycleStep, StaysClosed DEF Sealed, ImportInv
<1>3. RowsOf(a)' = RowsOf(a) /\ FilesOf(a)' = FilesOf(a)
  <2>1. CASE UNCHANGED <<files, received>>
    BY <2>1 DEF RowsOf, FilesOf
  <2>2. ASSUME NEW u \in Uploaders, upc[u] = "saved", InsertRecord(u)
        PROVE  RowsOf(a)' = RowsOf(a) /\ FilesOf(a)' = FilesOf(a)
    <3>1. upload[u].analysis # a /\ Record(u).analysis = upload[u].analysis
      BY <1>1, <2>2, RecordIs DEF Idle, ImportInv
    <3>2. \A f \in previous[u] : f.analysis # a
      BY <3>1 DEF ImportInv, RequestOK
    <3> QED BY <2>2, <3>1, <3>2 DEF InsertRecord, RowsOf, FilesOf
  <2> QED BY <2>1, <2>2, FilesChange
<1>4. InFlight(a)' = {}
  <2>1. ASSUME NEW u \in Uploaders, NEW b \in Analyses, NEW c \in Contents, NEW e \in Extensions,
               BeginUpload(u, b, c, e)
        PROVE  InFlight(a)' = {}
    <3>1. b # a
      BY <2>1 DEF BeginUpload, AcceptsUploads, Sealed
    <3> QED BY <1>1, <2>1, <3>1 DEF BeginUpload, Goto, InFlight, Idle, ImportInv, ImportTypeOK
  <2>2. ASSUME \A u \in Uploaders : upc'[u] # "idle" => ~ Idle(u) /\ upload'[u] = upload[u]
        PROVE  InFlight(a)' = {}
    BY <1>1, <2>2 DEF InFlight, Idle
  <2>3. ASSUME NEW u \in Uploaders, EndUpload(u) PROVE InFlight(a)' = {}
    BY <2>2, <2>3, EndIs DEF ImportInv, Idle
  <2>4. ASSUME NEW u \in Uploaders, NEW l, l # "idle", Goto(u, l), ~ Idle(u), UNCHANGED upload
        PROVE  InFlight(a)' = {}
    BY <2>2, <2>4 DEF ImportInv, ImportTypeOK, Goto, Idle
  <2>5. CASE LifecycleNext /\ UNCHANGED importVars
    BY <2>2, <2>5 DEF importVars, Idle
  <2>6. CASE UNCHANGED vars
    BY <2>2, <2>6 DEF vars, importVars, Idle
  <2>7. ASSUME NEW u \in Uploaders,
               CheckDuplicate(u) \/ FindCurrent(u) \/ SaveFile(u) \/ CommitFails(u)
        PROVE  InFlight(a)' = {}
    BY <2>4, <2>7 DEF CheckDuplicate, FindCurrent, SaveFile, CommitFails, Idle
  <2> QED BY <2>1, <2>3, <2>5, <2>6, <2>7
          DEF Next, RejectDuplicate, SeveralCurrent, SaveFails, CommitUpload, UndoSave, Crash
<1> QED BY <1>2, <1>3, <1>4 DEF Sealed

\* The files of an analysis whose uploads are closed and drained never change.
THEOREM FilesStaySealed == Spec => FilesSealed
<1>1. ImportInv /\ [Next]_vars => [KeepsSealed]_vars
  BY SealedStep DEF KeepsSealed
<1> QED BY <1>1, ImportInvariant, PTL DEF Spec, FilesSealed
=============================================================================
