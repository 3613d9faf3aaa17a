----------------------------- MODULE FileImport -----------------------------
(***************************************************************************)
(* Uploads: ImportService.import_file (modules/imports/service.py), which  *)
(* writes the uploaded_files table and the file storage, beside the        *)
(* requests of AnalysisLifecycle, whose status decides what is accepted.   *)
(*                                                                         *)
(* One source type is modelled: every query, path and version is per       *)
(* (analysis, source_type) and the two types share nothing.  A checksum    *)
(* identifies a content.  Uploads that fail the guardrails on name, size   *)
(* and scan never reach a query on files, so Inputs are those that pass.   *)
(* Storage and database are two systems: a request may die between them.   *)
(***************************************************************************)
EXTENDS AnalysisLifecycle

CONSTANTS
  Uploaders,   \* concurrent upload requests
  Contents,    \* file contents
  Extensions,  \* ALLOWED_EXTENSIONS
  MaxUploads,  \* bound: uploads that get past the status check
  Torn         \* what an interrupted write leaves

ASSUME TornAssumption == Torn \notin Contents
ASSUME UploadsAssumption == MaxUploads \in Nat

VARIABLES
  files,      \* every UploadedFile row
  received,   \* those with status RECEIVED; the others are SUPERSEDED
  stored,     \* the storage: path -> content, defined on the paths that exist
  uploads,    \* number of uploads accepted so far
  upc,        \* where each uploader's request is
  upload,     \* its arguments
  previous,   \* {} or {the current file it found}
  clean       \* ghost: analyses whose uploads never overlapped and whose
              \* commits all reported their outcome

importVars == <<files, received, stored, uploads, upc, upload, previous, clean>>
vars == <<lifecycleVars, importVars>>

FilesOf(a) == {f \in received : f.analysis = a}
Several(S) == \E f, g \in S : f # g
Idle(u) == upc[u] = "idle"
InFlight(a) == {u \in Uploaders : ~ Idle(u) /\ upload[u].analysis = a}

UploadAcceptingStates == {"DRAFT", "AWAITING_FILES"}

\* build_storage_path; the branch is a function of the analysis.
PathOf(f) == <<f.analysis, f.version, f.extension>>

FixedVersion(u) == 1  \* mutant: every version goes to the same path
CountFromZero(u) ==  \* mutant: the first version is 0
  IF previous[u] = {} THEN 0 ELSE (CHOOSE f \in previous[u] : TRUE).version + 1
NextVersion(u) == IF previous[u] = {} THEN 1 ELSE (CHOOSE f \in previous[u] : TRUE).version + 1

\* The UploadedFile the request is going to insert.
Record(u) == [id |-> upload[u].id, analysis |-> upload[u].analysis, version |-> NextVersion(u),
              content |-> upload[u].content, extension |-> upload[u].extension]

ImportInit ==
  /\ files = {} /\ received = {} /\ uploads = 0
  /\ stored = [path \in {} |-> Torn]
  /\ upc = [u \in Uploaders |-> "idle"]
  /\ upload = [u \in Uploaders |-> None]
  /\ previous = [u \in Uploaders |-> {}]
  /\ clean = Analyses

Goto(u, label) == upc' = [upc EXCEPT ![u] = label]

\* The request ends: its session and its local variables are gone.
EndUpload(u) ==
  /\ Goto(u, "idle")
  /\ upload' = [upload EXCEPT ![u] = None]
  /\ previous' = [previous EXCEPT ![u] = {}]
  /\ UNCHANGED <<lifecycleVars, uploads>>

AnyStatus(a) == TRUE  \* mutant: the status check dropped
AcceptsUploads(a) == analyses[a].status \in UploadAcceptingStates

\* _check_analysis_accepts_uploads
BeginUpload(u, a, content, extension) ==
  /\ Idle(u) /\ uploads < MaxUploads
  /\ Exists(a) /\ AcceptsUploads(a)
  /\ Goto(u, "accepted")
  /\ uploads' = uploads + 1
  /\ upload' = [upload EXCEPT ![u] = [id |-> uploads + 1, analysis |-> a,
                                      content |-> content, extension |-> extension]]
  /\ clean' = IF InFlight(a) = {} THEN clean ELSE clean \ {a}
  /\ UNCHANGED <<lifecycleVars, files, received, stored, previous>>

\* _check_not_duplicate: DuplicateFileError, or the query finds several rows.
Duplicates(u) == {f \in FilesOf(upload[u].analysis) : f.content = upload[u].content}

CheckDuplicate(u) ==
  /\ upc[u] = "accepted" /\ Duplicates(u) = {}
  /\ Goto(u, "unique")
  /\ UNCHANGED <<lifecycleVars, files, received, stored, uploads, upload, previous, clean>>

RejectDuplicate(u) ==
  /\ upc[u] = "accepted" /\ Duplicates(u) # {}
  /\ EndUpload(u)
  /\ UNCHANGED <<files, received, stored, clean>>

\* _get_current_file: scalar_one_or_none raises when there are two.
FindCurrent(u) ==
  /\ upc[u] = "unique"
  /\ ~ Several(FilesOf(upload[u].analysis))
  /\ Goto(u, "saving")
  /\ previous' = [previous EXCEPT ![u] = FilesOf(upload[u].analysis)]
  /\ UNCHANGED <<lifecycleVars, files, received, stored, uploads, upload, clean>>

SeveralCurrent(u) ==
  /\ upc[u] = "unique"
  /\ Several(FilesOf(upload[u].analysis))
  /\ EndUpload(u)
  /\ UNCHANGED <<files, received, stored, clean>>

Written(path, content) ==
  [q \in DOMAIN stored \cup {path} |-> IF q = path THEN content ELSE stored[q]]

\* _write_to_storage: save() creates the file or overwrites it.
SaveFile(u) ==
  /\ upc[u] = "saving"
  /\ stored' = Written(PathOf(Record(u)), upload[u].content)
  /\ Goto(u, "saved")
  /\ UNCHANGED <<lifecycleVars, files, received, uploads, upload, previous, clean>>

\* save() raises, or the process dies in it: write_bytes may be half done.
SaveFails(u) ==
  /\ upc[u] = "saving"
  /\ stored' \in {stored, Written(PathOf(Record(u)), Torn)}
  /\ EndUpload(u)
  /\ UNCHANGED <<files, received, clean>>

InsertSuperseded(u) ==  \* mutant: the new row is superseded with the old one
  /\ files' = files \cup {Record(u)}
  /\ received' = received \ previous[u]

InsertKeepingOld(u) ==  \* mutant: the previous row is left RECEIVED
  /\ files' = files \cup {Record(u)}
  /\ received' = received \cup {Record(u)}

\* One transaction: the previous row SUPERSEDED, the new one RECEIVED.
InsertRecord(u) ==
  /\ files' = files \cup {Record(u)}
  /\ received' = (received \ previous[u]) \cup {Record(u)}

CommitUpload(u) ==
  /\ upc[u] = "saved"
  /\ InsertRecord(u)
  /\ EndUpload(u)
  /\ UNCHANGED <<stored, clean>>

\* commit() raises: nothing was committed, or it was and the answer is lost.
CommitFails(u) ==
  /\ upc[u] = "saved"
  /\ Goto(u, "undoing")
  /\ \/ UNCHANGED <<files, received, clean>>
     \/ InsertRecord(u) /\ clean' = clean \ {upload[u].analysis}
  /\ UNCHANGED <<lifecycleVars, stored, uploads, upload, previous>>

\* storage.delete(storage_path)
UndoSave(u) ==
  /\ upc[u] = "undoing"
  /\ stored' = [q \in DOMAIN stored \ {PathOf(Record(u))} |-> stored[q]]
  /\ EndUpload(u)
  /\ UNCHANGED <<files, received, clean>>

\* The process dies, or any other statement of the request raises.
Crash(u) ==
  /\ ~ Idle(u)
  /\ EndUpload(u)
  /\ UNCHANGED <<files, received, stored, clean>>

Next ==
  \/ LifecycleNext /\ UNCHANGED importVars
  \/ \E u \in Uploaders, a \in Analyses, c \in Contents, e \in Extensions : BeginUpload(u, a, c, e)
  \/ \E u \in Uploaders : CheckDuplicate(u)
  \/ \E u \in Uploaders : RejectDuplicate(u)
  \/ \E u \in Uploaders : FindCurrent(u)
  \/ \E u \in Uploaders : SeveralCurrent(u)
  \/ \E u \in Uploaders : SaveFile(u)
  \/ \E u \in Uploaders : SaveFails(u)
  \/ \E u \in Uploaders : CommitUpload(u)
  \/ \E u \in Uploaders : CommitFails(u)
  \/ \E u \in Uploaders : UndoSave(u)
  \/ \E u \in Uploaders : Crash(u)

Spec == LifecycleInit /\ ImportInit /\ [][Next]_vars

(***************************************************************************)
(* Properties                                                              *)
(***************************************************************************)
Labels == {"idle", "accepted", "unique", "saving", "saved", "undoing"}
FileRows == [id : 1..uploads, analysis : DOMAIN analyses, version : Nat \ {0},
             content : Contents, extension : Extensions]
Arguments == [id : 1..uploads, analysis : DOMAIN analyses,
              content : Contents, extension : Extensions]

\* The tables hold rows of their kind, the storage whole or torn contents,
\* and a request in flight has its arguments.
ImportTypeOK ==
  /\ files \subseteq FileRows /\ received \subseteq files
  /\ stored \in [DOMAIN stored -> Contents \cup {Torn}]
  /\ DOMAIN stored \subseteq Analyses \X (Nat \ {0}) \X Extensions
  /\ uploads \in 0..MaxUploads
  /\ upc \in [Uploaders -> Labels]
  /\ upload \in [Uploaders -> Arguments \cup {None}]
  /\ \A u \in Uploaders : ~ Idle(u) => upload[u] \in Arguments
  /\ previous \in [Uploaders -> {{}} \cup {{f} : f \in files}]
  /\ clean \subseteq Analyses

\* An analysis that ever received a file always has a current one: failed,
\* crashed or overlapping uploads never leave the slot empty.
CurrentFileKept == \A f \in files : FilesOf(f.analysis) # {}

\* Re-uploads keep the audit trail: every version above the first has its
\* superseded predecessor, however uploads overlap.
VersionHistory ==
  \A f \in files : f.version > 1 =>
    \E g \in files \ received : g.analysis = f.analysis /\ g.version = f.version - 1

\* What the storage holds for a row is what was uploaded.
Intact(f) == PathOf(f) \in DOMAIN stored /\ stored[PathOf(f)] = f.content

\* While the uploads of an analysis do not overlap, every version of the file
\* is intact, whatever failed or crashed between storage and database, and
\* exactly one is current.
SoloFilesIntact ==
  \A f \in files : f.analysis \in clean =>
    Intact(f) /\ \A g \in FilesOf(f.analysis) : f.version <= g.version

Sealed(a) == Exists(a) /\ analyses[a].status \notin UploadAcceptingStates /\ InFlight(a) = {}
RowsOf(a) == {f \in files : f.analysis = a}

KeepsSealed ==
  \A a \in Analyses : Sealed(a) => Sealed(a)' /\ RowsOf(a)' = RowsOf(a) /\ FilesOf(a)' = FilesOf(a)

\* Once an analysis has left AWAITING_FILES and no upload it had accepted is
\* still in flight, its files never change again.
FilesSealed == [][KeepsSealed]_vars

\* A path belongs to one uploaded file version.
PathsCollisionFree == \A f, g \in files : PathOf(f) = PathOf(g) => f = g
=============================================================================
