---------------------------- MODULE Normalization ----------------------------
(***************************************************************************)
(* ValidationService.validate_file and NormalizationService.normalize_file *)
(* on the files of one analysis, and the reads and the write of            *)
(* MatchingService.run_matching on the transactions they produce.          *)
(*                                                                         *)
(* A file's bytes are in the file storage, outside the database: a         *)
(* colliding upload can overwrite or delete them (FileImport shows how).   *)
(* DELETE runs as PostgreSQL does at READ COMMITTED: it sees the rows of   *)
(* the start of the statement, waits for those another session has locked  *)
(* and skips those that are gone.                                          *)
(***************************************************************************)
EXTENDS Backend

CONSTANTS
  Files,       \* UploadedFile rows of the analysis
  SourceOf,    \* file -> source type
  Contents,    \* contents the checked files can have
  Uploads,     \* the files' contents at first: a set of functions
  Overwrites,  \* what a colliding upload can leave under a path
  Ready,       \* the files that have been validated and normalized once
  MaxRows,     \* max_rows
  MaxRuns      \* bound: requests

Sources == {"POS_EXPORT", "PLATFORM_SETTLEMENT"}

\* A row as parse_date, parse_decimal and Decimal.quantize see it; Infinity
\* is a Decimal that quantize refuses, and a number can be more than the
\* column Numeric(14, 2) holds.
Cells == {"good", "invalid", "unquantizable", "oversize"}
Kinds == {"table", "empty", "undecodable", "unsupported"}

ASSUME FilesAssumption ==
  SourceOf \in [Files -> Sources] /\ None \notin Files /\ None # "PASSED"
ASSUME ContentsAssumption ==
  /\ \A c \in Contents : c.kind \in Kinds /\ c.columns \in BOOLEAN /\ c.rows \in Seq(Cells)
  /\ None \notin Contents /\ Uploads \subseteq [Files -> Contents]
  /\ Overwrites \subseteq Contents \cup {None}
ASSUME BoundsAssumption == MaxRows \in Nat \ {0} /\ MaxRuns \in Nat

(***************************************************************************)
(* What the two services make of a content.                                *)
(***************************************************************************)
\* The extension has a parser, and the parser can read the bytes.
Parses(c) == c.kind \notin {"unsupported", "undecodable"}

\* The parser counts the header as a row.
OverCap(c) == Len(c.rows) + 1 > MaxRows

\* Each required column of the source's schema is in the header.
HasColumns(c) == c.columns

\* validate_file: what adds no issue.
HeaderPasses(c) == Parses(c) /\ c.kind # "empty" /\ HasColumns(c)
RowsPass(c) == c.rows # <<>> /\ \A i \in DOMAIN c.rows : c.rows[i] # "invalid"

VerdictHeaderFree(c) ==  \* mutant: validation does not count the header
  IF HeaderPasses(c) /\ RowsPass(c) /\ Len(c.rows) <= MaxRows THEN "PASSED" ELSE "FAILED"
Verdict(c) ==
  IF HeaderPasses(c) /\ RowsPass(c) /\ ~ OverCap(c) THEN "PASSED" ELSE "FAILED"

\* normalize_file: what raises no exception.
HeaderReads(c) == c # None /\ Parses(c) /\ c.kind # "empty" /\ HasColumns(c)
RowsBuild(c) == \A i \in DOMAIN c.rows : c.rows[i] \notin {"invalid", "unquantizable"}
Builds(c) == HeaderReads(c) /\ ~ OverCap(c) /\ RowsBuild(c)

Saves(c) == \A i \in DOMAIN c.rows : c.rows[i] # "oversize"

\* The Transaction rows of one run, one for each row of the file.
RowsOf(f, c, n, overlapped) ==
  {[file |-> f, row |-> i, call |-> n, met |-> overlapped] : i \in DOMAIN c.rows}

ASSUME ReadyAssumption ==
  /\ Ready \subseteq Files
  /\ \A up \in Uploads, f \in Ready :
       Verdict(up[f]) = "PASSED" /\ Builds(up[f]) /\ Saves(up[f])

VARIABLES
  stored,     \* file -> content, None when it cannot be read
  changed,    \* ghost: files whose content has been replaced
  verdict,    \* file -> status of its latest FileValidation
  txns,       \* Transaction rows, with the run that made them
  matched,    \* those a ReconciliationMatch row refers to
  blamed,     \* ghost: files a normalization could not read or save
  nruns,      \* number of requests
  npc,        \* where each worker's request is
  nfile,      \* its file
  ncontent,   \* the bytes it has read
  nseen,      \* the rows its statement or its reads saw
  nheld,      \* the rows it has locked
  ncall,      \* its number
  nmet        \* ghost: another normalization of the file has overlapped

ntables == <<stored, changed, verdict, txns, matched, blamed>>
nlocals == <<npc, nfile, ncontent, nseen, nheld, ncall, nmet>>
nvars == <<ntables, nruns, nlocals>>

Txns == [file : Files, row : Nat \ {0}, call : 0..MaxRuns, met : BOOLEAN]

NormInit ==
  /\ stored \in Uploads /\ changed = {}
  /\ verdict = [f \in Files |-> IF f \in Ready THEN "PASSED" ELSE None]
  /\ txns = UNION {RowsOf(f, stored[f], 0, FALSE) : f \in Ready}
  /\ matched = {} /\ blamed = {} /\ nruns = 0
  /\ npc = [w \in Workers |-> "idle"]
  /\ nfile = [w \in Workers |-> None]
  /\ ncontent = [w \in Workers |-> None]
  /\ nseen = [w \in Workers |-> {}]
  /\ nheld = [w \in Workers |-> {}]
  /\ ncall = [w \in Workers |-> 0]
  /\ nmet = [w \in Workers |-> FALSE]

(***************************************************************************)
(* Requests.                                                               *)
(***************************************************************************)
Normalizing(w, f) == nfile[w] = f /\ npc[w] \in {"reading", "deleting", "locking", "saving"}

NormStart(w, f, label) ==
  /\ npc[w] = "idle" /\ nruns < MaxRuns
  /\ nruns' = nruns + 1
  /\ ncall' = [ncall EXCEPT ![w] = nruns + 1]
  /\ nfile' = [nfile EXCEPT ![w] = f]
  /\ npc' = [npc EXCEPT ![w] = label]

NormGoto(w, label) ==
  /\ npc' = [npc EXCEPT ![w] = label]
  /\ UNCHANGED <<nruns, nfile, ncall, nmet>>

\* The session is closed, and its locks with it.
NormFinish(w) ==
  /\ npc' = [npc EXCEPT ![w] = "idle"]
  /\ nfile' = [nfile EXCEPT ![w] = None]
  /\ ncontent' = [ncontent EXCEPT ![w] = None]
  /\ nseen' = [nseen EXCEPT ![w] = {}]
  /\ nheld' = [nheld EXCEPT ![w] = {}]
  /\ ncall' = [ncall EXCEPT ![w] = 0]
  /\ nmet' = [nmet EXCEPT ![w] = FALSE]
  /\ UNCHANGED nruns

\* A request fails, or is lost in a crash: nothing is committed.
NormRefuse(w) ==
  /\ npc[w] # "idle"
  /\ NormFinish(w)
  /\ UNCHANGED ntables

\* A colliding upload has written its bytes under the file's path, or its
\* clean-up has deleted them.
Overwrite(f, c) ==
  /\ f \notin changed /\ c # stored[f]
  /\ stored' = [stored EXCEPT ![f] = c]
  /\ changed' = changed \cup {f}
  /\ UNCHANGED <<verdict, txns, matched, blamed, nruns, nlocals>>

(***************************************************************************)
(* validate_file                                                           *)
(***************************************************************************)
ReadForValidation(w, f) ==
  /\ stored[f] # None
  /\ NormStart(w, f, "judging")
  /\ ncontent' = [ncontent EXCEPT ![w] = stored[f]]
  /\ UNCHANGED <<ntables, nseen, nheld, nmet>>

CommitValidation(w) ==
  /\ npc[w] = "judging"
  /\ verdict' = [verdict EXCEPT ![nfile[w]] = Verdict(ncontent[w])]
  /\ NormFinish(w)
  /\ UNCHANGED <<stored, changed, txns, matched, blamed>>

(***************************************************************************)
(* normalize_file                                                          *)
(***************************************************************************)
\* _check_validated.  A branch always has a timezone and a currency.
CheckValidated(w, f) ==
  /\ verdict[f] = "PASSED"
  /\ NormStart(w, f, "reading")
  /\ nmet' = [v \in Workers |-> IF v = w THEN \E u \in Workers : Normalizing(u, f)
                                ELSE nmet[v] \/ Normalizing(v, f)]
  /\ UNCHANGED <<ntables, ncontent, nseen, nheld>>

ReadContent(w) ==
  /\ npc[w] = "reading" /\ Builds(stored[nfile[w]])
  /\ ncontent' = [ncontent EXCEPT ![w] = stored[nfile[w]]]
  /\ NormGoto(w, "deleting")
  /\ UNCHANGED <<ntables, nseen, nheld>>

\* FileReadError, NormalizationInternalError, or the InvalidOperation of quantize.
FailContent(w) ==
  /\ npc[w] = "reading" /\ ~ Builds(stored[nfile[w]])
  /\ blamed' = blamed \cup {nfile[w]}
  /\ NormFinish(w)
  /\ UNCHANGED <<stored, changed, verdict, txns, matched>>

SeeNoRows(w) ==  \* mutant: the rows of earlier runs are left
  /\ npc[w] = "deleting"
  /\ nseen' = [nseen EXCEPT ![w] = {}]
  /\ NormGoto(w, "locking")
  /\ UNCHANGED <<ntables, ncontent, nheld>>
\* The DELETE starts...
SeeRows(w) ==
  /\ npc[w] = "deleting"
  /\ nseen' = [nseen EXCEPT ![w] = {t \in txns : t.file = nfile[w]}]
  /\ NormGoto(w, "locking")
  /\ UNCHANGED <<ntables, ncontent, nheld>>

LockedByOthers(w) == UNION {nheld[v] : v \in Workers \ {w}}

LockMatched(w) ==  \* mutant: the match rows go with their transactions
  /\ npc[w] = "locking"
  /\ (nseen[w] \cap txns) \cap LockedByOthers(w) = {}
  /\ nheld' = [nheld EXCEPT ![w] = nseen[w] \cap txns]
  /\ NormGoto(w, "saving")
  /\ UNCHANGED <<ntables, ncontent, nseen>>
\* ...and gets its rows, when nobody holds them and no match refers to them:
\* otherwise the foreign key makes it an error, outside the try of the commit.
LockRows(w) ==
  /\ npc[w] = "locking"
  /\ (nseen[w] \cap txns) \cap LockedByOthers(w) = {}
  /\ nseen[w] \cap matched = {}
  /\ nheld' = [nheld EXCEPT ![w] = nseen[w] \cap txns]
  /\ NormGoto(w, "saving")
  /\ UNCHANGED <<ntables, ncontent, nseen>>

CommitRun(w) ==
  /\ npc[w] = "saving" /\ Saves(ncontent[w])
  /\ txns' = (txns \ nheld[w]) \cup RowsOf(nfile[w], ncontent[w], ncall[w], nmet[w])
  /\ NormFinish(w)
  /\ UNCHANGED <<stored, changed, verdict, matched, blamed>>

\* NormalizationPersistError, after a rollback.
FailRun(w) ==
  /\ npc[w] = "saving" /\ ~ Saves(ncontent[w])
  /\ blamed' = blamed \cup {nfile[w]}
  /\ NormFinish(w)
  /\ UNCHANGED <<stored, changed, verdict, txns, matched>>

(***************************************************************************)
(* run_matching: _transactions_for, twice, and _persist.                   *)
(***************************************************************************)
TransactionsFor(source) == {t \in txns : SourceOf[t.file] = source}

ReadPos(w) ==
  /\ NormStart(w, None, "matching")
  /\ nseen' = [nseen EXCEPT ![w] = TransactionsFor("POS_EXPORT")]
  /\ UNCHANGED <<ntables, ncontent, nheld, nmet>>

ReadPlatform(w) ==
  /\ npc[w] = "matching"
  /\ nseen[w] # {} /\ TransactionsFor("PLATFORM_SETTLEMENT") # {}
  /\ nseen' = [nseen EXCEPT ![w] = @ \cup TransactionsFor("PLATFORM_SETTLEMENT")]
  /\ NormGoto(w, "inserting")
  /\ UNCHANGED <<ntables, ncontent, nheld>>

\* The foreign key locks each row that a match refers to; one that is gone
\* fails the commit (MatchingPersistError).
InsertMatches(w) ==
  /\ npc[w] = "inserting" /\ nseen[w] \subseteq txns
  /\ \A v \in Workers : npc[v] = "saving" => nseen[w] \cap nheld[v] = {}
  /\ nheld' = [nheld EXCEPT ![w] = nseen[w]]
  /\ NormGoto(w, "inserted")
  /\ UNCHANGED <<ntables, ncontent, nseen>>

CommitMatches(w) ==
  /\ npc[w] = "inserted"
  /\ matched' = matched \cup nheld[w]
  /\ NormFinish(w)
  /\ UNCHANGED <<stored, changed, verdict, txns, blamed>>

NormNext ==
  \/ \E w \in Workers, f \in Files : ReadForValidation(w, f) \/ CheckValidated(w, f)
  \/ \E w \in Workers :
       \/ CommitValidation(w) \/ ReadContent(w) \/ FailContent(w) \/ SeeRows(w) \/ LockRows(w)
       \/ CommitRun(w) \/ FailRun(w)
       \/ ReadPos(w) \/ ReadPlatform(w) \/ InsertMatches(w) \/ CommitMatches(w)
       \/ NormRefuse(w)
  \/ \E f \in Files, c \in Overwrites : Overwrite(f, c)

NormSpec == NormInit /\ [][NormNext]_nvars

(***************************************************************************)
(* Properties                                                              *)
(***************************************************************************)
\* The tables and the requests' variables have the types of their columns, and
\* a match refers to transactions that exist.
NormTypeOK ==
  /\ stored \in [Files -> Contents \cup {None}]
  /\ changed \subseteq Files /\ blamed \subseteq Files
  /\ verdict \in [Files -> {"PASSED", "FAILED", None}]
  /\ txns \subseteq Txns /\ matched \subseteq txns
  /\ nruns \in 0..MaxRuns
  /\ npc \in [Workers -> {"idle", "judging", "reading", "deleting", "locking", "saving",
                          "matching", "inserting", "inserted"}]
  /\ nfile \in [Workers -> Files \cup {None}]
  /\ ncontent \in [Workers -> Contents \cup {None}]
  /\ nseen \in [Workers -> SUBSET Txns] /\ nheld \in [Workers -> SUBSET txns]
  /\ ncall \in [Workers -> 0..MaxRuns]
  /\ nmet \in [Workers -> BOOLEAN]

\* A rerun supersedes: a file's transactions are all of one run, except what
\* runs of the file that overlapped have left beside each other.
OneRunPerFile ==
  \A t, u \in txns : t.file = u.file /\ t.call # u.call => t.met /\ u.met

\* What validation has passed can be normalized: a normalization fails on the
\* content only when the stored bytes have been replaced since, or hold a
\* number that validation reads and the tables cannot hold.
PassedNormalizes ==
  \A f \in blamed : \/ f \in changed
                    \/ \E i \in DOMAIN stored[f].rows : stored[f].rows[i] \in {"unquantizable", "oversize"}

\* Once a match refers to a transaction of a file, no run replaces the file's
\* transactions any more, however the runs overlap with the matching.
FrozenByMatching ==
  [][\A f \in Files : (\E t \in matched : t.file = f) =>
       {t \in txns : t.file = f} \subseteq txns']_nvars
=============================================================================
