# ReconFlow AI in TLA+

ReconFlow AI reconciles a restaurant's point-of-sale export with the settlement
file of its delivery platform: files are uploaded into an *analysis*, validated,
normalized into transactions, matched, compared, turned into discrepancies and
reported. The code is a FastAPI monolith under `src/apps/backend/src/`. These
modules model its pipeline and its services, TLC checks them on small instances
and TLAPS proves the main results for every instance.

## How the system runs

- Every HTTP request has its own SQLAlchemy `Session` (`bootstrap/database.py:28`,
  `autoflush=False`) and runs in threads of a bounded pool, the policy check in
  one and the handler in the next; connections come from a second bounded pool. The database is
  PostgreSQL at its default level, READ COMMITTED: each statement sees what was
  committed when it began.
- A service method has one shape: reads (a statement each), a decision, writes
  and one `commit`; on an error `rollback` and an exception. An audit row
  follows in a commit of its own.
- Nothing serializes the requests of one analysis. The sequence
  upload - validate - normalize - match - compare - detect - report is driven
  from outside (n8n), one call per step; only uploads and reports look at the
  analysis's status. There are no version columns, no `SELECT FOR UPDATE`, and
  six unique constraints (`users.email`, `sessions.token_hash`,
  `delivery_platforms.name`, `analysis_leads.analysis_id`,
  `transaction_order_statuses.transaction_id`, `uq_cancellation_order`).
- The file storage (encrypted local disk or S3) is a second system, the mail
  channel a third: a request writes to two of them, and may die between them.
- Several instances of the program may start at once; each migrates the schema
  under an advisory lock, and then seeds it.

So the hard behaviours are: a row read by one statement and used by a later
one, two requests that both decide from the same state, failures and crashes
between storage and database or between two commits, two bounded pools that one
request needs both of, and, within one request, the tie-breaks and window
boundaries of the matching algorithm.

## Inventory

| Component | State | Operations | Hard part | What makes it correct | Where |
|---|---|---|---|---|---|
| matching | `reconciliation_matches`, `matching_runs` | `run_matching` | tie-breaks, day window, reruns | one row per transaction, references first, history kept | MatchingEngine, MatchTable |
| manual_review | `match_reviews`, `discrepancy_reviews`, match rows | review a match or a discrepancy, pair by hand | lookup and update apart, beside reruns | pairs survive, reviews stay valid | MatchTable, ResultTables |
| analysis_orchestration | `analyses` | create, new version, mark processing/completed/failed | check and UPDATE apart | lineage, terminal states | AnalysisLifecycle |
| imports | `uploaded_files`, stored files | `import_file` | two systems, overlapping uploads | a current file, a complete history, intact contents | FileImport |
| storage | files | save, read, delete | half-done writes | what is named is there | FileImport, Outputs (save, delete), Normalization (read) |
| validation | `file_validations` and their errors | `validate_file` | the latest verdict counts, the bytes may change after it | what it passes can be normalized | Normalization |
| normalization | `transactions`, order statuses, runs | `normalize_file` | delete and replace under locks and foreign keys | a file's rows are of one run, matched rows stay | Normalization |
| financial_comparison | `comparison_results`, runs | `run_comparison` | delete and replace over active pairs | one result per active pair | ResultTables |
| discrepancies | `discrepancies`, confirmations | detect, confirm a cancellation | replacement against confirmations, rounding | what is due is reported once, nothing unjustified is claimed | ResultTables |
| reference_contracts | platforms, contracts | create, look up a rate | overlap check and insert apart, ends of a period | a day has the rate of its contract | ReferenceContracts |
| analysis_results | none | the page of results | sums in several ways over one table | the figures agree with each other and with what is due | AnalysisResults |
| identity_access | users, sessions, branch access | login, logout, create a user, change a password, grant | revocation against a login under way | no session outlives its password, one grant each | AccessControl |
| access control | none | `enforce_policy` before each handler | a scope read by one statement and used by a later one | nothing of another organization is changed | AccessControl |
| organizations | organizations, branches | create, list | the scope of a listing | listings and admissions agree | AccessControl |
| request execution | threads, connections | take, wait, time out | two bounded resources | every request is answered | RequestPool, RequestService |
| reporting | reports, stored files | generate | save, then commit | a row names a file that exists | Outputs |
| notification | notification records | send, record | send, then commit | the recorded outcome is true | Outputs |
| ai_insights | insights | gather, ask, replace | delete and replace after a long call | one insight, facts that agree with the page | Outputs, AnalysisResults |
| lead_capture, deployment | a row each | upsert, create when missing | two first requests | one row | Outputs |
| schema and migrations | schema revision, shape, users | `ensure_schema`, `auto_migrate` | several instances start, one dies | the revision names the schema that is there | Startup |
| operator scripts and configuration | the operator, demo data | seeds, `create_operator` | check and insert apart, failures only logged | somebody can operate what is served | Startup, AccessControl |
| audit_logging, wiring, load probe and shell scripts | trail, none | append | little | - | not modelled |

How they interact: `imports` asks `AnalysisOrchestrationService.get_status`
(shared `analyses` table); `normalization` reads the file `imports` stored and
the latest verdict of `validation`; `matching` reads the transactions;
`manual_review`, `financial_comparison` and `discrepancies` read the active
match rows; `reporting` and `analysis_results` read everything. Access control
stands in front of every route, on tables that `identity_access` and
`organizations` write. All of it goes through the database, none through
callbacks. `PROJECT.json` lists the hazards
at their lines.

## Modules

**MatchingEngine** is `MatchingService.run_matching` up to the rows it hands to
`_persist`: `Load`/`Reject`, pass 1 (`ExactMatch`, `ExactSkip`), `BuildIndex`,
pass 2 (`FallbackMatch`, `FallbackSkip`) and `RecordRemaining`. One step visits
one POS order. `unmatchedPos`, `unmatchedPlat`, `index`, `matches` are the
method's local variables; a queue of the index, filled in id order and only
popped, is the set of what is left in it. References are pairs of a text and a
spelling, an amount with its currency is one value, and `LocalDay` is the
conversion to the branch's date.

**MatchTable** is the `reconciliation_matches` and `match_reviews` tables of
one analysis with the requests that write them. A run's UPDATE selects rows by
its snapshot (`RunUpdateBegin`), waits for locks and re-checks the rows
(`RunUpdateEnd`), then inserts and commits (`RunCommit`). `create_manual_match`
is two lookups (`ManualReadPos`, `ManualReadPlat` or `ManualRefuse`), the flush
of its UPDATE by primary key (`ManualFlush`) and the commit of pair and review
(`ManualCommit`). `ReviewMatch` is `review_match`. `Abort` is a failed commit,
a deadlock victim or a crash. `solo` and `clean` are history variables. The
transactions are fixed, so every run proposes the same `AutoPairs`.

**AnalysisLifecycle** is `AnalysisOrchestrationService`: each operation that
reads before it writes is a `Begin` that checks and a `Commit` that writes by
primary key, with any other request in between.

**FileImport** extends it with `ImportService.import_file`, one action per
access to the database or the storage: status check, duplicate check, current
file, save, commit, and the compensation when the commit raises. A commit that
raises may have been committed; a process may die anywhere; an interrupted
write may leave `Torn` content. It composes with AnalysisLifecycle through the
`analyses` table: `Next` is a step of either, and `Spec => LifecycleSpec` is
proved. `clean` is a history variable: the analyses whose uploads never
overlapped and whose commits all reported their outcome.

**ResultTables** is what is computed from the active matches: the
`comparison_results`, `discrepancies`, `cancellation_confirmations` and
`discrepancy_reviews` tables of one analysis. `run_comparison` is `CompareRead`,
`CompareDelete` and `CompareCommit`; `detect_discrepancies` is three reads (the
matches, the results, the confirmations, in the code's order), `DetectDelete`
and `DetectCommit`; `confirm_cancellation` is `ConfirmRead`, `ConfirmLookup` and
`ConfirmCommit`; `ReviewDiscrepancy` is `review_discrepancy`. A discrepancy is
identified by the detection and the comparison it comes from, its match and its
category, and maps to its treatment and claimable amount. Tolerances,
commission and rounding are computed in cents as the code computes them. The
session's change tracking matters: `Column` writes a column only if the value
differs from the one the request read. `Rematch` and `PairByHand` change the
matches in one commit, as MatchTable's requests do when they do not overlap.
`solo` and `fresh` are history variables: whether anything overlapped a
request, and whether a comparison, and after it a detection, has run undisturbed
since the matches changed.

**AnalysisResults** extends it with what is shown of the discrepancies:
`Summary` is `AnalysisResultsService.get_summary`, `Facts` is `_gather_facts` of
`AIInsightService`. Both are functions of the table; each adds it up its own way.

**Backend** holds what the following service modules share: the workers (a
worker is a request with a session of its own) and SQL NULL.

**Normalization** is `validate_file` and `normalize_file` over the files of one
analysis, and `run_matching` as far as it reads and references the transactions.
A content is what the two parsers tell apart: whether it decodes, has its
columns, and for each row whether it is invalid, has a number `quantize` refuses,
or one the column cannot hold. The replacement is the DELETE's snapshot
(`SeeRows`), its row locks and the foreign key (`LockRows`), and `CommitRun`.
`Overwrite` is a colliding upload, which FileImport shows to be possible. A
statement takes its row locks in one step. `met`, `blamed` and `changed` are
history variables.

**ReferenceContracts** is `create_contract` with its check and insert apart,
and `get_commission_rate` as the function `Rate`.

**Outputs** is the services that write beside the pipeline: reports, insights,
notifications, leads, the deployment's row. Each request is a read, something
outside the database (a file, a message, a call of the provider), a commit; it
may be lost between any two of them. `lost` and `met` are history variables.

**Startup** is an instance from `ensure_schema` to serving: the advisory lock,
`Inspect`, `OperatorArguments`, `CheckDrift`, `Stamp`, the preflight of 0002 and
its `Alter`, `Verify`, then the operator's seed and the demo data. Instances
crash anywhere; a previous deploy may still register users (`OldRegister`). The
columns of the schema are the name of the shape they make up.

**RequestPool** is a request's way through the thread limiter and the connection
pool: the check's thread, the queue for the handler's thread *with the connection
of the check in hand*, the commit, which gives the connection back, and the audit
entry, which takes one again. It implements **RequestService**, the promise that
a bounded number of requests runs and every request is answered
(`Service == INSTANCE RequestService WITH ...`).

**AccessControl** is `bootstrap/access.py` with the handlers that write the
tables it decides from. The admission reads the session and the user once (`me`),
resolves the scope in later statements, and the handler commits later still; the
command line's `create_operator` goes in between. A route stands for all routes
with the same policy row whose handlers write the same table.

The `MC...` modules give the constants their values, and the `...Proofs` modules
hold the theorems (FileImportProofs also those of AnalysisLifecycle,
ResultTablesProofs those of AnalysisResults, ServicesProofs those of
ReferenceContracts, Startup, RequestPool, Outputs and Services). **FiniteSums**
has the lemmas on finite sets and sums that MatchingEngineProofs and
ResultTablesProofs cite. Operators marked `mutant` are faulty variants of a
definition, kept beside it to show that the properties depend on it; no
specification uses them.

**Services** puts Normalization, ReferenceContracts, Outputs, Startup and
RequestPool beside each other. That they do not disturb each other is an
assumption, written into `ServicesNext`, and not a result. The code justifies it
as follows. No two of them write the same table, except that all append to the
audit log, which none of them reads, and that `run_demo_seed` also writes
platforms and contracts: the contracts it writes are of the demo organization,
which Startup has itself, and ReferenceContracts is about a branch of another
one; platforms are a constant of ReferenceContracts. All of them run on the
threads and connections of RequestPool, which can only delay a step or fail the
request between two steps, and each module allows its requests to be delayed or
abandoned at any point. **MCServices** checks the five in one run: `focus`,
chosen by the first state, names the one that moves, and each is explored
completely without the product of their states.

## Runs

| Run | Shows | Bounds |
|---|---|---|
| matching_engine | each transaction gets one row, equal references are never left to the amount-and-date pass, of repeated references an order loses a row only to a closer one or to an earlier order, the index chooses what the old quadratic scan would, no reachable row is left over | all inputs of up to 2 POS and 3 platform rows, 4 instants on 3 local dates, window 1 |
| match_table | no transaction loses its last active row, pairs only give way to runs, rows and reviews are permanent, a run on its own repairs what overlaps left | 2 requests at a time, 5 in all, 2+2 transactions |
| match_table_overlap | **violated**: one active row per transaction | 2 requests |
| analysis_lifecycle | versions follow their lineage, failures carry a reason, a finished analysis is final once no older request is in flight | 3 requests, 3 analyses |
| analysis_lifecycle_race | **violated**: only allowed transitions | 2 requests, 1 analysis |
| file_import | a slot keeps a current file, the version chain is complete, uploads that do not overlap leave every version intact, files are sealed once the analysis moved on | 3 uploads beside 1 orchestration request |
| file_import_collision | **violated**: storage paths do not collide | 2 uploads |
| result_tables | after an undisturbed comparison and detection the discrepancies are exactly those due, with treatment and amount, confirmations and reviews leave them so, and the headline is their sum; in every state the figures of the page and of the insight agree; whatever overlaps, no claim lacks a contract or an answer, and reviewed rows stay | 2 requests at a time, 4 in all, 1 change of the matches, 4 orders, 2 settlements |
| result_tables_stale | **violated**: a detection that nothing overlaps reports active matches only | 1 request at a time, 4 in all |
| access_control | the ways to compute a scope agree, a client changes nothing of another organization, only overlaps leave an old password's session or a second grant | 2 requests at a time, 3 in all, 4 users, 2 organizations, 11 requests on routes of each resource kind, and sign-ins |
| services | *normalization*: a file's rows are of one run, what validation passed can be normalized, matched rows are never deleted. *Contracts*: the rate of a day. *Outputs*: files and messages are accounted for, one insight and one deployment row. *Startup*: the revision names the schema, an operator is left. *Pool*: implements RequestService, every request is answered | see below |
| thread_starvation | **violated**: threads never starve while the limiter is below the pool | 2 threads, 3 connections, 5 requests |

Why the bounds are enough. Matching: two POS orders compete for one row, three
platform rows allow a reference match, a tie before and after the order's date,
and a leftover; window 1 with three dates has a date inside, at the end of and
outside the window, and instants 1 and 2 share a date while 0 and 1 do not
although both pairs are one apart. Tables: five calls are a first run, two
requests that overlap, a run that repairs and one after it. Lifecycle: three
analyses are a version of a version or two of one. Uploads: one sets a version
and two race for the next, with two contents (a duplicate, a correction) and
two extensions (the path contains the extension).
Results: four requests are a comparison, a detection and two that overlap them
or each other; the orders are two cancelled ones that share a reference (a
duplicate reference is only a warning in normalization), one of them without a
contract, one charged too much and paid short, one refunded; one amount net of
commission ends in half a cent. Access control: three calls are a request, one
that overlaps it (a change of password beside a sign-in, a grant beside a grant,
a promotion inside a reset) and one that uses what they left; workers are
symmetric. Services: normalization has two files, one of them normalized already,
six contents (good ones of one and two rows, each kind of bad cell, undecodable
bytes; with the header, two rows are one too many), and four requests, which are
a validation, a run, and a rerun beside a matching; a colliding upload deletes
the file. Contracts have four days, two of them inside, and two creations, which
is what an overlap needs. Outputs have three requests: two that overlap and one
that reads what they left. Startup has two instances and three boots, so that one
dies while the other waits and a third finds what is left, and every kind of
database the code tells apart: empty, before the revisions with and without an
operator's account and with one or two organizations, drifted, 0001 and the head.
The pool has as many threads as connections and twice as many requests, so that
all threads can wait for connections that queued requests hold; the violated run
shows the same with fewer threads than connections. The proofs drop all of these
bounds; what is only model-checked is listed under Proofs.

The five violated properties state what the code's comments say of it; the
findings in `PROJECT.json` quote them.

## Fairness and deadlock

`EveryRequestAnswered` assumes `PoolFairness`, weak fairness of four things: a
thread that has what it needs goes on (`Serve`, the scheduler), the timer of
SQLAlchemy's `pool_timeout` fires (`GiveUp`), a closed session is closed on a
thread outside the limiter (`Close`), and a free token of anyio's limiter is
handed to the head of its queue (`TakeThread`). No strong fairness is needed: a
request that waits for a connection gives up after the timeout, whether or not
others keep taking connections before it. Without the timer the run fails (its
mutant is `NeverGiveUp`): the pool's deadlock is dissolved by it and nothing else.

No other specification needs fairness: a request may be abandoned at any point,
and no caller is obliged to retry. A matching run is one sequential call whose
loops go over finite lists: that it ends needs no proof. Bounded requests are
used up and then the model stops, as does a matching run, so these
configurations turn the deadlock check off; analysis_lifecycle and file_import
keep it.

## Proofs

All theorems hold for any constants that satisfy the named assumptions of the
module: ids are numbers, the two sides are disjoint (and finite where a run sorts
them or a page adds them up, `FiniteAssumption`), the engine's pairs are a
matching (`PairsAssumption`, what `OneRowEach` proves of the engine), `None`
and `Torn` are not ordinary values.

- *MatchingEngineProofs*: the invariant says that pairs and unmatched keys
  partition what was read and that the index holds exactly the unmatched
  platform rows at their keys. `IndexIsScan` follows from the second part.
  `ClosestReferencesFirst` and `NothingBetterLeft` need what an order that was
  already visited can still expect: nothing, since platform rows only leave;
  `ReferencesFirst` follows from the first of the two. The order (occurred_at,
  id) decides which order is next, and with the tie-breaks it makes each choice
  unique: `RunIsDetermined` says that the rows follow from the transactions
  alone, and that there is a next row until the run is done.
- *MatchTableProofs*: the invariant says what a request in flight knows: a
  manual pairing is about to supersede only one-sided rows of its own two
  transactions, and a request without overlap has read all that is there.
  `NothingLost` follows from the first part: whoever supersedes a transaction's
  row adds one for it in the same commit, and that holds whatever is committed
  in between. `SoloRunsAreClean` needs the second part; it fails without it,
  which is the violated run.
- *FileImportProofs*: for the lifecycle, the invariant adds to the checked
  properties that the row a new version is pending on is past its uploads; that
  stays so because nothing leads back to AWAITING_FILES. Uploads leave the
  analyses alone, so `ImplementsLifecycle` carries these theorems over. For the
  uploads, the invariant relates each request to what it read: `previous`
  belongs to the request's analysis, no row has its id yet, and, while an
  analysis is clean, the request is alone, `previous` is still current and its
  version is above every recorded one, so that neither its save nor its
  compensation touches a file a row names.
- *FiniteSums*: sums by the library's `SumFunctionOnSet`, which picks the
  summands in an order of its own. That the order does not matter
  (`SumWithout`), that groups add up to the whole (`SumByGroup`, `CountByGroup`)
  and that renaming changes nothing (`SumRenamed`) needs induction over a finite
  set. The library's theorem for it takes a predicate, which the provers cannot
  instantiate; `SubsetInduction` takes the set of the subsets that satisfy it
  instead, and follows from the strict subset ordering being well-founded.
- *ResultTablesProofs*: the invariant says that each row's category fits its
  match and order, that results are of pairs with a contract, and that an answer
  a request has read is still an answer, though maybe another one, when it
  commits. So a claim written from an old answer has an answer
  (`ClaimsAreJustified`). Reviewed rows stay (`ReviewedIsKept`) because the
  foreign key aborts the replacement as a whole: after a review a detection that
  would delete the row is refused for good. `ResultsAreUpToDate` is in two
  parts. First, the table: what a request that runs alone has read is still what
  the tables hold (`SoloInv`), so that after an undisturbed comparison the
  results are exactly those of the active pairs with a contract (`ResultsDue`),
  an undisturbed detection commits exactly the categories due with the treatment
  and amount due (`DetectUpToDate`), and an answer changes the rows of its order
  and no others (`ConfirmUpToDate`). Second, the figures, in every state: the
  groups and the breakdown partition the rows (`FiguresFromRows`); when the
  table is as it is due, each row stands for exactly one row due, whose claim is
  the same, and renaming one into the other gives the headline (`HeadlineDue`).
- *AccessControlProofs*: the invariant says what a request in flight knows of
  the rows it read and what cannot have changed since: a client's organization
  never changes, a branch keeps its organization and an analysis its branch, so
  that what was admitted for the caller's organization is still in it when the
  handler commits (`OrganizationsIsolated`). Only the role can change underneath
  it, by a promotion, and a promoted caller is no client any more. A session
  that a password change could not see is of a sign-in that overlapped it
  (`PasswordsReplaced`), which the invariant records on both sides;
  `GrantedOnce` is the same argument for grants. `ScopesAlwaysAgree` needs only
  the types: an operator and nobody else is without an organization, and every
  branch is of an organization that exists.
- *NormalizationProofs*: the core is that two statements which each saw all rows
  of a file have a row in common as long as rows of both are there, so that a
  DELETE which meets a matching's locks waits, and then meets the foreign key or
  has nothing left to delete. Rows that are gone do not come back, because the
  numbers of runs are not reused. Two runs that did not overlap saw each other's
  rows (`RerunsSupersede`), and `ValidationSuffices` follows the verdict to the
  content it was given for.
- *ServicesProofs*: contracts need what a creation under way has checked, which
  stays true of every contract it does not overlap. For the start-up, only the
  holder of the advisory lock is between `Inspect` and `Release`, and what it
  has read of the revision is still so (`RevisionTellsSchema`);
  `OperatorRemains` adds what the preflight has planned: either it promotes an
  account that exists, or the seed will find none and create it. For the pool,
  the queue holds exactly the requests that wait, once each, and
  `PoolImplementsService` maps each step to an `Accept`, `Work` or `Reply` of
  RequestService, or a stutter: the safety half of `EveryRequestAnswered`. Of
  the other half, `QueueIsFair` proves that no request is overtaken in the
  queue. A state is `Blocked` when requests are unanswered and no step but the
  timer's can be taken. `OnlyStarvationBlocks` proves that the starvation of the
  finding is the only blocked state, and `FewRequestsNeverBlock` that there is
  none while the requests are fewer than threads and connections together (with
  the defaults, 16 and 20). That bound is tight: the run thread_starvation has
  just as many requests and gets there. For the outputs, requests have numbers
  of their own, so that the file one deletes is of no other's report; a request
  that found no insight (no deployment row) and one that has written since know
  of each other, whichever of them commits last (`OutputsCreatedOnce`). An
  instance that is about to insert the demo organization is the only one in the
  seed, and there is none yet, unless two were in it together
  (`DemoCreatedOnce`). That there are no more demo organizations than starts,
  which bounds the type (`StartupTypeCorrect`), takes counting: each start that
  may still insert one is yet to be used up. `ServicesNext` is written so that a
  step of one component leaves the variables of the others alone (the lemma
  `ServicesApart`), and so the theorems about a component carry over to the
  composition; `ServicesTypeCorrect` and `OnceCreated` are two of them.

TLC checked the properties before they were proved, and `SoloInv`, `ResultsDue`,
`ChoicesDetermined`, `NoOvertaking` and what is proved of `Blocked` with them.
Every invariant and action property that a passing run checks is proved. Only
model-checked: the liveness half of `EveryRequestAnswered`, because liveness is
out of the prover's reach; `QueueIsFair`, `OnlyStarvationBlocks` and
`FewRequestsNeverBlock` are the part of it that does not need fairness. What a
model takes from outside is modelled, not proved: READ COMMITTED, row locks, the
advisory lock, the limiter's queue, the storage.

## What the properties leave open

Behaviours the models have and the properties allow, in their exceptions or by
silence, because the code does them:

- A reset of a password by an owner that is under way while `create_operator`
  promotes the account sets the new operator's password; a promotion leaves the
  grants of the account behind.
- A number like `Infinity`, or one too large for its column, passes validation
  and then fails to normalize (`PassedNormalizes` excepts exactly these).
- `run_matching` reads the transactions of superseded versions of a file, too.
- A comparison reads commission rates statement by statement, so that contracts
  created during it can give two rates of one day; an open contract counts as
  ending on `Date.max`.
- An insight from older facts can replace one from newer facts when requests
  overlap; of two deployment rows, a license recorded in one can be missing from
  what is read; the loser of two first leads fails with an unexplained error.
- A served database is left without an operator when the previous deploy
  registers the operator's email between the preflight and the ALTER, or when
  the seed's insert fails, which is only logged (`NoLockout` names both).
- The demo organization stays partial when an instance dies inside the seed, and
  there are two when instances are in it at once.
- Overlapping requests do what the properties except for them: a session of the
  old password outlives a change it overlapped, a grant is there twice, a file
  has the rows of two normalizations, an insight or the deployment row is there
  twice. `PasswordsReplaced`, `GrantedOnce`, `OneRunPerFile` and `CreatedOnce`
  show that nothing else leads there.
- A file whose bytes an upload replaces between validation and normalization can
  fail to normalize. In the run a colliding upload only deletes the file, and
  only the theorem `ValidationSuffices` covers replaced bytes.
- "baseline" in `SchemaKnown` is what `diff_shapes` accepts: it compares the
  types' names, lengths and nullability, the columns of foreign keys and the
  names of indexes, not a number's precision or a default of the server, and an
  extra index passes.
- The counters copied from the latest matching run are stale after a pairing by
  hand; the page shows them beside sums that are not.

## Plan

What a continuation would add, in this order:

1. What the answers of confirmations that overlap can be, as a property and a
   theorem.
2. An abstract specification of one analysis (files, transactions, matches,
   results) that the composed modules implement while calls do not overlap.
3. Downgrades, and SQLite, where no lock is taken.

## Not modelled

Parsing of spreadsheets down to characters, wording, schemas and layout; the
audit trail, which no code reads back (RequestPool has its use of a connection);
the counters of runs, derived from rows; retention and encryption; the DDL of the
migrations beyond the shape it leads to, downgrades, and 0003's relabelling of
old discrepancies; `verify_migration`, one process that rehearses on a copy and
asserts; the wiring, from whose result the models start; the load probe and shell
scripts, clients of the deployed program; external services (n8n, mail, the
language model) beyond success, failure and a failure after the effect.

FileImport has one source type, as the two are independent; Normalization has
both, because a matching reads both. Of an order's status the words it is read
from are left out, of a discrepancy its direction. Contracts do not change while
results are computed in ResultTables, and its match rows change only in ways that
leave one active row per transaction. Which numbers of an insight count as
grounded is left out: a refused text is a lost request.
