------------------------- MODULE NormalizationProofs -------------------------
(***************************************************************************)
(* Normalization for any number of files, rows, requests and contents.     *)
(***************************************************************************)
EXTENDS Normalization, TLAPS

NormLabels == {"reading", "deleting", "locking", "saving"}
MatchLabels == {"matching", "inserting", "inserted"}

\* What a request holds at each of its statements.
LocalInv ==
  \A w \in Workers :
    /\ npc[w] \in NormLabels \cup {"judging"} => nfile[w] \in Files
    /\ npc[w] \in {"judging", "deleting", "locking", "saving"} => ncontent[w] \in Contents
    /\ npc[w] \in MatchLabels => nfile[w] = None
    /\ npc[w] \in {"locking", "saving"} => \A t \in nseen[w] : t.file = nfile[w]
    /\ npc[w] \notin {"saving", "inserted"} => nheld[w] = {}
    /\ npc[w] = "inserted" => nheld[w] = nseen[w]
    /\ npc[w] = "saving" => nheld[w] = nseen[w] \cap txns /\ nheld[w] \cap matched = {}
    /\ npc[w] = "matching" => \A t \in nseen[w] : SourceOf[t.file] = "POS_EXPORT"

\* The number of a request that has not committed is on no row yet, so that a
\* row that has been deleted does not come back.
FreshInv ==
  /\ \A v, w \in Workers : v # w /\ npc[v] # "idle" /\ npc[w] # "idle" => ncall[v] # ncall[w]
  /\ \A w \in Workers : npc[w] # "idle" => ncall[w] \in 1..nruns
  /\ \A t \in txns : t.call <= nruns
  /\ \A v \in Workers : \A t \in nseen[v] : t.call <= nruns
  /\ \A w \in Workers : npc[w] # "idle" =>
       /\ \A t \in txns : t.call # ncall[w]
       /\ \A v \in Workers : \A t \in nseen[v] : t.call # ncall[w]

\* The rows a normalization is about to delete are its own.
LockInv ==
  \A v, w \in Workers : v # w /\ npc[v] = "saving" => nheld[v] \cap nheld[w] = {}

\* Two normalizations of a file have both noticed that they overlap.
NormMetInv ==
  \A v, w \in Workers :
    v # w /\ npc[v] \in NormLabels /\ npc[w] \in NormLabels /\ nfile[v] = nfile[w] =>
      nmet[v] /\ nmet[w]

\* A row of the file that a DELETE has not seen is of a run that overlapped.
SupersedeInv ==
  \A w \in Workers : npc[w] \in {"locking", "saving"} =>
    \A t \in txns : t.file = nfile[w] => t \in nseen[w] \/ (t.met /\ nmet[w])

\* Two statements that each read all the rows of a file have a row in common,
\* as long as those of both are there: S is a set of rows that one statement or
\* several transactions have found, seen is what a DELETE of file f has.
Meets(S, f, seen) ==
  \/ \A t \in S : t.file # f
  \/ S \cap seen # {}
  \/ seen \cap txns = {}

SnapshotInv ==
  \A w \in Workers : npc[w] \in {"locking", "saving"} =>
    /\ Meets(matched, nfile[w], nseen[w])
    /\ \A m \in Workers : npc[m] \in MatchLabels /\ nseen[m] \subseteq txns =>
         Meets(nseen[m], nfile[w], nseen[w])

\* A file whose content has not been replaced is what validation has passed,
\* and what a request has read of it is what is stored.
ContentInv ==
  /\ \A f \in Files \ changed :
       stored[f] \in Contents /\ (verdict[f] = "PASSED" => Verdict(stored[f]) = "PASSED")
  /\ \A w \in Workers :
       /\ npc[w] \in {"judging", "deleting", "locking", "saving"} /\ nfile[w] \notin changed =>
            ncontent[w] = stored[nfile[w]]
       /\ npc[w] \in NormLabels /\ nfile[w] \notin changed => Verdict(stored[nfile[w]]) = "PASSED"

IInv == /\ NormTypeOK /\ LocalInv /\ FreshInv /\ LockInv /\ NormMetInv /\ SupersedeInv
        /\ SnapshotInv /\ ContentInv /\ OneRunPerFile /\ PassedNormalizes

USE WorkersAssumption, FilesAssumption DEF NormLabels, MatchLabels

-----------------------------------------------------------------------------
\* The rows of a run are transactions of its file and its number.
LEMMA RowsTyped ==
  ASSUME NEW f \in Files, NEW c \in Contents, NEW n \in 0..MaxRuns, NEW o \in BOOLEAN
  PROVE  /\ RowsOf(f, c, n, o) \subseteq Txns
         /\ \A t \in RowsOf(f, c, n, o) : t.file = f /\ t.call = n /\ t.met = o
<1>1. c.rows \in Seq(Cells)
  BY ContentsAssumption
<1>2. DOMAIN c.rows \subseteq Nat \ {0}
  BY <1>1
<1> QED
  BY <1>2 DEF RowsOf, Txns

LEMMA InitInv == NormInit => IInv
<1> SUFFICES ASSUME NormInit PROVE IInv
  OBVIOUS
<1> USE DEF NormInit
<1>1. stored \in [Files -> Contents]
  BY ContentsAssumption
<1>2. \A f \in Ready : f \in Files /\ stored[f] \in Contents
  BY <1>1, ReadyAssumption
<1>3. 0 \in 0..MaxRuns
  BY BoundsAssumption
<1>4. /\ txns \subseteq Txns
      /\ \A t \in txns : t.call = 0
  <2>1. \A f \in Ready : /\ RowsOf(f, stored[f], 0, FALSE) \subseteq Txns
                         /\ \A t \in RowsOf(f, stored[f], 0, FALSE) : t.call = 0
    BY <1>2, <1>3, RowsTyped
  <2> QED
    BY <2>1
<1>5. NormTypeOK
  BY <1>1, <1>3, <1>4, ReadyAssumption DEF NormTypeOK
<1>6. LocalInv /\ LockInv /\ NormMetInv /\ SupersedeInv /\ SnapshotInv
  BY DEF LocalInv, LockInv, NormMetInv, SupersedeInv, SnapshotInv
<1>7. FreshInv
  <2>1. nruns = 0 /\ \A w \in Workers : npc[w] = "idle" /\ nseen[w] = {}
    OBVIOUS
  <2> HIDE DEF NormInit
  <2>2. \A t \in txns : t.call <= nruns
    BY <2>1, <1>4
  <2> QED
    BY <2>1, <2>2 DEF FreshInv
<1>8. ContentInv
  <2>1. \A f \in Files : verdict[f] = "PASSED" => f \in Ready
    OBVIOUS
  <2>2. \A f \in Ready : Verdict(stored[f]) = "PASSED"
    BY ReadyAssumption
  <2> HIDE DEF NormInit
  <2>3. \A w \in Workers : npc[w] = "idle"
    BY DEF NormInit
  <2> QED
    BY <1>1, <2>1, <2>2, <2>3 DEF ContentInv
<1>9. OneRunPerFile /\ PassedNormalizes
  BY <1>4 DEF OneRunPerFile, PassedNormalizes
<1> QED
  BY <1>5, <1>6, <1>7, <1>8, <1>9 DEF IInv

-----------------------------------------------------------------------------
\* The actions of one request.
Step(w) ==
  \/ \E f \in Files : ReadForValidation(w, f) \/ CheckValidated(w, f)
  \/ CommitValidation(w) \/ ReadContent(w) \/ FailContent(w) \/ SeeRows(w) \/ LockRows(w)
  \/ CommitRun(w) \/ FailRun(w)
  \/ ReadPos(w) \/ ReadPlatform(w) \/ InsertMatches(w) \/ CommitMatches(w)
  \/ NormRefuse(w)

\* Each step is of a request, or replaces a content.
LEMMA NextCases ==
  ASSUME NormNext
  PROVE  (\E w \in Workers : Step(w)) \/ (\E f \in Files, c \in Overwrites : Overwrite(f, c))
BY DEF NormNext, Step

\* What a step of request w leaves to the others, and where it leaves w.
Others(w) ==
  \A v \in Workers : v # w =>
    /\ npc'[v] = npc[v] /\ nfile'[v] = nfile[v] /\ ncontent'[v] = ncontent[v]
    /\ nseen'[v] = nseen[v] /\ nheld'[v] = nheld[v] /\ ncall'[v] = ncall[v]

Met(w) == \A v \in Workers : nmet[v] /\ v # w => nmet'[v]

At(w, label, file, content, seen, held, call) ==
  /\ npc'[w] = label /\ nfile'[w] = file /\ ncontent'[w] = content
  /\ nseen'[w] = seen /\ nheld'[w] = held /\ ncall'[w] = call

Finished(w) ==
  At(w, "idle", None, None, {}, {}, 0) /\ Others(w) /\ Met(w) /\ nruns' = nruns

\* Each action, worker by worker.
LEMMA ReadForValidationDoes ==
  ASSUME NormTypeOK, NEW w \in Workers, NEW f \in Files, ReadForValidation(w, f)
  PROVE  /\ npc[w] = "idle" /\ nruns' = nruns + 1 /\ nruns < MaxRuns /\ stored[f] # None
         /\ At(w, "judging", f, stored[f], nseen[w], nheld[w], nruns + 1)
         /\ Others(w) /\ Met(w) /\ (nmet[w] => nmet'[w]) /\ UNCHANGED ntables
BY DEF NormTypeOK, ReadForValidation, NormStart, Finished, At, Others, Met, ntables

LEMMA CheckValidatedDoes ==
  ASSUME NormTypeOK, NEW w \in Workers, NEW f \in Files, CheckValidated(w, f)
  PROVE  /\ npc[w] = "idle" /\ nruns' = nruns + 1 /\ nruns < MaxRuns /\ verdict[f] = "PASSED"
         /\ At(w, "reading", f, ncontent[w], nseen[w], nheld[w], nruns + 1)
         /\ Others(w) /\ Met(w) /\ UNCHANGED ntables
         /\ \A v \in Workers : v # w /\ Normalizing(v, f) => nmet'[v] /\ nmet'[w]
BY DEF NormTypeOK, CheckValidated, NormStart, Finished, At, Others, Met, ntables

LEMMA CommitValidationDoes ==
  ASSUME NormTypeOK, NEW w \in Workers, CommitValidation(w)
  PROVE  /\ npc[w] = "judging" /\ Finished(w)
         /\ verdict' = [verdict EXCEPT ![nfile[w]] = Verdict(ncontent[w])]
         /\ UNCHANGED <<stored, changed, txns, matched, blamed>>
BY DEF NormTypeOK, CommitValidation, NormFinish, Finished, At, Others, Met, ntables

LEMMA ReadContentDoes ==
  ASSUME NormTypeOK, NEW w \in Workers, ReadContent(w)
  PROVE  /\ npc[w] = "reading" /\ Builds(stored[nfile[w]]) /\ nruns' = nruns
         /\ At(w, "deleting", nfile[w], stored[nfile[w]], nseen[w], nheld[w], ncall[w])
         /\ Others(w) /\ Met(w) /\ (nmet[w] => nmet'[w]) /\ UNCHANGED ntables
BY DEF NormTypeOK, ReadContent, NormGoto, Finished, At, Others, Met, ntables

LEMMA FailContentDoes ==
  ASSUME NormTypeOK, NEW w \in Workers, FailContent(w)
  PROVE  /\ npc[w] = "reading" /\ ~ Builds(stored[nfile[w]]) /\ Finished(w)
         /\ blamed' = blamed \cup {nfile[w]}
         /\ UNCHANGED <<stored, changed, verdict, txns, matched>>
BY DEF NormTypeOK, FailContent, NormFinish, Finished, At, Others, Met, ntables

LEMMA SeeRowsDoes ==
  ASSUME NormTypeOK, NEW w \in Workers, SeeRows(w)
  PROVE  /\ npc[w] = "deleting" /\ nruns' = nruns
         /\ At(w, "locking", nfile[w], ncontent[w], {t \in txns : t.file = nfile[w]}, nheld[w], ncall[w])
         /\ Others(w) /\ Met(w) /\ (nmet[w] => nmet'[w]) /\ UNCHANGED ntables
BY DEF NormTypeOK, SeeRows, NormGoto, Finished, At, Others, Met, ntables

LEMMA LockRowsDoes ==
  ASSUME NormTypeOK, NEW w \in Workers, LockRows(w)
  PROVE  /\ npc[w] = "locking" /\ nruns' = nruns /\ nseen[w] \cap matched = {}
         /\ \A v \in Workers : v # w => (nseen[w] \cap txns) \cap nheld[v] = {}
         /\ At(w, "saving", nfile[w], ncontent[w], nseen[w], nseen[w] \cap txns, ncall[w])
         /\ Others(w) /\ Met(w) /\ (nmet[w] => nmet'[w]) /\ UNCHANGED ntables
BY DEF NormTypeOK, LockRows, NormGoto, LockedByOthers, Finished, At, Others, Met, ntables

LEMMA CommitRunDoes ==
  ASSUME NormTypeOK, LocalInv, NEW w \in Workers, CommitRun(w)
  PROVE  /\ npc[w] = "saving" /\ Finished(w)
         /\ \E made \in SUBSET Txns :
              /\ txns' = (txns \ nheld[w]) \cup made
              /\ \A t \in made : t.file = nfile[w] /\ t.call = ncall[w] /\ (nmet[w] => t.met)
         /\ UNCHANGED <<stored, changed, verdict, matched, blamed>>
<1>1. RowsOf(nfile[w], ncontent[w], ncall[w], nmet[w]) \subseteq Txns
      /\ \A t \in RowsOf(nfile[w], ncontent[w], ncall[w], nmet[w]) :
           t.file = nfile[w] /\ t.call = ncall[w] /\ t.met = nmet[w]
  <2>1. nfile[w] \in Files /\ ncontent[w] \in Contents /\ ncall[w] \in 0..MaxRuns /\ nmet[w] \in BOOLEAN
    BY DEF CommitRun, LocalInv, NormTypeOK
  <2> QED
    BY <2>1, RowsTyped
<1>2. txns' = (txns \ nheld[w]) \cup RowsOf(nfile[w], ncontent[w], ncall[w], nmet[w])
  BY DEF CommitRun
<1>3. npc[w] = "saving" /\ Finished(w) /\ UNCHANGED <<stored, changed, verdict, matched, blamed>>
  BY DEF NormTypeOK, CommitRun, NormFinish, Finished, At, Others, Met
<1> HIDE DEF RowsOf
<1> QED
  BY <1>1, <1>2, <1>3

LEMMA FailRunDoes ==
  ASSUME NormTypeOK, NEW w \in Workers, FailRun(w)
  PROVE  /\ npc[w] = "saving" /\ ~ Saves(ncontent[w]) /\ Finished(w)
         /\ blamed' = blamed \cup {nfile[w]}
         /\ UNCHANGED <<stored, changed, verdict, txns, matched>>
BY DEF NormTypeOK, FailRun, NormFinish, Finished, At, Others, Met, ntables

LEMMA ReadPosDoes ==
  ASSUME NormTypeOK, NEW w \in Workers, ReadPos(w)
  PROVE  /\ npc[w] = "idle" /\ nruns' = nruns + 1 /\ nruns < MaxRuns
         /\ At(w, "matching", None, ncontent[w], TransactionsFor("POS_EXPORT"), nheld[w], nruns + 1)
         /\ Others(w) /\ Met(w) /\ (nmet[w] => nmet'[w]) /\ UNCHANGED ntables
BY DEF NormTypeOK, ReadPos, NormStart, Finished, At, Others, Met, ntables

LEMMA ReadPlatformDoes ==
  ASSUME NormTypeOK, NEW w \in Workers, ReadPlatform(w)
  PROVE  /\ npc[w] = "matching" /\ nruns' = nruns
         /\ At(w, "inserting", nfile[w], ncontent[w], nseen[w] \cup TransactionsFor("PLATFORM_SETTLEMENT"), nheld[w], ncall[w])
         /\ Others(w) /\ Met(w) /\ (nmet[w] => nmet'[w]) /\ UNCHANGED ntables
BY DEF NormTypeOK, ReadPlatform, NormGoto, Finished, At, Others, Met, ntables

LEMMA InsertMatchesDoes ==
  ASSUME NormTypeOK, NEW w \in Workers, InsertMatches(w)
  PROVE  /\ npc[w] = "inserting" /\ nruns' = nruns /\ nseen[w] \subseteq txns
         /\ \A v \in Workers : npc[v] = "saving" => nseen[w] \cap nheld[v] = {}
         /\ At(w, "inserted", nfile[w], ncontent[w], nseen[w], nseen[w], ncall[w])
         /\ Others(w) /\ Met(w) /\ (nmet[w] => nmet'[w]) /\ UNCHANGED ntables
BY DEF NormTypeOK, InsertMatches, NormGoto, Finished, At, Others, Met, ntables

LEMMA CommitMatchesDoes ==
  ASSUME NormTypeOK, NEW w \in Workers, CommitMatches(w)
  PROVE  /\ npc[w] = "inserted" /\ Finished(w)
         /\ matched' = matched \cup nheld[w]
         /\ UNCHANGED <<stored, changed, verdict, txns, blamed>>
BY DEF NormTypeOK, CommitMatches, NormFinish, Finished, At, Others, Met, ntables

LEMMA NormRefuseDoes ==
  ASSUME NormTypeOK, NEW w \in Workers, NormRefuse(w)
  PROVE  /\ npc[w] # "idle" /\ Finished(w) /\ UNCHANGED ntables
BY DEF NormTypeOK, NormRefuse, NormFinish, Finished, At, Others, Met, ntables

-----------------------------------------------------------------------------
\* The types are kept; a row that goes is held by nobody else, and no match refers to it.
LEMMA TypeStep ==
  ASSUME NormTypeOK, LocalInv, LockInv, NormNext
  PROVE  NormTypeOK'
<1> USE DEF NormTypeOK, Others, Met, At, Finished, ntables
<1>1. ASSUME NEW w \in Workers, NEW f \in Files, ReadForValidation(w, f) PROVE NormTypeOK'
  BY <1>1, BoundsAssumption DEF ReadForValidation, NormStart
<1>2. ASSUME NEW w \in Workers, NEW f \in Files, CheckValidated(w, f) PROVE NormTypeOK'
  <2>1. nmet' \in [Workers -> BOOLEAN]
    BY <1>2 DEF CheckValidated, Normalizing
  <2>2. /\ UNCHANGED <<ntables, ncontent, nseen, nheld>> /\ NormStart(w, f, "reading")
    BY <1>2 DEF CheckValidated
  <2> QED
    BY <2>1, <2>2, BoundsAssumption DEF NormStart
<1>3. ASSUME NEW w \in Workers, CommitValidation(w) PROVE NormTypeOK'
  BY <1>3, BoundsAssumption DEF CommitValidation, NormFinish, LocalInv, Verdict
<1>4. ASSUME NEW w \in Workers, ReadContent(w) PROVE NormTypeOK'
  BY <1>4 DEF ReadContent, NormGoto, LocalInv
<1>5. ASSUME NEW w \in Workers, FailContent(w) PROVE NormTypeOK'
  BY <1>5, BoundsAssumption DEF FailContent, NormFinish, LocalInv
<1>6. ASSUME NEW w \in Workers, SeeRows(w) PROVE NormTypeOK'
  BY <1>6, BoundsAssumption DEF SeeRows, NormGoto
<1>7. ASSUME NEW w \in Workers, LockRows(w) PROVE NormTypeOK'
  BY <1>7, BoundsAssumption DEF LockRows, NormGoto, LockedByOthers
<1>8. ASSUME NEW w \in Workers, CommitRun(w) PROVE NormTypeOK'
  <2>1. nheld[w] \cap matched = {} /\ \A v \in Workers : v # w => nheld[v] \cap nheld[w] = {}
    BY <1>8, CommitRunDoes DEF LocalInv, LockInv
  <2>2. PICK made \in SUBSET Txns : txns' = (txns \ nheld[w]) \cup made
    <3> HIDE DEF NormTypeOK, Others, Met, At, Finished, ntables
    <3> QED BY <1>8, CommitRunDoes
  <2>3. nheld' \in [Workers -> SUBSET txns']
    <3>1. \A v \in Workers : nheld'[v] \subseteq txns'
      BY <1>8, CommitRunDoes, <2>1, <2>2
    <3> QED
      BY <1>8, <3>1 DEF CommitRun, NormFinish
  <2>4. txns' \subseteq Txns /\ matched' \subseteq txns'
    BY <1>8, CommitRunDoes, <2>1, <2>2
  <2> QED
    BY <1>8, <2>3, <2>4, BoundsAssumption DEF CommitRun, NormFinish
<1>9. ASSUME NEW w \in Workers, FailRun(w) PROVE NormTypeOK'
  BY <1>9, BoundsAssumption DEF FailRun, NormFinish, LocalInv
<1>10. ASSUME NEW w \in Workers, ReadPos(w) PROVE NormTypeOK'
  BY <1>10, BoundsAssumption DEF ReadPos, NormStart, TransactionsFor
<1>11. ASSUME NEW w \in Workers, ReadPlatform(w) PROVE NormTypeOK'
  BY <1>11, BoundsAssumption DEF ReadPlatform, NormGoto, TransactionsFor
<1>12. ASSUME NEW w \in Workers, InsertMatches(w) PROVE NormTypeOK'
  BY <1>12, BoundsAssumption DEF InsertMatches, NormGoto
<1>13. ASSUME NEW w \in Workers, CommitMatches(w) PROVE NormTypeOK'
  BY <1>13, BoundsAssumption DEF CommitMatches, NormFinish
<1>14. ASSUME NEW w \in Workers, NormRefuse(w) PROVE NormTypeOK'
  BY <1>14, BoundsAssumption DEF NormRefuse, NormFinish
<1>15. ASSUME NEW f \in Files, NEW c \in Overwrites, Overwrite(f, c) PROVE NormTypeOK'
  BY <1>15, ContentsAssumption DEF Overwrite, nlocals
<1> QED
  BY <1>1, <1>2, <1>3, <1>4, <1>5, <1>6, <1>7, <1>8, <1>9, <1>10, <1>11, <1>12, <1>13, <1>14, <1>15, NextCases DEF Step

\* What a request holds is kept by the others.
LEMMA LocalStep ==
  ASSUME NormTypeOK, LocalInv, FreshInv, LockInv, NormNext
  PROVE  LocalInv'
<1> USE DEF LocalInv, Others, Met, At, Finished, ntables
<1>1. ASSUME NEW w \in Workers, NEW f \in Files, ReadForValidation(w, f) PROVE LocalInv'
  BY <1>1, ReadForValidationDoes DEF NormTypeOK
<1>2. ASSUME NEW w \in Workers, NEW f \in Files, CheckValidated(w, f) PROVE LocalInv'
  BY <1>2, CheckValidatedDoes
<1>3. ASSUME NEW w \in Workers, CommitValidation(w) PROVE LocalInv'
  BY <1>3, CommitValidationDoes
<1>4. ASSUME NEW w \in Workers, ReadContent(w) PROVE LocalInv'
  BY <1>4, ReadContentDoes DEF Builds, HeaderReads, NormTypeOK
<1>5. ASSUME NEW w \in Workers, FailContent(w) PROVE LocalInv'
  BY <1>5, FailContentDoes
<1>6. ASSUME NEW w \in Workers, SeeRows(w) PROVE LocalInv'
  BY <1>6, SeeRowsDoes
<1>7. ASSUME NEW w \in Workers, LockRows(w) PROVE LocalInv'
  BY <1>7, LockRowsDoes
<1>8. ASSUME NEW w \in Workers, CommitRun(w) PROVE LocalInv'
  <2> HIDE DEF LocalInv, Others, Met, At, Finished, ntables
  <2>1. PICK made \in SUBSET Txns :
          txns' = (txns \ nheld[w]) \cup made /\ \A t \in made : t.call = ncall[w]
    BY <1>8, CommitRunDoes
  <2>2. \A v \in Workers : \A t \in nseen[v] : t \notin made
    BY <1>8, CommitRunDoes, <2>1 DEF FreshInv
  <2>3. \A v \in Workers : v # w /\ npc[v] = "saving" => nseen[v] \cap txns' = nseen[v] \cap txns
    <3>1. \A v \in Workers : npc[v] = "saving" => nheld[v] = nseen[v] \cap txns
      BY DEF LocalInv
    <3> QED
      BY <2>1, <2>2, <3>1 DEF LockInv
  <2> QED
    BY <1>8, CommitRunDoes, <2>3 DEF LocalInv, Others, Met, At, Finished
<1>9. ASSUME NEW w \in Workers, FailRun(w) PROVE LocalInv'
  BY <1>9, FailRunDoes
<1>10. ASSUME NEW w \in Workers, ReadPos(w) PROVE LocalInv'
  BY <1>10, ReadPosDoes DEF TransactionsFor
<1>11. ASSUME NEW w \in Workers, ReadPlatform(w) PROVE LocalInv'
  BY <1>11, ReadPlatformDoes
<1>12. ASSUME NEW w \in Workers, InsertMatches(w) PROVE LocalInv'
  BY <1>12, InsertMatchesDoes
<1>13. ASSUME NEW w \in Workers, CommitMatches(w) PROVE LocalInv'
  BY <1>13, CommitMatchesDoes DEF LockInv
<1>14. ASSUME NEW w \in Workers, NormRefuse(w) PROVE LocalInv'
  BY <1>14, NormRefuseDoes
<1>15. ASSUME NEW f \in Files, NEW c \in Overwrites, Overwrite(f, c) PROVE LocalInv'
  BY <1>15 DEF Overwrite, nlocals
<1> QED
  BY <1>1, <1>2, <1>3, <1>4, <1>5, <1>6, <1>7, <1>8, <1>9, <1>10, <1>11, <1>12, <1>13, <1>14, <1>15, NextCases DEF Step

\* Numbers of requests are numbers.
LEMMA CallsAreNumbers ==
  ASSUME NormTypeOK
  PROVE  nruns \in Nat /\ (\A t \in txns : t.call \in Nat) /\ \A v \in Workers : \A t \in nseen[v] : t.call \in Nat
BY BoundsAssumption DEF NormTypeOK, Txns

\* Numbers are given once.
LEMMA FreshStep ==
  ASSUME NormTypeOK, LocalInv, FreshInv, NormNext
  PROVE  FreshInv'
<1> USE DEF FreshInv, Others, Met, At, Finished, ntables
<1>1. ASSUME NEW w \in Workers, NEW f \in Files, ReadForValidation(w, f) PROVE FreshInv'
  BY <1>1, ReadForValidationDoes, CallsAreNumbers
<1>2. ASSUME NEW w \in Workers, NEW f \in Files, CheckValidated(w, f) PROVE FreshInv'
  BY <1>2, CheckValidatedDoes, CallsAreNumbers
<1>3. ASSUME NEW w \in Workers, CommitValidation(w) PROVE FreshInv'
  BY <1>3, CommitValidationDoes
<1>4. ASSUME NEW w \in Workers, ReadContent(w) PROVE FreshInv'
  BY <1>4, ReadContentDoes
<1>5. ASSUME NEW w \in Workers, FailContent(w) PROVE FreshInv'
  BY <1>5, FailContentDoes
<1>6. ASSUME NEW w \in Workers, SeeRows(w) PROVE FreshInv'
  BY <1>6, SeeRowsDoes
<1>7. ASSUME NEW w \in Workers, LockRows(w) PROVE FreshInv'
  BY <1>7, LockRowsDoes
<1>8. ASSUME NEW w \in Workers, CommitRun(w) PROVE FreshInv'
  <2> HIDE DEF FreshInv, Others, Met, At, Finished, ntables
  <2>1. PICK made \in SUBSET Txns :
          txns' = (txns \ nheld[w]) \cup made /\ \A t \in made : t.call = ncall[w]
    BY <1>8, CommitRunDoes
  <2>2. ncall[w] \in 1..nruns /\ nruns \in Nat
    BY <1>8, CommitRunDoes DEF NormTypeOK, FreshInv
  <2> QED
    BY <1>8, CommitRunDoes, <2>1, <2>2 DEF FreshInv, Others, Met, At, Finished
<1>9. ASSUME NEW w \in Workers, FailRun(w) PROVE FreshInv'
  BY <1>9, FailRunDoes
<1>10. ASSUME NEW w \in Workers, ReadPos(w) PROVE FreshInv'
  <2>1. \A v \in Workers : nseen'[v] \subseteq nseen[v] \cup txns
    BY <1>10, ReadPosDoes DEF TransactionsFor
  <2> QED
    BY <1>10, ReadPosDoes, <2>1, CallsAreNumbers
<1>11. ASSUME NEW w \in Workers, ReadPlatform(w) PROVE FreshInv'
  <2>1. \A v \in Workers : nseen'[v] \subseteq nseen[v] \cup txns
    BY <1>11, ReadPlatformDoes DEF TransactionsFor
  <2> QED
    BY <1>11, ReadPlatformDoes, <2>1, CallsAreNumbers
<1>12. ASSUME NEW w \in Workers, InsertMatches(w) PROVE FreshInv'
  BY <1>12, InsertMatchesDoes
<1>13. ASSUME NEW w \in Workers, CommitMatches(w) PROVE FreshInv'
  BY <1>13, CommitMatchesDoes
<1>14. ASSUME NEW w \in Workers, NormRefuse(w) PROVE FreshInv'
  BY <1>14, NormRefuseDoes
<1>15. ASSUME NEW f \in Files, NEW c \in Overwrites, Overwrite(f, c) PROVE FreshInv'
  BY <1>15 DEF Overwrite, nlocals
<1> QED
  BY <1>1, <1>2, <1>3, <1>4, <1>5, <1>6, <1>7, <1>8, <1>9, <1>10, <1>11, <1>12, <1>13, <1>14, <1>15, NextCases DEF Step

\* Row locks exclude each other where one side deletes.
LEMMA LockStep ==
  ASSUME NormTypeOK, LocalInv, LockInv, NormNext
  PROVE  LockInv'
<1> USE DEF LockInv, Others, Met, At, Finished, ntables
<1>1. ASSUME NEW w \in Workers, NEW f \in Files, ReadForValidation(w, f) PROVE LockInv'
  BY <1>1, ReadForValidationDoes
<1>2. ASSUME NEW w \in Workers, NEW f \in Files, CheckValidated(w, f) PROVE LockInv'
  BY <1>2, CheckValidatedDoes
<1>3. ASSUME NEW w \in Workers, CommitValidation(w) PROVE LockInv'
  BY <1>3, CommitValidationDoes
<1>4. ASSUME NEW w \in Workers, ReadContent(w) PROVE LockInv'
  BY <1>4, ReadContentDoes
<1>5. ASSUME NEW w \in Workers, FailContent(w) PROVE LockInv'
  BY <1>5, FailContentDoes
<1>6. ASSUME NEW w \in Workers, SeeRows(w) PROVE LockInv'
  BY <1>6, SeeRowsDoes
<1>7. ASSUME NEW w \in Workers, LockRows(w) PROVE LockInv'
  BY <1>7, LockRowsDoes
<1>8. ASSUME NEW w \in Workers, CommitRun(w) PROVE LockInv'
  BY <1>8, CommitRunDoes
<1>9. ASSUME NEW w \in Workers, FailRun(w) PROVE LockInv'
  BY <1>9, FailRunDoes
<1>10. ASSUME NEW w \in Workers, ReadPos(w) PROVE LockInv'
  BY <1>10, ReadPosDoes
<1>11. ASSUME NEW w \in Workers, ReadPlatform(w) PROVE LockInv'
  BY <1>11, ReadPlatformDoes
<1>12. ASSUME NEW w \in Workers, InsertMatches(w) PROVE LockInv'
  BY <1>12, InsertMatchesDoes
<1>13. ASSUME NEW w \in Workers, CommitMatches(w) PROVE LockInv'
  BY <1>13, CommitMatchesDoes
<1>14. ASSUME NEW w \in Workers, NormRefuse(w) PROVE LockInv'
  BY <1>14, NormRefuseDoes
<1>15. ASSUME NEW f \in Files, NEW c \in Overwrites, Overwrite(f, c) PROVE LockInv'
  BY <1>15 DEF Overwrite, nlocals
<1> QED
  BY <1>1, <1>2, <1>3, <1>4, <1>5, <1>6, <1>7, <1>8, <1>9, <1>10, <1>11, <1>12, <1>13, <1>14, <1>15, NextCases DEF Step

\* An overlap is noticed by both sides.
LEMMA MetStep ==
  ASSUME NormTypeOK, LocalInv, NormMetInv, NormNext
  PROVE  NormMetInv'
<1> USE DEF NormMetInv, Others, Met, At, Finished, ntables
<1>1. ASSUME NEW w \in Workers, NEW f \in Files, ReadForValidation(w, f) PROVE NormMetInv'
  BY <1>1, ReadForValidationDoes
<1>2. ASSUME NEW w \in Workers, NEW f \in Files, CheckValidated(w, f) PROVE NormMetInv'
  BY <1>2, CheckValidatedDoes DEF Normalizing
<1>3. ASSUME NEW w \in Workers, CommitValidation(w) PROVE NormMetInv'
  BY <1>3, CommitValidationDoes
<1>4. ASSUME NEW w \in Workers, ReadContent(w) PROVE NormMetInv'
  BY <1>4, ReadContentDoes
<1>5. ASSUME NEW w \in Workers, FailContent(w) PROVE NormMetInv'
  BY <1>5, FailContentDoes
<1>6. ASSUME NEW w \in Workers, SeeRows(w) PROVE NormMetInv'
  BY <1>6, SeeRowsDoes
<1>7. ASSUME NEW w \in Workers, LockRows(w) PROVE NormMetInv'
  BY <1>7, LockRowsDoes
<1>8. ASSUME NEW w \in Workers, CommitRun(w) PROVE NormMetInv'
  BY <1>8, CommitRunDoes
<1>9. ASSUME NEW w \in Workers, FailRun(w) PROVE NormMetInv'
  BY <1>9, FailRunDoes
<1>10. ASSUME NEW w \in Workers, ReadPos(w) PROVE NormMetInv'
  BY <1>10, ReadPosDoes
<1>11. ASSUME NEW w \in Workers, ReadPlatform(w) PROVE NormMetInv'
  BY <1>11, ReadPlatformDoes
<1>12. ASSUME NEW w \in Workers, InsertMatches(w) PROVE NormMetInv'
  BY <1>12, InsertMatchesDoes
<1>13. ASSUME NEW w \in Workers, CommitMatches(w) PROVE NormMetInv'
  BY <1>13, CommitMatchesDoes
<1>14. ASSUME NEW w \in Workers, NormRefuse(w) PROVE NormMetInv'
  BY <1>14, NormRefuseDoes
<1>15. ASSUME NEW f \in Files, NEW c \in Overwrites, Overwrite(f, c) PROVE NormMetInv'
  BY <1>15 DEF Overwrite, nlocals
<1> QED
  BY <1>1, <1>2, <1>3, <1>4, <1>5, <1>6, <1>7, <1>8, <1>9, <1>10, <1>11, <1>12, <1>13, <1>14, <1>15, NextCases DEF Step

\* Rows that appear after a DELETE has started are of an overlapping run.
LEMMA SupersedeStep ==
  ASSUME NormTypeOK, LocalInv, NormMetInv, SupersedeInv, NormNext
  PROVE  SupersedeInv'
<1> USE DEF SupersedeInv, Others, Met, At, Finished, ntables
<1>1. ASSUME NEW w \in Workers, NEW f \in Files, ReadForValidation(w, f) PROVE SupersedeInv'
  BY <1>1, ReadForValidationDoes
<1>2. ASSUME NEW w \in Workers, NEW f \in Files, CheckValidated(w, f) PROVE SupersedeInv'
  BY <1>2, CheckValidatedDoes
<1>3. ASSUME NEW w \in Workers, CommitValidation(w) PROVE SupersedeInv'
  BY <1>3, CommitValidationDoes
<1>4. ASSUME NEW w \in Workers, ReadContent(w) PROVE SupersedeInv'
  BY <1>4, ReadContentDoes
<1>5. ASSUME NEW w \in Workers, FailContent(w) PROVE SupersedeInv'
  BY <1>5, FailContentDoes
<1>6. ASSUME NEW w \in Workers, SeeRows(w) PROVE SupersedeInv'
  BY <1>6, SeeRowsDoes
<1>7. ASSUME NEW w \in Workers, LockRows(w) PROVE SupersedeInv'
  BY <1>7, LockRowsDoes
<1>8. ASSUME NEW w \in Workers, CommitRun(w) PROVE SupersedeInv'
  BY <1>8, CommitRunDoes DEF NormMetInv
<1>9. ASSUME NEW w \in Workers, FailRun(w) PROVE SupersedeInv'
  BY <1>9, FailRunDoes
<1>10. ASSUME NEW w \in Workers, ReadPos(w) PROVE SupersedeInv'
  BY <1>10, ReadPosDoes
<1>11. ASSUME NEW w \in Workers, ReadPlatform(w) PROVE SupersedeInv'
  BY <1>11, ReadPlatformDoes
<1>12. ASSUME NEW w \in Workers, InsertMatches(w) PROVE SupersedeInv'
  BY <1>12, InsertMatchesDoes
<1>13. ASSUME NEW w \in Workers, CommitMatches(w) PROVE SupersedeInv'
  BY <1>13, CommitMatchesDoes
<1>14. ASSUME NEW w \in Workers, NormRefuse(w) PROVE SupersedeInv'
  BY <1>14, NormRefuseDoes
<1>15. ASSUME NEW f \in Files, NEW c \in Overwrites, Overwrite(f, c) PROVE SupersedeInv'
  BY <1>15 DEF Overwrite, nlocals
<1> QED
  BY <1>1, <1>2, <1>3, <1>4, <1>5, <1>6, <1>7, <1>8, <1>9, <1>10, <1>11, <1>12, <1>13, <1>14, <1>15, NextCases DEF Step

\* Validation's verdict stays true of a content that is not replaced.
LEMMA ContentStep ==
  ASSUME NormTypeOK, LocalInv, ContentInv, NormNext
  PROVE  ContentInv'
<1> USE DEF ContentInv, Others, Met, At, Finished, ntables
<1>1. ASSUME NEW w \in Workers, NEW f \in Files, ReadForValidation(w, f) PROVE ContentInv'
  BY <1>1, ReadForValidationDoes
<1>2. ASSUME NEW w \in Workers, NEW f \in Files, CheckValidated(w, f) PROVE ContentInv'
  BY <1>2, CheckValidatedDoes
<1>3. ASSUME NEW w \in Workers, CommitValidation(w) PROVE ContentInv'
  BY <1>3, CommitValidationDoes DEF NormTypeOK
<1>4. ASSUME NEW w \in Workers, ReadContent(w) PROVE ContentInv'
  BY <1>4, ReadContentDoes
<1>5. ASSUME NEW w \in Workers, FailContent(w) PROVE ContentInv'
  BY <1>5, FailContentDoes
<1>6. ASSUME NEW w \in Workers, SeeRows(w) PROVE ContentInv'
  BY <1>6, SeeRowsDoes
<1>7. ASSUME NEW w \in Workers, LockRows(w) PROVE ContentInv'
  BY <1>7, LockRowsDoes
<1>8. ASSUME NEW w \in Workers, CommitRun(w) PROVE ContentInv'
  BY <1>8, CommitRunDoes
<1>9. ASSUME NEW w \in Workers, FailRun(w) PROVE ContentInv'
  BY <1>9, FailRunDoes
<1>10. ASSUME NEW w \in Workers, ReadPos(w) PROVE ContentInv'
  BY <1>10, ReadPosDoes
<1>11. ASSUME NEW w \in Workers, ReadPlatform(w) PROVE ContentInv'
  BY <1>11, ReadPlatformDoes
<1>12. ASSUME NEW w \in Workers, InsertMatches(w) PROVE ContentInv'
  BY <1>12, InsertMatchesDoes
<1>13. ASSUME NEW w \in Workers, CommitMatches(w) PROVE ContentInv'
  BY <1>13, CommitMatchesDoes
<1>14. ASSUME NEW w \in Workers, NormRefuse(w) PROVE ContentInv'
  BY <1>14, NormRefuseDoes
<1>15. ASSUME NEW f \in Files, NEW c \in Overwrites, Overwrite(f, c) PROVE ContentInv'
  BY <1>15 DEF Overwrite, nlocals
<1> QED
  BY <1>1, <1>2, <1>3, <1>4, <1>5, <1>6, <1>7, <1>8, <1>9, <1>10, <1>11, <1>12, <1>13, <1>14, <1>15, NextCases DEF Step

\* Two statements that read a file's rows keep meeting.
LEMMA SnapshotStep ==
  ASSUME NormTypeOK, LocalInv, FreshInv, LockInv, SnapshotInv, NormNext
  PROVE  SnapshotInv'
<1> USE DEF SnapshotInv, Meets, Others, Met, At, Finished, ntables
<1>1. ASSUME NEW w \in Workers, NEW f \in Files, ReadForValidation(w, f) PROVE SnapshotInv'
  BY <1>1, ReadForValidationDoes
<1>2. ASSUME NEW w \in Workers, NEW f \in Files, CheckValidated(w, f) PROVE SnapshotInv'
  BY <1>2, CheckValidatedDoes
<1>3. ASSUME NEW w \in Workers, CommitValidation(w) PROVE SnapshotInv'
  BY <1>3, CommitValidationDoes
<1>4. ASSUME NEW w \in Workers, ReadContent(w) PROVE SnapshotInv'
  BY <1>4, ReadContentDoes
<1>5. ASSUME NEW w \in Workers, FailContent(w) PROVE SnapshotInv'
  BY <1>5, FailContentDoes
<1>6. ASSUME NEW w \in Workers, SeeRows(w) PROVE SnapshotInv'
  <2>1. \A S \in SUBSET txns : Meets(S, nfile[w], nseen'[w])
    BY <1>6, SeeRowsDoes
  <2>2. matched \subseteq txns
    BY DEF NormTypeOK
  <2> HIDE DEF Meets
  <2>3. \A S \in SUBSET Txns, f \in Files, seen \in SUBSET Txns : Meets(S, f, seen)' <=> Meets(S, f, seen)
    BY <1>6, SeeRowsDoes DEF Meets
  <2> QED
    BY <1>6, SeeRowsDoes, <2>1, <2>2 DEF Meets
<1>7. ASSUME NEW w \in Workers, LockRows(w) PROVE SnapshotInv'
  BY <1>7, LockRowsDoes
<1>8. ASSUME NEW w \in Workers, CommitRun(w) PROVE SnapshotInv'
  <2> HIDE DEF SnapshotInv, Meets, Others, Met, At, Finished, ntables
  <2>1. PICK made \in SUBSET Txns :
          txns' = (txns \ nheld[w]) \cup made /\ \A t \in made : t.call = ncall[w]
    BY <1>8, CommitRunDoes
  <2>2. \A v \in Workers : \A t \in nseen[v] : t \notin made
    BY <1>8, CommitRunDoes, <2>1 DEF FreshInv
  <2>3. \A v \in Workers : /\ nseen[v] \cap txns = {} => nseen[v] \cap txns' = {}
                           /\ nseen[v] \subseteq txns' => nseen[v] \subseteq txns
    BY <2>1, <2>2
  <2> QED
    BY <1>8, CommitRunDoes, <2>3 DEF SnapshotInv, Meets, Others, Met, At, Finished
<1>9. ASSUME NEW w \in Workers, FailRun(w) PROVE SnapshotInv'
  BY <1>9, FailRunDoes
<1>10. ASSUME NEW w \in Workers, ReadPos(w) PROVE SnapshotInv'
  <2>1. \A v \in Workers : npc[v] \in {"locking", "saving"} =>
          Meets(TransactionsFor("POS_EXPORT"), nfile[v], nseen[v])
    BY DEF TransactionsFor, LocalInv
  <2> QED
    BY <1>10, ReadPosDoes, <2>1
<1>11. ASSUME NEW w \in Workers, ReadPlatform(w) PROVE SnapshotInv'
  <2> DEFINE read == TransactionsFor("PLATFORM_SETTLEMENT")
  <2>1. ASSUME NEW v \in Workers, npc[v] \in {"locking", "saving"}, nseen[w] \subseteq txns
        PROVE  Meets(nseen[w] \cup read, nfile[v], nseen[v])
    <3>1. Meets(nseen[w], nfile[v], nseen[v])
      BY <1>11, ReadPlatformDoes, <2>1
    <3>2. Meets(read, nfile[v], nseen[v])
      BY <2>1 DEF TransactionsFor, LocalInv
    <3> QED
      BY <3>1, <3>2
  <2> HIDE DEF read
  <2> QED
    BY <1>11, ReadPlatformDoes, <2>1 DEF read
<1>12. ASSUME NEW w \in Workers, InsertMatches(w) PROVE SnapshotInv'
  BY <1>12, InsertMatchesDoes
<1>13. ASSUME NEW w \in Workers, CommitMatches(w) PROVE SnapshotInv'
  <2>1. nheld[w] = nseen[w] /\ nheld[w] \subseteq txns
    BY <1>13, CommitMatchesDoes DEF LocalInv, NormTypeOK
  <2>2. ASSUME NEW v \in Workers, npc[v] \in {"locking", "saving"}
        PROVE  Meets(matched \cup nheld[w], nfile[v], nseen[v])
    BY <1>13, CommitMatchesDoes, <2>1, <2>2
  <2> QED
    BY <1>13, CommitMatchesDoes, <2>2
<1>14. ASSUME NEW w \in Workers, NormRefuse(w) PROVE SnapshotInv'
  BY <1>14, NormRefuseDoes
<1>15. ASSUME NEW f \in Files, NEW c \in Overwrites, Overwrite(f, c) PROVE SnapshotInv'
  BY <1>15 DEF Overwrite, nlocals
<1> QED
  BY <1>1, <1>2, <1>3, <1>4, <1>5, <1>6, <1>7, <1>8, <1>9, <1>10, <1>11, <1>12, <1>13, <1>14, <1>15, NextCases DEF Step

-----------------------------------------------------------------------------
\* What a commit adds beside the rows it leaves is of an overlapping run, and
\* what it leaves was not seen by its DELETE.
LEMMA OneRunStep ==
  ASSUME NormTypeOK, LocalInv, SupersedeInv, OneRunPerFile, NormNext
  PROVE  OneRunPerFile'
<1> USE DEF OneRunPerFile
<1>1. ASSUME NEW w \in Workers, CommitRun(w) PROVE OneRunPerFile'
  <2>1. PICK made \in SUBSET Txns :
          /\ txns' = (txns \ nheld[w]) \cup made
          /\ \A t \in made : t.file = nfile[w] /\ t.call = ncall[w] /\ (nmet[w] => t.met)
    BY <1>1, CommitRunDoes
  <2>2. \A t \in txns \ nheld[w] : t.file = nfile[w] => t.met /\ nmet[w]
    BY <1>1, CommitRunDoes DEF LocalInv, SupersedeInv
  <2> QED
    BY <2>1, <2>2
<1>2. ASSUME ~ \E w \in Workers : CommitRun(w) PROVE txns' = txns
  BY <1>2, NextCases DEF Step, ReadForValidation, CheckValidated, CommitValidation, ReadContent,
     FailContent, SeeRows, LockRows, FailRun, ReadPos, ReadPlatform, InsertMatches, CommitMatches,
     NormRefuse, Overwrite, ntables
<1> QED
  BY <1>1, <1>2

\* A content that validation passed is only refused for the numbers that the
\* tables cannot hold.
LEMMA PassedIsRefused ==
  ASSUME NEW c \in Contents, Verdict(c) = "PASSED", ~ Builds(c) \/ ~ Saves(c)
  PROVE  \E i \in DOMAIN c.rows : c.rows[i] \in {"unquantizable", "oversize"}
BY ContentsAssumption DEF Verdict, HeaderPasses, RowsPass, Builds, HeaderReads, RowsBuild, Saves

LEMMA PassedStep ==
  ASSUME NormTypeOK, LocalInv, ContentInv, PassedNormalizes, NormNext
  PROVE  PassedNormalizes'
<1> USE DEF PassedNormalizes
<1>1. ASSUME NEW w \in Workers, FailContent(w) PROVE PassedNormalizes'
  <2>1. nfile[w] \in Files
    BY <1>1, FailContentDoes DEF LocalInv
  <2>2. nfile[w] \notin changed =>
          \E i \in DOMAIN stored[nfile[w]].rows : stored[nfile[w]].rows[i] \in {"unquantizable", "oversize"}
    BY <1>1, <2>1, FailContentDoes, PassedIsRefused DEF ContentInv
  <2> QED
    BY <1>1, <2>2, FailContentDoes
<1>2. ASSUME NEW w \in Workers, FailRun(w) PROVE PassedNormalizes'
  <2>1. nfile[w] \in Files
    BY <1>2, FailRunDoes DEF LocalInv
  <2>2. nfile[w] \notin changed =>
          \E i \in DOMAIN stored[nfile[w]].rows : stored[nfile[w]].rows[i] \in {"unquantizable", "oversize"}
    BY <1>2, <2>1, FailRunDoes, PassedIsRefused DEF ContentInv
  <2> QED
    BY <1>2, <2>2, FailRunDoes
<1>3. ASSUME NEW f \in Files, NEW c \in Overwrites, Overwrite(f, c) PROVE PassedNormalizes'
  BY <1>3 DEF Overwrite, NormTypeOK
<1>4. ASSUME ~ \E w \in Workers : FailContent(w) \/ FailRun(w),
             ~ \E f \in Files, c \in Overwrites : Overwrite(f, c)
      PROVE  blamed' = blamed /\ stored' = stored /\ changed' = changed
  BY <1>4, NextCases DEF Step, ReadForValidation, CheckValidated, CommitValidation, ReadContent,
     SeeRows, LockRows, CommitRun, ReadPos, ReadPlatform, InsertMatches, CommitMatches, NormRefuse, ntables
<1> QED
  BY <1>1, <1>2, <1>3, <1>4

\* A run that commits beside a match of its file has nothing to delete: its
\* DELETE saw rows only if a matching saw one of them too, and then one of the
\* two has waited for the other and failed.
LEMMA NothingMatchedGoes ==
  ASSUME NormTypeOK, LocalInv, SnapshotInv, NEW w \in Workers, CommitRun(w),
         NEW t \in matched, t.file = nfile[w]
  PROVE  nheld[w] = {}
<1>1. npc[w] = "saving" /\ nheld[w] = nseen[w] \cap txns /\ nheld[w] \cap matched = {}
  BY CommitRunDoes DEF LocalInv
<1>2. Meets(matched, nfile[w], nseen[w])
  BY <1>1 DEF SnapshotInv
<1>3. matched \subseteq txns
  BY DEF NormTypeOK
<1> QED
  BY <1>1, <1>2, <1>3 DEF Meets

LEMMA FrozenStep ==
  ASSUME NormTypeOK, LocalInv, SnapshotInv, NormNext
  PROVE  \A f \in Files : (\E t \in matched : t.file = f) => {t \in txns : t.file = f} \subseteq txns'
<1> SUFFICES ASSUME NEW f \in Files, NEW m \in matched, m.file = f, NEW t \in txns, t.file = f
             PROVE  t \in txns'
  OBVIOUS
<1>1. ASSUME NEW w \in Workers, CommitRun(w) PROVE t \in txns'
  <2>1. txns \ nheld[w] \subseteq txns'
    BY <1>1, CommitRunDoes
  <2>2. t \in nheld[w] => t.file = nfile[w]
    BY <1>1, CommitRunDoes DEF LocalInv
  <2> QED
    BY <1>1, <2>1, <2>2, NothingMatchedGoes
<1>2. ASSUME ~ \E w \in Workers : CommitRun(w) PROVE txns' = txns
  BY <1>2, NextCases DEF Step, ReadForValidation, CheckValidated, CommitValidation, ReadContent,
     FailContent, SeeRows, LockRows, FailRun, ReadPos, ReadPlatform, InsertMatches, CommitMatches,
     NormRefuse, Overwrite, ntables
<1> QED
  BY <1>1, <1>2

-----------------------------------------------------------------------------
LEMMA StutterInv ==
  ASSUME IInv, UNCHANGED nvars
  PROVE  IInv'
<1>1. NormTypeOK' /\ LocalInv' /\ FreshInv' /\ LockInv' /\ NormMetInv'
  BY DEF IInv, nvars, ntables, nlocals, NormTypeOK, LocalInv, FreshInv, LockInv, NormMetInv
<1>2. SupersedeInv' /\ SnapshotInv' /\ ContentInv' /\ OneRunPerFile' /\ PassedNormalizes'
  BY DEF IInv, nvars, ntables, nlocals, SupersedeInv, SnapshotInv, Meets, ContentInv, OneRunPerFile,
     PassedNormalizes
<1> QED
  BY <1>1, <1>2 DEF IInv

\* The invariant is inductive.
THEOREM NormInductive == NormSpec => []IInv
<1>1. NormInit => IInv
  BY InitInv
<1>2. IInv /\ [NormNext]_nvars => IInv'
  <2>1. ASSUME IInv, NormNext PROVE IInv'
    BY <2>1, TypeStep, LocalStep, FreshStep, LockStep, MetStep, SupersedeStep, ContentStep,
       SnapshotStep, OneRunStep, PassedStep DEF IInv
  <2> QED
    BY <2>1, StutterInv
<1> QED
  BY <1>1, <1>2, PTL DEF NormSpec

\* The tables keep their types and a match its transactions (the type invariant
\* of validate_file, normalize_file and run_matching's write).
THEOREM NormTypeCorrect == NormSpec => []NormTypeOK
<1>1. IInv => NormTypeOK
  BY DEF IInv
<1> QED
  BY <1>1, NormInductive, PTL

\* normalize_file's reruns supersede: rows of two runs stand beside each other
\* only when the runs overlapped.
THEOREM RerunsSupersede == NormSpec => []OneRunPerFile
<1>1. IInv => OneRunPerFile
  BY DEF IInv
<1> QED
  BY <1>1, NormInductive, PTL

\* validate_file and normalize_file agree on every content, except for numbers
\* that the tables cannot hold.
THEOREM ValidationSuffices == NormSpec => []PassedNormalizes
<1>1. IInv => PassedNormalizes
  BY DEF IInv
<1> QED
  BY <1>1, NormInductive, PTL

\* The foreign key of the match rows and the locks it takes keep a matched
\* file's transactions, however normalization and matching overlap.
THEOREM MatchedAreFrozen == NormSpec => FrozenByMatching
<1>1. IInv /\ [NormNext]_nvars =>
        [\A f \in Files : (\E t \in matched : t.file = f) => {t \in txns : t.file = f} \subseteq txns']_nvars
  BY FrozenStep DEF IInv
<1> QED
  BY <1>1, NormInductive, PTL DEF NormSpec, FrozenByMatching
=============================================================================
