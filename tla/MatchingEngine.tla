--------------------------- MODULE MatchingEngine ---------------------------
(***************************************************************************)
(* The two-pass matching algorithm of modules/matching/service.py, one     *)
(* step per POS order visited: MatchingService.run_matching up to the list *)
(* of rows it hands to _persist (MatchTable models what _persist does).    *)
(*                                                                         *)
(* Transactions are identified by numbers because the code uses nothing of *)
(* an id but its order.  A transaction's content is a record [ref, price,  *)
(* at]: ref is a raw reference <<text, spelling>> (two spellings of a text *)
(* differ in case or padding), price stands for (currency_code, amount)    *)
(* and at for occurred_at.  LocalDay is occurred_at.astimezone(tz).date(). *)
(***************************************************************************)
EXTENDS Integers, FiniteSets

CONSTANTS
  Pos, Plat,              \* ids of POS and of platform transactions
  PosInputs, PlatInputs,  \* contents a transaction of each side may have
  Instants,               \* values of occurred_at
  LocalDay,               \* the branch-local date of each instant
  DayWindow,              \* DAY_WINDOW
  Exact, Base, Decay, Floor,  \* confidence constants, in hundredths
  None                    \* SQL NULL

Content == [ref : {i.ref : i \in PosInputs \cup PlatInputs},
            price : {i.price : i \in PosInputs \cup PlatInputs},
            at : Instants]

ASSUME IdsAssumption == Pos \subseteq Nat /\ Plat \subseteq Nat /\ None \notin Nat
ASSUME InputsAssumption == PosInputs \subseteq Content /\ PlatInputs \subseteq Content
ASSUME TimeAssumption == /\ Instants \subseteq Int
                         /\ LocalDay \in [Instants -> Int]
                         /\ DayWindow \in Nat
ASSUME FiniteAssumption == IsFiniteSet(Pos) /\ IsFiniteSet(Plat)
ASSUME ConfidenceAssumption == {Exact, Base, Decay, Floor} \subseteq Nat

VARIABLES
  pos, plat,      \* the transactions read: id -> content
  pc,             \* where run_matching is
  todo,           \* POS orders the current pass has still to visit
  unmatchedPos,   \* keys of unmatched_pos
  unmatchedPlat,  \* keys of unmatched_platform
  index,          \* the fallback index: <<price, local date>> -> queue
  matches         \* the ReconciliationMatch rows built so far

inputs == <<pos, plat>>
vars == <<pos, plat, pc, todo, unmatchedPos, unmatchedPlat, index, matches>>

SwappedRow(p, q, c) == [pos |-> q, plat |-> p, confidence |-> c]  \* mutant
Row(p, q, c) == [pos |-> p, plat |-> q, confidence |-> c]

(***************************************************************************)
(* Orders and keys used by both passes.                                    *)
(***************************************************************************)
Distance(a, b) == IF a <= b THEN b - a ELSE a - b

\* sorted(..., key=lambda t: (t.occurred_at, t.id)): the next POS order.
Earlier(p, r) == pos[p].at < pos[r].at \/ (pos[p].at = pos[r].at /\ p <= r)
IsOldest(p, S) == p \in S /\ \A r \in S : Earlier(p, r)

RawReference(ref) == ref  \* mutant
NormalizeReference(ref) == ref[1]

\* platform_by_ref.get(ref), without the rows an earlier order has taken.
Candidates(p) ==
  {q \in unmatchedPlat : NormalizeReference(plat[q].ref) = NormalizeReference(pos[p].ref)}

\* min(candidates, key=lambda p: (abs(time difference), p.id))
AsClose(p, q, r) ==
  LET dq == Distance(plat[q].at, pos[p].at)
      dr == Distance(plat[r].at, pos[p].at)
  IN  dq < dr \/ (dq = dr /\ q <= r)

LowestCandidate(q, p) ==  \* mutant: the tie goes to the lowest id at once
  q \in Candidates(p) /\ \A r \in Candidates(p) : q <= r
IsClosest(q, p) == q \in Candidates(p) /\ \A r \in Candidates(p) : AsClose(p, q, r)

\* A platform row's place in the fallback index.
KeyOf(q) == <<plat[q].price, LocalDay[plat[q].at]>>

\* A deque filled in ascending id order and only popped from the left is the
\* set of what is left in it; its front is the smallest id.
Queue(key) == IF key \in DOMAIN index THEN index[key] ELSE {}

EarlierOnly(p, d) == Queue(<<pos[p].price, LocalDay[pos[p].at] - d>>)  \* mutant

\* What the index holds exactly d days before or after the POS order.
DaysAway(p, d) ==
  UNION {Queue(<<pos[p].price, LocalDay[pos[p].at] + off>>) : off \in {-d, d}}

AnyRowOfTheDay(q, d, p) ==  \* mutant: no tie break by id
  q \in DaysAway(p, d) /\ \A e \in 0..DayWindow : e < d => DaysAway(p, e) = {}

\* The nearest distance with a queue that is not empty, and there the smaller
\* of the fronts: the lowest id at that distance.
IsIndexPick(q, d, p) ==
  /\ d \in 0..DayWindow
  /\ q \in DaysAway(p, d)
  /\ \A e \in 0..DayWindow : e < d => DaysAway(p, e) = {}
  /\ \A r \in DaysAway(p, d) : q <= r

FallbackConfidence(d) ==
  IF Base - Decay * d >= Floor THEN Base - Decay * d ELSE Floor

(***************************************************************************)
(* run_matching                                                            *)
(***************************************************************************)
Init ==
  /\ \E P \in SUBSET Pos, Q \in SUBSET Plat :
       pos \in [P -> PosInputs] /\ plat \in [Q -> PlatInputs]
  /\ pc = "load"
  /\ todo = {} /\ unmatchedPos = {} /\ unmatchedPlat = {}
  /\ index = [key \in {} |-> {}] /\ matches = {}

\* Both sides must have transactions, or InsufficientTransactionsError.
Load ==
  /\ pc = "load" /\ DOMAIN pos # {} /\ DOMAIN plat # {}
  /\ pc' = "exact"
  /\ todo' = DOMAIN pos
  /\ unmatchedPos' = DOMAIN pos
  /\ unmatchedPlat' = DOMAIN plat
  /\ UNCHANGED <<inputs, index, matches>>

Reject ==
  /\ pc = "load" /\ (DOMAIN pos = {} \/ DOMAIN plat = {})
  /\ pc' = "rejected"
  /\ UNCHANGED <<inputs, todo, unmatchedPos, unmatchedPlat, index, matches>>

PairKeepingPlat(p, q, c) ==  \* mutant: del unmatched_platform forgotten
  /\ matches' = matches \cup {Row(p, q, c)}
  /\ unmatchedPos' = unmatchedPos \ {p}
  /\ UNCHANGED unmatchedPlat

\* Pairing p with q takes both out of the unmatched dictionaries.
Pair(p, q, c) ==
  /\ matches' = matches \cup {Row(p, q, c)}
  /\ unmatchedPos' = unmatchedPos \ {p}
  /\ unmatchedPlat' = unmatchedPlat \ {q}

\* Pass 1, one POS order: the closest platform row with the same reference.
ExactMatch(p) ==
  /\ pc = "exact" /\ IsOldest(p, todo)
  /\ \E q \in Plat : IsClosest(q, p) /\ Pair(p, q, Exact)
  /\ todo' = todo \ {p}
  /\ UNCHANGED <<inputs, pc, index>>

ExactSkip(p) ==
  /\ pc = "exact" /\ IsOldest(p, todo)
  /\ Candidates(p) = {}
  /\ todo' = todo \ {p}
  /\ UNCHANGED <<inputs, pc, unmatchedPos, unmatchedPlat, index, matches>>

\* Pass 2 starts by indexing every remaining platform row.
BuildIndex ==
  /\ pc = "exact" /\ todo = {}
  /\ pc' = "fallback"
  /\ todo' = unmatchedPos
  /\ index' = [key \in {KeyOf(q) : q \in unmatchedPlat} |->
                 {q \in unmatchedPlat : KeyOf(q) = key}]
  /\ UNCHANGED <<inputs, unmatchedPos, unmatchedPlat, matches>>

\* Pass 2, one POS order: take the front of the nearest non-empty queue.
FallbackMatch(p) ==
  /\ pc = "fallback" /\ IsOldest(p, todo)
  /\ \E q \in Plat, d \in 0..DayWindow :
       /\ IsIndexPick(q, d, p)
       /\ Pair(p, q, FallbackConfidence(d))
       /\ index' = [index EXCEPT ![KeyOf(q)] = @ \ {q}]
  /\ todo' = todo \ {p}
  /\ UNCHANGED <<inputs, pc>>

FallbackSkip(p) ==
  /\ pc = "fallback" /\ IsOldest(p, todo)
  /\ \A d \in 0..DayWindow : DaysAway(p, d) = {}
  /\ todo' = todo \ {p}
  /\ UNCHANGED <<inputs, pc, unmatchedPos, unmatchedPlat, index, matches>>

\* Pass 3: what is left on either side becomes a one-sided row.
RecordRemaining ==
  /\ pc = "fallback" /\ todo = {}
  /\ pc' = "recorded"
  /\ matches' = matches \cup {Row(p, None, None) : p \in unmatchedPos}
                        \cup {Row(None, q, None) : q \in unmatchedPlat}
  /\ UNCHANGED <<inputs, todo, unmatchedPos, unmatchedPlat, index>>

Next ==
  \/ Load
  \/ Reject
  \/ \E p \in Pos : ExactMatch(p)
  \/ \E p \in Pos : ExactSkip(p)
  \/ BuildIndex
  \/ \E p \in Pos : FallbackMatch(p)
  \/ \E p \in Pos : FallbackSkip(p)
  \/ RecordRemaining

Spec == Init /\ [][Next]_vars

(***************************************************************************)
(* Properties                                                              *)
(***************************************************************************)
Confidences == {Exact} \cup {FallbackConfidence(d) : d \in 0..DayWindow}
Rows == [pos : Pos \cup {None}, plat : Plat \cup {None}, confidence : Confidences \cup {None}]

\* Every variable of run_matching holds a value of its kind.
TypeOK ==
  /\ pc \in {"load", "exact", "fallback", "recorded", "rejected"}
  /\ DOMAIN pos \subseteq Pos /\ pos \in [DOMAIN pos -> PosInputs]
  /\ DOMAIN plat \subseteq Plat /\ plat \in [DOMAIN plat -> PlatInputs]
  /\ todo \subseteq unmatchedPos
  /\ unmatchedPos \subseteq DOMAIN pos
  /\ unmatchedPlat \subseteq DOMAIN plat
  /\ \A key \in DOMAIN index : index[key] \subseteq Plat
  /\ matches \subseteq Rows

RowsOfPos(p) == {m \in matches : m.pos = p}
RowsOfPlat(q) == {m \in matches : m.plat = q}
IsSingleton(S) == \E x \in S : S = {x}

\* Every transaction that was read ends in exactly one row, paired or
\* one-sided: none is dropped and none is settled against two others.
ExactlyOneRow ==
  pc = "recorded" => /\ \A p \in DOMAIN pos : IsSingleton(RowsOfPos(p))
                     /\ \A q \in DOMAIN plat : IsSingleton(RowsOfPlat(q))

SameText(p, q) == pos[p].ref[1] = plat[q].ref[1]
ExactPair(m) == m.confidence = Exact /\ SameText(m.pos, m.plat)

\* Two transactions with the same order reference, however it is spelled, are
\* never both left to the amount-and-date pass: one of them is in a reference
\* match, and every match of confidence 1.00 is between equal references.
ReferencePriority ==
  pc = "recorded" =>
    \A p \in DOMAIN pos, q \in DOMAIN plat : SameText(p, q) =>
      \E m \in RowsOfPos(p) \cup RowsOfPlat(q) : ExactPair(m)

\* One of two transactions with the same reference has what it prefers to the
\* other: the order a row as close or closer, or the row an earlier order.
Settled(p, q) ==
  \/ \E m \in RowsOfPos(p) : ExactPair(m) /\ AsClose(p, m.plat, q)
  \/ \E m \in RowsOfPlat(q) : ExactPair(m) /\ Earlier(m.pos, p)

\* Repeated references: an order gives up a settlement row of its reference only
\* for one that is closer in time (or as close, with a lower id) or to an order
\* that came before it; it is never left with the farther one, or with none,
\* because of how the duplicates happened to be listed.
ReferenceClosest ==
  pc = "recorded" =>
    \A p \in DOMAIN pos, q \in DOMAIN plat : SameText(p, q) => Settled(p, q)

\* What the scan over ALL remaining platform rows would consider for p, and
\* what it would choose (the algorithm the index replaced, kept by the tests).
DayDistance(p, q) == Distance(LocalDay[pos[p].at], LocalDay[plat[q].at])
InReach(p, q) == plat[q].price = pos[p].price /\ DayDistance(p, q) <= DayWindow
NoWorse(p, q, r) == \/ DayDistance(p, q) < DayDistance(p, r)
                    \/ DayDistance(p, q) = DayDistance(p, r) /\ q <= r
ScanPicks(p) == {q \in unmatchedPlat : /\ InReach(p, q)
                                       /\ \A r \in unmatchedPlat :
                                            InReach(p, r) => NoWorse(p, q, r)}
IndexPicks(p) == {q \in Plat : \E d \in 0..DayWindow : IsIndexPick(q, d, p)}

\* The indexed lookup chooses, for the POS order it is about to visit, what
\* the quadratic scan would choose ("The result is identical").
IndexAgreesWithScan ==
  pc = "fallback" => \A p \in todo : IsOldest(p, todo) => IndexPicks(p) = ScanPicks(p)

\* No settlement row is left over that some POS order should have been given:
\* an order within reach of it is matched, by reference or to a row no worse.
FallbackOptimal ==
  pc = "recorded" =>
    \A p \in DOMAIN pos, q \in unmatchedPlat : InReach(p, q) =>
      \E m \in RowsOfPos(p) : /\ m.plat # None
                              /\ ExactPair(m) \/ NoWorse(p, m.plat, q)
=============================================================================
