------------------------ MODULE MatchingEngineProofs ------------------------
(***************************************************************************)
(* What run_matching guarantees for any transactions, any calendar and any *)
(* window: every transaction ends in exactly one row, references go before *)
(* amounts, the index chooses what the scan would choose, and no platform  *)
(* row is left over that an order within reach could have had.             *)
(***************************************************************************)
EXTENDS MatchingEngine, FiniteSums, TLAPS

Running == pc \in {"exact", "fallback"}

\* While the passes run, an order without a row is unmatched and the other
\* way round, and every row built so far is a pair.
PassInv ==
  /\ Running =>
       /\ \A m \in matches : m.pos # None /\ m.plat # None
       /\ \A p \in DOMAIN pos : IF p \in unmatchedPos THEN RowsOfPos(p) = {}
                                                      ELSE IsSingleton(RowsOfPos(p))
       /\ \A q \in DOMAIN plat : IF q \in unmatchedPlat THEN RowsOfPlat(q) = {}
                                                        ELSE IsSingleton(RowsOfPlat(q))
  /\ pc = "load" => matches = {} /\ unmatchedPos = {} /\ unmatchedPlat = {}

\* The index holds exactly the unmatched platform rows, each under its key.
IndexInv ==
  pc = "fallback" =>
    /\ \A key \in DOMAIN index : index[key] = {q \in unmatchedPlat : KeyOf(q) = key}
    /\ \A q \in unmatchedPlat : KeyOf(q) \in DOMAIN index

\* Two transactions with one reference are settled, or pass 1 has both still
\* before it.
ReferenceInv ==
  Running =>
    \A p \in DOMAIN pos, q \in DOMAIN plat : SameText(p, q) =>
      Settled(p, q) \/ (pc = "exact" /\ p \in todo /\ q \in unmatchedPlat)

\* An order that pass 2 has been past is no worse off with its row than with
\* any platform row within reach that is still free.
ReachInv ==
  \A p \in DOMAIN pos, q \in unmatchedPlat : Running /\ InReach(p, q) =>
    \/ \E m \in RowsOfPos(p) : m.plat # None /\ (ExactPair(m) \/ NoWorse(p, m.plat, q))
    \/ p \in unmatchedPos /\ (pc = "exact" \/ p \in todo)

IInv == TypeOK /\ PassInv /\ IndexInv /\ ReferenceInv /\ ReachInv /\ ExactlyOneRow

USE IdsAssumption, InputsAssumption, TimeAssumption, ConfidenceAssumption

\* Every step keeps the types.
LEMMA TypeStep == TypeOK /\ [Next]_vars => TypeOK'
<1> SUFFICES ASSUME TypeOK, [Next]_vars PROVE TypeOK'
  OBVIOUS
<1> USE DEF TypeOK, inputs
<1>1. CASE Load BY <1>1 DEF Load
<1>2. CASE Reject BY <1>2 DEF Reject
<1>3. ASSUME NEW p \in Pos, ExactMatch(p) PROVE TypeOK'
  <2>1. PICK q \in Plat : IsClosest(q, p) /\ Pair(p, q, Exact)
    BY <1>3 DEF ExactMatch
  <2>2. Row(p, q, Exact) \in Rows
    BY DEF Row, Rows, Confidences
  <2> QED BY <1>3, <2>1, <2>2 DEF ExactMatch, Pair
<1>4. ASSUME NEW p \in Pos, ExactSkip(p) PROVE TypeOK'
  BY <1>4 DEF ExactSkip
<1>5. CASE BuildIndex
  BY <1>5 DEF BuildIndex
<1>6. ASSUME NEW p \in Pos, FallbackMatch(p) PROVE TypeOK'
  <2>1. PICK q \in Plat, d \in 0..DayWindow :
          /\ Pair(p, q, FallbackConfidence(d))
          /\ index' = [index EXCEPT ![KeyOf(q)] = @ \ {q}]
    BY <1>6 DEF FallbackMatch
  <2>2. Row(p, q, FallbackConfidence(d)) \in Rows
    BY DEF Row, Rows, Confidences
  <2>3. \A key \in DOMAIN index' : index'[key] \subseteq Plat
    BY <2>1
  <2> QED BY <1>6, <2>1, <2>2, <2>3 DEF FallbackMatch, Pair
<1>7. ASSUME NEW p \in Pos, FallbackSkip(p) PROVE TypeOK'
  BY <1>7 DEF FallbackSkip
<1>8. CASE RecordRemaining
  <2>1. \A p \in unmatchedPos : Row(p, None, None) \in Rows
    BY DEF Row, Rows
  <2>2. \A q \in unmatchedPlat : Row(None, q, None) \in Rows
    BY DEF Row, Rows
  <2> QED BY <1>8, <2>1, <2>2 DEF RecordRemaining
<1>9. CASE UNCHANGED vars BY <1>9 DEF vars
<1> QED BY <1>1, <1>2, <1>3, <1>4, <1>5, <1>6, <1>7, <1>8, <1>9 DEF Next

\* Any transactions read are of the right types.
LEMMA InitType == Init => TypeOK
<1> SUFFICES ASSUME Init PROVE TypeOK
  OBVIOUS
<1>1. PICK P \in SUBSET Pos, Q \in SUBSET Plat :
        pos \in [P -> PosInputs] /\ plat \in [Q -> PlatInputs]
  BY DEF Init
<1>2. DOMAIN pos = P /\ DOMAIN plat = Q
  BY <1>1
<1> QED BY <1>1, <1>2 DEF Init, TypeOK

(***************************************************************************)
(* Each transaction has one row.                                           *)
(***************************************************************************)
\* Pairing p with q gives each its only row and leaves the others alone.
LEMMA PairRows ==
  ASSUME TypeOK, PassInv, Running, NEW p \in unmatchedPos, NEW q \in unmatchedPlat,
         NEW c, Pair(p, q, c)
  PROVE  /\ \A m \in matches' : m.pos # None /\ m.plat # None
         /\ \A r \in DOMAIN pos : IF r \in unmatchedPos' THEN RowsOfPos(r)' = {}
                                                         ELSE IsSingleton(RowsOfPos(r))'
         /\ \A r \in DOMAIN plat : IF r \in unmatchedPlat' THEN RowsOfPlat(r)' = {}
                                                           ELSE IsSingleton(RowsOfPlat(r))'
<1> DEFINE new == Row(p, q, c)
<1>1. new.pos = p /\ new.plat = q /\ matches' = matches \cup {new}
  BY DEF Row, Pair
<1>2. p \in Nat /\ q \in Nat /\ p # None /\ q # None
  BY DEF TypeOK
<1>3. \A r \in DOMAIN pos : RowsOfPos(r)' = IF r = p THEN RowsOfPos(r) \cup {new} ELSE RowsOfPos(r)
  BY <1>1 DEF RowsOfPos
<1>4. \A r \in DOMAIN plat : RowsOfPlat(r)' = IF r = q THEN RowsOfPlat(r) \cup {new} ELSE RowsOfPlat(r)
  BY <1>1 DEF RowsOfPlat
<1>5. unmatchedPos' = unmatchedPos \ {p} /\ unmatchedPlat' = unmatchedPlat \ {q}
  BY DEF Pair
<1>6. RowsOfPos(p)' = {new} /\ RowsOfPlat(q)' = {new}
  BY <1>3, <1>4 DEF PassInv, TypeOK
<1> HIDE DEF new
<1>7. \A m \in matches' : m.pos # None /\ m.plat # None
  BY <1>1, <1>2 DEF PassInv
<1>8. \A r \in DOMAIN pos : IF r \in unmatchedPos' THEN RowsOfPos(r)' = {}
                                                   ELSE IsSingleton(RowsOfPos(r))'
  BY <1>3, <1>5, <1>6 DEF PassInv, IsSingleton
<1>9. \A r \in DOMAIN plat : IF r \in unmatchedPlat' THEN RowsOfPlat(r)' = {}
                                                     ELSE IsSingleton(RowsOfPlat(r))'
  BY <1>4, <1>5, <1>6 DEF PassInv, IsSingleton
<1> QED BY <1>7, <1>8, <1>9

\* Pass 3 gives each transaction still unmatched its only row.
LEMMA RemainingRows ==
  ASSUME TypeOK, PassInv, RecordRemaining
  PROVE  /\ \A p \in DOMAIN pos : IsSingleton(RowsOfPos(p))'
         /\ \A q \in DOMAIN plat : IsSingleton(RowsOfPlat(q))'
<1>1. Running
  BY DEF RecordRemaining, Running
<1>2. matches' = matches \cup {Row(p, None, None) : p \in unmatchedPos}
                         \cup {Row(None, q, None) : q \in unmatchedPlat}
  BY DEF RecordRemaining
<1>3. /\ \A p \in unmatchedPos : Row(p, None, None).pos = p /\ Row(p, None, None).plat = None
      /\ \A q \in unmatchedPlat : Row(None, q, None).plat = q /\ Row(None, q, None).pos = None
  BY DEF Row
<1>4. None \notin DOMAIN pos /\ None \notin DOMAIN plat
  BY DEF TypeOK
<1>5. ASSUME NEW p \in DOMAIN pos PROVE IsSingleton(RowsOfPos(p))'
  <2>1. CASE p \in unmatchedPos
    <3>1. RowsOfPos(p) = {}
      BY <1>1, <2>1 DEF PassInv
    <3>2. \A m \in matches' : m.pos = p => m = Row(p, None, None)
      BY <1>2, <1>3, <1>4, <3>1 DEF RowsOfPos
    <3>3. Row(p, None, None) \in matches'
      BY <1>2, <2>1
    <3>4. RowsOfPos(p)' = {Row(p, None, None)}
      BY <1>3, <2>1, <3>2, <3>3 DEF RowsOfPos
    <3> QED BY <3>4 DEF IsSingleton
  <2>2. CASE p \notin unmatchedPos
    <3>1. RowsOfPos(p)' = RowsOfPos(p)
      BY <1>2, <1>3, <1>4, <2>2 DEF RowsOfPos
    <3> QED BY <1>1, <2>2, <3>1 DEF IsSingleton, PassInv
  <2> QED BY <2>1, <2>2
<1>6. ASSUME NEW q \in DOMAIN plat PROVE IsSingleton(RowsOfPlat(q))'
  <2>1. CASE q \in unmatchedPlat
    <3>1. RowsOfPlat(q) = {}
      BY <1>1, <2>1 DEF PassInv
    <3>2. \A m \in matches' : m.plat = q => m = Row(None, q, None)
      BY <1>2, <1>3, <1>4, <3>1 DEF RowsOfPlat
    <3>3. Row(None, q, None) \in matches'
      BY <1>2, <2>1
    <3>4. RowsOfPlat(q)' = {Row(None, q, None)}
      BY <1>3, <2>1, <3>2, <3>3 DEF RowsOfPlat
    <3> QED BY <3>4 DEF IsSingleton
  <2>2. CASE q \notin unmatchedPlat
    <3>1. RowsOfPlat(q)' = RowsOfPlat(q)
      BY <1>2, <1>3, <1>4, <2>2 DEF RowsOfPlat
    <3> QED BY <1>1, <2>2, <3>1 DEF IsSingleton, PassInv
  <2> QED BY <2>1, <2>2
<1> QED BY <1>5, <1>6

\* Every step keeps the unmatched sets and the rows in agreement.
LEMMA PassStep ==
  TypeOK /\ PassInv /\ IndexInv /\ ExactlyOneRow /\ [Next]_vars => PassInv' /\ ExactlyOneRow'
<1> SUFFICES ASSUME TypeOK, PassInv, IndexInv, ExactlyOneRow, [Next]_vars
             PROVE  PassInv' /\ ExactlyOneRow'
  OBVIOUS
<1>1. CASE Load
  BY <1>1 DEF Load, PassInv, ExactlyOneRow, Running, RowsOfPos, RowsOfPlat, inputs
<1>2. CASE Reject
  BY <1>2 DEF Reject, PassInv, ExactlyOneRow, Running
<1>3. ASSUME NEW p \in Pos, ExactMatch(p) PROVE PassInv' /\ ExactlyOneRow'
  <2>1. PICK q \in Plat : IsClosest(q, p) /\ Pair(p, q, Exact)
    BY <1>3 DEF ExactMatch
  <2>2. p \in unmatchedPos /\ q \in unmatchedPlat /\ Running
    BY <1>3, <2>1 DEF ExactMatch, IsOldest, IsClosest, Candidates, TypeOK, Running
  <2>3. pc' = "exact" /\ pos' = pos /\ plat' = plat
    BY <1>3 DEF ExactMatch, inputs
  <2> QED BY <2>1, <2>2, <2>3, PairRows DEF PassInv, ExactlyOneRow
<1>4. ASSUME NEW p \in Pos, ExactSkip(p) PROVE PassInv' /\ ExactlyOneRow'
  BY <1>4 DEF ExactSkip, PassInv, ExactlyOneRow, Running, RowsOfPos, RowsOfPlat, inputs
<1>5. CASE BuildIndex
  BY <1>5 DEF BuildIndex, PassInv, ExactlyOneRow, Running, RowsOfPos, RowsOfPlat, inputs
<1>6. ASSUME NEW p \in Pos, FallbackMatch(p) PROVE PassInv' /\ ExactlyOneRow'
  <2>1. PICK q \in Plat, d \in 0..DayWindow :
          IsIndexPick(q, d, p) /\ Pair(p, q, FallbackConfidence(d))
    BY <1>6 DEF FallbackMatch
  <2>2. p \in unmatchedPos /\ Running
    BY <1>6 DEF FallbackMatch, IsOldest, TypeOK, Running
  <2>3. q \in unmatchedPlat
    BY <1>6, <2>1 DEF FallbackMatch, IsIndexPick, DaysAway, Queue, IndexInv
  <2>4. pc' = "fallback" /\ pos' = pos /\ plat' = plat
    BY <1>6 DEF FallbackMatch, inputs
  <2> QED BY <2>1, <2>2, <2>3, <2>4, PairRows DEF PassInv, ExactlyOneRow
<1>7. ASSUME NEW p \in Pos, FallbackSkip(p) PROVE PassInv' /\ ExactlyOneRow'
  BY <1>7 DEF FallbackSkip, PassInv, ExactlyOneRow, Running, RowsOfPos, RowsOfPlat, inputs
<1>8. CASE RecordRemaining
  <2>1. pc' = "recorded" /\ pos' = pos /\ plat' = plat
    BY <1>8 DEF RecordRemaining, inputs
  <2> QED BY <1>8, <2>1, RemainingRows DEF PassInv, ExactlyOneRow, Running
<1>9. CASE UNCHANGED vars
  BY <1>9 DEF vars, PassInv, ExactlyOneRow, Running, RowsOfPos, RowsOfPlat
<1> QED BY <1>1, <1>2, <1>3, <1>4, <1>5, <1>6, <1>7, <1>8, <1>9 DEF Next

(***************************************************************************)
(* The index is the unmatched platform rows.                               *)
(***************************************************************************)
\* Every step keeps the index to the unmatched platform rows.
LEMMA IndexStep == TypeOK /\ IndexInv /\ [Next]_vars => IndexInv'
<1> SUFFICES ASSUME TypeOK, IndexInv, [Next]_vars PROVE IndexInv'
  OBVIOUS
<1>1. CASE Load BY <1>1 DEF Load, IndexInv
<1>2. CASE Reject BY <1>2 DEF Reject, IndexInv
<1>3. ASSUME NEW p \in Pos, ExactMatch(p) PROVE IndexInv'
  BY <1>3 DEF ExactMatch, IndexInv
<1>4. ASSUME NEW p \in Pos, ExactSkip(p) PROVE IndexInv'
  BY <1>4 DEF ExactSkip, IndexInv
<1>5. CASE BuildIndex
  BY <1>5 DEF BuildIndex, IndexInv, KeyOf, inputs
<1>6. ASSUME NEW p \in Pos, FallbackMatch(p) PROVE IndexInv'
  <2>1. PICK q \in Plat, d \in 0..DayWindow :
          /\ unmatchedPlat' = unmatchedPlat \ {q}
          /\ index' = [index EXCEPT ![KeyOf(q)] = @ \ {q}]
    BY <1>6 DEF FallbackMatch, Pair
  <2>2. plat' = plat /\ pc = "fallback"
    BY <1>6 DEF FallbackMatch, inputs
  <2>3. \A r : KeyOf(r)' = KeyOf(r)
    BY <2>2 DEF KeyOf
  <2> QED BY <2>1, <2>2, <2>3 DEF IndexInv
<1>7. ASSUME NEW p \in Pos, FallbackSkip(p) PROVE IndexInv'
  BY <1>7 DEF FallbackSkip, IndexInv, KeyOf, inputs
<1>8. CASE RecordRemaining BY <1>8 DEF RecordRemaining, IndexInv
<1>9. CASE UNCHANGED vars BY <1>9 DEF vars, IndexInv, KeyOf
<1> QED BY <1>1, <1>2, <1>3, <1>4, <1>5, <1>6, <1>7, <1>8, <1>9 DEF Next

\* What lies d days away in the index is what is unmatched, has the order's
\* price and is d days away from it.
LEMMA DaysAwayMeaning ==
  ASSUME TypeOK, IndexInv, pc = "fallback", NEW p \in DOMAIN pos, NEW d \in Nat, NEW q \in Plat
  PROVE  q \in DaysAway(p, d) <=>
           q \in unmatchedPlat /\ plat[q].price = pos[p].price /\ DayDistance(p, q) = d
<1> DEFINE key(off) == <<pos[p].price, LocalDay[pos[p].at] + off>>
<1>1. LocalDay[pos[p].at] \in Int
  BY DEF TypeOK, Content
<1>2. q \in unmatchedPlat => LocalDay[plat[q].at] \in Int
  BY DEF TypeOK, Content
<1>3. \A k : q \in Queue(k) <=> q \in unmatchedPlat /\ KeyOf(q) = k
  BY DEF Queue, IndexInv
<1>4. q \in DaysAway(p, d) <=> q \in Queue(key(-d)) \/ q \in Queue(key(d))
  BY DEF DaysAway
<1>5. \A off \in Int : q \in Queue(key(off)) <=>
        /\ q \in unmatchedPlat /\ plat[q].price = pos[p].price
        /\ LocalDay[plat[q].at] = LocalDay[pos[p].at] + off
  BY <1>3 DEF KeyOf
<1> HIDE DEF key
<1> QED BY <1>1, <1>2, <1>4, <1>5 DEF DayDistance, Distance

(***************************************************************************)
(* The index and the scan agree.                                           *)
(***************************************************************************)
\* The lookup in the index chooses what the scan chooses.
LEMMA IndexPicksScan ==
  ASSUME TypeOK, IndexInv, pc = "fallback", NEW p \in DOMAIN pos
  PROVE  IndexPicks(p) = ScanPicks(p)
<1> USE DEF InReach, NoWorse
<1>1. \A q \in unmatchedPlat : DayDistance(p, q) \in Nat
  BY DEF TypeOK, Content, DayDistance, Distance
<1>2. \A q \in Plat, d \in 0..DayWindow : q \in DaysAway(p, d) <=>
        q \in unmatchedPlat /\ InReach(p, q) /\ DayDistance(p, q) = d
  <2> SUFFICES ASSUME NEW q \in Plat, NEW d \in 0..DayWindow
               PROVE  q \in DaysAway(p, d) <=>
                        q \in unmatchedPlat /\ InReach(p, q) /\ DayDistance(p, q) = d
    OBVIOUS
  <2>1. d \in Nat /\ d <= DayWindow
    OBVIOUS
  <2>2. q \in DaysAway(p, d) <=>
          q \in unmatchedPlat /\ plat[q].price = pos[p].price /\ DayDistance(p, q) = d
    BY <2>1, DaysAwayMeaning
  <2> QED BY <2>1, <2>2
<1>3. \A d \in 0..DayWindow : DaysAway(p, d) \subseteq Plat
  BY DEF DaysAway, Queue, TypeOK
<1>4. unmatchedPlat \subseteq Plat /\ Plat \subseteq Nat
  BY DEF TypeOK
<1>5. ASSUME NEW q \in IndexPicks(p) PROVE q \in ScanPicks(p)
  <2>1. PICK d \in 0..DayWindow : q \in Plat /\ IsIndexPick(q, d, p)
    BY <1>5 DEF IndexPicks
  <2>2. q \in unmatchedPlat /\ InReach(p, q) /\ DayDistance(p, q) = d
    BY <1>2, <2>1 DEF IsIndexPick
  <2>3. ASSUME NEW r \in unmatchedPlat, InReach(p, r) PROVE NoWorse(p, q, r)
    <3>1. DayDistance(p, r) \in 0..DayWindow /\ r \in DaysAway(p, DayDistance(p, r))
      BY <1>1, <1>2, <1>4, <2>3
    <3>2. ~ DayDistance(p, r) < d
      BY <2>1, <3>1 DEF IsIndexPick
    <3>3. DayDistance(p, r) = d => q <= r
      BY <2>1, <3>1 DEF IsIndexPick
    <3> QED BY <1>1, <2>2, <3>1, <3>2, <3>3
  <2> QED BY <2>2, <2>3 DEF ScanPicks
<1>6. ASSUME NEW q \in ScanPicks(p) PROVE q \in IndexPicks(p)
  <2>1. q \in unmatchedPlat /\ InReach(p, q) /\ q \in Plat
    BY <1>4, <1>6 DEF ScanPicks
  <2>2. \A r \in unmatchedPlat : InReach(p, r) => NoWorse(p, q, r)
    BY <1>6 DEF ScanPicks
  <2>3. DayDistance(p, q) \in 0..DayWindow /\ q \in DaysAway(p, DayDistance(p, q))
    BY <1>1, <1>2, <2>1
  <2>4. ASSUME NEW e \in 0..DayWindow, e < DayDistance(p, q), NEW r \in DaysAway(p, e)
        PROVE  FALSE
    <3>1. r \in unmatchedPlat /\ InReach(p, r) /\ DayDistance(p, r) = e
      BY <1>2, <1>3
    <3> QED BY <2>2, <2>3, <2>4, <3>1
  <2>5. ASSUME NEW r \in DaysAway(p, DayDistance(p, q)) PROVE q <= r
    <3>1. r \in unmatchedPlat /\ InReach(p, r) /\ DayDistance(p, r) = DayDistance(p, q)
      BY <1>2, <1>3, <2>3
    <3> QED BY <2>2, <2>3, <3>1
  <2> QED BY <2>1, <2>3, <2>4, <2>5 DEF IndexPicks, IsIndexPick
<1> QED BY <1>5, <1>6

(***************************************************************************)
(* References go before amounts.                                           *)
(***************************************************************************)
\* What was settled stays so, because no row leaves the list.
LEMMA StaysSettled ==
  ASSUME pos' = pos, plat' = plat, matches \subseteq matches', NEW p, NEW q, Settled(p, q)
  PROVE  Settled(p, q)'
BY DEF Settled, RowsOfPos, RowsOfPlat, ExactPair, SameText, AsClose, Distance, Earlier

\* Every step keeps equal references settled or ahead of pass 1.
LEMMA ReferenceStep == TypeOK /\ ReferenceInv /\ [Next]_vars => ReferenceInv'
<1> SUFFICES ASSUME TypeOK, ReferenceInv, [Next]_vars PROVE ReferenceInv'
  OBVIOUS
<1> USE DEF Running, inputs
<1>1. ASSUME pos' = pos, plat' = plat, matches \subseteq matches', Running,
             \A p \in DOMAIN pos, q \in DOMAIN plat :
               SameText(p, q) /\ pc = "exact" /\ p \in todo /\ q \in unmatchedPlat
                 => \/ Settled(p, q)'
                    \/ pc' = "exact" /\ p \in todo' /\ q \in unmatchedPlat'
      PROVE  ReferenceInv'
  BY <1>1, StaysSettled DEF ReferenceInv, SameText
<1>2. CASE Load
  BY <1>2 DEF Load, ReferenceInv, SameText
<1>3. CASE Reject BY <1>3 DEF Reject, ReferenceInv
<1>4. ASSUME NEW r \in Pos, ExactMatch(r) PROVE ReferenceInv'
  <2>1. PICK s \in Plat : IsClosest(s, r) /\ Pair(r, s, Exact)
    BY <1>4 DEF ExactMatch
  <2>2. pos' = pos /\ plat' = plat /\ pc = "exact" /\ pc' = "exact" /\ todo' = todo \ {r}
    BY <1>4 DEF ExactMatch
  <2>3. Row(r, s, Exact) \in matches' /\ matches \subseteq matches'
        /\ unmatchedPlat' = unmatchedPlat \ {s}
    BY <2>1 DEF Pair
  <2>4. ExactPair(Row(r, s, Exact)) /\ Row(r, s, Exact).pos = r /\ Row(r, s, Exact).plat = s
    BY <2>1 DEF ExactPair, Row, SameText, IsClosest, Candidates, NormalizeReference
  <2>5. ExactPair(Row(r, s, Exact))'
    BY <2>2, <2>4 DEF ExactPair, SameText
  <2>6. ASSUME NEW p \in todo, NEW q \in unmatchedPlat, SameText(p, q), p = r PROVE Settled(p, q)'
    <3>1. AsClose(r, s, q)
      BY <2>1, <2>6 DEF IsClosest, Candidates, NormalizeReference, SameText
    <3>2. AsClose(r, s, q)'
      BY <2>2, <3>1 DEF AsClose, Distance
    <3> QED BY <2>3, <2>4, <2>5, <2>6, <3>2 DEF Settled, RowsOfPos
  <2>7. ASSUME NEW p \in todo, NEW q \in unmatchedPlat, q = s PROVE Settled(p, q)'
    <3>1. Earlier(r, p)
      BY <1>4 DEF ExactMatch, IsOldest
    <3>2. Earlier(r, p)'
      BY <2>2, <3>1 DEF Earlier
    <3> QED BY <2>3, <2>4, <2>5, <2>7, <3>2 DEF Settled, RowsOfPlat
  <2> QED BY <1>1, <2>2, <2>3, <2>6, <2>7
<1>5. ASSUME NEW r \in Pos, ExactSkip(r) PROVE ReferenceInv'
  <2>1. /\ pos' = pos /\ plat' = plat /\ pc = "exact" /\ pc' = "exact" /\ matches' = matches
        /\ todo' = todo \ {r} /\ unmatchedPlat' = unmatchedPlat
    BY <1>5 DEF ExactSkip
  <2>2. \A q \in unmatchedPlat : ~ SameText(r, q)
    BY <1>5 DEF ExactSkip, Candidates, NormalizeReference, SameText
  <2> QED BY <1>1, <2>1, <2>2
<1>6. CASE BuildIndex
  BY <1>1, <1>6 DEF BuildIndex, ReferenceInv, SameText
<1>7. ASSUME NEW r \in Pos, FallbackMatch(r) PROVE ReferenceInv'
  BY <1>1, <1>7 DEF FallbackMatch, ReferenceInv, Pair, SameText
<1>8. ASSUME NEW r \in Pos, FallbackSkip(r) PROVE ReferenceInv'
  BY <1>1, <1>8 DEF FallbackSkip, ReferenceInv, SameText
<1>9. CASE RecordRemaining BY <1>9 DEF RecordRemaining, ReferenceInv
<1>10. CASE UNCHANGED vars
  BY <1>1, <1>10 DEF vars, ReferenceInv, SameText
<1> QED BY <1>2, <1>3, <1>4, <1>5, <1>6, <1>7, <1>8, <1>9, <1>10 DEF Next

(***************************************************************************)
(* No platform row within reach is left over.                              *)
(***************************************************************************)
Served(p, q) == \E m \in RowsOfPos(p) :
                  m.plat # None /\ (ExactPair(m) \/ NoWorse(p, m.plat, q))

\* Every step keeps the orders behind pass 2 no worse off.
LEMMA ReachStep ==
  TypeOK /\ PassInv /\ IndexInv /\ ReachInv /\ [Next]_vars => ReachInv'
<1> SUFFICES ASSUME TypeOK, PassInv, IndexInv, ReachInv, [Next]_vars PROVE ReachInv'
  OBVIOUS
<1> USE DEF Running, inputs
<1>1. ASSUME pos' = pos, plat' = plat
      PROVE  \A p, q : /\ InReach(p, q)' = InReach(p, q)
                       /\ matches \subseteq matches' /\ Served(p, q) => Served(p, q)'
  BY <1>1 DEF InReach, NoWorse, DayDistance, RowsOfPos, ExactPair, SameText, Served
<1>2. ReachInv' <=>
        \A p \in DOMAIN pos', q \in unmatchedPlat' : Running' /\ InReach(p, q)' =>
          Served(p, q)' \/ (p \in unmatchedPos' /\ (pc' = "exact" \/ p \in todo'))
  BY DEF ReachInv, Served
<1>3. \A p \in DOMAIN pos, q \in unmatchedPlat : Running /\ InReach(p, q) =>
        Served(p, q) \/ (p \in unmatchedPos /\ (pc = "exact" \/ p \in todo))
  BY DEF ReachInv, Served
<1>4. CASE Load
  BY <1>2, <1>4 DEF Load
<1>5. CASE Reject BY <1>2, <1>5 DEF Reject
<1>6. ASSUME NEW r \in Pos, ExactMatch(r) PROVE ReachInv'
  <2>1. PICK s \in Plat : IsClosest(s, r) /\ Pair(r, s, Exact)
    BY <1>6 DEF ExactMatch
  <2>2. pos' = pos /\ plat' = plat /\ pc = "exact" /\ pc' = "exact"
    BY <1>6 DEF ExactMatch
  <2>3. /\ Row(r, s, Exact) \in matches' /\ matches \subseteq matches'
        /\ unmatchedPlat' = unmatchedPlat \ {s} /\ unmatchedPos' = unmatchedPos \ {r}
    BY <2>1 DEF Pair
  <2>4. ExactPair(Row(r, s, Exact)) /\ Row(r, s, Exact).pos = r /\ Row(r, s, Exact).plat = s
    BY <2>1 DEF ExactPair, Row, SameText, IsClosest, Candidates, NormalizeReference
  <2>5. s # None
    BY DEF TypeOK
  <2>6. \A q : Served(r, q)'
    BY <2>2, <2>3, <2>4, <2>5 DEF Served, RowsOfPos, ExactPair, SameText
  <2> QED BY <1>1, <1>2, <1>3, <2>2, <2>3, <2>6
<1>7. ASSUME NEW r \in Pos, ExactSkip(r) PROVE ReachInv'
  BY <1>1, <1>2, <1>3, <1>7 DEF ExactSkip
<1>8. CASE BuildIndex
  BY <1>1, <1>2, <1>3, <1>8 DEF BuildIndex
<1>9. ASSUME NEW r \in Pos, FallbackMatch(r) PROVE ReachInv'
  <2>1. PICK s \in Plat, d \in 0..DayWindow :
          IsIndexPick(s, d, r) /\ Pair(r, s, FallbackConfidence(d))
    BY <1>9 DEF FallbackMatch
  <2>2. /\ pos' = pos /\ plat' = plat /\ pc = "fallback" /\ pc' = "fallback"
        /\ todo' = todo \ {r} /\ r \in DOMAIN pos
    BY <1>9 DEF FallbackMatch, IsOldest, TypeOK
  <2>3. /\ Row(r, s, FallbackConfidence(d)) \in matches' /\ matches \subseteq matches'
        /\ unmatchedPlat' = unmatchedPlat \ {s} /\ unmatchedPos' = unmatchedPos \ {r}
    BY <2>1 DEF Pair
  <2>4. Row(r, s, FallbackConfidence(d)).pos = r /\ Row(r, s, FallbackConfidence(d)).plat = s
    BY DEF Row
  <2>5. s \in ScanPicks(r) /\ s # None
    BY <2>1, <2>2, IndexPicksScan DEF IndexPicks, TypeOK
  <2>6. \A q \in unmatchedPlat : InReach(r, q) => NoWorse(r, s, q)
    BY <2>5 DEF ScanPicks
  <2>7. \A q \in unmatchedPlat : InReach(r, q) => Served(r, q)'
    BY <2>2, <2>3, <2>4, <2>5, <2>6 DEF Served, RowsOfPos, NoWorse, DayDistance
  <2> QED BY <1>1, <1>2, <1>3, <2>2, <2>3, <2>7
<1>10. ASSUME NEW r \in Pos, FallbackSkip(r) PROVE ReachInv'
  <2>1. /\ pos' = pos /\ plat' = plat /\ pc = "fallback" /\ pc' = "fallback"
        /\ matches' = matches /\ unmatchedPlat' = unmatchedPlat /\ unmatchedPos' = unmatchedPos
        /\ todo' = todo \ {r} /\ r \in DOMAIN pos
    BY <1>10 DEF FallbackSkip, IsOldest, TypeOK
  <2>2. ASSUME NEW q \in unmatchedPlat, InReach(r, q) PROVE FALSE
    <3>1. DayDistance(r, q) \in 0..DayWindow /\ q \in Plat
      BY <2>1, <2>2 DEF InReach, DayDistance, Distance, TypeOK, Content
    <3>2. q \in DaysAway(r, DayDistance(r, q))
      BY <2>1, <2>2, <3>1, DaysAwayMeaning DEF InReach
    <3> QED BY <1>10, <3>1, <3>2 DEF FallbackSkip
  <2> QED BY <1>1, <1>2, <1>3, <2>1, <2>2
<1>11. CASE RecordRemaining BY <1>2, <1>11 DEF RecordRemaining
<1>12. CASE UNCHANGED vars
  BY <1>1, <1>2, <1>3, <1>12 DEF vars
<1> QED BY <1>4, <1>5, <1>6, <1>7, <1>8, <1>9, <1>10, <1>11, <1>12 DEF Next

\* The last step records what is left: nothing else can break the two final
\* properties, which hold of the rows once pass 3 has added its own.
LEMMA FinalStep ==
  TypeOK /\ PassInv /\ ReferenceInv /\ ReachInv /\ ReferenceClosest /\ FallbackOptimal
    /\ [Next]_vars => ReferenceClosest' /\ FallbackOptimal'
<1> SUFFICES ASSUME TypeOK, PassInv, ReferenceInv, ReachInv, ReferenceClosest,
                    FallbackOptimal, [Next]_vars
             PROVE  ReferenceClosest' /\ FallbackOptimal'
  OBVIOUS
<1>1. CASE RecordRemaining
  <2>1. /\ pc = "fallback" /\ todo = {} /\ matches \subseteq matches' /\ Running
        /\ pos' = pos /\ plat' = plat /\ unmatchedPlat' = unmatchedPlat
    BY <1>1 DEF RecordRemaining, inputs, Running
  <2>2. \A p \in DOMAIN pos, q \in DOMAIN plat : SameText(p, q) => Settled(p, q)
    BY <2>1 DEF ReferenceInv
  <2>3. \A p \in DOMAIN pos, q \in unmatchedPlat : InReach(p, q) => Served(p, q)
    BY <2>1 DEF ReachInv, Served
  <2>4. ReferenceClosest'
    BY <2>1, <2>2, StaysSettled DEF ReferenceClosest, SameText
  <2>5. FallbackOptimal'
    BY <2>1, <2>3 DEF FallbackOptimal, Served, RowsOfPos, ExactPair, SameText,
                      InReach, NoWorse, DayDistance
  <2> QED BY <2>4, <2>5
<1>2. CASE UNCHANGED vars
  <2>1. ReferenceClosest'
    BY <1>2, StaysSettled DEF vars, ReferenceClosest, SameText
  <2> QED
    BY <1>2, <2>1 DEF vars, FallbackOptimal, RowsOfPos, ExactPair, SameText, InReach, NoWorse, DayDistance
<1>3. CASE ~ RecordRemaining /\ ~ UNCHANGED vars
  <2>1. pc' # "recorded"
    BY <1>3 DEF Next, Load, Reject, ExactMatch, ExactSkip, BuildIndex, FallbackMatch, FallbackSkip
  <2> QED BY <2>1 DEF ReferenceClosest, FallbackOptimal
<1> QED BY <1>1, <1>2, <1>3

(***************************************************************************)
(* Every choice has one outcome.                                           *)
(***************************************************************************)
\* Of finitely many rows, one comes first in the order of f and then of id.
LEMMA OneIsFirst ==
  ASSUME NEW S, IsFiniteSet(S), S \subseteq Nat, S # {}, NEW f \in [S -> Int]
  PROVE  IsSingleton({p \in S : \A r \in S : f[p] < f[r] \/ (f[p] = f[r] /\ p <= r)})
<1> DEFINE Before(p, r) == f[p] < f[r] \/ (f[p] = f[r] /\ p <= r)
           C == {T \in SUBSET S : T # {} => \E p \in T : \A r \in T : Before(p, r)}
<1>1. {} \in C
  OBVIOUS
<1>2. ASSUME NEW T \in SUBSET S, T \in C, NEW x \in S \ T PROVE T \cup {x} \in C
  <2>1. CASE T = {}
    <3>1. Before(x, x)
      OBVIOUS
    <3> QED BY <2>1, <3>1
  <2>2. CASE T # {}
    <3>1. PICK p \in T : \A r \in T : Before(p, r)
      BY <1>2, <2>2
    <3>2. CASE Before(p, x)
      BY <3>1, <3>2
    <3>3. CASE ~ Before(p, x)
      <4>1. \A r \in T : Before(x, r)
        BY <3>1, <3>3
      <4>2. Before(x, x)
        OBVIOUS
      <4> HIDE DEF Before
      <4> QED BY <4>1, <4>2
    <3> QED BY <3>2, <3>3
  <2> QED BY <2>1, <2>2
<1>3. S \in C
  <2> HIDE DEF C
  <2> QED BY <1>1, <1>2, AddInduction
<1>4. PICK p \in S : \A r \in S : Before(p, r)
  BY <1>3
<1>5. \A r \in S : Before(r, p) => r = p
  BY <1>4
<1>6. {q \in S : \A r \in S : Before(q, r)} = {p}
  <2> HIDE DEF Before
  <2> QED BY <1>4, <1>5
<1> QED BY <1>6 DEF IsSingleton

\* The order a pass visits next, the row pass 1 pairs with an order, and the
\* row and distance pass 2 finds for it.
NextOrders == {p \in todo : IsOldest(p, todo)}
ClosestRows(p) == {q \in Plat : IsClosest(q, p)}
IndexHits(p) == {c \in Plat \X (0..DayWindow) : IsIndexPick(c[1], c[2], p)}

\* As long as the passes run, each choice there is to make has exactly one
\* outcome: a run is never stuck, and its rows follow from the transactions
\* read, whatever order the database returns them in.
ChoicesDetermined ==
  /\ Running /\ todo # {} => IsSingleton(NextOrders)
  /\ pc = "exact" => \A p \in todo : Candidates(p) # {} => IsSingleton(ClosestRows(p))
  /\ pc = "fallback" => \A p \in todo :
       (\E d \in 0..DayWindow : DaysAway(p, d) # {}) => IsSingleton(IndexHits(p))

\* The sort key and both tie-breaks end with the id.
LEMMA ChoicesFromInv == ASSUME TypeOK, IndexInv PROVE ChoicesDetermined
<1>1. /\ todo \subseteq DOMAIN pos /\ todo \subseteq Nat /\ IsFiniteSet(todo)
      /\ unmatchedPlat \subseteq Plat /\ unmatchedPlat \subseteq Nat /\ IsFiniteSet(unmatchedPlat)
  <2>1. todo \subseteq Pos /\ unmatchedPlat \subseteq Plat /\ todo \subseteq DOMAIN pos
    BY DEF TypeOK
  <2> QED BY <2>1, FiniteAssumption, FS_Subset
<1>2. \A p \in todo : pos[p].at \in Int
  BY DEF TypeOK, Content
<1>3. \A p \in todo, q \in unmatchedPlat : DayDistance(p, q) \in Nat /\ Distance(plat[q].at, pos[p].at) \in Nat
  BY DEF TypeOK, Content, DayDistance, Distance
<1>4. ASSUME todo # {} PROVE IsSingleton(NextOrders)
  <2> DEFINE f == [p \in todo |-> pos[p].at]
  <2>1. f \in [todo -> Int]
    BY <1>2
  <2>2. IsSingleton({p \in todo : \A r \in todo : f[p] < f[r] \/ (f[p] = f[r] /\ p <= r)})
    <3> HIDE DEF f
    <3> QED BY <1>1, <1>4, <2>1, OneIsFirst
  <2>3. NextOrders = {p \in todo : \A r \in todo : f[p] < f[r] \/ (f[p] = f[r] /\ p <= r)}
    BY DEF NextOrders, IsOldest, Earlier
  <2> HIDE DEF f
  <2> QED BY <2>2, <2>3
<1>5. ASSUME NEW p \in todo, Candidates(p) # {} PROVE IsSingleton(ClosestRows(p))
  <2> DEFINE S == Candidates(p)
             f == [q \in S |-> Distance(plat[q].at, pos[p].at)]
  <2>1. S \subseteq unmatchedPlat
    BY DEF Candidates
  <2>2. f \in [S -> Int]
    BY <1>3, <2>1
  <2>3. IsFiniteSet(S) /\ S \subseteq Nat
    BY <1>1, <2>1, FS_Subset
  <2>4. IsSingleton({q \in S : \A r \in S : f[q] < f[r] \/ (f[q] = f[r] /\ q <= r)})
    <3> HIDE DEF f, S
    <3>1. S # {}
      BY <1>5 DEF S
    <3> QED BY <2>2, <2>3, <3>1, OneIsFirst
  <2>5. ClosestRows(p) = {q \in S : \A r \in S : f[q] < f[r] \/ (f[q] = f[r] /\ q <= r)}
    BY <1>1, <2>1 DEF ClosestRows, IsClosest, AsClose
  <2> HIDE DEF f, S
  <2> QED BY <2>4, <2>5
<1>6. ASSUME pc = "fallback", NEW p \in todo, NEW d \in 0..DayWindow, DaysAway(p, d) # {}
      PROVE  IsSingleton(IndexHits(p))
  <2> DEFINE S == {q \in unmatchedPlat : InReach(p, q)}
             f == [q \in S |-> DayDistance(p, q)]
  <2>1. p \in DOMAIN pos
    BY <1>1
  <2>2. \A e \in 0..DayWindow, q \in Plat :
          q \in DaysAway(p, e) <=> q \in unmatchedPlat /\ plat[q].price = pos[p].price /\ DayDistance(p, q) = e
    BY <1>6, <2>1, DaysAwayMeaning
  <2>3. PICK q \in DaysAway(p, d) : q \in Plat
    BY <1>6 DEF DaysAway, Queue, TypeOK
  <2>4. q \in S
    BY <2>2, <2>3 DEF InReach
  <2>5. f \in [S -> Int]
    BY <1>3
  <2>6. IsFiniteSet(S) /\ S \subseteq Nat
    BY <1>1, FS_Subset
  <2>7. IsSingleton({r \in S : \A t \in S : f[r] < f[t] \/ (f[r] = f[t] /\ r <= t)})
    <3> HIDE DEF f, S
    <3> QED BY <2>4, <2>5, <2>6, OneIsFirst
  <2>8. ScanPicks(p) = {r \in S : \A t \in S : f[r] < f[t] \/ (f[r] = f[t] /\ r <= t)}
    BY DEF ScanPicks, NoWorse
  <2>9. PICK r : IndexPicks(p) = {r}
    <3> HIDE DEF f, S
    <3>1. IsSingleton(IndexPicks(p))
      BY <1>6, <2>1, <2>7, <2>8, IndexPicksScan
    <3> QED BY <3>1 DEF IsSingleton
  <2>10. \A c \in IndexHits(p) : c[1] = r /\ c[2] = DayDistance(p, r)
    <3> SUFFICES ASSUME NEW c \in IndexHits(p) PROVE c[1] = r /\ c[2] = DayDistance(p, r)
      OBVIOUS
    <3>1. c[1] \in Plat /\ c[2] \in 0..DayWindow /\ IsIndexPick(c[1], c[2], p)
      BY DEF IndexHits
    <3>2. c[1] \in IndexPicks(p)
      BY <3>1 DEF IndexPicks
    <3>3. c[1] \in DaysAway(p, c[2])
      BY <3>1 DEF IsIndexPick
    <3>4. c[2] = DayDistance(p, c[1])
      BY <2>2, <3>1, <3>3
    <3>5. c[1] = r
      BY <2>9, <3>2
    <3> HIDE DEF f, S
    <3> QED BY <3>4, <3>5
  <2>11. PICK e \in 0..DayWindow : r \in Plat /\ IsIndexPick(r, e, p)
    BY <2>9 DEF IndexPicks
  <2>12. <<r, e>> \in IndexHits(p)
    BY <2>11 DEF IndexHits
  <2>13. \A c \in IndexHits(p) : c = <<c[1], c[2]>>
    BY DEF IndexHits
  <2>14. IndexHits(p) = {<<r, e>>}
    BY <2>10, <2>12, <2>13
  <2> QED BY <2>14 DEF IsSingleton
<1> QED BY <1>4, <1>5, <1>6 DEF ChoicesDetermined

(***************************************************************************)
(* The theorems.                                                           *)
(***************************************************************************)
AllInv == IInv /\ ReferenceClosest /\ FallbackOptimal

\* The initial state satisfies the invariant.
LEMMA InitAll == Init => AllInv
<1> SUFFICES ASSUME Init PROVE AllInv
  OBVIOUS
<1>1. TypeOK
  BY InitType
<1>2. pc = "load" /\ matches = {} /\ unmatchedPos = {} /\ unmatchedPlat = {}
  BY DEF Init
<1> QED BY <1>1, <1>2 DEF AllInv, IInv, PassInv, IndexInv, ReferenceInv, ReachInv, Running,
                          ExactlyOneRow, ReferenceClosest, FallbackOptimal

\* The invariant holds in every reachable state.
LEMMA Inductive == Spec => []AllInv
<1>1. AllInv /\ [Next]_vars => AllInv'
  BY TypeStep, PassStep, IndexStep, ReferenceStep, ReachStep, FinalStep DEF AllInv, IInv
<1> QED BY InitAll, <1>1, PTL DEF Spec

\* Every variable of run_matching keeps its type.
THEOREM TypeCorrect == Spec => []TypeOK
<1>1. AllInv => TypeOK BY DEF AllInv, IInv
<1> QED BY Inductive, <1>1, PTL

\* Every transaction read ends in exactly one row of the list for _persist.
THEOREM OneRowEach == Spec => []ExactlyOneRow
<1>1. AllInv => ExactlyOneRow BY DEF AllInv, IInv
<1> QED BY Inductive, <1>1, PTL

\* Among repeated references the closest row goes to the earliest order.
THEOREM ClosestReferencesFirst == Spec => []ReferenceClosest
<1>1. AllInv => ReferenceClosest BY DEF AllInv
<1> QED BY Inductive, <1>1, PTL

\* Equal references are settled by pass 1, before amounts are looked at.
THEOREM ReferencesFirst == Spec => []ReferencePriority
<1>1. AllInv => ReferencePriority BY DEF AllInv, ReferenceClosest, Settled, ReferencePriority
<1> QED BY Inductive, <1>1, PTL

\* The indexed fallback chooses what the scan over all rows would choose.
THEOREM IndexIsScan == Spec => []IndexAgreesWithScan
<1>1. AllInv => IndexAgreesWithScan
  BY IndexPicksScan DEF AllInv, IInv, IndexAgreesWithScan, TypeOK
<1> QED BY Inductive, <1>1, PTL

\* No platform row is left over that an order within reach should have had.
THEOREM NothingBetterLeft == Spec => []FallbackOptimal
<1>1. AllInv => FallbackOptimal BY DEF AllInv
<1> QED BY Inductive, <1>1, PTL

\* A run never has to stop for lack of a next row, and never has two to choose
\* from.
THEOREM RunIsDetermined == Spec => []ChoicesDetermined
<1>1. AllInv => ChoicesDetermined BY ChoicesFromInv DEF AllInv, IInv
<1> QED BY Inductive, <1>1, PTL

=============================================================================
