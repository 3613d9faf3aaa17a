-------------------------- MODULE MatchTableProofs --------------------------
(***************************************************************************)
(* What concurrent matching runs and manual pairings can never do to the   *)
(* table of matches, for any number of requests and transactions.          *)
(***************************************************************************)
EXTENDS MatchTable, TLAPS

ManualLabels == {"manual_pos", "manual_plat", "manual_flushed"}
RunLabels == {"run_updating", "run_inserting"}

\* A session touches only rows it has seen, and an idle one none.
SessionInv ==
  \A w \in Workers :
    /\ locked[w] \subseteq seen[w]
    /\ pc[w] = "idle" => seen[w] = {}
    /\ pc[w] # "idle" => call[w] \in 1..calls
    /\ pc[w] \in ManualLabels => pair[w] \in Pos \X Plat

\* The number of a request that is under way is its own: no row carries it.
FreshInv ==
  /\ \A r \in rows : r.call \in 1..calls
  /\ \A w \in Workers : pc[w] # "idle" =>
       /\ \A r \in rows : r.call # call[w]
       /\ \A v \in Workers : v # w /\ pc[v] # "idle" => call[v] # call[w]

\* A manual pairing supersedes only one-sided rows of its two transactions.
ManualInv ==
  \A w \in Workers : pc[w] \in ManualLabels =>
    \A r \in seen[w] : \/ r.pos = pair[w][1] /\ r.plat = None
                       \/ r.pos = None /\ r.plat = pair[w][2]

\* A request that nothing has overlapped is alone, and what it read is still
\* what is there: all active rows for a run, and for a manual pairing (in a
\* table with one row per transaction) all rows of its transactions.
SoloInv ==
  \A w \in Workers : solo[w] /\ pc[w] # "idle" =>
    /\ \A v \in Workers : v # w => pc[v] = "idle"
    /\ pc[w] = "run_updating" => seen[w] = active
    /\ pc[w] = "run_inserting" => locked[w] = active
    /\ clean =>
         /\ pc[w] = "manual_pos" => seen[w] = ActivePos(pair[w][1])
         /\ pc[w] \in {"manual_plat", "manual_flushed"} =>
              seen[w] = ActivePos(pair[w][1]) \cup ActivePlat(pair[w][2])
         /\ pc[w] = "manual_flushed" => locked[w] = seen[w]

IInv == /\ TypeOK /\ SessionInv /\ FreshInv /\ ManualInv /\ SoloInv
        /\ NoTransactionLost /\ SoloRunsRepair /\ ManualPairHasReview

USE SidesAssumption, PairsAssumption, CallsAssumption

(***************************************************************************)
(* The rows of a run.                                                      *)
(***************************************************************************)
\* A run has a row for every transaction, and no transaction is in two.
LEMMA PlanCovers ==
  ASSUME NEW n
  PROVE  /\ \A r \in PlanRows(n) : r.by = "run" /\ r.call = n
         /\ \A p \in Pos : \E r \in PlanRows(n) : r.pos = p
         /\ \A q \in Plat : \E r \in PlanRows(n) : r.plat = q
<1>1. \A r \in PlanRows(n) : r.by = "run" /\ r.call = n
  BY DEF PlanRows, Row
<1>2. ASSUME NEW p \in Pos PROVE \E r \in PlanRows(n) : r.pos = p
  <2>1. CASE \E a \in AutoPairs : a[1] = p
    <3>1. PICK a \in AutoPairs : a[1] = p
      BY <2>1
    <3>2. Row(n, "run", a[1], a[2]) \in PlanRows(n)
      BY DEF PlanRows
    <3> QED BY <3>1, <3>2 DEF Row
  <2>2. CASE \A a \in AutoPairs : a[1] # p
    <3>1. Row(n, "run", p, None) \in PlanRows(n)
      BY <2>2 DEF PlanRows
    <3> QED BY <3>1 DEF Row
  <2> QED BY <2>1, <2>2
<1>3. ASSUME NEW q \in Plat PROVE \E r \in PlanRows(n) : r.plat = q
  <2>1. CASE \E a \in AutoPairs : a[2] = q
    <3>1. PICK a \in AutoPairs : a[2] = q
      BY <2>1
    <3>2. Row(n, "run", a[1], a[2]) \in PlanRows(n)
      BY DEF PlanRows
    <3> QED BY <3>1, <3>2 DEF Row
  <2>2. CASE \A a \in AutoPairs : a[2] # q
    <3>1. Row(n, "run", None, q) \in PlanRows(n)
      BY <2>2 DEF PlanRows
    <3> QED BY <3>1 DEF Row
  <2> QED BY <2>1, <2>2
<1> QED BY <1>1, <1>2, <1>3

\* Two rows of one run share no transaction.
LEMMA PlanExclusive ==
  ASSUME NEW n, NEW r \in PlanRows(n), NEW s \in PlanRows(n), r # s
  PROVE  /\ r.pos = s.pos => r.pos = None
         /\ r.plat = s.plat => r.plat = None
<1>1. \A t \in PlanRows(n) :
        \/ \E a \in AutoPairs : t = Row(n, "run", a[1], a[2])
        \/ \E p \in Pos : t = Row(n, "run", p, None) /\ \A a \in AutoPairs : a[1] # p
        \/ \E q \in Plat : t = Row(n, "run", None, q) /\ \A a \in AutoPairs : a[2] # q
  BY DEF PlanRows
<1>2. \A a \in AutoPairs : a[1] \in Pos /\ a[2] \in Plat
  OBVIOUS
<1> QED BY <1>1, <1>2 DEF Row

\* The rows of a run are rows of the table.
LEMMA PlanType == ASSUME NEW n \in 1..MaxCalls PROVE PlanRows(n) \subseteq Rows
BY DEF PlanRows, Rows, Row

(***************************************************************************)
(* Types, sessions and request numbers.                                    *)
(***************************************************************************)
\* Every step keeps the types.
LEMMA TypeStep == TypeOK /\ SessionInv /\ [Next]_vars => TypeOK'
<1> SUFFICES ASSUME TypeOK, SessionInv, [Next]_vars PROVE TypeOK'
  OBVIOUS
<1> USE DEF TypeOK, tables, locals, Labels
<1>1. ASSUME NEW w \in Workers, RunUpdateBegin(w) PROVE TypeOK'
  BY <1>1 DEF RunUpdateBegin, Start, Goto
<1>2. ASSUME NEW w \in Workers, RunUpdateEnd(w) PROVE TypeOK'
  BY <1>2 DEF RunUpdateEnd, Goto
<1>3. ASSUME NEW w \in Workers, RunCommit(w) PROVE TypeOK'
  <2>1. call[w] \in 1..MaxCalls
    BY <1>3 DEF RunCommit, SessionInv
  <2> QED BY <1>3, <2>1, PlanType DEF RunCommit, Close, Goto
<1>4. ASSUME NEW w \in Workers, NEW p \in Pos, NEW q \in Plat, ManualReadPos(w, p, q)
      PROVE  TypeOK'
  BY <1>4 DEF ManualReadPos, FirstOf, Start, Goto
<1>5. ASSUME NEW w \in Workers, ManualReadPlat(w) PROVE TypeOK'
  BY <1>5 DEF ManualReadPlat, FirstOf, Goto
<1>6. ASSUME NEW w \in Workers, ManualRefuse(w) PROVE TypeOK'
  BY <1>6 DEF ManualRefuse, Close, Goto
<1>7. ASSUME NEW w \in Workers, ManualFlush(w) PROVE TypeOK'
  BY <1>7 DEF ManualFlush, Goto
<1>8. ASSUME NEW w \in Workers, ManualCommit(w) PROVE TypeOK'
  <2>1. call[w] \in 1..MaxCalls /\ pair[w] \in Pos \X Plat
    BY <1>8 DEF ManualCommit, SessionInv, ManualLabels
  <2>2. ManualRow(w) \in Rows
    BY <2>1 DEF ManualRow, Row, Rows
  <2> QED BY <1>8, <2>1, <2>2 DEF ManualCommit, Close, Goto, Decisions
<1>9. ASSUME NEW w \in Workers, Abort(w) PROVE TypeOK'
  BY <1>9 DEF Abort, Close, Goto
<1>10. ASSUME NEW m \in rows, NEW d \in Decisions, ReviewMatch(m, d) PROVE TypeOK'
  BY <1>10 DEF ReviewMatch
<1>11. CASE UNCHANGED vars BY <1>11 DEF vars
<1> QED BY <1>1, <1>2, <1>3, <1>4, <1>5, <1>6, <1>7, <1>8, <1>9, <1>10, <1>11 DEF Next

\* Every step keeps what a session holds within what it has seen.
LEMMA SessionStep == TypeOK /\ SessionInv /\ [Next]_vars => SessionInv'
<1> SUFFICES ASSUME TypeOK, SessionInv, [Next]_vars PROVE SessionInv'
  OBVIOUS
<1> USE DEF TypeOK, tables, locals, SessionInv, ManualLabels
<1>1. ASSUME NEW w \in Workers, RunUpdateBegin(w) PROVE SessionInv'
  BY <1>1 DEF RunUpdateBegin, Start, Goto
<1>2. ASSUME NEW w \in Workers, RunUpdateEnd(w) PROVE SessionInv'
  BY <1>2 DEF RunUpdateEnd, Goto
<1>3. ASSUME NEW w \in Workers, RunCommit(w) PROVE SessionInv'
  BY <1>3 DEF RunCommit, Close, Goto
<1>4. ASSUME NEW w \in Workers, NEW p \in Pos, NEW q \in Plat, ManualReadPos(w, p, q)
      PROVE  SessionInv'
  BY <1>4 DEF ManualReadPos, Start, Goto
<1>5. ASSUME NEW w \in Workers, ManualReadPlat(w) PROVE SessionInv'
  BY <1>5 DEF ManualReadPlat, Goto
<1>6. ASSUME NEW w \in Workers, ManualRefuse(w) PROVE SessionInv'
  BY <1>6 DEF ManualRefuse, Close, Goto
<1>7. ASSUME NEW w \in Workers, ManualFlush(w) PROVE SessionInv'
  BY <1>7 DEF ManualFlush, Goto
<1>8. ASSUME NEW w \in Workers, ManualCommit(w) PROVE SessionInv'
  BY <1>8 DEF ManualCommit, Close, Goto
<1>9. ASSUME NEW w \in Workers, Abort(w) PROVE SessionInv'
  BY <1>9 DEF Abort, Close, Goto
<1>10. ASSUME NEW m \in rows, NEW d \in Decisions, ReviewMatch(m, d) PROVE SessionInv'
  BY <1>10 DEF ReviewMatch
<1>11. CASE UNCHANGED vars BY <1>11 DEF vars
<1> QED BY <1>1, <1>2, <1>3, <1>4, <1>5, <1>6, <1>7, <1>8, <1>9, <1>10, <1>11 DEF Next

\* Every step keeps the number of a request under way its own.
LEMMA FreshStep == TypeOK /\ SessionInv /\ FreshInv /\ [Next]_vars => FreshInv'
<1> SUFFICES ASSUME TypeOK, SessionInv, FreshInv, [Next]_vars PROVE FreshInv'
  OBVIOUS
<1> USE DEF TypeOK, tables, locals, SessionInv, FreshInv
<1>1. ASSUME NEW w \in Workers, RunUpdateBegin(w) PROVE FreshInv'
  BY <1>1 DEF RunUpdateBegin, Start, Goto
<1>2. ASSUME NEW w \in Workers, RunUpdateEnd(w) PROVE FreshInv'
  BY <1>2 DEF RunUpdateEnd, Goto
<1>3. ASSUME NEW w \in Workers, RunCommit(w) PROVE FreshInv'
  <2>1. \A r \in PlanRows(call[w]) : r.call = call[w]
    BY PlanCovers
  <2>2. rows' = rows \cup PlanRows(call[w]) /\ pc[w] # "idle"
    BY <1>3 DEF RunCommit
  <2> QED BY <1>3, <2>1, <2>2 DEF RunCommit, Close, Goto
<1>4. ASSUME NEW w \in Workers, NEW p \in Pos, NEW q \in Plat, ManualReadPos(w, p, q)
      PROVE  FreshInv'
  BY <1>4 DEF ManualReadPos, Start, Goto
<1>5. ASSUME NEW w \in Workers, ManualReadPlat(w) PROVE FreshInv'
  BY <1>5 DEF ManualReadPlat, Goto
<1>6. ASSUME NEW w \in Workers, ManualRefuse(w) PROVE FreshInv'
  BY <1>6 DEF ManualRefuse, Close, Goto
<1>7. ASSUME NEW w \in Workers, ManualFlush(w) PROVE FreshInv'
  BY <1>7 DEF ManualFlush, Goto
<1>8. ASSUME NEW w \in Workers, ManualCommit(w) PROVE FreshInv'
  <2>1. ManualRow(w).call = call[w]
    BY DEF ManualRow, Row
  <2>2. rows' = rows \cup {ManualRow(w)} /\ pc[w] # "idle"
    BY <1>8 DEF ManualCommit
  <2> QED BY <1>8, <2>1, <2>2 DEF ManualCommit, Close, Goto
<1>9. ASSUME NEW w \in Workers, Abort(w) PROVE FreshInv'
  BY <1>9 DEF Abort, Close, Goto
<1>10. ASSUME NEW m \in rows, NEW d \in Decisions, ReviewMatch(m, d)
      PROVE  FreshInv'
  BY <1>10 DEF ReviewMatch
<1>11. CASE UNCHANGED vars BY <1>11 DEF vars
<1> QED BY <1>1, <1>2, <1>3, <1>4, <1>5, <1>6, <1>7, <1>8, <1>9, <1>10, <1>11 DEF Next

\* Every step keeps a pairing to one-sided rows of its transactions.
LEMMA ManualStep ==
  TypeOK /\ SessionInv /\ ManualInv /\ [Next]_vars => ManualInv'
<1> SUFFICES ASSUME TypeOK, SessionInv, ManualInv, [Next]_vars PROVE ManualInv'
  OBVIOUS
<1> USE DEF TypeOK, tables, locals, ManualInv, ManualLabels
<1>1. ASSUME NEW w \in Workers, RunUpdateBegin(w) PROVE ManualInv'
  BY <1>1 DEF RunUpdateBegin, Start, Goto
<1>2. ASSUME NEW w \in Workers, RunUpdateEnd(w) PROVE ManualInv'
  BY <1>2 DEF RunUpdateEnd, Goto
<1>3. ASSUME NEW w \in Workers, RunCommit(w) PROVE ManualInv'
  BY <1>3 DEF RunCommit, Close, Goto
<1>4. ASSUME NEW w \in Workers, NEW p \in Pos, NEW q \in Plat, ManualReadPos(w, p, q)
      PROVE  ManualInv'
  <2>1. PICK found \in FirstOf(ActivePos(p)) :
          NotAlreadyMatched(found) /\ seen' = [seen EXCEPT ![w] = found]
    BY <1>4 DEF ManualReadPos, ActivePos
  <2>2. \A r \in found : r.pos = p /\ r.plat = None
    BY <2>1 DEF FirstOf, ActivePos, NotAlreadyMatched, TwoSided
  <2>3. pair'[w] = <<p, q>> /\ \A v \in Workers : v # w => pair'[v] = pair[v] /\ pc'[v] = pc[v]
    BY <1>4 DEF ManualReadPos, Start, Goto
  <2> QED BY <2>1, <2>2, <2>3
<1>5. ASSUME NEW w \in Workers, ManualReadPlat(w) PROVE ManualInv'
  <2>1. PICK found \in FirstOf(ActivePlat(pair[w][2])) :
          NotAlreadyMatched(found) /\ seen' = [seen EXCEPT ![w] = @ \cup found]
    BY <1>5 DEF ManualReadPlat, ActivePlat
  <2>2. pair[w][2] # None
    BY <1>5 DEF ManualReadPlat, SessionInv
  <2>3. \A r \in found : r.plat = pair[w][2] /\ r.pos = None
    BY <2>1, <2>2 DEF FirstOf, ActivePlat, NotAlreadyMatched, TwoSided
  <2> QED BY <1>5, <2>1, <2>3 DEF ManualReadPlat, Goto
<1>6. ASSUME NEW w \in Workers, ManualRefuse(w) PROVE ManualInv'
  BY <1>6 DEF ManualRefuse, Close, Goto
<1>7. ASSUME NEW w \in Workers, ManualFlush(w) PROVE ManualInv'
  BY <1>7 DEF ManualFlush, Goto
<1>8. ASSUME NEW w \in Workers, ManualCommit(w) PROVE ManualInv'
  BY <1>8 DEF ManualCommit, Close, Goto
<1>9. ASSUME NEW w \in Workers, Abort(w) PROVE ManualInv'
  BY <1>9 DEF Abort, Close, Goto
<1>10. ASSUME NEW m \in rows, NEW d \in Decisions, ReviewMatch(m, d)
      PROVE  ManualInv'
  BY <1>10 DEF ReviewMatch
<1>11. CASE UNCHANGED vars BY <1>11 DEF vars
<1> QED BY <1>1, <1>2, <1>3, <1>4, <1>5, <1>6, <1>7, <1>8, <1>9, <1>10, <1>11 DEF Next

(***************************************************************************)
(* Requests that nothing overlaps.                                         *)
(***************************************************************************)
\* Every step keeps what a request without overlap has read up to date.
LEMMA SoloStep ==
  TypeOK /\ SessionInv /\ SoloInv /\ SoloRunsRepair /\ [Next]_vars => SoloInv'
<1> SUFFICES ASSUME TypeOK, SessionInv, SoloInv, SoloRunsRepair, [Next]_vars PROVE SoloInv'
  OBVIOUS
<1> USE DEF TypeOK, tables, locals, SoloInv, ActivePos, ActivePlat
<1>1. ASSUME NEW w \in Workers, RunUpdateBegin(w) PROVE SoloInv'
  BY <1>1 DEF RunUpdateBegin, Start, Goto
<1>2. ASSUME NEW w \in Workers, RunUpdateEnd(w) PROVE SoloInv'
  BY <1>2 DEF RunUpdateEnd, Goto
<1>3. ASSUME NEW w \in Workers, RunCommit(w) PROVE SoloInv'
  BY <1>3 DEF RunCommit, Close, Goto
<1>4. ASSUME NEW w \in Workers, NEW p \in Pos, NEW q \in Plat, ManualReadPos(w, p, q)
      PROVE  SoloInv'
  <2>1. PICK found \in FirstOf(ActivePos(p)) : seen' = [seen EXCEPT ![w] = found]
    BY <1>4 DEF ManualReadPos
  <2>2. /\ active' = active /\ clean' = clean /\ pair' = [pair EXCEPT ![w] = <<p, q>>]
        /\ pc' = [pc EXCEPT ![w] = "manual_pos"]
        /\ solo' = [v \in Workers |-> v = w /\ \A u \in Workers \ {w} : pc[u] = "idle"]
    BY <1>4 DEF ManualReadPos, Start, Goto
  <2>3. clean => found = ActivePos(p)
    <3>1. SUFFICES ASSUME OneActiveRow PROVE found = ActivePos(p)
      BY DEF SoloRunsRepair
    <3>2. \A r, s \in ActivePos(p) : r = s
      BY <3>1 DEF OneActiveRow
    <3> QED BY <2>1, <3>2 DEF FirstOf
  <2> QED BY <2>1, <2>2, <2>3
<1>5. ASSUME NEW w \in Workers, ManualReadPlat(w) PROVE SoloInv'
  <2>1. PICK found \in FirstOf(ActivePlat(pair[w][2])) :
          seen' = [seen EXCEPT ![w] = @ \cup found]
    BY <1>5 DEF ManualReadPlat
  <2>2. /\ active' = active /\ clean' = clean /\ pair' = pair /\ solo' = solo
        /\ pc[w] = "manual_pos" /\ pc' = [pc EXCEPT ![w] = "manual_plat"]
    BY <1>5 DEF ManualReadPlat, Goto
  <2>3. clean => found = ActivePlat(pair[w][2])
    <3>1. SUFFICES ASSUME OneActiveRow PROVE found = ActivePlat(pair[w][2])
      BY DEF SoloRunsRepair
    <3>2. pair[w][2] # None
      BY <2>2 DEF SessionInv, ManualLabels
    <3>3. \A r, s \in ActivePlat(pair[w][2]) : r = s
      BY <3>1, <3>2 DEF OneActiveRow
    <3> QED BY <2>1, <3>3 DEF FirstOf
  <2> QED BY <2>1, <2>2, <2>3
<1>6. ASSUME NEW w \in Workers, ManualRefuse(w) PROVE SoloInv'
  BY <1>6 DEF ManualRefuse, Close, Goto
<1>7. ASSUME NEW w \in Workers, ManualFlush(w) PROVE SoloInv'
  BY <1>7 DEF ManualFlush, Goto
<1>8. ASSUME NEW w \in Workers, ManualCommit(w) PROVE SoloInv'
  BY <1>8 DEF ManualCommit, Close, Goto
<1>9. ASSUME NEW w \in Workers, Abort(w) PROVE SoloInv'
  BY <1>9 DEF Abort, Close, Goto
<1>10. ASSUME NEW m \in rows, NEW d \in Decisions, ReviewMatch(m, d)
      PROVE  SoloInv'
  BY <1>10 DEF ReviewMatch
<1>11. CASE UNCHANGED vars BY <1>11 DEF vars
<1> QED BY <1>1, <1>2, <1>3, <1>4, <1>5, <1>6, <1>7, <1>8, <1>9, <1>10, <1>11 DEF Next

\* Every step keeps one active row per transaction while nothing overlaps.
LEMMA RepairStep ==
  TypeOK /\ SessionInv /\ SoloInv /\ SoloRunsRepair /\ [Next]_vars => SoloRunsRepair'
<1> SUFFICES ASSUME TypeOK, SessionInv, SoloInv, SoloRunsRepair, [Next]_vars
             PROVE  SoloRunsRepair'
  OBVIOUS
<1> USE DEF TypeOK, tables, locals, SoloRunsRepair, OneActiveRow
<1>1. ASSUME NEW w \in Workers, RunUpdateBegin(w) PROVE SoloRunsRepair'
  BY <1>1 DEF RunUpdateBegin, Start, Goto
<1>2. ASSUME NEW w \in Workers, RunUpdateEnd(w) PROVE SoloRunsRepair'
  BY <1>2 DEF RunUpdateEnd, Goto
<1>3. ASSUME NEW w \in Workers, RunCommit(w) PROVE SoloRunsRepair'
  <2>1. pc[w] = "run_inserting" /\ clean' = solo[w]
        /\ active' = (active \ locked[w]) \cup PlanRows(call[w])
    BY <1>3 DEF RunCommit
  <2>2. solo[w] => active' = PlanRows(call[w])
    BY <2>1 DEF SoloInv
  <2> QED BY <2>1, <2>2, PlanExclusive
<1>4. ASSUME NEW w \in Workers, NEW p \in Pos, NEW q \in Plat, ManualReadPos(w, p, q)
      PROVE  SoloRunsRepair'
  BY <1>4 DEF ManualReadPos, Start, Goto
<1>5. ASSUME NEW w \in Workers, ManualReadPlat(w) PROVE SoloRunsRepair'
  BY <1>5 DEF ManualReadPlat, Goto
<1>6. ASSUME NEW w \in Workers, ManualRefuse(w) PROVE SoloRunsRepair'
  BY <1>6 DEF ManualRefuse, Close, Goto
<1>7. ASSUME NEW w \in Workers, ManualFlush(w) PROVE SoloRunsRepair'
  BY <1>7 DEF ManualFlush, Goto
<1>8. ASSUME NEW w \in Workers, ManualCommit(w) PROVE SoloRunsRepair'
  <2>1. pc[w] = "manual_flushed" /\ clean' = (clean /\ solo[w])
        /\ active' = (active \ locked[w]) \cup {ManualRow(w)}
    BY <1>8 DEF ManualCommit
  <2>2. clean /\ solo[w] => locked[w] = ActivePos(pair[w][1]) \cup ActivePlat(pair[w][2])
    BY <2>1 DEF SoloInv
  <2>3. ManualRow(w).pos = pair[w][1] /\ ManualRow(w).plat = pair[w][2]
    BY DEF ManualRow, Row
  <2> QED BY <2>1, <2>2, <2>3 DEF ActivePos, ActivePlat
<1>9. ASSUME NEW w \in Workers, Abort(w) PROVE SoloRunsRepair'
  BY <1>9 DEF Abort, Close, Goto
<1>10. ASSUME NEW m \in rows, NEW d \in Decisions, ReviewMatch(m, d)
      PROVE  SoloRunsRepair'
  BY <1>10 DEF ReviewMatch
<1>11. CASE UNCHANGED vars BY <1>11 DEF vars
<1> QED BY <1>1, <1>2, <1>3, <1>4, <1>5, <1>6, <1>7, <1>8, <1>9, <1>10, <1>11 DEF Next

(***************************************************************************)
(* No transaction is lost and no pair goes without its review.             *)
(***************************************************************************)
\* Every step keeps each transaction in some active row.
LEMMA LostStep ==
  TypeOK /\ SessionInv /\ ManualInv /\ NoTransactionLost /\ [Next]_vars => NoTransactionLost'
<1> SUFFICES ASSUME TypeOK, SessionInv, ManualInv, NoTransactionLost, [Next]_vars
             PROVE  NoTransactionLost'
  OBVIOUS
<1> USE DEF TypeOK, tables, locals, NoTransactionLost, ActivePos, ActivePlat
<1>1. ASSUME NEW w \in Workers, RunUpdateBegin(w) PROVE NoTransactionLost'
  BY <1>1 DEF RunUpdateBegin, Start, Goto
<1>2. ASSUME NEW w \in Workers, RunUpdateEnd(w) PROVE NoTransactionLost'
  BY <1>2 DEF RunUpdateEnd, Goto
<1>3. ASSUME NEW w \in Workers, RunCommit(w) PROVE NoTransactionLost'
  <2>1. PlanRows(call[w]) \subseteq active'
    BY <1>3 DEF RunCommit
  <2> QED BY <2>1, PlanCovers, SMTT(20)
<1>4. ASSUME NEW w \in Workers, NEW p \in Pos, NEW q \in Plat, ManualReadPos(w, p, q)
      PROVE  NoTransactionLost'
  BY <1>4 DEF ManualReadPos, Start, Goto
<1>5. ASSUME NEW w \in Workers, ManualReadPlat(w) PROVE NoTransactionLost'
  BY <1>5 DEF ManualReadPlat, Goto
<1>6. ASSUME NEW w \in Workers, ManualRefuse(w) PROVE NoTransactionLost'
  BY <1>6 DEF ManualRefuse, Close, Goto
<1>7. ASSUME NEW w \in Workers, ManualFlush(w) PROVE NoTransactionLost'
  BY <1>7 DEF ManualFlush, Goto
<1>8. ASSUME NEW w \in Workers, ManualCommit(w) PROVE NoTransactionLost'
  <2>1. /\ pc[w] = "manual_flushed" /\ rows' = rows \cup {ManualRow(w)}
        /\ active' = (active \ locked[w]) \cup {ManualRow(w)}
    BY <1>8 DEF ManualCommit
  <2>2. ManualRow(w).pos = pair[w][1] /\ ManualRow(w).plat = pair[w][2] /\ ManualRow(w).by = "manual"
    BY DEF ManualRow, Row
  <2>3. \A r \in locked[w] : r.pos \in {pair[w][1], None} /\ r.plat \in {pair[w][2], None}
    BY <2>1 DEF SessionInv, ManualInv, ManualLabels
  <2>4. (\E r \in rows' : r.by = "run") => \E r \in rows : r.by = "run"
    BY <2>1, <2>2
  <2>5. ASSUME NEW p \in Pos, ActivePos(p) # {} PROVE ActivePos(p)' # {}
    BY <2>1, <2>2, <2>3, <2>5
  <2>6. ASSUME NEW q \in Plat, ActivePlat(q) # {} PROVE ActivePlat(q)' # {}
    BY <2>1, <2>2, <2>3, <2>6
  <2> QED BY <2>4, <2>5, <2>6
<1>9. ASSUME NEW w \in Workers, Abort(w) PROVE NoTransactionLost'
  BY <1>9 DEF Abort, Close, Goto
<1>10. ASSUME NEW m \in rows, NEW d \in Decisions, ReviewMatch(m, d)
      PROVE  NoTransactionLost'
  BY <1>10 DEF ReviewMatch
<1>11. CASE UNCHANGED vars BY <1>11 DEF vars
<1> QED BY <1>1, <1>2, <1>3, <1>4, <1>5, <1>6, <1>7, <1>8, <1>9, <1>10, <1>11 DEF Next

\* Every step keeps the review beside its manual pair.
LEMMA ReviewStep == TypeOK /\ ManualPairHasReview /\ [Next]_vars => ManualPairHasReview'
<1> SUFFICES ASSUME TypeOK, ManualPairHasReview, [Next]_vars PROVE ManualPairHasReview'
  OBVIOUS
<1> USE DEF TypeOK, tables, locals, ManualPairHasReview
<1>1. ASSUME NEW w \in Workers, RunUpdateBegin(w) PROVE ManualPairHasReview'
  BY <1>1 DEF RunUpdateBegin, Start, Goto
<1>2. ASSUME NEW w \in Workers, RunUpdateEnd(w) PROVE ManualPairHasReview'
  BY <1>2 DEF RunUpdateEnd, Goto
<1>3. ASSUME NEW w \in Workers, RunCommit(w) PROVE ManualPairHasReview'
  <2>1. \A r \in PlanRows(call[w]) : r.by = "run"
    BY PlanCovers
  <2> QED BY <1>3, <2>1 DEF RunCommit
<1>4. ASSUME NEW w \in Workers, NEW p \in Pos, NEW q \in Plat, ManualReadPos(w, p, q)
      PROVE  ManualPairHasReview'
  BY <1>4 DEF ManualReadPos, Start, Goto
<1>5. ASSUME NEW w \in Workers, ManualReadPlat(w) PROVE ManualPairHasReview'
  BY <1>5 DEF ManualReadPlat, Goto
<1>6. ASSUME NEW w \in Workers, ManualRefuse(w) PROVE ManualPairHasReview'
  BY <1>6 DEF ManualRefuse, Close, Goto
<1>7. ASSUME NEW w \in Workers, ManualFlush(w) PROVE ManualPairHasReview'
  BY <1>7 DEF ManualFlush, Goto
<1>8. ASSUME NEW w \in Workers, ManualCommit(w) PROVE ManualPairHasReview'
  <2> DEFINE new == [call |-> call[w], match |-> ManualRow(w), decision |-> "MANUALLY_PAIRED"]
  <2>1. rows' = rows \cup {ManualRow(w)} /\ reviews' = reviews \cup {new}
    BY <1>8 DEF ManualCommit
  <2>2. new.match = ManualRow(w) /\ new.decision = "MANUALLY_PAIRED" /\ new \in reviews'
    BY <2>1
  <2> HIDE DEF new
  <2> QED BY <2>1, <2>2
<1>9. ASSUME NEW w \in Workers, Abort(w) PROVE ManualPairHasReview'
  BY <1>9 DEF Abort, Close, Goto
<1>10. ASSUME NEW m \in rows, NEW d \in Decisions, ReviewMatch(m, d)
      PROVE  ManualPairHasReview'
  BY <1>10 DEF ReviewMatch
<1>11. CASE UNCHANGED vars BY <1>11 DEF vars
<1> QED BY <1>1, <1>2, <1>3, <1>4, <1>5, <1>6, <1>7, <1>8, <1>9, <1>10, <1>11 DEF Next

(***************************************************************************)
(* The theorems.                                                           *)
(***************************************************************************)
\* The empty tables satisfy the invariant.
LEMMA InitInv == Init => IInv
BY DEF Init, IInv, TypeOK, SessionInv, FreshInv, ManualInv, SoloInv, NoTransactionLost,
       SoloRunsRepair, OneActiveRow, ManualPairHasReview, ManualLabels, Labels, Rows

\* The invariant holds in every reachable state.
LEMMA Inductive == Spec => []IInv
<1>1. IInv /\ [Next]_vars => IInv'
  BY TypeStep, SessionStep, FreshStep, ManualStep, SoloStep, RepairStep, LostStep, ReviewStep
     DEF IInv
<1> QED BY InitInv, <1>1, PTL DEF Spec

\* The tables and the sessions keep their types.
THEOREM TypeCorrect == Spec => []TypeOK
<1>1. IInv => TypeOK BY DEF IInv
<1> QED BY Inductive, <1>1, PTL

\* However matching runs and manual pairings overlap and fail, every
\* transaction stays in an active row once matching has run.
THEOREM NothingLost == Spec => []NoTransactionLost
<1>1. IInv => NoTransactionLost BY DEF IInv
<1> QED BY Inductive, <1>1, PTL

\* Requests that do not overlap keep one active row per transaction, and a
\* run that nothing overlaps restores it.
THEOREM SoloRunsAreClean == Spec => []SoloRunsRepair
<1>1. IInv => SoloRunsRepair BY DEF IInv
<1> QED BY Inductive, <1>1, PTL

\* A pair made by hand never shows without the review that says so.
THEOREM PairsAreReviewed == Spec => []ManualPairHasReview
<1>1. IInv => ManualPairHasReview BY DEF IInv
<1> QED BY Inductive, <1>1, PTL

\* Only a matching run makes a pair stop being current.
THEOREM PairsStay == Spec => PairsOnlyReplacedByRuns
<1> DEFINE A == \A r \in active \ active' : TwoSided(r) => \E s \in active' \ rows : s.by = "run"
<1>1. IInv /\ [Next]_vars => [A]_vars
  <2> SUFFICES ASSUME IInv, Next PROVE A
    OBVIOUS
  <2>1. ASSUME NEW w \in Workers, RunCommit(w) PROVE A
    <3>1. PICK p \in Pos : TRUE
      OBVIOUS
    <3>2. PICK s \in PlanRows(call[w]) : s.by = "run" /\ s.call = call[w]
      BY PlanCovers
    <3>3. s \in active' \ rows
      BY <2>1, <3>2 DEF RunCommit, IInv, FreshInv
    <3> QED BY <3>2, <3>3
  <2>2. ASSUME NEW w \in Workers, ManualCommit(w) PROVE A
    <3>1. \A r \in locked[w] : ~ TwoSided(r)
      BY <2>2 DEF ManualCommit, IInv, ManualInv, SessionInv, ManualLabels, TwoSided
    <3> QED BY <2>2, <3>1 DEF ManualCommit
  <2>3. CASE active' = active
    BY <2>3
  <2> QED BY <2>1, <2>2, <2>3 DEF Next, RunUpdateBegin, RunUpdateEnd, ManualReadPos,
          ManualReadPlat, ManualRefuse, ManualFlush, Abort, ReviewMatch, Start, tables
<1>2. PairsOnlyReplacedByRuns <=> [][A]_vars
  BY DEF PairsOnlyReplacedByRuns
<1> HIDE DEF A
<1> QED BY Inductive, <1>1, <1>2, PTL DEF Spec

\* Rows are neither deleted nor made current again.
THEOREM HistoryStays == Spec => HistoryIsKept
<1> DEFINE A == rows \subseteq rows' /\ active' \cap rows \subseteq active
<1>1. IInv /\ [Next]_vars => [A]_vars
  <2> SUFFICES ASSUME IInv, Next PROVE A
    OBVIOUS
  <2>1. ASSUME NEW w \in Workers, RunCommit(w) PROVE A
    <3>1. \A s \in PlanRows(call[w]) : s \notin rows
      BY <2>1, PlanCovers DEF RunCommit, IInv, FreshInv
    <3> QED BY <2>1, <3>1 DEF RunCommit
  <2>2. ASSUME NEW w \in Workers, ManualCommit(w) PROVE A
    <3>1. ManualRow(w) \notin rows
      BY <2>2 DEF ManualCommit, IInv, FreshInv, ManualRow, Row
    <3> QED BY <2>2, <3>1 DEF ManualCommit
  <2>3. CASE active' = active /\ rows' = rows
    BY <2>3
  <2> QED BY <2>1, <2>2, <2>3 DEF Next, RunUpdateBegin, RunUpdateEnd, ManualReadPos,
          ManualReadPlat, ManualRefuse, ManualFlush, Abort, ReviewMatch, Start, tables
<1>2. HistoryIsKept <=> [][A]_vars
  BY DEF HistoryIsKept
<1> HIDE DEF A
<1> QED BY Inductive, <1>1, <1>2, PTL DEF Spec

=============================================================================
