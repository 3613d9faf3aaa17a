------------------------- MODULE ReferenceContracts -------------------------
(***************************************************************************)
(* ReferenceContractService on the contracts of one branch: create_contract *)
(* checks the periods it has read and inserts in a later statement, and    *)
(* get_commission_rate looks for the contract of a day.                    *)
(***************************************************************************)
EXTENDS Backend

CONSTANTS
  Platforms,      \* DeliveryPlatform rows
  Percentages,    \* commission_pct values
  MaxDate,        \* Date.max, in days
  MaxContracts    \* bound: requests

ASSUME PlatformsAssumption == None \notin Platforms \cup Percentages
ASSUME DatesAssumption == MaxDate \in Nat /\ MaxContracts \in Nat /\ None \notin Nat

Days == 0..MaxDate

\* valid_to is not compared with valid_from.
Periods == [from : Days, to : Days \cup {None}]

VARIABLES
  contracts,   \* CommissionContract rows of the branch
  ncreated,    \* number of requests
  cpc,         \* where each worker's request is
  cwanted,     \* the contract it is asked to create
  cmet         \* ghost: another creation has overlapped

cvars == <<contracts, ncreated, cpc, cwanted, cmet>>

Contracts ==
  [call : 1..MaxContracts, platform : Platforms, pct : Percentages, period : Periods, met : BOOLEAN]

ContractsInit ==
  /\ contracts = {} /\ ncreated = 0
  /\ cpc = [w \in Workers |-> "idle"]
  /\ cwanted = [w \in Workers |-> None]
  /\ cmet = [w \in Workers |-> FALSE]

(***************************************************************************)
(* Days.                                                                   *)
(***************************************************************************)
\* valid_to is the first day without the contract.
IsActiveOn(p, day) == p.from <= day /\ (p.to # None => day < p.to)

EffectiveEnd(p) == IF p.to = None THEN MaxDate ELSE p.to

OverlapOfClosed(p, q) ==  \* mutant: an open period overlaps with nothing
  p.to # None /\ q.to # None /\ p.from < q.to /\ q.from < p.to
RangesOverlap(p, q) == p.from < EffectiveEnd(q) /\ q.from < EffectiveEnd(p)

\* The rate of the only contract, of whichever platform, that is active.
Rate(day) ==
  LET active == {c \in contracts : IsActiveOn(c.period, day)}
  IN  IF Cardinality(active) = 1 THEN (CHOOSE c \in active : TRUE).pct ELSE None

(***************************************************************************)
(* create_contract                                                         *)
(***************************************************************************)
CheckContract(w, platform, pct, period) ==
  /\ cpc[w] = "idle" /\ ncreated < MaxContracts
  /\ \A c \in contracts : c.platform = platform => ~ RangesOverlap(period, c.period)
  /\ ncreated' = ncreated + 1
  /\ cpc' = [cpc EXCEPT ![w] = "inserting"]
  /\ cwanted' = [cwanted EXCEPT ![w] =
       [call |-> ncreated + 1, platform |-> platform, pct |-> pct, period |-> period]]
  /\ cmet' = [v \in Workers |-> IF v = w THEN \E u \in Workers : cpc[u] # "idle"
                                ELSE cmet[v] \/ cpc[v] # "idle"]
  /\ UNCHANGED contracts

FinishContract(w) ==
  /\ cpc' = [cpc EXCEPT ![w] = "idle"]
  /\ cwanted' = [cwanted EXCEPT ![w] = None]
  /\ cmet' = [cmet EXCEPT ![w] = FALSE]
  /\ UNCHANGED ncreated

InsertContract(w) ==
  /\ cpc[w] = "inserting"
  /\ contracts' = contracts \cup
       {[call |-> cwanted[w].call, platform |-> cwanted[w].platform, pct |-> cwanted[w].pct,
         period |-> cwanted[w].period, met |-> cmet[w]]}
  /\ FinishContract(w)

\* ReferenceContractPersistError, or a crash.
LoseContract(w) == cpc[w] = "inserting" /\ FinishContract(w) /\ UNCHANGED contracts

ContractsNext ==
  \E w \in Workers :
    \/ \E platform \in Platforms, pct \in Percentages, period \in Periods :
         CheckContract(w, platform, pct, period)
    \/ InsertContract(w) \/ LoseContract(w)

ContractsSpec == ContractsInit /\ [][ContractsNext]_cvars

(***************************************************************************)
(* Properties                                                              *)
(***************************************************************************)
ContractsTypeOK ==
  /\ contracts \subseteq Contracts
  /\ ncreated \in 0..MaxContracts
  /\ cpc \in [Workers -> {"idle", "inserting"}]
  /\ \A w \in Workers : IF cpc[w] = "idle" THEN cwanted[w] = None
       ELSE cwanted[w] \in [call : 1..MaxContracts, platform : Platforms, pct : Percentages, period : Periods]
  /\ cmet \in [Workers -> BOOLEAN]

\* On each day of a contract, its first included and its valid_to not, the
\* lookup gives its rate, unless a contract of another platform is active that
\* day or its creation overlapped with another one's.  The check counts an open
\* contract as ending on Date.max, and so says nothing of that day.
RateOfContract ==
  \A c \in contracts, day \in Days \ {MaxDate} :
    IsActiveOn(c.period, day) =>
      \/ Rate(day) = c.pct
      \/ \E d \in contracts \ {c} : /\ IsActiveOn(d.period, day)
                                    /\ d.platform # c.platform \/ (c.met /\ d.met)
=============================================================================
