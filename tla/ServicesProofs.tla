--------------------------- MODULE ServicesProofs ---------------------------
(***************************************************************************)
(* The services that share no table with the pipeline, each for any number *)
(* of requests, instances and rows: contracts, the start-up, the request   *)
(* pool, which implements RequestService, and the outputs; and all of them *)
(* in one process.                                                         *)
(***************************************************************************)
EXTENDS Services, NormalizationProofs, FiniteSetTheorems, SequenceTheorems, TLAPS

(***************************************************************************)
(* ReferenceContracts                                                      *)
(***************************************************************************)
Wanted == [call : 1..MaxContracts, platform : Platforms, pct : Percentages, period : Periods]

\* Contracts of one platform overlap only where their creations did, and what a
\* request has checked stays true of the contracts that it did not overlap with.
PeriodInv ==
  /\ ContractsTypeOK /\ cwanted \in [Workers -> Wanted \cup {None}]
  /\ \A v, w \in Workers : v # w /\ cpc[v] # "idle" /\ cpc[w] # "idle" => cmet[v] /\ cmet[w]
  /\ \A c, d \in contracts :
       c # d /\ c.platform = d.platform /\ RangesOverlap(c.period, d.period) => c.met /\ d.met
  /\ \A w \in Workers, c \in contracts :
       cpc[w] = "inserting" /\ c.platform = cwanted[w].platform
         /\ RangesOverlap(cwanted[w].period, c.period) => c.met /\ cmet[w]

\* Overlapping is mutual.
LEMMA OverlapSymmetric ==
  ASSUME NEW p \in Periods, NEW q \in Periods
  PROVE  RangesOverlap(p, q) <=> RangesOverlap(q, p)
BY DEF RangesOverlap

\* Two contracts that are active on a day before Date.max overlap.
LEMMA ActiveOverlap ==
  ASSUME NEW p \in Periods, NEW q \in Periods, NEW day \in Days \ {MaxDate},
         IsActiveOn(p, day), IsActiveOn(q, day)
  PROVE  RangesOverlap(p, q)
BY DatesAssumption DEF RangesOverlap, IsActiveOn, EffectiveEnd, Periods, Days

LEMMA PeriodInit == ContractsInit => PeriodInv
<1> SUFFICES ASSUME ContractsInit PROVE PeriodInv
  OBVIOUS
<1>1. ContractsTypeOK
  BY DatesAssumption DEF ContractsInit, ContractsTypeOK
<1> QED
  BY <1>1 DEF ContractsInit, PeriodInv

LEMMA CheckKeepsPeriods ==
  ASSUME PeriodInv, NEW w \in Workers, NEW platform \in Platforms, NEW pct \in Percentages,
         NEW period \in Periods, CheckContract(w, platform, pct, period)
  PROVE  PeriodInv'
<1> DEFINE wanted == [call |-> ncreated + 1, platform |-> platform, pct |-> pct, period |-> period]
<1>1. wanted \in Wanted /\ ncreated' \in 0..MaxContracts
  BY DatesAssumption DEF CheckContract, PeriodInv, ContractsTypeOK, Wanted
<1>2. /\ cpc' = [cpc EXCEPT ![w] = "inserting"] /\ cwanted' = [cwanted EXCEPT ![w] = wanted]
      /\ contracts' = contracts /\ cpc \in [Workers -> {"idle", "inserting"}]
  BY DEF CheckContract, PeriodInv, ContractsTypeOK
<1>3. /\ cmet' \in [Workers -> BOOLEAN]
      /\ \A v \in Workers : cmet[v] => v = w \/ cmet'[v]
      /\ \A v \in Workers : v # w /\ cpc[v] # "idle" => cmet'[v] /\ cmet'[w]
  BY DEF CheckContract, PeriodInv, ContractsTypeOK
<1>4. \A c \in contracts : c.platform = wanted.platform => ~ RangesOverlap(wanted.period, c.period)
  BY DEF CheckContract
<1> HIDE DEF wanted
<1>5. ContractsTypeOK' /\ (cwanted \in [Workers -> Wanted \cup {None}])'
  BY <1>1, <1>2, <1>3 DEF ContractsTypeOK, PeriodInv, Wanted
<1>6. \A u, v \in Workers : u # v /\ cpc'[u] # "idle" /\ cpc'[v] # "idle" => cmet'[u] /\ cmet'[v]
  BY <1>2, <1>3 DEF PeriodInv
<1>7. \A v \in Workers, c \in contracts' :
        cpc'[v] = "inserting" /\ c.platform = cwanted'[v].platform
          /\ RangesOverlap(cwanted'[v].period, c.period) => c.met /\ cmet'[v]
  <2>1. \A c \in contracts : ~ (c.platform = cwanted'[w].platform /\ RangesOverlap(cwanted'[w].period, c.period))
    BY <1>2, <1>4 DEF PeriodInv
  <2> QED
    BY <1>2, <1>3, <2>1 DEF PeriodInv
<1>8. \A c, d \in contracts' :
        c # d /\ c.platform = d.platform /\ RangesOverlap(c.period, d.period) => c.met /\ d.met
  BY <1>2 DEF PeriodInv
<1> QED
  BY <1>5, <1>6, <1>7, <1>8 DEF PeriodInv, RangesOverlap, EffectiveEnd

LEMMA InsertKeepsPeriods ==
  ASSUME PeriodInv, NEW w \in Workers, InsertContract(w)
  PROVE  PeriodInv'
<1> DEFINE new == [call |-> cwanted[w].call, platform |-> cwanted[w].platform, pct |-> cwanted[w].pct,
                   period |-> cwanted[w].period, met |-> cmet[w]]
<1>1. /\ cpc[w] = "inserting" /\ contracts' = contracts \cup {new} /\ ncreated' = ncreated
      /\ cpc' = [cpc EXCEPT ![w] = "idle"] /\ cwanted' = [cwanted EXCEPT ![w] = None]
      /\ cmet' = [cmet EXCEPT ![w] = FALSE]
      /\ cpc \in [Workers -> {"idle", "inserting"}] /\ cmet \in [Workers -> BOOLEAN]
      /\ cwanted \in [Workers -> Wanted \cup {None}] /\ cwanted[w] \in Wanted
  BY DEF InsertContract, FinishContract, PeriodInv, ContractsTypeOK, Wanted
<1>2. /\ new \in Contracts /\ new.platform = cwanted[w].platform /\ new.period = cwanted[w].period
      /\ (cmet[w] => new.met)
  BY <1>1 DEF Wanted, Contracts
<1>3. \A c \in contracts \cup {new} : c.period \in Periods
  BY <1>2 DEF PeriodInv, ContractsTypeOK, Contracts
<1> HIDE DEF new
<1>4. ContractsTypeOK' /\ (cwanted \in [Workers -> Wanted \cup {None}])'
  BY <1>1, <1>2 DEF ContractsTypeOK, PeriodInv, Wanted
<1>5. \A c \in contracts : new.platform = c.platform /\ RangesOverlap(new.period, c.period) => c.met /\ new.met
  BY <1>1, <1>2 DEF PeriodInv
<1>6. \A c, d \in contracts' :
        c # d /\ c.platform = d.platform /\ RangesOverlap(c.period, d.period) => c.met /\ d.met
  BY <1>1, <1>3, <1>5, OverlapSymmetric DEF PeriodInv
<1>7. \A v \in Workers : v # w /\ cpc[v] # "idle" => new.met /\ cmet[v]
  BY <1>1, <1>2 DEF PeriodInv
<1>8. \A v \in Workers, c \in contracts' :
        cpc'[v] = "inserting" /\ c.platform = cwanted'[v].platform
          /\ RangesOverlap(cwanted'[v].period, c.period) => c.met /\ cmet'[v]
  BY <1>1, <1>7 DEF PeriodInv
<1>9. \A u, v \in Workers : u # v /\ cpc'[u] # "idle" /\ cpc'[v] # "idle" => cmet'[u] /\ cmet'[v]
  BY <1>1 DEF PeriodInv
<1> QED
  BY <1>4, <1>6, <1>8, <1>9 DEF PeriodInv, RangesOverlap, EffectiveEnd

LEMMA LoseKeepsPeriods ==
  ASSUME PeriodInv, NEW w \in Workers, LoseContract(w)
  PROVE  PeriodInv'
<1>1. /\ contracts' = contracts /\ ncreated' = ncreated
      /\ cpc' = [cpc EXCEPT ![w] = "idle"] /\ cwanted' = [cwanted EXCEPT ![w] = None]
      /\ cmet' = [cmet EXCEPT ![w] = FALSE]
  BY DEF LoseContract, FinishContract
<1>2. ContractsTypeOK' /\ (cwanted \in [Workers -> Wanted \cup {None}])'
  BY <1>1 DEF ContractsTypeOK, PeriodInv, Wanted
<1> QED
  BY <1>1, <1>2 DEF PeriodInv, ContractsTypeOK, RangesOverlap, EffectiveEnd

\* A day on which no other contract is active has the contract's rate.
LEMMA OnlyActive ==
  ASSUME NEW c \in contracts, NEW day, {d \in contracts : IsActiveOn(d.period, day)} = {c}
  PROVE  Rate(day) = c.pct
BY FS_Singleton DEF Rate

LEMMA PeriodRates ==
  ASSUME PeriodInv
  PROVE  RateOfContract
<1> SUFFICES ASSUME NEW c \in contracts, NEW day \in Days \ {MaxDate}, IsActiveOn(c.period, day),
                    \A d \in contracts \ {c} : IsActiveOn(d.period, day) =>
                      d.platform = c.platform /\ ~ (c.met /\ d.met)
             PROVE  Rate(day) = c.pct
  BY Zenon DEF RateOfContract
<1>1. \A d \in contracts : d.period \in Periods
  BY DEF PeriodInv, ContractsTypeOK, Contracts
<1>2. ASSUME NEW d \in contracts \ {c}, IsActiveOn(d.period, day) PROVE FALSE
  <2>1. RangesOverlap(c.period, d.period)
    BY <1>1, <1>2, ActiveOverlap
  <2> QED
    BY <1>2, <2>1 DEF PeriodInv
<1> QED
  BY <1>2, OnlyActive

\* What the creations under way have checked is inductive.
LEMMA PeriodInductive == ContractsSpec => []PeriodInv
<1>1. ContractsInit => PeriodInv
  BY PeriodInit
<1>2. PeriodInv /\ [ContractsNext]_cvars => PeriodInv'
  <2>1. ASSUME PeriodInv, ContractsNext PROVE PeriodInv'
    BY <2>1, CheckKeepsPeriods, InsertKeepsPeriods, LoseKeepsPeriods DEF ContractsNext
  <2>2. ASSUME PeriodInv, UNCHANGED cvars PROVE PeriodInv'
    BY <2>2 DEF PeriodInv, ContractsTypeOK, cvars, RangesOverlap, EffectiveEnd
  <2> QED
    BY <2>1, <2>2
<1> QED
  BY <1>1, <1>2, PTL DEF ContractsSpec

\* The states of the contracts are well formed.
THEOREM ContractsTypeCorrect == ContractsSpec => []ContractsTypeOK
<1>1. PeriodInv => ContractsTypeOK
  BY DEF PeriodInv
<1> QED
  BY <1>1, PeriodInductive, PTL

\* create_contract and get_commission_rate: on each day of a contract the rate
\* found is its own, up to other platforms and overlapping creations.
THEOREM RatesOfContracts == ContractsSpec => []RateOfContract
<1>1. PeriodInv => RateOfContract
  BY PeriodRates
<1> QED
  BY <1>1, PeriodInductive, PTL

(***************************************************************************)
(* Startup                                                                 *)
(***************************************************************************)
\* What the proof needs of the types.
StartupTypes ==
  /\ env \in Settings /\ users \in UserTables
  /\ rev \in {None, "0001", HeadRevision} /\ shape \in {"none", "baseline", "drifted", "head"}
  /\ DOMAIN spc = Instances
  /\ sread \in [Instances -> {None, "0001", HeadRevision}]
  /\ sargs \in [Instances -> {"none", "existing", "missing_ok"}]
  /\ splan \in [Instances -> [assign : BOOLEAN, promote : BOOLEAN]]
  /\ slipped \in BOOLEAN /\ unseeded \in BOOLEAN

\* What the instance that holds the advisory lock knows of the schema.
MigrationInv ==
  \A i \in Instances :
    /\ spc[i] \in Migrating => holder = i
    /\ spc[i] \in {"arguments", "drift", "stamp"} => rev = sread[i] /\ rev # HeadRevision
    /\ spc[i] \in {"drift", "stamp"} => rev = None
    /\ spc[i] = "stamp" => shape = "baseline"
    /\ spc[i] = "preflight" => \/ rev = "0001" /\ shape = "baseline"
                               \/ rev = None /\ shape = "none"
    /\ spc[i] = "alter" => rev = "0001" /\ shape = "baseline"

\* Before 0002 every user is a client; a plan that would leave the users without
\* an operator is one for which the seed will create the account.
PlanInv ==
  /\ shape # "head" => \A e \in DOMAIN users : users[e] = [role |-> Client, attached |-> FALSE]
  /\ \A i \in Instances :
       /\ sargs[i] = "missing_ok" => env.named /\ env.password
       /\ spc[i] = "alter" =>
            \/ splan[i].promote /\ OperatorEmail \in DOMAIN users
            \/ /\ ~ splan[i].promote
               /\ splan[i].assign => /\ env.named /\ env.password
                                     /\ OperatorEmail \notin DOMAIN users \/ slipped

\* A migrated database has an operator, or the seed is going to create one.
LockoutInv ==
  /\ shape = "head" => \/ HasOperator \/ slipped
                       \/ /\ OperatorEmail \notin DOMAIN users
                          /\ (env.named /\ env.password) \/ users = <<>>
  /\ \A i \in Instances :
       /\ spc[i] \in {"seed", "seed_insert", "demo", "serving"} \cup Seeding => shape = "head"
       /\ spc[i] \in {"demo", "serving"} \cup Seeding =>
            users = <<>> \/ HasOperator \/ slipped \/ unseeded

StartupInv == StartupTypes /\ SchemaKnown /\ MigrationInv /\ PlanInv /\ LockoutInv

Rest(i) ==
  \A j \in Instances : j # i =>
    spc'[j] = spc[j] /\ sread'[j] = sread[j] /\ sargs'[j] = sargs[j] /\ splan'[j] = splan[j]
Keeps(i) == sread'[i] = sread[i] /\ sargs'[i] = sargs[i] /\ splan'[i] = splan[i]
Same == UNCHANGED <<env, rev, shape, users, orgs, slipped, unseeded>>

\* The steps of the demo data, which change nothing that is proved here.
Demo(i) ==
  \/ DemoCheck(i) \/ DemoOrg(i) \/ DemoBranch(i) \/ DemoPlatform(i) \/ DemoNewPlatform(i) \/ DemoContract(i)

\* Refusals and crashes are all alike.
LEMMA StartupCases ==
  ASSUME StartupNext
  PROVE  \/ \E i \in Instances :
              \/ Down(i) \/ Boot(i) \/ Lock(i) \/ Inspect(i) \/ OperatorArguments(i) \/ CheckDrift(i)
              \/ Stamp(i) \/ Preflight(i) \/ Alter(i) \/ Release(i) \/ Verify(i)
              \/ SeedCheck(i) \/ SeedInsert(i) \/ SeedFail(i) \/ Demo(i)
         \/ \E e \in Emails : OldRegister(e)
BY DEF StartupNext, StartupStep, Crash, RefuseArguments, RefuseDrift, RefusePreflight, RefuseAlter,
   RefuseVerify, DemoPlatformTaken, Demo

\* The tables of users are closed under a new row and the UPDATEs of 0002.
LEMMA UserTablesClosed ==
  ASSUME NEW u \in UserTables
  PROVE  /\ \A e \in Emails, a \in Accounts : Extend(u, e, a) \in UserTables
         /\ \A plan : Upgraded(u, plan) \in UserTables
         /\ DOMAIN u \subseteq Emails /\ \A e \in DOMAIN u : u[e] \in Accounts
<1>1. PICK E \in SUBSET Emails : u \in [E -> Accounts]
  BY DEF UserTables
<1>2. ASSUME NEW e \in Emails, NEW a \in Accounts PROVE Extend(u, e, a) \in [E \cup {e} -> Accounts]
  BY <1>1 DEF Extend
<1>3. ASSUME NEW plan PROVE Upgraded(u, plan) \in [E -> Accounts]
  <2>1. \A e \in E : [role |-> Operator, attached |-> FALSE] \in Accounts /\ [u[e] EXCEPT !.attached = TRUE] \in Accounts
    BY <1>1 DEF Accounts
  <2> QED
    BY <1>1, <2>1 DEF Upgraded
<1>4. \A e \in Emails : E \cup {e} \in SUBSET Emails
  BY <1>1
<1>5. DOMAIN u \subseteq Emails /\ \A e \in DOMAIN u : u[e] \in Accounts
  BY <1>1
<1>6. \A E2 \in SUBSET Emails : \A f \in [E2 -> Accounts] : f \in UserTables
  BY Zenon DEF UserTables
<1> QED
  BY <1>1, <1>2, <1>3, <1>4, <1>5, <1>6

\* What the UPDATEs make of a client.
LEMMA UpgradedRows ==
  ASSUME NEW u, NEW plan, NEW e \in DOMAIN u
  PROVE  /\ plan.promote /\ e = OperatorEmail =>
              Upgraded(u, plan)[e] = [role |-> Operator, attached |-> FALSE]
         /\ ~ plan.promote /\ ~ plan.assign => Upgraded(u, plan)[e] = u[e]
BY DEF Upgraded

\* A table without rows is the empty table.
LEMMA NoUsers ==
  ASSUME NEW u \in UserTables, DOMAIN u = {}
  PROVE  u = <<>>
<1>1. u \in Seq(Accounts) /\ Len(u) = 0
  BY DEF UserTables
<1> QED
  BY <1>1

LEMMA DownDoes ==
  ASSUME StartupTypes, NEW i \in Instances, Down(i)
  PROVE  /\ spc'[i] = "down" /\ sargs'[i] = "none" /\ Rest(i) /\ Same
         /\ holder' \in {holder, None} /\ (holder # i => holder' = holder)
BY DEF StartupTypes, Down, Rest, Keeps, Same, stables, sghosts

LEMMA BootDoes ==
  ASSUME StartupTypes, NEW i \in Instances, Boot(i)
  PROVE  /\ spc[i] = "down" /\ spc'[i] \in {"lock", "verify"}
         /\ Rest(i) /\ Keeps(i) /\ Same /\ holder' = holder
BY DEF StartupTypes, Boot, StartGoto, Rest, Keeps, Same, stables, sghosts

LEMMA LockDoes ==
  ASSUME StartupTypes, NEW i \in Instances, Lock(i)
  PROVE  /\ spc[i] = "lock" /\ spc'[i] = "inspect" /\ holder = None /\ holder' = i
         /\ Rest(i) /\ Keeps(i) /\ Same
BY DEF StartupTypes, Lock, StartGoto, Rest, Keeps, Same, stables, sghosts

LEMMA InspectDoes ==
  ASSUME StartupTypes, NEW i \in Instances, Inspect(i)
  PROVE  /\ spc[i] = "inspect" /\ sread'[i] = rev /\ sargs'[i] = sargs[i]
         /\ \/ spc'[i] = "release"
            \/ spc'[i] = "preflight" /\ rev = None /\ shape = "none"
            \/ spc'[i] = "arguments" /\ rev # HeadRevision
         /\ Rest(i) /\ Same /\ holder' = holder
BY DEF StartupTypes, Inspect, StartGoto, Rest, Keeps, Same, stables, sghosts

LEMMA OperatorArgumentsDoes ==
  ASSUME StartupTypes, NEW i \in Instances, OperatorArguments(i)
  PROVE  /\ spc[i] = "arguments" /\ sread'[i] = sread[i]
         /\ spc'[i] = IF sread[i] = None THEN "drift" ELSE "preflight"
         /\ sargs'[i] = "missing_ok" => env.named /\ env.password
         /\ Rest(i) /\ Same /\ holder' = holder
BY DEF StartupTypes, OperatorArguments, StartGoto, ArgumentsRefuse, Rest, Keeps, Same, stables, sghosts

LEMMA CheckDriftDoes ==
  ASSUME StartupTypes, NEW i \in Instances, CheckDrift(i)
  PROVE  /\ spc[i] = "drift" /\ spc'[i] = "stamp" /\ shape = "baseline"
         /\ Rest(i) /\ Keeps(i) /\ Same /\ holder' = holder
BY DEF StartupTypes, CheckDrift, StartGoto, Rest, Keeps, Same, stables, sghosts

LEMMA StampDoes ==
  ASSUME StartupTypes, NEW i \in Instances, Stamp(i)
  PROVE  /\ spc[i] = "stamp" /\ spc'[i] = "preflight" /\ rev' = "0001"
         /\ Rest(i) /\ Keeps(i) /\ holder' = holder /\ UNCHANGED <<env, shape, users, orgs, slipped, unseeded>>
BY DEF StartupTypes, Stamp, StartGoto, Rest, Keeps, Same, stables, sghosts

LEMMA PreflightDoes ==
  ASSUME StartupTypes, NEW i \in Instances, Preflight(i)
  PROVE  /\ spc[i] = "preflight" /\ spc'[i] = "alter" /\ ~ PreflightRefuses(i)
         /\ rev' = "0001" /\ shape' = Baseline(shape) /\ sargs'[i] = sargs[i]
         /\ splan'[i] = [assign |-> NeedsOrganization(i), promote |-> Promotes(i)]
         /\ Rest(i) /\ holder' = holder /\ UNCHANGED <<env, users, orgs, slipped, unseeded>>
BY DEF StartupTypes, Preflight, StartGoto, Rest, Keeps, Same, stables, sghosts

LEMMA AlterDoes ==
  ASSUME StartupTypes, NEW i \in Instances, Alter(i)
  PROVE  /\ spc[i] = "alter" /\ spc'[i] = "release" /\ Structural(Upgraded(users, splan[i]))
         /\ users' = Upgraded(users, splan[i]) /\ rev' = HeadRevision /\ shape' = Numbers(Tenancy(shape))
         /\ Rest(i) /\ Keeps(i) /\ holder' = holder /\ UNCHANGED <<env, orgs, slipped, unseeded>>
BY DEF StartupTypes, Alter, StartGoto, Rest, Keeps, Same, stables, sghosts

LEMMA ReleaseDoes ==
  ASSUME StartupTypes, NEW i \in Instances, Release(i)
  PROVE  /\ spc[i] = "release" /\ spc'[i] = "verify" /\ sargs'[i] = "none" /\ Rest(i) /\ Same
         /\ holder' \in {holder, None} /\ (holder # i => holder' = holder)
BY DEF StartupTypes, Release, StartGoto, Rest, Keeps, Same, stables, sghosts

LEMMA VerifyDoes ==
  ASSUME StartupTypes, NEW i \in Instances, Verify(i)
  PROVE  /\ spc[i] = "verify" /\ spc'[i] = "seed" /\ rev = HeadRevision
         /\ Rest(i) /\ Keeps(i) /\ Same /\ holder' = holder
BY DEF StartupTypes, Verify, StartGoto, Rest, Keeps, Same, stables, sghosts

LEMMA SeedCheckDoes ==
  ASSUME StartupTypes, NEW i \in Instances, SeedCheck(i)
  PROVE  /\ spc[i] = "seed"
         /\ \/ spc'[i] = "seed_insert"
            \/ spc'[i] = "demo" /\ ~ (env.named /\ env.password /\ OperatorEmail \notin DOMAIN users)
         /\ Rest(i) /\ Keeps(i) /\ Same /\ holder' = holder
BY DEF StartupTypes, SeedCheck, StartGoto, Rest, Keeps, Same, stables, sghosts

LEMMA SeedInsertDoes ==
  ASSUME StartupTypes, NEW i \in Instances, SeedInsert(i)
  PROVE  /\ spc[i] = "seed_insert" /\ spc'[i] = "demo"
         /\ users' = Extend(users, OperatorEmail, [role |-> Operator, attached |-> FALSE])
         /\ Rest(i) /\ Keeps(i) /\ holder' = holder /\ UNCHANGED <<env, rev, shape, orgs, slipped, unseeded>>
BY DEF StartupTypes, SeedInsert, StartGoto, Rest, Keeps, Same, stables, sghosts

LEMMA SeedFailDoes ==
  ASSUME StartupTypes, NEW i \in Instances, SeedFail(i)
  PROVE  /\ spc[i] = "seed_insert" /\ spc'[i] = "demo"
         /\ (unseeded => unseeded') /\ (OperatorEmail \notin DOMAIN users => unseeded')
         /\ Rest(i) /\ Keeps(i) /\ holder' = holder /\ UNCHANGED <<env, rev, shape, users, orgs, slipped>>
BY DEF StartupTypes, SeedFail, StartGoto, Rest, Keeps, Same, stables, sghosts

LEMMA DemoDoes ==
  ASSUME StartupTypes, NEW i \in Instances, Demo(i)
  PROVE  /\ spc[i] \in {"demo"} \cup Seeding /\ spc'[i] \in Seeding \cup {"serving"}
         /\ Rest(i) /\ Keeps(i) /\ Same /\ holder' = holder
BY DEF StartupTypes, Demo, DemoCheck, DemoOrg, DemoBranch, DemoPlatform, DemoNewPlatform, DemoContract, Seeding, StartGoto, Rest, Keeps, Same, stables, sghosts

LEMMA OldRegisterDoes ==
  ASSUME NEW e \in Emails, OldRegister(e)
  PROVE  /\ shape \in {"baseline", "drifted"} /\ e \notin DOMAIN users
         /\ users' = Extend(users, e, [role |-> Client, attached |-> FALSE])
         /\ slipped => slipped'
         /\ e = OperatorEmail /\ (\E i \in Instances : spc[i] = "alter") => slipped'
         /\ UNCHANGED <<env, rev, shape, orgs, holder, unseeded, spc, sread, sargs, splan>>
BY DEF OldRegister, slocals

\* A row more: who was there is there, unchanged.
LEMMA ExtendUsers ==
  ASSUME NEW u \in UserTables, NEW e \in Emails, NEW a, e \notin DOMAIN u
  PROVE  /\ DOMAIN Extend(u, e, a) = DOMAIN u \cup {e}
         /\ Extend(u, e, a)[e] = a
         /\ \A x \in DOMAIN u : Extend(u, e, a)[x] = u[x]
BY DEF Extend

\* The types are kept.
LEMMA StartupTypeStep ==
  ASSUME StartupTypes, StartupNext
  PROVE  StartupTypes'
<1> USE DEF StartupTypes
<1>1. ASSUME NEW i \in Instances, Down(i) PROVE StartupTypes'
  BY <1>1 DEF Down, stables, sghosts, NoPlan
<1>2. ASSUME NEW i \in Instances, Boot(i) PROVE StartupTypes'
  BY <1>2 DEF Boot, StartGoto, stables, sghosts
<1>3. ASSUME NEW i \in Instances, Lock(i) PROVE StartupTypes'
  BY <1>3 DEF Lock, StartGoto, stables, sghosts
<1>4. ASSUME NEW i \in Instances, Inspect(i) PROVE StartupTypes'
  BY <1>4 DEF Inspect, StartGoto, stables, sghosts
<1>5. ASSUME NEW i \in Instances, OperatorArguments(i) PROVE StartupTypes'
  BY <1>5 DEF OperatorArguments, StartGoto, stables, sghosts
<1>6. ASSUME NEW i \in Instances, CheckDrift(i) PROVE StartupTypes'
  BY <1>6 DEF CheckDrift, StartGoto, stables, sghosts
<1>7. ASSUME NEW i \in Instances, Stamp(i) PROVE StartupTypes'
  BY <1>7 DEF Stamp, StartGoto, stables, sghosts
<1>8. ASSUME NEW i \in Instances, Preflight(i) PROVE StartupTypes'
  <2>1. splan' \in [Instances -> [assign : BOOLEAN, promote : BOOLEAN]]
    <3>1. NeedsOrganization(i) \in BOOLEAN /\ Promotes(i) \in BOOLEAN
      BY DEF NeedsOrganization, Promotes
    <3> QED
      BY <1>8, <3>1 DEF Preflight
  <2>2. shape' \in {"none", "baseline", "drifted", "head"}
    BY <1>8 DEF Preflight, Baseline
  <2> QED
    BY <1>8, <2>1, <2>2 DEF Preflight, StartGoto, sghosts
<1>9. ASSUME NEW i \in Instances, Alter(i) PROVE StartupTypes'
  <2>1. users' \in UserTables
    BY <1>9, AlterDoes, UserTablesClosed
  <2>2. shape' \in {"none", "baseline", "drifted", "head"}
    BY <1>9, AlterDoes DEF Numbers, Tenancy
  <2> QED
    BY <1>9, <2>1, <2>2 DEF Alter, StartGoto, sghosts
<1>10. ASSUME NEW i \in Instances, Release(i) PROVE StartupTypes'
  BY <1>10 DEF Release, StartGoto, stables, sghosts, NoPlan
<1>11. ASSUME NEW i \in Instances, Verify(i) PROVE StartupTypes'
  BY <1>11 DEF Verify, StartGoto, stables, sghosts
<1>12. ASSUME NEW i \in Instances, SeedCheck(i) PROVE StartupTypes'
  BY <1>12 DEF SeedCheck, StartGoto, stables, sghosts
<1>13. ASSUME NEW i \in Instances, SeedInsert(i) PROVE StartupTypes'
  <2>1. [role |-> Operator, attached |-> FALSE] \in Accounts /\ OperatorEmail \in Emails
    BY DEF Emails, Accounts
  <2>2. users' \in UserTables
    <3>1. users' = Extend(users, OperatorEmail, [role |-> Operator, attached |-> FALSE])
      BY <1>13, SeedInsertDoes
    <3> QED
      BY <2>1, <3>1, UserTablesClosed
  <2> QED
    BY <1>13, <2>2 DEF SeedInsert, StartGoto, sghosts
<1>14. ASSUME NEW i \in Instances, SeedFail(i) PROVE StartupTypes'
  BY <1>14 DEF SeedFail, StartGoto, stables, sghosts
<1>15. ASSUME NEW i \in Instances, Demo(i) PROVE StartupTypes'
  BY <1>15 DEF Demo, DemoCheck, DemoOrg, DemoBranch, DemoPlatform, DemoNewPlatform, DemoContract, Seeding, StartGoto, stables, sghosts
<1>16. ASSUME NEW e \in Emails, OldRegister(e) PROVE StartupTypes'
  <2>1. [role |-> Client, attached |-> FALSE] \in Accounts
    BY DEF Accounts
  <2>2. users' \in UserTables
    <3>1. users' = Extend(users, e, [role |-> Client, attached |-> FALSE])
      BY <1>16, OldRegisterDoes
    <3> QED
      BY <2>1, <3>1, UserTablesClosed
  <2> QED
    BY <1>16, <2>2 DEF OldRegister, slocals
<1> QED
  BY <1>1, <1>2, <1>3, <1>4, <1>5, <1>6, <1>7, <1>8, <1>9, <1>10, <1>11, <1>12, <1>13, <1>14, <1>15, <1>16, StartupCases

\* One instance at a time migrates, and knows what it migrates.
LEMMA MigrationStep ==
  ASSUME StartupTypes, SchemaKnown, MigrationInv, StartupNext
  PROVE  (SchemaKnown /\ MigrationInv)'
<1> USE DEF SchemaKnown, MigrationInv, Migrating, Seeding, Rest, Keeps, Same, HeadRevision
<1>1. ASSUME NEW i \in Instances, Down(i) PROVE (SchemaKnown /\ MigrationInv)'
  BY <1>1, DownDoes, InstancesAssumption
<1>2. ASSUME NEW i \in Instances, Boot(i) PROVE (SchemaKnown /\ MigrationInv)'
  BY <1>2, BootDoes
<1>3. ASSUME NEW i \in Instances, Lock(i) PROVE (SchemaKnown /\ MigrationInv)'
  BY <1>3, LockDoes, InstancesAssumption
<1>4. ASSUME NEW i \in Instances, Inspect(i) PROVE (SchemaKnown /\ MigrationInv)'
  BY <1>4, InspectDoes, InstancesAssumption DEF StartupTypes
<1>5. ASSUME NEW i \in Instances, OperatorArguments(i) PROVE (SchemaKnown /\ MigrationInv)'
  BY <1>5, OperatorArgumentsDoes, InstancesAssumption DEF StartupTypes
<1>6. ASSUME NEW i \in Instances, CheckDrift(i) PROVE (SchemaKnown /\ MigrationInv)'
  BY <1>6, CheckDriftDoes
<1>7. ASSUME NEW i \in Instances, Stamp(i) PROVE (SchemaKnown /\ MigrationInv)'
  BY <1>7, StampDoes, InstancesAssumption
<1>8. ASSUME NEW i \in Instances, Preflight(i) PROVE (SchemaKnown /\ MigrationInv)'
  <2>1. rev' = "0001" /\ shape' = "baseline" /\ holder' = holder /\ holder = i /\ spc'[i] = "alter"
    BY <1>8, PreflightDoes DEF Baseline
  <2>2. \A j \in Instances : j # i => spc'[j] = spc[j] /\ spc[j] \notin Migrating
    BY <1>8, PreflightDoes
  <2> QED
    BY <2>1, <2>2, InstancesAssumption
<1>9. ASSUME NEW i \in Instances, Alter(i) PROVE (SchemaKnown /\ MigrationInv)'
  BY <1>9, AlterDoes, InstancesAssumption DEF Numbers, Tenancy
<1>10. ASSUME NEW i \in Instances, Release(i) PROVE (SchemaKnown /\ MigrationInv)'
  BY <1>10, ReleaseDoes, InstancesAssumption
<1>11. ASSUME NEW i \in Instances, Verify(i) PROVE (SchemaKnown /\ MigrationInv)'
  BY <1>11, VerifyDoes
<1>12. ASSUME NEW i \in Instances, SeedCheck(i) PROVE (SchemaKnown /\ MigrationInv)'
  BY <1>12, SeedCheckDoes
<1>13. ASSUME NEW i \in Instances, SeedInsert(i) PROVE (SchemaKnown /\ MigrationInv)'
  BY <1>13, SeedInsertDoes
<1>14. ASSUME NEW i \in Instances, SeedFail(i) PROVE (SchemaKnown /\ MigrationInv)'
  BY <1>14, SeedFailDoes
<1>15. ASSUME NEW i \in Instances, Demo(i) PROVE (SchemaKnown /\ MigrationInv)'
  BY <1>15, DemoDoes
<1>16. ASSUME NEW e \in Emails, OldRegister(e) PROVE (SchemaKnown /\ MigrationInv)'
  BY <1>16, OldRegisterDoes
<1> QED
  BY <1>1, <1>2, <1>3, <1>4, <1>5, <1>6, <1>7, <1>8, <1>9, <1>10, <1>11, <1>12, <1>13, <1>14, <1>15, <1>16, StartupCases

\* Plans stay what they were, up to an account that is registered in between.
LEMMA PlanStep ==
  ASSUME StartupTypes, SchemaKnown, MigrationInv, PlanInv, LockoutInv, StartupNext
  PROVE  PlanInv'
<1> USE DEF PlanInv, Rest, Keeps, Same
<1>1. ASSUME NEW i \in Instances, Down(i) PROVE PlanInv'
  BY <1>1, DownDoes
<1>2. ASSUME NEW i \in Instances, Boot(i) PROVE PlanInv'
  BY <1>2, BootDoes
<1>3. ASSUME NEW i \in Instances, Lock(i) PROVE PlanInv'
  BY <1>3, LockDoes
<1>4. ASSUME NEW i \in Instances, Inspect(i) PROVE PlanInv'
  BY <1>4, InspectDoes
<1>5. ASSUME NEW i \in Instances, OperatorArguments(i) PROVE PlanInv'
  BY <1>5, OperatorArgumentsDoes
<1>6. ASSUME NEW i \in Instances, CheckDrift(i) PROVE PlanInv'
  BY <1>6, CheckDriftDoes
<1>7. ASSUME NEW i \in Instances, Stamp(i) PROVE PlanInv'
  BY <1>7, StampDoes
<1>8. ASSUME NEW i \in Instances, Preflight(i) PROVE PlanInv'
  <2>1. shape' # "head" /\ shape # "head"
    BY <1>8, PreflightDoes DEF MigrationInv, Baseline
  <2>2. \A e \in DOMAIN users : users[e].role = Client
    BY <2>1
  <2>3. ASSUME ~ Promotes(i), NeedsOrganization(i)
        PROVE  env.named /\ env.password /\ OperatorEmail \notin DOMAIN users
    <3>1. users # <<>> /\ \A e \in DOMAIN users : users[e].role # Operator
      BY <2>2, <2>3 DEF NeedsOrganization, Client, Operator
    <3>2. sargs[i] # "existing" \/ OperatorEmail \in DOMAIN users
      BY <1>8, PreflightDoes, <3>1 DEF PreflightRefuses
    <3>3. sargs[i] # "none"
      BY <1>8, PreflightDoes, <3>1 DEF PreflightRefuses
    <3> QED
      BY <2>3, <3>2, <3>3 DEF Promotes, StartupTypes
  <2>4. Promotes(i) => OperatorEmail \in DOMAIN users
    BY DEF Promotes
  <2>5. splan'[i].promote = Promotes(i) /\ splan'[i].assign = NeedsOrganization(i)
    <3>1. splan'[i] = [assign |-> NeedsOrganization(i), promote |-> Promotes(i)]
      BY <1>8, PreflightDoes
    <3> QED
      BY <3>1
  <2>6. \/ splan'[i].promote /\ OperatorEmail \in DOMAIN users
        \/ ~ splan'[i].promote /\ (splan'[i].assign =>
             env.named /\ env.password /\ OperatorEmail \notin DOMAIN users)
    <3>1. CASE Promotes(i)
      BY <3>1, <2>4, <2>5, Zenon
    <3>2. CASE ~ Promotes(i)
      BY <3>2, <2>3, <2>5, Zenon
    <3> QED
      BY <3>1, <3>2
  <2>7. /\ users' = users /\ env' = env /\ slipped' = slipped /\ sargs'[i] = sargs[i] /\ spc'[i] = "alter"
        /\ \A j \in Instances : j # i =>
             spc'[j] = spc[j] /\ sargs'[j] = sargs[j] /\ splan'[j] = splan[j]
    BY <1>8, PreflightDoes
  <2>8. \A j \in Instances : sargs'[j] = "missing_ok" => env'.named /\ env'.password
    BY <2>7
  <2>9. \A j \in Instances : j # i => spc'[j] # "alter"
    BY <1>8, PreflightDoes, <2>7 DEF MigrationInv, Migrating
  <2> QED
    BY <2>1, <2>6, <2>7, <2>8, <2>9
<1>9. ASSUME NEW i \in Instances, Alter(i) PROVE PlanInv'
  <2>1. shape' = "head" /\ \A j \in Instances : j # i => spc[j] # "alter"
    BY <1>9, AlterDoes DEF MigrationInv, Numbers, Tenancy, Migrating
  <2> QED
    BY <1>9, <2>1, AlterDoes
<1>10. ASSUME NEW i \in Instances, Release(i) PROVE PlanInv'
  BY <1>10, ReleaseDoes
<1>11. ASSUME NEW i \in Instances, Verify(i) PROVE PlanInv'
  BY <1>11, VerifyDoes
<1>12. ASSUME NEW i \in Instances, SeedCheck(i) PROVE PlanInv'
  BY <1>12, SeedCheckDoes
<1>13. ASSUME NEW i \in Instances, SeedInsert(i) PROVE PlanInv'
  <2>1. shape = "head" /\ \A j \in Instances : spc[j] # "alter"
    BY <1>13, SeedInsertDoes DEF LockoutInv, MigrationInv
  <2> QED
    BY <1>13, <2>1, SeedInsertDoes
<1>14. ASSUME NEW i \in Instances, SeedFail(i) PROVE PlanInv'
  BY <1>14, SeedFailDoes
<1>15. ASSUME NEW i \in Instances, Demo(i) PROVE PlanInv'
  BY <1>15, DemoDoes DEF Seeding
<1>16. ASSUME NEW e \in Emails, OldRegister(e) PROVE PlanInv'
  <2>1. /\ DOMAIN users' = DOMAIN users \cup {e} /\ users'[e] = [role |-> Client, attached |-> FALSE]
        /\ \A x \in DOMAIN users : users'[x] = users[x]
    BY <1>16, OldRegisterDoes DEF Extend
  <2> QED
    BY <1>16, <2>1, OldRegisterDoes
<1> QED
  BY <1>1, <1>2, <1>3, <1>4, <1>5, <1>6, <1>7, <1>8, <1>9, <1>10, <1>11, <1>12, <1>13, <1>14, <1>15, <1>16, StartupCases

\* An operator stays, and the seed does what the plan relied on.
LEMMA LockoutStep ==
  ASSUME StartupTypes, SchemaKnown, MigrationInv, PlanInv, LockoutInv, StartupNext
  PROVE  LockoutInv'
<1> USE DEF LockoutInv, HasOperator, Rest, Keeps, Same, Seeding
<1>1. ASSUME NEW i \in Instances, Down(i) PROVE LockoutInv'
  BY <1>1, DownDoes
<1>2. ASSUME NEW i \in Instances, Boot(i) PROVE LockoutInv'
  BY <1>2, BootDoes
<1>3. ASSUME NEW i \in Instances, Lock(i) PROVE LockoutInv'
  BY <1>3, LockDoes
<1>4. ASSUME NEW i \in Instances, Inspect(i) PROVE LockoutInv'
  BY <1>4, InspectDoes
<1>5. ASSUME NEW i \in Instances, OperatorArguments(i) PROVE LockoutInv'
  BY <1>5, OperatorArgumentsDoes
<1>6. ASSUME NEW i \in Instances, CheckDrift(i) PROVE LockoutInv'
  BY <1>6, CheckDriftDoes
<1>7. ASSUME NEW i \in Instances, Stamp(i) PROVE LockoutInv'
  BY <1>7, StampDoes
<1>8. ASSUME NEW i \in Instances, Preflight(i) PROVE LockoutInv'
  <2>1. shape' # "head" /\ shape # "head"
    BY <1>8, PreflightDoes DEF MigrationInv, Baseline
  <2> QED
    BY <1>8, <2>1, PreflightDoes
<1>9. ASSUME NEW i \in Instances, Alter(i) PROVE LockoutInv'
  <2>1. shape = "baseline" /\ \A j \in Instances : spc[j] \notin {"seed", "seed_insert", "demo", "serving"} \cup Seeding
    BY <1>9, AlterDoes DEF MigrationInv
  <2>2. \A e \in DOMAIN users : users[e] = [role |-> Client, attached |-> FALSE]
    BY <2>1 DEF PlanInv
  <2>3. DOMAIN users' = DOMAIN users
    BY <1>9, AlterDoes DEF Upgraded
  <2>0. users' = Upgraded(users, splan[i]) /\ Structural(users')
    BY <1>9, AlterDoes
  <2>4. CASE splan[i].promote /\ OperatorEmail \in DOMAIN users
    <3>1. users'[OperatorEmail].role = Operator
      BY <2>4, <2>0, UpgradedRows
    <3> QED
      BY <1>9, <2>1, <2>3, <2>4, <3>1, AlterDoes
  <2>5. CASE ~ splan[i].promote /\ ~ splan[i].assign
    <3>1. \A e \in DOMAIN users : users'[e] = [role |-> Client, attached |-> FALSE]
      BY <2>2, <2>5, <2>0, UpgradedRows
    <3>2. DOMAIN users' = {}
      <4>1. ASSUME NEW e \in DOMAIN users' PROVE FALSE
        <5>1. users'[e] = [role |-> Client, attached |-> FALSE]
          BY <2>3, <3>1, <4>1
        <5>2. users'[e].role = Client /\ users'[e].attached = FALSE
          BY <5>1
        <5>3. users'[e].role = Operator <=> ~ users'[e].attached
          BY <2>0 DEF Structural
        <5> QED
          BY <5>2, <5>3 DEF Client, Operator
      <4> QED
        BY <4>1
    <3>3. users' = <<>>
      BY <1>9, <3>2, AlterDoes, UserTablesClosed, NoUsers DEF StartupTypes
    <3> QED
      BY <1>9, <2>1, <3>2, <3>3, AlterDoes
  <2>6. CASE ~ splan[i].promote /\ splan[i].assign
    BY <1>9, <2>1, <2>3, <2>6, AlterDoes DEF PlanInv
  <2> QED
    BY <1>9, <2>4, <2>5, <2>6, AlterDoes DEF PlanInv
<1>10. ASSUME NEW i \in Instances, Release(i) PROVE LockoutInv'
  BY <1>10, ReleaseDoes
<1>11. ASSUME NEW i \in Instances, Verify(i) PROVE LockoutInv'
  BY <1>11, VerifyDoes DEF SchemaKnown
<1>12. ASSUME NEW i \in Instances, SeedCheck(i) PROVE LockoutInv'
  BY <1>12, SeedCheckDoes
<1>13. ASSUME NEW i \in Instances, SeedInsert(i) PROVE LockoutInv'
  <2>1. shape = "head" /\ users'[OperatorEmail].role = Operator /\ OperatorEmail \in DOMAIN users'
    BY <1>13, SeedInsertDoes DEF Extend
  <2> QED
    BY <1>13, <2>1, SeedInsertDoes
<1>14. ASSUME NEW i \in Instances, SeedFail(i) PROVE LockoutInv'
  BY <1>14, SeedFailDoes
<1>15. ASSUME NEW i \in Instances, Demo(i) PROVE LockoutInv'
  BY <1>15, DemoDoes
<1>16. ASSUME NEW e \in Emails, OldRegister(e) PROVE LockoutInv'
  BY <1>16, OldRegisterDoes
<1> QED
  BY <1>1, <1>2, <1>3, <1>4, <1>5, <1>6, <1>7, <1>8, <1>9, <1>10, <1>11, <1>12, <1>13, <1>14, <1>15, <1>16, StartupCases

LEMMA StartupInitInv == StartupInit => StartupInv
<1> SUFFICES ASSUME StartupInit PROVE StartupInv
  OBVIOUS
<1>1. PICK d \in Databases : rev = d.rev /\ shape = d.shape /\ users = d.users /\ orgs = d.orgs
  BY DEF StartupInit
<1>2. /\ d.rev \in {None, "0001", HeadRevision} /\ d.shape \in {"none", "baseline", "drifted", "head"}
      /\ d.users \in UserTables
      /\ d.rev = "0001" => d.shape = "baseline"
      /\ d.rev = HeadRevision <=> d.shape = "head"
      /\ d.rev # HeadRevision => \A e \in DOMAIN d.users : d.users[e] = [role |-> Client, attached |-> FALSE]
      /\ d.rev = HeadRevision => d.users = <<>> \/ \E e \in DOMAIN d.users : d.users[e].role = Operator
  BY DatabasesAssumption
<1>3. StartupTypes
  BY <1>1, <1>2 DEF StartupInit, StartupTypes, NoPlan
<1>4. SchemaKnown
  BY <1>1, <1>2 DEF SchemaKnown
<1>5. \A i \in Instances : spc[i] = "down" /\ sargs[i] = "none"
  BY DEF StartupInit
<1>6. MigrationInv
  BY <1>5 DEF MigrationInv, Migrating
<1>7. PlanInv
  BY <1>1, <1>2, <1>5 DEF PlanInv
<1>8. users = <<>> => OperatorEmail \notin DOMAIN users
  OBVIOUS
<1>9. LockoutInv
  BY <1>1, <1>2, <1>5, <1>8 DEF LockoutInv, HasOperator, Seeding
<1> QED
  BY <1>3, <1>4, <1>6, <1>7, <1>9 DEF StartupInv

LEMMA StartupStutter ==
  ASSUME StartupInv, UNCHANGED svars
  PROVE  StartupInv'
BY DEF StartupInv, StartupTypes, SchemaKnown, MigrationInv, PlanInv, LockoutInv, HasOperator, svars,
   stables, sghosts, slocals

\* The invariant of the start-up is inductive.
THEOREM StartupInductive == StartupSpec => []StartupInv
<1>1. StartupInit => StartupInv
  BY StartupInitInv
<1>2. StartupInv /\ [StartupNext]_svars => StartupInv'
  <2>1. ASSUME StartupInv, StartupNext PROVE StartupInv'
    BY <2>1, StartupTypeStep, MigrationStep, PlanStep, LockoutStep DEF StartupInv
  <2> QED
    BY <2>1, StartupStutter
<1> QED
  BY <1>1, <1>2, PTL DEF StartupSpec

\* auto_migrate: however many instances start and wherever they die, the
\* revision says which schema the tables have.
THEOREM RevisionTellsSchema == StartupSpec => []SchemaKnown
<1>1. StartupInv => SchemaKnown
  BY DEF StartupInv
<1> QED
  BY <1>1, StartupInductive, PTL

\* The preflight, the promotion and the seed together leave an operator, with
\* the two exceptions that NoLockout names.
THEOREM OperatorRemains == StartupSpec => []NoLockout
<1>1. StartupInv => NoLockout
  BY DEF StartupInv, LockoutInv, NoLockout
<1> QED
  BY <1>1, StartupInductive, PTL

(***************************************************************************)
(* Startup: types, and the demo organization                               *)
(***************************************************************************)
\* Where an instance is before it has made a demo organization, and while it
\* fills the one it has made.
Early == Migrating \cup {"lock", "verify", "seed", "seed_insert", "demo"}
Filling == Seeding \ {"demo_org"}
Fresh == {i \in Instances : spc[i] \in Early \cup {"demo_org"}}

\* Instances fill demo organizations of their own, branch by branch, and there
\* are no more of these than starts.
Rows == [branches : 0..DemoBranches, contracts : 0..DemoBranches]
Filled(label, branch, row) ==
  row.contracts = branch - 1 /\ row.branches = IF label = "demo_branch" THEN branch - 1 ELSE branch

FillInv ==
  /\ demos \in Seq(Rows)
  /\ \A k \in 1..Len(demos) : demos[k].contracts \in {demos[k].branches, demos[k].branches - 1}
  /\ \A i \in Instances : spc[i] \in Filling =>
       /\ sdemo[i] \in 1..Len(demos) /\ sbranch[i] \in 1..DemoBranches
       /\ Filled(spc[i], sbranch[i], demos[sdemo[i]])
  /\ \A i, j \in Instances : i # j /\ spc[i] \in Filling /\ spc[j] \in Filling => sdemo[i] # sdemo[j]

StartsInv == nboots \in 0..MaxBoots /\ IsFiniteSet(Fresh) /\ Len(demos) + Cardinality(Fresh) <= nboots

PlaceInv ==
  /\ spc \in [Instances -> Early \cup Seeding \cup {"down", "serving"}]
  /\ orgs \in Nat /\ holder \in Instances \cup {None} /\ platforms \subseteq 1..DemoBranches
  /\ together \in BOOLEAN
  /\ sdemo \in [Instances -> 0..MaxBoots] /\ sbranch \in [Instances -> 0..DemoBranches]

\* An instance that is about to make the organization has found none, or it
\* has met another one.
OnceDemoInv ==
  /\ \A i, j \in Instances : i # j /\ spc[i] \in Seeding /\ spc[j] \in Seeding => together
  /\ \A i \in Instances : spc[i] = "demo_org" => demos = <<>> \/ together

DemoInv == PlaceInv /\ FillInv /\ StartsInv /\ OnceDemoInv /\ DemoOnce

\* The steps of the migration and of the operator seed make no demo data.
EarlyStep(i) ==
  \/ Lock(i) \/ Inspect(i) \/ OperatorArguments(i) \/ CheckDrift(i) \/ Stamp(i) \/ Preflight(i) \/ Alter(i)
  \/ Release(i) \/ Verify(i) \/ SeedCheck(i) \/ SeedInsert(i) \/ SeedFail(i)

Moves(i, label) == spc' = [spc EXCEPT ![i] = label]

LEMMA EarlyDoes ==
  ASSUME NEW i \in Instances, EarlyStep(i)
  PROVE  /\ spc[i] \in Early /\ \E label \in Early : Moves(i, label)
         /\ orgs' = orgs /\ holder' \in {holder, i, None}
         /\ UNCHANGED <<demos, platforms, nboots, together, sdemo, sbranch>>
<1> USE DEF Moves, Early, Migrating, StartGoto, stables, sghosts
<1>1. CASE Lock(i) \/ CheckDrift(i) \/ Stamp(i) \/ Preflight(i) \/ Alter(i) \/ Release(i) \/ Verify(i)
  BY <1>1 DEF Lock, CheckDrift, Stamp, Preflight, Alter, Release, Verify
<1>2. CASE Inspect(i)
  BY <1>2 DEF Inspect
<1>3. CASE OperatorArguments(i)
  BY <1>3 DEF OperatorArguments
<1>4. CASE SeedCheck(i) \/ SeedInsert(i) \/ SeedFail(i)
  BY <1>4 DEF SeedCheck, SeedInsert, SeedFail
<1> QED
  BY <1>1, <1>2, <1>3, <1>4 DEF EarlyStep

LEMMA OldRegisterMakesNoDemo ==
  ASSUME NEW e \in Emails, OldRegister(e)
  PROVE  UNCHANGED <<spc, orgs, holder, demos, platforms, nboots, together, sdemo, sbranch>>
BY DEF OldRegister, slocals

\* The labels, and where they belong.
LEMMA Labels ==
  /\ Early \cap Seeding = {} /\ "down" \notin Early \cup Seeding /\ "serving" \notin Early \cup Seeding
  /\ Filling = {"demo_branch", "demo_platform", "demo_new_platform", "demo_contract"}
  /\ "demo_org" \in Seeding \ Filling /\ "demo" \in Early /\ {"lock", "verify"} \subseteq Early
  /\ \A l \in Filling : l \in Seeding /\ l # "demo_org"
BY DEF Early, Migrating, Seeding, Filling

\* The places of a step.
LEMMA PlaceStep ==
  ASSUME PlaceInv, FillInv, StartsInv, StartupNext
  PROVE  PlaceInv'
<1> USE DEF PlaceInv
<1>1. ASSUME NEW i \in Instances, Down(i) PROVE PlaceInv'
  BY <1>1, BootsAssumption DEF Down, sghosts
<1>2. ASSUME NEW i \in Instances, Boot(i) PROVE PlaceInv'
  BY <1>2, Labels DEF Boot, stables
<1>3. ASSUME NEW i \in Instances, EarlyStep(i) PROVE PlaceInv'
  <2>1. PICK label \in Early : Moves(i, label)
    BY <1>3, EarlyDoes
  <2>2. spc' \in [Instances -> Early \cup Seeding \cup {"down", "serving"}]
    BY <2>1 DEF Moves
  <2>3. orgs' = orgs /\ holder' \in {holder, i, None} /\ UNCHANGED <<platforms, together, sdemo, sbranch>>
    BY <1>3, EarlyDoes
  <2>4. holder' \in Instances \cup {None}
    BY <2>3
  <2>5. orgs' \in Nat /\ platforms' \subseteq 1..DemoBranches /\ together' \in BOOLEAN
    BY <2>3
  <2>6. sdemo' \in [Instances -> 0..MaxBoots] /\ sbranch' \in [Instances -> 0..DemoBranches]
    BY <2>3
  <2> QED
    BY <2>2, <2>4, <2>5, <2>6
<1>4. ASSUME NEW i \in Instances, DemoCheck(i) PROVE PlaceInv'
  <2>1. PICK label \in {"demo_org", "serving"} : Moves(i, label)
    BY <1>4 DEF DemoCheck, Moves
  <2>2. spc' \in [Instances -> Early \cup Seeding \cup {"down", "serving"}]
    BY <2>1, Labels DEF Moves
  <2>3. together' \in BOOLEAN /\ UNCHANGED <<orgs, holder, platforms, sdemo, sbranch>>
    BY <1>4 DEF DemoCheck, stables
  <2> QED
    BY <2>2, <2>3
<1>5. ASSUME NEW i \in Instances, DemoOrg(i) PROVE PlaceInv'
  <2>1. i \in Fresh
    BY <1>5 DEF DemoOrg, Fresh
  <2>2. Len(demos) + 1 \in 0..MaxBoots
    <3>1. Cardinality(Fresh) \in Nat \ {0}
      BY <2>1, FS_CardinalityType, FS_EmptySet DEF StartsInv
    <3>2. Len(demos) \in Nat
      BY DEF FillInv
    <3> QED
      BY <3>1, <3>2, BootsAssumption DEF StartsInv
  <2>3. 1 \in 0..DemoBranches
    BY BootsAssumption
  <2> QED
    BY <1>5, <2>2, <2>3, Labels DEF DemoOrg, StartGoto, sghosts
<1>6. ASSUME NEW i \in Instances, DemoBranch(i) \/ DemoPlatform(i) PROVE PlaceInv'
  BY <1>6, Labels DEF DemoBranch, DemoPlatform, StartGoto, stables, sghosts
<1>7. ASSUME NEW i \in Instances, DemoNewPlatform(i) PROVE PlaceInv'
  <2>1. sbranch[i] \in 1..DemoBranches
    BY <1>7, Labels DEF DemoNewPlatform, FillInv
  <2> QED
    BY <1>7, <2>1, Labels DEF DemoNewPlatform, StartGoto, sghosts
<1>8. ASSUME NEW i \in Instances, DemoContract(i) PROVE PlaceInv'
  <2>1. sbranch[i] < DemoBranches => sbranch[i] + 1 \in 0..DemoBranches
    BY BootsAssumption
  <2>2. 0 \in 0..DemoBranches /\ 0 \in 0..MaxBoots
    BY BootsAssumption
  <2> QED
    BY <1>8, <2>1, <2>2, Labels DEF DemoContract, StartGoto, sghosts
<1>9. ASSUME NEW e \in Emails, OldRegister(e) PROVE PlaceInv'
  BY <1>9, OldRegisterMakesNoDemo
<1> HIDE DEF PlaceInv
<1> QED
  BY <1>1, <1>2, <1>3, <1>4, <1>5, <1>6, <1>7, <1>8, <1>9, StartupCases DEF EarlyStep, Demo

\* An instance that fills nothing afterwards leaves the demo data as it is.
LEMMA QuietKeepsFill ==
  ASSUME PlaceInv, FillInv, NEW i \in Instances, NEW label, Moves(i, label), label \notin Filling,
         demos' = demos,
         \A j \in Instances : j # i => sdemo'[j] = sdemo[j] /\ sbranch'[j] = sbranch[j]
  PROVE  FillInv'
BY DEF FillInv, PlaceInv, Moves

\* Another row of the organization that it fills; then it goes on or serves.
LEMMA FillKeepsFill ==
  ASSUME PlaceInv, FillInv, NEW i \in Instances, spc[i] \in Filling,
         NEW label \in Filling \cup {"serving"}, Moves(i, label),
         \A j \in Instances : j # i => sdemo'[j] = sdemo[j] /\ sbranch'[j] = sbranch[j],
         NEW row \in Rows,
         demos' = [demos EXCEPT ![sdemo[i]] = row], row.contracts \in {row.branches, row.branches - 1},
         label \in Filling =>
           sdemo'[i] = sdemo[i] /\ sbranch'[i] \in 1..DemoBranches /\ Filled(label, sbranch'[i], row)
  PROVE  FillInv'
<1>1. /\ demos \in Seq(Rows)
      /\ sdemo[i] \in 1..Len(demos)
  BY DEF FillInv
<1>2. /\ demos' \in Seq(Rows) /\ Len(demos') = Len(demos)
      /\ demos'[sdemo[i]] = row
      /\ \A k \in 1..Len(demos) : k # sdemo[i] => demos'[k] = demos[k]
  BY <1>1
<1>3. \A k \in 1..Len(demos') : demos'[k].contracts \in {demos'[k].branches, demos'[k].branches - 1}
  BY <1>2 DEF FillInv
<1>4. spc'[i] = label /\ \A j \in Instances : j # i => spc'[j] = spc[j]
  BY DEF Moves, PlaceInv
<1>5. \A j \in Instances : spc'[j] \in Filling => spc[j] \in Filling /\ sdemo'[j] = sdemo[j]
  BY <1>4
<1>6. \A j, k \in Instances : j # k /\ spc'[j] \in Filling /\ spc'[k] \in Filling => sdemo'[j] # sdemo'[k]
  BY <1>5 DEF FillInv
<1>7. ASSUME NEW j \in Instances, spc'[j] \in Filling
      PROVE  /\ sdemo'[j] \in 1..Len(demos') /\ sbranch'[j] \in 1..DemoBranches
             /\ Filled(spc'[j], sbranch'[j], demos'[sdemo'[j]])
  <2>1. CASE j = i
    BY <1>1, <1>2, <1>4, <1>7, <2>1
  <2>2. CASE j # i
    <3>1. /\ sdemo[j] # sdemo[i] /\ sdemo[j] \in 1..Len(demos) /\ sbranch[j] \in 1..DemoBranches
          /\ Filled(spc[j], sbranch[j], demos[sdemo[j]])
      BY <1>4, <1>7, <2>2 DEF FillInv
    <3>2. spc'[j] = spc[j] /\ sdemo'[j] = sdemo[j] /\ sbranch'[j] = sbranch[j]
      BY <1>4, <2>2
    <3> QED
      BY <1>2, <3>1, <3>2
  <2> QED
    BY <2>1, <2>2
<1> QED
  BY <1>2, <1>3, <1>6, <1>7 DEF FillInv

LEMMA FillStep ==
  ASSUME PlaceInv, FillInv, StartsInv, StartupNext
  PROVE  FillInv'
<1>1. ASSUME NEW i \in Instances, Down(i) PROVE FillInv'
  BY <1>1, Labels, QuietKeepsFill DEF Down, Moves, PlaceInv
<1>2. ASSUME NEW i \in Instances, Boot(i) PROVE FillInv'
  <2>1. \E l \in {"lock", "verify"} : Moves(i, l)
    BY <1>2 DEF Boot, Moves
  <2> QED
    BY <1>2, <2>1, Labels, QuietKeepsFill DEF Boot, stables
<1>3. ASSUME NEW i \in Instances, EarlyStep(i) PROVE FillInv'
  <2>1. PICK label \in Early : Moves(i, label)
    BY <1>3, EarlyDoes
  <2>2. label \notin Filling
    BY Labels
  <2> QED
    BY <1>3, <2>1, <2>2, EarlyDoes, QuietKeepsFill
<1>4. ASSUME NEW i \in Instances, DemoCheck(i) PROVE FillInv'
  <2>1. PICK label \in {"demo_org", "serving"} : Moves(i, label)
    BY <1>4 DEF DemoCheck, Moves
  <2> QED
    BY <1>4, <2>1, Labels, QuietKeepsFill DEF DemoCheck, stables
<1>5. ASSUME NEW i \in Instances, DemoOrg(i) PROVE FillInv'
  <2> DEFINE new == [branches |-> 0, contracts |-> 0]
  <2>1. /\ demos \in Seq(Rows)
        /\ new \in Rows /\ new.branches = 0 /\ new.contracts = 0
    BY BootsAssumption DEF FillInv, Rows
  <2>2. demos' = Append(demos, new)
    BY <1>5 DEF DemoOrg
  <2> HIDE DEF new
  <2>3. /\ demos' \in Seq(Rows)
        /\ Len(demos') = Len(demos) + 1 /\ Len(demos) \in Nat
        /\ demos'[Len(demos) + 1] = new /\ \A k \in 1..Len(demos) : demos'[k] = demos[k]
    BY <2>1, <2>2
  <2>4. /\ spc'[i] = "demo_branch" /\ sbranch'[i] = 1 /\ sdemo'[i] = Len(demos) + 1
        /\ \A j \in Instances : j # i => spc'[j] = spc[j] /\ sbranch'[j] = sbranch[j] /\ sdemo'[j] = sdemo[j]
    BY <1>5 DEF DemoOrg, StartGoto, PlaceInv
  <2>5. \A k \in 1..Len(demos') : demos'[k].contracts \in {demos'[k].branches, demos'[k].branches - 1}
    <3>1. \A k \in 1..Len(demos) : demos'[k].contracts \in {demos'[k].branches, demos'[k].branches - 1}
      BY <2>3 DEF FillInv
    <3>2. \A k \in 1..Len(demos') : k = Len(demos) + 1 \/ k \in 1..Len(demos)
      BY <2>3
    <3> QED
      BY <2>1, <2>3, <3>1, <3>2
  <2>6. ASSUME NEW j \in Instances, spc'[j] \in Filling
        PROVE  /\ sdemo'[j] \in 1..Len(demos') /\ sbranch'[j] \in 1..DemoBranches
               /\ Filled(spc'[j], sbranch'[j], demos'[sdemo'[j]])
    <3>1. CASE j = i
      BY <2>1, <2>3, <2>4, <3>1, BootsAssumption DEF Filled
    <3>2. CASE j # i
      <4>1. spc'[j] = spc[j] /\ sdemo'[j] = sdemo[j] /\ sbranch'[j] = sbranch[j]
        BY <2>4, <3>2
      <4>2. /\ sdemo[j] \in 1..Len(demos) /\ sbranch[j] \in 1..DemoBranches
            /\ Filled(spc[j], sbranch[j], demos[sdemo[j]])
        BY <2>6, <4>1 DEF FillInv
      <4> QED
        BY <2>3, <4>1, <4>2
    <3> QED
      BY <3>1, <3>2
  <2>7. \A j, k \in Instances : j # k /\ spc'[j] \in Filling /\ spc'[k] \in Filling => sdemo'[j] # sdemo'[k]
    BY <2>3, <2>4 DEF FillInv
  <2> QED
    BY <2>3, <2>5, <2>6, <2>7 DEF FillInv
<1>6. ASSUME NEW i \in Instances, spc[i] \in Filling
      PROVE  /\ sdemo[i] \in 1..Len(demos) /\ sbranch[i] \in 1..DemoBranches
             /\ demos[sdemo[i]] \in Rows /\ Filled(spc[i], sbranch[i], demos[sdemo[i]])
             /\ demos[sdemo[i]].contracts \in {demos[sdemo[i]].branches, demos[sdemo[i]].branches - 1}
             /\ demos = [demos EXCEPT ![sdemo[i]] = demos[sdemo[i]]]
  BY <1>6 DEF FillInv
<1>7. ASSUME NEW i \in Instances, DemoBranch(i) PROVE FillInv'
  <2>1. spc[i] = "demo_branch" /\ spc[i] \in Filling
    BY <1>7, Labels DEF DemoBranch
  <2> DEFINE row == [branches |-> sbranch[i], contracts |-> sbranch[i] - 1]
  <2>2. demos' = [demos EXCEPT ![sdemo[i]] = row]
    <3>1. [demos[sdemo[i]] EXCEPT !.branches = @ + 1] = row
      BY <1>6, <2>1 DEF Rows, Filled
    <3> QED
      BY <1>7, <3>1 DEF DemoBranch
  <2>3. /\ row \in Rows /\ row.contracts \in {row.branches, row.branches - 1}
        /\ Filled("demo_platform", sbranch[i], row)
    BY <1>6, <2>1, BootsAssumption DEF Rows, Filled
  <2> HIDE DEF row
  <2>4. /\ Moves(i, "demo_platform") /\ sdemo' = sdemo /\ sbranch' = sbranch
        /\ sbranch[i] \in 1..DemoBranches
    BY <1>6, <1>7, <2>1 DEF DemoBranch, StartGoto, Moves
  <2>5. "demo_platform" \in Filling
    BY Labels
  <2> QED
    BY <2>1, <2>2, <2>3, <2>4, <2>5, FillKeepsFill
<1>8. ASSUME NEW i \in Instances, DemoPlatform(i) \/ DemoNewPlatform(i) PROVE FillInv'
  <2>1. spc[i] \in {"demo_platform", "demo_new_platform"} /\ spc[i] \in Filling
    BY <1>8, Labels DEF DemoPlatform, DemoNewPlatform
  <2>2. PICK label \in {"demo_contract", "demo_new_platform"} : Moves(i, label)
    BY <1>8 DEF DemoPlatform, DemoNewPlatform, StartGoto, Moves
  <2>3. demos' = demos /\ sdemo' = sdemo /\ sbranch' = sbranch
    BY <1>8 DEF DemoPlatform, DemoNewPlatform, stables
  <2>4. Filled(label, sbranch[i], demos[sdemo[i]]) /\ sbranch[i] \in 1..DemoBranches
    BY <1>6, <2>1 DEF Filled
  <2>5. label \in Filling
    BY Labels
  <2> QED
    BY <1>6, <2>1, <2>2, <2>3, <2>4, <2>5, FillKeepsFill
<1>9. ASSUME NEW i \in Instances, DemoContract(i) PROVE FillInv'
  <2>1. spc[i] = "demo_contract" /\ spc[i] \in Filling
    BY <1>9, Labels DEF DemoContract
  <2> DEFINE row == [branches |-> sbranch[i], contracts |-> sbranch[i]]
  <2>2. demos' = [demos EXCEPT ![sdemo[i]] = row]
    <3>1. [demos[sdemo[i]] EXCEPT !.contracts = @ + 1] = row
      BY <1>6, <2>1 DEF Rows, Filled
    <3> QED
      BY <1>9, <3>1 DEF DemoContract
  <2>3. /\ row \in Rows /\ row.contracts \in {row.branches, row.branches - 1}
        /\ Filled("demo_branch", sbranch[i] + 1, row)
    BY <1>6, <2>1, BootsAssumption DEF Rows, Filled
  <2> HIDE DEF row
  <2>4. PICK label \in {"demo_branch", "serving"} :
          /\ Moves(i, label) /\ \A j \in Instances : j # i => sdemo'[j] = sdemo[j] /\ sbranch'[j] = sbranch[j]
          /\ label = "demo_branch" =>
               sbranch[i] < DemoBranches /\ sdemo'[i] = sdemo[i] /\ sbranch'[i] = sbranch[i] + 1
    <3>1. CASE sbranch[i] < DemoBranches
      BY <1>9, <3>1 DEF DemoContract, StartGoto, Moves, PlaceInv
    <3>2. CASE ~ sbranch[i] < DemoBranches
      BY <1>9, <3>2 DEF DemoContract, StartGoto, Moves, PlaceInv
    <3> QED
      BY <3>1, <3>2
  <2>5. sbranch[i] < DemoBranches => sbranch[i] + 1 \in 1..DemoBranches
    BY <1>6, <2>1, BootsAssumption
  <2>6. label \in Filling \cup {"serving"} /\ (label \in Filling => label = "demo_branch")
    BY Labels
  <2> QED
    BY <2>1, <2>2, <2>3, <2>4, <2>5, <2>6, FillKeepsFill
<1>10. ASSUME NEW e \in Emails, OldRegister(e) PROVE FillInv'
  BY <1>10, OldRegisterMakesNoDemo DEF FillInv
<1> QED
  BY <1>1, <1>2, <1>3, <1>4, <1>5, <1>7, <1>8, <1>9, <1>10, StartupCases DEF EarlyStep, Demo

\* Each organization is of a start, and each start makes at most one.
LEMMA StartsStep ==
  ASSUME PlaceInv, FillInv, StartsInv, StartupNext
  PROVE  StartsInv'
<1>0. /\ IsFiniteSet(Fresh) /\ Cardinality(Fresh) \in Nat /\ Len(demos) \in Nat
      /\ nboots \in 0..MaxBoots /\ Len(demos) + Cardinality(Fresh) <= nboots
  BY FS_CardinalityType DEF StartsInv, FillInv
<1>1. ASSUME NEW i \in Instances, NEW label, Moves(i, label), label \in Early \cup {"demo_org"}
      PROVE  /\ IsFiniteSet(Fresh') /\ Cardinality(Fresh') \in Nat
             /\ Cardinality(Fresh') = IF i \in Fresh THEN Cardinality(Fresh) ELSE Cardinality(Fresh) + 1
  <2>1. Fresh' = Fresh \cup {i}
    BY <1>1 DEF Moves, PlaceInv, Fresh
  <2>2. /\ IsFiniteSet(Fresh \cup {i})
        /\ Cardinality(Fresh \cup {i}) = IF i \in Fresh THEN Cardinality(Fresh) ELSE Cardinality(Fresh) + 1
    BY <1>0, FS_AddElement
  <2> QED
    BY <2>1, <2>2, FS_CardinalityType
<1>2. ASSUME NEW i \in Instances, NEW label, Moves(i, label), label \notin Early \cup {"demo_org"}
      PROVE  /\ IsFiniteSet(Fresh') /\ Cardinality(Fresh') \in Nat
             /\ Cardinality(Fresh') = IF i \in Fresh THEN Cardinality(Fresh) - 1 ELSE Cardinality(Fresh)
  <2>1. Fresh' = Fresh \ {i}
    BY <1>2 DEF Moves, PlaceInv, Fresh
  <2>2. /\ IsFiniteSet(Fresh \ {i})
        /\ Cardinality(Fresh \ {i}) = IF i \in Fresh THEN Cardinality(Fresh) - 1 ELSE Cardinality(Fresh)
    BY <1>0, FS_RemoveElement
  <2> QED
    BY <2>1, <2>2, FS_CardinalityType
<1>3. ASSUME NEW i \in Instances, Down(i) PROVE StartsInv'
  <2>1. Moves(i, "down") /\ demos' = demos /\ nboots' = nboots
    BY <1>3 DEF Down, Moves, sghosts
  <2> QED
    BY <1>0, <1>2, <2>1, Labels DEF StartsInv
<1>4. ASSUME NEW i \in Instances, Boot(i) PROVE StartsInv'
  <2>1. \E label \in {"lock", "verify"} : Moves(i, label)
    BY <1>4 DEF Boot, Moves
  <2>2. i \notin Fresh
    BY <1>4, Labels DEF Boot, Fresh
  <2>3. demos' = demos /\ nboots' = nboots + 1 /\ nboots < MaxBoots
    BY <1>4 DEF Boot, stables
  <2> QED
    BY <1>0, <1>1, <2>1, <2>2, <2>3, Labels, BootsAssumption DEF StartsInv
<1>5. ASSUME NEW i \in Instances, EarlyStep(i) PROVE StartsInv'
  <2>1. i \in Fresh
    BY <1>5, EarlyDoes DEF Fresh
  <2> QED
    BY <1>0, <1>1, <1>5, <2>1, EarlyDoes DEF StartsInv
<1>6. ASSUME NEW i \in Instances, DemoCheck(i) PROVE StartsInv'
  <2>1. PICK label \in {"demo_org", "serving"} : Moves(i, label)
    BY <1>6 DEF DemoCheck, Moves
  <2>2. i \in Fresh
    BY <1>6, Labels DEF DemoCheck, Fresh
  <2>3. demos' = demos /\ nboots' = nboots
    BY <1>6 DEF DemoCheck, stables
  <2>4. IsFiniteSet(Fresh') /\ Cardinality(Fresh') \in Nat /\ Cardinality(Fresh') <= Cardinality(Fresh)
    BY <1>0, <1>1, <1>2, <2>1, <2>2, Labels
  <2> QED
    BY <1>0, <2>3, <2>4 DEF StartsInv
<1>7. ASSUME NEW i \in Instances, DemoOrg(i) PROVE StartsInv'
  <2>1. Moves(i, "demo_branch") /\ nboots' = nboots
    BY <1>7 DEF DemoOrg, StartGoto, Moves, sghosts
  <2>2. Len(demos') = Len(demos) + 1
    <3>1. demos \in Seq(Rows) /\ [branches |-> 0, contracts |-> 0] \in Rows
      BY BootsAssumption DEF FillInv, Rows
    <3> QED
      BY <1>7, <3>1 DEF DemoOrg
  <2>3. i \in Fresh /\ "demo_branch" \notin Early \cup {"demo_org"}
    BY <1>7 DEF DemoOrg, Fresh, Early, Migrating
  <2> QED
    BY <1>0, <1>2, <2>1, <2>2, <2>3 DEF StartsInv
<1>8. ASSUME NEW i \in Instances,
             DemoBranch(i) \/ DemoPlatform(i) \/ DemoNewPlatform(i) \/ DemoContract(i)
      PROVE  StartsInv'
  <2>1. PICK label \in Filling \cup {"serving"} : Moves(i, label)
    BY <1>8, Labels DEF DemoBranch, DemoPlatform, DemoNewPlatform, DemoContract, StartGoto, Moves
  <2>2. spc[i] \in Filling
    BY <1>8, Labels DEF DemoBranch, DemoPlatform, DemoNewPlatform, DemoContract
  <2>3. \A l \in Filling \cup {"serving"} : l \notin Early \cup {"demo_org"}
    BY DEF Early, Migrating, Filling, Seeding
  <2>4. i \notin Fresh
    BY <2>2, <2>3 DEF Fresh
  <2>5. Len(demos') = Len(demos) /\ nboots' = nboots
    BY <1>8 DEF DemoBranch, DemoPlatform, DemoNewPlatform, DemoContract, StartGoto, FillInv, stables, sghosts
  <2> QED
    BY <1>0, <1>2, <2>1, <2>3, <2>4, <2>5 DEF StartsInv
<1>9. ASSUME NEW e \in Emails, OldRegister(e) PROVE StartsInv'
  BY <1>9, OldRegisterMakesNoDemo DEF StartsInv, Fresh
<1> QED
  BY <1>3, <1>4, <1>5, <1>6, <1>7, <1>8, <1>9, StartupCases DEF EarlyStep, Demo

\* An instance that is no more in the seed than before meets nobody.
LEMMA AloneKeepsOnce ==
  ASSUME PlaceInv, OnceDemoInv, DemoOnce, NEW i \in Instances, NEW label, Moves(i, label), label # "demo_org",
         label \in Seeding => spc[i] \in Seeding, Len(demos') = Len(demos),
         demos = <<>> => demos' = <<>>, together' = together
  PROVE  OnceDemoInv' /\ DemoOnce'
<1>1. spc'[i] = label /\ \A j \in Instances : j # i => spc'[j] = spc[j]
  BY DEF Moves, PlaceInv
<1> QED
  BY <1>1 DEF OnceDemoInv, DemoOnce

LEMMA OnceStep ==
  ASSUME PlaceInv, FillInv, OnceDemoInv, DemoOnce, StartupNext
  PROVE  OnceDemoInv' /\ DemoOnce'
<1>1. ASSUME NEW i \in Instances, Down(i) PROVE OnceDemoInv' /\ DemoOnce'
  BY <1>1, Labels, AloneKeepsOnce DEF Down, Moves, sghosts
<1>2. ASSUME NEW i \in Instances, Boot(i) PROVE OnceDemoInv' /\ DemoOnce'
  <2>1. \E l \in {"lock", "verify"} : Moves(i, l)
    BY <1>2 DEF Boot, Moves
  <2> QED
    BY <1>2, <2>1, Labels, AloneKeepsOnce DEF Boot, stables
<1>3. ASSUME NEW i \in Instances, EarlyStep(i) PROVE OnceDemoInv' /\ DemoOnce'
  <2>1. PICK label \in Early : Moves(i, label)
    BY <1>3, EarlyDoes
  <2>2. label \notin Seeding /\ label # "demo_org"
    BY Labels
  <2> QED
    BY <1>3, <2>1, <2>2, EarlyDoes, AloneKeepsOnce
<1>4. ASSUME NEW i \in Instances, DemoCheck(i) PROVE OnceDemoInv' /\ DemoOnce'
  <2>1. CASE Moves(i, "serving") /\ together' = together
    BY <1>4, <2>1, Labels, AloneKeepsOnce DEF DemoCheck, stables
  <2>2. CASE /\ Moves(i, "demo_org") /\ demos = <<>>
             /\ together' = (together \/ \E j \in Instances \ {i} : spc[j] \in Seeding)
    <3>1. spc'[i] = "demo_org" /\ \A j \in Instances : j # i => spc'[j] = spc[j]
      BY <2>2 DEF Moves, PlaceInv
    <3>2. demos' = demos
      BY <1>4 DEF DemoCheck, stables
    <3> QED
      BY <2>2, <3>1, <3>2 DEF OnceDemoInv, DemoOnce
  <2> QED
    BY <1>4, <2>1, <2>2 DEF DemoCheck, Moves
<1>5. ASSUME NEW i \in Instances, DemoOrg(i) PROVE OnceDemoInv' /\ DemoOnce'
  <2>1. /\ spc[i] = "demo_org" /\ spc'[i] = "demo_branch" /\ together' = together
        /\ \A j \in Instances : j # i => spc'[j] = spc[j]
        /\ Len(demos') = Len(demos) + 1
    BY <1>5 DEF DemoOrg, StartGoto, PlaceInv, FillInv, sghosts
  <2>2. \A j \in Instances : j # i /\ spc[j] \in Seeding => together
    BY <2>1, Labels DEF OnceDemoInv
  <2>3. Len(demos') > 1 => together
    BY <2>1 DEF OnceDemoInv, FillInv
  <2> QED
    BY <2>1, <2>2, <2>3, Labels DEF OnceDemoInv, DemoOnce
<1>6. ASSUME NEW i \in Instances,
             DemoBranch(i) \/ DemoPlatform(i) \/ DemoNewPlatform(i) \/ DemoContract(i)
      PROVE  OnceDemoInv' /\ DemoOnce'
  <2>1. PICK label \in Filling \cup {"serving"} : Moves(i, label)
    BY <1>6, Labels DEF DemoBranch, DemoPlatform, DemoNewPlatform, DemoContract, StartGoto, Moves
  <2>2. spc[i] \in Seeding /\ label # "demo_org"
    BY <1>6, Labels DEF DemoBranch, DemoPlatform, DemoNewPlatform, DemoContract
  <2>3. Len(demos') = Len(demos) /\ together' = together /\ (demos = <<>> => demos' = <<>>)
    BY <1>6 DEF DemoBranch, DemoPlatform, DemoNewPlatform, DemoContract, StartGoto, FillInv, stables, sghosts
  <2> QED
    BY <2>1, <2>2, <2>3, Labels, AloneKeepsOnce
<1>7. ASSUME NEW e \in Emails, OldRegister(e) PROVE OnceDemoInv' /\ DemoOnce'
  BY <1>7, OldRegisterMakesNoDemo DEF OnceDemoInv, DemoOnce
<1> QED
  BY <1>1, <1>2, <1>3, <1>4, <1>5, <1>6, <1>7, StartupCases DEF EarlyStep, Demo

LEMMA DemoInitInv == StartupInit => DemoInv
<1> SUFFICES ASSUME StartupInit PROVE DemoInv
  OBVIOUS
<1>1. PlaceInv
  <2>1. orgs \in Nat
    BY DatabasesAssumption DEF StartupInit
  <2>2. 0 \in 0..MaxBoots /\ 0 \in 0..DemoBranches
    BY BootsAssumption
  <2> QED
    BY <2>1, <2>2 DEF StartupInit, PlaceInv
<1>2. FillInv /\ demos = <<>>
  BY Labels DEF StartupInit, FillInv
<1>3. Fresh = {}
  BY Labels DEF StartupInit, Fresh
<1>4. StartsInv
  BY <1>2, <1>3, FS_EmptySet, BootsAssumption DEF StartupInit, StartsInv
<1>5. OnceDemoInv /\ DemoOnce
  BY Labels DEF StartupInit, OnceDemoInv, DemoOnce
<1> QED
  BY <1>1, <1>2, <1>4, <1>5 DEF DemoInv

\* The demo data of any number of instances that start, die and start again.
THEOREM DemoInductive == StartupSpec => []DemoInv
<1>1. DemoInv /\ [StartupNext]_svars => DemoInv'
  <2>1. ASSUME DemoInv, StartupNext PROVE DemoInv'
    BY <2>1, PlaceStep, FillStep, StartsStep, OnceStep DEF DemoInv
  <2>2. ASSUME DemoInv, UNCHANGED svars PROVE DemoInv'
    BY <2>2 DEF DemoInv, PlaceInv, FillInv, StartsInv, Fresh, OnceDemoInv, DemoOnce, svars, stables, sghosts,
       slocals
  <2> QED
    BY <2>1, <2>2
<1> QED
  BY <1>1, DemoInitInv, PTL DEF StartupSpec

\* run_demo_seed: the demo organization is created once, also when an instance
\* dies while it fills it, unless two instances seeded at the same time.
THEOREM DemoCreatedOnce == StartupSpec => []DemoOnce
<1>1. DemoInv => DemoOnce
  BY DEF DemoInv
<1> QED
  BY <1>1, DemoInductive, PTL

\* The states of the start-up are well formed: a demo organization has at most
\* one branch without its contract, and there are no more of them than starts.
THEOREM StartupTypeCorrect == StartupSpec => []StartupTypeOK
<1>1. StartupInv /\ DemoInv => StartupTypeOK
  <2> SUFFICES ASSUME StartupInv, DemoInv PROVE StartupTypeOK
    OBVIOUS
  <2>1. \A k \in DOMAIN demos : /\ demos[k].branches \in 1..DemoBranches \cup {0}
                                /\ demos[k].contracts \in {demos[k].branches, demos[k].branches - 1}
    <3>1. demos \in Seq(Rows)
      BY DEF DemoInv, FillInv
    <3>2. \A k \in DOMAIN demos : demos[k] \in Rows /\ k \in 1..Len(demos)
      BY <3>1
    <3> QED
      BY <3>2, BootsAssumption DEF DemoInv, FillInv, Rows
  <2>2. spc \in [Instances -> Migrating \cup Seeding \cup
                   {"down", "lock", "verify", "seed", "seed_insert", "demo", "serving"}]
    BY DEF DemoInv, PlaceInv, Early
  <2> QED
    BY <2>1, <2>2 DEF StartupTypeOK, StartupInv, StartupTypes, DemoInv, PlaceInv, StartsInv
<1> QED
  BY <1>1, StartupInductive, DemoInductive, PTL

(***************************************************************************)
(* RequestPool implements RequestService                                   *)
(***************************************************************************)
Pending == {q \in Requests : stage[q] # "idle"}
Waiting == {"await_check", "await_handler"}

\* The limiter's queue is the requests that wait for a thread, once each.
QueueInv ==
  /\ stage \in [Requests -> Stages] /\ queue \in Seq(Requests)
  /\ \A i \in 1..Len(queue) : stage[queue[i]] \in Waiting
  /\ \A q \in Requests : stage[q] \in Waiting => \E i \in 1..Len(queue) : queue[i] = q
  /\ \A i, j \in 1..Len(queue) : queue[i] = queue[j] => i = j

\* Threads and connections are counted, however many requests there are.
LimitInv ==
  /\ connected \subseteq Requests
  /\ IsFiniteSet(BusyThreads) /\ Cardinality(BusyThreads) <= Threads
  /\ IsFiniteSet(connected) /\ Cardinality(connected) <= Connections

PoolInv == QueueInv /\ LimitInv

\* PoolSpec without its fairness.
PoolSafe == PoolInit /\ [][PoolNext]_pvars

\* A request enters the queue, the oldest one leaves it, or neither.
LEMMA Enqueued ==
  ASSUME QueueInv, NEW q \in Requests, stage[q] \notin Waiting, NEW l \in Waiting,
         stage' = [stage EXCEPT ![q] = l], queue' = Append(queue, q)
  PROVE  QueueInv'
<1>1. /\ queue' \in Seq(Requests) /\ Len(queue') = Len(queue) + 1
      /\ \A i \in 1..Len(queue) : queue'[i] = queue[i]
      /\ queue'[Len(queue) + 1] = q /\ Len(queue) \in Nat
  BY DEF QueueInv
<1>2. stage' \in [Requests -> Stages] /\ stage'[q] = l /\ \A r \in Requests : r # q => stage'[r] = stage[r]
  BY DEF QueueInv, Waiting, Stages
<1>3. \A i \in 1..Len(queue) : queue[i] \in Requests /\ queue[i] # q
  BY DEF QueueInv
<1> QED
  BY <1>1, <1>2, <1>3 DEF QueueInv

LEMMA Dequeued ==
  ASSUME QueueInv, queue # <<>>, NEW l \in Stages \ Waiting,
         stage' = [stage EXCEPT ![Head(queue)] = l], queue' = Tail(queue)
  PROVE  QueueInv'
<1>1. /\ queue' \in Seq(Requests) /\ Len(queue') = Len(queue) - 1 /\ Len(queue) \in Nat \ {0}
      /\ \A i \in 1..(Len(queue) - 1) : queue'[i] = queue[i + 1]
      /\ Head(queue) = queue[1] /\ queue[1] \in Requests
  BY DEF QueueInv
<1>2. /\ stage' \in [Requests -> Stages] /\ stage'[queue[1]] = l
      /\ \A r \in Requests : r # queue[1] => stage'[r] = stage[r]
  BY <1>1 DEF QueueInv
<1>3. \A i \in 1..Len(queue) : queue[i] \in Requests /\ (i # 1 => queue[i] # queue[1])
  BY <1>1 DEF QueueInv
<1>4. \A i \in 1..Len(queue') : stage'[queue'[i]] \in Waiting
  BY <1>1, <1>2, <1>3 DEF QueueInv
<1>5. ASSUME NEW r \in Requests, stage'[r] \in Waiting PROVE \E i \in 1..Len(queue') : queue'[i] = r
  <2>1. PICK i \in 1..Len(queue) : queue[i] = r
    BY <1>2, <1>5 DEF QueueInv
  <2>2. i - 1 \in 1..Len(queue')
    BY <1>1, <1>2, <1>5, <2>1
  <2> QED
    BY <1>1, <2>1, <2>2
<1>6. \A i, j \in 1..Len(queue') : queue'[i] = queue'[j] => i = j
  BY <1>1 DEF QueueInv
<1> QED
  BY <1>1, <1>2, <1>4, <1>5, <1>6 DEF QueueInv

LEMMA Unqueued ==
  ASSUME QueueInv, NEW q \in Requests, stage[q] \notin Waiting, NEW l \in Stages \ Waiting,
         stage' = [stage EXCEPT ![q] = l], queue' = queue
  PROVE  QueueInv'
BY DEF QueueInv

LEMMA QueueStep ==
  ASSUME QueueInv, PoolNext
  PROVE  QueueInv'
<1>1. CASE TakeThread
  <2>1. Head(queue) \in Requests /\ queue # <<>>
    BY <1>1 DEF TakeThread, QueueInv
  <2>2. PICK l \in {"check", "handle"} : stage' = [stage EXCEPT ![Head(queue)] = l]
    BY <1>1, <2>1 DEF TakeThread, QueueInv
  <2> QED
    BY <1>1, <2>1, <2>2, Dequeued DEF TakeThread, Waiting, Stages, OnThread, Acquiring
<1>2. ASSUME NEW q \in Requests, Arrive(q) \/ PassPublic(q) \/ Checked(q) PROVE QueueInv'
  BY <1>2, Enqueued DEF Arrive, PassPublic, Checked, Waiting
<1>3. ASSUME NEW q \in Requests, Connect(q) PROVE QueueInv'
  <2>1. PICK l \in {"checking", "handling", "recording"} : stage' = [stage EXCEPT ![q] = l]
    BY <1>3 DEF Connect
  <2> QED
    BY <1>3, <2>1, Unqueued DEF Connect, Waiting, Stages, OnThread, Acquiring
<1>4. ASSUME NEW q \in Requests, GiveUp(q) \/ CommitWork(q) \/ Answer(q) \/ Close(q) PROVE QueueInv'
  BY <1>4, Unqueued DEF GiveUp, WaitsForConnection, CommitWork, Answer, Close, Waiting, Stages, OnThread,
     Acquiring
<1> QED
  BY <1>1, <1>2, <1>3, <1>4 DEF PoolNext, Serve

\* What a step does to the requests accepted, running and connected.
Accepts(q) ==
  q \notin Pending /\ Pending' = Pending \cup {q} /\ BusyThreads' = BusyThreads /\ connected' = connected
Starts(q) ==
  /\ q \in Pending /\ Cardinality(BusyThreads) < Threads
  /\ Pending' = Pending /\ BusyThreads' = BusyThreads \cup {q} /\ connected' = connected
Stops(q) ==
  q \in Pending /\ Pending' = Pending /\ BusyThreads' = BusyThreads \ {q} /\ connected' = connected
Connects(q) ==
  /\ q \in BusyThreads /\ (q \in connected \/ Cardinality(connected) < Connections)
  /\ Pending' = Pending /\ BusyThreads' = BusyThreads /\ connected' = connected \cup {q}
Releases(q) ==
  /\ q \in Pending
  /\ Pending' = Pending /\ BusyThreads' = BusyThreads /\ connected' = connected \ {q}
Leaves(q) ==
  /\ q \in Pending \ BusyThreads
  /\ Pending' = Pending \ {q} /\ BusyThreads' = BusyThreads /\ connected' = connected \ {q}

LEMMA PoolEffects ==
  ASSUME QueueInv, PoolNext
  PROVE  \E q \in Requests :
           Accepts(q) \/ Starts(q) \/ Stops(q) \/ Connects(q) \/ Releases(q) \/ Leaves(q)
<1> USE DEF Pending, BusyThreads, OnThread, Acquiring, QueueInv
<1>1. CASE TakeThread
  <2>1. PICK q \in Requests : q = Head(queue) /\ stage[q] \in Waiting
    BY <1>1 DEF TakeThread
  <2>2. PICK l \in {"check", "handle"} : stage' = [stage EXCEPT ![q] = l]
    BY <1>1, <2>1 DEF TakeThread
  <2>3. Starts(q)
    BY <1>1, <2>1, <2>2 DEF TakeThread, Starts, Waiting
  <2> QED
    BY <2>3
<1>2. ASSUME NEW q \in Requests, Arrive(q) PROVE Accepts(q)
  BY <1>2 DEF Arrive, Accepts
<1>3. ASSUME NEW q \in Requests, PassPublic(q) \/ Checked(q) \/ GiveUp(q) \/ Answer(q) PROVE Stops(q)
  BY <1>3 DEF PassPublic, Checked, GiveUp, WaitsForConnection, Answer, Stops
<1>4. ASSUME NEW q \in Requests, Connect(q) PROVE Connects(q)
  <2>1. PICK l \in {"checking", "handling", "recording"} : stage' = [stage EXCEPT ![q] = l]
    BY <1>4 DEF Connect
  <2> QED
    BY <1>4, <2>1 DEF Connect, Connects
<1>5. ASSUME NEW q \in Requests, CommitWork(q) PROVE Releases(q)
  BY <1>5 DEF CommitWork, Releases
<1>6. ASSUME NEW q \in Requests, Close(q) PROVE Leaves(q)
  BY <1>6 DEF Close, Leaves
<1> QED
  BY <1>1, <1>2, <1>3, <1>4, <1>5, <1>6 DEF PoolNext, Serve

\* Sets that grow below their limit, or lose an element, stay within it.
LEMMA Within ==
  ASSUME NEW S, IsFiniteSet(S), NEW limit \in Nat, Cardinality(S) <= limit, NEW x
  PROVE  /\ IsFiniteSet(S \ {x}) /\ Cardinality(S \ {x}) <= limit
         /\ x \in S \/ Cardinality(S) < limit => IsFiniteSet(S \cup {x}) /\ Cardinality(S \cup {x}) <= limit
<1>1. Cardinality(S) \in Nat
  BY FS_CardinalityType
<1>2. /\ IsFiniteSet(S \ {x})
      /\ Cardinality(S \ {x}) = IF x \in S THEN Cardinality(S) - 1 ELSE Cardinality(S)
  BY FS_RemoveElement
<1>3. /\ IsFiniteSet(S \cup {x})
      /\ Cardinality(S \cup {x}) = IF x \in S THEN Cardinality(S) ELSE Cardinality(S) + 1
  BY FS_AddElement
<1> QED
  BY <1>1, <1>2, <1>3

LEMMA LimitStep ==
  ASSUME PoolInv, PoolNext
  PROVE  LimitInv'
<1>1. PICK q \in Requests :
        Accepts(q) \/ Starts(q) \/ Stops(q) \/ Connects(q) \/ Releases(q) \/ Leaves(q)
  BY PoolEffects DEF PoolInv
<1>2. Threads \in Nat /\ Connections \in Nat
  BY PoolAssumption
<1>3. \/ BusyThreads' = BusyThreads
      \/ BusyThreads' = BusyThreads \ {q}
      \/ BusyThreads' = BusyThreads \cup {q} /\ Cardinality(BusyThreads) < Threads
  BY <1>1, Zenon DEF Accepts, Starts, Stops, Connects, Releases, Leaves
<1>4. \/ connected' = connected
      \/ connected' = connected \ {q}
      \/ connected' = connected \cup {q} /\ (q \in connected \/ Cardinality(connected) < Connections)
  BY <1>1, Zenon DEF Accepts, Starts, Stops, Connects, Releases, Leaves
<1>5. IsFiniteSet(BusyThreads') /\ Cardinality(BusyThreads') <= Threads
  <2>1. IsFiniteSet(BusyThreads) /\ Cardinality(BusyThreads) <= Threads
    BY DEF PoolInv, LimitInv
  <2>2. /\ IsFiniteSet(BusyThreads \ {q}) /\ Cardinality(BusyThreads \ {q}) <= Threads
        /\ Cardinality(BusyThreads) < Threads =>
             IsFiniteSet(BusyThreads \cup {q}) /\ Cardinality(BusyThreads \cup {q}) <= Threads
    BY <1>2, <2>1, Within
  <2> QED
    BY <1>3, <2>1, <2>2
<1>6. IsFiniteSet(connected') /\ Cardinality(connected') <= Connections
  <2>1. IsFiniteSet(connected) /\ Cardinality(connected) <= Connections
    BY DEF PoolInv, LimitInv
  <2>2. /\ IsFiniteSet(connected \ {q}) /\ Cardinality(connected \ {q}) <= Connections
        /\ q \in connected \/ Cardinality(connected) < Connections =>
             IsFiniteSet(connected \cup {q}) /\ Cardinality(connected \cup {q}) <= Connections
    BY <1>2, <2>1, Within
  <2> QED
    BY <1>4, <2>1, <2>2
<1>7. connected' \subseteq Requests
  BY <1>4 DEF PoolInv, LimitInv
<1> QED
  BY <1>5, <1>6, <1>7 DEF LimitInv

LEMMA PoolInitInv == PoolInit => PoolInv
<1> SUFFICES ASSUME PoolInit PROVE PoolInv
  OBVIOUS
<1>1. QueueInv
  BY DEF PoolInit, QueueInv, Stages, Waiting
<1>2. BusyThreads = {} /\ connected = {}
  BY DEF PoolInit, BusyThreads, OnThread, Acquiring
<1> QED
  BY <1>1, <1>2, FS_EmptySet, PoolAssumption DEF PoolInv, LimitInv

THEOREM PoolInductive == PoolSafe => []PoolInv
<1>1. PoolInit => PoolInv
  BY PoolInitInv
<1>2. PoolInv /\ [PoolNext]_pvars => PoolInv'
  <2>1. ASSUME PoolInv, PoolNext PROVE PoolInv'
    BY <2>1, QueueStep, LimitStep DEF PoolInv
  <2>2. ASSUME PoolInv, UNCHANGED pvars PROVE PoolInv'
    BY <2>2 DEF PoolInv, QueueInv, LimitInv, BusyThreads, pvars
  <2> QED
    BY <2>1, <2>2
<1> QED
  BY <1>1, <1>2, PTL DEF PoolSafe

\* The limiter's queue and the two limits (the type invariant of the pool).
THEOREM PoolTypeCorrect == PoolSafe => []PoolTypeOK
<1>1. PoolInv => PoolTypeOK
  BY DEF PoolInv, QueueInv, LimitInv, PoolTypeOK, Waiting
<1> QED
  BY <1>1, PoolInductive, PTL

\* Every step of threads and connections is one that RequestService allows, or
\* none.  That every request is answered is liveness, and left to TLC.
THEOREM PoolImplementsService == PoolSafe => Service!ServiceSafe
<1>1. PoolInit => Service!ServiceInit
  BY DEF PoolInit, Service!ServiceInit, BusyThreads, OnThread, Acquiring
<1>2. PoolInv /\ PoolInv' /\ [PoolNext]_pvars => [Service!ServiceNext]_Service!service
  <2>1. ASSUME PoolInv, PoolInv', PoolNext PROVE Service!ServiceNext
    <3>1. PICK q \in Requests :
            Accepts(q) \/ Starts(q) \/ Stops(q) \/ Connects(q) \/ Releases(q) \/ Leaves(q)
      BY <2>1, PoolEffects DEF PoolInv
    <3>2. CASE Accepts(q)
      BY <3>2 DEF Accepts, Pending, Service!ServiceNext, Service!Accept
    <3>3. CASE Starts(q) \/ Stops(q) \/ Connects(q) \/ Releases(q)
      <4>1. Cardinality(BusyThreads') <= Threads /\ Cardinality(connected') <= Connections
        BY <2>1 DEF PoolInv, LimitInv
      <4>2. q \in Pending /\ Pending' = Pending
        BY <3>3 DEF Starts, Stops, Connects, Releases, Pending, BusyThreads, OnThread, Acquiring
      <4>3. BusyThreads' \in {BusyThreads, BusyThreads \cup {q}, BusyThreads \ {q}}
        BY <3>3 DEF Starts, Stops, Connects, Releases
      <4>4. connected' \in {connected, connected \ {q}} \cup {connected \cup {r} : r \in BusyThreads \cap {q}}
        BY <3>3 DEF Starts, Stops, Connects, Releases
      <4>5. Service!Work(q)
        <5>1. q \in {r \in Requests : stage[r] # "idle"}
          BY <4>2 DEF Pending
        <5>2. UNCHANGED {r \in Requests : stage[r] # "idle"}
          BY <4>2 DEF Pending
        <5>3. \A S : Service!Cardinality(S) = Cardinality(S)
          BY Zenon DEF Service!Cardinality, Cardinality
        <5> QED
          BY <4>1, <4>3, <4>4, <5>1, <5>2, <5>3, Zenon DEF Service!Work
      <4> QED
        BY <4>5 DEF Service!ServiceNext
    <3>4. CASE Leaves(q)
      BY <3>4 DEF Leaves, Pending, Service!ServiceNext, Service!Reply
    <3> QED
      BY <3>1, <3>2, <3>3, <3>4
  <2>2. ASSUME UNCHANGED pvars PROVE UNCHANGED Service!service
    BY <2>2 DEF pvars, Service!service, BusyThreads
  <2> QED
    BY <2>1, <2>2
<1> QED
  BY <1>1, <1>2, PoolInductive, PTL DEF PoolSafe, Service!ServiceSafe

\* What answering every request needs of the states and steps; that the steps
\* are taken is the fairness TLC assumes.

\* Places in the limiter's queue: whoever waits keeps its place or moves up by
\* one, and who was first leaves the queue with a thread.
NoOvertaking ==
  \A i \in DOMAIN queue :
    \/ i \in DOMAIN queue' /\ queue'[i] = queue[i]
    \/ i > 1 /\ i - 1 \in DOMAIN queue' /\ queue'[i - 1] = queue[i]
    \/ i = 1 /\ queue[1] \in BusyThreads'

\* No request overtakes another on the way to a thread, however many arrive.
THEOREM QueueIsFair == PoolSafe => [][NoOvertaking]_pvars
<1>1. ASSUME QueueInv, PoolNext PROVE NoOvertaking
  <2>1. queue \in Seq(Requests) /\ Len(queue) \in Nat /\ DOMAIN queue = 1..Len(queue)
    BY <1>1 DEF QueueInv
  <2>2. ASSUME TakeThread PROVE NoOvertaking
    <3>1. /\ queue' = Tail(queue) /\ queue # <<>> /\ Head(queue) = queue[1] /\ queue[1] \in Requests
          /\ DOMAIN queue' = 1..(Len(queue) - 1)
          /\ \A i \in 1..(Len(queue) - 1) : queue'[i] = queue[i + 1]
      BY <2>1, <2>2 DEF TakeThread
    <3>2. stage'[queue[1]] \in Acquiring
      BY <1>1, <2>2, <3>1 DEF TakeThread, QueueInv, Acquiring
    <3>3. queue[1] \in BusyThreads'
      BY <3>1, <3>2 DEF BusyThreads, OnThread
    <3>4. ASSUME NEW i \in 1..Len(queue), i # 1 PROVE i - 1 \in DOMAIN queue' /\ queue'[i - 1] = queue[i]
      BY <2>1, <3>1, <3>4
    <3> QED
      BY <2>1, <3>3, <3>4 DEF NoOvertaking
  <2>3. ASSUME NEW q \in Requests, queue' = Append(queue, q) PROVE NoOvertaking
    BY <2>1, <2>3 DEF NoOvertaking
  <2>4. ASSUME queue' = queue PROVE NoOvertaking
    BY <2>4 DEF NoOvertaking
  <2>5. ASSUME NEW q \in Requests, Arrive(q) \/ Serve(q) \/ GiveUp(q) \/ Close(q)
        PROVE  queue' = queue \/ queue' = Append(queue, q)
    BY <2>5 DEF Arrive, Serve, PassPublic, Connect, Checked, CommitWork, Answer, GiveUp, Close
  <2> QED
    BY <1>1, <2>2, <2>3, <2>4, <2>5 DEF PoolNext
<1>2. ASSUME UNCHANGED pvars PROVE NoOvertaking
  BY <1>2 DEF pvars, NoOvertaking
<1>3. PoolInv /\ [PoolNext]_pvars => [NoOvertaking]_pvars
  BY <1>1, <1>2 DEF PoolInv
<1> QED
  BY <1>3, PoolInductive, PTL DEF PoolSafe

\* The guards of the fair steps other than the timer: TakeThread, Serve, Close.
CanTakeThread == queue # <<>> /\ Cardinality(BusyThreads) < Threads
CanServe(q) ==
  \/ stage[q] = "check" /\ q \in Public
  \/ stage[q] \in Acquiring /\ (q \in connected \/ Cardinality(connected) < Connections)
  \/ stage[q] \in {"checking", "handling", "recording"}
CanClose(q) == stage[q] = "closing"

\* Requests are being served, and none of them can go on unless a timer fires.
Blocked ==
  /\ \E q \in Requests : stage[q] # "idle"
  /\ ~ CanTakeThread
  /\ \A q \in Requests : ~ CanServe(q) /\ ~ CanClose(q)

\* A session keeps its connection on a thread, in the queue for the handler's
\* thread, and until it is closed.
ConnectedInv ==
  \A q \in connected : stage[q] \in OnThread \cup {"await_handler", "closing"}

LEMMA ConnectedInductive == PoolSafe => []ConnectedInv
<1>1. PoolInit => ConnectedInv
  BY DEF PoolInit, ConnectedInv
<1>2. PoolInv /\ ConnectedInv /\ [PoolNext]_pvars => ConnectedInv'
  <2> SUFFICES ASSUME PoolInv, ConnectedInv, [PoolNext]_pvars PROVE ConnectedInv'
    OBVIOUS
  <2> USE DEF ConnectedInv, OnThread, Acquiring
  <2>1. stage \in [Requests -> Stages] /\ connected \subseteq Requests
    BY DEF PoolInv, QueueInv, LimitInv
  <2>2. CASE TakeThread
    BY <2>1, <2>2 DEF TakeThread
  <2>3. ASSUME NEW q \in Requests, Arrive(q) PROVE ConnectedInv'
    BY <2>1, <2>3 DEF Arrive
  <2>4. ASSUME NEW q \in Requests, PassPublic(q) \/ Checked(q) \/ Answer(q) PROVE ConnectedInv'
    BY <2>1, <2>4 DEF PassPublic, Checked, Answer
  <2>5. ASSUME NEW q \in Requests, Connect(q) PROVE ConnectedInv'
    <3>1. PICK l \in {"checking", "handling", "recording"} : stage' = [stage EXCEPT ![q] = l]
      BY <2>5 DEF Connect
    <3> QED
      BY <2>1, <2>5, <3>1 DEF Connect
  <2>6. ASSUME NEW q \in Requests, CommitWork(q) \/ GiveUp(q) \/ Close(q) PROVE ConnectedInv'
    BY <2>1, <2>6 DEF CommitWork, GiveUp, Close
  <2>7. CASE UNCHANGED pvars
    BY <2>7 DEF pvars
  <2> QED
    BY <2>2, <2>3, <2>4, <2>5, <2>6, <2>7 DEF PoolNext, Serve
<1> QED
  BY <1>1, <1>2, PoolInductive, PTL DEF PoolSafe

\* What a blocked pool looks like: every thread waits for a connection, and every
\* connection is held by a request that waits for the handler's thread.
LEMMA BlockedIsStarved ==
  ASSUME PoolInv, ConnectedInv, Blocked
  PROVE  /\ {q \in Requests : WaitsForConnection(q)} = BusyThreads
         /\ {q \in connected : stage[q] = "await_handler"} = connected
         /\ Cardinality(BusyThreads) = Threads /\ Cardinality(connected) = Connections
<1>1. /\ stage \in [Requests -> Stages] /\ connected \subseteq Requests /\ BusyThreads \subseteq Requests
      /\ \A q \in Requests : stage[q] \in Waiting => queue # <<>>
      /\ IsFiniteSet(BusyThreads) /\ IsFiniteSet(connected)
      /\ Cardinality(BusyThreads) <= Threads /\ Cardinality(connected) <= Connections
  BY DEF PoolInv, QueueInv, LimitInv, BusyThreads
<1>2. /\ Cardinality(BusyThreads) \in Nat /\ Cardinality(connected) \in Nat
      /\ Threads \in Nat \ {0} /\ Connections \in Nat \ {0}
  BY <1>1, FS_CardinalityType, PoolAssumption
<1>3. ASSUME NEW q \in BusyThreads
      PROVE  WaitsForConnection(q) /\ q \notin connected /\ Cardinality(connected) = Connections
  <2>1. stage[q] \in OnThread /\ ~ CanServe(q)
    BY <1>1 DEF BusyThreads, Blocked
  <2> QED
    BY <1>1, <1>2, <2>1 DEF CanServe, OnThread, WaitsForConnection
<1>4. {q \in Requests : WaitsForConnection(q)} = BusyThreads
  BY <1>1, <1>3 DEF WaitsForConnection, BusyThreads, OnThread
<1>5. \A q \in connected : stage[q] = "await_handler"
  BY <1>1, <1>3 DEF ConnectedInv, BusyThreads, Blocked, CanClose
<1>6. BusyThreads # {}
  <2> SUFFICES ASSUME BusyThreads = {} PROVE FALSE
    OBVIOUS
  <2>1. PICK q \in Requests : stage[q] # "idle"
    BY DEF Blocked
  <2>2. stage[q] \in Waiting
    BY <1>1, <2>1 DEF Blocked, CanClose, BusyThreads, Stages, Waiting
  <2>3. Cardinality(BusyThreads) = 0
    BY FS_EmptySet
  <2> QED
    BY <1>1, <1>2, <2>2, <2>3 DEF Blocked, CanTakeThread
<1>7. Cardinality(connected) = Connections
  BY <1>3, <1>6
<1>8. Cardinality(BusyThreads) = Threads
  <2>1. connected # {}
    BY <1>2, <1>7, FS_EmptySet
  <2>2. queue # <<>>
    BY <1>1, <1>5, <2>1 DEF Waiting
  <2> QED
    BY <1>1, <1>2, <2>2 DEF Blocked, CanTakeThread
<1> QED
  BY <1>4, <1>5, <1>7, <1>8

\* The starvation that main.py's comment rules out is the only way in which the
\* pools can block each other, and so the only state that needs the timer.
THEOREM OnlyStarvationBlocks == PoolSafe => [](Blocked => ~ ThreadsNeverStarve)
<1>1. PoolInv /\ ConnectedInv => (Blocked => ~ ThreadsNeverStarve)
  BY BlockedIsStarved DEF ThreadsNeverStarve
<1> QED
  BY <1>1, PoolInductive, ConnectedInductive, PTL

\* Where the comment is right: the pools never block while the requests in the
\* process are fewer than threads and connections together, whichever of the two
\* are more.
THEOREM FewRequestsNeverBlock ==
  ASSUME IsFiniteSet(Requests), Cardinality(Requests) < Threads + Connections
  PROVE  PoolSafe => []~ Blocked
<1>1. ASSUME PoolInv, ConnectedInv, Blocked PROVE FALSE
  <2>1. /\ {q \in connected : stage[q] = "await_handler"} = connected
        /\ Cardinality(BusyThreads) = Threads /\ Cardinality(connected) = Connections
    BY <1>1, BlockedIsStarved
  <2>2. BusyThreads \subseteq Requests /\ connected \subseteq Requests
    BY <1>1 DEF PoolInv, LimitInv, BusyThreads
  <2>3. BusyThreads \cap connected = {}
    BY <2>1 DEF BusyThreads, OnThread, Acquiring
  <2>4. IsFiniteSet(BusyThreads) /\ IsFiniteSet(connected)
    BY <2>2, FS_Subset
  <2>5. Cardinality(BusyThreads \cup connected) = Threads + Connections
    <3>1. Cardinality(BusyThreads \cup connected) =
            Cardinality(BusyThreads) + Cardinality(connected) - Cardinality(BusyThreads \cap connected)
      BY <2>4, FS_Union
    <3> QED
      BY <2>1, <2>3, <3>1, FS_EmptySet, PoolAssumption
  <2>6. Cardinality(BusyThreads \cup connected) <= Cardinality(Requests)
    BY <2>2, FS_Subset
  <2>7. Cardinality(Requests) \in Nat
    BY FS_CardinalityType
  <2> QED
    BY <2>5, <2>6, <2>7, PoolAssumption
<1>2. PoolInv /\ ConnectedInv => ~ Blocked
  BY <1>1
<1> QED
  BY <1>2, PoolInductive, ConnectedInductive, PTL

(***************************************************************************)
(* Outputs                                                                 *)
(***************************************************************************)
\* A request's number is its own; a saved file is there and has no report yet;
\* an attempt that is going to be recorded as SENT has been sent.
AccountInv ==
  /\ DOMAIN opc = Workers /\ DOMAIN oseen = Workers /\ ocall \in [Workers -> Nat]
  /\ nops \in Nat /\ reports \subseteq 0..nops
  /\ \A v, w \in Workers : v # w /\ opc[v] # "idle" /\ opc[w] # "idle" => ocall[v] # ocall[w]
  /\ \A w \in Workers : opc[w] # "idle" => ocall[w] \in 0..nops /\ ocall[w] \notin reports
  /\ \A w \in Workers : opc[w] = "saved" => ocall[w] \in files
  /\ \A w \in Workers : opc[w] = "attempted" /\ oseen[w] = "SENT" => ocall[w] \in sent

OutputsInv == AccountInv /\ OutputsAccounted

\* Where a step of request w leads.
Beside(w) ==
  \A v \in Workers : v # w => opc'[v] = opc[v] /\ ocall'[v] = ocall[v] /\ oseen'[v] = oseen[v]
OpTypes == DOMAIN opc' = Workers /\ DOMAIN oseen' = Workers /\ ocall' \in [Workers -> Nat]

LEMMA OpStartDoes ==
  ASSUME AccountInv, NEW w \in Workers, NEW label, NEW seen, NEW steps, OpStart(w, label, seen, steps)
  PROVE  /\ Beside(w) /\ OpTypes /\ opc[w] = "idle" /\ opc'[w] = label /\ lost' = lost
         /\ nops' = nops + 1 /\ ocall'[w] = nops + 1
BY DEF AccountInv, OpStart, Beside, OpTypes

LEMMA OpGotoDoes ==
  ASSUME AccountInv, NEW w \in Workers, NEW label, NEW seen, OpGoto(w, label, seen)
  PROVE  /\ Beside(w) /\ OpTypes /\ opc'[w] = label /\ oseen'[w] = seen /\ ocall'[w] = ocall[w]
         /\ nops' = nops /\ lost' = lost
BY DEF AccountInv, OpGoto, Beside, OpTypes

LEMMA OpDoneDoes ==
  ASSUME AccountInv, NEW w \in Workers, OpDone(w)
  PROVE  /\ Beside(w) /\ OpTypes /\ opc'[w] = "idle" /\ nops' = nops
BY DEF AccountInv, OpDone, Beside, OpTypes

\* A new request.
LEMMA StartKeepsAccounts ==
  ASSUME OutputsInv, NEW w \in Workers, NEW label \in {"report", "insight", "notice", "lead", "deploying", "created"},
         NEW seen, NEW steps, OpStart(w, label, seen, steps),
         UNCHANGED <<files, reports, sent, notices>>
  PROVE  OutputsInv'
<1>1. /\ Beside(w) /\ OpTypes /\ opc[w] = "idle" /\ opc'[w] = label /\ lost' = lost
      /\ nops' = nops + 1 /\ ocall'[w] = nops + 1
  BY OpStartDoes DEF OutputsInv
<1>2. AccountInv'
  BY <1>1 DEF AccountInv, OutputsInv, Beside, OpTypes
<1>3. \A l \in {"saved", "attempted"} : Underway(l) \subseteq Underway(l)'
  BY <1>1 DEF Beside, Underway
<1> QED
  BY <1>1, <1>2, <1>3 DEF OutputsInv, OutputsAccounted, ReportsReadable, NoticesRecorded

\* A step between two others that touches neither report files nor messages.
LEMMA QuietKeepsAccounts ==
  ASSUME OutputsInv, NEW w \in Workers, opc[w] \notin {"idle", "saved", "attempted"},
         NEW label \in {"replacing", "created"}, NEW seen,
         OpGoto(w, label, seen), UNCHANGED <<files, reports, sent, notices>>
  PROVE  OutputsInv'
<1>1. /\ Beside(w) /\ OpTypes /\ opc'[w] = label /\ ocall'[w] = ocall[w] /\ nops' = nops /\ lost' = lost
  BY OpGotoDoes DEF OutputsInv
<1>2. AccountInv'
  BY <1>1 DEF AccountInv, OutputsInv, Beside, OpTypes
<1>3. \A l \in {"saved", "attempted"} : Underway(l) \subseteq Underway(l)'
  BY <1>1 DEF Beside, Underway
<1> QED
  BY <1>1, <1>2, <1>3 DEF OutputsInv, OutputsAccounted, ReportsReadable, NoticesRecorded

\* The end of a request that made no report: an attempt without its record is lost.
LEMMA EndKeepsAccounts ==
  ASSUME OutputsInv, NEW w \in Workers, opc[w] \notin {"idle", "saved"}, OpDone(w),
         lost \subseteq lost', opc[w] = "attempted" => ocall[w] \in lost',
         UNCHANGED <<files, reports, sent, notices>>
  PROVE  OutputsInv'
<1>1. /\ Beside(w) /\ OpTypes /\ opc'[w] = "idle" /\ nops' = nops
  BY OpDoneDoes DEF OutputsInv
<1>2. AccountInv'
  BY <1>1 DEF AccountInv, OutputsInv, Beside, OpTypes
<1>3. Underway("saved") \subseteq Underway("saved")'
  BY <1>1 DEF Beside, Underway
<1>4. Underway("attempted") \subseteq Underway("attempted")' \cup lost'
  BY <1>1 DEF Beside, Underway
<1> QED
  BY <1>1, <1>2, <1>3, <1>4 DEF OutputsInv, OutputsAccounted, ReportsReadable, NoticesRecorded

\* The file is there before its row.
LEMMA SaveReportKeepsAccounts ==
  ASSUME OutputsInv, NEW w \in Workers, SaveReport(w)
  PROVE  OutputsInv'
<1>1. /\ Beside(w) /\ OpTypes /\ opc'[w] = "saved" /\ ocall'[w] = ocall[w] /\ nops' = nops /\ lost' = lost
  BY OpGotoDoes DEF SaveReport, OutputsInv
<1>2. /\ opc[w] = "report" /\ files' = files \cup {ocall[w]}
      /\ UNCHANGED <<reports, sent, notices>>
  BY DEF SaveReport
<1>3. oseen'[w] = None
  BY OpGotoDoes DEF SaveReport, OutputsInv
<1>4. AccountInv'
  BY <1>1, <1>2, <1>3 DEF AccountInv, OutputsInv, Beside, OpTypes
<1>5. \A l \in {"saved", "attempted"} : Underway(l) \subseteq Underway(l)'
  BY <1>1, <1>2 DEF Beside, Underway
<1>6. ocall[w] \in Underway("saved")'
  BY <1>1 DEF Underway, OpTypes
<1> QED
  BY <1>1, <1>2, <1>5, <1>4, <1>6 DEF OutputsInv, OutputsAccounted, ReportsReadable, NoticesRecorded

\* The message is out before its record.
LEMMA SendNoticeKeepsAccounts ==
  ASSUME OutputsInv, NEW w \in Workers, SendNotice(w)
  PROVE  OutputsInv'
<1>1. /\ Beside(w) /\ OpTypes /\ opc'[w] = "attempted" /\ ocall'[w] = ocall[w] /\ nops' = nops /\ lost' = lost
  BY OpGotoDoes DEF SendNotice, OutputsInv
<1>2. /\ opc[w] = "notice" /\ sent' = sent \cup {ocall[w]}
      /\ UNCHANGED <<files, reports, notices>>
  BY DEF SendNotice
<1>3. oseen'[w] = "SENT"
  BY OpGotoDoes DEF SendNotice, OutputsInv
<1>4. AccountInv'
  BY <1>1, <1>2, <1>3 DEF AccountInv, OutputsInv, Beside, OpTypes
<1>5. \A l \in {"saved", "attempted"} : Underway(l) \subseteq Underway(l)'
  BY <1>1, <1>2 DEF Beside, Underway
<1>6. ocall[w] \in Underway("attempted")'
  BY <1>1 DEF Underway, OpTypes
<1> QED
  BY <1>1, <1>2, <1>5, <1>4, <1>6 DEF OutputsInv, OutputsAccounted, ReportsReadable, NoticesRecorded

\* A failed attempt, of which nothing is claimed.
LEMMA SendRaisesKeepsAccounts ==
  ASSUME OutputsInv, NEW w \in Workers, SendRaises(w)
  PROVE  OutputsInv'
<1>1. /\ Beside(w) /\ OpTypes /\ opc'[w] = "attempted" /\ ocall'[w] = ocall[w] /\ nops' = nops /\ lost' = lost
  BY OpGotoDoes DEF SendRaises, OutputsInv
<1>2. /\ opc[w] = "notice" /\ sent' \in {sent, sent \cup {ocall[w]}}
      /\ UNCHANGED <<files, reports, notices>>
  BY DEF SendRaises
<1>3. oseen'[w] = "FAILED"
  BY OpGotoDoes DEF SendRaises, OutputsInv
<1>4. AccountInv'
  BY <1>1, <1>2, <1>3 DEF AccountInv, OutputsInv, Beside, OpTypes
<1>5. \A l \in {"saved", "attempted"} : Underway(l) \subseteq Underway(l)'
  BY <1>1, <1>2 DEF Beside, Underway
<1>6. ocall[w] \in Underway("attempted")'
  BY <1>1 DEF Underway, OpTypes
<1> QED
  BY <1>1, <1>2, <1>5, <1>4, <1>6 DEF OutputsInv, OutputsAccounted, ReportsReadable, NoticesRecorded

\* The row lists a file that is there.
LEMMA CommitReportKeepsAccounts ==
  ASSUME OutputsInv, NEW w \in Workers, CommitReport(w)
  PROVE  OutputsInv'
<1>1. Beside(w) /\ OpTypes /\ opc'[w] = "idle" /\ nops' = nops
  BY OpDoneDoes DEF CommitReport, OpFinish, OutputsInv
<1>2. /\ opc[w] = "saved" /\ reports' = reports \cup {ocall[w]} /\ lost' = lost
      /\ UNCHANGED <<files, sent, notices>>
  BY DEF CommitReport, OpFinish, otables
<1>3. AccountInv'
  BY <1>1, <1>2 DEF AccountInv, OutputsInv, Beside, OpTypes
<1>4. \A l \in {"saved", "attempted"} : Underway(l) \subseteq Underway(l)' \cup {ocall[w]}
  BY <1>1 DEF Beside, Underway
<1>5. Underway("attempted") \subseteq Underway("attempted")'
  BY <1>1, <1>2 DEF Beside, Underway
<1> QED
  BY <1>1, <1>2, <1>3, <1>4, <1>5 DEF AccountInv, OutputsInv, OutputsAccounted, ReportsReadable, NoticesRecorded

\* The file that goes is listed nowhere.
LEMMA FailReportKeepsAccounts ==
  ASSUME OutputsInv, NEW w \in Workers, FailReport(w)
  PROVE  OutputsInv'
<1>1. Beside(w) /\ OpTypes /\ opc'[w] = "idle" /\ nops' = nops
  BY OpDoneDoes DEF FailReport, OpFinish, OutputsInv
<1>2. /\ opc[w] = "saved" /\ files' = files \ {ocall[w]} /\ lost' = lost
      /\ UNCHANGED <<reports, sent, notices>>
  BY DEF FailReport, OpFinish, otables
<1>3. AccountInv'
  BY <1>1, <1>2 DEF AccountInv, OutputsInv, Beside, OpTypes
<1>4. \A l \in {"saved", "attempted"} : Underway(l) \subseteq Underway(l)' \cup {ocall[w]}
  BY <1>1 DEF Beside, Underway
<1>5. Underway("attempted") \subseteq Underway("attempted")'
  BY <1>1, <1>2 DEF Beside, Underway
<1> QED
  BY <1>1, <1>2, <1>3, <1>4, <1>5 DEF AccountInv, OutputsInv, OutputsAccounted, ReportsReadable, NoticesRecorded

\* The file that stays is that of a lost request.
LEMMA OrphanReportKeepsAccounts ==
  ASSUME OutputsInv, NEW w \in Workers, OrphanReport(w)
  PROVE  OutputsInv'
<1>1. Beside(w) /\ OpTypes /\ opc'[w] = "idle" /\ nops' = nops
  BY OpDoneDoes DEF OrphanReport, OpFinish, OutputsInv
<1>2. /\ opc[w] = "saved" /\ lost' = lost \cup {ocall[w]}
      /\ UNCHANGED <<files, reports, sent, notices>>
  BY DEF OrphanReport, OpFinish, otables
<1>3. AccountInv'
  BY <1>1, <1>2 DEF AccountInv, OutputsInv, Beside, OpTypes
<1>4. \A l \in {"saved", "attempted"} : Underway(l) \subseteq Underway(l)' \cup {ocall[w]}
  BY <1>1 DEF Beside, Underway
<1>5. Underway("attempted") \subseteq Underway("attempted")'
  BY <1>1, <1>2 DEF Beside, Underway
<1> QED
  BY <1>1, <1>2, <1>3, <1>4, <1>5 DEF AccountInv, OutputsInv, OutputsAccounted, ReportsReadable, NoticesRecorded

\* What is recorded as SENT is what was attempted.
LEMMA RecordNoticeKeepsAccounts ==
  ASSUME OutputsInv, NEW w \in Workers, RecordNotice(w)
  PROVE  OutputsInv'
<1>1. Beside(w) /\ OpTypes /\ opc'[w] = "idle" /\ nops' = nops
  BY OpDoneDoes DEF RecordNotice, OpFinish, OutputsInv
<1>2. /\ opc[w] = "attempted" /\ notices' = notices \cup {[call |-> ocall[w], status |-> oseen[w]]}
      /\ lost' = lost /\ UNCHANGED <<files, reports, sent>>
  BY DEF RecordNotice, OpFinish, otables
<1>3. AccountInv'
  BY <1>1, <1>2 DEF AccountInv, OutputsInv, Beside, OpTypes
<1>4. \A l \in {"saved", "attempted"} : Underway(l) \subseteq Underway(l)' \cup {ocall[w]}
  BY <1>1 DEF Beside, Underway
<1>5. Underway("saved") \subseteq Underway("saved")'
  BY <1>1, <1>2 DEF Beside, Underway
<1>6. \A n \in notices' : n.status = "SENT" => n.call \in sent'
  BY <1>2 DEF AccountInv, OutputsInv, OutputsAccounted, NoticesRecorded
<1>7. ReportsReadable'
  BY <1>2, <1>5 DEF OutputsInv, OutputsAccounted, ReportsReadable
<1>8. ocall[w] \in {n.call : n \in notices'}
  <2> DEFINE row == [call |-> ocall[w], status |-> oseen[w]]
  <2>1. row.call = ocall[w]
    OBVIOUS
  <2>2. row \in notices'
    BY <1>2
  <2> HIDE DEF row
  <2> QED
    BY <2>1, <2>2
<1>9. \A c \in {n.call : n \in notices} : c \in {n.call : n \in notices'}
  BY <1>2
<1>10. sent' \subseteq {n.call : n \in notices'} \cup lost' \cup Underway("attempted")'
  BY <1>2, <1>4, <1>8, <1>9 DEF OutputsInv, OutputsAccounted, NoticesRecorded
<1> QED
  BY <1>3, <1>6, <1>7, <1>10 DEF OutputsInv, OutputsAccounted, NoticesRecorded

\* The bookkeeping of files and messages is inductive.
THEOREM OutputsInductive ==
  /\ OutputsInit => OutputsInv
  /\ OutputsInv /\ [OutputsNext]_ovars => OutputsInv'
<1>1. ASSUME OutputsInit PROVE OutputsInv
  BY <1>1 DEF OutputsInit, OutputsInv, AccountInv, OutputsAccounted, ReportsReadable, NoticesRecorded
<1>2. ASSUME OutputsInv, OutputsNext PROVE OutputsInv'
  <2>1. ASSUME Complete PROVE OutputsInv'
    BY <1>2, <2>1 DEF Complete, OutputsInv, AccountInv, OutputsAccounted, ReportsReadable,
       NoticesRecorded, Underway
  <2>2. ASSUME NEW w \in Workers,
               SaveReport(w) \/ CommitReport(w) \/ FailReport(w) \/ OrphanReport(w)
               \/ SendNotice(w) \/ SendRaises(w) \/ RecordNotice(w)
        PROVE  OutputsInv'
    BY <1>2, <2>2, SaveReportKeepsAccounts, CommitReportKeepsAccounts, FailReportKeepsAccounts,
       OrphanReportKeepsAccounts, SendNoticeKeepsAccounts, SendRaisesKeepsAccounts,
       RecordNoticeKeepsAccounts
  <2>3. ASSUME NEW w \in Workers, StartReport(w) PROVE OutputsInv'
    BY <1>2, <2>3, StartKeepsAccounts DEF StartReport, otables
  <2>4. ASSUME NEW w \in Workers, StartInsight(w) PROVE OutputsInv'
    BY <1>2, <2>4, StartKeepsAccounts DEF StartInsight, otables
  <2>5. ASSUME NEW w \in Workers, StartNotice(w) PROVE OutputsInv'
    BY <1>2, <2>5, StartKeepsAccounts DEF StartNotice, otables
  <2>6. ASSUME NEW w \in Workers, ReadLead(w) PROVE OutputsInv'
    BY <1>2, <2>6, StartKeepsAccounts DEF ReadLead, otables
  <2>7. ASSUME NEW w \in Workers, ReadDeployment(w) PROVE OutputsInv'
    BY <1>2, <2>7, StartKeepsAccounts DEF ReadDeployment, otables
  <2>8. ASSUME NEW w \in Workers, SeeInsights(w) PROVE OutputsInv'
    BY <1>2, <2>8, QuietKeepsAccounts DEF SeeInsights, otables
  <2>9. ASSUME NEW w \in Workers, CreateDeployment(w) PROVE OutputsInv'
    BY <1>2, <2>9, QuietKeepsAccounts DEF CreateDeployment
  <2>10. ASSUME NEW w \in Workers,
                CommitInsight(w) \/ CommitLead(w) \/ ReturnDeployment(w) \/ RecordLicense(w)
         PROVE  OutputsInv'
    BY <1>2, <2>10, EndKeepsAccounts
       DEF CommitInsight, CommitLead, ReturnDeployment, RecordLicense, OpFinish, otables
  <2>11. ASSUME NEW w \in Workers, OpLost(w) PROVE OutputsInv'
    BY <1>2, <2>11, EndKeepsAccounts DEF OpLost, otables
  <2> QED
    BY <1>2, <2>1, <2>2, <2>3, <2>4, <2>5, <2>6, <2>7, <2>8, <2>9, <2>10, <2>11 DEF OutputsNext
<1>3. ASSUME OutputsInv, UNCHANGED ovars PROVE OutputsInv'
  BY <1>3 DEF ovars, otables, OutputsInv, AccountInv, OutputsAccounted, ReportsReadable,
     NoticesRecorded, Underway
<1> QED
  BY <1>1, <1>2, <1>3

\* Report files agree with the reports, and messages with the notices, up to the
\* requests that failed or crashed between the two (reporting and notification).
THEOREM OutputsAgree == OutputsSpec => []OutputsAccounted
<1>1. OutputsInv => OutputsAccounted
  BY DEF OutputsInv
<1> QED
  BY <1>1, OutputsInductive, PTL DEF OutputsSpec

(***************************************************************************)
(* Outputs: types, and what is created once                                *)
(***************************************************************************)
\* A report is only made of a completed analysis, and what an attempt is
\* recorded as is a status.
OutputsTypes ==
  /\ OutputsTypeOK /\ DOMAIN oseen = Workers
  /\ \A w \in Workers :
       /\ opc[w] # "idle" => ocall[w] \in Calls
       /\ opc[w] \in {"report", "saved"} => completed
       /\ opc[w] = "attempted" => oseen[w] \in Statuses

\* The three ways a step of a request goes on, where the tables keep their types.
LEMMA StartKeepsTypes ==
  ASSUME OutputsTypes, NEW w \in Workers, NEW label \in {"report", "insight", "notice", "lead", "deploying", "created"},
         NEW seen, NEW steps, OpStart(w, label, seen, steps), UNCHANGED otables,
         label = "report" => completed
  PROVE  OutputsTypes'
<1>1. nops' = nops + 1 /\ nops' \in 0..MaxOps /\ nops' \in Calls
  BY OpsAssumption DEF OutputsTypes, OutputsTypeOK, OpStart, Calls
<1>2. /\ opc \in [Workers -> {"idle", "report", "saved", "notice", "attempted", "lead"}
                               \cup InsightSteps \cup DeploymentSteps]
      /\ ocall \in [Workers -> 0..MaxOps] /\ omet \in [Workers -> BOOLEAN] /\ DOMAIN oseen = Workers
  BY DEF OutputsTypes, OutputsTypeOK
<1>3. /\ opc' = [opc EXCEPT ![w] = label] /\ ocall' = [ocall EXCEPT ![w] = nops']
      /\ oseen' = [oseen EXCEPT ![w] = seen] /\ lost' = lost
  BY <1>1 DEF OpStart
<1>4. omet' \in [Workers -> BOOLEAN]
  BY <1>2 DEF OpStart, SameKind
<1>5. /\ opc' \in [Workers -> {"idle", "report", "saved", "notice", "attempted", "lead"}
                                \cup InsightSteps \cup DeploymentSteps]
      /\ ocall' \in [Workers -> 0..MaxOps] /\ DOMAIN oseen' = Workers
  BY <1>1, <1>2, <1>3 DEF InsightSteps, DeploymentSteps
<1>6. OutputsTypeOK'
  BY <1>1, <1>3, <1>4, <1>5 DEF OutputsTypes, OutputsTypeOK, otables, Calls, Insights, Deployments
<1>7. ASSUME NEW v \in Workers
      PROVE  /\ opc'[v] # "idle" => ocall'[v] \in Calls
             /\ opc'[v] \in {"report", "saved"} => completed'
             /\ opc'[v] = "attempted" => oseen'[v] \in Statuses
  BY <1>1, <1>2, <1>3 DEF OutputsTypes, otables, Calls
<1> QED
  BY <1>5, <1>6, <1>7 DEF OutputsTypes, Calls

LEMMA GotoKeepsTypes ==
  ASSUME OutputsTypes, NEW w \in Workers, NEW label \in {"saved", "attempted", "replacing", "created"}, NEW seen,
         OpGoto(w, label, seen), opc[w] # "idle", label = "saved" => opc[w] = "report",
         label = "attempted" => seen \in Statuses,
         UNCHANGED <<completed, reports, insights, lead, notices>>,
         files' \subseteq Calls, sent' \subseteq Calls, deployments' \subseteq Deployments
  PROVE  OutputsTypes'
<1>1. /\ opc \in [Workers -> {"idle", "report", "saved", "notice", "attempted", "lead"}
                               \cup InsightSteps \cup DeploymentSteps]
      /\ DOMAIN oseen = Workers
  BY DEF OutputsTypes, OutputsTypeOK
<1>2. /\ opc' = [opc EXCEPT ![w] = label] /\ oseen' = [oseen EXCEPT ![w] = seen]
      /\ UNCHANGED <<nops, lost, ocall, omet>>
  BY DEF OpGoto
<1>3. /\ opc' \in [Workers -> {"idle", "report", "saved", "notice", "attempted", "lead"}
                                \cup InsightSteps \cup DeploymentSteps]
      /\ DOMAIN oseen' = Workers
  BY <1>1, <1>2 DEF InsightSteps, DeploymentSteps
<1>4. OutputsTypeOK'
  BY <1>2, <1>3 DEF OutputsTypes, OutputsTypeOK, Calls, Insights
<1>5. ASSUME NEW v \in Workers
      PROVE  /\ opc'[v] # "idle" => ocall'[v] \in Calls
             /\ opc'[v] \in {"report", "saved"} => completed'
             /\ opc'[v] = "attempted" => oseen'[v] \in Statuses
  BY <1>1, <1>2 DEF OutputsTypes, Calls
<1> QED
  BY <1>3, <1>4, <1>5 DEF OutputsTypes, Calls

LEMMA DoneKeepsTypes ==
  ASSUME OutputsTypes, NEW w \in Workers, OpDone(w), lost' \subseteq Calls, UNCHANGED <<completed, sent>>,
         reports' # {} => completed,
         files' \subseteq Calls, reports' \subseteq Calls, insights' \subseteq Insights, lead' \in Calls \cup {None},
         notices' \subseteq [call : Calls, status : Statuses], deployments' \subseteq Deployments
  PROVE  OutputsTypes'
<1>1. /\ opc \in [Workers -> {"idle", "report", "saved", "notice", "attempted", "lead"}
                               \cup InsightSteps \cup DeploymentSteps]
      /\ ocall \in [Workers -> 0..MaxOps] /\ omet \in [Workers -> BOOLEAN] /\ DOMAIN oseen = Workers
  BY DEF OutputsTypes, OutputsTypeOK
<1>2. /\ opc' = [opc EXCEPT ![w] = "idle"] /\ ocall' = [ocall EXCEPT ![w] = 0]
      /\ oseen' = [oseen EXCEPT ![w] = None] /\ omet' = [omet EXCEPT ![w] = FALSE] /\ nops' = nops
  BY DEF OpDone
<1>3. /\ opc' \in [Workers -> {"idle", "report", "saved", "notice", "attempted", "lead"}
                                \cup InsightSteps \cup DeploymentSteps]
      /\ ocall' \in [Workers -> 0..MaxOps] /\ omet' \in [Workers -> BOOLEAN] /\ DOMAIN oseen' = Workers
  BY <1>1, <1>2, OpsAssumption DEF InsightSteps, DeploymentSteps
<1>4. OutputsTypeOK'
  BY <1>2, <1>3 DEF OutputsTypes, OutputsTypeOK, Calls, Insights, Deployments
<1>5. ASSUME NEW v \in Workers
      PROVE  /\ opc'[v] # "idle" => ocall'[v] \in Calls
             /\ opc'[v] \in {"report", "saved"} => completed'
             /\ opc'[v] = "attempted" => oseen'[v] \in Statuses
  BY <1>1, <1>2 DEF OutputsTypes, Calls
<1> QED
  BY <1>3, <1>4, <1>5 DEF OutputsTypes, Calls

LEMMA OutputsTypeStep ==
  ASSUME OutputsTypes, OutputsNext
  PROVE  OutputsTypes'
<1> DEFINE Tables ==
      /\ completed \in BOOLEAN /\ (reports # {} => completed)
      /\ files \subseteq Calls /\ reports \subseteq Calls /\ sent \subseteq Calls
      /\ insights \subseteq Insights /\ lead \in Calls \cup {None}
      /\ notices \subseteq [call : Calls, status : Statuses]
      /\ deployments \subseteq Deployments /\ lost \subseteq Calls
<1>1. Tables /\ \A w \in Workers : opc[w] # "idle" => ocall[w] \in Calls
  BY DEF OutputsTypes, OutputsTypeOK
<1>2. CASE Complete
  BY <1>2 DEF Complete, OutputsTypes, OutputsTypeOK, Calls, Insights, Deployments
<1>3. ASSUME NEW w \in Workers, StartReport(w) \/ StartInsight(w) \/ StartNotice(w) \/ ReadLead(w)
      PROVE  OutputsTypes'
  BY <1>3, StartKeepsTypes DEF StartReport, StartInsight, StartNotice, ReadLead
<1>4. ASSUME NEW w \in Workers, ReadDeployment(w) PROVE OutputsTypes'
  <2>1. CASE OpStart(w, "deploying", None, DeploymentSteps)
    BY <1>4, <2>1, StartKeepsTypes DEF ReadDeployment
  <2>2. ASSUME NEW d \in deployments, OpStart(w, "created", d.call, DeploymentSteps) PROVE OutputsTypes'
    BY <1>4, <2>2, StartKeepsTypes DEF ReadDeployment
  <2> QED
    BY <1>4, <2>1, <2>2 DEF ReadDeployment
<1>5. ASSUME NEW w \in Workers, SaveReport(w) PROVE OutputsTypes'
  BY <1>1, <1>5, GotoKeepsTypes DEF SaveReport
<1>6. ASSUME NEW w \in Workers, SeeInsights(w) PROVE OutputsTypes'
  BY <1>1, <1>6, GotoKeepsTypes DEF SeeInsights, otables
<1>7. ASSUME NEW w \in Workers, SendNotice(w) \/ SendRaises(w) PROVE OutputsTypes'
  <2>1. \A s \in {"SENT", "FAILED"} : s \in Statuses
    BY DEF Statuses
  <2> QED
    BY <1>1, <1>7, <2>1, GotoKeepsTypes DEF SendNotice, SendRaises
<1>8. ASSUME NEW w \in Workers, CreateDeployment(w) PROVE OutputsTypes'
  <2>1. [call |-> ocall[w], licensed |-> FALSE, met |-> omet[w]] \in Deployments
    BY <1>1, <1>8 DEF CreateDeployment, Deployments, OutputsTypes, OutputsTypeOK
  <2> QED
    BY <1>1, <1>8, <2>1, GotoKeepsTypes DEF CreateDeployment
<1>9. ASSUME NEW w \in Workers, CommitReport(w) \/ FailReport(w) \/ OrphanReport(w) PROVE OutputsTypes'
  <2>1. opc[w] = "saved" /\ completed /\ ocall[w] \in Calls
    BY <1>1, <1>9 DEF CommitReport, FailReport, OrphanReport, OutputsTypes
  <2> QED
    BY <1>1, <1>9, <2>1, DoneKeepsTypes DEF CommitReport, FailReport, OrphanReport, OpFinish, otables
<1>10. ASSUME NEW w \in Workers, CommitInsight(w) PROVE OutputsTypes'
  <2>1. [call |-> ocall[w], met |-> omet[w]] \in Insights
    BY <1>1, <1>10 DEF CommitInsight, Insights, OutputsTypes, OutputsTypeOK
  <2> QED
    BY <1>1, <1>10, <2>1, DoneKeepsTypes DEF CommitInsight, OpFinish
<1>11. ASSUME NEW w \in Workers, RecordNotice(w) PROVE OutputsTypes'
  <2>1. [call |-> ocall[w], status |-> oseen[w]] \in [call : Calls, status : Statuses]
    BY <1>1, <1>11 DEF RecordNotice, OutputsTypes
  <2> QED
    BY <1>1, <1>11, <2>1, DoneKeepsTypes DEF RecordNotice, OpFinish
<1>12. ASSUME NEW w \in Workers, CommitLead(w) \/ ReturnDeployment(w) PROVE OutputsTypes'
  BY <1>1, <1>12, DoneKeepsTypes DEF CommitLead, ReturnDeployment, OpFinish, otables
<1>13. ASSUME NEW w \in Workers, RecordLicense(w) PROVE OutputsTypes'
  <2>1. \A d \in Deployments : [d EXCEPT !.licensed = TRUE] \in Deployments
    BY DEF Deployments
  <2>2. deployments' \subseteq Deployments
    BY <1>1, <1>13, <2>1 DEF RecordLicense
  <2> QED
    BY <1>1, <1>13, <2>2, DoneKeepsTypes DEF RecordLicense, OpFinish
<1>14. ASSUME NEW w \in Workers, OpLost(w) PROVE OutputsTypes'
  <2>1. lost' \subseteq Calls
    BY <1>1, <1>14 DEF OpLost
  <2> QED
    BY <1>1, <1>14, <2>1, DoneKeepsTypes DEF OpLost, otables
<1> QED
  BY <1>2, <1>3, <1>4, <1>5, <1>6, <1>7, <1>8, <1>9, <1>10, <1>11, <1>12, <1>13, <1>14 DEF OutputsNext

\* The states of the outputs are well formed.
THEOREM OutputsTypeCorrect == OutputsSpec => []OutputsTypeOK
<1>1. OutputsInit => OutputsTypes
  BY OpsAssumption DEF OutputsInit, OutputsTypes, OutputsTypeOK, Calls
<1>2. OutputsTypes /\ [OutputsNext]_ovars => OutputsTypes'
  <2>1. ASSUME OutputsTypes, UNCHANGED ovars PROVE OutputsTypes'
    BY <2>1 DEF ovars, otables, OutputsTypes, OutputsTypeOK, Calls, Insights, Deployments
  <2> QED
    BY <2>1, OutputsTypeStep
<1>3. OutputsTypes => OutputsTypeOK
  BY DEF OutputsTypes
<1> QED
  BY <1>1, <1>2, <1>3, PTL DEF OutputsSpec

\* Two requests of a kind that are under way have met, and a row that a request
\* is not going to replace, or did not find, is of a request that it met.
OnceInv ==
  /\ DOMAIN opc = Workers /\ DOMAIN oseen = Workers /\ DOMAIN omet = Workers
  /\ \A v, w \in Workers : \A steps \in {InsightSteps, DeploymentSteps} :
       v # w /\ opc[v] \in steps /\ opc[w] \in steps => omet[v] /\ omet[w]
  /\ \A w \in Workers :
       /\ opc[w] = "replacing" => \A x \in insights \ oseen[w] : x.met /\ omet[w]
       /\ opc[w] = "deploying" => \A d \in deployments : d.met /\ omet[w]

OutputsOnce == OnceInv /\ OneInsight /\ OneDeployment

LEMMA StartKeepsOnce ==
  ASSUME OutputsOnce, NEW w \in Workers, NEW label \in {"report", "insight", "notice", "lead", "deploying", "created"},
         NEW seen, NEW steps, OpStart(w, label, seen, steps), UNCHANGED otables,
         label = "insight" => steps = InsightSteps,
         label \in DeploymentSteps => steps = DeploymentSteps,
         label = "deploying" => deployments = {}
  PROVE  OutputsOnce'
<1>1. /\ DOMAIN opc' = Workers /\ DOMAIN oseen' = Workers /\ DOMAIN omet' = Workers
      /\ opc'[w] = label /\ \A v \in Workers : v # w => opc'[v] = opc[v] /\ oseen'[v] = oseen[v]
  BY DEF OutputsOnce, OnceInv, OpStart
<1>2. /\ \A v \in Workers : v # w /\ omet[v] => omet'[v]
      /\ \A v \in Workers : v # w /\ opc[v] \in steps => omet'[v] /\ omet'[w]
  BY DEF OpStart, SameKind, OutputsOnce, OnceInv
<1>3. ASSUME NEW u \in Workers, NEW v \in Workers, NEW kind \in {InsightSteps, DeploymentSteps}, u # v,
             opc'[u] \in kind, opc'[v] \in kind
      PROVE  omet'[u] /\ omet'[v]
  <2>1. CASE u # w /\ v # w
    BY <1>1, <1>2, <1>3, <2>1 DEF OutputsOnce, OnceInv
  <2>2. CASE u = w \/ v = w
    <3>1. kind = steps
      BY <1>1, <1>3, <2>2 DEF InsightSteps, DeploymentSteps
    <3> QED
      BY <1>1, <1>2, <1>3, <2>2, <3>1
  <2> QED
    BY <2>1, <2>2
<1>4. ASSUME NEW v \in Workers
      PROVE  /\ opc'[v] = "replacing" => \A x \in insights' \ oseen'[v] : x.met /\ omet'[v]
             /\ opc'[v] = "deploying" => \A d \in deployments' : d.met /\ omet'[v]
  BY <1>1, <1>2 DEF OutputsOnce, OnceInv, otables, DeploymentSteps
<1>5. OnceInv'
  BY <1>1, <1>3, <1>4, Zenon DEF OnceInv, InsightSteps, DeploymentSteps
<1> QED
  BY <1>5 DEF OutputsOnce, OneInsight, OneDeployment, otables

LEMMA EndKeepsOnce ==
  ASSUME OutputsOnce, NEW w \in Workers, OpDone(w), OneInsight', OneDeployment',
         \A v \in Workers : v # w /\ opc[v] = "replacing" => \A x \in insights' \ oseen[v] : x.met /\ omet[v],
         \A v \in Workers : v # w /\ opc[v] = "deploying" => \A d \in deployments' : d.met /\ omet[v]
  PROVE  OutputsOnce'
<1>1. /\ DOMAIN opc' = Workers /\ DOMAIN oseen' = Workers /\ DOMAIN omet' = Workers /\ opc'[w] = "idle"
      /\ \A v \in Workers : v # w => opc'[v] = opc[v] /\ oseen'[v] = oseen[v] /\ omet'[v] = omet[v]
  BY DEF OutputsOnce, OnceInv, OpDone
<1>2. \A kind \in {InsightSteps, DeploymentSteps} : "idle" \notin kind
  BY DEF InsightSteps, DeploymentSteps
<1>3. ASSUME NEW u \in Workers, NEW v \in Workers, NEW kind \in {InsightSteps, DeploymentSteps}, u # v,
             opc'[u] \in kind, opc'[v] \in kind
      PROVE  omet'[u] /\ omet'[v]
  BY <1>1, <1>2, <1>3 DEF OutputsOnce, OnceInv
<1>4. ASSUME NEW v \in Workers
      PROVE  /\ opc'[v] = "replacing" => \A x \in insights' \ oseen'[v] : x.met /\ omet'[v]
             /\ opc'[v] = "deploying" => \A d \in deployments' : d.met /\ omet'[v]
  BY <1>1
<1>5. OnceInv'
  BY <1>1, <1>3, <1>4, Zenon DEF OnceInv, InsightSteps, DeploymentSteps
<1> QED
  BY <1>5 DEF OutputsOnce

\* Between its start and its end a request stays of its kind.
LEMMA GotoKeepsOnce ==
  ASSUME OutputsOnce, NEW w \in Workers, NEW label, NEW seen, OpGoto(w, label, seen), OneDeployment',
         label # "deploying", insights' = insights,
         \A kind \in {InsightSteps, DeploymentSteps} : label \in kind => opc[w] \in kind,
         label = "replacing" => seen = insights,
         \A v \in Workers : v # w /\ opc[v] = "deploying" => \A d \in deployments' : d.met /\ omet[v]
  PROVE  OutputsOnce'
<1>1. /\ DOMAIN opc' = Workers /\ DOMAIN oseen' = Workers /\ omet' = omet
      /\ opc'[w] = label /\ oseen'[w] = seen
      /\ \A v \in Workers : v # w => opc'[v] = opc[v] /\ oseen'[v] = oseen[v]
  BY DEF OutputsOnce, OnceInv, OpGoto
<1>2. ASSUME NEW u \in Workers, NEW v \in Workers, NEW kind \in {InsightSteps, DeploymentSteps}, u # v,
             opc'[u] \in kind, opc'[v] \in kind
      PROVE  omet'[u] /\ omet'[v]
  BY <1>1, <1>2 DEF OutputsOnce, OnceInv
<1>3. ASSUME NEW v \in Workers
      PROVE  /\ opc'[v] = "replacing" => \A x \in insights' \ oseen'[v] : x.met /\ omet'[v]
             /\ opc'[v] = "deploying" => \A d \in deployments' : d.met /\ omet'[v]
  BY <1>1 DEF OutputsOnce, OnceInv
<1>4. OnceInv'
  BY <1>1, <1>2, <1>3, Zenon DEF OnceInv, OutputsOnce, InsightSteps, DeploymentSteps
<1> QED
  BY <1>4 DEF OutputsOnce, OneInsight

\* The new insight stands beside those that its request had not seen.
LEMMA CommitInsightKeepsOnce ==
  ASSUME OutputsOnce, NEW w \in Workers, CommitInsight(w)
  PROVE  OutputsOnce'
<1> DEFINE new == [call |-> ocall[w], met |-> omet[w]]
<1>1. /\ opc[w] = "replacing" /\ insights' = (insights \ oseen[w]) \cup {new}
      /\ OpDone(w) /\ deployments' = deployments
  BY DEF CommitInsight, OpFinish
<1>2. new.met = omet[w]
  OBVIOUS
<1> HIDE DEF new
<1>3. \A x \in insights \ oseen[w] : x.met /\ omet[w]
  BY <1>1 DEF OutputsOnce, OnceInv
<1>4. OneInsight'
  BY <1>1, <1>2, <1>3 DEF OutputsOnce, OneInsight
<1>5. ASSUME NEW v \in Workers, v # w, opc[v] = "replacing", NEW x \in insights' \ oseen[v]
      PROVE  x.met /\ omet[v]
  <2>1. omet[v] /\ omet[w]
    BY <1>1, <1>5 DEF OutputsOnce, OnceInv, InsightSteps
  <2> QED
    BY <1>1, <1>2, <1>5, <2>1 DEF OutputsOnce, OnceInv
<1>6. OneDeployment'
  BY <1>1 DEF OutputsOnce, OneDeployment
<1>7. \A v \in Workers : v # w /\ opc[v] = "deploying" => \A d \in deployments' : d.met /\ omet[v]
  BY <1>1 DEF OutputsOnce, OnceInv
<1> QED
  BY <1>1, <1>4, <1>5, <1>6, <1>7, EndKeepsOnce

LEMMA CreateDeploymentKeepsOnce ==
  ASSUME OutputsOnce, NEW w \in Workers, CreateDeployment(w)
  PROVE  OutputsOnce'
<1> DEFINE new == [call |-> ocall[w], licensed |-> FALSE, met |-> omet[w]]
<1>1. /\ opc[w] = "deploying" /\ deployments' = deployments \cup {new}
      /\ OpGoto(w, "created", ocall[w]) /\ insights' = insights
  BY DEF CreateDeployment
<1>2. new.met = omet[w]
  OBVIOUS
<1> HIDE DEF new
<1>3. \A d \in deployments : d.met /\ omet[w]
  BY <1>1 DEF OutputsOnce, OnceInv
<1>4. OneDeployment'
  BY <1>1, <1>2, <1>3 DEF OutputsOnce, OneDeployment
<1>5. ASSUME NEW v \in Workers, v # w, opc[v] = "deploying", NEW d \in deployments'
      PROVE  d.met /\ omet[v]
  <2>1. omet[v] /\ omet[w]
    BY <1>1, <1>5 DEF OutputsOnce, OnceInv, DeploymentSteps
  <2> QED
    BY <1>1, <1>2, <1>3, <2>1
<1>6. \A kind \in {InsightSteps, DeploymentSteps} : "created" \in kind => opc[w] \in kind
  BY <1>1 DEF InsightSteps, DeploymentSteps
<1> QED
  BY <1>1, <1>4, <1>5, <1>6, GotoKeepsOnce

\* A license changes no row's origin.
LEMMA RecordLicenseKeepsOnce ==
  ASSUME OutputsOnce, OutputsTypes, NEW w \in Workers, RecordLicense(w)
  PROVE  OutputsOnce'
<1>1. /\ deployments' = {IF d.call = oseen[w] THEN [d EXCEPT !.licensed = TRUE] ELSE d : d \in deployments}
      /\ OpDone(w) /\ insights' = insights
  BY DEF RecordLicense, OpFinish
<1>2. \A d \in deployments : [d EXCEPT !.licensed = TRUE].met = d.met
  BY DEF OutputsTypes, OutputsTypeOK, Deployments
<1>3. ASSUME NEW x \in deployments' PROVE \E d \in deployments : x.met = d.met /\ x = (IF d.call = oseen[w] THEN [d EXCEPT !.licensed = TRUE] ELSE d)
  BY <1>1, <1>2
<1>4. OneDeployment'
  <2> SUFFICES ASSUME NEW x \in deployments', NEW y \in deployments', x # y PROVE x.met /\ y.met
    BY DEF OneDeployment
  <2>1. PICK d \in deployments : x.met = d.met /\ x = (IF d.call = oseen[w] THEN [d EXCEPT !.licensed = TRUE] ELSE d)
    BY <1>3
  <2>2. PICK e \in deployments : y.met = e.met /\ y = (IF e.call = oseen[w] THEN [e EXCEPT !.licensed = TRUE] ELSE e)
    BY <1>3
  <2>3. d # e
    BY <2>1, <2>2
  <2> QED
    BY <2>1, <2>2, <2>3 DEF OutputsOnce, OneDeployment
<1>5. \A v \in Workers : v # w /\ opc[v] = "deploying" => \A d \in deployments' : d.met /\ omet[v]
  BY <1>3 DEF OutputsOnce, OnceInv
<1>6. OneInsight' /\ \A v \in Workers : v # w /\ opc[v] = "replacing" => \A x \in insights' \ oseen[v] : x.met /\ omet[v]
  BY <1>1 DEF OutputsOnce, OnceInv, OneInsight
<1> QED
  BY <1>1, <1>4, <1>5, <1>6, EndKeepsOnce

LEMMA OutputsOnceStep ==
  ASSUME OutputsOnce, OutputsTypes, OutputsNext
  PROVE  OutputsOnce'
<1>1. CASE Complete
  BY <1>1 DEF Complete, OutputsOnce, OnceInv, OneInsight, OneDeployment
<1>2. ASSUME NEW w \in Workers, StartReport(w) \/ StartInsight(w) \/ StartNotice(w) \/ ReadLead(w)
      PROVE  OutputsOnce'
  BY <1>2, StartKeepsOnce DEF StartReport, StartInsight, StartNotice, ReadLead, DeploymentSteps
<1>3. ASSUME NEW w \in Workers, ReadDeployment(w) PROVE OutputsOnce'
  <2>1. CASE deployments = {} /\ OpStart(w, "deploying", None, DeploymentSteps)
    BY <1>3, <2>1, StartKeepsOnce DEF ReadDeployment
  <2>2. ASSUME NEW d \in deployments, OpStart(w, "created", d.call, DeploymentSteps) PROVE OutputsOnce'
    BY <1>3, <2>2, StartKeepsOnce DEF ReadDeployment
  <2> QED
    BY <1>3, <2>1, <2>2 DEF ReadDeployment
<1>4. ASSUME NEW w \in Workers, SeeInsights(w) PROVE OutputsOnce'
  <2>1. /\ opc[w] = "insight" /\ OpGoto(w, "replacing", insights)
        /\ insights' = insights /\ deployments' = deployments
    BY <1>4 DEF SeeInsights, otables
  <2>2. \A kind \in {InsightSteps, DeploymentSteps} : "replacing" \in kind => opc[w] \in kind
    BY <2>1 DEF InsightSteps, DeploymentSteps
  <2> QED
    BY <2>1, <2>2, GotoKeepsOnce DEF OutputsOnce, OnceInv, OneDeployment
<1>5. ASSUME NEW w \in Workers, SaveReport(w) \/ SendNotice(w) \/ SendRaises(w) PROVE OutputsOnce'
  <2>1. PICK label \in {"saved", "attempted"}, seen \in {None, "SENT", "FAILED"} : OpGoto(w, label, seen)
    BY <1>5 DEF SaveReport, SendNotice, SendRaises
  <2>2. insights' = insights /\ deployments' = deployments
    BY <1>5 DEF SaveReport, SendNotice, SendRaises
  <2>3. \A kind \in {InsightSteps, DeploymentSteps} : label \notin kind
    BY DEF InsightSteps, DeploymentSteps
  <2> QED
    BY <2>1, <2>2, <2>3, GotoKeepsOnce DEF OutputsOnce, OnceInv, OneDeployment
<1>6. ASSUME NEW w \in Workers,
             \/ CommitReport(w) \/ FailReport(w) \/ OrphanReport(w) \/ RecordNotice(w)
             \/ CommitLead(w) \/ ReturnDeployment(w) \/ OpLost(w)
      PROVE  OutputsOnce'
  <2>1. OpDone(w) /\ insights' = insights /\ deployments' = deployments
    BY <1>6 DEF CommitReport, FailReport, OrphanReport, RecordNotice, CommitLead, ReturnDeployment, OpLost,
       OpFinish, otables
  <2> QED
    BY <2>1, EndKeepsOnce DEF OutputsOnce, OnceInv, OneInsight, OneDeployment
<1> QED
  BY <1>1, <1>2, <1>3, <1>4, <1>5, <1>6, CommitInsightKeepsOnce, CreateDeploymentKeepsOnce,
     RecordLicenseKeepsOnce DEF OutputsNext

\* An insight supersedes the prior ones and the deployment has one row, up to
\* requests that overlapped.
THEOREM OutputsCreatedOnce == OutputsSpec => [](OneInsight /\ OneDeployment)
<1>1. OutputsInit => OutputsOnce /\ OutputsTypes
  BY OpsAssumption DEF OutputsInit, OutputsTypes, OutputsTypeOK, Calls, OutputsOnce, OnceInv, OneInsight,
     OneDeployment, InsightSteps, DeploymentSteps
<1>2. OutputsOnce /\ OutputsTypes /\ [OutputsNext]_ovars => OutputsOnce' /\ OutputsTypes'
  <2>1. ASSUME OutputsOnce, OutputsTypes, UNCHANGED ovars PROVE OutputsOnce' /\ OutputsTypes'
    BY <2>1 DEF ovars, otables, OutputsTypes, OutputsTypeOK, Calls, Insights, Deployments,
       OutputsOnce, OnceInv, OneInsight, OneDeployment
  <2> QED
    BY <2>1, OutputsTypeStep, OutputsOnceStep
<1>3. OutputsOnce => OneInsight /\ OneDeployment
  BY DEF OutputsOnce
<1> QED
  BY <1>1, <1>2, <1>3, PTL DEF OutputsSpec

(***************************************************************************)
(* The services beside each other                                          *)
(***************************************************************************)
\* ServicesNext is written so that a step of one service is a stutter of the
\* others: what is proved of each of them alone can be used of all of them.
LEMMA ServicesApart ==
  ServicesSpec => NormSpec /\ ContractsSpec /\ OutputsSpec /\ StartupSpec /\ PoolSafe
<1>1. ServicesInit => NormInit /\ ContractsInit /\ OutputsInit /\ StartupInit /\ PoolInit
  BY DEF ServicesInit
<1>2. [ServicesNext]_services => [NormNext]_nvars
  BY DEF ServicesNext, services
<1>3. [ServicesNext]_services => [ContractsNext]_cvars
  BY DEF ServicesNext, services
<1>4. [ServicesNext]_services => [OutputsNext]_ovars
  BY DEF ServicesNext, services
<1>5. [ServicesNext]_services => [StartupNext]_svars
  BY DEF ServicesNext, services
<1>6. [ServicesNext]_services => [PoolNext]_pvars
  BY DEF ServicesNext, services
<1> QED
  BY <1>1, <1>2, <1>3, <1>4, <1>5, <1>6, PTL
     DEF ServicesSpec, NormSpec, ContractsSpec, OutputsSpec, StartupSpec, PoolSafe

\* The states of the five services are well formed, as each of them reads and
\* writes its own tables.
THEOREM ServicesTypeCorrect == ServicesSpec => []ServicesTypeOK
<1>1. NormTypeOK /\ ContractsTypeOK /\ OutputsTypeOK /\ StartupTypeOK /\ PoolTypeOK => ServicesTypeOK
  BY DEF ServicesTypeOK
<1> QED
  BY <1>1, ServicesApart, NormTypeCorrect, ContractsTypeCorrect, OutputsTypeCorrect, StartupTypeCorrect,
     PoolTypeCorrect, PTL

\* generate_insight, get_deployment_info and run_demo_seed create what is
\* missing once, unless two that found nothing overlapped.
THEOREM OnceCreated == ServicesSpec => []CreatedOnce
<1>1. OneInsight /\ OneDeployment /\ DemoOnce => CreatedOnce
  BY DEF CreatedOnce
<1> QED
  BY <1>1, ServicesApart, OutputsCreatedOnce, DemoCreatedOnce, PTL
=============================================================================
