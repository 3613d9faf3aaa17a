------------------------------ MODULE Startup ------------------------------
(***************************************************************************)
(* The start-up of an instance (lifespan in main.py) on a PostgreSQL       *)
(* database: ensure_schema with the deploy-time migration, the operator    *)
(* seed and the demo data.  Instances start at the same time, crash and    *)
(* start again, while the previous deploy still serves and registers       *)
(* users.  Instances of one deploy have the same environment.              *)
(***************************************************************************)
EXTENDS Backend

CONSTANTS
  Instances,      \* processes that start
  OperatorEmail,  \* the account RECONFLOW_OPERATOR_EMAIL names
  ClientEmail,    \* another account
  Settings,       \* environments a deploy can have
  Databases,      \* databases it can meet
  DemoBranches,   \* Len(DEMO_BRANCHES); 3 in the code
  MaxBoots        \* bound: starts

Emails == {OperatorEmail, ClientEmail}
Operator == "PLATFORM_OPERATOR"
Client == "OWNER"                   \* stands for each of the client roles
HeadRevision == "0003"
Accounts == [role : {Operator, Client}, attached : BOOLEAN]
UserTables == UNION {[E -> Accounts] : E \in SUBSET Emails}

ASSUME InstancesAssumption ==
  /\ Instances # {} /\ OperatorEmail # ClientEmail
  /\ None \notin Instances \cup Emails \cup {"0001", HeadRevision}
ASSUME SettingsAssumption ==
  Settings \subseteq [auto : BOOLEAN, named : BOOLEAN, password : BOOLEAN, demo : BOOLEAN]
\* A database that no migration has touched has no operator, and one at the
\* head was left so by an earlier deploy.
ASSUME DatabasesAssumption ==
  \A d \in Databases :
    /\ d.rev \in {None, "0001", HeadRevision} /\ d.shape \in {"none", "baseline", "drifted", "head"}
    /\ d.users \in UserTables /\ d.orgs \in Nat
    /\ d.rev = "0001" => d.shape = "baseline"
    /\ d.rev = HeadRevision <=> d.shape = "head"
    /\ d.shape = "none" => d.users = <<>> /\ d.orgs = 0
    /\ d.rev # HeadRevision => \A e \in DOMAIN d.users : d.users[e] = [role |-> Client, attached |-> FALSE]
    /\ d.rev = HeadRevision => \/ d.users = <<>>
                       \/ \E e \in DOMAIN d.users : d.users[e].role = Operator
ASSUME BootsAssumption == DemoBranches \in Nat \ {0} /\ MaxBoots \in Nat

VARIABLES
  env,        \* the environment of the deploy
  rev,        \* alembic_version, None when there is none
  shape,      \* the schema the tables really have
  users,      \* email -> role, and whether it has an organization
  orgs,       \* number of client organizations
  holder,     \* the session that holds the advisory lock
  platforms,  \* the demo platforms that exist
  demos,      \* the demo organizations' branches, and those with a contract
  nboots,     \* number of starts
  slipped,    \* ghost: the operator's email was registered during a migration
  unseeded,   \* ghost: the insert of the seed has failed
  together,   \* ghost: two instances were in the demo seed at once
  spc,        \* where each instance is
  sread,      \* the revision it has read
  sargs,      \* _operator_arguments
  splan,      \* _preflight: organization to assign, account to promote
  sdemo,      \* the demo organization it fills
  sbranch     \* the branch of it that is next

stables == <<env, rev, shape, users, orgs, holder, platforms, demos>>
sghosts == <<nboots, slipped, unseeded, together>>
slocals == <<spc, sread, sargs, splan, sdemo, sbranch>>
svars == <<stables, sghosts, slocals>>

NoPlan == [assign |-> FALSE, promote |-> FALSE]

StartupInit ==
  /\ env \in Settings
  /\ \E d \in Databases : rev = d.rev /\ shape = d.shape /\ users = d.users /\ orgs = d.orgs
  /\ holder = None /\ platforms = {} /\ demos = <<>>
  /\ nboots = 0 /\ slipped = FALSE /\ unseeded = FALSE /\ together = FALSE
  /\ spc = [i \in Instances |-> "down"]
  /\ sread = [i \in Instances |-> None]
  /\ sargs = [i \in Instances |-> "none"]
  /\ splan = [i \in Instances |-> NoPlan]
  /\ sdemo = [i \in Instances |-> 0]
  /\ sbranch = [i \in Instances |-> 0]

Migrating == {"inspect", "arguments", "drift", "stamp", "preflight", "alter", "release"}
Seeding == {"demo_org", "demo_branch", "demo_platform", "demo_new_platform", "demo_contract"}

StartGoto(i, label) ==
  /\ spc' = [spc EXCEPT ![i] = label]
  /\ UNCHANGED sghosts

\* An exception aborts the start-up, or the process dies; its sessions are
\* closed, and the advisory lock goes with them.
Down(i) ==
  /\ spc' = [spc EXCEPT ![i] = "down"]
  /\ sread' = [sread EXCEPT ![i] = None]
  /\ sargs' = [sargs EXCEPT ![i] = "none"]
  /\ splan' = [splan EXCEPT ![i] = NoPlan]
  /\ sdemo' = [sdemo EXCEPT ![i] = 0]
  /\ sbranch' = [sbranch EXCEPT ![i] = 0]
  /\ holder' = IF holder = i THEN None ELSE holder
  /\ UNCHANGED <<env, rev, shape, users, orgs, platforms, demos, sghosts>>

Crash(i) == spc[i] # "down" /\ Down(i)

\* The previous deploy registers a user, while the schema is still its own.
OldRegister(e) ==
  /\ shape \in {"baseline", "drifted"} /\ e \notin DOMAIN users
  /\ users' = Extend(users, e, [role |-> Client, attached |-> FALSE])
  /\ slipped' = (slipped \/ (e = OperatorEmail /\ \E i \in Instances : spc[i] = "alter"))
  /\ UNCHANGED <<env, rev, shape, orgs, holder, platforms, demos, nboots, unseeded, together, slocals>>

(***************************************************************************)
(* ensure_schema and auto_migrate                                          *)
(***************************************************************************)
Boot(i) ==
  /\ spc[i] = "down" /\ nboots < MaxBoots
  /\ nboots' = nboots + 1
  /\ spc' = [spc EXCEPT ![i] = IF env.auto THEN "lock" ELSE "verify"]
  /\ UNCHANGED <<stables, slipped, unseeded, together, sread, sargs, splan, sdemo, sbranch>>

LockNothing(i) ==  \* mutant: no advisory lock
  /\ spc[i] = "lock"
  /\ StartGoto(i, "inspect")
  /\ UNCHANGED <<stables, sread, sargs, splan, sdemo, sbranch>>
\* pg_advisory_lock waits for the session that has it.
Lock(i) ==
  /\ spc[i] = "lock" /\ holder = None
  /\ holder' = i
  /\ StartGoto(i, "inspect")
  /\ UNCHANGED <<env, rev, shape, users, orgs, platforms, demos, sread, sargs, splan, sdemo, sbranch>>

\* _state: at the head, empty, or to be migrated.
Inspect(i) ==
  /\ spc[i] = "inspect"
  /\ sread' = [sread EXCEPT ![i] = rev]
  /\ StartGoto(i, CASE rev = HeadRevision -> "release"
                    [] rev = None /\ shape = "none" -> "preflight"
                    [] OTHER -> "arguments")
  /\ UNCHANGED <<stables, sargs, splan, sdemo, sbranch>>

ArgumentsRefuse ==
  users # <<>> /\ (~ env.named \/ (OperatorEmail \notin DOMAIN users /\ ~ env.password))

OperatorArguments(i) ==
  /\ spc[i] = "arguments" /\ ~ ArgumentsRefuse
  /\ sargs' = [sargs EXCEPT ![i] = CASE users = <<>> -> "none"
                                     [] OperatorEmail \in DOMAIN users -> "existing"
                                     [] OTHER -> "missing_ok"]
  /\ StartGoto(i, IF sread[i] = None THEN "drift" ELSE "preflight")
  /\ UNCHANGED <<stables, sread, splan, sdemo, sbranch>>

RefuseArguments(i) == spc[i] = "arguments" /\ ArgumentsRefuse /\ Down(i)

CheckNothing(i) ==  \* mutant: the schema is not compared with the baseline
  /\ spc[i] = "drift"
  /\ StartGoto(i, "stamp")
  /\ UNCHANGED <<stables, sread, sargs, splan, sdemo, sbranch>>
\* baseline_drift finds nothing...
CheckDrift(i) ==
  /\ spc[i] = "drift" /\ shape = "baseline"
  /\ StartGoto(i, "stamp")
  /\ UNCHANGED <<stables, sread, sargs, splan, sdemo, sbranch>>

\* ...and the stamp is committed.
Stamp(i) ==
  /\ spc[i] = "stamp"
  /\ rev' = "0001"
  /\ StartGoto(i, "preflight")
  /\ UNCHANGED <<env, shape, users, orgs, holder, platforms, demos, sread, sargs, splan, sdemo, sbranch>>

RefuseDrift(i) == spc[i] = "drift" /\ shape # "baseline" /\ Down(i)

\* Whom _preflight would promote, and whether others need an organization.
Promotes(i) == sargs[i] # "none" /\ OperatorEmail \in DOMAIN users
NeedsOrganization(i) ==
  \E e \in DOMAIN users : users[e].role # Operator /\ ~ (Promotes(i) /\ e = OperatorEmail)

PreflightRefuses(i) ==
  /\ users # <<>>
  /\ \/ sargs[i] = "existing" /\ OperatorEmail \notin DOMAIN users
     \/ sargs[i] = "none" /\ \A e \in DOMAIN users : users[e].role # Operator
     \/ NeedsOrganization(i) /\ orgs # 1

\* 0001, which runs on an empty database only, builds all the tables.
Baseline(s) == IF s = "none" THEN "baseline" ELSE s

\* The baseline is built when nothing is there; _preflight; the block of
\* the new enum value commits what precedes it.
Preflight(i) ==
  /\ spc[i] = "preflight" /\ shape # "head" /\ ~ PreflightRefuses(i)
  /\ rev' = "0001"
  /\ shape' = Baseline(shape)
  /\ splan' = [splan EXCEPT ![i] = [assign |-> NeedsOrganization(i), promote |-> Promotes(i)]]
  /\ StartGoto(i, "alter")
  /\ UNCHANGED <<env, users, orgs, holder, platforms, demos, sread, sargs, sdemo, sbranch>>

\* A column that is there already is an error like MigrationRefused.
RefusePreflight(i) ==
  /\ spc[i] = "preflight" /\ (shape = "head" \/ PreflightRefuses(i))
  /\ Down(i)

\* The two UPDATEs of 0002 on the users of now.
Upgraded(u, plan) ==
  [e \in DOMAIN u |->
     IF plan.promote /\ e = OperatorEmail THEN [role |-> Operator, attached |-> FALSE]
     ELSE IF u[e].role # Operator /\ plan.assign THEN [u[e] EXCEPT !.attached = TRUE]
     ELSE u[e]]

\* ck_users_operator_org
Structural(u) == \A e \in DOMAIN u : u[e].role = Operator <=> ~ u[e].attached

\* What 0002 and 0003 make of the tables that the revision before them left.
Tenancy(s) == IF s = "baseline" THEN "tenancy" ELSE s
Numbers(s) == IF s = "tenancy" THEN "head" ELSE s

\* The rest of 0002, and 0003, in one transaction.
Alter(i) ==
  /\ spc[i] = "alter" /\ shape # "head" /\ Structural(Upgraded(users, splan[i]))
  /\ users' = Upgraded(users, splan[i])
  /\ rev' = HeadRevision /\ shape' = Numbers(Tenancy(shape))
  /\ StartGoto(i, "release")
  /\ UNCHANGED <<env, orgs, holder, platforms, demos, sread, sargs, splan, sdemo, sbranch>>

RefuseAlter(i) ==
  /\ spc[i] = "alter" /\ (shape = "head" \/ ~ Structural(Upgraded(users, splan[i])))
  /\ Down(i)

Release(i) ==
  /\ spc[i] = "release"
  /\ holder' = IF holder = i THEN None ELSE holder
  /\ sread' = [sread EXCEPT ![i] = None]
  /\ sargs' = [sargs EXCEPT ![i] = "none"]
  /\ splan' = [splan EXCEPT ![i] = NoPlan]
  /\ StartGoto(i, "verify")
  /\ UNCHANGED <<env, rev, shape, users, orgs, platforms, demos, sdemo, sbranch>>

Verify(i) ==
  /\ spc[i] = "verify" /\ rev = HeadRevision
  /\ StartGoto(i, "seed")
  /\ UNCHANGED <<stables, sread, sargs, splan, sdemo, sbranch>>

RefuseVerify(i) == spc[i] = "verify" /\ rev # HeadRevision /\ Down(i)

(***************************************************************************)
(* run_operator_seed                                                       *)
(***************************************************************************)
SkipSeed(i) ==  \* mutant: the seed never creates the account
  /\ spc[i] = "seed"
  /\ StartGoto(i, "demo")
  /\ UNCHANGED <<stables, sread, sargs, splan, sdemo, sbranch>>
SeedCheck(i) ==
  /\ spc[i] = "seed"
  /\ StartGoto(i, IF env.named /\ env.password /\ OperatorEmail \notin DOMAIN users
                  THEN "seed_insert" ELSE "demo")
  /\ UNCHANGED <<stables, sread, sargs, splan, sdemo, sbranch>>

SeedInsert(i) ==
  /\ spc[i] = "seed_insert" /\ OperatorEmail \notin DOMAIN users
  /\ users' = Extend(users, OperatorEmail, [role |-> Operator, attached |-> FALSE])
  /\ StartGoto(i, "demo")
  /\ UNCHANGED <<env, rev, shape, orgs, holder, platforms, demos, sread, sargs, splan, sdemo, sbranch>>

\* EmailAlreadyExistsError or IdentityPersistError: logged, and the start-up goes on.
SeedFail(i) ==
  /\ spc[i] = "seed_insert"
  /\ unseeded' = (unseeded \/ OperatorEmail \notin DOMAIN users)
  /\ spc' = [spc EXCEPT ![i] = "demo"]
  /\ UNCHANGED <<stables, nboots, slipped, together, sread, sargs, splan, sdemo, sbranch>>

(***************************************************************************)
(* run_demo_seed: each insert is a commit of its own.                      *)
(***************************************************************************)
HasOperator == \E e \in DOMAIN users : users[e].role = Operator

DemoCheck(i) ==
  /\ spc[i] = "demo"
  /\ IF /\ env.demo /\ demos = <<>> /\ env.named
        /\ OperatorEmail \in DOMAIN users /\ users[OperatorEmail].role = Operator
     THEN /\ spc' = [spc EXCEPT ![i] = "demo_org"]
          /\ together' = (together \/ \E j \in Instances \ {i} : spc[j] \in Seeding)
     ELSE /\ spc' = [spc EXCEPT ![i] = "serving"]
          /\ UNCHANGED together
  /\ UNCHANGED <<stables, nboots, slipped, unseeded, sread, sargs, splan, sdemo, sbranch>>

DemoOrg(i) ==
  /\ spc[i] = "demo_org"
  /\ demos' = Append(demos, [branches |-> 0, contracts |-> 0])
  /\ sdemo' = [sdemo EXCEPT ![i] = Len(demos) + 1]
  /\ sbranch' = [sbranch EXCEPT ![i] = 1]
  /\ StartGoto(i, "demo_branch")
  /\ UNCHANGED <<env, rev, shape, users, orgs, holder, platforms, sread, sargs, splan>>

DemoBranch(i) ==
  /\ spc[i] = "demo_branch"
  /\ demos' = [demos EXCEPT ![sdemo[i]].branches = @ + 1]
  /\ StartGoto(i, "demo_platform")
  /\ UNCHANGED <<env, rev, shape, users, orgs, holder, platforms, sread, sargs, splan, sdemo, sbranch>>

DemoPlatform(i) ==
  /\ spc[i] = "demo_platform"
  /\ StartGoto(i, IF sbranch[i] \in platforms THEN "demo_contract" ELSE "demo_new_platform")
  /\ UNCHANGED <<stables, sread, sargs, splan, sdemo, sbranch>>

DemoNewPlatform(i) ==
  /\ spc[i] = "demo_new_platform" /\ sbranch[i] \notin platforms
  /\ platforms' = platforms \cup {sbranch[i]}
  /\ StartGoto(i, "demo_contract")
  /\ UNCHANGED <<env, rev, shape, users, orgs, holder, demos, sread, sargs, splan, sdemo, sbranch>>

\* PlatformAlreadyExistsError: nothing catches it.
DemoPlatformTaken(i) ==
  spc[i] = "demo_new_platform" /\ sbranch[i] \in platforms /\ Down(i)

DemoContract(i) ==
  /\ spc[i] = "demo_contract"
  /\ demos' = [demos EXCEPT ![sdemo[i]].contracts = @ + 1]
  /\ IF sbranch[i] < DemoBranches
     THEN /\ sbranch' = [sbranch EXCEPT ![i] = @ + 1]
          /\ UNCHANGED sdemo
          /\ StartGoto(i, "demo_branch")
     ELSE /\ sbranch' = [sbranch EXCEPT ![i] = 0]
          /\ sdemo' = [sdemo EXCEPT ![i] = 0]
          /\ StartGoto(i, "serving")
  /\ UNCHANGED <<env, rev, shape, users, orgs, holder, platforms, sread, sargs, splan>>

StartupStep(i) ==
  \/ Lock(i) \/ Inspect(i) \/ OperatorArguments(i) \/ RefuseArguments(i) \/ CheckDrift(i) \/ Stamp(i) \/ RefuseDrift(i)
  \/ Preflight(i) \/ RefusePreflight(i) \/ Alter(i) \/ RefuseAlter(i) \/ Release(i)
  \/ Verify(i) \/ RefuseVerify(i) \/ SeedCheck(i) \/ SeedInsert(i) \/ SeedFail(i)
  \/ DemoCheck(i) \/ DemoOrg(i) \/ DemoBranch(i) \/ DemoPlatform(i)
  \/ DemoNewPlatform(i) \/ DemoPlatformTaken(i) \/ DemoContract(i)

StartupNext ==
  \/ \E i \in Instances : Boot(i) \/ StartupStep(i) \/ Crash(i)
  \/ \E e \in Emails : OldRegister(e)

StartupSpec == StartupInit /\ [][StartupNext]_svars

(***************************************************************************)
(* Properties                                                              *)
(***************************************************************************)
StartupTypeOK ==
  /\ env \in Settings
  /\ rev \in {None, "0001", HeadRevision} /\ shape \in {"none", "baseline", "drifted", "head"}
  /\ users \in UserTables /\ orgs \in Nat
  /\ holder \in Instances \cup {None}
  /\ platforms \subseteq 1..DemoBranches
  /\ \A k \in DOMAIN demos : /\ demos[k].branches \in 1..DemoBranches \cup {0}
                             /\ demos[k].contracts \in {demos[k].branches, demos[k].branches - 1}
  /\ nboots \in 0..MaxBoots
  /\ slipped \in BOOLEAN /\ unseeded \in BOOLEAN /\ together \in BOOLEAN
  /\ spc \in [Instances -> Migrating \cup Seeding \cup
                {"down", "lock", "verify", "seed", "seed_insert", "demo", "serving"}]
  /\ sread \in [Instances -> {None, "0001", HeadRevision}]
  /\ sargs \in [Instances -> {"none", "existing", "missing_ok"}]
  /\ splan \in [Instances -> [assign : BOOLEAN, promote : BOOLEAN]]
  /\ sdemo \in [Instances -> 0..MaxBoots]
  /\ sbranch \in [Instances -> 0..DemoBranches]

\* The revision tells the schema that the tables have, whatever instances
\* migrate at once and wherever they die: a stamp never covers a schema that
\* diff_shapes tells from the baseline (a number's precision and the defaults
\* it does not compare), and never replaces a later revision.
SchemaKnown ==
  /\ rev = "0001" => shape = "baseline"
  /\ rev = HeadRevision <=> shape = "head"

\* A deploy that serves a database with users has not locked everybody out of
\* the operations that only an operator has.  Two ways around it are left: the
\* previous deploy registers the operator's email between the preflight and the
\* ALTER that needs it, or the insert of the seed fails, which is only logged.
NoLockout ==
  (\E i \in Instances : spc[i] = "serving") /\ users # <<>>
    => HasOperator \/ slipped \/ unseeded

\* The demo organization is created once, also when an instance dies while it
\* fills it (it then stays partial); two of them only come from instances that
\* were in the seed at the same time.
DemoOnce == Len(demos) > 1 => together
=============================================================================
