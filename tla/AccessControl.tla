---------------------------- MODULE AccessControl ----------------------------
(***************************************************************************)
(* Who may do what: bootstrap/access.py in front of every route, and the   *)
(* handlers that write the tables it decides from: IdentityAccessService,  *)
(* OrganizationService and bootstrap/create_operator.py.                   *)
(*                                                                         *)
(* A request is a worker with one database session.  enforce_policy reads  *)
(* the caller's session and user once (me); the identity map hands the     *)
(* same rows to the handler.  The scope is resolved by later statements    *)
(* and the handler commits later still, so that other requests, and the    *)
(* command line, may commit in between.                                    *)
(***************************************************************************)
EXTENDS Naturals, FiniteSets

CONSTANTS
  Workers,
  Users, Orgs, Branches, Analyses,   \* ids, those of rows to come included
  Passwords,
  InitUsers, InitOrgs, InitBranches, InitAnalyses,   \* the rows at the start
  RequestSet,    \* the requests clients send
  MaxCalls,      \* bound: requests, commands and ends of sessions
  None           \* SQL NULL

Operator == "PLATFORM_OPERATOR"
Roles == {"OWNER", "FINANCE_MANAGER", "ACCOUNTANT", "OPS_MANAGER", "AUDITOR", Operator}
UserRows == [role : Roles, org : Orgs \cup {None}, pwd : Passwords]

\* CHECK ck_users_operator_org.
OperatorHasNoOrg(row) == row.role = Operator <=> row.org = None

(***************************************************************************)
(* Requests.  A route stands for those with the same policy row whose      *)
(* handlers write the same table; fields a route does not use are None.    *)
(***************************************************************************)
Blank == [route |-> None, user |-> None, org |-> None, branch |-> None,
          analysis |-> None, role |-> None, pwd |-> None]

WRITERS == {"OWNER", "FINANCE_MANAGER", "ACCOUNTANT", "OPS_MANAGER"}
OWNER_ONLY == {"OWNER"}
CONTRACT_EDITORS == {"OWNER", "FINANCE_MANAGER"}

POLICIES ==
  [create_user         |-> [roles |-> OWNER_ONLY, resource |-> "NONE"],
   grant_branch_access |-> [roles |-> OWNER_ONLY, resource |-> "USER_GRANT"],
   change_password     |-> [roles |-> Roles,      resource |-> "NONE"],
   create_organization |-> [roles |-> {},         resource |-> "NONE"],
   create_branch       |-> [roles |-> OWNER_ONLY, resource |-> "ORG"],
   create_contract     |-> [roles |-> CONTRACT_EDITORS, resource |-> "BRANCH"],
   create_analysis     |-> [roles |-> WRITERS,    resource |-> "BRANCH"],
   write_analysis      |-> [roles |-> WRITERS,    resource |-> "ANALYSIS"]]
Routes == DOMAIN POLICIES

Requests == [route : Routes \cup {"login"}, user : Users \cup {None}, org : Orgs \cup {None},
             branch : Branches \cup {None}, analysis : Analyses \cup {None},
             role : Roles \cup {None}, pwd : Passwords \cup {None}]

ASSUME NoneAssumption ==
  /\ None \notin Users \cup Orgs \cup Branches \cup Analyses \cup Passwords \cup Roles
  /\ \A scope \in SUBSET Branches : scope # None
ASSUME DistinctAssumption == Branches \cap Analyses = {}   \* UUIDs
ASSUME CallsAssumption == MaxCalls \in Nat
\* What the routes' schemas and paths require of a request.
ASSUME RequestAssumption ==
  /\ RequestSet \subseteq Requests /\ Blank \notin Requests
  /\ \A r \in RequestSet :
       /\ r.route # "login"
       /\ r.route = "create_user" => r.user # None /\ r.role # None /\ r.pwd # None
       /\ r.route = "change_password" => r.user # None /\ r.pwd # None
ASSUME InitAssumption ==
  /\ InitOrgs \subseteq Orgs
  /\ DOMAIN InitUsers \subseteq Users
  /\ InitUsers \in [DOMAIN InitUsers -> UserRows]
  /\ \A u \in DOMAIN InitUsers : OperatorHasNoOrg(InitUsers[u])
  /\ DOMAIN InitBranches \subseteq Branches /\ InitBranches \in [DOMAIN InitBranches -> InitOrgs]
  /\ DOMAIN InitAnalyses \subseteq Analyses
  /\ InitAnalyses \in [DOMAIN InitAnalyses -> DOMAIN InitBranches]

VARIABLES
  users,       \* id -> row, on the rows that exist
  orgs,        \* organizations that exist
  branches,    \* id -> organization
  analyses,    \* id -> branch
  written,     \* branches whose contracts, or analyses whose rows, were written
  grants,      \* UserBranchAccess rows
  sessions,    \* Session rows, with the password that was checked for each
  ended,       \* those with revoked_at set or expires_at passed
  calls,       \* number of requests started and of single commits
  pc,          \* where each worker's request is
  req,         \* the request
  me,          \* AccessContext, and the password hash of the row it came from
  call,        \* its number
  target,      \* the row of the user it is about, when it was read
  revoking,    \* change_password: the sessions it selected
  met          \* ghost: a rival request has overlapped with it

tables == <<users, orgs, branches, analyses, written, grants, sessions, ended>>
locals == <<pc, req, me, call, target, revoking>>
vars == <<tables, calls, locals, met>>

Row(u) == [id |-> u, role |-> users[u].role, org |-> users[u].org, pwd |-> users[u].pwd]
Rows == [id : Users, role : Roles, org : Orgs \cup {None}, pwd : Passwords]
Extend(f, x, y) == [z \in DOMAIN f \cup {x} |-> IF z = x THEN y ELSE f[z]]

\* Everyone has signed in once.
Init ==
  /\ users = InitUsers /\ orgs = InitOrgs /\ branches = InitBranches /\ analyses = InitAnalyses
  /\ written = {} /\ grants = {} /\ ended = {} /\ calls = 0
  /\ sessions = {[user |-> u, pwd |-> InitUsers[u].pwd, call |-> 0, met |-> FALSE] :
                   u \in DOMAIN InitUsers}
  /\ pc = [w \in Workers |-> "idle"]
  /\ req = [w \in Workers |-> Blank]
  /\ me = [w \in Workers |-> None]
  /\ call = [w \in Workers |-> 0]
  /\ target = [w \in Workers |-> None]
  /\ revoking = [w \in Workers |-> {}]
  /\ met = [w \in Workers |-> FALSE]

(***************************************************************************)
(* ScopeResolver.                                                          *)
(***************************************************************************)
GrantsOf(u) == {g.branch : g \in {x \in grants : x.user = u}}

CanSeeBranch(ctx, b) ==
  /\ b \in DOMAIN branches
  /\ \/ ctx.role = Operator
     \/ /\ branches[b] = ctx.org
        /\ ctx.role = "OWNER" \/ b \in GrantsOf(ctx.id)

\* branch_scope: None stands for every branch of the organization being listed.
BranchScope(ctx) == IF ctx.role \in {Operator, "OWNER"} THEN None ELSE GrantsOf(ctx.id)

ListBranches(o, only) ==
  {b \in DOMAIN branches : branches[b] = o /\ (only = None \/ b \in only)}

EveryBranchForOwners(ctx) ==  \* mutant: the owner's query has no WHERE
  CASE ctx.role \in {Operator, "OWNER"} -> DOMAIN branches
    [] OTHER -> {b \in GrantsOf(ctx.id) \cap DOMAIN branches : branches[b] = ctx.org}
AccessibleBranchIds(ctx) ==
  CASE ctx.role = Operator -> DOMAIN branches
    [] ctx.role = "OWNER"  -> {b \in DOMAIN branches : branches[b] = ctx.org}
    [] OTHER -> {b \in GrantsOf(ctx.id) \cap DOMAIN branches : branches[b] = ctx.org}

CanSeeOrg(ctx, o) == ctx.role = Operator \/ o = ctx.org

\* /auth/me/branches, an inner join with the organizations, and /organizations.
MyBranches(ctx) == {b \in AccessibleBranchIds(ctx) : branches[b] \in orgs}
ListMyOrganizations(ctx) == {o \in orgs : ctx.role # Operator => o = ctx.org}

RoleAllowed(route, role) == role = Operator \/ role \in POLICIES[route].roles

\* The match on policy.resource in _enforce, for a request r of the caller ctx.
InScope(ctx, r) ==
  CASE POLICIES[r.route].resource = "NONE"     -> TRUE
    [] POLICIES[r.route].resource = "ANALYSIS" -> /\ r.analysis \in DOMAIN analyses
                                                  /\ CanSeeBranch(ctx, analyses[r.analysis])
    [] POLICIES[r.route].resource = "BRANCH"   -> CanSeeBranch(ctx, r.branch)
    [] POLICIES[r.route].resource = "ORG"      -> CanSeeOrg(ctx, r.org)
    [] OTHER ->   \* USER_GRANT
         /\ r.user \in DOMAIN users /\ r.branch \in DOMAIN branches
         /\ users[r.user].org = branches[r.branch]
         /\ CanSeeOrg(ctx, branches[r.branch])

(***************************************************************************)
(* Requests from arrival to answer.                                        *)
(***************************************************************************)
Rivals(r, q) ==
  /\ r.user = q.user
  /\ \/ r.route = "login" /\ q.route = "change_password"
     \/ r.route = "change_password" /\ q.route = "login"
     \/ r.route = "grant_branch_access" /\ q.route = r.route /\ q.branch = r.branch

Start(w, r, label) ==
  /\ pc[w] = "idle" /\ calls < MaxCalls
  /\ calls' = calls + 1
  /\ call' = [call EXCEPT ![w] = calls + 1]
  /\ pc' = [pc EXCEPT ![w] = label]
  /\ req' = [req EXCEPT ![w] = r]
  /\ met' = [v \in Workers |->
               IF v = w THEN \E u \in Workers \ {w} : pc[u] # "idle" /\ Rivals(r, req[u])
               ELSE met[v] \/ (pc[v] # "idle" /\ Rivals(r, req[v]))]

Goto(w, label) ==
  /\ pc' = [pc EXCEPT ![w] = label]
  /\ UNCHANGED <<calls, call, req, met>>

\* The session is closed, and with it what it had read.
Finish(w) ==
  /\ pc' = [pc EXCEPT ![w] = "idle"]
  /\ req' = [req EXCEPT ![w] = Blank]
  /\ me' = [me EXCEPT ![w] = None]
  /\ call' = [call EXCEPT ![w] = 0]
  /\ target' = [target EXCEPT ![w] = None]
  /\ revoking' = [revoking EXCEPT ![w] = {}]
  /\ met' = [met EXCEPT ![w] = FALSE]
  /\ UNCHANGED calls

\* A change made by one commit, outside the requests modelled in steps.
Once ==
  /\ calls < MaxCalls /\ calls' = calls + 1
  /\ UNCHANGED <<locals, met>>

\* A request is answered without a commit: refused, failed, or lost in a crash.
Refuse(w) ==
  /\ pc[w] # "idle"
  /\ Finish(w)
  /\ UNCHANGED tables

\* authenticate: the row is read and the password checked...
BeginLogin(w, u, p) ==
  /\ u \in DOMAIN users /\ p = users[u].pwd
  /\ Start(w, [Blank EXCEPT !.route = "login", !.user = u, !.pwd = p], "login")
  /\ UNCHANGED <<tables, me, target, revoking>>

\* ...and the session inserted.
CommitLogin(w) ==
  /\ pc[w] = "login"
  /\ sessions' = sessions \cup {[user |-> req[w].user, pwd |-> req[w].pwd,
                                 call |-> call[w], met |-> met[w]]}
  /\ Finish(w)
  /\ UNCHANGED <<users, orgs, branches, analyses, written, grants, ended>>

\* revoke_session, or the end of the session's lifetime.
EndSession(s) ==
  /\ s \in sessions \ ended
  /\ ended' = ended \cup {s}
  /\ UNCHANGED <<users, orgs, branches, analyses, written, grants, sessions>> /\ Once

\* _enforce up to the role check, with the session s.
Authenticate(w, s, r) ==
  /\ s \in sessions \ ended
  /\ RoleAllowed(r.route, users[s.user].role)
  /\ Start(w, r, "scope")
  /\ me' = [me EXCEPT ![w] = Row(s.user)]
  /\ UNCHANGED <<tables, target, revoking>>

\* The scope is resolved; USER_GRANT leaves the user's row in the identity map.
Admit(w) ==
  /\ pc[w] = "scope" /\ InScope(me[w], req[w])
  /\ target' = [target EXCEPT ![w] = IF req[w].route = "grant_branch_access"
                                     THEN Row(req[w].user) ELSE None]
  /\ Goto(w, "handle")
  /\ UNCHANGED <<tables, me, revoking>>

Handling(w, route) == pc[w] = "handle" /\ req[w].route = route

(***************************************************************************)
(* Handlers.                                                               *)
(***************************************************************************)
\* _resolve_creation_org; None stands for its refusals.
CreationOrg(ctx, requested) ==
  LET o == IF ctx.role = "OWNER" /\ requested = None THEN ctx.org ELSE requested
  IN  IF o \in orgs /\ (ctx.role = Operator \/ (ctx.role = "OWNER" /\ o = ctx.org))
      THEN o ELSE None

\* create_user; the email is unique, so a user that exists is never overwritten.
CreateUser(w) ==
  /\ Handling(w, "create_user")
  /\ LET r == req[w]
         o == CreationOrg(me[w], r.org)
     IN  /\ r.role # Operator /\ o # None /\ r.user \notin DOMAIN users
         /\ users' = Extend(users, r.user, [role |-> r.role, org |-> o, pwd |-> r.pwd])
  /\ Finish(w)
  /\ UNCHANGED <<orgs, branches, analyses, written, grants, sessions, ended>>

MayResetAnyone(ctx, t) ==  \* mutant: an owner's reset is not bounded by organization
  ctx.role \in {Operator, "OWNER"} \/ t.id = ctx.id
MayReset(ctx, t) ==
  \/ t.id = ctx.id
  \/ ctx.role = Operator
  \/ ctx.role = "OWNER" /\ t.role # Operator /\ t.org = ctx.org

\* change_password: the target's row is read (one's own is the row of the
\* authentication) and the caller's authority checked...
ReadTarget(w) ==
  /\ Handling(w, "change_password")
  /\ req[w].user \in DOMAIN users
  /\ LET t == IF req[w].user = me[w].id THEN me[w] ELSE Row(req[w].user)
     IN  /\ MayReset(me[w], t) /\ req[w].pwd # t.pwd
         /\ target' = [target EXCEPT ![w] = t]
  /\ Goto(w, "select")
  /\ UNCHANGED <<tables, me, revoking>>

SelectNoSession(w) ==  \* mutant: the sessions are left alone
  /\ pc[w] = "select"
  /\ revoking' = [revoking EXCEPT ![w] = {}]
  /\ Goto(w, "change")
  /\ UNCHANGED <<tables, me, target>>
\* ...its sessions selected...
SelectSessions(w) ==
  /\ pc[w] = "select"
  /\ revoking' = [revoking EXCEPT ![w] = {s \in sessions \ ended : s.user = req[w].user}]
  /\ Goto(w, "change")
  /\ UNCHANGED <<tables, me, target>>

\* ...and both updates committed, by primary key.
CommitChange(w) ==
  /\ pc[w] = "change"
  /\ users' = [users EXCEPT ![req[w].user].pwd = req[w].pwd]
  /\ ended' = ended \cup revoking[w]
  /\ Finish(w)
  /\ UNCHANGED <<orgs, branches, analyses, written, grants, sessions>>

RowsFor(u, b) == {g \in grants : g.user = u /\ g.branch = b}

CheckNoGrant(w) ==  \* mutant: granted without looking
  /\ Handling(w, "grant_branch_access")
  /\ target[w].role # Operator /\ branches[req[w].branch] = target[w].org
  /\ Goto(w, "grant")
  /\ UNCHANGED <<tables, me, target, revoking>>
\* grant_branch_access: refused for an operator or another organization's
\* branch; nothing to do if there is a row; two rows are an error for good.
CheckGrant(w) ==
  /\ Handling(w, "grant_branch_access")
  /\ target[w].role # Operator /\ branches[req[w].branch] = target[w].org
  /\ RowsFor(req[w].user, req[w].branch) = {}
  /\ Goto(w, "grant")
  /\ UNCHANGED <<tables, me, target, revoking>>

CommitGrant(w) ==
  /\ pc[w] = "grant"
  /\ grants' = grants \cup {[user |-> req[w].user, branch |-> req[w].branch,
                             call |-> call[w], met |-> met[w]]}
  /\ Finish(w)
  /\ UNCHANGED <<users, orgs, branches, analyses, written, sessions, ended>>

CreateOrganization(w) ==
  /\ Handling(w, "create_organization")
  /\ req[w].org \in Orgs \ orgs
  /\ orgs' = orgs \cup {req[w].org}
  /\ Finish(w)
  /\ UNCHANGED <<users, branches, analyses, written, grants, sessions, ended>>

CreateBranch(w) ==
  /\ Handling(w, "create_branch")
  /\ req[w].org \in orgs /\ req[w].branch \in Branches \ DOMAIN branches
  /\ branches' = Extend(branches, req[w].branch, req[w].org)
  /\ Finish(w)
  /\ UNCHANGED <<users, orgs, analyses, written, grants, sessions, ended>>

CreateAnalysis(w) ==
  /\ Handling(w, "create_analysis")
  /\ req[w].analysis \in Analyses \ DOMAIN analyses
  /\ analyses' = Extend(analyses, req[w].analysis, req[w].branch)
  /\ Finish(w)
  /\ UNCHANGED <<users, orgs, branches, written, grants, sessions, ended>>

\* The rows of an analysis, or the contracts of a branch, are written.
WriteRows(w) ==
  /\ \/ Handling(w, "write_analysis") /\ written' = written \cup {req[w].analysis}
     \/ Handling(w, "create_contract") /\ written' = written \cup {req[w].branch}
  /\ Finish(w)
  /\ UNCHANGED <<users, orgs, branches, analyses, grants, sessions, ended>>

(***************************************************************************)
(* The command line and the start-up seed: trusted, one commit each.       *)
(***************************************************************************)
CreateOperator(u, p) ==
  /\ u \in Users \ DOMAIN users
  /\ users' = Extend(users, u, [role |-> Operator, org |-> None, pwd |-> p])
  /\ UNCHANGED <<orgs, branches, analyses, written, grants, sessions, ended>> /\ Once

PromoteAttached(u) ==  \* mutant: a promoted user stays in the organization
  /\ u \in DOMAIN users /\ users[u].role # Operator
  /\ users' = [users EXCEPT ![u].role = Operator]
  /\ UNCHANGED <<orgs, branches, analyses, written, grants, sessions, ended>> /\ Once
PromoteExisting(u) ==
  /\ u \in DOMAIN users /\ users[u].role # Operator
  /\ users' = [users EXCEPT ![u] = [role |-> Operator, org |-> None, pwd |-> @.pwd]]
  /\ UNCHANGED <<orgs, branches, analyses, written, grants, sessions, ended>> /\ Once

Handle(w) ==
  \/ CreateUser(w) \/ ReadTarget(w) \/ SelectSessions(w) \/ CommitChange(w)
  \/ CheckGrant(w) \/ CommitGrant(w)
  \/ CreateOrganization(w) \/ CreateBranch(w) \/ CreateAnalysis(w) \/ WriteRows(w)

Next ==
  \/ \E w \in Workers, u \in Users, p \in Passwords : BeginLogin(w, u, p)
  \/ \E w \in Workers : CommitLogin(w)
  \/ \E s \in sessions : EndSession(s)
  \/ \E w \in Workers, s \in sessions, r \in RequestSet : Authenticate(w, s, r)
  \/ \E w \in Workers : Admit(w) \/ Handle(w) \/ Refuse(w)
  \/ \E u \in Users, p \in Passwords : CreateOperator(u, p)
  \/ \E u \in Users : PromoteExisting(u)

Spec == Init /\ [][Next]_vars

(***************************************************************************)
(* Properties                                                              *)
(***************************************************************************)
SessionRows == [user : Users, pwd : Passwords, call : 0..MaxCalls, met : BOOLEAN]
GrantRows == [user : Users, branch : Branches, call : 0..MaxCalls, met : BOOLEAN]

\* The tables hold rows of their columns' types, an operator and nobody else
\* is without an organization, and references lead to rows that exist.
AccessTypeOK ==
  /\ orgs \subseteq Orgs
  /\ DOMAIN users \subseteq Users /\ users \in [DOMAIN users -> UserRows]
  /\ \A u \in DOMAIN users : OperatorHasNoOrg(users[u])
  /\ DOMAIN branches \subseteq Branches /\ branches \in [DOMAIN branches -> orgs]
  /\ DOMAIN analyses \subseteq Analyses /\ analyses \in [DOMAIN analyses -> DOMAIN branches]
  /\ written \subseteq Analyses \cup Branches
  /\ grants \subseteq GrantRows /\ \A g \in grants : g.user \in DOMAIN users /\ g.branch \in DOMAIN branches
  /\ sessions \subseteq SessionRows /\ \A s \in sessions : s.user \in DOMAIN users
  /\ ended \subseteq sessions
  /\ calls \in 0..MaxCalls /\ call \in [Workers -> 0..MaxCalls]
  /\ pc \in [Workers -> {"idle", "login", "scope", "handle", "select", "change", "grant"}]
  /\ req \in [Workers -> Requests \cup {Blank}]
  /\ me \in [Workers -> Rows \cup {None}] /\ target \in [Workers -> Rows \cup {None}]
  /\ revoking \in [Workers -> SUBSET sessions]
  /\ met \in [Workers -> BOOLEAN]

\* The ways a scope is computed agree for every user, whatever was granted,
\* created or promoted: the branches of /auth/me/branches are those a request
\* is let through to, and the organizations of /organizations, listed branch by
\* branch, show exactly these.
ScopesAgree ==
  \A u \in DOMAIN users :
    LET visible == {b \in DOMAIN branches : CanSeeBranch(Row(u), b)}
        listed(o) == ListBranches(o, BranchScope(Row(u)))
    IN  /\ MyBranches(Row(u)) = visible
        /\ \A o \in ListMyOrganizations(Row(u)) : CanSeeOrg(Row(u), o)
        /\ visible = UNION {listed(o) : o \in ListMyOrganizations(Row(u))}

\* An old password stops working at once: a session that has not ended was
\* opened with the user's present password, unless the sign-in overlapped a
\* change of that password.
OldPasswordOut ==
  \A s \in sessions \ ended : s.met \/ s.pwd = users[s.user].pwd

\* A branch is granted to a user once; a second row takes two requests for
\* the same grant that overlap, and is an error of every later one.
OneGrant ==
  \A g, h \in grants : g.user = h.user /\ g.branch = h.branch /\ g # h => g.met /\ h.met

Foreign(w, o) == o \notin {me[w].org, None}

\* A request of a client user changes no row of another organization: no user
\* (an owner may not create one there, nor reset a password), no grant, branch,
\* analysis or anything below one.
OwnOrganizationOnly ==
  [][\A w \in Workers :
       pc[w] \notin {"idle", "login"} /\ pc'[w] = "idle" /\ me[w].role # Operator =>
         /\ \A u \in DOMAIN users' : Foreign(w, users'[u].org) =>
              u \in DOMAIN users /\ users'[u] = users[u]
         /\ \A u \in DOMAIN users' \ DOMAIN users : users'[u].role # Operator
         /\ \A g \in grants' \ grants : ~ Foreign(w, branches[g.branch]) /\ ~ Foreign(w, users[g.user].org)
         /\ \A b \in DOMAIN branches' \ DOMAIN branches : ~ Foreign(w, branches'[b])
         /\ \A a \in DOMAIN analyses' \ DOMAIN analyses : ~ Foreign(w, branches[analyses'[a]])
         /\ \A x \in written' \ written :
              ~ Foreign(w, branches[IF x \in Analyses THEN analyses[x] ELSE x])
    ]_vars
=============================================================================
