------------------------- MODULE AccessControlProofs -------------------------
(***************************************************************************)
(* Access control for any number of users, organizations, branches and     *)
(* overlapping requests.                                                   *)
(***************************************************************************)
EXTENDS AccessControl, TLAPS

Admitted == {"handle", "select", "change", "grant"}

\* A request in the handler of a route that names a user or a branch found it.
LabelInv ==
  \A w \in Workers :
    /\ pc[w] = "login" => /\ req[w].route = "login" /\ req[w].pwd \in Passwords
                          /\ req[w].user \in DOMAIN users
    /\ pc[w] \in Admitted \cup {"scope"} => req[w] \in RequestSet /\ me[w] \in Rows
    /\ pc[w] \in {"select", "change"} => /\ req[w].route = "change_password"
                                         /\ req[w].user \in DOMAIN users
    /\ pc[w] = "grant" => req[w].route = "grant_branch_access"

\* Two requests under way that could disturb each other have both noticed.
MetInv ==
  \A v, w \in Workers :
    v # w /\ pc[v] # "idle" /\ pc[w] # "idle" /\ Rivals(req[v], req[w]) => met[v] /\ met[w]

\* The password a sign-in checked is still the user's, and a change of password
\* has selected every live session, unless the two overlap.
PasswordInv ==
  \A w \in Workers :
    /\ pc[w] = "login" => met[w] \/ users[req[w].user].pwd = req[w].pwd
    /\ pc[w] = "change" => \A s \in sessions \ ended :
         s.user = req[w].user => s \in revoking[w] \/ s.met

\* A row granted since a request looked for it was granted by a rival.
GrantInv ==
  \A w \in Workers : pc[w] = "grant" =>
    \A g \in RowsFor(req[w].user, req[w].branch) : g.met /\ met[w]

\* What an admitted request of a client user is about is of that user's
\* organization, and stays there (a promotion takes a user out of it).
ScopeInv ==
  \A w \in Workers : pc[w] \in Admitted =>
    LET r == req[w]
        resource == POLICIES[r.route].resource
        Mine(o) == me[w].role # Operator => o = me[w].org
    IN  /\ resource = "ORG" => Mine(r.org)
        /\ resource \in {"BRANCH", "USER_GRANT"} => r.branch \in DOMAIN branches /\ Mine(branches[r.branch])
        /\ resource = "ANALYSIS" => r.analysis \in DOMAIN analyses /\ Mine(branches[analyses[r.analysis]])
        /\ resource = "USER_GRANT" => /\ r.user \in DOMAIN users
                                      /\ users[r.user].org \in {branches[r.branch], None}
        /\ pc[w] \in {"select", "change"} /\ me[w].role # Operator =>
             users[r.user].org \in {me[w].org, None}

OwnRowInv ==
  \A w \in Workers : pc[w] \in Admitted \cup {"scope"} =>
    me[w].id \in DOMAIN users /\ users[me[w].id].org \in {me[w].org, None}

IInv == /\ AccessTypeOK /\ LabelInv /\ MetInv /\ PasswordInv /\ GrantInv
        /\ OwnRowInv /\ ScopeInv /\ OldPasswordOut /\ OneGrant

USE NoneAssumption, CallsAssumption

(***************************************************************************)
(* The rows.                                                               *)
(***************************************************************************)
\* Row(u) is a row when u exists.
LEMMA RowType ==
  ASSUME AccessTypeOK, NEW u \in DOMAIN users
  PROVE  Row(u) \in Rows /\ Row(u).org = users[u].org /\ Row(u).id = u
BY DEF AccessTypeOK, Row, Rows, UserRows

LEMMA InitType == Init => AccessTypeOK
<1> SUFFICES ASSUME Init PROVE AccessTypeOK
  OBVIOUS
<1>1. ASSUME NEW s \in sessions PROVE s \in SessionRows /\ s.user \in DOMAIN users
  <2>1. PICK u \in DOMAIN InitUsers :
          s = [user |-> u, pwd |-> InitUsers[u].pwd, call |-> 0, met |-> FALSE]
    BY DEF Init
  <2>2. u \in Users /\ InitUsers[u].pwd \in Passwords
    BY InitAssumption DEF UserRows
  <2> QED
    BY <2>1, <2>2 DEF Init, SessionRows
<1> QED
  BY <1>1, InitAssumption DEF Init, AccessTypeOK

\* What a request needs of its worker's variables to leave them typed.
LEMMA FinishType ==
  ASSUME AccessTypeOK, NEW w \in Workers, Finish(w), sessions \subseteq sessions'
  PROVE  /\ calls' \in 0..MaxCalls /\ call' \in [Workers -> 0..MaxCalls]
         /\ pc' \in [Workers -> {"idle", "login", "scope", "handle", "select", "change", "grant"}]
         /\ req' \in [Workers -> Requests \cup {Blank}]
         /\ me' \in [Workers -> Rows \cup {None}] /\ target' \in [Workers -> Rows \cup {None}]
         /\ revoking' \in [Workers -> SUBSET sessions']
         /\ met' \in [Workers -> BOOLEAN]
<1>1. revoking' \in [Workers -> SUBSET sessions']
  BY DEF AccessTypeOK, Finish
<1> QED
  BY <1>1 DEF AccessTypeOK, Finish

LEMMA StartType ==
  ASSUME AccessTypeOK, NEW w \in Workers, NEW r \in Requests, NEW label \in {"login", "scope"},
         Start(w, r, label)
  PROVE  /\ calls' \in 0..MaxCalls /\ call' \in [Workers -> 0..MaxCalls]
         /\ pc' \in [Workers -> {"idle", "login", "scope", "handle", "select", "change", "grant"}]
         /\ req' \in [Workers -> Requests \cup {Blank}]
         /\ met' \in [Workers -> BOOLEAN]
<1>1. calls + 1 \in 0..MaxCalls
  BY DEF AccessTypeOK, Start
<1>2. \A v \in Workers : met'[v] \in BOOLEAN
  BY DEF AccessTypeOK, Start
<1>3. met' \in [Workers -> BOOLEAN]
  BY <1>2 DEF Start
<1> QED
  BY <1>1, <1>3 DEF AccessTypeOK, Start

\* No step of a handler leaves a row of the wrong type behind.
LEMMA HandleType ==
  ASSUME AccessTypeOK, LabelInv, ScopeInv, NEW w \in Workers, Handle(w)
  PROVE  AccessTypeOK'
<1> USE DEF Handling
<1>1. CASE CreateUser(w)
  <2> DEFINE r == req[w]
             row == [role |-> r.role, org |-> CreationOrg(me[w], r.org), pwd |-> r.pwd]
  <2>1. r \in RequestSet /\ r.user \notin DOMAIN users /\ r.role # Operator /\ row.org \in Orgs
    BY <1>1 DEF CreateUser, LabelInv, Admitted, CreationOrg, AccessTypeOK
  <2>2. r.user \in Users /\ r.role \in Roles /\ r.pwd \in Passwords
    BY <1>1, <2>1, RequestAssumption DEF CreateUser, Requests
  <2>3. row \in UserRows /\ OperatorHasNoOrg(row)
    BY <2>1, <2>2 DEF UserRows, OperatorHasNoOrg
  <2>4. users' = Extend(users, r.user, row)
    BY <1>1 DEF CreateUser
  <2>5. /\ DOMAIN users' = DOMAIN users \cup {r.user} /\ users'[r.user] = row
        /\ \A z \in DOMAIN users : users'[z] = users[z]
    BY <2>1, <2>4 DEF Extend
  <2>6. /\ users' \in [DOMAIN users' -> UserRows] /\ \A u \in DOMAIN users' : OperatorHasNoOrg(users'[u])
    BY <2>3, <2>4, <2>5 DEF AccessTypeOK, Extend
  <2> QED
    BY <1>1, <2>2, <2>5, <2>6, FinishType DEF CreateUser, AccessTypeOK
<1>2. CASE ReadTarget(w)
  <2>1. target' \in [Workers -> Rows \cup {None}]
    BY <1>2, RowType DEF ReadTarget, LabelInv, Admitted, AccessTypeOK
  <2> QED
    BY <1>2, <2>1 DEF ReadTarget, Goto, AccessTypeOK, tables
<1>3. CASE SelectSessions(w)
  BY <1>3 DEF SelectSessions, Goto, AccessTypeOK, tables
<1>4. CASE CommitChange(w)
  <2>1. req[w].user \in DOMAIN users /\ req[w].pwd \in Passwords
    BY <1>4, RequestAssumption DEF CommitChange, LabelInv, Admitted, Requests
  <2>2. /\ DOMAIN users' = DOMAIN users
        /\ users' \in [DOMAIN users -> UserRows]
        /\ \A u \in DOMAIN users : users'[u].role = users[u].role /\ users'[u].org = users[u].org
    BY <1>4, <2>1 DEF CommitChange, AccessTypeOK, UserRows
  <2>3. \A u \in DOMAIN users' : OperatorHasNoOrg(users'[u])
    BY <2>2 DEF AccessTypeOK, OperatorHasNoOrg
  <2>4. ended' \subseteq sessions'
    BY <1>4 DEF CommitChange, AccessTypeOK
  <2> QED
    BY <1>4, <2>2, <2>3, <2>4, FinishType DEF CommitChange, AccessTypeOK
<1>5. CASE CheckGrant(w)
  BY <1>5 DEF CheckGrant, Goto, AccessTypeOK, tables
<1>6. CASE CommitGrant(w)
  <2> DEFINE g == [user |-> req[w].user, branch |-> req[w].branch, call |-> call[w], met |-> met[w]]
  <2>1. POLICIES[req[w].route].resource = "USER_GRANT"
    BY <1>6 DEF CommitGrant, LabelInv, POLICIES
  <2>2. g.user \in DOMAIN users /\ g.branch \in DOMAIN branches
    BY <1>6, <2>1 DEF CommitGrant, ScopeInv, Admitted
  <2>3. g \in GrantRows
    BY <2>2 DEF GrantRows, AccessTypeOK
  <2> QED
    BY <1>6, <2>2, <2>3, FinishType DEF CommitGrant, AccessTypeOK
<1>7. CASE CreateOrganization(w)
  BY <1>7, FinishType DEF CreateOrganization, AccessTypeOK
<1>8. CASE CreateBranch(w)
  <2>1. /\ DOMAIN branches' = DOMAIN branches \cup {req[w].branch} /\ branches'[req[w].branch] = req[w].org
        /\ \A z \in DOMAIN branches : branches'[z] = branches[z]
    BY <1>8 DEF CreateBranch, Extend
  <2>2. DOMAIN branches' \subseteq Branches /\ branches' \in [DOMAIN branches' -> Orgs]
    BY <1>8, <2>1 DEF CreateBranch, AccessTypeOK, Extend
  <2> QED
    BY <1>8, <2>1, <2>2, FinishType DEF CreateBranch, AccessTypeOK
<1>9. CASE CreateAnalysis(w)
  <2>1. /\ DOMAIN analyses' = DOMAIN analyses \cup {req[w].analysis}
        /\ analyses'[req[w].analysis] = req[w].branch
        /\ \A z \in DOMAIN analyses : analyses'[z] = analyses[z]
    BY <1>9 DEF CreateAnalysis, Extend
  <2>2. req[w].branch \in DOMAIN branches
    <3>1. POLICIES[req[w].route].resource = "BRANCH"
      BY <1>9 DEF CreateAnalysis, POLICIES
    <3> QED
      BY <1>9, <3>1 DEF CreateAnalysis, ScopeInv, Admitted
  <2>3. DOMAIN analyses' \subseteq Analyses /\ analyses' \in [DOMAIN analyses' -> DOMAIN branches]
    BY <1>9, <2>1, <2>2 DEF CreateAnalysis, AccessTypeOK, Extend
  <2> QED
    BY <1>9, <2>3, FinishType DEF CreateAnalysis, AccessTypeOK
<1>10. CASE WriteRows(w)
  <2>1. req[w] \in RequestSet /\ POLICIES[req[w].route].resource \in {"ANALYSIS", "BRANCH"}
    BY <1>10 DEF WriteRows, LabelInv, Admitted, POLICIES
  <2>2. written' \subseteq Analyses \cup Branches
    <3>1. CASE req[w].route = "write_analysis"
      <4>1. POLICIES[req[w].route].resource = "ANALYSIS"
        BY <3>1 DEF POLICIES
      <4>2. req[w].analysis \in Analyses
        BY <1>10, <4>1 DEF WriteRows, ScopeInv, Admitted, AccessTypeOK
      <4> QED
        BY <1>10, <3>1, <4>2 DEF WriteRows, AccessTypeOK
    <3>2. CASE req[w].route = "create_contract"
      <4>1. POLICIES[req[w].route].resource = "BRANCH"
        BY <3>2 DEF POLICIES
      <4>2. req[w].branch \in Branches
        BY <1>10, <4>1 DEF WriteRows, ScopeInv, Admitted, AccessTypeOK
      <4> QED
        BY <1>10, <3>2, <4>2 DEF WriteRows, AccessTypeOK
    <3> QED
      BY <1>10, <3>1, <3>2 DEF WriteRows
  <2> QED
    BY <1>10, <2>2, FinishType DEF WriteRows, AccessTypeOK
<1> QED
  BY <1>1, <1>2, <1>3, <1>4, <1>5, <1>6, <1>7, <1>8, <1>9, <1>10 DEF Handle

LEMMA TypeStep ==
  ASSUME AccessTypeOK, LabelInv, ScopeInv, [Next]_vars
  PROVE  AccessTypeOK'
<1>1. ASSUME NEW w \in Workers, NEW u \in Users, NEW p \in Passwords, BeginLogin(w, u, p)
      PROVE  AccessTypeOK'
  <2> DEFINE r == [Blank EXCEPT !.route = "login", !.user = u, !.pwd = p]
  <2>1. r \in Requests
    BY DEF Blank, Requests
  <2>2. Start(w, r, "login")
    BY <1>1 DEF BeginLogin
  <2> QED
    BY <1>1, <2>1, <2>2, StartType DEF BeginLogin, AccessTypeOK, tables
<1>2. ASSUME NEW w \in Workers, CommitLogin(w) PROVE AccessTypeOK'
  <2> DEFINE s == [user |-> req[w].user, pwd |-> req[w].pwd, call |-> call[w], met |-> met[w]]
  <2>1. s \in SessionRows /\ s.user \in DOMAIN users
    BY <1>2 DEF CommitLogin, SessionRows, LabelInv, AccessTypeOK
  <2> QED
    BY <1>2, <2>1, FinishType DEF CommitLogin, AccessTypeOK
<1>3. ASSUME NEW s \in sessions, EndSession(s) PROVE AccessTypeOK'
  BY <1>3 DEF EndSession, Once, locals, AccessTypeOK
<1>4. ASSUME NEW w \in Workers, NEW s \in sessions, NEW r \in RequestSet, Authenticate(w, s, r)
      PROVE  AccessTypeOK'
  <2>1. Start(w, r, "scope") /\ r \in Requests
    BY <1>4, RequestAssumption DEF Authenticate
  <2>2. me' \in [Workers -> Rows \cup {None}]
    BY <1>4, RowType DEF Authenticate, AccessTypeOK
  <2> QED
    BY <1>4, <2>1, <2>2, StartType DEF Authenticate, AccessTypeOK, tables
<1>5. ASSUME NEW w \in Workers, Admit(w) PROVE AccessTypeOK'
  <2>1. req[w].route = "grant_branch_access" => req[w].user \in DOMAIN users
    <3>1. POLICIES["grant_branch_access"].resource = "USER_GRANT"
      BY DEF POLICIES
    <3> QED
      BY <1>5, <3>1 DEF Admit, InScope
  <2>2. target' \in [Workers -> Rows \cup {None}]
    BY <1>5, <2>1, RowType DEF Admit, AccessTypeOK
  <2> QED
    BY <1>5, <2>2 DEF Admit, Goto, AccessTypeOK, tables
<1>6. ASSUME NEW w \in Workers, Refuse(w) PROVE AccessTypeOK'
  BY <1>6, FinishType DEF Refuse, AccessTypeOK, tables
<1>7. ASSUME NEW u \in Users, NEW p \in Passwords, CreateOperator(u, p) PROVE AccessTypeOK'
  <2> DEFINE row == [role |-> Operator, org |-> None, pwd |-> p]
  <2>1. row \in UserRows /\ OperatorHasNoOrg(row)
    BY DEF UserRows, OperatorHasNoOrg, Roles
  <2>2. users' = Extend(users, u, row) /\ u \notin DOMAIN users
    BY <1>7 DEF CreateOperator
  <2>3. /\ DOMAIN users' = DOMAIN users \cup {u} /\ users'[u] = row
        /\ \A z \in DOMAIN users : users'[z] = users[z]
    BY <2>2 DEF Extend
  <2>4. users' \in [DOMAIN users' -> UserRows] /\ \A z \in DOMAIN users' : OperatorHasNoOrg(users'[z])
    BY <2>1, <2>2, <2>3 DEF AccessTypeOK, Extend
  <2> QED
    BY <1>7, <2>3, <2>4 DEF CreateOperator, Once, locals, AccessTypeOK
<1>8. ASSUME NEW u \in Users, PromoteExisting(u) PROVE AccessTypeOK'
  <2>1. /\ users' \in [DOMAIN users -> UserRows] /\ DOMAIN users' = DOMAIN users
        /\ users'[u].role = Operator /\ users'[u].org = None
        /\ \A z \in DOMAIN users \ {u} : users'[z] = users[z]
    BY <1>8 DEF PromoteExisting, AccessTypeOK, UserRows, Roles
  <2>2. \A z \in DOMAIN users' : OperatorHasNoOrg(users'[z])
    BY <2>1 DEF AccessTypeOK, OperatorHasNoOrg
  <2> QED
    BY <1>8, <2>1, <2>2 DEF PromoteExisting, Once, locals, AccessTypeOK
<1>9. CASE UNCHANGED vars
  BY <1>9 DEF vars, tables, locals, AccessTypeOK
<1> QED
  BY <1>1, <1>2, <1>3, <1>4, <1>5, <1>6, <1>7, <1>8, <1>9, HandleType DEF Next

(***************************************************************************)
(* What every step leaves alone.                                           *)
(***************************************************************************)
\* The worker a step belongs to, and the steps that belong to none.
Acts(w) ==
  \/ \E u \in Users, p \in Passwords : BeginLogin(w, u, p)
  \/ \E s \in sessions, r \in RequestSet : Authenticate(w, s, r)
  \/ CommitLogin(w) \/ Admit(w) \/ Handle(w) \/ Refuse(w)
Alone ==
  \/ \E s \in sessions : EndSession(s)
  \/ \E u \in Users, p \in Passwords : CreateOperator(u, p)
  \/ \E u \in Users : PromoteExisting(u)

LEMMA NextIs == Next => Alone \/ \E w \in Workers : Acts(w)
BY DEF Next, Acts, Alone

Same(w) == /\ pc'[w] = pc[w] /\ req'[w] = req[w] /\ me'[w] = me[w] /\ target'[w] = target[w]
           /\ revoking'[w] = revoking[w] /\ (met[w] => met'[w])

LEMMA OthersStay ==
  ASSUME AccessTypeOK, NEW w \in Workers, Acts(w), NEW v \in Workers, v # w
  PROVE  Same(v)
<1> USE DEF AccessTypeOK
<1>1. ASSUME NEW u \in Users, NEW p \in Passwords, BeginLogin(w, u, p) PROVE Same(v)
  BY <1>1 DEF BeginLogin, Start, Same
<1>2. ASSUME NEW s \in sessions, NEW r \in RequestSet, Authenticate(w, s, r) PROVE Same(v)
  BY <1>2 DEF Authenticate, Start, Same
<1>3. CASE CommitLogin(w) \/ Refuse(w)
  BY <1>3 DEF CommitLogin, Refuse, Finish, Same
<1>4. CASE Admit(w)
  BY <1>4 DEF Admit, Goto, Same
<1>5. CASE ReadTarget(w) \/ SelectSessions(w) \/ CheckGrant(w)
  BY <1>5 DEF ReadTarget, SelectSessions, CheckGrant, Goto, Same
<1>6. CASE CreateUser(w) \/ CommitChange(w) \/ CommitGrant(w) \/ CreateOrganization(w)
           \/ CreateBranch(w) \/ CreateAnalysis(w) \/ WriteRows(w)
  BY <1>6 DEF CreateUser, CommitChange, CommitGrant, CreateOrganization, CreateBranch,
              CreateAnalysis, WriteRows, Finish, Same
<1> QED
  BY <1>1, <1>2, <1>3, <1>4, <1>5, <1>6 DEF Acts, Handle

LEMMA AloneStays ==
  ASSUME Alone \/ UNCHANGED vars, NEW v \in Workers
  PROVE  Same(v)
BY DEF Alone, EndSession, CreateOperator, PromoteExisting, Once, locals, vars, tables, Same

\* Rows stay: a user's organization changes only to none, the organization of
\* a branch and the branch of an analysis never, and sessions are kept.
Kept ==
  /\ DOMAIN users \subseteq DOMAIN users' /\ sessions \subseteq sessions' /\ ended \subseteq ended'
  /\ \A u \in DOMAIN users : users'[u].org \in {users[u].org, None}
  /\ DOMAIN branches \subseteq DOMAIN branches'
  /\ \A b \in DOMAIN branches : branches'[b] = branches[b]
  /\ DOMAIN analyses \subseteq DOMAIN analyses'
  /\ \A a \in DOMAIN analyses : analyses'[a] = analyses[a]

LEMMA RowsStay ==
  ASSUME AccessTypeOK, [Next]_vars
  PROVE  Kept
<1>1. ASSUME NEW w \in Workers, CreateUser(w) PROVE Kept
  BY <1>1 DEF CreateUser, Extend, Kept
<1>2. ASSUME NEW w \in Workers, CommitChange(w) PROVE Kept
  BY <1>2 DEF CommitChange, Kept, AccessTypeOK, UserRows
<1>3. ASSUME NEW w \in Workers, CreateBranch(w) \/ CreateAnalysis(w) PROVE Kept
  BY <1>3 DEF CreateBranch, CreateAnalysis, Extend, Kept
<1>4. ASSUME NEW u \in Users, NEW p \in Passwords, CreateOperator(u, p) PROVE Kept
  BY <1>4 DEF CreateOperator, Extend, Kept
<1>5. ASSUME NEW u \in Users, PromoteExisting(u) PROVE Kept
  BY <1>5 DEF PromoteExisting, Kept, AccessTypeOK, UserRows
<1>6. ASSUME NEW w \in Workers, Acts(w),
             ~ (CreateUser(w) \/ CommitChange(w) \/ CreateBranch(w) \/ CreateAnalysis(w))
      PROVE  Kept
  BY <1>6 DEF Acts, Handle, BeginLogin, CommitLogin, Authenticate, Admit, Refuse, ReadTarget,
              SelectSessions, CheckGrant, CommitGrant, CreateOrganization, WriteRows, tables, Kept
<1>7. ASSUME NEW s \in sessions, EndSession(s) PROVE Kept
  BY <1>7 DEF EndSession, Kept
<1>8. CASE UNCHANGED vars
  BY <1>8 DEF vars, tables, Kept
<1> QED
  BY <1>1, <1>2, <1>3, <1>4, <1>5, <1>6, <1>7, <1>8, NextIs DEF Alone

LEMMA LabelStep ==
  ASSUME AccessTypeOK, LabelInv, [Next]_vars
  PROVE  LabelInv'
<1> DEFINE L(w) ==
      /\ pc[w] = "login" => /\ req[w].route = "login" /\ req[w].pwd \in Passwords
                            /\ req[w].user \in DOMAIN users
      /\ pc[w] \in Admitted \cup {"scope"} => req[w] \in RequestSet /\ me[w] \in Rows
      /\ pc[w] \in {"select", "change"} => /\ req[w].route = "change_password"
                                           /\ req[w].user \in DOMAIN users
      /\ pc[w] = "grant" => req[w].route = "grant_branch_access"
<1>1. Kept
  BY RowsStay
<1>2. ASSUME NEW v \in Workers, Same(v) PROVE L(v)'
  BY <1>1, <1>2 DEF Same, LabelInv, Kept
<1>3. ASSUME NEW w \in Workers, Acts(w) PROVE L(w)'
  <2>1. ASSUME NEW u \in Users, NEW p \in Passwords, BeginLogin(w, u, p) PROVE L(w)'
    BY <2>1 DEF BeginLogin, Start, Blank, AccessTypeOK, tables, Admitted
  <2>2. ASSUME NEW s \in sessions, NEW r \in RequestSet, Authenticate(w, s, r) PROVE L(w)'
    <3>1. Row(s.user) \in Rows
      BY RowType DEF AccessTypeOK
    <3> QED
      BY <2>2, <3>1 DEF Authenticate, Start, AccessTypeOK, Admitted
  <2>3. CASE pc'[w] = "idle"
    BY <2>3 DEF Admitted
  <2>4. CASE Admit(w)
    BY <2>4 DEF Admit, Goto, LabelInv, AccessTypeOK, Admitted
  <2>5. CASE ReadTarget(w)
    BY <2>5 DEF ReadTarget, Handling, Goto, LabelInv, AccessTypeOK, Admitted, tables
  <2>6. CASE SelectSessions(w)
    BY <2>6 DEF SelectSessions, Goto, LabelInv, AccessTypeOK, Admitted, tables
  <2>7. CASE CheckGrant(w)
    BY <2>7 DEF CheckGrant, Handling, Goto, LabelInv, AccessTypeOK, Admitted
  <2>8. Finish(w) => pc'[w] = "idle"
    BY DEF Finish, AccessTypeOK
  <2> QED
    BY <1>3, <2>1, <2>2, <2>3, <2>4, <2>5, <2>6, <2>7, <2>8
       DEF Acts, Handle, CommitLogin, Refuse, CreateUser, CommitChange, CommitGrant,
           CreateOrganization, CreateBranch, CreateAnalysis, WriteRows
<1>4. \A v \in Workers : L(v)'
  BY <1>2, <1>3, NextIs, AloneStays, OthersStay
<1> QED
  BY <1>4 DEF LabelInv

(***************************************************************************)
(* Requests that overlap.                                                  *)
(***************************************************************************)
LEMMA RivalsSymmetric == \A r, q : Rivals(r, q) <=> Rivals(q, r)
BY DEF Rivals

\* A request that starts is noticed by its rivals, and notices them.
LEMMA StartMeets ==
  ASSUME AccessTypeOK, NEW w \in Workers, NEW r, NEW label, Start(w, r, label),
         NEW v \in Workers, v # w, pc[v] # "idle", Rivals(r, req[v])
  PROVE  met'[v] /\ met'[w]
BY DEF Start

LEMMA MetStep ==
  ASSUME AccessTypeOK, MetInv, [Next]_vars
  PROVE  MetInv'
<1> DEFINE M(v, w) ==
      v # w /\ pc[v] # "idle" /\ pc[w] # "idle" /\ Rivals(req[v], req[w]) => met[v] /\ met[w]
<1>1. ASSUME NEW v \in Workers, NEW w \in Workers, Same(v), Same(w) PROVE M(v, w)'
  BY <1>1 DEF Same, MetInv, Rivals
<1>2. ASSUME NEW w \in Workers, Acts(w), NEW v \in Workers PROVE M(v, w)' /\ M(w, v)'
  <2>1. ASSUME NEW r, NEW label, Start(w, r, label), v # w, pc'[v] # "idle", Rivals(r, req'[v])
        PROVE  met'[v] /\ met'[w]
    BY <1>2, <2>1, OthersStay, StartMeets DEF Same
  <2>2. ASSUME NEW r, NEW label, Start(w, r, label) PROVE M(v, w)' /\ M(w, v)'
    <3>1. req'[w] = r
      BY <2>2 DEF Start, AccessTypeOK
    <3> QED
      BY <2>1, <2>2, <3>1, RivalsSymmetric
  <2>3. CASE pc'[w] = "idle"
    BY <2>3
  <2>4. CASE pc[w] # "idle" /\ pc'[w] # "idle" /\ UNCHANGED <<req, met>>
    <3>1. v # w => Same(v)
      BY <1>2, OthersStay
    <3> QED
      BY <2>4, <3>1 DEF Same, MetInv, Rivals
  <2>5. Finish(w) => pc'[w] = "idle"
    BY DEF Finish, AccessTypeOK
  <2>6. Admit(w) \/ ReadTarget(w) \/ SelectSessions(w) \/ CheckGrant(w)
          => pc[w] # "idle" /\ pc'[w] # "idle" /\ UNCHANGED <<req, met>>
    BY DEF Admit, ReadTarget, SelectSessions, CheckGrant, Handling, Goto, AccessTypeOK
  <2> QED
    BY <1>2, <2>2, <2>3, <2>4, <2>5, <2>6
       DEF Acts, Handle, BeginLogin, Authenticate, CommitLogin, Refuse, CreateUser, CommitChange,
           CommitGrant, CreateOrganization, CreateBranch, CreateAnalysis, WriteRows
<1>3. \A v, w \in Workers : M(v, w)'
  BY <1>1, <1>2, NextIs, AloneStays, OthersStay
<1> QED
  BY <1>3 DEF MetInv

\* A sign-in and a change of the same user's password notice each other.
LEMMA SignInMeetsChange ==
  ASSUME MetInv, LabelInv, NEW v \in Workers, NEW w \in Workers,
         pc[v] = "login", pc[w] \in {"select", "change"}, req[v].user = req[w].user
  PROVE  met[v] /\ met[w]
BY DEF MetInv, LabelInv, Rivals

\* The only step that changes the password of a user who is there.
LEMMA OnlyChanges ==
  ASSUME AccessTypeOK, [Next]_vars, NEW u \in DOMAIN users, users'[u].pwd # users[u].pwd
  PROVE  \E w \in Workers : CommitChange(w) /\ u = req[w].user
<1>1. ASSUME NEW w \in Workers, CreateUser(w) PROVE FALSE
  BY <1>1 DEF CreateUser, Extend
<1>2. ASSUME NEW x \in Users, NEW p \in Passwords, CreateOperator(x, p) PROVE FALSE
  BY <1>2 DEF CreateOperator, Extend
<1>3. ASSUME NEW x \in Users, PromoteExisting(x) PROVE FALSE
  BY <1>3 DEF PromoteExisting, AccessTypeOK
<1>4. ASSUME NEW w \in Workers, CommitChange(w) PROVE u = req[w].user
  BY <1>4 DEF CommitChange, AccessTypeOK
<1>5. ASSUME NEW w \in Workers, Acts(w), ~ CreateUser(w), ~ CommitChange(w) PROVE users' = users
  BY <1>5 DEF Acts, Handle, BeginLogin, CommitLogin, Authenticate, Admit, Refuse, ReadTarget,
              SelectSessions, CheckGrant, CommitGrant, CreateOrganization, CreateBranch,
              CreateAnalysis, WriteRows, tables
<1>6. (\E s \in sessions : EndSession(s)) \/ UNCHANGED vars => users' = users
  BY DEF EndSession, vars, tables
<1> QED
  BY <1>1, <1>2, <1>3, <1>4, <1>5, <1>6, NextIs DEF Alone

\* The only step that opens a session, and it opens one.
LEMMA OnlyLogin ==
  ASSUME [Next]_vars, NEW s \in sessions' \ sessions
  PROVE  \E w \in Workers : CommitLogin(w) /\
           s = [user |-> req[w].user, pwd |-> req[w].pwd, call |-> call[w], met |-> met[w]]
<1>1. ASSUME NEW w \in Workers, Acts(w), ~ CommitLogin(w) PROVE sessions' = sessions
  BY <1>1 DEF Acts, Handle, BeginLogin, Authenticate, Admit, Refuse, CreateUser, ReadTarget,
              SelectSessions, CommitChange, CheckGrant, CommitGrant, CreateOrganization,
              CreateBranch, CreateAnalysis, WriteRows, tables
<1>2. Alone \/ UNCHANGED vars => sessions' = sessions
  BY DEF Alone, EndSession, CreateOperator, PromoteExisting, vars, tables
<1>3. ASSUME NEW w \in Workers, CommitLogin(w)
      PROVE  s = [user |-> req[w].user, pwd |-> req[w].pwd, call |-> call[w], met |-> met[w]]
  BY <1>3 DEF CommitLogin
<1> QED
  BY <1>1, <1>2, <1>3, NextIs

LEMMA PasswordStep ==
  ASSUME AccessTypeOK, LabelInv, MetInv, PasswordInv, OldPasswordOut, [Next]_vars
  PROVE  PasswordInv' /\ OldPasswordOut'
<1> DEFINE In(w) == pc[w] = "login" => met[w] \/ users[req[w].user].pwd = req[w].pwd
           Ch(w) == pc[w] = "change" => \A s \in sessions \ ended :
                      s.user = req[w].user => s \in revoking[w] \/ s.met
<1>1. Kept
  BY RowsStay
<1>2. ASSUME NEW v \in Workers, Same(v) PROVE In(v)'
  <2> SUFFICES ASSUME pc'[v] = "login", ~ met'[v]
               PROVE  users'[req[v].user].pwd = req[v].pwd
    BY <1>2 DEF Same
  <2>1. pc[v] = "login" /\ ~ met[v] /\ req[v].user \in DOMAIN users
    BY <1>2 DEF Same, LabelInv
  <2>2. \A w \in Workers : CommitChange(w) => req[w].user # req[v].user
    BY <2>1, SignInMeetsChange DEF CommitChange
  <2> QED
    BY <2>1, <2>2, OnlyChanges DEF PasswordInv
<1>3. ASSUME NEW v \in Workers, Same(v) PROVE Ch(v)'
  <2> SUFFICES ASSUME pc'[v] = "change", NEW s \in sessions' \ ended', s.user = req[v].user
               PROVE  s \in revoking[v] \/ s.met
    BY <1>3 DEF Same
  <2>1. pc[v] = "change"
    BY <1>3 DEF Same
  <2>2. CASE s \in sessions
    BY <1>1, <2>1, <2>2 DEF PasswordInv, Kept
  <2>3. CASE s \notin sessions
    <3>1. PICK w \in Workers : CommitLogin(w) /\
            s = [user |-> req[w].user, pwd |-> req[w].pwd, call |-> call[w], met |-> met[w]]
      BY <2>3, OnlyLogin
    <3>2. met[w]
      BY <2>1, <3>1, SignInMeetsChange DEF CommitLogin
    <3> QED
      BY <3>1, <3>2
  <2> QED
    BY <2>2, <2>3
<1>4. ASSUME NEW w \in Workers, Acts(w) PROVE In(w)' /\ Ch(w)'
  <2>1. ASSUME NEW u \in Users, NEW p \in Passwords, BeginLogin(w, u, p) PROVE In(w)' /\ Ch(w)'
    BY <2>1 DEF BeginLogin, Start, Blank, AccessTypeOK, tables
  <2>2. CASE SelectSessions(w)
    BY <2>2 DEF SelectSessions, Goto, AccessTypeOK, tables
  <2>3. CASE pc'[w] \notin {"login", "change"}
    BY <2>3
  <2>4. ASSUME NEW s \in sessions, NEW r \in RequestSet, Authenticate(w, s, r) PROVE pc'[w] = "scope"
    BY <2>4 DEF Authenticate, Start, AccessTypeOK
  <2>5. Admit(w) \/ ReadTarget(w) \/ CheckGrant(w) => pc'[w] \in {"handle", "select", "grant"}
    BY DEF Admit, ReadTarget, CheckGrant, Goto, AccessTypeOK
  <2>6. Finish(w) => pc'[w] = "idle"
    BY DEF Finish, AccessTypeOK
  <2> QED
    BY <1>4, <2>1, <2>2, <2>3, <2>4, <2>5, <2>6
       DEF Acts, Handle, CommitLogin, Refuse, CreateUser, CommitChange, CommitGrant,
           CreateOrganization, CreateBranch, CreateAnalysis, WriteRows
<1>5. PasswordInv'
  <2>1. \A v \in Workers : In(v)' /\ Ch(v)'
    BY <1>2, <1>3, <1>4, NextIs, AloneStays, OthersStay
  <2> QED
    BY <2>1 DEF PasswordInv
<1>6. ASSUME NEW s \in sessions' \ ended' PROVE s.met \/ s.pwd = users'[s.user].pwd
  <2>1. CASE s \notin sessions
    <3>1. PICK w \in Workers : CommitLogin(w) /\
            s = [user |-> req[w].user, pwd |-> req[w].pwd, call |-> call[w], met |-> met[w]]
      BY <2>1, OnlyLogin
    <3> QED
      BY <3>1 DEF CommitLogin, PasswordInv
  <2>2. CASE s \in sessions
    <3>1. s \in sessions \ ended /\ s.user \in DOMAIN users
      BY <1>1, <2>2 DEF Kept, AccessTypeOK
    <3>2. CASE users'[s.user].pwd = users[s.user].pwd
      BY <3>1, <3>2 DEF OldPasswordOut
    <3>3. CASE users'[s.user].pwd # users[s.user].pwd
      <4>1. PICK w \in Workers : CommitChange(w) /\ s.user = req[w].user
        BY <3>1, <3>3, OnlyChanges
      <4>2. s \notin revoking[w]
        BY <1>6, <4>1 DEF CommitChange
      <4> QED
        BY <3>1, <4>1, <4>2 DEF CommitChange, PasswordInv
    <3> QED
      BY <3>2, <3>3
  <2> QED
    BY <2>1, <2>2
<1> QED
  BY <1>5, <1>6 DEF OldPasswordOut

(***************************************************************************)
(* Grants.                                                                 *)
(***************************************************************************)
LEMMA OnlyGrant ==
  ASSUME [Next]_vars, NEW g \in grants' \ grants
  PROVE  \E w \in Workers : CommitGrant(w) /\
           g = [user |-> req[w].user, branch |-> req[w].branch, call |-> call[w], met |-> met[w]]
<1>1. ASSUME NEW w \in Workers, Acts(w), ~ CommitGrant(w) PROVE grants' = grants
  BY <1>1 DEF Acts, Handle, BeginLogin, CommitLogin, Authenticate, Admit, Refuse, CreateUser,
              ReadTarget, SelectSessions, CommitChange, CheckGrant, CreateOrganization,
              CreateBranch, CreateAnalysis, WriteRows, tables
<1>2. Alone \/ UNCHANGED vars => grants' = grants
  BY DEF Alone, EndSession, CreateOperator, PromoteExisting, vars, tables
<1>3. ASSUME NEW w \in Workers, CommitGrant(w)
      PROVE  g = [user |-> req[w].user, branch |-> req[w].branch, call |-> call[w], met |-> met[w]]
  BY <1>3 DEF CommitGrant
<1> QED
  BY <1>1, <1>2, <1>3, NextIs

LEMMA GrantStep ==
  ASSUME AccessTypeOK, LabelInv, MetInv, GrantInv, OneGrant, [Next]_vars
  PROVE  GrantInv' /\ OneGrant'
<1> DEFINE G(w) == pc[w] = "grant" =>
             \A g \in RowsFor(req[w].user, req[w].branch) : g.met /\ met[w]
<1>1. grants \subseteq grants'
  BY OnlyGrant DEF Next, CommitGrant, vars, tables, BeginLogin, CommitLogin, EndSession, Authenticate,
     Admit, Refuse, Handle, CreateUser, ReadTarget, SelectSessions, CommitChange, CheckGrant,
     CreateOrganization, CreateBranch, CreateAnalysis, WriteRows, CreateOperator, PromoteExisting
<1>2. ASSUME NEW v \in Workers, Same(v) PROVE G(v)'
  <2> SUFFICES ASSUME pc'[v] = "grant", NEW g \in grants', g.user = req[v].user, g.branch = req[v].branch
               PROVE  g.met /\ met'[v]
    BY <1>2 DEF Same, RowsFor
  <2>1. pc[v] = "grant" /\ (met[v] => met'[v])
    BY <1>2 DEF Same
  <2>2. CASE g \in grants
    BY <2>1, <2>2 DEF GrantInv, RowsFor
  <2>3. CASE g \notin grants
    <3>1. PICK w \in Workers : CommitGrant(w) /\
            g = [user |-> req[w].user, branch |-> req[w].branch, call |-> call[w], met |-> met[w]]
      BY <2>3, OnlyGrant
    <3>2. v # w
      BY <1>2, <2>1, <3>1 DEF CommitGrant, Finish, Same, AccessTypeOK
    <3>3. Rivals(req[v], req[w])
      BY <2>1, <3>1 DEF LabelInv, Rivals, CommitGrant
    <3> QED
      BY <2>1, <3>1, <3>2, <3>3 DEF MetInv, CommitGrant
  <2> QED
    BY <2>2, <2>3
<1>3. ASSUME NEW w \in Workers, Acts(w) PROVE G(w)'
  <2>1. CASE CheckGrant(w)
    BY <2>1 DEF CheckGrant, Goto, AccessTypeOK, RowsFor, tables
  <2>2. CASE pc'[w] # "grant"
    BY <2>2
  <2>3. ASSUME NEW u \in Users, NEW p \in Passwords, BeginLogin(w, u, p) PROVE pc'[w] = "login"
    BY <2>3 DEF BeginLogin, Start, AccessTypeOK
  <2>4. ASSUME NEW s \in sessions, NEW r \in RequestSet, Authenticate(w, s, r) PROVE pc'[w] = "scope"
    BY <2>4 DEF Authenticate, Start, AccessTypeOK
  <2>5. Admit(w) \/ ReadTarget(w) \/ SelectSessions(w) => pc'[w] \in {"handle", "select", "change"}
    BY DEF Admit, ReadTarget, SelectSessions, Goto, AccessTypeOK
  <2>6. Finish(w) => pc'[w] = "idle"
    BY DEF Finish, AccessTypeOK
  <2> QED
    BY <1>3, <2>1, <2>2, <2>3, <2>4, <2>5, <2>6
       DEF Acts, Handle, CommitLogin, Refuse, CreateUser, CommitChange, CommitGrant,
           CreateOrganization, CreateBranch, CreateAnalysis, WriteRows
<1>4. GrantInv'
  <2>1. \A v \in Workers : G(v)'
    BY <1>2, <1>3, NextIs, AloneStays, OthersStay
  <2> QED
    BY <2>1 DEF GrantInv
<1>5. ASSUME NEW g \in grants' \ grants, NEW h \in grants', g # h, g.user = h.user, g.branch = h.branch
      PROVE  g.met /\ h.met
  <2>1. PICK w \in Workers : CommitGrant(w) /\
          g = [user |-> req[w].user, branch |-> req[w].branch, call |-> call[w], met |-> met[w]]
    BY OnlyGrant
  <2>2. h \in RowsFor(req[w].user, req[w].branch)
    BY <1>5, <2>1 DEF CommitGrant, RowsFor
  <2> QED
    BY <2>1, <2>2 DEF GrantInv, CommitGrant
<1> QED
  BY <1>4, <1>5 DEF OneGrant

(***************************************************************************)
(* Scopes.                                                                 *)
(***************************************************************************)
\* The organization of the caller, who may have been promoted meanwhile.
LEMMA OwnRowStep ==
  ASSUME AccessTypeOK, OwnRowInv, [Next]_vars
  PROVE  OwnRowInv'
<1> DEFINE O(w) == pc[w] \in Admitted \cup {"scope"} =>
             me[w].id \in DOMAIN users /\ users[me[w].id].org \in {me[w].org, None}
<1>1. Kept
  BY RowsStay
<1>2. ASSUME NEW v \in Workers, Same(v) PROVE O(v)'
  BY <1>1, <1>2 DEF Same, OwnRowInv, Kept
<1>3. ASSUME NEW w \in Workers, Acts(w) PROVE O(w)'
  <2>1. ASSUME NEW u \in Users, NEW p \in Passwords, BeginLogin(w, u, p) PROVE pc'[w] = "login"
    BY <2>1 DEF BeginLogin, Start, AccessTypeOK
  <2>2. ASSUME NEW s \in sessions, NEW r \in RequestSet, Authenticate(w, s, r) PROVE O(w)'
    <3>1. s.user \in DOMAIN users /\ users' = users /\ me'[w] = Row(s.user)
      BY <2>2 DEF Authenticate, tables, AccessTypeOK
    <3> QED
      BY <3>1 DEF Row
  <2>3. CASE pc'[w] \in {"idle", "login"}
    BY <2>3 DEF Admitted
  <2>4. CASE Admit(w) \/ ReadTarget(w) \/ SelectSessions(w) \/ CheckGrant(w)
    BY <2>4 DEF Admit, ReadTarget, SelectSessions, CheckGrant, Handling, tables, OwnRowInv, Admitted
  <2>5. Finish(w) => pc'[w] = "idle"
    BY DEF Finish, AccessTypeOK
  <2> QED
    BY <1>3, <2>1, <2>2, <2>3, <2>4, <2>5
       DEF Acts, Handle, CommitLogin, Refuse, CreateUser, CommitChange, CommitGrant,
           CreateOrganization, CreateBranch, CreateAnalysis, WriteRows
<1>4. \A v \in Workers : O(v)'
  BY <1>2, <1>3, NextIs, AloneStays, OthersStay
<1> QED
  BY <1>4 DEF OwnRowInv

\* What _enforce let through is the caller's own.
LEMMA AdmitScope ==
  ASSUME AccessTypeOK, LabelInv, NEW w \in Workers, Admit(w)
  PROVE  LET r == req[w]
             resource == POLICIES[r.route].resource
             Mine(o) == me[w].role # Operator => o = me[w].org
         IN  /\ resource = "ORG" => Mine(r.org)
             /\ resource \in {"BRANCH", "USER_GRANT"} =>
                  r.branch \in DOMAIN branches /\ Mine(branches[r.branch])
             /\ resource = "ANALYSIS" =>
                  r.analysis \in DOMAIN analyses /\ Mine(branches[analyses[r.analysis]])
             /\ resource = "USER_GRANT" =>
                  r.user \in DOMAIN users /\ users[r.user].org \in {branches[r.branch], None}
<1>1. InScope(me[w], req[w]) /\ req[w] \in RequestSet
  BY DEF Admit, LabelInv
<1>2. POLICIES[req[w].route].resource \in {"NONE", "ANALYSIS", "BRANCH", "ORG", "USER_GRANT"}
  BY <1>1, RequestAssumption DEF Requests, Routes, POLICIES
<1> QED
  BY <1>1, <1>2 DEF InScope, CanSeeBranch, CanSeeOrg

LEMMA ScopeStep ==
  ASSUME AccessTypeOK, LabelInv, OwnRowInv, ScopeInv, [Next]_vars
  PROVE  ScopeInv'
<1> DEFINE Mine(w, o) == me[w].role # Operator => o = me[w].org
           Res(w) == POLICIES[req[w].route].resource
           S(w) == pc[w] \in Admitted =>
             /\ Res(w) = "ORG" => Mine(w, req[w].org)
             /\ Res(w) \in {"BRANCH", "USER_GRANT"} =>
                  req[w].branch \in DOMAIN branches /\ Mine(w, branches[req[w].branch])
             /\ Res(w) = "ANALYSIS" =>
                  req[w].analysis \in DOMAIN analyses /\ Mine(w, branches[analyses[req[w].analysis]])
             /\ Res(w) = "USER_GRANT" => /\ req[w].user \in DOMAIN users
                                         /\ users[req[w].user].org \in {branches[req[w].branch], None}
             /\ pc[w] \in {"select", "change"} /\ me[w].role # Operator =>
                  users[req[w].user].org \in {me[w].org, None}
<1>1. Kept
  BY RowsStay
<1>2. ASSUME NEW v \in Workers, Same(v) PROVE S(v)'
  <2> SUFFICES ASSUME pc'[v] \in Admitted PROVE S(v)'
    OBVIOUS
  <2>1. S(v) /\ pc[v] \in Admitted /\ \A a \in DOMAIN analyses : analyses[a] \in DOMAIN branches
    BY <1>2 DEF ScopeInv, Same, AccessTypeOK
  <2>2. pc[v] \in {"select", "change"} => req[v].user \in DOMAIN users
    BY DEF LabelInv
  <2> QED
    BY <1>1, <1>2, <2>1, <2>2 DEF Same, Kept
<1>3. ASSUME NEW w \in Workers, Acts(w) PROVE S(w)'
  <2>1. ASSUME NEW u \in Users, NEW p \in Passwords, BeginLogin(w, u, p) PROVE pc'[w] = "login"
    BY <2>1 DEF BeginLogin, Start, AccessTypeOK
  <2>2. ASSUME NEW s \in sessions, NEW r \in RequestSet, Authenticate(w, s, r) PROVE pc'[w] = "scope"
    BY <2>2 DEF Authenticate, Start, AccessTypeOK
  <2>3. CASE pc'[w] \in {"idle", "login", "scope"}
    BY <2>3 DEF Admitted
  <2>4. CASE Admit(w)
    <3>1. /\ pc'[w] = "handle" /\ UNCHANGED <<req, me, users, branches, analyses>>
      BY <2>4 DEF Admit, Goto, tables, AccessTypeOK
    <3> QED
      BY <2>4, <3>1, AdmitScope
  <2>5. CASE ReadTarget(w)
    <3>1. /\ pc'[w] = "select" /\ UNCHANGED <<req, me, users, branches, analyses>> /\ pc[w] = "handle"
      BY <2>5 DEF ReadTarget, Handling, Goto, tables, AccessTypeOK
    <3>2. me[w].role # Operator => users[req[w].user].org \in {me[w].org, None}
      BY <2>5, <3>1 DEF ReadTarget, MayReset, Row, OwnRowInv, Admitted
    <3>3. S(w)
      BY DEF ScopeInv
    <3> QED
      BY <3>1, <3>2, <3>3 DEF Admitted
  <2>6. CASE SelectSessions(w) \/ CheckGrant(w)
    <3>1. /\ pc'[w] \in {"change", "grant"} /\ (pc'[w] = "change" => pc[w] = "select")
          /\ pc[w] \in Admitted /\ UNCHANGED <<req, me, users, branches, analyses>>
      BY <2>6 DEF SelectSessions, CheckGrant, Handling, Goto, tables, AccessTypeOK, Admitted
    <3>2. S(w)
      BY DEF ScopeInv
    <3> QED
      BY <3>1, <3>2
  <2>7. Finish(w) => pc'[w] = "idle"
    BY DEF Finish, AccessTypeOK
  <2> QED
    BY <1>3, <2>1, <2>2, <2>3, <2>4, <2>5, <2>6, <2>7
       DEF Acts, Handle, CommitLogin, Refuse, CreateUser, CommitChange, CommitGrant,
           CreateOrganization, CreateBranch, CreateAnalysis, WriteRows
<1>4. \A v \in Workers : S(v)'
  BY <1>2, <1>3, NextIs, AloneStays, OthersStay
<1> QED
  BY <1>4 DEF ScopeInv

(***************************************************************************)
(* The theorems.                                                           *)
(***************************************************************************)
LEMMA InitHolds == Init => IInv
<1> SUFFICES ASSUME Init PROVE IInv
  OBVIOUS
<1>1. LabelInv /\ MetInv /\ PasswordInv /\ GrantInv /\ OwnRowInv /\ ScopeInv /\ OneGrant
  BY DEF Init, LabelInv, MetInv, PasswordInv, GrantInv, OwnRowInv, ScopeInv, OneGrant, Admitted
<1>2. OldPasswordOut
  BY DEF Init, OldPasswordOut
<1> QED
  BY <1>1, <1>2, InitType DEF IInv

LEMMA IInvInductive == IInv /\ [Next]_vars => IInv'
BY TypeStep, LabelStep, MetStep, PasswordStep, GrantStep, OwnRowStep, ScopeStep DEF IInv

THEOREM Inductive == Spec => []IInv
<1>1. Init => IInv
  BY InitHolds
<1>2. IInv /\ [Next]_vars => IInv'
  BY IInvInductive
<1> QED
  BY <1>1, <1>2, PTL DEF Spec

\* The tables and the requests' variables stay typed, references lead to rows,
\* and only an operator has no organization.
THEOREM TypeCorrect == Spec => []AccessTypeOK
<1>1. IInv => AccessTypeOK
  BY DEF IInv
<1> QED
  BY <1>1, Inductive, PTL

\* No session opened with a password that has been changed outlives the change,
\* for any number of sign-ins and resets, unless the two overlapped.
THEOREM PasswordsReplaced == Spec => []OldPasswordOut
<1>1. IInv => OldPasswordOut
  BY DEF IInv
<1> QED
  BY <1>1, Inductive, PTL

\* A branch is granted once, except by requests that overlap.
THEOREM GrantedOnce == Spec => []OneGrant
<1>1. IInv => OneGrant
  BY DEF IInv
<1> QED
  BY <1>1, Inductive, PTL

\* Every branch is listed with its organization, or by none of the routes.
LEMMA Listed ==
  ASSUME AccessTypeOK, NEW u \in DOMAIN users, NEW o \in orgs, CanSeeOrg(Row(u), o)
  PROVE  ListBranches(o, BranchScope(Row(u)))
           = {b \in DOMAIN branches : CanSeeBranch(Row(u), b) /\ branches[b] = o}
<1>1. CASE Row(u).role \in {Operator, "OWNER"}
  BY <1>1 DEF ListBranches, BranchScope, CanSeeBranch, CanSeeOrg
<1>2. CASE Row(u).role \notin {Operator, "OWNER"}
  <2>1. GrantsOf(u) \subseteq Branches
    BY DEF GrantsOf, AccessTypeOK, GrantRows
  <2>2. BranchScope(Row(u)) = GrantsOf(u) /\ GrantsOf(u) # None /\ Row(u).id = u
    BY <1>2, <2>1, RowType DEF BranchScope
  <2> QED
    BY <1>2, <2>2 DEF ListBranches, CanSeeBranch, CanSeeOrg
<1> QED
  BY <1>1, <1>2

\* The scopes of listings, of /auth/me/branches and of enforcement agree.
THEOREM ScopesAlwaysAgree == Spec => []ScopesAgree
<1>1. AccessTypeOK => ScopesAgree
  <2> SUFFICES ASSUME AccessTypeOK, NEW u \in DOMAIN users
               PROVE  LET visible == {b \in DOMAIN branches : CanSeeBranch(Row(u), b)}
                          listed(o) == ListBranches(o, BranchScope(Row(u)))
                      IN  /\ MyBranches(Row(u)) = visible
                          /\ \A o \in ListMyOrganizations(Row(u)) : CanSeeOrg(Row(u), o)
                          /\ visible = UNION {listed(o) : o \in ListMyOrganizations(Row(u))}
    BY DEF ScopesAgree
  <2> DEFINE visible == {b \in DOMAIN branches : CanSeeBranch(Row(u), b)}
             listed(o) == ListBranches(o, BranchScope(Row(u)))
  <2>1. AccessibleBranchIds(Row(u)) = visible
    <3>1. CASE Row(u).role = Operator
      BY <3>1 DEF AccessibleBranchIds, CanSeeBranch, Operator
    <3>2. CASE Row(u).role # Operator /\ Row(u).role = "OWNER"
      BY <3>2 DEF AccessibleBranchIds, CanSeeBranch, Operator
    <3>3. CASE Row(u).role # Operator /\ Row(u).role # "OWNER"
      BY <3>3 DEF AccessibleBranchIds, CanSeeBranch
    <3> QED
      BY <3>1, <3>2, <3>3
  <2>2. \A b \in DOMAIN branches : branches[b] \in orgs
    BY DEF AccessTypeOK
  <2>3. MyBranches(Row(u)) = visible
    BY <2>1, <2>2 DEF MyBranches
  <2>4. \A o \in ListMyOrganizations(Row(u)) : o \in orgs /\ CanSeeOrg(Row(u), o)
    BY DEF ListMyOrganizations, CanSeeOrg
  <2>5. \A b \in visible : branches[b] \in ListMyOrganizations(Row(u))
    BY <2>2 DEF CanSeeBranch, ListMyOrganizations
  <2>6. \A o \in ListMyOrganizations(Row(u)) : listed(o) = {b \in visible : branches[b] = o}
    BY <2>4, Listed
  <2>7. visible = UNION {listed(o) : o \in ListMyOrganizations(Row(u))}
    BY <2>5, <2>6
  <2> QED
    BY <2>3, <2>4, <2>7
<1> QED
  BY <1>1, TypeCorrect, PTL

\* Whatever overlaps with it, a commit of a client user's request changes no
\* row of another organization.
LEMMA OwnStep ==
  ASSUME IInv, [Next]_vars, NEW w \in Workers,
         pc[w] \notin {"idle", "login"}, pc'[w] = "idle", me[w].role # Operator
  PROVE  /\ \A u \in DOMAIN users' : Foreign(w, users'[u].org) =>
              u \in DOMAIN users /\ users'[u] = users[u]
         /\ \A u \in DOMAIN users' \ DOMAIN users : users'[u].role # Operator
         /\ \A g \in grants' \ grants : ~ Foreign(w, branches[g.branch]) /\ ~ Foreign(w, users[g.user].org)
         /\ \A b \in DOMAIN branches' \ DOMAIN branches : ~ Foreign(w, branches'[b])
         /\ \A a \in DOMAIN analyses' \ DOMAIN analyses : ~ Foreign(w, branches[analyses'[a]])
         /\ \A x \in written' \ written :
              ~ Foreign(w, branches[IF x \in Analyses THEN analyses[x] ELSE x])
<1> USE DEF Foreign
<1>1. Acts(w)
  BY NextIs, AloneStays, OthersStay DEF IInv, Same
<1>2. AccessTypeOK /\ me[w].role # Operator
  BY DEF IInv
<1>3. CASE CommitChange(w)
  <2>1. users[req[w].user].org \in {me[w].org, None}
    BY <1>3 DEF IInv, ScopeInv, CommitChange, Admitted
  <2>2. /\ DOMAIN users' = DOMAIN users /\ \A u \in DOMAIN users : u # req[w].user => users'[u] = users[u]
        /\ req[w].user \in DOMAIN users => users'[req[w].user].org = users[req[w].user].org
    BY <1>2, <1>3 DEF CommitChange, AccessTypeOK, UserRows
  <2> QED
    BY <1>3, <2>1, <2>2 DEF CommitChange
<1>4. CASE CreateUser(w)
  <2>1. CreationOrg(me[w], req[w].org) = me[w].org /\ req[w].role # Operator /\ req[w].user \notin DOMAIN users
    BY <1>2, <1>4 DEF CreateUser, CreationOrg
  <2> QED
    BY <1>4, <2>1 DEF CreateUser, Extend
<1>5. CASE CommitGrant(w)
  <2>1. POLICIES[req[w].route].resource = "USER_GRANT"
    BY <1>5 DEF CommitGrant, IInv, LabelInv, POLICIES
  <2>2. /\ users[req[w].user].org \in {branches[req[w].branch], None}
        /\ branches[req[w].branch] = me[w].org
    BY <1>2, <1>5, <2>1 DEF IInv, ScopeInv, CommitGrant, Admitted
  <2> QED
    BY <1>5, <2>2 DEF CommitGrant
<1>6. CASE CreateBranch(w)
  <2>1. POLICIES[req[w].route].resource = "ORG"
    BY <1>6 DEF CreateBranch, Handling, POLICIES
  <2>2. req[w].org = me[w].org
    BY <1>2, <1>6, <2>1 DEF IInv, ScopeInv, CreateBranch, Handling, Admitted
  <2> QED
    BY <1>6, <2>2 DEF CreateBranch, Extend
<1>7. CASE CreateAnalysis(w)
  <2>1. POLICIES[req[w].route].resource = "BRANCH"
    BY <1>7 DEF CreateAnalysis, Handling, POLICIES
  <2>2. branches[req[w].branch] = me[w].org
    BY <1>2, <1>7, <2>1 DEF IInv, ScopeInv, CreateAnalysis, Handling, Admitted
  <2> QED
    BY <1>7, <2>2 DEF CreateAnalysis, Extend
<1>8. CASE WriteRows(w)
  <2>1. CASE Handling(w, "write_analysis")
    <3>1. POLICIES[req[w].route].resource = "ANALYSIS"
      BY <2>1 DEF Handling, POLICIES
    <3>2. req[w].analysis \in Analyses /\ branches[analyses[req[w].analysis]] = me[w].org
      BY <1>2, <2>1, <3>1 DEF IInv, ScopeInv, Handling, Admitted, AccessTypeOK
    <3> QED
      BY <1>8, <2>1, <3>2 DEF WriteRows, Handling
  <2>2. CASE Handling(w, "create_contract")
    <3>1. POLICIES[req[w].route].resource = "BRANCH"
      BY <2>2 DEF Handling, POLICIES
    <3>2. req[w].branch \in DOMAIN branches /\ branches[req[w].branch] = me[w].org
      BY <1>2, <2>2, <3>1 DEF IInv, ScopeInv, Handling, Admitted
    <3>3. req[w].branch \notin Analyses
      BY <1>2, <3>2, DistinctAssumption DEF AccessTypeOK
    <3> QED
      BY <1>8, <2>2, <3>2, <3>3 DEF WriteRows, Handling
  <2> QED
    BY <1>8, <2>1, <2>2 DEF WriteRows
<1>9. CASE CreateOrganization(w) \/ Refuse(w)
  BY <1>9 DEF CreateOrganization, Refuse, tables
<1>10. ASSUME NEW u \in Users, NEW p \in Passwords, BeginLogin(w, u, p) PROVE FALSE
  BY <1>10 DEF BeginLogin, Start
<1>11. ASSUME NEW s \in sessions, NEW r \in RequestSet, Authenticate(w, s, r) PROVE FALSE
  BY <1>11 DEF Authenticate, Start
<1>12. ~ CommitLogin(w)
  BY DEF CommitLogin
<1>13. ~ (Admit(w) \/ ReadTarget(w) \/ SelectSessions(w) \/ CheckGrant(w))
  BY <1>2 DEF Admit, ReadTarget, SelectSessions, CheckGrant, Goto, AccessTypeOK
<1> QED
  BY <1>1, <1>3, <1>4, <1>5, <1>6, <1>7, <1>8, <1>9, <1>10, <1>11, <1>12, <1>13 DEF Acts, Handle

THEOREM OrganizationsIsolated == Spec => OwnOrganizationOnly
<1>1. IInv /\ [Next]_vars =>
        [\A w \in Workers :
           pc[w] \notin {"idle", "login"} /\ pc'[w] = "idle" /\ me[w].role # Operator =>
             /\ \A u \in DOMAIN users' : Foreign(w, users'[u].org) =>
                  u \in DOMAIN users /\ users'[u] = users[u]
             /\ \A u \in DOMAIN users' \ DOMAIN users : users'[u].role # Operator
             /\ \A g \in grants' \ grants : ~ Foreign(w, branches[g.branch]) /\ ~ Foreign(w, users[g.user].org)
             /\ \A b \in DOMAIN branches' \ DOMAIN branches : ~ Foreign(w, branches'[b])
             /\ \A a \in DOMAIN analyses' \ DOMAIN analyses : ~ Foreign(w, branches[analyses'[a]])
             /\ \A x \in written' \ written :
                  ~ Foreign(w, branches[IF x \in Analyses THEN analyses[x] ELSE x])]_vars
  BY OwnStep
<1> QED
  BY <1>1, Inductive, PTL DEF Spec, OwnOrganizationOnly
=============================================================================
