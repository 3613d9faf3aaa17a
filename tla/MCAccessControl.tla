--------------------------- MODULE MCAccessControl ---------------------------
(***************************************************************************)
(* Two client organizations with a branch each: an owner and an accountant *)
(* in the first, an owner in the second, and the platform operator.  Two   *)
(* requests at a time and three in all: a sign-in that overlaps a change   *)
(* of password, two grants that overlap, a promotion in the middle of a    *)
(* reset.  Every route is sent about its own and the other organization.   *)
(***************************************************************************)
EXTENDS AccessControl, TLC

CONSTANTS w1, w2, op, own, acc, other, new, o1, o2, o3, b1, b2, b3, a1, a2, p1, p2

Client(role, o) == [role |-> role, org |-> o, pwd |-> p1]
MCUsers == op :> [role |-> Operator, org |-> None, pwd |-> p1]
           @@ own :> Client("OWNER", o1) @@ acc :> Client("ACCOUNTANT", o1)
           @@ other :> Client("OWNER", o2)
MCBranches == b1 :> o1 @@ b2 :> o2
MCAnalyses == a1 :> b2

MCRequests ==
  {[Blank EXCEPT !.route = "create_user", !.user = new, !.org = o, !.role = "ACCOUNTANT", !.pwd = p1] :
     o \in {o1, None}}
  \cup {[Blank EXCEPT !.route = "grant_branch_access", !.user = acc, !.branch = b] : b \in {b1, b2}}
  \cup {[Blank EXCEPT !.route = "change_password", !.user = u, !.pwd = p2] : u \in {acc, other}}
  \cup {[Blank EXCEPT !.route = "create_organization", !.org = o3],
        [Blank EXCEPT !.route = "create_branch", !.org = o1, !.branch = b3],
        [Blank EXCEPT !.route = "create_contract", !.branch = b1],
        [Blank EXCEPT !.route = "create_analysis", !.branch = b1, !.analysis = a2],
        [Blank EXCEPT !.route = "write_analysis", !.analysis = a1]}

MCSymmetry == Permutations(Workers)
=============================================================================
