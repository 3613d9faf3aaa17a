----------------------------- MODULE MCServices -----------------------------
\* The services that share no table with each other, checked in one run: each
\* behaviour exercises one of them, which its first state chooses.
EXTENDS Services, TLC

CONSTANTS f1, f2, op, client

VARIABLE focus

vars == <<focus, services>>

MCSourceOf == f1 :> "POS_EXPORT" @@ f2 :> "PLATFORM_SETTLEMENT"

Table(rows) == [kind |-> "table", columns |-> TRUE, rows |-> rows]
Good == Table(<<"good">>)
MCContents ==
  {Good, Table(<<"good", "good">>), Table(<<"invalid">>), Table(<<"unquantizable">>),
   Table(<<"oversize">>), [Good EXCEPT !.kind = "undecodable"]}
MCUploads == {f1 :> c @@ f2 :> Good : c \in MCContents}
MCOverwrites == {None}

Legacy(E) == [e \in E |-> [role |-> Client, attached |-> FALSE]]
MCSettings ==
  {[auto |-> TRUE, named |-> n, password |-> p, demo |-> n /\ p] : n, p \in BOOLEAN}
    \cup {[auto |-> FALSE, named |-> TRUE, password |-> TRUE, demo |-> FALSE]}
MCDatabases ==
  {[rev |-> None, shape |-> "none", users |-> <<>>, orgs |-> 0],
   [rev |-> None, shape |-> "drifted", users |-> <<>>, orgs |-> 0],
   [rev |-> "0001", shape |-> "baseline", users |-> Legacy({client}), orgs |-> 1],
   [rev |-> HeadRevision, shape |-> "head",
    users |-> op :> [role |-> Operator, attached |-> FALSE], orgs |-> 1]}
    \cup {[rev |-> None, shape |-> "baseline", users |-> Legacy(E), orgs |-> n] :
            E \in SUBSET Emails, n \in 1..2}

Components == {"normalization", "contracts", "outputs", "startup", "pool"}

Init ==
  /\ focus \in Components
  /\ ServicesInit
  /\ focus # "normalization" => stored = f1 :> Good @@ f2 :> Good
  /\ focus # "outputs" => ~ completed
  /\ focus # "startup" => shape = "none" /\ ~ env.auto

Next ==
  \/ focus = "normalization" /\ NormNext /\ UNCHANGED <<focus, cvars, ovars, svars, pvars>>
  \/ focus = "contracts" /\ ContractsNext /\ UNCHANGED <<focus, nvars, ovars, svars, pvars>>
  \/ focus = "outputs" /\ OutputsNext /\ UNCHANGED <<focus, nvars, cvars, svars, pvars>>
  \/ focus = "startup" /\ StartupNext /\ UNCHANGED <<focus, nvars, cvars, ovars, pvars>>
  \/ focus = "pool" /\ PoolNext /\ UNCHANGED <<focus, nvars, cvars, ovars, svars>>

Spec == Init /\ [][Next]_vars /\ PoolFairness
=============================================================================
