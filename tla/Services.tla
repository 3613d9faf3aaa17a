------------------------------ MODULE Services ------------------------------
(***************************************************************************)
(* The services outside the pipeline in one process.  That a step of one   *)
(* is a step of no other one is assumed, from a reading of the code: no    *)
(* two of them write the same table, but for the contracts and platforms,  *)
(* which run_demo_seed writes, too.  ReferenceContracts is about a branch  *)
(* of another organization, whose contracts the seed does not touch;       *)
(* Startup has the demo organization's contracts itself.  The threads and  *)
(* connections of RequestPool delay a step of the others or fail their     *)
(* request, which each of them allows at any point.                        *)
(***************************************************************************)
EXTENDS Normalization, ReferenceContracts, Outputs, Startup, RequestPool

services == <<nvars, cvars, ovars, svars, pvars>>

ServicesInit == NormInit /\ ContractsInit /\ OutputsInit /\ StartupInit /\ PoolInit

ServicesNext ==
  \/ NormNext /\ UNCHANGED <<cvars, ovars, svars, pvars>>
  \/ ContractsNext /\ UNCHANGED <<nvars, ovars, svars, pvars>>
  \/ OutputsNext /\ UNCHANGED <<nvars, cvars, svars, pvars>>
  \/ StartupNext /\ UNCHANGED <<nvars, cvars, ovars, pvars>>
  \/ PoolNext /\ UNCHANGED <<nvars, cvars, ovars, svars>>

ServicesSpec == ServicesInit /\ [][ServicesNext]_services

(***************************************************************************)
(* Properties                                                              *)
(***************************************************************************)
\* The type invariants of the components.
ServicesTypeOK == NormTypeOK /\ ContractsTypeOK /\ OutputsTypeOK /\ StartupTypeOK /\ PoolTypeOK

\* What a request creates when it has found nothing is there once, unless
\* two requests that found nothing overlapped.
CreatedOnce == OneInsight /\ OneDeployment /\ DemoOnce
=============================================================================
