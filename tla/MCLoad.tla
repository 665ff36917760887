-------------------------------- MODULE MCLoad ---------------------------------
(***************************************************************************)
(* One instance for the reload of the list: what it is told and what it    *)
(* waits for (LoadControl), and what the readers of the list in service    *)
(* see while it is rebuilt (BlocklistLive).  They share no state; "part"   *)
(* says which of them a behaviour is about.                                *)
(***************************************************************************)
EXTENDS LoadControl, BlocklistLive

VARIABLE part

MCInit == /\ part \in {"control", "image"} /\ Init /\ LiveInit
          /\ part = "control" => live # NoBuffer

MCNext == /\ UNCHANGED part
          /\ \/ part = "control" /\ Next /\ UNCHANGED liveVars
             \/ part = "image" /\ LiveNext /\ UNCHANGED vars

MCSpec == /\ MCInit /\ [][MCNext]_<<vars, liveVars, part>>
          /\ WF_vars(part = "control" /\ Task) /\ WF_vars(part = "control" /\ Watchdog)
          /\ WF_vars(part = "control" /\ PerformEnds /\ (fetch.aborted \/ ~wd.armed))
          /\ WF_liveVars(part = "image" /\ Loader) /\ WF_liveVars(part = "image" /\ Editor)
          /\ WF_liveVars(part = "image" /\ Tick)
          /\ \A r \in Reader : WF_liveVars(part = "image" /\ Read(r))

\* Every variable of the two has its type.
TypesOK == TypeOK /\ LiveTypeOK
================================================================================
