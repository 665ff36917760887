----------------------------- MODULE MCForwarding -----------------------------
(***************************************************************************)
(* One instance for two subjects that share no state: the cache, the table *)
(* and the verdicts of QueryEngine, and the ways a question leaves and an  *)
(* answer returns (Forwarding).  "part" says which of the two a behaviour  *)
(* is about; the other keeps its initial state.                            *)
(***************************************************************************)
EXTENDS MCQueryEngine, Forwarding

VARIABLE part

mcVars == <<vars, fwdAllVars, part>>

MCInit == /\ Init /\ FwdInit
          /\ \/ part = "engine" /\ ~dotEnabled /\ dotCfg = CHOOSE c \in Server : TRUE
             \/ part = "forwarding" /\ rule = CHOOSE r \in Rulebook : TRUE

MCNext == /\ UNCHANGED part
          /\ \/ part = "engine" /\ Next /\ UNCHANGED fwdAllVars
             \/ part = "forwarding" /\ FwdNext /\ UNCHANGED vars

MCSpec == MCInit /\ [][MCNext]_mcVars

MCFairSpec == MCSpec /\ Fairness /\ FwdFairness
===============================================================================
