------------------------------ MODULE MCServices ------------------------------
(***************************************************************************)
(* One instance for the components around the sinkhole that do not act on  *)
(* one another's state: what flash, NVS and the SD card keep (ListStore,   *)
(* ClientStores, WarmSnapshot, WebAuth), what the web pages are shown      *)
(* (QueryLog, Census), what the Ethernet hook looks up (FastPath,          *)
(* PauseTable), and the links (NetLink).  "part" says which of them a      *)
(* behaviour is about; the others keep their initial state.                *)
(***************************************************************************)
EXTENDS ListStore, FastPath, PauseTable, QueryLog, Census, ClientStores,
        WarmSnapshot, WebAuth, NetLink

VARIABLE part

Subject == {"lists", "hook", "pauses", "log", "census", "clients", "warm", "account", "links"}

\* The hook is asked under every pair of lists; elsewhere they are empty.
MCInit == /\ part \in Subject
          /\ Init /\ FpInit /\ PtInit /\ QlInit /\ CnInit /\ CsInit /\ WsInit /\ AuthInit /\ NlInit
          /\ part # "hook" => acl = {} /\ bypass = {} /\ rewrites = {}
          /\ part # "account" => nvs.user = 0 /\ nvs.legacy = "none"

MCNext == /\ UNCHANGED part
          /\ IF part = "lists" THEN Next ELSE UNCHANGED vars
          /\ IF part = "hook" THEN FpNext ELSE UNCHANGED fpVars
          /\ IF part = "pauses" THEN PtNext ELSE UNCHANGED ptVars
          /\ IF part = "log" THEN QlNext ELSE UNCHANGED qlVars
          /\ IF part = "census" THEN CnNext ELSE UNCHANGED cnVars
          /\ IF part = "clients" THEN CsNext ELSE UNCHANGED csVars
          /\ IF part = "warm" THEN WsNext ELSE UNCHANGED wsVars
          /\ IF part = "account" THEN AuthNext ELSE UNCHANGED authVars
          /\ IF part = "links" THEN NlNext ELSE UNCHANGED nlVars

MCSpec == MCInit /\ [][MCNext]_<<vars, fpVars, ptVars, qlVars, cnVars, csVars, wsVars, authVars, nlVars, part>>

\* Every variable has its type.
TypesOK == /\ TypeOK /\ FpTypeOK /\ PtTypeOK /\ QlTypeOK /\ CnTypeOK
           /\ CsTypeOK /\ WsTypeOK /\ AuthTypeOK /\ NlTypeOK
================================================================================
