---------------------------- MODULE MCQueryEngine ----------------------------
(***************************************************************************)
(* Instances of QueryEngine for TLC: "ads" is the name the list blocks or  *)
(* the user allows, "site" leads to it through a CNAME.                    *)
(***************************************************************************)
EXTENDS QueryEngine, TLC

CONSTANTS ads, site

MCName == {ads, site}

\* The list blocks ads, and the user allows site or does not; or it blocks site.
MCRulebook == {(ads :> "block" @@ site :> "none"), (ads :> "block" @@ site :> "allow"),
               (ads :> "none" @@ site :> "block")}

\* Nothing is ever blocked: only the bookkeeping of flights is of interest.
MCNoRules == {[n \in MCName |-> "none"]}

\* ads is blocked; the user allows site, which leads to it, or does not.
MCAllowRules == {(ads :> "block" @@ site :> r) : r \in {"none", "allow"}}
===============================================================================
