------------------------------ MODULE FlushCache ------------------------------
(***************************************************************************)
(* What the forward cache promises, without generations or flights: every  *)
(* edit of the blocking rules flushes the cache, so that outside the short *)
(* window in which an edit is being made visible, a cached verdict is the  *)
(* verdict of the rules in force.                                          *)
(*                                                                         *)
(* dns_server.cpp implements the flush lazily: entries carry the           *)
(* generation their verdict was taken under and a lookup under a newer one *)
(* misses.  QueryEngine is shown to implement this module.                 *)
(***************************************************************************)
CONSTANTS Name,      \* domain names
          Task,      \* tasks that edit the rules
          Rulebook   \* the effective rules the edits choose from

VARIABLES rule,      \* the effective verdict of every name
          off,       \* blocking is globally switched off
          open,      \* the tasks that have changed the rules but not yet flushed
          cached     \* what the cache would answer for a name

vars == <<rule, off, open, cached>>

Blocks(n) == ~off /\ rule[n] = "block"

Empty == [n \in Name |-> "none"]

TypeOK == /\ rule \in Rulebook
          /\ off \in BOOLEAN
          /\ open \subseteq Task
          /\ cached \in [Name -> {"none", "allowed", "blocked"}]

Init == /\ rule \in Rulebook
        /\ off \in BOOLEAN
        /\ open = {}
        /\ cached = Empty

\* A task makes new rules visible; the flush follows in a step of its own.
Change(t) == /\ rule' \in Rulebook
             /\ off' \in BOOLEAN
             /\ open' = open \cup {t}
             /\ UNCHANGED cached

Flush(t) == /\ t \in open
            /\ open' = open \ {t}
            /\ cached' = Empty
            /\ UNCHANGED <<rule, off>>

\* Rules and flush made visible together, under the lock of the small tables.
ChangeAndFlush == /\ rule' \in Rulebook
                  /\ cached' = Empty
                  /\ UNCHANGED <<off, open>>

\* An answer is only remembered as allowed if the rules allow the name, and as
\* blocked only if they block something (the name, or a name it leads to).
\* While an edit is half done either side of it may still be remembered.
MayLearn(n, kind) == \/ open # {}
                     \/ kind = "allowed" /\ ~Blocks(n)
                     \/ kind = "blocked" /\ \E m \in Name : Blocks(m)

Learn(n, kind) == /\ MayLearn(n, kind)
                  /\ \E lost \in SUBSET (Name \ {n}) :
                        cached' = [m \in Name |-> IF m = n THEN kind
                                                  ELSE IF m \in lost THEN "none"
                                                  ELSE cached[m]]
                  /\ UNCHANGED <<rule, off, open>>

\* Entries expire, are evicted, or are replaced by one that cannot be served.
Forget(lost) == /\ cached' = [n \in Name |-> IF n \in lost THEN "none" ELSE cached[n]]
                /\ UNCHANGED <<rule, off, open>>

Next == \/ \E t \in Task : Change(t) \/ Flush(t)
        \/ ChangeAndFlush
        \/ \E n \in Name, kind \in {"allowed", "blocked"} : Learn(n, kind)
        \/ \E lost \in SUBSET Name : Forget(lost)

Spec == Init /\ [][Next]_vars
===============================================================================
