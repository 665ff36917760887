------------------------------ MODULE AtomicCache ------------------------------
(***************************************************************************)
(* What readers on other cores are promised of the forward cache: a store  *)
(* replaces an entry at once, and a read that hits returns an entry that   *)
(* is in the table at that moment.  A read may always miss instead: the    *)
(* Ethernet hook then leaves the query to dns_task, the SD save leaves the *)
(* entry out.  CacheSeqlock is shown to implement this module.             *)
(***************************************************************************)
EXTENDS Naturals, Sequences

CONSTANTS Name, Ways, MaxGen, Reader

Way == 1 .. Ways

Entry == [name : Name, blocked : BOOLEAN, gen : 0 .. MaxGen]

VARIABLES table,  \* <<entry>> or <<>> in each way
          gen,    \* the generation of the blocking rules
          asked,  \* what each reader is looking for, if it is reading
          reply   \* what it has found and not yet used

vars == <<table, gen, asked, reply>>

Init == /\ table = [w \in Way |-> <<>>]
        /\ gen = 0
        /\ asked = [r \in Reader |-> <<>>]
        /\ reply = [r \in Reader |-> <<>>]

Put == /\ \E w \in Way, e \in Entry : table' = [table EXCEPT ![w] = <<e>>]
       /\ UNCHANGED <<gen, asked, reply>>

Bump == /\ gen' = gen + 1
        /\ UNCHANGED <<table, asked, reply>>

\* The hook asks for a name under the present generation; the save for anything.
Ask(r) == /\ asked[r] = <<>> /\ reply[r] = <<>>
          /\ \E n \in Name, g \in 0 .. MaxGen :
                /\ r = "l2" => g = gen
                /\ asked' = [asked EXCEPT ![r] = <<[name |-> n, gen |-> g]>>]
          /\ UNCHANGED <<table, gen, reply>>

Miss(r) == /\ asked[r] # <<>>
           /\ asked' = [asked EXCEPT ![r] = <<>>]
           /\ UNCHANGED <<table, gen, reply>>

Answers(r, e) == /\ ~e.blocked
                 /\ r = "l2" => e.name = asked[r][1].name /\ e.gen = asked[r][1].gen

Hit(r) == /\ asked[r] # <<>>
          /\ asked' = [asked EXCEPT ![r] = <<>>]
          /\ \E w \in Way : /\ table[w] # <<>>
                            /\ Answers(r, table[w][1])
                            /\ reply' = [reply EXCEPT ![r] = table[w]]
          /\ UNCHANGED <<table, gen>>

Use(r) == /\ reply[r] # <<>>
          /\ reply' = [reply EXCEPT ![r] = <<>>]
          /\ UNCHANGED <<table, gen, asked>>

Next == \/ Put \/ Bump
        \/ \E r \in Reader : Ask(r) \/ Miss(r) \/ Hit(r) \/ Use(r)

Spec == Init /\ [][Next]_vars
===============================================================================
