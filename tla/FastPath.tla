------------------------------- MODULE FastPath -------------------------------
(***************************************************************************)
(* The Ethernet hook's ladder (dns_sink.cpp, l2_input_cb) against the      *)
(* tasks that hold the mutexes of the tables it consults (the access list, *)
(* the bypass list and the rewrites): httpd edits and lists them, and      *)
(* dns_task asks them on the socket path.  The timed pauses have no mutex. *)
(* The hook waits for nobody: a table somebody holds is busy, and a busy   *)
(* bypass list reads as one that does not name the client.                 *)
(*                                                                         *)
(* Abstractions.  One name is asked for, and "other" stands for every      *)
(* other rewrite rule; PauseTable has the pauses slot by slot, CacheSeqlock*)
(* and BlocklistLive the look-ups behind "probe", and a frame that is no   *)
(* question to us changes nothing here.                                    *)
(***************************************************************************)
EXTENDS Naturals, FiniteSets

CONSTANTS Lan,      \* the clients
          MaxEdits  \* bound on the edits

ASSUME LanAssumption == MaxEdits \in Nat /\ Lan # {}

VARIABLES acl, bypass,  \* who is on the access list, and on the bypass list
          paused,       \* who is paused
          rewrites,     \* which names are rewritten
          editing,      \* the table whose mutex the web task holds, and whether it is done
          asking,       \* the table whose mutex dns_task holds
          edits,        \* edits so far
          hook          \* the frame in the hook's hands

fpVars == <<acl, bypass, paused, rewrites, editing, asking, edits, hook>>
tables == <<acl, bypass, paused, rewrites>>

Kind == {"A", "AAAA", "other"}
Table == {"acl", "bypass", "rewrites"}
Ground == {"permitted", "unpaused", "filtered", "plain"}

FpTypeOK == /\ acl \subseteq Lan /\ bypass \subseteq Lan /\ paused \subseteq Lan
            /\ rewrites \subseteq {"name", "other"}
            /\ editing \in [table : Table \cup {"none"}, done : BOOLEAN]
            /\ asking \in Table \cup {"none"}
            /\ edits \in 0 .. MaxEdits
            /\ hook \in [pc : {"idle", "acl", "pause", "bypass", "rewrite", "probe", "answer"},
                         client : Lan, kind : Kind, since : SUBSET Ground]

Unlocked == [table |-> "none", done |-> FALSE]

\* Somebody holds the table's mutex.
Busy(t) == editing.table = t \/ asking = t

\* What speaks for answering client c here, as the tables stand.  "filtered": c is
\* not bypassed, or the bypass list is held, and cannot tell.
Grounds(a, b, p, r, held, c) ==
    (IF a = {} \/ c \in a THEN {"permitted"} ELSE {})
    \cup (IF c \notin p THEN {"unpaused"} ELSE {})
    \cup (IF c \notin b \/ held THEN {"filtered"} ELSE {})
    \cup (IF "name" \notin r THEN {"plain"} ELSE {})

NoFrame == [pc |-> "idle", client |-> CHOOSE c \in Lan : TRUE, kind |-> "A", since |-> {}]

FpInit == /\ acl \in SUBSET Lan /\ bypass \in SUBSET Lan
          /\ paused = {}
          /\ rewrites \in SUBSET {"name", "other"}
          /\ editing = Unlocked /\ asking = "none" /\ edits = 0
          /\ hook = NoFrame

-----------------------------------------------------------------------------
(***************************************************************************)
(* The web task: the mutex, the edit or the listing, the mutex; the pauses *)
(* without one.  And dns_task, in acl_permits, bypass_active_for and       *)
(* rewrite_lookup, which an empty table answers without the mutex.         *)
(***************************************************************************)
\* What has been true at some moment of the hook's call.
Witness == hook' = IF hook.pc = "idle" THEN hook
                   ELSE [hook EXCEPT !.since =
                            @ \cup Grounds(acl', bypass', paused', rewrites', Busy("bypass")', hook.client)]

BeginEdit(t) == /\ editing = Unlocked /\ asking # t /\ edits < MaxEdits
                /\ editing' = [table |-> t, done |-> FALSE]
                /\ edits' = edits + 1
                /\ UNCHANGED <<tables, asking>>
                /\ Witness

\* acl_list, bypass_list, rewrite_list: the mutex is held, and nothing changes.
Listing(t) == /\ editing = Unlocked /\ asking # t
              /\ editing' = [table |-> t, done |-> TRUE]
              /\ UNCHANGED <<tables, asking, edits>>
              /\ Witness

\* dns_task asks the table about a question of its own, and lets go of it.
DnsTakes(t) == /\ asking = "none" /\ editing.table # t
               /\ [acl |-> acl, bypass |-> bypass, rewrites |-> rewrites][t] # {}
               /\ asking' = t
               /\ UNCHANGED <<tables, editing, edits>>
               /\ Witness

DnsGives == /\ asking # "none"
            /\ asking' = "none"
            /\ UNCHANGED <<tables, editing, edits, hook>>

\* One entry is added or removed, or all are.
Edited(set, all) == {set \cup {x} : x \in all} \cup {set \ {x} : x \in all} \cup {{}}

Edit == /\ editing.table # "none" /\ ~editing.done
        /\ editing' = [editing EXCEPT !.done = TRUE]
        /\ \/ /\ editing.table = "acl" /\ acl' \in Edited(acl, Lan)
              /\ UNCHANGED <<bypass, paused, rewrites>>
           \/ /\ editing.table = "bypass" /\ bypass' \in Edited(bypass, Lan)
              /\ UNCHANGED <<acl, paused, rewrites>>
           \/ /\ editing.table = "rewrites" /\ rewrites' \in Edited(rewrites, {"name", "other"})
              /\ UNCHANGED <<acl, bypass, paused>>
        /\ UNCHANGED <<asking, edits>>
        /\ Witness

EndEdit == /\ editing.done
           /\ editing' = Unlocked
           /\ UNCHANGED <<tables, asking, edits, hook>>

SetPause == /\ editing = Unlocked /\ edits < MaxEdits /\ edits' = edits + 1
            /\ paused' \in Edited(paused, Lan)
            /\ UNCHANGED <<acl, bypass, rewrites, editing, asking>>
            /\ Witness

-----------------------------------------------------------------------------
(***************************************************************************)
(* The hook.                                                               *)
(***************************************************************************)
\* Mutant: a busy access list lets the client pass, as it does on the socket path.
PermitsIfBusy(c) == acl = {} \/ Busy("acl") \/ c \in acl

Permits(c) == acl = {} \/ (~Busy("acl") /\ c \in acl)

\* A busy bypass list reads as not bypassed.
Bypassed(c) == bypass # {} /\ ~Busy("bypass") /\ c \in bypass

MayBeRewritten == rewrites # {} /\ (Busy("rewrites") \/ "name" \in rewrites)

\* On to the next question, or the frame goes to lwIP as it is.
Goes(pc, q) == /\ hook' = IF pc = "idle" THEN NoFrame ELSE [q EXCEPT !.pc = pc]
               /\ UNCHANGED <<tables, editing, asking, edits>>

Frame(c, k) == /\ hook.pc = "idle"
               /\ Goes("acl", [pc |-> "acl", client |-> c, kind |-> k,
                               since |-> Grounds(acl, bypass, paused, rewrites, Busy("bypass"), c)])

AskAcl == hook.pc = "acl" /\ Goes(IF Permits(hook.client) THEN "pause" ELSE "idle", hook)

AskPause == hook.pc = "pause" /\ Goes(IF hook.client \in paused THEN "idle" ELSE "bypass", hook)

AskBypass == /\ hook.pc = "bypass"
             /\ Goes(IF Bypassed(hook.client) \/ hook.kind = "other" THEN "idle"
                     ELSE IF hook.kind = "A" THEN "rewrite" ELSE "probe", hook)

AskRewrite == hook.pc = "rewrite" /\ Goes(IF MayBeRewritten THEN "idle" ELSE "probe", hook)

\* A cached answer or a block; or the frame is lwIP's: the list is busy, its
\* snapshot is being replaced, or the name is not blocked and not cached.
Probe == hook.pc = "probe" /\ \E pc \in {"answer", "idle"} : Goes(pc, hook)

Answer == hook.pc = "answer" /\ Goes("idle", hook)

Hook == \/ \E c \in Lan, k \in Kind : Frame(c, k)
        \/ AskAcl \/ AskPause \/ AskBypass \/ AskRewrite \/ Probe \/ Answer

FpNext == \/ \E t \in Table : BeginEdit(t) \/ Listing(t) \/ DnsTakes(t)
          \/ Edit \/ EndEdit \/ SetPause \/ DnsGives
          \/ Hook

FpSpec == FpInit /\ [][FpNext]_fpVars

-----------------------------------------------------------------------------
(***************************************************************************)
(* Properties.                                                             *)
(***************************************************************************)
\* What the hook answers by itself rests on what was true during its call: at some
\* moment of it the client was permitted, at some moment not paused, at some moment not
\* bypassed (or the bypass list was in somebody's hands), and the name, if its address
\* was asked for, was not rewritten; whoever holds, edits or lists the tables.
HookAnswerIsGrounded ==
    hook.pc = "answer" => /\ {"permitted", "unpaused", "filtered"} \subseteq hook.since
                          /\ hook.kind = "A" => "plain" \in hook.since
===============================================================================
