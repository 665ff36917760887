------------------------------ MODULE QueryEngine ------------------------------
(***************************************************************************)
(* The resolver's core: dns_task's forward cache, its table of upstream    *)
(* flights and its verdict ladder (dns_server.cpp), running against tasks  *)
(* that change the blocking rules (blocklist.c) and clients that are       *)
(* paused or bypassed.                                                     *)
(*                                                                         *)
(* dns_task is one thread: a datagram is handled to its end before the     *)
(* next one.  But httpd and download_task run on the other core, so the    *)
(* rules may change between the three reads a query makes: the generation  *)
(* (Receive), the cache (AnswerFromCache ...) and the verdict (Decide ...). *)
(*                                                                         *)
(* Abstractions.  One cache set and one query type; an entry's deadline is *)
(* its "fresh" flag and the end of the serve-stale window is Lapse.  A     *)
(* flight's clock is its age.  Upstream datagrams are lost, duplicated,    *)
(* delayed and reordered: "net" only grows.  A query's reply-shaping       *)
(* envelope (query_env_hash) may or may not match a flight's, so a query   *)
(* may join a flight or take a slot of its own.                            *)
(***************************************************************************)
EXTENDS Naturals, FiniteSets, Sequences

CONSTANTS Name,      \* domain names
          QName,     \* the names clients ask for
          Class,     \* query classes clients use: "IN", "CH"
          Slot,      \* slots of the upstream table
          Txid,      \* transaction ids of upstream queries
          Ways,      \* ways of the cache set
          MaxWait,   \* coalesced waiters of a flight
          Rulebook,  \* effective rules that edits choose from
          Holder,    \* why the small-table lock is held: "editor", "reader"
          Affectable,\* whether a client that asks may be paused or bypassed
          MaxGen     \* bound on the generation counter

ASSUME NameAssumption     == QName \subseteq Name /\ Name # {} /\ Txid # {}
ASSUME RulebookAssumption == Rulebook \subseteq [Name -> {"none", "allow", "block"}]
ASSUME BoundAssumption    == MaxGen \in Nat /\ MaxWait \in Nat /\ Ways \in Nat \ {0}
ASSUME ClassAssumption    == Class \subseteq {"IN", "CH"}
ASSUME HolderAssumption   == Holder \subseteq {"editor", "reader"}
ASSUME AffectAssumption   == Affectable \subseteq BOOLEAN

Task == {"loader", "httpd"}

VARIABLES rule, off,  \* effective rule of each name; the global switch s_paused
          live,       \* s_live points at a snapshot
          gen,        \* s_blocklist_gen
          open,       \* tasks between their change and their generation bump
          lock,       \* holder of s_wl_mutex other than dns_task, or "free"
          cache,      \* the forward cache
          flight,     \* s_upstream
          net,        \* queries sent upstream, whose replies may still arrive
          pc, cur,    \* where dns_task is in handling a query, and which
          out         \* replies sent to clients by the last step

rulesVars == <<rule, off, live, gen, open, lock>>
vars == <<rule, off, live, gen, open, lock, cache, flight, net, pc, cur, out>>

Blocks(n) == ~off /\ rule[n] = "block"

-----------------------------------------------------------------------------
\* Data.

NoEntry == [kind |-> "none", gen |-> 0, names |-> {}, fresh |-> FALSE, armed |-> FALSE]

\* "names" are the question and the CNAME chain of the reply that was stored.
EntryType == [kind : {"none", "allowed", "blocked"}, gen : 0 .. MaxGen,
              names : SUBSET Name, fresh : BOOLEAN, armed : BOOLEAN]

\* A requester recorded in a flight: who asked, and whether the client was
\* paused or bypassed when it asked.
WaiterType == [name : Name, in : BOOLEAN, affected : BOOLEAN]

FlightType == [in_use : BOOLEAN, name : Name, txid : Txid, gen : 0 .. MaxGen,
               exempt : BOOLEAN, paused : BOOLEAN, no_cache : BOOLEAN,
               refresh_only : BOOLEAN, age : {"young", "old"},
               waiters : Seq(WaiterType)]

QueryType == [name : Name, in : BOOLEAN, affected : BOOLEAN, gen : 0 .. MaxGen]

ReplyType == [asked : Name, got : Name, in : BOOLEAN, blocked : BOOLEAN,
              affected : BOOLEAN]

TypeOK == /\ rule \in Rulebook
          /\ off \in BOOLEAN
          /\ live \in BOOLEAN
          /\ gen \in 0 .. MaxGen
          /\ open \subseteq Task
          /\ lock \in {"free"} \cup Holder
          /\ cache \in [Name -> EntryType]
          /\ flight \in [Slot -> FlightType]
          /\ \A s \in Slot : Len(flight[s].waiters) <= MaxWait + 1
          /\ net \subseteq [txid : Txid, name : Name]
          /\ pc \in {"idle", "lookup", "verdict"}
          /\ cur \in QueryType
          /\ out \subseteq ReplyType

SomeName == CHOOSE n \in Name : TRUE

ZeroSlot == [in_use |-> FALSE, name |-> SomeName, txid |-> CHOOSE t \in Txid : TRUE,
             gen |-> 0, exempt |-> FALSE, paused |-> FALSE, no_cache |-> FALSE,
             refresh_only |-> FALSE, age |-> "old", waiters |-> <<>>]

NoQuery == [name |-> SomeName, in |-> FALSE, affected |-> FALSE, gen |-> 0]

\* Booted with no list published yet: every verdict is unproven until the first
\* load has set s_live.
Init == /\ rule \in Rulebook
        /\ off = FALSE
        /\ live = FALSE
        /\ gen = 0
        /\ open = {}
        /\ lock = "free"
        /\ cache = [n \in Name |-> NoEntry]
        /\ flight = [s \in Slot |-> ZeroSlot]
        /\ net = {}
        /\ pc = "idle"
        /\ cur = NoQuery
        /\ out = {}

-----------------------------------------------------------------------------
(***************************************************************************)
(* Changes of the rules, by the httpd task and by download_task.           *)
(***************************************************************************)
dnsVars == <<cache, flight, net, pc, cur>>

HttpdIdle == lock = "free" /\ "httpd" \notin open

\* httpd takes s_wl_mutex, to edit the small tables or only to read them
\* (a listing, an edit that turns out to change nothing).
TakeLock(h) == /\ HttpdIdle
               /\ h = "editor" => gen < MaxGen
               /\ lock' = h
               /\ out' = {}
               /\ UNCHANGED <<rule, off, live, gen, open, dnsVars>>

\* A whitelist or custom-rule edit: changed and bumped under the mutex.
EditRules == /\ lock = "editor"
             /\ gen < MaxGen
             /\ rule' \in Rulebook
             /\ gen' = gen + 1
             /\ lock' = "free"
             /\ out' = {}
             /\ UNCHANGED <<off, live, open, dnsVars>>

ReleaseLock == /\ lock = "reader"
               /\ lock' = "free"
               /\ out' = {}
               /\ UNCHANGED <<rule, off, live, gen, open, dnsVars>>

\* The global pause switch: the flag first, then the bump.
SetPaused == /\ HttpdIdle
             /\ gen < MaxGen
             /\ off' = ~off
             /\ open' = open \cup {"httpd"}
             /\ out' = {}
             /\ UNCHANGED <<rule, live, gen, lock, dnsVars>>

\* Publishing a freshly loaded list: s_live goes NULL, then to the new
\* snapshot, then the generation is bumped.
Unpublish == /\ live
             /\ "loader" \notin open
             /\ gen < MaxGen
             /\ live' = FALSE
             /\ out' = {}
             /\ UNCHANGED <<rule, off, gen, open, lock, dnsVars>>

\* Mutant: the new list is published and the generation not bumped.
PublishUnbumped == /\ ~live
                   /\ rule' \in Rulebook
                   /\ live' = TRUE
                   /\ out' = {}
                   /\ UNCHANGED <<off, gen, open, lock, dnsVars>>

Publish == /\ ~live
           /\ rule' \in Rulebook
           /\ live' = TRUE
           /\ open' = open \cup {"loader"}
           /\ out' = {}
           /\ UNCHANGED <<off, gen, lock, dnsVars>>

Bump(t) == /\ t \in open
           /\ gen < MaxGen
           /\ gen' = gen + 1
           /\ open' = open \ {t}
           /\ out' = {}
           /\ UNCHANGED <<rule, off, live, lock, dnsVars>>

-----------------------------------------------------------------------------
(***************************************************************************)
(* The forward cache.                                                      *)
(***************************************************************************)
Valid == {n \in Name : cache[n].kind # "none"}

\* The way a store for n overwrites: its own, a free one, or another name's.
Victims(n) == IF n \in Valid \/ Cardinality(Valid) < Ways
                 THEN {{}} ELSE {{m} : m \in Valid}

Store(n, kind, g, names) ==
    \E lost \in Victims(n) :
       cache' = [m \in Name |->
                   IF m = n THEN [kind |-> kind, gen |-> g, names |-> names,
                                  fresh |-> TRUE, armed |-> FALSE]
                   ELSE IF m \in lost THEN NoEntry ELSE cache[m]]

Hit(n) == cache[n].kind # "none" /\ cache[n].fresh /\ cache[n].gen = gen

StaleHit(n) == cache[n].kind = "allowed" /\ ~cache[n].fresh /\ cache[n].gen = gen

\* An entry reaches its TTL deadline, the refresh gate of a stale entry
\* re-opens (UPSTREAM_TIMEOUT_MS later), an expired entry becomes worthless.
Expire(n) == /\ cache[n].kind # "none" /\ cache[n].fresh
             /\ cache' = [cache EXCEPT ![n].fresh = FALSE]
             /\ out' = {}
             /\ UNCHANGED <<rulesVars, flight, net, pc, cur>>

Rearm(n) == /\ cache[n].armed
            /\ cache' = [cache EXCEPT ![n].armed = FALSE]
            /\ out' = {}
            /\ UNCHANGED <<rulesVars, flight, net, pc, cur>>

Lapse(n) == /\ cache[n].kind # "none" /\ ~cache[n].fresh
            /\ cache' = [cache EXCEPT ![n] = NoEntry]
            /\ out' = {}
            /\ UNCHANGED <<rulesVars, flight, net, pc, cur>>

-----------------------------------------------------------------------------
(***************************************************************************)
(* The table of upstream flights.                                          *)
(***************************************************************************)
\* Mutant: upstream_alloc takes the next random id without looking.
TxidUnchecked(t) == FALSE

TxidInUse(t) == \E s \in Slot : flight[s].in_use /\ flight[s].txid = t

Free == {s \in Slot : ~flight[s].in_use}

InFlight(n) == \E s \in Slot : flight[s].in_use /\ ~flight[s].refresh_only /\ flight[s].name = n

\* Mutants: the length of the waiter list, or the isolation of a flight, is
\* not looked at when joining.
JoinableOverfull(n) == {s \in Slot : /\ flight[s].in_use /\ ~flight[s].refresh_only
                                     /\ ~flight[s].no_cache /\ flight[s].name = n
                                     /\ flight[s].age = "young"}

JoinableIsolated(n) == {s \in Slot : /\ flight[s].in_use /\ ~flight[s].refresh_only
                                     /\ flight[s].name = n
                                     /\ Len(flight[s].waiters) < MaxWait + 1
                                     /\ flight[s].age = "young"}

Joinable(n) == {s \in Slot : /\ flight[s].in_use
                             /\ ~flight[s].refresh_only
                             /\ ~flight[s].no_cache
                             /\ flight[s].name = n
                             /\ Len(flight[s].waiters) < MaxWait + 1
                             /\ flight[s].age = "young"}

\* upstream_alloc and the fields its callers fill in.
Launch(s, t, f) == /\ s \in Free
                   /\ ~TxidInUse(t)
                   /\ flight' = [flight EXCEPT ![s] = [f EXCEPT !.txid = t]]
                   /\ net' = net \cup {[txid |-> t, name |-> f.name]}

NewFlight(n, g) == [ZeroSlot EXCEPT !.in_use = TRUE, !.name = n, !.gen = g, !.age = "young"]

\* A flight grows too old to be joined (UPSTREAM_JOIN_MAX_AGE_MS), and then is
\* evicted (UPSTREAM_TIMEOUT_MS) at the start of a turn of dns_task's loop.
Grow(s) == /\ flight[s].in_use /\ flight[s].age = "young"
           /\ flight' = [flight EXCEPT ![s].age = "old"]
           /\ out' = {}
           /\ UNCHANGED <<rulesVars, cache, net, pc, cur>>

\* Mutant: the sweep leaves background refreshes alone.
EvictUnlessRefresh(s) == /\ pc = "idle"
                         /\ flight[s].in_use /\ flight[s].age = "old" /\ ~flight[s].refresh_only
                         /\ flight' = [flight EXCEPT ![s] = ZeroSlot]
                         /\ out' = {}
                         /\ UNCHANGED <<rulesVars, cache, net, pc, cur>>

Evict(s) == /\ pc = "idle"
            /\ flight[s].in_use /\ flight[s].age = "old"
            /\ flight' = [flight EXCEPT ![s] = ZeroSlot]
            /\ out' = {}
            /\ UNCHANGED <<rulesVars, cache, net, pc, cur>>

-----------------------------------------------------------------------------
(***************************************************************************)
(* A client query, from the generation read to the reply or the forward.   *)
(***************************************************************************)
Waiter(q) == [name |-> q.name, in |-> q.in, affected |-> q.affected]

Reply(w, got, blocked) == [asked |-> w.name, got |-> got, in |-> w.in, blocked |-> blocked,
                           affected |-> w.affected]

\* dns_task takes a query off the socket, and reads whether its client is paused
\* or bypassed and the generation its verdict will be stamped with.
Receive(n, class, affected) ==
    /\ pc = "idle"
    /\ cur' = [name |-> n, in |-> class = "IN", affected |-> class = "IN" /\ affected,
               gen |-> gen]
    /\ pc' = "lookup"
    /\ out' = {}
    /\ UNCHANGED <<rulesVars, cache, flight, net>>

Done == pc' = "idle" /\ cur' = NoQuery

\* Ride a flight for the same question if there is one, else take a slot; a
\* full table drops the query.
Join(s, w) == /\ flight' = [flight EXCEPT ![s].waiters = Append(@, w)]
              /\ UNCHANGED net

Forward(allowed, isolated) ==
    LET w == Waiter(cur)
        f == [NewFlight(cur.name, cur.gen) EXCEPT
                 !.exempt = allowed, !.paused = isolated,
                 !.no_cache = ~cur.in \/ isolated, !.waiters = <<w>>]
    IN  /\ \/ cur.in /\ ~isolated /\ \E s \in Joinable(cur.name) : Join(s, w)
           \/ \E s \in Slot, t \in Txid : Launch(s, t, f)
           \/ Free = {} /\ UNCHANGED <<flight, net>>
        /\ out' = {}
        /\ Done

AnswerFromCache ==
    /\ pc = "lookup" /\ cur.in /\ Hit(cur.name)
    /\ cache[cur.name].kind = "blocked" => ~cur.affected
    /\ out' = {Reply(Waiter(cur), cur.name, cache[cur.name].kind = "blocked")}
    /\ Done
    /\ UNCHANGED <<rulesVars, cache, flight, net>>

\* A cached block is right for everyone else, not for this client.
OverrideCachedBlock ==
    /\ pc = "lookup" /\ cur.in /\ Hit(cur.name)
    /\ cache[cur.name].kind = "blocked" /\ cur.affected
    /\ Forward(FALSE, TRUE)
    /\ UNCHANGED <<rulesVars, cache>>

\* Serve-stale, and at most one background refresh per stale entry while the
\* gate is armed; a full table leaves the gate open for the next hit.
ServeStale ==
    LET n == cur.name
        refresh == [NewFlight(n, cache[n].gen) EXCEPT !.refresh_only = TRUE]
        arm == cache' = [cache EXCEPT ![n].armed = TRUE]
    IN  /\ pc = "lookup" /\ cur.in /\ StaleHit(n)
        /\ out' = {Reply(Waiter(cur), n, FALSE)}
        /\ \/ cache[n].armed /\ UNCHANGED <<cache, flight, net>>
           \/ ~cache[n].armed /\ InFlight(n) /\ arm /\ UNCHANGED <<flight, net>>
           \/ /\ ~cache[n].armed /\ ~InFlight(n)
              /\ \/ Free = {} /\ UNCHANGED <<cache, flight, net>>
                 \/ arm /\ \E s \in Slot, t \in Txid : Launch(s, t, refresh)
        /\ Done
        /\ UNCHANGED rulesVars

Miss == /\ pc = "lookup"
        /\ cur.in => ~Hit(cur.name) /\ ~StaleHit(cur.name)
        /\ pc' = "verdict"
        /\ out' = {}
        /\ UNCHANGED <<rulesVars, cache, flight, net, cur>>

\* blocklist_verdict() reaches a verdict it can vouch for.
Proven == off \/ (live /\ lock = "free")

\* No snapshot, or the mutex still held after 2 ms: forward, and learn nothing.
DecideUnproven == /\ pc = "verdict" /\ cur.in /\ ~Proven
                  /\ Forward(FALSE, TRUE)
                  /\ UNCHANGED <<rulesVars, cache>>

DecideBlock ==
    /\ pc = "verdict" /\ cur.in /\ Proven /\ Blocks(cur.name)
    /\ Store(cur.name, "blocked", cur.gen, {cur.name})
    /\ \/ /\ ~cur.affected
          /\ out' = {Reply(Waiter(cur), cur.name, TRUE)}
          /\ Done
          /\ UNCHANGED <<flight, net>>
       \/ cur.affected /\ Forward(FALSE, TRUE)
    /\ UNCHANGED rulesVars

DecideForward ==
    /\ pc = "verdict" /\ cur.in /\ Proven /\ ~Blocks(cur.name)
    /\ Forward(~off /\ rule[cur.name] = "allow", cur.affected)
    /\ UNCHANGED <<rulesVars, cache>>

\* A query of another class skips cache and rules.
ForwardForeign == /\ pc = "verdict" /\ ~cur.in
                  /\ Forward(FALSE, FALSE)
                  /\ UNCHANGED <<rulesVars, cache>>

-----------------------------------------------------------------------------
(***************************************************************************)
(* An upstream reply (process_reply).                                      *)
(***************************************************************************)
\* A reply is accepted by the flight with its transaction id, if it answers
\* that flight's question.
\* Mutant: the question section is not compared.
AcceptsTxid(f, m) == f.in_use /\ f.txid = m.txid

Accepts(f, m) == f.in_use /\ f.txid = m.txid /\ f.name = m.name

\* Some name of the reply's chain is blocked, for a flight the rules apply to.
\* Mutant: the rules apply to a paused client's flight too.
CloakedThoughPaused(f, names) == /\ ~f.exempt
                                 /\ Proven
                                 /\ \E n \in names : Blocks(n)

Cloaked(f, names) == /\ ~f.paused /\ ~f.exempt
                     /\ Proven
                     /\ \E n \in names : Blocks(n)

\* What the cache learns from a reply: nothing from an isolated flight, a block
\* from a cloaked chain, else the reply itself unless it is truncated or a
\* server failure.
\* Mutant: stamped with the generation of the store, not of the verdict.
LearnStampedLate(f, names, cloaked, storable) ==
    \/ f.no_cache /\ UNCHANGED cache
    \/ ~f.no_cache /\ cloaked /\ Store(f.name, "blocked", gen, names)
    \/ ~f.no_cache /\ ~cloaked /\ storable /\ Store(f.name, "allowed", gen, names)
    \/ ~f.no_cache /\ ~cloaked /\ ~storable /\ UNCHANGED cache

Learn(f, names, cloaked, storable) ==
    \/ f.no_cache /\ UNCHANGED cache
    \/ ~f.no_cache /\ cloaked /\ Store(f.name, "blocked", f.gen, names)
    \/ ~f.no_cache /\ ~cloaked /\ storable /\ Store(f.name, "allowed", f.gen, names)
    \/ ~f.no_cache /\ ~cloaked /\ ~storable /\ UNCHANGED cache

\* The reply to query m, with "names" in its answer section, arrives: whoever
\* waits is served, the cache learns, the slot is freed.
Process(m, s, names, storable) ==
    LET f == flight[s]
        cloaked == Cloaked(f, names)
    IN  /\ pc = "idle"
        /\ m \in net
        /\ Accepts(f, m)
        /\ names = {} \/ m.name \in names
        /\ out' = IF f.refresh_only THEN {}
                  ELSE {Reply(f.waiters[i], m.name, cloaked) : i \in 1 .. Len(f.waiters)}
        /\ Learn(f, names, cloaked, storable)
        /\ flight' = [flight EXCEPT ![s] = ZeroSlot]
        /\ UNCHANGED <<rulesVars, net, pc, cur>>

-----------------------------------------------------------------------------
Edit == \/ \E h \in Holder : TakeLock(h)
        \/ EditRules
        \/ ReleaseLock
        \/ SetPaused
        \/ Unpublish
        \/ Publish
        \/ \E t \in Task : Bump(t)

Clock == \/ \E n \in Name : Expire(n) \/ Rearm(n) \/ Lapse(n)
         \/ \E s \in Slot : Grow(s) \/ Evict(s)

Query == \/ \E n \in QName, class \in Class, affected \in Affectable :
             Receive(n, class, affected)
         \/ AnswerFromCache
         \/ OverrideCachedBlock
         \/ ServeStale
         \/ Miss
         \/ DecideUnproven
         \/ DecideBlock
         \/ DecideForward
         \/ ForwardForeign

Upstream == \E m \in net, s \in Slot, names \in SUBSET Name, storable \in BOOLEAN :
               Process(m, s, names, storable)

Next == Edit \/ Clock \/ Query \/ Upstream

Spec == Init /\ [][Next]_vars

\* Time passes for every flight; dns_task finishes what it has begun; and each
\* turn of its loop starts with an eviction sweep before a bounded number of
\* datagrams is drained, so a flight that stays old is swept however busy the
\* sockets are.
Fairness == /\ \A s \in Slot : WF_vars(Grow(s)) /\ SF_vars(Evict(s))
            /\ WF_vars(pc # "idle" /\ Query)

FairSpec == Spec /\ Fairness

-----------------------------------------------------------------------------
(***************************************************************************)
(* Properties.                                                             *)
(***************************************************************************)
\* An entry that a lookup under the present generation would serve, while no
\* edit is between its change and its bump.
Current(g) == open = {} /\ g = gen

\* The stamp protocol (#85, #144).  No lookup serves an answer the rules in
\* force would not give: a servable ALLOW is for a name that is not blocked, a
\* servable BLOCK is for a question or a chain with a blocked name in it --
\* although the generation, the verdict and the store are an upstream round
\* trip apart and the rules may change in between.
CachedVerdictIsCurrent ==
    \A n \in Name : cache[n].kind # "none" /\ Current(cache[n].gen) =>
        IF cache[n].kind = "allowed" THEN ~Blocks(n)
                                     ELSE \E m \in cache[n].names : Blocks(m)

\* A reply for a paused, bypassed or unproven query is delivered to its own
\* requester only: nobody rides such a flight (#48, #106).
IsolatedFlightIsPrivate ==
    \A s \in Slot : flight[s].in_use /\ flight[s].no_cache =>
        Len(flight[s].waiters) = 1 /\ ~flight[s].refresh_only

\* A client that was paused or bypassed when it asked gets the real answer,
\* over every branch: cache, stale entry, ridden flight, cloaked chain (#48).
AffectedClientNeverBlocked == \A r \in out : r.affected => ~r.blocked

\* A client is only ever sent an answer to the question it asked, although
\* transaction ids and slots are recycled while old replies are in transit (H2).
AnswersTheQuestion == \A r \in out : r.got = r.asked

\* Two flights in the table never share a transaction id.
TxidsDistinct == \A s, u \in Slot : flight[s].in_use /\ flight[u].in_use /\ s # u =>
                     flight[s].txid # flight[u].txid

\* No slot of the table leaks: every flight ends, answered or evicted.
FlightsEnd == \A s \in Slot : flight[s].in_use ~> ~flight[s].in_use

\* What a lookup of n would answer from the cache, fresh or stale.
Served == [n \in Name |->
             IF /\ cache[n].kind # "none" /\ cache[n].gen = gen
                /\ cache[n].fresh \/ cache[n].kind = "allowed"
             THEN cache[n].kind ELSE "none"]

Flushing == INSTANCE FlushCache WITH cached <- Served

\* Stamping entries with a generation implements flushing the whole cache at
\* every edit.
ImplementsFlushing == Flushing!Spec

(***************************************************************************)
(* What comments and documents of the repository say of the engine, and    *)
(* runs refute; README.md, "Findings".                                     *)
(***************************************************************************)
\* "a user who explicitly allowed this name does not want a blocklisted CNAME
\* target to sinkhole it anyway" (UpstreamEntry::exempt): no servable BLOCK is
\* ever cached for a name whose own verdict is ALLOW.
AllowedNameNeverCachedBlocked ==
    \A n \in Name : cache[n].kind = "blocked" /\ Current(cache[n].gen) /\ ~off => rule[n] # "allow"

\* "A busy take yields NO_MATCH with .unproven set -- the caller must not cache
\* that answer" (blocklist.h): a servable ALLOW has a chain free of blocked
\* names, or its own name is explicitly allowed.
CachedChainIsProven ==
    \A n \in Name : cache[n].kind = "allowed" /\ Current(cache[n].gen) /\ lock # "editor" /\ live =>
        rule[n] = "allow" \/ \A m \in cache[n].names : ~Blocks(m)
=============================================================================
