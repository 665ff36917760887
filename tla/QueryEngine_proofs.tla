-------------------------- MODULE QueryEngine_proofs --------------------------
(***************************************************************************)
(* Proofs about QueryEngine, for every number of names, slots, ways and    *)
(* transaction ids, and every sequence of rule edits.                      *)
(***************************************************************************)
EXTENDS QueryEngine, TLAPS

USE NameAssumption, RulebookAssumption, BoundAssumption, ClassAssumption,
    HolderAssumption, AffectAssumption

-----------------------------------------------------------------------------
\* The records the actions build have their types.
LEMMA SomeNameType == SomeName \in Name
  BY DEF SomeName

LEMMA ZeroSlotType == ZeroSlot \in FlightType /\ ~ZeroSlot.in_use
  <1>1. (CHOOSE t \in Txid : TRUE) \in Txid
    OBVIOUS
  <1>2. <<>> \in Seq(WaiterType)
    OBVIOUS
  <1> QED BY <1>1, <1>2, SomeNameType DEF ZeroSlot, FlightType

LEMMA ZeroSlotEmpty == Len(ZeroSlot.waiters) <= MaxWait + 1
  BY DEF ZeroSlot

LEMMA WaiterTyped == ASSUME NEW q \in QueryType
                     PROVE  Waiter(q) \in WaiterType
  BY DEF Waiter, QueryType, WaiterType

LEMMA ReplyTyped == ASSUME NEW w \in WaiterType, NEW n \in Name, NEW b \in BOOLEAN
                    PROVE  Reply(w, n, b) \in ReplyType
  BY DEF Reply, ReplyType, WaiterType

LEMMA NewFlightTyped == ASSUME NEW n \in Name, NEW g \in 0 .. MaxGen
                        PROVE  NewFlight(n, g) \in FlightType
  BY ZeroSlotType DEF NewFlight, FlightType

LEMMA NoEntryTyped == NoEntry \in EntryType
  BY DEF NoEntry, EntryType

\* A store leaves a well-typed cache.
LEMMA StoreTyped ==
    ASSUME TypeOK, NEW n \in Name, NEW k \in {"allowed", "blocked"}, NEW g \in 0 .. MaxGen,
           NEW names \in SUBSET Name, Store(n, k, g, names)
    PROVE  cache' \in [Name -> EntryType]
  BY NoEntryTyped DEF Store, TypeOK, EntryType

\* So does launching a flight, and joining one.
LEMMA LaunchTyped ==
    ASSUME TypeOK, NEW s \in Slot, NEW t \in Txid, NEW f \in FlightType,
           Len(f.waiters) <= MaxWait + 1, Launch(s, t, f)
    PROVE  /\ flight' \in [Slot -> FlightType]
           /\ \A u \in Slot : Len(flight'[u].waiters) <= MaxWait + 1
           /\ net' \subseteq [txid : Txid, name : Name]
  <1>1. [f EXCEPT !.txid = t] \in FlightType /\ [f EXCEPT !.txid = t].waiters = f.waiters
    BY DEF FlightType
  <1>2. f.name \in Name
    BY DEF FlightType
  <1> QED BY <1>1, <1>2 DEF Launch, TypeOK

LEMMA JoinTyped ==
    ASSUME TypeOK, NEW n \in Name, NEW s \in Joinable(n), NEW w \in WaiterType, Join(s, w)
    PROVE  /\ flight' \in [Slot -> FlightType]
           /\ \A u \in Slot : Len(flight'[u].waiters) <= MaxWait + 1
           /\ net' \subseteq [txid : Txid, name : Name]
  <1>0. s \in Slot /\ Len(flight[s].waiters) < MaxWait + 1
    BY DEF Joinable
  <1>1. flight[s] \in FlightType /\ flight[s].waiters \in Seq(WaiterType)
    BY <1>0 DEF TypeOK, FlightType
  <1> DEFINE more == Append(flight[s].waiters, w)
  <1>2. more \in Seq(WaiterType) /\ Len(more) <= MaxWait + 1
    BY <1>0, <1>1
  <1>3. /\ [flight[s] EXCEPT !.waiters = more] \in FlightType
        /\ [flight[s] EXCEPT !.waiters = more].waiters = more
    <2> HIDE DEF more
    <2> QED BY <1>1, <1>2 DEF FlightType
  <1>4. flight' = [flight EXCEPT ![s] = [flight[s] EXCEPT !.waiters = more]]
    BY DEF Join, TypeOK
  <1>5. \A u \in Slot : Len(flight'[u].waiters) <= MaxWait + 1
    <2> HIDE DEF more
    <2> QED BY <1>0, <1>2, <1>3, <1>4 DEF TypeOK
  <1>6. flight' \in [Slot -> FlightType]
    <2> HIDE DEF more
    <2> QED BY <1>3, <1>4 DEF TypeOK
  <1> QED BY <1>5, <1>6 DEF Join, TypeOK

LEMMA ForwardTyped ==
    ASSUME TypeOK, NEW a \in BOOLEAN, NEW i \in BOOLEAN, Forward(a, i)
    PROVE  /\ flight' \in [Slot -> FlightType]
           /\ \A u \in Slot : Len(flight'[u].waiters) <= MaxWait + 1
           /\ net' \subseteq [txid : Txid, name : Name]
           /\ pc' = "idle" /\ cur' = NoQuery /\ out' = {}
  <1> DEFINE w == Waiter(cur)
             f == [NewFlight(cur.name, cur.gen) EXCEPT
                     !.exempt = a, !.paused = i, !.no_cache = ~cur.in \/ i, !.waiters = <<w>>]
  <1>1. cur \in QueryType /\ cur.name \in Name /\ cur.gen \in 0 .. MaxGen /\ cur.in \in BOOLEAN
    BY DEF TypeOK, QueryType
  <1>2. w \in WaiterType /\ <<w>> \in Seq(WaiterType)
    BY <1>1, WaiterTyped
  <1>3. NewFlight(cur.name, cur.gen) \in FlightType
    BY <1>1, NewFlightTyped
  <1>4. f \in FlightType /\ Len(f.waiters) <= MaxWait + 1
    <2>1. f \in FlightType /\ f.waiters = <<w>>
      BY <1>1, <1>2, <1>3 DEF FlightType
    <2>2. Len(<<w>>) <= MaxWait + 1
      BY <1>2
    <2> HIDE DEF f, w
    <2> QED BY <2>1, <2>2
  <1>5. pc' = "idle" /\ cur' = NoQuery /\ out' = {}
    BY DEF Forward, Done
  <1>6. CASE \E s \in Joinable(cur.name) : Join(s, w)
    <2> HIDE DEF w
    <2> QED BY <1>1, <1>2, <1>5, <1>6, JoinTyped
  <1>7. CASE \E s \in Slot, t \in Txid : Launch(s, t, f)
    <2> HIDE DEF f
    <2> QED BY <1>4, <1>5, <1>7, LaunchTyped
  <1>8. CASE UNCHANGED <<flight, net>>
    BY <1>5, <1>8 DEF TypeOK
  <1> QED BY <1>6, <1>7, <1>8 DEF Forward

LEMMA NoQueryTyped == NoQuery \in QueryType
  BY SomeNameType DEF NoQuery, QueryType

-----------------------------------------------------------------------------
\* Every step keeps every variable in its type.
LEMMA InitTyped == Init => TypeOK
  <1> SUFFICES ASSUME Init PROVE TypeOK
    OBVIOUS
  <1>1. cache \in [Name -> EntryType]
    BY NoEntryTyped DEF Init
  <1>2. flight \in [Slot -> FlightType] /\ \A s \in Slot : Len(flight[s].waiters) <= MaxWait + 1
    BY ZeroSlotType, ZeroSlotEmpty DEF Init
  <1>3. cur \in QueryType
    BY NoQueryTyped DEF Init
  <1>4. 0 \in 0 .. MaxGen
    OBVIOUS
  <1>5. net \subseteq [txid : Txid, name : Name] /\ out \subseteq ReplyType
    BY DEF Init
  <1>6. /\ rule \in Rulebook /\ off \in BOOLEAN /\ live \in BOOLEAN /\ gen \in 0 .. MaxGen
        /\ open \subseteq Task /\ lock \in {"free"} \cup Holder
        /\ pc \in {"idle", "lookup", "verdict"}
    BY <1>4 DEF Init
  <1> QED BY <1>1, <1>2, <1>3, <1>5, <1>6 DEF TypeOK

LEMMA EditTyped == TypeOK /\ Edit => TypeOK'
  <1> SUFFICES ASSUME TypeOK, Edit PROVE TypeOK'
    OBVIOUS
  <1>0. Task = {"loader", "httpd"} /\ gen \in Nat /\ gen >= 0
    BY DEF Task, TypeOK
  <1>1. CASE \E h \in Holder : TakeLock(h)
    BY <1>1 DEF TakeLock, TypeOK, dnsVars
  <1>2. CASE EditRules
    BY <1>0, <1>2 DEF EditRules, TypeOK, dnsVars
  <1>3. CASE ReleaseLock
    BY <1>3 DEF ReleaseLock, TypeOK, dnsVars
  <1>4. CASE SetPaused
    BY <1>0, <1>4 DEF SetPaused, TypeOK, dnsVars
  <1>5. CASE Unpublish
    BY <1>5 DEF Unpublish, TypeOK, dnsVars
  <1>6. CASE Publish
    BY <1>0, <1>6 DEF Publish, TypeOK, dnsVars
  <1>7. CASE \E t \in Task : Bump(t)
    BY <1>0, <1>7 DEF Bump, TypeOK, dnsVars
  <1> QED BY <1>1, <1>2, <1>3, <1>4, <1>5, <1>6, <1>7 DEF Edit

LEMMA ClockTyped == TypeOK /\ Clock => TypeOK'
  <1> SUFFICES ASSUME TypeOK, Clock PROVE TypeOK'
    OBVIOUS
  <1>1. CASE \E n \in Name : Expire(n) \/ Rearm(n) \/ Lapse(n)
    <2>1. PICK n \in Name : Expire(n) \/ Rearm(n) \/ Lapse(n)
      BY <1>1
    <2>2. cache[n] \in EntryType
      BY DEF TypeOK
    <2>3. /\ [cache[n] EXCEPT !.fresh = FALSE] \in EntryType
          /\ [cache[n] EXCEPT !.armed = FALSE] \in EntryType
      BY <2>2 DEF EntryType
    <2>4. cache' \in [Name -> EntryType]
      BY <2>1, <2>3, NoEntryTyped DEF Expire, Rearm, Lapse, TypeOK
    <2> QED BY <2>1, <2>4 DEF Expire, Rearm, Lapse, TypeOK, rulesVars
  <1>2. CASE \E s \in Slot : Grow(s) \/ Evict(s)
    <2>1. PICK s \in Slot : Grow(s) \/ Evict(s)
      BY <1>2
    <2>2. flight[s] \in FlightType
      BY DEF TypeOK
    <2>3. /\ [flight[s] EXCEPT !.age = "old"] \in FlightType
          /\ [flight[s] EXCEPT !.age = "old"].waiters = flight[s].waiters
      BY <2>2 DEF FlightType
    <2>4. flight' \in [Slot -> FlightType] /\ \A u \in Slot : Len(flight'[u].waiters) <= MaxWait + 1
      BY <2>1, <2>3, ZeroSlotType, ZeroSlotEmpty DEF Grow, Evict, TypeOK
    <2> QED BY <2>1, <2>4 DEF Grow, Evict, TypeOK, rulesVars
  <1> QED BY <1>1, <1>2 DEF Clock

LEMMA QueryTyped == TypeOK /\ Query => TypeOK'
  <1> SUFFICES ASSUME TypeOK, Query PROVE TypeOK'
    OBVIOUS
  <1>0. /\ cur \in QueryType /\ cur.name \in Name /\ cur.gen \in 0 .. MaxGen
        /\ cur.in \in BOOLEAN /\ cur.affected \in BOOLEAN /\ off \in BOOLEAN
    BY DEF TypeOK, QueryType
  <1>w. Waiter(cur) \in WaiterType
    BY <1>0, WaiterTyped
  <1>r. \A b \in BOOLEAN : {Reply(Waiter(cur), cur.name, b)} \subseteq ReplyType
    BY <1>0, <1>w, ReplyTyped
  <1>f. ASSUME NEW a \in BOOLEAN, NEW i \in BOOLEAN, Forward(a, i),
               UNCHANGED rulesVars, cache' \in [Name -> EntryType]
        PROVE  TypeOK'
    BY <1>f, ForwardTyped, NoQueryTyped DEF TypeOK, rulesVars
  <1>1. CASE \E n \in QName, class \in Class, affected \in Affectable :
                Receive(n, class, affected)
    <2>1. PICK n \in QName, class \in Class, affected \in Affectable :
                Receive(n, class, affected)
      BY <1>1
    <2>2. cur' \in QueryType
      BY <2>1 DEF Receive, QueryType, TypeOK
    <2> QED BY <2>1, <2>2 DEF Receive, TypeOK, rulesVars
  <1>2. CASE AnswerFromCache
    <2>1. (cache[cur.name].kind = "blocked") \in BOOLEAN
      OBVIOUS
    <2>2. out' \subseteq ReplyType
      BY <1>2, <1>r, <2>1 DEF AnswerFromCache
    <2> QED BY <1>2, <2>2, NoQueryTyped DEF AnswerFromCache, Done, TypeOK, rulesVars
  <1>3. CASE OverrideCachedBlock
    BY <1>3, <1>f DEF OverrideCachedBlock, TypeOK
  <1>4. CASE ServeStale
    <2> DEFINE n == cur.name
               r == [NewFlight(n, cache[n].gen) EXCEPT !.refresh_only = TRUE]
    <2>1. out' \subseteq ReplyType
      BY <1>4, <1>r DEF ServeStale
    <2>2. cache[n] \in EntryType /\ cache[n].gen \in 0 .. MaxGen
      BY <1>0 DEF TypeOK, EntryType
    <2>3. [cache[n] EXCEPT !.armed = TRUE] \in EntryType
      BY <2>2 DEF EntryType
    <2>4. cache' \in [Name -> EntryType]
      BY <1>4, <2>3 DEF ServeStale, TypeOK
    <2>5. r \in FlightType /\ Len(r.waiters) <= MaxWait + 1
      <3>1. NewFlight(n, cache[n].gen) \in FlightType /\ NewFlight(n, cache[n].gen).waiters = <<>>
        BY <1>0, <2>2, NewFlightTyped DEF NewFlight, ZeroSlot
      <3>2. r \in FlightType /\ r.waiters = <<>>
        BY <3>1 DEF FlightType
      <3> QED BY <3>2
    <2>6. UNCHANGED <<flight, net>> \/ \E s \in Slot, t \in Txid : Launch(s, t, r)
      BY <1>4 DEF ServeStale
    <2>7. /\ flight' \in [Slot -> FlightType]
          /\ \A u \in Slot : Len(flight'[u].waiters) <= MaxWait + 1
          /\ net' \subseteq [txid : Txid, name : Name]
      <3> HIDE DEF r
      <3> QED BY <2>5, <2>6, LaunchTyped DEF TypeOK
    <2> QED BY <1>4, <2>1, <2>4, <2>7, NoQueryTyped DEF ServeStale, Done, TypeOK, rulesVars
  <1>5. CASE Miss
    BY <1>5 DEF Miss, TypeOK, rulesVars
  <1>6. CASE DecideUnproven
    BY <1>6, <1>f DEF DecideUnproven, TypeOK
  <1>7. CASE DecideBlock
    <2>1. {cur.name} \in SUBSET Name
      BY <1>0
    <2>2. cache' \in [Name -> EntryType]
      BY <1>0, <1>7, <2>1, StoreTyped DEF DecideBlock
    <2>3. CASE cur.affected /\ Forward(FALSE, TRUE)
      BY <1>7, <1>f, <2>2, <2>3 DEF DecideBlock
    <2>4. CASE /\ out' = {Reply(Waiter(cur), cur.name, TRUE)}
               /\ Done /\ UNCHANGED <<flight, net>>
      <3>1. out' \subseteq ReplyType
        BY <2>4, <1>r
      <3> QED BY <1>7, <2>2, <2>4, <3>1, NoQueryTyped DEF DecideBlock, Done, TypeOK, rulesVars
    <2> QED BY <1>7, <2>3, <2>4 DEF DecideBlock
  <1>8. CASE DecideForward
    <2>1. (~off /\ rule[cur.name] = "allow") \in BOOLEAN
      OBVIOUS
    <2> QED BY <1>0, <1>8, <1>f, <2>1 DEF DecideForward, TypeOK
  <1>9. CASE ForwardForeign
    BY <1>9, <1>f DEF ForwardForeign, TypeOK
  <1> QED BY <1>1, <1>2, <1>3, <1>4, <1>5, <1>6, <1>7, <1>8, <1>9 DEF Query

LEMMA UpstreamTyped == TypeOK /\ Upstream => TypeOK'
  <1> SUFFICES ASSUME TypeOK,
                      NEW m \in net, NEW s \in Slot, NEW names \in SUBSET Name,
                      NEW storable \in BOOLEAN, Process(m, s, names, storable)
               PROVE  TypeOK'
    BY DEF Upstream
  <1> DEFINE f == flight[s]
             cloaked == Cloaked(f, names)
  <1>1. /\ f \in FlightType /\ f.name \in Name /\ f.gen \in 0 .. MaxGen
        /\ f.waiters \in Seq(WaiterType)
    BY DEF TypeOK, FlightType
  <1>2. m.name \in Name
    BY DEF TypeOK
  <1>3. cloaked \in BOOLEAN
    BY DEF Cloaked
  <1>4. out' \subseteq ReplyType
    <2> HIDE DEF cloaked
    <2>1. \A i \in 1 .. Len(f.waiters) : f.waiters[i] \in WaiterType
      BY <1>1
    <2>2. \A i \in 1 .. Len(f.waiters) : Reply(f.waiters[i], m.name, cloaked) \in ReplyType
      BY <1>2, <1>3, <2>1, ReplyTyped
    <2> QED BY <2>2 DEF Process, cloaked
  <1>5. Learn(f, names, cloaked, storable)
    BY DEF Process
  <1>6. cache' \in [Name -> EntryType]
    <2> HIDE DEF cloaked
    <2>1. CASE UNCHANGED cache
      BY <2>1 DEF TypeOK
    <2>2. CASE Store(f.name, "blocked", f.gen, names)
      BY <2>2, <1>1, StoreTyped
    <2>3. CASE Store(f.name, "allowed", f.gen, names)
      BY <2>3, <1>1, StoreTyped
    <2> QED BY <1>5, <2>1, <2>2, <2>3 DEF Learn
  <1>7. flight' \in [Slot -> FlightType] /\ \A u \in Slot : Len(flight'[u].waiters) <= MaxWait + 1
    BY ZeroSlotType, ZeroSlotEmpty DEF Process, TypeOK
  <1> QED BY <1>4, <1>6, <1>7 DEF Process, TypeOK, rulesVars

\* Type correctness: TypeOK holds in every reachable state of the engine.
THEOREM TypeCorrect == Spec => []TypeOK
  <1>1. TypeOK /\ [Next]_vars => TypeOK'
    <2> SUFFICES ASSUME TypeOK, [Next]_vars PROVE TypeOK'
      OBVIOUS
    <2>1. CASE UNCHANGED vars
      BY <2>1 DEF vars, TypeOK
    <2> QED BY <2>1, EditTyped, ClockTyped, QueryTyped, UpstreamTyped DEF Next
  <1> QED BY <1>1, InitTyped, PTL DEF Spec

-----------------------------------------------------------------------------
(***************************************************************************)
(* Who waits on a flight.  FlightOK strengthens IsolatedFlightIsPrivate    *)
(* with what the waiters of a flight have in common, which is what makes a *)
(* reply fanned out to all of them right for each.                         *)
(***************************************************************************)
FlightOK(f) ==
    f.in_use => /\ f.no_cache => Len(f.waiters) = 1 /\ ~f.refresh_only
                /\ \A i \in 1 .. Len(f.waiters) :
                      /\ f.waiters[i].name = f.name
                      /\ f.waiters[i].affected => f.paused

WaitersInv == /\ TypeOK
              /\ cur.affected => cur.in
              /\ \A s \in Slot : FlightOK(flight[s])
              /\ AffectedClientNeverBlocked
              /\ AnswersTheQuestion

\* A flight without in_use is vacuously OK, and so is the zeroed slot.
LEMMA ZeroSlotOK == FlightOK(ZeroSlot)
  BY ZeroSlotType DEF FlightOK

LEMMA JoinOK ==
    ASSUME WaitersInv, NEW s \in Joinable(cur.name), NEW a \in BOOLEAN,
           ~cur.affected, Join(s, Waiter(cur))
    PROVE  \A u \in Slot : FlightOK(flight'[u])
  <1> DEFINE w == Waiter(cur)
  <1>1. s \in Slot /\ flight[s].name = cur.name /\ ~flight[s].no_cache
    BY DEF Joinable
  <1>2. flight \in [Slot -> FlightType] /\ flight[s] \in FlightType
        /\ flight[s].waiters \in Seq(WaiterType)
    BY <1>1 DEF WaitersInv, TypeOK, FlightType
  <1>3. w \in WaiterType /\ w.name = cur.name /\ w.affected = cur.affected
    BY WaiterTyped DEF WaitersInv, TypeOK, Waiter
  <1>4. flight' = [flight EXCEPT ![s] = [flight[s] EXCEPT !.waiters = Append(flight[s].waiters, w)]]
    BY <1>2 DEF Join
  <1>5. FlightOK(flight'[s])
    <2> HIDE DEF w
    <2>1. flight'[s] = [flight[s] EXCEPT !.waiters = Append(flight[s].waiters, w)]
      BY <1>1, <1>2, <1>4
    <2>2. /\ flight'[s].name = flight[s].name /\ flight'[s].no_cache = flight[s].no_cache
          /\ flight'[s].paused = flight[s].paused /\ flight'[s].in_use = flight[s].in_use
          /\ flight'[s].waiters = Append(flight[s].waiters, w)
      BY <1>2, <2>1 DEF FlightType
    <2>3. FlightOK(flight[s])
      BY <1>1 DEF WaitersInv
    <2>4. \A i \in 1 .. Len(flight'[s].waiters) :
             flight'[s].waiters[i] = IF i = Len(flight[s].waiters) + 1 THEN w
                                                                  ELSE flight[s].waiters[i]
      BY <1>2, <1>3, <2>2
    <2>5. Len(flight'[s].waiters) = Len(flight[s].waiters) + 1
      BY <1>2, <1>3, <2>2
    <2> QED BY <1>1, <1>2, <1>3, <2>2, <2>3, <2>4, <2>5 DEF FlightOK
  <1>6. \A u \in Slot : u # s => flight'[u] = flight[u]
    BY <1>2, <1>4
  <1> QED BY <1>5, <1>6 DEF WaitersInv

LEMMA LaunchOK ==
    ASSUME TypeOK, \A s \in Slot : FlightOK(flight[s]),
           NEW s \in Slot, NEW t \in Txid, NEW f \in FlightType, FlightOK(f), Launch(s, t, f)
    PROVE  \A u \in Slot : FlightOK(flight'[u])
  <1>1. FlightOK([f EXCEPT !.txid = t])
    <2>1. /\ [f EXCEPT !.txid = t].in_use = f.in_use
          /\ [f EXCEPT !.txid = t].no_cache = f.no_cache
          /\ [f EXCEPT !.txid = t].waiters = f.waiters
          /\ [f EXCEPT !.txid = t].refresh_only = f.refresh_only
          /\ [f EXCEPT !.txid = t].name = f.name
          /\ [f EXCEPT !.txid = t].paused = f.paused
      BY DEF FlightType
    <2> QED BY <2>1 DEF FlightOK
  <1> QED BY <1>1 DEF Launch, TypeOK

LEMMA ForwardOK ==
    ASSUME WaitersInv, NEW a \in BOOLEAN, NEW i \in BOOLEAN, cur.affected => i, Forward(a, i)
    PROVE  \A s \in Slot : FlightOK(flight'[s])
  <1> DEFINE w == Waiter(cur)
             f == [NewFlight(cur.name, cur.gen) EXCEPT
                     !.exempt = a, !.paused = i, !.no_cache = ~cur.in \/ i, !.waiters = <<w>>]
  <1>1. TypeOK /\ cur \in QueryType /\ cur.name \in Name /\ cur.gen \in 0 .. MaxGen
        /\ cur.in \in BOOLEAN
    BY DEF WaitersInv, TypeOK, QueryType
  <1>2. w \in WaiterType /\ <<w>> \in Seq(WaiterType) /\ w.name = cur.name
        /\ w.affected = cur.affected
    BY <1>1, WaiterTyped DEF Waiter
  <1>3. NewFlight(cur.name, cur.gen) \in FlightType
    BY <1>1, NewFlightTyped
  <1>4. f \in FlightType
    BY <1>1, <1>2, <1>3 DEF FlightType
  <1>5. f.name = cur.name /\ f.paused = i /\ ~f.refresh_only /\ f.waiters = <<w>>
    BY <1>3 DEF FlightType, NewFlight, ZeroSlot
  <1>6. FlightOK(f)
    <2> HIDE DEF f, w
    <2> QED BY <1>2, <1>5 DEF FlightOK
  <1>7. CASE ~i /\ \E s \in Joinable(cur.name) : Join(s, w)
    BY <1>7, JoinOK
  <1>8. CASE \E s \in Slot, t \in Txid : Launch(s, t, f)
    <2> HIDE DEF f
    <2> QED BY <1>1, <1>4, <1>6, <1>8, LaunchOK DEF WaitersInv
  <1>9. CASE UNCHANGED flight
    BY <1>9 DEF WaitersInv
  <1> QED BY <1>7, <1>8, <1>9 DEF Forward

LEMMA QueryWaiters == WaitersInv /\ TypeOK' /\ Query => WaitersInv'
  <1> SUFFICES ASSUME WaitersInv, TypeOK', Query PROVE WaitersInv'
    OBVIOUS
  <1>0. /\ TypeOK /\ cur \in QueryType /\ cur.in \in BOOLEAN /\ cur.affected \in BOOLEAN
        /\ cur.name \in Name /\ cur.gen \in 0 .. MaxGen
    BY DEF WaitersInv, TypeOK, QueryType
  <1>n. ~NoQuery.affected
    BY DEF NoQuery
  \* Sending nothing, or one reply to the query in hand, that does not block an
  \* affected client.
  <1>a. ASSUME NEW b \in BOOLEAN, b => ~cur.affected,
               out' = {Reply(Waiter(cur), cur.name, b)}
        PROVE  AffectedClientNeverBlocked' /\ AnswersTheQuestion'
    BY <1>a DEF AffectedClientNeverBlocked, AnswersTheQuestion, Reply, Waiter
  <1>b. ASSUME out' = {} PROVE AffectedClientNeverBlocked' /\ AnswersTheQuestion'
    BY <1>b DEF AffectedClientNeverBlocked, AnswersTheQuestion
  <1>f. ASSUME NEW a \in BOOLEAN, NEW i \in BOOLEAN, cur.affected => i, Forward(a, i)
        PROVE  WaitersInv'
    <2>1. out' = {} /\ cur' = NoQuery
      BY <1>f DEF Forward, Done
    <2> QED BY <1>b, <1>f, <1>n, <2>1, ForwardOK DEF WaitersInv
  <1>1. CASE \E n \in QName, class \in Class, affected \in Affectable :
                Receive(n, class, affected)
    <2>1. out' = {} /\ flight' = flight /\ (cur'.affected => cur'.in)
      BY <1>1 DEF Receive
    <2> QED BY <1>b, <2>1 DEF WaitersInv
  <1>2. CASE AnswerFromCache
    <2> DEFINE b == cache[cur.name].kind = "blocked"
    <2>1. b \in BOOLEAN /\ (b => ~cur.affected)
          /\ out' = {Reply(Waiter(cur), cur.name, b)}
          /\ cur' = NoQuery /\ flight' = flight
      BY <1>2 DEF AnswerFromCache, Done
    <2> HIDE DEF b
    <2>2. AffectedClientNeverBlocked' /\ AnswersTheQuestion'
      BY <1>a, <2>1
    <2> QED BY <1>n, <2>1, <2>2 DEF WaitersInv
  <1>3. CASE OverrideCachedBlock
    BY <1>3, <1>f DEF OverrideCachedBlock
  <1>4. CASE ServeStale
    <2> DEFINE n == cur.name
               r == [NewFlight(n, cache[n].gen) EXCEPT !.refresh_only = TRUE]
    <2>1. out' = {Reply(Waiter(cur), n, FALSE)} /\ cur' = NoQuery
      BY <1>4 DEF ServeStale, Done
    <2>2. cache[n].gen \in 0 .. MaxGen
      BY <1>0 DEF TypeOK, EntryType
    <2>3. NewFlight(n, cache[n].gen) \in FlightType
      BY <1>0, <2>2, NewFlightTyped
    <2>4. r \in FlightType /\ r.waiters = <<>> /\ r.no_cache = FALSE
      BY <2>3 DEF FlightType, NewFlight, ZeroSlot
    <2>5. UNCHANGED flight \/ \E s \in Slot, t \in Txid : Launch(s, t, r)
      BY <1>4 DEF ServeStale
    <2>6. \A s \in Slot : FlightOK(flight'[s])
      <3> HIDE DEF r
      <3>1. FlightOK(r)
        BY <2>4 DEF FlightOK
      <3> QED BY <1>0, <2>4, <2>5, <3>1, LaunchOK DEF WaitersInv
    <2> QED BY <1>a, <1>n, <2>1, <2>6 DEF WaitersInv
  <1>5. CASE Miss
    BY <1>5, <1>b DEF Miss, WaitersInv
  <1>6. CASE DecideUnproven
    BY <1>6, <1>f DEF DecideUnproven
  <1>7. CASE DecideBlock
    <2>1. CASE cur.affected /\ Forward(FALSE, TRUE)
      BY <2>1, <1>f
    <2>2. CASE /\ ~cur.affected
               /\ out' = {Reply(Waiter(cur), cur.name, TRUE)}
               /\ Done /\ UNCHANGED <<flight, net>>
      BY <1>a, <1>n, <2>2 DEF Done, WaitersInv
    <2> QED BY <1>7, <2>1, <2>2 DEF DecideBlock
  <1>8. CASE DecideForward
    <2>1. (~off /\ rule[cur.name] = "allow") \in BOOLEAN
      OBVIOUS
    <2> QED BY <1>0, <1>8, <1>f, <2>1 DEF DecideForward
  <1>9. CASE ForwardForeign
    BY <1>9, <1>f DEF ForwardForeign, WaitersInv
  <1> QED BY <1>1, <1>2, <1>3, <1>4, <1>5, <1>6, <1>7, <1>8, <1>9 DEF Query

LEMMA UpstreamWaiters == WaitersInv /\ TypeOK' /\ Upstream => WaitersInv'
  <1> SUFFICES ASSUME WaitersInv, TypeOK',
                      NEW m \in net, NEW s \in Slot, NEW names \in SUBSET Name,
                      NEW storable \in BOOLEAN, Process(m, s, names, storable)
               PROVE  WaitersInv'
    BY DEF Upstream
  <1> DEFINE f == flight[s]
             cloaked == Cloaked(f, names)
  <1>1. /\ TypeOK /\ f \in FlightType /\ f.waiters \in Seq(WaiterType)
        /\ f.in_use /\ FlightOK(f) /\ m.name = f.name
    BY DEF Process, Accepts, WaitersInv, TypeOK, FlightType
  <1>2. cloaked => ~f.paused
    BY DEF Cloaked
  <1>3. out' \subseteq {Reply(f.waiters[i], m.name, cloaked) : i \in 1 .. Len(f.waiters)}
    <2> HIDE DEF cloaked
    <2> QED BY DEF Process, cloaked
  <1>4. ASSUME NEW i \in 1 .. Len(f.waiters), NEW r, r = Reply(f.waiters[i], m.name, cloaked)
        PROVE  (r.affected => ~r.blocked) /\ r.got = r.asked
    <2> HIDE DEF cloaked
    <2> QED BY <1>1, <1>2, <1>4 DEF FlightOK, Reply
  <1>5. AffectedClientNeverBlocked' /\ AnswersTheQuestion'
    <2> HIDE DEF cloaked
    <2> QED BY <1>3, <1>4 DEF AffectedClientNeverBlocked, AnswersTheQuestion
  <1>6. \A u \in Slot : FlightOK(flight'[u])
    BY <1>1, ZeroSlotOK DEF Process, WaitersInv, TypeOK
  <1> QED BY <1>5, <1>6 DEF Process, WaitersInv

LEMMA ClockWaiters == WaitersInv /\ TypeOK' /\ Clock => WaitersInv'
  <1> SUFFICES ASSUME WaitersInv, TypeOK', Clock PROVE WaitersInv'
    OBVIOUS
  <1>1. out' = {} /\ cur' = cur
    BY DEF Clock, Expire, Rearm, Lapse, Grow, Evict
  <1>2. \A u \in Slot : FlightOK(flight'[u])
    <2>1. CASE \E n \in Name : Expire(n) \/ Rearm(n) \/ Lapse(n)
      BY <2>1 DEF Expire, Rearm, Lapse, WaitersInv
    <2>2. ASSUME NEW s \in Slot, Grow(s) PROVE \A u \in Slot : FlightOK(flight'[u])
      <3>1. flight \in [Slot -> FlightType]
        BY DEF WaitersInv, TypeOK
      <3>2. FlightOK([flight[s] EXCEPT !.age = "old"])
        BY <3>1 DEF WaitersInv, FlightOK, FlightType
      <3> QED BY <2>2, <3>1, <3>2 DEF Grow, WaitersInv
    <2>3. ASSUME NEW s \in Slot, Evict(s) PROVE \A u \in Slot : FlightOK(flight'[u])
      BY <2>3, ZeroSlotOK DEF Evict, WaitersInv, TypeOK
    <2> QED BY <2>1, <2>2, <2>3 DEF Clock
  <1> QED BY <1>1, <1>2 DEF WaitersInv, AffectedClientNeverBlocked, AnswersTheQuestion

LEMMA EditWaiters == WaitersInv /\ TypeOK' /\ Edit => WaitersInv'
  <1> SUFFICES ASSUME WaitersInv, TypeOK', Edit PROVE WaitersInv'
    OBVIOUS
  <1>1. out' = {} /\ cur' = cur /\ flight' = flight
    BY DEF Edit, TakeLock, EditRules, ReleaseLock, SetPaused, Unpublish, Publish, Bump, dnsVars
  <1> QED BY <1>1 DEF WaitersInv, AffectedClientNeverBlocked, AnswersTheQuestion

\* The invariant of the waiters holds in every reachable state.
THEOREM WaitersInvariant == Spec => []WaitersInv
  <1>1. Init => WaitersInv
    BY InitTyped, ZeroSlotOK
       DEF Init, WaitersInv, NoQuery, AffectedClientNeverBlocked, AnswersTheQuestion
  <1>2. WaitersInv /\ TypeOK' /\ [Next]_vars => WaitersInv'
    <2>1. WaitersInv /\ UNCHANGED vars => WaitersInv'
      BY DEF vars, WaitersInv, TypeOK, AffectedClientNeverBlocked, AnswersTheQuestion
    <2> QED BY <2>1, EditWaiters, ClockWaiters, QueryWaiters, UpstreamWaiters DEF Next
  <1> QED BY <1>1, <1>2, TypeCorrect, PTL DEF Spec

\* Nobody rides an isolated flight: a reply fetched for a paused, bypassed or
\* unproven query goes to its own requester only (UpstreamEntry::no_cache).
THEOREM IsolatedFlightsArePrivate == Spec => []IsolatedFlightIsPrivate
  <1>1. WaitersInv => IsolatedFlightIsPrivate
    BY DEF WaitersInv, FlightOK, IsolatedFlightIsPrivate
  <1> QED BY <1>1, WaitersInvariant, PTL

\* A paused or bypassed client is never sent a blocked reply, on any path.
THEOREM AffectedClientsNeverBlocked == Spec => []AffectedClientNeverBlocked
  BY WaitersInvariant, PTL DEF WaitersInv

\* Every reply answers the question of the requester it is sent to.
THEOREM RepliesAnswerTheQuestion == Spec => []AnswersTheQuestion
  BY WaitersInvariant, PTL DEF WaitersInv

-----------------------------------------------------------------------------
(***************************************************************************)
(* Transaction ids: TxidsDistinct is inductive once every step's effect on *)
(* the table is known.                                                     *)
(***************************************************************************)
\* A step leaves in_use and txid of every slot alone, frees one, or launches a
\* flight under an id no flight in the table has.
TableStep == \/ \A u \in Slot : flight'[u].in_use => /\ flight[u].in_use
                                                     /\ flight'[u].txid = flight[u].txid
             \/ \E s \in Slot : /\ ~TxidInUse(flight'[s].txid)
                                /\ \A u \in Slot \ {s} : flight'[u] = flight[u]

LEMMA LaunchTableStep ==
    ASSUME TypeOK, NEW s \in Slot, NEW t \in Txid, NEW f \in FlightType, Launch(s, t, f)
    PROVE  TableStep
  <1>1. flight'[s].txid = t
    BY DEF Launch, TypeOK, FlightType
  <1> QED BY <1>1 DEF Launch, TypeOK, TableStep

LEMMA ForwardTableStep ==
    ASSUME TypeOK, NEW a \in BOOLEAN, NEW i \in BOOLEAN, Forward(a, i)
    PROVE  TableStep
  <1> DEFINE w == Waiter(cur)
             f == [NewFlight(cur.name, cur.gen) EXCEPT
                     !.exempt = a, !.paused = i, !.no_cache = ~cur.in \/ i, !.waiters = <<w>>]
  <1>1. cur \in QueryType /\ cur.name \in Name /\ cur.gen \in 0 .. MaxGen /\ cur.in \in BOOLEAN
    BY DEF TypeOK, QueryType
  <1>2. w \in WaiterType /\ <<w>> \in Seq(WaiterType)
    BY <1>1, WaiterTyped
  <1>3. NewFlight(cur.name, cur.gen) \in FlightType
    BY <1>1, NewFlightTyped
  <1>4. f \in FlightType
    BY <1>1, <1>2, <1>3 DEF FlightType
  <1>5. ASSUME NEW s \in Joinable(cur.name), Join(s, w) PROVE TableStep
    <2> HIDE DEF w
    <2>1. s \in Slot
      BY DEF Joinable
    <2>2. \A u \in Slot : flight[u] \in FlightType
      BY DEF TypeOK
    <2>3. \A u \in Slot : /\ flight'[u].in_use = flight[u].in_use
                          /\ flight'[u].txid = flight[u].txid
      BY <1>5, <2>1, <2>2 DEF Join, TypeOK, FlightType
    <2> QED BY <2>3 DEF TableStep
  <1>6. CASE \E s \in Slot, t \in Txid : Launch(s, t, f)
    <2> HIDE DEF f
    <2> QED BY <1>4, <1>6, LaunchTableStep
  <1>7. CASE UNCHANGED flight
    BY <1>7 DEF TableStep
  <1> QED BY <1>5, <1>6, <1>7 DEF Forward

LEMMA NextTableStep == TypeOK /\ [Next]_vars => TableStep
  <1> SUFFICES ASSUME TypeOK, [Next]_vars PROVE TableStep
    OBVIOUS
  <1>u. ASSUME flight' = flight PROVE TableStep
    BY <1>u DEF TableStep
  <1>z. ASSUME NEW s \in Slot, flight' = [flight EXCEPT ![s] = ZeroSlot] PROVE TableStep
    BY <1>z, ZeroSlotType DEF TableStep, TypeOK
  <1>f. ASSUME NEW a \in BOOLEAN, NEW i \in BOOLEAN, Forward(a, i) PROVE TableStep
    BY <1>f, ForwardTableStep
  <1>1. CASE Edit
    BY <1>1, <1>u DEF Edit, TakeLock, EditRules, ReleaseLock, SetPaused, Unpublish, Publish,
                      Bump, dnsVars
  <1>2. CASE \E n \in Name : Expire(n) \/ Rearm(n) \/ Lapse(n)
    BY <1>2, <1>u DEF Expire, Rearm, Lapse
  <1>3. CASE \E s \in Slot : Grow(s)
    BY <1>3 DEF Grow, TableStep, TypeOK, FlightType
  <1>4. CASE \E s \in Slot : Evict(s)
    BY <1>4, <1>z DEF Evict
  <1>5. CASE Upstream
    BY <1>5, <1>z DEF Upstream, Process
  <1>6. CASE ServeStale
    <2> DEFINE n == cur.name
               r == [NewFlight(n, cache[n].gen) EXCEPT !.refresh_only = TRUE]
    <2>1. n \in Name /\ cache[n].gen \in 0 .. MaxGen
      BY DEF TypeOK, EntryType, QueryType
    <2>2. NewFlight(n, cache[n].gen) \in FlightType
      BY <2>1, NewFlightTyped
    <2>3. r \in FlightType
      BY <2>2 DEF FlightType
    <2>4. UNCHANGED flight \/ \E s \in Slot, t \in Txid : Launch(s, t, r)
      BY <1>6 DEF ServeStale
    <2> HIDE DEF r
    <2> QED BY <1>u, <2>3, <2>4, LaunchTableStep
  <1>7. CASE Query /\ ~ServeStale
    <2>1. (~off /\ rule[cur.name] = "allow") \in BOOLEAN /\ cur.affected \in BOOLEAN
      BY DEF TypeOK, QueryType
    <2> QED BY <1>7, <1>u, <1>f, <2>1
               DEF Query, Receive, AnswerFromCache, OverrideCachedBlock, Miss,
                   DecideUnproven, DecideBlock, DecideForward, ForwardForeign
  <1> QED BY <1>1, <1>2, <1>3, <1>4, <1>5, <1>6, <1>7, <1>u DEF Next, Clock, vars

\* Two live flights never share a transaction id, however slots and ids are
\* recycled (upstream_alloc, txid_in_use).
THEOREM TxidsStayDistinct == Spec => []TxidsDistinct
  <1>1. Init => TxidsDistinct
    BY ZeroSlotType DEF Init, TxidsDistinct
  <1>2. TxidsDistinct /\ TypeOK /\ [Next]_vars => TxidsDistinct'
    <2> SUFFICES ASSUME TxidsDistinct, TypeOK, TableStep PROVE TxidsDistinct'
      BY NextTableStep
    <2>1. CASE \A u \in Slot : flight'[u].in_use => /\ flight[u].in_use
                                                    /\ flight'[u].txid = flight[u].txid
      BY <2>1 DEF TxidsDistinct
    <2>2. CASE \E s \in Slot : /\ ~TxidInUse(flight'[s].txid)
                               /\ \A u \in Slot \ {s} : flight'[u] = flight[u]
      BY <2>2 DEF TxidsDistinct, TxidInUse
    <2> QED BY <2>1, <2>2 DEF TableStep
  <1> QED BY <1>1, <1>2, TypeCorrect, PTL DEF Spec

-----------------------------------------------------------------------------
(***************************************************************************)
(* The stamp protocol.  An answer crosses from the verdict to the cache on *)
(* a flight, so CachedVerdictIsCurrent needs two more facts: no stamp is   *)
(* from the future, and a cacheable flight under the present generation is *)
(* for a name the rules in force do not block.                             *)
(***************************************************************************)
StampsInPast == /\ \A n \in Name : cache[n].gen <= gen
                /\ \A s \in Slot : flight[s].gen <= gen
                /\ cur.gen <= gen

FlightsAuthorised ==
    \A s \in Slot : /\ flight[s].in_use
                    /\ ~flight[s].no_cache
                    /\ Current(flight[s].gen)
                    => ~Blocks(flight[s].name)

StampInv == /\ TypeOK
            /\ StampsInPast
            /\ FlightsAuthorised
            /\ CachedVerdictIsCurrent

\* A step that makes new rules visible, or one that bumps, leaves no stamp
\* current: either an edit is open or every stamp is behind the counter.
LEMMA OutdatedStamps ==
    ASSUME StampInv, TypeOK', UNCHANGED <<cache, flight, cur>>,
           \/ gen' = gen + 1
           \/ gen' = gen /\ open' # {}
    PROVE  StampInv'
  <1>1. /\ gen \in Nat
        /\ \A n \in Name : cache[n].gen \in Nat
        /\ \A s \in Slot : flight[s].gen \in Nat
        /\ cur.gen \in Nat
    BY DEF StampInv, TypeOK, EntryType, FlightType, QueryType
  <1>2. StampsInPast'
    BY <1>1 DEF StampInv, StampsInPast
  <1>3. /\ \A n \in Name : ~Current(cache[n].gen)'
        /\ \A s \in Slot : ~Current(flight[s].gen)'
    BY <1>1 DEF StampInv, StampsInPast, Current
  <1> QED BY <1>2, <1>3 DEF StampInv, FlightsAuthorised, CachedVerdictIsCurrent

LEMMA EditStamps == StampInv /\ TypeOK' /\ Edit => StampInv'
  <1> SUFFICES ASSUME StampInv, TypeOK', Edit PROVE StampInv'
    OBVIOUS
  <1>1. UNCHANGED <<cache, flight, cur>>
    BY DEF Edit, TakeLock, EditRules, ReleaseLock, SetPaused, Unpublish, Publish, Bump, dnsVars
  <1>2. CASE UNCHANGED <<rule, off, gen, open>>
    BY <1>1, <1>2 DEF StampInv, StampsInPast, FlightsAuthorised, CachedVerdictIsCurrent,
                      Current, Blocks
  <1>3. CASE EditRules \/ SetPaused \/ Publish \/ \E t \in Task : Bump(t)
    <2>1. gen' = gen + 1 \/ (gen' = gen /\ open' # {})
      BY <1>3 DEF EditRules, SetPaused, Publish, Bump
    <2> QED BY <1>1, <2>1, OutdatedStamps
  <1>4. (\E h \in Holder : TakeLock(h)) \/ ReleaseLock \/ Unpublish => UNCHANGED <<rule, off, gen, open>>
    BY DEF TakeLock, ReleaseLock, Unpublish
  <1> QED BY <1>2, <1>3, <1>4 DEF Edit

\* A store under a stamp keeps the invariant if what it stores is right under
\* the present generation.
LEMMA StoreStamps ==
    ASSUME StampInv, UNCHANGED rulesVars,
           NEW n \in Name, NEW k \in {"allowed", "blocked"}, NEW g \in 0 .. MaxGen,
           NEW names \in SUBSET Name, Store(n, k, g, names), g <= gen,
           Current(g) => IF k = "allowed" THEN ~Blocks(n) ELSE \E m \in names : Blocks(m)
    PROVE  (\A m \in Name : cache'[m].gen <= gen') /\ CachedVerdictIsCurrent'
  <1>1. PICK lost \in Victims(n) :
          cache' = [m \in Name |->
                      IF m = n THEN [kind |-> k, gen |-> g, names |-> names,
                                     fresh |-> TRUE, armed |-> FALSE]
                      ELSE IF m \in lost THEN NoEntry ELSE cache[m]]
    BY DEF Store
  <1>2. gen \in Nat /\ 0 <= gen
    BY DEF StampInv, TypeOK
  <1>3. \A m \in Name : cache'[m].gen <= gen
    BY <1>1, <1>2 DEF NoEntry, StampInv, StampsInPast
  <1>4. UNCHANGED <<rule, off, gen, open>>
    BY DEF rulesVars
  <1>5. ASSUME NEW m \in Name, cache'[m].kind # "none", Current(cache'[m].gen)
        PROVE  IF cache'[m].kind = "allowed" THEN ~Blocks(m)
                                             ELSE \E x \in cache'[m].names : Blocks(x)
    <2>1. CASE m = n
      BY <1>1, <1>5, <2>1
    <2>2. CASE m # n
      <3>1. cache'[m] = cache[m]
        BY <1>1, <1>5, <2>2 DEF NoEntry
      <3> QED BY <1>5, <3>1 DEF StampInv, CachedVerdictIsCurrent
    <2> QED BY <2>1, <2>2
  <1>6. CachedVerdictIsCurrent'
    BY <1>4, <1>5 DEF CachedVerdictIsCurrent, Current, Blocks
  <1> QED BY <1>3, <1>4, <1>6

LEMMA LaunchStamps ==
    ASSUME StampInv, UNCHANGED rulesVars,
           NEW s \in Slot, NEW t \in Txid, NEW f \in FlightType, Launch(s, t, f), f.gen <= gen,
           f.in_use /\ ~f.no_cache /\ Current(f.gen) => ~Blocks(f.name)
    PROVE  (\A u \in Slot : flight'[u].gen <= gen') /\ FlightsAuthorised'
  <1>1. flight' = [flight EXCEPT ![s] = [f EXCEPT !.txid = t]]
    BY DEF Launch
  <1>2. flight \in [Slot -> FlightType]
    BY DEF StampInv, TypeOK
  <1>3. flight'[s] = [f EXCEPT !.txid = t] /\ \A u \in Slot : u # s => flight'[u] = flight[u]
    BY <1>1, <1>2
  <1>4. /\ flight'[s].gen = f.gen /\ flight'[s].in_use = f.in_use
        /\ flight'[s].no_cache = f.no_cache /\ flight'[s].name = f.name
    BY <1>3 DEF FlightType
  <1>5. UNCHANGED <<rule, off, gen, open>>
    BY DEF rulesVars
  <1> QED BY <1>3, <1>4, <1>5 DEF StampInv, StampsInPast, FlightsAuthorised, Current, Blocks

LEMMA ForwardStamps ==
    ASSUME StampInv, UNCHANGED rulesVars, NEW a \in BOOLEAN, NEW i \in BOOLEAN, Forward(a, i),
           cur.in /\ ~i /\ Current(cur.gen) => ~Blocks(cur.name)
    PROVE  (\A u \in Slot : flight'[u].gen <= gen') /\ FlightsAuthorised' /\ cur'.gen <= gen'
  <1> DEFINE w == Waiter(cur)
             f == [NewFlight(cur.name, cur.gen) EXCEPT
                     !.exempt = a, !.paused = i, !.no_cache = ~cur.in \/ i, !.waiters = <<w>>]
  <1>1. /\ cur \in QueryType /\ cur.name \in Name /\ cur.gen \in 0 .. MaxGen /\ cur.in \in BOOLEAN
        /\ gen \in Nat /\ gen' = gen
    BY DEF StampInv, TypeOK, QueryType, rulesVars
  <1>2. w \in WaiterType /\ <<w>> \in Seq(WaiterType)
    BY <1>1, WaiterTyped
  <1>3. NewFlight(cur.name, cur.gen) \in FlightType
        /\ NewFlight(cur.name, cur.gen).name = cur.name
        /\ NewFlight(cur.name, cur.gen).gen = cur.gen
    BY <1>1, NewFlightTyped DEF NewFlight, ZeroSlot
  <1>4. /\ f \in FlightType /\ f.name = cur.name /\ f.gen = cur.gen
        /\ f.no_cache = (~cur.in \/ i)
    BY <1>1, <1>2, <1>3 DEF FlightType
  <1>5. cur'.gen <= gen'
    BY <1>1 DEF Forward, Done, NoQuery
  <1>6. ASSUME NEW s \in Joinable(cur.name), Join(s, w)
        PROVE  (\A u \in Slot : flight'[u].gen <= gen') /\ FlightsAuthorised'
    <2> HIDE DEF w
    <2>1. s \in Slot /\ \A u \in Slot : flight[u] \in FlightType
      BY DEF Joinable, StampInv, TypeOK
    <2>2. \A u \in Slot : /\ flight'[u].gen = flight[u].gen
                          /\ flight'[u].in_use = flight[u].in_use
                          /\ flight'[u].no_cache = flight[u].no_cache
                          /\ flight'[u].name = flight[u].name
      BY <1>6, <2>1 DEF Join, StampInv, TypeOK, FlightType
    <2> QED BY <1>1, <2>2 DEF StampInv, StampsInPast, FlightsAuthorised, Current, Blocks, rulesVars
  <1>7. CASE \E s \in Slot, t \in Txid : Launch(s, t, f)
    <2>1. f.gen <= gen /\ (~f.no_cache /\ Current(f.gen) => ~Blocks(f.name))
      BY <1>1, <1>4 DEF StampInv, StampsInPast
    <2> HIDE DEF f
    <2> QED BY <1>4, <1>5, <1>7, <2>1, LaunchStamps
  <1>8. CASE UNCHANGED flight
    BY <1>1, <1>5, <1>8
       DEF StampInv, StampsInPast, FlightsAuthorised, Current, Blocks, rulesVars
  <1> QED BY <1>5, <1>6, <1>7, <1>8 DEF Forward

LEMMA QueryStamps == StampInv /\ TypeOK' /\ Query => StampInv'
  <1> SUFFICES ASSUME StampInv, TypeOK', Query PROVE StampInv'
    OBVIOUS
  <1>0. /\ TypeOK /\ cur \in QueryType /\ cur.name \in Name /\ cur.gen \in 0 .. MaxGen
        /\ cur.affected \in BOOLEAN /\ cur.gen <= gen /\ gen \in Nat
        /\ \A n \in Name : cache[n] \in EntryType /\ cache[n].gen <= gen
    BY DEF StampInv, StampsInPast, TypeOK, QueryType
  <1>1. UNCHANGED rulesVars
    BY DEF Query, Receive, AnswerFromCache, OverrideCachedBlock, ServeStale, Miss,
           DecideUnproven, DecideBlock, DecideForward, ForwardForeign
  <1>2. gen' = gen /\ NoQuery.gen <= gen
    BY <1>0, <1>1 DEF rulesVars, NoQuery
  <1>c. ASSUME cache' = cache PROVE (\A n \in Name : cache'[n].gen <= gen') /\ CachedVerdictIsCurrent'
    BY <1>c, <1>1 DEF StampInv, StampsInPast, CachedVerdictIsCurrent, Current, Blocks, rulesVars
  <1>t. ASSUME flight' = flight PROVE (\A s \in Slot : flight'[s].gen <= gen') /\ FlightsAuthorised'
    BY <1>t, <1>1 DEF StampInv, StampsInPast, FlightsAuthorised, Current, Blocks, rulesVars
  <1>f. ASSUME cache' = cache, NEW a \in BOOLEAN, NEW i \in BOOLEAN, Forward(a, i),
               cur.in /\ ~i /\ Current(cur.gen) => ~Blocks(cur.name)
        PROVE  StampInv'
    BY <1>c, <1>f, <1>1, ForwardStamps DEF StampInv, StampsInPast
  <1>3. CASE \E n \in QName, class \in Class, affected \in Affectable :
                Receive(n, class, affected)
    <2>1. cache' = cache /\ flight' = flight /\ cur'.gen = gen
      BY <1>3 DEF Receive
    <2> QED BY <1>0, <1>2, <1>c, <1>t, <2>1 DEF StampInv, StampsInPast
  <1>4. CASE AnswerFromCache
    <2>1. cache' = cache /\ flight' = flight /\ cur' = NoQuery
      BY <1>4 DEF AnswerFromCache, Done
    <2> QED BY <1>0, <1>2, <1>c, <1>t, <2>1 DEF StampInv, StampsInPast
  <1>5. CASE OverrideCachedBlock
    BY <1>5, <1>f DEF OverrideCachedBlock
  <1>6. CASE ServeStale
    <2> DEFINE n == cur.name
               r == [NewFlight(n, cache[n].gen) EXCEPT !.refresh_only = TRUE]
    <2>1. cur' = NoQuery
      BY <1>6 DEF ServeStale, Done
    <2>2. cache' = cache \/ cache' = [cache EXCEPT ![n].armed = TRUE]
      BY <1>6 DEF ServeStale
    <2>3. \A m \in Name : /\ cache'[m].gen = cache[m].gen
                          /\ cache'[m].kind = cache[m].kind
                          /\ cache'[m].names = cache[m].names
      <3>1. cache \in [Name -> EntryType]
        BY <1>0 DEF TypeOK
      <3> QED BY <1>0, <2>2, <3>1 DEF EntryType
    <2>4. (\A m \in Name : cache'[m].gen <= gen') /\ CachedVerdictIsCurrent'
      BY <1>0, <1>1, <1>2, <2>3 DEF StampInv, CachedVerdictIsCurrent, Current, Blocks, rulesVars
    <2>5. /\ NewFlight(n, cache[n].gen) \in FlightType
          /\ NewFlight(n, cache[n].gen).name = n /\ NewFlight(n, cache[n].gen).gen = cache[n].gen
      BY <1>0, NewFlightTyped DEF EntryType, NewFlight, ZeroSlot
    <2>6. r \in FlightType /\ r.name = n /\ r.gen = cache[n].gen
      BY <2>5 DEF FlightType
    <2>7. Current(r.gen) => ~Blocks(r.name)
      <3>1. cache[n].kind = "allowed"
        BY <1>6 DEF ServeStale, StaleHit
      <3> QED BY <1>0, <2>6, <3>1 DEF StampInv, CachedVerdictIsCurrent
    <2>8. UNCHANGED flight \/ \E s \in Slot, t \in Txid : Launch(s, t, r)
      BY <1>6 DEF ServeStale
    <2>9. (\A s \in Slot : flight'[s].gen <= gen') /\ FlightsAuthorised'
      <3> HIDE DEF r
      <3> QED BY <1>0, <1>1, <1>t, <2>6, <2>7, <2>8, LaunchStamps
    <2> QED BY <1>2, <2>1, <2>4, <2>9 DEF StampInv, StampsInPast
  <1>7. CASE Miss
    <2>1. cache' = cache /\ flight' = flight /\ cur' = cur
      BY <1>7 DEF Miss
    <2> QED BY <1>0, <1>2, <1>c, <1>t, <2>1 DEF StampInv, StampsInPast
  <1>8. CASE DecideUnproven
    BY <1>8, <1>f DEF DecideUnproven
  <1>9. CASE DecideBlock
    <2>1. Store(cur.name, "blocked", cur.gen, {cur.name}) /\ Blocks(cur.name)
      BY <1>9 DEF DecideBlock
    <2>2. (\A m \in Name : cache'[m].gen <= gen') /\ CachedVerdictIsCurrent'
      BY <1>0, <1>1, <2>1, StoreStamps
    <2>3. CASE Forward(FALSE, TRUE)
      BY <1>0, <1>1, <2>2, <2>3, ForwardStamps DEF StampInv, StampsInPast
    <2>4. CASE Done /\ UNCHANGED flight
      BY <1>2, <1>t, <2>2, <2>4 DEF Done, StampInv, StampsInPast
    <2> QED BY <1>9, <2>3, <2>4 DEF DecideBlock
  <1>10. CASE DecideForward
    <2>1. (~off /\ rule[cur.name] = "allow") \in BOOLEAN
      OBVIOUS
    <2> QED BY <1>0, <1>10, <1>f, <2>1 DEF DecideForward
  <1>11. CASE ForwardForeign
    BY <1>11, <1>f DEF ForwardForeign
  <1> QED BY <1>3, <1>4, <1>5, <1>6, <1>7, <1>8, <1>9, <1>10, <1>11 DEF Query

LEMMA UpstreamStamps == StampInv /\ TypeOK' /\ Upstream => StampInv'
  <1> SUFFICES ASSUME StampInv, TypeOK',
                      NEW m \in net, NEW s \in Slot, NEW names \in SUBSET Name,
                      NEW storable \in BOOLEAN, Process(m, s, names, storable)
               PROVE  StampInv'
    BY DEF Upstream
  <1> DEFINE f == flight[s]
             cloaked == Cloaked(f, names)
  <1>1. /\ f \in FlightType /\ f.name \in Name /\ f.gen \in 0 .. MaxGen /\ f.gen <= gen
        /\ gen \in Nat /\ f.in_use
    BY DEF StampInv, StampsInPast, TypeOK, FlightType, Process, Accepts
  <1>2. UNCHANGED rulesVars /\ cur' = cur /\ gen' = gen
    BY DEF Process, rulesVars
  <1>3. (\A n \in Name : cache'[n].gen <= gen') /\ CachedVerdictIsCurrent'
    <2>1. CASE UNCHANGED cache
      BY <1>2, <2>1
         DEF StampInv, StampsInPast, CachedVerdictIsCurrent, Current, Blocks, rulesVars
    <2>2. CASE cloaked /\ Store(f.name, "blocked", f.gen, names)
      <3>1. \E n \in names : Blocks(n)
        BY <2>2 DEF Cloaked
      <3> QED BY <1>1, <1>2, <2>2, <3>1, StoreStamps
    <2>3. CASE ~f.no_cache /\ Store(f.name, "allowed", f.gen, names)
      <3>1. Current(f.gen) => ~Blocks(f.name)
        BY <1>1, <2>3 DEF StampInv, FlightsAuthorised
      <3> QED BY <1>1, <1>2, <2>3, <3>1, StoreStamps
    <2> QED BY <2>1, <2>2, <2>3 DEF Process, Learn
  <1>4. (\A u \in Slot : flight'[u].gen <= gen') /\ FlightsAuthorised'
    <2>1. flight' = [flight EXCEPT ![s] = ZeroSlot] /\ ZeroSlot.gen <= gen
      BY <1>1 DEF Process, ZeroSlot
    <2>2. \A u \in Slot : flight'[u] = flight[u] \/ flight'[u] = ZeroSlot
      BY <2>1 DEF StampInv, TypeOK
    <2> QED BY <1>2, <2>1, <2>2, ZeroSlotType
            DEF StampInv, StampsInPast, FlightsAuthorised, Current, Blocks, rulesVars
  <1> QED BY <1>2, <1>3, <1>4 DEF StampInv, StampsInPast

LEMMA ClockStamps == StampInv /\ TypeOK' /\ Clock => StampInv'
  <1> SUFFICES ASSUME StampInv, TypeOK', Clock PROVE StampInv'
    OBVIOUS
  <1>1. /\ UNCHANGED rulesVars /\ cur' = cur /\ gen' = gen /\ gen \in Nat
        /\ cache \in [Name -> EntryType] /\ flight \in [Slot -> FlightType]
    BY DEF Clock, Expire, Rearm, Lapse, Grow, Evict, rulesVars, StampInv, TypeOK
  <1>2. \A n \in Name : \/ cache'[n] = NoEntry
                        \/ /\ cache'[n].kind = cache[n].kind
                           /\ cache'[n].gen = cache[n].gen
                           /\ cache'[n].names = cache[n].names
    BY <1>1 DEF Clock, Expire, Rearm, Lapse, Grow, Evict, EntryType
  <1>3. \A s \in Slot : \/ flight'[s] = ZeroSlot
                        \/ /\ flight'[s].in_use = flight[s].in_use
                           /\ flight'[s].no_cache = flight[s].no_cache
                           /\ flight'[s].gen = flight[s].gen
                           /\ flight'[s].name = flight[s].name
    <2>1. ASSUME NEW s \in Slot, Grow(s)
          PROVE  /\ \A u \in Slot \ {s} : flight'[u] = flight[u]
                 /\ flight'[s] = [flight[s] EXCEPT !.age = "old"]
      BY <1>1, <2>1 DEF Grow
    <2>2. ASSUME NEW s \in Slot, Evict(s)
          PROVE  \A u \in Slot : flight'[u] = flight[u] \/ flight'[u] = ZeroSlot
      BY <1>1, <2>2 DEF Evict
    <2>3. CASE \E n \in Name : Expire(n) \/ Rearm(n) \/ Lapse(n)
      BY <2>3 DEF Expire, Rearm, Lapse
    <2>4. CASE \E s \in Slot : Grow(s)
      <3>1. PICK s \in Slot : Grow(s)
        BY <2>4
      <3>2. flight'[s] = [flight[s] EXCEPT !.age = "old"] /\ flight[s] \in FlightType
        BY <1>1, <2>1, <3>1
      <3>3. /\ flight'[s].in_use = flight[s].in_use /\ flight'[s].no_cache = flight[s].no_cache
            /\ flight'[s].gen = flight[s].gen /\ flight'[s].name = flight[s].name
        BY <3>2 DEF FlightType
      <3> QED BY <2>1, <3>1, <3>3
    <2>5. CASE \E s \in Slot : Evict(s)
      BY <2>2, <2>5
    <2> QED BY <2>3, <2>4, <2>5 DEF Clock
  <1>4. (\A n \in Name : cache'[n].gen <= gen') /\ CachedVerdictIsCurrent'
    BY <1>1, <1>2 DEF NoEntry, StampInv, StampsInPast, CachedVerdictIsCurrent, Current, Blocks,
                      rulesVars
  <1>5. (\A s \in Slot : flight'[s].gen <= gen') /\ FlightsAuthorised'
    <2>1. ZeroSlot.gen = 0
      BY DEF ZeroSlot
    <2> QED BY <1>1, <1>3, <2>1, ZeroSlotType
            DEF StampInv, StampsInPast, FlightsAuthorised, Current, Blocks, rulesVars
  <1> QED BY <1>1, <1>4, <1>5 DEF StampInv, StampsInPast

\* The invariant of the stamps holds in every reachable state.
THEOREM StampInvariant == Spec => []StampInv
  <1>1. Init => StampInv
    <2>1. ZeroSlot.gen = 0 /\ NoEntry.gen = 0 /\ NoEntry.kind = "none" /\ NoQuery.gen = 0
      BY DEF ZeroSlot, NoEntry, NoQuery
    <2> QED BY <2>1, InitTyped, ZeroSlotType
            DEF Init, StampInv, StampsInPast, FlightsAuthorised, CachedVerdictIsCurrent
  <1>2. StampInv /\ TypeOK' /\ [Next]_vars => StampInv'
    <2>1. StampInv /\ UNCHANGED vars => StampInv'
      BY DEF vars, StampInv, TypeOK, StampsInPast, FlightsAuthorised, CachedVerdictIsCurrent,
             Current, Blocks
    <2> QED BY <2>1, EditStamps, ClockStamps, QueryStamps, UpstreamStamps DEF Next
  <1> QED BY <1>1, <1>2, TypeCorrect, PTL DEF Spec

\* Under no interleaving of queries, replies, edits and pauses does the cache
\* hold a servable verdict that the rules in force contradict.
THEOREM CachedVerdictsAreCurrent == Spec => []CachedVerdictIsCurrent
  BY StampInvariant, PTL DEF StampInv

-----------------------------------------------------------------------------
(***************************************************************************)
(* Refinement.  Every step of the engine is, under the mapping Served, a   *)
(* step of FlushCache or a stutter: an edit's bump empties what lookups    *)
(* would serve, because no stamp equals the new generation.                *)
(***************************************************************************)
LEMMA ServedUnchanged ==
    ASSUME UNCHANGED <<rule, off, open, gen, cache>>
    PROVE  [Flushing!Next]_(Flushing!vars)
  <1>1. UNCHANGED <<rule, off, open, Served>>
    BY DEF Served
  <1> QED BY <1>1 DEF Flushing!vars

\* What is served can only be lost.
LEMMA ForgetRefines ==
    ASSUME UNCHANGED <<rule, off, open>>,
           \A n \in Name : Served'[n] = Served[n] \/ Served'[n] = "none"
    PROVE  [Flushing!Next]_(Flushing!vars)
  <1> DEFINE lost == {n \in Name : Served'[n] = "none"}
  <1>1. Served' = [n \in Name |-> IF n \in lost THEN "none" ELSE Served[n]]
    <2>1. Served' = [n \in Name |-> Served'[n]]
      BY DEF Served
    <2> QED BY <2>1
  <1>2. lost \in SUBSET Name
    OBVIOUS
  <1>3. Flushing!Forget(lost)
    BY <1>1 DEF Flushing!Forget
  <1> QED BY <1>2, <1>3 DEF Flushing!Next

\* A store learns if its stamp is the present generation, and forgets if not.
LEMMA StoreRefines ==
    ASSUME TypeOK, UNCHANGED rulesVars,
           NEW n \in Name, NEW k \in {"allowed", "blocked"}, NEW g \in 0 .. MaxGen,
           NEW names \in SUBSET Name, Store(n, k, g, names),
           g = gen => Flushing!MayLearn(n, k)
    PROVE  [Flushing!Next]_(Flushing!vars)
  <1>0. UNCHANGED <<rule, off, open, gen>>
    BY DEF rulesVars
  <1>1. PICK lost \in Victims(n) :
          cache' = [m \in Name |->
                      IF m = n THEN [kind |-> k, gen |-> g, names |-> names,
                                     fresh |-> TRUE, armed |-> FALSE]
                      ELSE IF m \in lost THEN NoEntry ELSE cache[m]]
    BY DEF Store
  <1>2. \A m \in Name : m # n =>
            Served'[m] = IF m \in lost THEN "none" ELSE Served[m]
    BY <1>0, <1>1 DEF Served, NoEntry
  <1>3. CASE g = gen
    <2>1. Served'[n] = k
      BY <1>0, <1>1, <1>3 DEF Served
    <2> DEFINE gone == (lost \cap Name) \ {n}
    <2>2. Served' = [m \in Name |-> IF m = n THEN k
                                    ELSE IF m \in gone THEN "none" ELSE Served[m]]
      <3>1. Served' = [m \in Name |-> Served'[m]]
        BY DEF Served
      <3> QED BY <1>2, <2>1, <3>1
    <2>3. gone \in SUBSET (Name \ {n})
      OBVIOUS
    <2>4. Flushing!Learn(n, k)
      <3> HIDE DEF gone
      <3> QED BY <1>0, <1>3, <2>2, <2>3 DEF Flushing!Learn
    <2> QED BY <2>4 DEF Flushing!Next
  <1>4. CASE g # gen
    <2>1. Served'[n] = "none"
      BY <1>0, <1>1, <1>4 DEF Served
    <2>2. \A m \in Name : Served'[m] = Served[m] \/ Served'[m] = "none"
      BY <1>2, <2>1
    <2> QED BY <1>0, <2>2, ForgetRefines
  <1> QED BY <1>3, <1>4

\* A bump empties what is served.
LEMMA BumpServes ==
    ASSUME StampInv, gen' = gen + 1, cache' = cache
    PROVE  Served' = Flushing!Empty
  <1>1. \A n \in Name : cache[n].gen <= gen /\ cache[n].gen \in Nat /\ gen \in Nat
    BY DEF StampInv, StampsInPast, TypeOK, EntryType
  <1> QED BY <1>1 DEF Served, Flushing!Empty

LEMMA EditRefines == StampInv /\ TypeOK' /\ Edit => [Flushing!Next]_(Flushing!vars)
  <1> SUFFICES ASSUME StampInv, TypeOK', Edit PROVE [Flushing!Next]_(Flushing!vars)
    OBVIOUS
  <1>0. cache' = cache /\ rule' \in Rulebook /\ off' \in BOOLEAN
    BY DEF Edit, TakeLock, EditRules, ReleaseLock, SetPaused, Unpublish, Publish, Bump, dnsVars,
           TypeOK
  <1>1. CASE EditRules
    <2>1. Flushing!ChangeAndFlush
      BY <1>0, <1>1, BumpServes DEF EditRules, Flushing!ChangeAndFlush
    <2> QED BY <2>1 DEF Flushing!Next
  <1>2. CASE SetPaused \/ Publish
    <2>1. gen' = gen
      BY <1>2 DEF SetPaused, Publish
    <2>2. Served' = Served
      BY <1>0, <2>1 DEF Served
    <2>3. Flushing!Change("httpd") \/ Flushing!Change("loader")
      BY <1>0, <1>2, <2>2 DEF SetPaused, Publish, Flushing!Change
    <2> QED BY <2>3 DEF Flushing!Next, Task
  <1>3. CASE \E t \in Task : Bump(t)
    <2>1. PICK t \in Task : Bump(t)
      BY <1>3
    <2>2. Flushing!Flush(t)
      BY <1>0, <2>1, BumpServes DEF Bump, Flushing!Flush
    <2> QED BY <2>2 DEF Flushing!Next
  <1>4. CASE (\E h \in Holder : TakeLock(h)) \/ ReleaseLock \/ Unpublish
    BY <1>0, <1>4, ServedUnchanged DEF TakeLock, ReleaseLock, Unpublish
  <1> QED BY <1>1, <1>2, <1>3, <1>4 DEF Edit

LEMMA ClockRefines == StampInv /\ Clock => [Flushing!Next]_(Flushing!vars)
  <1> SUFFICES ASSUME StampInv, Clock PROVE [Flushing!Next]_(Flushing!vars)
    OBVIOUS
  <1>1. UNCHANGED <<rule, off, open, gen>> /\ cache \in [Name -> EntryType]
    BY DEF Clock, Expire, Rearm, Lapse, Grow, Evict, rulesVars, StampInv, TypeOK
  <1>2. \A n \in Name : \/ cache'[n] = NoEntry
                        \/ /\ cache'[n].kind = cache[n].kind
                           /\ cache'[n].gen = cache[n].gen
                           /\ cache'[n].fresh = cache[n].fresh \/ ~cache'[n].fresh
    BY <1>1 DEF Clock, Expire, Rearm, Lapse, Grow, Evict, EntryType
  <1>3. \A n \in Name : Served'[n] = Served[n] \/ Served'[n] = "none"
    BY <1>1, <1>2 DEF Served, NoEntry, EntryType
  <1> QED BY <1>1, <1>3, ForgetRefines

LEMMA QueryRefines == StampInv /\ Query => [Flushing!Next]_(Flushing!vars)
  <1> SUFFICES ASSUME StampInv, Query PROVE [Flushing!Next]_(Flushing!vars)
    OBVIOUS
  <1>0. /\ TypeOK /\ cur.name \in Name /\ cur.gen \in 0 .. MaxGen
        /\ cache \in [Name -> EntryType]
    BY DEF StampInv, TypeOK, QueryType
  <1>1. UNCHANGED rulesVars /\ UNCHANGED <<rule, off, open, gen>>
    BY DEF Query, Receive, AnswerFromCache, OverrideCachedBlock, ServeStale, Miss,
           DecideUnproven, DecideBlock, DecideForward, ForwardForeign, rulesVars
  <1>2. CASE ServeStale
    <2>1. cache' = cache \/ cache' = [cache EXCEPT ![cur.name].armed = TRUE]
      BY <1>2 DEF ServeStale
    <2>2. \A n \in Name : /\ cache'[n].kind = cache[n].kind
                          /\ cache'[n].gen = cache[n].gen
                          /\ cache'[n].fresh = cache[n].fresh
      BY <1>0, <2>1 DEF EntryType
    <2>3. \A n \in Name : Served'[n] = Served[n]
      BY <1>1, <2>2 DEF Served
    <2> QED BY <1>1, <2>3, ForgetRefines
  <1>3. CASE DecideBlock
    <2>1. Flushing!MayLearn(cur.name, "blocked")
      BY <1>0, <1>3 DEF DecideBlock, Flushing!MayLearn, Flushing!Blocks, Blocks
    <2>2. Store(cur.name, "blocked", cur.gen, {cur.name}) /\ {cur.name} \in SUBSET Name
      BY <1>0, <1>3 DEF DecideBlock
    <2> QED BY <1>0, <1>1, <2>1, <2>2, StoreRefines
  <1>4. CASE cache' = cache
    BY <1>1, <1>4, ServedUnchanged
  <1> QED BY <1>2, <1>3, <1>4
          DEF Query, Receive, AnswerFromCache, OverrideCachedBlock, Miss, DecideUnproven,
              DecideForward, ForwardForeign

LEMMA UpstreamRefines == StampInv /\ Upstream => [Flushing!Next]_(Flushing!vars)
  <1> SUFFICES ASSUME StampInv,
                      NEW m \in net, NEW s \in Slot, NEW names \in SUBSET Name,
                      NEW storable \in BOOLEAN, Process(m, s, names, storable)
               PROVE  [Flushing!Next]_(Flushing!vars)
    BY DEF Upstream
  <1> DEFINE f == flight[s]
             cloaked == Cloaked(f, names)
  <1>1. /\ TypeOK /\ f.name \in Name /\ f.gen \in 0 .. MaxGen /\ f.in_use
    BY DEF StampInv, TypeOK, FlightType, Process, Accepts
  <1>2. UNCHANGED rulesVars /\ UNCHANGED <<rule, off, open, gen>>
    BY DEF Process, rulesVars
  <1>3. CASE UNCHANGED cache
    BY <1>2, <1>3, ServedUnchanged
  <1>4. CASE cloaked /\ Store(f.name, "blocked", f.gen, names)
    <2>1. Flushing!MayLearn(f.name, "blocked")
      BY <1>4 DEF Cloaked, Flushing!MayLearn, Flushing!Blocks, Blocks
    <2> QED BY <1>1, <1>2, <1>4, <2>1, StoreRefines
  <1>5. CASE ~f.no_cache /\ Store(f.name, "allowed", f.gen, names)
    <2>1. Current(f.gen) => ~Blocks(f.name)
      BY <1>1, <1>5 DEF StampInv, FlightsAuthorised
    <2>2. f.gen = gen => Flushing!MayLearn(f.name, "allowed")
      BY <2>1 DEF Current, Flushing!MayLearn, Flushing!Blocks, Blocks
    <2> QED BY <1>1, <1>2, <1>5, <2>2, StoreRefines
  <1> QED BY <1>3, <1>4, <1>5 DEF Process, Learn

\* Stamping entries with a generation and comparing it at every lookup
\* implements flushing the whole cache at every edit of the rules.
THEOREM StampsImplementFlushing == Spec => ImplementsFlushing
  <1>1. Init => Flushing!Init
    <2> SUFFICES ASSUME Init PROVE Flushing!Init
      OBVIOUS
    <2>1. Served = Flushing!Empty
      BY DEF Init, NoEntry, Served, Flushing!Empty
    <2> QED BY <2>1 DEF Init, Flushing!Init
  <1>2. StampInv /\ TypeOK' /\ [Next]_vars => [Flushing!Next]_(Flushing!vars)
    <2>1. UNCHANGED vars => [Flushing!Next]_(Flushing!vars)
      BY ServedUnchanged DEF vars
    <2> QED BY <2>1, EditRefines, ClockRefines, QueryRefines, UpstreamRefines DEF Next
  <1> QED BY <1>1, <1>2, TypeCorrect, StampInvariant, PTL DEF Spec, ImplementsFlushing, Flushing!Spec
-----------------------------------------------------------------------------
(***************************************************************************)
(* The safety half of FlightsEnd: what may become of the clients that wait *)
(* for a flight.                                                           *)
(***************************************************************************)
\* The flight is the same, or older, or has one more rider for the same name.
Rides(f, g) ==
    \/ g = f
    \/ g = [f EXCEPT !.age = "old"]
    \/ /\ f.age = "young" /\ ~f.no_cache /\ ~f.refresh_only
       /\ \E w \in WaiterType : w.name = f.name /\ g = [f EXCEPT !.waiters = Append(@, w)]

ServesAll(f) ==
    \E b \in BOOLEAN : out' = {Reply(f.waiters[i], f.name, b) : i \in 1 .. Len(f.waiters)}

\* A slot in use is never given to another question; its flight ends old and for
\* everyone who waits, or with one answer for all of them.
RiderStep(s) == flight[s].in_use =>
    \/ Rides(flight[s], flight'[s])
    \/ /\ ~flight'[s].in_use
       /\ \/ flight[s].age = "old" /\ out' = {}
          \/ flight[s].refresh_only /\ out' = {}
          \/ ~flight[s].refresh_only /\ ServesAll(flight[s])

NoRiderIsLost == [][\A s \in Slot : RiderStep(s)]_vars

LEMMA LaunchRides ==
    ASSUME TypeOK, NEW u \in Slot, NEW t \in Txid, NEW f, Launch(u, t, f), NEW s \in Slot
    PROVE  RiderStep(s)
  BY DEF TypeOK, Launch, Free, RiderStep, Rides

LEMMA ForwardRides ==
    ASSUME TypeOK, NEW allowed \in BOOLEAN, NEW isolated \in BOOLEAN, Forward(allowed, isolated),
           NEW s \in Slot
    PROVE  RiderStep(s)
  <1>1. ASSUME NEW u \in Joinable(cur.name), Join(u, Waiter(cur)) PROVE RiderStep(s)
    <2>1. /\ Waiter(cur) \in WaiterType /\ Waiter(cur).name = flight[u].name
          /\ flight[u].age = "young" /\ ~flight[u].no_cache /\ ~flight[u].refresh_only
      BY <1>1, WaiterTyped DEF TypeOK, Waiter, Joinable
    <2>2. flight' = [flight EXCEPT ![u] = [flight[u] EXCEPT !.waiters = Append(@, Waiter(cur))]]
      BY <1>1 DEF Join
    <2>3. CASE s = u
      BY <2>1, <2>2, <2>3 DEF TypeOK, RiderStep, Rides
    <2>4. CASE s # u
      BY <2>2, <2>4 DEF TypeOK, RiderStep, Rides
    <2> QED BY <2>3, <2>4
  <1>2. CASE UNCHANGED flight
    BY <1>2 DEF RiderStep, Rides
  <1> QED BY <1>1, <1>2, LaunchRides DEF Forward

LEMMA QueryRides == ASSUME TypeOK, Query, NEW s \in Slot PROVE RiderStep(s)
  <1>1. CASE UNCHANGED flight
    BY <1>1 DEF RiderStep, Rides
  <1>2. ASSUME NEW allowed \in BOOLEAN, NEW isolated \in BOOLEAN, Forward(allowed, isolated)
        PROVE  RiderStep(s)
    BY <1>2, ForwardRides
  <1>3. CASE ServeStale
    BY <1>1, <1>3, LaunchRides DEF ServeStale
  <1>4. CASE DecideForward
    <2>1. cur.affected \in BOOLEAN
      BY DEF TypeOK, QueryType
    <2> QED BY <1>2, <1>4, <2>1 DEF DecideForward
  <1> QED BY <1>1, <1>2, <1>3, <1>4
          DEF Query, Receive, AnswerFromCache, OverrideCachedBlock, Miss, DecideUnproven,
              DecideBlock, ForwardForeign

\* upstream_alloc, coalesce_join, the sweep and process_reply: nobody who waits for a flight
\* is dropped from it or moved to another question; he shares its one answer or its end.
THEOREM RidersAreKept == Spec => NoRiderIsLost
  <1>1. ASSUME TypeOK, Next, NEW s \in Slot PROVE RiderStep(s)
    <2>1. CASE Edit
      BY <2>1 DEF Edit, TakeLock, EditRules, ReleaseLock, SetPaused, Unpublish, Publish, Bump,
                  dnsVars, RiderStep, Rides
    <2>2. CASE Clock
      <3>1. CASE UNCHANGED flight
        BY <3>1 DEF RiderStep, Rides
      <3>2. ASSUME NEW u \in Slot, Grow(u) PROVE RiderStep(s)
        <4>1. flight' = [flight EXCEPT ![u] = [flight[u] EXCEPT !.age = "old"]]
          BY <3>2 DEF Grow
        <4> QED BY <1>1, <4>1 DEF TypeOK, RiderStep, Rides
      <3>3. ASSUME NEW u \in Slot, Evict(u) PROVE RiderStep(s)
        BY <1>1, <3>3 DEF Evict, TypeOK, ZeroSlot, RiderStep, Rides
      <3> QED BY <2>2, <3>1, <3>2, <3>3 DEF Clock, Expire, Rearm, Lapse
    <2>3. CASE Query
      BY <1>1, <2>3, QueryRides
    <2>4. ASSUME NEW m \in net, NEW u \in Slot, NEW names \in SUBSET Name,
                 NEW storable \in BOOLEAN, Process(m, u, names, storable)
          PROVE  RiderStep(s)
      <3>1. /\ flight' = [flight EXCEPT ![u] = ZeroSlot] /\ m.name = flight[u].name
            /\ ~ZeroSlot.in_use /\ Cloaked(flight[u], names) \in BOOLEAN
        BY <2>4 DEF Process, Accepts, ZeroSlot, Cloaked
      <3>2. CASE s # u
        BY <1>1, <3>1, <3>2 DEF TypeOK, RiderStep, Rides
      <3>3. CASE s = u /\ flight[u].refresh_only
        BY <1>1, <2>4, <3>1, <3>3 DEF TypeOK, Process, RiderStep
      <3>4. CASE s = u /\ ~flight[u].refresh_only
        <4>1. out' = {Reply(flight[u].waiters[i], flight[u].name, Cloaked(flight[u], names)) :
                         i \in 1 .. Len(flight[u].waiters)}
          BY <2>4, <3>1, <3>4 DEF Process
        <4>2. ServesAll(flight[u])
          BY <3>1, <4>1 DEF ServesAll
        <4>3. ~flight'[u].in_use
          BY <1>1, <3>1 DEF TypeOK
        <4> QED BY <3>4, <4>2, <4>3 DEF RiderStep
      <3> QED BY <3>2, <3>3, <3>4
    <2> QED BY <1>1, <2>1, <2>2, <2>3, <2>4 DEF Next, Upstream
  <1>2. TypeOK /\ [Next]_vars => [\A s \in Slot : RiderStep(s)]_vars
    BY <1>1
  <1> QED BY <1>2, TypeCorrect, PTL DEF Spec, NoRiderIsLost
===============================================================================
