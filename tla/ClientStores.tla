----------------------------- MODULE ClientStores -----------------------------
(***************************************************************************)
(* The small lists the web task edits and NVS keeps: the access list, the  *)
(* bypass list and the rewrites (acl.c, bypass.c, rewrite.c), which rewrite *)
(* one NVS key per place after each edit, and the local zones              *)
(* (localzone.c), one NVS string and two tables in turn.                   *)
(*                                                                         *)
(* Abstractions.  An entry is a key and its value: a client and nothing, or *)
(* a name and its address.  NVS takes or leaves each key as a whole, and    *)
(* its errors, which these files ignore, do not happen here.  What readers  *)
(* see while a list is edited is FastPath's.                               *)
(***************************************************************************)
EXTENDS Naturals, Sequences, FiniteSets

CONSTANTS Key, Value,   \* keys of entries, and their values
          StoreMax,     \* ACL_MAX, BYPASS_MAX, REWRITE_MAX
          ZoneList,     \* lists of local zones
          MaxOps,       \* bound on the edits
          MaxOutages    \* bound on the power cuts

ASSUME StoreAssumption == /\ StoreMax \in Nat \ {0} /\ {MaxOps, MaxOutages} \subseteq Nat
                          /\ Key # {} /\ Value # {} /\ ZoneList # {}

VARIABLES entries,   \* s_ips or s_rules, up to s_count
          keys,      \* NVS: what is stored for each place, a sequence of at most one
          edit,      \* the edit whose save is under way, and the next place to save
          ops,       \* edits so far
          outages,   \* power cuts so far
          standing,  \* history: the entries acknowledged and not touched since
          zones      \* the local zones: two tables, which one is live, and NVS

csVars == <<entries, keys, edit, ops, outages, standing, zones>>

Entry == [key : Key, value : Value]
Place == 1 .. StoreMax
NoWalk == 2

EditState == [on : BOOLEAN, adds : SUBSET Entry, at : 1 .. StoreMax + 1, powered : BOOLEAN]
ZoneState == [table : [{0, 1} -> ZoneList], live : {0, 1}, stored : ZoneList,
              walk : {0, 1, NoWalk}, reads : ZoneList, published : Nat]

CsTypeOK == /\ entries \in Seq(Entry) /\ Len(entries) <= StoreMax
            /\ keys \in [Place -> {<<>>} \cup {<<e>> : e \in Entry}]
            /\ edit \in EditState
            /\ ops \in 0 .. MaxOps /\ outages \in 0 .. MaxOutages
            /\ standing \subseteq Entry
            /\ zones \in ZoneState

NoEdit == [on |-> FALSE, adds |-> {}, at |-> 1, powered |-> TRUE]

CsInit == /\ entries = <<>> /\ keys = [i \in Place |-> <<>>]
          /\ edit = NoEdit /\ ops = 0 /\ outages = 0 /\ standing = {}
          /\ zones = LET z == CHOOSE l \in ZoneList : TRUE
                     IN  [table |-> [t \in {0, 1} |-> z], live |-> 0, stored |-> z,
                          walk |-> NoWalk, reads |-> z, published |-> 0]

-----------------------------------------------------------------------------
(***************************************************************************)
(* The lists of entries.                                                   *)
(***************************************************************************)
May == edit.powered /\ ~edit.on /\ ops < MaxOps /\ ops' = ops + 1

\* An edit leaves the list as "after" and has "adds" to acknowledge.
Edits(after, adds) == /\ entries' = after
                      /\ edit' = [NoEdit EXCEPT !.on = TRUE, !.adds = adds]
                      /\ UNCHANGED <<keys, outages, zones>>

At(k) == {i \in DOMAIN entries : entries[i].key = k}
FirstAt(k) == CHOOSE i \in At(k) : \A j \in At(k) : i <= j

Others(k) == {e \in standing : e.key # k}

\* acl_add, bypass_add, rewrite_set: the entry is appended if there is room; a
\* rewrite of a name that has one takes the new address.
Put(k, v) == /\ May
             /\ IF At(k) # {} THEN Edits([entries EXCEPT ![FirstAt(k)].value = v], {[key |-> k, value |-> v]})
                ELSE /\ Len(entries) < StoreMax
                     /\ Edits(Append(entries, [key |-> k, value |-> v]), {[key |-> k, value |-> v]})
             /\ standing' = Others(k)

\* A client that is listed already is acknowledged and not saved, unless the list is full.
PutKnown(k) == /\ May
               /\ At(k) # {} /\ Len(entries) < StoreMax
               /\ standing' = Others(k) \cup {entries[FirstAt(k)]}
               /\ UNCHANGED <<entries, keys, edit, outages, zones>>

\* acl_remove, bypass_remove, rewrite_set with no address: the first one goes, and
\* the later ones move down.
Without(n) == [i \in 1 .. Len(entries) - 1 |-> entries[IF i < n THEN i ELSE i + 1]]

Drop(k) == /\ May /\ At(k) # {}
           /\ Edits(Without(FirstAt(k)), {})
           /\ standing' = Others(k)

\* acl_clear, bypass_clear.
ClearAll == May /\ Edits(<<>>, {}) /\ standing' = {}

\* Mutant: the places are saved from the last down.
FromTheLast == StoreMax + 1 - edit.at

NextPlace == edit.at

\* save_nvs, one place: its key is set, or erased.
SavePlace == /\ edit.on /\ edit.at <= StoreMax
             /\ keys' = [keys EXCEPT ![NextPlace] =
                            IF NextPlace <= Len(entries) THEN <<entries[NextPlace]>> ELSE <<>>]
             /\ edit' = [edit EXCEPT !.at = @ + 1]
             /\ UNCHANGED <<entries, ops, outages, standing, zones>>

\* The save is done and the page redirects.
Acknowledge == /\ edit.on /\ edit.at > StoreMax
               /\ standing' = standing \cup edit.adds
               /\ edit' = NoEdit
               /\ UNCHANGED <<entries, keys, ops, outages, zones>>

Outage == /\ edit.powered /\ outages < MaxOutages
          /\ outages' = outages + 1
          /\ entries' = <<>>
          /\ edit' = [NoEdit EXCEPT !.powered = FALSE]
          /\ zones' = [zones EXCEPT !.walk = NoWalk]
          /\ UNCHANGED <<keys, ops, standing>>

\* acl_init, bypass_init, rewrite_init, localzone_init_nvs: what the places hold, in
\* order, the empty ones left out.
StoredPlaces == {p \in Place : keys[p] # <<>>}
PlacesUpTo(p) == Cardinality({q \in StoredPlaces : q <= p})
Loaded == [n \in 1 .. Cardinality(StoredPlaces) |->
              Head(keys[CHOOSE p \in StoredPlaces : PlacesUpTo(p) = n])]

InitStores == /\ ~edit.powered
              /\ entries' = Loaded
              /\ edit' = NoEdit
              /\ zones' = [zones EXCEPT !.table[0] = zones.stored, !.live = 0]
              /\ UNCHANGED <<keys, ops, outages, standing>>

-----------------------------------------------------------------------------
(***************************************************************************)
(* The local zones.                                                        *)
(***************************************************************************)
SpareTable == 1 - zones.live

\* localzone_set: stored first, then parsed into a table, then published.
SetZones(list) == /\ May
                  /\ zones' = [zones EXCEPT !.stored = list, !.table[SpareTable] = list,
                                            !.live = SpareTable, !.published = @ + 1]
                  /\ UNCHANGED <<entries, keys, edit, outages, standing>>

\* localzone_match, in dns_task: the table is fetched, and walked.
BeginMatch == /\ edit.powered /\ zones.walk = NoWalk
              /\ zones' = [zones EXCEPT !.walk = zones.live, !.reads = zones.table[zones.live],
                                        !.published = 0]
              /\ UNCHANGED <<entries, keys, edit, ops, outages, standing>>

EndMatch == /\ zones.walk # NoWalk
            /\ zones' = [zones EXCEPT !.walk = NoWalk, !.published = 0]
            /\ UNCHANGED <<entries, keys, edit, ops, outages, standing>>

CsNext == \/ \E k \in Key, v \in Value : Put(k, v)
          \/ \E k \in Key : PutKnown(k) \/ Drop(k)
          \/ ClearAll \/ SavePlace \/ Acknowledge \/ Outage \/ InitStores
          \/ \E list \in ZoneList : SetZones(list)
          \/ BeginMatch \/ EndMatch

CsSpec == CsInit /\ [][CsNext]_csVars

-----------------------------------------------------------------------------
(***************************************************************************)
(* Property.                                                               *)
(***************************************************************************)
\* Names are matched against the list of zones last given, and one walk against one
\* list: a list published meanwhile leaves the table under the walk alone.
ZonesAreWhole ==
    /\ zones.table[zones.live] = zones.stored
    /\ zones.walk # NoWalk /\ zones.published <= 1 => zones.table[zones.walk] = zones.reads

\* What a list was once acknowledged to hold it holds, and its look-up finds with
\* the value last given, until an edit of that key: a power cut in the save of
\* another edit loses no entry and puts none back before it.  The zones are whole.
AcknowledgedEntriesStand ==
    edit.powered => /\ \A e \in standing : At(e.key) # {} /\ entries[FirstAt(e.key)] = e
                    /\ ZonesAreWhole
===============================================================================
