----------------------------- MODULE WarmSnapshot -----------------------------
(***************************************************************************)
(* The warm boot of the forward cache (dns_server.cpp): download_task now  *)
(* and then writes the cache to a temporary file on the SD card and puts   *)
(* it in the place of the last one; dns_task reads it back when it starts.  *)
(* Deadlines are in uptime, which a reset sets back, and are not saved.    *)
(*                                                                         *)
(* Abstractions.  A reply is its deadline; the copy of an entry under the  *)
(* sequence lock is CacheSeqlock's, and here an entry the writer touches   *)
(* is passed over.  A file that is not closed when the power goes is the   *)
(* temporary one, which nobody reads.                                      *)
(***************************************************************************)
EXTENDS Naturals, Sequences

CONSTANTS Entries,    \* CACHE_ENTRIES
          StaleMax,   \* STALE_MAX_S
          MaxUptime,  \* bound on the time since the boot
          MaxSaves,   \* bound on the saves
          MaxFaults   \* bound on the power cuts and failed writes

ASSUME WarmAssumption == /\ {StaleMax, MaxSaves, MaxFaults} \subseteq Nat
                         /\ {Entries, MaxUptime} \subseteq Nat \ {0}

VARIABLES uptime,    \* esp_timer, 0 while the power is off
          replies,   \* the cache: for each entry a sequence of at most one reply
          snapshot,  \* the file: a sequence of at most one
          temp,      \* the temporary file, likewise
          saver,     \* the save in progress
          saves,     \* saves so far
          faults,    \* power cuts and failed writes so far
          landed     \* history: the last save's records, if nothing disturbed it

wsVars == <<uptime, replies, snapshot, temp, saver, saves, faults, landed>>

Reply == 1 .. MaxUptime + 1
File == [count : 0 .. Entries, records : Seq([entry : 1 .. Entries, reply : Reply])]

SaverState == [pc : {"idle", "entry", "patch", "remove", "rename"}, at : 1 .. Entries,
               began : 0 .. MaxUptime, undisturbed : BOOLEAN]

WsTypeOK == /\ uptime \in 0 .. MaxUptime
            /\ replies \in [1 .. Entries -> Seq(Reply)]
            /\ \A e \in 1 .. Entries : Len(replies[e]) <= 1
            /\ \A f \in {snapshot, temp, landed} : f \in Seq(File) /\ Len(f) <= 1
            /\ saver \in SaverState
            /\ saves \in 0 .. MaxSaves /\ faults \in 0 .. MaxFaults

NotSaving == [pc |-> "idle", at |-> 1, began |-> 0, undisturbed |-> FALSE]

EmptyCache == [e \in 1 .. Entries |-> <<>>]

WsInit == /\ uptime = 1
          /\ replies = EmptyCache
          /\ snapshot = <<>> /\ temp = <<>>
          /\ saver = NotSaving /\ saves = 0 /\ faults = 0
          /\ landed = <<>>

Powered == uptime # 0

-----------------------------------------------------------------------------
(***************************************************************************)
(* The world, and dns_task.                                                *)
(***************************************************************************)
\* A save is short beside the unit of time.
WsTick == /\ Powered /\ uptime < MaxUptime /\ saver.pc = "idle"
          /\ uptime' = uptime + 1
          /\ UNCHANGED <<replies, snapshot, temp, saver, saves, faults, landed>>

\* cache_store, of a reply whose TTL is one unit.
StoreReply(e) == /\ Powered
                 /\ replies' = [replies EXCEPT ![e] = <<uptime + 1>>]
                 /\ UNCHANGED <<uptime, snapshot, temp, saver, saves, faults, landed>>

CutPower == /\ Powered /\ faults < MaxFaults
            /\ faults' = faults + 1
            /\ uptime' = 0
            /\ replies' = EmptyCache
            /\ saver' = NotSaving
            /\ landed' = IF saver.pc = "rename" THEN <<>> ELSE landed
            /\ UNCHANGED <<snapshot, temp, saves>>

\* cache_load_sd: every record the header counts comes back as just expired.
LoadSnapshot == /\ ~Powered
                /\ uptime' = 1
                /\ replies' = [e \in 1 .. Entries |->
                      IF \E f \in {snapshot[i] : i \in DOMAIN snapshot} :
                            \E i \in 1 .. f.count : f.records[i].entry = e
                      THEN <<1>> ELSE <<>>]
                /\ UNCHANGED <<snapshot, temp, saver, saves, faults, landed>>

-----------------------------------------------------------------------------
(***************************************************************************)
(* dns_server_cache_save.                                                  *)
(***************************************************************************)
Saver(s) == saver' = s /\ UNCHANGED <<uptime, replies>>

OpenTemp == /\ Powered /\ saver.pc = "idle" /\ saves < MaxSaves
            /\ saves' = saves + 1
            /\ temp' = <<[count |-> 0, records |-> <<>>]>>
            /\ Saver([pc |-> "entry", at |-> 1, began |-> uptime, undisturbed |-> TRUE])
            /\ UNCHANGED <<snapshot, faults, landed>>

AfterEntry == IF saver.at = Entries THEN [saver EXCEPT !.pc = "patch"] ELSE [saver EXCEPT !.at = @ + 1]

ReplyOf(e) == {replies[e][i] : i \in DOMAIN replies[e]}

\* One entry is written; one past the window, or in the writer's hands, is not.
SaveEntry == /\ saver.pc = "entry"
             /\ Saver(AfterEntry)
             /\ LET kept == {r \in ReplyOf(saver.at) : r + StaleMax > saver.began}
                IN  temp' = [temp EXCEPT ![1].records =
                                IF kept = {} THEN @
                                ELSE Append(@, [entry |-> saver.at, reply |-> CHOOSE r \in kept : TRUE])]
             /\ UNCHANGED <<snapshot, saves, faults, landed>>

PassOver == /\ saver.pc = "entry"
            /\ Saver(AfterEntry)
            /\ UNCHANGED <<snapshot, temp, saves, faults, landed>>

\* A short write ends the loop; a failed patch leaves the count 0.
WriteFails == /\ saver.pc \in {"entry", "patch"} /\ faults < MaxFaults
              /\ faults' = faults + 1
              /\ Saver([saver EXCEPT !.pc = IF @ = "entry" THEN "patch" ELSE "remove", !.undisturbed = FALSE])
              /\ UNCHANGED <<snapshot, temp, saves, landed>>

PatchCount == /\ saver.pc = "patch"
              /\ temp' = [temp EXCEPT ![1].count = Len(temp[1].records)]
              /\ Saver([saver EXCEPT !.pc = "remove"])
              /\ UNCHANGED <<snapshot, saves, faults, landed>>

\* Mutant: the old snapshot is left for the rename to replace.
LeaveOld == saver.pc = "remove" /\ Saver([saver EXCEPT !.pc = "rename"])
               /\ UNCHANGED <<snapshot, temp, saves, faults, landed>>

RemoveOld == /\ saver.pc = "remove"
             /\ snapshot' = <<>>
             /\ Saver([saver EXCEPT !.pc = "rename"])
             /\ UNCHANGED <<temp, saves, faults, landed>>

\* FatFs renames onto no existing file: then the save is dropped.
RenameTemp == /\ saver.pc = "rename"
              /\ snapshot' = IF snapshot = <<>> THEN temp ELSE snapshot
              /\ temp' = <<>>
              /\ landed' = IF saver.undisturbed THEN temp ELSE <<>>
              /\ Saver(NotSaving)
              /\ UNCHANGED <<saves, faults>>

WsNext == \/ WsTick \/ CutPower \/ LoadSnapshot
          \/ \E e \in 1 .. Entries : StoreReply(e)
          \/ OpenTemp \/ SaveEntry \/ PassOver \/ WriteFails \/ PatchCount \/ RemoveOld \/ RenameTemp

WsSpec == WsInit /\ [][WsNext]_wsVars

-----------------------------------------------------------------------------
(***************************************************************************)
(* Properties.                                                             *)
(***************************************************************************)
\* A save nothing disturbed is what a boot finds, every record of it, until the
\* next save takes its place; a file is read no further than it was written.
SavedRepliesComeBack ==
    /\ landed # <<>> /\ saver.pc # "rename" => snapshot = landed /\ Head(landed).count = Len(Head(landed).records)
    /\ snapshot # <<>> => Head(snapshot).count <= Len(Head(snapshot).records)
===============================================================================
