----------------------------- MODULE BlocklistLive -----------------------------
(***************************************************************************)
(* The list in service and the verdicts taken from it (blocklist.c).       *)
(* download_task rebuilds the one image in place: it clears s_live, sleeps *)
(* two ticks, rewrites the image, publishes the other snapshot descriptor  *)
(* and bumps the generation.  dns_task (blocklist_verdict) and the         *)
(* Ethernet hook (blocklist_verdict_nb) load s_live, take s_wl_mutex and   *)
(* walk the image, the exceptions and the small tables; httpd edits the    *)
(* small tables under the same mutex.                                      *)
(*                                                                         *)
(* A list is the number of the reload that made it; the image has two      *)
(* parts, written and read one by one, and a torn verdict is one taken     *)
(* from parts of different lists.  Time is counted in FreeRTOS ticks: a    *)
(* wait for the mutex ends by the second tick, a sleep not before it, and  *)
(* a walk is short enough to see at most one tick.                         *)
(***************************************************************************)
EXTENDS Naturals

CONSTANTS MaxLists,  \* bound on reloads
          MaxEdits   \* bound on edits of the small tables

ASSUME LiveAssumption == MaxLists \in Nat /\ MaxEdits \in Nat

Wait  == 2   \* pdMS_TO_TICKS(2) at 1000 Hz: the bounded take, and the sleep
Sight == 1   \* ticks a walk may see

List   == 0 .. MaxLists
Buffer == {0, 1}
NoBuffer == 2
Reader == {"dns", "l2"}
Part   == {"index", "entries", "exceptions"}

VARIABLES live,      \* s_live: the descriptor in service, or NoBuffer (NULL)
          image,     \* the list each half of the image is from
          exc,       \* the list each buffer of exceptions is from
          tables,    \* whitelist and custom rules: how often edited
          gen,       \* s_blocklist_gen
          lock,      \* s_wl_mutex: "free" or its holder
          loader,    \* how far download_task's reload has got
          editor,    \* how far httpd's edit has got
          reader,    \* each verdict being taken
          cached     \* the verdict dns_task stored last, and its stamp

liveVars == <<live, image, exc, tables, gen, lock, loader, editor, reader, cached>>

ViewType == [index : List, entries : List, exceptions : List, tables : 0 .. MaxEdits]
Gens == 0 .. MaxLists + MaxEdits

LiveTypeOK == /\ live \in Buffer \cup {NoBuffer}
              /\ image \in [{"index", "entries"} -> List]
              /\ exc \in [Buffer -> List]
              /\ tables \in 0 .. MaxEdits
              /\ gen \in Gens
              /\ lock \in {"free", "httpd"} \cup Reader
              /\ loader \in [pc : {"idle", "fetched", "asleep", "entries", "publish", "bump"},
                             list : List, buf : Buffer, ticks : 0 .. Wait]
              /\ editor \in {"idle", "edit", "bump", "give"}
              /\ reader \in [Reader -> [pc : {"idle", "begin", "take", "index", "entries", "exceptions",
                                              "tables", "check", "done", "unproven"},
                                        stamp : Gens, snap : Buffer \cup {NoBuffer},
                                        ticks : 0 .. Wait, view : ViewType]]
              /\ cached \in [valid : BOOLEAN, stamp : Gens, view : ViewType]

NoView == [index |-> 0, entries |-> 0, exceptions |-> 0, tables |-> 0]
Idle   == [pc |-> "idle", stamp |-> 0, snap |-> NoBuffer, ticks |-> 0, view |-> NoView]

\* The device has booted with a saved list in service, or with none.
LiveInit == /\ live \in {0, NoBuffer}
            /\ image = [h \in {"index", "entries"} |-> 0]
            /\ exc = [b \in Buffer |-> 0]
            /\ tables = 0 /\ gen = 0 /\ lock = "free"
            /\ loader = [pc |-> "idle", list |-> 0, buf |-> 0, ticks |-> 0]
            /\ editor = "idle"
            /\ reader = [r \in Reader |-> Idle]
            /\ cached = [valid |-> FALSE, stamp |-> 0, view |-> NoView]

-----------------------------------------------------------------------------
(***************************************************************************)
(* download_task: blocklist_load.                                          *)
(***************************************************************************)
others == <<tables, lock, editor, reader, cached>>

\* The feeds' exceptions go into the buffer that is not in service.
Fetch == /\ loader.pc = "idle" /\ loader.list < MaxLists
         /\ exc' = [exc EXCEPT ![1 - loader.buf] = loader.list + 1]
         /\ loader' = [loader EXCEPT !.pc = "fetched", !.list = @ + 1]
         /\ UNCHANGED <<live, image, gen, others>>

\* The primary feed fails or the load is stopped: the old list stays.
FetchFails == /\ loader.pc = "fetched"
              /\ loader' = [loader EXCEPT !.pc = "idle"]
              /\ UNCHANGED <<live, image, exc, gen, others>>

Withdraw == /\ loader.pc = "fetched"
            /\ live' = NoBuffer
            /\ loader' = [loader EXCEPT !.pc = "asleep", !.ticks = 0]
            /\ UNCHANGED <<image, exc, gen, others>>

\* bl_build_image, in one pass over index and entries.
RebuildIndex == /\ loader.pc = "asleep" /\ loader.ticks = Wait
                /\ image' = [image EXCEPT !["index"] = loader.list]
                /\ loader' = [loader EXCEPT !.pc = "entries"]
                /\ UNCHANGED <<live, exc, gen, others>>

RebuildEntries == /\ loader.pc = "entries"
                  /\ image' = [image EXCEPT !["entries"] = loader.list]
                  /\ loader' = [loader EXCEPT !.pc = "publish"]
                  /\ UNCHANGED <<live, exc, gen, others>>

\* Mutant: an empty list is not put into service.
PublishNothing == /\ loader.pc = "publish"
                  /\ loader' = [loader EXCEPT !.pc = "bump", !.buf = 1 - @]
                  /\ UNCHANGED <<live, image, exc, gen, others>>

PublishImage == /\ loader.pc = "publish"
                /\ live' = 1 - loader.buf
                /\ loader' = [loader EXCEPT !.pc = "bump", !.buf = 1 - @]
                /\ UNCHANGED <<image, exc, gen, others>>

\* Mutant: the generation stays.
BumpNothing == /\ loader.pc = "bump"
               /\ loader' = [loader EXCEPT !.pc = "idle", !.ticks = 0]
               /\ UNCHANGED <<live, image, exc, gen, others>>

Bump == /\ loader.pc = "bump"
        /\ gen' = gen + 1
        /\ loader' = [loader EXCEPT !.pc = "idle", !.ticks = 0]
        /\ UNCHANGED <<live, image, exc, others>>

Loader == \/ Fetch \/ FetchFails \/ Withdraw \/ RebuildIndex \/ RebuildEntries
          \/ PublishImage \/ Bump

-----------------------------------------------------------------------------
(***************************************************************************)
(* httpd: blocklist_whitelist_add, _remove, blocklist_custom_set; and what  *)
(* only holds the mutex: an edit that finds no room or no such name, and    *)
(* the reads of the small tables for the web page.                          *)
(***************************************************************************)
Hold(pc) == /\ editor' = pc
            /\ UNCHANGED <<live, image, exc, loader, reader, cached>>

EditorTakes == /\ editor = "idle" /\ lock = "free"
               /\ lock' = "httpd"
               /\ \/ tables < MaxEdits /\ Hold("edit")
                  \/ Hold("give")
               /\ UNCHANGED <<tables, gen>>

Edit == /\ editor = "edit"
        /\ tables' = tables + 1
        /\ Hold("bump")
        /\ UNCHANGED <<gen, lock>>

EditorBumps == /\ editor = "bump"
               /\ gen' = gen + 1
               /\ Hold("give")
               /\ UNCHANGED <<tables, lock>>

EditorGives == /\ editor = "give"
               /\ lock' = "free"
               /\ Hold("idle")
               /\ UNCHANGED <<tables, gen>>

Editor == EditorTakes \/ Edit \/ EditorBumps \/ EditorGives

-----------------------------------------------------------------------------
(***************************************************************************)
(* The two verdicts.                                                       *)
(***************************************************************************)
Step(r, q) == /\ reader' = [reader EXCEPT ![r] = q]
              /\ UNCHANGED <<live, image, exc, tables, gen, loader, editor>>

\* dns_task reads the generation before it asks; the hook stores nothing.
Ask(r) == /\ reader[r].pc = "idle"
          /\ Step(r, [Idle EXCEPT !.pc = "begin", !.stamp = IF r = "dns" THEN gen ELSE 0])
          /\ UNCHANGED <<lock, cached>>

LoadSnapshot(r) ==
    /\ reader[r].pc = "begin"
    /\ Step(r, IF live = NoBuffer THEN [Idle EXCEPT !.pc = "unproven"]
                                  ELSE [reader[r] EXCEPT !.pc = "take", !.snap = live])
    /\ UNCHANGED <<lock, cached>>

Take(r) == /\ reader[r].pc = "take" /\ lock = "free"
           /\ lock' = r
           /\ Step(r, [reader[r] EXCEPT !.pc = "index", !.ticks = 0])
           /\ UNCHANGED cached

\* The hook does not wait, dns_task waits two ticks.
GiveUp(r) == /\ reader[r].pc = "take" /\ lock # "free"
             /\ r = "dns" => reader[r].ticks = Wait
             /\ Step(r, [Idle EXCEPT !.pc = "unproven"])
             /\ UNCHANGED <<lock, cached>>

Walk(r) == \/ \E h \in {"index", "entries"} :
                 /\ reader[r].pc = h
                 /\ Step(r, [reader[r] EXCEPT
                                !.pc = IF h = "index" THEN "entries" ELSE "exceptions",
                                !.view[h] = image[h]])
                 /\ UNCHANGED <<lock, cached>>
           \/ /\ reader[r].pc = "exceptions"
              /\ Step(r, [reader[r] EXCEPT !.pc = "tables",
                                           !.view["exceptions"] = exc[reader[r].snap]])
              /\ UNCHANGED <<lock, cached>>
           \/ /\ reader[r].pc = "tables"
              /\ Step(r, [reader[r] EXCEPT !.pc = IF r = "l2" THEN "check" ELSE "done",
                                           !.view["tables"] = tables])
              /\ lock' = "free"
              /\ UNCHANGED cached

\* Mutant: the hook trusts its walk.
RecheckNothing(r) == /\ reader[r].pc = "check"
                     /\ Step(r, [reader[r] EXCEPT !.pc = "done"])
                     /\ UNCHANGED <<lock, cached>>

\* The hook looks again whether its snapshot is the one in service.
Recheck(r) == /\ reader[r].pc = "check"
              /\ Step(r, [reader[r] EXCEPT !.pc = IF live = reader[r].snap THEN "done"
                                                                          ELSE "unproven"])
              /\ UNCHANGED <<lock, cached>>

\* dns_task stores the verdict under its stamp; an unproven one is not stored.
Return(r) == /\ reader[r].pc \in {"done", "unproven"}
             /\ cached' = IF r = "dns" /\ reader[r].pc = "done"
                          THEN [valid |-> TRUE, stamp |-> reader[r].stamp, view |-> reader[r].view]
                          ELSE cached
             /\ Step(r, Idle)
             /\ UNCHANGED lock

Read(r) == Ask(r) \/ LoadSnapshot(r) \/ Take(r) \/ GiveUp(r) \/ Walk(r) \/ Recheck(r) \/ Return(r)

-----------------------------------------------------------------------------
\* A tick passes when no wait is over and no walk has seen its tick.
Patience(r) == IF reader[r].pc = "take" THEN (IF r = "dns" THEN Wait ELSE Sight) ELSE Sight

Tick == /\ \A r \in Reader : reader[r].pc # "idle" => reader[r].ticks < Patience(r)
        /\ reader' = [r \in Reader |-> IF reader[r].pc = "idle" THEN reader[r]
                                       ELSE [reader[r] EXCEPT !.ticks = @ + 1]]
        /\ loader' = [loader EXCEPT !.ticks = IF loader.pc = "asleep" /\ @ < Wait THEN @ + 1 ELSE @]
        /\ UNCHANGED <<live, image, exc, tables, gen, lock, editor, cached>>

LiveNext == Loader \/ Editor \/ (\E r \in Reader : Read(r)) \/ Tick

\* Every task is scheduled again, and time passes.
LiveSpec == /\ LiveInit /\ [][LiveNext]_liveVars
             /\ WF_liveVars(Loader) /\ WF_liveVars(Editor) /\ WF_liveVars(Tick)
             /\ \A r \in Reader : WF_liveVars(Read(r))

-----------------------------------------------------------------------------
(***************************************************************************)
(* Properties.                                                             *)
(***************************************************************************)
Whole(v) == v.index = v.entries /\ v.entries = v.exceptions

\* The list in service; meaningful while live is a buffer.
InService == exc[live]

\* A verdict the hook acts on is of one list, the one in service when it
\* decided, however reloads and edits interleave with its walk.
HookVerdictIsProven ==
    reader["l2"].pc = "done" => Whole(reader["l2"].view)

\* Even if dns_task's verdict was torn by a rebuild, its stamp is outdated by
\* the time the new list serves: what the cache may answer with is the verdict
\* of the list and the tables in force, once no edit is under way.
CachedVerdictIsCurrent ==
    cached.valid /\ cached.stamp = gen /\ loader.pc \in {"idle", "fetched"} /\ lock # "httpd" =>
        /\ Whole(cached.view) /\ cached.view.index = InService
        /\ cached.view.tables = tables

\* A reload that has withdrawn the list puts one back into service.
WindowCloses == loader.pc = "asleep" ~> live # NoBuffer

\* "RCU quiescence; drains in-flight readers" (docs/blocklist-format.md): no
\* verdict is ever taken from a half rebuilt image.
VerdictIsNeverTorn == \A r \in Reader : reader[r].pc = "done" => Whole(reader[r].view)
===============================================================================
