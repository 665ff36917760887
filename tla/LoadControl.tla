------------------------------ MODULE LoadControl ------------------------------
(***************************************************************************)
(* How a reload is asked for, carried out, retried and stopped.            *)
(* download_task (dns_sink.cpp) polls for requests and runs                *)
(* blocklist_load_with_retry (blocklist.c), which fetches the feeds one    *)
(* after the other (http_fetch.c); httpd requests and stops reloads; and   *)
(* the timer task runs a watchdog against the fetch in progress.  They     *)
(* share flags without a lock, and the watchdog a pointer to a fetch that  *)
(* lives on download_task's stack.                                         *)
(*                                                                         *)
(* Feed 0 is the primary, 1 .. Extras are the others.  A feed's lines are  *)
(* left out but for one thing: each looks at the stop flag.  The boot's    *)
(* download is a reload like another, with its own number of retries.      *)
(***************************************************************************)
EXTENDS Naturals

CONSTANTS Extras,       \* number of extra feeds
          Retries,      \* length of the table of delays
          TotalTicks,   \* total_timeout_s, in ticks of the watchdog
          MaxReloads,   \* bound on scheduled reloads
          MaxRequests,  \* bound on POST /reload
          MaxStops      \* bound on POST /blocklist/stop

ASSUME SizesAssumption  == Extras \in Nat /\ Retries \in Nat /\ TotalTicks \in Nat \ {0}
ASSUME BoundsAssumption == MaxReloads \in Nat /\ MaxRequests \in Nat /\ MaxStops \in Nat

Feed == 0 .. Extras

VARIABLES requested,  \* s_reload_requested
          loading,    \* s_loading
          pending,    \* s_retry_pending
          stop,       \* s_stop_requested
          task,       \* download_task: where, which retry, which feed, how each feed fared
          fetch,      \* fetch_ctx_t of http_fetch_lines_ex
          wd,         \* the watchdog timer, its callback, s_wd_lock and s_wd_fc
          httpd,      \* blocklist_stop_load: where
          saved,      \* how the feeds of the list saved last fared
          heeded,     \* history: a stop was accepted where this reload must see it
          left        \* what is left of the bounds

vars == <<requested, loading, pending, stop, task, fetch, wd, httpd, saved, heeded, left>>

Fate == {"unvisited", "disabled", "full", "whole", "broken", "skipped"}
Fates == [Feed -> Fate]

TaskType  == [pc : {"poll", "begin", "clear", "feed", "fetching", "publish", "save",
                    "return", "retry", "asleep", "end"},
              try : 0 .. Retries, feed : 0 .. Extras + 1, fate : Fates, count : BOOLEAN]
FetchType == [pc : {"none", "ready", "perform", "stopped", "retired"},
              aborted : BOOLEAN, whole : BOOLEAN, ticks : 0 .. TotalTicks]
WdType    == [armed : BOOLEAN, pc : {"idle", "fired", "using", "giving"},
              lock : {"free", "timer"}, fc : BOOLEAN]
LeftType  == [reloads : 0 .. MaxReloads, requests : 0 .. MaxRequests, stops : 0 .. MaxStops]

TypeOK == /\ requested \in BOOLEAN /\ loading \in BOOLEAN
          /\ pending \in BOOLEAN /\ stop \in BOOLEAN
          /\ task \in TaskType
          /\ fetch \in FetchType
          /\ wd \in WdType
          /\ httpd \in {"idle", "unloaded", "accept"}
          /\ saved \in Fates
          /\ heeded \in BOOLEAN
          /\ left \in LeftType

Unvisited == [f \in Feed |-> "unvisited"]
NoFetch == [pc |-> "none", aborted |-> FALSE, whole |-> FALSE, ticks |-> 0]

Init == /\ requested = FALSE /\ loading = FALSE /\ pending = FALSE /\ stop = FALSE
        /\ task = [pc |-> "poll", try |-> 0, feed |-> 0, fate |-> Unvisited, count |-> FALSE]
        /\ fetch = NoFetch
        /\ wd = [armed |-> FALSE, pc |-> "idle", lock |-> "free", fc |-> FALSE]
        /\ httpd = "idle"
        /\ saved = [f \in Feed |-> "whole"]
        /\ heeded = FALSE
        /\ left = [reloads |-> MaxReloads, requests |-> MaxRequests, stops |-> MaxStops]

-----------------------------------------------------------------------------
(***************************************************************************)
(* download_task.                                                          *)
(***************************************************************************)
fetchVars == <<fetch, wd>>
askVars   == <<requested, httpd, left>>

Goto(pc) == task' = [task EXCEPT !.pc = pc]

\* The 4 h schedule.
StartScheduled == /\ task.pc = "poll" /\ left.reloads > 0
                  /\ left' = [left EXCEPT !.reloads = @ - 1]
                  /\ task' = [task EXCEPT !.pc = "begin", !.try = 0]
                  /\ heeded' = FALSE
                  /\ UNCHANGED <<requested, loading, pending, stop, fetchVars, httpd, saved>>

\* A manual reload.
StartRequested == /\ task.pc = "poll" /\ requested
                  /\ requested' = FALSE
                  /\ task' = [task EXCEPT !.pc = "begin", !.try = 0]
                  /\ heeded' = FALSE
                  /\ UNCHANGED <<loading, pending, stop, fetchVars, httpd, saved, left>>

\* blocklist_load's first two stores.
BeginLoad == /\ task.pc = "begin"
             /\ loading' = TRUE
             /\ Goto("clear")
             /\ UNCHANGED <<pending, stop, fetchVars, askVars, saved, heeded>>

ClearStop == /\ task.pc = "clear"
             /\ stop' = FALSE
             /\ task' = [task EXCEPT !.pc = "feed", !.feed = 0, !.fate = Unvisited]
             /\ UNCHANGED <<loading, pending, fetchVars, askVars, saved, heeded>>

\* An extra feed without a URL, and, if no stop is seen, a disabled one, one
\* that is not https, or every one left because the list is full.
PassFeed == /\ task.pc = "feed" /\ task.feed \in 1 .. Extras
            /\ \/ task' = [task EXCEPT !.feed = @ + 1, !.fate[task.feed] = "disabled"]
               \/ ~stop /\ task' = [task EXCEPT !.feed = @ + 1, !.fate[task.feed] = "broken"]
               \/ ~stop /\ task' = [task EXCEPT !.pc = "publish",
                        !.fate = [f \in Feed |-> IF f < task.feed THEN @[f] ELSE "full"]]
            /\ UNCHANGED <<loading, pending, stop, fetchVars, askVars, saved, heeded>>

\* Mutant: the feeds left by a stop are not counted.
SkipRestUncounted == /\ task.pc = "feed" /\ task.feed \in 1 .. Extras /\ stop
                     /\ Goto("publish")
                     /\ UNCHANGED <<loading, pending, stop, fetchVars, askVars, saved, heeded>>

\* A stop is seen between two feeds: the enabled ones that are left are counted.
SkipRest == /\ task.pc = "feed" /\ task.feed \in 1 .. Extras /\ stop
            /\ \E enabled \in SUBSET (task.feed .. Extras) :
                  task' = [task EXCEPT !.pc = "publish",
                                       !.fate = [f \in Feed |-> CASE f < task.feed -> @[f]
                                                      [] f \in enabled -> "skipped"
                                                      [] OTHER         -> "disabled"]]
            /\ UNCHANGED <<loading, pending, stop, fetchVars, askVars, saved, heeded>>

LastFeed == /\ task.pc = "feed" /\ task.feed > Extras
            /\ Goto("publish")
            /\ UNCHANGED <<loading, pending, stop, fetchVars, askVars, saved, heeded>>

OpenFetch == /\ task.pc = "feed" /\ task.feed <= Extras
             /\ task.feed > 0 => ~stop
             /\ Goto("fetching")
             /\ fetch' = [NoFetch EXCEPT !.pc = "ready"]
             /\ UNCHANGED <<loading, pending, stop, wd, askVars, saved, heeded>>

\* The watchdog is started last; without memory for it there is none.
Perform == /\ task.pc = "fetching" /\ fetch.pc = "ready"
           /\ fetch' = [fetch EXCEPT !.pc = "perform"]
           /\ \/ wd' = [wd EXCEPT !.armed = TRUE, !.fc = TRUE]
              \/ UNCHANGED wd
           /\ UNCHANGED <<task, loading, pending, stop, askVars, saved, heeded>>

\* The next line of the feed is refused.
LineSeesStop == /\ fetch.pc = "perform" /\ stop
                /\ fetch' = [fetch EXCEPT !.aborted = TRUE]
                /\ UNCHANGED <<task, wd, loading, pending, stop, askVars, saved, heeded>>

\* The stream ends, the server or the network fails, or the socket was shut.
PerformEnds == /\ fetch.pc = "perform"
               /\ \E whole \in {FALSE, ~fetch.aborted} :
                     fetch' = [fetch EXCEPT !.pc = "stopped", !.whole = whole]
               /\ wd' = [wd EXCEPT !.armed = FALSE]
               /\ UNCHANGED <<task, loading, pending, stop, askVars, saved, heeded>>

\* Mutant: the callback in flight is not waited for.
RetireUnlocked == /\ fetch.pc = "stopped"
                  /\ wd' = [wd EXCEPT !.fc = FALSE]
                  /\ fetch' = [fetch EXCEPT !.pc = "retired"]
                  /\ UNCHANGED <<task, loading, pending, stop, askVars, saved, heeded>>

\* Under the lock, so that no callback is using the fetch.
Retire == /\ fetch.pc = "stopped" /\ wd.lock = "free"
          /\ wd' = [wd EXCEPT !.fc = FALSE]
          /\ fetch' = [fetch EXCEPT !.pc = "retired"]
          /\ UNCHANGED <<task, loading, pending, stop, askVars, saved, heeded>>

\* http_fetch_lines_ex returns; its last, unterminated line may see a stop.
\* Without the primary the load ends, keeping the list.
FetchReturns ==
    /\ fetch.pc = "retired"
    /\ fetch' = NoFetch
    /\ \E ok \in {fetch.whole /\ ~fetch.aborted} \cup (IF stop THEN {FALSE} ELSE {}) :
          LET fate == [task.fate EXCEPT ![task.feed] = IF ok THEN "whole" ELSE "broken"]
          IN  IF ok \/ task.feed > 0
                THEN /\ task' = [task EXCEPT !.pc = "feed", !.feed = @ + 1, !.fate = fate]
                     /\ UNCHANGED loading
                ELSE /\ task' = [task EXCEPT !.pc = "return", !.fate = fate, !.count = FALSE]
                     /\ loading' = FALSE
    /\ UNCHANGED <<wd, pending, stop, askVars, saved, heeded>>

Publish == /\ task.pc = "publish"
           /\ loading' = FALSE
           /\ task' = [task EXCEPT !.pc = "save", !.count = TRUE]
           /\ UNCHANGED <<pending, stop, fetchVars, askVars, saved, heeded>>

Degraded == \E f \in Feed : task.fate[f] \in {"broken", "skipped"}

\* Saved unless a feed failed or exceptions were dropped.
Save == /\ task.pc = "save"
        /\ \/ ~Degraded /\ saved' = task.fate
           \/ UNCHANGED saved
        /\ Goto("return")
        /\ UNCHANGED <<loading, pending, stop, fetchVars, askVars, heeded>>

\* blocklist_load_with_retry.
LoadReturns == /\ task.pc = "return"
               /\ IF task.count
                    THEN Goto(IF pending THEN "end" ELSE "poll") /\ UNCHANGED pending
                    ELSE IF pending THEN Goto("retry") /\ UNCHANGED pending
                    ELSE IF stop THEN Goto("poll") /\ UNCHANGED pending
                    ELSE Goto("retry") /\ pending' = TRUE
               /\ UNCHANGED <<loading, stop, fetchVars, askVars, saved, heeded>>

\* Mutant: one attempt more than there are delays.
RetryBeyond == /\ task.pc = "retry"
               /\ Goto(IF stop \/ task.try > Retries THEN "end" ELSE "asleep")
               /\ UNCHANGED <<loading, pending, stop, fetchVars, askVars, saved, heeded>>

Retry == /\ task.pc = "retry"
         /\ Goto(IF stop \/ task.try = Retries THEN "end" ELSE "asleep")
         /\ UNCHANGED <<loading, pending, stop, fetchVars, askVars, saved, heeded>>

\* Mutant: no check after the sleep.
WakeUnchecked == /\ task.pc = "asleep"
                 /\ task' = [task EXCEPT !.pc = "begin", !.try = @ + 1]
                 /\ UNCHANGED <<loading, pending, stop, fetchVars, askVars, saved, heeded>>

Wake == /\ task.pc = "asleep"
        /\ task' = IF stop THEN [task EXCEPT !.pc = "end"]
                           ELSE [task EXCEPT !.pc = "begin", !.try = @ + 1]
        /\ UNCHANGED <<loading, pending, stop, fetchVars, askVars, saved, heeded>>

\* Mutant: a request that came during the retries is taken as served.
EndRetriesClears == /\ task.pc = "end"
                    /\ pending' = FALSE /\ requested' = FALSE
                    /\ Goto("poll")
                    /\ UNCHANGED <<loading, stop, fetchVars, httpd, left, saved, heeded>>

EndRetries == /\ task.pc = "end"
              /\ pending' = FALSE
              /\ Goto("poll")
              /\ UNCHANGED <<loading, stop, fetchVars, askVars, saved, heeded>>

Task == \/ StartScheduled \/ StartRequested \/ BeginLoad \/ ClearStop \/ PassFeed \/ SkipRest
        \/ LastFeed \/ OpenFetch \/ Perform \/ Retire \/ FetchReturns \/ Publish \/ Save
        \/ LoadReturns \/ Retry \/ Wake \/ EndRetries

-----------------------------------------------------------------------------
(***************************************************************************)
(* The timer task: fetch_watchdog_timer_cb.                                *)
(***************************************************************************)
loadVars == <<requested, loading, pending, stop, task, httpd, saved, heeded, left>>

\* The timer is found due; from here on stopping it does not stop the callback.
Fire == /\ wd.armed /\ wd.pc = "idle"
        /\ wd' = [wd EXCEPT !.pc = "fired"]
        /\ UNCHANGED <<fetch, loadVars>>

\* The callback takes the lock and looks for a live fetch.
Look == /\ wd.pc = "fired" /\ wd.lock = "free"
        /\ wd' = [wd EXCEPT !.lock = "timer", !.pc = IF wd.fc THEN "using" ELSE "giving"]
        /\ UNCHANGED <<fetch, loadVars>>

\* It aborts a fetch that is late, silent for too long, or to be stopped.
Watch == /\ wd.pc = "using"
         /\ fetch' = IF fetch.aborted THEN fetch
                     ELSE [fetch EXCEPT !.ticks = IF @ < TotalTicks THEN @ + 1 ELSE @,
                                        !.aborted = stop \/ fetch.ticks = TotalTicks]
         /\ wd' = [wd EXCEPT !.pc = "giving"]
         /\ UNCHANGED loadVars

WatchStalled == /\ wd.pc = "using"
                /\ fetch' = [fetch EXCEPT !.aborted = TRUE]
                /\ wd' = [wd EXCEPT !.pc = "giving"]
                /\ UNCHANGED loadVars

Give == /\ wd.pc = "giving"
        /\ wd' = [wd EXCEPT !.pc = "idle", !.lock = "free"]
        /\ UNCHANGED <<fetch, loadVars>>

Watchdog == Fire \/ Look \/ Watch \/ WatchStalled \/ Give

-----------------------------------------------------------------------------
(***************************************************************************)
(* httpd: dns_sink_trigger_reload, blocklist_stop_load.                    *)
(***************************************************************************)
Request == /\ left.requests > 0
           /\ left' = [left EXCEPT !.requests = @ - 1]
           /\ requested' = TRUE
           /\ UNCHANGED <<loading, pending, stop, task, fetchVars, httpd, saved, heeded>>

\* The two flags that say whether there is something to stop are read in turn.
ReadLoading == /\ httpd = "idle" /\ left.stops > 0
               /\ left' = [left EXCEPT !.stops = @ - 1]
               /\ httpd' = IF loading THEN "accept" ELSE "unloaded"
               /\ UNCHANGED <<requested, loading, pending, stop, task, fetchVars, saved, heeded>>

ReadPending == /\ httpd = "unloaded"
               /\ httpd' = IF pending THEN "accept" ELSE "idle"
               /\ UNCHANGED <<requested, loading, pending, stop, task, fetchVars, saved, heeded, left>>

Accept == /\ httpd = "accept"
          /\ stop' = TRUE
          /\ heeded' = (task.pc \notin {"poll", "begin", "clear"})
          /\ httpd' = "idle"
          /\ UNCHANGED <<requested, loading, pending, task, fetchVars, saved, left>>

Httpd == Request \/ ReadLoading \/ ReadPending \/ Accept

Next == Task \/ LineSeesStop \/ PerformEnds \/ Watchdog \/ Httpd

\* The tasks are scheduled again.  Only a fetch that is aborted, or has no
\* watchdog and so the socket's own timeout, is sure to end.
Spec == /\ Init /\ [][Next]_vars
        /\ WF_vars(Task) /\ WF_vars(Watchdog)
        /\ WF_vars(PerformEnds /\ (fetch.aborted \/ ~wd.armed))

-----------------------------------------------------------------------------
(***************************************************************************)
(* Properties.                                                             *)
(***************************************************************************)
\* The watchdog's callback never uses a fetch that has returned, although
\* stopping the timer does not stop a callback already on its way.
WatchdogUsesLiveFetch == wd.pc = "using" => fetch.pc \in {"perform", "stopped"}

\* A stop accepted during a reload, its sleeps included, ends it: no further
\* attempt is made.  Not so for one accepted just before an attempt clears
\* the flag, which heeded leaves out.
StopIsHeeded == heeded => task.pc \notin {"begin", "clear"}

\* What is saved for the next boot is never a list that lacks a feed because
\* it failed or was stopped: each feed arrived whole, or was switched off, or
\* there was no room for it.
SavedIsUndegraded == \A f \in Feed : saved[f] \in {"whole", "disabled", "full"}

\* No request is lost, whatever reload is under way when it comes: a load
\* begins after it.
RequestIsLoaded == requested ~> task.pc = "begin"
================================================================================
