------------------------------ MODULE Load_proofs ------------------------------
(***************************************************************************)
(* The reload of the list (LoadControl) and what the readers of the list   *)
(* see meanwhile (BlocklistLive), for any number of feeds, retries,        *)
(* requests, reloads and edits; and that the instance the runs explore     *)
(* (MCLoad) is a behaviour of each.                                        *)
(***************************************************************************)
EXTENDS MCLoad, TLAPS

USE SizesAssumption, BoundsAssumption

-----------------------------------------------------------------------------
(***************************************************************************)
(* A reload.  The watchdog's callback holds the lock while it uses a       *)
(* fetch, and a fetch is published only while it performs (WatchdogInv); a *)
(* heeded stop is still set and no attempt has begun to clear it           *)
(* (HeedInv); a list on its way to the save has an outcome for each feed   *)
(* (FateInv).                                                              *)
(***************************************************************************)
Live == {"perform", "stopped"}

WatchdogInv == /\ fetch.pc = "none" <=> task.pc # "fetching"
               /\ wd.fc => fetch.pc \in Live
               /\ wd.pc = "using" => fetch.pc \in Live
               /\ wd.lock = "timer" <=> wd.pc \in {"using", "giving"}

HeedInv == heeded => stop /\ task.pc \notin {"begin", "clear"}

FateInv == /\ task.pc = "asleep" => task.try < Retries
           /\ task.pc \in {"feed", "fetching"} =>
                 \A f \in Feed : f < task.feed => task.fate[f] # "unvisited"
           /\ task.pc = "fetching" => task.feed <= Extras
           /\ task.pc \in {"publish", "save"} =>
                 \A f \in Feed : task.fate[f] # "unvisited"
           /\ SavedIsUndegraded

IInv == TypeOK /\ WatchdogInv /\ HeedInv /\ FateInv

-----------------------------------------------------------------------------
LEMMA InitIInv == Init => IInv
<1> SUFFICES ASSUME Init PROVE IInv
  OBVIOUS
<1>1. Unvisited \in Fates /\ [f \in Feed |-> "whole"] \in Fates
  BY DEF Unvisited, Fates, Fate
<1>2. /\ 0 \in 0 .. Retries /\ 0 \in 0 .. Extras + 1 /\ 0 \in 0 .. TotalTicks
      /\ MaxReloads \in 0 .. MaxReloads /\ MaxRequests \in 0 .. MaxRequests
      /\ MaxStops \in 0 .. MaxStops
  OBVIOUS
<1>3. task \in TaskType
  BY <1>1, <1>2, Zenon DEF Init, TaskType
<1>4. fetch \in FetchType /\ wd \in WdType
  BY <1>2, Zenon DEF Init, NoFetch, FetchType, WdType
<1>5. left \in LeftType
  BY <1>2, Zenon DEF Init, LeftType
<1>6. TypeOK
  BY <1>1, <1>3, <1>4, <1>5 DEF Init, TypeOK
<1>7. WatchdogInv /\ HeedInv
  BY DEF Init, NoFetch, WatchdogInv, HeedInv
<1>8. FateInv
  BY DEF Init, FateInv, SavedIsUndegraded, Feed
<1> QED BY <1>6, <1>7, <1>8 DEF IInv

-----------------------------------------------------------------------------
\* Updates that keep the types of the records.
Pc == {"poll", "begin", "clear", "feed", "fetching", "publish", "save",
       "return", "retry", "asleep", "end"}

LEMMA TaskFields ==
    ASSUME TypeOK
    PROVE  task.pc \in Pc /\ task.try \in 0 .. Retries /\ task.feed \in 0 .. Extras + 1
           /\ task.fate \in Fates
BY DEF TypeOK, TaskType, Pc

LEMMA TaskUpdates ==
    ASSUME TypeOK
    PROVE  /\ \A pc \in Pc : [task EXCEPT !.pc = pc] \in TaskType
           /\ \A pc \in Pc, n \in 0 .. Retries : [task EXCEPT !.pc = pc, !.try = n] \in TaskType
           /\ \A pc \in Pc, c \in BOOLEAN : [task EXCEPT !.pc = pc, !.count = c] \in TaskType
           /\ \A pc \in Pc, a \in Fates : [task EXCEPT !.pc = pc, !.fate = a] \in TaskType
           /\ \A pc \in Pc, a \in Fates, c \in BOOLEAN :
                 [task EXCEPT !.pc = pc, !.fate = a, !.count = c] \in TaskType
           /\ \A n \in 0 .. Extras + 1, a \in Fates :
                 [task EXCEPT !.feed = n, !.fate = a] \in TaskType
           /\ \A pc \in Pc, n \in 0 .. Extras + 1, a \in Fates :
                 [task EXCEPT !.pc = pc, !.feed = n, !.fate = a] \in TaskType
<1>1. task \in TaskType
  BY DEF TypeOK
<1>2. \A pc \in Pc : [task EXCEPT !.pc = pc] \in TaskType
  BY <1>1, Zenon DEF TaskType, Pc
<1>3. \A pc \in Pc, n \in 0 .. Retries : [task EXCEPT !.pc = pc, !.try = n] \in TaskType
  BY <1>1, Zenon DEF TaskType, Pc
<1>4. \A pc \in Pc, c \in BOOLEAN : [task EXCEPT !.pc = pc, !.count = c] \in TaskType
  BY <1>1, Zenon DEF TaskType, Pc
<1>5. \A pc \in Pc, a \in Fates : [task EXCEPT !.pc = pc, !.fate = a] \in TaskType
  BY <1>1, Zenon DEF TaskType, Pc
<1>6. \A pc \in Pc, a \in Fates, c \in BOOLEAN :
        [task EXCEPT !.pc = pc, !.fate = a, !.count = c] \in TaskType
  BY <1>1, Zenon DEF TaskType, Pc
<1>7. \A n \in 0 .. Extras + 1, a \in Fates : [task EXCEPT !.feed = n, !.fate = a] \in TaskType
  BY <1>1, Zenon DEF TaskType, Pc
<1>8. \A pc \in Pc, n \in 0 .. Extras + 1, a \in Fates :
        [task EXCEPT !.pc = pc, !.feed = n, !.fate = a] \in TaskType
  BY <1>1, Zenon DEF TaskType, Pc
<1> QED BY <1>2, <1>3, <1>4, <1>5, <1>6, <1>7, <1>8

LEMMA OtherUpdates ==
    ASSUME TypeOK
    PROVE  /\ NoFetch \in FetchType /\ [NoFetch EXCEPT !.pc = "ready"] \in FetchType
           /\ \A pc \in {"perform", "stopped", "retired"} : [fetch EXCEPT !.pc = pc] \in FetchType
           /\ \A w \in BOOLEAN : [fetch EXCEPT !.pc = "stopped", !.whole = w] \in FetchType
           /\ [fetch EXCEPT !.aborted = TRUE] \in FetchType
           /\ \A n \in 0 .. TotalTicks, b \in BOOLEAN :
                 [fetch EXCEPT !.ticks = n, !.aborted = b] \in FetchType
           /\ \A b \in BOOLEAN : [wd EXCEPT !.armed = b] \in WdType
           /\ [wd EXCEPT !.armed = TRUE, !.fc = TRUE] \in WdType
           /\ [wd EXCEPT !.fc = FALSE] \in WdType
           /\ \A pc \in {"fired", "giving"} : [wd EXCEPT !.pc = pc] \in WdType
           /\ \A pc \in {"using", "giving"} : [wd EXCEPT !.lock = "timer", !.pc = pc] \in WdType
           /\ [wd EXCEPT !.pc = "idle", !.lock = "free"] \in WdType
<1>1. fetch \in FetchType /\ wd \in WdType /\ 0 \in 0 .. TotalTicks
  BY DEF TypeOK
<1>2. NoFetch \in FetchType /\ [NoFetch EXCEPT !.pc = "ready"] \in FetchType
  BY <1>1, Zenon DEF NoFetch, FetchType
<1>3. \A pc \in {"perform", "stopped", "retired"} : [fetch EXCEPT !.pc = pc] \in FetchType
  BY <1>1, Zenon DEF FetchType
<1>4. \A w \in BOOLEAN : [fetch EXCEPT !.pc = "stopped", !.whole = w] \in FetchType
  BY <1>1, Zenon DEF FetchType
<1>5. [fetch EXCEPT !.aborted = TRUE] \in FetchType
  BY <1>1, Zenon DEF FetchType
<1>6. \A n \in 0 .. TotalTicks, b \in BOOLEAN :
        [fetch EXCEPT !.ticks = n, !.aborted = b] \in FetchType
  BY <1>1, Zenon DEF FetchType
<1>7. /\ \A b \in BOOLEAN : [wd EXCEPT !.armed = b] \in WdType
      /\ [wd EXCEPT !.armed = TRUE, !.fc = TRUE] \in WdType
      /\ [wd EXCEPT !.fc = FALSE] \in WdType
  BY <1>1, Zenon DEF WdType
<1>8. /\ \A pc \in {"fired", "giving"} : [wd EXCEPT !.pc = pc] \in WdType
      /\ \A pc \in {"using", "giving"} : [wd EXCEPT !.lock = "timer", !.pc = pc] \in WdType
      /\ [wd EXCEPT !.pc = "idle", !.lock = "free"] \in WdType
  BY <1>1, Zenon DEF WdType
<1> QED BY <1>2, <1>3, <1>4, <1>5, <1>6, <1>7, <1>8

LEMMA LeftUpdates ==
    ASSUME TypeOK
    PROVE  /\ left.reloads > 0 => [left EXCEPT !.reloads = @ - 1] \in LeftType
           /\ left.requests > 0 => [left EXCEPT !.requests = @ - 1] \in LeftType
           /\ left.stops > 0 => [left EXCEPT !.stops = @ - 1] \in LeftType
<1>1. /\ \A n \in 0 .. MaxReloads : [left EXCEPT !.reloads = n] \in LeftType
      /\ \A n \in 0 .. MaxRequests : [left EXCEPT !.requests = n] \in LeftType
      /\ \A n \in 0 .. MaxStops : [left EXCEPT !.stops = n] \in LeftType
  BY Zenon DEF TypeOK, LeftType
<1>2. left.reloads \in 0 .. MaxReloads /\ left.requests \in 0 .. MaxRequests
      /\ left.stops \in 0 .. MaxStops
  BY DEF TypeOK, LeftType
<1> QED BY <1>1, <1>2

\* What FetchReturns does to the task: the next feed, or the end of the load.
Returned(fate) ==
    \/ task' = [task EXCEPT !.pc = "feed", !.feed = @ + 1, !.fate = fate] /\ UNCHANGED loading
    \/ task' = [task EXCEPT !.pc = "return", !.fate = fate, !.count = FALSE] /\ loading' = FALSE

LEMMA FetchOutcome ==
    ASSUME TypeOK, FetchReturns
    PROVE  \E d \in {"whole", "broken"} : Returned([task.fate EXCEPT ![task.feed] = d])
<1>1. PICK ok \in BOOLEAN :
        LET fate == [task.fate EXCEPT ![task.feed] = IF ok THEN "whole" ELSE "broken"]
        IN  IF ok \/ task.feed > 0
              THEN /\ task' = [task EXCEPT !.pc = "feed", !.feed = @ + 1, !.fate = fate]
                   /\ UNCHANGED loading
              ELSE /\ task' = [task EXCEPT !.pc = "return", !.fate = fate, !.count = FALSE]
                   /\ loading' = FALSE
  <2>1. fetch.whole \in BOOLEAN /\ fetch.aborted \in BOOLEAN
    BY DEF TypeOK, FetchType
  <2> QED BY <2>1, Zenon DEF FetchReturns
<1>2. Returned([task.fate EXCEPT ![task.feed] = IF ok THEN "whole" ELSE "broken"])
  BY <1>1, Zenon DEF Returned
<1> QED BY <1>2

-----------------------------------------------------------------------------
\* The steps keep the types.
LEMMA TypeStep == IInv /\ [Next]_vars => TypeOK'
<1> SUFFICES ASSUME IInv, [Next]_vars PROVE TypeOK'
  OBVIOUS
<1>i. TypeOK /\ WatchdogInv /\ FateInv
  BY DEF IInv
<1>t. \A pc \in Pc : [task EXCEPT !.pc = pc] \in TaskType
  BY <1>i, TaskUpdates
<1>f. task.pc \in Pc /\ task.try \in 0 .. Retries /\ task.feed \in 0 .. Extras + 1
      /\ task.fate \in Fates
  BY <1>i, TaskFields
<1>z. 0 \in 0 .. Retries /\ 0 \in 0 .. Extras + 1
  OBVIOUS
<1> USE DEF TypeOK, Goto, fetchVars, askVars, loadVars, Pc
<1>1. CASE StartScheduled
  <2>1. task' \in TaskType
    BY <1>1, <1>i, <1>z, TaskUpdates, Zenon DEF StartScheduled
  <2> QED BY <1>1, <1>i, <2>1, LeftUpdates DEF StartScheduled
<1>2. CASE StartRequested
  <2>1. task' \in TaskType
    BY <1>2, <1>i, <1>z, TaskUpdates, Zenon DEF StartRequested
  <2> QED BY <1>2, <1>i, <2>1 DEF StartRequested
<1>3. CASE BeginLoad
  BY <1>3, <1>i, <1>t DEF BeginLoad
<1>4. CASE ClearStop
  <2>1. Unvisited \in Fates
    BY DEF Unvisited, Fates, Fate
  <2>2. task' \in TaskType
    BY <1>4, <1>i, <1>z, <2>1, TaskUpdates, Zenon DEF ClearStop
  <2> QED BY <1>4, <1>i, <2>2 DEF ClearStop
<1>5. CASE PassFeed
  <2>1. \A d \in Fate : [task.fate EXCEPT ![task.feed] = d] \in Fates
    BY <1>5, <1>f DEF PassFeed, Fates, Feed
  <2>2. [f \in Feed |-> IF f < task.feed THEN task.fate[f] ELSE "full"] \in Fates
    BY <1>f DEF Fates, Fate
  <2>3. task.feed + 1 \in 0 .. Extras + 1 /\ {"disabled", "broken"} \subseteq Fate
    BY <1>5, <1>f DEF PassFeed, Fate
  <2>4. ASSUME NEW d \in {"disabled", "broken"},
               task' = [task EXCEPT !.feed = @ + 1, !.fate[task.feed] = d]
        PROVE  task' \in TaskType
    <3>1. task' = [task EXCEPT !.feed = task.feed + 1, !.fate = [task.fate EXCEPT ![task.feed] = d]]
      BY <2>4, Zenon
    <3> QED BY <1>i, <2>1, <2>3, <3>1, TaskUpdates
  <2>5. ASSUME task' = [task EXCEPT !.pc = "publish",
                          !.fate = [f \in Feed |-> IF f < task.feed THEN @[f] ELSE "full"]]
        PROVE  task' \in TaskType
    BY <1>i, <2>2, <2>5, TaskUpdates
  <2>6. task' \in TaskType
    BY <1>5, <2>4, <2>5 DEF PassFeed
  <2> QED BY <1>5, <1>i, <2>6 DEF PassFeed
<1>6. CASE SkipRest
  <2>1. PICK enabled \in SUBSET (task.feed .. Extras) :
          task' = [task EXCEPT !.pc = "publish",
                               !.fate = [f \in Feed |-> CASE f < task.feed -> @[f]
                                                          [] f \in enabled -> "skipped"
                                                          [] OTHER         -> "disabled"]]
    BY <1>6 DEF SkipRest
  <2>2. [f \in Feed |-> CASE f < task.feed -> task.fate[f]
                          [] f \in enabled -> "skipped"
                          [] OTHER         -> "disabled"] \in Fates
    BY <1>f DEF Fates, Fate
  <2>3. task' \in TaskType
    BY <1>i, <2>1, <2>2, TaskUpdates
  <2> QED BY <1>6, <1>i, <2>3 DEF SkipRest
<1>7. CASE LastFeed
  BY <1>7, <1>i, <1>t DEF LastFeed
<1>8. CASE OpenFetch
  BY <1>8, <1>i, <1>t, OtherUpdates DEF OpenFetch
<1>9. CASE Perform
  BY <1>9, <1>i, OtherUpdates DEF Perform
<1>10. CASE LineSeesStop
  BY <1>10, <1>i, OtherUpdates DEF LineSeesStop
<1>11. CASE PerformEnds
  <2>1. fetch.aborted \in BOOLEAN
    BY <1>i DEF FetchType
  <2>2. PICK whole \in {FALSE, ~fetch.aborted} :
          fetch' = [fetch EXCEPT !.pc = "stopped", !.whole = whole]
    BY <1>11 DEF PerformEnds
  <2>3. fetch' \in FetchType
    BY <1>i, <2>1, <2>2, OtherUpdates
  <2>4. wd' \in WdType
    BY <1>11, <1>i, OtherUpdates DEF PerformEnds
  <2> QED BY <1>11, <1>i, <2>3, <2>4 DEF PerformEnds
<1>12. CASE Retire
  BY <1>12, <1>i, OtherUpdates DEF Retire
<1>13. CASE FetchReturns
  <2>1. task.pc = "fetching" /\ task.feed \in Feed /\ task.feed + 1 \in 0 .. Extras + 1
    BY <1>13, <1>i, <1>f DEF FetchReturns, WatchdogInv, FateInv, Feed
  <2>2. \A d \in Fate : [task.fate EXCEPT ![task.feed] = d] \in Fates
    BY <1>f, <2>1 DEF Fates, Feed
  <2>3. {"whole", "broken"} \subseteq Fate
    BY DEF Fate
  <2>4. PICK d \in {"whole", "broken"} : Returned([task.fate EXCEPT ![task.feed] = d])
    BY <1>13, <1>i, FetchOutcome
  <2> DEFINE fate == [task.fate EXCEPT ![task.feed] = d]
  <2>6. fate \in Fates
    BY <2>2, <2>3
  <2>7. Returned(fate)
    BY <2>4
  <2> HIDE DEF fate
  <2>8. task' \in TaskType /\ loading' \in BOOLEAN
    <3>1. [task EXCEPT !.pc = "feed", !.feed = task.feed + 1, !.fate = fate] \in TaskType
      BY <1>i, <2>1, <2>6, TaskUpdates
    <3>2. [task EXCEPT !.pc = "return", !.fate = fate, !.count = FALSE] \in TaskType
      BY <1>i, <2>6, TaskUpdates
    <3> QED BY <1>i, <2>7, <3>1, <3>2, Zenon DEF Returned
  <2>5. fetch' \in FetchType
    BY <1>13, <1>i, OtherUpdates DEF FetchReturns
  <2> QED BY <1>13, <1>i, <2>5, <2>8 DEF FetchReturns
<1>14. CASE Publish
  BY <1>14, <1>i, TaskUpdates DEF Publish
<1>15. CASE Save
  BY <1>15, <1>i, <1>f, <1>t DEF Save
<1>16. CASE LoadReturns
  BY <1>16, <1>i, <1>t DEF LoadReturns
<1>17. CASE Retry
  BY <1>17, <1>i, <1>t DEF Retry
<1>18. CASE Wake
  <2>1. task.try + 1 \in 0 .. Retries
    BY <1>18, <1>i, <1>f DEF Wake, FateInv
  <2> QED BY <1>18, <1>i, <1>t, <2>1, TaskUpdates DEF Wake
<1>19. CASE EndRetries
  BY <1>19, <1>i, <1>t DEF EndRetries
<1>20. CASE Watchdog
  <2>1. CASE Fire
    BY <2>1, <1>i, OtherUpdates DEF Fire
  <2>2. CASE Look
    BY <2>2, <1>i, OtherUpdates DEF Look
  <2>3. CASE Watch
    <3>1. /\ (IF fetch.ticks < TotalTicks THEN fetch.ticks + 1 ELSE fetch.ticks) \in 0 .. TotalTicks
          /\ (stop \/ fetch.ticks = TotalTicks) \in BOOLEAN
      BY <1>i DEF FetchType
    <3>2. fetch' \in FetchType
      BY <2>3, <1>i, <3>1, OtherUpdates, Zenon DEF Watch
    <3> QED BY <2>3, <1>i, <3>2, OtherUpdates DEF Watch
  <2>4. CASE WatchStalled
    BY <2>4, <1>i, OtherUpdates DEF WatchStalled
  <2>5. CASE Give
    BY <2>5, <1>i, OtherUpdates DEF Give
  <2> QED BY <1>20, <2>1, <2>2, <2>3, <2>4, <2>5 DEF Watchdog
<1>21. CASE Httpd
  <2>1. CASE Request
    BY <2>1, <1>i, LeftUpdates DEF Request
  <2>2. CASE ReadLoading
    BY <2>2, <1>i, LeftUpdates DEF ReadLoading
  <2>3. CASE ReadPending
    BY <2>3, <1>i DEF ReadPending
  <2>4. CASE Accept
    <3>1. heeded' \in BOOLEAN
      BY <2>4, Zenon DEF Accept
    <3> QED BY <2>4, <1>i, <3>1 DEF Accept
  <2> QED BY <1>21, <2>1, <2>2, <2>3, <2>4 DEF Httpd
<1>22. CASE UNCHANGED vars
  BY <1>22, <1>i DEF vars
<1> QED BY <1>1, <1>2, <1>3, <1>4, <1>5, <1>6, <1>7, <1>8, <1>9, <1>10, <1>11, <1>12, <1>13,
           <1>14, <1>15, <1>16, <1>17, <1>18, <1>19, <1>20, <1>21, <1>22 DEF Next, Task

-----------------------------------------------------------------------------
\* The callback holds the lock while it uses a fetch, and Retire waits for it.
LEMMA WatchdogStep == IInv /\ [Next]_vars => WatchdogInv'
<1> SUFFICES ASSUME IInv, [Next]_vars PROVE WatchdogInv'
  OBVIOUS
<1>i. WatchdogInv
  BY DEF IInv
<1>r. task \in TaskType /\ fetch \in FetchType /\ wd \in WdType
  BY DEF IInv, TypeOK
<1>y. TypeOK
  BY DEF IInv
<1> USE DEF WatchdogInv, Live, Goto, fetchVars, askVars, loadVars, TaskType, FetchType, WdType
<1>1. CASE StartScheduled
  BY <1>1, <1>i, <1>r DEF StartScheduled
<1>2. CASE StartRequested
  BY <1>2, <1>i, <1>r DEF StartRequested
<1>3. CASE BeginLoad
  BY <1>3, <1>i, <1>r DEF BeginLoad
<1>4. CASE ClearStop
  BY <1>4, <1>i, <1>r DEF ClearStop
<1>5. CASE PassFeed
  BY <1>5, <1>i, <1>r DEF PassFeed
<1>6. CASE SkipRest
  BY <1>6, <1>i, <1>r DEF SkipRest
<1>7. CASE LastFeed
  BY <1>7, <1>i, <1>r DEF LastFeed
<1>8. CASE OpenFetch
  BY <1>8, <1>i, <1>r DEF OpenFetch
<1>9. CASE Perform
  BY <1>9, <1>i, <1>r DEF Perform
<1>10. CASE LineSeesStop
  BY <1>10, <1>i, <1>r DEF LineSeesStop
<1>11. CASE PerformEnds
  BY <1>11, <1>i, <1>r DEF PerformEnds
<1>12. CASE Retire
  BY <1>12, <1>i, <1>r DEF Retire
<1>13. CASE FetchReturns
  <2>1. task'.pc \in {"feed", "return"}
    BY <1>13, <1>r, <1>y, FetchOutcome DEF Returned
  <2> QED BY <1>13, <1>i, <1>r, <2>1 DEF FetchReturns, NoFetch
<1>14. CASE Publish
  BY <1>14, <1>i, <1>r DEF Publish
<1>15. CASE Save
  BY <1>15, <1>i, <1>r DEF Save
<1>16. CASE LoadReturns
  BY <1>16, <1>i, <1>r DEF LoadReturns
<1>17. CASE Retry
  BY <1>17, <1>i, <1>r DEF Retry
<1>18. CASE Wake
  BY <1>18, <1>i, <1>r DEF Wake
<1>19. CASE EndRetries
  BY <1>19, <1>i, <1>r DEF EndRetries
<1>20. CASE Watchdog
  BY <1>20, <1>i, <1>r DEF Watchdog, Fire, Look, Watch, WatchStalled, Give
<1>21. CASE Httpd
  BY <1>21, <1>i DEF Httpd, Request, ReadLoading, ReadPending, Accept
<1>22. CASE UNCHANGED vars
  BY <1>22, <1>i DEF vars
<1> QED BY <1>1, <1>2, <1>3, <1>4, <1>5, <1>6, <1>7, <1>8, <1>9, <1>10, <1>11, <1>12, <1>13,
           <1>14, <1>15, <1>16, <1>17, <1>18, <1>19, <1>20, <1>21, <1>22 DEF Next, Task

-----------------------------------------------------------------------------
\* A stop that is heeded stays set: only an attempt's start clears it.
LEMMA HeedStep == IInv /\ [Next]_vars => HeedInv'
<1> SUFFICES ASSUME IInv, [Next]_vars PROVE HeedInv'
  OBVIOUS
<1>i. HeedInv
  BY DEF IInv
<1>r. task \in TaskType
  BY DEF IInv, TypeOK
<1>y. TypeOK
  BY DEF IInv
<1> USE DEF HeedInv, Goto, fetchVars, askVars, loadVars, TaskType
<1>1. CASE StartScheduled
  BY <1>1, <1>i, <1>r DEF StartScheduled
<1>2. CASE StartRequested
  BY <1>2, <1>i, <1>r DEF StartRequested
<1>3. CASE BeginLoad
  BY <1>3, <1>i, <1>r DEF BeginLoad
<1>4. CASE ClearStop
  BY <1>4, <1>i, <1>r DEF ClearStop
<1>5. CASE PassFeed
  BY <1>5, <1>i, <1>r DEF PassFeed
<1>6. CASE SkipRest
  BY <1>6, <1>i, <1>r DEF SkipRest
<1>7. CASE LastFeed
  BY <1>7, <1>i, <1>r DEF LastFeed
<1>8. CASE OpenFetch
  BY <1>8, <1>i, <1>r DEF OpenFetch
<1>9. CASE Perform
  BY <1>9, <1>i, <1>r DEF Perform
<1>10. CASE LineSeesStop
  BY <1>10, <1>i, <1>r DEF LineSeesStop
<1>11. CASE PerformEnds
  BY <1>11, <1>i, <1>r DEF PerformEnds
<1>12. CASE Retire
  BY <1>12, <1>i, <1>r DEF Retire
<1>13. CASE FetchReturns
  <2>1. task'.pc \in {"feed", "return"}
    BY <1>13, <1>r, <1>y, FetchOutcome DEF Returned
  <2>2. UNCHANGED <<heeded, stop>>
    BY <1>13 DEF FetchReturns
  <2> QED BY <1>i, <2>1, <2>2
<1>14. CASE Publish
  BY <1>14, <1>i, <1>r DEF Publish
<1>15. CASE Save
  BY <1>15, <1>i, <1>r DEF Save
<1>16. CASE LoadReturns
  BY <1>16, <1>i, <1>r DEF LoadReturns
<1>17. CASE Retry
  BY <1>17, <1>i, <1>r DEF Retry
<1>18. CASE Wake
  BY <1>18, <1>i, <1>r DEF Wake
<1>19. CASE EndRetries
  BY <1>19, <1>i, <1>r DEF EndRetries
<1>20. CASE Watchdog
  <2>1. UNCHANGED loadVars
    BY <1>20 DEF Watchdog, Fire, Look, Watch, WatchStalled, Give
  <2> QED BY <1>i, <2>1
<1>21. CASE Httpd
  <2>1. CASE Accept
    BY <2>1, Zenon DEF Accept
  <2>2. CASE Request
    BY <2>2, <1>i DEF Request
  <2>3. CASE ReadLoading
    BY <2>3, <1>i DEF ReadLoading
  <2>4. CASE ReadPending
    BY <2>4, <1>i DEF ReadPending
  <2> QED BY <1>21, <2>1, <2>2, <2>3, <2>4 DEF Httpd
<1>22. CASE UNCHANGED vars
  BY <1>22, <1>i DEF vars
<1> QED BY <1>1, <1>2, <1>3, <1>4, <1>5, <1>6, <1>7, <1>8, <1>9, <1>10, <1>11, <1>12, <1>13,
           <1>14, <1>15, <1>16, <1>17, <1>18, <1>19, <1>20, <1>21, <1>22 DEF Next, Task

-----------------------------------------------------------------------------
\* Each feed passed has an outcome; a list saved has none that degrades it.
LEMMA FateStep == IInv /\ [Next]_vars => FateInv'
<1> SUFFICES ASSUME IInv, [Next]_vars PROVE FateInv'
  OBVIOUS
<1>i. FateInv
  BY DEF IInv
<1>r. task \in TaskType
  BY DEF IInv, TypeOK
<1>y. TypeOK
  BY DEF IInv
<1>w. WatchdogInv
  BY DEF IInv
<1> USE DEF FateInv, SavedIsUndegraded, Goto, fetchVars, askVars, loadVars, TaskType, Feed, Fates, Fate
<1>1. CASE StartScheduled
  BY <1>1, <1>i, <1>r DEF StartScheduled
<1>2. CASE StartRequested
  BY <1>2, <1>i, <1>r DEF StartRequested
<1>3. CASE BeginLoad
  BY <1>3, <1>i, <1>r DEF BeginLoad
<1>4. CASE ClearStop
  BY <1>4, <1>i, <1>r DEF ClearStop
<1>5. CASE PassFeed
  <2>1. ASSUME NEW d \in {"disabled", "broken"},
               task' = [task EXCEPT !.feed = @ + 1, !.fate[task.feed] = d]
        PROVE  FateInv'
    <3>1. task'.pc = "feed" /\ task'.feed = task.feed + 1
          /\ task'.fate = [task.fate EXCEPT ![task.feed] = d]
      BY <1>5, <1>r, <2>1 DEF PassFeed
    <3>2. saved' = saved
      BY <1>5 DEF PassFeed
    <3> QED BY <1>5, <1>i, <1>r, <3>1, <3>2 DEF PassFeed
  <2>2. ASSUME task' = [task EXCEPT !.pc = "publish",
                          !.fate = [f \in Feed |-> IF f < task.feed THEN @[f] ELSE "full"]]
        PROVE  FateInv'
    <3>1. task'.pc = "publish"
          /\ task'.fate = [f \in Feed |-> IF f < task.feed THEN task.fate[f] ELSE "full"]
      BY <1>r, <2>2
    <3>2. saved' = saved
      BY <1>5 DEF PassFeed
    <3> QED BY <1>5, <1>i, <1>r, <3>1, <3>2 DEF PassFeed
  <2> QED BY <1>5, <2>1, <2>2 DEF PassFeed
<1>6. CASE SkipRest
  BY <1>6, <1>i, <1>r DEF SkipRest
<1>7. CASE LastFeed
  BY <1>7, <1>i, <1>r DEF LastFeed
<1>8. CASE OpenFetch
  BY <1>8, <1>i, <1>r DEF OpenFetch
<1>9. CASE Perform
  BY <1>9, <1>i, <1>r DEF Perform
<1>10. CASE LineSeesStop
  BY <1>10, <1>i, <1>r DEF LineSeesStop
<1>11. CASE PerformEnds
  BY <1>11, <1>i, <1>r DEF PerformEnds
<1>12. CASE Retire
  BY <1>12, <1>i, <1>r DEF Retire
<1>13. CASE FetchReturns
  <2>1. PICK d \in {"whole", "broken"} : Returned([task.fate EXCEPT ![task.feed] = d])
    BY <1>13, <1>y, FetchOutcome
  <2>2. saved' = saved
    BY <1>13 DEF FetchReturns
  <2>3. task.pc = "fetching"
    BY <1>13, <1>w DEF FetchReturns, WatchdogInv
  <2>4. CASE task' = [task EXCEPT !.pc = "feed", !.feed = @ + 1,
                                  !.fate = [task.fate EXCEPT ![task.feed] = d]]
    <3>1. task'.pc = "feed" /\ task'.feed = task.feed + 1
          /\ task'.fate = [task.fate EXCEPT ![task.feed] = d]
      BY <1>r, <2>4
    <3> QED BY <1>i, <1>r, <2>2, <2>3, <3>1
  <2>5. CASE task' = [task EXCEPT !.pc = "return",
                                  !.fate = [task.fate EXCEPT ![task.feed] = d], !.count = FALSE]
    <3>1. task'.pc = "return"
      BY <1>r, <2>5
    <3> QED BY <1>i, <2>2, <3>1
  <2> QED BY <2>1, <2>4, <2>5 DEF Returned
<1>14. CASE Publish
  BY <1>14, <1>i, <1>r DEF Publish
<1>15. CASE Save
  <2>1. task'.pc = "return"
    BY <1>15, <1>r DEF Save
  <2>2. CASE ~Degraded /\ saved' = task.fate
    BY <1>15, <1>i, <1>r, <2>1, <2>2 DEF Save, Degraded
  <2> QED BY <1>15, <1>i, <2>1, <2>2 DEF Save
<1>16. CASE LoadReturns
  BY <1>16, <1>i, <1>r DEF LoadReturns
<1>17. CASE Retry
  BY <1>17, <1>i, <1>r DEF Retry
<1>18. CASE Wake
  BY <1>18, <1>i, <1>r DEF Wake
<1>19. CASE EndRetries
  BY <1>19, <1>i, <1>r DEF EndRetries
<1>20. CASE Watchdog
  BY <1>20, <1>i DEF Watchdog, Fire, Look, Watch, WatchStalled, Give
<1>21. CASE Httpd
  BY <1>21, <1>i DEF Httpd, Request, ReadLoading, ReadPending, Accept
<1>22. CASE UNCHANGED vars
  BY <1>22, <1>i DEF vars
<1> QED BY <1>1, <1>2, <1>3, <1>4, <1>5, <1>6, <1>7, <1>8, <1>9, <1>10, <1>11, <1>12, <1>13,
           <1>14, <1>15, <1>16, <1>17, <1>18, <1>19, <1>20, <1>21, <1>22 DEF Next, Task

-----------------------------------------------------------------------------
LEMMA Invariance == Spec => []IInv
<1>1. IInv /\ [Next]_vars => IInv'
  BY TypeStep, WatchdogStep, HeedStep, FateStep DEF IInv
<1> QED BY <1>1, InitIInv, PTL DEF Spec

\* Every reachable state is well typed: no more attempts than delays.
THEOREM LoadTypeCorrect == Spec => []TypeOK
<1>1. IInv => TypeOK
  BY DEF IInv
<1> QED BY <1>1, Invariance, PTL

\* The callback never uses a fetch after http_fetch_lines_ex has retired it.
THEOREM CallbackUsesLiveFetch == Spec => []WatchdogUsesLiveFetch
<1>1. IInv => WatchdogUsesLiveFetch
  BY DEF IInv, WatchdogInv, WatchdogUsesLiveFetch, Live
<1> QED BY <1>1, Invariance, PTL

\* After a heeded stop no attempt begins.
THEOREM StopEndsReload == Spec => []StopIsHeeded
<1>1. IInv => StopIsHeeded
  BY DEF IInv, HeedInv, StopIsHeeded
<1> QED BY <1>1, Invariance, PTL

\* No list that lacks a failed or skipped feed is saved.
THEOREM SavedListIsWhole == Spec => []SavedIsUndegraded
<1>1. IInv => SavedIsUndegraded
  BY DEF IInv, FateInv
<1> QED BY <1>1, Invariance, PTL

-----------------------------------------------------------------------------
(***************************************************************************)
(* What can be said without fairness of RequestIsLoaded: a request is only *)
(* forgotten by the load it starts, and a reload under way comes nearer to *)
(* its end with each step of its own, whatever the others do in between.   *)
(***************************************************************************)
\* What the reload has left: attempts, feeds of this attempt, steps of this feed or, after
\* the last one, of this attempt.
TriesLeft == Retries - task.try

FeedsLeft == CASE task.pc \in {"begin", "clear"}   -> Extras + 3
               [] task.pc \in {"feed", "fetching"} -> Extras + 2 - task.feed
               [] OTHER                            -> 0

FetchLeft == CASE fetch.pc = "ready"   -> 4
               [] fetch.pc = "perform" -> 3
               [] fetch.pc = "stopped" -> 2
               [] fetch.pc = "retired" -> 1
               [] OTHER                -> 0

StepsLeft == CASE task.pc = "publish"         -> 6
               [] task.pc \in {"save", "feed"} -> 5
               [] task.pc = "return"          -> 4
               [] task.pc = "retry"           -> 3
               [] task.pc = "asleep"          -> 2
               [] task.pc \in {"end", "begin"} -> 1
               [] task.pc = "fetching"        -> FetchLeft
               [] OTHER                       -> 0

ReloadIsNearer == \/ TriesLeft' < TriesLeft
                  \/ TriesLeft' = TriesLeft /\ FeedsLeft' < FeedsLeft
                  \/ TriesLeft' = TriesLeft /\ FeedsLeft' = FeedsLeft /\ StepsLeft' < StepsLeft

ReloadStep == task.pc # "poll" => IF Task \/ PerformEnds
                                    THEN ReloadIsNearer
                                    ELSE UNCHANGED <<TriesLeft, FeedsLeft, StepsLeft>>

\* Each step of download_task in a reload, and the end of each transfer, takes it nearer
\* to its end; httpd, the lines of the feed and the watchdog never put it back.
ReloadGoesOn == [][ReloadStep]_vars

\* Nothing but the reload it asks for takes a request back.
RequestStands == [][requested => requested' \/ (task.pc = "poll" /\ task'.pc = "begin")]_vars

\* What is left is counted in natural numbers, so it cannot shrink for ever.
LeftIsFinite == TriesLeft \in Nat /\ FeedsLeft \in Nat /\ StepsLeft \in 0 .. 6

LEMMA LeftAreNaturals == IInv => LeftIsFinite
<1> SUFFICES ASSUME IInv PROVE LeftIsFinite
  OBVIOUS
<1>1. task.try \in 0 .. Retries /\ task.feed \in 0 .. Extras + 1
  BY TaskFields DEF IInv
<1>2. TriesLeft \in Nat /\ FeedsLeft \in Nat
  BY <1>1 DEF TriesLeft, FeedsLeft
<1>3. StepsLeft \in 0 .. 6
  BY DEF StepsLeft, FetchLeft
<1> QED BY <1>2, <1>3 DEF LeftIsFinite

LEMMA ReloadStepHolds == IInv /\ Next => ReloadStep
<1> SUFFICES ASSUME IInv, Next, task.pc # "poll" PROVE ReloadStep
  BY DEF ReloadStep
<1>y. TypeOK /\ WatchdogInv /\ FateInv
  BY DEF IInv
<1>f. task.pc \in Pc /\ task.try \in 0 .. Retries /\ task.feed \in 0 .. Extras + 1
  BY <1>y, TaskFields
<1>r. task \in TaskType /\ fetch \in FetchType
  BY <1>y DEF TypeOK
<1>n. ReloadIsNearer => ~UNCHANGED <<TriesLeft, FeedsLeft, StepsLeft>>
  BY LeftAreNaturals DEF ReloadIsNearer, LeftIsFinite
<1>k. FetchReturns => \/ task'.pc = "feed" /\ task'.feed = task.feed + 1 /\ task'.try = task.try
                      \/ task'.pc = "return" /\ task'.try = task.try
  <2>1. ASSUME FetchReturns, NEW d, Returned([task.fate EXCEPT ![task.feed] = d])
        PROVE  \/ task'.pc = "feed" /\ task'.feed = task.feed + 1 /\ task'.try = task.try
               \/ task'.pc = "return" /\ task'.try = task.try
    BY <2>1, <1>r DEF Returned, TaskType
  <2> QED BY <2>1, <1>y, FetchOutcome
<1>1. ASSUME Task \/ PerformEnds PROVE ReloadIsNearer
  <2> USE DEF ReloadIsNearer, TriesLeft, FeedsLeft, StepsLeft, FetchLeft, Goto, fetchVars, TaskType, FetchType,
              WatchdogInv
  <2>1. CASE StartScheduled \/ StartRequested
    BY <2>1 DEF StartScheduled, StartRequested
  <2>2. CASE BeginLoad
    BY <2>2, <1>y, <1>f, <1>r DEF BeginLoad
  <2>3. CASE ClearStop
    BY <2>3, <1>f, <1>r DEF ClearStop
  <2>4. CASE PassFeed
    <3> DEFINE Passed == /\ task'.try = task.try
                         /\ \/ task'.pc = "publish"
                            \/ task'.pc = "feed" /\ task'.feed = task.feed + 1
    <3>0. task.pc = "feed" /\ task.feed <= Extras
      BY <2>4, <1>f DEF PassFeed
    <3>1. ASSUME NEW d \in {"disabled", "broken"},
                 task' = [task EXCEPT !.feed = @ + 1, !.fate[task.feed] = d]
          PROVE  Passed
      <4>1. task' = [task EXCEPT !.feed = task.feed + 1, !.fate = [task.fate EXCEPT ![task.feed] = d]]
        BY <3>1, Zenon
      <4> QED BY <3>0, <4>1, <1>r
    <3>2. ASSUME task' = [task EXCEPT !.pc = "publish",
                            !.fate = [f \in Feed |-> IF f < task.feed THEN @[f] ELSE "full"]]
          PROVE  Passed
      BY <3>2, <1>r
    <3> HIDE DEF Passed
    <3>3. Passed
      BY <2>4, <3>1, <3>2 DEF PassFeed
    <3> QED BY <1>f, <3>0, <3>3 DEF Passed
  <2>5. CASE SkipRest
    <3>1. task'.try = task.try /\ task'.pc = "publish"
      BY <2>5, <1>r DEF SkipRest
    <3> QED BY <2>5, <1>f, <3>1 DEF SkipRest
  <2>6. CASE LastFeed
    BY <2>6, <1>f, <1>r DEF LastFeed
  <2>7. CASE OpenFetch
    <3>1. task'.pc = "fetching" /\ task'.try = task.try /\ task'.feed = task.feed
          /\ fetch'.pc = "ready"
      BY <2>7, <1>r DEF OpenFetch, NoFetch
    <3> QED BY <2>7, <1>f, <3>1 DEF OpenFetch
  <2>8. CASE Perform
    <3>1. UNCHANGED task /\ fetch'.pc = "perform"
      BY <2>8, <1>r DEF Perform
    <3> QED BY <2>8, <1>f, <3>1 DEF Perform
  <2>9. CASE PerformEnds
    <3>1. UNCHANGED task /\ fetch'.pc = "stopped" /\ fetch.pc = "perform"
      BY <2>9, <1>r DEF PerformEnds
    <3> QED BY <1>y, <1>f, <3>1
  <2>10. CASE Retire
    <3>1. UNCHANGED task /\ fetch'.pc = "retired" /\ fetch.pc = "stopped"
      BY <2>10, <1>r DEF Retire
    <3> QED BY <1>y, <1>f, <3>1
  <2>11. CASE FetchReturns
    <3>1. task.pc = "fetching" /\ task.feed <= Extras
      BY <2>11, <1>y DEF FetchReturns, FateInv
    <3> QED BY <1>k, <1>f, <2>11, <3>1
  <2>12. CASE Publish
    BY <2>12, <1>f, <1>r DEF Publish
  <2>13. CASE Save
    BY <2>13, <1>f, <1>r DEF Save
  <2>14. CASE LoadReturns
    <3>1. task.pc = "return" /\ task'.pc \in {"end", "poll", "retry"} /\ task'.try = task.try
      BY <2>14, <1>r DEF LoadReturns
    <3>2. UNCHANGED fetch /\ fetch.pc = "none"
      BY <2>14, <1>y DEF LoadReturns
    <3> QED BY <1>f, <3>1, <3>2
  <2>15. CASE Retry
    BY <2>15, <1>f, <1>r DEF Retry
  <2>16. CASE Wake
    BY <2>16, <1>f, <1>r DEF Wake
  <2>17. CASE EndRetries
    <3>1. task.pc = "end" /\ task'.pc = "poll" /\ task'.try = task.try
      BY <2>17, <1>r DEF EndRetries
    <3>2. UNCHANGED fetch /\ fetch.pc = "none"
      BY <2>17, <1>y DEF EndRetries
    <3> QED BY <1>f, <3>1, <3>2
  <2> QED BY <1>1, <2>1, <2>2, <2>3, <2>4, <2>5, <2>6, <2>7, <2>8, <2>9, <2>10, <2>11, <2>12, <2>13,
             <2>14, <2>15, <2>16, <2>17 DEF Task
<1>2. ASSUME LineSeesStop \/ Watchdog \/ Httpd
      PROVE  UNCHANGED task /\ fetch'.pc = fetch.pc
  <2>1. CASE LineSeesStop
    BY <2>1, <1>r DEF LineSeesStop, FetchType
  <2>2. CASE Watchdog
    BY <2>2, <1>r DEF Watchdog, Fire, Look, Watch, WatchStalled, Give, loadVars, FetchType
  <2>3. CASE Httpd
    BY <2>3 DEF Httpd, Request, ReadLoading, ReadPending, Accept, fetchVars
  <2> QED BY <1>2, <2>1, <2>2, <2>3
<1>3. ASSUME LineSeesStop \/ Watchdog \/ Httpd
      PROVE  UNCHANGED <<TriesLeft, FeedsLeft, StepsLeft>>
  BY <1>2, <1>3 DEF TriesLeft, FeedsLeft, StepsLeft, FetchLeft
<1> QED BY <1>1, <1>3 DEF Next, ReloadStep

\* Every reload ends after finitely many steps of its own: no retry, stop or watchdog can
\* keep download_task in it, however many feeds and retries there are.
THEOREM ReloadsEnd == Spec => ReloadGoesOn /\ []LeftIsFinite
<1>1. IInv /\ [Next]_vars => [ReloadStep]_vars
  BY ReloadStepHolds
<1> QED BY <1>1, LeftAreNaturals, Invariance, PTL DEF Spec, ReloadGoesOn

\* dns_sink_trigger_reload: a request that comes during a reload or its retries stays.
THEOREM RequestsStand == Spec => RequestStands
<1> DEFINE Stands == requested => requested' \/ (task.pc = "poll" /\ task'.pc = "begin")
<1>1. ASSUME IInv, Next, requested PROVE requested' \/ (task.pc = "poll" /\ task'.pc = "begin")
  <2>1. task \in TaskType
    BY <1>1 DEF IInv, TypeOK
  <2>2. CASE StartRequested
    BY <2>1, <2>2 DEF StartRequested, TaskType
  <2>3. CASE Task /\ ~StartRequested
    BY <1>1, <2>3 DEF Task, StartScheduled, BeginLoad, ClearStop, PassFeed, SkipRest, LastFeed, OpenFetch,
       Perform, Retire, FetchReturns, Publish, Save, LoadReturns, Retry, Wake, EndRetries, askVars
  <2>4. CASE ~Task
    BY <1>1, <2>4 DEF Next, LineSeesStop, PerformEnds, Watchdog, Fire, Look, Watch, WatchStalled, Give,
       Httpd, Request, ReadLoading, ReadPending, Accept, askVars, loadVars
  <2> QED BY <2>2, <2>3, <2>4
<1>2. IInv /\ [Next]_vars => [Stands]_vars
  BY <1>1
<1> QED BY <1>2, Invariance, PTL DEF Spec, RequestStands

-----------------------------------------------------------------------------
(***************************************************************************)
(* The list in service.  The argument counts ticks: the hook's second look *)
(* at s_live compares one of two descriptors, and the one it saw is back   *)
(* in service only after two sleeps, longer than the hook can be on its    *)
(* way.                                                                    *)
(***************************************************************************)
\* Who walks or edits holds the mutex; an edit was begun because there was room.
LockInv == /\ \A r \in Reader : reader[r].pc \in {"index", "entries", "exceptions", "tables"}
                                    => lock = r
           /\ editor # "idle" => lock = "httpd"
           /\ editor = "edit" => tables < MaxEdits

\* Every change is counted by the generation, or its bump is still owed.
GenInv == gen + (IF loader.pc = "idle" THEN 0 ELSE 1) + (IF editor = "bump" THEN 1 ELSE 0)
             <= loader.list + tables

\* The list in service is whole; while it is rebuilt, nothing is in service.
ImageInv ==
    /\ loader.pc \in {"idle", "fetched"} => live \in {NoBuffer, loader.buf}
    /\ loader.pc = "bump" => live = loader.buf
    /\ loader.pc \in {"asleep", "entries", "publish"} => live = NoBuffer
    /\ loader.pc \in {"idle", "fetched", "bump"} =>
           image["index"] = exc[loader.buf] /\ image["entries"] = exc[loader.buf]
    /\ loader.pc \in {"fetched", "asleep", "entries", "publish"} =>
           exc[1 - loader.buf] = loader.list
    /\ loader.pc \in {"entries", "publish"} => image["index"] = loader.list
    /\ loader.pc = "publish" => image["entries"] = loader.list

\* What a verdict has read so far is of the list that buffer b belongs to.
Agrees(q, b) ==
    /\ q.pc \in {"entries", "exceptions", "tables", "check", "done"} => q.view.index = exc[b]
    /\ q.pc \in {"exceptions", "tables", "check", "done"} => q.view.entries = exc[b]
    /\ q.pc \in {"tables", "check", "done"} => q.view.exceptions = exc[b]

Reading == {"take", "index", "entries", "exceptions", "tables", "check"}

\* At most so many ticks have passed since the hook loaded its snapshot: one
\* before it took the mutex, and those its walk has seen.
Seen(q) == IF q.pc = "take" THEN q.ticks ELSE q.ticks + 1

\* The hook's descriptor was withdrawn since, and so much of what the hook may
\* see the reload has used up: its first sleep, or that and part of a second.
Outlived(q) ==
    \/ loader.pc = "asleep" /\ loader.buf = q.snap /\ loader.ticks <= Seen(q)
    \/ loader.pc \in {"entries", "publish"} /\ loader.buf = q.snap /\ Seen(q) >= Wait
    \/ loader.pc \in {"bump", "idle", "fetched"} /\ loader.buf # q.snap /\ Seen(q) >= Wait
    \/ loader.pc = "asleep" /\ loader.buf # q.snap /\ Seen(q) >= Wait + loader.ticks

\* The hook's snapshot is in service and its walk agrees with it, or it will not
\* be in service when the hook looks again.
HookInv == LET q == reader["l2"] IN
    /\ q.ticks <= Sight
    /\ q.pc \in Reading => /\ q.snap \in Buffer
                           /\ (live = q.snap /\ Agrees(q, q.snap)) \/ Outlived(q)
    /\ q.pc = "done" => Whole(q.view)

Settled == loader.pc \in {"idle", "fetched"}

\* dns_task's walk agrees with the list in service, or its stamp is outdated, or
\* will be when the reload under way has bumped the generation.
DnsInv == LET q == reader["dns"] IN
    /\ q.stamp <= gen /\ q.pc # "check"
    /\ q.pc \in Reading \cup {"done"} => q.snap \in Buffer
    /\ q.pc \in Reading \cup {"done"} /\ q.stamp = gen /\ Settled =>
           live = q.snap /\ Agrees(q, q.snap)
    /\ q.pc = "done" /\ q.stamp = gen /\ editor # "bump" => q.view.tables = tables

\* And so does the verdict it stored last.
CachedInv ==
    /\ cached.stamp <= gen
    /\ cached.valid /\ cached.stamp = gen /\ Settled =>
           /\ live = loader.buf /\ Whole(cached.view) /\ cached.view.index = exc[loader.buf]
    /\ cached.valid /\ cached.stamp = gen /\ editor # "bump" => cached.view.tables = tables

LiveInv == LiveTypeOK /\ LockInv /\ GenInv /\ ImageInv /\ HookInv /\ DnsInv /\ CachedInv

-----------------------------------------------------------------------------
(***************************************************************************)
(* The types of the two records, and the steps of a walk by themselves.    *)
(***************************************************************************)
LoaderState == [pc : {"idle", "fetched", "asleep", "entries", "publish", "bump"},
                list : List, buf : Buffer, ticks : 0 .. Wait]
ReaderState == [pc : {"idle", "begin", "take", "index", "entries", "exceptions",
                      "tables", "check", "done", "unproven"},
                stamp : Gens, snap : Buffer \cup {NoBuffer},
                ticks : 0 .. Wait, view : ViewType]

Reads(r, q, l) == Step(r, q) /\ lock' = l /\ cached' = cached
WalkIndex(r) ==
    /\ reader[r].pc = "index"
    /\ Reads(r, [reader[r] EXCEPT !.pc = "entries",
                                  !.view = [@ EXCEPT !.index = image["index"]]], lock)
WalkEntries(r) ==
    /\ reader[r].pc = "entries"
    /\ Reads(r, [reader[r] EXCEPT !.pc = "exceptions",
                                  !.view = [@ EXCEPT !.entries = image["entries"]]], lock)
WalkExceptions(r) ==
    /\ reader[r].pc = "exceptions"
    /\ Reads(r, [reader[r] EXCEPT !.pc = "tables",
                                  !.view = [@ EXCEPT !.exceptions = exc[reader[r].snap]]], lock)
WalkTables(r) ==
    /\ reader[r].pc = "tables"
    /\ Reads(r, [reader[r] EXCEPT !.pc = IF r = "l2" THEN "check" ELSE "done",
                                  !.view = [@ EXCEPT !.tables = tables]], "free")

\* The four reads of a walk, one by one.
LEMMA WalkCases == ASSUME LiveTypeOK, NEW r \in Reader, Walk(r)
                   PROVE  WalkIndex(r) \/ WalkEntries(r) \/ WalkExceptions(r) \/ WalkTables(r)
  <1>1. CASE \E h \in {"index", "entries"} :
                   /\ reader[r].pc = h
                   /\ Step(r, [reader[r] EXCEPT
                                  !.pc = IF h = "index" THEN "entries" ELSE "exceptions",
                                  !.view[h] = image[h]])
                   /\ UNCHANGED <<lock, cached>>
    <2>1. reader[r] \in ReaderState
      BY DEF LiveTypeOK, ReaderState
    <2>2. CASE reader[r].pc = "index"
      BY <1>1, <2>1, <2>2 DEF WalkIndex, Reads
    <2>3. CASE reader[r].pc = "entries"
      BY <1>1, <2>1, <2>3 DEF WalkEntries, Reads
    <2>. QED BY <1>1, <2>2, <2>3
  <1>2. CASE ~ \E h \in {"index", "entries"} :
                   /\ reader[r].pc = h
                   /\ Step(r, [reader[r] EXCEPT
                                  !.pc = IF h = "index" THEN "entries" ELSE "exceptions",
                                  !.view[h] = image[h]])
                   /\ UNCHANGED <<lock, cached>>
    BY <1>2 DEF Walk, WalkExceptions, WalkTables, Reads
  <1>. QED BY <1>1, <1>2

\* A verdict not yet begun is well typed.
LEMMA IdleTyped == Idle \in ReaderState
  BY LiveAssumption DEF Idle, NoView, ReaderState, ViewType, Gens, List, Wait

\* download_task's steps.
LEMMA FetchKeeps == ASSUME LiveInv, Fetch PROVE LiveInv'
  <1>1. LiveTypeOK'
    <2>1. loader' \in LoaderState
      <3>1. loader \in LoaderState
        BY DEF LiveInv, LiveTypeOK, LoaderState
      <3>2. loader.list + 1 \in List
        BY <3>1, LiveAssumption DEF LoaderState, List, Fetch
      <3>. QED BY <3>1, <3>2 DEF LoaderState, Fetch
    <2>. QED BY <2>1 DEF LiveInv, LiveTypeOK, LoaderState, Fetch, others
  <1>2. LockInv'
    BY DEF LiveInv, LockInv, Fetch, others
  <1>3. GenInv'
    BY DEF LiveInv, GenInv, LiveTypeOK, Gens, List, Fetch, others
  <1>4. ImageInv'
    BY DEF LiveInv, ImageInv, LiveTypeOK, Buffer, Fetch
  <1>5. HookInv'
    BY DEF LiveInv, HookInv, Agrees, Outlived, ImageInv, Buffer, NoBuffer, Fetch, others
  <1>6. DnsInv'
    BY DEF LiveInv, DnsInv, Agrees, Settled, ImageInv, Buffer, NoBuffer, Fetch, others
  <1>7. CachedInv'
    BY DEF LiveInv, CachedInv, LiveTypeOK, Settled, Buffer, Fetch, others
  <1>. QED BY <1>1, <1>2, <1>3, <1>4, <1>5, <1>6, <1>7 DEF LiveInv

LEMMA FetchFailsKeeps == ASSUME LiveInv, FetchFails PROVE LiveInv'
  <1>1. LiveTypeOK'
    BY DEF LiveInv, LiveTypeOK, FetchFails, others
  <1>2. LockInv'
    BY DEF LiveInv, LockInv, FetchFails, others
  <1>3. GenInv'
    BY DEF LiveInv, GenInv, LiveTypeOK, Gens, List, FetchFails, others
  <1>4. ImageInv'
    BY DEF LiveInv, ImageInv, FetchFails
  <1>5. HookInv'
    BY DEF LiveInv, HookInv, Agrees, Outlived, FetchFails, others
  <1>6. DnsInv'
    BY DEF LiveInv, DnsInv, Agrees, Settled, FetchFails, others
  <1>7. CachedInv'
    BY DEF LiveInv, CachedInv, Settled, FetchFails, others
  <1>. QED BY <1>1, <1>2, <1>3, <1>4, <1>5, <1>6, <1>7 DEF LiveInv

LEMMA WithdrawKeeps == ASSUME LiveInv, Withdraw PROVE LiveInv'
  <1>1. LiveTypeOK'
    <2>1. loader' \in LoaderState
      <3>1. loader \in LoaderState
        BY DEF LiveInv, LiveTypeOK, LoaderState
      <3>2. 0 \in 0 .. Wait
        BY DEF Wait
      <3>. QED BY <3>1, <3>2 DEF LoaderState, Withdraw
    <2>. QED BY <2>1 DEF LiveInv, LiveTypeOK, LoaderState, Withdraw, others
  <1>2. LockInv'
    BY DEF LiveInv, LockInv, Withdraw, others
  <1>3. GenInv'
    BY DEF LiveInv, GenInv, Withdraw, others
  <1>4. ImageInv'
    BY DEF LiveInv, ImageInv, Withdraw
  <1>5. HookInv'
    BY DEF LiveInv, HookInv, LiveTypeOK, Seen, Outlived, ImageInv, Wait, Reader, Buffer,
           NoBuffer, Withdraw, others
  <1>6. DnsInv'
    BY DEF LiveInv, DnsInv, Settled, Withdraw, others
  <1>7. CachedInv'
    BY DEF LiveInv, CachedInv, Settled, Withdraw, others
  <1>. QED BY <1>1, <1>2, <1>3, <1>4, <1>5, <1>6, <1>7 DEF LiveInv

LEMMA RebuildIndexKeeps == ASSUME LiveInv, RebuildIndex PROVE LiveInv'
  <1>1. LiveTypeOK'
    BY DEF LiveInv, LiveTypeOK, RebuildIndex, others
  <1>2. LockInv'
    BY DEF LiveInv, LockInv, RebuildIndex, others
  <1>3. GenInv'
    BY DEF LiveInv, GenInv, RebuildIndex, others
  <1>4. ImageInv'
    BY DEF LiveInv, ImageInv, LiveTypeOK, RebuildIndex
  <1>5. HookInv'
    BY DEF LiveInv, HookInv, LiveTypeOK, Seen, Outlived, ImageInv, Wait, Reader, Buffer,
           NoBuffer, RebuildIndex, others
  <1>6. DnsInv'
    BY DEF LiveInv, DnsInv, Settled, RebuildIndex, others
  <1>7. CachedInv'
    BY DEF LiveInv, CachedInv, Settled, RebuildIndex, others
  <1>. QED BY <1>1, <1>2, <1>3, <1>4, <1>5, <1>6, <1>7 DEF LiveInv

LEMMA RebuildEntriesKeeps == ASSUME LiveInv, RebuildEntries PROVE LiveInv'
  <1>1. LiveTypeOK'
    BY DEF LiveInv, LiveTypeOK, RebuildEntries, others
  <1>2. LockInv'
    BY DEF LiveInv, LockInv, RebuildEntries, others
  <1>3. GenInv'
    BY DEF LiveInv, GenInv, RebuildEntries, others
  <1>4. ImageInv'
    BY DEF LiveInv, ImageInv, LiveTypeOK, RebuildEntries
  <1>5. HookInv'
    BY DEF LiveInv, HookInv, Outlived, ImageInv, Buffer, NoBuffer, RebuildEntries, others
  <1>6. DnsInv'
    BY DEF LiveInv, DnsInv, Settled, RebuildEntries, others
  <1>7. CachedInv'
    BY DEF LiveInv, CachedInv, Settled, RebuildEntries, others
  <1>. QED BY <1>1, <1>2, <1>3, <1>4, <1>5, <1>6, <1>7 DEF LiveInv

LEMMA PublishImageKeeps == ASSUME LiveInv, PublishImage PROVE LiveInv'
  <1>1. LiveTypeOK'
    <2>1. live' \in Buffer
      BY DEF LiveInv, LiveTypeOK, Buffer, PublishImage
    <2>. QED BY <2>1 DEF LiveInv, LiveTypeOK, PublishImage, others
  <1>2. LockInv'
    BY DEF LiveInv, LockInv, PublishImage, others
  <1>3. GenInv'
    BY DEF LiveInv, GenInv, PublishImage, others
  <1>4. ImageInv'
    BY DEF LiveInv, ImageInv, PublishImage
  <1>5. HookInv'
    BY DEF LiveInv, HookInv, Outlived, ImageInv, Buffer, NoBuffer, PublishImage, others
  <1>6. DnsInv'
    BY DEF LiveInv, DnsInv, Settled, PublishImage, others
  <1>7. CachedInv'
    BY DEF LiveInv, CachedInv, Settled, PublishImage, others
  <1>. QED BY <1>1, <1>2, <1>3, <1>4, <1>5, <1>6, <1>7 DEF LiveInv

LEMMA BumpKeeps == ASSUME LiveInv, Bump PROVE LiveInv'
  <1>1. LiveTypeOK'
    <2>1. loader' \in LoaderState
      <3>1. loader \in LoaderState
        BY DEF LiveInv, LiveTypeOK, LoaderState
      <3>2. 0 \in 0 .. Wait
        BY DEF Wait
      <3>. QED BY <3>1, <3>2 DEF LoaderState, Bump
    <2>2. gen' \in Gens
      BY LiveAssumption DEF LiveInv, GenInv, LiveTypeOK, Gens, List, Bump
    <2>. QED BY <2>1, <2>2 DEF LiveInv, LiveTypeOK, LoaderState, Bump, others
  <1>2. LockInv'
    BY DEF LiveInv, LockInv, Bump, others
  <1>3. GenInv'
    BY DEF LiveInv, GenInv, LiveTypeOK, Gens, Bump, others
  <1>4. ImageInv'
    BY DEF LiveInv, ImageInv, Bump
  <1>5. HookInv'
    BY DEF LiveInv, HookInv, Agrees, Outlived, Bump, others
  <1>6. DnsInv'
    BY DEF LiveInv, DnsInv, LiveTypeOK, Reader, Gens, Bump, others
  <1>7. CachedInv'
    BY DEF LiveInv, CachedInv, LiveTypeOK, Gens, Bump, others
  <1>. QED BY <1>1, <1>2, <1>3, <1>4, <1>5, <1>6, <1>7 DEF LiveInv

\* httpd's steps.
LEMMA EditorTakesKeeps == ASSUME LiveInv, EditorTakes PROVE LiveInv'
  <1>1. LiveTypeOK'
    BY DEF LiveInv, LiveTypeOK, EditorTakes, Hold
  <1>2. LockInv'
    BY DEF LiveInv, LockInv, Reader, EditorTakes, Hold
  <1>3. GenInv'
    BY DEF LiveInv, GenInv, EditorTakes, Hold
  <1>4. ImageInv'
    BY DEF LiveInv, ImageInv, EditorTakes, Hold
  <1>5. HookInv'
    BY DEF LiveInv, HookInv, Agrees, Outlived, EditorTakes, Hold
  <1>6. DnsInv'
    BY DEF LiveInv, DnsInv, Agrees, Settled, EditorTakes, Hold
  <1>7. CachedInv'
    BY DEF LiveInv, CachedInv, Settled, EditorTakes, Hold
  <1>. QED BY <1>1, <1>2, <1>3, <1>4, <1>5, <1>6, <1>7 DEF LiveInv

LEMMA EditKeeps == ASSUME LiveInv, Edit PROVE LiveInv'
  <1>1. LiveTypeOK'
    <2>1. tables' \in 0 .. MaxEdits
      BY LiveAssumption DEF LiveInv, LockInv, LiveTypeOK, Edit
    <2>. QED BY <2>1 DEF LiveInv, LiveTypeOK, Edit, Hold
  <1>2. LockInv'
    BY DEF LiveInv, LockInv, Edit, Hold
  <1>3. GenInv'
    BY DEF LiveInv, GenInv, LiveTypeOK, Gens, List, Edit, Hold
  <1>4. ImageInv'
    BY DEF LiveInv, ImageInv, Edit, Hold
  <1>5. HookInv'
    BY DEF LiveInv, HookInv, Agrees, Outlived, Edit, Hold
  <1>6. DnsInv'
    BY DEF LiveInv, DnsInv, Agrees, Settled, Edit, Hold
  <1>7. CachedInv'
    BY DEF LiveInv, CachedInv, Settled, Edit, Hold
  <1>. QED BY <1>1, <1>2, <1>3, <1>4, <1>5, <1>6, <1>7 DEF LiveInv

LEMMA EditorBumpsKeeps == ASSUME LiveInv, EditorBumps PROVE LiveInv'
  <1>1. LiveTypeOK'
    <2>1. gen' \in Gens
      BY LiveAssumption DEF LiveInv, GenInv, LiveTypeOK, Gens, List, EditorBumps
    <2>. QED BY <2>1 DEF LiveInv, LiveTypeOK, EditorBumps, Hold
  <1>2. LockInv'
    BY DEF LiveInv, LockInv, EditorBumps, Hold
  <1>3. GenInv'
    BY DEF LiveInv, GenInv, LiveTypeOK, Gens, EditorBumps, Hold
  <1>4. ImageInv'
    BY DEF LiveInv, ImageInv, EditorBumps, Hold
  <1>5. HookInv'
    BY DEF LiveInv, HookInv, Agrees, Outlived, EditorBumps, Hold
  <1>6. DnsInv'
    BY DEF LiveInv, DnsInv, LiveTypeOK, Reader, Gens, EditorBumps, Hold
  <1>7. CachedInv'
    BY DEF LiveInv, CachedInv, LiveTypeOK, Gens, EditorBumps, Hold
  <1>. QED BY <1>1, <1>2, <1>3, <1>4, <1>5, <1>6, <1>7 DEF LiveInv

LEMMA EditorGivesKeeps == ASSUME LiveInv, EditorGives PROVE LiveInv'
  <1>1. LiveTypeOK'
    BY DEF LiveInv, LiveTypeOK, EditorGives, Hold
  <1>2. LockInv'
    BY DEF LiveInv, LockInv, Reader, EditorGives, Hold
  <1>3. GenInv'
    BY DEF LiveInv, GenInv, EditorGives, Hold
  <1>4. ImageInv'
    BY DEF LiveInv, ImageInv, EditorGives, Hold
  <1>5. HookInv'
    BY DEF LiveInv, HookInv, Agrees, Outlived, EditorGives, Hold
  <1>6. DnsInv'
    BY DEF LiveInv, DnsInv, Agrees, Settled, EditorGives, Hold
  <1>7. CachedInv'
    BY DEF LiveInv, CachedInv, Settled, EditorGives, Hold
  <1>. QED BY <1>1, <1>2, <1>3, <1>4, <1>5, <1>6, <1>7 DEF LiveInv

\* The verdicts' steps.
LEMMA AskKeeps == ASSUME LiveInv, NEW r \in Reader, Ask(r) PROVE LiveInv'
  <1>1. LiveTypeOK'
    <2>1. [Idle EXCEPT !.pc = "begin", !.stamp = IF r = "dns" THEN gen ELSE 0] \in ReaderState
      <3>1. Idle \in ReaderState /\ gen \in Gens
        BY IdleTyped DEF LiveInv, LiveTypeOK
      <3>2. 0 \in 0 .. Wait /\ 0 \in Gens
        BY LiveAssumption DEF Wait, Gens
      <3>. QED BY <3>1, <3>2 DEF ReaderState
    <2>2. reader' \in [Reader -> ReaderState]
      <3>1. reader \in [Reader -> ReaderState]
        BY DEF LiveInv, LiveTypeOK, ReaderState
      <3>. QED BY <2>1, <3>1 DEF Ask, Step
    <2>. QED BY <2>2 DEF LiveInv, LiveTypeOK, ReaderState, Ask, Step
  <1>2. LockInv'
    BY DEF LiveInv, LockInv, Ask, Step
  <1>3. GenInv'
    BY DEF LiveInv, GenInv, Ask, Step
  <1>4. ImageInv'
    BY DEF LiveInv, ImageInv, Ask, Step
  <1>5. HookInv'
    BY DEF LiveInv, HookInv, Agrees, Reading, Outlived, Sight, Idle, Ask, Step
  <1>6. DnsInv'
    BY DEF LiveInv, DnsInv, LiveTypeOK, Agrees, Reading, Settled, Gens, Ask, Step
  <1>7. CachedInv'
    BY DEF LiveInv, CachedInv, Settled, Ask, Step
  <1>. QED BY <1>1, <1>2, <1>3, <1>4, <1>5, <1>6, <1>7 DEF LiveInv

LEMMA LoadSnapshotKeeps == ASSUME LiveInv, NEW r \in Reader, LoadSnapshot(r) PROVE LiveInv'
  <1>1. LiveTypeOK'
    <2>1. /\ reader \in [Reader -> ReaderState]
          /\ Idle \in ReaderState
          /\ live \in Buffer \cup {NoBuffer}
      BY IdleTyped DEF LiveInv, LiveTypeOK, ReaderState
    <2>2. reader' \in [Reader -> ReaderState]
      <3>1. CASE live = NoBuffer
        <4>1. [Idle EXCEPT !.pc = "unproven"] \in ReaderState
          BY <2>1 DEF ReaderState
        <4>. QED BY <2>1, <3>1, <4>1 DEF LoadSnapshot, Step
      <3>2. CASE live # NoBuffer
        <4>1. [reader[r] EXCEPT !.pc = "take", !.snap = live] \in ReaderState
          BY <2>1 DEF ReaderState
        <4>. QED BY <2>1, <3>2, <4>1 DEF LoadSnapshot, Step
      <3>. QED BY <3>1, <3>2
    <2>. QED BY <2>2 DEF LiveInv, LiveTypeOK, ReaderState, LoadSnapshot, Step
  <1>2. LockInv'
    BY DEF LiveInv, LockInv, LoadSnapshot, Step
  <1>3. GenInv'
    BY DEF LiveInv, GenInv, LoadSnapshot, Step
  <1>4. ImageInv'
    BY DEF LiveInv, ImageInv, LoadSnapshot, Step
  <1>5. HookInv'
    BY DEF LiveInv, HookInv, LiveTypeOK, Agrees, Reading, Outlived, Sight, Idle,
           LoadSnapshot, Step
  <1>6. DnsInv'
    BY DEF LiveInv, DnsInv, LiveTypeOK, Agrees, Reading, Settled, Idle, Gens, LoadSnapshot,
           Step
  <1>7. CachedInv'
    BY DEF LiveInv, CachedInv, Settled, LoadSnapshot, Step
  <1>. QED BY <1>1, <1>2, <1>3, <1>4, <1>5, <1>6, <1>7 DEF LiveInv

LEMMA TakeKeeps == ASSUME LiveInv, NEW r \in Reader, Take(r) PROVE LiveInv'
  <1>1. LiveTypeOK'
    <2>1. [reader[r] EXCEPT !.pc = "index", !.ticks = 0] \in ReaderState
      <3>1. reader[r] \in ReaderState
        BY DEF LiveInv, LiveTypeOK, ReaderState
      <3>2. 0 \in 0 .. Wait /\ 0 \in Gens
        BY LiveAssumption DEF Wait, Gens
      <3>. QED BY <3>1, <3>2 DEF ReaderState
    <2>2. reader' \in [Reader -> ReaderState]
      <3>1. reader \in [Reader -> ReaderState]
        BY DEF LiveInv, LiveTypeOK, ReaderState
      <3>. QED BY <2>1, <3>1 DEF Take, Step
    <2>. QED BY <2>2 DEF LiveInv, LiveTypeOK, ReaderState, Take, Step
  <1>2. LockInv'
    BY DEF LiveInv, LockInv, Reader, Take, Step
  <1>3. GenInv'
    BY DEF LiveInv, GenInv, Take, Step
  <1>4. ImageInv'
    BY DEF LiveInv, ImageInv, Take, Step
  <1>5. HookInv'
    BY DEF LiveInv, HookInv, LiveTypeOK, Agrees, Reading, Seen, Outlived, Sight, Wait, Take,
           Step
  <1>6. DnsInv'
    BY DEF LiveInv, DnsInv, Agrees, Reading, Settled, Take, Step
  <1>7. CachedInv'
    BY DEF LiveInv, CachedInv, Settled, Take, Step
  <1>. QED BY <1>1, <1>2, <1>3, <1>4, <1>5, <1>6, <1>7 DEF LiveInv

LEMMA GiveUpKeeps == ASSUME LiveInv, NEW r \in Reader, GiveUp(r) PROVE LiveInv'
  <1>1. LiveTypeOK'
    <2>1. [Idle EXCEPT !.pc = "unproven"] \in ReaderState
      <3>1. Idle \in ReaderState
        BY IdleTyped
      <3>. QED BY <3>1 DEF ReaderState
    <2>2. reader' \in [Reader -> ReaderState]
      <3>1. reader \in [Reader -> ReaderState]
        BY DEF LiveInv, LiveTypeOK, ReaderState
      <3>. QED BY <2>1, <3>1 DEF GiveUp, Step
    <2>. QED BY <2>2 DEF LiveInv, LiveTypeOK, ReaderState, GiveUp, Step
  <1>2. LockInv'
    BY DEF LiveInv, LockInv, GiveUp, Step
  <1>3. GenInv'
    BY DEF LiveInv, GenInv, GiveUp, Step
  <1>4. ImageInv'
    BY DEF LiveInv, ImageInv, GiveUp, Step
  <1>5. HookInv'
    BY DEF LiveInv, HookInv, Agrees, Reading, Outlived, Sight, Idle, GiveUp, Step
  <1>6. DnsInv'
    BY DEF LiveInv, DnsInv, LiveTypeOK, Agrees, Reading, Settled, Idle, Gens, GiveUp, Step
  <1>7. CachedInv'
    BY DEF LiveInv, CachedInv, Settled, GiveUp, Step
  <1>. QED BY <1>1, <1>2, <1>3, <1>4, <1>5, <1>6, <1>7 DEF LiveInv

LEMMA WalkIndexKeeps == ASSUME LiveInv, NEW r \in Reader, WalkIndex(r) PROVE LiveInv'
  <1>1. LiveTypeOK'
    <2>1. [reader[r] EXCEPT !.pc = "entries",
                            !.view = [@ EXCEPT !.index = image["index"]]] \in ReaderState
      <3>1. reader[r] \in ReaderState
        BY DEF LiveInv, LiveTypeOK, ReaderState
      <3>2. image["index"] \in List /\ image["entries"] \in List
        BY LiveAssumption DEF LiveInv, LiveTypeOK
      <3>. QED BY <3>1, <3>2 DEF ReaderState, ViewType
    <2>2. reader' \in [Reader -> ReaderState]
      <3>1. reader \in [Reader -> ReaderState]
        BY DEF LiveInv, LiveTypeOK, ReaderState
      <3>. QED BY <2>1, <3>1 DEF WalkIndex, Step, Reads
    <2>. QED BY <2>2 DEF LiveInv, LiveTypeOK, ReaderState, WalkIndex, Step, Reads
  <1>2. LockInv'
    BY DEF LiveInv, LockInv, WalkIndex, Step, Reads
  <1>3. GenInv'
    BY DEF LiveInv, GenInv, WalkIndex, Step, Reads
  <1>4. ImageInv'
    BY DEF LiveInv, ImageInv, WalkIndex, Step, Reads
  <1>5. HookInv'
    <2>. reader \in [Reader -> ReaderState]
      BY DEF LiveInv, LiveTypeOK, ReaderState
    <2>1. CASE r = "l2"
      <3>. DEFINE q == reader["l2"]
      <3>1. q.pc = "index" /\ q'.pc = "entries" /\ q'.snap = q.snap /\ q'.ticks = q.ticks
        BY <2>1 DEF Step, Reads, WalkIndex
      <3>2. q'.view = [q.view EXCEPT !.index = image["index"]]
        BY <2>1 DEF Step, Reads, WalkIndex
      <3>3. UNCHANGED <<live, image, exc, loader>>
        BY DEF Step, Reads, WalkIndex
      <3>4. q.snap \in Buffer /\ q.ticks <= Sight
        BY <3>1 DEF LiveInv, HookInv, Reading
      <3>5. CASE live = q.snap /\ Agrees(q, q.snap)
        <4>1. image["index"] = exc[q.snap]
          BY <3>4, <3>5 DEF LiveInv, LiveTypeOK, ImageInv, Buffer, NoBuffer
        <4>2. Agrees(q, q.snap)'
          BY <3>1, <3>2, <3>3, <4>1 DEF Agrees
        <4>. QED BY <3>1, <3>3, <3>4, <3>5, <4>2 DEF HookInv
      <3>6. CASE Outlived(q)
        <4>1. Outlived(q)'
          BY <3>1, <3>3, <3>6 DEF Outlived, Seen
        <4>. QED BY <3>1, <3>4, <4>1 DEF HookInv
      <3>. QED BY <3>1, <3>5, <3>6 DEF LiveInv, HookInv, Reading
    <2>2. CASE r # "l2"
      BY <2>2 DEF LiveInv, HookInv, Agrees, Outlived, Step, Reads, WalkIndex
    <2>. QED BY <2>1, <2>2
  <1>6. DnsInv'
    BY DEF LiveInv, DnsInv, Agrees, Reading, Settled, ImageInv, Buffer, NoBuffer, WalkIndex,
           Step, Reads
  <1>7. CachedInv'
    BY DEF LiveInv, CachedInv, Settled, WalkIndex, Step, Reads
  <1>. QED BY <1>1, <1>2, <1>3, <1>4, <1>5, <1>6, <1>7 DEF LiveInv

LEMMA WalkEntriesKeeps == ASSUME LiveInv, NEW r \in Reader, WalkEntries(r) PROVE LiveInv'
  <1>1. LiveTypeOK'
    <2>1. [reader[r] EXCEPT !.pc = "exceptions",
                            !.view = [@ EXCEPT !.entries = image["entries"]]] \in ReaderState
      <3>1. reader[r] \in ReaderState
        BY DEF LiveInv, LiveTypeOK, ReaderState
      <3>2. image["index"] \in List /\ image["entries"] \in List
        BY LiveAssumption DEF LiveInv, LiveTypeOK
      <3>. QED BY <3>1, <3>2 DEF ReaderState, ViewType
    <2>2. reader' \in [Reader -> ReaderState]
      <3>1. reader \in [Reader -> ReaderState]
        BY DEF LiveInv, LiveTypeOK, ReaderState
      <3>. QED BY <2>1, <3>1 DEF WalkEntries, Step, Reads
    <2>. QED BY <2>2 DEF LiveInv, LiveTypeOK, ReaderState, WalkEntries, Step, Reads
  <1>2. LockInv'
    BY DEF LiveInv, LockInv, WalkEntries, Step, Reads
  <1>3. GenInv'
    BY DEF LiveInv, GenInv, WalkEntries, Step, Reads
  <1>4. ImageInv'
    BY DEF LiveInv, ImageInv, WalkEntries, Step, Reads
  <1>5. HookInv'
    <2>. reader \in [Reader -> ReaderState]
      BY DEF LiveInv, LiveTypeOK, ReaderState
    <2>1. CASE r = "l2"
      <3>. DEFINE q == reader["l2"]
      <3>1. q.pc = "entries" /\ q'.pc = "exceptions" /\ q'.snap = q.snap /\ q'.ticks = q.ticks
        BY <2>1 DEF Step, Reads, WalkEntries
      <3>2. q'.view = [q.view EXCEPT !.entries = image["entries"]]
        BY <2>1 DEF Step, Reads, WalkEntries
      <3>3. UNCHANGED <<live, image, exc, loader>>
        BY DEF Step, Reads, WalkEntries
      <3>4. q.snap \in Buffer /\ q.ticks <= Sight
        BY <3>1 DEF LiveInv, HookInv, Reading
      <3>5. CASE live = q.snap /\ Agrees(q, q.snap)
        <4>1. image["entries"] = exc[q.snap]
          BY <3>4, <3>5 DEF LiveInv, LiveTypeOK, ImageInv, Buffer, NoBuffer
        <4>2. Agrees(q, q.snap)'
          BY <3>1, <3>2, <3>3, <3>5, <4>1 DEF Agrees
        <4>. QED BY <3>1, <3>3, <3>4, <3>5, <4>2 DEF HookInv
      <3>6. CASE Outlived(q)
        <4>1. Outlived(q)'
          BY <3>1, <3>3, <3>6 DEF Outlived, Seen
        <4>. QED BY <3>1, <3>4, <4>1 DEF HookInv
      <3>. QED BY <3>1, <3>5, <3>6 DEF LiveInv, HookInv, Reading
    <2>2. CASE r # "l2"
      BY <2>2 DEF LiveInv, HookInv, Agrees, Outlived, Step, Reads, WalkEntries
    <2>. QED BY <2>1, <2>2
  <1>6. DnsInv'
    BY DEF LiveInv, DnsInv, Agrees, Reading, Settled, ImageInv, Buffer, NoBuffer,
           WalkEntries, Step, Reads
  <1>7. CachedInv'
    BY DEF LiveInv, CachedInv, Settled, WalkEntries, Step, Reads
  <1>. QED BY <1>1, <1>2, <1>3, <1>4, <1>5, <1>6, <1>7 DEF LiveInv

LEMMA WalkExceptionsKeeps == ASSUME LiveInv, NEW r \in Reader, WalkExceptions(r)
                             PROVE  LiveInv'
  <1>1. LiveTypeOK'
    <2>1. [reader[r] EXCEPT !.pc = "tables",
                            !.view = [@ EXCEPT !.exceptions = exc[reader[r].snap]]] \in ReaderState
      <3>1. reader[r] \in ReaderState
        BY DEF LiveInv, LiveTypeOK, ReaderState
      <3>2. exc[reader[r].snap] \in List
        BY DEF LiveInv, HookInv, DnsInv, Reading, LiveTypeOK, Reader, WalkExceptions
      <3>. QED BY <3>1, <3>2 DEF ReaderState, ViewType
    <2>2. reader' \in [Reader -> ReaderState]
      <3>1. reader \in [Reader -> ReaderState]
        BY DEF LiveInv, LiveTypeOK, ReaderState
      <3>. QED BY <2>1, <3>1 DEF WalkExceptions, Step, Reads
    <2>. QED BY <2>2 DEF LiveInv, LiveTypeOK, ReaderState, WalkExceptions, Step, Reads
  <1>2. LockInv'
    BY DEF LiveInv, LockInv, WalkExceptions, Step, Reads
  <1>3. GenInv'
    BY DEF LiveInv, GenInv, WalkExceptions, Step, Reads
  <1>4. ImageInv'
    BY DEF LiveInv, ImageInv, WalkExceptions, Step, Reads
  <1>5. HookInv'
    BY DEF LiveInv, HookInv, Agrees, Reading, Seen, Outlived, WalkExceptions, Step, Reads
  <1>6. DnsInv'
    BY DEF LiveInv, DnsInv, Agrees, Reading, Settled, WalkExceptions, Step, Reads
  <1>7. CachedInv'
    BY DEF LiveInv, CachedInv, Settled, WalkExceptions, Step, Reads
  <1>. QED BY <1>1, <1>2, <1>3, <1>4, <1>5, <1>6, <1>7 DEF LiveInv

LEMMA WalkTablesKeeps == ASSUME LiveInv, NEW r \in Reader, WalkTables(r) PROVE LiveInv'
  <1>1. LiveTypeOK'
    <2>1. [reader[r] EXCEPT !.pc = IF r = "l2" THEN "check" ELSE "done",
                            !.view = [@ EXCEPT !.tables = tables]] \in ReaderState
      <3>1. reader[r] \in ReaderState
        BY DEF LiveInv, LiveTypeOK, ReaderState
      <3>2. tables \in 0 .. MaxEdits
        BY DEF LiveInv, LiveTypeOK
      <3>. QED BY <3>1, <3>2 DEF ReaderState, ViewType
    <2>2. reader' \in [Reader -> ReaderState]
      <3>1. reader \in [Reader -> ReaderState]
        BY DEF LiveInv, LiveTypeOK, ReaderState
      <3>. QED BY <2>1, <3>1 DEF WalkTables, Step, Reads
    <2>. QED BY <2>2 DEF LiveInv, LiveTypeOK, ReaderState, WalkTables, Step, Reads
  <1>2. LockInv'
    BY DEF LiveInv, LockInv, LiveTypeOK, Reader, WalkTables, Step, Reads
  <1>3. GenInv'
    BY DEF LiveInv, GenInv, WalkTables, Step, Reads
  <1>4. ImageInv'
    BY DEF LiveInv, ImageInv, WalkTables, Step, Reads
  <1>5. HookInv'
    BY DEF LiveInv, HookInv, Agrees, Reading, Seen, Outlived, WalkTables, Step, Reads
  <1>6. DnsInv'
    BY DEF LiveInv, DnsInv, Agrees, Reading, Settled, WalkTables, Step, Reads
  <1>7. CachedInv'
    BY DEF LiveInv, CachedInv, Settled, WalkTables, Step, Reads
  <1>. QED BY <1>1, <1>2, <1>3, <1>4, <1>5, <1>6, <1>7 DEF LiveInv

LEMMA RecheckKeeps == ASSUME LiveInv, NEW r \in Reader, Recheck(r) PROVE LiveInv'
  <1>1. LiveTypeOK'
    BY DEF LiveInv, LiveTypeOK, Recheck, Step
  <1>2. LockInv'
    BY DEF LiveInv, LockInv, Recheck, Step
  <1>3. GenInv'
    BY DEF LiveInv, GenInv, Recheck, Step
  <1>4. ImageInv'
    BY DEF LiveInv, ImageInv, Recheck, Step
  <1>5. HookInv'
    BY DEF LiveInv, HookInv, Agrees, Reading, Outlived, ImageInv, Whole, Buffer, NoBuffer,
           Recheck, Step
  <1>6. DnsInv'
    BY DEF LiveInv, DnsInv, Agrees, Settled, Recheck, Step
  <1>7. CachedInv'
    BY DEF LiveInv, CachedInv, Settled, Recheck, Step
  <1>. QED BY <1>1, <1>2, <1>3, <1>4, <1>5, <1>6, <1>7 DEF LiveInv

LEMMA ReturnKeeps == ASSUME LiveInv, NEW r \in Reader, Return(r) PROVE LiveInv'
  <1>1. LiveTypeOK'
    <2>1. Idle \in ReaderState
      <3>1. Idle \in ReaderState
        BY IdleTyped
      <3>. QED BY <3>1
    <2>2. reader' \in [Reader -> ReaderState]
      <3>1. reader \in [Reader -> ReaderState]
        BY DEF LiveInv, LiveTypeOK, ReaderState
      <3>. QED BY <2>1, <3>1 DEF Return, Step
    <2>. QED BY <2>2 DEF LiveInv, LiveTypeOK, ReaderState, Return, Step
  <1>2. LockInv'
    BY DEF LiveInv, LockInv, Idle, Return, Step
  <1>3. GenInv'
    BY DEF LiveInv, GenInv, Return, Step
  <1>4. ImageInv'
    BY DEF LiveInv, ImageInv, Return, Step
  <1>5. HookInv'
    BY DEF LiveInv, HookInv, Agrees, Reading, Outlived, Sight, Idle, Return, Step
  <1>6. DnsInv'
    BY DEF LiveInv, DnsInv, LiveTypeOK, Agrees, Reading, Settled, Idle, Gens, Return, Step
  <1>7. CachedInv'
    BY DEF LiveInv, CachedInv, Settled, Agrees, DnsInv, ImageInv, Whole, Buffer, NoBuffer,
           Return, Step
  <1>. QED BY <1>1, <1>2, <1>3, <1>4, <1>5, <1>6, <1>7 DEF LiveInv

\* Time: here the hook's allowance and the loader's sleep are weighed against each other.
LEMMA TickKeeps == ASSUME LiveInv, Tick PROVE LiveInv'
  <1>1. LiveTypeOK'
    <2>1. loader' \in LoaderState
      <3>1. loader \in LoaderState
        BY DEF LiveInv, LiveTypeOK, LoaderState
      <3>. QED BY <3>1 DEF LoaderState, Wait, Tick
    <2>2. reader' \in [Reader -> ReaderState]
      <3>1. ASSUME NEW r \in Reader PROVE reader'[r] \in ReaderState
        <4>1. reader[r] \in ReaderState
          BY DEF LiveInv, LiveTypeOK, ReaderState
        <4>2. reader[r].pc # "idle" => reader[r].ticks + 1 \in 0 .. Wait
          BY <4>1 DEF Tick, Patience, ReaderState, Sight, Wait
        <4>. QED BY <4>1, <4>2 DEF Tick, ReaderState
      <3>. QED BY <3>1 DEF Tick
    <2>. QED BY <2>1, <2>2 DEF LiveInv, LiveTypeOK, LoaderState, ReaderState, Tick
  <1>2. LockInv'
    BY DEF LiveInv, LockInv, Tick
  <1>3. GenInv'
    BY DEF LiveInv, GenInv, Tick
  <1>4. ImageInv'
    BY DEF LiveInv, ImageInv, Tick
  <1>5. HookInv'
    BY DEF LiveInv, HookInv, LiveTypeOK, Agrees, Reading, Seen, Outlived, Sight, Wait,
           Reader, Tick, Patience
  <1>6. DnsInv'
    BY DEF LiveInv, DnsInv, Agrees, Settled, Reader, Tick
  <1>7. CachedInv'
    BY DEF LiveInv, CachedInv, Settled, Tick
  <1>. QED BY <1>1, <1>2, <1>3, <1>4, <1>5, <1>6, <1>7 DEF LiveInv

\* Every step keeps the invariant.
LEMMA StepKeeps == LiveInv /\ [LiveNext]_liveVars => LiveInv'
  <1>. SUFFICES ASSUME LiveInv, [LiveNext]_liveVars PROVE LiveInv'
    OBVIOUS
  <1>1. CASE Loader
    BY <1>1, FetchKeeps, FetchFailsKeeps, WithdrawKeeps, RebuildIndexKeeps,
       RebuildEntriesKeeps, PublishImageKeeps, BumpKeeps
       DEF Loader
  <1>2. CASE Editor
    BY <1>2, EditorTakesKeeps, EditKeeps, EditorBumpsKeeps, EditorGivesKeeps DEF Editor
  <1>3. ASSUME NEW r \in Reader, Read(r) PROVE LiveInv'
    <2>1. LiveTypeOK
      BY DEF LiveInv
    <2>2. CASE Walk(r)
      BY <2>1, <2>2, WalkCases, WalkIndexKeeps, WalkEntriesKeeps, WalkExceptionsKeeps,
         WalkTablesKeeps
    <2>. QED BY <1>3, <2>2, AskKeeps, LoadSnapshotKeeps, TakeKeeps, GiveUpKeeps,
                RecheckKeeps, ReturnKeeps
                DEF Read
  <1>4. CASE Tick
    BY <1>4, TickKeeps
  <1>5. CASE UNCHANGED liveVars
    BY <1>5
       DEF liveVars, LiveInv, LiveTypeOK, LockInv, GenInv, ImageInv, HookInv, DnsInv,
           CachedInv, Agrees, Outlived, Settled
  <1>. QED BY <1>1, <1>2, <1>3, <1>4, <1>5 DEF LiveNext

\* It holds when the device has booted.
LEMMA InitHolds == LiveInit => LiveInv
  <1>. SUFFICES ASSUME LiveInit PROVE LiveInv
    OBVIOUS
  <1>1. LiveTypeOK
    BY LiveAssumption, IdleTyped
       DEF LiveInit, LiveTypeOK, ReaderState, List, Gens, ViewType, NoView, Buffer, Wait
  <1>2. LockInv /\ GenInv /\ ImageInv
    BY DEF LiveInit, LockInv, GenInv, ImageInv, Idle, Buffer
  <1>3. HookInv /\ DnsInv /\ CachedInv
    BY DEF LiveInit, HookInv, DnsInv, CachedInv, Idle, Reader, Reading, Sight
  <1>. QED BY <1>1, <1>2, <1>3 DEF LiveInv

\* The inductive invariant of the rebuild in place and of both verdicts.
THEOREM LiveInvHolds == LiveSpec => []LiveInv
  BY InitHolds, StepKeeps, PTL DEF LiveSpec

\* Every reachable state is well typed: the generation never exceeds the number of
\* reloads and edits, and no verdict outlasts its wait.
THEOREM LiveTypeCorrect == LiveSpec => []LiveTypeOK
  <1>1. LiveInv => LiveTypeOK
    BY DEF LiveInv
  <1>. QED BY <1>1, LiveInvHolds, PTL

\* blocklist_verdict_nb: a verdict the Ethernet hook acts on is of one list, for any
\* number of reloads and edits and any interleaving with them.
THEOREM HookActsOnOneList == LiveSpec => []HookVerdictIsProven
  <1>1. LiveInv => HookVerdictIsProven
    BY DEF LiveInv, HookInv, HookVerdictIsProven
  <1>. QED BY <1>1, LiveInvHolds, PTL

\* dns_task's cache: what is remembered under the present generation is the verdict of
\* the list and the tables in force, though blocklist_verdict itself may be torn.
THEOREM CacheKeepsCurrentVerdicts == LiveSpec => []CachedVerdictIsCurrent
  <1>1. LiveInv => CachedVerdictIsCurrent
    BY DEF LiveInv, CachedInv, LockInv, Settled, InService, CachedVerdictIsCurrent
  <1>. QED BY <1>1, LiveInvHolds, PTL

-----------------------------------------------------------------------------
(***************************************************************************)
(* The safety half of WindowCloses.  From the moment the list is withdrawn *)
(* the reload has only so many steps to the new one.                       *)
(***************************************************************************)
\* Steps of the loader, and ticks of its sleep, until a list is in service again.
WindowLeft == CASE loader.pc = "asleep"  -> 3 + Wait - loader.ticks
                [] loader.pc = "entries" -> 2
                [] loader.pc = "publish" -> 1
                [] OTHER                 -> 0

\* A step of the reload, or a tick it sleeps through.
CountsDown == Loader \/ (Tick /\ loader.pc = "asleep" /\ loader.ticks < Wait)

WindowStep == live = NoBuffer /\ WindowLeft > 0 =>
    /\ IF CountsDown THEN WindowLeft' < WindowLeft ELSE WindowLeft' = WindowLeft
    /\ live' = NoBuffer <=> WindowLeft' > 0

WindowShrinks == [][WindowStep]_liveVars

LEMMA WindowStepHolds == LiveInv /\ LiveNext => WindowStep
  <1>. SUFFICES ASSUME LiveInv, LiveNext, live = NoBuffer, WindowLeft > 0
                PROVE  /\ IF CountsDown THEN WindowLeft' < WindowLeft ELSE WindowLeft' = WindowLeft
                       /\ live' = NoBuffer <=> WindowLeft' > 0
    BY DEF WindowStep
  <1>1. /\ loader \in LoaderState /\ loader.ticks \in 0 .. Wait /\ loader.buf \in {0, 1}
        /\ loader.pc \in {"asleep", "entries", "publish"}
    BY DEF LiveInv, LiveTypeOK, LoaderState, WindowLeft, Buffer
  <1>2. CASE Loader
    <2>1. CASE RebuildIndex
      BY <1>1, <1>2, <2>1 DEF RebuildIndex, LoaderState, WindowLeft, CountsDown, Wait
    <2>2. CASE RebuildEntries
      BY <1>1, <1>2, <2>2 DEF RebuildEntries, LoaderState, WindowLeft, CountsDown
    <2>3. CASE PublishImage
      BY <1>1, <1>2, <2>3 DEF PublishImage, LoaderState, WindowLeft, CountsDown, NoBuffer
    <2>. QED BY <1>1, <1>2, <2>1, <2>2, <2>3
                DEF Loader, Fetch, FetchFails, Withdraw, Bump
  <1>3. CASE Tick
    <2>1. /\ live' = live
          /\ loader' = [loader EXCEPT !.ticks = IF loader.pc = "asleep" /\ @ < Wait THEN @ + 1 ELSE @]
      BY <1>3 DEF Tick
    <2>2. ~Loader
      BY <1>1, <2>1 DEF Loader, Fetch, FetchFails, Withdraw, RebuildIndex, RebuildEntries,
                        PublishImage, Bump, LoaderState
    <2>3. CASE loader.pc = "asleep" /\ loader.ticks < Wait
      BY <1>1, <1>3, <2>1, <2>3 DEF LoaderState, WindowLeft, CountsDown, Wait
    <2>4. CASE ~(loader.pc = "asleep" /\ loader.ticks < Wait)
      BY <1>1, <2>1, <2>2, <2>4 DEF LoaderState, WindowLeft, CountsDown, Wait
    <2>. QED BY <2>3, <2>4
  <1>4. CASE live' = live /\ loader' = loader
    <2>1. ~Loader
      BY <1>1, <1>4 DEF Loader, Fetch, FetchFails, Withdraw, RebuildIndex, RebuildEntries,
                        PublishImage, Bump, LoaderState
    <2>2. ~(Tick /\ loader.pc = "asleep" /\ loader.ticks < Wait)
      <3>1. SUFFICES ASSUME Tick, loader.pc = "asleep", loader.ticks < Wait PROVE FALSE
        OBVIOUS
      <3>2. loader' = [loader EXCEPT !.ticks = loader.ticks + 1]
        BY <3>1 DEF Tick
      <3>3. loader'.ticks = loader.ticks + 1 /\ loader.ticks \in Nat
        BY <1>1, <3>2 DEF LoaderState, Wait
      <3>. QED BY <1>4, <3>3
    <2>. QED BY <1>4, <2>1, <2>2 DEF WindowLeft, CountsDown
  <1>5. ASSUME Editor \/ \E r \in Reader : Read(r) PROVE live' = live /\ loader' = loader
    BY <1>5 DEF Editor, EditorTakes, Edit, EditorBumps, EditorGives, Hold, Read, Ask,
                LoadSnapshot, Take, GiveUp, Walk, Recheck, Return, Step
  <1>. QED BY <1>2, <1>3, <1>4, <1>5 DEF LiveNext

\* blocklist_load: while the list is withdrawn every step of the reload brings the new one
\* nearer, no other task delays it, and the last of them is what puts a list into service.
THEOREM WindowsClose == LiveSpec => WindowShrinks /\ [](WindowLeft \in Nat)
  <1>1. LiveInv /\ [LiveNext]_liveVars => [WindowStep]_liveVars
    BY WindowStepHolds
  <1>2. LiveInv => WindowLeft \in Nat
    BY DEF LiveInv, LiveTypeOK, WindowLeft, Wait
  <1>. QED BY <1>1, <1>2, LiveInvHolds, PTL DEF LiveSpec, WindowShrinks

-----------------------------------------------------------------------------
(***************************************************************************)
(* The instance the runs explore.                                          *)
(***************************************************************************)
\* What MCLoad explores of the reload and of the list in service are behaviours of
\* LoadControl and of BlocklistLive, but for the fairness of the part that stands still.
THEOREM LoadRunsItsParts == MCSpec => /\ Init /\ [][Next]_vars
                                      /\ LiveInit /\ [][LiveNext]_liveVars
  <1>1. MCInit => Init /\ LiveInit
    BY DEF MCInit
  <1>2. [MCNext]_<<vars, liveVars, part>> => [Next]_vars /\ [LiveNext]_liveVars
    BY DEF MCNext
  <1>. QED BY <1>1, <1>2, PTL DEF MCSpec

\* Every variable of the reload and of the list in service keeps its type.
THEOREM LoadTypesCorrect == MCSpec => []TypesOK
  <1>1. IInv /\ [Next]_vars => IInv'
    BY TypeStep, WatchdogStep, HeedStep, FateStep DEF IInv
  <1>2. MCSpec => [](IInv /\ LiveInv)
    BY <1>1, InitIInv, InitHolds, StepKeeps, LoadRunsItsParts, PTL
  <1>3. IInv /\ LiveInv => TypesOK
    BY DEF IInv, LiveInv, TypesOK
  <1>. QED BY <1>2, <1>3, PTL
================================================================================
