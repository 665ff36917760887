---------------------------- MODULE SocketWatchdog ----------------------------
(***************************************************************************)
(* dns_task's sockets (dns_server.cpp): how they are opened, the turns of  *)
(* its loop, and the watchdog that reopens them when the Ethernet hook has *)
(* handed over questions and no query has been counted.                    *)
(*                                                                         *)
(* Abstractions.  A wedged socket delivers nothing any more.  Of the query *)
(* counter the watchdog only asks whether it moved and whether it is zero; *)
(* of the hook's counter, how much it has grown since the last look.       *)
(***************************************************************************)
EXTENDS Naturals, Sequences

CONSTANTS Threshold,  \* unanswered questions that mean a wedge (5 in the code)
          Burst,      \* bound on the questions between two looks
          MaxWedges,  \* bound on the wedges
          MaxMasks,   \* bound on what hides a wedge: resets of the metrics, TCP queries
          MaxFails    \* bound on the sockets that cannot be created

ASSUME WatchdogAssumption == /\ {Threshold, Burst, MaxWedges, MaxMasks, MaxFails} \subseteq Nat
                             /\ Threshold > 0 /\ Burst > 0

VARIABLES wedged,    \* which of csock and usock deliver nothing
          mbox,      \* the clients whose datagrams wait on csock, by class
          demand,    \* s_l2_dns_fallthrough since the last look
          moved,     \* s_cnt_total has moved since the last look
          counted,   \* s_wd_last_total is not zero
          ever,      \* s_wd_ever_served
          unanswered,\* s_wd_unanswered
          resetReq,  \* s_reset_req
          turn,      \* where dns_task is: "look", "drain", or "down"
          wedges, masks, fails   \* bounds

wdRest == <<wedges, masks, fails>>
wdVars == <<wedged, mbox, demand, moved, counted, ever, unanswered, resetReq, turn, wdRest>>

WdClient == {"listed", "denied"}

WdTypeOK == /\ wedged \subseteq {"csock", "usock"}
            /\ mbox \in Seq(WdClient) /\ Len(mbox) <= Burst
            /\ demand \in 0 .. Burst /\ unanswered \in 0 .. Threshold - 1
            /\ {moved, counted, ever, resetReq} \subseteq BOOLEAN
            /\ turn \in {"down", "look", "drain"}
            /\ wedges \in 0 .. MaxWedges /\ masks \in 0 .. MaxMasks /\ fails \in 0 .. MaxFails

WdInit == /\ wedged = {} /\ mbox = <<>> /\ demand = 0
          /\ moved = FALSE /\ counted = FALSE /\ ever = FALSE /\ unanswered = 0
          /\ resetReq = FALSE
          /\ turn = "down"
          /\ wedges = 0 /\ masks = 0 /\ fails = 0

wdCounts == <<moved, counted, ever, unanswered>>

-----------------------------------------------------------------------------
\* run_loop up to its loop: csock bound to port 53, usock, and a listener it can
\* do without.  A task that cannot open them ends.
OpenSockets == /\ turn = "down"
               /\ turn' = "look"
               /\ UNCHANGED <<wedged, mbox, demand, wdCounts, resetReq, wdRest>>

\* The hook counts a confirmed question and hands it to lwIP, which queues it for
\* csock.
HookDefers(c) == /\ demand < Burst
                 /\ demand' = demand + 1
                 /\ mbox' = IF turn = "down" \/ "csock" \in wedged \/ Len(mbox) = Burst
                               THEN mbox ELSE Append(mbox, c)
                 /\ UNCHANGED <<wedged, wdCounts, resetReq, turn, wdRest>>

Wedge(s) == /\ turn # "down" /\ s \notin wedged /\ wedges < MaxWedges
            /\ wedged' = wedged \cup {s}
            /\ mbox' = IF s = "csock" THEN <<>> ELSE mbox
            /\ wedges' = wedges + 1
            /\ UNCHANGED <<demand, wdCounts, resetReq, turn, masks, fails>>

AskReset == /\ masks < MaxMasks /\ ~resetReq
            /\ resetReq' = TRUE /\ masks' = masks + 1
            /\ UNCHANGED <<wedged, mbox, demand, wdCounts, turn, wedges, fails>>

-----------------------------------------------------------------------------
(***************************************************************************)
(* One turn: the reset, the watchdog's look, then the queries.             *)
(***************************************************************************)
\* The counter as the look finds it, the reset included.
Total    == ~resetReq /\ (counted \/ moved)
Progress == IF resetReq THEN counted ELSE moved
Served   == ever \/ Total

\* Mutant: only the questions of this turn count.
ToldOneTurn == IF Progress THEN 0 ELSE IF Served THEN demand ELSE unanswered

Told == IF Progress THEN 0 ELSE IF Served THEN unanswered + demand ELSE unanswered

NoteCounters == /\ counted' = Total /\ ever' = Served
                /\ moved' = FALSE /\ resetReq' = FALSE /\ demand' = 0

Look == /\ turn = "look" /\ Told < Threshold
        /\ NoteCounters
        /\ unanswered' = Told
        /\ turn' = "drain"
        /\ UNCHANGED <<wedged, mbox, wdRest>>

\* Both sockets are replaced, each only once its successor is there.
Reopen == /\ turn = "look" /\ Told >= Threshold
          /\ \E ok \in {{"csock"}, {"usock"}, {"csock", "usock"}} :
                /\ wedged' = wedged \ ok
                /\ mbox' = IF "csock" \in ok THEN <<>> ELSE mbox
                /\ IF ok = {"csock", "usock"} THEN UNCHANGED fails
                                              ELSE fails < MaxFails /\ fails' = fails + 1
          /\ NoteCounters
          /\ unanswered' = 0
          /\ turn' = "drain"
          /\ UNCHANGED <<wedges, masks>>

\* Neither can be: the box restarts.
Restart == /\ turn = "look" /\ Told >= Threshold
           /\ fails < MaxFails /\ fails' = fails + 1
           /\ wedged' = {} /\ mbox' = <<>> /\ demand' = 0
           /\ moved' = FALSE /\ counted' = FALSE /\ ever' = FALSE /\ unanswered' = 0
           /\ resetReq' = FALSE
           /\ turn' = "down"
           /\ UNCHANGED <<wedges, masks>>

\* The access list comes before the counter.
Counts(c) == c = "listed"

TakeQuery == /\ turn = "drain" /\ mbox # <<>> /\ "csock" \notin wedged
             /\ mbox' = Tail(mbox)
             /\ moved' = (moved \/ Counts(Head(mbox)))
             /\ UNCHANGED <<wedged, demand, counted, ever, unanswered, resetReq, turn, wdRest>>

\* A query over TCP moves the same counter.
TakeTcpQuery == /\ turn = "drain" /\ masks < MaxMasks
                /\ moved' = TRUE /\ masks' = masks + 1
                /\ UNCHANGED <<wedged, mbox, demand, counted, ever, unanswered, resetReq, turn,
                               wedges, fails>>

Drained == /\ turn = "drain" /\ (mbox = <<>> \/ "csock" \in wedged)
           /\ turn' = "look"
           /\ UNCHANGED <<wedged, mbox, demand, wdCounts, resetReq, wdRest>>

WdTask == OpenSockets \/ Look \/ Reopen \/ Restart \/ TakeQuery \/ TakeTcpQuery \/ Drained

WdNext == \/ WdTask \/ AskReset
          \/ \E c \in WdClient : HookDefers(c)
          \/ \E s \in {"csock", "usock"} : Wedge(s)

\* dns_task runs; a client that gets no answer asks again.
WdRuns == OpenSockets \/ Look \/ Reopen \/ Restart \/ TakeQuery \/ Drained

WdFairness == /\ WF_wdVars(WdRuns)
              /\ WF_wdVars(HookDefers("listed"))

WdSpec == WdInit /\ [][WdNext]_wdVars /\ WdFairness

-----------------------------------------------------------------------------
(***************************************************************************)
(* Property.                                                               *)
(***************************************************************************)
\* A client socket that has worked and then wedges is replaced, or the box is
\* restarted, however sparsely the questions come.
WedgedClientSocketIsReplaced == ("csock" \in wedged /\ ever) ~> ("csock" \notin wedged)
===============================================================================
