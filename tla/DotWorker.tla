------------------------------- MODULE DotWorker -------------------------------
(***************************************************************************)
(* DNS over TLS (dot.c): one worker task with one persistent session,      *)
(* between two bounded queues; dns_task fills one and drains the other,    *)
(* and the web task changes the configuration under the worker's feet.     *)
(*                                                                         *)
(* A configuration is the server it names.  A query is the transaction id  *)
(* it carries and a serial number that stands for its bytes.               *)
(***************************************************************************)
EXTENDS Naturals, Sequences

CONSTANTS Server,     \* servers the configuration may name
          FwdId,       \* transaction ids of upstream queries
          MaxSerial,  \* bound on the queries forwarded
          ReqDepth,   \* depth of the request queue, DOT_REQ_DEPTH
          RepDepth,   \* depth of the reply queue, DOT_REP_DEPTH
          MaxSets     \* bound on the configuration changes

ASSUME DotAssumption == /\ {MaxSerial, ReqDepth, RepDepth, MaxSets} \subseteq Nat
                        /\ Server # {} /\ "none" \notin Server

VARIABLES dotEnabled, dotUp,  \* s_enabled, s_worker_up
          dotCfg,             \* s_server
          dotConn,            \* the server s_conn is open to, or "none"
          dotReconnect,       \* s_reconnect
          dotSetting,         \* where the web task is in dot_set
          dotPc, dotTry,      \* where the worker is, and in which attempt
          dotJob,             \* the query in its hands
          dotOpening,         \* the server it is connecting to
          dotReqQ, dotRepQ,   \* the two queues
          dotSets,            \* configuration changes so far
          dotOutdated         \* exchanges on a session that a completed dot_set replaced

dotVars == <<dotEnabled, dotUp, dotCfg, dotConn, dotReconnect, dotSetting, dotPc, dotTry,
             dotJob, dotOpening, dotReqQ, dotRepQ, dotSets, dotOutdated>>

DotQuery == [txid : FwdId, serial : 1 .. MaxSerial]

DotTypeOK == /\ dotEnabled \in BOOLEAN /\ dotUp \in BOOLEAN /\ dotReconnect \in BOOLEAN
             /\ dotCfg \in Server
             /\ {dotConn, dotOpening} \subseteq Server \cup {"none"}
             /\ dotSetting \in {"idle", "changed", "same"}
             /\ dotPc \in {"top", "clear", "wait", "try", "open", "reply", "failed"}
             /\ dotTry \in 0 .. 2
             /\ dotJob \subseteq DotQuery
             /\ dotReqQ \in Seq(DotQuery) /\ Len(dotReqQ) <= ReqDepth
             /\ dotRepQ \in Seq([query : DotQuery, failed : BOOLEAN]) /\ Len(dotRepQ) <= RepDepth
             /\ dotSets \in 0 .. MaxSets
             /\ dotOutdated \in Nat

\* dot_init_nvs: the worker is started at boot if DoT is on.
DotInit == /\ dotEnabled \in BOOLEAN /\ dotUp = dotEnabled
           /\ dotCfg \in Server
           /\ dotConn = "none" /\ dotOpening = "none"
           /\ dotReconnect = FALSE
           /\ dotSetting = "idle" /\ dotSets = 0
           /\ dotPc = "top" /\ dotTry = 0 /\ dotJob = {}
           /\ dotReqQ = <<>> /\ dotRepQ = <<>>
           /\ dotOutdated = 0

DotOn == dotEnabled /\ dotUp

setVars == <<dotEnabled, dotUp, dotCfg, dotSetting, dotSets>>
workerVars == <<dotConn, dotPc, dotTry, dotJob, dotOpening>>

-----------------------------------------------------------------------------
\* The web task: dot_set changes the configuration under the mutex, writes NVS,
\* and only then asks the worker to drop its session.
DotSetBegin(en, srv) ==
    /\ dotSetting = "idle" /\ dotSets < MaxSets
    /\ dotEnabled' = en /\ dotCfg' = srv
    /\ dotSetting' = IF <<en, srv>> # <<dotEnabled, dotCfg>> THEN "changed" ELSE "same"
    /\ dotSets' = dotSets + 1
    /\ dotOutdated' = 0
    /\ UNCHANGED <<dotUp, dotReconnect, workerVars, dotReqQ, dotRepQ>>

\* worker_start_once may fail to create its queues or its task.
DotSetEnd(started) ==
    /\ dotSetting # "idle"
    /\ dotReconnect' = (dotReconnect \/ dotSetting = "changed")
    /\ dotUp' = (dotUp \/ (dotEnabled /\ started))
    /\ dotSetting' = "idle"
    /\ UNCHANGED <<dotEnabled, dotCfg, dotSets, dotOutdated, workerVars, dotReqQ, dotRepQ>>

-----------------------------------------------------------------------------
\* The worker.
\* Mutant: the worker takes the request down, and leaves the session up.
DotKeep == /\ dotUp /\ dotPc = "top"
           /\ dotPc' = IF dotReconnect THEN "clear" ELSE "wait"
           /\ UNCHANGED <<setVars, dotConn, dotReconnect, dotTry, dotJob, dotOpening, dotReqQ, dotRepQ,
                          dotOutdated>>

DotTop == /\ dotUp /\ dotPc = "top"
          /\ dotPc' = IF dotReconnect THEN "clear" ELSE "wait"
          /\ dotConn' = IF dotReconnect THEN "none" ELSE dotConn
          /\ UNCHANGED <<setVars, dotReconnect, dotTry, dotJob, dotOpening, dotReqQ, dotRepQ,
                         dotOutdated>>

DotClear == /\ dotPc = "clear"
            /\ dotReconnect' = FALSE
            /\ dotPc' = "wait"
            /\ UNCHANGED <<setVars, dotConn, dotTry, dotJob, dotOpening, dotReqQ, dotRepQ,
                           dotOutdated>>

\* A request, or a second without one.
DotReceive == /\ dotPc = "wait"
              /\ IF dotReqQ = <<>>
                    THEN dotPc' = "top" /\ UNCHANGED <<dotJob, dotReqQ>>
                    ELSE /\ dotPc' = "try"
                         /\ dotJob' = {Head(dotReqQ)}
                         /\ dotReqQ' = Tail(dotReqQ)
              /\ dotTry' = 0
              /\ UNCHANGED <<setVars, dotConn, dotReconnect, dotOpening, dotRepQ, dotOutdated>>

NextAttempt == /\ dotTry' = dotTry + 1
               /\ dotPc' = IF dotTry = 1 THEN "failed" ELSE "try"

\* conn_ensure: the configuration is read under the mutex, then the handshake.
DotConnect == /\ dotPc = "try" /\ dotConn = "none"
              /\ dotOpening' = dotCfg
              /\ dotPc' = "open"
              /\ UNCHANGED <<setVars, dotConn, dotReconnect, dotTry, dotJob, dotReqQ, dotRepQ,
                             dotOutdated>>

DotConnected == /\ dotPc = "open"
                /\ \/ dotConn' = dotOpening /\ dotPc' = "try" /\ UNCHANGED dotTry
                   \/ NextAttempt /\ UNCHANGED dotConn
                /\ dotOpening' = "none"
                /\ UNCHANGED <<setVars, dotReconnect, dotJob, dotReqQ, dotRepQ, dotOutdated>>

DotExchange == /\ dotPc = "try" /\ dotConn # "none"
               /\ dotOutdated' = IF dotSetting = "idle" /\ dotConn # dotCfg
                                    THEN dotOutdated + 1 ELSE dotOutdated
               /\ \/ dotPc' = "reply" /\ UNCHANGED <<dotConn, dotTry>>
                  \/ dotConn' = "none" /\ NextAttempt
               /\ UNCHANGED <<setVars, dotReconnect, dotJob, dotOpening, dotReqQ, dotRepQ>>

\* A reply, or the query itself as an echo; a full queue drops it.
DotSend == /\ dotPc \in {"reply", "failed"}
           /\ dotRepQ' = IF Len(dotRepQ) < RepDepth
                            THEN Append(dotRepQ, [query |-> CHOOSE j \in dotJob : TRUE,
                                                  failed |-> dotPc = "failed"])
                            ELSE dotRepQ
           /\ dotPc' = "top" /\ dotJob' = {} /\ dotTry' = 0
           /\ UNCHANGED <<setVars, dotConn, dotReconnect, dotOpening, dotReqQ, dotOutdated>>

DotNext == \/ \E en \in BOOLEAN, srv \in Server : DotSetBegin(en, srv)
           \/ \E started \in BOOLEAN : DotSetEnd(started)
           \/ DotTop \/ DotClear \/ DotReceive
           \/ DotConnect \/ DotConnected \/ DotExchange \/ DotSend

-----------------------------------------------------------------------------
\* dot_enqueue: what dns_task does to the request queue, and whether it may.
DotAccepts == DotOn /\ Len(dotReqQ) < ReqDepth

DotEnqueue(q) == /\ dotReqQ' = Append(dotReqQ, q)
                 /\ UNCHANGED <<setVars, workerVars, dotReconnect, dotRepQ, dotOutdated>>

DotDrain == /\ dotRepQ # <<>>
            /\ dotRepQ' = Tail(dotRepQ)
            /\ UNCHANGED <<setVars, workerVars, dotReconnect, dotReqQ, dotOutdated>>

\* After a configuration change has returned, at most one more exchange uses
\* the session it replaced: the worker looks at the request to reconnect at the
\* top of its loop, and may already be waiting for work or at work.
OldServerUsedOnce == dotOutdated <= 1
===============================================================================
