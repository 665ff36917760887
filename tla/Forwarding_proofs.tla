--------------------------- MODULE Forwarding_proofs ---------------------------
(***************************************************************************)
(* Proofs about Forwarding and DotWorker, for every number of flights,     *)
(* riders, connections, servers and configuration changes, and every depth *)
(* of the two queues.                                                      *)
(*                                                                         *)
(* The invariant has four parts.  DotInv follows the worker's session      *)
(* against the configuration; FwdInv says of each flight in the table what *)
(* the hedge sweep and process_reply rely on when they come to it;         *)
(* SweepInv says of a sweep under way which copies it still has to send,   *)
(* and what dot_set changed since their flights were launched; and         *)
(* RouteInv puts the questions that are with the worker in the order they  *)
(* were asked, so that each is in one place only.                          *)
(***************************************************************************)
EXTENDS MCForwarding, Numbers_proofs

-----------------------------------------------------------------------------
(***************************************************************************)
(* One route at a time.  A question entrusted to the worker passes from    *)
(* the request queue through the worker's hands to the reply queue, in the *)
(* order of asking; it may go out in plain UDP only once it is in none of  *)
(* them.                                                                   *)
(***************************************************************************)
\* The questions in the replies, in the worker's hands and in the requests, oldest first.
InOrder(rep, job, req, last) ==
    /\ \A i, j \in 1 .. Len(rep) : i < j => rep[i].query.serial < rep[j].query.serial
    /\ \A i, j \in 1 .. Len(req) : i < j => req[i].serial < req[j].serial
    /\ \A i \in 1 .. Len(rep), q \in job : rep[i].query.serial < q.serial
    /\ \A i \in 1 .. Len(rep), j \in 1 .. Len(req) : rep[i].query.serial < req[j].serial
    /\ \A q \in job, j \in 1 .. Len(req) : q.serial < req[j].serial
    /\ \A i \in 1 .. Len(rep) : rep[i].query.serial <= last
    /\ \A q \in job : q.serial <= last
    /\ \A i \in 1 .. Len(req) : req[i].serial <= last

Holds(rep, job, req, n) == \/ \E i \in 1 .. Len(rep) : rep[i].query.serial = n
                           \/ \E q \in job : q.serial = n
                           \/ \E i \in 1 .. Len(req) : req[i].serial = n

Report == [query : DotQuery, failed : BOOLEAN]

Entrusted(n) == Holds(dotRepQ, dotJob, dotReqQ, n)

\* What the table says of the questions entrusted.
TableInv == \A s \in Flight : up[s].in_use =>
                /\ up[s].serial \in 1 .. serials
                /\ \A t \in Flight : up[t].in_use /\ up[t].serial = up[s].serial => t = s
                /\ up[s].clear => ~Entrusted(up[s].serial)

RouteInv == InOrder(dotRepQ, dotJob, dotReqQ, serials) /\ TableInv

\* A flight whose question is out in plain UDP has it nowhere with the worker: no
\* resolver is asked in the clear what the worker still has to ask, is asking, or has an
\* answer for that dns_task did not take yet.
OneRouteAtATime == \A s \in Aloft : up[s].clear => ~Entrusted(up[s].serial)

\* A flight launched over TLS goes out in the clear only when the worker reports that
\* very question as failed.
ClearOnlyOnFailure ==
    [][\A s \in Flight : /\ up[s].in_use /\ up'[s].in_use /\ up'[s].serial = up[s].serial
                         /\ ~up[s].clear /\ up'[s].clear
                         => /\ dotRepQ # <<>> /\ Head(dotRepQ).failed
                            /\ Head(dotRepQ).query.serial = up[s].serial]_fwdAllVars

\* The worker reports a question once: with its report the question has left it, and what
\* has left it never comes back.
ReportedOnce ==
    [][/\ \A n \in 1 .. serials : ~Entrusted(n) => ~Entrusted(n)'
       /\ \A n \in 1 .. MaxSerial : DrainDot /\ n = Head(dotRepQ).query.serial => ~Entrusted(n)']_fwdAllVars

\* The moves of a question.
LEMMA OneMore == ASSUME NEW m \in Nat, NEW i \in 1 .. m + 1 PROVE i \in 1 .. m \/ i = m + 1
  OBVIOUS

LEMMA SerialsAreNumbers ==
    /\ \A rep \in Seq(Report) : \A i \in 1 .. Len(rep) : rep[i].query.serial \in Nat
    /\ \A req \in Seq(DotQuery) : \A i \in 1 .. Len(req) : req[i].serial \in Nat
    /\ \A job \in SUBSET DotQuery : \A q \in job : q.serial \in Nat
  <1>1. MaxSerial \in Nat
    BY DotAssumption
  <1>2. \A q \in DotQuery : q.serial \in Nat
    BY <1>1 DEF DotQuery
  <1>3. \A r \in Report : r.query \in DotQuery
    BY DEF Report
  <1>4. ASSUME NEW S, NEW sq \in Seq(S), NEW i \in 1 .. Len(sq) PROVE sq[i] \in S
    BY ElementOfSeq
  <1>5. \A rep \in Seq(Report) : \A i \in 1 .. Len(rep) : rep[i] \in Report
    BY <1>4
  <1>6. \A req \in Seq(DotQuery) : \A i \in 1 .. Len(req) : req[i] \in DotQuery
    BY <1>4
  <1> QED BY <1>2, <1>3, <1>5, <1>6

LEMMA Asked ==
    ASSUME NEW rep \in Seq(Report), NEW job \in SUBSET DotQuery, NEW req \in Seq(DotQuery),
           NEW last \in Nat, NEW q \in DotQuery, q.serial = last + 1, InOrder(rep, job, req, last)
    PROVE  /\ InOrder(rep, job, Append(req, q), last + 1)
           /\ \A n \in 1 .. last : Holds(rep, job, Append(req, q), n) => Holds(rep, job, req, n)
  <1>1. /\ Len(Append(req, q)) = Len(req) + 1 /\ Len(req) \in Nat
        /\ \A i \in 1 .. Len(req) : Append(req, q)[i] = req[i]
        /\ Append(req, q)[Len(req) + 1] = q
    OBVIOUS
  <1>2. /\ \A i \in 1 .. Len(rep) : rep[i].query.serial \in Nat
        /\ \A i \in 1 .. Len(req) : req[i].serial \in Nat
        /\ \A j \in job : j.serial \in Nat
    BY SerialsAreNumbers
  <1> DEFINE more == Append(req, q)
  <1> HIDE DEF more
  <1>3. /\ Len(more) = Len(req) + 1 /\ more[Len(req) + 1] = q
        /\ \A i \in 1 .. Len(req) : more[i] = req[i]
    BY <1>1 DEF more
  <1>o. InOrder(rep, job, req, last)
    OBVIOUS
  <1>6. \A i \in 1 .. Len(more) : \/ i \in 1 .. Len(req) /\ more[i] = req[i]
                                  \/ i = Len(req) + 1 /\ more[i] = q
    BY <1>1, <1>3, OneMore
  <1>4. InOrder(rep, job, more, last + 1)
    <2>1. ASSUME NEW i \in 1 .. Len(more), NEW j \in 1 .. Len(more), i < j
          PROVE  more[i].serial < more[j].serial
      <3>1. i \in 1 .. Len(req) /\ more[i] = req[i]
        BY <1>1, <1>3, <2>1
      <3>2. CASE j \in 1 .. Len(req) /\ more[j] = req[j]
        BY <1>o, <2>1, <3>1, <3>2 DEF InOrder
      <3>3. CASE more[j] = q
        BY <1>o, <1>2, <3>1, <3>3 DEF InOrder
      <3> QED BY <1>6, <3>2, <3>3
    <2>2. ASSUME NEW j \in 1 .. Len(more)
          PROVE  /\ \A i \in 1 .. Len(rep) : rep[i].query.serial < more[j].serial
                 /\ \A h \in job : h.serial < more[j].serial
      <3>1. CASE j \in 1 .. Len(req) /\ more[j] = req[j]
        BY <1>o, <3>1 DEF InOrder
      <3>2. CASE more[j] = q
        BY <1>o, <1>2, <3>2 DEF InOrder
      <3> QED BY <1>6, <3>1, <3>2
    <2>3. /\ \A i \in 1 .. Len(rep) : rep[i].query.serial <= last + 1
          /\ \A h \in job : h.serial <= last + 1
          /\ \A i \in 1 .. Len(more) : more[i].serial <= last + 1
      BY <1>o, <1>2, <1>6 DEF InOrder
    <2> QED BY <1>o, <2>1, <2>2, <2>3 DEF InOrder
  <1>5. ASSUME NEW n \in 1 .. last, Holds(rep, job, more, n) PROVE Holds(rep, job, req, n)
    <2>1. ASSUME NEW i \in 1 .. Len(more), more[i].serial = n PROVE Holds(rep, job, req, n)
      <3>1. i \in 1 .. Len(req) /\ more[i] = req[i]
        BY <1>6, <2>1
      <3> QED BY <2>1, <3>1 DEF Holds
    <2> QED BY <1>5, <2>1 DEF Holds
  <1> QED BY <1>4, <1>5 DEF more

LEMMA Received ==
    ASSUME NEW rep \in Seq(Report), NEW job \in SUBSET DotQuery, NEW req \in Seq(DotQuery),
           NEW last \in Nat, req # <<>>, InOrder(rep, job, req, last)
    PROVE  /\ InOrder(rep, {Head(req)}, Tail(req), last)
           /\ \A n : Holds(rep, {Head(req)}, Tail(req), n) => Holds(rep, job, req, n)
  <1>1. /\ Len(req) \in Nat /\ Len(req) >= 1 /\ Head(req) = req[1]
        /\ Len(Tail(req)) = Len(req) - 1
        /\ \A i \in 1 .. Len(req) - 1 : Tail(req)[i] = req[i + 1]
    OBVIOUS
  <1> DEFINE rest == Tail(req)
  <1> HIDE DEF rest
  <1>2. Len(rest) = Len(req) - 1 /\ \A i \in 1 .. Len(req) - 1 : rest[i] = req[i + 1]
    BY <1>1 DEF rest
  <1>3. InOrder(rep, {req[1]}, rest, last)
    BY <1>1, <1>2 DEF InOrder
  <1>4. ASSUME NEW n, Holds(rep, {req[1]}, rest, n) PROVE Holds(rep, job, req, n)
    <2>1. ASSUME NEW i \in 1 .. Len(rest), rest[i].serial = n PROVE Holds(rep, job, req, n)
      <3>1. i + 1 \in 1 .. Len(req) /\ req[i + 1].serial = n
        BY <1>1, <1>2, <2>1
      <3> QED BY <3>1 DEF Holds
    <2>2. ASSUME req[1].serial = n PROVE Holds(rep, job, req, n)
      <3>1. 1 \in 1 .. Len(req)
        BY <1>1
      <3> QED BY <2>2, <3>1 DEF Holds
    <2> QED BY <1>4, <2>1, <2>2 DEF Holds
  <1> QED BY <1>1, <1>3, <1>4 DEF rest

LEMMA Reported ==
    ASSUME NEW rep \in Seq(Report), NEW job \in SUBSET DotQuery, NEW req \in Seq(DotQuery),
           NEW last \in Nat, NEW q \in job, NEW failed \in BOOLEAN, InOrder(rep, job, req, last)
    PROVE  LET more == Append(rep, [query |-> q, failed |-> failed])
           IN  /\ InOrder(more, {}, req, last)
               /\ \A n : Holds(more, {}, req, n) => Holds(rep, job, req, n)
  <1> DEFINE r == [query |-> q, failed |-> failed]
             more == Append(rep, r)
  <1>1. r \in Report /\ r.query = q
    BY DEF Report
  <1> HIDE DEF r
  <1>2. /\ Len(more) = Len(rep) + 1 /\ Len(rep) \in Nat /\ more[Len(rep) + 1] = r
        /\ \A i \in 1 .. Len(rep) : more[i] = rep[i]
    BY <1>1
  <1> HIDE DEF more
  <1>o. InOrder(rep, job, req, last)
    OBVIOUS
  <1>5. \A i \in 1 .. Len(more) : \/ i \in 1 .. Len(rep) /\ more[i] = rep[i]
                                  \/ i = Len(rep) + 1 /\ more[i].query = q
    BY <1>1, <1>2, OneMore
  <1>3. InOrder(more, {}, req, last)
    <2>1. ASSUME NEW i \in 1 .. Len(more), NEW j \in 1 .. Len(more), i < j
          PROVE  more[i].query.serial < more[j].query.serial
      <3>1. i \in 1 .. Len(rep) /\ more[i] = rep[i]
        BY <1>2, <2>1
      <3>2. CASE j \in 1 .. Len(rep) /\ more[j] = rep[j]
        BY <1>o, <2>1, <3>1, <3>2 DEF InOrder
      <3>3. CASE more[j].query = q
        BY <1>o, <3>1, <3>3 DEF InOrder
      <3> QED BY <1>5, <3>2, <3>3
    <2>2. /\ \A i \in 1 .. Len(more), j \in 1 .. Len(req) : more[i].query.serial < req[j].serial
          /\ \A i \in 1 .. Len(more) : more[i].query.serial <= last
      BY <1>o, <1>5 DEF InOrder
    <2> QED BY <1>o, <2>1, <2>2 DEF InOrder
  <1>4. ASSUME NEW n, Holds(more, {}, req, n) PROVE Holds(rep, job, req, n)
    BY <1>4, <1>5 DEF Holds
  <1> QED BY <1>3, <1>4 DEF more, r

LEMMA Dropped ==
    ASSUME NEW rep, NEW job, NEW req, NEW last, InOrder(rep, job, req, last)
    PROVE  /\ InOrder(rep, {}, req, last)
           /\ \A n : Holds(rep, {}, req, n) => Holds(rep, job, req, n)
  BY DEF InOrder, Holds

LEMMA Drained ==
    ASSUME NEW rep \in Seq(Report), NEW job \in SUBSET DotQuery, NEW req \in Seq(DotQuery),
           NEW last \in Nat, rep # <<>>, InOrder(rep, job, req, last)
    PROVE  /\ InOrder(Tail(rep), job, req, last)
           /\ \A n : Holds(Tail(rep), job, req, n) => Holds(rep, job, req, n)
           /\ ~Holds(Tail(rep), job, req, Head(rep).query.serial)
  <1>1. /\ Len(rep) \in Nat /\ Len(rep) >= 1 /\ Head(rep) = rep[1]
        /\ Len(Tail(rep)) = Len(rep) - 1
        /\ \A i \in 1 .. Len(rep) - 1 : Tail(rep)[i] = rep[i + 1]
    OBVIOUS
  <1>2. /\ \A i \in 1 .. Len(rep) : rep[i].query.serial \in Nat
        /\ \A i \in 1 .. Len(req) : req[i].serial \in Nat
        /\ \A j \in job : j.serial \in Nat
    BY SerialsAreNumbers
  <1> DEFINE rest == Tail(rep)
  <1> HIDE DEF rest
  <1>3. Len(rest) = Len(rep) - 1 /\ \A i \in 1 .. Len(rep) - 1 : rest[i] = rep[i + 1]
    BY <1>1 DEF rest
  <1>4. InOrder(rest, job, req, last)
    BY <1>1, <1>3 DEF InOrder
  <1>5. \A n : Holds(rest, job, req, n) => Holds(rep, job, req, n)
    BY <1>1, <1>3 DEF Holds
  <1>o. InOrder(rep, job, req, last)
    OBVIOUS
  <1>7. \A i \in 1 .. Len(rest) : rep[1].query.serial < rest[i].query.serial
    BY <1>o, <1>1, <1>3 DEF InOrder
  <1>6. ~Holds(rest, job, req, rep[1].query.serial)
    <2>1. /\ \A j \in job : rep[1].query.serial < j.serial
          /\ \A j \in 1 .. Len(req) : rep[1].query.serial < req[j].serial
      BY <1>o, <1>1 DEF InOrder
    <2>2. rep[1].query.serial \in Nat /\ \A i \in 1 .. Len(rest) : rest[i].query.serial \in Nat
      BY <1>1, <1>2, <1>3
    <2> QED BY <1>2, <1>7, <2>1, <2>2 DEF Holds
  <1> QED BY <1>1, <1>4, <1>5, <1>6 DEF rest

LEMMA Waits ==
    ASSUME NEW rep \in Seq(Report), NEW job \in SUBSET DotQuery, NEW req \in Seq(DotQuery),
           NEW last \in Nat, InOrder(rep, job, req, last)
    PROVE  InOrder(rep, job, req, last + 1) /\ ~Holds(rep, job, req, last + 1)
  <1>1. /\ \A i \in 1 .. Len(rep) : rep[i].query.serial \in Nat /\ rep[i].query.serial <= last
        /\ \A i \in 1 .. Len(req) : req[i].serial \in Nat /\ req[i].serial <= last
        /\ \A j \in job : j.serial \in Nat /\ j.serial <= last
    BY SerialsAreNumbers DEF InOrder
  <1>2. /\ \A i \in 1 .. Len(rep) : rep[i].query.serial <= last + 1 /\ rep[i].query.serial # last + 1
        /\ \A i \in 1 .. Len(req) : req[i].serial <= last + 1 /\ req[i].serial # last + 1
        /\ \A j \in job : j.serial <= last + 1 /\ j.serial # last + 1
    BY <1>1
  <1>3. InOrder(rep, job, req, last)
    OBVIOUS
  <1> QED BY <1>2, <1>3 DEF InOrder, Holds

USE DotAssumption, FwdAssumption

-----------------------------------------------------------------------------
(***************************************************************************)
(* The worker and dot_set.                                                 *)
(***************************************************************************)
\* The session in use, or the one being opened, is not to the server configured.
Stale == \/ dotConn # "none" /\ dotConn # dotCfg
         \/ dotPc = "open" /\ dotOpening # dotCfg

\* What the worker's loop and dot_set keep between them.  The last two say why
\* the old server is used once only: a session that is not to the server
\* configured has its end asked for, or about to be, by the time dot_set returns;
\* and after an exchange on one the worker is on its way to the top of its loop,
\* where it looks.
DotInv ==
    /\ dotPc \in {"try", "open", "reply", "failed"} => dotJob # {}
    /\ dotPc \in {"try", "open"} => dotTry <= 1
    /\ dotPc \in {"clear", "open"} => dotConn = "none"
    /\ dotPc # "open" => dotOpening = "none"
    /\ dotSetting # "idle" => dotOutdated = 0
    /\ Stale => dotReconnect \/ dotSetting = "changed"
    /\ dotOutdated # 0 => dotOutdated = 1 /\ (Stale => dotPc \in {"reply", "top"})

\* It holds at boot, and every step of the worker and of dot_set keeps it.
LEMMA DotInitially == DotInit => DotTypeOK /\ DotInv
  <1> SUFFICES ASSUME DotInit PROVE DotTypeOK /\ DotInv
    OBVIOUS
  <1>1. dotReqQ \in Seq(DotQuery) /\ dotRepQ \in Seq([query : DotQuery, failed : BOOLEAN])
    BY DEF DotInit
  <1>2. Len(dotReqQ) <= ReqDepth /\ Len(dotRepQ) <= RepDepth
    BY DEF DotInit
  <1>3. /\ {dotEnabled, dotUp, dotReconnect} \subseteq BOOLEAN
        /\ dotCfg \in Server /\ dotConn = "none" /\ dotOpening = "none" /\ dotSetting = "idle"
        /\ dotPc = "top" /\ dotTry = 0 /\ dotJob = {} /\ dotSets = 0 /\ dotOutdated = 0
    BY DEF DotInit
  <1>5. DotTypeOK
    BY <1>1, <1>2, <1>3 DEF DotTypeOK
  <1>4. DotInv
    BY DEF DotInit, DotInv, Stale
  <1> QED BY <1>4, <1>5

LEMMA SetBeginKeeps ==
    ASSUME DotTypeOK, DotInv, NEW en \in BOOLEAN, NEW srv \in Server, DotSetBegin(en, srv)
    PROVE  DotTypeOK' /\ DotInv'
  <1>1. DotTypeOK'
    BY DEF DotTypeOK, DotSetBegin, workerVars
  <1>2. DotInv'
    BY DEF DotTypeOK, DotInv, Stale, DotSetBegin, workerVars
  <1> QED BY <1>1, <1>2

LEMMA SetEndKeeps ==
    ASSUME DotTypeOK, DotInv, NEW started \in BOOLEAN, DotSetEnd(started)
    PROVE  DotTypeOK' /\ DotInv'
  <1>1. DotTypeOK'
    BY DEF DotTypeOK, DotSetEnd, workerVars
  <1>2. DotInv'
    BY DEF DotTypeOK, DotInv, Stale, DotSetEnd, workerVars
  <1> QED BY <1>1, <1>2

LEMMA TopKeeps == ASSUME DotTypeOK, DotInv, DotTop PROVE DotTypeOK' /\ DotInv'
  <1>1. DotTypeOK'
    BY DEF DotTypeOK, DotTop, setVars
  <1>2. DotInv'
    BY DEF DotTypeOK, DotInv, Stale, DotTop, setVars
  <1> QED BY <1>1, <1>2

LEMMA ClearKeeps == ASSUME DotTypeOK, DotInv, DotClear PROVE DotTypeOK' /\ DotInv'
  <1>1. DotTypeOK'
    BY DEF DotTypeOK, DotClear, setVars
  <1>2. DotInv'
    BY DEF DotTypeOK, DotInv, Stale, DotClear, setVars
  <1> QED BY <1>1, <1>2

LEMMA ReceiveKeeps == ASSUME DotTypeOK, DotInv, DotReceive PROVE DotTypeOK' /\ DotInv'
  <1>1. dotReqQ \in Seq(DotQuery) /\ Len(dotReqQ) <= ReqDepth
    BY DEF DotTypeOK
  <1>2. dotReqQ # <<>> => /\ Head(dotReqQ) \in DotQuery
                          /\ Tail(dotReqQ) \in Seq(DotQuery) /\ Len(Tail(dotReqQ)) <= ReqDepth
    BY <1>1
  <1>3. dotReqQ' \in Seq(DotQuery) /\ Len(dotReqQ') <= ReqDepth /\ dotJob' \subseteq DotQuery
    BY <1>1, <1>2 DEF DotReceive, DotTypeOK
  <1>4. DotTypeOK'
    BY <1>3 DEF DotTypeOK, DotReceive, setVars
  <1>5. DotInv'
    <2>1. \/ dotPc' = "top"
          \/ dotPc' = "try" /\ dotJob' # {} /\ dotTry' = 0
      BY DEF DotReceive
    <2>2. /\ dotPc = "wait" /\ dotPc' # "open"
          /\ UNCHANGED <<dotCfg, dotConn, dotOpening, dotReconnect, dotSetting, dotOutdated>>
      BY <2>1 DEF DotReceive, setVars
    <2> QED BY <2>1, <2>2 DEF DotTypeOK, DotInv, Stale
  <1> QED BY <1>4, <1>5

LEMMA ConnectKeeps == ASSUME DotTypeOK, DotInv, DotConnect PROVE DotTypeOK' /\ DotInv'
  <1>1. DotTypeOK'
    BY DEF DotTypeOK, DotConnect, setVars
  <1>2. DotInv'
    BY DEF DotTypeOK, DotInv, Stale, DotConnect, setVars
  <1> QED BY <1>1, <1>2

LEMMA ConnectedKeeps == ASSUME DotTypeOK, DotInv, DotConnected PROVE DotTypeOK' /\ DotInv'
  <1>1. DotTypeOK'
    BY DEF DotTypeOK, DotInv, DotConnected, NextAttempt, setVars
  <1>2. DotInv'
    BY DEF DotTypeOK, DotInv, Stale, DotConnected, NextAttempt, setVars
  <1> QED BY <1>1, <1>2

LEMMA ExchangeKeeps == ASSUME DotTypeOK, DotInv, DotExchange PROVE DotTypeOK' /\ DotInv'
  <1>1. DotTypeOK'
    BY DEF DotTypeOK, DotInv, DotExchange, NextAttempt, setVars
  <1>2. DotInv'
    BY DEF DotTypeOK, DotInv, Stale, DotExchange, NextAttempt, setVars
  <1> QED BY <1>1, <1>2

LEMMA SendKeeps == ASSUME DotTypeOK, DotInv, DotSend PROVE DotTypeOK' /\ DotInv'
  <1>1. (CHOOSE j \in dotJob : TRUE) \in DotQuery
    BY DEF DotTypeOK, DotInv, DotSend
  <1>2. dotRepQ' \in Seq([query : DotQuery, failed : BOOLEAN]) /\ Len(dotRepQ') <= RepDepth
    <2> DEFINE r == [query |-> CHOOSE j \in dotJob : TRUE, failed |-> dotPc = "failed"]
    <2>1. r \in [query : DotQuery, failed : BOOLEAN]
      <3>1. (dotPc = "failed") \in BOOLEAN
        OBVIOUS
      <3> QED BY <1>1, <3>1
    <2>2. dotRepQ' = IF Len(dotRepQ) < RepDepth THEN Append(dotRepQ, r) ELSE dotRepQ
      BY DEF DotSend
    <2> DEFINE R == [query : DotQuery, failed : BOOLEAN]
    <2>3. dotRepQ \in Seq(R) /\ Len(dotRepQ) <= RepDepth
      BY DEF DotTypeOK
    <2>4. r \in R
      BY <2>1
    <2> HIDE DEF r, R
    <2>5. dotRepQ' \in Seq(R) /\ Len(dotRepQ') <= RepDepth
      BY <2>2, <2>3, <2>4
    <2> QED BY <2>5 DEF R
  <1>3. DotTypeOK'
    BY <1>2 DEF DotTypeOK, DotSend, setVars
  <1>4. DotInv'
    BY DEF DotTypeOK, DotInv, Stale, DotSend, setVars
  <1> QED BY <1>3, <1>4

\* So does the whole of DotNext.
LEMMA DotKeeps == ASSUME DotTypeOK, DotInv, DotNext PROVE DotTypeOK' /\ DotInv'
  BY SetBeginKeeps, SetEndKeeps, TopKeeps, ClearKeeps, ReceiveKeeps, ConnectKeeps,
     ConnectedKeeps, ExchangeKeeps, SendKeeps DEF DotNext

\* What dns_task does to the queues disturbs none of it.
LEMMA EnqueueKeeps ==
    ASSUME DotTypeOK, DotInv, NEW q \in DotQuery, DotAccepts, DotEnqueue(q)
    PROVE  DotTypeOK' /\ DotInv'
  <1>1. DotTypeOK'
    BY DEF DotTypeOK, DotAccepts, DotEnqueue, setVars, workerVars
  <1>2. DotInv'
    BY DEF DotTypeOK, DotInv, Stale, DotEnqueue, setVars, workerVars
  <1> QED BY <1>1, <1>2

LEMMA DrainKeeps == ASSUME DotTypeOK, DotInv, DotDrain PROVE DotTypeOK' /\ DotInv'
  <1>1. DotTypeOK'
    BY DEF DotTypeOK, DotDrain, setVars, workerVars
  <1>2. DotInv'
    BY DEF DotTypeOK, DotInv, Stale, DotDrain, setVars, workerVars
  <1> QED BY <1>1, <1>2

LEMMA DotRests == ASSUME DotTypeOK, DotInv, UNCHANGED dotVars PROVE DotTypeOK' /\ DotInv'
  BY DEF DotTypeOK, DotInv, Stale, dotVars

-----------------------------------------------------------------------------
(***************************************************************************)
(* A flight, and the connection some of its waiters came by.               *)
(***************************************************************************)
\* The bytes stashed for an armed flight are its own, and it went out in the clear,
\* DoT or not; what it has retransmitted is one such copy.
HedgeSound(f, bytes) ==
    /\ f.hedged \/ f.hedges = <<>>
    /\ Len(f.hedges) <= 1
    /\ f.armed => bytes = f.serial /\ f.clear /\ (f.dot => f.local)
    /\ \A i \in DOMAIN f.hedges : /\ f.hedges[i].serial = f.serial
                                  /\ f.clear
                                  /\ f.dot => f.local

\* A waiter that came over TCP carries a generation the connection has left
\* behind, or it is the connection now held.
AskersKnown(f, c) ==
    \A i \in DOMAIN f.waiters :
        f.waiters[i].tcp => \/ f.waiters[i].gen < c.gen
                            \/ /\ f.waiters[i].gen = c.gen /\ f.waiters[i].conn = c.id
                               /\ c.id # 0

\* What dot_set did since a flight was launched with DoT on, and how many changes that
\* took: to be in a sweep DoT was off at its gate, to be copied with DoT on it came back.
LaunchKnown(f, due) ==
    /\ f.sets <= dotSets
    /\ f.dot => /\ dotUp
                /\ f.sets < dotSets \/ DotOn
                /\ due => f.sets < dotSets
                /\ due /\ DotOn => f.sets + 2 <= dotSets
                /\ \A i \in DOMAIN f.hedges : f.hedges[i].on => f.hedges[i].changes >= 2

\* A slot in the sweep stays as the gate saw it: dns_task does nothing else meanwhile.
SweepInv ==
    /\ \A s \in sweep : up[s].in_use /\ up[s].armed /\ ~up[s].hedged
    /\ \A s \in Flight : up[s].in_use => LaunchKnown(up[s], s \in sweep)

\* The invariant of both halves.
FwdInv == /\ DotInv
          /\ \A s \in Flight : up[s].in_use => /\ HedgeSound(up[s], stash[s])
                                               /\ AskersKnown(up[s], conn)
          /\ AnswerReachesItsAsker

\* The records the actions build have their types.
LEMMA EmptyTyped == EmptyFlight \in UpSlot
  <1>1. <<>> \in Seq(Requester) /\ <<>> \in Seq(Retransmit)
    OBVIOUS
  <1> QED BY <1>1 DEF EmptyFlight, UpSlot

LEMMA ClosedTyped ==
    ASSUME FwdTypeOK, TcpClose
    PROVE  conn' \in TcpConn /\ conn'.gen = conn.gen + 1 /\ conn'.id = 0
  BY DEF FwdTypeOK, TcpClose, TcpConn, NoConn

\* A waiter stays known when the connection closes, for the generation grows;
\* and when one is accepted, for there was none.
LEMMA AskersOutliveTheConnection ==
    ASSUME NEW f \in UpSlot, NEW c \in TcpConn, NEW d \in TcpConn, AskersKnown(f, c),
           c.gen < d.gen \/ (c.gen = d.gen /\ c.id \in {0, d.id})
    PROVE  AskersKnown(f, d)
  <1> SUFFICES ASSUME NEW i \in DOMAIN f.waiters, f.waiters[i].tcp
               PROVE  \/ f.waiters[i].gen < d.gen
                      \/ f.waiters[i].gen = d.gen /\ f.waiters[i].conn = d.id /\ d.id # 0
    BY DEF AskersKnown
  <1>1. f.waiters \in Seq(Requester)
    BY DEF UpSlot
  <1>4. f.waiters[i] \in Requester
    BY <1>1
  <1>5. f.waiters[i].gen \in Nat
    BY <1>4 DEF Requester
  <1>2. \/ f.waiters[i].gen < c.gen
        \/ f.waiters[i].gen = c.gen /\ f.waiters[i].conn = c.id /\ c.id # 0
    BY DEF AskersKnown
  <1>3. c.gen \in Nat /\ d.gen \in Nat
    BY DEF TcpConn
  <1> QED BY <1>2, <1>3, <1>5

\* How an action may touch the connection and what was told: the generation
\* grows, or the connection is the same, or there was none.
ConnMoves ==
    /\ conn' \in TcpConn /\ conns' \in 0 .. MaxConn /\ conn'.id <= conns'
    /\ conn.gen < conn'.gen \/ (conn.gen = conn'.gen /\ conn.id \in {0, conn'.id})
    /\ told' \subseteq (0 .. MaxConn) \X (0 .. MaxConn) /\ \A d \in told' : d[1] = d[2]

\* A step that leaves the table alone, and moves the connection lawfully.
LEMMA ConnStep ==
    ASSUME FwdTypeOK, FwdInv, UNCHANGED <<up, stash, sweep, serials, dotVars>>, ConnMoves
    PROVE  FwdTypeOK' /\ FwdInv'
  <1>1. DotTypeOK' /\ DotInv'
    BY DotRests DEF FwdTypeOK, FwdInv
  <1>2. FwdTypeOK'
    BY <1>1 DEF FwdTypeOK, ConnMoves
  <1>3. ASSUME NEW s \in Flight, up'[s].in_use
        PROVE  HedgeSound(up'[s], stash'[s]) /\ AskersKnown(up'[s], conn')
    <2>1. up[s] \in UpSlot /\ conn \in TcpConn
      BY DEF FwdTypeOK
    <2>2. HedgeSound(up[s], stash[s]) /\ AskersKnown(up[s], conn)
      BY <1>3 DEF FwdInv
    <2> QED BY <2>1, <2>2, AskersOutliveTheConnection DEF ConnMoves
  <1> QED BY <1>1, <1>2, <1>3 DEF FwdInv, AnswerReachesItsAsker, ConnMoves

\* Leaving the connection alone is lawful.
LEMMA ConnRests == ASSUME FwdTypeOK, FwdInv, UNCHANGED <<conn, conns, told>> PROVE ConnMoves
  <1>1. conn.id \in Nat /\ conn.gen \in Nat
    BY DEF FwdTypeOK, TcpConn
  <1> QED BY <1>1 DEF FwdTypeOK, FwdInv, ConnMoves, AnswerReachesItsAsker

\* Accepting, reading, closing, and answering at once.
LEMMA ConnKeeps ==
    ASSUME FwdTypeOK, FwdInv,
           TcpAccept \/ TcpReceive \/ TcpHangUp \/ TcpLate \/ TcpReap \/ TcpAnswer
    PROVE  FwdTypeOK' /\ FwdInv'
  <1>0. /\ conn \in TcpConn /\ conns \in 0 .. MaxConn /\ conn.id <= conns
        /\ told \subseteq (0 .. MaxConn) \X (0 .. MaxConn) /\ \A d \in told : d[1] = d[2]
    BY DEF FwdTypeOK, FwdInv, AnswerReachesItsAsker
  <1>6. conn.id \in 0 .. MaxConn /\ conn.gen \in Nat /\ conn.have \in 0 .. MsgLen
    BY <1>0 DEF TcpConn
  <1>1. CASE TcpAccept
    <2>1. conns + 1 \in 0 .. MaxConn
      BY <1>0, <1>1 DEF TcpAccept
    <2>2. conn' = [id |-> conns + 1, gen |-> conn.gen, have |-> 0, awaiting |-> FALSE, late |-> FALSE]
      BY <1>1 DEF TcpAccept, NoConn
    <2>3. conn' \in TcpConn /\ conn'.gen = conn.gen /\ conn'.id = conns + 1
      BY <1>6, <2>1, <2>2 DEF TcpConn
    <2> QED BY <1>0, <1>1, <1>6, <2>1, <2>3, ConnStep DEF TcpAccept, ConnMoves
  <1>2. CASE TcpReceive
    <2>1. conn.have + 1 \in 0 .. MsgLen
      BY <1>6, <1>2 DEF TcpReceive
    <2>2. conn' \in TcpConn /\ conn'.gen = conn.gen /\ conn'.id = conn.id
      BY <1>0, <1>2, <2>1 DEF TcpReceive, TcpConn
    <2> QED BY <1>0, <1>2, <2>2, ConnStep DEF TcpReceive, ConnMoves, connQuiet
  <1>3. CASE TcpLate
    <2>2. conn' \in TcpConn /\ conn'.gen = conn.gen /\ conn'.id = conn.id
      BY <1>0, <1>3 DEF TcpLate, TcpConn
    <2> QED BY <1>0, <1>3, <2>2, ConnStep DEF TcpLate, ConnMoves, connQuiet
  <1>4. CASE TcpHangUp \/ TcpReap
    <2>1. TcpClose /\ UNCHANGED connQuiet
      BY <1>4 DEF TcpHangUp, TcpReap
    <2> QED BY <1>0, <1>6, <2>1, ClosedTyped, ConnStep DEF connQuiet, ConnMoves
  <1>5. CASE TcpAnswer
    <2>1. told' \in {{}, {<<conn.id, conn.id>>}}
      BY <1>5 DEF TcpAnswer
    <2>2. told' \subseteq (0 .. MaxConn) \X (0 .. MaxConn) /\ \A d \in told' : d[1] = d[2]
      BY <1>6, <2>1
    <2> QED BY <1>0, <1>6, <1>5, <2>2, ClosedTyped, ConnStep DEF TcpAnswer, ConnMoves
  <1> QED BY <1>1, <1>2, <1>3, <1>4, <1>5

-----------------------------------------------------------------------------
(***************************************************************************)
(* The table.                                                              *)
(***************************************************************************)
\* A step that replaces one slot by a sound one keeps the invariant: nothing else
\* in the table depends on that slot.
LEMMA SlotStep ==
    ASSUME FwdTypeOK, FwdInv, NEW s \in Flight, NEW f \in UpSlot,
           Len(f.waiters) <= MaxRiders + 1, up' = [up EXCEPT ![s] = f],
           stash' = stash \/ stash' = [stash EXCEPT ![s] = f.serial],
           serials' \in 0 .. MaxSerial, sweep' \subseteq Flight,
           f.in_use => HedgeSound(f, stash'[s]) /\ AskersKnown(f, conn'),
           ConnMoves, DotTypeOK', DotInv'
    PROVE  FwdTypeOK' /\ FwdInv'
  <1>1. f.serial \in 0 .. MaxSerial
    BY DEF UpSlot
  <1>2. up' \in [Flight -> UpSlot] /\ stash' \in [Flight -> 0 .. MaxSerial]
    BY <1>1 DEF FwdTypeOK
  <1>3. \A t \in Flight : t # s => up'[t] = up[t] /\ stash'[t] = stash[t]
    BY DEF FwdTypeOK
  <1>4. up'[s] = f
    BY DEF FwdTypeOK
  <1>5. FwdTypeOK'
    BY <1>2, <1>3, <1>4 DEF FwdTypeOK, ConnMoves
  <1>6. ASSUME NEW t \in Flight, up'[t].in_use
        PROVE  HedgeSound(up'[t], stash'[t]) /\ AskersKnown(up'[t], conn')
    <2>1. CASE t = s
      BY <1>4, <1>6, <2>1
    <2>2. CASE t # s
      <3>1. up[t] \in UpSlot /\ conn \in TcpConn /\ up[t].in_use
        BY <1>3, <1>6, <2>2 DEF FwdTypeOK
      <3>2. HedgeSound(up[t], stash[t]) /\ AskersKnown(up[t], conn)
        BY <3>1 DEF FwdInv
      <3>3. AskersKnown(up[t], conn')
        BY <3>1, <3>2, AskersOutliveTheConnection DEF ConnMoves
      <3> QED BY <1>3, <2>2, <3>2, <3>3
    <2> QED BY <2>1, <2>2
  <1> QED BY <1>5, <1>6 DEF FwdInv, AnswerReachesItsAsker, ConnMoves

\* The waiter served carries the generation of the connection, so it is the
\* connection; and serving it closes that.
LEMMA DeliverMoves ==
    ASSUME FwdTypeOK, FwdInv, NEW s \in Flight, up[s].in_use, Deliver(s), UNCHANGED conns
    PROVE  ConnMoves
  <1>0. /\ conn \in TcpConn /\ conns \in 0 .. MaxConn /\ conn.id <= conns
        /\ conn.id \in 0 .. MaxConn /\ conn.gen \in Nat
    BY DEF FwdTypeOK, TcpConn
  <1>1. CASE TcpServed(up[s]) = {}
    BY <1>1, ConnRests DEF Deliver
  <1>2. CASE TcpServed(up[s]) # {}
    <2> DEFINE i == CHOOSE i \in TcpServed(up[s]) : \A j \in TcpServed(up[s]) : i <= j
    <2>1. told' \in {{}, {<<conn.id, up[s].waiters[i].conn>>}} /\ TcpClose
      BY <1>2 DEF Deliver
    <2>2. up[s].waiters \in Seq(Requester)
      BY DEF FwdTypeOK, UpSlot
    <2>3. TcpServed(up[s]) \in SUBSET Nat
      BY <2>2 DEF TcpServed
    <2>4. i \in TcpServed(up[s])
      BY <1>2, <2>3, HasLeast
    <2> HIDE DEF i
    <2>5. up[s].waiters[i].conn = conn.id
      <3>1. AskersKnown(up[s], conn)
        BY DEF FwdInv
      <3>2. i \in DOMAIN up[s].waiters /\ up[s].waiters[i].tcp /\ up[s].waiters[i].gen = conn.gen
        BY <2>4 DEF TcpServed
      <3> QED BY <1>0, <3>1, <3>2 DEF AskersKnown
    <2>6. told' \subseteq (0 .. MaxConn) \X (0 .. MaxConn) /\ \A d \in told' : d[1] = d[2]
      BY <1>0, <2>1, <2>5
    <2> QED BY <1>0, <2>1, <2>6, ClosedTyped DEF ConnMoves
  <1> QED BY <1>1, <1>2

\* An emptied slot is well typed, and out of use.
LEMMA GoneTyped ==
    ASSUME FwdTypeOK, NEW s \in Flight
    PROVE  Gone(s) \in UpSlot /\ Len(Gone(s).waiters) <= MaxRiders + 1 /\ ~Gone(s).in_use
  <1>1. up[s].armed \in BOOLEAN
    BY DEF FwdTypeOK, UpSlot
  <1>2. /\ Gone(s) \in UpSlot /\ Gone(s).in_use = EmptyFlight.in_use
        /\ Gone(s).waiters = EmptyFlight.waiters
    BY <1>1, EmptyTyped DEF Gone, UpSlot
  <1> QED BY <1>2 DEF EmptyFlight

\* Delivering keeps the invariant.
LEMMA DeliverKeeps ==
    ASSUME FwdTypeOK, FwdInv, NEW s \in Flight, up[s].in_use, Deliver(s), UNCHANGED fwdRest,
           DotTypeOK', DotInv'
    PROVE  FwdTypeOK' /\ FwdInv'
  <1>1. /\ up' = [up EXCEPT ![s] = Gone(s)] /\ stash' = stash /\ serials' \in 0 .. MaxSerial
        /\ sweep' \subseteq Flight
    BY DEF Deliver, fwdRest, FwdTypeOK
  <1>2. ConnMoves
    BY DeliverMoves DEF fwdRest
  <1> QED BY <1>1, <1>2, GoneTyped, SlotStep

\* What an action on one flight has in common with the others.
LEMMA FlightRests ==
    ASSUME FwdTypeOK, FwdInv, UNCHANGED <<conn, told, stash, serials, conns, dotVars>>
    PROVE  /\ ConnMoves /\ DotTypeOK' /\ DotInv'
           /\ stash' = stash /\ serials' \in 0 .. MaxSerial
  BY ConnRests, DotRests DEF fwdRest, FwdTypeOK, FwdInv

\* Time passing for a flight, and its end.
LEMMA RipenKeeps ==
    ASSUME FwdTypeOK, FwdInv, NEW s \in Flight, Ripen(s)
    PROVE  FwdTypeOK' /\ FwdInv'
  <1> DEFINE age == IF up[s].age = "young" THEN "due" ELSE "old"
             f == [up[s] EXCEPT !.age = age]
  <1>1. up[s] \in UpSlot /\ Len(up[s].waiters) <= MaxRiders + 1 /\ age \in {"due", "old"}
    BY DEF FwdTypeOK
  <1>2. up' = [up EXCEPT ![s] = f]
    BY <1>1 DEF Ripen
  <1>3. HedgeSound(up[s], stash[s]) /\ AskersKnown(up[s], conn)
    BY DEF FwdInv, Ripen
  <1> HIDE DEF age
  <1>4. f \in UpSlot /\ Len(f.waiters) <= MaxRiders + 1
    BY <1>1 DEF UpSlot
  <1>5. HedgeSound(f, stash[s]) /\ AskersKnown(f, conn)
    BY <1>1, <1>3 DEF HedgeSound, AskersKnown, UpSlot
  <1>6. UNCHANGED <<conn, told, stash, serials, conns, dotVars>> /\ sweep' \subseteq Flight
    BY DEF Ripen, fwdRest, FwdTypeOK
  <1> HIDE DEF f
  <1> QED BY <1>2, <1>4, <1>5, <1>6, FlightRests, SlotStep

LEMMA EvictKeeps ==
    ASSUME FwdTypeOK, FwdInv, NEW s \in Flight, FlightEvict(s)
    PROVE  FwdTypeOK' /\ FwdInv'
  <1>1. /\ up' = [up EXCEPT ![s] = Gone(s)] /\ sweep' \subseteq Flight
        /\ UNCHANGED <<conn, told, stash, serials, conns, dotVars>>
    BY DEF FlightEvict, fwdRest, FwdTypeOK
  <1> QED BY <1>1, FlightRests, GoneTyped, SlotStep

\* The sweep: the copy it sends is sound because the flight was armed.
LEMMA HedgeKeeps ==
    ASSUME FwdTypeOK, FwdInv, SweepInv, NEW s \in Flight, Hedge(s)
    PROVE  FwdTypeOK' /\ FwdInv'
  <1> DEFINE r == [serial |-> stash[s], on |-> DotOn, changes |-> dotSets - up[s].sets]
             more == Append(up[s].hedges, r)
             f == [[up[s] EXCEPT !.hedged = TRUE] EXCEPT !.hedges = more]
  <1>2. up[s] \in UpSlot /\ Len(up[s].waiters) <= MaxRiders + 1 /\ stash[s] \in 0 .. MaxSerial
    BY DEF FwdTypeOK
  <1>3. up' = [up EXCEPT ![s] = f]
    BY <1>2 DEF Hedge, UpSlot, FwdTypeOK
  <1>5. up[s].in_use /\ up[s].armed /\ ~up[s].hedged
    BY DEF Hedge, SweepInv
  <1>4. HedgeSound(up[s], stash[s]) /\ AskersKnown(up[s], conn)
    BY <1>5 DEF FwdInv
  <1>6. /\ r \in Retransmit /\ r.serial = up[s].serial
        /\ up[s].clear /\ (up[s].dot => up[s].local)
    <2>1. stash[s] = up[s].serial /\ up[s].clear /\ (up[s].dot => up[s].local)
      BY <1>4, <1>5 DEF HedgeSound
    <2>2. DotOn \in BOOLEAN
      BY DEF DotOn, FwdTypeOK, DotTypeOK
    <2>3. dotSets - up[s].sets \in 0 .. MaxSets
      <3>1. up[s].sets <= dotSets
        BY <1>5 DEF SweepInv, LaunchKnown
      <3>2. up[s].sets \in 0 .. MaxSets /\ dotSets \in 0 .. MaxSets
        BY <1>2 DEF UpSlot, FwdTypeOK, DotTypeOK
      <3> QED BY <3>1, <3>2
    <2> QED BY <1>2, <2>1, <2>2, <2>3 DEF Retransmit
  <1>7. up[s].hedges = <<>>
    BY <1>4, <1>5 DEF HedgeSound
  <1> HIDE DEF r
  <1>8. more \in Seq(Retransmit) /\ Len(more) <= 1 /\ DOMAIN more = {1} /\ more[1] = r
    BY <1>6, <1>7
  <1> HIDE DEF more
  <1>9. f \in UpSlot /\ Len(f.waiters) <= MaxRiders + 1
    BY <1>2, <1>8 DEF UpSlot
  <1>10. HedgeSound(f, stash[s]) /\ AskersKnown(f, conn)
    <2>1. /\ f.hedged /\ f.hedges = more /\ f.serial = up[s].serial /\ f.armed = up[s].armed
          /\ f.dot = up[s].dot /\ f.local = up[s].local /\ f.waiters = up[s].waiters
          /\ f.clear = up[s].clear
      BY <1>2 DEF UpSlot
    <2> HIDE DEF f
    <2>2. \A i \in DOMAIN f.hedges : f.hedges[i] = r
      BY <1>8, <2>1
    <2>3. f.armed => stash[s] = f.serial /\ f.clear /\ (f.dot => f.local)
      BY <1>4, <2>1 DEF HedgeSound
    <2>4. HedgeSound(f, stash[s])
      <3>1. r.serial = f.serial /\ f.clear /\ (f.dot => f.local)
        BY <1>6, <2>1
      <3>2. Len(f.hedges) <= 1
        BY <1>8, <2>1, Zenon
      <3> QED BY <2>1, <2>2, <2>3, <3>1, <3>2 DEF HedgeSound
    <2>5. AskersKnown(f, conn)
      BY <1>4, <2>1 DEF AskersKnown
    <2> QED BY <2>4, <2>5
  <1>11. UNCHANGED <<conn, told, stash, serials, conns, dotVars>> /\ sweep' \subseteq Flight
    BY DEF Hedge, FwdTypeOK
  <1> HIDE DEF f
  <1> QED BY <1>3, <1>9, <1>10, <1>11, FlightRests, SlotStep

\* The gate touches nothing but the sweep.
LEMMA GateKeeps == ASSUME FwdTypeOK, FwdInv, HedgeGate PROVE FwdTypeOK' /\ FwdInv'
  <1>1. UNCHANGED <<up, conn, told, stash, serials, conns, dotVars>> /\ sweep' \subseteq Flight
    BY DEF HedgeGate, Due
  <1>2. DotTypeOK' /\ DotInv'
    BY <1>1, DotRests DEF FwdTypeOK, FwdInv
  <1> QED BY <1>1, <1>2 DEF FwdTypeOK, FwdInv, AnswerReachesItsAsker

\* A reply by UDP, and whatever the worker hands back.
LEMMA ReplyKeeps ==
    ASSUME FwdTypeOK, FwdInv, NEW s \in Flight, ReplyByUdp(s)
    PROVE  FwdTypeOK' /\ FwdInv'
  <1>1. up[s].in_use /\ Deliver(s) /\ UNCHANGED <<fwdRest, dotVars>>
    BY DEF ReplyByUdp
  <1>2. DotTypeOK' /\ DotInv'
    BY <1>1, DotRests DEF FwdTypeOK, FwdInv
  <1> QED BY <1>1, <1>2, DeliverKeeps

LEMMA DrainDotKeeps ==
    ASSUME FwdTypeOK, FwdInv, DrainDot
    PROVE  FwdTypeOK' /\ FwdInv'
  <1> DEFINE r == Head(dotRepQ)
             hit == {s \in Aloft : up[s].txid = r.query.txid}
             answered == {s \in hit : up[s].serial = r.query.serial}
  <1>1. DotTypeOK' /\ DotInv' /\ UNCHANGED fwdRest
    BY DrainKeeps DEF DrainDot, FwdTypeOK, FwdInv
  <1>2. hit \subseteq Flight /\ \A s \in hit : up[s].in_use
    BY DEF Aloft
  <1>3. \/ UNCHANGED <<up, conn, told>>
        \/ \E s \in hit : /\ up' = [up EXCEPT ![s].clear = @ \/ s \in answered]
                          /\ UNCHANGED <<conn, told>>
        \/ \E s \in hit : Deliver(s)
    BY DEF DrainDot
  <1> HIDE DEF hit
  <1>4. CASE UNCHANGED <<up, conn, told>>
    <2>1. ConnMoves
      BY <1>1, <1>4, ConnRests DEF fwdRest
    <2>2. FwdTypeOK'
      BY <1>1, <1>4, <2>1 DEF FwdTypeOK, fwdRest
    <2> QED BY <1>1, <1>4, <2>2 DEF FwdInv, AnswerReachesItsAsker, fwdRest
  <1>5. ASSUME NEW s \in hit, UNCHANGED <<conn, told>>,
               up' = [up EXCEPT ![s].clear = @ \/ s \in answered]
        PROVE  FwdTypeOK' /\ FwdInv'
    <2> DEFINE clear == up[s].clear \/ s \in answered
               f == [up[s] EXCEPT !.clear = clear]
    <2>1. s \in Flight /\ up[s] \in UpSlot /\ Len(up[s].waiters) <= MaxRiders + 1
      BY <1>2 DEF FwdTypeOK
    <2>2. up' = [up EXCEPT ![s] = f]
      BY <1>5, <2>1 DEF FwdTypeOK
    <2>0. clear \in BOOLEAN /\ (up[s].clear => clear)
      BY <2>1 DEF UpSlot
    <2> HIDE DEF clear
    <2>3. HedgeSound(up[s], stash[s]) /\ AskersKnown(up[s], conn)
      BY <1>2 DEF FwdInv
    <2>4. f \in UpSlot /\ Len(f.waiters) <= MaxRiders + 1
      BY <2>0, <2>1 DEF UpSlot
    <2>5. HedgeSound(f, stash[s]) /\ AskersKnown(f, conn)
      BY <2>0, <2>1, <2>3 DEF HedgeSound, AskersKnown, UpSlot
    <2>6. /\ ConnMoves /\ stash' = stash /\ conn' = conn /\ serials' \in 0 .. MaxSerial
          /\ sweep' \subseteq Flight
      BY <1>1, <1>5, ConnRests DEF fwdRest, FwdTypeOK
    <2> HIDE DEF f
    <2> QED BY <1>1, <2>1, <2>2, <2>4, <2>5, <2>6, SlotStep
  <1>6. ASSUME NEW s \in hit, Deliver(s) PROVE FwdTypeOK' /\ FwdInv'
    BY <1>1, <1>2, <1>6, DeliverKeeps
  <1> QED BY <1>3, <1>4, <1>5, <1>6

\* A requester of this moment: a UDP client, or the connection now held.
AsksNow(w) == \/ w = UdpClient
              \/ w = TcpClient /\ conn.id # 0

\* Such a requester is known to the connection.
LEMMA AskerTyped ==
    ASSUME FwdTypeOK, NEW w, AsksNow(w)
    PROVE  /\ w \in Requester
           /\ w.tcp => w.gen = conn.gen /\ w.conn = conn.id /\ conn.id # 0
  <1>1. conn.gen \in Nat /\ conn.id \in 0 .. MaxConn /\ 0 \in 0 .. MaxConn
    BY DEF FwdTypeOK, TcpConn
  <1>2. UdpClient \in Requester /\ ~UdpClient.tcp
    BY <1>1 DEF UdpClient, Requester
  <1>3. TcpClient \in Requester /\ TcpClient.gen = conn.gen /\ TcpClient.conn = conn.id
    BY <1>1 DEF TcpClient, Requester
  <1> QED BY <1>2, <1>3 DEF AsksNow

\* A new flight: to the worker, or in plain UDP and perhaps armed.
LEMMA SendUpKeeps ==
    ASSUME FwdTypeOK, FwdInv, NEW s \in Flight, NEW t \in FwdId, NEW w, AsksNow(w),
           NEW local \in BOOLEAN, SendUp(s, t, w, local), ConnMoves, sweep' = sweep,
           conn'.gen = conn.gen /\ conn'.id = conn.id
    PROVE  FwdTypeOK' /\ FwdInv'
  <1> DEFINE q == [txid |-> t, serial |-> serials + 1]
             useDot == DotOn /\ ~local
             f == [FreshSlot(s, q, local) EXCEPT !.waiters = <<w>>]
             fields(x) == /\ x.in_use /\ x.serial = serials + 1 /\ x.hedges = <<>>
                          /\ x.waiters = <<w>> /\ (x.armed => x.clear /\ (x.dot => x.local))
  <1>1. /\ serials + 1 \in 1 .. MaxSerial /\ serials' = serials + 1
        /\ IF useDot /\ DotAccepts
              THEN DotEnqueue(q) /\ up' = [up EXCEPT ![s] = f] /\ UNCHANGED stash
              ELSE Arm(s, [f EXCEPT !.clear = TRUE], useDot) /\ UNCHANGED dotVars
    BY DEF SendUp, FwdTypeOK
  <1>2. DotTypeOK' /\ DotInv'
    <2>1. DotTypeOK /\ DotInv /\ q \in DotQuery
      BY <1>1 DEF FwdTypeOK, FwdInv, DotQuery
    <2> QED BY <1>1, <2>1, EnqueueKeeps, DotRests
  <1>3. w \in Requester /\ <<w>> \in Seq(Requester) /\ Len(<<w>>) <= MaxRiders + 1
    BY AskerTyped
  <1>4. /\ <<>> \in Seq(Retransmit) /\ serials + 1 \in 0 .. MaxSerial /\ 0 \in 0 .. MaxSerial
        /\ dotSets \in 0 .. MaxSets
    BY <1>1 DEF FwdTypeOK, DotTypeOK
  <1>5. DotOn \in BOOLEAN
    BY DEF DotOn, FwdTypeOK, DotTypeOK
  <1>6. q.txid = t /\ q.serial = serials + 1
    OBVIOUS
  <1> HIDE DEF q
  <1>7. f \in UpSlot /\ fields(f) /\ ~f.armed /\ f.dot = DotOn /\ f.local = local
    <2> DEFINE e == FreshSlot(s, q, local)
    <2>1. /\ e \in UpSlot
          /\ e.in_use /\ e.serial = q.serial /\ e.local = local /\ e.dot = DotOn
          /\ e.hedges = EmptyFlight.hedges /\ e.armed = EmptyFlight.armed
      BY <1>4, <1>5, <1>6, EmptyTyped DEF FreshSlot, UpSlot
    <2>2. EmptyFlight.hedges = <<>> /\ ~EmptyFlight.armed
      BY DEF EmptyFlight
    <2> HIDE DEF e
    <2>3. /\ f \in UpSlot /\ f.waiters = <<w>>
          /\ f.in_use = e.in_use /\ f.serial = e.serial /\ f.local = e.local /\ f.dot = e.dot
          /\ f.hedges = e.hedges /\ f.armed = e.armed
      BY <1>3, <2>1 DEF UpSlot, e
    <2> QED BY <1>6, <2>1, <2>2, <2>3
  <1> HIDE DEF f
  <1> DEFINE g == [f EXCEPT !.clear = TRUE]
             h == [g EXCEPT !.armed = TRUE]
  <1>8. g \in UpSlot /\ fields(g) /\ g.clear /\ ~g.armed /\ g.dot = f.dot /\ g.local = f.local
    BY <1>7 DEF UpSlot
  <1> HIDE DEF g
  <1>9. h \in UpSlot /\ (~useDot => fields(h))
    BY <1>7, <1>8 DEF UpSlot
  <1> HIDE DEF h
  <1>10. \/ up' = [up EXCEPT ![s] = f] /\ stash' = stash
         \/ up' = [up EXCEPT ![s] = g] /\ stash' = stash
         \/ ~useDot /\ up' = [up EXCEPT ![s] = h] /\ stash' = [stash EXCEPT ![s] = g.serial]
    BY <1>1 DEF Arm, g, h
  <1>11. serials' \in 0 .. MaxSerial /\ sweep' \subseteq Flight
    BY <1>1 DEF FwdTypeOK
  <1>12. ASSUME NEW x \in UpSlot, fields(x), NEW b, x.armed => b = x.serial
         PROVE  HedgeSound(x, b) /\ AskersKnown(x, conn')
    <2>1. w.tcp => w.gen = conn'.gen /\ w.conn = conn'.id /\ conn'.id # 0
      BY AskerTyped
    <2>2. DOMAIN x.waiters = {1} /\ x.waiters[1] = w
      BY <1>12
    <2>3. AskersKnown(x, conn')
      BY <2>1, <2>2 DEF AskersKnown
    <2>4. x.hedges = <<>> /\ Len(x.hedges) <= 1 /\ DOMAIN x.hedges = {}
      BY <1>12
    <2>5. x.armed => b = x.serial /\ x.clear /\ (x.dot => x.local)
      BY <1>12
    <2>6. HedgeSound(x, b)
      BY <2>4, <2>5 DEF HedgeSound
    <2> QED BY <2>3, <2>6
  <1>13. ASSUME NEW x \in UpSlot, fields(x), up' = [up EXCEPT ![s] = x],
                \/ stash' = stash /\ ~x.armed
                \/ stash' = [stash EXCEPT ![s] = x.serial]
         PROVE  FwdTypeOK' /\ FwdInv'
    <2>1. x.armed => stash'[s] = x.serial
      BY <1>13 DEF FwdTypeOK
    <2>2. HedgeSound(x, stash'[s]) /\ AskersKnown(x, conn')
      BY <1>12, <1>13, <2>1
    <2>3. Len(x.waiters) <= MaxRiders + 1
      BY <1>3, <1>13
    <2> QED BY <1>2, <1>11, <1>13, <2>2, <2>3, SlotStep
  <1>14. h.serial = g.serial
    BY <1>8 DEF h, UpSlot
  <1> HIDE DEF fields, useDot
  <1> QED BY <1>7, <1>8, <1>9, <1>10, <1>13, <1>14

\* One more waiter on a flight.
LEMMA JoinKeeps ==
    ASSUME FwdTypeOK, FwdInv, NEW s \in Flight, NEW w, AsksNow(w), FlightJoin(s, w), ConnMoves,
           sweep' = sweep,
           conn'.gen = conn.gen /\ conn'.id = conn.id
    PROVE  FwdTypeOK' /\ FwdInv'
  <1> DEFINE more == Append(up[s].waiters, w)
             f == [up[s] EXCEPT !.waiters = more]
  <1>1. up[s] \in UpSlot /\ up[s].waiters \in Seq(Requester)
    BY DEF FwdTypeOK, UpSlot
  <1>2. up' = [up EXCEPT ![s] = f] /\ Len(up[s].waiters) <= MaxRiders
    BY DEF FlightJoin
  <1>3. HedgeSound(up[s], stash[s]) /\ AskersKnown(up[s], conn)
    BY DEF FwdInv, FlightJoin
  <1>4. w \in Requester
    BY AskerTyped
  <1>5. /\ more \in Seq(Requester) /\ Len(more) <= MaxRiders + 1
        /\ \A i \in DOMAIN more : \/ i \in DOMAIN up[s].waiters /\ more[i] = up[s].waiters[i]
                                  \/ more[i] = w
    BY <1>1, <1>2, <1>4
  <1> HIDE DEF more
  <1>6. /\ f \in UpSlot /\ f.waiters = more
        /\ f.hedged = up[s].hedged /\ f.hedges = up[s].hedges /\ f.serial = up[s].serial
        /\ f.armed = up[s].armed /\ f.dot = up[s].dot /\ f.local = up[s].local
        /\ f.clear = up[s].clear
    BY <1>1, <1>5 DEF UpSlot
  <1> HIDE DEF f
  <1>7. HedgeSound(f, stash[s])
    BY <1>3, <1>6 DEF HedgeSound
  <1>8. AskersKnown(f, conn')
    <2>1. w.tcp => w.gen = conn'.gen /\ w.conn = conn'.id /\ conn'.id # 0
      BY AskerTyped
    <2>2. \A i \in DOMAIN up[s].waiters :
             up[s].waiters[i].tcp =>
                 \/ up[s].waiters[i].gen < conn'.gen
                 \/ up[s].waiters[i].gen = conn'.gen /\ up[s].waiters[i].conn = conn'.id /\ conn'.id # 0
      BY <1>3 DEF AskersKnown
    <2> QED BY <1>5, <1>6, <2>1, <2>2 DEF AskersKnown
  <1>9. UNCHANGED <<stash, serials, dotVars>>
    BY DEF FlightJoin
  <1>10. /\ DotTypeOK' /\ DotInv' /\ serials' \in 0 .. MaxSerial /\ stash' = stash
         /\ sweep' \subseteq Flight
    BY <1>9, DotRests DEF FwdTypeOK, FwdInv
  <1>11. Len(f.waiters) <= MaxRiders + 1
    BY <1>5, <1>6
  <1> QED BY <1>2, <1>6, <1>7, <1>8, <1>10, <1>11, SlotStep

\* Both kinds of question, and the worker's own steps.
LEMMA UdpAskKeeps ==
    ASSUME FwdTypeOK, FwdInv, UdpAsk
    PROVE  FwdTypeOK' /\ FwdInv'
  <1>1. ConnMoves /\ conn'.gen = conn.gen /\ conn'.id = conn.id /\ sweep' = sweep
    BY ConnRests DEF UdpAsk
  <1>2. AsksNow(UdpClient)
    BY DEF AsksNow
  <1> QED BY <1>1, <1>2, SendUpKeeps, JoinKeeps DEF UdpAsk

LEMMA TcpAskKeeps ==
    ASSUME FwdTypeOK, FwdInv, TcpAsk
    PROVE  FwdTypeOK' /\ FwdInv'
  <1>1. conn \in TcpConn /\ conn.id # 0
    BY DEF TcpAsk, TcpAsked, FwdTypeOK
  <1>2. conn' \in TcpConn /\ conn'.gen = conn.gen /\ conn'.id = conn.id /\ sweep' = sweep
    BY <1>1 DEF TcpAsk, TcpConn
  <1>3. ConnMoves
    BY <1>1, <1>2 DEF TcpAsk, ConnMoves, FwdTypeOK, FwdInv, AnswerReachesItsAsker, TcpConn
  <1>4. AsksNow(TcpClient)
    BY <1>1 DEF AsksNow
  <1> QED BY <1>2, <1>3, <1>4, SendUpKeeps, JoinKeeps DEF TcpAsk

LEMMA DotNextKeeps ==
    ASSUME FwdTypeOK, FwdInv, DotNext, UNCHANGED fwdVars
    PROVE  FwdTypeOK' /\ FwdInv'
  <1>1. DotTypeOK' /\ DotInv'
    BY DotKeeps DEF FwdTypeOK, FwdInv
  <1> QED BY <1>1 DEF FwdTypeOK, FwdInv, fwdVars, AnswerReachesItsAsker

-----------------------------------------------------------------------------
(***************************************************************************)
(* The invariant, and what follows from it.                                *)
(***************************************************************************)
LEMMA FwdInitially == FwdInit => FwdTypeOK /\ FwdInv
  <1> SUFFICES ASSUME FwdInit PROVE FwdTypeOK /\ FwdInv
    OBVIOUS
  <1>1. DotTypeOK /\ DotInv
    BY DotInitially DEF FwdInit
  <1>2. ~EmptyFlight.in_use /\ EmptyFlight.waiters = <<>> /\ Len(EmptyFlight.waiters) <= MaxRiders + 1
    BY DEF EmptyFlight
  <1>3. conn \in TcpConn /\ conn.id = 0
    BY DEF FwdInit, NoConn, TcpConn
  <1>4. FwdTypeOK
    BY <1>1, <1>2, <1>3, EmptyTyped DEF FwdInit, FwdTypeOK
  <1>5. FwdInv
    BY <1>1, <1>2 DEF FwdInit, FwdInv, AnswerReachesItsAsker
  <1> QED BY <1>4, <1>5

LEMMA FwdStep == FwdTypeOK /\ FwdInv /\ SweepInv /\ [FwdNext]_fwdAllVars => FwdTypeOK' /\ FwdInv'
  <1> SUFFICES ASSUME FwdTypeOK, FwdInv, SweepInv, [FwdNext]_fwdAllVars PROVE FwdTypeOK' /\ FwdInv'
    OBVIOUS
  <1>1. CASE FwdNext
    BY <1>1, DotNextKeeps, ConnKeeps, UdpAskKeeps, TcpAskKeeps, RipenKeeps, EvictKeeps, HedgeKeeps,
       GateKeeps, ReplyKeeps, DrainDotKeeps DEF FwdNext
  <1>2. CASE UNCHANGED fwdAllVars
    <2>1. UNCHANGED <<up, stash, sweep, serials, dotVars, conn, conns, told>>
      BY <1>2 DEF fwdAllVars, fwdVars
    <2> QED BY <2>1, ConnRests, ConnStep
  <1> QED BY <1>1, <1>2

\* What dot_set and the worker do to "is DoT on" and to the count of changes: a change
\* counts, and the worker once started stays.
LEMMA DotSwitches ==
    ASSUME DotNext
    PROVE  \/ UNCHANGED <<dotEnabled, dotUp, dotSets>>
           \/ dotSets' = dotSets + 1 /\ dotUp' = dotUp
           \/ dotSets' = dotSets /\ dotEnabled' = dotEnabled /\ (dotUp => dotUp')
  BY DEF DotNext, DotSetBegin, DotSetEnd, DotTop, DotClear, DotReceive, DotConnect, DotConnected,
         DotExchange, DotSend, setVars

\* The steps of dns_task leave the configuration alone.
LEMMA SwitchRests ==
    ASSUME \/ UNCHANGED dotVars \/ DotDrain
           \/ \E s \in Flight, t \in FwdId, local \in BOOLEAN : \E w : SendUp(s, t, w, local)
    PROVE  UNCHANGED <<dotEnabled, dotUp, dotSets>>
  BY DEF dotVars, DotDrain, SendUp, DotEnqueue, setVars

\* A flight keeps how it was launched, and what it has retransmitted.
Carried(t) == /\ up[t].in_use /\ up'[t].dot = up[t].dot /\ up'[t].sets = up[t].sets
              /\ up'[t].hedges = up[t].hedges

Launched(t) == up'[t].sets = dotSets /\ up'[t].dot = DotOn /\ up'[t].hedges = <<>>

LEMMA SweepIsOver ==
    ASSUME FwdTypeOK, SweepInv, sweep = {}, sweep' = {}, UNCHANGED <<dotEnabled, dotUp, dotSets>>,
           \A t \in Flight : up'[t].in_use => Carried(t) \/ Launched(t)
    PROVE  SweepInv'
  <1>1. dotSets \in Nat
    BY DEF FwdTypeOK, DotTypeOK
  <1>2. ASSUME NEW t \in Flight, up'[t].in_use PROVE LaunchKnown(up[t], FALSE)'
    <2>1. CASE Carried(t)
      BY <2>1 DEF SweepInv, LaunchKnown, Carried, DotOn
    <2>2. CASE Launched(t)
      <3>1. up'[t].sets = dotSets /\ (up'[t].dot <=> DotOn) /\ DOMAIN up'[t].hedges = {}
        BY <2>2 DEF Launched
      <3>2. up'[t].dot => dotUp /\ DotOn'
        BY <3>1 DEF DotOn
      <3>3. up'[t].sets <= dotSets' /\ \A i \in DOMAIN up'[t].hedges : FALSE
        BY <1>1, <3>1
      <3> QED BY <3>2, <3>3 DEF LaunchKnown
    <2> QED BY <1>2, <2>1, <2>2
  <1> QED BY <1>2 DEF SweepInv, LaunchKnown

\* A new flight, one more waiter, an end, and the worker's reports come between sweeps.
LEMMA SendUpSweep ==
    ASSUME FwdTypeOK, SweepInv, sweep = {}, sweep' = {}, NEW s \in Flight, NEW t \in FwdId, NEW w,
           NEW local \in BOOLEAN, SendUp(s, t, w, local)
    PROVE  SweepInv'
  <1> DEFINE q == [txid |-> t, serial |-> serials + 1]
             f == [FreshSlot(s, q, local) EXCEPT !.waiters = <<w>>]
             g == [f EXCEPT !.clear = TRUE]
             h == [g EXCEPT !.armed = TRUE]
  <1>1. \/ up' = [up EXCEPT ![s] = f] \/ up' = [up EXCEPT ![s] = g] \/ up' = [up EXCEPT ![s] = h]
    BY Zenon DEF SendUp, Arm
  <1>2. \A x \in {f, g, h} : x.sets = dotSets /\ x.dot = DotOn /\ x.hedges = <<>>
    BY DEF FreshSlot, EmptyFlight
  <1> HIDE DEF f, g, h
  <1>3. Launched(s)
    BY <1>1, <1>2 DEF Launched, FwdTypeOK
  <1>4. \A r \in Flight : r # s => up'[r] = up[r]
    BY <1>1 DEF FwdTypeOK
  <1> QED BY <1>3, <1>4, SwitchRests, SweepIsOver DEF Carried

LEMMA SlotSweep ==
    ASSUME FwdTypeOK, SweepInv, sweep = {}, sweep' = {}, UNCHANGED <<dotEnabled, dotUp, dotSets>>,
           NEW s \in Flight, NEW x,
           \/ up' = [up EXCEPT ![s] = Gone(s)]
           \/ up[s].in_use /\ up' = [up EXCEPT ![s].clear = x]
           \/ up[s].in_use /\ up' = [up EXCEPT ![s].waiters = x]
    PROVE  SweepInv'
  <1>1. up \in [Flight -> UpSlot] /\ up[s] \in UpSlot
    BY DEF FwdTypeOK
  <1>2. \A t \in Flight : t # s => up'[t] = up[t]
    BY <1>1
  <1>3. up'[s].in_use => Carried(s)
    <2>1. CASE up' = [up EXCEPT ![s] = Gone(s)]
      BY <1>1, <2>1 DEF Gone, EmptyFlight
    <2>2. CASE up[s].in_use /\ up' = [up EXCEPT ![s].clear = x]
      BY <1>1, <2>2 DEF Carried, UpSlot
    <2>3. CASE up[s].in_use /\ up' = [up EXCEPT ![s].waiters = x]
      BY <1>1, <2>3 DEF Carried, UpSlot
    <2> QED BY <2>1, <2>2, <2>3
  <1> QED BY <1>2, <1>3, SweepIsOver DEF Carried

\* Time passes for a flight.
LEMMA RipenSweep == ASSUME FwdTypeOK, SweepInv, NEW s \in Flight, Ripen(s) PROVE SweepInv'
  <1>1. up \in [Flight -> UpSlot] /\ up[s] \in UpSlot
    BY DEF FwdTypeOK
  <1>3. sweep' = sweep /\ UNCHANGED <<dotEnabled, dotUp, dotSets>>
    BY SwitchRests DEF Ripen, fwdRest
  <1> DEFINE age == IF up[s].age = "young" THEN "due" ELSE "old"
  <1>4. up' = [up EXCEPT ![s].age = age] /\ up[s].in_use
    BY <1>1 DEF Ripen
  <1> HIDE DEF age
  <1>5. \A t \in Flight : t # s => up'[t] = up[t]
    BY <1>1, <1>4
  <1>2. /\ Carried(s) /\ up'[s].in_use = up[s].in_use
        /\ up'[s].armed = up[s].armed /\ up'[s].hedged = up[s].hedged
    BY <1>1, <1>4 DEF Carried, UpSlot
  <1>6. \A t \in sweep : up'[t].in_use /\ up'[t].armed /\ ~up'[t].hedged
    BY <1>2, <1>5 DEF SweepInv, FwdTypeOK
  <1>7. ASSUME NEW t \in Flight, up'[t].in_use PROVE LaunchKnown(up[t], t \in sweep)'
    <2>1. up[t].in_use /\ LaunchKnown(up[t], t \in sweep)
      BY <1>2, <1>5, <1>7 DEF SweepInv
    <2>2. up'[t].dot = up[t].dot /\ up'[t].sets = up[t].sets /\ up'[t].hedges = up[t].hedges
      BY <1>2, <1>5 DEF Carried
    <2> QED BY <1>3, <2>1, <2>2 DEF LaunchKnown, DotOn
  <1> QED BY <1>3, <1>6, <1>7 DEF SweepInv

\* The gate finds DoT off, so a flight launched with DoT on has seen a change.
LEMMA GateSweep == ASSUME FwdTypeOK, SweepInv, HedgeGate PROVE SweepInv'
  <1>1. UNCHANGED <<up, dotEnabled, dotUp, dotSets>> /\ sweep' = Due /\ ~DotOn
    BY SwitchRests DEF HedgeGate
  <1> QED BY <1>1 DEF SweepInv, LaunchKnown, Due, DotOn

\* The copy tells how many changes there were, and its slot is done with.
LEMMA HedgeSweep ==
    ASSUME FwdTypeOK, FwdInv, SweepInv, NEW s \in Flight, Hedge(s)
    PROVE  SweepInv'
  <1> DEFINE r == [serial |-> stash[s], on |-> DotOn, changes |-> dotSets - up[s].sets]
  <1>1. /\ UNCHANGED <<dotEnabled, dotUp, dotSets>> /\ sweep' = sweep \ {s} /\ s \in sweep
        /\ up' = [up EXCEPT ![s].hedged = TRUE, ![s].hedges = Append(@, r)]
    BY SwitchRests DEF Hedge
  <1>2. up \in [Flight -> UpSlot] /\ up[s] \in UpSlot
    BY DEF FwdTypeOK
  <1>3. up[s].in_use /\ ~up[s].hedged /\ LaunchKnown(up[s], TRUE)
    BY <1>1 DEF SweepInv
  <1>4. up[s].hedges = <<>>
    BY <1>3 DEF FwdInv, HedgeSound
  <1>5. up'[s].hedges = <<r>> /\ up'[s].dot = up[s].dot /\ up'[s].sets = up[s].sets
    BY <1>1, <1>2, <1>4 DEF UpSlot
  <1>6. up[s].sets \in Nat /\ dotSets \in Nat
    BY <1>2 DEF UpSlot, FwdTypeOK, DotTypeOK
  <1>7. r.on = DotOn /\ r.changes = dotSets - up[s].sets
    OBVIOUS
  <1> HIDE DEF r
  <1>8. \A i \in DOMAIN up'[s].hedges : up'[s].hedges[i] = r
    BY <1>5
  <1>9. LaunchKnown(up[s], FALSE)'
    <2>1. /\ up'[s].sets <= dotSets'
          /\ up'[s].dot => dotUp' /\ (up'[s].sets < dotSets' \/ DotOn')
      BY <1>1, <1>3, <1>5 DEF LaunchKnown, DotOn
    <2>2. ASSUME up'[s].dot, NEW i \in DOMAIN up'[s].hedges, up'[s].hedges[i].on
          PROVE  up'[s].hedges[i].changes >= 2
      <3>1. up[s].dot /\ r.on /\ up'[s].hedges[i] = r
        BY <1>5, <1>8, <2>2
      <3>2. up[s].sets + 2 <= dotSets
        BY <1>3, <1>7, <3>1 DEF LaunchKnown
      <3> QED BY <1>6, <1>7, <3>1, <3>2
    <2> QED BY <2>1, <2>2 DEF LaunchKnown
  <1>10. \A t \in Flight : t # s => up'[t] = up[t]
    BY <1>1, <1>2
  <1>11. ASSUME NEW t \in Flight, up'[t].in_use PROVE LaunchKnown(up[t], t \in sweep)'
    <2>1. CASE t = s
      <3>1. t \notin sweep'
        BY <1>1, <2>1
      <3> QED BY <1>9, <2>1, <3>1 DEF LaunchKnown
    <2>2. CASE t # s
      <3>1. (t \in sweep' <=> t \in sweep) /\ up'[t] = up[t]
        BY <1>1, <1>10, <2>2
      <3>2. LaunchKnown(up[t], t \in sweep)
        BY <1>11, <3>1 DEF SweepInv
      <3> QED BY <1>1, <3>1, <3>2 DEF LaunchKnown, DotOn
    <2> QED BY <2>1, <2>2
  <1>12. \A t \in sweep' : up'[t].in_use /\ up'[t].armed /\ ~up'[t].hedged
    BY <1>1, <1>10 DEF SweepInv, FwdTypeOK
  <1> QED BY <1>11, <1>12 DEF SweepInv

\* The web task changes the configuration whenever it likes, also in a sweep.
LEMMA DotNextSweep == ASSUME FwdTypeOK, SweepInv, DotNext, UNCHANGED fwdVars PROVE SweepInv'
  <1>1. up' = up /\ sweep' = sweep
    BY DEF fwdVars
  <1>2. /\ dotSets \in Nat /\ dotUp \in BOOLEAN /\ dotEnabled \in BOOLEAN
        /\ \A s \in Flight : up[s].sets \in Nat
    BY DEF FwdTypeOK, DotTypeOK, UpSlot
  <1>3. ASSUME NEW s \in Flight, up[s].in_use PROVE LaunchKnown(up[s], s \in sweep)'
    <2>1. LaunchKnown(up[s], s \in sweep)
      BY <1>3 DEF SweepInv
    <2> QED BY <1>1, <1>2, <2>1, DotSwitches DEF LaunchKnown, DotOn
  <1> QED BY <1>1, <1>3 DEF SweepInv

\* The connection's steps.
LEMMA SweepStays == ASSUME SweepInv, UNCHANGED <<up, sweep, dotVars>> PROVE SweepInv'
  BY SwitchRests DEF SweepInv, LaunchKnown, DotOn

LEMMA SweepStep == FwdTypeOK /\ FwdInv /\ SweepInv /\ [FwdNext]_fwdAllVars => SweepInv'
  <1> SUFFICES ASSUME FwdTypeOK, FwdInv, SweepInv, [FwdNext]_fwdAllVars PROVE SweepInv'
    OBVIOUS
  <1>1. CASE DotNext /\ UNCHANGED fwdVars
    BY <1>1, DotNextSweep
  <1>2. CASE TcpAccept \/ TcpReceive \/ TcpHangUp \/ TcpLate \/ TcpReap \/ TcpAnswer
    <2>1. UNCHANGED <<up, sweep, dotVars>>
      BY <1>2 DEF TcpAccept, TcpReceive, TcpHangUp, TcpLate, TcpReap, TcpAnswer, connQuiet
    <2> QED BY <2>1, SweepStays
  <1>3. CASE UdpAsk \/ TcpAsk
    <2>1. sweep = {} /\ sweep' = {}
      BY <1>3 DEF UdpAsk, TcpAsk, TcpAsked
    <2>2. CASE \E s \in Flight, t \in FwdId, local \in BOOLEAN, w \in {UdpClient, TcpClient} :
                  SendUp(s, t, w, local)
      BY <2>1, <2>2, SendUpSweep
    <2>3. ASSUME NEW s \in Flight, NEW w, FlightJoin(s, w) PROVE SweepInv'
      <3>1. /\ up[s].in_use /\ up' = [up EXCEPT ![s].waiters = Append(up[s].waiters, w)]
            /\ UNCHANGED <<dotEnabled, dotUp, dotSets>>
        BY <2>3, SwitchRests DEF FlightJoin
      <3> QED BY <2>1, <3>1, SlotSweep
    <2> QED BY <1>3, <2>2, <2>3 DEF UdpAsk, TcpAsk
  <1>4. ASSUME NEW s \in Flight, FlightEvict(s) \/ ReplyByUdp(s) PROVE SweepInv'
    <2>1. /\ up' = [up EXCEPT ![s] = Gone(s)] /\ sweep = {} /\ sweep' = {}
          /\ UNCHANGED <<dotEnabled, dotUp, dotSets>>
      BY <1>4, SwitchRests DEF FlightEvict, ReplyByUdp, Deliver, fwdRest
    <2> QED BY <2>1, SlotSweep
  <1>5. CASE DrainDot
    <2>1. sweep = {} /\ sweep' = {} /\ UNCHANGED <<dotEnabled, dotUp, dotSets>>
      BY <1>5, SwitchRests DEF DrainDot, fwdRest
    <2>2. ASSUME NEW s \in Flight, Deliver(s) PROVE SweepInv'
      BY <2>1, <2>2, SlotSweep DEF Deliver
    <2>3. ASSUME NEW s \in Flight, NEW x, up[s].in_use, up' = [up EXCEPT ![s].clear = x] PROVE SweepInv'
      BY <2>1, <2>3, SlotSweep
    <2>4. CASE UNCHANGED up
      BY <2>1, <2>4 DEF SweepInv, LaunchKnown, DotOn
    <2> QED BY <1>5, <2>2, <2>3, <2>4 DEF DrainDot, Aloft
  <1>6. CASE HedgeGate \/ \E s \in Flight : Ripen(s) \/ Hedge(s)
    BY <1>6, GateSweep, RipenSweep, HedgeSweep
  <1>7. CASE UNCHANGED fwdAllVars
    BY <1>7, SweepStays DEF fwdAllVars, fwdVars
  <1> QED BY <1>1, <1>2, <1>3, <1>4, <1>5, <1>6, <1>7 DEF FwdNext

LEMMA FwdInvariant == FwdSpec => [](FwdTypeOK /\ FwdInv /\ SweepInv)
  <1>1. FwdInit => SweepInv
    BY DEF FwdInit, SweepInv, EmptyFlight
  <1> QED BY <1>1, FwdInitially, FwdStep, SweepStep, PTL DEF FwdSpec

\* Every variable of the forwarding path, and of the DoT worker, keeps its type:
\* the queues stay within their depth, a flight within its waiters.
THEOREM ForwardingTypeCorrect == FwdSpec => []FwdTypeOK
  BY FwdInvariant, PTL

\* An answer delivered over TCP goes to the connection that asked, however many
\* came and went while the flight was up (process_reply, tcp_conn_close).
THEOREM AnswersReachTheirAskers == FwdSpec => []AnswerReachesItsAsker
  <1>1. FwdInv => AnswerReachesItsAsker
    BY DEF FwdInv
  <1> QED BY <1>1, FwdInvariant, PTL

\* A flight is retransmitted at most once, and with its own bytes, whatever slot
\* it was given and whoever had the slot before (hedge_stash, upstream_alloc).
THEOREM RetransmitsAreOwn == FwdSpec => []RetransmitIsOwn
  <1>1. FwdInv => RetransmitIsOwn
    BY DEF FwdInv, RetransmitIsOwn, HedgeSound, Aloft
  <1> QED BY <1>1, FwdInvariant, PTL

\* A retransmit repeats what was in the clear already and was not for DoT to ask, also
\* when dot_set turns DoT on between the sweep's look at it and the copies; and of a
\* question asked with DoT on, DoT was turned off and on again before a copy left with
\* DoT on (dns_task's sweep, dot_set).
THEOREM RetransmitsAreWelcome == FwdSpec => []RetransmitIsWelcome
  <1>1. FwdInv /\ SweepInv => RetransmitIsWelcome
    <2> SUFFICES ASSUME FwdInv, SweepInv, NEW s \in Flight, up[s].in_use,
                        NEW i \in DOMAIN up[s].hedges
                 PROVE  /\ up[s].clear /\ (up[s].dot => up[s].local)
                        /\ up[s].dot /\ up[s].hedges[i].on => up[s].hedges[i].changes >= 2
      BY DEF RetransmitIsWelcome, Aloft
    <2>1. HedgeSound(up[s], stash[s]) /\ LaunchKnown(up[s], s \in sweep)
      BY DEF FwdInv, SweepInv
    <2> QED BY <2>1 DEF HedgeSound, LaunchKnown
  <1> QED BY <1>1, FwdInvariant, PTL

\* Once dot_set has returned, the server it replaced sees one more exchange at
\* most, wherever the worker was and however often dot_set ran (dot_set, dot_task).
THEOREM OldServerIsUsedOnce == FwdSpec => []OldServerUsedOnce
  <1>1. FwdInv => OldServerUsedOnce
    BY DEF FwdInv, DotInv, OldServerUsedOnce
  <1> QED BY <1>1, FwdInvariant, PTL

-----------------------------------------------------------------------------
(***************************************************************************)
(* One route at a time: the steps.                                         *)
(***************************************************************************)
LEMMA RouteTyped ==
    ASSUME FwdTypeOK
    PROVE  /\ dotRepQ \in Seq(Report) /\ dotReqQ \in Seq(DotQuery) /\ dotJob \in SUBSET DotQuery
           /\ serials \in Nat /\ MaxSerial \in Nat /\ up \in [Flight -> UpSlot]
  BY DEF FwdTypeOK, DotTypeOK, Report

\* Of the worker's steps only two move a question, and none brings a new one.
LEMMA WorkerRoute ==
    ASSUME FwdTypeOK, FwdInv, InOrder(dotRepQ, dotJob, dotReqQ, serials), DotNext
    PROVE  /\ InOrder(dotRepQ', dotJob', dotReqQ', serials)
           /\ \A n : Entrusted(n)' => Entrusted(n)
  <1> DEFINE Goal == /\ InOrder(dotRepQ', dotJob', dotReqQ', serials)
                     /\ \A n : Holds(dotRepQ', dotJob', dotReqQ', n) => Holds(dotRepQ, dotJob, dotReqQ, n)
  <1> SUFFICES Goal
    BY DEF Entrusted
  <1>1. CASE UNCHANGED <<dotRepQ, dotJob, dotReqQ>>
    BY <1>1
  <1>2. CASE DotReceive
    <2>1. CASE dotReqQ = <<>>
      BY <1>1, <1>2, <2>1 DEF DotReceive
    <2>2. CASE dotReqQ # <<>>
      <3>1. dotJob' = {Head(dotReqQ)} /\ dotReqQ' = Tail(dotReqQ) /\ dotRepQ' = dotRepQ
        BY <1>2, <2>2 DEF DotReceive
      <3> QED BY <2>2, <3>1, RouteTyped, Received
    <2> QED BY <2>1, <2>2
  <1>3. CASE DotSend
    <2> DEFINE q == CHOOSE j \in dotJob : TRUE
    <2>1. q \in dotJob /\ dotJob' = {} /\ dotReqQ' = dotReqQ
      BY <1>3 DEF DotSend, FwdInv, DotInv
    <2>2. CASE dotRepQ' = dotRepQ
      BY <2>1, <2>2, Dropped
    <2>3. CASE dotRepQ' = Append(dotRepQ, [query |-> q, failed |-> dotPc = "failed"])
      <3>1. (dotPc = "failed") \in BOOLEAN
        OBVIOUS
      <3> HIDE DEF q
      <3> QED BY <2>1, <2>3, <3>1, RouteTyped, Reported
    <2>4. dotRepQ' = Append(dotRepQ, [query |-> q, failed |-> dotPc = "failed"]) \/ dotRepQ' = dotRepQ
      BY <1>3 DEF DotSend
    <2> QED BY <2>2, <2>3, <2>4
  <1>4. DotReceive \/ DotSend \/ UNCHANGED <<dotRepQ, dotJob, dotReqQ>>
    BY DEF DotNext, DotSetBegin, DotSetEnd, DotTop, DotClear, DotConnect, DotConnected, DotExchange,
           setVars, workerVars
  <1> QED BY <1>1, <1>2, <1>3, <1>4

\* Steps that bring no question: a flight keeps what it is asking, and goes out in the
\* clear only if its question is with the worker no more.
LEMMA RouteRests ==
    ASSUME FwdTypeOK, RouteInv, InOrder(dotRepQ', dotJob', dotReqQ', serials), serials' = serials,
           \A n : Entrusted(n)' => Entrusted(n),
           \A s \in Flight : up'[s].in_use => /\ up[s].in_use /\ up'[s].serial = up[s].serial
                                              /\ \/ up'[s].clear = up[s].clear
                                                 \/ ~Entrusted(up[s].serial)'
    PROVE  RouteInv'
  <1>1. TableInv'
    BY DEF RouteInv, TableInv
  <1> QED BY <1>1 DEF RouteInv

Kept == \A s \in Flight : up'[s].in_use => /\ up[s].in_use /\ up'[s].serial = up[s].serial
                                           /\ up'[s].clear = up[s].clear

LEMMA KeptRests == ASSUME FwdTypeOK, RouteInv, Kept, UNCHANGED <<serials, dotVars>> PROVE RouteInv'
  <1>1. UNCHANGED <<dotRepQ, dotJob, dotReqQ>>
    BY DEF dotVars
  <1>2. \A n : Entrusted(n)' => Entrusted(n)
    BY <1>1 DEF Entrusted
  <1>3. InOrder(dotRepQ', dotJob', dotReqQ', serials)
    BY <1>1 DEF RouteInv
  <1> QED BY <1>2, <1>3, RouteRests DEF Kept

\* The worker's next report is the last that is heard of its question.
LEMMA DrainRoute ==
    ASSUME FwdTypeOK, RouteInv, DotDrain
    PROVE  /\ InOrder(dotRepQ', dotJob', dotReqQ', serials)
           /\ \A n : Entrusted(n)' => Entrusted(n)
           /\ \A n : n = Head(dotRepQ).query.serial => ~Entrusted(n)'
  <1>1. /\ dotRepQ # <<>> /\ dotRepQ' = Tail(dotRepQ) /\ dotJob' = dotJob /\ dotReqQ' = dotReqQ
    BY DEF DotDrain, workerVars
  <1>2. /\ InOrder(dotRepQ', dotJob', dotReqQ', serials)
        /\ \A n : Holds(dotRepQ', dotJob', dotReqQ', n) => Holds(dotRepQ, dotJob, dotReqQ, n)
        /\ ~Holds(dotRepQ', dotJob', dotReqQ', Head(dotRepQ).query.serial)
    BY <1>1, RouteTyped, Drained DEF RouteInv
  <1> QED BY <1>2 DEF Entrusted

\* Every step of dns_task but a new flight's launch.
LEMMA TableRoute ==
    ASSUME FwdTypeOK, RouteInv, NEW s \in Flight,
           Ripen(s) \/ FlightEvict(s) \/ Hedge(s) \/ ReplyByUdp(s)
    PROVE  RouteInv'
  <1>1. UNCHANGED <<serials, dotVars>>
    BY DEF Ripen, FlightEvict, Hedge, ReplyByUdp, fwdRest
  <1>2. up \in [Flight -> UpSlot] /\ up[s] \in UpSlot
    BY DEF FwdTypeOK
  <1>3. CASE up' = [up EXCEPT ![s] = Gone(s)]
    <2>1. ~Gone(s).in_use
      BY DEF Gone, EmptyFlight
    <2>2. Kept
      BY <1>2, <1>3, <2>1 DEF Kept
    <2> QED BY <1>1, <2>2, KeptRests
  <1>4. CASE Ripen(s)
    <2>1. Kept
      BY <1>2, <1>4 DEF Ripen, Kept, UpSlot
    <2> QED BY <1>1, <2>1, KeptRests
  <1>5. CASE Hedge(s)
    <2>1. PICK h : up' = [up EXCEPT ![s].hedged = TRUE, ![s].hedges = h]
      BY <1>5 DEF Hedge
    <2>2. Kept
      BY <1>2, <2>1, <1>5 DEF Hedge, Kept, UpSlot
    <2> QED BY <1>1, <2>2, KeptRests
  <1> QED BY <1>3, <1>4, <1>5 DEF FlightEvict, ReplyByUdp, Deliver

LEMMA JoinRoute ==
    ASSUME FwdTypeOK, RouteInv, NEW s \in Flight, NEW w, FlightJoin(s, w)
    PROVE  RouteInv'
  <1>1. UNCHANGED <<serials, dotVars>>
    BY DEF FlightJoin
  <1>2. up \in [Flight -> UpSlot] /\ up[s] \in UpSlot
    BY DEF FwdTypeOK
  <1>3. Kept
    BY <1>2 DEF FlightJoin, Kept, UpSlot
  <1> QED BY <1>1, <1>3, KeptRests

\* A new flight's question is the newest of all; it goes to the worker or out in the clear.
LEMMA SendUpRoute ==
    ASSUME FwdTypeOK, RouteInv, NEW s \in Flight, NEW t \in FwdId, NEW w, NEW local \in BOOLEAN,
           SendUp(s, t, w, local)
    PROVE  RouteInv' /\ \A n \in 1 .. serials : Entrusted(n)' => Entrusted(n)
  <1> DEFINE q == [txid |-> t, serial |-> serials + 1]
  <1>1. /\ ~up[s].in_use /\ serials' = serials + 1 /\ serials \in Nat
        /\ q \in DotQuery /\ q.serial = serials + 1
    BY DEF SendUp, Aloft, FwdTypeOK, DotQuery
  <1>2. \A r \in Flight : r # s => up'[r] = up[r]
    BY DEF SendUp, Arm, FwdTypeOK
  <1>3. /\ up'[s].serial = serials + 1
        /\ \/ DotEnqueue(q) /\ ~up'[s].clear
           \/ UNCHANGED dotVars
    <2> DEFINE f == [FreshSlot(s, q, local) EXCEPT !.waiters = <<w>>]
               g == [f EXCEPT !.clear = TRUE]
    <2>1. f.serial = serials + 1 /\ ~f.clear /\ g.serial = serials + 1
          /\ [g EXCEPT !.armed = TRUE].serial = serials + 1
      BY DEF FreshSlot, EmptyFlight
    <2>2. s \in DOMAIN up
      BY DEF FwdTypeOK
    <2>3. \/ DotEnqueue(q) /\ up' = [up EXCEPT ![s] = f]
          \/ UNCHANGED dotVars /\ up' = [up EXCEPT ![s] = g]
          \/ UNCHANGED dotVars /\ up' = [up EXCEPT ![s] = [g EXCEPT !.armed = TRUE]]
      BY Zenon DEF SendUp, Arm
    <2> HIDE DEF f, g, q
    <2> QED BY <2>1, <2>2, <2>3
  <1> HIDE DEF q
  <1>4. /\ InOrder(dotRepQ', dotJob', dotReqQ', serials + 1)
        /\ \A n \in 1 .. serials : Holds(dotRepQ', dotJob', dotReqQ', n) => Holds(dotRepQ, dotJob, dotReqQ, n)
        /\ up'[s].clear => \A n : Holds(dotRepQ', dotJob', dotReqQ', n) => Holds(dotRepQ, dotJob, dotReqQ, n)
    <2>1. CASE DotEnqueue(q) /\ ~up'[s].clear
      <3>1. dotReqQ' = Append(dotReqQ, q) /\ dotRepQ' = dotRepQ /\ dotJob' = dotJob
        BY <2>1 DEF DotEnqueue, workerVars
      <3> QED BY <1>1, <2>1, <3>1, RouteTyped, Asked DEF RouteInv
    <2>2. CASE UNCHANGED dotVars
      <3>1. UNCHANGED <<dotRepQ, dotJob, dotReqQ>>
        BY <2>2 DEF dotVars
      <3>2. InOrder(dotRepQ, dotJob, dotReqQ, serials + 1)
        <4>1. InOrder(dotRepQ, dotJob, dotReqQ, serials)
          BY DEF RouteInv
        <4> QED BY <4>1, RouteTyped, Waits
      <3> QED BY <3>1, <3>2
    <2> QED BY <1>3, <2>1, <2>2
  <1>5. ~Entrusted(serials + 1)
    <2>1. InOrder(dotRepQ, dotJob, dotReqQ, serials)
      BY DEF RouteInv
    <2> QED BY <2>1, RouteTyped, Waits DEF Entrusted
  <1>6. TableInv'
    <2> SUFFICES ASSUME NEW r \in Flight, up'[r].in_use
                 PROVE  /\ up'[r].serial \in 1 .. serials'
                        /\ \A u \in Flight : up'[u].in_use /\ up'[u].serial = up'[r].serial => u = r
                        /\ up'[r].clear => ~Holds(dotRepQ', dotJob', dotReqQ', up'[r].serial)
      BY DEF TableInv, Entrusted
    <2>1. \A u \in Flight : up[u].in_use => up[u].serial \in 1 .. serials
      BY DEF RouteInv, TableInv
    <2>2. CASE r = s
      BY <1>1, <1>2, <1>3, <1>4, <1>5, <2>1, <2>2 DEF Entrusted
    <2>3. CASE r # s
      <3>1. /\ \A u \in Flight : up[u].in_use /\ up[u].serial = up[r].serial => u = r
            /\ up[r].clear => ~Holds(dotRepQ, dotJob, dotReqQ, up[r].serial)
            /\ up'[r] = up[r]
        BY <1>2, <2>3 DEF RouteInv, TableInv, Entrusted
      <3> QED BY <1>1, <1>2, <1>3, <1>4, <2>1, <3>1
    <2> QED BY <2>2, <2>3
  <1> QED BY <1>1, <1>4, <1>6 DEF RouteInv, Entrusted

LEMMA DrainDotRoute ==
    ASSUME FwdTypeOK, FwdInv, RouteInv, DrainDot
    PROVE  RouteInv' /\ \A n : Entrusted(n)' => Entrusted(n)
  <1> DEFINE r == Head(dotRepQ)
  <1>1. DotDrain /\ serials' = serials
    BY DEF DrainDot, fwdRest
  <1>2. /\ InOrder(dotRepQ', dotJob', dotReqQ', serials)
        /\ \A n : Entrusted(n)' => Entrusted(n)
        /\ \A n : n = r.query.serial => ~Entrusted(n)'
    BY <1>1, DrainRoute
  <1>3. up \in [Flight -> UpSlot]
    BY DEF FwdTypeOK
  <1> DEFINE Follows == \A s \in Flight : up'[s].in_use => /\ up[s].in_use /\ up'[s].serial = up[s].serial
                                                            /\ \/ up'[s].clear = up[s].clear
                                                               \/ up[s].serial = r.query.serial
  <1>4. Follows
    <2>1. CASE UNCHANGED up
      BY <2>1
    <2>2. ASSUME NEW h \in Flight, NEW answered, up[h].in_use,
                 h \in answered => up[h].serial = r.query.serial,
                 up' = [up EXCEPT ![h].clear = @ \/ h \in answered]
          PROVE  Follows
      <3> DEFINE clear == up[h].clear \/ h \in answered
      <3>1. up' = [up EXCEPT ![h].clear = clear]
        BY <2>2
      <3>2. clear = up[h].clear \/ up[h].serial = r.query.serial
        BY <1>3, <2>2 DEF UpSlot
      <3> HIDE DEF clear
      <3> QED BY <1>3, <2>2, <3>1, <3>2 DEF UpSlot
    <2>3. ASSUME NEW h \in Flight, up' = [up EXCEPT ![h] = Gone(h)]
          PROVE  Follows
      BY <1>3, <2>3 DEF Gone, EmptyFlight
    <2> DEFINE hit == {s \in Aloft : up[s].txid = r.query.txid}
               answered == {s \in hit : up[s].serial = r.query.serial}
    <2>4. \/ UNCHANGED up
          \/ \E h \in hit : up' = [up EXCEPT ![h].clear = @ \/ h \in answered]
          \/ \E h \in hit : up' = [up EXCEPT ![h] = Gone(h)]
      BY DEF DrainDot, Deliver
    <2>5. /\ \A h \in hit : h \in Flight /\ up[h].in_use
          /\ \A h \in answered : up[h].serial = r.query.serial
      BY DEF Aloft
    <2> HIDE DEF hit, answered
    <2> QED BY <2>1, <2>2, <2>3, <2>4, <2>5
  <1>5. RouteInv'
    <2> HIDE DEF r
    <2> QED BY <1>1, <1>2, <1>4, RouteRests
  <1> QED BY <1>2, <1>5

\* The steps that touch neither the table nor the worker's queues.
LEMMA RouteStays == ASSUME RouteInv, UNCHANGED <<up, serials, dotRepQ, dotJob, dotReqQ>>
                    PROVE  RouteInv' /\ \A n : Entrusted(n)' => Entrusted(n)
  BY DEF RouteInv, TableInv, Entrusted

LEMMA RouteStep ==
    ASSUME FwdTypeOK, FwdInv, RouteInv, [FwdNext]_fwdAllVars
    PROVE  RouteInv' /\ \A n \in 1 .. serials : Entrusted(n)' => Entrusted(n)
  <1>1. CASE DotNext /\ UNCHANGED fwdVars
    <2>1. /\ InOrder(dotRepQ', dotJob', dotReqQ', serials)
          /\ \A n : Entrusted(n)' => Entrusted(n)
      BY <1>1, WorkerRoute DEF RouteInv
    <2>2. serials' = serials /\ up' = up
      BY <1>1 DEF fwdVars
    <2>3. RouteInv'
      BY <2>1, <2>2, RouteRests
    <2> QED BY <2>1, <2>3
  <1>2. CASE TcpAccept \/ TcpReceive \/ TcpHangUp \/ TcpLate \/ TcpReap \/ TcpAnswer
    <2>1. UNCHANGED <<up, serials, dotVars>>
      BY <1>2 DEF TcpAccept, TcpReceive, TcpHangUp, TcpLate, TcpReap, TcpAnswer, connQuiet
    <2> QED BY <2>1, RouteStays DEF dotVars
  <1>3. CASE UdpAsk \/ TcpAsk
    <2>1. CASE \E s \in Flight, t \in FwdId, local \in BOOLEAN, w \in {UdpClient, TcpClient} :
                  SendUp(s, t, w, local)
      BY <2>1, SendUpRoute
    <2>2. CASE \E s \in Flight, w \in {UdpClient, TcpClient} : FlightJoin(s, w)
      <3>1. RouteInv'
        BY <2>2, JoinRoute
      <3>2. UNCHANGED dotVars
        BY <2>2 DEF FlightJoin
      <3>3. \A n : Entrusted(n)' => Entrusted(n)
        BY <3>2 DEF Entrusted, dotVars
      <3> QED BY <3>1, <3>3
    <2> QED BY <1>3, <2>1, <2>2 DEF UdpAsk, TcpAsk
  <1>4. CASE \E s \in Flight : Ripen(s) \/ FlightEvict(s) \/ Hedge(s) \/ ReplyByUdp(s)
    <2>1. RouteInv'
      BY <1>4, TableRoute
    <2>2. UNCHANGED dotVars
      BY <1>4 DEF Ripen, FlightEvict, Hedge, ReplyByUdp
    <2>3. \A n : Entrusted(n)' => Entrusted(n)
      BY <2>2 DEF Entrusted, dotVars
    <2> QED BY <2>1, <2>3
  <1>5. CASE DrainDot
    BY <1>5, DrainDotRoute
  <1>7. CASE HedgeGate
    <2>1. UNCHANGED <<up, serials, dotRepQ, dotJob, dotReqQ>>
      BY <1>7 DEF HedgeGate, dotVars
    <2> QED BY <2>1, RouteStays
  <1>6. CASE UNCHANGED fwdAllVars
    <2>1. UNCHANGED <<up, serials, dotRepQ, dotJob, dotReqQ>>
      BY <1>6 DEF fwdAllVars, fwdVars, dotVars
    <2> QED BY <2>1, RouteStays
  <1> QED BY <1>1, <1>2, <1>3, <1>4, <1>5, <1>6, <1>7 DEF FwdNext

LEMMA RouteInitially == FwdInit => RouteInv
  <1> SUFFICES ASSUME FwdInit PROVE RouteInv
    OBVIOUS
  <1>1. dotRepQ = <<>> /\ dotJob = {} /\ dotReqQ = <<>> /\ \A s \in Flight : ~up[s].in_use
    BY DEF FwdInit, DotInit, EmptyFlight
  <1>2. Len(<<>>) = 0
    OBVIOUS
  <1> QED BY <1>1, <1>2 DEF RouteInv, InOrder, TableInv

LEMMA RouteInvariant == FwdSpec => [](FwdTypeOK /\ FwdInv /\ RouteInv)
  <1>1. FwdTypeOK /\ FwdInv /\ RouteInv /\ [FwdNext]_fwdAllVars => RouteInv'
    BY RouteStep
  <1> QED BY <1>1, RouteInitially, FwdInvariant, PTL DEF FwdSpec

\* No question is with the worker and out in the clear at once, whatever dot_set, the
\* queues' limits and the worker's failures do (dot_enqueue, run_loop's fallback).
THEOREM QuestionsTakeOneRoute == FwdSpec => []OneRouteAtATime
  <1>1. RouteInv => OneRouteAtATime
    BY DEF RouteInv, TableInv, OneRouteAtATime, Aloft
  <1> QED BY <1>1, RouteInvariant, PTL

\* A question that dns_task has over TLS is sent in plain UDP only on the worker's report
\* that this very question failed; on a report of an older one that had its id the older
\* question is sent, and this one is not.
THEOREM FallbackIsOnFailure == FwdSpec => ClearOnlyOnFailure
  <1> DEFINE Falls == \A s \in Flight : /\ up[s].in_use /\ up'[s].in_use /\ up'[s].serial = up[s].serial
                                        /\ ~up[s].clear /\ up'[s].clear
                                        => /\ dotRepQ # <<>> /\ Head(dotRepQ).failed
                                           /\ Head(dotRepQ).query.serial = up[s].serial
  <1>1. ASSUME FwdTypeOK, FwdInv, RouteInv, FwdNext PROVE Falls
    <2> SUFFICES ASSUME NEW s \in Flight, up[s].in_use, up'[s].in_use, up'[s].serial = up[s].serial,
                        ~up[s].clear, up'[s].clear
                 PROVE  /\ dotRepQ # <<>> /\ Head(dotRepQ).failed
                        /\ Head(dotRepQ).query.serial = up[s].serial
      OBVIOUS
    <2>1. up \in [Flight -> UpSlot] /\ \A u \in Flight : up[u] \in UpSlot
      BY <1>1 DEF FwdTypeOK
    <2>2. CASE DotNext /\ UNCHANGED fwdVars
      BY <2>2 DEF fwdVars
    <2>3. CASE TcpAccept \/ TcpReceive \/ TcpHangUp \/ TcpLate \/ TcpReap \/ TcpAnswer
      BY <2>3 DEF TcpAccept, TcpReceive, TcpHangUp, TcpLate, TcpReap, TcpAnswer, connQuiet
    <2>4. ASSUME NEW r \in Flight, NEW t \in FwdId, NEW w, NEW local \in BOOLEAN, SendUp(r, t, w, local)
          PROVE  FALSE
      <3>1. ~up[r].in_use /\ \A u \in Flight : u # r => up'[u] = up[u]
        BY <2>1, <2>4 DEF SendUp, Arm, Aloft
      <3> QED BY <3>1
    <2>5. ASSUME NEW r \in Flight, NEW w, FlightJoin(r, w) PROVE FALSE
      BY <2>1, <2>5 DEF FlightJoin, UpSlot
    <2>6. ASSUME NEW r \in Flight, up' = [up EXCEPT ![r] = Gone(r)] PROVE FALSE
      BY <2>1, <2>6 DEF Gone, EmptyFlight
    <2>7. ASSUME NEW r \in Flight, Ripen(r) PROVE FALSE
      BY <2>1, <2>7 DEF Ripen, UpSlot
    <2>8. ASSUME NEW r \in Flight, Hedge(r) PROVE FALSE
      <3>1. PICK h : up' = [up EXCEPT ![r].hedged = TRUE, ![r].hedges = h]
        BY <2>8 DEF Hedge
      <3> QED BY <2>1, <3>1 DEF UpSlot
    <2>9. CASE DrainDot
      <3>1. dotRepQ # <<>>
        BY <2>9 DEF DrainDot, DotDrain
      <3>2. ASSUME NEW h \in Flight, NEW answered, Head(dotRepQ).failed,
                   h \in answered => up[h].serial = Head(dotRepQ).query.serial,
                   up' = [up EXCEPT ![h].clear = @ \/ h \in answered]
            PROVE  Head(dotRepQ).failed /\ Head(dotRepQ).query.serial = up[s].serial
        <4>1. h = s
          BY <2>1, <3>2
        <4>2. up'[s].clear = (up[s].clear \/ h \in answered)
          BY <2>1, <3>2, <4>1 DEF UpSlot
        <4> QED BY <3>2, <4>1, <4>2
      <3> DEFINE hit == {u \in Aloft : up[u].txid = Head(dotRepQ).query.txid}
                 answered == {u \in hit : up[u].serial = Head(dotRepQ).query.serial}
      <3>3. \/ UNCHANGED up
            \/ /\ Head(dotRepQ).failed
               /\ \E h \in hit : up' = [up EXCEPT ![h].clear = @ \/ h \in answered]
            \/ \E h \in hit : up' = [up EXCEPT ![h] = Gone(h)]
        BY <2>9 DEF DrainDot, Deliver
      <3>4. /\ \A h \in hit : h \in Flight
            /\ \A h \in answered : up[h].serial = Head(dotRepQ).query.serial
        BY DEF Aloft
      <3> HIDE DEF hit, answered
      <3> QED BY <2>6, <3>1, <3>2, <3>3, <3>4
    <2>10. CASE UdpAsk \/ TcpAsk
      BY <2>4, <2>5, <2>10 DEF UdpAsk, TcpAsk
    <2>11. CASE \E r \in Flight : Ripen(r) \/ FlightEvict(r) \/ Hedge(r) \/ ReplyByUdp(r)
      BY <2>6, <2>7, <2>8, <2>11 DEF FlightEvict, ReplyByUdp, Deliver
    <2>12. CASE HedgeGate
      BY <2>12 DEF HedgeGate
    <2> QED BY <1>1, <2>2, <2>3, <2>9, <2>10, <2>11, <2>12 DEF FwdNext
  <1>2. FwdTypeOK /\ FwdInv /\ RouteInv /\ [FwdNext]_fwdAllVars => [Falls]_fwdAllVars
    BY <1>1
  <1> QED BY <1>2, RouteInvariant, PTL DEF FwdSpec, ClearOnlyOnFailure

\* The worker answers for a question once, and never again after it (dot_task, dot_reply_get).
THEOREM WorkerReportsOnce == FwdSpec => ReportedOnce
  <1> DEFINE Once == /\ \A n \in 1 .. serials : ~Entrusted(n) => ~Entrusted(n)'
                     /\ \A n \in 1 .. MaxSerial : DrainDot /\ n = Head(dotRepQ).query.serial => ~Entrusted(n)'
  <1>1. ASSUME FwdTypeOK, RouteInv, DrainDot
        PROVE  \A n : n = Head(dotRepQ).query.serial => ~Entrusted(n)'
    BY <1>1, DrainRoute DEF DrainDot
  <1>2. FwdTypeOK /\ FwdInv /\ RouteInv /\ [FwdNext]_fwdAllVars => [Once]_fwdAllVars
    BY <1>1, RouteStep
  <1> QED BY <1>2, RouteInvariant, PTL DEF FwdSpec, ReportedOnce
-----------------------------------------------------------------------------
(***************************************************************************)
(* The safety half of ConnectionEnds.  What a connection can still do is   *)
(* counted: every step that changes it closes it or uses some of that up,  *)
(* so it is renewed by its own bytes only, and only so often.              *)
(***************************************************************************)
ConnLeft == 2 * (MsgLen - conn.have) + (IF conn.late THEN 0 ELSE 1) + (IF conn.awaiting THEN 0 ELSE 1)

ConnectionIsSpent ==
    [][conn.id # 0 => \/ conn' = conn
                      \/ conn'.id = 0
                      \/ conn'.id = conn.id /\ ConnLeft' < ConnLeft]_fwdAllVars

\* The one TCP connection changes hands only through a close, and a peer cannot renew it
\* without end: every other change of it leaves it less to do (tcp_poll, process_reply).
THEOREM ConnectionsAreSpent == FwdSpec => ConnectionIsSpent /\ [](ConnLeft \in Nat)
  <1> DEFINE Spent == conn.id # 0 => \/ conn' = conn
                                     \/ conn'.id = 0
                                     \/ conn'.id = conn.id /\ ConnLeft' < ConnLeft
  <1>1. FwdTypeOK => /\ conn \in TcpConn /\ conn.have \in Nat /\ MsgLen \in Nat
                     /\ MsgLen - conn.have \in Nat /\ ConnLeft \in Nat
    <2>1. MsgLen \in Nat
      OBVIOUS
    <2>2. FwdTypeOK => conn \in TcpConn
      BY DEF FwdTypeOK
    <2>3. ASSUME conn \in TcpConn PROVE conn.have \in 0 .. MsgLen
      BY <2>3 DEF TcpConn
    <2>4. ASSUME NEW m \in Nat, NEW h \in 0 .. m PROVE h \in Nat /\ m - h \in Nat /\ 2 * (m - h) \in Nat
      BY <2>4
    <2>5. ASSUME conn.have \in 0 .. MsgLen PROVE ConnLeft \in Nat
      <3>1. 2 * (MsgLen - conn.have) \in Nat
        BY <2>1, <2>4, <2>5
      <3> QED BY <3>1 DEF ConnLeft
    <2> QED BY <2>1, <2>2, <2>3, <2>4, <2>5
  <1>2. ASSUME FwdTypeOK, FwdNext PROVE Spent
    <2> SUFFICES ASSUME conn.id # 0
                 PROVE  \/ conn' = conn \/ conn'.id = 0
                        \/ conn'.id = conn.id /\ ConnLeft' < ConnLeft
      OBVIOUS
    <2>1. conn \in TcpConn /\ conn.have \in Nat /\ MsgLen \in Nat
      BY <1>1, <1>2
    <2>2. TcpClose => conn'.id = 0
      BY DEF TcpClose, NoConn
    <2>3. CASE TcpReceive
      <3>1. /\ conn'.id = conn.id /\ conn'.have = conn.have + 1
            /\ ~conn'.late /\ conn'.awaiting = conn.awaiting
        BY <2>1, <2>3 DEF TcpReceive, TcpConn
      <3> QED BY <2>1, <3>1 DEF ConnLeft
    <2>4. CASE TcpLate
      <3>1. /\ conn'.id = conn.id /\ conn'.have = conn.have /\ ~conn.late
            /\ conn'.late /\ conn'.awaiting = conn.awaiting
        BY <2>1, <2>4 DEF TcpLate, TcpConn
      <3> QED BY <2>1, <3>1 DEF ConnLeft
    <2>5. CASE TcpAsk
      <3>1. /\ conn'.id = conn.id /\ conn'.have = conn.have /\ conn'.late = conn.late
            /\ ~conn.awaiting /\ conn'.awaiting
        BY <2>1, <2>5 DEF TcpAsk, TcpAsked, TcpConn
      <3> QED BY <2>1, <3>1 DEF ConnLeft
    <2>6. CASE TcpAccept \/ TcpHangUp \/ TcpReap \/ TcpAnswer
      BY <2>2, <2>6 DEF TcpAccept, TcpHangUp, TcpReap, TcpAnswer
    <2>7. ASSUME NEW s \in Flight, Deliver(s) PROVE conn' = conn \/ conn'.id = 0
      BY <2>2, <2>7 DEF Deliver
    <2>8. CASE UdpAsk \/ (DotNext /\ UNCHANGED fwdVars)
      BY <2>8 DEF UdpAsk, fwdVars
    <2>9. CASE HedgeGate \/ \E s \in Flight : Ripen(s) \/ FlightEvict(s) \/ Hedge(s) \/ ReplyByUdp(s)
      BY <2>7, <2>9 DEF Ripen, FlightEvict, Hedge, HedgeGate, ReplyByUdp
    <2>10. CASE DrainDot
      BY <2>7, <2>10 DEF DrainDot, Aloft
    <2> QED BY <1>2, <2>3, <2>4, <2>5, <2>6, <2>8, <2>9, <2>10 DEF FwdNext
  <1>3. FwdTypeOK /\ [FwdNext]_fwdAllVars => [Spent]_fwdAllVars
    BY <1>2
  <1> QED BY <1>1, <1>3, ForwardingTypeCorrect, PTL DEF FwdSpec, ConnectionIsSpent
-----------------------------------------------------------------------------
(***************************************************************************)
(* The instance the runs explore.                                          *)
(***************************************************************************)
\* What MCForwarding explores of the engine and of the ways out are behaviours of
\* QueryEngine and of Forwarding: what is proved of either holds in its runs.
THEOREM EngineRunsItsParts == MCSpec => Spec /\ FwdSpec
  <1>1. MCInit => Init /\ FwdInit
    BY DEF MCInit
  <1>2. [MCNext]_mcVars => [Next]_vars /\ [FwdNext]_fwdAllVars
    BY DEF MCNext, mcVars
  <1> QED BY <1>1, <1>2, PTL DEF MCSpec, Spec, FwdSpec
===============================================================================
