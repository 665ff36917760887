------------------------------ MODULE Forwarding ------------------------------
(***************************************************************************)
(* How dns_task's questions leave the box and how the answers come home:   *)
(* the DoT worker or plain UDP, one hedged retransmit per flight, and the  *)
(* one TCP/53 connection it holds open for an answer (dns_server.cpp).     *)
(*                                                                         *)
(* Abstractions.  A flight's serial number stands for the question it put  *)
(* on the wire, 0x20 case pattern included, so a reply answers one flight  *)
(* only; QueryEngine has the caches and the verdicts.  The passes of       *)
(* dns_task's loop are taken in any order, and a pass may find nothing to  *)
(* do; each is a step, but for the hedge sweep, which looks at DoT once    *)
(* and then sends copy after copy while the web task may change it.  A     *)
(* connection's and a flight's clocks are flags.                           *)
(***************************************************************************)
EXTENDS DotWorker, FiniteSets

CONSTANTS Flight,       \* slots of the upstream table
          MaxRiders,    \* coalesced waiters of a flight
          HedgeRoom,  \* HEDGE_INFLIGHT_MAX
          MsgLen,     \* pieces in which a TCP client's message arrives
          MaxConn     \* bound on the connections accepted

ASSUME FwdAssumption == {MaxRiders, HedgeRoom, MsgLen, MaxConn} \subseteq Nat

VARIABLES up,         \* s_upstream
          stash,      \* s_hedge_q: the bytes stashed for each slot
          sweep,      \* the slots the hedge sweep under way has yet to retransmit
          serials,    \* questions forwarded so far
          conn,       \* s_tcp
          conns,      \* connections accepted so far
          told        \* the last answer delivered over TCP: to whom, and who had asked

fwdVars == <<up, stash, sweep, serials, conn, conns, told>>
fwdAllVars == <<fwdVars, dotVars>>

\* A requester: a UDP client, or the TCP connection with this generation; "conn"
\* is which connection that was.
UdpClient == [tcp |-> FALSE, gen |-> 0, conn |-> 0]

\* "dot": DoT was on when the flight was launched, "sets": after how many changes of
\* its configuration; "clear": its question has gone out in plain UDP; "hedges": the
\* retransmits, each with the bytes, whether DoT was on, and how many changes had been
\* made since the launch.
EmptyFlight == [in_use |-> FALSE, serial |-> 0, txid |-> 0, local |-> FALSE, dot |-> FALSE,
          sets |-> 0, clear |-> FALSE, waiters |-> <<>>, armed |-> FALSE, age |-> "young",
          hedged |-> FALSE, hedges |-> <<>>]

NoConn(g) == [id |-> 0, gen |-> g, have |-> 0, awaiting |-> FALSE, late |-> FALSE]

Requester == [tcp : BOOLEAN, gen : Nat, conn : 0 .. MaxConn]

Retransmit == [serial : 0 .. MaxSerial, on : BOOLEAN, changes : 0 .. MaxSets]

UpSlot == [in_use : BOOLEAN, serial : 0 .. MaxSerial, txid : FwdId \cup {0}, local : BOOLEAN,
           dot : BOOLEAN, sets : 0 .. MaxSets, clear : BOOLEAN, waiters : Seq(Requester), armed : BOOLEAN,
           age : {"young", "due", "old"}, hedged : BOOLEAN, hedges : Seq(Retransmit)]

TcpConn == [id : 0 .. MaxConn, gen : Nat, have : 0 .. MsgLen, awaiting : BOOLEAN, late : BOOLEAN]

FwdTypeOK ==
    /\ DotTypeOK
    /\ up \in [Flight -> UpSlot]
    /\ \A s \in Flight : Len(up[s].waiters) <= MaxRiders + 1
    /\ stash \in [Flight -> 0 .. MaxSerial]
    /\ sweep \subseteq Flight
    /\ serials \in 0 .. MaxSerial
    /\ conn \in TcpConn
    /\ conns \in 0 .. MaxConn /\ conn.id <= conns
    /\ told \subseteq (0 .. MaxConn) \X (0 .. MaxConn)

FwdInit == /\ DotInit
           /\ up = [s \in Flight |-> EmptyFlight]
           /\ stash = [s \in Flight |-> 0]
           /\ sweep = {}
           /\ serials = 0
           /\ conn = NoConn(0)
           /\ conns = 0
           /\ told = {}

\* The fields of a slot outlive its flight; only "armed" is worth remembering.
Gone(s) == [EmptyFlight EXCEPT !.armed = up[s].armed]

-----------------------------------------------------------------------------
(***************************************************************************)
(* The connection.                                                         *)
(***************************************************************************)
TcpClose == conn' = NoConn(conn.gen + 1)

connQuiet == <<up, stash, sweep, serials, conns, told, dotVars>>

\* A connection that comes while one is held is closed at once.
TcpAccept == /\ sweep = {} /\ conn.id = 0 /\ conns < MaxConn
             /\ conn' = [NoConn(conn.gen) EXCEPT !.id = conns + 1]
             /\ conns' = conns + 1
             /\ told' = {}
             /\ UNCHANGED <<up, stash, sweep, serials, dotVars>>

\* Bytes renew the deadline.
TcpReceive == /\ sweep = {} /\ conn.id # 0 /\ ~conn.awaiting /\ conn.have < MsgLen
              /\ conn' = [conn EXCEPT !.have = @ + 1, !.late = FALSE]
              /\ UNCHANGED connQuiet

\* The peer closes, or sends a length no query can have, or no question.
TcpHangUp == /\ sweep = {} /\ conn.id # 0 /\ ~conn.awaiting
             /\ TcpClose
             /\ UNCHANGED connQuiet

TcpLate == /\ conn.id # 0 /\ ~conn.late
           /\ conn' = [conn EXCEPT !.late = TRUE]
           /\ UNCHANGED connQuiet

\* Mutant: a connection that waits for an answer is left alone.
TcpReapIdle == /\ sweep = {} /\ conn.id # 0 /\ conn.late /\ ~conn.awaiting
               /\ TcpClose
               /\ UNCHANGED connQuiet

TcpReap == /\ sweep = {} /\ conn.id # 0 /\ conn.late
           /\ TcpClose
           /\ UNCHANGED connQuiet

\* A whole message: answered from the rules or the cache, or SERVFAIL because
\* the table is full.  The peer may be gone before the answer is.
TcpAsked == sweep = {} /\ conn.id # 0 /\ ~conn.awaiting /\ conn.have = MsgLen

TcpAnswer == /\ TcpAsked
             /\ told' \in {{}, {<<conn.id, conn.id>>}}
             /\ TcpClose
             /\ UNCHANGED <<up, stash, sweep, serials, conns, dotVars>>

TcpClient == [tcp |-> TRUE, gen |-> conn.gen, conn |-> conn.id]

-----------------------------------------------------------------------------
(***************************************************************************)
(* Forwarding a question.                                                  *)
(***************************************************************************)
Aloft == {s \in Flight : up[s].in_use}

\* Mutant: a slot is recycled with the hedge state of its last flight.
RecycledSlot(s, q, local) == [EmptyFlight EXCEPT !.in_use = TRUE, !.txid = q.txid, !.serial = q.serial,
                              !.local = local, !.dot = DotOn, !.sets = dotSets, !.armed = up[s].armed]

FreshSlot(s, q, local) == [EmptyFlight EXCEPT !.in_use = TRUE, !.txid = q.txid, !.serial = q.serial,
                           !.local = local, !.dot = DotOn, !.sets = dotSets]

\* hedge_stash; a query over HEDGE_QMAX bytes is not stashed.
Arm(s, f, useDot) == \/ up' = [up EXCEPT ![s] = f] /\ UNCHANGED stash
                     \/ /\ ~useDot
                        /\ up' = [up EXCEPT ![s] = [f EXCEPT !.armed = TRUE]]
                        /\ stash' = [stash EXCEPT ![s] = f.serial]

\* A slot, a fresh transaction id, and the question on its way: a name of a
\* local zone, and whatever the worker will not take, in plain UDP.
SendUp(s, t, w, local) ==
    LET q == [txid |-> t, serial |-> serials + 1]
        useDot == DotOn /\ ~local
        f == [FreshSlot(s, q, local) EXCEPT !.waiters = <<w>>]
    IN  /\ s \notin Aloft /\ serials < MaxSerial
        /\ \A r \in Aloft : up[r].txid # t
        /\ serials' = q.serial
        /\ IF useDot /\ DotAccepts
              THEN /\ DotEnqueue(q)
                   /\ up' = [up EXCEPT ![s] = f]
                   /\ UNCHANGED stash
              ELSE /\ Arm(s, [f EXCEPT !.clear = TRUE], useDot)
                   /\ UNCHANGED dotVars

FlightJoin(s, w) == /\ up[s].in_use /\ up[s].age # "old" /\ Len(up[s].waiters) <= MaxRiders
                    /\ up' = [up EXCEPT ![s].waiters = Append(@, w)]
                    /\ UNCHANGED <<stash, serials, dotVars>>

UdpAsk == /\ sweep = {}
          /\ \/ \E s \in Flight, t \in FwdId, local \in BOOLEAN : SendUp(s, t, UdpClient, local)
             \/ \E s \in Flight : FlightJoin(s, UdpClient)
          /\ UNCHANGED <<conn, conns, told, sweep>>

TcpAsk == /\ TcpAsked
          /\ \/ \E s \in Flight, t \in FwdId, local \in BOOLEAN : SendUp(s, t, TcpClient, local)
             \/ \E s \in Flight : FlightJoin(s, TcpClient)
          /\ conn' = [conn EXCEPT !.awaiting = TRUE]
          /\ UNCHANGED <<conns, told, sweep>>

-----------------------------------------------------------------------------
(***************************************************************************)
(* Time, the retransmit, and the ends of a flight.                         *)
(***************************************************************************)
fwdRest == <<stash, sweep, serials, conns>>

\* A flight outlives the hedge delay (hedge_delay_ms), then its time.
Ripen(s) == /\ up[s].in_use /\ up[s].age # "old"
            /\ up' = [up EXCEPT ![s].age = IF @ = "young" THEN "due" ELSE "old"]
            /\ UNCHANGED <<conn, told, fwdRest, dotVars>>

FlightEvict(s) == /\ sweep = {} /\ up[s].in_use /\ up[s].age = "old"
                  /\ up' = [up EXCEPT ![s] = Gone(s)]
                  /\ UNCHANGED <<conn, told, fwdRest, dotVars>>

\* The sweep: DoT and the pressure on the table are looked at once, then the slots
\* that are due by the time dns_task woke up are retransmitted, one copy per flight.
Due == {s \in Flight : up[s].in_use /\ up[s].armed /\ up[s].age # "young" /\ ~up[s].hedged}

\* Mutant: the gate does not look at DoT.
HedgeGateAnyway == /\ sweep = {} /\ Due # {}
                   /\ Cardinality(Aloft) < HedgeRoom
                   /\ sweep' = Due
                   /\ UNCHANGED <<up, conn, told, stash, serials, conns, dotVars>>

HedgeGate == /\ sweep = {} /\ Due # {}
             /\ ~DotOn /\ Cardinality(Aloft) < HedgeRoom
             /\ sweep' = Due
             /\ UNCHANGED <<up, conn, told, stash, serials, conns, dotVars>>

Hedge(s) ==
    /\ s \in sweep
    /\ sweep' = sweep \ {s}
    /\ up' = [up EXCEPT ![s].hedged = TRUE,
                       ![s].hedges = Append(@, [serial |-> stash[s], on |-> DotOn,
                                                changes |-> dotSets - up[s].sets])]
    /\ UNCHANGED <<conn, told, stash, serials, conns, dotVars>>

\* process_reply's deliveries, in the order of the waiters.  A TCP requester is
\* served if the connection is still the one that asked and still waits; that
\* closes it, so the next TCP requester finds it closed.
\* Mutant: the generation is not compared.
TcpServedAnyGen(f) == {i \in DOMAIN f.waiters : f.waiters[i].tcp /\ conn.id # 0 /\ conn.awaiting}

TcpServed(f) == {i \in DOMAIN f.waiters : /\ f.waiters[i].tcp
                                       /\ conn.id # 0 /\ conn.awaiting
                                       /\ f.waiters[i].gen = conn.gen}

Deliver(s) ==
    /\ up' = [up EXCEPT ![s] = Gone(s)]
    /\ IF TcpServed(up[s]) = {}
          THEN UNCHANGED <<conn, told>>
          ELSE LET i == CHOOSE i \in TcpServed(up[s]) : \A j \in TcpServed(up[s]) : i <= j
               IN  /\ told' \in {{}, {<<conn.id, up[s].waiters[i].conn>>}}
                   /\ TcpClose

\* Lost replies are never taken; a duplicate finds no flight.
ReplyByUdp(s) == /\ sweep = {} /\ up[s].in_use /\ up[s].clear
                 /\ Deliver(s)
                 /\ UNCHANGED <<fwdRest, dotVars>>

\* What the worker brings: a reply, for the flight it answers if there is one;
\* or a query it could not place, which goes out in plain UDP if some flight has
\* its id, be it one that took the id over: then that flight's own question does not.
DrainDot ==
    /\ sweep = {}
    /\ DotDrain
    /\ LET r == Head(dotRepQ)
           hit == {s \in Aloft : up[s].txid = r.query.txid}
           answered == {s \in hit : up[s].serial = r.query.serial}
       IN  \/ r.failed /\ hit = {} /\ UNCHANGED <<up, conn, told>>
           \/ /\ r.failed
              /\ \E s \in hit : up' = [up EXCEPT ![s].clear = @ \/ s \in answered]
              /\ UNCHANGED <<conn, told>>
           \/ ~r.failed /\ answered = {} /\ UNCHANGED <<up, conn, told>>
           \/ ~r.failed /\ \E s \in answered : Deliver(s)
    /\ UNCHANGED fwdRest

FwdNext == \/ DotNext /\ UNCHANGED fwdVars
           \/ TcpAccept \/ TcpReceive \/ TcpHangUp \/ TcpLate \/ TcpReap \/ TcpAnswer
           \/ UdpAsk \/ TcpAsk
           \/ \E s \in Flight : Ripen(s) \/ FlightEvict(s) \/ Hedge(s) \/ ReplyByUdp(s)
           \/ HedgeGate \/ DrainDot

FwdSpec == FwdInit /\ [][FwdNext]_fwdAllVars

\* dns_task looks at the connection's deadline in every turn of its loop, a sweep
\* comes to its end, and time passes.
FwdFairness == /\ WF_fwdAllVars(TcpLate) /\ WF_fwdAllVars(TcpReap)
               /\ WF_fwdAllVars(\E s \in Flight : Hedge(s))

-----------------------------------------------------------------------------
(***************************************************************************)
(* Properties.                                                             *)
(***************************************************************************)
\* An answer delivered over TCP goes to the connection that asked for it, also
\* when that connection was closed and another took its place while the flight
\* was on its way.
AnswerReachesItsAsker == \A d \in told : d[1] = d[2]

\* Nobody holds the only TCP connection for ever, however its bytes arrive and
\* whatever becomes of its question.
ConnectionEnds == \A c \in 1 .. MaxConn : (conn.id = c) ~> (conn.id # c)

\* A retransmit is of the question the flight is waiting on, and the only one.
RetransmitIsOwn ==
    \A s \in Aloft : /\ Len(up[s].hedges) <= 1
                        /\ \A i \in DOMAIN up[s].hedges : up[s].hedges[i].serial = up[s].serial

\* A retransmit gives nothing away, whatever dot_set does between the sweep's look
\* at DoT and the copies it sends: the question it repeats was in the clear already
\* and not for DoT to ask; and one that was asked while DoT was on is repeated with
\* DoT on only if DoT was turned off and on again meanwhile.
RetransmitIsWelcome ==
    \A s \in Aloft : \A i \in DOMAIN up[s].hedges :
        /\ up[s].clear
        /\ up[s].dot => up[s].local
        /\ up[s].dot /\ up[s].hedges[i].on => up[s].hedges[i].changes >= 2
===============================================================================
