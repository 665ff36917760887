------------------------------ MODULE PauseTable ------------------------------
(***************************************************************************)
(* The timed pauses (pause.c): slots of an address and an expiry, written  *)
(* by the web task under a mutex, step by step, and read by dns_task and   *)
(* the Ethernet hook without one.  A reader looks at the expiry, the       *)
(* address and the expiry again, and passes over a slot that changed.      *)
(*                                                                         *)
(* One reader is enough: readers write nothing.  Release stores and        *)
(* acquire loads order the steps as written here.  Time is in units of the *)
(* shortest pause.                                                         *)
(***************************************************************************)
EXTENDS Naturals, FiniteSets

CONSTANTS Host,        \* the clients' addresses
          All,         \* PAUSE_IP_ALL
          PauseMax,    \* PAUSE_MAX
          MaxMinutes,  \* PAUSE_MAX_MINUTES
          MaxTime,     \* bound on the clock
          MaxCalls     \* bound on the web task's calls

ASSUME PauseAssumption == /\ {PauseMax, MaxTime} \subseteq Nat \ {0} /\ {MaxMinutes, MaxCalls} \subseteq Nat
                          /\ All \notin Host /\ Host # {}

PauseSlot == 1 .. PauseMax

VARIABLES pauseSlot, \* s_slots
          armed,     \* s_armed
          clock,     \* now_s()
          call,      \* how far the web task's call has got
          calls,     \* calls so far
          look,      \* how far the reader's look has got
          until,     \* for each address, the expiry that pause_set promised and no later call took back
          due        \* the promises to the look's client that have stood since it began

ptVars == <<pauseSlot, armed, clock, call, calls, look, until, due>>

Addr == Host \cup {All}

Expiry == 0 .. MaxTime + MaxMinutes
SlotState == [ip : Addr \cup {"none"}, expires : Expiry]
CallState == [pc : {"idle", "empty", "address", "publish", "sweep"}, ip : Addr, expires : Expiry, to : PauseSlot]
LookState == [pc : {"idle", "gate", "first", "address", "second", "yes", "no"}, client : Host,
              now : 0 .. MaxTime, at : PauseSlot, e1 : Expiry, ip : Addr \cup {"none"}, since : SUBSET BOOLEAN]

PtTypeOK == /\ pauseSlot \in [PauseSlot -> SlotState]
            /\ armed \in 0 .. PauseMax
            /\ clock \in 1 .. MaxTime /\ calls \in 0 .. MaxCalls
            /\ call \in CallState /\ look \in LookState
            /\ until \in [Addr -> Expiry]
            /\ due \subseteq Addr

NoCall == [pc |-> "idle", ip |-> All, expires |-> 0, to |-> 1]
NoLook == [pc |-> "idle", client |-> CHOOSE h \in Host : TRUE, now |-> 0, at |-> 1,
           e1 |-> 0, ip |-> "none", since |-> {}]

PtInit == /\ pauseSlot = [i \in PauseSlot |-> [ip |-> "none", expires |-> 0]]
          /\ armed = 0
          /\ clock = 1
          /\ call = NoCall /\ calls = 0
          /\ look = NoLook
          /\ until = [h \in Addr |-> 0]
          /\ due = {}

-----------------------------------------------------------------------------
\* A client is paused if a slot of its own, or of all, runs on.
PausedIn(table, now, h) == \E i \in PauseSlot : table[i].ip \in {h, All} /\ table[i].expires > now

\* What has held of the look's client at some moment of the look.
SeeWhetherPaused == look' = IF look.pc \in {"idle", "yes", "no"} THEN look
                 ELSE [look EXCEPT !.since = @ \cup {PausedIn(pauseSlot', look.now, look.client)}]

PtTick == /\ clock < MaxTime
          /\ clock' = clock + 1
          /\ due' = {h \in due : until[h] > clock'}
          /\ UNCHANGED <<pauseSlot, armed, call, calls, look, until>>

\* sweep_locked: expired slots are emptied, the others counted.
Swept(table) == [i \in PauseSlot |-> IF table[i].expires <= clock
                                        THEN [table[i] EXCEPT !.expires = 0] ELSE table[i]]
Armed(table) == Cardinality({i \in PauseSlot : table[i].expires > clock})

-----------------------------------------------------------------------------
(***************************************************************************)
(* The web task.                                                           *)
(***************************************************************************)
PauseBegins == call.pc = "idle" /\ calls < MaxCalls /\ calls' = calls + 1

\* pause_set under the mutex: the slot of the same address, or the first empty
\* one, or none.
SetBegin(h, minutes) ==
    LET table == Swept(pauseSlot)
        own == {i \in PauseSlot : table[i].expires # 0 /\ table[i].ip = h}
        free == {i \in PauseSlot : table[i].expires = 0}
        Lowest(set) == CHOOSE i \in set : \A j \in set : i <= j
    IN  /\ PauseBegins
        /\ pauseSlot' = table /\ armed' = Armed(table)
        /\ call' = IF own \cup free = {} THEN [NoCall EXCEPT !.pc = "sweep"]
                   ELSE [pc |-> "empty", ip |-> h, expires |-> clock + minutes,
                         to |-> IF own # {} THEN Lowest(own) ELSE Lowest(free)]
        /\ SeeWhetherPaused
        /\ UNCHANGED <<clock, until, due>>

\* slot_write, store by store.
WriteEmpty == /\ call.pc = "empty"
              /\ pauseSlot' = [pauseSlot EXCEPT ![call.to].expires = 0]
              /\ call' = [call EXCEPT !.pc = "address"]
              /\ due' = due \ {call.ip}
              /\ SeeWhetherPaused
              /\ UNCHANGED <<armed, clock, calls, until>>

WriteAddress == /\ call.pc = "address"
                /\ pauseSlot' = [pauseSlot EXCEPT ![call.to].ip = call.ip]
                /\ call' = [call EXCEPT !.pc = "publish"]
                /\ SeeWhetherPaused
                /\ UNCHANGED <<armed, clock, calls, until, due>>

WriteExpiry == /\ call.pc = "publish"
               /\ pauseSlot' = [pauseSlot EXCEPT ![call.to].expires = call.expires]
               /\ call' = [call EXCEPT !.pc = "sweep"]
               /\ SeeWhetherPaused
               /\ UNCHANGED <<armed, clock, calls, until, due>>

\* The second sweep, which counts the new slot; then pause_set returns.
Sweep == /\ call.pc = "sweep"
         /\ pauseSlot' = Swept(pauseSlot) /\ armed' = Armed(pauseSlot)
         /\ until' = IF call.expires = 0 THEN until ELSE [until EXCEPT ![call.ip] = call.expires]
         /\ call' = NoCall
         /\ SeeWhetherPaused
         /\ UNCHANGED <<clock, calls, due>>

\* pause_clear and pause_clear_all; the one store that matters to a reader.
Clear(addrs) ==
    LET table == [i \in PauseSlot |->
            IF pauseSlot[i].ip \in addrs THEN [pauseSlot[i] EXCEPT !.expires = 0] ELSE Swept(pauseSlot)[i]]
    IN  /\ PauseBegins
        /\ pauseSlot' = table /\ armed' = Armed(table)
        /\ until' = [h \in Addr |-> IF h \in addrs THEN 0 ELSE until[h]]
        /\ due' = due \ addrs
        /\ SeeWhetherPaused
        /\ UNCHANGED <<clock, call>>

-----------------------------------------------------------------------------
(***************************************************************************)
(* The reader: pause_active_for.                                           *)
(***************************************************************************)
Reads(q) == look' = q /\ UNCHANGED <<pauseSlot, armed, clock, call, calls, until>>

\* The clock is read once, after the gate.
LookBegin(h) == /\ look.pc = "idle"
                /\ due' = {a \in {h, All} : until[a] > clock}
                              \ (IF call.pc \in {"address", "publish", "sweep"} THEN {call.ip} ELSE {})
                /\ Reads([NoLook EXCEPT !.pc = "gate", !.client = h, !.now = clock,
                                        !.since = {PausedIn(pauseSlot, clock, h)}])

LookGate == /\ look.pc = "gate"
            /\ Reads([look EXCEPT !.pc = IF armed = 0 THEN "no" ELSE "first"])
            /\ UNCHANGED due

NextSlot == IF look.at = PauseMax THEN [look EXCEPT !.pc = "no"]
                                  ELSE [look EXCEPT !.pc = "first", !.at = @ + 1]

LookFirst == /\ look.pc = "first"
             /\ LET e == pauseSlot[look.at].expires
                IN  Reads(IF e <= look.now THEN NextSlot
                                           ELSE [look EXCEPT !.pc = "address", !.e1 = e])
             /\ UNCHANGED due

LookAddress == /\ look.pc = "address"
               /\ Reads([look EXCEPT !.pc = "second", !.ip = pauseSlot[look.at].ip])
               /\ UNCHANGED due

\* Mutant: the expiry is not looked at again.
LookOnce == /\ look.pc = "second"
            /\ Reads(IF look.ip \in {look.client, All} THEN [look EXCEPT !.pc = "yes"] ELSE NextSlot)
            /\ UNCHANGED due

LookSecond == /\ look.pc = "second"
              /\ Reads(IF pauseSlot[look.at].expires = look.e1 /\ look.ip \in {look.client, All}
                          THEN [look EXCEPT !.pc = "yes"] ELSE NextSlot)
              /\ UNCHANGED due

LookEnd == look.pc \in {"yes", "no"} /\ Reads(NoLook) /\ due' = {}

PtNext == \/ PtTick
          \/ \E h \in Addr, minutes \in 1 .. MaxMinutes : SetBegin(h, minutes)
          \/ WriteEmpty \/ WriteAddress \/ WriteExpiry \/ Sweep
          \/ \E addrs \in {{h} : h \in Addr} \cup {Addr} : Clear(addrs)
          \/ \E h \in Host : LookBegin(h)
          \/ LookGate \/ LookFirst \/ LookAddress \/ LookSecond \/ LookEnd

PtSpec == PtInit /\ [][PtNext]_ptVars

-----------------------------------------------------------------------------
(***************************************************************************)
(* Properties.                                                             *)
(***************************************************************************)
\* Blocking is off for nobody who is not paused: a look that says "paused" is
\* right of some moment of it, whatever slots were rewritten meanwhile.  And a
\* pause that was granted is honoured until it ends: a look that says "not
\* paused" has no promise against it that no call touched.
PauseLooksAreRight == /\ look.pc = "yes" => TRUE \in look.since
                      /\ look.pc = "no" => due = {}
===============================================================================
