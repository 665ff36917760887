-------------------------------- MODULE SpscRing --------------------------------
(***************************************************************************)
(* The staging rings between the Ethernet hook and dns_task                *)
(* (dns_sink.cpp): the query log's and the census's, one algorithm.  The   *)
(* hook is the only producer and owns head, dns_task the only consumer and *)
(* owns tail; both counters run freely over 2^32 and neither side waits.   *)
(* Each side loads the other's counter once per call and may act on an old *)
(* value of it.  Release stores and acquire loads order the steps as       *)
(* written here.  An event has two fields, written and copied one by one.  *)
(***************************************************************************)
EXTENDS Naturals, Sequences

CONSTANTS Event,    \* what is staged; both fields of a slot take their value from it
          NoEvent,  \* a slot never written, or torn
          Size,     \* L2LOG_RING, CENSUS_RING
          Modulus,  \* values of the counters
          MaxDrops  \* bound on the count of dropped events

ASSUME EventAssumption == NoEvent \notin Event
ASSUME SizeAssumption == Size \in Nat \ {0} /\ MaxDrops \in Nat
ASSUME ModulusAssumption == Modulus \in Nat /\ Modulus > Size /\ Modulus % Size = 0

Counter == 0 .. Modulus - 1

VARIABLES slots,       \* the slots
          head, tail,  \* the counters
          dropped,     \* the counter of refused events
          prod, cons   \* how far the producer's and the consumer's call has got

ringVars == <<slots, head, tail, dropped, prod, cons>>

\* Counter arithmetic of uint32_t.
Plus1(n) == (n + 1) % Modulus
Distance(h, t) == (h + Modulus - t) % Modulus

SlotOf(n) == n % Size

\* The ring never holds more than it has slots for.
RingTypeOK == /\ slots \in [0 .. Size - 1 -> [a : Event \cup {NoEvent}, b : Event \cup {NoEvent}]]
              /\ head \in Counter /\ tail \in Counter
              /\ Distance(head, tail) <= Size
              /\ dropped \in 0 .. MaxDrops
              /\ prod \in [pc : {"idle", "refuse", "a", "b", "publish"}, event : Event \cup {NoEvent}]
              /\ cons \in [pc : {"idle", "a", "b", "release", "record"},
                          a : Event \cup {NoEvent}, b : Event \cup {NoEvent}]

ProducerIdle == [pc |-> "idle", event |-> NoEvent]
ConsumerIdle == [pc |-> "idle", a |-> NoEvent, b |-> NoEvent]

RingInit == /\ slots = [i \in 0 .. Size - 1 |-> [a |-> NoEvent, b |-> NoEvent]]
            /\ head = 0 /\ tail = 0
            /\ dropped = 0
            /\ prod = ProducerIdle
            /\ cons = ConsumerIdle

-----------------------------------------------------------------------------
(***************************************************************************)
(* The producer: l2_log_stage, census_stage.                               *)
(***************************************************************************)
Full(h, t) == Distance(h, t) >= Size

Stage(e) == /\ prod.pc = "idle"
            /\ Full(head, tail) => dropped < MaxDrops
            /\ prod' = IF Full(head, tail) THEN [pc |-> "refuse", event |-> NoEvent]
                                        ELSE [pc |-> "a", event |-> e]
            /\ UNCHANGED <<slots, head, tail, dropped, cons>>

Refuse == /\ prod.pc = "refuse"
          /\ dropped' = dropped + 1
          /\ prod' = ProducerIdle
          /\ UNCHANGED <<slots, head, tail, cons>>

WriteA == /\ prod.pc = "a"
          /\ slots' = [slots EXCEPT ![SlotOf(head)].a = prod.event]
          /\ prod' = [prod EXCEPT !.pc = "b"]
          /\ UNCHANGED <<head, tail, dropped, cons>>

\* Mutant: the slot is published before its second field is written.
WriteBAfterPublishing == /\ prod.pc = "b"
                         /\ head' = Plus1(head)
                         /\ prod' = ProducerIdle
                         /\ UNCHANGED <<slots, tail, dropped, cons>>

WriteB == /\ prod.pc = "b"
          /\ slots' = [slots EXCEPT ![SlotOf(head)].b = prod.event]
          /\ prod' = [prod EXCEPT !.pc = "publish"]
          /\ UNCHANGED <<head, tail, dropped, cons>>

Publish == /\ prod.pc = "publish"
           /\ head' = Plus1(head)
           /\ prod' = ProducerIdle
           /\ UNCHANGED <<slots, tail, dropped, cons>>

-----------------------------------------------------------------------------
(***************************************************************************)
(* The consumer: dns_sink_l2log_drain, dns_sink_census_drain, called until *)
(* empty or 32 times in each turn of dns_task's loop.                      *)
(***************************************************************************)
\* Mutant: the counters are compared as if they never wrapped.
IsEmptyUnwrapped(h, t) == t >= h

IsEmpty(h, t) == h = t

Drain == /\ cons.pc = "idle"
         /\ ~IsEmpty(head, tail)
         /\ cons' = [cons EXCEPT !.pc = "a"]
         /\ UNCHANGED <<slots, head, tail, dropped, prod>>

CopyA == /\ cons.pc = "a"
         /\ cons' = [cons EXCEPT !.pc = "b", !.a = slots[SlotOf(tail)].a]
         /\ UNCHANGED <<slots, head, tail, dropped, prod>>

CopyB == /\ cons.pc = "b"
         /\ cons' = [cons EXCEPT !.pc = "release", !.b = slots[SlotOf(tail)].b]
         /\ UNCHANGED <<slots, head, tail, dropped, prod>>

Release == /\ cons.pc = "release"
           /\ tail' = Plus1(tail)
           /\ cons' = [cons EXCEPT !.pc = "record"]
           /\ UNCHANGED <<slots, head, dropped, prod>>

\* query_log_record or census_observe gets the copy.
HandOver == /\ cons.pc = "record"
            /\ cons' = ConsumerIdle
            /\ UNCHANGED <<slots, head, tail, dropped, prod>>

Producer == (\E e \in Event : Stage(e)) \/ Refuse \/ WriteA \/ WriteB \/ Publish
Consumer == Drain \/ CopyA \/ CopyB \/ Release \/ HandOver

RingNext == Producer \/ Consumer

\* dns_task never stops; the hook runs only when frames come in.
RingSpec == RingInit /\ [][RingNext]_ringVars /\ WF_ringVars(Consumer)

-----------------------------------------------------------------------------
(***************************************************************************)
(* Properties.                                                             *)
(***************************************************************************)
\* The slots from tail up to head, oldest first; a torn slot is no event.
Whole(s) == IF s.a = s.b THEN s.a ELSE NoEvent

Queued == [i \in 1 .. Distance(head, tail) |-> Whole(slots[SlotOf(tail + i - 1)])]

Queue == INSTANCE EventQueue
            WITH queue   <- Queued,
                 dropped <- IF prod.pc = "refuse" THEN dropped + 1 ELSE dropped,
                 taken   <- IF cons.pc = "record" THEN <<Whole(cons)>> ELSE <<>>

\* The ring is a bounded queue: nothing is lost, torn, repeated or reordered,
\* and an event is refused only when every slot is taken -- across the
\* wrap-around of the counters.
ImplementsQueue == Queue!Spec

\* However busy the hook is, the oldest event is drained.
OldestIsDrained == \A t \in Counter : (tail = t /\ head # t) ~> tail # t
===============================================================================
