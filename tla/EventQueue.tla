------------------------------- MODULE EventQueue -------------------------------
(***************************************************************************)
(* What the staging rings promise the tasks at their two ends: a bounded   *)
(* first-in first-out queue of whole events.  An event is refused, and     *)
(* counted, exactly when the queue is full.  SpscRing is shown to          *)
(* implement this module.                                                  *)
(***************************************************************************)
EXTENDS Naturals, Sequences

CONSTANTS Event,    \* what a ring carries
          Size      \* how many of them

VARIABLES queue,    \* events staged and not yet taken
          dropped,  \* events refused
          taken     \* <<the event being handed over>>, or <<>>

vars == <<queue, dropped, taken>>

Init == queue = <<>> /\ dropped = 0 /\ taken = <<>>

Stage == /\ Len(queue) < Size
         /\ \E e \in Event : queue' = Append(queue, e)
         /\ UNCHANGED <<dropped, taken>>

Refuse == /\ Len(queue) = Size
          /\ dropped' = dropped + 1
          /\ UNCHANGED <<queue, taken>>

Take == /\ queue # <<>> /\ taken = <<>>
        /\ taken' = <<Head(queue)>>
        /\ queue' = Tail(queue)
        /\ UNCHANGED dropped

Record == /\ taken # <<>>
          /\ taken' = <<>>
          /\ UNCHANGED <<queue, dropped>>

Next == Stage \/ Refuse \/ Take \/ Record

Spec == Init /\ [][Next]_vars
===============================================================================
