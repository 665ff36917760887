-------------------------------- MODULE MCHook ---------------------------------
(***************************************************************************)
(* One instance for what surrounds the query engine: the cache and the     *)
(* staging rings the Ethernet hook and dns_task share, the sockets with    *)
(* their watchdog, and the firmware's own start.  These subjects share no state;  *)
(* "part" says which of them a behaviour is about, and the others keep     *)
(* their initial state.                                                    *)
(*                                                                         *)
(* The readers of the cache write nothing that another process reads, so   *)
(* TLC follows behaviours in which one of them reads at a time.            *)
(***************************************************************************)
EXTENDS CacheSeqlock, SpscRing, SocketWatchdog, DeviceLife

VARIABLE part

MCReader == {"l2", "save"}

Alone(r) == \A q \in Reader \ {r} : reader[q].pc = "idle"

CacheNext == \/ BeginStore \/ WriteField \/ EndStore \/ Bump
             \/ \E r \in Reader : /\ Alone(r)
                                  /\ \/ Ask(r) \/ ReadSeq(r) \/ Inspect(r) \/ Skip(r)
                                     \/ Copy(r) \/ Check(r) \/ Use(r)

MCInit == /\ part \in {"cache", "ring", "sockets", "device"}
          /\ Init /\ RingInit /\ WdInit /\ LifeInit

MCNext == /\ UNCHANGED part
          /\ \/ part = "cache" /\ CacheNext /\ UNCHANGED <<ringVars, wdVars, lifeVars>>
             \/ part = "ring" /\ RingNext /\ UNCHANGED <<vars, wdVars, lifeVars>>
             \/ part = "sockets" /\ WdNext /\ UNCHANGED <<vars, ringVars, lifeVars>>
             \/ part = "device" /\ LifeNext /\ UNCHANGED <<vars, ringVars, wdVars>>

\* Every variable of the four has its type.
TypesOK == TypeOK /\ RingTypeOK /\ WdTypeOK /\ LifeTypeOK

\* Consumer is enabled only where the rings are the subject.
MCSpec == /\ MCInit /\ [][MCNext]_<<vars, ringVars, wdVars, lifeVars, part>>
          /\ WF_ringVars(Consumer)
          /\ WF_wdVars(part = "sockets" /\ WdRuns)
          /\ WF_wdVars(part = "sockets" /\ HookDefers("listed"))
          /\ WF_lifeVars(part = "device" /\ Starts)
================================================================================
