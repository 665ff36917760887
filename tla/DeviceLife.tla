------------------------------ MODULE DeviceLife -------------------------------
(***************************************************************************)
(* The firmware of the device from one update to the next: app_main's      *)
(* start, halt_or_rollback and the confirmation of a new image             *)
(* (dns_sink.cpp), the upload page (web_ui.cpp) and the TLS identity the   *)
(* web pages need (web_tls.c).  The bootloader's part is external: an      *)
(* image chosen and new is tried once, and left for the other slot if it   *)
(* is reset before it was confirmed.                                       *)
(*                                                                         *)
(* Abstractions.  An image is good, or it fails: in blocklist_init or the  *)
(* DNS server's start, in the start of the web pages, or by a reset of its *)
(* own before either.  An image that hangs needs the power cut.  What the  *)
(* start does besides is NetLink's, and the other components' own.         *)
(***************************************************************************)
EXTENDS Naturals

CONSTANTS MaxUpdates,   \* bound on the uploads
          MaxCuts,      \* bound on the power cuts
          MaxErrors     \* bound on the NVS errors, heap failures and expiries

ASSUME LifeAssumption == {MaxUpdates, MaxCuts, MaxErrors} \subseteq Nat

VARIABLES ota,       \* the two application slots: image and state
          chosen,    \* otadata: the slot to boot
          running,   \* esp_ota_get_running_partition
          stage,     \* how far app_main has come
          identity,  \* NVS: the certificate, its key, and the format's mark
          upload,    \* handle_ota_update: what it does
          updates, cuts, errors,
          previous   \* history: the slot the last update was received in

lifeVars == <<ota, chosen, running, stage, identity, upload, updates, cuts, errors, previous>>

OtaSlot == {0, 1}
Image == {"good", "noInit", "noUi", "resets"}
State == {"unset", "new", "pending", "valid", "invalid"}
StartStage == {"off", "init", "identity", "key", "mark", "ui", "confirm", "up", "halted"}

LifeTypeOK == /\ ota \in [OtaSlot -> [image : Image \cup {"none"}, state : State]]
              /\ chosen \in OtaSlot /\ running \in OtaSlot /\ previous \in OtaSlot
              /\ stage \in StartStage
              /\ identity \in [pair : {"none", "crt", "mixed", "pair"}, mark : BOOLEAN]
              /\ upload \in {"none", "writing", "ended", "booting"}
              /\ updates \in 0 .. MaxUpdates /\ cuts \in 0 .. MaxCuts /\ errors \in 0 .. MaxErrors

\* As flashed over USB: one slot, whose image works.
LifeInit == /\ ota = [s \in OtaSlot |-> [image |-> IF s = 0 THEN "good" ELSE "none", state |-> "unset"]]
            /\ chosen = 0 /\ running = 0 /\ previous = 0
            /\ stage = "off"
            /\ identity = [pair |-> "none", mark |-> FALSE]
            /\ upload = "none"
            /\ updates = 0 /\ cuts = 0 /\ errors = 0

OtherSlot(s) == 1 - s
Runs == ota[running].image
Unconfirmed == ota[running].state = "pending"

Resets == stage' = "off" /\ upload' = "none"

-----------------------------------------------------------------------------
(***************************************************************************)
(* The bootloader, and what resets the device.                             *)
(***************************************************************************)
\* A new image becomes pending; one that is still pending was never confirmed.
Bootloader ==
    /\ stage = "off"
    /\ LET s == IF ota[chosen].state \in {"pending", "invalid"} THEN OtherSlot(chosen) ELSE chosen
       IN  /\ running' = s /\ chosen' = s
           /\ ota' = [o \in OtaSlot |->
                 [ota[o] EXCEPT !.state = IF o = s /\ @ = "new" THEN "pending"
                                          ELSE IF o # s /\ @ = "pending" THEN "invalid" ELSE @]]
    /\ stage' = "init"
    /\ UNCHANGED <<identity, upload, updates, cuts, errors, previous>>

PowerCut == /\ stage # "off" /\ cuts < MaxCuts
            /\ cuts' = cuts + 1
            /\ Resets
            /\ UNCHANGED <<ota, chosen, running, identity, updates, errors, previous>>

\* A panic or a watchdog.
ResetsItself == /\ stage = "init" /\ Runs = "resets"
                /\ Resets
                /\ UNCHANGED <<ota, chosen, running, identity, updates, cuts, errors, previous>>

\* esp_ota_mark_app_invalid_rollback_and_reboot: refused when no other image is there.
RollsBack == ota[OtherSlot(running)].state \in {"unset", "valid"} /\ ota[OtherSlot(running)].image # "none"

RollBackAndReboot == /\ ota' = [ota EXCEPT ![running].state = "invalid"]
                     /\ chosen' = OtherSlot(running)
                     /\ Resets

-----------------------------------------------------------------------------
(***************************************************************************)
(* app_main.                                                               *)
(***************************************************************************)
\* halt_or_rollback.
HaltOrRollback == IF Unconfirmed /\ RollsBack THEN RollBackAndReboot
                  ELSE stage' = "halted" /\ UNCHANGED <<ota, chosen, upload>>

\* blocklist_init or the DNS server's start fails.
InitFails == /\ stage = "init" /\ Runs = "noInit"
             /\ HaltOrRollback
             /\ UNCHANGED <<running, identity, updates, cuts, errors, previous>>

DnsServes == /\ stage = "init" /\ Runs \in {"good", "noUi"}
             /\ stage' = "identity"
             /\ UNCHANGED <<ota, chosen, running, identity, upload, updates, cuts, errors, previous>>

Identity(next, id, more) ==
    /\ stage' = next /\ identity' = id /\ errors' = errors + more /\ errors + more <= MaxErrors
    /\ UNCHANGED <<ota, chosen, running, upload, updates, cuts, previous>>

\* web_tls_get_identity: what is stored, if both parts are and in today's format.
Usable == identity.pair \in {"mixed", "pair"} /\ identity.mark

LoadIdentity == stage = "identity" /\ Usable /\ Identity("ui", identity, 0)

\* generate_identity: on the first start, after a reset of the identity, or when the
\* certificate is about to expire; the certificate is stored, then the key, then the mark.
MintCertificate == stage = "identity"
                   /\ Identity("key", [identity EXCEPT !.pair = IF @ \in {"none", "crt"} THEN "crt" ELSE "mixed"],
                               IF Usable THEN 1 ELSE 0)

StoreKey == stage = "key" /\ Identity("mark", [identity EXCEPT !.pair = "pair"], 0)

StoreMark == stage = "mark" /\ Identity("ui", [identity EXCEPT !.mark = TRUE], 0)

\* An NVS error ends the save; the new identity is used all the same.
StoreFails == stage \in {"key", "mark"} /\ Identity("ui", identity, 1)

\* The key cannot be made: no web pages.
MintFails == stage = "identity" /\ Identity("confirm", identity, IF Usable THEN 2 ELSE 1)

\* httpd_ssl_start.
UiStarts == /\ stage = "ui" /\ Runs = "good"
            /\ stage' = "up"
            /\ ota' = [ota EXCEPT ![running].state = IF @ = "pending" THEN "valid" ELSE @]
            /\ UNCHANGED <<chosen, running, identity, upload, updates, cuts, errors, previous>>

UiFails == /\ stage = "ui" /\ Runs = "noUi"
           /\ stage' = "confirm"
           /\ UNCHANGED <<ota, chosen, running, identity, upload, updates, cuts, errors, previous>>

\* Mutant: the image is confirmed before the web pages are looked at.
ConfirmAnyhow == /\ stage = "confirm"
                 /\ stage' = "up"
                 /\ ota' = [ota EXCEPT ![running].state = IF @ = "pending" THEN "valid" ELSE @]
                 /\ UNCHANGED <<chosen, running, identity, upload, updates, cuts, errors, previous>>

\* No web pages: an unconfirmed image goes, a confirmed one serves DNS without them.
NoUi == /\ stage = "confirm"
        /\ IF Unconfirmed /\ RollsBack THEN RollBackAndReboot
           ELSE stage' = "up" /\ UNCHANGED <<ota, chosen, upload>>
        /\ UNCHANGED <<running, identity, updates, cuts, errors, previous>>

-----------------------------------------------------------------------------
(***************************************************************************)
(* The upload page, /reboot, and cert-reset on the console.                *)
(***************************************************************************)
Page == /\ stage = "up" /\ Runs = "good"
        /\ UNCHANGED <<running, stage, identity, cuts, errors>>

\* esp_ota_begin: the slot that does not run is erased.
OtaBegin == /\ upload = "none" /\ updates < MaxUpdates /\ ~Unconfirmed /\ Page
            /\ updates' = updates + 1
            /\ ota' = [ota EXCEPT ![OtherSlot(running)] = [image |-> "none", state |-> @.state]]
            /\ upload' = "writing"
            /\ previous' = running
            /\ UNCHANGED chosen

\* The upload breaks off, the image does not validate, or otadata cannot be written.
OtaAbort == /\ upload \in {"writing", "ended"} /\ Page
            /\ upload' = "none"
            /\ UNCHANGED <<ota, chosen, updates, previous>>

OtaEnd(image) == /\ upload = "writing" /\ Page
                 /\ ota' = [ota EXCEPT ![OtherSlot(running)].image = image]
                 /\ upload' = "ended"
                 /\ UNCHANGED <<chosen, updates, previous>>

SetBootPartition == /\ upload = "ended" /\ Page
                    /\ ota' = [ota EXCEPT ![OtherSlot(running)].state = "new"]
                    /\ chosen' = OtherSlot(running)
                    /\ upload' = "booting"
                    /\ UNCHANGED <<updates, previous>>

\* dns_sink_reboot, after an upload; /reboot is PowerCut's case.
Restarts == /\ upload = "booting"
            /\ Resets
            /\ UNCHANGED <<ota, chosen, running, identity, updates, cuts, errors, previous>>

CertReset == /\ stage = "up" /\ identity.pair # "none"
             /\ identity' = [pair |-> "none", mark |-> FALSE]
             /\ UNCHANGED <<ota, chosen, running, stage, upload, updates, cuts, errors, previous>>

Starts == \/ Bootloader \/ ResetsItself \/ InitFails \/ DnsServes
          \/ LoadIdentity \/ MintCertificate \/ StoreKey \/ StoreMark
          \/ UiStarts \/ UiFails \/ NoUi \/ Restarts

LifeNext == \/ Starts
            \/ PowerCut \/ StoreFails \/ MintFails \/ CertReset
            \/ OtaBegin \/ OtaAbort \/ SetBootPartition
            \/ \E image \in Image : OtaEnd(image)

\* The start of the device goes on.
LifeFairness == WF_lifeVars(Starts)

LifeSpec == LifeInit /\ [][LifeNext]_lifeVars /\ LifeFairness

-----------------------------------------------------------------------------
(***************************************************************************)
(* Property.                                                               *)
(***************************************************************************)
\* An image that cannot bring up DNS and the web pages is left by itself, without
\* anybody at the device: the firmware that received it runs and serves again.
PreviousFirmwareComesBack ==
    (stage = "off" /\ ota[chosen].state = "new" /\ ota[chosen].image # "good")
        ~> (stage = "up" /\ running = previous /\ Runs = "good")
================================================================================
