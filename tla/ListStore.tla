------------------------------- MODULE ListStore -------------------------------
(***************************************************************************)
(* Blocklist persistence (blocklist.c): the two flash slots a reload       *)
(* writes in turn, the snapshot on the SD card, and the boot that loads    *)
(* one of them back.  A flash slot is a header followed by the index, the  *)
(* entries and the exceptions; it is erased and then written front to      *)
(* back, and the power may go or a write may fail between any two steps.   *)
(* What was only partly written counts as not written: a header then fails *)
(* its format check, an index its validation, and the rest no check at all.*)
(***************************************************************************)
EXTENDS Integers

CONSTANTS MaxLists,   \* bound on the number of lists ever published
          MaxCuts,    \* bound on power cuts and failed writes
          Excepting   \* lists that carry feed exceptions (exc_count > 0)

ASSUME BoundsAssumption == MaxLists \in Nat /\ MaxCuts \in Nat
ASSUME ExceptingAssumption == Excepting \subseteq 1 .. MaxLists

List  == 1 .. MaxLists  \* the lists, in the order reloads publish them
None  == 0              \* erased flash, no file, no list in service
Torn  == -1             \* a list whose entries or exceptions are not all there
Slots == {"bl_a", "bl_b"}
Part  == {"index", "entries", "exceptions"}

VARIABLES slot,    \* flash: the header's list and sequence number, and the parts
          sd,      \* the list in the SD file
          live,    \* the list being served
          newest,  \* the last list published
          save,    \* the save in progress
          cuts,    \* power cuts and failed writes so far
          kept,    \* history: the list of the last completed flash save
          broken   \* history: flash saves begun since and not completed

vars == <<slot, sd, live, newest, save, cuts, kept, broken>>

Parts(l) == IF l \in Excepting THEN Part ELSE Part \ {"exceptions"}

Steps == {"idle", "pick", "erase", "header", "index", "entries", "exceptions", "open", "close", "off"}

SlotType == [list : List \cup {None}, seq : 0 .. MaxLists, part : [Part -> List \cup {None}]]

TypeOK == /\ slot \in [Slots -> SlotType]
          /\ sd \in List \cup {None}
          /\ live \in List \cup {None, Torn}
          /\ newest \in List \cup {None}
          /\ save \in [step : Steps, target : Slots, seq : 0 .. MaxLists]
          /\ cuts \in 0 .. MaxCuts
          /\ kept \in List \cup {None}
          /\ broken \in 0 .. MaxLists

Erased == [list |-> None, seq |-> 0, part |-> [q \in Part |-> None]]

Init == /\ slot = [s \in Slots |-> Erased]
        /\ sd = None /\ live = None /\ newest = None
        /\ save = [step |-> "off", target |-> "bl_a", seq |-> 0]
        /\ cuts = 0 /\ kept = None /\ broken = 0

-----------------------------------------------------------------------------
(***************************************************************************)
(* What a boot makes of the flash.                                         *)
(***************************************************************************)
Other(s) == IF s = "bl_a" THEN "bl_b" ELSE "bl_a"

HeaderValid(s) == slot[s].list # None

\* The slot whose header is valid and newest; bl_b when neither is.
First == IF HeaderValid("bl_a") /\ (HeaderValid("bl_b") => slot["bl_a"].seq >= slot["bl_b"].seq)
         THEN "bl_a" ELSE "bl_b"

\* bl_image_valid looks at the index only.
Loadable(s) == HeaderValid(s) /\ slot[s].part["index"] = slot[s].list

InFlash == \E s \in Slots : Loadable(s)

FlashPick == IF Loadable(First) THEN First ELSE Other(First)

Whole(s) == HeaderValid(s) /\ \A q \in Parts(slot[s].list) : slot[s].part[q] = slot[s].list

Content(s) == IF Whole(s) THEN slot[s].list ELSE Torn

\* download_task: flash, else SD; with neither it downloads (Reload).
Boot == /\ save.step = "off"
        /\ live' = IF InFlash THEN Content(FlashPick) ELSE sd
        /\ save' = [save EXCEPT !.step = "idle"]
        /\ UNCHANGED <<slot, sd, newest, cuts, kept, broken>>

-----------------------------------------------------------------------------
(***************************************************************************)
(* Reloads and saves.                                                      *)
(***************************************************************************)
\* blocklist_load publishes a list.  It is saved unless a feed failed or
\* exceptions were dropped.
Reload == /\ save.step = "idle"
          /\ newest < MaxLists
          /\ newest' = newest + 1
          /\ live' = newest + 1
          /\ \E degraded \in BOOLEAN :
                save' = [save EXCEPT !.step = IF degraded THEN "idle" ELSE "pick"]
          /\ UNCHANGED <<slot, sd, cuts, kept, broken>>

\* Mutant: the sequence number goes on from slot B's alone.
NextSeqOfB == (IF HeaderValid("bl_b") THEN slot["bl_b"].seq ELSE 0) + 1

\* Mutant: a sequence number is skipped.
NextSeqSkips == slot[First].seq + 2

NextSeq == slot[First].seq + 1

\* Mutant: the slot a boot would choose is written over.
TargetNewest == First

Target == Other(First)

Pick == /\ save.step = "pick"
        /\ save' = [step |-> "erase", target |-> Target, seq |-> NextSeq]
        /\ UNCHANGED <<slot, sd, live, newest, cuts, kept, broken>>

\* The sector that holds the header is erased first.
Erase == /\ save.step = "erase"
         /\ slot' = [slot EXCEPT ![save.target] = Erased]
         /\ save' = [save EXCEPT !.step = "header"]
         /\ broken' = broken + 1
         /\ UNCHANGED <<sd, live, newest, cuts, kept>>

WriteHeader == /\ save.step = "header"
               /\ slot' = [slot EXCEPT ![save.target].list = live, ![save.target].seq = save.seq]
               /\ save' = [save EXCEPT !.step = "index"]
               /\ UNCHANGED <<sd, live, newest, cuts, kept, broken>>

PartAfter(q) == IF q = "index" THEN "entries"
                ELSE IF q = "entries" /\ live \in Excepting THEN "exceptions" ELSE "open"

\* The save is complete with its last part.
WritePart(q) == /\ save.step = q
                /\ slot' = [slot EXCEPT ![save.target].part[q] = live]
                /\ save' = [save EXCEPT !.step = PartAfter(q)]
                /\ IF PartAfter(q) = "open" THEN kept' = live /\ broken' = 0
                                            ELSE UNCHANGED <<kept, broken>>
                /\ UNCHANGED <<sd, live, newest, cuts>>

\* The SD file is rewritten in place: empty once opened, complete once closed.
OpenSd == /\ save.step = "open"
          /\ sd' = None
          /\ save' = [save EXCEPT !.step = "close"]
          /\ UNCHANGED <<slot, live, newest, cuts, kept, broken>>

CloseSd == /\ save.step = "close"
           /\ sd' = live
           /\ save' = [save EXCEPT !.step = "idle"]
           /\ UNCHANGED <<slot, live, newest, cuts, kept, broken>>

-----------------------------------------------------------------------------
(***************************************************************************)
(* Failures.                                                               *)
(***************************************************************************)
\* No room in the slot, or the erase or a write reports an error: the save
\* leaves the flash as it is and goes on with the SD card.
FlashFails == /\ save.step \in Part \cup {"pick", "erase", "header"}
              /\ cuts < MaxCuts
              /\ cuts' = cuts + 1
              /\ save' = [save EXCEPT !.step = "open"]
              /\ UNCHANGED <<slot, sd, live, newest, kept, broken>>

\* No card, or a short write: the file, if opened, will be refused.
SdFails == /\ save.step \in {"open", "close"}
           /\ cuts < MaxCuts
           /\ cuts' = cuts + 1
           /\ save' = [save EXCEPT !.step = "idle"]
           /\ UNCHANGED <<slot, sd, live, newest, kept, broken>>

PowerCut == /\ save.step # "off"
            /\ cuts < MaxCuts
            /\ cuts' = cuts + 1
            /\ save' = [save EXCEPT !.step = "off"]
            /\ live' = None
            /\ UNCHANGED <<slot, sd, newest, kept, broken>>

Next == \/ Boot \/ Reload \/ Pick \/ Erase \/ WriteHeader
        \/ \E q \in Part : WritePart(q)
        \/ OpenSd \/ CloseSd \/ FlashFails \/ SdFails \/ PowerCut

Spec == Init /\ [][Next]_vars

-----------------------------------------------------------------------------
(***************************************************************************)
(* Properties.                                                             *)
(***************************************************************************)
\* Whatever happens to one save, a complete copy of the last saved list stays.
CopySurvives == kept # None /\ broken <= 1 =>
                   \E s \in Slots : Whole(s) /\ slot[s].list = kept

\* After a completed save a boot loads that very list; with one broken save
\* since, that list or the one the broken save was writing.  It never goes
\* back to an older list, though the other slot holds one.
BootFindsNewest == kept # None /\ broken <= 1 =>
                      /\ InFlash /\ slot[FlashPick].list >= kept
                      /\ broken = 0 => Content(FlashPick) = kept

\* The device never serves a list a save left half written.
\* (blocklist.c: "Returns false [...] if the BODY doesn't check out, so the
\* caller can fall back to the other slot".)
ServesWhole == live # Torn

\* A save erases the slot a boot would not load.
\* (blocklist.c: "Target the slot load would NOT currently pick".)
SparesPick == [][\A s \in Slots :
                    InFlash /\ slot[s] # Erased /\ slot'[s] = Erased => s # FlashPick]_vars
===============================================================================
