--------------------------- MODULE Storage_proofs ---------------------------
(***************************************************************************)
(* What outlives a power cut: the block list in the two flash slots        *)
(* (ListStore), the snapshot of the cache on the SD card (WarmSnapshot)    *)
(* and the small lists in NVS (ClientStores), for any sizes and any        *)
(* numbers of edits, saves, failures and cuts.                             *)
(***************************************************************************)
EXTENDS ListStore, WarmSnapshot, ClientStores, Numbers_proofs

USE BoundsAssumption, ExceptingAssumption, WarmAssumption

-----------------------------------------------------------------------------
(***************************************************************************)
(* A saved list outlives one broken save. A list carries a higher number   *)
(* than the ones before it, and so does the header of its slot (SlotInv);  *)
(* a save writes to the slot its header rule passes over, front to back    *)
(* (SaveInv); so the last completed save is in the slot that rule          *)
(* prefers, or, after one broken save, in the slot that save left alone    *)
(* (KeptInv).                                                              *)
(***************************************************************************)
Writing == {"header"} \cup Part
Saving  == {"pick", "erase", "open", "close"} \cup Writing

\* Every header's list was published; a slot without one is erased; the newer
\* list has the newer header.
SlotInv == /\ \A s \in Slots : /\ slot[s].list <= newest
                               /\ slot[s].seq <= slot[s].list
                               /\ ~HeaderValid(s) => slot[s] = Erased
           /\ HeaderValid("bl_a") /\ HeaderValid("bl_b") =>
                 /\ slot["bl_a"].seq # slot["bl_b"].seq
                 /\ slot["bl_a"].seq < slot["bl_b"].seq <=> slot["bl_a"].list < slot["bl_b"].list

\* What a save in progress has done.
SaveInv ==
    /\ save.step \in Saving => live = newest /\ newest # None
    /\ save.step \in {"pick", "erase", "header"} => \A s \in Slots : slot[s].list < newest
    /\ save.step = "erase" => save.target = Target /\ save.seq = NextSeq
    /\ save.step = "header" => slot[save.target] = Erased
    /\ save.step \in Writing => /\ slot[Other(save.target)].seq < save.seq
                                /\ slot[Other(save.target)].list < newest
                                /\ save.seq <= newest
    /\ save.step \in Part => slot[save.target].list = newest /\ slot[save.target].seq = save.seq
    /\ save.step \in {"entries", "exceptions"} => slot[save.target].part["index"] = newest
    /\ save.step = "exceptions" => slot[save.target].part["entries"] = newest
    /\ broken <= newest
    /\ save.step \in {"pick", "erase"} => broken < newest
    /\ save.step \in Writing => broken # 0

\* Where the last completed save is.
KeptAt(s) == /\ Whole(s) /\ slot[s].list = kept
             /\ First = s \/ (broken = 1 /\ slot[First].list > kept)
             /\ save.step \in Writing => s = Other(save.target)

KeptInv == kept # None /\ broken <= 1 => \E s \in Slots : KeptAt(s)

IInv == TypeOK /\ SlotInv /\ SaveInv /\ KeptInv

-----------------------------------------------------------------------------
LEMMA TwoSlots == \A s \in Slots : /\ Other(s) \in Slots /\ Other(s) # s
                                   /\ Other(Other(s)) = s
                                   /\ \A t \in Slots : t = s \/ t = Other(s)
BY DEF Other, Slots

LEMMA SlotFields ==
    ASSUME TypeOK
    PROVE  /\ \A s \in Slots : /\ slot[s] \in SlotType
                               /\ slot[s].list \in List \cup {None}
                               /\ slot[s].seq \in 0 .. MaxLists
                               /\ slot[s].part \in [Part -> List \cup {None}]
           /\ save.step \in Steps /\ save.target \in Slots /\ save.seq \in 0 .. MaxLists
           /\ First \in Slots /\ Target \in Slots
           /\ "bl_a" \in Slots /\ "bl_b" \in Slots
<1>1. \A s \in Slots : slot[s] \in SlotType
  BY DEF TypeOK
<1>2. ASSUME NEW s \in Slots
      PROVE  /\ slot[s].list \in List \cup {None}
             /\ slot[s].seq \in 0 .. MaxLists
             /\ slot[s].part \in [Part -> List \cup {None}]
  BY <1>1, Zenon DEF SlotType
<1>3. save \in [step : Steps, target : Slots, seq : 0 .. MaxLists]
  BY DEF TypeOK
<1>4. save.step \in Steps /\ save.target \in Slots /\ save.seq \in 0 .. MaxLists
  BY <1>3, Zenon
<1>5. First \in Slots /\ "bl_a" \in Slots /\ "bl_b" \in Slots
  BY DEF First, Slots
<1>6. Target \in Slots
  BY <1>5, TwoSlots DEF Target
<1>. QED  BY <1>1, <1>2, <1>4, <1>5, <1>6

LEMMA ErasedFields == /\ Erased \in SlotType
                      /\ Erased.list = None /\ Erased.seq = 0
                      /\ \A q \in Part : Erased.part[q] = None
<1>1. [q \in Part |-> None] \in [Part -> List \cup {None}]
  OBVIOUS
<1>2. 0 \in 0 .. MaxLists
  OBVIOUS
<1>3. Erased \in SlotType
  BY <1>1, <1>2, Zenon DEF Erased, SlotType
<1>. QED  BY <1>3 DEF Erased

\* The three writes, field by field.
LEMMA EraseFields ==
    ASSUME TypeOK, Erase
    PROVE  /\ slot'[save.target] = Erased
           /\ slot'[Other(save.target)] = slot[Other(save.target)]
           /\ save'.step = "header" /\ save'.target = save.target /\ save'.seq = save.seq
           /\ slot' \in [Slots -> SlotType]
           /\ save' \in [step : Steps, target : Slots, seq : 0 .. MaxLists]
<1>1. save.target \in Slots /\ slot \in [Slots -> SlotType]
      /\ save \in [step : Steps, target : Slots, seq : 0 .. MaxLists]
  BY SlotFields DEF TypeOK
<1>2. slot' = [slot EXCEPT ![save.target] = Erased] /\ save' = [save EXCEPT !.step = "header"]
  BY DEF Erase
<1>3. "header" \in Steps
  BY DEF Steps
<1>4. save' \in [step : Steps, target : Slots, seq : 0 .. MaxLists]
  BY <1>1, <1>2, <1>3, Zenon
<1>5. save'.step = "header" /\ save'.target = save.target /\ save'.seq = save.seq
  BY <1>1, <1>2, Zenon
<1>. QED  BY <1>1, <1>2, <1>4, <1>5, ErasedFields, TwoSlots

LEMMA HeaderFields ==
    ASSUME TypeOK, WriteHeader, live \in List
    PROVE  /\ slot'[save.target].list = live /\ slot'[save.target].seq = save.seq
           /\ slot'[save.target].part = slot[save.target].part
           /\ slot'[Other(save.target)] = slot[Other(save.target)]
           /\ save'.step = "index" /\ save'.target = save.target /\ save'.seq = save.seq
           /\ slot' \in [Slots -> SlotType]
           /\ save' \in [step : Steps, target : Slots, seq : 0 .. MaxLists]
<1>1. save.target \in Slots /\ slot \in [Slots -> SlotType] /\ slot[save.target] \in SlotType
      /\ save \in [step : Steps, target : Slots, seq : 0 .. MaxLists] /\ save.seq \in 0 .. MaxLists
  BY SlotFields DEF TypeOK
<1>. DEFINE n == [slot[save.target] EXCEPT !.list = live, !.seq = save.seq]
<1>2. slot' = [slot EXCEPT ![save.target] = n] /\ save' = [save EXCEPT !.step = "index"]
  BY DEF WriteHeader
<1>3. "index" \in Steps
  BY DEF Steps
<1>4. save' \in [step : Steps, target : Slots, seq : 0 .. MaxLists]
  BY <1>1, <1>2, <1>3, Zenon
<1>5. save'.step = "index" /\ save'.target = save.target /\ save'.seq = save.seq
  BY <1>1, <1>2, Zenon
<1>6. n.list = live /\ n.seq = save.seq /\ n.part = slot[save.target].part
  BY <1>1, Zenon DEF SlotType
<1>7. live \in List \cup {None}
  OBVIOUS
<1>8. n \in SlotType
  BY <1>1, <1>7, Zenon DEF SlotType
<1>. HIDE DEF n
<1>. QED  BY <1>1, <1>2, <1>4, <1>5, <1>6, <1>8, TwoSlots

LEMMA PartFields ==
    ASSUME TypeOK, NEW q \in Part, WritePart(q), live \in List
    PROVE  /\ slot'[save.target].list = slot[save.target].list
           /\ slot'[save.target].seq = slot[save.target].seq
           /\ slot'[save.target].part = [slot[save.target].part EXCEPT ![q] = live]
           /\ slot'[Other(save.target)] = slot[Other(save.target)]
           /\ save'.step = PartAfter(q) /\ save'.target = save.target /\ save'.seq = save.seq
           /\ slot' \in [Slots -> SlotType]
           /\ save' \in [step : Steps, target : Slots, seq : 0 .. MaxLists]
<1>1. save.target \in Slots /\ slot \in [Slots -> SlotType] /\ slot[save.target] \in SlotType
      /\ slot[save.target].part \in [Part -> List \cup {None}]
      /\ save \in [step : Steps, target : Slots, seq : 0 .. MaxLists] /\ save.seq \in 0 .. MaxLists
  BY SlotFields DEF TypeOK
<1>. DEFINE p == [slot[save.target].part EXCEPT ![q] = live]
            n == [slot[save.target] EXCEPT !.part = p]
<1>2. slot' = [slot EXCEPT ![save.target] = n] /\ save' = [save EXCEPT !.step = PartAfter(q)]
  BY DEF WritePart
<1>3. PartAfter(q) \in Steps
  BY DEF Steps, PartAfter
<1>4. save' \in [step : Steps, target : Slots, seq : 0 .. MaxLists]
  BY <1>1, <1>2, <1>3, Zenon
<1>5. save'.step = PartAfter(q) /\ save'.target = save.target /\ save'.seq = save.seq
  BY <1>1, <1>2, Zenon
<1>6. p \in [Part -> List \cup {None}]
  BY <1>1
<1>. HIDE DEF p
<1>7. n.list = slot[save.target].list /\ n.seq = slot[save.target].seq /\ n.part = p
  BY <1>1, Zenon DEF SlotType
<1>8. n \in SlotType
  BY <1>1, <1>6, Zenon DEF SlotType
<1>9. slot'[save.target] = n /\ slot'[Other(save.target)] = slot[Other(save.target)]
      /\ slot' \in [Slots -> SlotType]
  BY <1>1, <1>2, <1>8, TwoSlots
<1>. QED  BY <1>4, <1>5, <1>7, <1>9 DEF p

LEMMA StepFields ==
    ASSUME TypeOK, NEW x \in Steps, save' = [save EXCEPT !.step = x]
    PROVE  /\ save'.step = x /\ save'.target = save.target /\ save'.seq = save.seq
           /\ save' \in [step : Steps, target : Slots, seq : 0 .. MaxLists]
<1>1. save \in [step : Steps, target : Slots, seq : 0 .. MaxLists]
  BY DEF TypeOK
<1>. QED  BY <1>1, Zenon

LEMMA AllSteps == /\ \A x \in Writing \cup Saving \cup {"off", "idle"} : x \in Steps
                  /\ Writing = {"header", "index", "entries", "exceptions"}
                  /\ Saving = {"pick", "erase", "open", "close", "header", "index",
                               "entries", "exceptions"}
BY DEF Steps, Writing, Saving, Part

-----------------------------------------------------------------------------
(***************************************************************************)
(* The steps that leave the flash alone.                                   *)
(***************************************************************************)
LEMMA FlashUntouched ==
    ASSUME IInv, UNCHANGED <<slot, kept, broken>>, newest' \in Nat, newest <= newest',
           save'.step \notin Writing
    PROVE  SlotInv' /\ KeptInv'
<1>1. First' = First /\ \A s \in Slots : (HeaderValid(s)' <=> HeaderValid(s)) /\ (Whole(s)' <=> Whole(s))
  BY DEF First, HeaderValid, Whole
<1>2. SlotInv'
  <2>1. \A s \in Slots : slot[s].list \in Int
    BY SlotFields DEF IInv, List, None
  <2>2. newest \in Int
    BY DEF IInv, TypeOK, List, None
  <2>. QED  BY <1>1, <2>1, <2>2, SlotFields DEF IInv, SlotInv
<1>3. ASSUME NEW s \in Slots, KeptAt(s)
      PROVE  KeptAt(s)'
  BY <1>1, <1>3 DEF KeptAt
<1>4. KeptInv'
  BY <1>3 DEF IInv, KeptInv
<1>. QED  BY <1>2, <1>4

LEMMA BootSafe == IInv /\ Boot => IInv'
<1>. SUFFICES ASSUME IInv, Boot PROVE IInv'
  OBVIOUS
<1>1. TypeOK
  BY DEF IInv
<1>2. save'.step = "idle" /\ save' \in [step : Steps, target : Slots, seq : 0 .. MaxLists]
  BY <1>1, StepFields, AllSteps DEF Boot
<1>3. live' \in List \cup {None, Torn}
  <2>1. \A s \in Slots : Content(s) \in List \cup {None, Torn}
    BY <1>1, SlotFields DEF Content
  <2>2. FlashPick \in Slots
    BY <1>1, SlotFields, TwoSlots DEF FlashPick
  <2>. QED  BY <1>1, <2>1, <2>2 DEF Boot, TypeOK
<1>4. TypeOK'
  BY <1>1, <1>2, <1>3 DEF Boot, TypeOK
<1>5. newest' \in Nat /\ newest <= newest'
  BY <1>1 DEF Boot, TypeOK, List, None
<1>6. SlotInv' /\ KeptInv'
  BY <1>2, <1>5, FlashUntouched, AllSteps DEF Boot
<1>7. SaveInv'
  BY <1>2, AllSteps DEF SaveInv, IInv, Boot, Writing, Part
<1>. QED  BY <1>4, <1>6, <1>7 DEF IInv

LEMMA ReloadSafe == IInv /\ Reload => IInv'
<1>. SUFFICES ASSUME IInv, Reload PROVE IInv'
  OBVIOUS
<1>1. TypeOK
  BY DEF IInv
<1>2. save'.step \in {"idle", "pick"} /\ save' \in [step : Steps, target : Slots, seq : 0 .. MaxLists]
  <2>1. PICK d \in BOOLEAN : save' = [save EXCEPT !.step = IF d THEN "idle" ELSE "pick"]
    BY DEF Reload
  <2>2. (IF d THEN "idle" ELSE "pick") \in Steps
    BY DEF Steps
  <2>3. save'.step = IF d THEN "idle" ELSE "pick"
    BY <1>1, <2>1, <2>2, StepFields
  <2>4. save' \in [step : Steps, target : Slots, seq : 0 .. MaxLists]
    BY <1>1, <2>1, <2>2, StepFields
  <2>. QED  BY <2>3, <2>4
<1>3. /\ newest \in Nat /\ newest' = newest + 1 /\ newest' \in List /\ live' = newest'
      /\ UNCHANGED <<slot, sd, cuts, kept, broken>>
  BY <1>1 DEF Reload, TypeOK, List, None
<1>4. TypeOK'
  BY <1>1, <1>2, <1>3 DEF TypeOK
<1>5. SlotInv' /\ KeptInv'
  BY <1>2, <1>3, FlashUntouched, AllSteps
<1>6. \A s \in Slots : slot'[s].list < newest'
  <2>1. \A s \in Slots : slot[s].list \in Int
    BY <1>1, SlotFields DEF List, None
  <2>. QED  BY <1>3, <2>1 DEF IInv, SlotInv
<1>7. broken' < newest'
  BY <1>1, <1>3 DEF IInv, SaveInv, TypeOK
<1>8. newest' # None /\ broken' <= newest'
  BY <1>3, <1>7, <1>4 DEF None, TypeOK
<1>9. SaveInv'
  BY <1>2, <1>3, <1>6, <1>7, <1>8, AllSteps DEF SaveInv, Writing, Part
<1>. QED  BY <1>4, <1>5, <1>9 DEF IInv

LEMMA PickSafe == IInv /\ Pick => IInv'
<1>. SUFFICES ASSUME IInv, Pick PROVE IInv'
  OBVIOUS
<1>1. TypeOK /\ SaveInv /\ SlotInv
  BY DEF IInv
<1>2. save' = [step |-> "erase", target |-> Target, seq |-> NextSeq] /\ save.step = "pick"
      /\ UNCHANGED <<slot, sd, live, newest, cuts, kept, broken>>
  BY DEF Pick
<1>3. save'.step = "erase" /\ save'.target = Target /\ save'.seq = NextSeq
  BY <1>2
<1>4. live = newest /\ newest # None /\ newest \in List
  BY <1>1, <1>2, AllSteps DEF SaveInv, TypeOK
<1>5. slot[First].list < newest /\ slot[First].seq <= slot[First].list /\ First \in Slots
  BY <1>1, <1>2, SlotFields DEF SaveInv, SlotInv
<1>6. NextSeq \in 0 .. MaxLists
  <2>1. slot[First].seq \in Nat /\ slot[First].list \in Nat /\ slot[First].seq \in 0 .. MaxLists
    BY <1>1, SlotFields DEF List, None
  <2>. QED  BY <1>4, <1>5, <2>1 DEF NextSeq, List
<1>7. save' \in [step : Steps, target : Slots, seq : 0 .. MaxLists]
  <2>1. Target \in Slots /\ "erase" \in Steps
    BY <1>1, SlotFields DEF Steps
  <2>. QED  BY <1>2, <1>6, <2>1
<1>8. TypeOK'
  BY <1>1, <1>2, <1>7 DEF TypeOK
<1>9. SlotInv' /\ KeptInv'
  BY <1>2, <1>3, <1>4, FlashUntouched, AllSteps DEF List
<1>10. Target' = Target /\ NextSeq' = NextSeq
  BY <1>2 DEF Target, NextSeq, First, HeaderValid
<1>11. SaveInv'
  BY <1>1, <1>2, <1>3, <1>4, <1>10, AllSteps DEF SaveInv, Part
<1>. QED  BY <1>8, <1>9, <1>11 DEF IInv

LEMMA OpenSdSafe == IInv /\ OpenSd => IInv'
<1>. SUFFICES ASSUME IInv, OpenSd PROVE IInv'
  OBVIOUS
<1>1. TypeOK /\ SaveInv
  BY DEF IInv
<1>2. save'.step = "close" /\ save' \in [step : Steps, target : Slots, seq : 0 .. MaxLists]
  BY <1>1, StepFields, AllSteps DEF OpenSd
<1>3. UNCHANGED <<slot, newest, kept, broken>>
  BY DEF OpenSd
<1>4. TypeOK'
  BY <1>1, <1>2 DEF OpenSd, TypeOK, List
<1>5. newest' \in Nat /\ newest <= newest'
  BY <1>1, <1>3 DEF TypeOK, List, None
<1>6. SlotInv' /\ KeptInv'
  BY <1>2, <1>3, <1>5, FlashUntouched, AllSteps
<1>7. SaveInv'
  BY <1>1, <1>2, <1>3, AllSteps DEF SaveInv, OpenSd, Part
<1>. QED  BY <1>4, <1>6, <1>7 DEF IInv

LEMMA SdFailsSafe == IInv /\ SdFails => IInv'
<1>. SUFFICES ASSUME IInv, SdFails PROVE IInv'
  OBVIOUS
<1>1. TypeOK /\ SaveInv
  BY DEF IInv
<1>2. save'.step = "idle" /\ save' \in [step : Steps, target : Slots, seq : 0 .. MaxLists]
  BY <1>1, StepFields, AllSteps DEF SdFails
<1>3. UNCHANGED <<slot, newest, kept, broken>>
  BY DEF SdFails
<1>4. TypeOK'
  BY <1>1, <1>2 DEF SdFails, TypeOK, List
<1>5. newest' \in Nat /\ newest <= newest'
  BY <1>1, <1>3 DEF TypeOK, List, None
<1>6. SlotInv' /\ KeptInv'
  BY <1>2, <1>3, <1>5, FlashUntouched, AllSteps
<1>7. SaveInv'
  BY <1>1, <1>2, <1>3, AllSteps DEF SaveInv, SdFails, Part
<1>. QED  BY <1>4, <1>6, <1>7 DEF IInv

LEMMA PowerCutSafe == IInv /\ PowerCut => IInv'
<1>. SUFFICES ASSUME IInv, PowerCut PROVE IInv'
  OBVIOUS
<1>1. TypeOK /\ SaveInv
  BY DEF IInv
<1>2. save'.step = "off" /\ save' \in [step : Steps, target : Slots, seq : 0 .. MaxLists]
  BY <1>1, StepFields, AllSteps DEF PowerCut
<1>3. UNCHANGED <<slot, newest, kept, broken>>
  BY DEF PowerCut
<1>4. TypeOK'
  BY <1>1, <1>2 DEF PowerCut, TypeOK, List
<1>5. newest' \in Nat /\ newest <= newest'
  BY <1>1, <1>3 DEF TypeOK, List, None
<1>6. SlotInv' /\ KeptInv'
  BY <1>2, <1>3, <1>5, FlashUntouched, AllSteps
<1>7. SaveInv'
  BY <1>1, <1>2, <1>3, AllSteps DEF SaveInv, PowerCut, Part
<1>. QED  BY <1>4, <1>6, <1>7 DEF IInv

LEMMA FlashFailsSafe == IInv /\ FlashFails => IInv'
<1>. SUFFICES ASSUME IInv, FlashFails PROVE IInv'
  OBVIOUS
<1>1. TypeOK /\ SaveInv
  BY DEF IInv
<1>2. save'.step = "open" /\ save' \in [step : Steps, target : Slots, seq : 0 .. MaxLists]
  BY <1>1, StepFields, AllSteps DEF FlashFails
<1>3. UNCHANGED <<slot, newest, kept, broken>>
  BY DEF FlashFails
<1>4. TypeOK'
  BY <1>1, <1>2 DEF FlashFails, TypeOK, List
<1>5. newest' \in Nat /\ newest <= newest'
  BY <1>1, <1>3 DEF TypeOK, List, None
<1>6. SlotInv' /\ KeptInv'
  BY <1>2, <1>3, <1>5, FlashUntouched, AllSteps
<1>7. SaveInv'
  BY <1>1, <1>2, <1>3, AllSteps DEF SaveInv, FlashFails, Part
<1>. QED  BY <1>4, <1>6, <1>7 DEF IInv

LEMMA CloseSdSafe == IInv /\ CloseSd => IInv'
<1>. SUFFICES ASSUME IInv, CloseSd PROVE IInv'
  OBVIOUS
<1>1. TypeOK /\ SaveInv
  BY DEF IInv
<1>2. save'.step = "idle" /\ save' \in [step : Steps, target : Slots, seq : 0 .. MaxLists]
  BY <1>1, StepFields, AllSteps DEF CloseSd
<1>3. UNCHANGED <<slot, newest, kept, broken>>
  BY DEF CloseSd
<1>4. TypeOK'
  <2>1. live = newest
    BY <1>1, AllSteps DEF CloseSd, SaveInv
  <2>. QED  BY <1>1, <1>2, <2>1 DEF CloseSd, TypeOK
<1>5. newest' \in Nat /\ newest <= newest'
  BY <1>1, <1>3 DEF TypeOK, List, None
<1>6. SlotInv' /\ KeptInv'
  BY <1>2, <1>3, <1>5, FlashUntouched, AllSteps
<1>7. SaveInv'
  BY <1>1, <1>2, <1>3, AllSteps DEF SaveInv, CloseSd, Part
<1>. QED  BY <1>4, <1>6, <1>7 DEF IInv

-----------------------------------------------------------------------------
(***************************************************************************)
(* The steps that write to the flash.                                      *)
(***************************************************************************)
LEMMA WholeElsewhere ==
    ASSUME NEW s \in Slots, slot'[s] = slot[s]
    PROVE  /\ HeaderValid(s)' <=> HeaderValid(s)
           /\ Whole(s)' <=> Whole(s)
BY DEF HeaderValid, Whole

LEMMA EraseSafe == IInv /\ Erase => IInv'
<1>. SUFFICES ASSUME IInv, Erase PROVE IInv'
  OBVIOUS
<1>0. PICK t \in Slots, o \in Slots : t = save.target /\ o = Other(t)
  BY SlotFields, TwoSlots DEF IInv
<1>1. TypeOK /\ SlotInv /\ SaveInv /\ KeptInv /\ save.step = "erase"
      /\ broken' = broken + 1 /\ UNCHANGED <<sd, live, newest, cuts, kept>>
  BY DEF IInv, Erase
<1>2. /\ slot'[t] = Erased /\ slot'[o] = slot[o]
      /\ save'.step = "header" /\ save'.target = t /\ save'.seq = save.seq
      /\ slot' \in [Slots -> SlotType]
      /\ save' \in [step : Steps, target : Slots, seq : 0 .. MaxLists]
  BY <1>0, <1>1, EraseFields
<1>3. t \in Slots /\ o \in Slots /\ t # o /\ \A s \in Slots : s = t \/ s = o
  BY <1>0, TwoSlots
<1>4. t = Target /\ save.seq = NextSeq /\ o = First
  BY <1>0, <1>1, SlotFields, TwoSlots DEF SaveInv, Target
<1>5. /\ live = newest /\ newest # None /\ newest \in List
      /\ broken \in Nat /\ broken < newest
      /\ \A s \in Slots : slot[s].list < newest
  BY <1>1, AllSteps DEF SaveInv, TypeOK
<1>6. TypeOK'
  BY <1>1, <1>2, <1>5 DEF TypeOK, List
<1>7. SlotInv'
  <2>1. ~HeaderValid(t)'
    BY <1>2, ErasedFields DEF HeaderValid
  <2>2. ~(HeaderValid("bl_a") /\ HeaderValid("bl_b"))'
    BY <1>1, <1>3, <2>1, SlotFields
  <2>3. /\ slot'[t].list <= newest' /\ slot'[t].seq <= slot'[t].list
        /\ ~HeaderValid(t)' => slot'[t] = Erased
    BY <1>1, <1>2, <1>5, ErasedFields DEF None, List
  <2>4. /\ slot'[o].list <= newest' /\ slot'[o].seq <= slot'[o].list
        /\ ~HeaderValid(o)' => slot'[o] = Erased
    BY <1>1, <1>2, <1>3, WholeElsewhere DEF SlotInv
  <2>. QED  BY <1>3, <2>2, <2>3, <2>4 DEF SlotInv
<1>8. SaveInv'
  <2>1. slot'[o].list < newest' /\ slot'[t].list < newest'
    BY <1>1, <1>2, <1>3, <1>5, ErasedFields DEF None, List
  <2>2. \A s \in Slots : slot'[s].list < newest'
    BY <1>3, <2>1
  <2>3. save.seq = slot[o].seq + 1 /\ slot[o].seq \in Nat /\ slot[o].seq <= slot[o].list
        /\ slot[o].list \in Nat
    BY <1>1, <1>3, <1>4, SlotFields DEF NextSeq, SlotInv, List, None
  <2>4. slot'[o].seq < save'.seq /\ save'.seq <= newest'
    BY <1>1, <1>2, <1>5, <2>1, <2>3 DEF List
  <2>5. Other(save'.target) = o
    BY <1>0, <1>2
  <2>6. live' = newest' /\ newest' # None
    BY <1>1, <1>5
  <2>7. broken' <= newest' /\ broken' # 0
    BY <1>1, <1>5 DEF List
  <2>8. save'.step \notin Part /\ save'.step \notin {"pick", "erase", "entries", "exceptions"}
    BY <1>2 DEF Part
  <2>. QED  BY <1>2, <2>1, <2>2, <2>4, <2>5, <2>6, <2>7, <2>8 DEF SaveInv
<1>9. KeptInv'
  <2>. SUFFICES ASSUME kept # None, broken + 1 <= 1 PROVE KeptAt(o)'
    BY <1>1, <1>3 DEF KeptInv
  <2>1. broken = 0
    BY <1>5
  <2>2. Whole(o) /\ slot[o].list = kept
    BY <1>1, <1>4, <2>1 DEF KeptInv, KeptAt
  <2>3. First' = o
    <3>1. HeaderValid(o)' /\ ~HeaderValid(t)'
      BY <1>2, <1>3, <2>2, WholeElsewhere, ErasedFields DEF Whole, HeaderValid
    <3>. QED  BY <1>3, <3>1, SlotFields, <1>1 DEF First, Slots
  <2>4. Whole(o)' /\ slot'[o].list = kept'
    BY <1>1, <1>2, <1>3, <2>2, WholeElsewhere
  <2>5. o = Other(save'.target)
    BY <1>0, <1>2
  <2>. QED  BY <2>3, <2>4, <2>5 DEF KeptAt
<1>. QED  BY <1>6, <1>7, <1>8, <1>9 DEF IInv

LEMMA WriteHeaderSafe == IInv /\ WriteHeader => IInv'
<1>. SUFFICES ASSUME IInv, WriteHeader PROVE IInv'
  OBVIOUS
<1>0. PICK t \in Slots, o \in Slots : t = save.target /\ o = Other(t)
  BY SlotFields, TwoSlots DEF IInv
<1>1. TypeOK /\ SlotInv /\ SaveInv /\ KeptInv /\ save.step = "header"
      /\ UNCHANGED <<sd, live, newest, cuts, kept, broken>>
  BY DEF IInv, WriteHeader
<1>2. /\ live = newest /\ newest # None /\ newest \in List /\ live \in List
      /\ slot[t] = Erased
      /\ slot[o].seq < save.seq /\ slot[o].list < newest /\ save.seq <= newest
      /\ broken # 0 /\ broken <= newest
  BY <1>0, <1>1, AllSteps DEF SaveInv, TypeOK
<1>3. /\ slot'[t].list = newest /\ slot'[t].seq = save.seq /\ slot'[t].part = slot[t].part
      /\ slot'[o] = slot[o]
      /\ save'.step = "index" /\ save'.target = t /\ save'.seq = save.seq
      /\ slot' \in [Slots -> SlotType]
      /\ save' \in [step : Steps, target : Slots, seq : 0 .. MaxLists]
  BY <1>0, <1>1, <1>2, HeaderFields
<1>4. t # o /\ \A s \in Slots : s = t \/ s = o
  BY <1>0, TwoSlots
<1>5. TypeOK'
  BY <1>1, <1>3 DEF TypeOK
<1>6. /\ HeaderValid(t)' /\ (HeaderValid(o)' <=> HeaderValid(o))
      /\ slot[o].seq \in Nat /\ slot[o].list \in Nat /\ save.seq \in Nat
  BY <1>1, <1>2, <1>3, WholeElsewhere, SlotFields DEF HeaderValid, List, None
<1>7. SlotInv'
  <2>1. /\ slot'[t].list <= newest' /\ slot'[t].seq <= slot'[t].list
        /\ ~HeaderValid(t)' => slot'[t] = Erased
    BY <1>1, <1>2, <1>3, <1>6 DEF List
  <2>2. /\ slot'[o].list <= newest' /\ slot'[o].seq <= slot'[o].list
        /\ ~HeaderValid(o)' => slot'[o] = Erased
    BY <1>1, <1>3, <1>6 DEF SlotInv
  <2>3. slot'[o].seq < slot'[t].seq /\ slot'[o].list < slot'[t].list
    BY <1>2, <1>3
  <2>4. /\ slot'["bl_a"].seq # slot'["bl_b"].seq
        /\ slot'["bl_a"].seq < slot'["bl_b"].seq <=> slot'["bl_a"].list < slot'["bl_b"].list
    <3>1. (t = "bl_a" /\ o = "bl_b") \/ (t = "bl_b" /\ o = "bl_a")
      BY <1>4 DEF Slots
    <3>2. slot'[o].seq \in Nat /\ slot'[o].list \in Nat /\ slot'[t].seq \in Nat
          /\ slot'[t].list \in Nat
      BY <1>2, <1>3, <1>6 DEF List
    <3>. QED  BY <2>3, <3>1, <3>2
  <2>. QED  BY <1>4, <2>1, <2>2, <2>4 DEF SlotInv
<1>8. SaveInv'
  <2>1. Other(save'.target) = o
    BY <1>0, <1>3
  <2>. QED  BY <1>1, <1>2, <1>3, <2>1, AllSteps DEF SaveInv
<1>9. KeptInv'
  <2>. SUFFICES ASSUME kept # None, broken <= 1 PROVE KeptAt(o)'
    BY <1>1, <1>4 DEF KeptInv
  <2>1. broken = 1
    BY <1>1, <1>2 DEF TypeOK
  <2>2. Whole(o) /\ slot[o].list = kept
    BY <1>0, <1>1 DEF KeptInv, KeptAt, Writing
  <2>3. First' = t
    <3>1. slot'[o].seq < slot'[t].seq /\ slot'[o].seq \in Nat /\ slot'[t].seq \in Nat
      BY <1>2, <1>3, <1>6
    <3>2. (t = "bl_a" /\ o = "bl_b") \/ (t = "bl_b" /\ o = "bl_a")
      BY <1>4 DEF Slots
    <3>. QED  BY <1>6, <3>1, <3>2 DEF First
  <2>4. Whole(o)' /\ slot'[o].list = kept'
    BY <1>1, <1>3, <2>2, WholeElsewhere
  <2>5. slot'[First'].list > kept'
    BY <1>1, <1>2, <1>3, <2>2, <2>3
  <2>6. o = Other(save'.target)
    BY <1>0, <1>3
  <2>. QED  BY <1>1, <2>1, <2>4, <2>5, <2>6 DEF KeptAt
<1>. QED  BY <1>5, <1>7, <1>8, <1>9 DEF IInv

LEMMA WritePartSafe == ASSUME NEW q \in Part PROVE IInv /\ WritePart(q) => IInv'
<1>. SUFFICES ASSUME IInv, WritePart(q) PROVE IInv'
  OBVIOUS
<1>0. PICK t \in Slots, o \in Slots : t = save.target /\ o = Other(t)
  BY SlotFields, TwoSlots DEF IInv
<1>1. TypeOK /\ SlotInv /\ SaveInv /\ KeptInv /\ save.step = q /\ q \in Writing
      /\ UNCHANGED <<sd, live, newest, cuts>>
  BY DEF IInv, WritePart, Writing
<1>2. /\ live = newest /\ newest # None /\ newest \in List /\ live \in List
      /\ slot[t].list = newest /\ slot[t].seq = save.seq
      /\ slot[o].seq < save.seq /\ slot[o].list < newest /\ save.seq <= newest
      /\ broken # 0 /\ broken <= newest
  BY <1>0, <1>1, AllSteps DEF SaveInv, TypeOK
<1>3. /\ slot'[t].list = newest /\ slot'[t].seq = save.seq
      /\ slot'[t].part = [slot[t].part EXCEPT ![q] = newest]
      /\ slot'[o] = slot[o]
      /\ save'.step = PartAfter(q) /\ save'.target = t /\ save'.seq = save.seq
      /\ slot' \in [Slots -> SlotType]
      /\ save' \in [step : Steps, target : Slots, seq : 0 .. MaxLists]
  BY <1>0, <1>1, <1>2, PartFields
<1>4. t # o /\ \A s \in Slots : s = t \/ s = o
  BY <1>0, TwoSlots
<1>5. slot[t].part \in [Part -> List \cup {None}]
  BY <1>1, SlotFields
<1>6. \/ PartAfter(q) = "open" /\ kept' = newest /\ broken' = 0
      \/ PartAfter(q) \in {"entries", "exceptions"} /\ kept' = kept /\ broken' = broken
  BY <1>2 DEF WritePart, PartAfter
<1>7. TypeOK'
  BY <1>1, <1>2, <1>3, <1>6 DEF TypeOK
<1>8. /\ HeaderValid(t)' /\ HeaderValid(t) /\ (HeaderValid(o)' <=> HeaderValid(o))
      /\ slot[o].seq \in Nat /\ slot[o].list \in Nat /\ save.seq \in Nat
  BY <1>1, <1>2, <1>3, WholeElsewhere, SlotFields DEF HeaderValid, List, None
<1>9. SlotInv'
  <2>1. \A s \in Slots : slot'[s].list = slot[s].list /\ slot'[s].seq = slot[s].seq
    BY <1>2, <1>3, <1>4
  <2>2. \A s \in Slots : ~HeaderValid(s)' => slot'[s] = Erased
    BY <1>1, <1>3, <1>4, <1>8 DEF SlotInv
  <2>3. \A s \in Slots : HeaderValid(s)' <=> HeaderValid(s)
    BY <1>4, <1>8
  <2>. QED  BY <1>1, <2>1, <2>2, <2>3, SlotFields DEF SlotInv
<1>10. slot'[t].part[q] = newest
       /\ \A r \in Part \ {q} : slot'[t].part[r] = slot[t].part[r]
  BY <1>3, <1>5
<1>11. First' = t
  <2>1. slot'[o].seq < slot'[t].seq /\ slot'[o].seq \in Nat /\ slot'[t].seq \in Nat
    BY <1>2, <1>3, <1>8
  <2>2. (t = "bl_a" /\ o = "bl_b") \/ (t = "bl_b" /\ o = "bl_a")
    BY <1>4 DEF Slots
  <2>. QED  BY <1>8, <2>1, <2>2 DEF First
<1>12. CASE PartAfter(q) = "open"
  <2>1. kept' = newest /\ broken' = 0
    BY <1>6, <1>12
  <2>2. \A r \in Parts(newest) : slot'[t].part[r] = newest
    <3>1. q \in {"entries", "exceptions"} /\ (q = "entries" => newest \notin Excepting)
      BY <1>2, <1>12 DEF PartAfter, Part
    <3>2. slot[t].part["index"] = newest
          /\ (q = "exceptions" => slot[t].part["entries"] = newest)
      BY <1>0, <1>1, <3>1 DEF SaveInv
    <3>. QED  BY <1>10, <3>1, <3>2 DEF Parts, Part
  <2>3. Whole(t)'
    BY <1>3, <1>8, <2>2 DEF Whole
  <2>4. save'.step \notin Writing /\ save'.step \notin Part
        /\ save'.step \notin {"pick", "erase", "header", "entries", "exceptions"}
    BY <1>3, <1>12 DEF Writing, Part
  <2>5. KeptInv'
    BY <1>3, <1>11, <2>1, <2>3, <2>4 DEF KeptInv, KeptAt
  <2>6. SaveInv'
    BY <1>1, <1>2, <2>1, <2>4 DEF SaveInv, List
  <2>. QED  BY <1>7, <1>9, <2>5, <2>6 DEF IInv
<1>13. CASE PartAfter(q) \in {"entries", "exceptions"}
  <2>1. kept' = kept /\ broken' = broken
    BY <1>6, <1>13
  <2>2. Other(save'.target) = o
    BY <1>0, <1>3
  <2>3. KeptInv'
    <3>. SUFFICES ASSUME kept # None, broken <= 1 PROVE KeptAt(o)'
      BY <1>4, <2>1 DEF KeptInv
    <3>1. broken = 1
      BY <1>1, <1>2 DEF TypeOK
    <3>2. Whole(o) /\ slot[o].list = kept
      BY <1>0, <1>1 DEF KeptInv, KeptAt
    <3>3. Whole(o)' /\ slot'[o].list = kept'
      BY <1>3, <2>1, <3>2, WholeElsewhere
    <3>4. slot'[First'].list > kept'
      BY <1>2, <1>3, <1>11, <2>1, <3>2
    <3>. QED  BY <2>1, <2>2, <3>1, <3>3, <3>4 DEF KeptAt
  <2>4. SaveInv'
    <3>1. save'.step \in {"entries", "exceptions"} /\ save'.step \in Part
          /\ save'.step \notin {"pick", "erase", "header"}
      BY <1>3, <1>13 DEF Part
    <3>2. slot'[t].part["index"] = newest
          /\ (save'.step = "exceptions" => slot'[t].part["entries"] = newest)
      <4>1. (q = "index" /\ save'.step = "entries") \/ (q = "entries" /\ save'.step = "exceptions")
        BY <1>3, <1>13 DEF PartAfter, Part
      <4>2. q = "entries" => slot[t].part["index"] = newest
        BY <1>0, <1>1 DEF SaveInv
      <4>. QED  BY <1>10, <4>1, <4>2 DEF Part
    <3>. QED  BY <1>1, <1>2, <1>3, <2>1, <2>2, <3>1, <3>2 DEF SaveInv
  <2>. QED  BY <1>7, <1>9, <2>3, <2>4 DEF IInv
<1>. QED  BY <1>6, <1>12, <1>13

-----------------------------------------------------------------------------
LEMMA InitSafe == Init => IInv
<1>. SUFFICES ASSUME Init PROVE IInv
  OBVIOUS
<1>1. \A s \in Slots : slot[s] = Erased
  BY DEF Init
<1>2. "bl_a" \in Slots /\ "bl_b" \in Slots
  BY DEF Slots
<1>3. TypeOK
  <2>1. save \in [step : Steps, target : Slots, seq : 0 .. MaxLists]
    BY <1>2 DEF Init, Steps
  <2>2. slot \in [Slots -> SlotType]
    BY ErasedFields DEF Init
  <2>. QED  BY <2>1, <2>2 DEF Init, TypeOK, None
<1>4. SlotInv
  BY <1>1, <1>2, ErasedFields DEF Init, SlotInv, HeaderValid, None
<1>5. SaveInv /\ KeptInv
  BY AllSteps DEF Init, SaveInv, KeptInv, Part, None
<1>. QED  BY <1>3, <1>4, <1>5 DEF IInv

LEMMA StepSafe == IInv /\ [Next]_vars => IInv'
<1>. SUFFICES ASSUME IInv, [Next]_vars PROVE IInv'
  OBVIOUS
<1>1. CASE UNCHANGED vars
  BY <1>1 DEF vars, IInv, TypeOK, SlotInv, SaveInv, KeptInv, KeptAt, HeaderValid, Whole, First,
              Target, NextSeq
<1>2. ASSUME NEW q \in Part, WritePart(q) PROVE IInv'
  BY <1>2, WritePartSafe
<1>. QED  BY <1>1, <1>2, BootSafe, ReloadSafe, PickSafe, EraseSafe, WriteHeaderSafe,
             OpenSdSafe, CloseSdSafe, FlashFailsSafe, SdFailsSafe, PowerCutSafe DEF Next

\* A boot that follows at most one broken save finds the last saved list or a
\* later one.
LEMMA KeptIsFound == IInv => BootFindsNewest
<1>. SUFFICES ASSUME IInv, kept # None, broken <= 1
              PROVE  /\ InFlash /\ slot[FlashPick].list >= kept
                     /\ broken = 0 => Content(FlashPick) = kept
  BY DEF BootFindsNewest
<1>1. TypeOK
  BY DEF IInv
<1>2. PICK s \in Slots : KeptAt(s)
  BY DEF IInv, KeptInv
<1>3. Loadable(s) /\ Whole(s) /\ slot[s].list = kept
  BY <1>2 DEF KeptAt, Whole, Loadable, Parts, Part
<1>4. InFlash
  BY <1>3 DEF InFlash
<1>5. kept \in Int /\ \A x \in Slots : slot[x].list \in Int
  BY <1>1, SlotFields DEF TypeOK, List, None
<1>6. CASE First = s
  BY <1>3, <1>4, <1>5, <1>6 DEF FlashPick, Content
<1>7. CASE First # s
  <2>1. broken = 1 /\ slot[First].list > kept /\ Other(First) = s
    BY <1>1, <1>2, <1>7, SlotFields, TwoSlots DEF KeptAt
  <2>2. CASE Loadable(First)
    BY <1>1, <1>4, <1>5, <2>1, <2>2, SlotFields DEF FlashPick
  <2>3. CASE ~Loadable(First)
    BY <1>3, <1>4, <1>5, <2>1, <2>3 DEF FlashPick
  <2>. QED  BY <2>2, <2>3
<1>. QED  BY <1>6, <1>7

\* Every reachable state is well typed: sequence numbers never outrun the lists.
THEOREM ListStoreTypeCorrect == Spec => []TypeOK
<1>1. IInv => TypeOK
  BY DEF IInv
<1>. QED  BY <1>1, InitSafe, StepSafe, PTL DEF Spec

\* A broken save costs at most itself: a complete copy of the last saved list
\* stays in the flash.
THEOREM SavedListSurvives == Spec => []CopySurvives
<1>1. IInv => CopySurvives
  BY DEF IInv, KeptInv, KeptAt, CopySurvives
<1>. QED  BY <1>1, InitSafe, StepSafe, PTL DEF Spec

\* After a completed save the next boot loads that list, and after one broken
\* save never an older one.
THEOREM NextBootIsCurrent == Spec => []BootFindsNewest
BY InitSafe, StepSafe, KeptIsFound, PTL DEF Spec

-----------------------------------------------------------------------------
(***************************************************************************)
(* A snapshot that landed is what a boot finds. The records of the new     *)
(* file are counted only by the patch of its header, the last write        *)
(* (SaverInv), and the file takes the old one's name only after that.      *)
(***************************************************************************)
\* The temporary file of a save in progress: nothing is counted until the patch,
\* and then every record unless a write failed.  The old file is gone between the
\* two last steps.
SaverInv ==
    /\ saver.pc # "idle" => temp # <<>>
    /\ saver.pc = "entry" => Len(temp[1].records) < saver.at
    /\ saver.pc = "patch" => Len(temp[1].records) <= Entries
    /\ saver.pc \in {"entry", "patch"} => temp[1].count = 0
    /\ saver.pc \in {"remove", "rename"} =>
           /\ temp[1].count <= Len(temp[1].records)
           /\ saver.undisturbed => temp[1].count = Len(temp[1].records)
    /\ saver.pc = "rename" => snapshot = <<>>

WsInv == WsTypeOK /\ SaverInv /\ SavedRepliesComeBack

\* A file that is written is one file.
LEMMA OneFile == ASSUME NEW t \in Seq(File), Len(t) <= 1, t # <<>>
                 PROVE  Len(t) = 1 /\ t[1] \in File /\ Head(t) = t[1] /\ DOMAIN t = {1}
  <1>1. Len(t) \in Nat /\ Len(t) # 0
    <2>1. Len(t) = 0 => t = <<>>
      BY EmptySeq, Zenon
    <2> QED BY <2>1
  <1>2. Len(t) = 1
    <2>1. \A n \in Nat : n # 0 /\ n <= 1 => n = 1
      OBVIOUS
    <2> QED BY <1>1, <2>1, Zenon
  <1>3. DOMAIN t = {1}
    BY <1>2
  <1> QED BY <1>2, <1>3

\* It stays one when it is changed.
LEMMA OneChanged == ASSUME NEW t \in Seq(File), Len(t) <= 1, t # <<>>, NEW g \in File
                    PROVE  /\ [t EXCEPT ![1] = g] \in Seq(File) /\ Len([t EXCEPT ![1] = g]) <= 1
                           /\ [t EXCEPT ![1] = g] # <<>> /\ [t EXCEPT ![1] = g][1] = g
  BY OneFile

\* No save under way is a state of the saver.
LEMMA SaverTyped == ASSUME WsTypeOK
                    PROVE  NotSaving \in SaverState /\ NotSaving.pc = "idle"
  BY DEF NotSaving, SaverState

\* The cache a boot starts from.
LEMMA EmptyTyped == /\ EmptyCache \in [1 .. Entries -> Seq(Reply)]
                    /\ \A e \in 1 .. Entries : Len(EmptyCache[e]) <= 1
  <1>1. <<>> \in Seq(Reply) /\ Len(<<>>) <= 1
    OBVIOUS
  <1> QED BY <1>1 DEF EmptyCache

\* Time, queries and power cuts move no file; a cut leaves what landed.
LEMMA WorldKeeps ==
    ASSUME WsInv, WsTick \/ CutPower \/ LoadSnapshot \/ \E e \in 1 .. Entries : StoreReply(e)
    PROVE  WsInv'
  <1>1. CASE WsTick
    BY <1>1 DEF WsTick, WsInv, WsTypeOK, SaverInv, SavedRepliesComeBack
  <1>2. ASSUME NEW e \in 1 .. Entries, StoreReply(e) PROVE WsInv'
    <2>1. uptime + 1 \in Reply
      BY <1>2 DEF StoreReply, WsInv, WsTypeOK, Reply
    <2>2. <<uptime + 1>> \in Seq(Reply) /\ Len(<<uptime + 1>>) <= 1
      BY <2>1
    <2>3. WsTypeOK'
      BY <1>2, <2>2 DEF StoreReply, WsInv, WsTypeOK
    <2> QED BY <1>2, <2>3 DEF StoreReply, WsInv, SaverInv, SavedRepliesComeBack
  <1>3. CASE CutPower
    <2>1. saver' = NotSaving /\ UNCHANGED <<snapshot, temp>> /\ landed' \in {<<>>, landed}
          /\ (saver.pc = "rename" => landed' = <<>>)
      BY <1>3 DEF CutPower
    <2>2. <<>> \in Seq(File) /\ Len(<<>>) <= 1
      OBVIOUS
    <2>3. landed' \in Seq(File) /\ Len(landed') <= 1
      BY <2>1, <2>2 DEF WsInv, WsTypeOK
    <2>4. WsTypeOK'
      BY <1>3, <2>1, <2>3, EmptyTyped, SaverTyped DEF CutPower, WsInv, WsTypeOK
    <2>5. saver'.pc = "idle"
      BY <2>1, SaverTyped DEF WsInv
    <2>6. SaverInv' /\ SavedRepliesComeBack'
      BY <2>1, <2>5 DEF WsInv, SaverInv, SavedRepliesComeBack
    <2> QED BY <2>4, <2>6 DEF WsInv
  <1>4. CASE LoadSnapshot
    <2>1. <<>> \in Seq(Reply) /\ <<1>> \in Seq(Reply) /\ Len(<<>>) <= 1 /\ Len(<<1>>) <= 1
      BY DEF Reply
    <2>2. \A e \in 1 .. Entries : replies'[e] \in {<<>>, <<1>>}
      BY <1>4 DEF LoadSnapshot
    <2>3. replies' \in [1 .. Entries -> Seq(Reply)] /\ \A e \in 1 .. Entries : Len(replies'[e]) <= 1
      <3>1. \A e \in 1 .. Entries : replies'[e] \in Seq(Reply) /\ Len(replies'[e]) <= 1
        BY <2>1, <2>2
      <3>2. replies' = [e \in 1 .. Entries |-> replies'[e]]
        BY <1>4 DEF LoadSnapshot
      <3> QED BY <3>1, <3>2
    <2>4. WsTypeOK'
      <3>1. UNCHANGED <<snapshot, temp, saver, saves, faults, landed>> /\ uptime' \in 0 .. MaxUptime
        BY <1>4 DEF LoadSnapshot
      <3>2. WsTypeOK
        BY DEF WsInv
      <3> QED BY <2>3, <3>1, <3>2 DEF WsTypeOK
    <2> QED BY <1>4, <2>4 DEF LoadSnapshot, WsInv, SaverInv, SavedRepliesComeBack
  <1> QED BY <1>1, <1>2, <1>3, <1>4

\* Where the saver is, is well typed wherever it goes.
LEMMA AfterEntryTyped ==
    ASSUME WsTypeOK, saver.pc = "entry"
    PROVE  /\ AfterEntry \in SaverState
           /\ \/ AfterEntry.pc = "entry" /\ AfterEntry.at = saver.at + 1 /\ saver.at < Entries
              \/ AfterEntry.pc = "patch" /\ saver.at = Entries
  <1>1. saver \in SaverState /\ saver.at \in 1 .. Entries
    BY DEF WsTypeOK, SaverState
  <1>2. CASE saver.at = Entries
    BY <1>1, <1>2 DEF AfterEntry, SaverState
  <1>3. CASE saver.at # Entries
    <2>1. saver.at + 1 \in 1 .. Entries
      BY <1>1, <1>3
    <2> QED BY <1>1, <1>3, <2>1 DEF AfterEntry, SaverState
  <1> QED BY <1>2, <1>3

LEMMA OpenKeeps == ASSUME WsInv, OpenTemp PROVE WsInv'
  <1>1. [count |-> 0, records |-> <<>>] \in File
    BY DEF File
  <1>2. /\ temp' = <<[count |-> 0, records |-> <<>>]>>
        /\ saver' = [pc |-> "entry", at |-> 1, began |-> uptime, undisturbed |-> TRUE]
    BY DEF OpenTemp, Saver
  <1>3. /\ temp' \in Seq(File) /\ Len(temp') <= 1 /\ temp' # <<>>
        /\ temp'[1].count = 0 /\ Len(temp'[1].records) = 0
    BY <1>1, <1>2
  <1>4. saver' \in SaverState /\ saver'.pc = "entry" /\ saver'.at = 1
    BY <1>2 DEF WsInv, WsTypeOK, SaverState
  <1>5. WsTypeOK'
    BY <1>3, <1>4 DEF OpenTemp, Saver, WsInv, WsTypeOK
  <1>6. SaverInv'
    BY <1>3, <1>4 DEF SaverInv
  <1>7. SavedRepliesComeBack'
    BY <1>4 DEF OpenTemp, WsInv, SavedRepliesComeBack
  <1> QED BY <1>5, <1>6, <1>7 DEF WsInv

LEMMA EntryKeeps == ASSUME WsInv, SaveEntry \/ PassOver PROVE WsInv'
  <1>0. /\ saver.pc = "entry" /\ saver' = AfterEntry
        /\ UNCHANGED <<uptime, replies, snapshot, saves, faults, landed>>
    BY DEF SaveEntry, PassOver, Saver
  <1>1. /\ temp \in Seq(File) /\ Len(temp) <= 1 /\ temp # <<>>
        /\ temp[1].count = 0 /\ Len(temp[1].records) < saver.at /\ saver.at \in 1 .. Entries
    BY <1>0 DEF WsInv, WsTypeOK, SaverInv, SaverState
  <1>2. /\ temp' \in Seq(File) /\ Len(temp') <= 1 /\ temp' # <<>>
        /\ temp'[1].count = 0 /\ Len(temp'[1].records) <= saver.at
    <2>1. CASE PassOver
      BY <1>1, <2>1, OneFile DEF PassOver, File
    <2>2. CASE SaveEntry
      <3> DEFINE held == {r \in ReplyOf(saver.at) : r + StaleMax > saver.began}
                 record == [entry |-> saver.at, reply |-> CHOOSE r \in held : TRUE]
                 grown == IF held = {} THEN temp[1].records ELSE Append(temp[1].records, record)
                 g == [temp[1] EXCEPT !.records = grown]
      <3>1. temp' = [temp EXCEPT ![1] = g]
        BY <1>1, <2>2, OneFile DEF SaveEntry
      <3>2. held # {} => record \in [entry : 1 .. Entries, reply : Reply]
        <4>1. held \subseteq Reply
          BY <1>1 DEF ReplyOf, WsInv, WsTypeOK
        <4> QED BY <1>1, <4>1
      <3>3. temp[1] \in File /\ temp[1].records \in Seq([entry : 1 .. Entries, reply : Reply])
        BY <1>1, OneFile DEF File
      <3> HIDE DEF held, record
      <3>4. grown \in Seq([entry : 1 .. Entries, reply : Reply])
            /\ Len(grown) <= Len(temp[1].records) + 1
        <4> DEFINE R == [entry : 1 .. Entries, reply : Reply]
                   old == temp[1].records
        <4>1. old \in Seq(R) /\ (held # {} => record \in R)
          BY <3>2, <3>3
        <4> HIDE DEF R, old
        <4>2. held # {} => Append(old, record) \in Seq(R) /\ Len(Append(old, record)) = Len(old) + 1
          BY <4>1
        <4>3. Len(old) \in Nat
          BY <4>1
        <4>4. grown = IF held = {} THEN old ELSE Append(old, record)
          BY DEF old
        <4> HIDE DEF grown
        <4>5. grown \in Seq(R) /\ Len(grown) <= Len(old) + 1
          BY <4>1, <4>2, <4>3, <4>4
        <4> QED BY <4>5 DEF R, old
      <3> HIDE DEF grown
      <3>5. g \in File /\ g.count = 0 /\ g.records = grown
        BY <1>1, <3>3, <3>4 DEF File
      <3> HIDE DEF g
      <3>6. temp' \in Seq(File) /\ Len(temp') <= 1 /\ temp' # <<>> /\ temp'[1] = g
        BY <1>1, <3>1, <3>5, OneChanged
      <3> QED BY <1>1, <3>3, <3>4, <3>5, <3>6
    <2> QED BY <2>1, <2>2
  <1>3. /\ saver' \in SaverState
        /\ \/ saver'.pc = "entry" /\ saver'.at = saver.at + 1
           \/ saver'.pc = "patch" /\ saver.at = Entries
    BY <1>0, AfterEntryTyped DEF WsInv
  <1>4. WsTypeOK'
    BY <1>0, <1>2, <1>3 DEF WsInv, WsTypeOK
  <1>5. SaverInv'
    <2>1. temp[1].records \in Seq([entry : 1 .. Entries, reply : Reply])
          /\ temp'[1].records \in Seq([entry : 1 .. Entries, reply : Reply])
      BY <1>1, <1>2, OneFile DEF File
    <2> QED BY <1>1, <1>2, <1>3, <2>1 DEF SaverInv
  <1>6. SavedRepliesComeBack'
    BY <1>0, <1>3 DEF WsInv, SavedRepliesComeBack
  <1> QED BY <1>4, <1>5, <1>6 DEF WsInv

LEMMA FailsKeeps == ASSUME WsInv, WriteFails PROVE WsInv'
  <1>1. /\ saver.pc \in {"entry", "patch"} /\ saver \in SaverState
        /\ temp \in Seq(File) /\ Len(temp) <= 1 /\ temp # <<>> /\ temp[1].count = 0
        /\ saver.pc = "entry" => Len(temp[1].records) < saver.at
    BY DEF WriteFails, WsInv, WsTypeOK, SaverInv
  <1>2. /\ saver' \in SaverState /\ ~saver'.undisturbed
        /\ saver.pc = "entry" => saver'.pc = "patch"
        /\ saver.pc = "patch" => saver'.pc = "remove"
    <2>1. saver' = [saver EXCEPT !.pc = IF saver.pc = "entry" THEN "patch" ELSE "remove",
                                 !.undisturbed = FALSE]
      BY DEF WriteFails, Saver
    <2> QED BY <1>1, <2>1 DEF SaverState
  <1>3. UNCHANGED <<uptime, replies, snapshot, temp, saves, landed>> /\ faults' \in 0 .. MaxFaults
    BY DEF WriteFails, Saver, WsInv, WsTypeOK
  <1>4. Len(temp[1].records) \in Nat /\ saver.at \in 1 .. Entries
    BY <1>1, OneFile DEF File, SaverState
  <1>5. WsTypeOK'
    BY <1>2, <1>3 DEF WsInv, WsTypeOK
  <1>6. SaverInv'
    BY <1>1, <1>2, <1>3, <1>4 DEF SaverInv
  <1>7. SavedRepliesComeBack'
    BY <1>1, <1>2, <1>3 DEF WsInv, SavedRepliesComeBack
  <1> QED BY <1>5, <1>6, <1>7 DEF WsInv

LEMMA PatchKeeps == ASSUME WsInv, PatchCount PROVE WsInv'
  <1>1. /\ saver.pc = "patch" /\ saver \in SaverState
        /\ temp \in Seq(File) /\ Len(temp) <= 1 /\ temp # <<>>
        /\ Len(temp[1].records) <= Entries
    BY DEF PatchCount, WsInv, WsTypeOK, SaverInv
  <1> DEFINE g == [temp[1] EXCEPT !.count = Len(temp[1].records)]
  <1>2. temp[1] \in File /\ Len(temp[1].records) \in 0 .. Entries
    <2>1. temp[1] \in File
      BY <1>1, OneFile
    <2>2. Len(temp[1].records) \in Nat
      BY <2>1 DEF File
    <2> QED BY <1>1, <2>1, <2>2
  <1>3. g \in File /\ g.records = temp[1].records /\ g.count = Len(temp[1].records)
    BY <1>2 DEF File
  <1>4. temp' = [temp EXCEPT ![1] = g]
    BY DEF PatchCount
  <1> HIDE DEF g
  <1>5. temp' \in Seq(File) /\ Len(temp') <= 1 /\ temp' # <<>> /\ temp'[1] = g
    BY <1>1, <1>3, <1>4, OneChanged
  <1>6. saver' \in SaverState /\ saver'.pc = "remove"
    BY <1>1 DEF PatchCount, Saver, SaverState
  <1>7. UNCHANGED <<uptime, replies, snapshot, saves, faults, landed>>
    BY DEF PatchCount, Saver
  <1>8. WsTypeOK'
    BY <1>5, <1>6, <1>7 DEF WsInv, WsTypeOK
  <1>9. SaverInv'
    BY <1>2, <1>3, <1>5, <1>6 DEF SaverInv
  <1>10. SavedRepliesComeBack'
    BY <1>1, <1>6, <1>7 DEF WsInv, SavedRepliesComeBack
  <1> QED BY <1>8, <1>9, <1>10 DEF WsInv

LEMMA RemoveKeeps == ASSUME WsInv, RemoveOld PROVE WsInv'
  <1>1. saver \in SaverState /\ saver.pc = "remove"
    BY DEF RemoveOld, WsInv, WsTypeOK
  <1>2. saver' \in SaverState /\ saver'.pc = "rename" /\ saver'.undisturbed = saver.undisturbed
    BY <1>1 DEF RemoveOld, Saver, SaverState
  <1>3. snapshot' = <<>> /\ UNCHANGED <<uptime, replies, temp, saves, faults, landed>>
    BY DEF RemoveOld, Saver
  <1>4. snapshot' \in Seq(File) /\ Len(snapshot') <= 1
    BY <1>3
  <1>5. WsTypeOK'
    BY <1>2, <1>3, <1>4 DEF WsInv, WsTypeOK
  <1>6. SaverInv' /\ SavedRepliesComeBack'
    BY <1>1, <1>2, <1>3 DEF WsInv, SaverInv, SavedRepliesComeBack
  <1> QED BY <1>5, <1>6 DEF WsInv

LEMMA RenameKeeps == ASSUME WsInv, RenameTemp PROVE WsInv'
  <1>1. saver.pc = "rename" /\ snapshot = <<>> /\ snapshot' = temp /\ temp' = <<>>
        /\ saver' = NotSaving /\ landed' = IF saver.undisturbed THEN temp ELSE <<>>
    BY DEF RenameTemp, Saver, WsInv, SaverInv
  <1>2. /\ temp \in Seq(File) /\ Len(temp) <= 1 /\ temp # <<>> /\ Head(temp) = temp[1]
        /\ temp[1].count <= Len(temp[1].records)
        /\ saver.undisturbed => temp[1].count = Len(temp[1].records)
    <2>1. temp \in Seq(File) /\ Len(temp) <= 1 /\ temp # <<>>
      BY <1>1 DEF WsInv, WsTypeOK, SaverInv
    <2> QED BY <1>1, <2>1, OneFile DEF WsInv, SaverInv
  <1>3. saver' \in SaverState /\ saver'.pc = "idle"
    BY <1>1, SaverTyped DEF WsInv
  <1>4. <<>> \in Seq(File) /\ Len(<<>>) <= 1
    OBVIOUS
  <1>5. \A f \in {snapshot', temp', landed'} : f \in Seq(File) /\ Len(f) <= 1
    BY <1>1, <1>2, <1>4
  <1>6. WsTypeOK'
    BY <1>3, <1>5 DEF RenameTemp, Saver, WsInv, WsTypeOK
  <1>7. SaverInv' /\ SavedRepliesComeBack'
    BY <1>1, <1>2, <1>3 DEF SaverInv, SavedRepliesComeBack
  <1> QED BY <1>6, <1>7 DEF WsInv

LEMMA WsInitially == WsInit => WsInv
  <1> SUFFICES ASSUME WsInit PROVE WsInv
    OBVIOUS
  <1>1. <<>> \in Seq(File) /\ Len(<<>>) <= 1
    OBVIOUS
  <1>2. NotSaving \in SaverState /\ NotSaving.pc = "idle"
    BY DEF NotSaving, SaverState
  <1>3. \A f \in {snapshot, temp, landed} : f \in Seq(File) /\ Len(f) <= 1
    BY <1>1 DEF WsInit
  <1>4. WsTypeOK
    BY <1>2, <1>3, EmptyTyped DEF WsInit, WsTypeOK
  <1>5. SaverInv /\ SavedRepliesComeBack
    BY <1>2 DEF WsInit, SaverInv, SavedRepliesComeBack
  <1> QED BY <1>4, <1>5 DEF WsInv

LEMMA WsKeeps == WsInv /\ [WsNext]_wsVars => WsInv'
  <1> SUFFICES ASSUME WsInv, [WsNext]_wsVars PROVE WsInv'
    OBVIOUS
  <1>1. CASE WsNext
    BY <1>1, WorldKeeps, OpenKeeps, EntryKeeps, FailsKeeps, PatchKeeps, RemoveKeeps, RenameKeeps
       DEF WsNext
  <1>2. CASE UNCHANGED wsVars
    BY <1>2 DEF wsVars, WsInv, WsTypeOK, SaverInv, SavedRepliesComeBack
  <1> QED BY <1>1, <1>2

\* The inductive invariant of the saved cache.
LEMMA WsAlways == WsSpec => []WsInv
  BY WsInitially, WsKeeps, PTL DEF WsSpec

\* warm_boot: a save that nothing disturbed is what a boot finds, every record of
\* it, until the next save takes its place; and a file is read no further than it
\* was written.
THEOREM SnapshotComesBack == WsSpec => []SavedRepliesComeBack
  <1>1. WsInv => SavedRepliesComeBack
    BY DEF WsInv
  <1> QED BY <1>1, WsAlways, PTL

\* warm_boot: every reachable state is well typed; in particular there is at most
\* one file of each name.
THEOREM WarmTypeCorrect == WsSpec => []WsTypeOK
  <1>1. WsInv => WsTypeOK
    BY DEF WsInv
  <1> QED BY <1>1, WsInitially, WsKeeps, PTL DEF WsSpec


-----------------------------------------------------------------------------
(***************************************************************************)
(* What an access, bypass or rewrite list was acknowledged to hold is      *)
(* there, and is found. The places are saved in order and one by one, so   *)
(* what is first with its key must be first both in the list and among     *)
(* the places after each of the stores still to come (StoreInv). That a    *)
(* place shows an older entry of the key never matters, because an edit    *)
(* moves no standing entry further down than its stored copy.              *)
(***************************************************************************)
\* The first entry with its key in the list, and among the places.
FirstIn(list, i, e) == i \in DOMAIN list /\ list[i] = e /\ \A j \in DOMAIN list : j < i => list[j].key # e.key
FirstAmong(places, p, e) ==
    p \in Place /\ places[p] = <<e>> /\ \A q \in Place : q < p => places[q] = <<>> \/ places[q][1].key # e.key

PlaceOf(list, p) == IF p <= Len(list) THEN <<list[p]>> ELSE <<>>

\* The places when those before a are saved.
Saved(a) == [p \in Place |-> IF p < a THEN PlaceOf(entries, p) ELSE keys[p]]

\* At rest, what is first in the list is first among the places, and not before.
\* In a save, what stands is first among the places after each of its stores.
StoreInv ==
    /\ edit.on => edit.powered
    /\ edit.powered => \A e \in standing \cup edit.adds : \E i \in Place : FirstIn(entries, i, e)
    /\ edit.powered /\ ~edit.on => \A e \in Entry : \A i \in Place :
           FirstIn(entries, i, e) => \E p \in Place : i <= p /\ FirstAmong(keys, p, e)
    /\ edit.on =>
         /\ \A p \in Place : p < edit.at => keys[p] = PlaceOf(entries, p)
         /\ \A e \in standing : \A a \in edit.at .. StoreMax + 1 : \E p \in Place : FirstAmong(Saved(a), p, e)
    /\ ~edit.powered => \A e \in standing : \E p \in Place : FirstAmong(keys, p, e)

\* The table under the walk is the live one until a list is published, and then the
\* spare one until another is.
ZoneInv ==
    /\ edit.powered => zones.table[zones.live] = zones.stored
    /\ ~edit.powered => zones.walk = NoWalk
    /\ zones.walk # NoWalk /\ zones.published = 0 =>
           zones.walk = zones.live /\ zones.table[zones.walk] = zones.reads
    /\ zones.walk # NoWalk /\ zones.published = 1 =>
           zones.walk # zones.live /\ zones.table[zones.walk] = zones.reads

CsInv == CsTypeOK /\ StoreInv /\ ZoneInv

-----------------------------------------------------------------------------
\* The number of places is positive.
LEMMA StoreNumbers ==
    /\ StoreMax \in Nat \ {0} /\ MaxOps \in Nat /\ MaxOutages \in Nat /\ Place \subseteq Nat
    /\ \A p \in Place : p > 0 /\ p <= StoreMax
    /\ 1 \in 1 .. StoreMax + 1
  BY StoreAssumption DEF Place

\* The list and its entries.
LEMMA ListTyped ==
    ASSUME CsTypeOK
    PROVE  /\ Len(entries) \in Nat /\ Len(entries) <= StoreMax /\ DOMAIN entries = 1 .. Len(entries)
           /\ DOMAIN entries \subseteq Place
           /\ \A i \in DOMAIN entries : i \in Nat /\ entries[i] \in Entry
  <1>1. /\ Len(entries) \in Nat /\ Len(entries) <= StoreMax /\ DOMAIN entries = 1 .. Len(entries)
        /\ \A i \in DOMAIN entries : entries[i] \in Entry
    BY DEF CsTypeOK
  <1>2. \A n \in Nat : n <= StoreMax => 1 .. n \subseteq Place
    BY StoreNumbers DEF Place
  <1> QED BY <1>1, <1>2

\* A place is empty, or holds one entry.
LEMMA KeyTyped ==
    ASSUME CsTypeOK, NEW p \in Place
    PROVE  \/ keys[p] = <<>>
           \/ \E e \in Entry : keys[p] = <<e>> /\ keys[p][1] = e /\ Head(keys[p]) = e /\ keys[p] # <<>>
  <1>1. keys[p] \in {<<>>} \cup {<<e>> : e \in Entry}
    BY DEF CsTypeOK
  <1>2. \A e \in Entry : <<e>>[1] = e /\ Head(<<e>>) = e /\ <<e>> # <<>>
    OBVIOUS
  <1> QED BY <1>1, <1>2

\* What a look-up finds is the first entry of the key.
LEMMA FirstAtIsFirst ==
    ASSUME CsTypeOK, NEW k, At(k) # {}
    PROVE  /\ FirstAt(k) \in DOMAIN entries /\ entries[FirstAt(k)].key = k
           /\ \A j \in DOMAIN entries : j < FirstAt(k) => entries[j].key # k
           /\ FirstIn(entries, FirstAt(k), entries[FirstAt(k)])
  <1>1. At(k) \in SUBSET Nat
    BY ListTyped DEF At
  <1>2. \E i \in At(k) : \A j \in At(k) : i <= j
    BY <1>1, HasLeast
  <1>3. FirstAt(k) \in At(k) /\ \A j \in At(k) : FirstAt(k) <= j
    BY <1>2 DEF FirstAt
  <1>4. FirstAt(k) \in DOMAIN entries /\ entries[FirstAt(k)].key = k /\ FirstAt(k) \in Nat
    BY <1>1, <1>3 DEF At
  <1>5. \A j \in DOMAIN entries : j < FirstAt(k) => entries[j].key # k
    BY <1>3, <1>4, ListTyped DEF At
  <1> QED BY <1>4, <1>5 DEF FirstIn

\* Who is first in a list, and among the places no earlier, is first among the
\* places at every point of a save of the list.
LEMMA FirstThroughout ==
    ASSUME NEW list \in Seq(Entry), NEW places, NEW e \in Entry, NEW n \in Place, NEW p \in Place, n <= p,
           FirstIn(list, n, e), FirstAmong(places, p, e), NEW a \in Nat
    PROVE  \E r \in Place : FirstAmong([q \in Place |-> IF q < a THEN PlaceOf(list, q) ELSE places[q]], r, e)
  <1> DEFINE mix == [q \in Place |-> IF q < a THEN PlaceOf(list, q) ELSE places[q]]
  <1>1. /\ n \in Nat /\ p \in Nat /\ Len(list) \in Nat /\ DOMAIN list = 1 .. Len(list)
        /\ \A q \in Place : q \in Nat /\ q > 0
    BY StoreNumbers
  <1>2. n <= Len(list) /\ list[n] = e
    BY <1>1 DEF FirstIn
  <1>3. \A q \in Place : q < n => PlaceOf(list, q) = <<list[q]>> /\ PlaceOf(list, q)[1].key # e.key
    <2> TAKE q \in Place
    <2> HAVE q < n
    <2>1. q <= Len(list) /\ q \in DOMAIN list
      BY <1>1, <1>2
    <2> QED BY <2>1 DEF FirstIn, PlaceOf
  <1>4. CASE n < a
    <2>1. mix[n] = <<e>>
      BY <1>2, <1>4 DEF PlaceOf
    <2>2. \A q \in Place : q < n => mix[q] = <<>> \/ mix[q][1].key # e.key
      BY <1>1, <1>3, <1>4
    <2> QED BY <2>1, <2>2 DEF FirstAmong
  <1>5. CASE ~(n < a)
    <2>1. mix[p] = <<e>>
      <3>1. ~(p < a)
        BY <1>1, <1>5
      <3> QED BY <3>1 DEF FirstAmong
    <2>2. \A q \in Place : q < p => mix[q] = <<>> \/ mix[q][1].key # e.key
      <3> TAKE q \in Place
      <3> HAVE q < p
      <3>1. CASE q < a
        <4>1. q < n
          BY <1>1, <1>5, <3>1
        <4> QED BY <1>3, <3>1, <4>1
      <3>2. CASE ~(q < a)
        BY <3>2 DEF FirstAmong
      <3> QED BY <3>1, <3>2
    <2> QED BY <2>1, <2>2 DEF FirstAmong
  <1> QED BY <1>4, <1>5

\* No edit under way, with and without power.
LEMMA NoEditTyped == /\ NoEdit \in EditState /\ NoEdit.powered = TRUE /\ NoEdit.on = FALSE /\ NoEdit.adds = {}
                     /\ NoEdit.at = 1
                     /\ [NoEdit EXCEPT !.powered = FALSE] \in EditState
                     /\ [NoEdit EXCEPT !.powered = FALSE].powered = FALSE
                     /\ [NoEdit EXCEPT !.powered = FALSE].on = FALSE
                     /\ [NoEdit EXCEPT !.powered = FALSE].adds = {}
  BY StoreNumbers DEF NoEdit, EditState

\* The invariant of the store is about the list, the places, the edit and what
\* stands.
LEMMA StoreSteady ==
    ASSUME StoreInv, UNCHANGED <<entries, keys, edit, standing>>
    PROVE  StoreInv'
  <1>0. entries' = entries /\ keys' = keys /\ edit' = edit /\ standing' = standing
    OBVIOUS
  <1>1. \A a : Saved(a)' = Saved(a)
    BY <1>0 DEF Saved, PlaceOf
  <1>2. (\A p \in Place : p < edit.at => keys[p] = PlaceOf(entries, p))'
            <=> \A p \in Place : p < edit.at => keys[p] = PlaceOf(entries, p)
    BY <1>0 DEF PlaceOf
  <1>3. \A i, e : FirstIn(entries, i, e)' <=> FirstIn(entries, i, e)
    BY <1>0 DEF FirstIn
  <1>4. \A p, e : FirstAmong(keys, p, e)' <=> FirstAmong(keys, p, e)
    BY <1>0 DEF FirstAmong
  <1>5. \A a, p, e : FirstAmong(Saved(a), p, e)' <=> FirstAmong(Saved(a), p, e)
    BY <1>1 DEF FirstAmong
  <1>6. (edit.on => edit.powered)'
    BY <1>0 DEF StoreInv
  <1>7. (edit.powered => \A e \in standing \cup edit.adds : \E i \in Place : FirstIn(entries, i, e))'
    BY <1>0 DEF StoreInv, FirstIn
  <1>8. (edit.powered /\ ~edit.on => \A e \in Entry : \A i \in Place :
             FirstIn(entries, i, e) => \E p \in Place : i <= p /\ FirstAmong(keys, p, e))'
    <2>1. edit.powered /\ ~edit.on => \A e \in Entry : \A i \in Place :
              FirstIn(entries, i, e) => \E p \in Place : i <= p /\ FirstAmong(keys, p, e)
      BY DEF StoreInv
    <2> QED BY <1>0, <1>3, <1>4, <2>1, Zenon
  <1>9. (edit.on => \A e \in standing : \A a \in edit.at .. StoreMax + 1 :
             \E p \in Place : FirstAmong(Saved(a), p, e))'
    BY <1>0, <1>5 DEF StoreInv
  <1>10. (~edit.powered => \A e \in standing : \E p \in Place : FirstAmong(keys, p, e))'
    <2>1. ~edit.powered => \A e \in standing : \E p \in Place : FirstAmong(keys, p, e)
      BY DEF StoreInv
    <2> QED BY <1>0, <1>4, <2>1, Zenon
  <1>11. (edit.on => \A p \in Place : p < edit.at => keys[p] = PlaceOf(entries, p))'
    BY <1>0, <1>2 DEF StoreInv
  <1> QED BY <1>6, <1>7, <1>8, <1>9, <1>10, <1>11 DEF StoreInv

LEMMA CsInitHolds == CsInit => CsInv
  <1> SUFFICES ASSUME CsInit PROVE CsInv
    OBVIOUS
  <1>1. (CHOOSE l \in ZoneList : TRUE) \in ZoneList
    BY StoreAssumption
  <1> DEFINE z == CHOOSE l \in ZoneList : TRUE
  <1> HIDE DEF z
  <1>2. zones = [table |-> [t \in {0, 1} |-> z], live |-> 0, stored |-> z, walk |-> NoWalk,
                 reads |-> z, published |-> 0]
    BY DEF CsInit, z
  <1>3. zones \in ZoneState /\ zones.walk = NoWalk /\ zones.table[zones.live] = zones.stored
    BY <1>1, <1>2 DEF ZoneState, z
  <1>4. entries = <<>> /\ entries \in Seq(Entry) /\ Len(entries) = 0 /\ DOMAIN entries = {}
    BY DEF CsInit
  <1>5. keys \in [Place -> {<<>>} \cup {<<e>> : e \in Entry}]
    BY DEF CsInit
  <1>6. /\ Len(entries) <= StoreMax /\ ops \in 0 .. MaxOps /\ outages \in 0 .. MaxOutages
        /\ edit = NoEdit
        /\ standing = {}
    BY <1>4, StoreNumbers DEF CsInit
  <1>7. CsTypeOK
    BY <1>3, <1>4, <1>5, <1>6, NoEditTyped DEF CsTypeOK
  <1>8. StoreInv
    BY <1>4, <1>6, NoEditTyped DEF StoreInv, FirstIn
  <1>9. ZoneInv
    BY <1>3, <1>6, NoEditTyped DEF ZoneInv
  <1> QED BY <1>7, <1>8, <1>9 DEF CsInv

-----------------------------------------------------------------------------
\* An edit keeps what stands if it moves no entry that stands further down.
LEMMA EditKeeps ==
    ASSUME CsInv, May, NEW list \in Seq(Entry), Len(list) <= StoreMax, NEW adds \in SUBSET Entry,
           Edits(list, adds), standing' \subseteq standing,
           \A e \in adds : \E i \in Place : FirstIn(list, i, e),
           \A e \in standing' : \A i \in Place : FirstIn(entries, i, e) =>
               \E n \in Place : n <= i /\ FirstIn(list, n, e)
    PROVE  CsInv'
  <1>1. /\ edit.powered /\ ~edit.on /\ ops < MaxOps /\ ops' = ops + 1
        /\ entries' = list /\ edit' = [NoEdit EXCEPT !.on = TRUE, !.adds = adds]
        /\ UNCHANGED <<keys, outages, zones>>
    BY DEF May, Edits
  <1>2. /\ edit' \in EditState /\ edit'.on = TRUE /\ edit'.powered = TRUE /\ edit'.adds = adds
        /\ edit'.at = 1
    BY <1>1, NoEditTyped DEF EditState
  <1>3. ops' \in 0 .. MaxOps /\ standing' \subseteq Entry
    BY <1>1, StoreNumbers DEF CsInv, CsTypeOK
  <1>4. CsTypeOK'
    BY <1>1, <1>2, <1>3 DEF CsInv, CsTypeOK
  <1>5. \A e \in standing' : \E i, p \in Place : FirstIn(entries, i, e) /\ i <= p /\ FirstAmong(keys, p, e)
    BY <1>1, <1>3 DEF CsInv, StoreInv
  <1>6. ASSUME NEW e \in standing'
        PROVE  /\ \E n \in Place : FirstIn(list, n, e)
               /\ \A a \in 1 .. StoreMax + 1 : \E p \in Place : FirstAmong(Saved(a)', p, e)
    <2>1. PICK i \in Place, p \in Place : FirstIn(entries, i, e) /\ i <= p /\ FirstAmong(keys, p, e)
      BY <1>5, <1>6
    <2>2. PICK n \in Place : n <= i /\ FirstIn(list, n, e)
      BY <1>6, <2>1
    <2>3. n <= p
      BY <2>1, <2>2, StoreNumbers
    <2>4. e \in Entry
      BY <1>3, <1>6
    <2>5. \A a \in 1 .. StoreMax + 1 : Saved(a)' = [q \in Place |-> IF q < a THEN PlaceOf(list, q) ELSE keys[q]]
      BY <1>1 DEF Saved, PlaceOf
    <2>6. \A a \in 1 .. StoreMax + 1 : a \in Nat
      BY StoreNumbers
    <2> QED BY <2>1, <2>2, <2>3, <2>4, <2>5, <2>6, FirstThroughout
  <1>7. \A p \in Place : ~(p < 1)
    BY StoreNumbers
  <1>8. StoreInv'
    BY <1>1, <1>2, <1>6, <1>7 DEF StoreInv, FirstIn, FirstAmong
  <1>9. ZoneInv'
    BY <1>1, <1>2 DEF CsInv, ZoneInv
  <1> QED BY <1>4, <1>8, <1>9 DEF CsInv

\* An edit of a key lets nothing of the key stand.
LEMMA OthersStand == ASSUME NEW k, standing' = Others(k)
                     PROVE  standing' \subseteq standing /\ \A e \in standing' : e.key # k
  BY DEF Others

\* acl_add, bypass_add, rewrite_set: in place, or at the end.
LEMMA PutKeeps == ASSUME CsInv, NEW k \in Key, NEW v \in Value, Put(k, v) PROVE CsInv'
  <1> DEFINE new == [key |-> k, value |-> v]
             f == FirstAt(k)
  <1>1. new \in Entry /\ new.key = k /\ standing' = Others(k) /\ May
    BY DEF Entry, Put
  <1>2. /\ entries \in Seq(Entry) /\ Len(entries) \in Nat /\ Len(entries) <= StoreMax
        /\ DOMAIN entries = 1 .. Len(entries) /\ StoreMax \in Nat
    BY ListTyped, StoreNumbers DEF CsInv, CsTypeOK
  <1>3. CASE At(k) # {}
    <2> DEFINE list == [entries EXCEPT ![f].value = v]
               changed == [entries[f] EXCEPT !.value = v]
    <2>1. Edits(list, {new})
      BY <1>3 DEF Put
    <2>2. f \in DOMAIN entries /\ entries[f].key = k /\ \A j \in DOMAIN entries : j < f => entries[j].key # k
      BY <1>3, FirstAtIsFirst DEF CsInv
    <2> HIDE DEF f
    <2>3. changed = new
      <3>1. entries[f] \in Entry
        BY <1>2, <2>2
      <3> QED BY <2>2, <3>1 DEF Entry
    <2>4. list = [entries EXCEPT ![f] = new]
      BY <2>3
    <2> HIDE DEF changed, list, new
    <2>5. /\ list \in Seq(Entry) /\ Len(list) = Len(entries) /\ DOMAIN list = DOMAIN entries
          /\ list[f] = new
          /\ \A i \in DOMAIN entries : i # f => list[i] = entries[i]
      BY <1>1, <1>2, <2>2, <2>4
    <2>6. Len(list) <= StoreMax
      BY <1>2, <2>5
    <2>7. f \in Place /\ FirstIn(list, f, new)
      <3>1. f \in Place
        BY <2>2, ListTyped DEF CsInv
      <3>2. \A j \in DOMAIN list : j < f => list[j].key # k
        BY <1>2, <2>2, <2>5
      <3> QED BY <1>1, <2>2, <2>5, <3>1, <3>2 DEF FirstIn
    <2>8. \A e \in standing' : \A i \in Place : FirstIn(entries, i, e) => i <= i /\ FirstIn(list, i, e)
      <3> TAKE e \in standing'
      <3> TAKE i \in Place
      <3> HAVE FirstIn(entries, i, e)
      <3>1. e.key # k /\ i # f /\ i <= i
        BY <1>1, <2>2, OthersStand, StoreNumbers DEF FirstIn
      <3>2. \A j \in DOMAIN entries : list[j].key = entries[j].key
        BY <1>1, <2>2, <2>5
      <3> QED BY <2>5, <3>1, <3>2 DEF FirstIn
    <2> QED BY <1>1, <2>1, <2>5, <2>6, <2>7, <2>8, OthersStand, EditKeeps
  <1>4. CASE At(k) = {}
    <2> DEFINE list == Append(entries, new)
    <2>1. Edits(list, {new}) /\ Len(entries) < StoreMax
      BY <1>4 DEF Put
    <2>2. \A i \in DOMAIN entries : entries[i].key # k
      BY <1>4 DEF At
    <2> HIDE DEF new
    <2>3. /\ list \in Seq(Entry) /\ Len(list) = Len(entries) + 1 /\ list[Len(entries) + 1] = new
          /\ \A i \in DOMAIN entries : list[i] = entries[i]
      BY <1>1, <1>2
    <2> HIDE DEF list
    <2>4. /\ DOMAIN list = 1 .. Len(entries) + 1 /\ Len(list) <= StoreMax
          /\ Len(entries) + 1 \in DOMAIN list
          /\ \A j \in DOMAIN list : j < Len(entries) + 1 => j \in DOMAIN entries
          /\ \A j \in DOMAIN entries : j \in DOMAIN list /\ j < Len(entries) + 1
      BY <1>2, <2>1, <2>3
    <2>5. Len(entries) + 1 \in Place /\ FirstIn(list, Len(entries) + 1, new)
      <3>1. Len(entries) + 1 \in Place
        BY <1>2, <2>1 DEF Place
      <3> QED BY <1>1, <2>2, <2>3, <2>4, <3>1 DEF FirstIn
    <2>6. \A e \in standing' : \A i \in Place : FirstIn(entries, i, e) => i <= i /\ FirstIn(list, i, e)
      <3> TAKE e \in standing'
      <3> TAKE i \in Place
      <3> HAVE FirstIn(entries, i, e)
      <3>1. i \in DOMAIN entries /\ i \in Nat /\ i <= i
        BY <1>2 DEF FirstIn
      <3>2. \A j \in DOMAIN list : j < i => j \in DOMAIN entries
        BY <1>2, <2>4, <3>1
      <3> QED BY <2>3, <2>4, <3>1, <3>2 DEF FirstIn
    <2> QED BY <1>1, <2>1, <2>3, <2>4, <2>5, <2>6, OthersStand, EditKeeps
  <1> QED BY <1>3, <1>4

LEMMA PutKnownKeeps == ASSUME CsInv, NEW k \in Key, PutKnown(k) PROVE CsInv'
  <1> DEFINE e == entries[FirstAt(k)]
  <1>1. /\ edit.powered /\ ~edit.on /\ ops < MaxOps /\ ops' = ops + 1 /\ At(k) # {}
        /\ standing' = Others(k) \cup {e}
        /\ UNCHANGED <<entries, keys, edit, outages, zones>>
    BY DEF PutKnown, May
  <1>2. FirstIn(entries, FirstAt(k), e) /\ FirstAt(k) \in Place /\ e \in Entry
    BY <1>1, FirstAtIsFirst, ListTyped DEF CsInv
  <1>3. \A g \in standing' : g \in standing \/ g = e
    BY <1>1 DEF Others
  <1>4. ops' \in 0 .. MaxOps
    BY <1>1, StoreNumbers DEF CsInv, CsTypeOK
  <1>5. CsTypeOK'
    BY <1>1, <1>2, <1>3, <1>4 DEF CsInv, CsTypeOK
  <1> HIDE DEF e
  <1>6. (\A g \in standing \cup edit.adds : \E i \in Place : FirstIn(entries, i, g))'
    BY <1>1, <1>2, <1>3 DEF CsInv, StoreInv, FirstIn
  <1>7. (\A g \in Entry : \A i \in Place :
             FirstIn(entries, i, g) => \E p \in Place : i <= p /\ FirstAmong(keys, p, g))'
    <2>1. \A g \in Entry : \A i \in Place :
              FirstIn(entries, i, g) => \E p \in Place : i <= p /\ FirstAmong(keys, p, g)
      BY <1>1 DEF CsInv, StoreInv
    <2>2. \A i, g : FirstIn(entries, i, g)' <=> FirstIn(entries, i, g)
      BY <1>1 DEF FirstIn
    <2>3. \A p, g : FirstAmong(keys, p, g)' <=> FirstAmong(keys, p, g)
      BY <1>1 DEF FirstAmong
    <2> QED BY <2>1, <2>2, <2>3, Zenon
  <1>8. StoreInv'
    BY <1>1, <1>6, <1>7 DEF StoreInv
  <1> QED BY <1>1, <1>5, <1>8 DEF CsInv, ZoneInv

\* A removal moves the later entries down, and none past its own place.
LEMMA DropKeeps == ASSUME CsInv, NEW k \in Key, Drop(k) PROVE CsInv'
  <1> DEFINE f == FirstAt(k)
             list == Without(f)
  <1>1. May /\ At(k) # {} /\ Edits(list, {}) /\ standing' = Others(k)
    BY DEF Drop
  <1>2. /\ entries \in Seq(Entry) /\ Len(entries) \in Nat /\ Len(entries) <= StoreMax
        /\ DOMAIN entries = 1 .. Len(entries) /\ StoreMax \in Nat
    BY ListTyped, StoreNumbers DEF CsInv, CsTypeOK
  <1>3. f \in DOMAIN entries /\ entries[f].key = k
    BY <1>1, FirstAtIsFirst DEF CsInv
  <1> HIDE DEF f
  <1>4. Len(entries) - 1 \in Nat /\ f \in 1 .. Len(entries)
    BY <1>2, <1>3
  <1>5. \A i \in 1 .. Len(entries) - 1 : /\ i \in DOMAIN entries /\ i + 1 \in DOMAIN entries
                                         /\ list[i] = entries[IF i < f THEN i ELSE i + 1]
    BY <1>2 DEF Without
  <1>6. list \in [1 .. Len(entries) - 1 -> Entry]
    <2>1. \A i \in DOMAIN entries : entries[i] \in Entry
      BY <1>2
    <2>2. \A i \in 1 .. Len(entries) - 1 : list[i] \in Entry
      BY <1>5, <2>1
    <2>3. list = [i \in 1 .. Len(entries) - 1 |-> list[i]]
      BY DEF Without
    <2> HIDE DEF list
    <2> QED BY <2>2, <2>3
  <1> HIDE DEF list
  <1>7. list \in Seq(Entry) /\ Len(list) = Len(entries) - 1 /\ DOMAIN list = 1 .. Len(entries) - 1
    BY <1>4, <1>6
  <1>8. Len(list) <= StoreMax
    BY <1>2, <1>7
  <1>9. \A e \in standing' : \A i \in Place :
            FirstIn(entries, i, e) => \E n \in Place : n <= i /\ FirstIn(list, n, e)
    <2> TAKE e \in standing'
    <2> TAKE i \in Place
    <2> HAVE FirstIn(entries, i, e)
    <2>1. e.key # k /\ i # f /\ i \in 1 .. Len(entries) /\ entries[i] = e
      BY <1>1, <1>2, <1>3, OthersStand DEF FirstIn
    <2>2. \A j \in 1 .. Len(entries) : j < i => entries[j].key # e.key
      BY <1>2 DEF FirstIn
    <2>3. CASE i < f
      <3>1. i \in 1 .. Len(entries) - 1 /\ list[i] = e
        BY <1>4, <1>5, <2>1, <2>3
      <3>2. \A j \in 1 .. Len(entries) - 1 : j < i => list[j].key # e.key
        BY <1>4, <1>5, <2>1, <2>2, <2>3
      <3>3. i <= i
        BY <2>1
      <3> QED BY <1>7, <3>1, <3>2, <3>3 DEF FirstIn
    <2>4. CASE ~(i < f)
      <3>1. /\ f < i /\ i - 1 \in 1 .. Len(entries) - 1 /\ i - 1 <= i /\ ~(i - 1 < f)
            /\ (i - 1) + 1 = i
        BY <1>4, <2>1, <2>4
      <3>2. list[i - 1] = e
        BY <1>5, <2>1, <3>1
      <3>3. \A j \in 1 .. Len(entries) - 1 : j < i - 1 => list[j].key # e.key
        <4> TAKE j \in 1 .. Len(entries) - 1
        <4> HAVE j < i - 1
        <4>1. j < i /\ j + 1 < i /\ j \in 1 .. Len(entries) /\ j + 1 \in 1 .. Len(entries)
          BY <1>4, <2>1
        <4> QED BY <1>5, <2>2, <4>1
      <3>4. i - 1 \in Place
        BY <1>2, <3>1 DEF Place
      <3> QED BY <1>7, <3>1, <3>2, <3>3, <3>4 DEF FirstIn
    <2> QED BY <2>3, <2>4
  <1> QED BY <1>1, <1>7, <1>8, <1>9, OthersStand, EditKeeps

LEMMA ClearAllKeeps == ASSUME CsInv, ClearAll PROVE CsInv'
  <1>1. May /\ Edits(<<>>, {}) /\ standing' = {}
    BY DEF ClearAll
  <1> DEFINE none == <<>>
  <1>2. none \in Seq(Entry) /\ Len(none) = 0 /\ 0 <= StoreMax
    BY StoreNumbers
  <1>3. {} \in SUBSET Entry
    OBVIOUS
  <1>4. Edits(none, {})
    BY <1>1
  <1> HIDE DEF none
  <1> QED BY <1>1, <1>2, <1>3, <1>4, EditKeeps

-----------------------------------------------------------------------------
\* One more place is saved: what is still to come does not change.
LEMMA SavePlaceKeeps == ASSUME CsInv, SavePlace PROVE CsInv'
  <1>1. /\ edit.on /\ edit.at <= StoreMax
        /\ keys' = [keys EXCEPT ![edit.at] = PlaceOf(entries, edit.at)]
        /\ edit' = [edit EXCEPT !.at = @ + 1]
        /\ UNCHANGED <<entries, ops, outages, standing, zones>>
    BY DEF SavePlace, NextPlace, PlaceOf
  <1>2. edit.at \in Place /\ edit.at \in Nat
    BY <1>1, StoreNumbers DEF CsInv, CsTypeOK, EditState, Place
  <1>3. /\ edit' \in EditState /\ edit'.on = edit.on /\ edit'.powered = edit.powered
        /\ edit'.adds = edit.adds
        /\ edit'.at = edit.at + 1
    <2>1. edit.at + 1 \in 1 .. StoreMax + 1
      BY <1>1, <1>2, StoreNumbers
    <2>2. edit \in EditState /\ edit' = [edit EXCEPT !.at = edit.at + 1]
      BY <1>1 DEF CsInv, CsTypeOK
    <2> QED BY <2>1, <2>2 DEF EditState
  <1>4. PlaceOf(entries, edit.at) \in {<<>>} \cup {<<e>> : e \in Entry}
    <2>1. edit.at <= Len(entries) => entries[edit.at] \in Entry
      <3>1. edit.at <= Len(entries) => edit.at \in DOMAIN entries
        BY <1>2, ListTyped, StoreNumbers DEF CsInv
      <3> QED BY <3>1, ListTyped DEF CsInv
    <2> QED BY <2>1 DEF PlaceOf
  <1>5. /\ keys' \in [Place -> {<<>>} \cup {<<e>> : e \in Entry}]
        /\ keys'[edit.at] = PlaceOf(entries, edit.at)
        /\ \A p \in Place : p # edit.at => keys'[p] = keys[p]
    BY <1>1, <1>2, <1>4 DEF CsInv, CsTypeOK
  <1>6. CsTypeOK'
    BY <1>1, <1>3, <1>5 DEF CsInv, CsTypeOK
  <1>7. \A p \in Place : p < edit'.at => keys'[p] = PlaceOf(entries, p)
    <2>1. \A p \in Place : p < edit.at + 1 => p < edit.at \/ p = edit.at
      BY <1>2, StoreNumbers
    <2> QED BY <1>1, <1>3, <1>5, <2>1 DEF CsInv, StoreInv
  <1>8. \A a \in edit'.at .. StoreMax + 1 : a \in edit.at .. StoreMax + 1 /\ Saved(a)' = Saved(a)
    <2> TAKE a \in edit'.at .. StoreMax + 1
    <2>1. a \in edit.at .. StoreMax + 1 /\ edit.at < a
      BY <1>2, <1>3, StoreNumbers
    <2>2. \A p \in Place : ~(p < a) => keys'[p] = keys[p]
      BY <1>2, <1>5, <2>1, StoreNumbers
    <2> QED BY <1>1, <2>1, <2>2 DEF Saved, PlaceOf
  <1>9. StoreInv'
    <2>1. edit.powered
      BY <1>1 DEF CsInv, StoreInv
    <2>2. \A e \in standing' \cup edit'.adds : \E i \in Place : FirstIn(entries', i, e)
      BY <1>1, <1>3, <2>1 DEF CsInv, StoreInv
    <2>3. \A e \in standing' : \A a \in edit'.at .. StoreMax + 1 : \E p \in Place : FirstAmong(Saved(a)', p, e)
      BY <1>1, <1>8 DEF CsInv, StoreInv
    <2>4. \A p \in Place : p < edit'.at => keys'[p] = PlaceOf(entries, p)'
      BY <1>1, <1>7 DEF PlaceOf
    <2> QED BY <1>1, <1>3, <2>1, <2>2, <2>3, <2>4 DEF StoreInv, FirstIn, FirstAmong
  <1> QED BY <1>1, <1>3, <1>6, <1>9 DEF CsInv, ZoneInv

\* The save is complete: the places are the list.
LEMMA AcknowledgeKeeps == ASSUME CsInv, Acknowledge PROVE CsInv'
  <1>1. /\ edit.on /\ edit.at > StoreMax /\ standing' = standing \cup edit.adds /\ edit' = NoEdit
        /\ UNCHANGED <<entries, keys, ops, outages, zones>>
    BY DEF Acknowledge
  <1>2. edit.powered /\ edit.adds \subseteq Entry /\ edit.at \in Nat
    BY <1>1, StoreNumbers DEF CsInv, CsTypeOK, StoreInv, EditState
  <1>3. CsTypeOK'
    BY <1>1, <1>2, NoEditTyped DEF CsInv, CsTypeOK
  <1>4. \A p \in Place : keys[p] = PlaceOf(entries, p)
    <2>1. \A p \in Place : p < edit.at
      BY <1>1, <1>2, StoreNumbers
    <2> QED BY <1>1, <2>1 DEF CsInv, StoreInv
  <1>5. \A e \in Entry : \A i \in Place : FirstIn(entries, i, e) => i <= i /\ FirstAmong(keys, i, e)
    <2> TAKE e \in Entry
    <2> TAKE i \in Place
    <2> HAVE FirstIn(entries, i, e)
    <2>1. i \in 1 .. Len(entries) /\ entries[i] = e /\ Len(entries) \in Nat
      BY ListTyped DEF CsInv, FirstIn
    <2>2. keys[i] = <<e>> /\ i <= i
      <3>1. i <= Len(entries) /\ i <= i
        BY <2>1
      <3> QED BY <1>4, <2>1, <3>1 DEF PlaceOf
    <2>3. \A q \in Place : q < i => q <= Len(entries) /\ q \in DOMAIN entries
      BY <2>1, ListTyped, StoreNumbers DEF CsInv
    <2>4. \A q \in Place : q < i => keys[q] = <<entries[q]>>
      BY <1>4, <2>3 DEF PlaceOf
    <2>5. \A q \in Place : q < i => keys[q][1].key # e.key
      BY <2>3, <2>4 DEF FirstIn
    <2> QED BY <2>2, <2>5 DEF FirstAmong
  <1>6. \A e \in standing' : \E i \in Place : FirstIn(entries, i, e)
    BY <1>1, <1>2 DEF CsInv, StoreInv
  <1>7. StoreInv'
    BY <1>1, <1>5, <1>6, NoEditTyped DEF StoreInv, FirstIn, FirstAmong
  <1> QED BY <1>1, <1>2, <1>3, <1>7, NoEditTyped DEF CsInv, ZoneInv

\* A power cut leaves the places as the save had them, and what stands is first
\* among them.
LEMMA OutageKeeps == ASSUME CsInv, Outage PROVE CsInv'
  <1>1. /\ edit.powered /\ outages < MaxOutages /\ outages' = outages + 1 /\ entries' = <<>>
        /\ edit' = [NoEdit EXCEPT !.powered = FALSE] /\ zones' = [zones EXCEPT !.walk = NoWalk]
        /\ UNCHANGED <<keys, ops, standing>>
    BY DEF Outage
  <1>2. zones' \in ZoneState /\ zones'.walk = NoWalk
    BY <1>1 DEF CsInv, CsTypeOK, ZoneState
  <1>3. <<>> \in Seq(Entry) /\ Len(<<>>) <= StoreMax /\ outages' \in 0 .. MaxOutages
    BY <1>1, StoreNumbers DEF CsInv, CsTypeOK
  <1>4. CsTypeOK'
    BY <1>1, <1>2, <1>3, NoEditTyped DEF CsInv, CsTypeOK
  <1>5. \A e \in standing : \E p \in Place : FirstAmong(keys, p, e)
    <2>1. CASE edit.on
      <3>1. Saved(edit.at) = keys
        <4>1. keys = [p \in Place |-> keys[p]]
          BY DEF CsInv, CsTypeOK
        <4>2. \A p \in Place : p < edit.at => keys[p] = PlaceOf(entries, p)
          BY <2>1 DEF CsInv, StoreInv
        <4> QED BY <4>1, <4>2 DEF Saved
      <3>2. edit.at \in edit.at .. StoreMax + 1
        BY StoreNumbers DEF CsInv, CsTypeOK, EditState
      <3>3. \A e \in standing : \E p \in Place : FirstAmong(Saved(edit.at), p, e)
        BY <2>1, <3>2 DEF CsInv, StoreInv
      <3> QED BY <3>1, <3>3
    <2>2. CASE ~edit.on
      BY <1>1, <2>2 DEF CsInv, CsTypeOK, StoreInv
    <2> QED BY <2>1, <2>2
  <1>6. StoreInv'
    BY <1>1, <1>5, NoEditTyped DEF StoreInv, FirstAmong
  <1> QED BY <1>1, <1>2, <1>4, <1>6, NoEditTyped DEF CsInv, ZoneInv

\* The stored places, counted from the first: every count up to their number is
\* that of one place, and no place is counted past itself.
LEMMA PlacesCounted ==
    ASSUME CsTypeOK
    PROVE  /\ Cardinality(StoredPlaces) \in Nat /\ Cardinality(StoredPlaces) <= StoreMax
           /\ \A p \in StoredPlaces : PlacesUpTo(p) \in 1 .. Cardinality(StoredPlaces) /\ PlacesUpTo(p) <= p
           /\ \A p, q \in StoredPlaces : p < q => PlacesUpTo(p) < PlacesUpTo(q)
           /\ \A n \in 1 .. Cardinality(StoredPlaces) : \E p \in StoredPlaces : PlacesUpTo(p) = n
  <1> DEFINE S == StoredPlaces
             m == Cardinality(S)
             Up(p) == {q \in S : q <= p}
  <1>1. IsFiniteSet(Place) /\ Cardinality(Place) = StoreMax
    <2>1. StoreMax \in Int /\ 1 \in Int /\ ~(1 > StoreMax) /\ StoreMax - 1 + 1 = StoreMax
      BY StoreNumbers
    <2> QED BY <2>1, FS_Interval DEF Place
  <1>2. S \subseteq Place /\ \A p \in S : p \in Nat /\ p > 0
    BY StoreNumbers DEF StoredPlaces
  <1>3. IsFiniteSet(S) /\ m <= StoreMax /\ m \in Nat
    BY <1>1, <1>2, FS_Subset, FS_CardinalityType
  <1> HIDE DEF S, m
  <1>4. \A p \in S : /\ IsFiniteSet(Up(p)) /\ Cardinality(Up(p)) <= m /\ Cardinality(Up(p)) \in Nat
                     /\ Cardinality(Up(p)) # 0 /\ Cardinality(Up(p)) <= p
    <2> TAKE p \in S
    <2>1. Up(p) \in SUBSET S /\ Up(p) \in SUBSET (1 .. p) /\ p \in Up(p)
      BY <1>2
    <2> HIDE DEF Up
    <2>2. IsFiniteSet(Up(p)) /\ Cardinality(Up(p)) <= m
      BY <1>3, <2>1, FS_Subset DEF m
    <2>3. Cardinality(Up(p)) \in Nat /\ Cardinality(Up(p)) # 0
      BY <2>1, <2>2, FS_CardinalityType, FS_EmptySet
    <2>4. IsFiniteSet(1 .. p) /\ Cardinality(1 .. p) = p
      BY <1>2, FS_Interval
    <2>5. Cardinality(Up(p)) <= p
      BY <2>1, <2>4, FS_Subset
    <2> QED BY <2>2, <2>3, <2>5
  <1>5. \A p, q \in S : p < q => Cardinality(Up(p)) < Cardinality(Up(q))
    <2> TAKE p, q \in S
    <2> HAVE p < q
    <2>1. Up(p) \in SUBSET Up(q) /\ q \in Up(q) /\ q \notin Up(p)
      BY <1>2
    <2> HIDE DEF Up
    <2>2. Up(p) # Up(q) /\ IsFiniteSet(Up(q))
      BY <1>4, <2>1
    <2>3. Cardinality(Up(p)) <= Cardinality(Up(q)) /\ Cardinality(Up(q)) # Cardinality(Up(p))
      BY <2>1, <2>2, FS_Subset
    <2> QED BY <1>4, <2>3
  <1> DEFINE rank == [p \in S |-> Cardinality(Up(p))]
  <1>6. rank \in [S -> 1 .. m]
    BY <1>3, <1>4
  <1>7. rank \in Injection(S, 1 .. m)
    <2>1. \A p, q \in S : rank[p] = rank[q] => p = q
      <3> TAKE p, q \in S
      <3> HAVE rank[p] = rank[q]
      <3>1. ~(p < q) /\ ~(q < p)
        BY <1>4, <1>5
      <3> QED BY <1>2, <3>1
    <2> HIDE DEF rank
    <2> QED BY <1>6, <2>1 DEF Injection, IsInjective
  <1>8. IsFiniteSet(1 .. m) /\ Cardinality(1 .. m) = m
    BY <1>3, FS_Interval
  <1>9. rank \in Surjection(S, 1 .. m)
    <2> HIDE DEF rank
    <2> QED BY <1>7, <1>8, FS_Injection DEF m
  <1>10. \A n \in 1 .. m : \E p \in S : Cardinality(Up(p)) = n
    <2>1. \A n \in 1 .. m : \E p \in S : rank[p] = n
      <3> HIDE DEF rank
      <3> QED BY <1>9 DEF Surjection
    <2> QED BY <2>1
  <1>11. \A p \in S : PlacesUpTo(p) = Cardinality(Up(p))
    BY DEF PlacesUpTo, S
  <1>12. \A p \in S : PlacesUpTo(p) \in 1 .. m
    BY <1>6, <1>11
  <1> HIDE DEF rank, Up
  <1> QED BY <1>3, <1>4, <1>5, <1>10, <1>11, <1>12 DEF S, m

\* What is loaded is what is stored, in order.
LEMMA LoadedTyped ==
    ASSUME CsTypeOK
    PROVE  /\ Loaded \in Seq(Entry) /\ Len(Loaded) <= StoreMax
           /\ DOMAIN Loaded = 1 .. Cardinality(StoredPlaces)
           /\ \A n \in DOMAIN Loaded : \E p \in StoredPlaces : PlacesUpTo(p) = n /\ keys[p] = <<Loaded[n]>>
           /\ \A p \in StoredPlaces : keys[p] = <<Loaded[PlacesUpTo(p)]>>
  <1> DEFINE m == Cardinality(StoredPlaces)
             Nth(n) == CHOOSE p \in StoredPlaces : PlacesUpTo(p) = n
  <1>1. m \in Nat /\ m <= StoreMax
    BY PlacesCounted
  <1>2. \A n \in 1 .. m : Nth(n) \in StoredPlaces /\ PlacesUpTo(Nth(n)) = n
    BY PlacesCounted
  <1>3. \A p \in StoredPlaces : p \in Place /\ keys[p] # <<>>
    BY DEF StoredPlaces
  <1>4. \A p \in StoredPlaces : Head(keys[p]) \in Entry /\ keys[p] = <<Head(keys[p])>>
    BY <1>3, KeyTyped
  <1>5. Loaded = [n \in 1 .. m |-> Head(keys[Nth(n)])]
    BY DEF Loaded
  <1> HIDE DEF Nth, m
  <1>6. Loaded \in [1 .. m -> Entry] /\ \A n \in 1 .. m : Loaded[n] = Head(keys[Nth(n)])
    BY <1>2, <1>4, <1>5
  <1>7. Loaded \in Seq(Entry) /\ Len(Loaded) = m /\ DOMAIN Loaded = 1 .. m
    BY <1>1, <1>6
  <1>8. \A n \in 1 .. m : Nth(n) \in StoredPlaces /\ PlacesUpTo(Nth(n)) = n /\ keys[Nth(n)] = <<Loaded[n]>>
    BY <1>2, <1>4, <1>6
  <1>9. \A p \in StoredPlaces : PlacesUpTo(p) \in 1 .. m /\ Nth(PlacesUpTo(p)) = p
    <2> TAKE p \in StoredPlaces
    <2>1. PlacesUpTo(p) \in 1 .. m
      BY PlacesCounted DEF m
    <2> DEFINE q == Nth(PlacesUpTo(p))
    <2>2. q \in StoredPlaces /\ PlacesUpTo(q) = PlacesUpTo(p)
      BY <1>2, <2>1
    <2> HIDE DEF q
    <2>3. ~(p < q) /\ ~(q < p)
      BY <2>1, <2>2, PlacesCounted
    <2>4. p \in Nat /\ q \in Nat
      BY <1>3, <2>2, StoreNumbers
    <2>5. p = q
      BY <2>3, <2>4
    <2> QED BY <2>1, <2>5 DEF q
  <1>10. \A p \in StoredPlaces : keys[p] = <<Loaded[PlacesUpTo(p)]>>
    BY <1>8, <1>9
  <1>11. Len(Loaded) <= StoreMax
    BY <1>1, <1>7
  <1> QED BY <1>7, <1>8, <1>10, <1>11 DEF m

\* A boot reads the places in order: what stands is first in the list again.
LEMMA InitStoresKeeps == ASSUME CsInv, InitStores PROVE CsInv'
  <1>1. /\ ~edit.powered /\ entries' = Loaded /\ edit' = NoEdit
        /\ zones' = [zones EXCEPT !.table[0] = zones.stored, !.live = 0]
        /\ UNCHANGED <<keys, ops, outages, standing>>
    BY DEF InitStores
  <1>2. zones \in ZoneState /\ CsTypeOK
    BY DEF CsInv, CsTypeOK
  <1>3. /\ zones' \in ZoneState /\ zones'.walk = zones.walk
        /\ zones'.table[zones'.live] = zones'.stored
    <2> DEFINE tb == [zones.table EXCEPT ![0] = zones.stored]
    <2>1. tb \in [{0, 1} -> ZoneList] /\ tb[0] = zones.stored
      BY <1>2 DEF ZoneState
    <2>2. zones' = [[zones EXCEPT !.table = tb] EXCEPT !.live = 0]
      BY <1>1
    <2> HIDE DEF tb
    <2> QED BY <1>2, <2>1, <2>2 DEF ZoneState
  <1>4. CsTypeOK'
    BY <1>1, <1>2, <1>3, LoadedTyped, NoEditTyped DEF CsTypeOK
  <1>5. ASSUME NEW e \in Entry, NEW i \in Place, FirstIn(Loaded, i, e)
        PROVE  \E p \in Place : i <= p /\ FirstAmong(keys, p, e)
    <2>1. i \in DOMAIN Loaded /\ Loaded[i] = e
      BY <1>5 DEF FirstIn
    <2>2. PICK p \in StoredPlaces : PlacesUpTo(p) = i /\ keys[p] = <<e>>
      BY <1>2, <2>1, LoadedTyped
    <2>3. p \in Place /\ i <= p
      BY <1>2, <2>2, PlacesCounted DEF StoredPlaces
    <2>4. \A q \in Place : q < p => keys[q] = <<>> \/ keys[q][1].key # e.key
      <3> TAKE q \in Place
      <3> HAVE q < p
      <3>1. CASE q \in StoredPlaces
        <4>1. /\ PlacesUpTo(q) < i /\ PlacesUpTo(q) \in DOMAIN Loaded
              /\ keys[q] = <<Loaded[PlacesUpTo(q)]>>
          BY <1>2, <2>2, <3>1, PlacesCounted, LoadedTyped
        <4>2. Loaded[PlacesUpTo(q)].key # e.key
          BY <1>5, <4>1 DEF FirstIn
        <4> QED BY <4>1, <4>2
      <3>2. CASE q \notin StoredPlaces
        BY <3>2 DEF StoredPlaces
      <3> QED BY <3>1, <3>2
    <2> QED BY <2>2, <2>3, <2>4 DEF FirstAmong
  <1>6. ASSUME NEW e \in standing PROVE \E i \in Place : FirstIn(Loaded, i, e)
    <2>1. PICK p \in Place : FirstAmong(keys, p, e)
      BY <1>1, <1>6 DEF CsInv, StoreInv
    <2>2. keys[p] = <<e>> /\ keys[p] # <<>>
      BY <2>1 DEF FirstAmong
    <2>3. p \in StoredPlaces
      BY <2>2 DEF StoredPlaces
    <2> DEFINE i == PlacesUpTo(p)
    <2>4. i \in DOMAIN Loaded /\ <<Loaded[i]>> = <<e>>
      BY <1>2, <2>2, <2>3, PlacesCounted, LoadedTyped
    <2>5. Loaded[i] = e
      BY <2>4
    <2>6. \A j \in DOMAIN Loaded : j < i => Loaded[j].key # e.key
      <3> TAKE j \in DOMAIN Loaded
      <3> HAVE j < i
      <3>1. PICK q \in StoredPlaces : PlacesUpTo(q) = j /\ keys[q] = <<Loaded[j]>>
        BY <1>2, LoadedTyped
      <3>2. q \in Nat /\ p \in Nat /\ q \in Place /\ keys[q] # <<>>
        BY <2>3, <3>1, StoreNumbers DEF StoredPlaces
      <3>3. i \in Nat /\ j \in Nat
        BY <1>2, <2>3, <3>1, PlacesCounted
      <3>4. ~(p < q) /\ p # q
        BY <1>2, <2>3, <3>1, <3>3, PlacesCounted
      <3>5. q < p
        BY <3>2, <3>4
      <3>6. keys[q][1].key # e.key
        BY <2>1, <3>2, <3>5 DEF FirstAmong
      <3> QED BY <3>1, <3>6
    <2>7. i \in Place
      <3>1. i \in 1 .. Cardinality(StoredPlaces) /\ Cardinality(StoredPlaces) \in Nat
            /\ Cardinality(StoredPlaces) <= StoreMax
        BY <1>2, <2>3, PlacesCounted
      <3> QED BY <3>1, StoreNumbers DEF Place
    <2> QED BY <2>4, <2>5, <2>6, <2>7 DEF FirstIn
  <1>7. StoreInv'
    BY <1>1, <1>5, <1>6, NoEditTyped DEF StoreInv, FirstIn, FirstAmong
  <1> QED BY <1>1, <1>3, <1>4, <1>7, NoEditTyped DEF CsInv, ZoneInv

-----------------------------------------------------------------------------
\* The list of zones goes to the table no look-up has.
LEMMA SetZonesKeeps == ASSUME CsInv, NEW list \in ZoneList, SetZones(list) PROVE CsInv'
  <1> DEFINE spare == 1 - zones.live
             tb == [zones.table EXCEPT ![spare] = list]
  <1>1. /\ edit.powered /\ ~edit.on /\ ops < MaxOps /\ ops' = ops + 1
        /\ zones' = [zones EXCEPT !.stored = list, !.table[spare] = list, !.live = spare, !.published = @ + 1]
        /\ UNCHANGED <<entries, keys, edit, outages, standing>>
    BY DEF SetZones, May, SpareTable
  <1>2. /\ zones \in ZoneState /\ zones.live \in {0, 1} /\ zones.published \in Nat
        /\ zones.walk \in {0, 1, NoWalk}
    BY DEF CsInv, CsTypeOK, ZoneState
  <1>3. spare \in {0, 1} /\ spare # zones.live /\ NoWalk \notin {0, 1}
    BY <1>2 DEF NoWalk
  <1> HIDE DEF spare
  <1>4. tb \in [{0, 1} -> ZoneList] /\ tb[spare] = list /\ \A t \in {0, 1} : t # spare => tb[t] = zones.table[t]
    BY <1>2, <1>3 DEF ZoneState
  <1>5. zones' = [zones EXCEPT !.stored = list, !.table = tb, !.live = spare, !.published = zones.published + 1]
    BY <1>1, <1>2 DEF ZoneState
  <1> HIDE DEF tb
  <1>6. /\ zones' \in ZoneState /\ zones'.stored = list /\ zones'.table = tb /\ zones'.live = spare
        /\ zones'.published = zones.published + 1 /\ zones'.walk = zones.walk
        /\ zones'.reads = zones.reads
    <2> DEFINE one == [zones EXCEPT !.stored = list, !.table = tb]
    <2>1. /\ one \in ZoneState /\ one.stored = list /\ one.table = tb /\ one.walk = zones.walk
          /\ one.reads = zones.reads /\ one.published = zones.published
      BY <1>2, <1>4 DEF ZoneState
    <2>2. zones' = [one EXCEPT !.live = spare, !.published = zones.published + 1]
      BY <1>2, <1>5 DEF ZoneState
    <2> HIDE DEF one
    <2>3. zones.published + 1 \in Nat
      BY <1>2
    <2> QED BY <1>3, <2>1, <2>2, <2>3 DEF ZoneState
  <1>7. ops' \in 0 .. MaxOps
    BY <1>1, StoreNumbers DEF CsInv, CsTypeOK
  <1>8. CsTypeOK'
    BY <1>1, <1>6, <1>7 DEF CsInv, CsTypeOK
  <1>9. StoreInv'
    BY <1>1, StoreSteady DEF CsInv
  <1>10. ZoneInv'
    <2>1. zones'.published # 0 /\ (zones'.published = 1 => zones.published = 0)
      BY <1>2, <1>6
    <2> QED BY <1>1, <1>2, <1>3, <1>4, <1>6, <2>1 DEF CsInv, ZoneInv
  <1> QED BY <1>8, <1>9, <1>10 DEF CsInv

\* A look-up walks the table that was live when it began.
LEMMA MatchKeeps == ASSUME CsInv, BeginMatch \/ EndMatch PROVE CsInv'
  <1>1. UNCHANGED <<entries, keys, edit, ops, outages, standing>>
    BY DEF BeginMatch, EndMatch
  <1>2. zones \in ZoneState /\ zones.live \in {0, 1} /\ zones.table[zones.live] \in ZoneList
    BY DEF CsInv, CsTypeOK, ZoneState
  <1>3. zones' \in ZoneState /\ ZoneInv'
    <2>1. CASE BeginMatch
      <3>1. edit.powered
            /\ zones' = [zones EXCEPT !.walk = zones.live, !.reads = zones.table[zones.live], !.published = 0]
        BY <2>1 DEF BeginMatch
      <3>2. /\ zones' \in ZoneState /\ zones'.walk = zones.live
            /\ zones'.reads = zones.table[zones.live]
            /\ zones'.published = 0 /\ zones'.table = zones.table /\ zones'.live = zones.live
            /\ zones'.stored = zones.stored
        BY <1>2, <3>1 DEF ZoneState
      <3> QED BY <1>1, <3>1, <3>2 DEF CsInv, ZoneInv
    <2>2. CASE EndMatch
      <3>1. zones' = [zones EXCEPT !.walk = NoWalk, !.published = 0]
        BY <2>2 DEF EndMatch
      <3>2. /\ zones' \in ZoneState /\ zones'.walk = NoWalk
            /\ zones'.table = zones.table /\ zones'.live = zones.live
            /\ zones'.stored = zones.stored
        BY <1>2, <3>1 DEF ZoneState
      <3> QED BY <1>1, <3>2 DEF CsInv, ZoneInv
    <2> QED BY <2>1, <2>2
  <1>4. CsTypeOK'
    BY <1>1, <1>3 DEF CsInv, CsTypeOK
  <1>5. StoreInv'
    BY <1>1, StoreSteady DEF CsInv
  <1> QED BY <1>3, <1>4, <1>5 DEF CsInv

\* Every step keeps the invariant.
LEMMA CsStepKeeps == CsInv /\ [CsNext]_csVars => CsInv'
  <1> SUFFICES ASSUME CsInv, [CsNext]_csVars PROVE CsInv'
    OBVIOUS
  <1>1. CASE \E k \in Key, v \in Value : Put(k, v)
    BY <1>1, PutKeeps
  <1>2. CASE \E k \in Key : PutKnown(k) \/ Drop(k)
    BY <1>2, PutKnownKeeps, DropKeeps
  <1>3. CASE ClearAll \/ SavePlace \/ Acknowledge \/ Outage \/ InitStores
    BY <1>3, ClearAllKeeps, SavePlaceKeeps, AcknowledgeKeeps, OutageKeeps, InitStoresKeeps
  <1>4. CASE (\E list \in ZoneList : SetZones(list)) \/ BeginMatch \/ EndMatch
    BY <1>4, SetZonesKeeps, MatchKeeps
  <1>5. CASE UNCHANGED csVars
    <2>1. CsTypeOK' /\ ZoneInv'
      BY <1>5 DEF csVars, CsInv, CsTypeOK, ZoneInv
    <2> QED BY <1>5, <2>1, StoreSteady DEF csVars, CsInv
  <1> QED BY <1>1, <1>2, <1>3, <1>4, <1>5 DEF CsNext

\* The invariant is what a look-up is right by.
LEMMA InvGivesStanding == CsInv => AcknowledgedEntriesStand
  <1> SUFFICES ASSUME CsInv, edit.powered
               PROVE  /\ (\A e \in standing : At(e.key) # {} /\ entries[FirstAt(e.key)] = e)
                      /\ ZonesAreWhole
    BY DEF AcknowledgedEntriesStand
  <1>1. ASSUME NEW e \in standing PROVE At(e.key) # {} /\ entries[FirstAt(e.key)] = e
    <2>1. PICK i \in Place : FirstIn(entries, i, e)
      BY <1>1 DEF CsInv, StoreInv
    <2>2. i \in At(e.key) /\ entries[i] = e
      BY <2>1 DEF FirstIn, At
    <2> DEFINE f == FirstAt(e.key)
    <2>3. /\ f \in DOMAIN entries /\ entries[f].key = e.key
          /\ \A j \in DOMAIN entries : j < f => entries[j].key # e.key
      BY <2>2, FirstAtIsFirst DEF CsInv
    <2> HIDE DEF f
    <2>4. ~(f < i) /\ ~(i < f) /\ i \in Nat /\ f \in Nat
      BY <2>1, <2>2, <2>3, ListTyped DEF CsInv, FirstIn
    <2>5. f = i
      BY <2>4
    <2> QED BY <2>2, <2>5 DEF f
  <1>2. ZonesAreWhole
    <2>1. zones.published \in Nat
      BY DEF CsInv, CsTypeOK, ZoneState
    <2>2. zones.published <= 1 => zones.published = 0 \/ zones.published = 1
      BY <2>1
    <2> QED BY <2>2 DEF CsInv, ZoneInv, ZonesAreWhole
  <1> QED BY <1>1, <1>2

\* acl.c, bypass.c, rewrite.c, localzone.c: what a list was acknowledged to hold it
\* holds, and its look-up finds with the value last given, until an edit of that
\* key, whatever the power cuts in the saves of other edits; and a walk of the zones
\* is of one list.
THEOREM EntriesStand == CsSpec => []AcknowledgedEntriesStand
  BY CsInitHolds, CsStepKeeps, InvGivesStanding, PTL DEF CsSpec

\* acl.c, bypass.c, rewrite.c, localzone.c: every reachable state is well typed; in
\* particular a list that is loaded fits its table.
THEOREM StoresTypeCorrect == CsSpec => []CsTypeOK
  <1>1. CsInv => CsTypeOK
    BY DEF CsInv
  <1> QED BY <1>1, CsInitHolds, CsStepKeeps, PTL DEF CsSpec
=============================================================================
