------------------------------ MODULE Hook_proofs ------------------------------
(***************************************************************************)
(* What surrounds the query engine, for any sizes and any numbers of       *)
(* failures: the rings the lwIP hooks hand their events over in            *)
(* (SpscRing), dns_task's sockets and their watchdog (SocketWatchdog), the *)
(* firmware's start and update (DeviceLife); and that the instance the     *)
(* runs explore (MCHook) is a behaviour of each of them and of the cache.  *)
(***************************************************************************)
EXTENDS MCHook, Numbers_proofs

-----------------------------------------------------------------------------
(***************************************************************************)
(* The cache.  Facts about the fixed orders, so that no later step expands *)
(* them.                                                                   *)
(***************************************************************************)
\* There are six fields to write, the last of them the stamp.
LEMMA WriteOrderFacts == /\ Len(WriteOrder) = 6
                         /\ \A i \in 1 .. 6 : WriteOrder[i] \in Field
                         /\ \A f \in Field : \E i \in 1 .. 6 : WriteOrder[i] = f
                         /\ \A i \in 1 .. 6 : WriteOrder[i] = "stamp" <=> i = 6
  <1>1. \A i \in 1 .. 6 : i = 1 \/ i = 2 \/ i = 3 \/ i = 4 \/ i = 5 \/ i = 6
    OBVIOUS
  <1> QED BY <1>1 DEF WriteOrder, Field

\* Every field but the body is inspected, and the rest of the copy is the body.
LEMMA ReadOrderFacts == /\ Len(InspectOrder) = 5 /\ Len(CopyOrder) = 2
                        /\ \A i \in 1 .. 5 : InspectOrder[i] \in Field \ {"body"}
                        /\ \A f \in Field \ {"body"} : \E i \in 1 .. 5 : InspectOrder[i] = f
                        /\ CopyOrder[1] = "head" /\ CopyOrder[2] = "body"
  <1>1. \A i \in 1 .. 5 : i = 1 \/ i = 2 \/ i = 3 \/ i = 4 \/ i = 5
    OBVIOUS
  <1> QED BY <1>1 DEF InspectOrder, CopyOrder, Field

\* Appending a store leaves the ones before it alone.
LEMMA AppendKeeps == ASSUME log \in Seq(StoreType), NEW s \in StoreType, log' = Append(log, s)
                     PROVE  /\ log' \in Seq(StoreType) /\ Len(log') = Len(log) + 1
                            /\ \A i \in 1 .. Len(log) : log'[i] = log[i]
  OBVIOUS

\* Parity of successors and of doubles.
LEMMA Parity == /\ \A n \in Nat : Odd(n + 1) <=> ~Odd(n)
                /\ \A n \in Nat : Odd(n) \in BOOLEAN
                /\ ~Odd(0)
  BY DEF Odd

\* A blank reader and its fields have their types.
LEMMA IdleTyped == Blank \in [Field -> Nat] /\ Idle \in ReaderType
  BY NameAssumption, WaysAssumption, BoundsAssumption, ReadOrderFacts DEF Blank, Idle, ReaderType, Way

-----------------------------------------------------------------------------
(***************************************************************************)
(* Type correctness.                                                       *)
(***************************************************************************)
\* What a step of a reader leaves alone.
ReaderStep(r) == Ask(r) \/ ReadSeq(r) \/ Inspect(r) \/ Skip(r) \/ Copy(r) \/ Check(r) \/ Use(r)

LEMMA ReaderFrame == ASSUME NEW r \in Reader, ReaderStep(r)
                     PROVE  UNCHANGED <<seq, log, way, gen, writer>>
  BY DEF ReaderStep, Ask, ReadSeq, Inspect, Skip, Copy, Check, Use

\* The fields a reader has seen stay numbers.
LEMMA SeeTyped == ASSUME TypeOK, NEW r \in Reader, NEW f \in Field
                  PROVE  See(r, f) \in [Field -> Nat]
  <1>1. reader[r] \in ReaderType /\ way[reader[r].way][f] \in Nat
    BY DEF TypeOK, ReaderType
  <1> QED BY <1>1 DEF See, ReaderType

\* A record a reader may be in, and what the updates of one give.
Phase == {"idle", "asked", "inspect", "copy", "check", "hit"}

Shape(x, w, l, p, s) == x \in ReaderType /\ x.way = w /\ x.last = l /\ x.pc = p /\ x.step = s

Fine(x) == x \in ReaderType /\ x.way <= x.last /\ (x.pc = "copy" => x.step <= 2)

LEMMA Updates ==
    ASSUME NEW x \in ReaderType
    PROVE  /\ \A p \in Phase, s \in 1 .. 5, g \in [Field -> Nat] :
                 Shape([x EXCEPT !.got = g, !.step = s, !.pc = p], x.way, x.last, p, s)
           /\ \A s \in 1 .. 5, g \in [Field -> Nat] :
                 Shape([x EXCEPT !.got = g, !.step = s], x.way, x.last, x.pc, s)
           /\ \A w \in Way, s \in 1 .. 5, g \in [Field -> Nat] :
                 Shape([x EXCEPT !.way = w, !.step = s, !.got = g], w, x.last, x.pc, s)
           /\ \A p \in Phase, w \in Way :
                 Shape([x EXCEPT !.pc = p, !.way = w, !.last = w], w, w, p, x.step)
           /\ \A p \in Phase, n \in Name, v \in 0 .. MaxGen, l \in Way :
                 Shape([x EXCEPT !.pc = p, !.name = n, !.gen = v, !.last = l], x.way, l, p, x.step)
           /\ \A p \in Phase, k \in Nat :
                 Shape([x EXCEPT !.pc = p, !.s1 = k], x.way, x.last, p, x.step)
           /\ \A p \in Phase : Shape([x EXCEPT !.pc = p], x.way, x.last, p, x.step)
  <1>1. ReaderType = [pc : Phase, name : Name, gen : 0 .. MaxGen, s1 : Nat, way : Way,
                      last : Way, step : 1 .. 5, got : [Field -> Nat]]
    BY ReadOrderFacts DEF ReaderType, Phase
  <1> QED BY <1>1, Zenon DEF Shape

LEMMA ShapeFine == ASSUME NEW x, NEW w \in Way, NEW l \in Way, NEW p, NEW s \in 1 .. 5,
                          Shape(x, w, l, p, s), w <= l, p = "copy" => s <= 2
                   PROVE  Fine(x)
  BY DEF Shape, Fine

\* Every step of a reader leaves its record well typed.
LEMMA ReaderTyped == ASSUME TypeOK, NEW r \in Reader, ReaderStep(r)
                     PROVE  /\ reader' \in [Reader -> ReaderType]
                            /\ \A u \in Reader : Fine(reader'[u])
  <1> DEFINE q == reader[r]
             f == InspectOrder[q.step]
             c == CopyOrder[q.step]
  <1>1. /\ Fine(q) /\ seq \in Nat /\ gen \in 0 .. MaxGen
        /\ reader \in [Reader -> ReaderType] /\ \A u \in Reader : Fine(reader[u])
    BY ReadOrderFacts DEF TypeOK, Fine
  <1>2. /\ q \in ReaderType /\ q.way \in Way /\ q.last \in Way /\ q.step \in 1 .. 5
        /\ q.way <= q.last /\ (q.pc = "copy" => q.step <= 2)
    BY <1>1, ReadOrderFacts DEF Fine, ReaderType
  <1>3. /\ Ways \in Way /\ 1 \in Way /\ \A w \in Way : 1 <= w /\ w <= Ways /\ w <= w
        /\ 1 \in 1 .. 5 /\ 1 .. Len(InspectOrder) = 1 .. 5
    BY WaysAssumption, ReadOrderFacts DEF Way
  <1>4. \A x : Fine(x) /\ Set(r, x) => /\ reader' \in [Reader -> ReaderType]
                                       /\ \A u \in Reader : Fine(reader'[u])
    BY <1>1 DEF Set, Fine
  <1>i. /\ Fine(Idle) /\ Shape(Idle, 1, 1, "idle", 1)
        /\ Idle \in ReaderType /\ Blank \in [Field -> Nat]
    BY IdleTyped DEF Fine, Shape, Idle
  <1> SUFFICES \E x : Fine(x) /\ Set(r, x)
    BY <1>4
  <1> HIDE DEF q, f, c
  <1>5. CASE Ask(r)
    <2>i. Idle.way = 1 /\ Idle.step = 1
      BY <1>i DEF Shape
    <2>1. \A n \in Name : Fine([Idle EXCEPT !.pc = "asked", !.name = n, !.gen = gen, !.last = Ways])
      <3> TAKE n \in Name
      <3>1. Shape([Idle EXCEPT !.pc = "asked", !.name = n, !.gen = gen, !.last = Ways],
                    Idle.way, Ways, "asked", Idle.step)
        BY <1>1, <1>3, <1>i, Updates, Zenon DEF Phase
      <3> QED BY <1>3, <2>i, <3>1, ShapeFine
    <2>2. \A w \in Way : Fine([Idle EXCEPT !.pc = "asked", !.way = w, !.last = w])
      <3> TAKE w \in Way
      <3>1. Shape([Idle EXCEPT !.pc = "asked", !.way = w, !.last = w], w, w, "asked", Idle.step)
        BY <1>3, <1>i, Updates, Zenon DEF Phase
      <3> QED BY <1>3, <2>i, <3>1, ShapeFine
    <2> QED BY <1>5, <2>1, <2>2 DEF Ask
  <1>6. CASE ReadSeq(r)
    <2>1. Shape([q EXCEPT !.pc = "inspect", !.s1 = seq], q.way, q.last, "inspect", q.step)
      BY <1>1, <1>2, Updates, Zenon DEF Phase
    <2>2. Fine([q EXCEPT !.pc = "inspect", !.s1 = seq])
      BY <1>2, <2>1, ShapeFine
    <2>3. Set(r, Idle) \/ Set(r, [q EXCEPT !.pc = "inspect", !.s1 = seq])
      BY <1>6 DEF ReadSeq, q
    <2> QED BY <1>i, <2>2, <2>3
  <1>7. CASE Inspect(r)
    <2>1. See(r, f) \in [Field -> Nat] /\ q.pc = "inspect"
      BY <1>2, <1>7, ReadOrderFacts, SeeTyped DEF Inspect, f, q
    <2>2. Fine([q EXCEPT !.got = See(r, f), !.step = 1, !.pc = "copy"])
      <3>1. Shape([q EXCEPT !.got = See(r, f), !.step = 1, !.pc = "copy"], q.way, q.last, "copy", 1)
        BY <1>2, <1>3, <2>1, Updates, Zenon DEF Phase
      <3> QED BY <1>2, <1>3, <3>1, ShapeFine
    <2>3. ASSUME q.step < 5 PROVE Fine([q EXCEPT !.got = See(r, f), !.step = q.step + 1])
      <3>1. q.step + 1 \in 1 .. 5
        BY <1>2, <2>3
      <3>2. Shape([q EXCEPT !.got = See(r, f), !.step = q.step + 1], q.way, q.last, q.pc, q.step + 1)
        BY <1>2, <1>3, <2>1, <3>1, Updates, Zenon
      <3> QED BY <1>2, <2>1, <3>1, <3>2, ShapeFine
    <2>4. \/ q.step < 5 /\ Set(r, [q EXCEPT !.got = See(r, f), !.step = q.step + 1])
          \/ Set(r, [q EXCEPT !.got = See(r, f), !.step = 1, !.pc = "copy"])
      BY <1>7, ReadOrderFacts DEF Inspect, q, f
    <2> QED BY <2>2, <2>3, <2>4
  <1>8. CASE Skip(r)
    <2>1. ASSUME q.way # q.last
          PROVE  Fine([q EXCEPT !.way = q.way + 1, !.step = 1, !.got = Blank])
      <3>1. q.way + 1 \in Way /\ q.way + 1 <= q.last
        BY <1>2, <2>1, WaysAssumption DEF Way
      <3>2. Shape([q EXCEPT !.way = q.way + 1, !.step = 1, !.got = Blank], q.way + 1, q.last, q.pc, 1)
        BY <1>2, <1>3, <1>i, <3>1, Updates, Zenon DEF Phase, ReaderType
      <3> QED BY <1>2, <1>3, <3>1, <3>2, ShapeFine
    <2>2. \/ Set(r, Idle)
          \/ q.way # q.last /\ Set(r, [q EXCEPT !.way = q.way + 1, !.step = 1, !.got = Blank])
      BY <1>8 DEF Skip, q
    <2> QED BY <1>i, <2>1, <2>2
  <1>9. CASE Copy(r)
    <2>1. c \in Field /\ See(r, c) \in [Field -> Nat] /\ (q.step = 1 \/ q.step = 2) /\ q.pc = "copy"
      <3>1. (q.step = 1 \/ q.step = 2) /\ q.pc = "copy"
        BY <1>2, <1>9 DEF Copy, q
      <3> QED BY <3>1, ReadOrderFacts, SeeTyped DEF Field, c
    <2>2. Fine([q EXCEPT !.got = See(r, c), !.step = 1, !.pc = "check"])
      <3>1. Shape([q EXCEPT !.got = See(r, c), !.step = 1, !.pc = "check"], q.way, q.last, "check", 1)
        BY <1>2, <1>3, <2>1, Updates, Zenon DEF Phase
      <3> QED BY <1>2, <1>3, <3>1, ShapeFine
    <2>3. ASSUME q.step = 1 PROVE Fine([q EXCEPT !.got = See(r, c), !.step = q.step + 1])
      <3>1. q.step + 1 \in 1 .. 5 /\ q.step + 1 <= 2
        BY <2>3
      <3>2. Shape([q EXCEPT !.got = See(r, c), !.step = q.step + 1], q.way, q.last, q.pc, q.step + 1)
        BY <1>2, <1>3, <2>1, <3>1, Updates, Zenon
      <3> QED BY <1>2, <2>1, <3>1, <3>2, ShapeFine
    <2>4. \/ q.step = 1 /\ Set(r, [q EXCEPT !.got = See(r, c), !.step = q.step + 1])
          \/ Set(r, [q EXCEPT !.got = See(r, c), !.step = 1, !.pc = "check"])
      BY <1>9, <2>1, ReadOrderFacts DEF Copy, q, c
    <2> QED BY <2>2, <2>3, <2>4
  <1>10. CASE Check(r)
    <2>1. Shape([q EXCEPT !.pc = "hit"], q.way, q.last, "hit", q.step)
      BY <1>2, Updates, IdleTyped, <1>1, <1>3, NameAssumption, Zenon DEF Phase
    <2>2. Fine([q EXCEPT !.pc = "hit"])
      BY <1>2, <2>1, ShapeFine
    <2>3. Set(r, Idle) \/ Set(r, [q EXCEPT !.pc = "hit"])
      BY <1>10 DEF Check, q
    <2> QED BY <1>i, <2>2, <2>3
  <1>11. CASE Use(r)
    BY <1>i, <1>11 DEF Use
  <1> QED BY <1>5, <1>6, <1>7, <1>8, <1>9, <1>10, <1>11 DEF ReaderStep

\* So do the steps of the writer and of the generation.
WriterStep == BeginStore \/ WriteField \/ EndStore \/ Bump

LEMMA WriterTyped == ASSUME TypeOK, WriterStep PROVE TypeOK'
  <1>1. /\ seq \in Nat /\ log \in Seq(StoreType) /\ Len(log) <= MaxStores /\ Len(log) \in Nat
        /\ way \in [Way -> [Field -> 0 .. Len(log)]]
        /\ gen \in 0 .. MaxGen /\ writer \in [step : 0 .. 7, way : Way]
    BY WriteOrderFacts DEF TypeOK, WriterType
  <1>2. MaxStores \in Nat /\ MaxGen \in Nat
    BY BoundsAssumption
  <1>w. \A n \in 0 .. 7 : [writer EXCEPT !.step = n] \in WriterType
    <2>1. WriterType = [step : 0 .. 7, way : Way]
      BY WriteOrderFacts DEF WriterType
    <2> QED BY <1>1, <2>1, Zenon
  <1>3. CASE BeginStore
    <2>1. PICK s \in [name : Name, blocked : BOOLEAN, gen : 0 .. gen], w \in Way :
             log' = Append(log, s) /\ writer' = [step |-> 1, way |-> w]
      BY <1>3 DEF BeginStore, Victim
    <2>2. s \in StoreType
      BY <1>1, <1>2 DEF StoreType
    <2>3. log' \in Seq(StoreType) /\ Len(log') = Len(log) + 1
      BY <1>1, <2>1, <2>2, AppendKeeps
    <2>4. way \in [Way -> [Field -> 0 .. Len(log')]]
      <3>1. \A w1 \in Way : way[w1] \in [Field -> 0 .. Len(log')]
        BY <1>1, <2>3
      <3> QED BY <1>1, <3>1
    <2>5. writer' \in WriterType
      BY <2>1, WriteOrderFacts DEF WriterType
    <2> QED BY <1>1, <1>2, <1>3, <2>3, <2>4, <2>5 DEF TypeOK, BeginStore
  <1>4. CASE WriteField
    <2>1. writer.step \in 1 .. 6 /\ WriteOrder[writer.step] \in Field /\ writer.way \in Way
      BY <1>1, <1>4, WriteOrderFacts DEF WriteField
    <2>2. Len(log) >= 0 /\ Len(log) \in 0 .. Len(log)
      BY <1>1
    <2>3. way' \in [Way -> [Field -> 0 .. Len(log)]]
      BY <1>1, <1>4, <2>1, <2>2 DEF WriteField
    <2>4. writer' \in WriterType
      <3>1. writer.step + 1 \in 0 .. 7
        BY <2>1
      <3> QED BY <1>w, <1>4, <3>1 DEF WriteField
    <2> QED BY <1>4, <2>3, <2>4 DEF TypeOK, WriteField
  <1>5. CASE EndStore
    <2>1. writer' \in WriterType
      BY <1>w, <1>5 DEF EndStore
    <2> QED BY <1>1, <1>5, <2>1 DEF TypeOK, EndStore
  <1>6. CASE Bump
    BY <1>1, <1>2, <1>6 DEF TypeOK, Bump
  <1> QED BY <1>3, <1>4, <1>5, <1>6 DEF WriterStep

LEMMA NextSteps == Next <=> WriterStep \/ \E r \in Reader : ReaderStep(r)
  BY DEF Next, WriterStep, ReaderStep

\* Every reachable state is well typed, and no reader looks past the last way
\* of its set.
THEOREM SeqlockTypeCorrect == Spec => []TypeOK
  <1>1. Init => TypeOK
    <2> SUFFICES ASSUME Init PROVE TypeOK
      OBVIOUS
    <2>1. log \in Seq(StoreType) /\ Len(log) = 0 /\ MaxStores \in Nat /\ MaxGen \in Nat
      BY BoundsAssumption DEF Init
    <2>2. way \in [Way -> [Field -> 0 .. Len(log)]]
      BY <2>1 DEF Init, Blank
    <2>3. writer \in WriterType
      BY WaysAssumption, WriteOrderFacts DEF Init, WriterType, Way
    <2>4. reader \in [Reader -> ReaderType] /\ \A r \in Reader : reader[r] = Idle
      BY IdleTyped DEF Init
    <2>5. Idle.way <= Idle.last /\ Idle.pc # "copy"
      BY DEF Idle
    <2> QED BY <2>1, <2>2, <2>3, <2>4, <2>5 DEF Init, TypeOK
  <1>2. TypeOK /\ [Next]_vars => TypeOK'
    <2> SUFFICES ASSUME TypeOK, [Next]_vars PROVE TypeOK'
      OBVIOUS
    <2>1. CASE WriterStep
      BY <2>1, WriterTyped
    <2>2. ASSUME NEW r \in Reader, ReaderStep(r) PROVE TypeOK'
      BY <2>2, ReaderFrame, ReaderTyped, ReadOrderFacts DEF TypeOK, Fine
    <2>3. CASE UNCHANGED vars
      BY <2>3 DEF TypeOK, vars
    <2> QED BY <2>1, <2>2, <2>3, NextSteps
  <1> QED BY <1>1, <1>2, PTL DEF Spec

-----------------------------------------------------------------------------
(***************************************************************************)
(* Wholeness.  The count is odd while a store is under way, and then the   *)
(* fields written so far are the new store's; every way no store is at     *)
(* work in is whole.  As long as the count is the one a reader started     *)
(* from, what it has seen is still there; and that count was even.         *)
(***************************************************************************)
WriterInv == /\ Odd(seq) <=> Writing
             /\ Writing => Len(log) # 0
             /\ \A w \in Way : \/ Writing /\ w = writer.way
                              \/ \A f, g \in Field : way[w][f] = way[w][g]
             /\ \A i \in 1 .. 6 : i < writer.step => way[writer.way][WriteOrder[i]] = Len(log)

Checked(r, f) == /\ reader[r].got[f] = way[reader[r].way][f]
                 /\ Passes(r, f, reader[r].got[f])

Reading(r) == reader[r].pc \in {"inspect", "copy", "check"}

Undisturbed(r) ==
    /\ reader[r].pc = "inspect" =>
          \A i \in 1 .. 5 : i < reader[r].step => Checked(r, InspectOrder[i])
    /\ reader[r].pc \in {"copy", "check"} => \A f \in Field \ {"body"} : Checked(r, f)
    /\ reader[r].pc = "check" => reader[r].got["body"] = way[reader[r].way]["body"]

OneStores(r) == \E id \in 1 .. Len(log) :
               /\ \A f \in Field : reader[r].got[f] = id
               /\ ~log[id].blocked
               /\ r = "l2" => log[id].name = reader[r].name /\ log[id].gen = reader[r].gen

ReaderInv(r) == /\ reader[r].pc = "asked" => reader[r].step = 1
                /\ Reading(r) => ~Odd(reader[r].s1) /\ reader[r].s1 <= seq
                /\ Reading(r) /\ seq = reader[r].s1 => Undisturbed(r)
                /\ reader[r].pc = "hit" => OneStores(r)

SeqlockInv == TypeOK /\ WriterInv /\ \A r \in Reader : ReaderInv(r)

\* The writer keeps its half of the invariant.
LEMMA WriterKeepsWriter == ASSUME SeqlockInv, WriterStep PROVE WriterInv'
  <1>1. /\ seq \in Nat /\ log \in Seq(StoreType) /\ Len(log) \in Nat
        /\ way \in [Way -> [Field -> 0 .. Len(log)]]
        /\ writer \in [step : 0 .. 7, way : Way]
    BY WriteOrderFacts DEF SeqlockInv, TypeOK, WriterType
  <1>2. Odd(seq + 1) <=> ~Odd(seq)
    BY <1>1, Parity
  <1>3. CASE BeginStore
    <2>1. PICK w \in Way : writer' = [step |-> 1, way |-> w]
      BY <1>3 DEF BeginStore, Victim
    <2>2. writer'.step = 1 /\ writer'.way = w /\ way' = way /\ seq' = seq + 1 /\ writer.step = 0
      BY <1>3, <2>1 DEF BeginStore, Writing
    <2>3. Len(log') # 0
      <3>1. PICK s \in StoreType : log' = Append(log, s)
        <4>1. gen \in 0 .. MaxGen /\ MaxGen \in Nat
          BY BoundsAssumption DEF SeqlockInv, TypeOK
        <4> QED BY <1>3, <4>1 DEF BeginStore, StoreType
      <3> QED BY <1>1, <3>1, AppendKeeps
    <2> QED BY <1>2, <2>2, <2>3 DEF SeqlockInv, WriterInv, Writing
  <1>4. CASE WriteField
    <2>1. /\ writer.step \in 1 .. 6 /\ writer'.step = writer.step + 1 /\ writer'.way = writer.way
          /\ WriteOrder[writer.step] \in Field
          /\ way' = [way EXCEPT ![writer.way][WriteOrder[writer.step]] = Len(log)]
          /\ seq' = seq /\ log' = log
      BY <1>1, <1>4, WriteOrderFacts DEF WriteField
    <2>2. \A w \in Way : w # writer.way => way'[w] = way[w]
      BY <1>1, <2>1
    <2>3. \A f \in Field : way'[writer.way][f] =
              IF f = WriteOrder[writer.step] THEN Len(log) ELSE way[writer.way][f]
      BY <1>1, <2>1
    <2>4. \A i \in 1 .. 6 : i < writer.step + 1 => way'[writer.way][WriteOrder[i]] = Len(log)
      <3> TAKE i \in 1 .. 6
      <3> HAVE i < writer.step + 1
      <3>1. WriteOrder[i] \in Field
        BY WriteOrderFacts
      <3>2. CASE i = writer.step
        BY <2>3, <3>1, <3>2
      <3>3. CASE i < writer.step
        BY <2>3, <3>1, <3>3 DEF SeqlockInv, WriterInv
      <3> QED BY <2>1, <3>2, <3>3
    <2>5. Writing /\ Writing'
      BY <2>1 DEF Writing
    <2> QED BY <2>1, <2>2, <2>4, <2>5 DEF SeqlockInv, WriterInv
  <1>5. CASE EndStore
    <2>1. /\ writer.step = 7 /\ writer'.step = 0 /\ writer'.way = writer.way
          /\ way' = way /\ seq' = seq + 1
      BY <1>1, <1>5, WriteOrderFacts DEF EndStore
    <2>2. \A f \in Field : way[writer.way][f] = Len(log)
      BY <2>1, WriteOrderFacts DEF SeqlockInv, WriterInv
    <2>3. \A w \in Way : \A f, g \in Field : way[w][f] = way[w][g]
      BY <2>2 DEF SeqlockInv, WriterInv
    <2>4. Writing /\ ~Writing'
      BY <2>1 DEF Writing
    <2>5. \A i \in 1 .. 6 : ~(i < writer'.step)
      BY <2>1
    <2> QED BY <1>2, <2>1, <2>3, <2>4, <2>5 DEF SeqlockInv, WriterInv
  <1>6. CASE Bump
    BY <1>6 DEF SeqlockInv, WriterInv, Bump, Writing
  <1> QED BY <1>3, <1>4, <1>5, <1>6 DEF WriterStep

\* It leaves the readers' half alone: a reader the count no longer agrees with
\* has nothing to lose.
LEMMA WriterKeepsReaders == ASSUME SeqlockInv, WriterStep, NEW r \in Reader PROVE ReaderInv(r)'
  <1>1. reader' = reader
    BY DEF WriterStep, BeginStore, WriteField, EndStore, Bump
  <1>2. seq \in Nat /\ log \in Seq(StoreType) /\ Len(log) \in Nat /\ reader[r].s1 \in Nat
    BY DEF SeqlockInv, TypeOK, ReaderType
  <1>3. Len(log) <= Len(log') /\ \A i \in 1 .. Len(log) : log'[i] = log[i]
    <2>1. CASE BeginStore
      <3>1. PICK s \in StoreType : log' = Append(log, s)
        <4>1. gen \in 0 .. MaxGen /\ MaxGen \in Nat
          BY BoundsAssumption DEF SeqlockInv, TypeOK
        <4> QED BY <2>1, <4>1 DEF BeginStore, StoreType
      <3> QED BY <1>2, <3>1, AppendKeeps
    <2> QED BY <1>2, <2>1 DEF WriterStep, WriteField, EndStore, Bump
  <1>4. reader[r].pc = "hit" => OneStores(r)'
    <2> SUFFICES ASSUME reader[r].pc = "hit" PROVE OneStores(r)'
      OBVIOUS
    <2>1. PICK id \in 1 .. Len(log) :
             /\ \A f \in Field : reader[r].got[f] = id
             /\ ~log[id].blocked
             /\ r = "l2" => log[id].name = reader[r].name /\ log[id].gen = reader[r].gen
      BY DEF SeqlockInv, ReaderInv, OneStores
    <2>2. id \in 1 .. Len(log') /\ log'[id] = log[id]
      BY <1>2, <1>3, AppendKeeps DEF WriterStep, BeginStore, WriteField, EndStore, Bump
    <2> QED BY <1>1, <2>1, <2>2 DEF OneStores
  <1>5. CASE Bump
    <2>1. seq' = seq /\ way' = way /\ log' = log
      BY <1>5 DEF Bump
    <2>2. \A f : Passes(r, f, reader[r].got[f])' <=> Passes(r, f, reader[r].got[f])
      BY <1>1, <2>1 DEF Passes, IsAllow, IsFor
    <2>3. \A f : Checked(r, f)' <=> Checked(r, f)
      BY <1>1, <2>1, <2>2 DEF Checked
    <2>4. Undisturbed(r)' <=> Undisturbed(r)
      BY <1>1, <2>1, <2>3 DEF Undisturbed
    <2> QED BY <1>1, <1>4, <2>1, <2>4 DEF SeqlockInv, ReaderInv, Reading
  <1>6. ASSUME ~Bump PROVE seq <= seq' /\ (Reading(r) => seq' # reader[r].s1)
    <2>1. CASE seq' = seq + 1
      BY <1>2, <2>1 DEF SeqlockInv, ReaderInv
    <2>2. CASE WriteField
      <3>1. Writing
        BY <2>2 DEF WriteField, Writing
      <3> QED BY <1>2, <2>2, <3>1 DEF SeqlockInv, ReaderInv, WriterInv, WriteField
    <2> QED BY <1>6, <2>1, <2>2 DEF WriterStep, BeginStore, EndStore
  <1>7. CASE ~Bump
    <2>1. seq' \in Nat
      BY <1>2, <1>7 DEF WriterStep, BeginStore, WriteField, EndStore
    <2> QED BY <1>1, <1>2, <1>4, <1>6, <1>7, <2>1 DEF SeqlockInv, ReaderInv, Reading
  <1> QED BY <1>5, <1>7

\* A reader's step leaves the writer and the other readers alone.
LEMMA ReaderKeepsOthers == ASSUME SeqlockInv, NEW r \in Reader, ReaderStep(r)
                           PROVE  WriterInv' /\ \A u \in Reader \ {r} : ReaderInv(u)'
  <1>1. UNCHANGED <<seq, log, way, gen, writer>>
    BY ReaderFrame
  <1>2. \A u \in Reader \ {r} : reader'[u] = reader[u]
    BY DEF SeqlockInv, TypeOK, ReaderStep, Ask, ReadSeq, Inspect, Skip, Copy, Check, Use, Set
  <1>3. WriterInv'
    BY <1>1 DEF SeqlockInv, WriterInv, Writing
  <1>4. ASSUME NEW u \in Reader \ {r} PROVE ReaderInv(u)'
    <2>1. reader'[u] = reader[u]
      BY <1>2
    <2>2. \A f : Passes(u, f, reader[u].got[f])' <=> Passes(u, f, reader[u].got[f])
      BY <1>1, <2>1 DEF Passes, IsAllow, IsFor
    <2>3. \A f : Checked(u, f)' <=> Checked(u, f)
      BY <1>1, <2>1, <2>2 DEF Checked
    <2>4. Undisturbed(u)' <=> Undisturbed(u)
      BY <1>1, <2>1, <2>3 DEF Undisturbed
    <2>5. OneStores(u)' <=> OneStores(u)
      BY <1>1, <2>1 DEF OneStores
    <2> QED BY <1>1, <2>1, <2>4, <2>5 DEF SeqlockInv, ReaderInv, Reading
  <1> QED BY <1>3, <1>4

\* When the count agrees, what a reader at its check has seen is one entry:
\* the one in the way it looks at, a whole and allowed one.
LEMMA CheckedIsWhole ==
    ASSUME SeqlockInv, NEW r \in Reader, reader[r].pc = "check", seq = reader[r].s1
    PROVE  /\ OneStores(r)
           /\ \A f \in Field : reader[r].got[f] = way[reader[r].way].stamp
           /\ way[reader[r].way].stamp \in 1 .. Len(log)
  <1> DEFINE w == reader[r].way
             id == way[w].stamp
  <1>1. /\ w \in Way /\ Len(log) \in Nat /\ way \in [Way -> [Field -> 0 .. Len(log)]]
    BY DEF SeqlockInv, TypeOK, ReaderType
  <1>2. \A f \in Field \ {"body"} : Checked(r, f)
    BY DEF SeqlockInv, ReaderInv, Reading, Undisturbed
  <1>3. reader[r].got["body"] = way[w]["body"]
    BY DEF SeqlockInv, ReaderInv, Reading, Undisturbed
  <1>4. ~Writing
    BY DEF SeqlockInv, ReaderInv, Reading, WriterInv
  <1>5. \A f \in Field : way[w][f] = id
    BY <1>1, <1>4 DEF SeqlockInv, WriterInv, Field
  <1>6. \A f \in Field : reader[r].got[f] = id
    BY <1>2, <1>3, <1>5 DEF Checked
  <1>7. IsAllow(id)
    <2>1. "kind" \in Field \ {"body"}
      BY DEF Field
    <2> QED BY <1>2, <1>6, <2>1 DEF Checked, Passes
  <1>8. id \in 1 .. Len(log)
    <2>1. id \in 0 .. Len(log)
      BY <1>1 DEF Field
    <2> QED BY <1>1, <1>7, <2>1 DEF IsAllow
  <1>9. r = "l2" => log[id].name = reader[r].name
    <2>1. "key" \in Field \ {"body"}
      BY DEF Field
    <2> QED BY <1>2, <1>6, <2>1 DEF Checked, Passes, IsFor
  <1>10. r = "l2" => log[id].gen = reader[r].gen
    <2>1. "stamp" \in Field \ {"body"}
      BY DEF Field
    <2>2. id # 0
      BY <1>7 DEF IsAllow
    <2>3. Passes(r, "stamp", id)
      BY <1>2, <1>6, <2>1 DEF Checked
    <2> QED BY <2>2, <2>3 DEF Passes
  <1> QED BY <1>6, <1>7, <1>8, <1>9, <1>10 DEF OneStores, IsAllow

\* A reader's step keeps its own part of the invariant.
LEMMA ReaderKeepsItself == ASSUME SeqlockInv, NEW r \in Reader, ReaderStep(r) PROVE ReaderInv(r)'
  <1> DEFINE q == reader[r]
             p == reader'[r]
  <1>1. UNCHANGED <<seq, log, way, gen, writer>>
    BY ReaderFrame
  <1>2. /\ reader \in [Reader -> ReaderType] /\ q \in ReaderType /\ seq \in Nat
        /\ q.step \in 1 .. 5 /\ q.got \in [Field -> Nat]
        /\ way \in [Way -> [Field -> 0 .. Len(log)]] /\ q.way \in Way
    BY ReadOrderFacts DEF SeqlockInv, TypeOK, ReaderType
  <1>3. ASSUME NEW x, Set(r, x) PROVE p = x
    BY <1>2, <1>3 DEF Set
  <1>4. \A f, id : Passes(r, f, id)' <=>
          CASE f \in {"kind", "len"} -> IsAllow(id)
            [] f \in {"key", "head"} -> r = "save" \/ IsFor(id, p.name)
            [] f = "stamp" -> r = "save" \/ IF id = 0 THEN p.gen = 0 ELSE log[id].gen = p.gen
    BY <1>1 DEF Passes, IsAllow, IsFor
  <1>5. ASSUME p.name = q.name, p.gen = q.gen, NEW f, NEW id
        PROVE  Passes(r, f, id)' <=> Passes(r, f, id)
    BY <1>4, <1>5 DEF Passes
  <1>6. CASE p = Idle
    BY <1>6 DEF ReaderInv, Reading, Idle
  <1>7. CASE Ask(r)
    <2>1. p.pc = "asked" /\ p.step = 1
      BY <1>3, <1>7, IdleTyped, Zenon DEF Ask, Idle, ReaderType
    <2> QED BY <2>1 DEF ReaderInv, Reading
  <1>8. ASSUME ReadSeq(r), p # Idle PROVE ReaderInv(r)'
    <2>1. ~Odd(seq) /\ p = [q EXCEPT !.pc = "inspect", !.s1 = seq]
      BY <1>3, <1>8 DEF ReadSeq
    <2>2. p.pc = "inspect" /\ p.s1 = seq /\ p.step = q.step
      BY <1>2, <2>1, Zenon DEF ReaderType
    <2>3. q.step = 1
      BY <1>8 DEF ReadSeq, SeqlockInv, ReaderInv
    <2>4. Undisturbed(r)'
      BY <2>2, <2>3 DEF Undisturbed
    <2> QED BY <1>1, <1>2, <2>1, <2>2, <2>4 DEF ReaderInv
  <1>9. CASE Inspect(r)
    <2> DEFINE f == InspectOrder[q.step]
    <2>1. /\ q.pc = "inspect" /\ f \in Field \ {"body"} /\ Passes(r, f, way[q.way][f])
          /\ p = IF q.step < 5 THEN [q EXCEPT !.got = See(r, f), !.step = q.step + 1]
                               ELSE [q EXCEPT !.got = See(r, f), !.step = 1, !.pc = "copy"]
      BY <1>2, <1>3, <1>9, ReadOrderFacts DEF Inspect
    <2>2. /\ p.got = See(r, f) /\ p.name = q.name /\ p.gen = q.gen /\ p.way = q.way /\ p.s1 = q.s1
          /\ \/ q.step < 5 /\ p.pc = "inspect" /\ p.step = q.step + 1
             \/ ~(q.step < 5) /\ p.pc = "copy"
      <3> HIDE DEF f
      <3> QED BY <1>2, <2>1, Zenon DEF ReaderType
    <2>3. \A g \in Field : p.got[g] = IF g = f THEN way[q.way][g] ELSE q.got[g]
      BY <1>2, <2>1, <2>2 DEF See
    <2>4. ASSUME NEW g \in Field, g = f \/ Checked(r, g) PROVE Checked(r, g)'
      BY <1>1, <1>5, <2>1, <2>2, <2>3, <2>4 DEF Checked
    <2>5. ASSUME seq = q.s1 PROVE Undisturbed(r)'
      <3>1. \A i \in 1 .. 5 : i <= q.step => Checked(r, InspectOrder[i])'
        <4> TAKE i \in 1 .. 5
        <4> HAVE i <= q.step
        <4>1. InspectOrder[i] \in Field
          BY ReadOrderFacts
        <4>2. i = q.step \/ i < q.step
          BY <1>2
        <4>3. i < q.step => Checked(r, InspectOrder[i])
          BY <2>1, <2>5 DEF SeqlockInv, ReaderInv, Reading, Undisturbed
        <4> QED BY <2>4, <4>1, <4>2, <4>3
      <3>2. CASE q.step < 5
        <4>1. \A i \in 1 .. 5 : i < p.step => i <= q.step
          BY <1>2, <2>2, <3>2
        <4> QED BY <2>2, <3>1, <3>2, <4>1 DEF Undisturbed
      <3>3. CASE ~(q.step < 5)
        <4>1. \A i \in 1 .. 5 : i <= q.step
          BY <1>2, <3>3
        <4>2. \A g \in Field \ {"body"} : Checked(r, g)'
          BY <3>1, <4>1, ReadOrderFacts
        <4> QED BY <2>2, <3>3, <4>2 DEF Undisturbed
      <3> QED BY <3>2, <3>3
    <2> QED BY <1>1, <2>1, <2>2, <2>5 DEF SeqlockInv, ReaderInv, Reading
  <1>10. ASSUME Skip(r), p # Idle PROVE ReaderInv(r)'
    <2>1. q.pc = "inspect" /\ p = [q EXCEPT !.way = q.way + 1, !.step = 1, !.got = Blank]
      BY <1>3, <1>10 DEF Skip
    <2>2. p.pc = "inspect" /\ p.step = 1 /\ p.s1 = q.s1
      BY <1>2, <2>1, Zenon DEF ReaderType
    <2>3. Undisturbed(r)'
      BY <2>2 DEF Undisturbed
    <2> QED BY <1>1, <2>1, <2>2, <2>3 DEF SeqlockInv, ReaderInv, Reading
  <1>11. CASE Copy(r)
    <2> DEFINE c == CopyOrder[q.step]
    <2>1. /\ q.pc = "copy" /\ (q.step = 1 \/ q.step = 2)
      BY <1>2, <1>11, ReadOrderFacts DEF Copy, SeqlockInv, TypeOK
    <2>2. /\ c \in Field /\ (q.step = 1 => c # "body") /\ (q.step = 2 => c = "body")
          /\ p = IF q.step = 1 THEN [q EXCEPT !.got = See(r, c), !.step = q.step + 1]
                               ELSE [q EXCEPT !.got = See(r, c), !.step = 1, !.pc = "check"]
      BY <1>3, <1>11, <2>1, ReadOrderFacts DEF Copy, Field
    <2>3. /\ p.got = See(r, c) /\ p.name = q.name /\ p.gen = q.gen /\ p.way = q.way /\ p.s1 = q.s1
          /\ \/ q.step = 1 /\ p.pc = "copy"
             \/ q.step = 2 /\ p.pc = "check"
      <3> HIDE DEF c
      <3>1. CASE q.step = 1
        <4>1. p = [q EXCEPT !.got = See(r, c), !.step = q.step + 1]
          BY <2>2, <3>1
        <4> QED BY <1>2, <2>1, <3>1, <4>1, Zenon DEF ReaderType
      <3>2. CASE q.step = 2
        <4>1. p = [q EXCEPT !.got = See(r, c), !.step = 1, !.pc = "check"]
          BY <2>2, <3>2
        <4> QED BY <1>2, <2>1, <3>2, <4>1, Zenon DEF ReaderType
      <3> QED BY <2>1, <3>1, <3>2
    <2>4. \A g \in Field : p.got[g] = IF g = c THEN way[q.way][g] ELSE q.got[g]
      BY <1>2, <2>2, <2>3 DEF See
    <2>5. ASSUME seq = q.s1 PROVE Undisturbed(r)'
      <3>1. \A g \in Field \ {"body"} : Checked(r, g)
        BY <2>1, <2>5 DEF SeqlockInv, ReaderInv, Reading, Undisturbed
      <3>2. \A g \in Field \ {"body"} : p.got[g] = q.got[g]
        BY <2>4, <3>1 DEF Checked
      <3>3. \A g \in Field \ {"body"} : Checked(r, g)'
        BY <1>1, <1>5, <2>3, <3>1, <3>2 DEF Checked
      <3>4. p.pc = "check" => p.got["body"] = way[p.way]["body"]
        BY <2>1, <2>2, <2>3, <2>4
      <3> QED BY <1>1, <2>3, <3>3, <3>4 DEF Undisturbed
    <2> QED BY <1>1, <2>1, <2>3, <2>5 DEF SeqlockInv, ReaderInv, Reading
  <1>12. ASSUME Check(r), p # Idle PROVE ReaderInv(r)'
    <2>1. q.pc = "check" /\ seq = q.s1 /\ p = [q EXCEPT !.pc = "hit"]
      BY <1>3, <1>12 DEF Check
    <2>2. p.pc = "hit" /\ p.got = q.got /\ p.name = q.name /\ p.gen = q.gen
      BY <1>2, <2>1, Zenon DEF ReaderType
    <2>3. OneStores(r)
      BY <2>1, CheckedIsWhole
    <2>4. OneStores(r)'
      BY <1>1, <2>2, <2>3 DEF OneStores
    <2> QED BY <2>2, <2>4 DEF ReaderInv, Reading
  <1>13. CASE Use(r)
    BY <1>3, <1>6, <1>13 DEF Use
  <1> QED BY <1>6, <1>7, <1>8, <1>9, <1>10, <1>11, <1>12, <1>13 DEF ReaderStep

\* The invariant holds in every reachable state.
THEOREM SeqlockInvariant == Spec => []SeqlockInv
  <1>1. Init => WriterInv /\ \A r \in Reader : ReaderInv(r)
    <2> SUFFICES ASSUME Init PROVE WriterInv /\ \A r \in Reader : ReaderInv(r)
      OBVIOUS
    <2>1. WriterInv
      BY Parity DEF Init, WriterInv, Writing, Blank
    <2>2. \A r \in Reader : reader[r] = Idle /\ Idle.pc = "idle"
      BY DEF Init, Idle
    <2> QED BY <2>1, <2>2 DEF ReaderInv, Reading
  <1>2. SeqlockInv /\ TypeOK' /\ [Next]_vars => SeqlockInv'
    <2> SUFFICES ASSUME SeqlockInv, TypeOK', [Next]_vars
                 PROVE  WriterInv' /\ \A r \in Reader : ReaderInv(r)'
      BY DEF SeqlockInv
    <2>1. CASE WriterStep
      BY <2>1, WriterKeepsWriter, WriterKeepsReaders
    <2>2. ASSUME NEW r \in Reader, ReaderStep(r)
          PROVE  WriterInv' /\ \A u \in Reader : ReaderInv(u)'
      BY <2>2, ReaderKeepsOthers, ReaderKeepsItself
    <2>3. CASE UNCHANGED vars
      <3>1. WriterInv'
        BY <2>3 DEF SeqlockInv, WriterInv, Writing, vars
      <3>2. ASSUME NEW r \in Reader PROVE ReaderInv(r)'
        <4>1. seq' = seq /\ log' = log /\ way' = way /\ reader' = reader
          BY <2>3 DEF vars
        <4>2. \A f : Passes(r, f, reader[r].got[f])' <=> Passes(r, f, reader[r].got[f])
          BY <4>1 DEF Passes, IsAllow, IsFor
        <4>3. \A f : Checked(r, f)' <=> Checked(r, f)
          BY <4>1, <4>2 DEF Checked
        <4>4. (Undisturbed(r)' <=> Undisturbed(r)) /\ (OneStores(r)' <=> OneStores(r))
          BY <4>1, <4>3 DEF Undisturbed, OneStores
        <4> QED BY <4>1, <4>4 DEF SeqlockInv, ReaderInv, Reading
      <3> QED BY <3>1, <3>2
    <2> QED BY <2>1, <2>2, <2>3, NextSteps
  <1> QED BY <1>1, <1>2, SeqlockTypeCorrect, PTL DEF Spec, SeqlockInv

\* What a reader uses is one allowed store, whole: however its reads and the
\* stores of dns_task interleave (dns_cache_l2_get, dns_server_cache_save).
THEOREM RepliesAreWhole == Spec => []RepliesWhole
  <1>1. SeqlockInv => RepliesWhole
    BY DEF SeqlockInv, ReaderInv, OneStores, RepliesWhole
  <1> QED BY <1>1, SeqlockInvariant, PTL

-----------------------------------------------------------------------------
(***************************************************************************)
(* Atomicity.  A store happens when its last field is written, a read that *)
(* hits when it finds the count unchanged.                                 *)
(***************************************************************************)
AtomicVars == <<Table, gen, Asked, Reply>>

\* What a writer's step does to the entries as readers see them.
LEMMA WriterRefines == ASSUME SeqlockInv, WriterStep PROVE [Atomic!Next]_AtomicVars
  <1>1. /\ log \in Seq(StoreType) /\ Len(log) \in Nat /\ writer \in [step : 0 .. 7, way : Way]
        /\ way \in [Way -> [Field -> 0 .. Len(log)]] /\ gen \in 0 .. MaxGen
        /\ reader' = reader
    BY WriteOrderFacts DEF SeqlockInv, TypeOK, WriterType, WriterStep, BeginStore, WriteField,
                           EndStore, Bump
  <1>2. Asked' = Asked
    BY <1>1 DEF Asked
  <1>3. ASSUME log' = log PROVE Reply' = Reply
    BY <1>1, <1>3 DEF Reply
  <1>4. CASE BeginStore
    <2>1. way' = way /\ gen' = gen
      BY <1>4 DEF BeginStore
    <2>2. \A i \in 1 .. Len(log) : log'[i] = log[i]
      <3>1. PICK s \in StoreType : log' = Append(log, s)
        <4>1. MaxGen \in Nat
          BY BoundsAssumption
        <4> QED BY <1>1, <1>4, <4>1 DEF BeginStore, StoreType
      <3> QED BY <1>1, <3>1, AppendKeeps
    <2>3. Table' = Table
      <3>1. \A w \in Way : way[w].stamp \in 0 .. Len(log)
        BY <1>1 DEF Field
      <3>2. \A w \in Way : way[w].stamp # 0 => log'[way[w].stamp] = log[way[w].stamp]
        BY <1>1, <2>2, <3>1
      <3> QED BY <2>1, <3>2 DEF Table
    <2>4. Reply' = Reply
      <3>1. ASSUME NEW r \in Reader, reader[r].pc = "hit"
            PROVE  log'[reader[r].got.head] = log[reader[r].got.head]
        <4>1. OneStores(r)
          BY <3>1 DEF SeqlockInv, ReaderInv
        <4> QED BY <2>2, <4>1 DEF OneStores, Field
      <3> QED BY <1>1, <3>1 DEF Reply
    <2> QED BY <1>2, <2>1, <2>3, <2>4 DEF AtomicVars
  <1>5. CASE WriteField
    <2> DEFINE f == WriteOrder[writer.step]
    <2>1. /\ writer.step \in 1 .. 6 /\ f \in Field /\ (f = "stamp" <=> writer.step = 6)
          /\ way' = [way EXCEPT ![writer.way][f] = Len(log)]
          /\ log' = log /\ gen' = gen /\ writer.way \in Way
      BY <1>1, <1>5, WriteOrderFacts DEF WriteField
    <2>2. \A w \in Way : way'[w].stamp =
             IF w = writer.way /\ f = "stamp" THEN Len(log) ELSE way[w].stamp
      BY <1>1, <2>1 DEF Field
    <2>3. CASE f # "stamp"
      <3>1. Table' = Table
        BY <2>1, <2>2, <2>3 DEF Table
      <3> QED BY <1>2, <1>3, <2>1, <3>1 DEF AtomicVars
    <2>4. CASE f = "stamp"
      <3>1. Len(log) # 0 /\ log[Len(log)] \in StoreType
        <4>1. Writing
          BY <2>1 DEF Writing
        <4> QED BY <1>1, <4>1 DEF SeqlockInv, WriterInv
      <3>2. Table' = [Table EXCEPT ![writer.way] = <<log[Len(log)]>>]
        <4>1. \A w \in Way : (IF way'[w].stamp = 0 THEN <<>> ELSE <<log[way'[w].stamp]>>)
                           = [Table EXCEPT ![writer.way] = <<log[Len(log)]>>][w]
          <5> TAKE w \in Way
          <5>1. CASE w = writer.way
            BY <2>1, <2>2, <2>4, <3>1, <5>1 DEF Table
          <5>2. CASE w # writer.way
            BY <2>2, <5>2 DEF Table
          <5> QED BY <5>1, <5>2
        <4> QED BY <2>1, <4>1 DEF Table
      <3>3. log[Len(log)] \in Atomic!Entry
        BY <3>1 DEF StoreType, Atomic!Entry
      <3>4. Atomic!Put
        BY <1>2, <1>3, <2>1, <3>2, <3>3 DEF Atomic!Put, Atomic!Way, Way
      <3> QED BY <3>4 DEF Atomic!Next
    <2> QED BY <2>3, <2>4
  <1>6. CASE EndStore
    <2>1. way' = way /\ gen' = gen /\ log' = log
      BY <1>6 DEF EndStore
    <2>2. Table' = Table
      BY <2>1 DEF Table
    <2> QED BY <1>2, <1>3, <2>1, <2>2 DEF AtomicVars
  <1>7. CASE Bump
    <2>1. way' = way /\ gen' = gen + 1 /\ log' = log
      BY <1>7 DEF Bump
    <2>2. Table' = Table
      BY <2>1 DEF Table
    <2> QED BY <1>2, <1>3, <2>1, <2>2 DEF Atomic!Bump, Atomic!Next
  <1> QED BY <1>4, <1>5, <1>6, <1>7 DEF WriterStep

\* What a reader's record shows of its read.
AskOf(x) == IF x.pc \in {"idle", "hit"} THEN <<>> ELSE <<[name |-> x.name, gen |-> x.gen]>>

ReplyOf(x) == IF x.pc # "hit" THEN <<>>
              ELSE IF x.got.head = x.got.body /\ x.got.head # 0 THEN <<log[x.got.head]>> ELSE <<Torn>>

LEMMA ShownSet == ASSUME TypeOK, NEW r \in Reader, NEW x, Set(r, x), log' = log
                  PROVE  /\ reader'[r] = x
                         /\ Asked' = [Asked EXCEPT ![r] = AskOf(x)]
                         /\ Reply' = [Reply EXCEPT ![r] = ReplyOf(x)]
  BY DEF TypeOK, Set, Asked, Reply, AskOf, ReplyOf

LEMMA Shown == ASSUME NEW r \in Reader
               PROVE  /\ Asked[r] = AskOf(reader[r]) /\ Reply[r] = ReplyOf(reader[r])
                      /\ \A y : y = Asked[r] => [Asked EXCEPT ![r] = y] = Asked
                      /\ \A y : y = Reply[r] => [Reply EXCEPT ![r] = y] = Reply
  BY DEF Asked, Reply, AskOf, ReplyOf

\* What a reader's step does to them.
LEMMA ReaderRefines == ASSUME SeqlockInv, NEW r \in Reader, ReaderStep(r)
                       PROVE  [Atomic!Next]_AtomicVars
  <1> DEFINE q == reader[r]
  <1>1. UNCHANGED <<seq, log, way, gen, writer>>
    BY ReaderFrame
  <1>2. Table' = Table /\ gen' = gen
    BY <1>1 DEF Table
  <1>3. q \in ReaderType /\ gen \in 0 .. MaxGen /\ TypeOK
    BY DEF SeqlockInv, TypeOK
  <1>4. ASSUME NEW x, Set(r, x), AskOf(x) = AskOf(q), ReplyOf(x) = ReplyOf(q)
        PROVE  UNCHANGED AtomicVars
    BY <1>1, <1>2, <1>3, <1>4, Shown, ShownSet DEF AtomicVars
  <1>i. AskOf(Idle) = <<>> /\ ReplyOf(Idle) = <<>>
    BY DEF AskOf, ReplyOf, Idle
  <1>5. ASSUME Set(r, Idle), q.pc \notin {"idle", "hit"} PROVE Atomic!Miss(r)
    <2>1. Asked[r] # <<>> /\ Reply[r] = <<>>
      <3>1. AskOf(q) = <<[name |-> q.name, gen |-> q.gen]>> /\ ReplyOf(q) = <<>>
        BY <1>5 DEF AskOf, ReplyOf
      <3>2. AskOf(q) # <<>>
        BY <3>1
      <3> QED BY <3>1, <3>2, Shown
    <2> QED BY <1>1, <1>2, <1>3, <1>5, <1>i, <2>1, Shown, ShownSet DEF Atomic!Miss
  <1>6. CASE Ask(r)
    <2>1. AskOf(q) = <<>> /\ ReplyOf(q) = <<>>
      BY <1>6 DEF Ask, AskOf, ReplyOf
    <2>2. PICK x : /\ Set(r, x) /\ x \in ReaderType /\ x.pc = "asked"
                   /\ x.name \in Name /\ x.gen \in 0 .. MaxGen /\ (r = "l2" => x.gen = gen)
      <3>1. ASSUME NEW n \in Name
            PROVE  LET x == [Idle EXCEPT !.pc = "asked", !.name = n, !.gen = gen, !.last = Ways]
                   IN  x \in ReaderType /\ x.pc = "asked" /\ x.gen = gen
        <4>1. Ways \in Way
          BY WaysAssumption DEF Way
        <4> QED BY <1>3, <4>1, IdleTyped, Zenon DEF ReaderType
      <3>2. ASSUME NEW w \in Way
            PROVE  LET x == [Idle EXCEPT !.pc = "asked", !.way = w, !.last = w]
                   IN  x \in ReaderType /\ x.pc = "asked"
        BY IdleTyped, Zenon DEF ReaderType
      <3>3. \A x \in ReaderType : x.name \in Name /\ x.gen \in 0 .. MaxGen
        BY DEF ReaderType
      <3> QED BY <1>6, <3>1, <3>2, <3>3 DEF Ask
    <2>3. AskOf(x) = <<[name |-> x.name, gen |-> x.gen]>> /\ ReplyOf(x) = <<>>
      BY <2>2 DEF AskOf, ReplyOf
    <2>4. Reply' = Reply
      BY <1>1, <1>3, <2>1, <2>2, <2>3, Shown, ShownSet
    <2>5. Asked' = [Asked EXCEPT ![r] = <<[name |-> x.name, gen |-> x.gen]>>]
      BY <1>1, <1>3, <2>2, <2>3, ShownSet
    <2>6. Asked[r] = <<>> /\ Reply[r] = <<>>
      BY <2>1, Shown
    <2>7. Atomic!Ask(r)
      BY <1>2, <2>2, <2>4, <2>5, <2>6 DEF Atomic!Ask
    <2> QED BY <2>7 DEF Atomic!Next
  <1>7. CASE ReadSeq(r)
    <2>1. q.pc = "asked"
      BY <1>7 DEF ReadSeq
    <2>2. CASE Set(r, Idle)
      BY <1>5, <2>1, <2>2 DEF Atomic!Next
    <2>3. CASE Set(r, [q EXCEPT !.pc = "inspect", !.s1 = seq])
      <3> DEFINE x == [q EXCEPT !.pc = "inspect", !.s1 = seq]
      <3>1. x.pc = "inspect" /\ x.name = q.name /\ x.gen = q.gen
        BY <1>3, Zenon DEF ReaderType
      <3>2. Set(r, x)
        BY <2>3
      <3> HIDE DEF x
      <3>3. AskOf(x) = AskOf(q) /\ ReplyOf(x) = ReplyOf(q)
        BY <2>1, <3>1 DEF AskOf, ReplyOf
      <3> QED BY <1>4, <3>2, <3>3
    <2> QED BY <1>7, <2>2, <2>3 DEF ReadSeq
  <1>8. CASE Inspect(r)
    <2> DEFINE g == See(r, InspectOrder[q.step])
               x == IF q.step < Len(InspectOrder) THEN [q EXCEPT !.got = g, !.step = q.step + 1]
                    ELSE [q EXCEPT !.got = g, !.step = 1, !.pc = "copy"]
    <2>1. q.pc = "inspect" /\ Set(r, x)
      BY <1>8 DEF Inspect
    <2>2. x.pc \in {"inspect", "copy"} /\ x.name = q.name /\ x.gen = q.gen
      <3> HIDE DEF g
      <3> QED BY <1>3, <2>1, Zenon DEF ReaderType
    <2> HIDE DEF x
    <2> QED BY <1>4, <2>1, <2>2 DEF AskOf, ReplyOf
  <1>9. CASE Skip(r)
    <2> DEFINE x == [q EXCEPT !.way = q.way + 1, !.step = 1, !.got = Blank]
    <2>1. q.pc = "inspect" /\ (Set(r, Idle) \/ Set(r, x))
      BY <1>9 DEF Skip
    <2>2. x.pc = "inspect" /\ x.name = q.name /\ x.gen = q.gen
      BY <1>3, <2>1, Zenon DEF ReaderType
    <2>3. CASE Set(r, Idle)
      BY <1>5, <2>1, <2>3 DEF Atomic!Next
    <2>4. CASE Set(r, x)
      <3> HIDE DEF x
      <3> QED BY <1>4, <2>1, <2>2, <2>4 DEF AskOf, ReplyOf
    <2> QED BY <2>1, <2>3, <2>4
  <1>10. CASE Copy(r)
    <2> DEFINE g == See(r, CopyOrder[q.step])
               x == IF q.step < Len(CopyOrder) THEN [q EXCEPT !.got = g, !.step = q.step + 1]
                    ELSE [q EXCEPT !.got = g, !.step = 1, !.pc = "check"]
    <2>1. q.pc = "copy" /\ Set(r, x)
      BY <1>10 DEF Copy
    <2>2. x.pc \in {"copy", "check"} /\ x.name = q.name /\ x.gen = q.gen
      <3> HIDE DEF g
      <3> QED BY <1>3, <2>1, Zenon DEF ReaderType
    <2> HIDE DEF x
    <2> QED BY <1>4, <2>1, <2>2 DEF AskOf, ReplyOf
  <1>11. CASE Check(r)
    <2>1. q.pc = "check"
      BY <1>11 DEF Check
    <2>2. CASE seq # q.s1
      BY <1>5, <1>11, <2>1, <2>2 DEF Check, Atomic!Next
    <2>3. CASE seq = q.s1
      <3> DEFINE x == [q EXCEPT !.pc = "hit"]
                 w == q.way
                 id == way[w].stamp
      <3>1. Set(r, x)
        BY <1>11, <2>3 DEF Check
      <3>2. x.pc = "hit" /\ x.got = q.got
        BY <1>3, Zenon DEF ReaderType
      <3>3. /\ OneStores(r) /\ id \in 1 .. Len(log) /\ w \in Way
            /\ q.got.head = id /\ q.got.body = id
        BY <1>3, <2>1, <2>3, CheckedIsWhole DEF ReaderType, Field
      <3>4. /\ ~log[id].blocked
            /\ r = "l2" => log[id].name = q.name /\ log[id].gen = q.gen
        BY <3>3 DEF OneStores, Field
      <3>5. AskOf(x) = <<>> /\ ReplyOf(x) = <<log[id]>>
        BY <3>2, <3>3 DEF AskOf, ReplyOf
      <3>6. Table[w] = <<log[id]>>
        <4>1. Len(log) \in Nat
          BY <1>3 DEF TypeOK
        <4>2. id # 0
          BY <3>3, <4>1
        <4> QED BY <3>3, <4>2 DEF Table
      <3>7. Asked[r] = <<[name |-> q.name, gen |-> q.gen]>>
        BY <2>1, Shown DEF AskOf
      <3> HIDE DEF x
      <3>8. Asked' = [Asked EXCEPT ![r] = <<>>] /\ Reply' = [Reply EXCEPT ![r] = Table[w]]
        BY <1>1, <1>3, <3>1, <3>5, <3>6, ShownSet
      <3>9. Atomic!Answers(r, Table[w][1])
        BY <3>4, <3>6, <3>7 DEF Atomic!Answers
      <3>10. Table[w] # <<>> /\ Asked[r] # <<>>
        BY <3>6, <3>7
      <3>11. Atomic!Hit(r)
        <4> HIDE DEF w, id
        <4> QED BY <1>2, <3>3, <3>8, <3>9, <3>10 DEF Atomic!Hit, Atomic!Way, Way
      <3> QED BY <3>11 DEF Atomic!Next
    <2> QED BY <2>2, <2>3
  <1>12. CASE Use(r)
    <2>1. q.pc = "hit" /\ Set(r, Idle)
      BY <1>12 DEF Use
    <2>2. AskOf(q) = <<>> /\ ReplyOf(q) # <<>>
      BY <2>1 DEF AskOf, ReplyOf
    <2>3. Atomic!Use(r)
      BY <1>1, <1>2, <1>3, <1>i, <2>1, <2>2, Shown, ShownSet DEF Atomic!Use
    <2> QED BY <2>3 DEF Atomic!Next
  <1> QED BY <1>6, <1>7, <1>8, <1>9, <1>10, <1>11, <1>12 DEF ReaderStep

\* The seqlock makes every read look atomic: CacheSeqlock implements AtomicCache.
THEOREM ReadsLookAtomic == Spec => ReadsAreAtomic
  <1>1. Init => Atomic!Init
    BY DEF Init, Atomic!Init, Atomic!Way, Way, Table, Asked, Reply, Idle, Blank, Field
  <1>2. SeqlockInv /\ [Next]_vars => [Atomic!Next]_AtomicVars
    <2>1. ASSUME UNCHANGED vars PROVE UNCHANGED AtomicVars
      BY <2>1 DEF vars, AtomicVars, Table, Asked, Reply
    <2> QED BY <2>1, WriterRefines, ReaderRefines, NextSteps
  <1>3. AtomicVars = Atomic!vars
    BY DEF AtomicVars, Atomic!vars
  <1> QED BY <1>1, <1>2, <1>3, SeqlockInvariant, PTL DEF Spec, ReadsAreAtomic, Atomic!Spec,
                                                       AtomicVars, Atomic!vars

-----------------------------------------------------------------------------
(***************************************************************************)
(* The rings.  Counters and slots, so that no later step expands a         *)
(* remainder.                                                              *)
(***************************************************************************)
\* Division with remainder by the size of the ring.
LEMMA SlotIsRemainder == ASSUME NEW n \in Nat
                         PROVE  /\ SlotOf(n) \in 0 .. Size - 1
                                /\ n = Size * (n \div Size) + SlotOf(n)
  <1>1. Size \in Nat \ {0}
    BY SizeAssumption
  <1> QED BY <1>1, RemainderIs DEF SlotOf

\* The remainder is the only one.
LEMMA RemainderIsSlot == ASSUME NEW n \in Nat, NEW q \in Int, NEW r \in 0 .. Size - 1, n = Size * q + r
                         PROVE  SlotOf(n) = r
  <1>1. Size \in Nat \ {0} /\ n \in Int
    BY SizeAssumption
  <1> QED BY <1>1, RemainderIsThis DEF SlotOf

\* The counters wrap at a multiple of the size: the slot does not see it.
LEMMA SlotWraps == ASSUME NEW n \in Nat
                   PROVE  SlotOf(n + Modulus) = SlotOf(n)
  <1> DEFINE k == Modulus \div Size
             q == n \div Size
  <1>1. Modulus = Size * k
    BY SizeAssumption, ModulusAssumption, SMT
  <1>2. k \in Int /\ q \in Int
    BY SizeAssumption, ModulusAssumption, SMT
  <1>3. n = Size * q + SlotOf(n) /\ SlotOf(n) \in 0 .. Size - 1
    BY SlotIsRemainder
  <1> HIDE DEF k, q
  <1>4. n + Modulus = Size * (q + k) + SlotOf(n)
    BY <1>1, <1>2, <1>3, SizeAssumption, SMT
  <1>5. n + Modulus \in Nat /\ q + k \in Int
    BY <1>2, ModulusAssumption
  <1> QED BY <1>3, <1>4, <1>5, RemainderIsSlot

\* Numbers closer than the size have slots of their own.
LEMMA SlotsDiffer == ASSUME NEW m \in Nat, NEW n \in Nat, m < n, n - m < Size
                     PROVE  SlotOf(m) # SlotOf(n)
  <1>1. Size \in Nat \ {0}
    BY SizeAssumption
  <1> QED BY <1>1, RemaindersDiffer DEF SlotOf

\* The next value of a counter.
LEMMA Plus1Is == ASSUME NEW n \in Counter
                 PROVE  /\ Plus1(n) \in Counter
                        /\ Plus1(n) = IF n = Modulus - 1 THEN 0 ELSE n + 1
  BY ModulusAssumption, SizeAssumption, SMT DEF Counter, Plus1

\* How far one counter is ahead of another.
LEMMA DistanceIs == ASSUME NEW h \in Counter, NEW t \in Counter
                    PROVE  /\ Distance(h, t) \in Counter
                           /\ Distance(h, t) = IF h >= t THEN h - t ELSE h + Modulus - t
  BY ModulusAssumption, SizeAssumption, SMT DEF Counter, Distance

\* What the two counters' steps do to it.
LEMMA DistanceSteps == ASSUME NEW h \in Counter, NEW t \in Counter
                       PROVE  /\ Distance(h, t) = 0 <=> h = t
                              /\ Distance(h, t) < Size => Distance(Plus1(h), t) = Distance(h, t) + 1
                              /\ h # t => Distance(h, Plus1(t)) = Distance(h, t) - 1
  <1>1. Plus1(h) \in Counter /\ Plus1(t) \in Counter
    BY Plus1Is
  <1>2. /\ Plus1(h) = IF h = Modulus - 1 THEN 0 ELSE h + 1
        /\ Plus1(t) = IF t = Modulus - 1 THEN 0 ELSE t + 1
    BY Plus1Is
  <1>3. /\ Distance(h, t) = IF h >= t THEN h - t ELSE h + Modulus - t
        /\ Distance(Plus1(h), t) = IF Plus1(h) >= t THEN Plus1(h) - t ELSE Plus1(h) + Modulus - t
        /\ Distance(h, Plus1(t)) = IF h >= Plus1(t) THEN h - Plus1(t) ELSE h + Modulus - Plus1(t)
    BY <1>1, DistanceIs
  <1> QED BY <1>1, <1>2, <1>3, ModulusAssumption, SizeAssumption, SMT DEF Counter

\* The slot head stands for is the one after the last that is queued.
LEMMA HeadSlot == ASSUME NEW h \in Counter, NEW t \in Counter
                  PROVE  SlotOf(t + Distance(h, t)) = SlotOf(h)
  <1>1. h \in Nat /\ t \in Nat /\ Modulus \in Nat
    BY ModulusAssumption DEF Counter
  <1>2. t + Distance(h, t) = h \/ t + Distance(h, t) = h + Modulus
    BY <1>1, DistanceIs
  <1> QED BY <1>1, <1>2, SlotWraps

\* The slots counted from the next tail are those counted from tail, less the first.
LEMMA TailSlots == ASSUME NEW t \in Counter, NEW i \in Nat
                   PROVE  SlotOf(Plus1(t) + i) = SlotOf(t + (i + 1))
  <1>1. t \in Nat /\ Modulus \in Nat
    BY ModulusAssumption DEF Counter
  <1>2. \/ Plus1(t) + i = t + (i + 1)
        \/ t + (i + 1) = i + Modulus /\ Plus1(t) = 0
    BY <1>1, Plus1Is DEF Counter
  <1>3. CASE Plus1(t) + i = t + (i + 1)
    BY <1>3
  <1>4. CASE t + (i + 1) = i + Modulus /\ Plus1(t) = 0
    BY <1>4, SlotWraps
  <1> QED BY <1>2, <1>3, <1>4

-----------------------------------------------------------------------------
(***************************************************************************)
(* The queue that the slots from tail up to head are.                      *)
(***************************************************************************)
QueuedIn(sl, h, t) == [i \in 1 .. Distance(h, t) |-> Whole(sl[SlotOf(t + i - 1)])]

\* Every one of them is a whole event.
AllWhole(sl, h, t) == \A i \in 0 .. Distance(h, t) - 1 : LET s == sl[SlotOf(t + i)]
                                                       IN  s.a = s.b /\ s.a \in Event

\* What is queued is a sequence of events, the slot at tail first.
LEMMA QueuedFacts == ASSUME NEW sl, NEW h \in Counter, NEW t \in Counter, AllWhole(sl, h, t)
                     PROVE  /\ QueuedIn(sl, h, t) \in Seq(Event)
                            /\ Len(QueuedIn(sl, h, t)) = Distance(h, t)
                            /\ \A i \in 1 .. Distance(h, t) : QueuedIn(sl, h, t)[i] = sl[SlotOf(t + (i - 1))].a
  <1> DEFINE d == Distance(h, t)
             f == QueuedIn(sl, h, t)
  <1>1. d \in Nat /\ t \in Nat
    BY DistanceIs, ModulusAssumption DEF Counter
  <1>2. f = [i \in 1 .. d |-> Whole(sl[SlotOf(t + i - 1)])]
    BY DEF QueuedIn
  <1> HIDE DEF d, f
  <1>3. ASSUME NEW i \in 1 .. d PROVE f[i] = sl[SlotOf(t + (i - 1))].a /\ f[i] \in Event
    <2>1. t + i - 1 = t + (i - 1) /\ i - 1 \in 0 .. d - 1
      BY <1>1
    <2>2. f[i] = Whole(sl[SlotOf(t + (i - 1))])
      BY <1>2, <2>1
    <2>3. /\ sl[SlotOf(t + (i - 1))].a = sl[SlotOf(t + (i - 1))].b
          /\ sl[SlotOf(t + (i - 1))].a \in Event
      BY <2>1 DEF AllWhole, d
    <2> QED BY <2>2, <2>3 DEF Whole
  <1>4. f \in [1 .. d -> Event]
    BY <1>2, <1>3
  <1>5. f \in Seq(Event) /\ Len(f) = d
    BY <1>1, <1>4, SMT
  <1> QED BY <1>3, <1>5 DEF d, f

\* One more published: one more at the end.
LEMMA Published == ASSUME NEW sl, NEW h \in Counter, NEW t \in Counter, NEW e \in Event,
                          AllWhole(sl, h, t), Distance(h, t) < Size,
                          sl[SlotOf(h)].a = e, sl[SlotOf(h)].b = e
                   PROVE  /\ AllWhole(sl, Plus1(h), t)
                          /\ QueuedIn(sl, Plus1(h), t) = Append(QueuedIn(sl, h, t), e)
  <1> DEFINE d == Distance(h, t)
  <1>1. d \in Nat /\ Distance(Plus1(h), t) = d + 1 /\ Plus1(h) \in Counter
    BY DistanceIs, DistanceSteps, Plus1Is DEF Counter
  <1>2. SlotOf(t + d) = SlotOf(h)
    BY HeadSlot
  <1>3. AllWhole(sl, Plus1(h), t)
    <2> SUFFICES ASSUME NEW i \in 0 .. d
                 PROVE  sl[SlotOf(t + i)].a = sl[SlotOf(t + i)].b /\ sl[SlotOf(t + i)].a \in Event
      BY <1>1 DEF AllWhole
    <2>1. CASE i = d
      BY <1>2, <2>1
    <2>2. CASE i # d
      <3>1. i \in 0 .. d - 1
        BY <1>1, <2>2
      <3> QED BY <3>1 DEF AllWhole
    <2> QED BY <2>1, <2>2
  <1> DEFINE old == QueuedIn(sl, h, t)
             new == QueuedIn(sl, Plus1(h), t)
  <1>4. /\ old \in Seq(Event) /\ Len(old) = d
        /\ \A i \in 1 .. d : old[i] = sl[SlotOf(t + (i - 1))].a
    BY QueuedFacts
  <1>5. /\ new \in Seq(Event) /\ Len(new) = d + 1
        /\ \A i \in 1 .. d + 1 : new[i] = sl[SlotOf(t + (i - 1))].a
    BY <1>1, <1>3, QueuedFacts
  <1> HIDE DEF d, old, new
  <1>6. /\ Append(old, e) \in Seq(Event) /\ Len(Append(old, e)) = d + 1
        /\ \A i \in 1 .. d : Append(old, e)[i] = old[i]
        /\ Append(old, e)[d + 1] = e
    BY <1>1, <1>4, SMT
  <1>7. ASSUME NEW i \in 1 .. d + 1 PROVE new[i] = Append(old, e)[i]
    <2>1. CASE i = d + 1
      <3>1. i - 1 = d
        BY <1>1, <2>1
      <3> QED BY <1>2, <1>5, <1>6, <2>1, <3>1
    <2>2. CASE i # d + 1
      <3>1. i \in 1 .. d
        BY <1>1, <2>2
      <3> QED BY <1>4, <1>5, <1>6, <3>1
    <2> QED BY <2>1, <2>2
  <1>8. new = Append(old, e)
    BY <1>5, <1>6, <1>7, SeqEqual
  <1> QED BY <1>3, <1>8 DEF old, new

\* The tail released: the first one is gone.
LEMMA Released == ASSUME NEW sl, NEW h \in Counter, NEW t \in Counter, AllWhole(sl, h, t), h # t
                  PROVE  /\ AllWhole(sl, h, Plus1(t))
                         /\ QueuedIn(sl, h, t) # <<>>
                         /\ Head(QueuedIn(sl, h, t)) = sl[SlotOf(t)].a
                         /\ QueuedIn(sl, h, Plus1(t)) = Tail(QueuedIn(sl, h, t))
  <1> DEFINE d == Distance(h, t)
  <1>1. /\ d \in Nat /\ d # 0 /\ Distance(h, Plus1(t)) = d - 1 /\ Plus1(t) \in Counter
        /\ t \in Nat
    BY DistanceIs, DistanceSteps, Plus1Is DEF Counter
  <1>2. \A i \in Nat : SlotOf(Plus1(t) + i) = SlotOf(t + (i + 1))
    BY TailSlots
  <1>3. AllWhole(sl, h, Plus1(t))
    <2> SUFFICES ASSUME NEW i \in 0 .. d - 2
                 PROVE  /\ sl[SlotOf(Plus1(t) + i)].a = sl[SlotOf(Plus1(t) + i)].b
                        /\ sl[SlotOf(Plus1(t) + i)].a \in Event
      BY <1>1 DEF AllWhole
    <2>1. i \in Nat /\ i + 1 \in 0 .. d - 1
      BY <1>1
    <2> QED BY <1>2, <2>1 DEF AllWhole
  <1> DEFINE old == QueuedIn(sl, h, t)
             new == QueuedIn(sl, h, Plus1(t))
  <1>4. /\ old \in Seq(Event) /\ Len(old) = d
        /\ \A i \in 1 .. d : old[i] = sl[SlotOf(t + (i - 1))].a
    BY QueuedFacts
  <1>5. /\ new \in Seq(Event) /\ Len(new) = d - 1
        /\ \A i \in 1 .. d - 1 : new[i] = sl[SlotOf(Plus1(t) + (i - 1))].a
    <2> DEFINE next == Plus1(t)
    <2>1. next \in Counter /\ AllWhole(sl, h, next)
      BY <1>1, <1>3
    <2> HIDE DEF next
    <2>2. /\ QueuedIn(sl, h, next) \in Seq(Event) /\ Len(QueuedIn(sl, h, next)) = Distance(h, next)
          /\ \A i \in 1 .. Distance(h, next) : QueuedIn(sl, h, next)[i] = sl[SlotOf(next + (i - 1))].a
      BY <2>1, QueuedFacts
    <2> QED BY <1>1, <2>2 DEF next
  <1> HIDE DEF d, old, new
  <1>6. old # <<>>
    BY <1>1, <1>4
  <1>7. Head(old) = sl[SlotOf(t)].a
    <2>1. 1 \in 1 .. d /\ t + (1 - 1) = t
      BY <1>1
    <2>2. Head(old) = old[1]
      BY <1>4, <1>6, SMT
    <2> QED BY <1>4, <2>1, <2>2
  <1>8. /\ Tail(old) \in Seq(Event) /\ Len(Tail(old)) = d - 1
        /\ \A i \in 1 .. d - 1 : Tail(old)[i] = old[i + 1]
    BY <1>1, <1>4, <1>6, HeadTailProperties
  <1>9. ASSUME NEW i \in 1 .. d - 1 PROVE new[i] = Tail(old)[i]
    <2>1. i - 1 \in Nat /\ (i - 1) + 1 = i /\ i + 1 \in 1 .. d /\ (i + 1) - 1 = i
      BY <1>1
    <2>2. new[i] = sl[SlotOf(t + i)].a
      BY <1>2, <1>5, <2>1
    <2>3. old[i + 1] = sl[SlotOf(t + i)].a
      BY <1>4, <2>1
    <2> QED BY <1>8, <2>2, <2>3
  <1>10. new = Tail(old)
    BY <1>5, <1>8, <1>9, SeqEqual
  <1> QED BY <1>3, <1>6, <1>7, <1>10 DEF old, new

\* A write to the slot after the last leaves the queue alone.
LEMMA WrittenAside == ASSUME NEW sl, NEW new, NEW h \in Counter, NEW t \in Counter, Distance(h, t) < Size,
                             \A j \in 0 .. Size - 1 : j # SlotOf(h) => new[j] = sl[j]
                      PROVE  /\ \A i \in 0 .. Distance(h, t) - 1 : new[SlotOf(t + i)] = sl[SlotOf(t + i)]
                             /\ AllWhole(sl, h, t) => AllWhole(new, h, t)
                             /\ QueuedIn(new, h, t) = QueuedIn(sl, h, t)
  <1> DEFINE d == Distance(h, t)
  <1>1. d \in Nat /\ t \in Nat /\ Size \in Nat
    BY DistanceIs, SizeAssumption DEF Counter
  <1>2. ASSUME NEW i \in 0 .. d - 1 PROVE new[SlotOf(t + i)] = sl[SlotOf(t + i)]
    <2>1. /\ t + i \in Nat /\ t + d \in Nat /\ t + i < t + d
          /\ (t + d) - (t + i) < Size
      BY <1>1
    <2>2. SlotOf(t + i) # SlotOf(t + d)
      BY <2>1, SlotsDiffer
    <2>3. SlotOf(t + i) # SlotOf(h)
      BY <2>2, HeadSlot
    <2>4. SlotOf(t + i) \in 0 .. Size - 1
      BY <2>1, SlotIsRemainder
    <2> QED BY <2>3, <2>4
  <1>3. AllWhole(sl, h, t) => AllWhole(new, h, t)
    BY <1>2 DEF AllWhole
  <1>4. QueuedIn(new, h, t) = QueuedIn(sl, h, t)
    <2>1. ASSUME NEW i \in 1 .. d PROVE new[SlotOf(t + i - 1)] = sl[SlotOf(t + i - 1)]
      <3>1. i - 1 \in 0 .. d - 1 /\ t + i - 1 = t + (i - 1)
        BY <1>1
      <3> QED BY <1>2, <3>1
    <2> QED BY <2>1 DEF QueuedIn
  <1> QED BY <1>2, <1>3, <1>4

-----------------------------------------------------------------------------
(***************************************************************************)
(* The invariant.                                                          *)
(***************************************************************************)
\* While the producer writes, the slot at head is free and holds what it has written.
ProducerInv == /\ prod.pc \in {"a", "b", "publish"} => Distance(head, tail) < Size /\ prod.event \in Event
               /\ prod.pc \in {"b", "publish"} => slots[SlotOf(head)].a = prod.event
               /\ prod.pc = "publish" => slots[SlotOf(head)].b = prod.event
               /\ prod.pc = "refuse" => dropped < MaxDrops

\* While the consumer copies, something is queued, and its copy is of the slot at tail.
ConsumerInv == /\ cons.pc \in {"a", "b", "release"} => head # tail
               /\ cons.pc \in {"b", "release"} => cons.a = slots[SlotOf(tail)].a
               /\ cons.pc = "release" => cons.b = slots[SlotOf(tail)].b
               /\ cons.pc = "record" => cons.a = cons.b /\ cons.a \in Event

RingInv == RingTypeOK /\ ProducerInv /\ ConsumerInv /\ AllWhole(slots, head, tail)

\* While something is queued, the slot at tail is a whole event and not the slot at head.
LEMMA TailSlot == ASSUME RingInv, head # tail
                  PROVE  /\ slots[SlotOf(tail)].a = slots[SlotOf(tail)].b /\ slots[SlotOf(tail)].a \in Event
                         /\ Distance(head, tail) < Size => SlotOf(tail) # SlotOf(head)
  <1> DEFINE d == Distance(head, tail)
  <1>1. head \in Counter /\ tail \in Counter /\ AllWhole(slots, head, tail)
    BY DEF RingInv, RingTypeOK
  <1>2. d \in Nat /\ d # 0 /\ tail \in Nat
    BY <1>1, DistanceIs, DistanceSteps DEF Counter
  <1>3. 0 \in 0 .. d - 1 /\ tail + 0 = tail
    BY <1>2
  <1>4. slots[SlotOf(tail)].a = slots[SlotOf(tail)].b /\ slots[SlotOf(tail)].a \in Event
    BY <1>1, <1>3 DEF AllWhole
  <1>5. ASSUME d < Size PROVE SlotOf(tail) # SlotOf(head)
    <2>1. tail + d \in Nat /\ tail < tail + d /\ (tail + d) - tail < Size
      BY <1>2, <1>5
    <2>2. SlotOf(tail) # SlotOf(tail + d)
      BY <1>2, <2>1, SlotsDiffer
    <2> QED BY <1>1, <2>2, HeadSlot
  <1> QED BY <1>4, <1>5

\* A write of one field to the slot at head.
LEMMA FieldWritten == ASSUME RingInv, prod.pc \in {"a", "b"}, NEW f \in {"a", "b"},
                             slots' = [slots EXCEPT ![SlotOf(head)] = [@ EXCEPT ![f] = prod.event]],
                             UNCHANGED <<head, tail, cons>>
                      PROVE  /\ slots' \in [0 .. Size - 1 -> [a : Event \cup {NoEvent}, b : Event \cup {NoEvent}]]
                             /\ slots'[SlotOf(head)] = [slots[SlotOf(head)] EXCEPT ![f] = prod.event]
                             /\ ConsumerInv' /\ AllWhole(slots', head', tail')
                             /\ QueuedIn(slots', head, tail) = QueuedIn(slots, head, tail)
  <1>1. /\ head \in Counter /\ tail \in Counter /\ Distance(head, tail) < Size /\ prod.event \in Event
        /\ AllWhole(slots, head, tail)
        /\ slots \in [0 .. Size - 1 -> [a : Event \cup {NoEvent}, b : Event \cup {NoEvent}]]
    BY DEF RingInv, RingTypeOK, ProducerInv
  <1>2. head \in Nat /\ tail \in Nat
    BY <1>1 DEF Counter
  <1>3. SlotOf(head) \in 0 .. Size - 1 /\ SlotOf(tail) \in 0 .. Size - 1
    BY <1>2, SlotIsRemainder
  <1>4. /\ slots' \in [0 .. Size - 1 -> [a : Event \cup {NoEvent}, b : Event \cup {NoEvent}]]
        /\ slots'[SlotOf(head)] = [slots[SlotOf(head)] EXCEPT ![f] = prod.event]
        /\ \A j \in 0 .. Size - 1 : j # SlotOf(head) => slots'[j] = slots[j]
    BY <1>1, <1>3
  <1>5. /\ AllWhole(slots', head, tail)
        /\ QueuedIn(slots', head, tail) = QueuedIn(slots, head, tail)
    <2> DEFINE new == slots'
    <2>1. \A j \in 0 .. Size - 1 : j # SlotOf(head) => new[j] = slots[j]
      BY <1>4
    <2> HIDE DEF new
    <2>2. /\ AllWhole(slots, head, tail) => AllWhole(new, head, tail)
          /\ QueuedIn(new, head, tail) = QueuedIn(slots, head, tail)
      BY <1>1, <2>1, WrittenAside
    <2> QED BY <1>1, <2>2 DEF new
  <1>6. ConsumerInv'
    <2>1. head # tail => slots'[SlotOf(tail)] = slots[SlotOf(tail)]
      BY <1>1, <1>3, <1>4, TailSlot
    <2> QED BY <2>1 DEF RingInv, ConsumerInv
  <1> QED BY <1>4, <1>5, <1>6

\* The initial state.
LEMMA RingInitInv == RingInit => RingInv
  <1> SUFFICES ASSUME RingInit PROVE RingInv
    OBVIOUS
  <1>1. 0 \in Counter
    BY SizeAssumption, ModulusAssumption DEF Counter
  <1>2. Distance(head, tail) = 0 /\ head \in Counter /\ tail \in Counter
    BY <1>1, DistanceSteps DEF RingInit
  <1>3. RingTypeOK
    BY <1>2, SizeAssumption DEF RingInit, RingTypeOK, ProducerIdle, ConsumerIdle
  <1>4. ProducerInv /\ ConsumerInv
    BY DEF RingInit, ProducerInv, ConsumerInv, ProducerIdle, ConsumerIdle
  <1>5. AllWhole(slots, head, tail)
    BY <1>2 DEF AllWhole
  <1> QED BY <1>3, <1>4, <1>5 DEF RingInv

\* The types of what the two calls keep.
ProdType == [pc : {"idle", "refuse", "a", "b", "publish"}, event : Event \cup {NoEvent}]
ConsType == [pc : {"idle", "a", "b", "release", "record"}, a : Event \cup {NoEvent}, b : Event \cup {NoEvent}]

\* Every step preserves the invariant.
LEMMA RingStepInv == RingInv /\ [RingNext]_ringVars => RingInv'
  <1> SUFFICES ASSUME RingInv, [RingNext]_ringVars PROVE RingInv'
    OBVIOUS
  <1>a. /\ RingTypeOK /\ ProducerInv /\ ConsumerInv /\ AllWhole(slots, head, tail)
        /\ head \in Counter /\ tail \in Counter
        /\ prod \in ProdType /\ cons \in ConsType
    BY DEF RingInv, RingTypeOK, ProdType, ConsType
  <1>b. Distance(head, tail) \in Nat
    BY <1>a, DistanceIs DEF Counter
  <1>1. ASSUME NEW e \in Event, Stage(e) PROVE RingInv'
    <2>1. UNCHANGED <<slots, head, tail, dropped, cons>>
      BY <1>1 DEF Stage
    <2>2. CASE Full(head, tail)
      <3>1. prod' = [pc |-> "refuse", event |-> NoEvent] /\ dropped < MaxDrops
        BY <1>1, <2>2 DEF Stage
      <3> QED BY <1>a, <2>1, <3>1 DEF RingInv, RingTypeOK, ProducerInv, ConsumerInv
    <2>3. CASE ~Full(head, tail)
      <3>1. prod' = [pc |-> "a", event |-> e] /\ Distance(head, tail) < Size
        BY <1>1, <1>b, <2>3, SizeAssumption DEF Stage, Full
      <3> QED BY <1>a, <2>1, <3>1 DEF RingInv, RingTypeOK, ProducerInv, ConsumerInv
    <2> QED BY <2>2, <2>3
  <1>2. CASE Refuse
    <2>1. /\ UNCHANGED <<slots, head, tail, cons>> /\ prod' = ProducerIdle
          /\ dropped' = dropped + 1
      BY <1>2 DEF Refuse
    <2>2. dropped' \in 0 .. MaxDrops
      BY <1>2, <1>a, <2>1, SizeAssumption DEF Refuse, RingTypeOK, ProducerInv
    <2> QED BY <1>a, <2>1, <2>2 DEF RingInv, RingTypeOK, ProducerInv, ConsumerInv, ProducerIdle
  <1>3. CASE WriteA
    <2>1. /\ slots' = [slots EXCEPT ![SlotOf(head)] = [@ EXCEPT !["a"] = prod.event]]
          /\ prod' = [prod EXCEPT !.pc = "b"] /\ prod.pc = "a"
          /\ UNCHANGED <<head, tail, dropped, cons>>
      BY <1>3 DEF WriteA
    <2>2. /\ slots' \in [0 .. Size - 1 -> [a : Event \cup {NoEvent}, b : Event \cup {NoEvent}]]
          /\ slots'[SlotOf(head)] = [slots[SlotOf(head)] EXCEPT !["a"] = prod.event]
          /\ ConsumerInv' /\ AllWhole(slots', head', tail')
      BY <2>1, FieldWritten
    <2>3. slots'[SlotOf(head)].a = prod.event
      <3>1. SlotOf(head) \in 0 .. Size - 1
        BY <1>a, SlotIsRemainder DEF Counter
      <3> QED BY <1>a, <2>2, <3>1 DEF RingTypeOK
    <2> QED BY <1>a, <2>1, <2>2, <2>3 DEF RingInv, RingTypeOK, ProducerInv
  <1>4. CASE WriteB
    <2>1. /\ slots' = [slots EXCEPT ![SlotOf(head)] = [@ EXCEPT !["b"] = prod.event]]
          /\ prod' = [prod EXCEPT !.pc = "publish"] /\ prod.pc = "b"
          /\ UNCHANGED <<head, tail, dropped, cons>>
      BY <1>4 DEF WriteB
    <2>2. /\ slots' \in [0 .. Size - 1 -> [a : Event \cup {NoEvent}, b : Event \cup {NoEvent}]]
          /\ slots'[SlotOf(head)] = [slots[SlotOf(head)] EXCEPT !["b"] = prod.event]
          /\ ConsumerInv' /\ AllWhole(slots', head', tail')
      BY <2>1, FieldWritten
    <2>3. slots'[SlotOf(head)].a = prod.event /\ slots'[SlotOf(head)].b = prod.event
      <3>1. SlotOf(head) \in 0 .. Size - 1
        BY <1>a, SlotIsRemainder DEF Counter
      <3>2. slots[SlotOf(head)].a = prod.event
        BY <1>a, <2>1 DEF ProducerInv
      <3> QED BY <1>a, <2>2, <3>1, <3>2 DEF RingTypeOK
    <2> QED BY <1>a, <2>1, <2>2, <2>3 DEF RingInv, RingTypeOK, ProducerInv
  <1>5. CASE Publish
    <2>1. /\ prod.pc = "publish" /\ head' = Plus1(head) /\ prod' = ProducerIdle
          /\ UNCHANGED <<slots, tail, dropped, cons>>
      BY <1>5 DEF Publish
    <2>2. /\ Distance(head, tail) < Size /\ prod.event \in Event
          /\ slots[SlotOf(head)].a = prod.event /\ slots[SlotOf(head)].b = prod.event
      BY <1>a, <2>1 DEF ProducerInv
    <2>3. AllWhole(slots, Plus1(head), tail)
      BY <1>a, <2>2, Published
    <2>4. /\ head' \in Counter /\ Distance(head', tail) = Distance(head, tail) + 1
          /\ Distance(head', tail) <= Size /\ head' # tail
      <3>1. head' \in Counter /\ Distance(head', tail) = Distance(head, tail) + 1
        BY <1>a, <2>1, <2>2, Plus1Is, DistanceSteps
      <3>2. Distance(head', tail) = 0 <=> head' = tail
        BY <1>a, <3>1, DistanceSteps
      <3> QED BY <1>b, <2>2, <3>1, <3>2, SizeAssumption
    <2> QED BY <1>a, <2>1, <2>3, <2>4 DEF RingInv, RingTypeOK, ProducerInv, ConsumerInv, ProducerIdle
  <1>6. CASE Drain
    <2>1. /\ head # tail /\ cons' = [cons EXCEPT !.pc = "a"]
          /\ UNCHANGED <<slots, head, tail, dropped, prod>>
      BY <1>6 DEF Drain, IsEmpty
    <2> QED BY <1>a, <2>1 DEF RingInv, RingTypeOK, ProducerInv, ConsumerInv
  <1>7. CASE CopyA
    <2>1. /\ cons.pc = "a" /\ cons' = [cons EXCEPT !.pc = "b", !.a = slots[SlotOf(tail)].a]
          /\ UNCHANGED <<slots, head, tail, dropped, prod>>
      BY <1>7 DEF CopyA
    <2>2. head # tail /\ slots[SlotOf(tail)].a \in Event
      BY <1>a, <2>1, TailSlot DEF ConsumerInv
    <2> QED BY <1>a, <2>1, <2>2 DEF RingInv, RingTypeOK, ProducerInv, ConsumerInv
  <1>8. CASE CopyB
    <2>1. /\ cons.pc = "b" /\ cons' = [cons EXCEPT !.pc = "release", !.b = slots[SlotOf(tail)].b]
          /\ UNCHANGED <<slots, head, tail, dropped, prod>>
      BY <1>8 DEF CopyB
    <2>2. /\ head # tail /\ cons.a = slots[SlotOf(tail)].a
          /\ slots[SlotOf(tail)].b \in Event
      BY <1>a, <2>1, TailSlot DEF ConsumerInv
    <2> QED BY <1>a, <2>1, <2>2 DEF RingInv, RingTypeOK, ProducerInv, ConsumerInv
  <1>9. CASE Release
    <2>1. /\ cons.pc = "release" /\ cons' = [cons EXCEPT !.pc = "record"] /\ tail' = Plus1(tail)
          /\ UNCHANGED <<slots, head, dropped, prod>>
      BY <1>9 DEF Release
    <2>2. /\ head # tail /\ cons.a = slots[SlotOf(tail)].a /\ cons.b = slots[SlotOf(tail)].b
          /\ slots[SlotOf(tail)].a = slots[SlotOf(tail)].b /\ slots[SlotOf(tail)].a \in Event
      BY <1>a, <2>1, TailSlot DEF ConsumerInv
    <2>3. AllWhole(slots, head, Plus1(tail))
      BY <1>a, <2>2, Released
    <2>4. /\ tail' \in Counter /\ Distance(head, tail') = Distance(head, tail) - 1
          /\ Distance(head, tail) <= Size
      BY <1>a, <2>1, <2>2, Plus1Is, DistanceSteps DEF RingTypeOK
    <2>5. Distance(head, tail') <= Size /\ Distance(head, tail') < Size
      BY <1>b, <2>4, SizeAssumption
    <2> QED BY <1>a, <2>1, <2>2, <2>3, <2>4, <2>5 DEF RingInv, RingTypeOK, ProducerInv, ConsumerInv
  <1>10. CASE HandOver
    <2>1. cons' = ConsumerIdle /\ UNCHANGED <<slots, head, tail, dropped, prod>>
      BY <1>10 DEF HandOver
    <2> QED BY <1>a, <2>1 DEF RingInv, RingTypeOK, ProducerInv, ConsumerInv, ConsumerIdle
  <1>11. CASE UNCHANGED ringVars
    BY <1>a, <1>11 DEF ringVars, RingInv, RingTypeOK, ProducerInv, ConsumerInv
  <1> QED BY <1>1, <1>2, <1>3, <1>4, <1>5, <1>6, <1>7, <1>8, <1>9, <1>10, <1>11
          DEF RingNext, Producer, Consumer

LEMMA RingInvariant == RingSpec => []RingInv
  BY RingInitInv, RingStepInv, PTL DEF RingSpec

\* Every variable of the ring has its type, and the ring never holds more than it
\* has slots for, whatever the counters' width.
THEOREM RingTypeCorrect == RingSpec => []RingTypeOK
  <1>1. RingInv => RingTypeOK
    BY DEF RingInv
  <1> QED BY <1>1, RingInvariant, PTL

-----------------------------------------------------------------------------
(***************************************************************************)
(* The refinement.                                                         *)
(***************************************************************************)
\* What EventQueue's variables stand for.
Refused == IF prod.pc = "refuse" THEN dropped + 1 ELSE dropped
InHand == IF cons.pc = "record" THEN <<Whole(cons)>> ELSE <<>>

LEMMA QueuedIsSlots == Queued = QueuedIn(slots, head, tail) /\ Queued' = QueuedIn(slots', head', tail')
  BY DEF Queued, QueuedIn

\* The initial state is an empty queue.
LEMMA RingInitRefines == RingInit => Queue!Init
  <1> SUFFICES ASSUME RingInit PROVE Queue!Init
    OBVIOUS
  <1>1. 0 \in Counter
    BY SizeAssumption, ModulusAssumption DEF Counter
  <1>2. Distance(head, tail) = 0
    BY <1>1, DistanceSteps DEF RingInit
  <1>3. Queued = <<>>
    BY <1>2 DEF Queued
  <1>4. prod.pc = "idle" /\ cons.pc = "idle" /\ dropped = 0
    BY DEF RingInit, ProducerIdle, ConsumerIdle
  <1> QED BY <1>3, <1>4 DEF Queue!Init

\* Every step is a step of the queue, or none.
LEMMA RingStepRefines == RingInv /\ [RingNext]_ringVars
                            => [Queue!Next]_<<Queued, Refused, InHand>>
  <1> SUFFICES ASSUME RingInv, [RingNext]_ringVars
               PROVE  \/ Queue!Next
                      \/ UNCHANGED <<Queued, Refused, InHand>>
    OBVIOUS
  <1>a. /\ RingTypeOK /\ ProducerInv /\ ConsumerInv /\ AllWhole(slots, head, tail)
        /\ head \in Counter /\ tail \in Counter
        /\ prod \in ProdType /\ cons \in ConsType
    BY DEF RingInv, RingTypeOK, ProdType, ConsType
  <1>b. /\ Distance(head, tail) \in Nat /\ Distance(head, tail) <= Size
        /\ Len(Queued) = Distance(head, tail)
    BY <1>a, DistanceIs, QueuedFacts, QueuedIsSlots DEF Counter, RingTypeOK
  <1>1. ASSUME NEW e \in Event, Stage(e) PROVE Queue!Next \/ UNCHANGED <<Queued, Refused, InHand>>
    <2>1. /\ UNCHANGED <<slots, head, tail, dropped, cons>> /\ prod.pc = "idle"
      BY <1>1 DEF Stage
    <2>2. Queued' = Queued /\ InHand' = InHand
      BY <2>1, QueuedIsSlots DEF InHand
    <2>3. CASE Full(head, tail)
      <3>1. prod' = [pc |-> "refuse", event |-> NoEvent]
        BY <1>1, <2>3 DEF Stage
      <3>2. Refused' = Refused + 1 /\ Refused = dropped
        BY <2>1, <3>1 DEF Refused
      <3>3. Len(Queued) = Size
        BY <1>b, <2>3, SizeAssumption DEF Full
      <3>4. Queue!Refuse
        BY <2>2, <3>2, <3>3 DEF Queue!Refuse, Refused, InHand
      <3> QED BY <3>4 DEF Queue!Next
    <2>4. CASE ~Full(head, tail)
      <3>1. prod' = [pc |-> "a", event |-> e]
        BY <1>1, <2>4 DEF Stage
      <3> QED BY <2>1, <2>2, <3>1 DEF Refused
    <2> QED BY <2>3, <2>4
  <1>2. CASE Refuse
    <2>1. /\ UNCHANGED <<slots, head, tail, cons>> /\ prod.pc = "refuse" /\ prod' = ProducerIdle
          /\ dropped' = dropped + 1
      BY <1>2 DEF Refuse
    <2> QED BY <2>1, QueuedIsSlots DEF Refused, InHand, ProducerIdle
  <1>3. CASE WriteA
    <2>1. /\ slots' = [slots EXCEPT ![SlotOf(head)] = [@ EXCEPT !["a"] = prod.event]]
          /\ prod' = [prod EXCEPT !.pc = "b"] /\ prod.pc = "a"
          /\ UNCHANGED <<head, tail, dropped, cons>>
      BY <1>3 DEF WriteA
    <2>2. QueuedIn(slots', head, tail) = QueuedIn(slots, head, tail)
      BY <2>1, FieldWritten
    <2>3. prod'.pc = "b"
      BY <1>a, <2>1 DEF ProdType
    <2> QED BY <2>1, <2>2, <2>3, QueuedIsSlots DEF Refused, InHand
  <1>4. CASE WriteB
    <2>1. /\ slots' = [slots EXCEPT ![SlotOf(head)] = [@ EXCEPT !["b"] = prod.event]]
          /\ prod' = [prod EXCEPT !.pc = "publish"] /\ prod.pc = "b"
          /\ UNCHANGED <<head, tail, dropped, cons>>
      BY <1>4 DEF WriteB
    <2>2. QueuedIn(slots', head, tail) = QueuedIn(slots, head, tail)
      BY <2>1, FieldWritten
    <2>3. prod'.pc = "publish"
      BY <1>a, <2>1 DEF ProdType
    <2> QED BY <2>1, <2>2, <2>3, QueuedIsSlots DEF Refused, InHand
  <1>5. CASE Publish
    <2>1. /\ prod.pc = "publish" /\ head' = Plus1(head) /\ prod' = ProducerIdle
          /\ UNCHANGED <<slots, tail, dropped, cons>>
      BY <1>5 DEF Publish
    <2>2. /\ Distance(head, tail) < Size /\ prod.event \in Event
          /\ slots[SlotOf(head)].a = prod.event /\ slots[SlotOf(head)].b = prod.event
      BY <1>a, <2>1 DEF ProducerInv
    <2>3. QueuedIn(slots, Plus1(head), tail) = Append(QueuedIn(slots, head, tail), prod.event)
      BY <1>a, <2>2, Published
    <2>4. Queued' = Append(Queued, prod.event)
      BY <2>1, <2>3, QueuedIsSlots
    <2>5. Refused' = Refused /\ InHand' = InHand
      BY <2>1 DEF Refused, InHand, ProducerIdle
    <2>6. Len(Queued) < Size
      BY <1>b, <2>2
    <2>7. Queue!Stage
      BY <2>2, <2>4, <2>5, <2>6 DEF Queue!Stage, Refused, InHand
    <2> QED BY <2>7 DEF Queue!Next
  <1>6. CASE Drain \/ CopyA \/ CopyB
    <2>1. /\ UNCHANGED <<slots, head, tail, dropped, prod>> /\ cons.pc # "record"
      BY <1>6 DEF Drain, CopyA, CopyB
    <2>2. cons'.pc # "record"
      BY <1>a, <1>6 DEF Drain, CopyA, CopyB, ConsType
    <2> QED BY <2>1, <2>2, QueuedIsSlots DEF Refused, InHand
  <1>7. CASE Release
    <2>1. /\ cons.pc = "release" /\ cons' = [cons EXCEPT !.pc = "record"] /\ tail' = Plus1(tail)
          /\ UNCHANGED <<slots, head, dropped, prod>>
      BY <1>7 DEF Release
    <2>2. /\ head # tail /\ cons.a = slots[SlotOf(tail)].a /\ cons.b = slots[SlotOf(tail)].b
          /\ slots[SlotOf(tail)].a = slots[SlotOf(tail)].b
      BY <1>a, <2>1, TailSlot DEF ConsumerInv
    <2>3. /\ QueuedIn(slots, head, tail) # <<>>
          /\ Head(QueuedIn(slots, head, tail)) = slots[SlotOf(tail)].a
          /\ QueuedIn(slots, head, Plus1(tail)) = Tail(QueuedIn(slots, head, tail))
      BY <1>a, <2>2, Released
    <2>4. Queued # <<>> /\ Head(Queued) = cons.a /\ Queued' = Tail(Queued)
      BY <2>1, <2>2, <2>3, QueuedIsSlots
    <2>5. cons'.pc = "record" /\ cons'.a = cons.a /\ cons'.b = cons.a
      BY <1>a, <2>1, <2>2 DEF ConsType
    <2>6. InHand = <<>> /\ InHand' = <<Head(Queued)>> /\ Refused' = Refused
      BY <2>1, <2>4, <2>5 DEF InHand, Refused, Whole
    <2>7. Queue!Take
      BY <2>4, <2>6 DEF Queue!Take, InHand, Refused
    <2> QED BY <2>7 DEF Queue!Next
  <1>8. CASE HandOver
    <2>1. cons.pc = "record" /\ cons' = ConsumerIdle /\ UNCHANGED <<slots, head, tail, dropped, prod>>
      BY <1>8 DEF HandOver
    <2>2. InHand # <<>> /\ InHand' = <<>> /\ Queued' = Queued /\ Refused' = Refused
      BY <2>1, QueuedIsSlots DEF InHand, Refused, ConsumerIdle
    <2>3. Queue!Record
      BY <2>2 DEF Queue!Record, InHand, Refused
    <2> QED BY <2>3 DEF Queue!Next
  <1>9. CASE UNCHANGED ringVars
    BY <1>9, QueuedIsSlots DEF ringVars, Refused, InHand
  <1> QED BY <1>1, <1>2, <1>3, <1>4, <1>5, <1>6, <1>7, <1>8, <1>9
          DEF RingNext, Producer, Consumer

\* The ring is a bounded queue of whole events: for every size, and every width of the
\* counters that is a multiple of it.
THEOREM RingIsAQueue == RingSpec => ImplementsQueue
  <1>1. <<Queued, Refused, InHand>> = Queue!vars
    BY DEF Queue!vars, Refused, InHand
  <1> QED BY <1>1, RingInvariant, RingInitRefines, RingStepRefines, PTL
          DEF RingSpec, ImplementsQueue, Queue!Spec, Queue!vars, Refused, InHand

-----------------------------------------------------------------------------
(***************************************************************************)
(* The sockets.  Nothing waits on a wedged client socket, so no query read *)
(* from it moves the counter the watchdog looks at.                        *)
(***************************************************************************)
WdInv == WdTypeOK /\ ("csock" \in wedged => mbox = <<>>)

\* The questions the watchdog knows of, or will at its next look, as unanswered.
Owed == unanswered + demand

LEMMA MboxTyped == ASSUME mbox \in Seq(WdClient), Len(mbox) <= Burst
                   PROVE  /\ <<>> \in Seq(WdClient) /\ Len(<<>>) = 0
                          /\ \A c \in WdClient : /\ Append(mbox, c) \in Seq(WdClient)
                                                 /\ Len(Append(mbox, c)) = Len(mbox) + 1
                          /\ mbox # <<>> => /\ Tail(mbox) \in Seq(WdClient) /\ Len(Tail(mbox)) <= Burst
                                             /\ Head(mbox) \in WdClient
  <1>1. Burst \in Nat /\ Burst > 0
    BY WatchdogAssumption
  <1>2. \A c \in WdClient : Append(mbox, c) \in Seq(WdClient) /\ Len(Append(mbox, c)) = Len(mbox) + 1
    BY AppendProperties
  <1>3. mbox # <<>> => /\ Tail(mbox) \in Seq(WdClient) /\ Len(Tail(mbox)) = Len(mbox) - 1
                       /\ Head(mbox) \in WdClient
    BY HeadTailProperties
  <1>4. Len(mbox) \in Nat
    OBVIOUS
  <1>5. <<>> \in Seq(WdClient) /\ Len(<<>>) = 0
    BY EmptySeq
  <1> QED BY <1>1, <1>2, <1>3, <1>4, <1>5

LEMMA WdInitHolds == WdInit => WdInv
  <1>1. <<>> \in Seq(WdClient) /\ Len(<<>>) = 0
    BY EmptySeq
  <1>2. /\ 0 \in 0 .. Burst /\ 0 \in 0 .. Threshold - 1
        /\ 0 \in 0 .. MaxWedges /\ 0 \in 0 .. MaxMasks /\ 0 \in 0 .. MaxFails /\ 0 <= Burst
    BY WatchdogAssumption
  <1> QED BY <1>1, <1>2 DEF WdInit, WdInv, WdTypeOK

LEMMA ToldTyped == ASSUME WdTypeOK
                   PROVE  /\ Told \in 0 .. Threshold + Burst - 1 /\ {Total, Progress, Served} \subseteq BOOLEAN
                          /\ 0 \in 0 .. Burst /\ 0 \in 0 .. Threshold - 1
                          /\ Told < Threshold => Told \in 0 .. Threshold - 1
  <1>1. /\ unanswered \in 0 .. Threshold - 1 /\ demand \in 0 .. Burst /\ Threshold \in Nat /\ Burst \in Nat
        /\ Threshold > 0 /\ Burst > 0
    BY WatchdogAssumption DEF WdTypeOK
  <1>2. {Total, Progress, Served} \subseteq BOOLEAN
    BY DEF WdTypeOK, Total, Progress, Served
  <1>3. Told \in 0 .. Threshold + Burst - 1
    BY <1>1 DEF Told
  <1> QED BY <1>1, <1>2, <1>3

LEMMA WdStepKeeps == WdInv /\ [WdNext]_wdVars => WdInv'
  <1> SUFFICES ASSUME WdInv, [WdNext]_wdVars PROVE WdInv'
    OBVIOUS
  <1> USE DEF wdRest, wdCounts
  <1>1. WdTypeOK /\ mbox \in Seq(WdClient) /\ Len(mbox) <= Burst /\ wedged \subseteq {"csock", "usock"}
    BY DEF WdInv, WdTypeOK
  <1>2. CASE UNCHANGED wdVars
    BY <1>2 DEF WdInv, WdTypeOK, wdVars
  <1>3. CASE OpenSockets \/ Drained \/ AskReset
    <2>1. resetReq' \in BOOLEAN /\ masks' \in 0 .. MaxMasks /\ turn' \in {"down", "look", "drain"}
      <3>1. CASE OpenSockets \/ Drained
        BY <1>1, <3>1 DEF OpenSockets, Drained, WdTypeOK
      <3>2. CASE AskReset
        BY <1>1, <3>2, WatchdogAssumption DEF AskReset, WdTypeOK
      <3> QED BY <1>3, <3>1, <3>2
    <2>2. UNCHANGED <<wedged, mbox, demand, moved, counted, ever, unanswered, wedges, fails>>
      BY <1>3 DEF OpenSockets, Drained, AskReset
    <2> QED BY <2>1, <2>2 DEF WdInv, WdTypeOK
  <1>4. ASSUME NEW c \in WdClient, HookDefers(c) PROVE WdInv'
    <2>1. mbox' \in Seq(WdClient) /\ Len(mbox') <= Burst /\ ("csock" \in wedged' => mbox' = <<>>)
      BY <1>1, <1>4, MboxTyped, WatchdogAssumption DEF HookDefers, WdInv
    <2>2. demand' \in 0 .. Burst
      BY <1>1, <1>4, WatchdogAssumption DEF HookDefers, WdTypeOK
    <2> QED BY <1>1, <1>4, <2>1, <2>2 DEF HookDefers, WdInv, WdTypeOK
  <1>5. ASSUME NEW s \in {"csock", "usock"}, Wedge(s) PROVE WdInv'
    <2>1. mbox' \in Seq(WdClient) /\ Len(mbox') <= Burst /\ ("csock" \in wedged' => mbox' = <<>>)
      BY <1>1, <1>5, MboxTyped, WatchdogAssumption DEF Wedge, WdInv
    <2>2. wedges' \in 0 .. MaxWedges
      BY <1>1, <1>5, WatchdogAssumption DEF Wedge, WdTypeOK
    <2> QED BY <1>1, <1>5, <2>1, <2>2 DEF Wedge, WdInv, WdTypeOK
  <1>6. CASE Look
    <2>1. {moved', counted', ever', resetReq'} \subseteq BOOLEAN /\ unanswered' \in 0 .. Threshold - 1 /\ demand' \in 0 .. Burst
      BY <1>1, <1>6, ToldTyped DEF Look, NoteCounters
    <2> QED BY <1>1, <1>6, <2>1 DEF Look, WdInv, WdTypeOK
  <1>7. CASE Reopen
    <2>1. {moved', counted', ever', resetReq'} \subseteq BOOLEAN /\ unanswered' \in 0 .. Threshold - 1 /\ demand' \in 0 .. Burst
      BY <1>1, <1>7, ToldTyped DEF Reopen, NoteCounters
    <2>2. mbox' \in Seq(WdClient) /\ Len(mbox') <= Burst /\ ("csock" \in wedged' => mbox' = <<>>) /\ wedged' \subseteq {"csock", "usock"}
      BY <1>1, <1>7, MboxTyped, WatchdogAssumption DEF Reopen, WdInv
    <2>3. fails' \in 0 .. MaxFails
      BY <1>1, <1>7, WatchdogAssumption DEF Reopen, WdTypeOK
    <2>4. turn' = "drain" /\ UNCHANGED <<wedges, masks>>
      BY <1>7 DEF Reopen
    <2> QED BY <2>1, <2>2, <2>3, <2>4 DEF WdInv, WdTypeOK
  <1>8. CASE Restart
    <2>1. mbox' \in Seq(WdClient) /\ Len(mbox') <= Burst /\ fails' \in 0 .. MaxFails
      <3>1. mbox' = <<>> /\ fails' = fails + 1 /\ fails < MaxFails
        BY <1>8 DEF Restart
      <3> QED BY <1>1, <3>1, MboxTyped, WatchdogAssumption DEF WdTypeOK
    <2>2. /\ wedged' = {} /\ demand' = 0 /\ unanswered' = 0 /\ turn' = "down"
          /\ {moved', counted', ever', resetReq'} \subseteq BOOLEAN /\ UNCHANGED <<wedges, masks>>
      BY <1>8 DEF Restart
    <2> QED BY <1>1, <2>1, <2>2, ToldTyped DEF WdInv, WdTypeOK
  <1>9. CASE TakeQuery
    <2>1. mbox' \in Seq(WdClient) /\ Len(mbox') <= Burst /\ "csock" \notin wedged'
      BY <1>1, <1>9, MboxTyped DEF TakeQuery
    <2>2. moved' \in BOOLEAN
      BY <1>1, <1>9 DEF TakeQuery, WdTypeOK, Counts
    <2> QED BY <1>1, <1>9, <2>1, <2>2 DEF TakeQuery, WdInv, WdTypeOK
  <1>10. CASE TakeTcpQuery
    BY <1>1, <1>10, WatchdogAssumption DEF TakeTcpQuery, WdInv, WdTypeOK
  <1> QED BY <1>2, <1>3, <1>4, <1>5, <1>6, <1>7, <1>8, <1>9, <1>10 DEF WdNext, WdTask

LEMMA WdInvariant == WdInit /\ [][WdNext]_wdVars => []WdInv
  BY WdInitHolds, WdStepKeeps, PTL

\* Every reachable state of the sockets and the watchdog is well typed: it never keeps more
\* unanswered questions than it reopens the sockets for.
THEOREM WatchdogTypeCorrect == WdSpec => []WdTypeOK
  <1>1. WdInv => WdTypeOK
    BY DEF WdInv
  <1> QED BY <1>1, WdInvariant, PTL DEF WdSpec

-----------------------------------------------------------------------------
\* While the client socket is wedged and has once worked, and neither a reset of the
\* metrics nor a query over TCP hides it, no question handed to the socket is forgotten,
\* each counts, and nothing passes for progress; and once they are as many as the
\* threshold, the next look replaces the socket, unless a socket cannot be created. It is
\* the safety half of WedgedClientSocketIsReplaced.
SilenceIsCounted ==
    [][("csock" \in wedged /\ ever /\ ~Progress /\ masks' = masks /\ fails' = fails) =>
          \/ "csock" \notin wedged'
          \/ /\ ever' /\ ~Progress'
             /\ Owed' >= Owed
             /\ (\E c \in WdClient : HookDefers(c)) => Owed' = Owed + 1
             /\ turn = "look" /\ WdTask => Owed < Threshold]_wdVars

\* A wedge that has worked is noticed after Threshold questions, for any threshold and
\* however many wedges, resets and failures there are.
THEOREM SilenceEnds == WdSpec => SilenceIsCounted
  <1> DEFINE Noticed == ("csock" \in wedged /\ ever /\ ~Progress /\ masks' = masks /\ fails' = fails) =>
                        \/ "csock" \notin wedged'
                        \/ /\ ever' /\ ~Progress'
                           /\ Owed' >= Owed
                           /\ (\E c \in WdClient : HookDefers(c)) => Owed' = Owed + 1
                           /\ turn = "look" /\ WdTask => Owed < Threshold
  <1>1. ASSUME WdInv, [WdNext]_wdVars PROVE [Noticed]_wdVars
    <2> SUFFICES ASSUME WdNext, "csock" \in wedged, ever, ~Progress, masks' = masks, fails' = fails, "csock" \in wedged'
                 PROVE  /\ ever' /\ ~Progress'
                        /\ Owed' >= Owed
                        /\ (\E c \in WdClient : HookDefers(c)) => Owed' = Owed + 1
                        /\ turn = "look" /\ WdTask => Owed < Threshold
      BY <1>1
    <2> USE DEF wdRest, wdCounts
    <2>1. /\ unanswered \in Nat /\ demand \in Nat /\ mbox = <<>> /\ masks \in Nat /\ fails \in Nat
          /\ Told = Owed /\ Threshold \in Nat
      BY <1>1, WatchdogAssumption DEF WdInv, WdTypeOK, Told, Served, Owed
    \* What hides a wedge, and what has not happened.
    <2>2. ~AskReset /\ ~TakeTcpQuery /\ ~TakeQuery /\ ~Restart
      <3>1. ~AskReset /\ ~TakeTcpQuery
        <4>1. (AskReset => masks' = masks + 1) /\ (TakeTcpQuery => masks' = masks + 1)
          BY DEF AskReset, TakeTcpQuery
        <4> QED BY <2>1, <4>1
      <3>2. ~TakeQuery
        BY DEF TakeQuery
      <3>3. ~Restart
        BY <2>1 DEF Restart
      <3> QED BY <3>1, <3>2, <3>3
    \* A turn that is not a look, and what comes from outside.
    <2>3. ASSUME UNCHANGED <<unanswered, moved, counted, ever, resetReq>>
          PROVE  ever' /\ ~Progress'
      <3>1. Progress' = Progress
        BY <2>3 DEF Progress
      <3> QED BY <2>3, <3>1
    <2>4. CASE OpenSockets \/ Drained
      <3>1. UNCHANGED <<demand, unanswered, moved, counted, ever, resetReq>> /\ turn # "look"
        BY <2>4 DEF OpenSockets, Drained
      <3>2. ~ \E c \in WdClient : HookDefers(c)
        BY <2>1, <3>1 DEF HookDefers
      <3> QED BY <2>1, <2>3, <3>1, <3>2 DEF Owed
    <2>5. CASE \E c \in WdClient : HookDefers(c)
      <3>1. demand' = demand + 1 /\ UNCHANGED <<unanswered, moved, counted, ever, resetReq, turn>>
        BY <2>5 DEF HookDefers
      <3>2. turn = "look" => ~WdTask
        BY <2>1, <3>1 DEF WdTask, OpenSockets, Look, Reopen, Restart, TakeQuery, TakeTcpQuery, Drained
      <3> QED BY <2>1, <2>3, <3>1, <3>2 DEF Owed
    <2>6. CASE \E s \in {"csock", "usock"} : Wedge(s)
      <3>1. UNCHANGED <<demand, unanswered, moved, counted, ever, resetReq, turn>> /\ wedges' # wedges
        BY <1>1, <2>6, WatchdogAssumption DEF Wedge, WdInv, WdTypeOK
      <3>2. ~(\E c \in WdClient : HookDefers(c)) /\ ~WdTask
        BY <3>1 DEF HookDefers, WdTask, OpenSockets, Look, Reopen, Restart, TakeQuery, TakeTcpQuery, Drained
      <3> QED BY <2>1, <2>3, <3>1, <3>2 DEF Owed
    <2>7. CASE Look
      <3>1. /\ Owed < Threshold /\ unanswered' = Owed /\ demand' = 0
            /\ counted' = Total /\ ever' = Served /\ moved' = FALSE /\ resetReq' = FALSE
        BY <2>1, <2>7 DEF Look, NoteCounters
      <3>2. ever' /\ ~Progress'
        <4>1. Progress' = moved'
          BY <3>1 DEF Progress
        <4>2. Served
          BY DEF Served
        <4> QED BY <3>1, <4>1, <4>2
      <3>3. ~ \E c \in WdClient : HookDefers(c)
        <4>1. \A c \in WdClient : HookDefers(c) => demand' = demand + 1
          BY DEF HookDefers
        <4> QED BY <2>1, <3>1, <4>1
      <3> QED BY <2>1, <3>1, <3>2, <3>3 DEF Owed
    <2>8. ~Reopen
      <3> SUFFICES ASSUME Reopen PROVE FALSE
        OBVIOUS
      <3>1. PICK ok \in {{"csock"}, {"usock"}, {"csock", "usock"}} :
                   /\ wedged' = wedged \ ok
                   /\ IF ok = {"csock", "usock"} THEN UNCHANGED fails ELSE fails < MaxFails /\ fails' = fails + 1
        BY DEF Reopen
      <3>2. ok = {"csock", "usock"}
        BY <2>1, <3>1
      <3> QED BY <3>1, <3>2
    <2> QED BY <2>2, <2>4, <2>5, <2>6, <2>7, <2>8 DEF WdNext, WdTask
  <1>2. WdInv /\ [WdNext]_wdVars => [Noticed]_wdVars
    BY <1>1
  <1> QED BY <1>2, WdInvariant, PTL DEF WdSpec, SilenceIsCounted

-----------------------------------------------------------------------------
(***************************************************************************)
(* The firmware.  The slot otadata names is confirmed, or it holds the     *)
(* update, and then the other slot is confirmed and is the one the update  *)
(* was received in (SlotsInv); app_main runs the slot otadata names, and   *)
(* serves only from a confirmed one (StageInv).                            *)
(***************************************************************************)
\* An image that works, and that no rollback will leave.
Confirmed(s) == ota[s].image = "good" /\ ota[s].state \in {"unset", "valid"}

SlotsInv ==
    /\ ota[OtherSlot(chosen)].state \notin {"new", "pending"}
    /\ \/ Confirmed(chosen)
       \/ /\ ota[chosen].state \in {"new", "pending"} /\ ota[chosen].image \in Image
          /\ Confirmed(OtherSlot(chosen))
          /\ previous = OtherSlot(chosen)

StageInv ==
    /\ stage \notin {"off", "up"} => running = chosen /\ ota[chosen].state # "new"
    /\ stage = "up" => Confirmed(running)
    /\ stage = "up" /\ upload # "booting" => running = chosen
    /\ upload # "none" => stage = "up" /\ previous = running
    /\ upload = "ended" => ota[OtherSlot(running)].image \in Image
    /\ upload = "booting" => chosen = OtherSlot(running) /\ ota[chosen].state = "new"
    /\ stage # "halted"

LifeInv == LifeTypeOK /\ SlotsInv /\ StageInv

OtaEntry == [image : Image \cup {"none"}, state : State]
Identities == [pair : {"none", "crt", "mixed", "pair"}, mark : BOOLEAN]

\* The two slots, and what a changed entry of otadata is.
LEMMA TwoOtaSlots == \A s \in OtaSlot : /\ OtherSlot(s) \in OtaSlot /\ OtherSlot(s) # s /\ OtherSlot(OtherSlot(s)) = s
                                        /\ \A u \in OtaSlot : u = s \/ u = OtherSlot(s)
  BY DEF OtaSlot, OtherSlot

LEMMA EntryFields ==
    ASSUME NEW e \in OtaEntry
    PROVE  /\ e.image \in Image \cup {"none"} /\ e.state \in State
           /\ \A x \in State : /\ [e EXCEPT !.state = x] \in OtaEntry
                               /\ [e EXCEPT !.state = x].image = e.image /\ [e EXCEPT !.state = x].state = x
           /\ \A x \in Image : /\ [e EXCEPT !.image = x] \in OtaEntry
                               /\ [e EXCEPT !.image = x].image = x /\ [e EXCEPT !.image = x].state = e.state
           /\ [image |-> "none", state |-> e.state] \in OtaEntry
  BY DEF OtaEntry

\* What a step leaves of the invariant when it touches neither slot.
LEMMA SlotsStand == ASSUME LifeInv, UNCHANGED <<ota, chosen, previous>>
                    PROVE  SlotsInv' /\ \A s \in OtaSlot : Confirmed(s)' <=> Confirmed(s)
  BY DEF LifeInv, SlotsInv, Confirmed

-----------------------------------------------------------------------------
LEMMA LifeInitHolds == LifeInit => LifeInv
  <1> SUFFICES ASSUME LifeInit PROVE LifeInv
    OBVIOUS
  <1>1. ota \in [OtaSlot -> OtaEntry]
    BY DEF LifeInit, OtaEntry, Image, State
  <1>2. LifeTypeOK
    BY <1>1, LifeAssumption DEF LifeInit, LifeTypeOK, OtaEntry, OtaSlot, StartStage
  <1>3. SlotsInv /\ StageInv
    BY DEF LifeInit, SlotsInv, StageInv, Confirmed, OtaSlot, OtherSlot
  <1> QED BY <1>2, <1>3 DEF LifeInv

LEMMA BootloaderKeeps == ASSUME LifeInv, Bootloader PROVE LifeInv'
  <1> DEFINE s == IF ota[chosen].state \in {"pending", "invalid"} THEN OtherSlot(chosen) ELSE chosen
             new(o) == IF o = s /\ ota[o].state = "new" THEN "pending"
                       ELSE IF o # s /\ ota[o].state = "pending" THEN "invalid" ELSE ota[o].state
  <1>1. /\ ota \in [OtaSlot -> OtaEntry] /\ chosen \in OtaSlot /\ s \in OtaSlot
        /\ stage = "off" /\ upload = "none"
    BY TwoOtaSlots DEF LifeInv, LifeTypeOK, OtaEntry, Bootloader, StageInv
  <1>2. /\ running' = s /\ chosen' = s /\ stage' = "init"
        /\ ota' = [o \in OtaSlot |-> [ota[o] EXCEPT !.state = new(o)]]
        /\ UNCHANGED <<identity, upload, updates, cuts, errors, previous>>
    BY DEF Bootloader
  <1>3. \A o \in OtaSlot : new(o) \in State
    BY <1>1, EntryFields DEF State
  <1>4. /\ ota' \in [OtaSlot -> OtaEntry]
        /\ \A o \in OtaSlot : ota'[o].image = ota[o].image /\ ota'[o].state = new(o)
    <2>1. ASSUME NEW o \in OtaSlot
          PROVE  /\ [ota[o] EXCEPT !.state = new(o)] \in OtaEntry
                 /\ [ota[o] EXCEPT !.state = new(o)].image = ota[o].image
                 /\ [ota[o] EXCEPT !.state = new(o)].state = new(o)
      <3>1. ota[o] \in OtaEntry /\ new(o) \in State
        BY <1>1, <1>3
      <3> DEFINE e == ota[o]
                 x == new(o)
      <3> HIDE DEF e, x
      <3>2. e \in OtaEntry /\ x \in State
        BY <3>1 DEF e, x
      <3>3. [e EXCEPT !.state = x] \in OtaEntry /\ [e EXCEPT !.state = x].image = e.image /\ [e EXCEPT !.state = x].state = x
        BY <3>2, EntryFields
      <3> QED BY <3>3 DEF e, x
    <2> HIDE DEF new, s
    <2> QED BY <1>2, <2>1
  <1>5. LifeTypeOK'
    BY <1>1, <1>2, <1>4 DEF LifeInv, LifeTypeOK, OtaEntry, StartStage
  <1>6. SlotsInv' /\ StageInv'
    <2>1. CASE Confirmed(chosen)
      <3>1. s = chosen
        BY <2>1 DEF Confirmed
      <3>2. new(chosen) = ota[chosen].state
        BY <2>1, <3>1 DEF Confirmed
      <3>3. new(OtherSlot(chosen)) \notin {"new", "pending"}
        BY <3>1, <1>1, TwoOtaSlots DEF LifeInv, SlotsInv
      <3> QED BY <1>1, <1>2, <1>4, <2>1, <3>1, <3>2, <3>3, TwoOtaSlots DEF SlotsInv, StageInv, Confirmed
    <2>2. CASE ota[chosen].state = "new" /\ ~Confirmed(chosen)
      <3>1. s = chosen /\ new(chosen) = "pending"
        BY <2>2
      <3>2. /\ Confirmed(OtherSlot(chosen)) /\ previous = OtherSlot(chosen) /\ ota[chosen].image \in Image
            /\ new(OtherSlot(chosen)) = ota[OtherSlot(chosen)].state
        BY <2>2, <3>1, <1>1, TwoOtaSlots DEF LifeInv, SlotsInv, Confirmed
      <3> QED BY <1>1, <1>2, <1>4, <3>1, <3>2, TwoOtaSlots DEF SlotsInv, StageInv, Confirmed
    <2>3. CASE ota[chosen].state = "pending" /\ ~Confirmed(chosen)
      <3>1. s = OtherSlot(chosen) /\ OtherSlot(s) = chosen /\ new(chosen) = "invalid"
        BY <2>3, <1>1, TwoOtaSlots
      <3>2. Confirmed(OtherSlot(chosen)) /\ new(OtherSlot(chosen)) = ota[OtherSlot(chosen)].state
        BY <2>3, <3>1, <1>1, TwoOtaSlots DEF LifeInv, SlotsInv, Confirmed
      <3> QED BY <1>1, <1>2, <1>4, <3>1, <3>2, TwoOtaSlots DEF SlotsInv, StageInv, Confirmed
    <2> QED BY <2>1, <2>2, <2>3 DEF LifeInv, SlotsInv
  <1> QED BY <1>5, <1>6 DEF LifeInv

\* A reset, from outside, by itself or after the update.
LEMMA ResetKeeps == ASSUME LifeInv, PowerCut \/ ResetsItself \/ Restarts PROVE LifeInv'
  <1>1. /\ stage' = "off" /\ upload' = "none" /\ cuts' \in 0 .. MaxCuts
        /\ UNCHANGED <<ota, chosen, running, identity, updates, errors, previous>>
    BY LifeAssumption DEF PowerCut, ResetsItself, Restarts, Resets, LifeInv, LifeTypeOK
  <1>2. LifeTypeOK'
    BY <1>1 DEF LifeInv, LifeTypeOK, StartStage
  <1> QED BY <1>1, <1>2, SlotsStand DEF LifeInv, StageInv

\* An image that gives up is left, for it was not confirmed.
LEMMA GivesUp == ASSUME LifeInv, stage \notin {"off", "up"}, Runs # "good"
                 PROVE  Unconfirmed /\ RollsBack
  <1>1. /\ chosen \in OtaSlot /\ running = chosen /\ ~Confirmed(chosen) /\ ota[chosen].state # "new"
    BY DEF LifeInv, LifeTypeOK, StageInv, Runs, Confirmed
  <1> QED BY <1>1 DEF LifeInv, SlotsInv, Confirmed, Unconfirmed, RollsBack

LEMMA RollBackKeeps ==
    ASSUME LifeInv, stage \notin {"off", "up"}, Unconfirmed, RollBackAndReboot,
           UNCHANGED <<running, identity, updates, cuts, errors, previous>>
    PROVE  LifeInv'
  <1>1. /\ ota \in [OtaSlot -> OtaEntry] /\ chosen \in OtaSlot /\ running = chosen
        /\ ota[chosen].state = "pending"
    BY DEF LifeInv, LifeTypeOK, OtaEntry, StageInv, Unconfirmed
  <1>2. /\ chosen' = OtherSlot(chosen) /\ stage' = "off" /\ upload' = "none"
        /\ ota' = [ota EXCEPT ![chosen] = [ota[chosen] EXCEPT !.state = "invalid"]]
    BY <1>1 DEF RollBackAndReboot, Resets
  <1>3. "invalid" \in State
    BY DEF State
  <1>4. /\ ota' \in [OtaSlot -> OtaEntry] /\ ota'[chosen].state = "invalid"
        /\ ota'[OtherSlot(chosen)] = ota[OtherSlot(chosen)]
    <2> DEFINE e == [ota[chosen] EXCEPT !.state = "invalid"]
    <2>1. e \in OtaEntry /\ e.state = "invalid"
      BY <1>1, <1>3, EntryFields
    <2> HIDE DEF e
    <2>2. ota' = [ota EXCEPT ![chosen] = e]
      BY <1>2 DEF e
    <2> QED BY <1>1, <2>1, <2>2, TwoOtaSlots
  <1>5. Confirmed(OtherSlot(chosen))
    BY <1>1 DEF LifeInv, SlotsInv, Confirmed
  <1>6. SlotsInv'
    BY <1>1, <1>2, <1>4, <1>5, TwoOtaSlots DEF SlotsInv, Confirmed
  <1>7. LifeTypeOK'
    BY <1>1, <1>2, <1>4, TwoOtaSlots DEF LifeInv, LifeTypeOK, OtaEntry, StartStage
  <1> QED BY <1>2, <1>6, <1>7 DEF LifeInv, StageInv

LEMMA InitFailsKeeps == ASSUME LifeInv, InitFails PROVE LifeInv'
  <1>1. stage = "init" /\ Runs = "noInit" /\ HaltOrRollback /\ UNCHANGED <<running, identity, updates, cuts, errors, previous>>
    BY DEF InitFails
  <1>2. Unconfirmed /\ RollsBack
    BY <1>1, GivesUp
  <1>3. RollBackAndReboot
    BY <1>1, <1>2 DEF HaltOrRollback
  <1> QED BY <1>1, <1>2, <1>3, RollBackKeeps

LEMMA NoUiKeeps == ASSUME LifeInv, NoUi PROVE LifeInv'
  <1>1. stage = "confirm" /\ UNCHANGED <<running, identity, updates, cuts, errors, previous>>
    BY DEF NoUi
  <1>2. CASE Unconfirmed
    <2>1. chosen \in OtaSlot /\ running = chosen /\ ota[chosen].state = "pending"
      BY <1>1, <1>2 DEF LifeInv, LifeTypeOK, StageInv, Unconfirmed
    <2>2. RollsBack
      BY <2>1 DEF LifeInv, SlotsInv, Confirmed, RollsBack
    <2>3. RollBackAndReboot
      BY <1>2, <2>2 DEF NoUi
    <2> QED BY <1>1, <1>2, <2>3, RollBackKeeps
  <1>3. CASE ~Unconfirmed
    <2>1. stage' = "up" /\ UNCHANGED <<ota, chosen, upload>>
      BY <1>3 DEF NoUi
    <2>2. running = chosen /\ upload = "none" /\ Confirmed(chosen)
      BY <1>1, <1>3 DEF LifeInv, SlotsInv, StageInv, Unconfirmed
    <2>3. LifeTypeOK'
      BY <1>1, <2>1 DEF LifeInv, LifeTypeOK, StartStage
    <2> QED BY <1>1, <2>1, <2>2, <2>3, SlotsStand DEF LifeInv, LifeTypeOK, StageInv
  <1> QED BY <1>2, <1>3

\* A step of the start that touches neither slot.
LEMMA StartGoesOn ==
    ASSUME LifeInv, stage \notin {"off", "up"}, stage' \in StartStage \ {"off", "up", "halted"},
           identity' \in Identities, errors' \in 0 .. MaxErrors,
           UNCHANGED <<ota, chosen, running, upload, updates, cuts, previous>>
    PROVE  LifeInv'
  <1>1. LifeTypeOK'
    BY DEF LifeInv, LifeTypeOK, Identities
  <1>2. StageInv'
    BY DEF LifeInv, StageInv
  <1> QED BY <1>1, <1>2, SlotsStand DEF LifeInv

LEMMA IdentityKeeps ==
    ASSUME LifeInv, LoadIdentity \/ MintCertificate \/ StoreKey \/ StoreMark \/ StoreFails \/ MintFails
    PROVE  LifeInv'
  <1>1. identity \in Identities /\ errors \in 0 .. MaxErrors
    BY DEF LifeInv, LifeTypeOK, Identities
  <1>2. \A p \in {"none", "crt", "mixed", "pair"} : [identity EXCEPT !.pair = p] \in Identities
    BY <1>1 DEF Identities
  <1>3. [identity EXCEPT !.mark = TRUE] \in Identities
    BY <1>1 DEF Identities
  <1>4. ASSUME NEW next, NEW id \in Identities, NEW more \in Nat, Identity(next, id, more)
        PROVE  /\ stage' = next /\ identity' \in Identities /\ errors' \in 0 .. MaxErrors
               /\ UNCHANGED <<ota, chosen, running, upload, updates, cuts, previous>>
    BY <1>1, <1>4, LifeAssumption DEF Identity
  <1>5. /\ stage \notin {"off", "up"} /\ stage' \in {"ui", "key", "mark", "confirm"}
        /\ identity' \in Identities /\ errors' \in 0 .. MaxErrors
        /\ UNCHANGED <<ota, chosen, running, upload, updates, cuts, previous>>
    <2>1. CASE LoadIdentity
      BY <2>1, <1>1, <1>4 DEF LoadIdentity
    <2>2. CASE MintCertificate
      <3> DEFINE p == IF identity.pair \in {"none", "crt"} THEN "crt" ELSE "mixed"
      <3>1. [identity EXCEPT !.pair = p] \in Identities
        BY <1>2
      <3>2. Identity("key", [identity EXCEPT !.pair = p], IF Usable THEN 1 ELSE 0) /\ stage = "identity"
        BY <2>2 DEF MintCertificate
      <3>3. (IF Usable THEN 1 ELSE 0) \in Nat
        OBVIOUS
      <3> HIDE DEF p
      <3> QED BY <3>1, <3>2, <3>3, <1>4
    <2>3. CASE StoreKey
      BY <2>3, <1>2, <1>4 DEF StoreKey
    <2>4. CASE StoreMark
      BY <2>4, <1>3, <1>4 DEF StoreMark
    <2>5. CASE StoreFails
      BY <2>5, <1>1, <1>4 DEF StoreFails
    <2>6. CASE MintFails
      <3>1. (IF Usable THEN 2 ELSE 1) \in Nat
        OBVIOUS
      <3> QED BY <2>6, <3>1, <1>1, <1>4 DEF MintFails
    <2> QED BY <2>1, <2>2, <2>3, <2>4, <2>5, <2>6
  <1>6. stage' \in StartStage \ {"off", "up", "halted"}
    BY <1>5 DEF StartStage
  <1> QED BY <1>5, <1>6, StartGoesOn

LEMMA DnsServesKeeps == ASSUME LifeInv, DnsServes \/ UiFails PROVE LifeInv'
  <1>1. /\ stage \notin {"off", "up"} /\ stage' \in StartStage \ {"off", "up", "halted"}
        /\ UNCHANGED <<ota, chosen, running, identity, upload, updates, cuts, errors, previous>>
    BY DEF DnsServes, UiFails, StartStage
  <1>2. identity' \in Identities /\ errors' \in 0 .. MaxErrors
    BY <1>1 DEF LifeInv, LifeTypeOK, Identities
  <1> QED BY <1>1, <1>2, StartGoesOn

LEMMA UiStartsKeeps == ASSUME LifeInv, UiStarts PROVE LifeInv'
  <1> DEFINE x == IF ota[chosen].state = "pending" THEN "valid" ELSE ota[chosen].state
  <1>1. /\ ota \in [OtaSlot -> OtaEntry] /\ chosen \in OtaSlot /\ running = chosen
        /\ stage = "ui" /\ ota[chosen].image = "good" /\ ota[chosen].state # "new" /\ upload = "none"
    BY DEF LifeInv, LifeTypeOK, OtaEntry, StageInv, UiStarts, Runs
  <1>2. /\ stage' = "up" /\ ota' = [ota EXCEPT ![chosen] = [ota[chosen] EXCEPT !.state = x]]
        /\ UNCHANGED <<chosen, running, identity, upload, updates, cuts, errors, previous>>
    BY <1>1 DEF UiStarts
  <1>3. x \in State /\ x \in {"unset", "valid"}
    BY <1>1, EntryFields DEF State, LifeInv, SlotsInv, Confirmed
  <1>4. /\ ota' \in [OtaSlot -> OtaEntry] /\ ota'[chosen].state = x /\ ota'[chosen].image = "good"
        /\ ota'[OtherSlot(chosen)] = ota[OtherSlot(chosen)]
    <2> HIDE DEF x
    <2> DEFINE e == [ota[chosen] EXCEPT !.state = x]
    <2>1. e \in OtaEntry /\ e.state = x /\ e.image = "good"
      <3> DEFINE f == ota[chosen]
      <3>1. f \in OtaEntry /\ x \in State /\ f.image = "good"
        BY <1>1, <1>3
      <3> HIDE DEF f
      <3>2. /\ [f EXCEPT !.state = x] \in OtaEntry /\ [f EXCEPT !.state = x].state = x
            /\ [f EXCEPT !.state = x].image = "good"
        BY <3>1, EntryFields
      <3> QED BY <3>2 DEF f
    <2> HIDE DEF e
    <2>2. ota' = [ota EXCEPT ![chosen] = e]
      BY <1>2 DEF e
    <2> QED BY <1>1, <2>1, <2>2, TwoOtaSlots
  <1>5. Confirmed(chosen)'
    BY <1>2, <1>3, <1>4 DEF Confirmed
  <1>6. SlotsInv'
    BY <1>2, <1>4, <1>5 DEF LifeInv, SlotsInv
  <1>7. LifeTypeOK'
    BY <1>2, <1>4 DEF LifeInv, LifeTypeOK, OtaEntry, StartStage
  <1> QED BY <1>1, <1>2, <1>5, <1>6, <1>7 DEF LifeInv, StageInv

LEMMA CertResetKeeps == ASSUME LifeInv, CertReset PROVE LifeInv'
  <1>1. identity' \in Identities /\ UNCHANGED <<ota, chosen, running, stage, upload, updates, cuts, errors, previous>>
    BY DEF CertReset, Identities
  <1>2. LifeTypeOK'
    BY <1>1 DEF LifeInv, LifeTypeOK, Identities
  <1>3. StageInv'
    BY <1>1, SlotsStand DEF LifeInv, LifeTypeOK, StageInv
  <1> QED BY <1>1, <1>2, <1>3, SlotsStand DEF LifeInv

\* The upload page runs from a confirmed slot and writes to the other.
LEMMA UploadKeeps ==
    ASSUME LifeInv, Page, upload # "booting", NEW e \in OtaEntry, NEW c \in OtaSlot, NEW u \in {"none", "writing", "ended", "booting"},
           NEW n \in 0 .. MaxUpdates,
           ota' = [ota EXCEPT ![OtherSlot(running)] = e], chosen' = c, upload' = u, updates' = n,
           previous' = previous \/ previous' = running, u # "none" => previous' = running,
           \/ u # "booting" /\ c = chosen /\ e.state \notin {"new", "pending"} /\ (u = "ended" => e.image \in Image)
           \/ u = "booting" /\ c = OtherSlot(running) /\ e.state = "new" /\ e.image \in Image
    PROVE  LifeInv'
  <1>1. /\ ota \in [OtaSlot -> OtaEntry] /\ running \in OtaSlot /\ running = chosen /\ stage = "up"
        /\ Confirmed(running) /\ previous \in OtaSlot
    BY DEF LifeInv, LifeTypeOK, OtaEntry, StageInv, Page
  <1>2. UNCHANGED <<running, stage, identity, cuts, errors>>
    BY DEF Page
  <1>3. /\ ota' \in [OtaSlot -> OtaEntry] /\ ota'[OtherSlot(running)] = e /\ ota'[running] = ota[running]
    BY <1>1, TwoOtaSlots
  <1>4. Confirmed(running)'
    BY <1>1, <1>2, <1>3 DEF Confirmed
  <1>5. LifeTypeOK'
    BY <1>1, <1>2, <1>3 DEF LifeInv, LifeTypeOK, OtaEntry
  <1>6. SlotsInv'
    BY <1>1, <1>2, <1>3, <1>4, TwoOtaSlots DEF SlotsInv, Confirmed
  <1>7. StageInv'
    BY <1>1, <1>2, <1>3, <1>4, TwoOtaSlots DEF StageInv
  <1> QED BY <1>5, <1>6, <1>7 DEF LifeInv

LEMMA PageKeeps ==
    ASSUME LifeInv, OtaBegin \/ OtaAbort \/ SetBootPartition \/ \E image \in Image : OtaEnd(image)
    PROVE  LifeInv'
  <1> DEFINE o == OtherSlot(running)
  <1>1. /\ Page /\ stage = "up" /\ running \in OtaSlot /\ o \in OtaSlot
        /\ ota \in [OtaSlot -> OtaEntry] /\ ota[o] \in OtaEntry /\ ota = [ota EXCEPT ![o] = ota[o]]
        /\ updates \in 0 .. MaxUpdates /\ chosen \in OtaSlot
    BY TwoOtaSlots DEF OtaBegin, OtaAbort, SetBootPartition, OtaEnd, Page, LifeInv, LifeTypeOK, OtaEntry
  <1>2. upload # "booting" => running = chosen /\ ota[o].state \notin {"new", "pending"}
    BY <1>1 DEF LifeInv, StageInv, SlotsInv
  <1>3. CASE OtaBegin
    <2> DEFINE e == [image |-> "none", state |-> ota[o].state]
    <2>1. e \in OtaEntry /\ e.state = ota[o].state
      BY <1>1, EntryFields
    <2>2. /\ ota' = [ota EXCEPT ![o] = e] /\ chosen' = chosen /\ upload' = "writing" /\ upload = "none"
          /\ updates' = updates + 1 /\ updates + 1 \in 0 .. MaxUpdates /\ previous' = running
      BY <1>1, <1>3, LifeAssumption DEF OtaBegin
    <2> HIDE DEF e
    <2> QED BY <1>1, <1>2, <2>1, <2>2, UploadKeeps
  <1>4. CASE OtaAbort
    <2>1. /\ ota' = [ota EXCEPT ![o] = ota[o]] /\ chosen' = chosen /\ upload' = "none" /\ upload # "booting"
          /\ updates' = updates /\ previous' = previous
      BY <1>1, <1>4 DEF OtaAbort
    <2> QED BY <1>1, <1>2, <2>1, UploadKeeps
  <1>5. CASE SetBootPartition
    <2> DEFINE e == [ota[o] EXCEPT !.state = "new"]
    <2>1. e \in OtaEntry /\ e.state = "new" /\ e.image = ota[o].image
      BY <1>1, EntryFields DEF State
    <2>2. /\ ota' = [ota EXCEPT ![o] = e] /\ chosen' = o /\ upload' = "booting" /\ upload = "ended"
          /\ updates' = updates /\ previous' = previous /\ previous = running /\ ota[o].image \in Image
      BY <1>1, <1>5 DEF SetBootPartition, LifeInv, StageInv
    <2> HIDE DEF e
    <2> QED BY <1>1, <2>1, <2>2, UploadKeeps
  <1>6. ASSUME NEW image \in Image, OtaEnd(image) PROVE LifeInv'
    <2> DEFINE e == [ota[o] EXCEPT !.image = image]
    <2>1. e \in OtaEntry /\ e.state = ota[o].state /\ e.image = image
      BY <1>1, EntryFields
    <2>2. /\ ota' = [ota EXCEPT ![o] = e] /\ chosen' = chosen /\ upload' = "ended" /\ upload = "writing"
          /\ updates' = updates /\ previous' = previous /\ previous = running
      BY <1>1, <1>6 DEF OtaEnd, LifeInv, StageInv
    <2> HIDE DEF e
    <2> QED BY <1>1, <1>2, <2>1, <2>2, UploadKeeps
  <1> QED BY <1>3, <1>4, <1>5, <1>6

LEMMA LifeStepKeeps == LifeInv /\ [LifeNext]_lifeVars => LifeInv'
  <1> SUFFICES ASSUME LifeInv, [LifeNext]_lifeVars PROVE LifeInv'
    OBVIOUS
  <1>1. CASE UNCHANGED lifeVars
    BY <1>1 DEF lifeVars, LifeInv, LifeTypeOK, SlotsInv, StageInv, Confirmed
  <1>2. CASE LifeNext
    <2>1. CASE Bootloader \/ PowerCut \/ ResetsItself \/ Restarts
      BY <2>1, BootloaderKeeps, ResetKeeps
    <2>2. CASE InitFails \/ NoUi \/ UiStarts \/ DnsServes \/ UiFails
      BY <2>2, InitFailsKeeps, NoUiKeeps, UiStartsKeeps, DnsServesKeeps
    <2>3. CASE LoadIdentity \/ MintCertificate \/ StoreKey \/ StoreMark \/ StoreFails \/ MintFails
      BY <2>3, IdentityKeeps
    <2>4. CASE CertReset \/ OtaBegin \/ OtaAbort \/ SetBootPartition \/ \E image \in Image : OtaEnd(image)
      BY <2>4, CertResetKeeps, PageKeeps
    <2> QED BY <1>2, <2>1, <2>2, <2>3, <2>4, Zenon DEF LifeNext, Starts
  <1> QED BY <1>1, <1>2

\* The invariants of the specification follow without its fairness.
LEMMA LifeInvariant == LifeInit /\ [][LifeNext]_lifeVars => []LifeInv
  BY LifeInitHolds, LifeStepKeeps, PTL

\* Every reachable state of the slots, the start, the identity and the upload is well typed.
THEOREM LifeTypeCorrect == LifeSpec => []LifeTypeOK
  <1>1. LifeInv => LifeTypeOK
    BY DEF LifeInv
  <1> QED BY <1>1, LifeInvariant, PTL DEF LifeSpec

-----------------------------------------------------------------------------
\* The slot the bootloader takes at the next reset.
BootSlot == IF ota[chosen].state \in {"pending", "invalid"} THEN OtherSlot(chosen) ELSE chosen

\* Whatever is uploaded, whenever the power is cut and whatever fails, one slot holds a
\* confirmed image that works; an update not yet confirmed has it in the slot beside it,
\* and received the update there; an upload never writes to it; the bootloader finds an
\* image; and app_main never halts for want of one to go back to.
ThereIsAWayBack ==
    /\ \E s \in OtaSlot : Confirmed(s)
    /\ \A s \in OtaSlot : ota[s].state \in {"new", "pending"} =>
                              Confirmed(OtherSlot(s)) /\ previous = OtherSlot(s)
    /\ upload # "none" => Confirmed(running)
    /\ ota[BootSlot].image \in Image
    /\ stage = "up" => Runs = "good"
    /\ stage # "halted"

\* There is always a way back to a working firmware, for any numbers of uploads, power
\* cuts and NVS failures.
THEOREM AWayBackStands == LifeSpec => []ThereIsAWayBack
  <1>1. ASSUME LifeInv PROVE ThereIsAWayBack
    <2>1. /\ chosen \in OtaSlot /\ OtherSlot(chosen) \in OtaSlot
          /\ \A s \in OtaSlot : s = chosen \/ s = OtherSlot(chosen)
      BY <1>1, TwoOtaSlots DEF LifeInv, LifeTypeOK
    <2>2. Confirmed(chosen) \/ Confirmed(OtherSlot(chosen))
      BY <1>1 DEF LifeInv, SlotsInv
    <2>3. \A s \in OtaSlot : ota[s].state \in {"new", "pending"} =>
                                Confirmed(OtherSlot(s)) /\ previous = OtherSlot(s)
      BY <1>1, <2>1 DEF LifeInv, SlotsInv, Confirmed
    <2>4. upload # "none" => Confirmed(running)
      BY <1>1 DEF LifeInv, StageInv
    <2>5. ota[BootSlot].image \in Image
      <3>1. "good" \in Image
        BY DEF Image
      <3> QED BY <1>1, <3>1 DEF BootSlot, LifeInv, SlotsInv, Confirmed
    <2>6. (stage = "up" => Runs = "good") /\ stage # "halted"
      BY <1>1 DEF LifeInv, StageInv, Confirmed, Runs
    <2> QED BY <2>1, <2>2, <2>3, <2>4, <2>5, <2>6 DEF ThereIsAWayBack
  <1> QED BY <1>1, LifeInvariant, PTL DEF LifeSpec

\* How many tries the slot otadata names still has, and how far the try under way is
\* from its end.
Tries == CASE ota[chosen].state = "new"                      -> 3
           [] ota[chosen].state = "pending" /\ stage # "off" -> 2
           [] ota[chosen].state = "pending" /\ stage = "off" -> 1
           [] OTHER                                          -> 0

Ahead == CASE stage = "off" -> 8 [] stage = "init" -> 7 [] stage = "identity" -> 6 [] stage = "key" -> 5
           [] stage = "mark" -> 4 [] stage = "ui" -> 3 [] stage = "confirm" -> 2 [] OTHER -> 0

StartsLeft == 9 * Tries + Ahead

\* Until the device serves again, every step but a power cut brings it nearer: a start
\* never goes round in circles, whichever image it tries and whatever fails.  It is the
\* safety half of PreviousFirmwareComesBack.
StartAdvances == [][stage # "up" /\ cuts' = cuts => StartsLeft' < StartsLeft /\ StartsLeft' \in Nat]_lifeVars

\* Every start ends, for any numbers of uploads and failures: after at most StartsLeft steps.
THEOREM StartsEnd == LifeSpec => StartAdvances
  <1> DEFINE Nearer == stage # "up" /\ cuts' = cuts => StartsLeft' < StartsLeft /\ StartsLeft' \in Nat
  <1>1. ASSUME LifeInv, LifeInv', [LifeNext]_lifeVars PROVE [Nearer]_lifeVars
    <2> SUFFICES ASSUME LifeNext, stage # "up", cuts' = cuts
                 PROVE  StartsLeft' < StartsLeft /\ StartsLeft' \in Nat
      BY <1>1
    <2>1. /\ Tries \in 0 .. 3 /\ Tries' \in 0 .. 3 /\ Ahead \in 0 .. 8 /\ Ahead' \in 0 .. 8
          /\ cuts \in Nat
      BY <1>1, LifeAssumption DEF Tries, Ahead, LifeInv, LifeTypeOK
    <2> SUFFICES \/ Tries' < Tries
                 \/ Tries' = Tries /\ Ahead' < Ahead
      <3>1. StartsLeft = 9 * Tries + Ahead /\ StartsLeft' = 9 * Tries' + Ahead'
        BY DEF StartsLeft
      <3>2. ASSUME NEW t \in 0 .. 3, NEW u \in 0 .. 3, NEW a \in 0 .. 8, NEW b \in 0 .. 8,
                   u < t \/ (u = t /\ b < a)
            PROVE  9 * u + b < 9 * t + a /\ 9 * u + b \in Nat
        BY <3>2
      <3> QED BY <2>1, <3>1, <3>2
    <2>2. CASE Bootloader
      <3>1. /\ stage = "off" /\ stage' = "init" /\ chosen \in OtaSlot
            /\ LET s == IF ota[chosen].state \in {"pending", "invalid"} THEN OtherSlot(chosen) ELSE chosen
               IN  /\ chosen' = s
                   /\ ota'[s].state = IF ota[s].state = "new" THEN "pending" ELSE ota[s].state
        BY <1>1, <2>2, TwoOtaSlots DEF Bootloader, LifeInv, LifeTypeOK
      <3>2. Ahead = 8 /\ Ahead' = 7
        BY <3>1 DEF Ahead
      <3>3. CASE ota[chosen].state = "new"
        <4>1. Tries = 3 /\ Tries' = 2
          BY <3>1, <3>3 DEF Tries
        <4> QED BY <4>1
      <3>4. CASE ota[chosen].state = "pending"
        <4>1. Tries = 1 /\ Tries' = 0
          BY <1>1, <3>1, <3>4 DEF Tries, LifeInv, SlotsInv, Confirmed
        <4> QED BY <4>1
      <3>5. CASE ota[chosen].state \notin {"new", "pending"}
        <4>1. Tries = 0 /\ Tries' = 0
          BY <1>1, <3>1, <3>5 DEF Tries, LifeInv, SlotsInv, Confirmed
        <4> QED BY <3>2, <4>1
      <3> QED BY <3>3, <3>4, <3>5
    \* The image that gives up, or resets itself, was not confirmed.
    <2>3. ASSUME stage \notin {"off", "up"}, Runs # "good"
          PROVE  chosen = running /\ ota[chosen].state = "pending" /\ Tries = 2
      BY <1>1, <2>3, GivesUp DEF LifeInv, StageInv, Unconfirmed, Tries
    <2>4. CASE ResetsItself
      <3>1. stage = "init" /\ Runs = "resets" /\ stage' = "off" /\ UNCHANGED <<ota, chosen>>
        BY <2>4 DEF ResetsItself, Resets
      <3>2. Tries = 2 /\ Tries' = 1
        BY <2>3, <3>1 DEF Tries
      <3> QED BY <3>2
    <2>5. ASSUME InitFails \/ NoUi, Unconfirmed PROVE Tries' < Tries
      <3>1. stage \in {"init", "confirm"} /\ chosen = running /\ ota[chosen].state = "pending" /\ Tries = 2
        BY <1>1, <2>5 DEF InitFails, NoUi, LifeInv, StageInv, Unconfirmed, Tries
      <3>2. RollsBack
        BY <1>1, <3>1 DEF LifeInv, SlotsInv, Confirmed, RollsBack
      <3>3. chosen' = OtherSlot(chosen) /\ ota'[OtherSlot(chosen)] = ota[OtherSlot(chosen)]
        BY <1>1, <2>5, <3>1, <3>2, TwoOtaSlots
           DEF InitFails, NoUi, HaltOrRollback, RollBackAndReboot, LifeInv, LifeTypeOK
      <3>4. Tries' = 0
        BY <1>1, <3>1, <3>3 DEF Tries, LifeInv, SlotsInv, Confirmed
      <3> QED BY <3>1, <3>4
    <2>6. CASE InitFails \/ NoUi
      <3>1. CASE Unconfirmed
        BY <2>5, <2>6, <3>1
      <3>2. CASE ~Unconfirmed
        <4>1. ~InitFails
          BY <1>1, <3>2, GivesUp DEF InitFails
        <4>2. stage = "confirm" /\ stage' = "up" /\ UNCHANGED <<ota, chosen>>
          BY <2>6, <3>2, <4>1 DEF NoUi
        <4> QED BY <4>2 DEF Tries, Ahead
      <3> QED BY <3>1, <3>2
    <2>7. CASE UiStarts
      <3>1. /\ stage = "ui" /\ stage' = "up" /\ chosen' = chosen /\ running = chosen /\ chosen \in OtaSlot
            /\ ota[chosen].state # "new" /\ ota'[chosen].state = IF ota[chosen].state = "pending" THEN "valid" ELSE ota[chosen].state
        BY <1>1, <2>7 DEF UiStarts, LifeInv, LifeTypeOK, StageInv
      <3>2. Ahead = 3 /\ Ahead' = 0
        BY <3>1 DEF Ahead
      <3>3. Tries' = 0
        BY <1>1, <3>1 DEF Tries, LifeInv, SlotsInv, Confirmed
      <3> QED BY <2>1, <3>2, <3>3
    <2>8. CASE LoadIdentity \/ MintCertificate \/ StoreKey \/ StoreMark \/ StoreFails \/ MintFails \/ DnsServes \/ UiFails
      <3>1. UNCHANGED <<ota, chosen>> /\ stage # "off" /\ stage' # "off" /\ Ahead' < Ahead
        BY <2>8 DEF LoadIdentity, MintCertificate, StoreKey, StoreMark, StoreFails, MintFails,
                    DnsServes, UiFails, Identity, Ahead
      <3> QED BY <3>1 DEF Tries
    <2>9. ~(Restarts \/ PowerCut \/ CertReset \/ OtaBegin \/ OtaAbort \/ SetBootPartition \/ \E image \in Image : OtaEnd(image))
      BY <1>1, <2>1 DEF Restarts, PowerCut, CertReset, OtaBegin, OtaAbort, SetBootPartition, OtaEnd, Page,
                        LifeInv, StageInv
    <2> QED BY <2>2, <2>4, <2>6, <2>7, <2>8, <2>9, Zenon DEF LifeNext, Starts
  <1>2. LifeInv /\ LifeInv' /\ [LifeNext]_lifeVars => [Nearer]_lifeVars
    BY <1>1
  <1> QED BY <1>2, LifeInvariant, PTL DEF LifeSpec, StartAdvances

-----------------------------------------------------------------------------
(***************************************************************************)
(* The instance the runs explore.                                          *)
(***************************************************************************)
LEMMA HookInits == MCInit => Init /\ RingInit /\ WdInit /\ LifeInit
  BY DEF MCInit

LEMMA HookSteps == [MCNext]_<<vars, ringVars, wdVars, lifeVars, part>> =>
                       [Next]_vars /\ [RingNext]_ringVars /\ [WdNext]_wdVars /\ [LifeNext]_lifeVars
  <1>1. CacheNext => Next
    BY DEF CacheNext, Next
  <1> QED BY <1>1, Zenon DEF MCNext

\* What MCHook explores of the cache and of the rings are behaviours of CacheSeqlock and of
\* SpscRing, and what it explores of the sockets and of the start are behaviours of
\* SocketWatchdog and of DeviceLife but for their fairness, which is that of their part:
\* the invariants proved of the four hold in the run.
THEOREM HookRunsItsParts == MCSpec => /\ Spec /\ RingSpec
                                      /\ WdInit /\ [][WdNext]_wdVars
                                      /\ LifeInit /\ [][LifeNext]_lifeVars
  <1>1. MCSpec => Init /\ [][Next]_vars
    BY HookInits, HookSteps, PTL DEF MCSpec
  <1>2. MCSpec => RingInit /\ [][RingNext]_ringVars /\ WF_ringVars(Consumer)
    BY HookInits, HookSteps, PTL DEF MCSpec
  <1>3. MCSpec => WdInit /\ [][WdNext]_wdVars /\ LifeInit /\ [][LifeNext]_lifeVars
    BY HookInits, HookSteps, PTL DEF MCSpec
  <1> QED BY <1>1, <1>2, <1>3, PTL DEF Spec, RingSpec

\* Every variable of the cache, the rings, the sockets and the start keeps its type.
THEOREM HookTypesCorrect == MCSpec => []TypesOK
  <1>1. MCSpec => [](TypeOK /\ RingTypeOK)
    BY HookRunsItsParts, SeqlockTypeCorrect, RingTypeCorrect, PTL
  <1>2. MCSpec => [](WdInv /\ LifeInv)
    BY HookInits, HookSteps, WdInitHolds, WdStepKeeps, LifeInitHolds, LifeStepKeeps, PTL DEF MCSpec
  <1>3. TypeOK /\ RingTypeOK /\ WdInv /\ LifeInv => TypesOK
    BY DEF WdInv, LifeInv, TypesOK
  <1> QED BY <1>1, <1>2, <1>3, PTL
================================================================================
