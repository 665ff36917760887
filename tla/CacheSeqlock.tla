----------------------------- MODULE CacheSeqlock -----------------------------
(***************************************************************************)
(* One set of the forward cache, read while it is written.  dns_task is    *)
(* the only writer (cache_store_resp, cache_store_blocked); the Ethernet   *)
(* hook reads a set (dns_cache_l2_get) and download_task copies entries to *)
(* the SD card (dns_server_cache_save), on other cores, without a lock.    *)
(* s_cache_seq is odd while a store is under way; a reader gives up on an  *)
(* odd count and on a count that changed while it read.                    *)
(*                                                                         *)
(* A store is identified by its place in "log"; each field of a way holds  *)
(* the store that wrote it last (0: never), so a torn entry is one whose   *)
(* fields name different stores.  Every field is written and read in a     *)
(* step of its own.  The fences order these steps as written here.  The    *)
(* counter does not wrap: that would take 2^31 stores within one read.     *)
(* TTLs are left out: a reader may find any entry expired.                 *)
(***************************************************************************)
EXTENDS Naturals, Sequences

CONSTANTS Name,       \* names whose entries share the set
          Ways,       \* CACHE_WAYS
          MaxStores,  \* bound on stores
          MaxGen,     \* bound on the blocklist generation
          Reader      \* "l2", the Ethernet hook; "save", the copy to the SD card

ASSUME NameAssumption   == Name # {}
ASSUME WaysAssumption   == Ways \in Nat \ {0}
ASSUME BoundsAssumption == MaxStores \in Nat /\ MaxGen \in Nat
ASSUME ReaderAssumption == Reader \subseteq {"l2", "save"}

Way == 1 .. Ways

VARIABLES seq,     \* s_cache_seq
          log,     \* the stores so far
          way,     \* the fields of each way
          gen,     \* s_blocklist_gen
          writer,  \* how far the store under way has got, and in which way
          reader   \* the same for each reader

vars == <<seq, log, way, gen, writer, reader>>

StoreType == [name : Name, blocked : BOOLEAN, gen : 0 .. MaxGen]

\* key_hash and qtype; blocked and valid; resp_len; resp from the header over
\* the question to qn_len, and the rest of it; ttl_deadline_ms and load_gen.
Field == {"key", "kind", "len", "head", "body", "stamp"}

WriteOrder == <<"key", "kind", "len", "head", "body", "stamp">>

\* What a reader looks at before it copies the reply, and what it copies.
InspectOrder == <<"kind", "key", "head", "stamp", "len">>
CopyOrder    == <<"head", "body">>

Writing == writer.step # 0

WriterType == [step : 0 .. Len(WriteOrder) + 1, way : Way]

ReaderType == [pc : {"idle", "asked", "inspect", "copy", "check", "hit"},
               name : Name, gen : 0 .. MaxGen, s1 : Nat,
               way : Way, last : Way, step : 1 .. Len(InspectOrder), got : [Field -> Nat]]

TypeOK == /\ seq \in Nat
          /\ log \in Seq(StoreType) /\ Len(log) <= MaxStores
          /\ way \in [Way -> [Field -> 0 .. Len(log)]]
          /\ gen \in 0 .. MaxGen
          /\ writer \in WriterType
          /\ reader \in [Reader -> ReaderType]
          /\ \A r \in Reader : /\ reader[r].way <= reader[r].last
                               /\ reader[r].pc = "copy" => reader[r].step <= Len(CopyOrder)

Blank == [f \in Field |-> 0]

Idle == [pc |-> "idle", name |-> CHOOSE n \in Name : TRUE, gen |-> 0, s1 |-> 0,
         way |-> 1, last |-> 1, step |-> 1, got |-> Blank]

Init == /\ seq = 0
        /\ log = <<>>
        /\ way = [w \in Way |-> Blank]
        /\ gen = 0
        /\ writer = [step |-> 0, way |-> 1]
        /\ reader = [r \in Reader |-> Idle]

-----------------------------------------------------------------------------
(***************************************************************************)
(* The writer.                                                             *)
(***************************************************************************)
IsAllow(id) == id # 0 /\ ~log[id].blocked
IsFor(id, n) == id # 0 /\ log[id].name = n

\* cache_victim: a name's own way if it has one, else any.
Victim(n) == LET own == {w \in Way : IsFor(way[w].head, n)}
             IN  IF own # {} THEN own ELSE Way

\* cache_write_begin.  The generation is the verdict's, which may be older than
\* the present one.
BeginStore == /\ ~Writing
              /\ Len(log) < MaxStores
              /\ \E s \in [name : Name, blocked : BOOLEAN, gen : 0 .. gen] :
                    /\ log' = Append(log, s)
                    /\ \E w \in Victim(s.name) : writer' = [step |-> 1, way |-> w]
              /\ seq' = seq + 1
              /\ UNCHANGED <<way, gen, reader>>

WriteField == /\ writer.step \in 1 .. Len(WriteOrder)
              /\ way' = [way EXCEPT ![writer.way][WriteOrder[writer.step]] = Len(log)]
              /\ writer' = [writer EXCEPT !.step = @ + 1]
              /\ UNCHANGED <<seq, log, gen, reader>>

\* cache_write_end.
EndStore == /\ writer.step = Len(WriteOrder) + 1
            /\ seq' = seq + 1
            /\ writer' = [writer EXCEPT !.step = 0]
            /\ UNCHANGED <<log, way, gen, reader>>

\* blocklist_generation_bump, by a task of its own.
Bump == /\ gen < MaxGen
        /\ gen' = gen + 1
        /\ UNCHANGED <<seq, log, way, writer, reader>>

-----------------------------------------------------------------------------
(***************************************************************************)
(* The readers.                                                            *)
(***************************************************************************)
Set(r, q) == reader' = [reader EXCEPT ![r] = q]

\* The hook asks for a name, over all ways and under the generation it reads
\* first; the save asks for whatever one way holds.
Ask(r) == /\ reader[r].pc = "idle"
          /\ \/ /\ r = "l2"
                /\ \E n \in Name :
                      Set(r, [Idle EXCEPT !.pc = "asked", !.name = n, !.gen = gen, !.last = Ways])
             \/ /\ r = "save"
                /\ \E w \in Way : Set(r, [Idle EXCEPT !.pc = "asked", !.way = w, !.last = w])
          /\ UNCHANGED <<seq, log, way, gen, writer>>

Odd(n) == n % 2 = 1

\* Mutant: an odd count is not looked at.
ReadSeqOdd(r) == /\ reader[r].pc = "asked"
                 /\ Set(r, [reader[r] EXCEPT !.pc = "inspect", !.s1 = seq])
                 /\ UNCHANGED <<seq, log, way, gen, writer>>

ReadSeq(r) == /\ reader[r].pc = "asked"
              /\ Set(r, IF Odd(seq) THEN Idle
                                    ELSE [reader[r] EXCEPT !.pc = "inspect", !.s1 = seq])
              /\ UNCHANGED <<seq, log, way, gen, writer>>

\* The test a reader puts to a field before it goes on.
Passes(r, f, id) ==
    LET q == reader[r]
    IN  CASE f \in {"kind", "len"} -> IsAllow(id)
          [] f \in {"key", "head"} -> r = "save" \/ IsFor(id, q.name)
          [] f = "stamp" -> r = "save" \/ IF id = 0 THEN q.gen = 0 ELSE log[id].gen = q.gen

See(r, f) == [reader[r].got EXCEPT ![f] = way[reader[r].way][f]]

Inspect(r) ==
    LET q == reader[r]
        f == InspectOrder[q.step]
    IN  /\ q.pc = "inspect"
        /\ Passes(r, f, way[q.way][f])
        /\ Set(r, IF q.step < Len(InspectOrder)
                    THEN [q EXCEPT !.got = See(r, f), !.step = @ + 1]
                    ELSE [q EXCEPT !.got = See(r, f), !.step = 1, !.pc = "copy"])
        /\ UNCHANGED <<seq, log, way, gen, writer>>

\* Mutant: the scan runs one way past the set.
SkipPastSet(r) ==
    LET q == reader[r]
        f == InspectOrder[q.step]
    IN  /\ q.pc = "inspect"
        /\ f = "stamp" \/ ~Passes(r, f, way[q.way][f])
        /\ Set(r, IF q.way > q.last THEN Idle
                  ELSE [q EXCEPT !.way = @ + 1, !.step = 1, !.got = Blank])
        /\ UNCHANGED <<seq, log, way, gen, writer>>

\* The field fails the test, or the entry is found expired: the next way, or
\* a miss after the last.
Skip(r) ==
    LET q == reader[r]
        f == InspectOrder[q.step]
    IN  /\ q.pc = "inspect"
        /\ f = "stamp" \/ ~Passes(r, f, way[q.way][f])
        /\ Set(r, IF q.way = q.last THEN Idle
                  ELSE [q EXCEPT !.way = @ + 1, !.step = 1, !.got = Blank])
        /\ UNCHANGED <<seq, log, way, gen, writer>>

Copy(r) ==
    LET q == reader[r]
        f == CopyOrder[q.step]
    IN  /\ q.pc = "copy"
        /\ Set(r, IF q.step < Len(CopyOrder)
                    THEN [q EXCEPT !.got = See(r, f), !.step = @ + 1]
                    ELSE [q EXCEPT !.got = See(r, f), !.step = 1, !.pc = "check"])
        /\ UNCHANGED <<seq, log, way, gen, writer>>

\* Mutant: the count is not read again.
CheckNothing(r) == /\ reader[r].pc = "check"
                   /\ Set(r, [reader[r] EXCEPT !.pc = "hit"])
                   /\ UNCHANGED <<seq, log, way, gen, writer>>

\* The count is read again: a store has been at work in between, or not.
Check(r) == /\ reader[r].pc = "check"
            /\ Set(r, IF seq = reader[r].s1 THEN [reader[r] EXCEPT !.pc = "hit"] ELSE Idle)
            /\ UNCHANGED <<seq, log, way, gen, writer>>

\* The reply is sent, or the record is written to the card.
Use(r) == /\ reader[r].pc = "hit"
          /\ Set(r, Idle)
          /\ UNCHANGED <<seq, log, way, gen, writer>>

Next == \/ BeginStore \/ WriteField \/ EndStore \/ Bump
        \/ \E r \in Reader : \/ Ask(r) \/ ReadSeq(r) \/ Inspect(r) \/ Skip(r)
                             \/ Copy(r) \/ Check(r) \/ Use(r)

Spec == Init /\ [][Next]_vars

-----------------------------------------------------------------------------
(***************************************************************************)
(* Properties.                                                             *)
(***************************************************************************)
\* The reply a reader uses is one store's, whole: every field it looked at and
\* every byte it copied came from the same store, an allowed one; and the hook
\* answers the name it was asked for, from a verdict of the generation that was
\* current when it asked.
RepliesWhole ==
    \A r \in Reader : reader[r].pc = "hit" =>
        \E id \in 1 .. Len(log) :
            /\ \A f \in Field : reader[r].got[f] = id
            /\ ~log[id].blocked
            /\ r = "l2" => log[id].name = reader[r].name /\ log[id].gen = reader[r].gen

\* The entries as they stand, a store counting from its last field on.
Table == [w \in Way |-> IF way[w].stamp = 0 THEN <<>> ELSE <<log[way[w].stamp]>>]

Asked == [r \in Reader |-> IF reader[r].pc \in {"idle", "hit"} THEN <<>>
                           ELSE <<[name |-> reader[r].name, gen |-> reader[r].gen]>>]

\* The reply copied: a store's, or, torn, one that no reader may use.
Torn == [name |-> CHOOSE n \in Name : TRUE, blocked |-> TRUE, gen |-> 0]

Reply == [r \in Reader |->
            IF reader[r].pc # "hit" THEN <<>>
            ELSE LET got == reader[r].got
                 IN  IF got.head = got.body /\ got.head # 0 THEN <<log[got.head]>> ELSE <<Torn>>]

Atomic == INSTANCE AtomicCache WITH table <- Table, asked <- Asked, reply <- Reply

\* The seqlock makes a read look as if it happened at one instant.
ReadsAreAtomic == Atomic!Spec
===============================================================================
