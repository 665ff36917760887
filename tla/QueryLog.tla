------------------------------- MODULE QueryLog -------------------------------
(***************************************************************************)
(* The query log (query_log.c): dns_task records each query in a ring, in  *)
(* a graph of the last minutes and in a table of the most frequent names;  *)
(* the web task reads all three without a lock.                            *)
(*                                                                         *)
(* Abstractions.  A record is its name, whether it was blocked, and its    *)
(* number.  The table of clients is the same algorithm as that of names.   *)
(***************************************************************************)
EXTENDS Naturals, Sequences, FiniteSets

CONSTANTS QName,       \* names queried
          LogSize,     \* QLOG_SIZE
          Buckets,     \* QHIST_BUCKETS
          TopSize,     \* QTOP_DOMAINS
          MaxRecords,  \* bound on the records
          MaxMinute    \* bound on the minutes

\* An empty name: a slot of the ring or of the table that nothing has taken.
NoName == ""

ASSUME LogAssumption == /\ {LogSize, Buckets, TopSize, MaxRecords, MaxMinute} \subseteq Nat
                        /\ LogSize > 0 /\ Buckets > 0 /\ TopSize > 0 /\ NoName \notin QName

VARIABLES minute,      \* uptime in minutes
          ring,        \* s_ring
          logHead,     \* s_head
          hist,        \* s_hist
          histMinute,  \* s_hist_minute
          top,         \* s_top_d
          entering,    \* the record dns_task is about to write, a set of at most one
          records      \* the queries recorded, each with its minute

qlVars == <<minute, ring, logHead, hist, histMinute, top, entering, records>>

Record == [name : QName, blocked : BOOLEAN, minute : 0 .. MaxMinute]

NoRecord == [name |-> NoName, blocked |-> FALSE, minute |-> 0]

HistBucket == [total : 0 .. MaxRecords, blocked : 0 .. MaxRecords]
TopEntry == [key : QName \cup {NoName}, total : 0 .. MaxRecords, blocked : 0 .. MaxRecords]

QlTypeOK == /\ minute \in 0 .. MaxMinute /\ histMinute \in 0 .. MaxMinute
            /\ ring \in [0 .. LogSize - 1 -> Record \cup {NoRecord}]
            /\ hist \in [0 .. Buckets - 1 -> HistBucket]
            /\ top \in [1 .. TopSize -> TopEntry]
            /\ \A i \in 1 .. TopSize : top[i].blocked <= top[i].total
            /\ entering = {} \/ \E r \in Record : entering = {r}
            /\ records \in Seq(Record) /\ Len(records) <= MaxRecords
            /\ logHead = Len(records)

QlInit == /\ minute = 0
          /\ ring = [i \in 0 .. LogSize - 1 |-> NoRecord]
          /\ logHead = 0
          /\ hist = [b \in 0 .. Buckets - 1 |-> [total |-> 0, blocked |-> 0]]
          /\ histMinute = 0
          /\ top = [i \in 1 .. TopSize |-> [key |-> NoName, total |-> 0, blocked |-> 0]]
          /\ entering = {} /\ records = <<>>

-----------------------------------------------------------------------------
NextMinute == /\ minute < MaxMinute /\ entering = {}
              /\ minute' = minute + 1
              /\ UNCHANGED <<ring, logHead, hist, histMinute, top, entering, records>>

\* query_log_record claims a slot, and then fills it.
Claim(n, b) == /\ entering = {} /\ logHead < MaxRecords
               /\ entering' = {[name |-> n, blocked |-> b, minute |-> minute]}
               /\ logHead' = logHead + 1
               /\ records' = Append(records, [name |-> n, blocked |-> b, minute |-> minute])
               /\ UNCHANGED <<minute, ring, hist, histMinute, top>>

\* Mutant: the minute that begins keeps what its bucket counted last time round.
SkippedButLast == {(histMinute + i) % Buckets : i \in {j \in 1 .. Buckets : j < minute - histMinute}}

\* The buckets of the minutes since the last record, the new one included.
Skipped == {(histMinute + i) % Buckets : i \in {j \in 1 .. Buckets : j <= minute - histMinute}}

One(b) == IF b THEN 1 ELSE 0

Counted(e, b) == [e EXCEPT !.total = @ + 1, !.blocked = @ + One(b)]

Cleared == [s \in 0 .. Buckets - 1 |-> IF s \in Skipped THEN [total |-> 0, blocked |-> 0] ELSE hist[s]]

\* The name's entry is counted; or the entry counted least, the first of several,
\* is given up for it.
Own(n) == {i \in 1 .. TopSize : top[i].key = n}
Least == {i \in 1 .. TopSize : \A j \in 1 .. TopSize : top[i].total <= top[j].total}
Earliest(set) == CHOOSE i \in set : \A j \in set : i <= j

Ranked(n, b) ==
    IF Own(n) # {} THEN [top EXCEPT ![Earliest(Own(n))] = Counted(@, b)]
    ELSE [top EXCEPT ![Earliest(Least)] = [key |-> n, total |-> 1, blocked |-> One(b)]]

Enter == \E r \in entering :
    /\ ring' = [ring EXCEPT ![(logHead - 1) % LogSize] = r]
    /\ hist' = [Cleared EXCEPT ![minute % Buckets] = Counted(@, r.blocked)]
    /\ histMinute' = minute
    /\ top' = Ranked(r.name, r.blocked)
    /\ entering' = {}
    /\ UNCHANGED <<minute, logHead, records>>

QlNext == NextMinute \/ Enter \/ \E n \in QName, b \in BOOLEAN : Claim(n, b)

QlSpec == QlInit /\ [][QlNext]_qlVars

-----------------------------------------------------------------------------
(***************************************************************************)
(* What the web task reads.                                                *)
(***************************************************************************)
\* query_log_snapshot, newest first.
Snapshot == [i \in 1 .. (IF logHead < LogSize THEN logHead ELSE LogSize) |->
                ring[(logHead - i + 2 * LogSize) % LogSize]]

\* query_log_history, the latest minute first.
History == [i \in 0 .. Buckets - 1 |-> hist[(histMinute - i + 2 * Buckets) % Buckets]]

\* What has been entered: all but the record whose slot is only claimed.
Entered == IF entering = {} THEN records ELSE SubSeq(records, 1, Len(records) - 1)

During(m) == {i \in DOMAIN Entered : Entered[i].minute = m}

\* Whatever was recorded when, and however many minutes passed without a query:
\* the log shows the last queries in order, all but the newest also while that
\* is being written; the graph shows each minute's count; and no name is ever
\* credited with more queries than were made for it.
LogIsTrue ==
    /\ \A i \in DOMAIN Snapshot : i > Cardinality(entering) => Snapshot[i] = records[logHead + 1 - i]
    /\ \A i \in DOMAIN History : i <= histMinute =>
          /\ History[i].total = Cardinality(During(histMinute - i))
          /\ History[i].blocked = Cardinality({k \in During(histMinute - i) : Entered[k].blocked})
    /\ \A i \in 1 .. TopSize :
          top[i].key # NoName => top[i].total <= Cardinality({k \in DOMAIN Entered : Entered[k].name = top[i].key})
===============================================================================
