---------------------------- MODULE Tables_proofs ----------------------------
(***************************************************************************)
(* The two tables dns_task makes of what it is told, the devices seen      *)
(* (Census) and the queries answered (QueryLog), for any sizes.            *)
(***************************************************************************)
EXTENDS Census, QueryLog, Numbers_proofs

-----------------------------------------------------------------------------
(***************************************************************************)
(* The census forgets the device seen longest ago, and suspects nobody     *)
(* who asked. An entry was seen last when its device was, and a device     *)
(* that no entry has was seen no later than any entry of a full table      *)
(* (CensusInv).                                                            *)
(***************************************************************************)
\* The table and the two histories: an entry was seen last when its device was, a
\* device no entry has was seen no later than any entry, and an entry without a
\* question has had none since it was listed.
CensusInv ==
    /\ \A i, j \in DOMAIN census : census[i].mac = census[j].mac => i = j
    /\ \A i \in DOMAIN census : /\ census[i].first <= census[i].last
                                /\ census[i].last = seenAt[census[i].mac]
                                /\ ~census[i].query => queriedAt[census[i].mac] <= census[i].first
    /\ \A mac \in Mac : seenAt[mac] <= second /\ queriedAt[mac] <= second
    /\ \A mac \in Mac : seenAt[mac] # 0 /\ Listed(mac) = {} =>
           /\ Len(census) = CensusMax
           /\ \A i \in DOMAIN census : seenAt[mac] <= census[i].last

CnInv == CnTypeOK /\ CensusInv

\* The entries and their fields.
LEMMA EntriesTyped ==
    ASSUME CnTypeOK
    PROVE  /\ Len(census) \in Nat /\ DOMAIN census = 1 .. Len(census)
           /\ \A i \in DOMAIN census : /\ census[i] \in CensusEntry /\ census[i].mac \in Mac
                                       /\ census[i].first \in Nat /\ census[i].last \in Nat
                                       /\ census[i].query \in BOOLEAN
  <1>1. census \in Seq(CensusEntry)
    BY DEF CnTypeOK
  <1>2. \A i \in DOMAIN census : census[i] \in CensusEntry
    BY <1>1
  <1>3. \A c \in CensusEntry : c.mac \in Mac /\ c.first \in Nat /\ c.last \in Nat /\ c.query \in BOOLEAN
    BY CensusAssumption DEF CensusEntry
  <1> QED BY <1>1, <1>2, <1>3

\* A table with an entry has one that was seen least recently.
LEMMA StalestIsLast ==
    ASSUME CnTypeOK, Len(census) > 0
    PROVE  Stalest \in DOMAIN census /\ \A j \in DOMAIN census : census[Stalest].last <= census[j].last
  <1>1. \A i \in DOMAIN census : i \in Nat /\ census[i].last \in Nat
    BY EntriesTyped
  <1> DEFINE lasts == {census[i].last : i \in DOMAIN census}
  <1>2. lasts \in SUBSET Nat /\ lasts # {}
    BY <1>1 DEF CnTypeOK
  <1>3. PICK l \in lasts : \A k \in lasts : l <= k
    BY <1>2, HasLeast
  <1> DEFINE places == {i \in DOMAIN census : census[i].last = l}
  <1>4. places \in SUBSET Nat /\ places # {}
    BY <1>1, <1>3
  <1>5. PICK i \in places : \A j \in places : i <= j
    BY <1>4, HasLeast
  <1>6. /\ i \in DOMAIN census
        /\ \A j \in DOMAIN census : /\ census[i].last <= census[j].last
                                    /\ census[i].last = census[j].last => i <= j
    BY <1>3, <1>5
  <1> QED BY <1>6 DEF Stalest

\* What a sighting does to the table: one entry is the device's, seen now, and the
\* others are as they were.
SightingTaken(p, e) ==
    /\ census' \in Seq(CensusEntry) /\ Len(census') <= CensusMax
    /\ p \in DOMAIN census'
    /\ \A i \in DOMAIN census' : i # p => i \in DOMAIN census /\ census'[i] = census[i]
    /\ \A i \in DOMAIN census : i # p => i \in DOMAIN census'
    /\ census'[p].mac = e.mac /\ census'[p].last = second /\ census'[p].first <= second
    /\ \A i \in DOMAIN census' : i # p => census[i].mac # e.mac
    /\ \/ /\ p \in DOMAIN census /\ census[p].mac = e.mac /\ Len(census') = Len(census)
          /\ census'[p].first = census[p].first
          /\ census'[p].query = (census[p].query \/ e.kind = "query")
       \/ /\ census'[p].first = second
          /\ \/ Len(census) < CensusMax /\ p \notin DOMAIN census
             \/ /\ Len(census) = CensusMax /\ Len(census') = CensusMax /\ p \in DOMAIN census
                /\ \A j \in DOMAIN census : census[p].last <= census[j].last

\* What observing an event does to the table and the two histories.
LEMMA ObserveTakes == ASSUME CnInv, Observe
                      PROVE  \E p \in Nat : SightingTaken(p, Head(staged))
  <1> DEFINE e == Head(staged)
             p == CensusPlace(e.mac)
             c == IF Listed(e.mac) # {} THEN census[p] ELSE NewClient(e.mac)
             seen == [c EXCEPT !.last = second, !.arp = @ \/ e.kind = "arp",
                               !.dhcp = @ \/ e.kind = "dhcp", !.query = @ \/ e.kind = "query"]
  <1>1. e \in Sighting /\ second \in 1 .. MaxSeconds
    BY DEF Observe, CnInv, CnTypeOK
  <1>2. census' = IF p > Len(census) THEN Append(census, seen) ELSE [census EXCEPT ![p] = seen]
    BY DEF Observe
  <1>3. census \in Seq(CensusEntry) /\ Len(census) \in Nat /\ Len(census) <= CensusMax
        /\ DOMAIN census = 1 .. Len(census) /\ CensusMax \in Nat \ {0}
    BY CensusAssumption DEF CnInv, CnTypeOK
  <1>4. CASE Listed(e.mac) # {}
    <2>1. p \in DOMAIN census /\ census[p].mac = e.mac
      BY <1>4 DEF CensusPlace, Listed
    <2>2. c = census[p] /\ c \in CensusEntry
      BY <1>3, <1>4, <2>1
    <2> HIDE DEF c, p
    <2>3. /\ seen \in CensusEntry /\ seen.mac = c.mac /\ seen.last = second /\ seen.first = c.first
          /\ seen.query = (c.query \/ e.kind = "query")
      BY <1>1, <2>2 DEF CensusEntry
    <2> HIDE DEF seen
    <2>4. census' = [census EXCEPT ![p] = seen]
      <3>1. ~(p > Len(census))
        BY <1>3, <2>1
      <3> QED BY <1>2, <3>1, Zenon
    <2>5. /\ census' \in Seq(CensusEntry) /\ Len(census') = Len(census) /\ census'[p] = seen
          /\ \A i \in DOMAIN census : i # p => census'[i] = census[i]
      BY <1>3, <2>1, <2>3, <2>4
    <2>6. \A i \in DOMAIN census : i # p => census[i].mac # e.mac
      BY <2>1 DEF CnInv, CensusInv
    <2>7. census[p].first <= second /\ DOMAIN census' = DOMAIN census
      <3>1. census[p] \in CensusEntry
        BY <1>3, <2>1
      <3>2. census[p].first <= census[p].last /\ census[p].last <= second
        BY <2>1, <3>1 DEF CnInv, CensusInv, CensusEntry
      <3>3. census[p].first \in Nat /\ census[p].last \in Nat
        BY <3>1 DEF CensusEntry
      <3> QED BY <1>1, <2>4, <3>2, <3>3
    <2>8. p \in Nat
      BY <1>3, <2>1
    <2>9. SightingTaken(p, e)
      BY <1>3, <2>1, <2>2, <2>3, <2>5, <2>6, <2>7 DEF SightingTaken
    <2> QED BY <2>8, <2>9
  <1>5. CASE Listed(e.mac) = {}
    <2>1. c = NewClient(e.mac)
      BY <1>5
    <2>2. \A i \in DOMAIN census : census[i].mac # e.mac
      BY <1>5 DEF Listed
    <2>3. p = IF Len(census) < CensusMax THEN Len(census) + 1 ELSE Stalest
      BY <1>5 DEF CensusPlace
    <2>4. /\ c \in CensusEntry /\ c.mac = e.mac /\ c.first = second
      <3>1. e.mac \in Mac
        BY <1>1 DEF Sighting
      <3>2. \A mac \in Mac : NewClient(mac) \in CensusEntry /\ NewClient(mac).mac = mac
                              /\ NewClient(mac).first = second
        BY <1>1 DEF NewClient, CensusEntry
      <3> QED BY <2>1, <3>1, <3>2
    <2> HIDE DEF c, p
    <2>5. /\ seen \in CensusEntry /\ seen.mac = e.mac /\ seen.last = second /\ seen.first = second
      BY <1>1, <2>4 DEF CensusEntry
    <2> HIDE DEF seen
    <2>6. CASE Len(census) < CensusMax
      <3>1. p = Len(census) + 1 /\ census' = Append(census, seen)
        <4>1. p = Len(census) + 1 /\ p > Len(census)
          BY <1>3, <2>3, <2>6
        <4> QED BY <1>2, <4>1, Zenon
      <3>2. /\ census' \in Seq(CensusEntry) /\ Len(census') = Len(census) + 1 /\ census'[p] = seen
            /\ \A i \in DOMAIN census : census'[i] = census[i]
        BY <1>3, <2>5, <3>1
      <3>3. DOMAIN census' = 1 .. Len(census) + 1
        BY <1>3, <3>2
      <3>4. p \in Nat /\ p \in DOMAIN census' /\ p \notin DOMAIN census
        BY <1>3, <3>1, <3>3
      <3>5. \A i \in DOMAIN census' : i # p => i \in DOMAIN census
        BY <1>3, <3>1, <3>3
      <3>6. \A i \in DOMAIN census : i \in DOMAIN census'
        BY <1>3, <3>3
      <3>7. Len(census') <= CensusMax /\ second <= second
        BY <1>1, <1>3, <2>6, <3>2
      <3>8. SightingTaken(p, e)
        BY <2>2, <2>5, <2>6, <3>2, <3>4, <3>5, <3>6, <3>7 DEF SightingTaken
      <3> QED BY <3>4, <3>8
    <2>7. CASE ~(Len(census) < CensusMax)
      <3>1. Len(census) = CensusMax /\ Len(census) > 0
        <4>1. \A n, m \in Nat : n <= m /\ ~(n < m) /\ m # 0 => n = m /\ n > 0
          OBVIOUS
        <4> QED BY <1>3, <2>7, <4>1
      <3>2. p \in DOMAIN census /\ \A j \in DOMAIN census : census[p].last <= census[j].last
        BY <2>3, <2>7, <3>1, StalestIsLast DEF CnInv
      <3>3. census' = [census EXCEPT ![p] = seen]
        <4>1. ~(p > Len(census))
          BY <1>3, <3>2
        <4> QED BY <1>2, <4>1, Zenon
      <3>4. /\ census' \in Seq(CensusEntry) /\ Len(census') = Len(census) /\ census'[p] = seen
            /\ \A i \in DOMAIN census : i # p => census'[i] = census[i]
        BY <1>3, <2>5, <3>2, <3>3
      <3>5. DOMAIN census' = DOMAIN census /\ p \in Nat
        BY <1>3, <3>2, <3>3
      <3>6. Len(census') <= CensusMax /\ second <= second
        BY <1>1, <1>3, <3>4
      <3>7. SightingTaken(p, e)
        BY <2>2, <2>5, <3>1, <3>2, <3>4, <3>5, <3>6 DEF SightingTaken
      <3> QED BY <3>5, <3>7
    <2> QED BY <2>6, <2>7
  <1> QED BY <1>4, <1>5

\* Observing keeps the invariant: the stalest entry makes room, or the device's own
\* is refreshed.
LEMMA ObserveKeeps == ASSUME CnInv, Observe PROVE CnInv'
  <1> DEFINE e == Head(staged)
  <1>1. PICK p \in Nat : SightingTaken(p, e)
    BY ObserveTakes
  <1>2. /\ e \in Sighting /\ second \in 1 .. MaxSeconds /\ e.mac \in Mac
        /\ staged' \in Seq(Sighting) /\ Len(staged') <= StageMax
    <2>1. staged \in Seq(Sighting) /\ Len(staged) <= StageMax /\ staged # <<>>
      BY DEF Observe, CnInv, CnTypeOK
    <2>2. staged' = Tail(staged)
      BY DEF Observe
    <2>3. staged' \in Seq(Sighting) /\ Len(staged') = Len(staged) - 1 /\ e \in Sighting
      BY <2>1, <2>2
    <2>4. Len(staged') <= StageMax /\ e.mac \in Mac
      BY <2>1, <2>3, CensusAssumption DEF Sighting
    <2> QED BY <2>3, <2>4 DEF CnInv, CnTypeOK
  <1>3. /\ seenAt' = [seenAt EXCEPT ![e.mac] = second]
        /\ queriedAt' = [queriedAt EXCEPT ![e.mac] = IF e.kind = "query" THEN second ELSE @]
        /\ UNCHANGED <<second, reading, sightings>>
    BY DEF Observe
  <1> HIDE DEF e
  <1>4. /\ seenAt \in [Mac -> 0 .. MaxSeconds] /\ queriedAt \in [Mac -> 0 .. MaxSeconds]
        /\ census \in Seq(CensusEntry)
        /\ census' \in Seq(CensusEntry) /\ Len(census') <= CensusMax
    BY <1>1 DEF CnInv, CnTypeOK, SightingTaken
  <1>5. /\ seenAt' \in [Mac -> 0 .. MaxSeconds] /\ queriedAt' \in [Mac -> 0 .. MaxSeconds]
        /\ seenAt'[e.mac] = second
        /\ \A mac \in Mac : mac # e.mac => seenAt'[mac] = seenAt[mac] /\ queriedAt'[mac] = queriedAt[mac]
        /\ queriedAt'[e.mac] = IF e.kind = "query" THEN second ELSE queriedAt[e.mac]
    BY <1>2, <1>3, <1>4
  <1>6. CnTypeOK'
    BY <1>2, <1>3, <1>4, <1>5 DEF CnInv, CnTypeOK
  <1>7. \A i \in DOMAIN census' : i # p => /\ i \in DOMAIN census /\ census'[i] = census[i]
                                           /\ census[i].mac # e.mac /\ census[i].mac \in Mac
    BY <1>1, EntriesTyped DEF SightingTaken, CnInv
  <1>8. /\ p \in DOMAIN census' /\ census'[p].mac = e.mac /\ census'[p].last = second
        /\ census'[p].first <= second
    BY <1>1 DEF SightingTaken
  <1>9. \A i, j \in DOMAIN census' : census'[i].mac = census'[j].mac => i = j
    <2>1. \A i, j \in DOMAIN census : census[i].mac = census[j].mac => i = j
      BY DEF CnInv, CensusInv
    <2> QED BY <1>7, <1>8, <2>1
  <1>10. \A mac \in Mac : seenAt'[mac] <= second' /\ queriedAt'[mac] <= second'
    BY <1>2, <1>3, <1>5 DEF CnInv, CensusInv
  <1>11. \A i \in DOMAIN census' : /\ census'[i].first <= census'[i].last
                                   /\ census'[i].last = seenAt'[census'[i].mac]
                                   /\ ~census'[i].query => queriedAt'[census'[i].mac] <= census'[i].first
    <2> SUFFICES ASSUME NEW i \in DOMAIN census'
                 PROVE  /\ census'[i].first <= census'[i].last
                        /\ census'[i].last = seenAt'[census'[i].mac]
                        /\ ~census'[i].query => queriedAt'[census'[i].mac] <= census'[i].first
      OBVIOUS
    <2>1. CASE i # p
      BY <1>5, <1>7, <2>1 DEF CnInv, CensusInv
    <2>2. CASE i = p
      <3>1. ~census'[p].query => queriedAt'[e.mac] <= census'[p].first
        <4>1. SUFFICES ASSUME ~census'[p].query PROVE queriedAt'[e.mac] <= census'[p].first
          OBVIOUS
        <4>2. CASE p \in DOMAIN census /\ census[p].mac = e.mac
                   /\ census'[p].first = census[p].first
                   /\ census'[p].query = (census[p].query \/ e.kind = "query")
          <5>1. ~census[p].query /\ e.kind # "query"
            BY <4>1, <4>2
          <5>2. queriedAt'[e.mac] = queriedAt[e.mac]
            BY <1>5, <5>1
          <5>3. queriedAt[e.mac] <= census[p].first
            BY <4>2, <5>1 DEF CnInv, CensusInv
          <5> QED BY <4>2, <5>2, <5>3
        <4>3. CASE census'[p].first = second
          BY <1>2, <1>3, <1>10, <4>3
        <4> QED BY <1>1, <4>2, <4>3 DEF SightingTaken
      <3> QED BY <1>5, <1>8, <2>2, <3>1
    <2> QED BY <2>1, <2>2
  <1>12. ASSUME NEW mac \in Mac, seenAt'[mac] # 0, \A i \in DOMAIN census' : census'[i].mac # mac
         PROVE  Len(census') = CensusMax /\ \A i \in DOMAIN census' : seenAt'[mac] <= census'[i].last
    <2>1. mac # e.mac /\ seenAt'[mac] = seenAt[mac] /\ seenAt[mac] <= second
      BY <1>5, <1>8, <1>12 DEF CnInv, CensusInv
    <2>2. CASE Listed(mac) = {}
      <3>1. Len(census) = CensusMax /\ \A i \in DOMAIN census : seenAt[mac] <= census[i].last
        BY <1>12, <2>1, <2>2 DEF CnInv, CensusInv
      <3>2. Len(census') = CensusMax
        BY <1>1, <3>1, CensusAssumption DEF SightingTaken
      <3> QED BY <1>7, <1>8, <2>1, <3>1, <3>2
    <2>3. CASE Listed(mac) # {}
      <3>1. PICK i \in DOMAIN census : census[i].mac = mac
        BY <2>3 DEF Listed
      <3>2. i = p
        BY <1>1, <1>7, <1>12, <3>1 DEF SightingTaken
      <3>3. Len(census') = CensusMax /\ \A j \in DOMAIN census : census[p].last <= census[j].last
        BY <1>1, <2>1, <3>1, <3>2 DEF SightingTaken
      <3>4. seenAt[mac] = census[p].last
        BY <3>1, <3>2 DEF CnInv, CensusInv
      <3> QED BY <1>7, <1>8, <2>1, <3>3, <3>4
    <2> QED BY <2>2, <2>3
  <1>13. CensusInv'
    BY <1>9, <1>10, <1>11, <1>12 DEF CensusInv, Listed
  <1> QED BY <1>6, <1>13 DEF CnInv

\* The clock, the producer and the page leave the table alone.
LEMMA CnOthersKeep ==
    ASSUME CnInv, CnTick \/ Miss \/ TakeSnapshot \/ \E mac \in Mac, kind \in SightingKind : Sight(mac, kind)
    PROVE  CnInv'
  <1>1. CASE CnTick
    <2>1. second \in 1 .. MaxSeconds /\ MaxSeconds \in Nat /\ second' = second + 1 /\ second < MaxSeconds
          /\ seenAt \in [Mac -> 0 .. MaxSeconds] /\ queriedAt \in [Mac -> 0 .. MaxSeconds]
      BY <1>1, CensusAssumption DEF CnTick, CnInv, CnTypeOK
    <2>2. \A mac \in Mac : seenAt[mac] <= second' /\ queriedAt[mac] <= second'
      BY <2>1 DEF CnInv, CensusInv
    <2>3. second' \in 1 .. MaxSeconds
      BY <2>1
    <2> QED BY <1>1, <2>2, <2>3 DEF CnTick, CnInv, CnTypeOK, CensusInv, Listed
  <1>2. CASE Miss
    <2>1. /\ staged \in Seq(Sighting) /\ Len(staged) <= StageMax /\ staged # <<>>
          /\ staged' = Tail(staged)
      BY <1>2 DEF Miss, CnInv, CnTypeOK
    <2>2. staged' \in Seq(Sighting) /\ Len(staged') = Len(staged) - 1
      BY <2>1
    <2>3. Len(staged') <= StageMax
      BY <2>1, <2>2, CensusAssumption
    <2> QED BY <1>2, <2>2, <2>3 DEF Miss, CnInv, CnTypeOK, CensusInv, Listed
  <1>3. CASE TakeSnapshot
    BY <1>3 DEF TakeSnapshot, CnInv, CnTypeOK, CensusInv, Listed
  <1>4. ASSUME NEW mac \in Mac, NEW kind \in SightingKind, Sight(mac, kind) PROVE CnInv'
    <2> DEFINE s == [mac |-> mac, kind |-> kind]
    <2>1. s \in Sighting
      BY DEF Sighting
    <2> HIDE DEF s
    <2>2. staged \in Seq(Sighting) /\ Len(staged) <= StageMax
      BY DEF CnInv, CnTypeOK
    <2>3. staged' = IF Len(staged) < StageMax THEN Append(staged, s) ELSE staged
      BY <1>4 DEF Sight, s
    <2>4. staged' \in Seq(Sighting) /\ Len(staged') <= StageMax
      BY <2>1, <2>2, <2>3, CensusAssumption
    <2>5. sightings' \in 0 .. MaxSightings
      BY <1>4, CensusAssumption DEF Sight, CnInv, CnTypeOK
    <2> QED BY <1>4, <2>4, <2>5 DEF Sight, CnInv, CnTypeOK, CensusInv, Listed
  <1> QED BY <1>1, <1>2, <1>3, <1>4

LEMMA CnInitHolds == CnInit => CnInv
  <1> SUFFICES ASSUME CnInit PROVE CnInv
    OBVIOUS
  <1>1. <<>> \in Seq(Sighting) /\ <<>> \in Seq(CensusEntry) /\ Len(<<>>) = 0 /\ DOMAIN <<>> = {}
    OBVIOUS
  <1>2. /\ \A mac \in Mac : seenAt[mac] = 0 /\ queriedAt[mac] = 0
        /\ seenAt \in [Mac -> 0 .. MaxSeconds] /\ queriedAt \in [Mac -> 0 .. MaxSeconds]
    BY CensusAssumption DEF CnInit
  <1>3. CnTypeOK
    <2>1. /\ staged \in Seq(Sighting) /\ Len(staged) <= StageMax
          /\ census \in Seq(CensusEntry) /\ Len(census) <= CensusMax
      <3>1. staged = <<>> /\ census = <<>> /\ 0 <= StageMax /\ 0 <= CensusMax
        BY CensusAssumption DEF CnInit
      <3> QED BY <1>1, <3>1, Zenon
    <2>2. second \in 1 .. MaxSeconds /\ reading \in BOOLEAN /\ sightings \in 0 .. MaxSightings
      <3>1. second = 1 /\ sightings = 0 /\ reading = FALSE
        BY DEF CnInit
      <3>2. 1 \in 1 .. MaxSeconds /\ 0 \in 0 .. MaxSightings
        BY CensusAssumption
      <3> QED BY <3>1, <3>2
    <2> QED BY <1>2, <2>1, <2>2 DEF CnTypeOK
  <1> QED BY <1>1, <1>2, <1>3 DEF CnInit, CnInv, CensusInv

\* The invariant is what the page is right by.
LEMMA InvGivesCensus == CnInv => CensusIsRight
  <1> SUFFICES ASSUME CnInv PROVE CensusIsRight
    OBVIOUS
  <1>1. \A i \in DOMAIN census : census[i] \in CensusEntry /\ census[i].mac \in Mac
    BY EntriesTyped DEF CnInv
  <1>2. \A mac \in Mac : seenAt[mac] # 0 /\ Listed(mac) = {} =>
           Len(census) = CensusMax /\ \A i \in DOMAIN census : seenAt[mac] <= seenAt[census[i].mac]
    BY <1>1 DEF CnInv, CensusInv
  <1>3. ASSUME NEW i \in DOMAIN census, Suspected(census[i])
        PROVE  queriedAt[census[i].mac] + Grace <= second
    <2>1. ~census[i].query /\ second - census[i].first >= Grace
      BY <1>3 DEF Suspected
    <2>2. queriedAt[census[i].mac] <= census[i].first
      BY <2>1 DEF CnInv, CensusInv
    <2>3. /\ census[i].first \in Nat /\ queriedAt[census[i].mac] \in Nat /\ second \in Nat
          /\ Grace \in Nat
      BY <1>1, CensusAssumption DEF CensusEntry, CnInv, CnTypeOK
    <2> QED BY <2>1, <2>2, <2>3
  <1> QED BY <1>2, <1>3 DEF CensusIsRight

\* Every step keeps the invariant.
LEMMA CnStepKeeps == CnInv /\ [CnNext]_cnVars => CnInv'
  <1> SUFFICES ASSUME CnInv, [CnNext]_cnVars PROVE CnInv'
    OBVIOUS
  <1>1. CASE CnNext
    BY <1>1, ObserveKeeps, CnOthersKeep DEF CnNext
  <1>2. CASE UNCHANGED cnVars
    BY <1>2 DEF cnVars, CnInv, CnTypeOK, CensusInv, Listed
  <1> QED BY <1>1, <1>2

\* census.c: a device the table has forgotten was seen no later than any it
\* remembers; and one it suspects has been about for the grace period and was not
\* seen to ask anything in it.
THEOREM TheCensusIsRight == CnSpec => []CensusIsRight
  BY CnInitHolds, CnStepKeeps, InvGivesCensus, PTL DEF CnSpec

\* census.c: every reachable state is well typed; in particular neither the table
\* nor the staged events outgrow their bounds.
THEOREM CensusTypeCorrect == CnSpec => []CnTypeOK
  <1>1. CnInv => CnTypeOK
    BY DEF CnInv
  <1> QED BY <1>1, CnInitHolds, CnStepKeeps, PTL DEF CnSpec

-----------------------------------------------------------------------------
(***************************************************************************)
(* The query log, its graph and its table. Each is a window on the         *)
(* numbered records: the slots hold the last ones (RecordInv), the buckets   *)
(* count the latest minutes (GraphInv), and a name's entry counts no more  *)
(* than was recorded for it (TopInv). The windows move by remainders,      *)
(* which the first lemmas are about.                                       *)
(***************************************************************************)
\* How many records have been entered, and those of a minute and of a name.
Known == IF entering = {} THEN Len(records) ELSE Len(records) - 1
MadeIn(m) == {k \in 1 .. Known : records[k].minute = m}
BlockedIn(m) == {k \in MadeIn(m) : records[k].blocked}
MadeFor(n) == {k \in 1 .. Known : records[k].name = n}

\* A claimed record is the last, of this minute; what is entered is no later than
\* the graph.
PendingInv ==
    /\ \A r \in entering : Len(records) > 0 /\ records[Len(records)] = r /\ r.minute = minute
    /\ histMinute <= minute
    /\ \A k \in 1 .. Known : records[k].minute <= histMinute

\* The slots hold the last records, but for the claimed one's.
RecordInv == \A k \in 1 .. Known : Len(records) - k < LogSize => ring[(k - 1) % LogSize] = records[k]

\* The buckets of the latest minutes count them; no bucket counts what was not entered.
GraphInv ==
    /\ \A m \in 0 .. histMinute : histMinute - m < Buckets =>
           /\ hist[m % Buckets].total = Cardinality(MadeIn(m))
           /\ hist[m % Buckets].blocked = Cardinality(BlockedIn(m))
    /\ \A b \in 0 .. Buckets - 1 : hist[b].total <= Known /\ hist[b].blocked <= Known

\* No name is credited with more than was made for it.
TopInv == \A i \in 1 .. TopSize : /\ top[i].key # NoName => top[i].total <= Cardinality(MadeFor(top[i].key))
                                  /\ top[i].key = NoName => top[i].total = 0

LogInv == QlTypeOK /\ PendingInv /\ RecordInv /\ GraphInv /\ TopInv

-----------------------------------------------------------------------------
\* The sizes are positive.
LEMMA LogNumbers == /\ LogSize \in Nat \ {0} /\ Buckets \in Nat \ {0} /\ TopSize \in Nat \ {0}
                    /\ MaxRecords \in Nat /\ MaxMinute \in Nat
                    /\ NoName \notin QName
  BY LogAssumption

\* The numbers and the records.
LEMMA LogTyped ==
    ASSUME QlTypeOK
    PROVE  /\ minute \in Nat /\ minute <= MaxMinute /\ histMinute \in Nat /\ logHead \in Nat
           /\ Len(records) \in Nat /\ Len(records) <= MaxRecords /\ logHead = Len(records)
           /\ DOMAIN records = 1 .. Len(records)
           /\ \A k \in 1 .. Len(records) : /\ records[k] \in Record /\ records[k].name \in QName
                                           /\ records[k].blocked \in BOOLEAN
                                           /\ records[k].minute \in Nat
  <1>1. \A k \in 1 .. Len(records) : records[k] \in Record
    BY DEF QlTypeOK
  <1>2. \A r \in Record : r.name \in QName /\ r.blocked \in BOOLEAN /\ r.minute \in Nat
    BY LogNumbers DEF Record
  <1>3. minute \in Nat /\ minute <= MaxMinute /\ histMinute \in Nat
    BY LogNumbers DEF QlTypeOK
  <1> QED BY <1>1, <1>2, <1>3 DEF QlTypeOK

\* What has been entered is a prefix of what was recorded.
LEMMA KnownTyped ==
    ASSUME QlTypeOK, PendingInv
    PROVE  /\ Known \in Nat /\ Known <= Len(records) /\ Known <= MaxRecords
           /\ entering = {} => Known = Len(records)
           /\ entering # {} => Known + 1 = Len(records)
           /\ \A k \in 1 .. Known : k \in 1 .. Len(records)
           /\ \A m : MadeIn(m) \in SUBSET (1 .. Known) /\ BlockedIn(m) \in SUBSET (1 .. Known)
           /\ \A n : MadeFor(n) \in SUBSET (1 .. Known)
  <1>1. entering # {} => Len(records) > 0
    BY DEF PendingInv
  <1>2. /\ Known \in Nat /\ Known <= Len(records) /\ Known <= MaxRecords
        /\ entering = {} => Known = Len(records)
        /\ entering # {} => Known + 1 = Len(records)
    BY <1>1, LogTyped, LogNumbers DEF Known
  <1>3. \A k \in 1 .. Known : k \in 1 .. Len(records)
    BY <1>2, LogTyped
  <1> QED BY <1>2, <1>3 DEF MadeIn, BlockedIn, MadeFor

LEMMA QlInitHolds == QlInit => LogInv
  <1> SUFFICES ASSUME QlInit PROVE LogInv
    OBVIOUS
  <1>1. /\ records = <<>> /\ records \in Seq(Record) /\ Len(records) = 0 /\ entering = {}
        /\ histMinute = 0 /\ minute = 0
    BY DEF QlInit
  <1>2. Known = 0 /\ 1 .. Known = {}
    BY <1>1 DEF Known
  <1>3. \A m : MadeIn(m) = {} /\ BlockedIn(m) = {}
    BY <1>2 DEF MadeIn, BlockedIn
  <1>4. Cardinality({}) = 0
    BY FS_EmptySet
  <1>5. \A m \in 0 .. 0 : m % Buckets \in 0 .. Buckets - 1
    BY LogNumbers, RemainderIs
  <1>6. /\ ring \in [0 .. LogSize - 1 -> Record \cup {NoRecord}]
        /\ hist \in [0 .. Buckets - 1 -> HistBucket] /\ top \in [1 .. TopSize -> TopEntry]
    BY LogNumbers DEF QlInit, HistBucket, TopEntry
  <1>7. /\ \A b \in 0 .. Buckets - 1 : hist[b].total = 0 /\ hist[b].blocked = 0
        /\ \A i \in 1 .. TopSize : top[i].key = NoName /\ top[i].total = 0 /\ top[i].blocked = 0
    BY DEF QlInit
  <1>8. logHead = 0 /\ 0 \in 0 .. MaxMinute /\ 0 <= MaxRecords /\ 0 <= 0
    BY LogNumbers DEF QlInit
  <1>9. QlTypeOK
    BY <1>1, <1>6, <1>7, <1>8 DEF QlTypeOK
  <1>10. PendingInv
    BY <1>1, <1>2, <1>8 DEF PendingInv
  <1>11. RecordInv
    BY <1>2 DEF RecordInv
  <1>12. GraphInv
    BY <1>1, <1>2, <1>3, <1>4, <1>5, <1>7, <1>8 DEF GraphInv
  <1>13. TopInv
    BY <1>7 DEF TopInv
  <1> QED BY <1>9, <1>10, <1>11, <1>12, <1>13 DEF LogInv

-----------------------------------------------------------------------------
\* A minute passes: nothing that is shown changes.
LEMMA NextMinuteKeeps == ASSUME LogInv, NextMinute PROVE LogInv'
  <1>1. /\ minute < MaxMinute /\ entering = {} /\ minute' = minute + 1
        /\ UNCHANGED <<ring, logHead, hist, histMinute, top, entering, records>>
    BY DEF NextMinute
  <1>2. minute' \in 0 .. MaxMinute /\ histMinute <= minute'
    BY <1>1, LogTyped, LogNumbers DEF LogInv, PendingInv
  <1>3. /\ Known' = Known /\ \A m : MadeIn(m)' = MadeIn(m) /\ BlockedIn(m)' = BlockedIn(m)
        /\ \A n : MadeFor(n)' = MadeFor(n)
    BY <1>1 DEF Known, MadeIn, BlockedIn, MadeFor
  <1>4. QlTypeOK'
    BY <1>1, <1>2 DEF LogInv, QlTypeOK
  <1>5. PendingInv'
    BY <1>1, <1>2, <1>3 DEF LogInv, PendingInv
  <1>6. RecordInv'
    BY <1>1, <1>3 DEF LogInv, RecordInv
  <1>7. GraphInv'
    BY <1>1, <1>3 DEF LogInv, GraphInv
  <1>8. TopInv'
    BY <1>1, <1>3 DEF LogInv, TopInv
  <1> QED BY <1>4, <1>5, <1>6, <1>7, <1>8 DEF LogInv

\* A slot is claimed: it is the one no reader is promised any more.
LEMMA ClaimKeeps == ASSUME LogInv, NEW n \in QName, NEW b \in BOOLEAN, Claim(n, b) PROVE LogInv'
  <1> DEFINE r == [name |-> n, blocked |-> b, minute |-> minute]
             len == Len(records)
  <1>1. /\ entering = {} /\ logHead < MaxRecords /\ entering' = {r} /\ logHead' = logHead + 1
        /\ records' = Append(records, r)
        /\ UNCHANGED <<minute, ring, hist, histMinute, top>>
    BY DEF Claim
  <1>2. len \in Nat /\ logHead = len /\ records \in Seq(Record) /\ Known = len
    BY <1>1, LogTyped DEF LogInv, QlTypeOK, Known
  <1>3. r \in Record /\ r.minute = minute
    BY DEF Record, LogInv, QlTypeOK
  <1> HIDE DEF r
  <1>4. /\ records' \in Seq(Record) /\ Len(records') = len + 1 /\ records'[len + 1] = r
        /\ \A k \in 1 .. len : records'[k] = records[k]
    BY <1>1, <1>2, <1>3
  <1>5. Known' = Known
    BY <1>1, <1>2, <1>4 DEF Known
  <1>6. (\A m : MadeIn(m)' = MadeIn(m) /\ BlockedIn(m)' = BlockedIn(m)) /\ \A x : MadeFor(x)' = MadeFor(x)
    <2>1. \A m : MadeIn(m)' = MadeIn(m)
      BY <1>2, <1>4, <1>5 DEF MadeIn
    <2>2. \A m : \A k \in MadeIn(m) : k \in 1 .. len
      BY <1>2 DEF MadeIn
    <2>3. \A m : BlockedIn(m)' = BlockedIn(m)
      BY <1>4, <2>1, <2>2 DEF BlockedIn
    <2>4. \A x : MadeFor(x)' = MadeFor(x)
      BY <1>2, <1>4, <1>5 DEF MadeFor
    <2> QED BY <2>1, <2>3, <2>4
  <1>7. len + 1 <= MaxRecords /\ len + 1 > 0
    BY <1>1, <1>2, LogNumbers
  <1>8. QlTypeOK'
    BY <1>1, <1>2, <1>3, <1>4, <1>7 DEF LogInv, QlTypeOK
  <1>9. PendingInv'
    <2>1. \A k \in 1 .. Known : records'[k].minute <= histMinute
      BY <1>2, <1>4 DEF LogInv, PendingInv
    <2> QED BY <1>1, <1>3, <1>4, <1>5, <1>7, <2>1 DEF LogInv, PendingInv
  <1>10. RecordInv'
    <2>1. \A k \in 1 .. Known : (len + 1) - k < LogSize => len - k < LogSize
      BY <1>2, LogNumbers
    <2>2. \A k \in 1 .. Known : len - k < LogSize => ring[(k - 1) % LogSize] = records'[k]
      BY <1>2, <1>4 DEF LogInv, RecordInv
    <2> QED BY <1>1, <1>4, <1>5, <2>1, <2>2 DEF RecordInv
  <1>11. GraphInv'
    BY <1>1, <1>5, <1>6 DEF LogInv, GraphInv
  <1>12. TopInv'
    BY <1>1, <1>6 DEF LogInv, TopInv
  <1> QED BY <1>8, <1>9, <1>10, <1>11, <1>12 DEF LogInv

\* The record a step enters.
LEMMA EnterFacts ==
    ASSUME LogInv, Enter, NEW r \in entering
    PROVE  /\ r \in Record /\ r.name \in QName /\ r.blocked \in BOOLEAN /\ r.minute = minute
           /\ entering = {r} /\ entering' = {}
           /\ Len(records) \in Nat /\ logHead = Len(records) /\ logHead = Known + 1 /\ Known \in Nat
           /\ records[Known + 1] = r /\ Known' = Known + 1 /\ Known + 1 <= MaxRecords
           /\ ring' = [ring EXCEPT ![(logHead - 1) % LogSize] = r]
           /\ hist' = [Cleared EXCEPT ![minute % Buckets] = Counted(@, r.blocked)]
           /\ histMinute' = minute
           /\ top' = Ranked(r.name, r.blocked)
           /\ UNCHANGED <<minute, logHead, records>>
  <1>1. \A q \in entering : q = r
    BY DEF LogInv, QlTypeOK
  <1>2. /\ entering' = {} /\ histMinute' = minute /\ UNCHANGED <<minute, logHead, records>>
        /\ ring' = [ring EXCEPT ![(logHead - 1) % LogSize] = r]
        /\ hist' = [Cleared EXCEPT ![minute % Buckets] = Counted(@, r.blocked)]
        /\ top' = Ranked(r.name, r.blocked)
    BY <1>1 DEF Enter
  <1>3. r \in Record /\ entering = {r} /\ Len(records) \in Nat /\ logHead = Len(records)
    BY <1>1, LogTyped DEF LogInv, QlTypeOK
  <1>4. r.name \in QName /\ r.blocked \in BOOLEAN
    BY <1>3 DEF Record
  <1>5. Known \in Nat /\ Known + 1 = Len(records)
    BY <1>3, KnownTyped DEF LogInv
  <1>6. r.minute = minute /\ records[Known + 1] = r
    BY <1>5 DEF LogInv, PendingInv
  <1>7. Known' = Known + 1
    BY <1>2, <1>5 DEF Known
  <1>8. Known + 1 <= MaxRecords
    BY <1>5, LogTyped DEF LogInv
  <1> QED BY <1>2, <1>3, <1>4, <1>5, <1>6, <1>7, <1>8

\* Entering a record counts it in its minute and for its name, and nowhere else.
LEMMA EnterCounts ==
    ASSUME LogInv, Enter, NEW r \in entering
    PROVE  /\ \A m : Cardinality(MadeIn(m)') = Cardinality(MadeIn(m)) + (IF m = minute THEN 1 ELSE 0)
           /\ \A m : Cardinality(BlockedIn(m)')
                       = Cardinality(BlockedIn(m)) + (IF m = minute THEN One(r.blocked) ELSE 0)
           /\ \A n : Cardinality(MadeFor(n)') = Cardinality(MadeFor(n)) + (IF n = r.name THEN 1 ELSE 0)
           /\ \A m : Cardinality(MadeIn(m)) \in Nat /\ Cardinality(BlockedIn(m)) \in Nat
           /\ \A n : Cardinality(MadeFor(n)) \in Nat
  <1>1. /\ Known \in Nat /\ records[Known + 1] = r /\ r.minute = minute /\ Known' = Known + 1
        /\ records' = records
        /\ r.blocked \in BOOLEAN
    BY EnterFacts
  <1>2. 1 .. Known' = (1 .. Known) \cup {Known + 1} /\ Known + 1 \notin 1 .. Known
    BY <1>1
  <1>3. \A m : MadeIn(m)' = IF m = minute THEN MadeIn(m) \cup {Known + 1} ELSE MadeIn(m)
    BY <1>1, <1>2 DEF MadeIn
  <1>4. \A m : BlockedIn(m)' = IF m = minute /\ r.blocked THEN BlockedIn(m) \cup {Known + 1} ELSE BlockedIn(m)
    BY <1>1, <1>3 DEF BlockedIn
  <1>5. \A n : MadeFor(n)' = IF n = r.name THEN MadeFor(n) \cup {Known + 1} ELSE MadeFor(n)
    BY <1>1, <1>2 DEF MadeFor
  <1>6. /\ \A m : MadeIn(m) \in SUBSET (1 .. Known) /\ BlockedIn(m) \in SUBSET (1 .. Known)
        /\ \A n : MadeFor(n) \in SUBSET (1 .. Known)
    BY KnownTyped DEF LogInv
  <1>7. \A S \in SUBSET (1 .. Known) : /\ Cardinality(S) \in Nat
                                       /\ Cardinality(S \cup {Known + 1}) = Cardinality(S) + 1
    BY <1>1, CountedOnce
  <1>8. \A i \in Nat : i + 0 = i
    OBVIOUS
  <1>9. /\ \A m : Cardinality(MadeIn(m)) \in Nat /\ Cardinality(BlockedIn(m)) \in Nat
        /\ \A n : Cardinality(MadeFor(n)) \in Nat
    BY <1>6, <1>7
  <1>10. \A m : Cardinality(MadeIn(m)') = Cardinality(MadeIn(m)) + (IF m = minute THEN 1 ELSE 0)
    BY <1>3, <1>6, <1>7, <1>8, <1>9, Zenon
  <1>11. \A m : Cardinality(BlockedIn(m)') = Cardinality(BlockedIn(m)) + (IF m = minute THEN One(r.blocked) ELSE 0)
    BY <1>4, <1>6, <1>7, <1>8, <1>9, Zenon DEF One
  <1>12. \A n : Cardinality(MadeFor(n)') = Cardinality(MadeFor(n)) + (IF n = r.name THEN 1 ELSE 0)
    BY <1>5, <1>6, <1>7, <1>8, <1>9, Zenon
  <1> QED BY <1>9, <1>10, <1>11, <1>12

\* The slot of the record entered is none of those of the records still shown.
LEMMA EnterKeepsSlots == ASSUME LogInv, Enter PROVE RecordInv'
  <1>1. PICK r \in entering : TRUE
    BY DEF Enter
  <1>2. /\ logHead = Len(records) /\ logHead = Known + 1 /\ Known \in Nat
        /\ records[Known + 1] = r /\ Known' = Known + 1 /\ UNCHANGED records
        /\ ring' = [ring EXCEPT ![(logHead - 1) % LogSize] = r]
    BY EnterFacts
  <1>3. logHead - 1 = Known
    BY <1>2
  <1>4. ring' = [ring EXCEPT ![Known % LogSize] = r]
    BY <1>2, <1>3
  <1>5. \A n \in Nat : n % LogSize \in 0 .. LogSize - 1
    BY LogNumbers, RemainderIs
  <1>6. ring'[Known % LogSize] = r /\ \A s \in 0 .. LogSize - 1 : s # Known % LogSize => ring'[s] = ring[s]
    BY <1>2, <1>4, <1>5 DEF LogInv, QlTypeOK
  <1>7. ASSUME NEW k \in 1 .. Known + 1, (Known + 1) - k < LogSize
        PROVE  ring'[(k - 1) % LogSize] = records[k]
    <2>1. CASE k = Known + 1
      <3>1. k - 1 = Known
        BY <1>2, <2>1
      <3> QED BY <1>2, <1>6, <2>1, <3>1
    <2>2. CASE k # Known + 1
      <3>1. k \in 1 .. Known /\ k - 1 \in Nat /\ k - 1 < Known /\ Known - (k - 1) < LogSize
        BY <1>2, <1>7, <2>2, LogNumbers
      <3>2. (k - 1) % LogSize # Known % LogSize
        BY <1>2, <3>1, LogNumbers, RemaindersDiffer
      <3>3. Len(records) - k < LogSize
        BY <1>2, <1>7
      <3>4. ring[(k - 1) % LogSize] = records[k]
        BY <3>1, <3>3 DEF LogInv, RecordInv
      <3> QED BY <1>5, <1>6, <3>1, <3>2, <3>4
    <2> QED BY <2>1, <2>2
  <1> QED BY <1>2, <1>7 DEF RecordInv

\* What clearing leaves: nothing of the minutes after the last record's, and all of
\* the minutes the graph still shows.
LEMMA ClearedIs ==
    ASSUME LogInv
    PROVE  /\ Cleared \in [0 .. Buckets - 1 -> HistBucket]
           /\ \A b \in 0 .. Buckets - 1 : /\ Cleared[b].total \in Nat /\ Cleared[b].total <= Known
                                          /\ Cleared[b].blocked \in Nat
                                          /\ Cleared[b].blocked <= Known
           /\ \A m \in 0 .. minute : minute - m < Buckets =>
                  /\ Cleared[m % Buckets].total = Cardinality(MadeIn(m))
                  /\ Cleared[m % Buckets].blocked = Cardinality(BlockedIn(m))
  <1> DEFINE zero == [total |-> 0, blocked |-> 0]
  <1>1. /\ minute \in Nat /\ histMinute \in Nat /\ histMinute <= minute /\ Buckets \in Nat \ {0}
        /\ Known \in Nat
    BY LogTyped, LogNumbers, KnownTyped DEF LogInv, PendingInv
  <1>2. \A b \in 0 .. Buckets - 1 : hist[b] \in HistBucket
    BY DEF LogInv, QlTypeOK
  <1>3. zero \in HistBucket /\ zero.total = 0 /\ zero.blocked = 0
    BY LogNumbers DEF HistBucket
  <1> HIDE DEF zero
  <1>4. Cleared = [s \in 0 .. Buckets - 1 |-> IF s \in Skipped THEN zero ELSE hist[s]]
    BY DEF Cleared, zero
  <1>5. Cleared \in [0 .. Buckets - 1 -> HistBucket]
    BY <1>2, <1>3, <1>4
  <1>6. \A b \in 0 .. Buckets - 1 : /\ b \in Skipped => Cleared[b].total = 0 /\ Cleared[b].blocked = 0
                                    /\ b \notin Skipped => Cleared[b] = hist[b]
    BY <1>3, <1>4
  <1>7. \A b \in 0 .. Buckets - 1 : /\ Cleared[b].total \in Nat /\ Cleared[b].total <= Known
                                    /\ Cleared[b].blocked \in Nat /\ Cleared[b].blocked <= Known
    <2> TAKE b \in 0 .. Buckets - 1
    <2>1. Cleared[b].total \in Nat /\ Cleared[b].blocked \in Nat
      <3>1. \A e \in HistBucket : e.total \in Nat /\ e.blocked \in Nat
        BY LogNumbers DEF HistBucket
      <3>2. Cleared[b] \in HistBucket
        BY <1>5
      <3> QED BY <3>1, <3>2
    <2>2. hist[b].total <= Known /\ hist[b].blocked <= Known /\ 0 <= Known
      BY <1>1 DEF LogInv, GraphInv
    <2> QED BY <1>6, <2>1, <2>2
  <1>8. \A m \in Nat : m % Buckets \in 0 .. Buckets - 1
    BY <1>1, RemainderIs
  <1>9. ASSUME NEW m \in 0 .. minute, minute - m < Buckets
        PROVE  /\ Cleared[m % Buckets].total = Cardinality(MadeIn(m))
               /\ Cleared[m % Buckets].blocked = Cardinality(BlockedIn(m))
    <2>0. m \in Nat /\ m <= minute
      BY <1>1
    <2>1. CASE histMinute < m
      <3>1. PICK i \in 1 .. Buckets : i <= m - histMinute /\ (histMinute + i) % Buckets = m % Buckets
        BY <1>1, <2>0, <2>1, RemainderIsNear
      <3>2. i <= minute - histMinute
        BY <1>1, <2>0, <3>1
      <3>3. m % Buckets \in Skipped
        BY <3>1, <3>2 DEF Skipped
      <3>4. \A k \in 1 .. Known : records[k].minute # m
        <4> TAKE k \in 1 .. Known
        <4>1. records[k].minute \in Nat /\ records[k].minute <= histMinute
          BY KnownTyped, LogTyped DEF LogInv, PendingInv
        <4> QED BY <1>1, <2>0, <2>1, <4>1
      <3>5. MadeIn(m) = {} /\ BlockedIn(m) = {}
        BY <3>4 DEF MadeIn, BlockedIn
      <3>6. Cardinality(MadeIn(m)) = 0 /\ Cardinality(BlockedIn(m)) = 0
        BY <3>5, FS_EmptySet
      <3> QED BY <1>6, <1>8, <2>0, <3>3, <3>6
    <2>2. CASE ~(histMinute < m)
      <3>1. m \in 0 .. histMinute /\ histMinute - m < Buckets
        BY <1>1, <1>9, <2>0, <2>2
      <3>2. m % Buckets \notin Skipped
        <4> SUFFICES ASSUME NEW i \in 1 .. Buckets, i <= minute - histMinute,
                            m % Buckets = (histMinute + i) % Buckets
                     PROVE  FALSE
          BY DEF Skipped
        <4>1. histMinute + i \in Nat /\ m < histMinute + i /\ (histMinute + i) - m < Buckets
          BY <1>1, <1>9, <2>0, <2>2
        <4> QED BY <1>1, <2>0, <4>1, RemaindersDiffer
      <3>3. Cleared[m % Buckets] = hist[m % Buckets]
        BY <1>6, <1>8, <2>0, <3>2
      <3> QED BY <3>1, <3>3 DEF LogInv, GraphInv
    <2> QED BY <2>1, <2>2
  <1> QED BY <1>5, <1>7, <1>9

\* A bucket counted once more.
LEMMA BucketCounted ==
    ASSUME NEW e \in HistBucket, NEW b \in BOOLEAN, e.total + 1 <= MaxRecords, e.blocked + 1 <= MaxRecords
    PROVE  /\ Counted(e, b) \in HistBucket
           /\ Counted(e, b).total = e.total + 1 /\ Counted(e, b).blocked = e.blocked + One(b)
           /\ One(b) \in {0, 1}
  <1>1. One(b) \in {0, 1}
    BY DEF One
  <1>2. e.total \in Nat /\ e.blocked \in Nat
    BY LogNumbers DEF HistBucket
  <1>3. e.total + 1 \in 0 .. MaxRecords /\ e.blocked + One(b) \in 0 .. MaxRecords
    BY <1>1, <1>2, LogNumbers
  <1> QED BY <1>1, <1>3 DEF Counted, HistBucket

\* The graph after a record: the minute's bucket counts one more, the others what
\* they did.
LEMMA GraphStep == ASSUME LogInv, Enter
                   PROVE hist' \in [0 .. Buckets - 1 -> HistBucket] /\ GraphInv'
  <1>1. PICK r \in entering : TRUE
    BY DEF Enter
  <1>2. /\ Known \in Nat /\ Known' = Known + 1 /\ Known + 1 <= MaxRecords /\ r.blocked \in BOOLEAN
        /\ hist' = [Cleared EXCEPT ![minute % Buckets] = Counted(@, r.blocked)]
        /\ histMinute' = minute
    BY EnterFacts
  <1>3. minute \in Nat /\ minute % Buckets \in 0 .. Buckets - 1 /\ \A m \in Nat : m % Buckets \in 0 .. Buckets - 1
    BY LogTyped, LogNumbers, RemainderIs DEF LogInv
  <1> DEFINE now == minute % Buckets
             e == Cleared[now]
  <1>4. /\ Cleared \in [0 .. Buckets - 1 -> HistBucket]
        /\ hist' = [Cleared EXCEPT ![now] = Counted(e, r.blocked)]
    BY <1>2, ClearedIs
  <1> HIDE DEF now
  <1>5. now \in 0 .. Buckets - 1
    BY <1>3 DEF now
  <1>6. /\ e \in HistBucket /\ e.total \in Nat /\ e.blocked \in Nat /\ e.total <= Known
        /\ e.blocked <= Known
    BY <1>4, <1>5, ClearedIs
  <1> HIDE DEF e
  <1>7. e.total + 1 <= MaxRecords /\ e.blocked + 1 <= MaxRecords
    BY <1>2, <1>6, LogNumbers
  <1>8. /\ Counted(e, r.blocked) \in HistBucket /\ Counted(e, r.blocked).total = e.total + 1
        /\ Counted(e, r.blocked).blocked = e.blocked + One(r.blocked) /\ One(r.blocked) \in {0, 1}
    BY <1>2, <1>6, <1>7, BucketCounted
  <1>9. /\ hist' \in [0 .. Buckets - 1 -> HistBucket] /\ hist'[now] = Counted(e, r.blocked)
        /\ \A b \in 0 .. Buckets - 1 : b # now => hist'[b] = Cleared[b]
    BY <1>4, <1>5, <1>8
  <1>10. \A b \in 0 .. Buckets - 1 : hist'[b].total <= Known + 1 /\ hist'[b].blocked <= Known + 1
    <2> TAKE b \in 0 .. Buckets - 1
    <2>1. CASE b = now
      BY <1>2, <1>6, <1>8, <1>9, <2>1
    <2>2. CASE b # now
      <3>1. /\ Cleared[b].total \in Nat /\ Cleared[b].blocked \in Nat
            /\ Cleared[b].total <= Known /\ Cleared[b].blocked <= Known
        BY ClearedIs
      <3>2. Cleared[b].total <= Known + 1 /\ Cleared[b].blocked <= Known + 1
        BY <1>2, <3>1
      <3> QED BY <1>9, <2>2, <3>2
    <2> QED BY <2>1, <2>2
  <1>11. ASSUME NEW m \in 0 .. minute, minute - m < Buckets
         PROVE  /\ hist'[m % Buckets].total = Cardinality(MadeIn(m)')
                /\ hist'[m % Buckets].blocked = Cardinality(BlockedIn(m)')
    <2>1. /\ Cleared[m % Buckets].total = Cardinality(MadeIn(m))
          /\ Cleared[m % Buckets].blocked = Cardinality(BlockedIn(m))
          /\ Cardinality(MadeIn(m)) \in Nat /\ Cardinality(BlockedIn(m)) \in Nat
      BY <1>11, ClearedIs, EnterCounts
    <2>2. CASE m = minute
      <3>1. /\ hist'[m % Buckets].total = e.total + 1
            /\ hist'[m % Buckets].blocked = e.blocked + One(r.blocked)
        BY <1>8, <1>9, <2>2 DEF now
      <3>2. /\ Cardinality(MadeIn(m)') = Cardinality(MadeIn(m)) + 1
            /\ Cardinality(BlockedIn(m)') = Cardinality(BlockedIn(m)) + One(r.blocked)
        BY <2>2, EnterCounts
      <3> QED BY <2>1, <2>2, <3>1, <3>2 DEF e, now
    <2>3. CASE m # minute
      <3>1. m \in Nat /\ m < minute
        BY <1>3, <2>3
      <3>2. m % Buckets # now /\ m % Buckets \in 0 .. Buckets - 1
        BY <1>3, <1>11, <3>1, LogNumbers, RemaindersDiffer DEF now
      <3>3. hist'[m % Buckets] = Cleared[m % Buckets]
        BY <1>9, <3>2
      <3>4. /\ Cardinality(MadeIn(m)') = Cardinality(MadeIn(m)) + 0
            /\ Cardinality(BlockedIn(m)') = Cardinality(BlockedIn(m)) + 0
        BY <2>3, EnterCounts
      <3> QED BY <2>1, <3>3, <3>4
    <2> QED BY <2>2, <2>3
  <1>12. GraphInv'
    BY <1>2, <1>10, <1>11 DEF GraphInv
  <1> QED BY <1>9, <1>12

\* There is a first of the places of the table, and a least of its counts.
LEMMA TopPlaces ==
    ASSUME LogInv
    PROVE  /\ \A set \in SUBSET (1 .. TopSize) : set # {} => Earliest(set) \in set
           /\ Least # {} /\ Least \in SUBSET (1 .. TopSize)
           /\ \A i \in 1 .. TopSize : /\ top[i] \in TopEntry /\ top[i].total \in Nat
                                      /\ top[i].blocked \in Nat
                                      /\ top[i].blocked <= top[i].total
  <1>1. ASSUME NEW set \in SUBSET (1 .. TopSize), set # {} PROVE Earliest(set) \in set
    <2>1. set \in SUBSET Nat
      BY <1>1, LogNumbers
    <2>2. \E i \in set : \A j \in set : i <= j
      BY <1>1, <2>1, HasLeast
    <2> QED BY <2>2 DEF Earliest
  <1>2. \A i \in 1 .. TopSize : /\ top[i] \in TopEntry /\ top[i].total \in Nat /\ top[i].blocked \in Nat
                                /\ top[i].blocked <= top[i].total
    <2>1. \A e \in TopEntry : e.total \in Nat /\ e.blocked \in Nat
      BY LogNumbers DEF TopEntry
    <2> QED BY <2>1 DEF LogInv, QlTypeOK
  <1>3. Least # {}
    <2> DEFINE totals == {top[i].total : i \in 1 .. TopSize}
    <2>1. totals \in SUBSET Nat
      BY <1>2
    <2>2. 1 \in 1 .. TopSize
      BY LogNumbers
    <2>3. totals # {}
      BY <2>2
    <2>4. PICK t \in totals : \A u \in totals : t <= u
      <3> HIDE DEF totals
      <3> QED BY <2>1, <2>3, HasLeast
    <2>5. PICK i \in 1 .. TopSize : top[i].total = t
      OBVIOUS
    <2>6. i \in Least
      BY <2>4, <2>5 DEF Least
    <2> QED BY <2>6
  <1>4. Least \in SUBSET (1 .. TopSize)
    BY DEF Least
  <1> QED BY <1>1, <1>2, <1>3, <1>4

\* The name's entry is counted, or the least one given up for it.
LEMMA TopStep ==
    ASSUME LogInv, Enter
    PROVE  /\ top' \in [1 .. TopSize -> TopEntry]
           /\ \A i \in 1 .. TopSize : top'[i].blocked <= top'[i].total
           /\ TopInv'
  <1>1. PICK r \in entering : TRUE
    BY DEF Enter
  <1>2. /\ Known \in Nat /\ Known' = Known + 1 /\ Known + 1 <= MaxRecords /\ r.blocked \in BOOLEAN
        /\ r.name \in QName
        /\ top' = Ranked(r.name, r.blocked) /\ records' = records
    BY EnterFacts
  <1>3. One(r.blocked) \in {0, 1}
    BY DEF One
  <1>4. top \in [1 .. TopSize -> TopEntry] /\ r.name # NoName
    BY <1>2, LogNumbers DEF LogInv, QlTypeOK
  <1>5. \A n : /\ Cardinality(MadeFor(n)) \in Nat /\ Cardinality(MadeFor(n)) <= Known
               /\ Cardinality(MadeFor(n)') = Cardinality(MadeFor(n)) + (IF n = r.name THEN 1 ELSE 0)
    <2>1. \A n : MadeFor(n) \in SUBSET (1 .. Known)
      BY KnownTyped DEF LogInv
    <2> QED BY <1>2, <2>1, EnterCounts, CountedOnce
  <1>6. \A n : Cardinality(MadeFor(n)) <= Cardinality(MadeFor(n)')
    <2>1. \A a, b \in Nat : a <= a + 1 /\ a <= a + 0
      OBVIOUS
    <2> QED BY <1>5, <2>1, Zenon
  <1>7. PICK i \in 1 .. TopSize, new \in TopEntry :
            /\ top' = [top EXCEPT ![i] = new] /\ new.key = r.name /\ new.blocked <= new.total
            /\ new.total <= Cardinality(MadeFor(r.name)')
    <2>1. CASE Own(r.name) # {}
      <3> DEFINE i == Earliest(Own(r.name))
      <3>1. i \in 1 .. TopSize /\ top[i].key = r.name
        <4>1. Own(r.name) \in SUBSET (1 .. TopSize)
          BY DEF Own
        <4>2. i \in Own(r.name)
          BY <2>1, <4>1, TopPlaces
        <4> QED BY <4>2 DEF Own
      <3>2. top' = [top EXCEPT ![i] = Counted(top[i], r.blocked)]
        BY <1>2, <1>4, <2>1, <3>1 DEF Ranked
      <3> HIDE DEF i
      <3> DEFINE e == top[i]
      <3>3. /\ e \in TopEntry /\ e.key = r.name /\ e.total \in Nat /\ e.blocked \in Nat
            /\ e.blocked <= e.total
        BY <3>1, TopPlaces
      <3>4. e.total <= Cardinality(MadeFor(r.name))
        BY <1>4, <3>1 DEF LogInv, TopInv
      <3> HIDE DEF e
      <3>5. Cardinality(MadeFor(r.name)) \in Nat /\ Cardinality(MadeFor(r.name)) <= Known
            /\ Cardinality(MadeFor(r.name)') = Cardinality(MadeFor(r.name)) + 1
        BY <1>5
      <3>6. /\ e.total + 1 \in 0 .. MaxRecords /\ e.blocked + One(r.blocked) \in 0 .. MaxRecords
            /\ e.blocked + One(r.blocked) <= e.total + 1
            /\ e.total + 1 <= Cardinality(MadeFor(r.name)')
        BY <1>2, <1>3, <3>3, <3>4, <3>5, LogNumbers
      <3>7. /\ Counted(e, r.blocked) \in TopEntry /\ Counted(e, r.blocked).key = r.name
            /\ Counted(e, r.blocked).total = e.total + 1
            /\ Counted(e, r.blocked).blocked = e.blocked + One(r.blocked)
        BY <3>3, <3>6 DEF Counted, TopEntry
      <3>8. top' = [top EXCEPT ![i] = Counted(e, r.blocked)]
        BY <3>2 DEF e
      <3> QED BY <3>1, <3>6, <3>7, <3>8
    <2>2. CASE Own(r.name) = {}
      <3> DEFINE i == Earliest(Least)
                 new == [key |-> r.name, total |-> 1, blocked |-> One(r.blocked)]
      <3>1. i \in 1 .. TopSize
        BY TopPlaces
      <3>2. top' = [top EXCEPT ![i] = new]
        BY <1>2, <2>2 DEF Ranked
      <3>3. 1 <= Cardinality(MadeFor(r.name)')
        BY <1>5
      <3>4. 1 \in 0 .. MaxRecords /\ One(r.blocked) \in 0 .. MaxRecords /\ One(r.blocked) <= 1
        BY <1>2, <1>3, LogNumbers
      <3>5. new \in TopEntry /\ new.key = r.name /\ new.total = 1 /\ new.blocked = One(r.blocked)
        BY <1>2, <3>4 DEF TopEntry
      <3> HIDE DEF i, new
      <3> QED BY <3>1, <3>2, <3>3, <3>4, <3>5
    <2> QED BY <2>1, <2>2
  <1>8. /\ top' \in [1 .. TopSize -> TopEntry] /\ top'[i] = new
        /\ \A j \in 1 .. TopSize : j # i => top'[j] = top[j]
    BY <1>4, <1>7
  <1>9. \A j \in 1 .. TopSize : top'[j].blocked <= top'[j].total
    BY <1>7, <1>8, TopPlaces
  <1>10. ASSUME NEW j \in 1 .. TopSize
         PROVE  /\ \A n : n # NoName /\ n = top'[j].key => top'[j].total <= Cardinality(MadeFor(n)')
                /\ top'[j].key = NoName => top'[j].total = 0
    <2>1. CASE j = i
      BY <1>4, <1>7, <1>8, <2>1
    <2>2. CASE j # i
      <3>1. top'[j] = top[j] /\ top[j].total \in Nat
        BY <1>8, <2>2, TopPlaces
      <3>2. /\ top[j].key # NoName => top[j].total <= Cardinality(MadeFor(top[j].key))
            /\ top[j].key = NoName => top[j].total = 0
        BY DEF LogInv, TopInv
      <3>3. \A a, b, c \in Nat : a <= b /\ b <= c => a <= c
        OBVIOUS
      <3>4. \A n : Cardinality(MadeFor(n)') \in Nat
        BY <1>5
      <3>5. \A n : n # NoName /\ n = top[j].key => top[j].total <= Cardinality(MadeFor(n)')
        BY <1>5, <1>6, <3>1, <3>2, <3>3, <3>4
      <3> QED BY <3>1, <3>2, <3>5
    <2> QED BY <2>1, <2>2
  <1>11. TopInv'
    <2>1. \A j \in 1 .. TopSize : top'[j].key # NoName => (top[j].total <= Cardinality(MadeFor(top[j].key)))'
      <3> TAKE j \in 1 .. TopSize
      <3> HAVE top'[j].key # NoName
      <3> DEFINE n == top'[j].key
      <3>1. top'[j].total <= Cardinality({k \in 1 .. Known' : records'[k].name = n})
        BY <1>10 DEF MadeFor
      <3> QED BY <3>1 DEF MadeFor
    <2> QED BY <1>10, <2>1 DEF TopInv
  <1> QED BY <1>8, <1>9, <1>11

\* The types after a record.
LEMMA EnterKeepsTypes == ASSUME LogInv, Enter PROVE QlTypeOK' /\ PendingInv'
  <1>1. PICK r \in entering : TRUE
    BY DEF Enter
  <1>2. /\ r \in Record /\ r.name \in QName /\ r.blocked \in BOOLEAN /\ r.minute = minute
        /\ entering' = {}
        /\ Len(records) \in Nat /\ logHead = Len(records) /\ logHead = Known + 1 /\ Known \in Nat
        /\ records[Known + 1] = r /\ Known' = Known + 1 /\ Known + 1 <= MaxRecords
    BY EnterFacts
  <1>3. /\ ring' = [ring EXCEPT ![(logHead - 1) % LogSize] = r]
        /\ hist' = [Cleared EXCEPT ![minute % Buckets] = Counted(@, r.blocked)]
        /\ histMinute' = minute /\ top' = Ranked(r.name, r.blocked)
        /\ UNCHANGED <<minute, logHead, records>>
    BY EnterFacts
  <1>4. ring' \in [0 .. LogSize - 1 -> Record \cup {NoRecord}]
    BY <1>2, <1>3 DEF LogInv, QlTypeOK
  <1>5. hist' \in [0 .. Buckets - 1 -> HistBucket]
    BY GraphStep DEF LogInv
  <1>6. /\ top' \in [1 .. TopSize -> TopEntry]
        /\ \A i \in 1 .. TopSize : top'[i].blocked <= top'[i].total
    BY TopStep DEF LogInv
  <1>7. QlTypeOK'
    BY <1>2, <1>3, <1>4, <1>5, <1>6 DEF LogInv, QlTypeOK
  <1>8. PendingInv'
    <2>1. \A k \in 1 .. Known + 1 : k \in 1 .. Known \/ k = Known + 1
      BY <1>2
    <2>2. histMinute <= minute /\ \A k \in 1 .. Known :
              records[k].minute <= histMinute /\ records[k].minute \in Nat
      BY KnownTyped, LogTyped DEF LogInv, PendingInv
    <2>3. histMinute \in Nat /\ minute \in Nat
      BY LogTyped DEF LogInv
    <2>4. \A k \in 1 .. Known : records[k].minute <= minute
      BY <2>2, <2>3
    <2>5. minute <= minute
      BY <2>3
    <2> QED BY <1>2, <1>3, <2>1, <2>4, <2>5 DEF PendingInv
  <1> QED BY <1>7, <1>8

LEMMA QlStepKeeps == LogInv /\ [QlNext]_qlVars => LogInv'
  <1> SUFFICES ASSUME LogInv, [QlNext]_qlVars PROVE LogInv'
    OBVIOUS
  <1>1. CASE NextMinute
    BY <1>1, NextMinuteKeeps
  <1>2. CASE Enter
    BY <1>2, EnterKeepsTypes, EnterKeepsSlots, GraphStep, TopStep DEF LogInv
  <1>3. CASE \E n \in QName, b \in BOOLEAN : Claim(n, b)
    BY <1>3, ClaimKeeps
  <1>4. CASE UNCHANGED qlVars
    <2>1. Known' = Known /\ (\A m : MadeIn(m)' = MadeIn(m) /\ BlockedIn(m)' = BlockedIn(m))
          /\ \A n : MadeFor(n)' = MadeFor(n)
      BY <1>4 DEF qlVars, Known, MadeIn, BlockedIn, MadeFor
    <2>2. QlTypeOK' /\ PendingInv'
      BY <1>4, <2>1 DEF qlVars, LogInv, QlTypeOK, PendingInv
    <2>3. RecordInv' /\ GraphInv' /\ TopInv'
      BY <1>4, <2>1 DEF qlVars, LogInv, RecordInv, GraphInv, TopInv
    <2> QED BY <2>2, <2>3 DEF LogInv
  <1> QED BY <1>1, <1>2, <1>3, <1>4 DEF QlNext

\* What the property counts is what the invariant counts.
LEMMA EnteredIs ==
    ASSUME LogInv
    PROVE  /\ DOMAIN Entered = 1 .. Known /\ \A k \in 1 .. Known : Entered[k] = records[k]
           /\ \A m : During(m) = MadeIn(m)
           /\ \A m : {k \in During(m) : Entered[k].blocked} = BlockedIn(m)
           /\ \A n : {k \in DOMAIN Entered : Entered[k].name = n} = MadeFor(n)
  <1>1. DOMAIN Entered = 1 .. Known /\ \A k \in 1 .. Known : Entered[k] = records[k]
    <2>1. CASE entering = {}
      BY <2>1, LogTyped DEF Entered, Known, LogInv
    <2>2. CASE entering # {}
      <3>1. /\ Known \in Nat /\ Known <= Len(records) /\ Len(records) \in Nat
            /\ records \in Seq(Record)
            /\ Known = Len(records) - 1
        BY <2>2, KnownTyped, LogTyped DEF LogInv, QlTypeOK, Known
      <3>2. Entered = SubSeq(records, 1, Known)
        BY <2>2, <3>1 DEF Entered
      <3>3. SubSeq(records, 1, Known) = [k \in 1 .. Known |-> records[k]]
        BY <3>1
      <3> QED BY <3>2, <3>3
    <2> QED BY <2>1, <2>2
  <1>2. \A m : During(m) = MadeIn(m)
    BY <1>1 DEF During, MadeIn
  <1>3. \A m : \A k \in MadeIn(m) : k \in 1 .. Known
    BY DEF MadeIn
  <1>4. \A m : {k \in During(m) : Entered[k].blocked} = BlockedIn(m)
    BY <1>1, <1>2, <1>3 DEF BlockedIn
  <1>5. \A n : {k \in DOMAIN Entered : Entered[k].name = n} = MadeFor(n)
    BY <1>1 DEF MadeFor
  <1> QED BY <1>1, <1>2, <1>4, <1>5

LEMMA InvGivesTheLog == LogInv => LogIsTrue
  <1> SUFFICES ASSUME LogInv PROVE LogIsTrue
    OBVIOUS
  <1>1. /\ logHead \in Nat /\ logHead = Len(records) /\ LogSize \in Nat \ {0}
        /\ Buckets \in Nat \ {0}
        /\ histMinute \in Nat /\ Known \in Nat
    BY LogTyped, LogNumbers, KnownTyped DEF LogInv
  <1>2. ASSUME NEW i \in DOMAIN Snapshot, i > Cardinality(entering)
        PROVE  Snapshot[i] = records[logHead + 1 - i]
    <2> DEFINE shown == IF logHead < LogSize THEN logHead ELSE LogSize
    <2>1. i \in 1 .. shown /\ Snapshot[i] = ring[(logHead - i + 2 * LogSize) % LogSize]
      BY DEF Snapshot
    <2>2. i \in Nat /\ i >= 1 /\ i <= logHead /\ i <= LogSize /\ logHead - i \in Nat
      BY <1>1, <2>1
    <2> HIDE DEF shown
    <2>3. (logHead - i + 2 * LogSize) % LogSize = (logHead - i) % LogSize
      BY <1>1, <2>2, RemainderOfMore
    <2> DEFINE k == logHead + 1 - i
    <2>4. k - 1 = logHead - i /\ k \in 1 .. logHead /\ logHead - k < LogSize
      BY <1>1, <2>2
    <2>5. k \in 1 .. Known
      <3>1. CASE entering = {}
        BY <1>1, <2>4, <3>1, KnownTyped DEF LogInv
      <3>2. CASE entering # {}
        <4>1. Cardinality(entering) = 1
          BY <3>2, FS_Singleton DEF LogInv, QlTypeOK
        <4>2. Known + 1 = logHead
          BY <1>1, <3>2, KnownTyped DEF LogInv
        <4> QED BY <1>1, <1>2, <2>2, <4>1, <4>2
      <3> QED BY <3>1, <3>2
    <2> HIDE DEF k
    <2>6. ring[(k - 1) % LogSize] = records[k]
      BY <1>1, <2>4, <2>5 DEF LogInv, RecordInv
    <2> QED BY <2>1, <2>3, <2>4, <2>6 DEF k
  <1>3. ASSUME NEW i \in DOMAIN History, i <= histMinute
        PROVE  /\ History[i].total = Cardinality(During(histMinute - i))
               /\ History[i].blocked = Cardinality({k \in During(histMinute - i) : Entered[k].blocked})
    <2>1. i \in 0 .. Buckets - 1 /\ History[i] = hist[(histMinute - i + 2 * Buckets) % Buckets]
      BY DEF History
    <2>2. /\ histMinute - i \in Nat /\ histMinute - i \in 0 .. histMinute
          /\ histMinute - (histMinute - i) < Buckets
      BY <1>1, <1>3, <2>1
    <2>3. (histMinute - i + 2 * Buckets) % Buckets = (histMinute - i) % Buckets
      BY <1>1, <2>2, RemainderOfMore
    <2> DEFINE m == histMinute - i
    <2>4. /\ hist[m % Buckets].total = Cardinality(MadeIn(m))
          /\ hist[m % Buckets].blocked = Cardinality(BlockedIn(m))
      <3>1. m \in 0 .. histMinute /\ histMinute - m < Buckets
        BY <2>2
      <3> HIDE DEF m
      <3> QED BY <3>1 DEF LogInv, GraphInv
    <2>5. History[i] = hist[m % Buckets]
      BY <2>1, <2>3
    <2> HIDE DEF m
    <2>6. During(m) = MadeIn(m) /\ {k \in During(m) : Entered[k].blocked} = BlockedIn(m)
      BY EnteredIs
    <2>7. /\ History[i].total = Cardinality(During(m))
          /\ History[i].blocked = Cardinality({k \in During(m) : Entered[k].blocked})
      BY <2>4, <2>5, <2>6
    <2> QED BY <2>7 DEF m
  <1>4. \A i \in 1 .. TopSize : top[i].key # NoName =>
            top[i].total <= Cardinality({k \in DOMAIN Entered : Entered[k].name = top[i].key})
    BY EnteredIs DEF LogInv, TopInv
  <1> QED BY <1>2, <1>3, <1>4 DEF LogIsTrue

\* query_log.c: for every size of ring, graph and table, and however many minutes
\* pass without a query, the log shows the last queries in order (all but the newest
\* also while that is being written), the graph shows each minute's count, and no
\* name is credited with more queries than were made for it.
THEOREM TheLogIsTrue == QlSpec => []LogIsTrue
  BY QlInitHolds, QlStepKeeps, InvGivesTheLog, PTL DEF QlSpec

\* query_log.c: every reachable state is well typed: no count of the graph or of the
\* table exceeds the queries recorded, and no entry counts more blocked queries than
\* queries.
THEOREM LogTypeCorrect == QlSpec => []QlTypeOK
  <1>1. LogInv => QlTypeOK
    BY DEF LogInv
  <1> QED BY <1>1, QlInitHolds, QlStepKeeps, PTL DEF QlSpec
=============================================================================
