-------------------------------- MODULE Census --------------------------------
(***************************************************************************)
(* The device census (census.c, dns_sink.cpp): the Ethernet hook stages    *)
(* what it sees of each device, dns_task takes it into a table, and the     *)
(* web page flags the devices that never asked this box anything.          *)
(*                                                                         *)
(* SpscRing is the ring between the two, here a queue that may refuse an   *)
(* event.  A frame is the sighting it is classified as.                    *)
(***************************************************************************)
EXTENDS Naturals, Sequences, FiniteSets

CONSTANTS Mac,           \* devices
          CensusMax,     \* entries of the table
          StageMax,      \* CENSUS_RING
          Grace,         \* CENSUS_GRACE_S
          MaxSightings,  \* bound on the sightings
          MaxSeconds     \* bound on the clock

ASSUME CensusAssumption == /\ {StageMax, Grace, MaxSightings} \subseteq Nat
                           /\ {CensusMax, MaxSeconds} \subseteq Nat \ {0}

VARIABLES second,     \* uptime
          staged,     \* the events between the hook and dns_task
          census,      \* s_table: the entries in use
          reading,    \* the web task holds the mutex
          sightings,  \* sightings so far
          seenAt,     \* when each device was last taken into the table, 0 if never
          queriedAt   \* and when with a question

cnVars == <<second, staged, census, reading, sightings, seenAt, queriedAt>>

SightingKind == {"arp", "dhcp", "query"}

Sighting == [mac : Mac, kind : SightingKind]

\* struct CensusClient, of an entry in use.
CensusEntry == [mac : Mac, first : 1 .. MaxSeconds, last : 1 .. MaxSeconds,
                arp : BOOLEAN, dhcp : BOOLEAN, query : BOOLEAN]

CnTypeOK == /\ second \in 1 .. MaxSeconds
            /\ staged \in Seq(Sighting) /\ Len(staged) <= StageMax
            /\ census \in Seq(CensusEntry) /\ Len(census) <= CensusMax
            /\ reading \in BOOLEAN
            /\ sightings \in 0 .. MaxSightings
            /\ seenAt \in [Mac -> 0 .. MaxSeconds] /\ queriedAt \in [Mac -> 0 .. MaxSeconds]

CnInit == /\ second = 1 /\ staged = <<>> /\ census = <<>> /\ reading = FALSE
          /\ sightings = 0
          /\ seenAt = [mac \in Mac |-> 0] /\ queriedAt = [mac \in Mac |-> 0]

-----------------------------------------------------------------------------
CnTick == /\ second < MaxSeconds
          /\ second' = second + 1
          /\ UNCHANGED <<staged, census, reading, sightings, seenAt, queriedAt>>

\* l2_census_frame: an ARP packet or a DHCP request; or a confirmed DNS question.
\* A full ring refuses.
Sight(mac, kind) == /\ sightings < MaxSightings
                    /\ sightings' = sightings + 1
                    /\ staged' = IF Len(staged) < StageMax
                                    THEN Append(staged, [mac |-> mac, kind |-> kind]) ELSE staged
                    /\ UNCHANGED <<second, census, reading, seenAt, queriedAt>>

\* census_observe.  Mutant: the entry that was listed first goes.
EldestListed == CHOOSE i \in DOMAIN census : \A j \in DOMAIN census : census[i].first <= census[j].first

\* The entry seen least recently, the first of several.
Stalest == CHOOSE i \in DOMAIN census :
              \A j \in DOMAIN census : /\ census[i].last <= census[j].last
                                       /\ census[i].last = census[j].last => i <= j

Listed(mac) == {i \in DOMAIN census : census[i].mac = mac}

NewClient(mac) == [mac |-> mac, first |-> second, last |-> second,
                   arp |-> FALSE, dhcp |-> FALSE, query |-> FALSE]

CensusPlace(mac) == IF Listed(mac) # {} THEN CHOOSE i \in Listed(mac) : TRUE
              ELSE IF Len(census) < CensusMax THEN Len(census) + 1 ELSE Stalest

Observe == /\ staged # <<>> /\ ~reading
           /\ LET e == Head(staged)
                  c == IF Listed(e.mac) # {} THEN census[CensusPlace(e.mac)] ELSE NewClient(e.mac)
                  seen == [c EXCEPT !.last = second, !.arp = @ \/ e.kind = "arp",
                                    !.dhcp = @ \/ e.kind = "dhcp", !.query = @ \/ e.kind = "query"]
              IN  /\ census' = IF CensusPlace(e.mac) > Len(census) THEN Append(census, seen)
                               ELSE [census EXCEPT ![CensusPlace(e.mac)] = seen]
                  /\ seenAt' = [seenAt EXCEPT ![e.mac] = second]
                  /\ queriedAt' = [queriedAt EXCEPT ![e.mac] = IF e.kind = "query" THEN second ELSE @]
           /\ staged' = Tail(staged)
           /\ UNCHANGED <<second, reading, sightings>>

\* dns_task does not wait for the mutex: it loses the sighting.
Miss == /\ staged # <<>> /\ reading
        /\ staged' = Tail(staged)
        /\ UNCHANGED <<second, census, reading, sightings, seenAt, queriedAt>>

TakeSnapshot == /\ reading' = ~reading
                /\ UNCHANGED <<second, staged, census, sightings, seenAt, queriedAt>>

CnNext == \/ CnTick \/ Observe \/ Miss \/ TakeSnapshot
          \/ \E mac \in Mac, kind \in SightingKind : Sight(mac, kind)

CnSpec == CnInit /\ [][CnNext]_cnVars

-----------------------------------------------------------------------------
\* The page's "suspected bypass".
Suspected(c) == (c.arp \/ c.dhcp) /\ ~c.query /\ second - c.first >= Grace

\* The table forgets nobody it has seen more recently than someone it remembers;
\* and a device it suspects has been about for the grace period and was not seen
\* to ask anything in it, whatever other devices came and went.
CensusIsRight ==
    /\ \A mac \in Mac : seenAt[mac] # 0 /\ Listed(mac) = {} =>
          /\ Len(census) = CensusMax
          /\ \A i \in DOMAIN census : seenAt[mac] <= seenAt[census[i].mac]
    /\ \A i \in DOMAIN census : Suspected(census[i]) =>
          queriedAt[census[i].mac] = 0 \/ queriedAt[census[i].mac] + Grace <= second
===============================================================================
