-------------------------------- MODULE NetLink --------------------------------
(***************************************************************************)
(* The links of a board with Ethernet and Wi-Fi (dns_sink.cpp): app_main   *)
(* brings them up and starts dns_task, the event task follows what they    *)
(* report, the web task changes the settings, and a task of its own joins  *)
(* another Wi-Fi network.  All of them may point the upstream, unlocked.   *)
(*                                                                         *)
(* Abstractions.  Addresses are numbers, 0 the empty string.  The radio and *)
(* the cable are external: what they do, and report in order, is modelled  *)
(* from how the handlers use it.  The secondary resolver, the address and  *)
(* the netmask follow the primary resolver and are left out.               *)
(***************************************************************************)
EXTENDS Naturals, Sequences

CONSTANTS MaxQueue,        \* bound on the events not handled yet
          MaxLinkChanges,  \* bound on the web task's changes
          MaxTurns,        \* bound on the times a link comes or goes
          MaxBoots         \* bound on the restarts

ASSUME LinkAssumption == MaxQueue \in Nat \ {0} /\ {MaxLinkChanges, MaxTurns, MaxBoots} \subseteq Nat

Iface == {"eth", "wifi"}
Default == 9                       \* 1.1.1.1
Leases(i) == IF i = "eth" THEN {[dns |-> 1, gw |-> 2], [dns |-> 0, gw |-> 2]}
                          ELSE {[dns |-> 3, gw |-> 4]}
Fixed(i) == IF i = "eth" THEN [dns |-> 0, gw |-> 5] ELSE [dns |-> 6, gw |-> 0]

VARIABLES link,      \* for each interface, s_eth_dns and s_gw, and ETH_GOT_IP_BIT
          selected,  \* s_upstream_iface
          wifiOn,    \* s_wifi_enabled
          static,    \* the interfaces with a static address this boot
          linkNvs,   \* what the next boot reads
          upstream,  \* _upstream_ip and _upstream_addr
          choosing,  \* for each task, what apply_upstream_iface points at, a set of at most one
          dns,       \* how far dns_task's start has got, and what it has read
          main,      \* how far app_main has got
          ap,        \* the setup network: the radio's mode, and s_setup_ap_active
          cable,     \* the Ethernet link
          radio,     \* the Wi-Fi station
          queue,     \* events the event task has not handled
          recfg,     \* s_wifi_reconfiguring, its deadline passed, and the task
          linkChanges, turns, boots,
          mixed      \* history: the last two set_upstream calls overlapped

nlVars == <<link, selected, wifiOn, static, linkNvs, upstream, choosing, dns, main, ap, cable, radio,
            queue, recfg, linkChanges, turns, boots, mixed>>

Task == {"main", "web"}
Source == [iface : Iface, field : {"dns", "gw", "default"}, alone : BOOLEAN]

LinkState == [dns : 0 .. 6, gw : 0 .. 6, got : BOOLEAN]
LinkTurn == [type : {"ethUp", "ethDown", "staStart", "staUp", "staDown"}]
AddressGot == [type : {"ethIp", "staIp"}, dns : 0 .. 6, gw : 0 .. 6]

NlTypeOK == /\ link \in [Iface -> LinkState]
            /\ selected \in Iface /\ wifiOn \in BOOLEAN /\ static \subseteq Iface
            /\ linkNvs \in [upstream : Iface \cup {"none"}, wifiOn : BOOLEAN, static : SUBSET Iface]
            /\ upstream \in [text : 0 .. 9, addr : 0 .. 9]
            /\ choosing \in [Task -> SUBSET Source]
            /\ dns \in [pc : {"off", "read", "store", "run"}, read : 0 .. 9]
            /\ main \in {"links", "ap", "apFlag", "lease", "pick", "start", "reapply", "set", "ui", "done"}
            /\ ap \in [mode : BOOLEAN, flag : BOOLEAN]
            /\ cable \in {"out", "in", "leased"} /\ radio \in {"off", "idle", "trying", "joined", "leased"}
            /\ queue \in Seq(LinkTurn \cup AddressGot) /\ Len(queue) <= MaxQueue
            /\ recfg \in [flag : BOOLEAN, late : BOOLEAN, task : {"none", "sleep", "disconnect", "connect"}]
            /\ linkChanges \in 0 .. MaxLinkChanges /\ turns \in 0 .. MaxTurns /\ boots \in 0 .. MaxBoots
            /\ mixed \in BOOLEAN

Down == [dns |-> 0, gw |-> 0, got |-> FALSE]

\* What a boot starts from.
Reset == /\ link' = [i \in Iface |-> Down]
         /\ selected' = "eth" /\ wifiOn' = linkNvs.wifiOn /\ static' = linkNvs.static
         /\ upstream' = [text |-> 0, addr |-> 0]
         /\ choosing' = [t \in Task |-> {}]
         /\ dns' = [pc |-> "off", read |-> 0]
         /\ main' = "links"
         /\ ap' = [mode |-> FALSE, flag |-> FALSE]
         /\ cable' = "out"
         /\ radio' = IF linkNvs.wifiOn THEN "idle" ELSE "off"
         /\ queue' = IF linkNvs.wifiOn THEN <<[type |-> "staStart"]>> ELSE <<>>
         /\ recfg' = [flag |-> FALSE, late |-> FALSE, task |-> "none"]
         /\ mixed' = FALSE

NlInit == /\ link = [i \in Iface |-> Down]
          /\ selected = "eth" /\ wifiOn = TRUE /\ static = {}
          /\ linkNvs = [upstream |-> "none", wifiOn |-> TRUE, static |-> {}]
          /\ upstream = [text |-> 0, addr |-> 0]
          /\ choosing = [t \in Task |-> {}]
          /\ dns = [pc |-> "off", read |-> 0]
          /\ main = "links"
          /\ ap = [mode |-> FALSE, flag |-> FALSE]
          /\ cable = "out" /\ radio = "idle" /\ queue = <<[type |-> "staStart"]>>
          /\ recfg = [flag |-> FALSE, late |-> FALSE, task |-> "none"]
          /\ linkChanges = 0 /\ turns = 0 /\ boots = 0
          /\ mixed = FALSE

settings == <<wifiOn, static, linkNvs>>
bounds == <<linkChanges, turns, boots>>
wireless == <<radio, recfg>>

-----------------------------------------------------------------------------
(***************************************************************************)
(* apply_upstream_iface: a pointer is chosen, and what it points at is set. *)
(***************************************************************************)
\* pick_upstream: the resolver, or the gateway, or the default.
PickUpstream(l, i) == [iface |-> i, alone |-> TRUE,
                       field |-> IF l[i].dns # 0 THEN "dns" ELSE IF l[i].gw # 0 THEN "gw" ELSE "default"]

AddressAt(l, s) == IF s.field = "default" THEN Default ELSE l[s.iface][s.field]

\* Whoever is choosing while another chooses is not alone.
Accompanied(t) == {[s EXCEPT !.alone = FALSE] : s \in choosing[t]}

\* Task t chooses for interface i.
Chooses(t, i) ==
    LET others == {u \in Task \ {t} : choosing[u] # {}}
    IN  choosing' = [u \in Task |-> IF u = t THEN {[PickUpstream(link, i) EXCEPT !.alone = (others = {})]}
                                              ELSE Accompanied(u)]

\* set_upstream refuses an empty address.
SetsUpstream(t) == \E s \in choosing[t] :
    /\ choosing' = [choosing EXCEPT ![t] = {}]
    /\ upstream' = IF AddressAt(link, s) = 0 THEN upstream
                   ELSE [text |-> AddressAt(link, s), addr |-> AddressAt(link, s)]
    /\ mixed' = (~s.alone \/ dns.pc = "store")

-----------------------------------------------------------------------------
(***************************************************************************)
(* app_main.                                                               *)
(***************************************************************************)
Linked == IF wifiOn THEN \E i \in Iface : link[i].got ELSE link["eth"].got

\* The waits are bounded: each ends with the link or without it.
MainGoes(pc) == main' = pc /\ UNCHANGED <<cable, wireless, queue, settings, bounds>>

WaitForLink == /\ main = "links"
               /\ \/ Linked /\ MainGoes("lease")
                  \/ ~Linked /\ MainGoes(IF wifiOn THEN "ap" ELSE "lease")
               /\ UNCHANGED <<link, selected, upstream, choosing, dns, ap, mixed>>

\* start_setup_ap: the mode first, the flag after.
StartAp == \/ main = "ap" /\ ap' = [ap EXCEPT !.mode = TRUE] /\ MainGoes("apFlag")
              /\ UNCHANGED <<link, selected, upstream, choosing, dns, mixed>>
           \/ main = "apFlag" /\ ap' = [ap EXCEPT !.flag = TRUE] /\ MainGoes("lease")
              /\ UNCHANGED <<link, selected, upstream, choosing, dns, mixed>>

\* upstream_iface_init_nvs, and the second wait.
WaitForLease == /\ main = "lease"
                /\ selected' = IF linkNvs.upstream = "none" THEN (IF wifiOn THEN "wifi" ELSE "eth")
                               ELSE IF wifiOn THEN linkNvs.upstream ELSE "eth"
                /\ MainGoes("pick")
                /\ UNCHANGED <<link, upstream, choosing, dns, ap, mixed>>

PickFirst == /\ main = "pick"
             /\ choosing' = [choosing EXCEPT !["main"] = {PickUpstream(link, selected)}]
             /\ MainGoes("start")
             /\ UNCHANGED <<link, selected, upstream, dns, ap, mixed>>

\* DnsSinkServer::start copies the text, whatever was set meanwhile.
StartDns == /\ main = "start"
            /\ \E s \in choosing["main"] : upstream' = [upstream EXCEPT !.text = AddressAt(link, s)]
            /\ choosing' = [choosing EXCEPT !["main"] = {}]
            /\ dns' = [dns EXCEPT !.pc = "read"]
            /\ MainGoes("reapply")
            /\ UNCHANGED <<link, selected, ap, mixed>>

\* Mutant: what start() was given stands.
NoReapply == main = "reapply" /\ MainGoes("ui")
                /\ UNCHANGED <<link, selected, upstream, choosing, dns, ap, mixed>>

Reapply == /\ main = "reapply"
           /\ Chooses("main", selected)
           /\ MainGoes("set")
           /\ UNCHANGED <<link, selected, upstream, dns, ap, mixed>>

SetFirst == /\ main = "set"
            /\ SetsUpstream("main")
            /\ MainGoes("ui")
            /\ UNCHANGED <<link, selected, dns, ap>>

\* The web page and the console.
StartUi == /\ main = "ui" /\ MainGoes("done")
           /\ UNCHANGED <<link, selected, upstream, choosing, dns, ap, mixed>>

Main == WaitForLink \/ StartAp \/ WaitForLease \/ PickFirst \/ StartDns \/ Reapply \/ SetFirst \/ StartUi

\* run_loop resolves the text once more, and stores it.
DnsStarts == /\ \/ dns.pc = "read" /\ dns' = [pc |-> "store", read |-> upstream.text] /\ UNCHANGED upstream
                \/ /\ dns.pc = "store" /\ dns' = [pc |-> "run", read |-> 0]
                   /\ upstream' = [upstream EXCEPT !.addr = dns.read]
             /\ UNCHANGED <<link, selected, choosing, main, ap, cable, wireless, queue, settings, bounds, mixed>>

-----------------------------------------------------------------------------
(***************************************************************************)
(* The event task.                                                         *)
(***************************************************************************)
\* A link that comes up with its addresses is published, the upstream follows, and
\* the setup network goes.  This task runs before the others of its core.
Publishes(i, a) == LET l == [link EXCEPT ![i] = [dns |-> a.dns, gw |-> a.gw, got |-> TRUE]]
                       v == AddressAt(l, PickUpstream(l, selected))
                   IN  /\ link' = l
                       /\ upstream' = [text |-> v, addr |-> v]
                       /\ choosing' = [t \in Task |-> Accompanied(t)]
                       /\ mixed' = (dns.pc = "store")
                       /\ ap' = IF ap.flag THEN [mode |-> FALSE, flag |-> FALSE] ELSE ap

PublishesNothing == UNCHANGED <<link, upstream, choosing, mixed, ap>>

\* The addresses of a link that goes down are forgotten only if they are static.
Forgets(i) == /\ link' = [link EXCEPT ![i] = IF i \in static THEN Down ELSE [@ EXCEPT !.got = FALSE]]
              /\ UNCHANGED <<upstream, choosing, mixed, ap>>

Connected == IF radio = "idle" THEN "trying" ELSE radio

\* wifi_reconfig_active: past the deadline the flag is dropped.
Reconfiguring == recfg.flag /\ ~recfg.late

Handle(e) ==
    \/ /\ e.type = "ethUp"
       /\ IF "eth" \in static THEN Publishes("eth", Fixed("eth")) ELSE PublishesNothing
       /\ UNCHANGED wireless
    \/ e.type = "ethDown" /\ Forgets("eth") /\ UNCHANGED wireless
    \/ /\ e.type \in {"ethIp", "staIp"}
       /\ Publishes(IF e.type = "ethIp" THEN "eth" ELSE "wifi", e)
       /\ UNCHANGED wireless
    \/ e.type = "staStart" /\ radio' = Connected /\ PublishesNothing /\ UNCHANGED recfg
    \/ /\ e.type = "staDown" /\ Forgets("wifi")
       /\ IF Reconfiguring THEN UNCHANGED wireless
          ELSE radio' = Connected /\ recfg' = [recfg EXCEPT !.flag = FALSE]
    \/ /\ e.type = "staUp"
       /\ recfg' = [recfg EXCEPT !.flag = FALSE]
       /\ IF "wifi" \in static THEN Publishes("wifi", Fixed("wifi")) ELSE PublishesNothing
       /\ UNCHANGED radio

HandleEvent == /\ queue # <<>>
               /\ Handle(Head(queue))
               /\ queue' = Tail(queue)
               /\ UNCHANGED <<selected, dns, main, cable, settings, bounds>>

-----------------------------------------------------------------------------
(***************************************************************************)
(* The cable and the radio.                                                *)
(***************************************************************************)
Posts(e) == Len(queue) < MaxQueue /\ queue' = Append(queue, e)

World == UNCHANGED <<link, selected, upstream, choosing, dns, main, ap, recfg, settings,
                     linkChanges, boots, mixed>>

Turn == turns < MaxTurns /\ turns' = turns + 1

Plug == /\ Turn /\ UNCHANGED radio /\ World
        /\ \/ cable = "out" /\ cable' = "in" /\ Posts([type |-> "ethUp"])
           \/ cable # "out" /\ cable' = "out" /\ Posts([type |-> "ethDown"])

Lease == /\ UNCHANGED turns /\ World
         /\ \/ /\ cable = "in" /\ "eth" \notin static /\ cable' = "leased" /\ UNCHANGED radio
               /\ \E a \in Leases("eth") : Posts([type |-> "ethIp", dns |-> a.dns, gw |-> a.gw])
            \/ /\ radio = "joined" /\ "wifi" \notin static /\ radio' = "leased" /\ UNCHANGED cable
               /\ \E a \in Leases("wifi") : Posts([type |-> "staIp", dns |-> a.dns, gw |-> a.gw])

\* An attempt to join ends one way or the other; a joined network may be lost.
JoinEnds == /\ UNCHANGED <<cable, turns>> /\ World
            /\ \/ radio = "trying" /\ radio' = "joined" /\ Posts([type |-> "staUp"])
               \/ radio = "trying" /\ radio' = "idle" /\ Posts([type |-> "staDown"])

LoseWifi == /\ Turn /\ UNCHANGED cable /\ World
            /\ radio \in {"joined", "leased"} /\ radio' = "idle" /\ Posts([type |-> "staDown"])

-----------------------------------------------------------------------------
(***************************************************************************)
(* The web task and the console.                                           *)
(***************************************************************************)
Web == main = "done" /\ choosing["web"] = {} /\ linkChanges < MaxLinkChanges /\ linkChanges' = linkChanges + 1
       /\ UNCHANGED <<link, upstream, dns, main, ap, cable, radio, queue, turns, boots, mixed>>

\* dns_sink_set_upstream_iface: Wi-Fi only where it is up.
SelectUpstream(i) == /\ i = "wifi" => wifiOn
                     /\ Web
                     /\ selected' = i
                     /\ linkNvs' = [linkNvs EXCEPT !.upstream = i]
                     /\ Chooses("web", i)
                     /\ UNCHANGED <<wifiOn, static, recfg>>

WebSets == /\ SetsUpstream("web")
           /\ UNCHANGED <<link, selected, dns, main, ap, cable, wireless, queue, settings, bounds>>

\* dns_sink_wifi_set_enabled and dns_sink_net_set_static: for the next boot.
SaveForNextBoot == /\ Web
                   /\ \E on \in BOOLEAN, s \in SUBSET Iface : linkNvs' = [linkNvs EXCEPT !.wifiOn = on, !.static = s]
                   /\ UNCHANGED <<selected, wifiOn, static, choosing, recfg>>

\* dns_sink_wifi_set_creds.
SetCreds == /\ wifiOn /\ recfg.task = "none"
            /\ Web
            /\ recfg' = [recfg EXCEPT !.task = "sleep"]
            /\ UNCHANGED <<selected, settings, choosing>>

Reboot == /\ main = "done" /\ boots < MaxBoots
          /\ boots' = boots + 1
          /\ Reset
          /\ UNCHANGED <<linkNvs, linkChanges, turns>>

\* wifi_apply_reconfigure_task.
Reconfigure ==
    /\ \/ /\ recfg.task = "sleep"
          /\ recfg' = [flag |-> TRUE, late |-> FALSE, task |-> "disconnect"]
          /\ UNCHANGED <<radio, queue>>
       \/ /\ recfg.task = "disconnect"
          /\ IF radio = "idle" THEN UNCHANGED <<radio, queue>>
                               ELSE radio' = "idle" /\ Posts([type |-> "staDown"])
          /\ recfg' = [recfg EXCEPT !.task = "connect"]
       \/ /\ recfg.task = "connect"
          /\ radio' = Connected
          /\ recfg' = [recfg EXCEPT !.task = "none"]
          /\ UNCHANGED queue
    /\ UNCHANGED <<link, selected, upstream, choosing, dns, main, ap, cable, settings, bounds, mixed>>

Deadline == /\ recfg.flag /\ ~recfg.late /\ recfg' = [recfg EXCEPT !.late = TRUE]
            /\ UNCHANGED <<link, selected, upstream, choosing, dns, main, ap, cable, radio, queue,
                           settings, bounds, mixed>>

NlNext == \/ Main \/ DnsStarts \/ HandleEvent
          \/ Plug \/ Lease \/ JoinEnds \/ LoseWifi
          \/ \E i \in Iface : SelectUpstream(i)
          \/ WebSets \/ SaveForNextBoot \/ SetCreds \/ Reboot \/ Reconfigure \/ Deadline

\* The tasks run, and time passes.
NlFairness == /\ WF_nlVars(Main) /\ WF_nlVars(DnsStarts) /\ WF_nlVars(HandleEvent)
              /\ WF_nlVars(WebSets) /\ WF_nlVars(Reconfigure) /\ WF_nlVars(Deadline) /\ WF_nlVars(JoinEnds)

NlSpec == NlInit /\ [][NlNext]_nlVars /\ NlFairness

-----------------------------------------------------------------------------
(***************************************************************************)
(* Properties.                                                             *)
(***************************************************************************)
\* Nobody is about to point the upstream somewhere.
Settled == main \in {"ui", "done"} /\ dns.pc = "run" /\ queue = <<>> /\ \A t \in Task : choosing[t] = {}

Follows == upstream.addr = AddressAt(link, PickUpstream(link, selected))

\* Once all is settled, queries go where the selected interface says, whatever came
\* up while dns_task was started; unless two calls of set_upstream overlapped, or a
\* static interface went down and took its resolver with it.
UpstreamIsTheSelectedOnes == Settled /\ ~mixed /\ static = {} => Follows

\* The same without the first exception.
\* (dns_sink.cpp: "re-applying once here makes the final upstream derive from
\* current interface state regardless of interleaving".)
UpstreamFollowsTheLinks == Settled /\ static = {} => Follows

\* A station that is not joined keeps trying.
\* (dns_sink.cpp: "normal auto-retry must resume rather than stay suppressed
\* forever".)
WifiKeepsTrying == (radio = "idle") ~> (radio # "idle")
===============================================================================
