# ESP32 AdBlocker Reborn in TLA+

Specifications of the DNS sinkhole in `src/main/`, model-checked with TLC; their
safety is also proved with TLAPS, for every value of the constants. Paths below are
relative to `src/`.

## 1. The system

The firmware is a household resolver. A DNS query is answered from a blocklist,
from a cache, or by forwarding it. The tasks that matter:

| task (core) | code | does |
|---|---|---|
| `dns_task` | `main/dns_server.cpp` `run_loop` | owns the sockets, the cache (only writer), the table of upstream flights, the single TCP connection |
| tcpip / Ethernet RX | `main/dns_sink.cpp` `l2_input_cb` | answers some queries straight from the frame: reads the cache under a seqlock and the tables without blocking; everything else goes to lwIP and so to `dns_task` |
| `download_task` | `main/dns_sink.cpp`, `main/blocklist.c` | loads the list at boot and every 4 h, publishes it, saves it to flash and SD; saves the cache to SD; is the sockets' watchdog |
| httpd | `main/web_ui.cpp` | edits whitelist, custom rules, pauses, bypasses, rewrites, ACL, links, account; triggers reloads; takes firmware uploads |
| `dot_task` | `main/dot.c` | forwards queries over TLS, through two queues |
| event task, `app_main`, console | `main/dns_sink.cpp`, `main/console.c` | start the device, follow links and leases, reset the account |

### Components

| component | state | operations | what makes it correct |
|---|---|---|---|
| query engine (`dns_server.cpp`) | `s_cache` entries with a verdict and its generation; `s_upstream` flights with waiters | receive, cache hit, serve-stale with background refresh, verdict, forward or join, reply, evict | no stale verdict is served after an edit; isolated answers stay private; replies reach who asked |
| ways out (`dns_server.cpp`, `dot.c`) | the held TCP connection, the hedge stash, the DoT queues, session and configuration | accept, read, forward, reply, close; stash, sweep; enqueue, exchange with one retry, echo, reconnect | an answer never reaches the next connection; one retransmit, of the right question, where it may go; a replaced DoT server is left |
| blocklist runtime (`blocklist.c`) | `s_live`, packed image, whitelist and custom rules under `s_wl_mutex`, `s_paused`, `s_blocklist_gen` | publish, edit, pause, verdict (bounded wait) and verdict_nb (no wait) | a verdict is made of one list; an unproven one is not remembered |
| blocklist load (`blocklist.c`, `http_fetch.c`) | staging buffer, feed list, stop and retry flags | load, load_with_retry, stop | a failed load keeps the old list; a stop sticks |
| persistence (`blocklist.c`) | two flash slots with header, body, exceptions; SD files | save and load, flash and SD | a good list survives a power cut |
| seqlock (`dns_server.cpp`) | `s_cache_seq` | write_begin, write_end, `dns_cache_l2_get` | a reader never uses a torn entry |
| event rings (`dns_sink.cpp`) | buffers with free-running head and tail | stage (tcpip), drain (dns_task) | a bounded queue |
| Ethernet fast path (`dns_sink.cpp`) | a count of what it handed over | classify, ACL, pause, bypass, rewrite, cache, verdict, answer or defer | answers on grounds that held during its call, or defers |
| sockets (`dns_server.cpp`) | two sockets, counters, the reopen flag | open, a turn of the loop, watch, reopen | a wedged socket is replaced |
| device (`dns_sink.cpp`, `web_ui.cpp`, `web_tls.c`) | OTA slots and their states, TLS identity in NVS | start, confirm, roll back, upload, renew | an image that does not work is left by itself |
| client stores (`acl.c`, `bypass.c`, `rewrite.c`, `localzone.c`, `pause.c`) | bounded tables, copies in NVS | add, remove, look up, load | what was acknowledged stands; a look is right of some moment |
| warm boot (`dns_server.cpp`) | file and temporary file on SD | save, load | an undisturbed save comes back |
| query log, census (`query_log.c`, `census.c`) | ring, minute buckets, ranking; table of devices | record, read; observe, evict, snapshot | what the pages show happened |
| account (`web_auth.c`, `web_ui.cpp`) | account in RAM and NVS, sessions, lock-out | every gate and function | sessions follow the account; an acknowledged account is kept, or what a later change tried |
| links (`dns_sink.cpp`) | leases, static settings, radio, upstream | bring up, handle event, choose upstream, reconfigure | queries go where the selected interface says |

### What is hard

* Rules change on one core while a query on the other is between its reads of the
  generation, the cache and the verdict; the answer is cached a round trip later.
* Flights are shared: a query rides the flight of another, launched under another
  verdict. Ids and slots are recycled while old replies are in transit.
* The list image is rebuilt in place, with readers kept out by a NULL pointer, a
  delay and a bounded mutex wait.
* Lock-free readers and rings between tasks of two cores.
* Power cuts between the steps of a save; several NVS keys that belong together.
* Requests (stop, reload, reconnect, reopen) delivered by flags that the worker clears.
* Three tasks that may point the upstream, with no lock.

`PROJECT.json` "hazards" lists each at its line.

## 2. Modules

| module | models | EXTENDS / INSTANCE |
|---|---|---|
| `FlushCache` | abstract: every rule edit flushes the cache | – |
| `QueryEngine` | `dns_server.cpp`: cache, flights, verdict ladder, replies; rule edits | instances `FlushCache` |
| `AtomicCache` | abstract: a read that hits is a lookup at one instant | – |
| `CacheSeqlock` | `dns_server.cpp`: one cache set written and read field by field | instances `AtomicCache` |
| `EventQueue` | abstract: a bounded queue | – |
| `SpscRing` | `dns_sink.cpp`: the staging rings with wrapping counters | instances `EventQueue` |
| `DotWorker` | `dot.c`: the worker, its session and queues, `dot_set` | – |
| `Forwarding` | `dns_server.cpp`: flights over UDP or DoT, hedging, the TCP/53 connection | extends `DotWorker` |
| `SocketWatchdog` | `dns_server.cpp`: sockets, a turn of the loop, the watchdog | – |
| `FastPath` | `dns_sink.cpp`: the hook's ladder against the other holders of the tables | – |
| `PauseTable` | `pause.c`: slots written step by step, read without a lock | – |
| `QueryLog`, `Census` | `query_log.c`, `census.c`: tables, eviction, what the pages see | – |
| `ClientStores` | `acl.c`, `bypass.c`, `rewrite.c`, `localzone.c`: edits, saves, power cuts | – |
| `WarmSnapshot` | `dns_server.cpp`: the cache saved and restored | – |
| `ListStore` | `blocklist.c`: flash slots, SD file, boot, power cuts | – |
| `BlocklistLive` | `blocklist.c`: rebuild in place, small tables, both verdicts | – |
| `LoadControl` | `blocklist.c`, `http_fetch.c`, `dns_sink.cpp`: requests, feeds, retries, stop, watchdog | – |
| `DeviceLife` | `dns_sink.cpp`, `web_ui.cpp`, `web_tls.c`: start, upload, confirmation, identity | – |
| `WebAuth` | `web_auth.c`, `web_ui.cpp`: account, sessions, lock-out, console reset | – |
| `NetLink` | `dns_sink.cpp`: Ethernet, Wi-Fi, choice of the upstream | – |
| `MCQueryEngine`, `MCForwarding`, `MCHook`, `MCServices`, `MCLoad` | instances for TLC | the modules they instantiate |
| `Numbers_proofs` | lemmas the proofs share: least elements, remainders, counting | `TLAPS`, the library's theorems |
| `QueryEngine_proofs` | theorems and proofs about `QueryEngine` | that module |
| `Forwarding_proofs` | about `Forwarding`, `DotWorker`, `MCForwarding` | `MCForwarding`, `Numbers_proofs` |
| `Hook_proofs` | about `CacheSeqlock`, `SpscRing`, `SocketWatchdog`, `DeviceLife`, `MCHook` | `MCHook`, `Numbers_proofs` |
| `Load_proofs` | about `LoadControl`, `BlocklistLive`, `MCLoad` | `MCLoad` |
| `Storage_proofs` | about `ListStore`, `WarmSnapshot`, `ClientStores` | those, `Numbers_proofs` |
| `Tables_proofs` | about `Census`, `QueryLog` | those, `Numbers_proofs` |
| `Services_proofs` | about `WebAuth`, `FastPath`, `PauseTable`, `NetLink`, `MCServices` | `MCServices`, `Storage_proofs`, `Tables_proofs` |

The models meet at the generation and at the verdict. `QueryEngine` takes a
verdict as one step that is proven or not; `BlocklistLive` opens that step up.
`QueryEngine` writes the cache in one step; `CacheSeqlock` opens that one up.
`QueryEngine` sends a question and may get an answer; `Forwarding` has the ways it
takes. `FastPath` takes the hook's probe and verdict as one step each, `PauseTable`
and `CacheSeqlock` open them up. `QueryLog` and `Census` begin where `SpscRing`
hands an event over. `BlocklistLive` reloads at will; `LoadControl` says when a
reload happens, and `ListStore` what becomes of the list afterwards.

Components that share no state are checked in one run: the MC module has a
variable `part`, chosen at the start, that says which of them a behaviour is about;
the others keep their initial state. The states of a run are then the sum, not the
product, of its parts', and every part is explored as it would be alone.

### How they correspond to the code

`QueryEngine`. `dns_task` is one thread, so a datagram is handled to its end;
the steps are cut where another core can change what the handler reads next:
`Receive` (generation, `dns_server.cpp:1923`), the cache lookup
(`AnswerFromCache`, `OverrideCachedBlock`, `ServeStale`, `Miss`), and the verdict
(`DecideUnproven`, `DecideBlock`, `DecideForward`, `ForwardForeign`). `Process` is
`process_reply`. The editors' steps are cut at the flag, the pointer and the
generation (`SetPaused`, `Unpublish`, `Publish`, `Bump`), and are one step where
the mutex holds from change to bump (`EditRules`). Abstractions: one cache set
and one query type, since keys are compared exactly; deadlines are flags
(`fresh`, `armed`, `age`) that the clock may flip at any time; a reply's CNAME
chain is the set of its names; the network loses, repeats, delays and reorders,
so `net` only grows; whether the reply-shaping envelope of a query matches a
flight's is left open (a query may join or not); the CNAME walk's verdicts are
taken in one step.

`CacheSeqlock`. Every field of a way is written in the order of the code and
read in the order of the reader; a field's value is the number of the store that
wrote it. The fences justify the sequential order. The counter does not wrap:
that takes 2^31 stores within one read. The bulk load at boot is left out: it is
one bracket, before anything is served.

`SpscRing`. Head and tail with their modulus, each side's load of the other's
counter once per call, two fields per event. The census and the query-log ring
are the same algorithm and share the module.

`Forwarding`, `DotWorker`. A flight's serial number stands for the question it put
on the wire. The passes of `dns_task`'s loop come in any order and may find nothing
to do, which is more than the code does. `dot_task` looks at the request to
reconnect, at its queue and at its session in the code's order; an exchange may
fail, be tried once more on a new session, and be echoed back for plain DNS. The hedge
sweep reads its gate once (`HedgeGate`, `dns_server.cpp:1822`) and then sends its copies
one by one (`Hedge`), while `dot_set` may act between any two. A failed question that
comes back is matched by id alone (1754-1761). Left out: which of the two resolvers a
copy goes to, and `upstream_us`.

`SocketWatchdog`. The two sockets may wedge; the hook's counter of deferred
questions and the query counter are kept as far as the watchdog compares them,
with the reset of the metrics that sets one of them back.

`FastPath`. One call of the hook, question by question. A table is busy while anyone
holds its mutex: httpd editing it or listing it (`BeginEdit`, `Listing`), or `dns_task`
asking it about a question of its own (`DnsTakes`). `since` collects what has been true
at some moment of the call.
`PauseTable` has the seven stores of a pause, the clock, and the reader's three
loads.

`QueryLog`, `Census`. The record is cut where the reader can see it half done; the
page reads without a lock. A minute and a second are ticks of a clock.

`ClientStores`. One NVS key per place, written in turn after each edit, with the
power cut between any two; the zones' two tables and the index that says which is
in service. `WarmSnapshot` writes record by record, and removes the old file before
the rename, since FAT does not replace. `WebAuth` has every key of the account,
every gate of `auth_wrap`, and the console's reset that RAM learns of at the next
request. A name and a hash are numbered by the change that brought them, so that a name
beside the hash of another password is seen; a save fails at any of its four calls
(`nvs_open`, the name, the hash, `nvs_commit`) and leaves what the code leaves.

`DeviceLife`. The bootloader is external: an image chosen and new is tried once.
`NetLink`. The radio, the cable and the order of the event loop are external; the
event task, `app_main`, httpd and `dns_task` interleave at their unlocked stores of
the upstream. Picking an address and storing it is one step when the event task or httpd
publishes one, though httpd may run on the other core; what such an overlap can leave
is what `mixed` marks and the property excepts.

`ListStore`. A list is a number; a slot is a header and three parts (index,
entries, exceptions), each written in a step. A part cut in the middle counts as
unwritten, because nothing reads it back correctly; the erase takes the header's
sector first; a list that does not fit the slot is a failed write.

`BlocklistLive`. The image in two parts, two snapshot descriptors with their
exceptions, the mutex with its waits counted in ticks. A walk is short enough to
see at most one tick; a wait gives up by the second, and the sleep before the
rebuild is over at the second. The device starts with a saved list or with none.

`LoadControl`. Every read and write of the shared flags is a step; the watchdog
is a task whose callback may be anywhere when its timer is stopped. Parsing of
the lines and the capacity are left out, except that a line looks at the stop
flag and that a full list ends the walk. The boot's download is a reload like
another. `heeded` is a history variable.

Variables such as `heeded`, `standing`, `told`, `since`, `due`, `landed`, `claimed`,
`attempts` and `restarted` are histories: the code does not have them, and no guard of the code's
steps reads them.

Definitions marked "Mutant" are changed forms of a mapped definition; no
specification uses them. Each is a plausible bug, and the property it is listed
with in `PROJECT.json` is violated when it replaces the original.

## 3. Runs

Each passing run gathers parts that share no state (section 2). The constants are in
the `.cfg` files.

| run | parts and what they show | instance | distinct states |
|---|---|---|---|
| `engine` | *engine*: cached verdicts stay current, private answers private, nobody paused is blocked; generation stamps implement flushing. *forwarding*: one retransmit per flight, of its own question, where it is welcome; a replaced DoT server is used at most once more | 2 names, 1 slot, 2 ids, 1 way, 3 rulebooks, `MaxGen` 2, both classes, affected clients; 1 flight slot, 3 questions, queues of 1, 2 configurations | 3.3 M |
| `engine_table` | *engine*: late and repeated replies answer no other question, ids stay distinct, every slot is freed. *forwarding*: an answer over TCP reaches its asker, every connection ends | 2 names, 2 slots, 2 ids, no rules; 2 connections, 2 questions | 178 k |
| `hook` | *cache*: what the hook or the SD save uses is one store, whole, present at one instant. *ring*: a queue, whose oldest event is drained. *sockets*: a wedged client socket is replaced. *device*: an image that does not work is left for the one before | 2 names, 2 ways, 2 stores, 1 bump; 3 slots, counters modulo 6; watchdog after 3, turns of 2, 2 wedges; 2 updates, 2 power cuts | 231 k |
| `services` | *lists*: the last saved list survives a broken save, a boot finds the newest. *hook*: the fast path answers on grounds that held during its call. *pauses*, *log*, *census*, *clients*, *warm*, *account*, *links*: one property each, two for the account | 5 lists, 3 cuts; 2 hosts; 2 slots of pauses; log of 2, ranking of 2, 3 names; 3 devices, table of 2; stores of 3, 2 power cuts; cache of 2; 2 sessions, 2 changes, 1 reset, 1 fault; 1 link change, 1 restart | 2.9 M |
| `load` | *control*: no callback uses a dead fetch, a stop ends the reload, only whole lists are saved, no request is lost. *image*: the hook never acts on a torn verdict, the cache never keeps one, the window closes | 3 feeds, 1 retry, 1 scheduled and 2 manual reloads, 2 stops; 2 reloads, 1 edit | 1.3 M |
| `allow_cached`, `chain_unproven`, `list_store_torn`, `list_store_pick`, `blocklist_torn`, `upstream_race`, `wifi_retry` | refute a statement of the repository each (section 4) | as above, without what the counterexample does not need | |

**Why the bounds are enough to see the interesting cases.**

* *engine*: a stamp goes wrong when a bump falls between a verdict and its store, so
  one bump before and one after (`MaxGen` 2), two names that a CNAME joins, and a
  recycled id suffice; with one way every store evicts. The single slot gives waiters,
  refusals and full-table drops; two slots and id reuse are in `engine_table`, where
  rules do not matter.
* *forwarding*: queues of one are full at once; a second question takes the slot and
  the stash of the first, a third that of the second, a second connection the place
  of the first.
* *cache*: a torn read needs a store that begins before and one that ends after a
  field; readers write nothing a writer or each other reads, so `MCHook` lets them
  read one at a time (the theorem of section 5 has no such restriction).
* *ring*: counters wrap every second lap.
* *sockets*: the socket wedges again after it was replaced; the questions of a turn
  may be fewer than the threshold, so that only the counter's growth over several
  looks reaches it.
* *device*: an update on top of an update, and a cut in each.
* *lists*: both slots are overwritten at least twice, with a broken save before,
  between and after.
* *pauses*, *clients*, *census*, *log*, *warm*: one entry more than the table holds,
  so that something is refused, evicted or overwritten; one power cut while an edit is
  saved and one after.
* *account*: the lock-out is reached and runs out, and a reset falls on either side of
  a change; a change of name and password fails at any call, or the power cuts it
  anywhere, and another change follows. The run has one such fault; the theorem has any
  number.
* *image*: with two reloads a descriptor returns to service, the ABA case of `s_live`.
* *control*: one feed that ends the load, two that do not; a second attempt; a request
  and a stop at any step.

**Deadlock** is off: bounded counters let every model stop, and the device itself
waits for events. What must happen is stated as liveness.

**Fairness.**

* `engine_table` (`MCFairSpec`): time passes for every flight (weak fairness of
  `Grow`); `dns_task` finishes what it began (weak); each turn of its loop starts
  with an eviction sweep before a bounded number of datagrams is drained, so a flight
  that is old at infinitely many turns is swept (strong fairness of `Evict`). The
  same loop reaps the TCP connection (`TcpReap`), whose deadline passes (`TcpLate`),
  and a hedge sweep, a loop over the table, comes to its end (weak fairness of `Hedge`);
  no client and no server is assumed to do anything.
* `hook`: `dns_task` drains the ring in every turn, and nothing is assumed of the
  producer. `WdRuns`: the watchdog is called by a task that polls for ever.
  `HookDefers("listed")`: questions keep coming, the premise under which the watchdog
  works at all. `Starts`: a device with power starts; uploads and power cuts are
  bounded and not assumed.
* `load`: the tasks and the timer are scheduled, FreeRTOS ticks come;
  `esp_http_client_perform` is only assumed to return when the watchdog shut its
  socket, or when there is no watchdog and the socket's own timeout applies. httpd is
  never assumed to ask for anything; an edit it began it ends.
* `wifi_retry` (`NlFairness`): `app_main`, `dns_task`'s start, the event task, a
  handler and the joining task go on; a deadline passes; a join ends one way or the
  other.

## 4. Findings

Each is a run expected to fail, with the counterexample's story.

* `allow_cached`. The refresh behind a stale entry takes the entry's stamp but not
  the exemption of an explicitly allowed name (`dns_server.cpp:1996-2020`), so its
  reply goes through the CNAME check: an allowed name whose CNAME target is listed
  is cached as blocked, against the comment at 1455.
* `chain_unproven`. `name_is_blocked_any` (1130) reduces a verdict to a Boolean. A
  busy mutex or the reload window during the CNAME walk reads as "not blocked" and
  the reply is cached under a current stamp; `blocklist.h:95` says such an answer
  must not be cached.
* `list_store_torn`. A slot whose index was written and whose entries were not
  passes `flash_try_load_slot` (`blocklist.c:1520`) and is served, though the other
  slot is whole.
* `list_store_pick`. The save chooses its slot by headers alone, the load also by
  the index (`blocklist.c:1643`). After a save broken before its index, the next
  save erases the only slot that loads. `CopySurvives` therefore promises one
  broken save, not two.
* `blocklist_torn`. `blocklist_verdict` loads `s_live` and then may wait two ticks
  for the mutex, as long as the sleep meant to outlast it (`blocklist.c:1199`). Its
  walk can start on a half rebuilt image. The verdict is acted on once; its stamp
  is outdated, so it is not remembered (`CachedVerdictIsCurrent` of
  `BlocklistLive`).
* `upstream_race`. `dns_task` resolves the upstream it was started with and stores the
  address (`dns_server.cpp:1374`) after a lease may have set another, and after
  `app_main` applied it again; `dns_sink.cpp:2152-2155` says the second application
  makes the outcome independent of the interleaving.
* `wifi_retry`. A join that fails within its deadline is reported while retries are
  suppressed, and no later event finds the deadline passed (`dns_sink.cpp:861`); the
  comment at 835-837 promises that the retry resumes.

Observed in the models and not stated as runs:

* A query of a class other than IN skips the rules on the way out, but
  `process_reply` has no class test (`dns_server.cpp:1459`): its reply can be
  replaced by the IN sinkhole record.
* A query that rides a flight is judged by the flight's verdict flags (exempt,
  stamp), taken up to the join age earlier. A stale entry's gate is armed before
  it is known that a refresh will be sent (1991); the cost is one delayed refresh.
* The hedge's gate is read once, before the sweep (`dns_server.cpp:1822`), and `dot_set`
  can turn DoT on before `sendto` (1852); and a question for a local zone is stashed
  with DoT on, to be repeated (to the primary resolver) once DoT is off. The comment at
  1812-1815, "a hedge is only ever sent while DoT is off, for a flight that was forwarded
  while DoT was off", is therefore not exact; `RetransmitIsWelcome` says what holds.
* A question that DoT failed on is looked up by id alone (1754-1761): if its flight is
  gone and another took the id, the old question is sent again and the other flight's
  `upstream_us` rewritten. The reply is dropped, since it is of another question.
* Entries restored at boot get a new deadline for being stale (`dns_server.cpp:495`),
  so a reply can be served past `STALE_MAX_S` across restarts.
* The watchdog sees the client socket only: a wedged upstream socket is not noticed,
  and `dns_task` ends if `select` fails.
* A stop accepted between the check at `blocklist.c:1002` (or the store at 739) and
  the clearing store at 740 evaporates, and one that arrives between a failed first
  attempt and the store at 996 is refused; `blocklist.h:239` says a stop is honoured
  between and during attempts. `StopIsHeeded` excepts the first by name.
* Feeds dropped because the list is full do not count as failed
  (`blocklist.c:825-838`): such a list is saved.
* A power cut while a removal moves the later NVS entries down leaves one of them
  twice; `AcknowledgedEntriesStand` is about the entry the look-up finds first. The
  client lists ignore NVS errors.
* The bypass list takes a busy mutex for "not bypassed" (`bypass.c:128`), while a busy
  access list or rewrite table makes the hook defer. `bypass.h:33-39` accepts that for an
  edit that lands at the same instant, and asks never to "answer BLOCK on unproven
  state"; but the mutex is also held by `dns_task` asking about another client
  (143-147) and by the page that lists the clients (113-120). So a client on the
  bypass list, which "must get the real answer" (`dns_sink.cpp:1811`), can be given the
  hook's block with no edit under way; the behaviour is in `FastPath`, and
  `HookAnswerIsGrounded` excepts a held bypass list by name. The socket path waits two
  milliseconds and then reads it the same way.
* `web_auth_set` writes name and hash under two keys (`web_auth.c:87-88`). If the
  second write fails, or the power goes between them, during a change of the name, NVS
  has the new name with the old password's hash: after a restart the acknowledged login
  does not work, the new name with the old password does. If `nvs_commit` fails (94),
  RAM goes back to the old account and NVS may hold the new one.
  `AcknowledgedAccountIsKept` promises what remains true: the acknowledged account is
  in force until a restart, and after it name and hash are each the acknowledged one's
  or one of a change tried since, so the set-up page does not come back by itself.
* A console reset that overtakes a running `/auth/set` leaves the account in NVS
  (`web_auth.c:183`); `claimed` excepts it. The TLS identity is renewed in three
  writes (`web_tls.c:196`); `DeviceLife` has the cuts between them.
* The setup network's flag is written by two tasks (`dns_sink.cpp:779-810`), lwIP's
  table of resolvers is one for both interfaces (596-631), and a static interface
  that goes down keeps its resolver, or loses it, by what came first; `static = {}`
  in the properties of `NetLink` leaves this out.
* The newest entry of the query log may be read half written; `LogIsTrue` excepts the
  ones being entered.

## 5. Proofs

All theorems are for arbitrary constants under the `ASSUME`s of their modules,
which ask for no more than natural bounds, non-empty name and id sets, at least
one way, a ring whose size divides the counters' modulus and is smaller, and
rulebooks that are functions to the three verdicts. Components that share no state
are proved about in one module, each on its own: a theorem there is about the
specification it names. The runs explore compositions of them; that a composition is a
behaviour of each of its parts is proved too, so what is proved of a component holds in
the run that has it. Every invariant and every action property of the passing runs is
stated by a theorem.

| theorem | property | argument |
|---|---|---|
| `TypeCorrect`, `TxidsStayDistinct` | `TypeOK`, `TxidsDistinct` | type lemmas per update; `TableStep`: a step only launches, joins or frees, and a launch's id is unused |
| `IsolatedFlightsArePrivate`, `AffectedClientsNeverBlocked`, `RepliesAnswerTheQuestion` | `IsolatedFlightIsPrivate`, `AffectedClientNeverBlocked`, `AnswersTheQuestion` | `WaitersInv`: what a flight's flags say about its waiters (a flight with an affected waiter is paused and isolated, waiters asked for the flight's name), and the same of the replies of the last step |
| `CachedVerdictsAreCurrent` | `CachedVerdictIsCurrent` | `StampInv` |
| `StampsImplementFlushing` | `ImplementsFlushing` | `StampInv` and a simulation per action |
| `SeqlockTypeCorrect`, `RepliesAreWhole` | `TypeOK`, `RepliesWhole` | `SeqlockInv` |
| `ReadsLookAtomic` | `ReadsAreAtomic` | `SeqlockInv`; the lookup happens at the second read of the count |
| `RingTypeCorrect`, `RingIsAQueue` | `RingTypeOK`, `ImplementsQueue` | `RingInv` and a simulation: publishing is the push, releasing the pop |
| `ListStoreTypeCorrect`, `SavedListSurvives`, `NextBootIsCurrent` | `TypeOK`, `CopySurvives`, `BootFindsNewest` | `IInv` of `Storage_proofs` |
| `SnapshotComesBack`, `WarmTypeCorrect` | `SavedRepliesComeBack`, `WsTypeOK` | `WsInv` |
| `EntriesStand`, `StoresTypeCorrect` | `AcknowledgedEntriesStand`, `CsTypeOK` | `CsInv`; lemmas about the first entry of a key in a list, among the NVS places and in what a boot makes of them |
| `LiveTypeCorrect`, `HookActsOnOneList`, `CacheKeepsCurrentVerdicts` | `LiveTypeOK`, `HookVerdictIsProven`, `CachedVerdictIsCurrent` | `LiveInv` of `Load_proofs` |
| `AuthTypeCorrect`, `PagesAreForSessions`, `AccountIsKept` | `AuthTypeOK`, `SessionsFollowTheAccount`, `AcknowledgedAccountIsKept` | `AuthInv` of `Services_proofs` |
| `AnswersReachTheirAskers`, `RetransmitsAreOwn`, `RetransmitsAreWelcome`, `ForwardingTypeCorrect` | `AnswerReachesItsAsker`, `RetransmitIsOwn`, `RetransmitIsWelcome`, `FwdTypeOK` | `FwdInv` of `Forwarding_proofs`, and for the retransmits `SweepInv` |
| `OldServerIsUsedOnce` | `OldServerUsedOnce` | its half about the worker, `DotInv` |
| `HookIsGrounded`, `FastPathTypeCorrect` | `HookAnswerIsGrounded`, `FpTypeOK` | `FpInvariant` |
| `PausesAreHonoured`, `PausesTypeCorrect` | `PauseLooksAreRight`, `PtTypeOK` | `PtInv` |
| `UpstreamFollowsSelection`, `LinksTypeCorrect` | `UpstreamIsTheSelectedOnes`, `NlTypeOK` | `NlInv` |
| `TheCensusIsRight`, `CensusTypeCorrect` | `CensusIsRight`, `CnTypeOK` | `CnInv` |
| `TheLogIsTrue`, `LogTypeCorrect` | `LogIsTrue`, `QlTypeOK` | `LogInv`; lemmas about remainders: two numbers closer than the divisor have different remainders |
| `LoadTypeCorrect`, `CallbackUsesLiveFetch`, `StopEndsReload`, `SavedListIsWhole` | `TypeOK`, `WatchdogUsesLiveFetch`, `StopIsHeeded`, `SavedIsUndegraded` | `IInv` of `Load_proofs` |
| `WatchdogTypeCorrect`, `LifeTypeCorrect`, `AWayBackStands` | `WdTypeOK`, `LifeTypeOK`, `ThereIsAWayBack` | `WdInv`, `LifeInv` of `Hook_proofs` |
| `QuestionsTakeOneRoute`, `FallbackIsOnFailure`, `WorkerReportsOnce` | `OneRouteAtATime`, `ClearOnlyOnFailure`, `ReportedOnce` | `FwdInv` and `RouteInv` |
| `RidersAreKept` | `NoRiderIsLost` | `TypeOK`; one lemma per way a flight is launched or joined |
| `ConnectionsAreSpent` | `ConnectionIsSpent` | `FwdTypeOK` and a measure |
| `SilenceEnds`, `StartsEnd` | `SilenceIsCounted`, `StartAdvances` | `WdInv`, `LifeInv` and a measure |
| `ReloadsEnd`, `RequestsStand` | `ReloadGoesOn`, `RequestStands` | `IInv` of `Load_proofs` and a lexicographic measure |
| `WindowsClose` | `WindowShrinks` | `LiveInv` and a measure |
| `EngineRunsItsParts`, `HookRunsItsParts`, `LoadRunsItsParts`, `ServicesRunTheirParts` | a composition implements the specifications of its parts | step by step |
| `HookTypesCorrect`, `LoadTypesCorrect`, `ServicesTypesCorrect` | `TypesOK` of `MCHook`, `MCLoad`, `MCServices` | the above and the parts' invariants |

The properties in the second column that no run has (`ThereIsAWayBack` and the ten
after it) are stated in the module of their theorem. TLC found no violation of them on
instances of the size of section 3.

Why the invariants need strengthening:

* `StampInv`. A cache entry is only as good as the verdict behind it, which crosses
  to the cache on a flight. `StampsInPast`: no stamp of an entry, a flight or the
  query being handled is ahead of the generation. `FlightsAuthorised`: a cacheable
  flight with a current stamp is for a name the rules do not block. A bump makes
  all of them outdated at once; a change before its bump opens the window.
* `SeqlockInv`. `WriterInv`: the count is odd exactly while a store is under way,
  and apart from the way being written every way is one store in all its fields.
  `ReaderInv`: while the count is the one a reader began with, what it has read is
  what is there.
* `RingInv`. The counters wrap, so "between tail and head" is a distance modulo the
  modulus; lemmas about wrapping counters come first. `AllWhole`: every slot from tail
  to head holds one whole event. `ProducerInv`: the slot at head is free and holds what
  was written so far. `ConsumerInv`: something is queued, and the copy is of the slot
  at tail. That the two slots differ is the ring's arithmetic, not its code.
* `ListStore`. `SlotInv`: a slot without header is erased, and sequence numbers
  order the slots by age. `SaveInv`: how far the save has got determines what its
  target holds. `KeptInv`: the kept list is whole, in a slot that no save is writing,
  and that slot is the one the header rule prefers, or, after one broken save, the
  one that save left alone.
* `LiveInv`. The hook's second look at `s_live` compares descriptors, and there are
  two, so a reload that came and went twice is not seen by it. What saves it is time:
  from its first look to its second the hook sees at most two ticks (`Seen`), and the
  same descriptor is back only after two sleeps of two ticks each. `HookInv` says
  where the reload can be while a walk is under way: either the hook's descriptor is
  in service and what was read agrees with it, or the walk is `Outlived`, with how many
  of its ticks the reload has used up. `dns_task` has no second look, and its verdict
  may be torn; `DnsInv` and `CachedInv` say it is then outdated, because `Bump`
  comes between every publication and the next time the loader is settled.
* `AuthInv`. The console sets a flag and the httpd task acts on it a request later, so
  `SessionInv` ties a session to the account as the running request found it, and to
  the account of now only while no reset is pending. `SavedInv` says what NVS holds
  after each write of a save, unless the console is erasing; `AccountInv` that, of an
  acknowledged account, what NVS and RAM hold has been tried, that what has been tried
  is complete, and that what a failed change restores was there before it.
* `LoadControl`. `WatchdogInv`: the pointer is set only while the fetch lives, and
  the fetch is not retired while the callback holds the lock. `HeedInv`: after a
  heeded stop the flag stays set until the next reload. `FateInv`: every feed before
  the present one has a fate, all of them when the list is published; and a sleep
  is followed by at most one attempt per delay.

* `FwdInv`. The gates of the code are generation numbers and a stash by slot, and
  both are used again. `AskersKnown`: a waiter that came over TCP carries a
  generation below the connection's, or the connection is its own; closing one moves
  the generation past every waiter at once. `HedgeSound`: an armed flight's stashed
  bytes are its own question, because `upstream_alloc` disarms a slot that it gives
  out, and nothing was retransmitted of a flight not marked `hedged`. `SweepInv`: a copy
  still to be sent is of a flight that is out, armed and not hedged, because nothing else
  `dns_task` does comes between; and a flight launched with DoT on saw `dot_set` turn it
  off before the gate let the sweep through, so DoT on again is a second change.
  `DotInv`: a session
  to a server no longer configured has its end asked for, or `dot_set` is about to ask;
  and once an exchange has used one the worker passes the top of its loop, where it looks,
  before the next. The order in `dot_set` (change, then ask) is what carries this.
* `RouteInv`. Transaction ids are used again, so that a report in the worker's queue may
  carry the id of another flight. `InOrder`: replies, the question in hand and requests
  are in the order of asking, each once. `TableInv`: a flight out in plain UDP is in none
  of the three, and two flights are never of one question. Taking a report removes its
  question from the worker for good, which is what lets the flight go out in the clear.
* `WdInv`. Nothing waits on a wedged socket: what has been read moves the very
  counter that the watchdog compares, so a question still waiting could pass for
  progress.
* `LifeInv`. `SlotsInv`: the slot otadata names is confirmed, or holds an update not yet
  confirmed, and then the other is confirmed and is the one the update was received in.
  `StageInv`: which slot runs at each stage of a start and of an upload; a device that
  serves runs a confirmed slot, so an upload never writes over the way back.
* `FpInv`. The hook asks its tables one after the other and each may change behind it.
  What survives is a history: the grounds true now are among those gathered, and each
  question passed left its own; the invariant names them by the step the call is at.
* `PtInv`. A reader makes three loads and a writer three stores, with no lock between
  them. `CallInv`: a slot under change is empty until its address is in place. `SeeInv`: a
  look of a client not paused can have seen the client's address in a live slot only
  while the very call that publishes it is at its last store, and then the expiry it
  sees differs from its first. `PromiseInv`: a promise that stands is in a slot, and one
  the look owes an answer to is in a slot the look has not passed. The last needs the
  rule of the code that a call for a host reuses the host's slot.
* `NlInv`. Between picking an address and storing it a task may be overtaken. `LinkInv`
  says what a choice still to be stored is worth (`alone`: nobody chose meanwhile), that
  the web task chooses only after `app_main` is done, and, once no task holds a choice,
  at which of its three places (text, read, address) `dns_task` has the selected one.
* `CnInv`. Being forgotten and being remembered are compared by the history of
  sightings; the table has only its own time stamps. The invariant ties the two: an
  entry's stamp is its device's last sighting, a forgotten device was seen no later than
  any entry, and an entry without a question has had none since it was listed.
* `LogInv`. `SlotInv`: slot `(k - 1) % LogSize` holds record `k` as long as `k` is
  among the last `LogSize`. `GraphInv`: so does bucket `m % Buckets` the count of minute
  `m`; it survives a gap of any length because the minutes skipped clear exactly the
  buckets of minutes that no longer show. `TopInv` counts what was made for a name
  against what it is credited with. `PendingInv`: only the newest record can be claimed
  and not entered, and it is of this minute.
* `WsInv`. `SaverInv`: until the patch the temporary file counts nothing, after it no
  more than it holds, and all of it if no write failed; at the rename the old file is gone.
* `CsInv`. A save rewrites place after place. What stands must be first for its key
  among the places after each store, whatever is still to be stored (`Saved`), since the
  power may fail there: it holds because an entry only ever moves to earlier places, and
  the save goes upward. At rest what is first in the list is first among the places,
  at the same place or, after a cut, a later one. `ZoneInv`: a walk is of the live
  table until a list is published and of the spare one until another is, which is why
  the walk may span one publication, and not two.

Only model-checked:

* liveness (`FlightsEnd`, `ConnectionEnds`, `OldestIsDrained`,
  `WedgedClientSocketIsReplaced`, `PreviousFirmwareComesBack`, `WindowCloses`,
  `RequestIsLoaded`): a theorem would need the enabledness of the fair actions, which is
  beyond the prover's reach here. What a proof of them rests on is proved without
  fairness. Of a connection, a start, a reload and its window it is a measure in the
  natural numbers: the steps that count lower it, and none sets it back but a power cut,
  of which there is a bounded number. Of a wedged socket it is the count of its unanswered
  questions, which only grows until the watchdog's threshold, resets of the metrics and
  failures to create a socket aside. Of a flight it is that it only ages, gains riders or
  ends; of the oldest event, the refinement of the queue;
* the seven findings: a counterexample is an instance.

## 6. Not modelled

* **Packed tables and rank resolver** (`bl_table.c`, `bl_rank.c`, `murmur3.c`): pure
  functions over packed bytes, which the unit tests cover. `BlocklistLive` takes the
  verdict of each half of an image as one value.
* **Rule and domain parsing** (`domain.c`), **wire format** (`dns_wire.c`): byte-level,
  without state, covered by unit tests and fuzzers.
* **Web pages and form parsing** (`web_ui.cpp`, `web_parse.c`): HTML, JSON and fields.
  The handlers that change state are with what they change.
* **Time synchronisation**: a floor for the wall clock; every deadline modelled here is
  on the monotonic timer.
* **Console and crash log**: diagnostics. The commands that change state are in
  `WebAuth`, `DeviceLife` and `NetLink`.
* **Wi-Fi scan**, **latency histograms, metrics**: text for a page; the p95 that sets
  the hedge delay is a flag.
* **Build, tests, tools, documentation**: the reference for the program's intent.

Partly modelled: the query engine without its rewrites and metrics (`FastPath` has the
rewrites as the hook sees them); the blocklist runtime without the settings of feeds
and extra lists; the load without the parsing of lines and the capacity.
