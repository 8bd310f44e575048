# A TLA+ model of the ESP8266 port of Wish

Wish is a peer-to-peer identity and messaging core; Mist is an application
protocol on top of it.  This repository ports both to the ESP8266: a single
32-bit core with 80 kB of RAM, Espressif's non-OS SDK, one program in which
callbacks of the SDK, software timers and ETS tasks run to completion one
after the other, and interrupts that may come at any time.  The Wish core and
Mist are git submodules and not part of the repository; neither is the SDK.
Both are modelled from how the code uses them, and marked external.

## Inventory

| Part | Files | State | Operations | Correct when |
|---|---|---|---|---|
| Service IPC | `port/esp8266/service_icp.c` | linked list of events, one-slot ETS queue | `send_app_to_core`, `send_core_to_app`, `service_ipc_task` | each event is handled once, in order, and never left without a wake-up |
| TCP connections | `port/esp8266/user_tcp.c` | list of active connections, each with a send FIFO and a busy flag; pool of contexts; espconns | connect, server connect, receive, sent, disconnect and reconnect callbacks; `my_send_data`, `wish_open_connection`, `wish_close_connection` | entry, context and espconn agree; data go out once and in order; a close completes |
| Message processor | `port/esp8266/user_task.c` | queue of 16 events | `wish_message_processor_notify`, the task | what is posted is done; a receive hold is released |
| WiFi setup | `port/esp8266/user_wifi.c`, `user_tcp.c:655-760` | mode, radio, scan, timers, server | `user_setup_wifi`, scan, access point, `user_check_ip`, station configuration | the device can always be reached |
| Commissioning | `apps/mist-config/mist_config.c` | reboot timer, endpoints | `wifi_invoke`; friend requests while unclaimed | accepted credentials stick |
| Local discovery | `port/esp8266/user_udp.c` | two UDP espconns, broadcast timer | enable, disable, advertise, receive | an espconn is used only while it lives |
| Relay | `port/esp8266/user_relay.c` | one static espconn | open, close, send, callbacks | it is freed once and never used after that |
| Sonoff app | `apps/mist-esp8266-sonoff-app` | relay, button, toggle, settings file | GPIO interrupt, 10 ms timer, endpoint writes | flash holds what the device does |
| Boot, systick | `port/esp8266/user_main.c` | core and app instances | `user_init`, one tick per second | |
| Flash HAL | `port/esp8266/spiffs_integration.c` | the SPI flash | read, write, erase with any alignment | the flash changes as an array of bytes would |
| SPIFFS | `port/esp8266/spiffs/src` | pages, lookup tables, caches, descriptors | the calls of the API, garbage collection, check | a file holds what was written, whatever is moved, cached or cut off |
| Web server | `port/esp8266/libesphttpd`, `user_captive_portal.c` | pool of connections, each with a request under way, a CGI function and a backlog | connect, receive, sent and disconnect callbacks, CGI functions | every request gets its own answer, whole |
| Drivers | `port/esp8266/driver` | registers, a UART ring buffer | | |
| Glue | `wish_app_deps_esp8266/`, `user_support.c` | function pointers | platform functions | |

How they interact.  A Mist app calls the core through the IPC list, and the core
answers through the same list.  The core calls `user_tcp.c` to open, send and
close; `user_tcp.c` calls the core when data or a connection arrives or goes.
What a callback of the SDK must not do itself (close a connection, feed the core
more data, free an espconn) is posted to the message processor.  The IPC task
reads `user_get_send_queue_len` and waits while TCP has anything to send.  The
IPC task has priority 1, the message processor priority 0.  `wifi_invoke` runs
in an IPC handler, stops the server and arms a reboot.  The access point and the
first address enable discovery.  Apps keep their settings in SPIFFS, which
reaches flash through the HAL.  The start of the web server is commented out
(`user_main.c:207`); nothing else calls it.

What is hard here:

* **Wake-ups.** An IPC event in the list must always have a post on the way,
  though the ETS queue has one slot and the task may return without working.
* **Three owners of a connection.** Context, espconn and list entry point at
  each other and are taken apart by five different paths.
* **Late and missing callbacks.** The SDK may call back after the port has given
  up, or never; a close must complete all the same.
* **Full queues and failing allocations**, at the one place nobody tests.
* **Loss of power** between a change and its saving, in commissioning, in the
  settings of the app, and between any two writes of SPIFFS to flash.
* **Interrupts** between two reads of the same variable.
* **Stale copies.** A descriptor remembers the header and index page, the size
  and a pending write of a file whose pages others move; a cache page remembers
  a page of flash that is erased.
* **Requests in pieces.** A request arrives, and its answer leaves, over many
  callbacks, any of which may be the end of the connection.

`PROJECT.json` lists every such hazard at its line, with the properties that
would catch it.

## Modules

| Module | Models | Builds on |
|---|---|---|
| `FifoChannel` | abstract: an ordered channel, each event delivered once | |
| `ServiceIpc` | `service_icp.c` | implements `FifoChannel` |
| `TcpConn` | `user_tcp.c` (connections), `user_task.c` | |
| `Port` | both on one chip: priorities, the wait of the IPC task | `TcpConn`, `ServiceIpc` |
| `Discovery` | `user_udp.c` | |
| `WifiSetup` | `user_wifi.c`, the DHCP check and the server, `wifi_invoke`, boot | `Discovery` |
| `Relay` | `user_relay.c` | |
| `Network` | the device on the network: setup, discovery, relay, restarts | `WifiSetup`, `Relay` |
| `SonoffApp` | the Sonoff app | |
| `NorFlash` | abstract: an array of bytes that is programmed and erased | |
| `FlashHal` | `spiffs_integration.c` | `NorFlash` |
| `PageCache` | `spiffs_cache.c` over the HAL | implements `NorFlash` |
| `FileStore` | abstract: named files and what each call does to them | |
| `SpiffsFlash` | the layout of the flash | |
| `SpiffsNucleus` | lookup, allocating, moving and deleting pages, index events | `SpiffsFlash` |
| `SpiffsGc` | `spiffs_gc.c` | `SpiffsNucleus` |
| `SpiffsObject` | create, append, modify, truncate, read an object | `SpiffsGc` |
| `SpiffsApi` | `spiffs_hydrogen.c`, descriptors, cached writes, index maps | `SpiffsObject` |
| `Spiffs` | users calling the API | implements `FileStore` |
| `SpiffsCheck` | `spiffs_check.c` | `SpiffsApi` |
| `SpiffsPower` | loss of power, damage, and the check after them | `Spiffs`, `SpiffsCheck` |
| `Httpd` | `httpd.c`, static files, firmware upload, websockets, the portal's pages | |
| `...Proofs` | theorems about `ServiceIpc`, `TcpConn`, `Network`, `SonoffApp`, `PageCache`, `Httpd` (three modules) | |
| `MC...` | the instances TLC checks | |

### ServiceIpc

`queue` is the linked list, `posted` the posts in the ETS queue, `event` the
event whose handler runs.  A call of the core or the app appends and always
posts (`Send`); the one-slot queue refuses most of these posts.  The task returns
early (empty list, or TCP busy: it posts again), or takes the head and runs its handler; the handler may
send, which is why the task is cut into `TaskBegin` and `TaskEnd`.  `TaskEnd`
unlinks the event it took and posts again if any remain.  Payloads are the
event's number.  `sendLen`, the length of the TCP send queues, changes freely
here and is the real one in `Port`.

### TcpConn

`ctx`, `esp` and `active` are the contexts, the espconns and the list of active
connections, `evq` the event queue.  `accepted`, `wire` and `acked` are history:
what `my_send_data` took, what `espconn_send` took, and how many sent callbacks
came; `robbed` marks an entry whose FIFO was freed when another connection
ended.  Each callback and each call is one action, since nothing preempts it.
An espconn is used for one connection; a server's or client's memory that is
reused later is another member of `Esp`.  `Esp` is therefore a bound on a
behaviour, as is `MaxData`; `Ctx` and `EventQueueLen` are the pools of the code.

`user_tcp_discon_cb` of a client frees the espconn and its `proto.tcp` and then
reads `remote_ip` and `reverse` from them (`user_tcp.c:237-246`).  The model lets
it read what was there, which is what it finds as long as nothing in between
allocates; with an allocator that overwrites what it frees, the callback would
discard whatever context the pointer then leads to, which no property allows
for.

The events carry only their type and their context, as
`wish_message_processor_notify` posts them; the model keeps `metadata`, always
NULL, because the code reads it.

`Faults` says what the environment may do, so that each run names what its
property depends on: callbacks later than 5 s, a close while a connection is
being opened, a context reused while an event about it is queued, a full event
queue, no memory, `espconn_send` refusing for now (`MAXNUM`) or for good.

A refusal in a sent callback leaves the entry busy with nothing in flight
(`user_tcp.c:177`): no callback comes, later data only queue.  `Stalled` is that
state, and what the exceptions in the properties of `Port` refer to.

### WifiSetup, Discovery, Relay, Network

`saved` is the station configuration in flash, everything else is RAM and is
lost in `PowerCycle`, `reboot_timer_cb` and `RestoreRestarts`.  Timers are
one-shot; `timers` is the set of those armed.  The SDK joins, fails to join,
loses and rejoins by itself (`LinkChanges`).  `espconn_delete` refuses to stop a
server that has connections, so `wifi_invoke` may or may not stop it.

`wifi_invoke` is cut where a loss of power makes a difference: it queues its
answer and stops the server, stores the credentials (`StoreCredentials`), and the
answer leaves later (`AnswerLeaves`).  No callback runs between the first two;
`Callback` says so.  `commissioned` begins when the peer has the answer.  Each
invocation arms the restart anew, so that a peer that never stops invoking
postpones it for good: the liveness properties except that.  `gaveUp` records
that the poll which gives up found that joining had failed.

A block of memory is a number.  `heap` has the espconns of discovery, `udp`
those the SDK knows.  `EnableDiscovery` is part of `user_wifi_start_ap` and of
`user_check_ip`, as in the code; that enabling twice loses the first two
espconns is visible as a `heap` of four.

`Relay` keeps the static pointer (`espconn`) apart from what is allocated and
from what the SDK knows, and records in `misused` a use or a free of something
that is not allocated.  Any number of relays share the pointer.  The callbacks
get their own espconn from the SDK; a send and a close take the static one,
whatever relay they are for, and `crossed` records that it was another's.  The
SDK may refuse to connect, which the code does not look at (`user_relay.c:154`),
and may refuse to disconnect what has not connected yet; the code then frees the
espconn at once, and `outlived` records that the SDK kept it nevertheless.
Memory of an espconn the SDK still knows is not handed out again.  In `Network`
a restart of the setup cuts the relay connections off.

### SonoffApp

The interrupt is cut between its read of the level and its clear of the status,
the timer after each read of what the interrupt writes.  A load or save of the
settings may fail; the file then holds the old byte, the new one, or nothing, and
`failed` records it until the next load or save.  `heldFor` stops
counting one second past `LongPress`; nothing distinguishes larger values.

### FlashHal and PageCache

The flash is a function from addresses to bytes; a byte is free, a value, or
garbage when programmed with two values.  `my_spi_read` and `my_spi_write` split
a call into head, words and tail as the code does; `Other` is a byte that is not
what it should be.  `PageCache` has the pages with their state (`used`, `wr`),
access times and contents, and the four kinds of access the nucleus makes.

### SPIFFS

The code runs to completion on the task that calls it.  A function of the
nucleus is therefore an operator from one record to another: the flash (`lu`,
`pg`, `ec`), the volatile `struct spiffs`, and the call under way (`res`, `err`,
`work`, `pix`).  After an error nothing more is done until the caller handles it,
which is what `SPIFFS_CHECK_RES` does.  A call is given the number of flash
writes its power lasts for; a write beyond them changes nothing and stops the
call, so a loss of power is a call with a small `power`, and every point between
two writes is reached without any change of the functions themselves.

Pages are numbered without the lookup pages.  A byte of content stands for as
many as one likes; `DataLen` of them fill a page.  A field is FREE until it is
programmed, and `Garbage` when it is programmed with two values.  Page headers
have their fields and flags, written in the order of the code.

`Spiffs` has one action per call, with two descriptors held by two users who
keep to the rules a caller must keep (listed in the module).  `Careless` lifts
two rules that the code needs but does not state.  `hurt` is the set of files of
which nothing is promised any more: those of a write that ran out of flash, or
of a call whose power failed.  `FileStore` says what each call does to stored
and pending contents; a pending write may be stored by any later call.

`SpiffsCheck` has the three passes; `SpiffsPower` cuts the power at any write of
any call that writes, mounts and checks, and does to files the damage that
`spiffs/src/test/test_check.c` does, and one more, the loss of a page together
with the reference to it.  The three kinds are told apart: `damage`, `badref` (an
index that refers to no page) and `lostref`.  `lu_work` is modelled where it
matters: the repair of a bad reference (`FixBadRef`) reads the id of its object
from there after the search for the page has left a lookup page in it.

### Httpd

A callback is an operator from the state of the server to its next state, since
one callback runs through many functions.  What is sent is a sequence of parts
`<<n, kind, k>>`: part `k` of the answer to request `n` of a connection.  A
request comes in pieces, cut anywhere.  `tcp` is the SDK and the client,
`conn` the pool, `handles` what the CGI functions have allocated, `sockets` the
list of websockets, `answer` the history of what was to be sent.

A file is read in blocks of 1024 bytes.  Of those in `FullFiles` the length is a
multiple of it, so that the last read is empty and sends nothing.  A request is
for a websocket if it has a valid `Upgrade` and key (`IsSocket`), otherwise
`cgiWebsocket` answers 500.  A websocket is ended by a close frame of the client
or by the application (`CloseSocket`), whose close the client answers: then
`at` is 1, the code's `closedHere`, and the receive handler is done without
sending.  `hostName` is gone once a byte of a body was read (`HostName`).  Frames
that break the protocol are not modelled; `MaxFrames` bounds what each side sends
over a websocket.

## Runs

All instances are small, and large enough for the case each property is about.

| Run | Properties | Instance and why it is enough |
|---|---|---|
| `service_ipc` | `NoLostWakeup`, `EventIsHead`, `NothingLost`, `ImplementsChannel`, `EveryEventHandled` | 4 events, send queue up to 2: an event in the handler, one sent by it, one behind both, and the empty list again. 885 states |
| `tcp_two` | `EntriesAlive`, `HeldIsPending`, `StreamIntact` | two contexts, two connections, 3 data items (in flight, next, behind), refusing and failing sends, an event queue of two. 1 323 150 states |
| `tcp_faults` | `TypeOK`, `SentOnceInOrder` | two contexts, two connections, every fault; an event queue of one, so that it is often full. 750 012 states |
| `tcp_wrong_fifo` | `SentCallbackHasData` (violated) | two connections and no fault |
| `tcp_refused` | `RefusedIsRetried` (violated) | one connection, `espconn_send` may answer `MAXNUM` |
| `port` | `IpcEventsHandled`, `EventsProcessed`, `CloseCompletes` | an IPC event, two connections on one context, two data items, an SDK that never answers a disconnect and refuses to send. 383 671 states |
| `wifi_setup` | `StoppedServerRestarts`, `DiscoverySound`, `RelayExact`, `CommissioningSticks`, `SetupOffersAp`, `ServesOnceJoined` | the setup has no bound; joining may fail; two relays and two espconns at a time, followed (`RelayFollowed`) until one of the two calls of `RelayExact` goes wrong, and while the device is online without a peer, since the restarts are all they share. 110 603 states |
| `sonoff` | `SettingsSurvive`, `ButtonSettles`, `LongPressRestarts` | `LongPress` = 10, as in the code; no bound; calls of the file system may fail. 275 220 states |
| `flash` | `ReadsTrue`, `PendingKept`, `ImplementsNor` | 24 bytes in two pages, a cache of two, 3 accesses: writes that have a head, words and a tail at both alignments of the source, and an eviction; the buffer of 12 holds a whole page, as the 256 bytes of the code do. 24 936 states |
| `spiffs` | `NoneLeaked`, `CountersMatchFlash`, `NoCellSpoilt`, `FilesIntact`, `DescriptorsCurrent`, `ImplementsFileStore` | 4 blocks of 4 pages, two files with up to two index pages, two descriptors, three calls from a fresh flash with no file open, and from a worn (garbage collected twice) and a nearly full one with nobody, two users of one file or one of each holding descriptors. 29 982 states |
| `spiffs_power` | `CheckEnds`, `MendedIntact`, `CutSparesOthers`, `DamageMended`, `CheckIsIdle` | the same flash, two calls of which one may lose its power after 0 to 25 flash writes, more than any call here makes. 6 148 states |
| `httpd` | `StreamKept`, `OneAnswerEach`, `PoolExact`, `RequestsServed` | two clients and two slots; one asks twice among ten requests (every CGI function, files of both lengths, kept alive or not, a POST of more than the post buffer, one to another host, a websocket's url without an upgrade), one has a websocket that either side closes; a backlog of two, so that it fills. 101 043 states |

The starting states of the SPIFFS runs are made by earlier calls of the model
itself, so that they are states the code gets into; three calls from there see
garbage collection in the middle of an append, a rewrite or a rename.

Deadlock is not checked where the bounds end a behaviour or where the system
rests; `sonoff` and `wifi_setup` check it.  Contexts, and espconns, are
symmetric in the runs of `TcpConn`, which check invariants only.  The SPIFFS
runs have a VIEW that leaves out `files`, which is a function of the rest, and
`call`, which only says what the step asked; both are read by the properties in
the step that sets them.

Every property has a mutant, a plausible wrong version of one definition
(marked `mutant:` in the modules) under which the property fails.

## Fairness

Only what the chip and the SDK guarantee.

* ETS runs a task that has a post, the one of higher priority first: weak
  fairness of the task actions.  A handler returns: weak fairness of `TaskEnd`.
* Time passes, so timers expire and limits are reached: weak fairness of
  `CloseTimesOut`, `reboot_timer_cb` and the like.
* The core retries a close once a second (systick, `user_main.c:93-107`): weak
  fairness of `Retry`.
* The SDK reports what it has sent: weak fairness of the sent callback.  It is
  *not* assumed to answer a disconnect request in `port`, nor the core to send
  again.
* The SDK eventually reports the end of a scan.  Joining a network is not
  assumed to succeed, and a peer is not assumed to come.
* In `SonoffApp` two actions need strong fairness: the start of the timer, which
  interrupts disable again and again but which the SDK queues rather than drops,
  and the once-a-second part, which alternates with plain returns of the timer.
* In `Httpd` the SDK delivers what has come, reports what was acknowledged and
  ends what it was told to end.  Weak fairness is written out there as
  `[]<>~guard \/ []<><<A>>_vars`, its definition, with the guard of the action
  for ENABLED: the guards are all that decides whether these actions are enabled,
  and TLC cannot evaluate ENABLED of such large steps.

`EveryEventHandled` supposes that the TCP queues are empty for good from some
time on; `Port` is where the real TCP layer takes the place of that supposition.
There the two properties of the tasks except one state, `Stalled` for good: a
datum that the SDK has refused, which nothing of the port sends again while the
connection lasts.  The IPC task then re-posts itself for as long
(`service_icp.c:61-66`), and, as it goes first, keeps the message processor from
its events.  `SetupOffersAp` supposes that restarts cease; `CommissioningSticks`
and `ServesOnceJoined` that nobody invokes the commissioning again and again.
`RequestsServed` excepts a connection that is not kept and asked for a file that
ends with an empty read.  `LongPressRestarts` excepts a press whose edge the
interrupt cleared unseen.

## Proofs

TLAPS checks the following for every value of the constants, from the named
assumptions of the modules only (pool and NULL values are different, bounds are
natural numbers, `Faults` is a set of known faults, the cache has more pages
than there are descriptors, the table of urls names functions there are), and,
where it is said, from a hypothesis about faults or clients.

* `ServiceIpcProofs`: `TypeCorrect`, `WakeupNeverLost`, `EventStaysHead`,
  `NeverLosesEvent`, and `Refinement`, that `ServiceIpc` implements
  `FifoChannel`.  `NoLostWakeup` alone is not inductive: what the task does at
  its end depends on its event being the head of the list.  The
  inductive invariant is the conjunction of the four with `PostInHandler`:
  while a handler runs a post waits only if a further event does.
* `TcpConnProofs`: `TypeCorrect`.  Mostly that every pointer leads into its pool
  or is NULL, whichever of the five paths took it apart, and that the event
  queue stays within its length.  The lemma `FirstMatchingInList` says that the
  search of the code finds an entry of the list.

  `SentOnce`: a datum is given to the SDK at most once and in order, with any
  number of connections and all faults.  What is on a wire is right because of what is in the FIFOs, so the invariant `IInv`
  adds: an espconn has one entry; a datum is at one place of one FIFO; FIFOs
  keep the order of acceptance; and a datum that is *waiting* (not the head of a
  busy entry) is on no wire and was accepted after everything on the wire of its
  entry.  An action is a composition of four changes: entries are removed or
  lose data (`ShrinkKeepsStreams`, with an embedding of the new list into the
  old one), an empty entry is appended, a new datum joins a FIFO, the head of an
  idle entry is given to the SDK.  Each keeps the invariant; the sent callback,
  for instance, is a removal followed by a giving.  That the wrong FIFO is
  emptied in `Cleanup` does not matter, since emptying is a removal: this is why
  the theorem holds although `SentCallbackHasData` does not.

  `EntriesStayAlive`: an entry of the list belongs to a living connection, the
  only one of its context.  Its hypothesis is that three
  of the faults are absent: a callback after the 5 s limit, a close of a context
  that is still being opened, a context reused while an event about it is
  queued.  The other faults (full queue, no memory, failing sends) may occur.
  `EntriesAlive` follows from the links of all three owners, so the invariant
  `LInv` is `IInv` above with `Linked`, one conjunct per pointer: a connection
  being opened is the only one of a context that points nowhere yet and that no
  event names; a living one that points to a context is what that context points
  to; a pointer of a context leads back to it; an overdue context points to
  nothing alive; the message processor never gets a pointer.  An action changes
  none of these, takes a connection down, brings one up, or opens one.

  `HeldIsReleased` supposes that the event queue is never full and that the same
  three faults are absent; failing sends and missing memory are allowed.  Each
  held connection is announced by an event of the queue, which the message
  processor reaches because nothing is lost there; what makes the invariant
  (`HInv`) inductive is that an unused espconn is never on hold, so one that is
  reused starts without.

  `StreamStaysIntact` is for any number of contexts; it supposes that the same
  three faults are absent.  The queue may be full, memory missing, and sends may
  be refused or fail.  The one loss it allows is that of an entry whose FIFO
  `Cleanup` freed for another connection (`robbed`): with one context that never
  happens, with two `tcp_wrong_fifo` shows that it does.  The invariant
  (`FInv`) speaks of each entry and the espconn it leads to: what is given and
  confirmed, followed by the FIFO behind what is given, is what was accepted.
  Four lemmas about sequences (`FlowIsStream`, `FlowQueued`, `FlowGiven`,
  `FlowConfirmed`) say that queuing, giving and confirming preserve this.
* `SonoffAppProofs`: `TypeCorrect` and `SettingsOutlivePower`, whatever calls of
  the file system fail.  The invariant adds that between the change of an endpoint and the end of the callback
  followers know the change already: the callback tells them before it saves.
* `NetworkProofs`: `ServerComesBack`, `DiscoveryIsSound` and `RelayIsExact`.
  That `heap` never exceeds four is not inductive: the invariant counts what may
  still be enabled in this boot (the access point until its timer has fired, the
  first address until the server has started), and that a scan that is not over
  has not armed that timer.  The last theorem is for any set of relays and any
  refusal of the SDK.  Its invariant adds to `RelayExact` that no two espconns are
  of the same relay: so the end of one, which puts its relay back to the initial
  state, leaves none behind, and each relay has one espconn or is in its initial
  state.

* `PageCacheProofs`: `CachedWritesStay`.  Eviction looks for the oldest page
  that caches no write; that a search by minimum finds a page of the right kind
  is proved by well-founded induction on the page numbers.  The invariant says
  that each pending write has a page of its own, and every operation on the
  cache is shown to keep (`Keeps`) all pages of writes.
  `WriteIsProgram` says what `my_spi_write` does.  Its head, its words and its
  tail each program a `Piece`, the bytes of the source from one address to the
  next, and pieces join; bytes of padding program nothing.  The words
  through the buffer are a fold over the chunks, of which there is one since the
  source fits the buffer: a fold over one element is unfolded by hand
  (`OneChunk`, `OneSector`), which needs no induction.
  `FlashIsArray` is the refinement of `NorFlash`: with `WriteIsProgram`, and with
  the geometry of pages and blocks (`Geometry`, `InPage`), a write is a
  `Program`, an erasure with its erase count is an `Erase`, and all other actions
  stutter.  `ReadsAreTrue` needs the invariant `CacheInv`: what is cached of the
  flash is as the flash has it (`Coherent`), no page twice (`CachedOnce`, or a
  write would mend only one of two copies), and the pages of writes belong to
  different objects (`HeldOnce`).  The last, with the pigeonhole principle, is why
  a page can always be read into the cache, so that the reads at odd addresses,
  which the driver answers wrongly, are never made.
  The constants are assumed to be what the port configures: pages are whole
  words, have room for a header and fit the write buffer (all are 256 bytes in
  `spiffs_integration.c:21,155`), and what is written lies within a page
  (`PlacesAssumption`).

* `HttpdProofs`: `StreamsKept`, for any pool, table of urls, limits and requests.
  `httpdFlushSendBuffer` sends at once when it can, without looking at the
  backlog; that it never overtakes what waits there follows from the invariant
  `Good`: while a connection is up, a buffer waits only as long as the SDK has
  one to report (`Streams`), and a connection of the SDK has exactly one slot
  (`Linked`), so that no callback writes to the stream of another.  A callback is
  a composition of functions from server to server, so the proof is one of
  functions: each CGI is shown once to leave streams alone (`Keeps`), then
  `httpdFlushSendBuffer`, `httpdCgiIsDone`, `httpdProcessRequest` and so on to
  keep `Good`.  The folds (table, units, frames, websockets) need an induction
  that the library has only for operators; `FoldExists` does it with sets and
  functions instead, and one lemma per fold applies it.
* `HttpdServeProofs` and `HttpdPoolProofs`: `OneAnswerForEach` and
  `PoolStaysExact`, that every request gets one answer, whole and in its turn, and
  that slots, handles and the list of websockets are exactly what the connections
  use.  Neither property is inductive, nor is either without most of the other:
  what is allocated is right because of where each request stands, and that
  because no callback touches what another connection uses.  The invariant
  `ServerInv` is `Good` with three parts.  `Tended` says of each connection that it
  rests, waits for headers (`Calling`), gathers a body (`Gathering`), reads a file
  (`Reading`), has a websocket (`Open`) or ends (`Ending`), and in each case what
  its slot holds, what its client may still send, and after which part of which
  answer it stands.  `Pooled` says that each slot whose CGI is not done has a
  handle of its own, that no others are allocated, and that the list has each
  websocket once.  `Silent` says that a connection that is gone has left no answer.
  Inside a callback the invariant does not hold: the send buffer is not flushed,
  handles are taken and given back.  `During` says what does hold there of the
  slot the callback is about, and `After` what holds once the buffer is flushed;
  each function the callback is composed of is shown to lead from one to the other
  (`CallServes` for the CGIs, `DoneServes`, `SearchFinds` for the search of the
  table, `HeadersServes`, `PostServes`, `FrameServes`, ...), and the folds over the
  units of a segment and the websockets of a broadcast again by `FoldExists`.
  `AfterSound` then gives `ServerInv` for the whole server, since nothing but the
  slot has changed.  That a handle is free whenever one is needed is a count: the
  others hold at most one each (`HandleFree`).
  These two theorems, and no other, use `ClientAssumption`: a body longer
  than the post buffer is for an upload, and websockets have their url to
  themselves and are opened by a GET.  Without it the properties are false of the
  code: a CGI that is done before a longer body is there leaves the rest to be
  taken for the headers of a next request, which is then answered too.  TLC
  evaluates the assumption in the run `httpd`, whose clients meet it.

Only model-checked:

* everything about liveness, since ENABLED and fairness are beyond the prover,
  and `Port`, whose properties are of that kind;
* the SPIFFS modules, which have RECURSIVE operators (object names, index maps
  and the passes over blocks are of any length).

## What the code does and a comment says otherwise

`tcp_wrong_fifo`: `cleanup_active_conn` frees the FIFO of the *first* connection
in the list (`user_tcp.c:213-214`), not of the one that went down;
`user_tcp.c:152` takes for granted that the FIFO is not empty.  Two connections
suffice, no fault.  `StreamIntact` says that data are lost in this way only, and
`SentOnceInOrder`, under every fault, that nothing is repeated or reordered.

`tcp_refused`: after `ESPCONN_MAXNUM` in a sent callback the comments at
`user_tcp.c:178-179` promise to send later and to retry.  The entry stays busy,
nothing is in flight, so that no callback follows, and `my_send_data` only queues
(371).  The connection is silent until it is closed, and the IPC task waits
meanwhile.

Also seen while modelling and checking.  No passing run depends on these going
well: they are excluded by a rule named in the module, or allowed for in the
property.

*TCP.*

* On an unrecoverable error in the sent callback `elt` is NULL and dereferenced
  (187-189); the comment says the datum is dropped.
* A connection refused for want of a context is to be closed by the message
  processor (comment at 297), which never gets the pointer (`user_task.c:72`).
* After the 5 s limit a late sent callback of the old espconn finds no entry, or
  one of a new connection that reused the context (143-148).
* The core may close a context whose connection is still being opened, and the
  connect callback then writes to a context that may be another's (788-795).
* A queued CLOSING event names a context by its address and hits the next user
  of it (82-87).
* An espconn whose list entry could not be allocated swallows data and reports
  success (330-344).
* A refusal in `my_send_data` (384) leaves the entry idle; the datum waits for
  the next call, which may never come while the IPC task, through which apps ask
  for it, waits for the FIFO to empty.
* The disconnect callback of a client reads an espconn it has freed (237-246).
* A NEW_DATA event that found the queue full leaves the connection on hold for
  good (`user_task.c:72`).
* Espconns of failed connection attempts are never freed (507-508, 740), and two
  allocations are used unchecked (743).
* An event of the IPC whose payload cannot be allocated is leaked and the sender
  not told (`service_icp.c:122`).

*Setup, discovery, relay.*

* The DHCP check gives up at the first failed join (`user_tcp.c:687`), and
  `mist_config.c:223` says the server starts whenever there is an address.
* The message processor task is created after the apps (`user_main.c:205`): what
  they post before is refused.
* Discovery is left on when commissioning begins, although
  `mist_config.c:219` says broadcasting stops: nothing calls
  `user_stop_wld_bcasts`.  Enabling it again in the same boot loses the first
  two espconns.  `wish_ldiscover_disable_recv`, which nothing calls either,
  leaves its pointers set.
* Two relays share the one static espconn: a send or close for one uses the
  connection of the other (`user_relay.c:62,161`).  A close that the SDK refuses
  frees an espconn (163-168) that the SDK may still call back for, which then
  frees it again.  `RelayExact` names both and holds until then.  An
  `espconn_connect` that fails is not noticed (154), and the relay stays
  connecting until the core closes it.
* In `gpio_isr` an edge between the read and the clear is lost, so that a short
  press can look like a long one, and a long one like none.

*Flash HAL.*

* The odd bytes before an aligned address are copied from `&tmp + 4 - nb`, where
  `tmp` is a `uint32_t` (`spiffs_integration.c:117-127`): they come from the
  stack.  As many are copied even if fewer were asked for.  SPIFFS reads at odd
  addresses only past the cache, which happens for erase counts when the lookup
  page is not cached; `ReadsTrue` leaves these reads out.
* An unaligned source longer than the 256-byte buffer advances by four times
  what was copied (198-207; the comment before the buffer's size says that a
  smaller one corrupts things).  Pages here are 256 bytes, so that it does not happen.

*SPIFFS.*

* A descriptor opened by page and never used by name has score 0, and
  `spiffs_cb_object_event` skips it (`spiffs_nucleus.c:1037`), as the comment at
  `spiffs_nucleus.h:443` does not intend: a removal leaks the descriptor, and a
  garbage collection leaves it with a header that is not there.
* `SPIFFS_fremove` of a file with an index map leaves the map in the descriptor,
  which is used for the next file opened (2239).  These two are what `Careless`
  lifts.
* A write that meets a full flash midway loses or orphans data of its file; the
  failure of a flush is ignored by seek, read, fstat and unmount.
* The repair of an index that refers to no page reads the id of its object from
  `lu_work` (`spiffs_check.c:566`), where the search for the page (596) has left a
  lookup page: it is the first entry of the block read last.  Unless that is the
  file's own, the index is not rewritten, its page is deleted (622) and the file
  is gone.  `DamageMended` allows for that, and for nothing else.
* Power lost in a garbage collection, between the finished copy of a header and
  the deletion of the original: the check finds two headers and deletes the
  file, though it was not being written (`spiffs_gc.c`, `spiffs_nucleus.c:812`).
  `CutSparesOthers` says so.
* One check may leave pages of a half deleted file; two power losses in a row
  may program a cell twice; a rename cut off may leave both names or none; a
  repair with only the two reserved blocks free fails; an empty file with two
  headers goes unnoticed; a crash during an append leaves a page that the check
  attaches to the file.
* The port mounts and never calls `SPIFFS_check`.
* Seeking to an end that is at the start of an index span fails with NOT_FOUND;
  the index page rewritten by an append is not counted as allocated before it
  runs; an unmapped range beyond the file clears the map pointer; a descriptor
  opened `SPIFFS_O_DIRECT` passes by the pending write of another.

*Web server.*

* `httpdConnectCb` leaks a slot when its third allocation fails; `httpdRecvCb`
  leaks the send buffer for an unknown connection; a response stalls when
  `httpdContinue` cannot allocate, or when a send fails with nothing else on its
  way.  Pipelined requests are dropped.
* A file whose length is a multiple of 1024 ends with a call that is done and has
  sent nothing (`httpdespfs.c:85-92`): a connection that is not kept then waits
  for a sent callback that does not come.  The comment at `httpd.c:769`, that a
  receive handler that is done has sent something, is not true either of a
  websocket that the application closed and the client confirms.
* A POST to another host is answered 404 and not redirected, since its body
  resets `hostName` (`httpd.c:743`).
* After a close frame the receive handler of a websocket stays set while its
  data are gone: data after it dereference NULL (`cgiwebsocket.c:163`,
  `httpd.c:762`).  The clients of the model send nothing after a close.
* A CGI function that is done before the whole of a POST longer than the post
  buffer has come leaves the rest of it to be read as the next request.

## Plan

1. *(done)* Service IPC, TCP connections, the message processor and their
   composition; the WiFi setup; the Sonoff app.
2. *(done)* The flash HAL and the page cache; SPIFFS with garbage collection,
   loss of power and the check, against `FileStore`; discovery and relay; the web
   server.
3. *(done)* Proofs of the links of `TcpConn`, of the settings of the Sonoff app,
   of `Network`, and of the cached writes.
4. *(done)* `HeldIsPending` and `StreamIntact` as theorems; the flash as an array
   of bytes, and reads through the cache, as theorems; the streams, the answers
   and the pool of `Httpd`.
5. *(done)* Refused sends in `Port`, any number of relays, the steps of a
   commissioning, failures of the settings file, bad references in the check,
   empty reads and closing websockets in `Httpd`; `StreamIntact` and `RelayExact`
   as theorems without a bound on contexts or relays.
6. Left: a flash driver that fails; the Sonoff app's settings file on `Spiffs`
   instead of a variable; larger SPIFFS instances (a third index page, four
   calls), which take longer than a few minutes; theorems about SPIFFS, once its
   recursive operators are written as folds.

## Not modelled

* The drivers.  The UART is set up and printed to; the others are SDK examples
  the port does not call.
* `wish_fs`, `wish_platform`, `wish_debug` and `user_support`: function pointers
  and conversions, no state a property could be about.
* The endpoints of `mist_config.c` other than the commissioning, which only read
  data; whether a friend request is accepted is decided by the core's identity
  database, which is not here.
* In the web server: the file system image and heatshrink, the DNS server of the
  captive portal (`captdns.c`), the Wi-Fi CGIs, authentication, gzip
  negotiation, failing allocations.
* In SPIFFS: driver errors, the hooks and callbacks of the user, the
  visualisation; the pass over the lookup leaves out what no call, loss of power
  or damage of the tests makes (see `SpiffsCheck`).
* The contents of messages, the list of scanned access points, the strings of
  the access points and the LED.
