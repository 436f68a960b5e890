# TLA+ verification of the ESP NMEA bridge

The ESP NMEA bridge is Zephyr firmware for an ESP32-C6. It reads NMEA-0183
lines from a UART, turns them into frames, fans the frames out to TCP peers
(accepted by a server, or dialled by a client), shows its state on an RGB LED
and on a small web page, and keeps a Wi-Fi station and an access point up. All
source paths below are relative to `src/`.

This directory holds TLA+ modules of its components, TLC configurations that
check them on small instances, and proofs that TLAPS checks for every instance.
`PROJECT.json` is the index: runs, the source lines of every definition,
hazards, findings, and faulty variants.

## 1. Inventory

The program has one core and a preemptive priority scheduler. Its threads, with
their priorities (smaller runs first): `main` 0, UART receiver 4, dispatcher 5,
TCP server, TCP sessions and TCP client 7, web 8, statistics, LED and Wi-Fi
retry 10. The Zephyr `net_mgmt` event thread is cooperative by default, so that it
runs before all of these; the repository does not set its priority, and the
models cover a preemptible one below all others, too.

| Component | State | Operations | Talks to |
|---|---|---|---|
| NMEA bridge, `src/nmea_bridge.c` | ingest queue; per sink: `active`, queue, counters; `sinks_lock`; bridge counters | `publish_frame`, the dispatcher loop, `sink_open/take/close` | called by the UART receiver and the sessions |
| UART receiver, `src/uart_nmea.c` | line buffer, `dropping_overlong`, counters | one loop that polls a byte at a time | publishes to the bridge, reports to the LED |
| TCP session, `src/tcp_nmea_session.c` | sink handle, descriptor, `active_sessions` | `session_run`: open sink, drain the socket, take, `send_all`, end | bridge, LED; run by server slots and by the client |
| TCP server, `src/tcp_nmea_server.c` | `clients[]`: `active`, `fd`, thread object | listen, accept, allocate a slot, spawn or reject, release | session |
| TCP client, `src/tcp_nmea_client.c` | `backoff_s` | host lookup, connect, session, backoff | Wi-Fi manager (gateway), session, LED |
| Wi-Fi manager, `src/wifi_manager.c` | `sta_connected`, `sta_has_addr`, `sta_connect_requested`, backoff, all without a lock; `sta_retry_enabled` | `wifi_manager_start` (MAC rotation, DHCP server, access point, first connect), event handlers, retry thread, `sta_ready`, `get_sta_gateway` | driver, DHCP, `net_mgmt` |
| Bridge telemetry, `src/bridge_telemetry.c` | count and time of the last seen frame | `get_snapshot` | reads everybody's counters |
| Status LED, `src/status_led.c`, `status_led_policy.c` | policy state under a mutex, wake semaphore, last applied colour, retry time | event reports, render thread | reported to by UART, sessions, client |
| Web app, `src/web_app.c` | its listening socket; one request buffer | accept, one read, route, answer, close | browsers, telemetry |
| Boot and log, `src/main.c` | none; which threads exist, which mutexes are initialised | starts the others in order; periodic log | all |
| DNS-SD records, web page, board definition | static data | - | - |

What is hard here, and what makes each component correct:

- **Bridge.** Dropping the oldest frame takes three queue calls; only thread
  priorities keep a consumer from coming between them on the ingest queue.
  `sink_take` uses its slot after it has released the lock. Slots are reused by
  other sessions. Correct means: slots are exclusive, every lost frame is
  counted, order is kept, a new owner sees nothing of the old one, and the
  dispatcher does not stop.
- **UART.** Resynchronisation after overlong lines, and the boundary at the
  buffer size. Correct means: what is published is whole lines, in order, and
  each loss is visible in a counter. The line the receiver joins in the middle is
an exception (finding 5).
- **TCP.** Descriptors are numbers the stack gives out again at once, a session
  closes its own before its slot is released, the client closes its own when it
  cannot connect, `zsock_send` may take a part of a
  frame, and the slot is released before its thread has ended. Correct means:
  no descriptor is shared, closed twice or leaked, frames are whole on the
  wire, sinks and counts come back, slots come back.
- **Wi-Fi.** Four kinds of threads write three flags without a lock, a
  request is recorded after it has been made, and news of the link come through
  a queue that drops what does not fit. Correct means: the station never
  stops trying, and is not reported connected when it is not; `main` and the
  retry thread do not connect at the same time; a failed step of
  `wifi_manager_start` leaves nothing half done.
- **Web.** One thread serves one browser at a time, reads a request once,
  however much of it has arrived, and ignores what its sends return. Correct
  means: the page that was asked for and no other, the whole of it, and a
  turn for everybody.
- **Boot.** Static threads run before `main`, created ones as soon as they
  exist, and `main` goes on when the Wi-Fi fails. Correct means: nothing is used
  before it is initialised, and every configured part comes up.
- **Telemetry.** Counters are copied one after the other while they change, and
  the input state is derived from when snapshots were taken. Correct means: a
  snapshot does not contradict itself and its input state is as true as
  snapshots can make it.
- **LED.** A report may come at any point of the render loop, updates may fail,
  times are 32 bits wide. Correct means: no report is slept through, the LED
  catches up after failures, flashes are short.

## 2. Modules

| Module | Models | Correspondence |
|---|---|---|
| `NmeaBridge` | `nmea_bridge.c` | one variable per C object or thread-local; one action per kernel call, and per stretch of code between calls that another thread can observe; `CanRun` is the scheduler |
| `LossyFanOut` | what the bridge promises | no queues, locks or threads; `NmeaBridge!ImplementsFanOut` is the refinement |
| `NmeaBridgeProofs`, `NmeaBridgeQueueProofs` | - | theorems about `NmeaBridge`: types and mutex; queues, counters and the refinement |
| `UartNmea` | `uart_rx_thread` | one action per branch of the loop for one byte; a byte is (line, position); lines are put on the wire by `SendLine` |
| `UartBridge` | the path of a line: `UartNmea` as the producer of an instance of `NmeaBridge` | the newline of a line and the call of `nmea_bridge_publish_frame` are one step; all other steps are those of the two parts |
| `TcpNmeaSession`, `TcpNmeaServer`, `TcpNmeaClient` | the three `tcp_nmea_*.c` | a program counter per thread; sockets are `free`, `open`, `fin` (peer closed) or reset |
| `TcpNmea` | the composition of these three | properties over shared descriptors and sinks |
| `WifiManager` | `wifi_manager.c` | handlers are atomic (the event thread is cooperative, or all other threads sleep while it runs); `main` in `wifi_manager_start` and the retry thread are the two connectors, each with a program counter; readers call `sta_ready`; driver, DHCP and event queue are external. It has no `Next` of its own |
| `Boot` | `main.c` and the `*_start` functions, composed with `WifiManager` | one action per call of `main`; the other threads appear as the locks they take |
| `WebApp` | `web_app.c` | one action per socket call; text is a sequence of tokens none of which begins another, so that `strncmp` and `strchr` are sequence operators |
| `BridgeTelemetry` | `bridge_telemetry.c` | one action per `get_stats` copy, then `Build` |
| `StatusLed` | `status_led.c`, `status_led_policy.c` | policy calls are atomic under `status_led_lock`; reading the clock and giving the semaphore are steps of their own |
| `UartBridgeProofs`, `TcpNmeaProofs`, `BootProofs`, `BridgeTelemetryProofs`, `StatusLedProofs`, `WebAppProofs` | - | theorems about the module each is named after (section 4) |
| `MC...` | - | instances for TLC |

**Abstractions.** Frames in the bridge are numbered by acceptance and have no
bytes; payloads on sockets are byte counts; addresses and host names are "found
or not"; colours are names; log output is left out. Time is kept only where
code compares times (telemetry, LED). History variables (`log`, `joined`,
`accepted`, `copied`, `pause`, `age`,
`unseen`, `early`, `lost`, `overtaken`, `stale`, `asked`, `got`, `failed`) are written by actions and read only by
properties, except that `frame` at opening records the dispatch position for
the refinement mapping.

**Faulty variants.** A definition used nowhere, such as `DropNewest` before
`DropOldest`, is a plausible bug in the code modelled by the definition that
follows it. `PROJECT.json` ("mutants") says which property fails with it, so
that each property is known to depend on the code it is about.

## 3. Runs

`tlc -config X.cfg M`; with two workers `led`, `bridge` and `boot` take two to
three minutes, the others a minute and a half or less.

| Run | Config | Shows |
|---|---|---|
| `bridge` | `MCNmeaBridge.cfg` | `TypeOK` (queues within their buffers, the unsigned difference of drop counters not negative), `ExclusiveSinks`, `IngestExact` and `SinkExact` (every frame dispatched, queued, taken or counted as dropped), `SinkQueueIsSuffix` (a queue holds the newest frames, nothing of an earlier owner), `ImplementsFanOut`, `OpenNeverFails` |
| `uart` | `MCUartBridge.cfg` | from the wire to the sessions: `FramesAreLines`, `LossExplained`, `NoRejects` (no line the receiver publishes is refused by the bridge), `QuietMeansComplete` (while neither warning of the status page is on, every line is with the session or on its way), `EventuallyDispatched`, with more sessions than slots so that `sink_open` also fails |
| `uart_join` | `MCUartBridgeJoin.cfg` | violation: see finding 5 |
| `tcp` | `MCTcpNmea.cfg` | server and client together: `FdExclusive`, `NoFdLeak`, `SinkAvailable`, `CountsNested`, `WholeFrames`, `ConnectingTruthful`, `SlotsComeBack`, `ClientReconnects`, backoff range |
| `tcp_thread` | `MCTcpNmeaThread.cfg` | violation: see finding 1 |
| `boot` | `MCBoot.cfg` | five builds come up while their threads run, parts of the Wi-Fi fail and events are lost: `InitBeforeUse`, `OneConnector`, `StartLeavesWhole`, `BootCompletes`; and from then on, with either kind of event thread, `RequestAnswered`, `ConnectedTruthful`, `TriesAgain` |
| `wifi_retry` | `MCBootRetry.cfg` | violation: see finding 2 |
| `wifi_linked` | `MCBootLinked.cfg` | violation: see finding 4 |
| `telemetry` | `MCBridgeTelemetry.cfg` | `IdleTruthful`, `SnapshotConsistent`, `ActiveNotStale` |
| `web` | `MCWebApp.cfg` | `TypeOK` (room for the end of string), `RightAnswer`, `WholeResponse`, `EveryoneServed` |
| `led` | `MCStatusLed.cfg` | `TypeOK` (retry delay capped), `NoLostWake`, `LedCatchesUp` |
| `led_flash` | `MCStatusLedFlash.cfg` | violation: see finding 3 |

### Bounds

- Bridge: two sessions and two sinks are enough for a slot to pass from one
  session to another while the other slot is in use; queues of depth 2 are the
  smallest in which oldest and newest differ; four accepted frames
  (`MaxFrames`) overflow the ingest queue, or a sink queue whose session does
  not take. One rejected publication (`MaxRejects`), for either reason,
  shows that it disturbs nothing. The lengths are 0, the maximum and one more.
- UART and bridge: a buffer of 2 bytes, up to 3 lines of 2 to 4 bytes, and every
  place in the first line where the receiver may start: all positions of the
  newline around the boundary, and an overlong line before and after a fitting
  one. Two sessions, one sink and queues of depth 1: `sink_open` fails for one of
  them, and frames are dropped as soon as two are waiting; more of the bridge is
  in run `bridge`.
- TCP: one slot and the client, so that two sessions share everything they can
  share, and the server rejects while both run; two descriptors, so
  that a closed one is given out again at once and a free one may be missing.
  What two slots add, each with a session like the client's, is left to the proofs
  of section 4, which are for any number; `tcp_thread` has no client. Frames of 2 bytes,
  so that a send may take a part; one connection waiting to be accepted; a backoff
  capped at 3 instead of 30 seconds (`MaxBackoff`), which is reached by doubling.
  A server may be preempted before a released thread has ended
  (`ExitPreemptible`), as in finding 1, in every TCP run.
  Deadlock is not checked in the server run without a client: a server whose
  `listen` fails stops, as in the code.
- Boot and Wi-Fi: the web thread as the reader, and five builds out of the
  Kconfig options: station, server and client, with each kind of event thread;
  station and access point; the access point alone, without a server; both without
  an SSID. The event queue holds 3 events instead of the 16 of `prj.conf:49`
  (`EventQueueSize`), enough for the events of one attempt to wait together, and
  few enough that it overflows within a short run; the two violations have 16 and
  do not overflow it. The state space is finite without further bounds.
  Deadlock is not checked: a UART that is not ready ends `main`.
- Web: three browsers for a backlog of two, so that one is served while two
  wait, and the third is refused while nobody is served; a buffer of 9 tokens, which the longest
  request does not fit; headers and bodies of two tokens, so that a send may
  take a part. The requests are every page, the empty path, beginnings and an
  extension of the status path, an unknown path and another method. Deadlock is
  not checked because `listen` may fail.
- Telemetry: a window of one tick, four ticks and two lines: a frame inside
  the window, one outside it, and snapshots at any time. Deadlock is not
  possible before the bounds because sessions change at any time.
- LED: time wraps after 4 ticks (8 in `led_flash`) instead of 2^32 ms; the
  flash lasts one tick. Attempts saturate at 2 and the delay at its initial
  value, so that both caps are reached. The UART reporter is only in
  `led_flash`; it takes the same steps as a session that reports.

### Fairness

- `NmeaBridge!Fairness`: the dispatcher, a publication in progress, and a
  session that holds `sinks_lock` go on. The last one rests on the priority
  inheritance of Zephyr mutexes. Nothing makes a session take or close, or the
  UART publish.
- `TcpNmea!Fairness`: each thread goes on where the code alone decides
  (`Proceeds`). Nothing is assumed of a peer: `zsock_send` has no timeout and need
  not return while the peer does not read, and `drain_socket_rx` reads until the
  socket is empty and need not end while the peer has not closed. `SlotsComeBack`
  therefore names what is left as its exception (`NeverReads`): a peer that has
  closed its side, reads nothing more and never resets keeps its session, its
  slot and its sink. A connect ends in some way, because the stack gives up. The
  slot of a thread that was lost (finding 1) is not in a session, and
  `SlotsComeBack` says nothing of it; `PeerGetsSession` does.
- `Boot!Fairness`: `main` and the threads go on and the driver answers every
  request it has accepted. Strong fairness of the event thread: it may be the
  lowest thread, but the others sleep again and again.
- `WebApp!Fairness`: the thread goes on where the code alone decides. Nothing is
  assumed of a browser: `zsock_recv` and `zsock_send` have no timeout, and
  `EveryoneServed` names as its exception (`HeldUp`) one that stays connected and
  sends nothing, or reads nothing: it keeps the
  status page from everybody else. Strong fairness of `Accept`: accepting may
  fail any number of times, but not for ever.
- `StatusLed!FairSpec`: time passes, the thread runs, and the strip does not fail
  for ever (strong fairness of `UpdateOk`).

### Findings

1. `tcp_thread`: `close_client` makes a slot available while its thread has
   still to return; `server_thread`, at the same priority, may then call
   `k_thread_create` on a live thread object, and the peer's session is lost.
   `CONTEXT.md:20` promises "one TCP NMEA session per peer".
2. `wifi_retry`: `connect_sta` sets `sta_connect_requested` after the request
   was accepted. The event thread, cooperative by default, may handle the failure
   first; the flag then stays set and the retry thread waits for ever, although
   the log has announced "retry in %us" (`wifi_manager.c:115`).
3. `led_flash`: flash flags are never cleared and deadlines are compared as
   signed 32-bit differences, so that 2^31 ms (about 25 days) after the last
   event of a kind its flash returns and stays. ADR 0001 speaks of
   "short-lived forwarding flashes".
4. `wifi_linked`: `mark_sta_ipv4_ready`, called by a reader through
   `wifi_manager_sta_ready`, looks for the address and then sets `sta_connected`
   and `sta_has_addr`. A disconnect that the event thread handles in between is
   undone: the status page says "linked" (`app.js:31`) for a link that is gone, no
   event will say so again, and the retry thread takes the station for connected.
5. `uart_join`: the receiver does not wait for the first newline, so that the
   tail of a line it joins in the middle is published as a frame.
   `CONTEXT.md:8` says of a NMEA frame that it "must remain complete".
   `FramesAreLines` shows that this can happen to the first line only.

Behaviours the passing runs describe rather than refute:

- A line exactly one byte too long also takes the line after it
  (`LossExplained`).
- The flags of the Wi-Fi manager can be wrong, and the retry thread stop, in two
  ways: news of the link found the event queue full (`lost`), or, with a cooperative
  event thread, came before a thread set the flag they cleared (`stale`).
  `RequestAnswered`, `ConnectedTruthful` and `TriesAgain` say that there is no third.
- When `net_if_up` fails after the address rotation the interface stays down; the
  code logs it (`up_failed` in `StartLeavesWhole`).
- The first snapshot after a pause reports the input as active for frames that
  were accepted before the window: the snapshot cannot know when the count
  changed. `CONTEXT.md:32` says that counts must increase "during that window";
  `ActiveNotStale` says by how much the report may be late, the longest pause
  between two requests of the status page. The page asks every two seconds while
  it is open (`app.js:99`). `IdleTruthful` shows that the opposite error does not occur.
- An LED update that fails after it has changed the pixel, and is followed by
  the colour that was there before, is not repaired until the colour changes
  again: the cache holds that colour. `LedCatchesUp` names this exception
  (`WriteLost`).
- `clients_lock` is initialised by `tcp_nmea_server_start`, which does nothing
  when the server is configured out; the web thread then takes a zero-filled
  mutex, alone (`InitBeforeUse` leaves this build out).
- When a response header cannot be sent, the body is sent after it all the same
  (`WholeResponse` is about connections that hold).

## 4. Proofs

Every invariant of a passing run, the refinement of `LossyFanOut` and the
action property `OpenNeverFails` are proved for every value of the constants.
The temporal properties under fairness are model-checked only (end of this
section). Check a module with `tlapm M.tla`; the longest takes two to three
minutes.

Constants are constrained by the assumptions of the modules that declare them,
which TLC evaluates in the runs: sizes, depths and lengths are positive, names of
threads differ from other values, and there are as many sinks as threads that
run sessions (`SinksAssumption`, the `BUILD_ASSERT` of `nmea_bridge.c:13`).
Hypotheses beyond these stand in the theorems and are named below. Invariants
are conjunctions of named parts; each proof has one lemma for a part's step and
one step per action.

### Bridge

- `TypeCorrect`, `ExclusiveCorrect`. `TypeOK` is not inductive: `DispCount` adds
  `dropped_oldest - before`, a natural number only if nobody has reset
  the counter in between, and that depends on the mutex. `TypeInv` adds `LockOK`
  (who holds `sinks_lock` at which program counter) and `BeforeOK` (the earlier
  reading is not above the counter). `ExclusiveSinks` follows step by step: only
  the holder of the mutex claims or clears a slot.
- `IngestCorrect`. `IngestInv` states the accounting at every point of a
  publication. The producer has the highest priority of those that use the queue,
  so between its failed put and its second one nobody takes: the get in between
  drops a real frame, and the second put finds room. Without these two facts
  the accounting is not inductive, since a drop that finds nothing or a put
  that fails would lose or miscount a frame.
- `SinkQueueCorrect`, `SinkCountsCorrect`. `SlotsInv` places each sink against
  the dispatch log: what the sink was given is what was dispatched since its
  session joined, less what the scan has not reached; it is taken, dropped or
  queued, and the queue is the end of that stretch. Slots without a session
  have empty queues. `BridgeInv` is `TypeInv`, `ExclusiveSinks`, `IngestInv` and
  `SlotsInv`.
- `BridgeImplementsFanOut`. `OrderInv` (frames leave the ingest queue in the order
  of their numbers) and `FramesOK` (the place in the log up to which a session is
  served) are invariant; from them each step of the bridge is a step of
  `LossyFanOut` or a stutter under the refinement mapping.
- `OpenSucceeds`, for finitely many sessions, not more than `MaxSinks`. Each
  active slot has a session that owns it and no session owns two, so a full table
  and one more session that opens contradict the pigeonhole principle.
- `CompleteCorrect`: while neither loss counter has moved, what is under way to a
  session is every frame after the one it took last. `NumberInv` and `DropsInv`
  say what a zero counter means although the bridge's own counter lags
  behind the sink's.

### Path of a line

`UartInv` says that the buffer is the part of the current line received so far
(`BufInv`), that frames are lines in order (`FramesInv`), that a line being
dropped is overlong or follows one that was one byte too long (`DropInv`), and
that lost lines are excused and at most two to a count (`LostInv`). The last
needs the line in progress in its count: the counter moves at the buffer's end,
the line is lost at its newline. `FramesAreLinesCorrect`,
`LossExplainedCorrect` and `NoRejectsCorrect` follow, and
`CompleteFromTheStart`: a receiver that starts between two lines publishes only
complete ones, so that finding 5 needs a start within a line.

`UartRunsBridge` shows that the composition is a behaviour of `NmeaBridge`,
instantiated with every length allowed, so the bridge's theorems carry over:
`UartImplementsFanOut`, `UartTypeCorrect`, and `QuietCorrect`, which joins
`CompleteCorrect` with `NoRejects`: no warning on the status page, no loss. These
assume `BridgeSizes`, the bridge's own assumptions on its constants, and the type
theorem a wire with at least one line.

### TCP

`TcpInv` is about all threads at once, and holds with and without the client,
and whether or not a released thread can be overwritten:

- `PcInv`: a free slot's thread has left `client_thread` (it may still have to
  return), and a released one has no descriptor.
- `FdInv`: descriptors of running sessions, of the connecting client and of the
  server are open and different, and every open one is somebody's or was lost with an overwritten
  thread. `FdExclusive` alone is not inductive: a number could be given out
  again while someone still held it.
- `CountInv`: each of the three counts is the cardinality of a set of
  threads, those between the two steps that change it. `SinkAvailable` and
  `CountsNested` are then about sets: a thread about to open a sink is not one of
  those that have one.
- `WireInv`: a socket handed over, or being connected, has no rest of a frame on
  it, and a frame is in progress only in `send_all`.

Theorems: `TcpTypeCorrect`, `FdExclusiveCorrect`, `NoFdLeakCorrect`,
`SinkAvailableCorrect`, `CountsNestedCorrect`, `WholeFramesCorrect`,
`ConnectingCorrect`.

### Boot and Wi-Fi

`BootInv` gives `BootOrderCorrect`, `OneConnectorCorrect` and
`StartLeavesWholeCorrect` for every set of builds and readers: a thread runs
only after the call that starts it, a mutex is taken only by such threads
(`LocksOK`), the retry thread leaves its wait only once `main` has finished
`wifi_manager_start` (`GateOK`), and at each step of `wifi_manager_start` what has
been set up so far can be left or undone (`StartOK`). The station that stays down
because `net_if_up` itself fails is the exception `StartLeavesWhole` names.

The other three are about events, and hold for both kinds of event thread, any
number of readers and any length of the queue, including one that overflows.
`BootTypeCorrect` needs no more than `TypeInv`. `RequestAnsweredCorrect` and
`ConnectedTruthfulCorrect` follow from `AnswerInv`, the conjunction of:

- `IdleFirst`: before the first request the station has neither link nor address.
- `Preempted`: in a build with a preemptible event thread nobody is ever
  overtaken, since a handler runs only while all others sleep; hence the second
  exception of the two properties is that of cooperative builds.
- `lost \/ Told`: unless news were lost, every flag that is set, and every thread
  that is about to set one, is covered by the state of the link, by news still in
  the queue, or by a mark in `overtaken` or `stale` that the news came first
  (`RequestOK`, `AcceptedOK`, `ConnectedOK`, `ReadersOK`); and each queued event by
  which a handler sets a flag is announced while the link is up or is followed by
  "disconnected" (`Covered`).

### Telemetry

`TelemetryInv` ties lines to frames at both points of the UART loop
(`CountInv`), the copies to the counters whatever is counted between them
(`CopyInv`), the age of the newest frame to when the earlier copy was made
(`FrameInv`), and what is remembered to the snapshot before (`StateInv`).
Theorems: `IdleCorrect`, `SnapshotCorrect`, `ActiveCorrect`.

### LED

`NoLostWakeCorrect` rests on `WakeInv`: the semaphore is up or about to be given
also at the points of the loop at which the thread does not sleep.
`CacheHonestCorrect` and `SessionsExactCorrect` have no run of their own: while no
update has failed since the last that did not, the strip shows the cached colour;
and the policy's counter is the number of threads in a session (for finitely
many). `LedTypeCorrect` has a hypothesis about arithmetic, that `2^n` is a natural
number: the provers know nothing of powers.

### Web

`QueueInv` says that a connection waits once, or is served, or is closed.
`SentInv` relates what a client got to header, body and the place of
`send_all`, which gives `WholeResponseCorrect`. `RightAnswerCorrect` and
`WebTypeCorrect` hold for every set of sequences of tokens as requests, cut
anywhere: `AnswerInv` follows from lemmas about the text operators, which say that
searching for the first blank, comparing beginnings with lengths, and looking up
a path in the table find the line's path and no other. The first blank exists
because `<` is well-founded (`Least`), in place of an induction. The runs print a
blank as `sp`.

### Only model-checked

- `EventuallyDispatched`, `SlotsComeBack`, `ClientReconnects`, `BootCompletes`,
  `TriesAgain`, `LedCatchesUp`, `EveryoneServed`: liveness under fairness needs
  `ENABLED`, which the prover does not handle.
- The five violations: counterexamples are TLC's.
- That `2^n` is a natural number, by its recursive definition.

## 5. Not modelled

- The periodic log of `main.c` (`stats_thread`): it reads counters and writes a
  line; it has no effect on anybody.
- The text of the answers of the web app. The longest status document has
  515 bytes with every counter at its maximum, in a buffer of 1024, and the
  longest header fewer than 192, so neither `snprintk` truncates.
- In `wifi_manager.c`: the bytes of addresses (the random MAC address, the first
  address of the DHCP pool, which wraps if the access point's own ends above
  245), power saving, the log of the first address.
- Handlers of the event thread take place in one step. A cooperative thread
  is not preempted, and a preemptible one has the lowest priority that matters
  here; what a reader does between two of its writes is modelled. Other users of
  the event queue than the Wi-Fi driver, DHCP and the access point can only fill
  it, and that it overflows is modelled.
- An overrun in the UART hardware or its driver, before `uart_rx_thread` sees the
  byte. `LossExplained` and `QuietMeansComplete` are about the bytes it sees, and
  count the part of a first line that was published as that line.
- DNS-SD records, web page, board definition, build: data or presentation.
- Counters wrap at 2^32 in the code; here they are bounded by the number of
  frames. Relative speeds (how long a peer must pause for `drain_socket_rx` to
  end) are not modelled.

## 6. Plan

Done, in this order: `NmeaBridge` with `LossyFanOut`, `UartNmea`, the TCP
modules, `WifiManager`, `BridgeTelemetry`, `StatusLed`, the first two theorems;
`WebApp`, the whole of `wifi_manager_start` with `Boot`, `UartBridge`; then
the theorems of section 4.

Next:

1. Theorems that relate components: that sessions of `TcpNmea` use a sink as
   `NmeaBridge` lets a session (open, take, close, in this order), so that
   `OpenSucceeds` and `SinkAvailable` are about the same calls.
2. Action properties: the receiver's counters never fall, a slot's descriptor
   changes only while the slot is the server's.
