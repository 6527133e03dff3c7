# UAVLink-Edge: TLA+ models, model checking and proofs

UAVLink-Edge runs on a drone's companion computer. It takes MAVLink from a PX4
autopilot over up to three links, forwards it to a server over the cellular or
WiFi uplink (in a WireGuard tunnel when configured), carries the server's
commands back, keeps an authenticated session, and supervises cameras. This
directory models the parts whose correctness depends on interleavings, timing
and order, checks them with TLC and proves the central invariants with TLAPS.
Paths below are relative to the repository.

## Inventory

| Part | State | Operations | Talks to | What makes it hard |
|---|---|---|---|---|
| PX4 link arbiter (`forwarder/px4_link.go`) | open channels, last heartbeat per link, `linkSnap`, generation, `txMu` | register, unregister, observe, watchEthernetBroadcast, evaluate, write, sendHeartbeat | receive path, web UI, uplink reader | link changes beside writers; loss windows, holds and recovery counts; duplicated heartbeats |
| Supervisor loop (`px4_link.go: loop`) | two deadlines | nextLinkPhase, advanceDeadline | arbiter | stalls, collisions of deadlines |
| Receive path (`forwarder.go: receiveAndForward`) | link generation, sequence history | observe, duplicate filter, forward | arbiter, uplink, web | copies, reordering, wrap-around, link change in mid-frame |
| Cloud uplink (`forwarder.go: RebindUplink, monitorIPChange, ...`) | sender node, side senders, health, force flag, route | rebuild by three goroutines, re-subscribe, write, callbacks | auth client, VPN, network | overlapping rebuilds, stale endpoint choice, reordered callbacks, dropped signals |
| Auth session (`auth/client.go`, `client_apikey.go`) | TCP connection, token, expiry, backoff, `tcpMu` | authenticate, refresh, recover, force reconnect, API-key and VPN requests, Stop | uplink (callbacks), router | two recoveries at once, one connection shared by several requests, late answers |
| Auth protocol (`auth/protocol.go`) | - | serialisers, parsers | router | answers cut or joined by TCP |
| Parameter bridge (`web/server.go`) | parameter cache, loading flag, channel | request list, set, confirm by polling | arbiter (writes), receive path, cloud | an answer to one request taken for another's, full channel, echoes |
| Stream supervision (`camera/streamer_watchdog.go`, launcher) | process table, cooldowns | tick, exit handler, restart, start, stop | processes | all of them run at once |
| Configuration store (`web/config_store.go`, `config/config.go`) | `config.yaml`, derived JSON files | load, change, save, derive | every part at its start | no lock, truncate and write, crashes |
| Startup (`main.go`) | - | authenticate with retry, start VPN, rebind | auth, VPN, uplink | steps that fail one by one |
| VPN manager (`vpn/manager.go`) | running device | Start, DialUDP, Stop | uplink | becomes usable while others dial |
| Network monitor (`Module_4G/connection_manager.py`) | active route, delays, modem reinit | apply_routing_policy, trigger_4g_reinit | kernel, modem | flapping links, retries |
| Others | | | | listed in `PROJECT.json` with the reason they are left out |

The properties that matter: a command is never sent on a link the arbiter has
left; commands leave a dead link in time and come back only on enough evidence;
no new frame is dropped and no copy forwarded; the uplink always ends up on one
open node, on the right endpoint, with a reader attached; the session with the
router comes back and leaks nothing; the console shows and confirms what the
autopilot has; no camera process is lost; no saved setting disappears.
`PROJECT.json` lists the hazards with their lines.

## Modules

| Module | Models |
|---|---|
| `LinkChoice` | what the arbiter promises: one link at a time, every change is counted, nobody is sending while it changes |
| `Px4Link` | `px4_link.go`: the arbiter, its channels, heartbeats and writers |
| `Px4LinkProofs` | proofs about `Px4Link`, `Px4Beats` and `LinkLoop` |
| `Px4Beats` | `Px4Link` with Ethernet heartbeats that travel as one or two copies, each of which may be lost |
| `LinkLoop` | the supervisor's schedule |
| `RxFilter` | what the duplicate filter promises: a frame is dropped exactly if it was passed on before in its generation |
| `Px4Rx`, `Px4RxProofs` | the duplicate filter, on top of `LinkChoice` in place of the arbiter; proofs |
| `Uplink`, `UplinkProofs` | the sender node and everybody who replaces, reads or writes it; proofs |
| `AuthSession`, `AuthSessionProofs` | the auth client's goroutines on one connection; proofs |
| `AuthWire`, `AuthWireProofs` | the packets of the auth protocol, byte by byte; proofs |
| `ParamBridge`, `ParamBridgeProofs` | the console's parameter cache between autopilot, console and cloud; proofs |
| `Streams`, `StreamsProofs` | the camera publishers and everyone who starts and stops them; proofs |
| `ConfigStore`, `ConfigStoreProofs` | `config.yaml`, its writers and the files derived from it; proofs |
| `MC*` | instances for TLC |

**Px4Link.** `snap` is the `linkSnap` record; instants are kept as ages and as
time left, capped where the code only compares them with the loss window.
`evaluate` holds `txMu` and `mu`, so it is one action; a write holds `txMu`
throughout but `mu` only while it reads the link, so it is two (`BeginWrite`,
`EndWrite`), between which heartbeats, channel events and time go on. `Tick`
waits for an `evaluate` that is due: that the loop is on time is what
`LinkLoop` shows. Ethernet is heard either as a frame of an open channel
(`observe`) or on the broadcast socket (`watchEthernetBroadcast`), which does
not need the channel. Frame parsing is abstracted to the fact that a PX4
heartbeat was heard.

**LinkLoop.** Ticks of 50 ms, the periods of the code. A turn comes 1 to
`MaxGap` ticks after the last one; deadlines are kept relative to the turn.

**Px4Rx.** A frame is a link and a number, and the code sees the number modulo
`SeqRange`. `observe` and the filter are separate steps, between which the link
may change. The order of the ring's entries does not matter to the code beyond
which is oldest, so it is a sequence. `passed` is a history variable, the frames
passed on since the last change of link; with it in place of the ring, `Px4Rx`
implements `RxFilter` (`ImplementsFilter`).

**Uplink.** `RebindUplink` and `rebuildSender` have the same steps: capture the
sender under the lock, close it outside, build a node for the endpoint chosen
now, swap under the lock, redo the side senders, signal the reader. Each is an
action and three goroutines run them: the monitor, the startup goroutine and the
watcher of `watchCloudAndRebind`. The monitor's rebuild also forces the auth
client to reconnect and sets the health flag. Node numbers are reused once
nobody refers to them. A second `Close` of a node sets `crashed`, after which
nothing happens, because the panic ends the process. One side sender stands for
the camera's and the companion's, which are set at the same places. The auth
client is external here: it reports, and each report runs in a goroutine of its
own, in any order. `NewNode` does not fail with the endpoints in use.

**AuthSession.** Four goroutines share `c.conn`: the one that runs `Start` and
then the keepalive loop, `ForceReconnect`, an API-key request of the web server,
and the VPN request. A step is what a goroutine does between two blocking calls
(dial, read, wait for `tcpMu`); the second look at `c.conn` after a reconnect is
a step of its own, because another goroutine can have cleared it. `tcpMu` is
taken where the code takes it, so `authenticate` and `requestSession` use the
connection beside its holder. The router is external: it handles a request when
it is written, and its answers wait until they are read, by whoever reads next.
A loss, a restart of the router that forgets the tokens, a refusal, a late
answer, an expired token, a changed address and `Stop` each cost a fault. A write
through a nil connection panics and the service starts again.

**AuthWire.** A packet is a type byte and fields. Serialisers and parsers are the
lists of their fields, with the exceptions of the code: the optional tails, the
optional register trailer, and the two formats of `API_KEY_RESPONSE`, of which
the new one has a length in front, two bytes with the low one first. The
parsers see a prefix of what is pending, as `conn.Read` gives it.

**ParamBridge.** The autopilot acts on a request when it is written; its frames
wait on the link, pass `receiveAndForward`, wait in the channel, and
`processParamValues` moves them to the cache. A handler that sets polls the
cache; `fresh` stands for `lastUpdate.After(startTime)`. An INT32 parameter
travels as bits in a float and a REAL32 one as a number; decoding one as the
other is "garbled". The cloud can set parameters, reflect our frames, and
another system can send on the same link.

**Streams.** `streamerMu` covers single looks at `streamerProcs`; a start, stop
or restart is several steps of its caller. An exit leaves a goroutine that sleeps
and then restarts unless restarts are suppressed. A loop reads `watchdogStop` in
every turn, so it can outlive a stop that is followed by a start. Three facts
about time are taken from the code's constants: publishers exit within 3 s of
SIGTERM, so that their exit goroutines, which sleep for 2 s, wake before the 5 s
of `suppressRestartUntil` are over; and a stop or restart takes less than the
20 s of the cooldown.

**ConfigStore.** A save is two steps, truncate and write, as `os.WriteFile` does
it. The file holds settings, a size, and whether the end of a longer text
follows. `Load` fails on an empty or damaged text and where `Validate` does. A
crash can come at any step; `main` then reads the file, and gives up when it does
not load.

## Runs

| Run | Checks | States | Result |
|---|---|---|---|
| `px4_link` | `TypeOK`, `TxOnActiveLink`, `RecoveryArmed`, `FailoverInTime`, `NotJudgedEarly`, `ImplementsChoice`, `SettlesOnBestLink`, `RecoveryTakesRecoverNBeats` | 496 thousand | holds |
| `link_loop` | `LoopTypeOK`, `HealthOnTime`, `HeartbeatResumes` | 7 thousand | holds |
| `px4_rx` | `HistoryOfOneLink`, `DropsOnlyCopies`, `PassesNoCopy`, `ImplementsFilter` | 1.4 million | holds |
| `uplink` | `TypeOK`, `SubscribedOrSignalled`, `OneUplink`, `DeadOnlyWhileReplaced` | 2.9 million | holds |
| `uplink_tunnel` | `MovesToTunnel` | 228 thousand | holds |
| `uplink_health` | `HealthReturns` | 145 thousand | holds |
| `uplink_closed_twice` | `ClosedOnce` | | violated |
| `auth_session` | `LockHeld`, `AloneIsClean`, `SessionReturns`, `StopEndsKeepalive` | 443 thousand | holds |
| `auth_wire` | `AcceptsOnlyWhole`, `AcceptsEveryWhole`, `RequestsDelimited` | 12 thousand | holds |
| `param_bridge` | `TypeOK`, `CacheCoherent`, `LoneSetTaken`, `NoEcho`, `LoadedIsComplete`, `LoadingEnds` | 854 thousand | holds |
| `streams` | `NoOrphan`, `StopHolds`, `CamerasReturn` | 284 thousand | holds |
| `config` | `UpdatesKept`, `JsonFollows`, `NothingWiped` | 767 thousand | holds |

The violated run: two rebuilders can capture the same node, and the second
`Close` panics in the library.

### What the properties had to leave out

Several properties hold only under a condition, and the condition is what the
models taught about the code. Each was found as a counterexample of the stronger
statement.

- `RecoveryTakesRecoverNBeats`: each heartbeat reaches us one way. One that
  arrives as unicast and as broadcast counts twice, although
  `px4_link_test.go:35` says one is not enough. What holds however they arrive is
  that it takes at least half of `RecoverN` (`RecoveryTakesHalf`, proved).
- `HeartbeatResumes`: after a stall the heartbeat deadline can land on the grid
  of the health checks, which `px4_link.go:21` says never happens; the heartbeat
  is then put off.
- `DropsOnlyCopies`: short losses. After 224 to 255 frames lost in a row, new
  frames carry numbers still in the ring and are dropped. Shorter losses that
  recur can do the same: `ShortLosses` says which cannot.
- `PassesNoCopy`: recent copies (`RecentCopies`). A copy that comes later than
  the ring is long is passed on again.
- `MovesToTunnel`: in the end. Between the tunnel coming up and the swap,
  telemetry that passed the tunnel check goes to the public endpoint.
- `AloneIsClean`: recoveries that do not overlap. A forced reconnect beside a
  recovery of the keepalive loop can leak a connection, or leave nil where
  `sendRefresh` writes.
- `AcceptsOnlyWhole`, `AcceptsEveryWhole`: not a stream that starts like one in
  the other format (`Misleading`). An answer without a length is read as one with
  a length when the third byte of the stream is 33; and an answer with a length
  whose low byte is the type byte of another kind passes that kind's check of the
  type. The second case appeared in the proof, and the strings of the run were
  then made long enough for TLC to reach it.
- `LoneSetTaken`: nothing else makes the autopilot report. Otherwise a set that
  was lost is confirmed by a report of another parameter, with the old value.
- `CacheCoherent`, `LoadingEnds`: nothing is lost or dropped at a full channel.
  There is no retry, and a list with a gap stays loading.
- `StopHolds`: nobody was starting or restarting when the stop ran. A health
  check in progress launches its publisher after the stop.
- `CamerasReturn`: the watchdog runs. It is not started when every launch of a
  start failed.
- `UpdatesKept`, `JsonFollows`: requests do not overlap, and no crash falls
  between truncate and write. Overlapping requests lose one of the changes, two
  writes of different lengths can leave the end of the longer text, and a crash
  in that moment leaves a file that no later start can load. A `local_listen_port`
  of 0 has the same effect.

### Bounds

- `Loss = 2` ticks tell "just entered", "inside the window" and "past it"
  apart; `RecoverN = 2` is the code's default; `HBCap` stands for 1000, one
  above `RecoverN` so that counting past it happens; `GenMod` stands for 2^64.
- `LinkLoop` has the code's own periods; stalls of up to 600 ms exceed the
  health period. With recurring stalls of 350 ms or more the heartbeat can be
  put off for ever, hence `Calm = 6`.
- `Px4Rx`: numbers modulo 8 with a ring of 3 keep the order of the code's 256
  and 32; ten frames per link wrap. `MaxLost` and `CopyWindow` say how
  unreliable the link is. The run meets `ShortLosses`
  (`HistLen * (MaxLost + 1) + CopyWindow < SeqRange`) and `RecentCopies`
  (`2 * CopyWindow < HistLen`), as the code's 32 and 256 do for up to 6 frames
  lost in a row and copies up to 15 frames late.
- `auth_session`: two faults, one call and the two callers are the
  smallest instance in which a recovery of the keepalive loop meets a forced one
  after a loss. Four connections and four tokens are never exhausted for long:
  numbers are reused when nothing refers to them.
- `auth_wire`: strings of 0 and 24 bytes, so that the length of an answer can
  have the type byte of another kind as its low byte; numbers whose bytes tell
  their order; and 33, the byte that decides between the two formats, in a code
  and in a number. Up to two answers are pending.
- `param_bridge`: one parameter of each type, two values, two handlers, a
  channel of one (so that it is full at times) and three calls, so that a set
  meets two overlapping lists.
- `streams`: one camera, two requests and one fault; four processes and two
  loops are more than these can use at a time. With two cameras and two requests
  the states exceed what TLC can enumerate (two cameras with one request pass);
  the cameras share only `streamerMu`, the loops and suppression, and `NoOrphan`
  is proved for any number of them.
- `config`: two requests at a time, three in all, one crash; the lengths of the
  values are the real ones, because they decide whether an old end remains.
- Six nodes: the sender, the reader's, a writer's, one per rebuilder.
  `uplink` has a route that comes and goes, with dial failures and both
  writers; `uplink_tunnel` two routes; `uplink_health` all reports on one
  route. `MovesToTunnel` assumes that dials through the tunnel succeed: with
  `DialFails = TRUE` TLC refutes it, because the fallback to the public
  endpoint is not retried before the next rebuild.

### Fairness

- `Px4Link`: time passes, a write that began ends, the supervisor is started;
  strong fairness for `evaluate`, because the loop competes for `txMu` and Go's
  mutex hands itself to a waiter that has starved. None for heartbeats or
  channels.
- `LinkLoop`: the ticker keeps ticking.
- `Uplink`: the monitor with its ticker, the rebuilds of the other two
  goroutines, the server reader and started callbacks go on, because the Go
  scheduler runs every goroutine. None for routes, reports, writers, or the
  login and tunnel succeeding.
- `AuthSession`: every goroutine runs, and backoff and cooldown end. Strong
  fairness for the stop case of the keepalive loop, because `select` picks among
  the ready cases at random. None for faults and calls, and none for the
  router, which answers what was written or costs a fault.
- `ParamBridge`: the forwarder's and the bridge's goroutines run, a handler that
  cleared the cache goes on to its write, and an autopilot asked for a list sends
  it. None for requests or the cloud.
- `Streams`: every loop, exit goroutine and request goes on, and cooldown and
  suppression end. None for requests and faults.
- The other modules have no liveness property.

## Proofs

For every value of the constants that the named `ASSUME`s allow:

- `Px4LinkProofs`: the safety properties of `px4_link`. `TypeOK` and
  `RecoveryArmed` are inductive together; `TxOnActiveLink` needs only that
  `evaluate` waits for `txMu`. `FailoverInTime` is not inductive: it needs that
  the time Ethernet has been dead is no more than the time since the last
  `evaluate`, because an `evaluate` that leaves Ethernet dead with a UART open
  is impossible. `NotJudgedEarly` follows from the hold clause of
  `RecoveryArmed`, and the refinement from `TxOnActiveLink`.

  `RecoveryTakesRecoverNBeats` (assuming `SentOnce`: a heartbeat goes one way)
  and `RecoveryTakesHalf` (no assumption) compare the arbiter's count with the
  true one. `CountBound` says that the first is at most the second, once for each
  copy; the place of a second copy that is still under way is in the bound,
  because it may be counted after the change of link that its first copy
  preceded.

  Of the supervisor's schedule, `LoopTypeOK` and `HealthOnTime`; the
  strengthening ties the time since the last health check to the deadline.
- `Px4RxProofs`: `RxTypeOK`, which no run checks, and `HistoryOfOneLink`, with
  the fact that every remembered frame is of the generation the receiver has
  seen. `PassesNoCopy`
  assumes `RecentCopies`: the ring holds distinct frames that were passed on, an
  entry is at most `CopyWindow` behind any older one, and so a frame that leaves
  the ring is, by counting the entries that follow it, too old for a copy of it
  to come. `DropsOnlyCopies` assumes `ShortLosses`: the age of an entry is
  bounded by its place in the ring, so two frames the filter compares are less
  than `SeqRange` apart and equal numbers mean equal frames. With both, the
  ring's verdict is that of `RxFilter`, step by step (`ImplementsFilter`).
- `UplinkProofs`: the four invariants of `uplink`. None is inductive alone.
  `IInv` adds who holds which node at which step: while a rebuilder is between
  close and swap the sender is closed, at most one rebuilder is there, the node
  it has created is open and nobody else's, every open node is the sender or
  that one, and the watcher is idle before the login. A second rebuilder that
  reaches `Close` meanwhile holds a closed node and crashes the process, so the
  rebuilds that complete are serial, and from this all four follow.
- `AuthSessionProofs`: `LockHeld` and `AloneIsClean`. The strengthening records,
  for each place a goroutine can be at, which connection its local variable
  holds, that a second conversation sets the history flag, that the VPN request
  comes after `Start`, and that while there was none every open connection is
  `c.conn` or the one being set up.
- `AuthWireProofs`: the three properties, for any strings shorter than 65536
  bytes, which is what a length of two bytes can say, and any number of answers
  on the stream. The invariant (`WireInv`) is only that the stream holds messages
  of the protocol; the work is in the parsers. `PutAllFields` gives the place of
  each field in a packet; `GetAllReads` says that a parser reads the values
  written there and refuses the data exactly when a field is cut off,
  `TryAllReads` the same of optional fields that are all there, and
  `ParseReads` joins them for the kinds of answer. These are inductions over
  the fields; they are done as induction over a set of numbers (`SetInduction`),
  which follows from the well-foundedness of the natural numbers.
- `ParamBridgeProofs`: the five safety properties of the bridge. For
  `CacheCoherent` the invariant follows the latest report of each parameter: it
  is the last one on the link, else the last one in the channel, else the cache.
  For `LoneSetTaken` every report under way or taken since the write is the
  report of that set, or the set was ignored and there is none. `TypeOK`
  includes the bounds: the channel's capacity, and that no more parameters are
  counted as received than there are.
- `StreamsProofs`: `NoOrphan`, with which actor has which process in hand at
  which step, and that nobody else has it. `StopHolds` needs that restarts are
  suppressed while a process of the stop is left, and that until the next
  request every loop is off and every exit goroutine still asleep belongs to such
  a process (`StopInv`). The facts about time above are part of the model, so
  the theorem rests on them too.
- `ConfigStoreProofs`: the three properties. The strengthening says that without
  overlap at most one request is under way, that it works on the configuration
  of the requests before it, and which syncs are still due.

Every invariant, step property and refinement of the passing runs has a theorem.
Only model-checked are the liveness properties (`SettlesOnBestLink`,
`HeartbeatResumes`, `MovesToTunnel`, `HealthReturns`, `SessionReturns`,
`StopEndsKeepalive`, `LoadingEnds`, `CamerasReturn`), because fairness is out of
the prover's reach.

## Not modelled

`PROJECT.json` gives the reason for each part. In short:

- Python services (network monitor, modem bring-up, landing-pad detection, LCD):
  programs of their own that meet this one through files, signals and routes, or
  image processing and AT dialogues with devices whose behaviour is not in the
  repository. What they can do to the uplink is in `Uplink`: routes change at any
  time.
- Reports of state (`network_status.go`, `tailscale_status.go`, `telemetry.go`,
  metrics, logs, mode names): sampled and formatted, nobody decides on them.
- Device and file access without interleaving: WireGuard device and keys,
  `secret_storage.go`, sensor detection, the wait for the fleet's start signal.
- Registration: one conversation before anything else runs. Its packets are in
  `AuthWire`.
- Message contents and counters of the forwarder.

Known gaps in what is modelled: the unlocked reads in `publishViaNode` and the
unlocked maps of the watchdog are data races whose torn outcomes are not
modelled; `Stop` of the forwarder; commands that wait in the MAVLink library's
own queue, which can leave on a link after the arbiter has left it; and the
composition of `AuthSession` with `Uplink`, whose product is too large for TLC:
each takes the other's calls as possible at any time.
