# tencentmeeting-cli: TLA+ models, checks and proofs

`tmeet` is the command line client of Tencent Meeting.  Most of its commands
build one HTTP request and print one answer.  The part that is a concurrent,
long-lived system is the *event bus*: a background daemon that keeps one
WebSocket to the gateway and fans its events out to any number of
`tmeet event consume` processes.  The models in this directory are about that
daemon first, then about its consumers, about the files and locks that several
processes share (credentials, keys, caches, logs, updates), and about the calls
and the algorithms of the commands.

Paths below are relative to the repository.  `PROJECT.json` maps every
definition to the lines it stands for.

Contents

1. The system: components, state, operations, hazards
2. The modules and how they correspond to the code
3. The runs, their bounds and what they show
4. Fairness
5. What is proved
6. Where the code and its comments disagree
7. What is not modelled
8. Plan

## 1. The system

```
 event consume  --fork-->  event _bus  (one daemon per machine user)
 (N processes)             +-----------------------------------------------+
    |  unix socket         | acceptLoop -> handleConn/handleHello (per conn)|
    |  hello / ack         |        |                                       |
    +--------------------->|      Hub: subscribers + subRegistry (refs)     |
    |  events, notices     |        ^  Publish       | onFirst: Subscribe   |
    |<---------------------| Conn.sendCh (100)       v                      |
    |                      |        |          WSSource: Run / runOnce      |
 event stop / status ----->|  idle timer, shutdownCh  heartbeat, pending    |
 auth logout (cleanup)     |        ^  emit <- Dedup      |                 |
    |                      +--------|----------------------|----------------+
    v                               +---- gateway WebSocket+
 bus.fork.lock  bus.alive.lock  bus.pid  bus.meta  bus.sock   (shared files)
```

| Component | Source | State it keeps | Operations |
|---|---|---|---|
| Duplicate suppression | `internal/event/dedup.go` | ring, cursor, set of ids | `NewDedup`, `Seen`, `Len` |
| Fan-out and queues | `internal/event/bus/{hub,conn,bus}.go` | subscribers, `sendCh`, counters, `subState` | emit, `Publish`, `recordDrop`, `PushDropOldest`, `TrySend`, broadcasts, `senderLoop` |
| Bus server | `internal/event/bus/{bus,handlers,hub,subreg,conn}.go` | `b.conns`, idle timer, reference counts, `shutdownCh` | accept, hello, status, shutdown, close, idle tick, `shutdownConns` |
| Upstream subscription | `internal/event/source/wssource.go`, `bus/hub.go` | `connState`, `pending` map and its futures | `Subscribe`, `SubscribeBatch`, `awaitSubscribeRsp`, `markClosed`, replay |
| WebSocket source | `internal/event/source/wssource.go` | backoff, failure counter, token, `fatalErr` | `Run`, `runOnce`, `doAuthBind`, `heartbeatLoop`, `refreshTokenIfNeeded` |
| Bus process life cycle | `cmd/event/{bus,stop}.go`, `internal/event/{busdiscover,busctl,cleanup,spawner}` | two flocks, three files | fork, start, serve, leave, die; probe, stop, scrub, kill |
| Consumer command | `cmd/event/consume*.go` | reader goroutine, `frameCh`, `loopCtx`, `delivered`, exit reason | `Run`, `runLoop`, `handleFrame` |
| Credentials | `internal/config`, `internal/auth`, `internal/proxy`, `cmd/auth` | `config.json`, encrypted entries, `token.lock`, each process's copy | get, save, clear with hooks, refresh, login, logout |
| File cache, locks, key store | `internal/core/{filecache,filelock,keychain}` | data files, lock files, master key | get, set, delete, purge, lock |
| Logging | `internal/log` | bounded queue, rotated files, `rotate.lock` | send, loop, rotate, clean up, close |
| Notices and self-update | `internal/notice`, `cmd/update`, `internal/upgrade` | notice gate, preference, `update.lock`, the skill directory | compare, build notice, run npm, swap |
| Retry and HTTP client | `internal/utils/retry`, `internal/core/thttp`, `internal/proxy` | attempt, delay | `Do`, `calcDelay`, `RequestProxy` |
| Event schemas, matching | `internal/event/{registry,schemas,params}.go` | constant tables | register, parse `--param`, `MatchPayload` |
| Wire protocol | `internal/event/protocol` | none | encode, decode |
| REST commands | `cmd/{meeting,record,report,...}` | what the calls of one command collected | one call, or several in a row |
| Framework, output | `internal/{cmdutil,output,utils,crash}`, `cmd/tshoot` | none | flag rules, filters, crash report, bundling |

How they interact.  A consumer calls `EnsureBus`, which forks the daemon when
no bus answers; consumer and bus then exchange frames over the socket.  Inside
the bus, `Hub.Register` *calls* the source (upstream subscribe of a first
subscriber), the source calls back into the hub (`emit`, `NotifyFn`,
`BroadcastSubscribeError`, `SubscribedKeys` for a replay), and a `Conn` calls
back into bus and hub through `onClose`.  Daemon, `event stop`, `event status`
and the cleanup of `auth logout` share locks and files, and nothing else.

The commands share less: `config.json` and the entries of the key store, with
`token.lock` around login and refresh but not around logout; the log directory
with `rotate.lock`; the notice gate and `update.lock`.  The clearing of
credentials calls a hook that ends the bus of that account, and the bus asks the
same credentials for its token: the two halves of the system meet there.

Where the difficulty lies, and what makes each component correct:

* **Duplicate suppression.** Two structures that must evict together.
  Correct: an id is suppressed exactly while it is among the last *Cap*
  distinct ids.
* **Fan-out.** Channel operations interleave with a sender that takes no lock;
  drops are aggregated under a throttle.  Correct: an event always gets in,
  order is kept, no loss is uncounted, no consumer can block the source.
* **Bus server.** Register, track, ack, unregister, untrack and timer reset are
  separate critical sections of two mutexes, raced by an idle timer and a
  shutdown.  Correct: counts agree with the subscribers, the idle timer is
  never forgotten, an idle exit takes no acknowledged consumer, a bus without
  consumers exits, and a shutdown ends.
* **Upstream subscription.** A registration may fall anywhere around the
  publication of a session and the snapshot of its replay; a session may die
  between any two steps of a call.  Correct: no subscribed key is forgotten,
  no future leaks, a refusal is broadcast to the first subscriber.
* **WebSocket source.** Three goroutines end each other through a channel, a
  pinned error and a closed connection.  Correct: one heartbeat at a time, the
  gateway knows the current token, and the source ends when it is cancelled,
  logged out or flapping.
* **Consumer.** A frame, the end of the stream, a signal and a timer reach the
  main loop by different ways while the reader may be blocked twice over, and
  so may the writes to stdout.  Correct: whole lines in order, an exact quota, a
  true exit reason, an end unless stdout is never read again.
* **Credentials.** Refresh, login, logout and a bus with the user in memory are
  processes over two files and a lock that logout does not take.  Correct: one
  refresh at a time and only if needed; a bus notices a logout.
* **File cache and key store.** Lock files are deleted while held or waited for;
  creating the master key takes no lock of its own.  Correct: the cache is one
  register per key; an entry can be decrypted by the next process.
* **Logging.** Each process believes its own size of a shared file.  Correct: no
  accepted line is lost, doubled or reordered; files stay bounded.
* **Updates.** Two renames with failures and deaths between.  Correct: the skill
  directory is whole whenever it is there.
* **Calls and commands.** Retries over a network that loses answers; commands
  of several calls, each of which may fail.  Correct: what is printed, and the
  exit code, is what happened.
* **Process life cycle.** Any process may die or be slow between any two
  system calls; files are removed by path.  Correct: one bus at a time, a
  serving bus can be found by its files, and "stopped" means stopped.

The list of hazards, each with its line and the properties aimed at it, is in
`PROJECT.json`.

## 2. The modules

| Module | Models | Built on |
|---|---|---|
| `DedupWindow` | abstract: the window of the last *Cap* distinct ids | |
| `Dedup` | the ring and the map of `dedup.go`; refines `DedupWindow` | `DedupWindow` (INSTANCE) |
| `DedupProofs` | the inductive invariant and the refinement, proved | `Dedup` |
| `Delivery` | emit, `Publish`, drop accounting, send channels | `Dedup` (EXTENDS) |
| `DeliveryProofs` | its five invariants, the window of the fan-out, the progress of `Publish`, proved | `Delivery`, `DedupProofs` |
| `BusServer` | accept loop, handlers, hub counts, idle timer, shutdown | |
| `ServerProofs` | type correctness, three safety properties, the progress of a stop and of an idle bus, proved | `BusServer` |
| `Subscription` | upstream subscribe, replay, pending futures | |
| `SubscriptionProofs` | its three invariants, the way of a refusal to its subscriber, proved | `Subscription` |
| `Lifecycle` | daemons and commands over locks and files | |
| `LifecycleProofs` | all four of its invariants, proved | `Lifecycle` |
| `WSSource` | supervisor, heartbeat, token refresh | |
| `WSSourceProofs` | its three invariants, the progress of a source to its end, proved | `WSSource` |
| `Consumer` | `event consume` from its checks to its exit line | |
| `Credentials` | refresh, login, logout, bus and commands over one store | |
| `Register` | abstract: what the file cache promises for a key | |
| `FileCache` | one key of the cache, with the inodes of its lock file; refines `Register` | `Register` (INSTANCE) |
| `KeyStore` | master key and entries, on files and in the Windows registry | |
| `Logging` | queue, writer, rotation, retention by several processes | |
| `StoreProofs` | the refinement of the cache and the invariants of the other three stores, the progress under token.lock and of a bus after a logout, proved | those four |
| `Updates` | notice gate, `update run`, swap of the skill directory | |
| `RestCall` | one call of the proxy: token, attempts, delays, network | |
| `Commands` | commands of one and of several calls, exit codes, panic | `RestCall` (EXTENDS) |
| `ClientProofs` | the invariants of `Consumer`, `Updates`, `RestCall` and `Commands`, the progress of a consumer that stops, and the order of `Versions`, proved | those five |
| `Json` | the values that answers and payloads are made of | |
| `Fields` | whitelist filter, deletion and conversion of fields | `Json` |
| `Params` | schemas, `--param`, payload matching | `Json` |
| `Versions` | the order of versions | |
| `Actions` | which form an `--action` runs, by its flags | |
| `Algorithms` | the samples, and each algorithm against its reference | the four above |
| `MCClient` | the programs of the client side in one instance | all of these |
| `MC...` | instances for TLC | the module of that name |

**Dedup / DedupWindow.**  `SeenNew` overwrites the slot at `next`, deletes the
id it held from the map and advances; `SeenDuplicate` and `SeenUnnamed` are the
two early returns of `Seen`.  The abstract window knows only the *age* of each
id; the refinement mapping computes it from the distance to the cursor.

**Delivery** composes `Dedup` with the hub's publish path.  The source
goroutine runs emit to its end before it reads the next frame, so it is one
process, `pub`, whose phases are the points of `Publish` at which another
goroutine can get in: the snapshot under `h.mu.RLock`, the three selects of
`PushDropOldest`, `recordDrop` under `muDrop`, the `TrySend` of the notice and
`IncrementReceived`.  `SenderTake` and `SenderWrite` are `senderLoop`;
`sendMu` is held from `evict` to `retry`.  A frame keeps only what the
properties tell apart: the position of an event, or the count of a notice; and
`wire` of what was written the last event, the number of events and the sum of
the notices.
Matching of key and payload is the constant `Routes`.  A `source_status`
(`BroadcastSourceStatus`) may come in the middle of a `Publish`, as the
heartbeat reports from its own goroutine.

**BusServer** has one action per critical section: `HubRegister` (`h.mu`),
`Track` (`b.mu`, stops and drains the timer), `Ack`; `HubUnregister`, `Untrack`
and `ResetIdleTimer` are `onClose`; `ReceiveTick` and `Tick` are the two halves
of the idle case of `Run`, since the tick leaves the channel before `b.mu` is
taken; `SnapshotConns`, `DropBegins` and `DropEnds` are `shutdownConns`, which
waits for a `Close` that somebody else began.  `AcceptEnds` also resets the
backlog.

**Subscription.**  `Register` takes only the hub's decision (first subscriber
or not) from `BusServer`; the call then goes through `LoadSession`,
`RegisterPending` and `Write`, the three points of `subscribeKeys` between
which a session may be closed.  The connect goroutine is `runner`:
`PublishSession`, `ReplaySnapshot` and `ReadLoopStarts`, then `MarkClosed` and
`ClearSession` when the connection breaks.  The gateway answers a whole request
with one code.  `BroadcastSubscribeError` is one `TrySend` to each subscriber,
which a full channel refuses: such a consumer has `missed` the refusal until
the next broadcast.  `world` is the constant part of a behaviour: who wants which
key, and which keys the gateway refuses; it is a variable so that one run
covers several worlds.

**Lifecycle.**  A daemon moves through
`forked, locked, claimed, named, described, serving, closing, releasing,
released, gone`, one phase per system call or deferred call that the others can
see.  `Crash` drops its locks and leaves its files.  A command is `event stop`
(with or without force) or the cleanup of `auth logout`; its probes *take* the
alive lock for a moment, exactly as `TryLock` does, so a probe can make a
starting daemon give up.  `event status` reads like the first steps of a stop.
The three removals of a scrub are one step, `Scrub`.  What `EnsureBus` does
while it waits for the socket (ping again, at last fail) changes nothing and is
left out.

**WSSource.**  `phase` is the goroutine of `Run` and `runOnce`, `heartbeat` the
goroutine of `heartbeatLoop`, `CancelClosesConn` the watcher of the context.
`conn` tells a working connection from one that broke, went silent without
anybody noticing, received a Close frame, or was closed by this side.
`HeartbeatFails` is the end of `heartbeatLoop` with its pinned error; a failed
`refreshTokenIfNeeded` reaches it as an auth error, as `sendHeartbeat` wraps
it.  The backoff counts in units of `minBackoff`.

**Consumer.**  `stage` is the main goroutine of `runLoop`, `reader` the reader
goroutine with the packet it holds, `signalled` and `loopDone` the watcher and
`loopCtx`, `timer` the `AfterFunc` callback between its two writes
(`timeoutFired`, then `loopCancel`).  A frame is handled in one step, since the
main goroutine looks at nothing else meanwhile; an event carries the number of
lines `--jq` makes of it, and each line may be the one whose write fails or
blocks.  A blocked write is the variable `writing`; `WriteGoesOn` is the reader
of stdout taking up lines again, or going away, and until then the main loop
does nothing.  A broken pipe is the error `EPIPE` where `SIGPIPE` is ignored and
kills the process otherwise, as Go's runtime does for stdout.  `Run`
has the eight checks in their order.  The three causes that are ready at once
are picked from at random, as `select` does.

**Credentials.**  A step is what one process does between two accesses to the
shared files.  `CheckExpiry` is the fast path, `Acquire` to `SaveMeta` what runs
under `token.lock`; the request carries the refresh token in memory, and the
second look at the store adopts a fresh token only.  `ClearRead` to `ClearMeta`
is `ClearUserConfig` with its hooks, or without them when the bus calls it; it
runs under no lock of its own, but inside the lock when a refresh was refused.
`RereadStore` is the token provider of `cmd/event/bus.go`.  `loggedOut` is a
history variable.

**FileCache / Register.**  `WithLock` opens the lock file and then locks the
inode it opened; `Delete` unlinks the lock file by its path after it has let go.
So two writers can hold locks on two inodes, and the model has them as two.
The refinement forgets locks and temporary files.

**KeyStore.**  `LoadKey` and `CreateKey` are `getMasterKey`, with the steps that
only Windows has (the entropy of DPAPI, an undecryptable key, the removal of the
key with the last entry).  That two processes do not create two keys rests on
the callers: login and refresh hold `token.lock`, and a `Get` is reached only if
`config.json` names an account.  `Migrate` writes back in the new format what it
read before.

**Logging.**  A process queues lines; `TakeEntry` is `checkRotate`, `LockAndScan`
and `OpenLogFile` the rotation by size, `OpenLogFile` alone the one by date.
`accepted` is the set of lines that entered the queue, less those the code
gives up: a failed open or write, a lock timeout, a death, a file past retention.
A line is its logger and a number, so a place in the files, the number there and
the number of a line that waits are all that order and loss are about.

**Updates.**  A run and the notices of other commands interleave; `StageSkill`
to `RollbackSkill` is the swap, where each rename may fail, and the process may
die between any two.

**RestCall / Commands.**  `AttemptReturns` is one round of `retry.Do` with its
condition; an answer that the token has expired clears the credentials, or
fails to, since the error of `ClearUserConfig` is dropped; a request that got no
answer may still be executed later (`LateExecutes`).  Delays count quarters of
the initial delay, so that the jitter is a range of whole numbers.  A command is a sequence of such calls; `phase` and
`request` say where it is.  The requests of one command are told apart by
assumption, so that an answer belongs to the call that waits for it.

**Algorithms.**  A state is one sample, and the invariant compares the code's
algorithm with a reference stated leaf by leaf (`KeepAgrees`, `DeleteAgrees`,
`ConvertAgrees`), parameter by parameter (`ParamsAgree`, `MatchAgrees`), as a
total order (`OrderAgrees`) or as the matrix of forms in the help text
(`FormsAgree`).  The reference of `KeepFields` has one clause for a habit of the
code: bare scalars in an array stay next to a sibling that a rule names.

**Definitions that are not part of `Next`.**  Next to an action stands, where a
plausible slip exists, a second version of it ("a version that ...", such as
`SeenNewKeepsEvicted` or `UntrackCountsBefore`).  No specification uses them.
`PROJECT.json` pairs each with the property that has to fail once it replaces
the real action: the evidence that the property can tell the difference.

## 3. The runs

Run a module with `tlc -workers 2 -config X.cfg M` in this directory.

| Run | Module | Question |
|---|---|---|
| `delivery` | `MCDelivery` | Does the fan-out keep order, lose nothing uncounted and always end?  Does the ring implement the window? |
| `server` | `MCBusServer` | Do counts, sets and timer agree through every interleaving, and does the bus exit when it should? |
| `subscription` | `MCSubscription` | Can a key, a future or a refusal get lost around a reconnect? |
| `lifecycle` | `MCLifecycle` | One bus at a time, its files its own, and a stop that is one? |
| `source` | `MCWSSource` | One heartbeat, a token in sync, and an end for every reason to end? |
| `client` | `MCClient` | The consumer, the stores, the log, the updates, the calls and the algorithms: each keeps its promises? |

Six more runs each show one disagreement between the code and what it says of
itself; they are in section 6.

`client` is a disjoint union: the variable `program` picks one of the eight
programs, the others stay in their initial state.  They share no state that
one of the modules leaves out, so nothing is lost by it, and one run asks all
their questions.

**Bounds.**

* `delivery`: two consumers, `SendChCap = 2` (100 in the code), a window of one
  id with two trace ids and the empty id, `MaxEmits = 3`, `MaxControls = 1`.
  Three events overflow a channel of two while the sender holds a third frame,
  so every outcome of the three selects occurs: eviction of an event, of a
  notice and of a control frame, an eviction that finds the channel emptied,
  a second drop inside the interval.  The two consumers have different keys
  and one of them filters, so `Publish` skips and loops.  Two ids and a window
  of one make every new id an eviction.
* `server`: three connections, two keys; two of the connections share a key, so
  a count reaches two.  Three is what the timer hazard needs: one connection
  that is closing, one that arrives, and one that is tracked meanwhile.  Each
  connection is dialled once; a consumer that comes back is another connection.
* `subscription`: two consumers, `MaxSessions = 2`, `MaxRequests = 4`; they
  share a refused key, share an accepted one, or have one each.  The first
  session may break at any point, the second stays, so that what has to happen
  in the end can.  Four requests are all that two consumers and two replays can
  make.
* `lifecycle`: two daemons, two commands, two accounts, each kind of process
  interchangeable (symmetry over all three sets; no liveness is checked in this
  run).  Two daemons give every predecessor/successor race.  Two commands give
  a probe against a probe, and a scrub against a stop.
* `source`: `MaxBackoff = 30` and `MaxConsecutiveFailures = 30` are the values
  of the code (one minimum backoff is a second); `MaxTokens = 3` allows two
  rotations, one of which may fall into the announcement of the other.

* `client`, consumer: `frameCh` of one frame (8 in the code), two frames from the
  bus, events of two lines, a quota of three lines or none.  The reader
  blocks on a full channel, and the quota is reached inside an event.
* `client`, credentials: two processes, of which one may be a bus, a command or a
  logout, the other a command, a login or a logout, one after the other without
  bound; one account, two tokens, so one rotation.  `credentials_logout` has
  three.
* `client`, file cache: two processes, two inodes of the lock file, two writes.
  Key store: two processes, two accounts, two master keys.
* `client`, logging: two processes, a limit, a queue and a retention of one, two
  days, two lines each: every file is full at once, every rotation happens.
* `client`, updates: two processes, three published versions.
* `client`, commands: three retries, as in the code, and a cap of 8 quarters,
  that is twice the initial delay, so that a second delay with its jitter and
  every third one reach it.  The cap of `DefaultOptions` (3 s over 100 ms, 120
  quarters) is above every delay that the callers of `retry.Do` can come to; the
  smaller one shows the capped branch as well.  One request that lingers, two
  operations of share-set, two pages.
* `client`, algorithms: 1936 samples.  Answers of three levels over two
  keys, with rules that overlap, at three depths; three `--param` flags of eleven;
  35 versions in threes; every command line of every action, each flag with a value,
  as the empty text or absent, which is all of them.

Larger instances were checked once with the modules on their own: three frames
in `Consumer`, every role for both processes in `Credentials`, three keys in
`KeyStore`, three writes in `FileCache`, three operations in `Commands`.

Deadlock is not checked: in every model the system may come to rest for good
(all events emitted, the bus exited, the source ended, the commands done).

**What the passing runs show.**

* `PushAlwaysLands`: the second select of a push always finds room, because
  `TrySend` takes `sendMu`; without that the event could be lost.
* `EventsInOrder`, `NoUncountedLoss`, `NoticesNeverOverstate`: a consumer sees
  events in order of publication; one that is neither written nor queued was
  counted as dropped; and notices never exceed the drops.
* `PublishTerminates`: a consumer that never reads cannot hold up the source.
* `DedupImplementsWindow`: see section 5.
* `SubregMatchesHub`, `IdleTimerGuards`, `IdleExitSparesOpen`: see section 5.
* `IdleBusExits`, `ShutdownTerminates`: a bus whose consumers are gone for good
  exits, and so does one that was told to, whatever its connections do.
* `NoForgottenKey`: on a healthy session that is being read, each subscribed
  key with no call under way has been asked for.
* `PendingMatchesWaiters`: no response is dropped that a watcher waits for, and
  no entry stays behind without one.
* `RefusalIsBroadcast`: while a registration asks for a refused key, and again
  after each reconnect, the refusal ends in a broadcast to the subscriber, or it
  leaves.  That the frame arrives is not claimed: the broadcast is best effort.
* `ListenerAlone`, `ServingOwnsFiles`, `ReportedGoneIsGone`: whoever is about to
  listen, listens or tears down holds the alive lock and finds no other bus;
  a serving bus is named by pid, meta and socket file unless a scrub took them;
  a command that reports the bus stopped after waiting is right.
* `OutputIsAPrefix`, `ExitSaysWhy`, `ConsumerStops`: the lines on stdout are the
  first lines of the stream, none skipped and none beyond the quota; the
  exit line names a cause that happened; and a stopped consumer ends, because it
  closes the socket and drains the channel, unless the reader of stdout stalls
  for good: neither `--timeout` nor a signal gets past a blocked write.
* `AsksOnlyIfStale`: of two processes that find the token expired one refreshes,
  the other adopts.  `BusNoticesLogout`: a bus whose user is gone from the disk
  ends, although the fast path of `RefreshToken` never looks there.
* `CacheIsARegister`: however lock files come and go, the cache refines a
  register with atomic operations.  It is the rename that does it, not the lock.
* `EntriesReadable`: no entry is sealed with a key that was overwritten, unless
  a key was removed on Windows while another process had it cached.
* `LogKeepsLines`, `LogFilesBounded`: every accepted line that was not given up is
  in the files once and in order; a file can outgrow its limit by one limit per
  further process, and no more, however often they restart.
* `SkillIntact`: no half-extracted tree is ever in use, and an installed skill is
  missing only between the renames or after a death there.
* `RestCallsHonest`: delays grow until the cap in spite of the jitter; the server
  executes a request at most once per unanswered attempt and once for the
  answer; what a command prints, and its exit code, is what its calls did.
* `AlgorithmsAgree`: the algorithms and their references agree on all samples.
* `OneHeartbeat`, `BoundTokenInSync`: no heartbeat outlives its session, and
  after each round the gateway is bound to the token this side holds.
* `CancelEnds`, `FlappingEnds`, `RevokedEnds`: the three ends of the source.

## 4. Fairness

* `Delivery`: weak fairness of the source goroutine only.  A consumer may stop
  reading for ever, so senders are not fair.
* `BusServer`: weak fairness of goroutines that can run (Go's scheduler), of
  the timer (it has a finite duration), and of a handler waiting for its first
  frame (`helloReadTimeout`).  Strong fairness of `StopRequested` only, because
  Go's `select` picks among ready cases at random and so does not pass over a
  waiting stop for ever in favour of ticks.  Peers, signals and the end of the
  source are not fair.
* `Subscription`: the connect goroutine, the callers and the watchers with their
  timer (`defaultRspTimeout`).  Consumers, the network and the gateway are not
  fair; no answer ever has to come.
* `WSSource`: the supervisor, the heartbeat and the context watcher; all their
  waits have timers or the context.  Gateway, network and user are free.  The
  supervisor's fairness includes that a read on a dead connection returns, but
  not that a silent one breaks: the ping timeout has to end it.
* `Lifecycle`: none; only safety is claimed.
* `Consumer`: the main loop, the reader when it has something to send or the
  connection has ended, the watcher, and a timer callback that has begun.  The
  bus, signals and the start of the timer are free: a consumer may run for ever.
  So is the reader of stdout: `WriteGoesOn` has no fairness, and `ConsumerStops`
  speaks of the behaviours in which no write stays blocked for good.  The lines
  on stderr are not modelled, which assumes that somebody reads them.
* `Credentials`: each process that has started makes its next step; the waits for
  the lock (five seconds), for an answer and for the user (five minutes) have
  deadlines, and the bus asks for its token at every heartbeat.  Starts, deaths,
  expiry and the gateway are free.
* The other programs of `client`: none; only safety is claimed of them.

## 5. What is proved

`tlapm` checks `DedupProofs`, `DeliveryProofs`, `ServerProofs`,
`SubscriptionProofs`, `LifecycleProofs`, `WSSourceProofs`, `StoreProofs` and
`ClientProofs` to the last leaf.  Every safety property of the passing runs is a
theorem, except the two named at the end of this section, and so are the two
safety halves of each liveness property.

**Dedup, for every capacity, and every set of trace ids.**  Assumed: that
the capacity asked for is an integer, which `NewDedup` turns into a positive
one, and that the empty id is not a trace id.  The invariant `DedupInv` is the types together with
`RingMatchesMap`: the map holds exactly the ids of the ring, and no id is in
two slots.  The types alone are not inductive, since evicting a slot would
otherwise forget an id that another slot still holds.  `DedupInvariant` proves
it; `DedupRefinesWindow` uses it to map every step of the ring to a step of the
abstract window, with one lemma for how the age of a slot moves with the cursor
(`SlotAgeStep`).

**Delivery, for any sets of consumers and ids, any routes, capacity, number of
events and of control frames.**  Assumed: what `Dedup` assumes, a channel of at
least one frame, and that `Nobody` is no consumer.  The invariant is

    DeliveryInv == Types /\ PubMatches /\ \A c \in Consumers : Line(c)

`PubMatches` is what the source goroutine knows between its selects; its
heart is that at "retry" the channel has room, which holds because the eviction
and the retry lie in one critical section of `sendMu` and a sender only takes.
`Line(c)` follows one consumer: the frames on their way are in order behind what
is written and up to `Top(c)` (`Ordered`), neither counter outruns the events
published (`Bounded`), pushed is at most written, under way and evicted
(`NoLoss`), and no notice claims a drop that was not counted.  The three pushes
in progress (`ToPush`, `ToDrop`, `ToCount`) make it inductive: between two selects
an event is published and has not yet cost a drop.  Counting the events and the
announced drops of a queue by cardinality, not by recursion, keeps the argument
in reach of the provers.  `PushLands`, `DeliveredInOrder`, `LossesAreCounted` and
`NoticesAreBacked` follow; `BusSuppressesByWindow` carries the refinement of
`Dedup` over to the fan-out that contains it.

**Bus server, for every finite set of connections, and any keys.**  Assumed: each
connection has one key, and the marker `NoConn` is none of them.  The invariant is

    ServerInv == TypeOK /\ PhasesMatchSets /\ IdleTimerGuards /\ SubregMatchesHub

`PhasesMatchSets` says that membership in the hub and in `b.conns` is a function
of how far the connection's handler is.  It is the strengthening: the count can
only be shown to fall by one for a connection that is in the hub, and the timer
can only be shown to be guarded if the goroutine that emptied `b.conns` is
known to be on its way to the reset.  The lemmas follow the code's division:
steps outside the hub's lock, the main loop, and the two steps that change
subscribers and counts, where `FiniteSetTheorems` gives the cardinalities.
`TypeInvariant`, `CountsAgree` and `TimerNeverForgotten` are its consequences,
`IdleExitIsSafe` the action property.

**Subscription, for any sets of consumers and keys, any worlds and any number of
sessions and requests.**  Assumed: each world gives every consumer a key, and
`Replayer` is no consumer.  The invariant is

    SubscriptionInv ==
      /\ Types /\ RunnerMatches /\ IdleMatches /\ CallsMatch
      /\ Unanswered /\ PendingMatchesWaiters /\ KeysCovered

`CallsMatch` says what a caller inside `subscribeKeys` knows: before it writes,
its request is its own, nobody waits for it yet, and it is pending unless the
session was closed meanwhile.  `Unanswered` adds that the gateway does not know
it, so no answer can come before there is a watcher.  `KeysCovered` is what
`NoForgottenKey` needs while a call is under way: on a session that lives, once
its replay has begun, each subscribed key was asked for on it or somebody inside
`subscribeKeys` is about to.  That is where the order of `runOnce` matters: the session is
published before the registry is read, so a consumer that registers in between
finds the one or is found by the other.  `SubscriptionTypeOK`,
`ResponsesFindTheirWaiters` and `KeysAreAskedFor` follow.

**Life cycle, for any number of daemons, commands and accounts.**  Assumed: the
three kinds of process are told apart.  The invariant has a half for the
daemons and one for the commands:

    DaemonInv  == DaemonTypes /\ LocksMatchPhases /\ FilesMatchPhases
    CommandInv == CommandTypes /\ SeenMatchPhases /\ CommandPhases

`LocksMatchPhases` ties each lock to the progress of its holder, both ways.
Since the fork lock is held from before the first file is written until after
the last is removed, at most one daemon is in that stretch, and none can remove
a file that another wrote; `FilesMatchPhases` records what each has written.
`SeenMatchPhases` says that a daemon a command saw was the bus at that moment
and so can only move on, and that a command concludes after it held the lock
itself, when no daemon can be the bus.  A step of a daemon, and a step of a
command, are shown to keep either half.  `OneBusAtATime`, `FilesNameTheBus` and
`StoppedMeansStopped` follow.

**WebSocket source, for any caps and any number of tokens.**  Assumed: the caps
and the number of tokens are positive.  `OneHeartbeat` is inductive with the
types; the types need `BreakerOpens` (a source that goes on has not reached the
breaker), or the failure count could pass its cap; and `BoundTokenInSync` needs
`BoundUnlessRefreshing`, that the gateway knows the token also while a ping is
due or under way.  `SourceTypes`, `HeartbeatStaysInSession` and
`GatewayHasTheToken` follow.

**File cache, for any number of processes, lock files and writes.**  Assumed:
the bounds are positive.  `CacheInv` says that a writer that has yet to rename
carries a payload of its own (`CallFits`) and that the file is whole.  No lock
occurs in it: `Delete` removes a lock file that others hold or wait for, so the
lock excludes nobody, and the argument must do without.  `CacheStepRefines`
then maps the rename to the `Put` of `Register`, a removal to its `Remove`, and
every other step to a stutter; `CacheRefinesRegister` is the refinement.
`LockInv` is about the flocks themselves: an inode is locked by a process exactly
while that process has a call at work under it (`LocksAreHeld`), and who waits or
works has opened an inode (`Opened`).  A death and the unlink of a lock file keep
both, so no lock stays behind without a holder: `LocksHaveAHolder`.  It does not
say that one process is at work at a time, which is false once a lock file was
removed.  `CacheTyped` follows as well.

**Key store, for any number of clients, accounts and keys.**  Assumed: the
bounds are positive and `NoAccount` and `NoClient` are nobody.  That every entry
can be decrypted is not inductive.  `KeysAgree` adds that config.json names an
account only once there is a master key, and `ClientFits` what each client
holds: one that saves has token.lock, one that is about to create a key is the
only one and finds none, and one that works has read the stored key.  Creating
a key takes no lock of its own, so token.lock carries the argument, and the
readers are safe because config.json sends none of them to a store without a
key.  All of it holds as long as `forsaken` is empty, which a cascade or a
purge on Windows ends.  `StoredEntriesReadable` and `KeyStoreTyped` follow.

**Credentials, for any number of processes, accounts and tokens.**  Assumed:
`NoProc` and `NoUser` are nobody.  `CredentialsInv` is the types and, for each
process, `ProcFits`: at the places of `UnderLock` it holds token.lock, at those
of `WithToken` it has a token in memory, and while it asks, the token in the
store will not do.  The last is stable because only the holder of the lock
writes a token (`ProcStep` asks that much of every step), tokens only get older,
and a logout, which takes no lock, only removes.  Since a hook of a logout may
end several processes at once, `HooksFit` is an argument of its own.
`OneRefreshAtATime` and `CredentialsAreTyped` follow.

**Log directory, for any finite set of processes and any limits, days and
lines.**  Assumed: limit, queue, retention and days are positive and `NoLogger`
is no process.  There are two invariants.  `LogInv` bounds the files:
`Room(f)` is, for each process with a handle on file `f`, the lines it believes
are left, and

    Len(logFiles[f]) + Cardinality(Room(f)) <= Cardinality(Loggers) * LogLimit

A write takes one place of its writer away; opening a file gives the opener the
places that are left of one limit and takes those it had; so the size of a file
alone is not inductive, and the sum is.  `KeepInv` is about the lines:

    KeepInv == LogInv /\ DirectoryInv /\ \A l \in Loggers : WriterInv(l) /\ LinesInv(l)

`WriterInv` says that an open handle is the file of the writer's date and
number; `LinesInv` that no line of a logger is in a file after that one, and
the property itself; `DirectoryInv` that no file is of a day to come and each day
has a last file.  A line is then appended behind all that its logger has: a
rotation goes to the last file of the directory (`LastFileIsLast`), or past a
full one, never back.  Other processes only add lines of their own,
and the cleanup takes whole files with their lines.  `LogTyped`,
`LogFilesStayBounded` and `LogLinesAreKept` follow.

**Updates, for any number of processes and versions.**  Assumed: there is a
version and `NoUpdater` is no process.  `UpdatesInv` adds to `SkillIntact` that
exactly the processes past the lock hold it, and `Progress`: who is about to rename
has a whole tree staged, who may roll back has a whole backup, and who moves the
tree in without a backup found no skill to lose.  `SkillStaysIntact` and
`UpdatesTyped` follow.

**Calls and commands, for any caps, attempts, operations and pages.**  Assumed:
the caps are natural numbers, and the requests of one command differ.  `CallInv`
carries the backoff by the bound 2 * wait < 5 * base, from which the next wait
exceeds this one in spite of the jitter, and ties attempts, unanswered attempts
and executions together.  `CommandInv` adds which call each phase of a command waits for
(`Requested`), that a request still to be made is not on its way (`Fresh`), and
for each command of several calls what its partial results stand for (`ShareInv`,
`ListInv`, `PagesInv`, `UploadInv`, `ToldInv`).  `CallsAreHonest` and
`CommandsTyped` follow.

**Consumer, for any stream, capacity and quota.**  Assumed: the
capacity of `frameCh` is positive and the bounds are natural numbers.  `LoopInv` says that
there is a number of frames handled so far whose lines are all on stdout, but
for those that a blocked write has left of the last one, and that the frames
that wait, with the one in the reader's hand, are the next ones;
`ReaderInv` and `EndInv` say what the reader holds and which cause each exit
reason stands for.  `OutputStaysAPrefix`, `ExitLineIsTrue` and `ConsumerTyped`
follow.

**Versions, of any length.**  No assumption.  A comparison of two lists is the
first sign that is not 0 (`FirstSignDecides`), so antisymmetry (`DecidesBack`) and
transitivity (`DecidesInOrder`) at each place carry over to the lists.  The three
lists of signs may differ in length, so they are compared over all positions; a
missing segment counts as 0 in a release and makes its list the older one in a
pre-release.  `VersionsAreOrdered` puts the two
parts together, a release without a pre-release being the newer.

**What the liveness properties rest on.**  A property like `ShutdownTerminates` is
out of the prover's reach, as weak fairness is stated with ENABLED.  What makes it true is
not: that in every state on the way somebody can step who waits for no peer, and
that each such step leaves less to do.  Both halves are proved, as an invariant and an
action property, for each of the nine liveness properties, so that TLC alone is
trusted with the fairness rule that puts them together.

| liveness property | somebody can step | each step is one less |
| --- | --- | --- |
| `PublishTerminates` | `PublishNeverWaits` | `PublishMovesOn` |
| `ShutdownTerminates` | `StopWaitsForNoPeer` | `StopMovesOn` |
| `IdleBusExits` | `IdleBusWaitsForTimer` | `IdleBusMovesOn` |
| `RefusalIsBroadcast` | `RefusalIsOnItsWay`, `RefusalWaitsForNobody` | `RefusalIsKeptUntilBroadcast`, `SubscribingMovesOn` |
| `CancelEnds` | `SourceWaitsForNobody` | `CancelMovesOn` |
| `RevokedEnds` | `SourceWaitsForNobody` | `RevokedMovesOn` |
| `FlappingEnds` | `SourceWaitsForNobody` | `FailuresAreCounted` |
| `ConsumerStops` | `ConsumerStopWaitsOnlyForStdout` | `ConsumerStopMovesOn` |
| `BusNoticesLogout` | immediate, as all waits of a bus have deadlines; `TokenLockHasAHolder` | `TokenLockMovesOn`, `BusMovesOnToItsEnd` |

That somebody can step is written out as the guards of the steps that
are fair, and the measures are natural numbers or the order of the stages.  Each
needs more than the invariants above:

* `Delivery` (`NeverWaitsInv`): the subscribers that `Publish` has before it are
  finitely many, and between two of them there is one whose turn it is.  `StepsLeft`
  counts six for each, less those already made for the one in hand; queues,
  writers and the broadcast of an error do not occur in it.
* `BusServer` (`StopInv`): what `shutdownConns` has still to drop is in the hub or
  on its way out of it, and the accept loop is there as long as the listener is open.  The
  connection in hand closes itself concurrently; its steps count as well.
* `Subscription` (`NewsInv`): a refused key is being asked for by a caller or
  a watcher on the present session, or the session is dead or was not replayed to
  yet (`OnItsWay`).  A step that takes the last watcher away broadcasts the
  refusal, because a future is only nil when its session was closed and never
  "accepted" for a refused key (`FuturesFit`); a call that finds its session
  gone leaves the news to the replay.  `NewsWaitsForNobody` holds short of the
  bound on requests, the only place where the model and not the code stops.
* `WSSource` (`LiveInv`): a session has a connection and a heartbeat, the read loop
  ends on a dead connection only, and a heartbeat that is waited for was told to
  stop.  A silent gateway leaves the heartbeat its ping timeout.
* `Consumer` (`StoppingInv`): a reader that is done has left its error as the last
  packet in `frameCh`, so the loop never waits for a reader that has gone.  What
  can keep the loop is a write to stdout; `LinesLeft` counts what it has left.
* `Credentials` (`PlacesInv`): a process goes through the places of its role in order
  (`StepMoves`, `FromOutside`), and token.lock is with a process between its
  acquisition and its release.  The way of a bus through a refresh, a rotation
  or a clearing leads to the next look at the store, and with an empty store to
  its end.

**Only model-checked.**  The last step of the nine liveness properties, from
the two halves above to the temporal formula, as the prover has no ENABLED.
`AlgorithmsAgree`, as most of the algorithms are recursive; `VersionsAreOrdered`
is its part about versions, and of the command lines of `Actions` the run checks
every one there is.  `ClientTypeOK`, the conjunction of the type invariants of
the programs, as `MCClient` contains the algorithms; `LogTyped`, `UpdatesTyped`,
`CommandsTyped`, `ConsumerTyped`, `CredentialsAreTyped`, `CacheTyped` and
`KeyStoreTyped` prove each of its parts.  The six properties of section 6 are
disagreements and do not hold.

## 6. Where the code and its comments disagree

Six runs are expected to end in a violation.  Each checks what a comment, or the
help text of a command, says.

* `delivery_notice`, `DropsStayAccounted`: `recordDrop` (`bus/hub.go:286`)
  resets `pendingDrops` before it tries to send the notice; when the channel is
  full the count is gone, although the comment promises that the next drop
  retries the aggregation.
* `server_idle`, `IdleExitFindsNoSubscriber`: `handleHello`
  (`bus/handlers.go:158`) registers with the hub before it takes `b.mu`.  An
  idle tick in between stops a bus that has a subscriber, contrary to "under
  one critical section".  The consumer is not acknowledged yet, which is why
  `IdleExitSparesOpen` holds.
* `subscription_refused`, `RefusedConsumersAreTold`: a second consumer of a key
  that was already refused, while the first one is still registered, is neither
  asked for nor told.
* `lifecycle_stop`, `UnreachableHasExited`: `event stop` takes a bus that cannot
  be reached for one that has exited (`stop.go:216`); a bus that holds the lock
  and has not called `Listen` yet goes on to serve.
* `source_refresh`, `AuthFailureIsARefusal`: a connection that breaks while a
  rotated token is announced ends the source with `auth_failed`; the comment at
  `wssource.go:1424` says that it heals with the next dial.
* `credentials_logout`, `LogoutSticks`: `auth logout` clears the store without
  `token.lock` (`internal/config/user.go`), so a refresh whose request is under
  way saves entry and `config.json` again afterwards (`auth.go:119`), and the
  account is logged in as before.

Smaller ones that the models contain and that no run singles out:

* A probe of the alive lock makes a starting daemon believe that "another bus is
  already running" (`busdiscover/pidfile.go:64`); it exits without a bus being
  there.  Two probes at once make each other believe that a bus is alive.
* `bus.meta` can be older than the holder of the lock, and `bus.pid` is renamed
  only after the lock is taken (`pidfile.go:70`), so a reader that sees the lock
  held may still read a dead daemon's files.
* A forced stop looks at the lock and then removes files by path
  (`stop.go:277`); a bus that started meanwhile loses its socket.  The logout
  cleanup checks the owner of `bus.meta` once (`cleanup.go:78`), and the bus of
  another account may have started by the time it acts.
* The fork lock is held for the whole life of a bus.  A daemon forked in vain
  waits for it up to five seconds, and starts if the bus is stopped meanwhile.
* `startSources` takes an answer with code 0 and a message for a failure.
* Consumer: the error exits return without draining `frameCh`, so the reader may
  stay blocked when `runLoop` returns, which the comment at
  `consume_runner.go:247` excludes; the process exits anyway.  A signal before
  `signal.Notify` ends it without an exit line.  A write to stdout has no
  deadline (`consume_runner.go:396`, `557`), so while its reader stalls neither
  `--timeout` nor a signal ends the process.  The branches for `EPIPE` are
  reached only where `SIGPIPE` is ignored; otherwise the process is killed
  without an exit line.
* Subscription: a `subscribe_error` that finds the send channel full is lost
  until the next reconnect (`hub.go:324`), and one that is queued may be evicted.
* Credentials: the removal of an entry may fail; `auth logout` then retries, finds
  no `config.json` and reports success with the entry left behind.  A
  refresh presents the refresh token in memory, not the stored one.  A
  `TokenExpired` answer to an old token clears credentials that are newer.  A bus
  started between the hook and the removal outlives the logout until its
  next heartbeat.
* Key store: on Windows the removal of the last entry lists the values and then
  deletes the master key, and a `Set` may fall between (`keychain_windows.go:385`).
  A `Get` that migrates writes back what it read, over a newer entry or a
  removed one (`keychain_other.go:117`).
* Logging: if the open at a date change fails, every line is lost until the next
  day; a send after `Close` panics.  `tshoot` may skip a line that was stamped
  before midnight and written after.
* Updates: a death between the two renames leaves no skill.  When `npm` is
  killed it may have broken the old install.
* Commands: `meeting get` writes a total of 0 recordings when the second page
  fails, and drops the first; `transient` reports that there is no more after
  100 pages; `create` exits with 0 on a wrong `--until-date`.  A POST that got no
  answer is sent again, and may be executed twice.  `proxy.go:66` drops
  the error of `ClearUserConfig`, so an answer that the token has expired may
  leave the credentials in place.  The comment at `retry.go:71` puts the jitter
  after the cap; `calcDelay` caps after the jitter.
* Parameters: an integer is accepted as `007` or `+5` and then never matches
  a payload.  A flag of another form is rejected, but not when its value is empty.

## 7. What is not modelled

* Tables, help texts, prompts, wording; the bodies of the single REST calls.
* The encoding of frames in bytes, and generated protobuf code: no state, no
  decision.
* `--output-dir` of the consumer, `event list` and `event schema`.
* The selection and packing of files by `tshoot log`; its upload is in `Commands`.
* The cipher of the key store: sealing with a key is remembering the key.
* `MockSource` and the test helpers.
* `ws.state`, a file the source writes for `event status` and never reads back.
* The dispatch of pushed frames to the emit callback, and their acks.
* The Windows variants of pipe, lock and spawn.
* Downloading, checking and unpacking of an update: one step that may fail.
* Memory-model effects: each model takes reads and writes under a mutex, and
  those of atomics, as indivisible.
* A status response reads three fields under three locks and may be inconsistent
  in itself; nothing promises otherwise.

## 8. Plan

Done: (1) `Dedup`, `DedupWindow`, `DedupProofs`; (2) `Delivery`;
(3) `BusServer`, `ServerProofs`; (4) `Subscription`; (5) `Lifecycle`,
`LifecycleProofs`; (6) `WSSource`, `WSSourceProofs`;
(7) `Consumer`; (8) `Credentials`, `Register`, `FileCache`, `KeyStore`;
(9) `Logging`; (10) `Updates`, `RestCall`, `Commands`; (11) the algorithms;
(12) `MCClient`, which checks 7 to 11.

(13) `DeliveryProofs`, `SubscriptionProofs`, `ClientProofs` and the log directory
in `StoreProofs`.

(14) the types and flocks of `FileCache`, the types of `KeyStore`, the order of
`Versions`.

(15) the safety halves of the liveness properties, in all proof modules.

Left: the same two halves for the critical sections under update.lock and
rotate.lock, whose holders the type invariants already name.  With a prover for
ENABLED the nine liveness properties would follow from (15); with induction over
data the recursive definitions of the algorithms could be proved against their
references instead of checked.
