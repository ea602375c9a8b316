# A TLA+ model of the TCP gateway

The gateway keeps TCP connections to clients. It forwards every frame a client
sends to a backend over HTTP, and lets the backend push frames to clients, kick
them and broadcast. This directory models the parts in which goroutines meet,
checks them with TLC on small instances and proves the main results with TLAPS
for every instance.

## The system

| Part | State | Operations | Meets |
|---|---|---|---|
| Agent, write path (`pkg/agent`, `pkg/writer`) | buffer `w.b`, `w.err`, channel `wd` | `Agent.Write`, `Writer.Write/Pop/Flush`, `loopWrite` | callers of `Write`: HTTP handlers, forward goroutines, broadcast |
| Agent, read path (`pkg/agent`, `pkg/hot/hooks`, `pkg/hot/plugins`) | reader, `disable`, properties `concurrent` and `sequenceID` | `loopRead`, `HookHeader`, `PluginsMain`, `ForwadHttp`, `finalizer` | backend (HTTP), write path (replies), registry |
| Gateway (`pkg/gateway`, `cmd/gateway`) | map `agents`, uid counter, connection count | accept loop, `AddAgent`, `RemoveAgent`, `GetAgent`, four HTTP handlers, `Close` | agents, through `Disable`, `Close`, `Write` and the finalizer's `RemoveAgent` |
| Discovery (`pkg/discovery`) | the Redis client, the record in Redis | first registration, heartbeat | Redis, metrics |
| Private HTTP service (handlers in `pkg/gateway`) | what handlers leave running after they have answered | close, send, sendAndClose, broadcast | registry, `Agent.Write`, `Disable`, `Close` |
| Start-up (`cmd/gateway`, `pkg/configs`) | node information, two listeners, the signal context | `LoadNodeInfo`, `Run`, `RegisterSelf`, `Close`, `AlertPanic` | metadata service, ports of the host, discovery |
| Metrics (`pkg/metric`, `LogMiddle` of `pkg/hot/middlewares`) | counters, latency histograms, report text | `In`, `Out`, `Reset`, `collect`, `Report` | every request goroutine, discovery |
| Alerting (`pkg/feishu`, `pkg/utils`) | LRU cache of recent alerts, 30 s | `AlertLowFrequency`, `AlertAuto`, `AlertPanic`, `Alert` | everyone |
| Codec (`pkg/encoding`) | a pool of encoder states | `Marshal`, `Unmarshal`, `CheckRegisterType` | the stress client |
| Stress client (`cmd/stress`) | connections and counters | two load tests | the gateway, from outside |
| Object storage client, checksum | - | - | nobody |

What is hard here: an agent has three goroutines and one more per request, which
share `disable`, the context, the buffer and the connection without a common
lock; tokens, tickers and deadlines decide who is woken; whichever goroutine
fails first has to take the others with it; the registry, the connection count
and the finalizer are updated in separate steps while handlers hold agents that
may be gone; the heartbeat races with its own expiration. The hazards are listed
one by one in `PROJECT.json`.

What makes each part correct:

* write path: order, no loss, no repetition, no frame forgotten in the buffer,
  the loop ends with its agent;
* read path: a bounded and exact number of requests in the backend, a kick that
  takes effect, safe arithmetic on sizes and numbers, all goroutines end;
* gateway: the registry holds exactly the live agents, the count agrees with it,
  nobody announces a kicked client and the end of any other is posted, nothing
  survives `Close`;
* discovery: a running node does not expire;
* private HTTP service: the backend can rely on the order of what it sends and
  on the last word before a kick; every kick ends its connection;
* start-up: IDs are unique, a registered node accepts connections, a process that
  lost a service, or was told to stop and is not stuck in loading, does not stay;
* metrics: concurrent updates leave no lasting error, nothing is reported twice;
* alerting: a storm of one condition is posted a bounded number of times, a
  condition that lasts is posted again and again, no process dies before somebody
  has begun to say so;
* codec: what is marshalled comes back, truncated input is refused, cycles are
  found, no message of supported types panics.

## Modules

| Module | Models |
|---|---|
| `Agent` | the fields of an agent that its goroutines share; `Close`, `Disable`, the finalizer; `AgentSpec`, the life of one agent, which every module that has agents keeps |
| `Directory` | abstract specification of the registry: who is found under which uid, and until when |
| `Intake` | abstract specification of the read path: what is let in, in which order, how many at a time |
| `Stream` | abstract specification of the write path: a log, delivered in order |
| `Outbound` | `Agent.Write`, `Writer`, `loopWrite`; refines `Stream` and `Agent` |
| `OutboundProofs` | proofs: write path, refinement of `Stream` |
| `Inbound` | `loopRead`, hook, middlewares, `ForwadHttp`, the notice 5006; refines `Intake` and `Agent` |
| `Gateway` | accept loop, registry, kicking handlers, finalizers, `Gateway.Close`; refines `Directory` and, for each connection, `Agent` |
| `Discovery` | registration and heartbeat in Redis, with time |
| `Latency` | histograms under concurrent `In`, `Out` and `Reset` |
| `Percentile` | the 99th percentile of a histogram with many samples |
| `Report` | counters and runtime figures under `collect` and `reset` |
| `Session` | `Inbound` and `Outbound` over one agent, with sendAndClose |
| `Push` | the four handlers and what they leave in the background; refines `Directory` |
| `Startup` | processes from start to end, on shared hosts |
| `Alert` | duplicate suppression and the panic |
| `Wire` | the native types of the codec: integers, floats, strings, bytes, lengths |
| `Codec` | encode, decode and registration check, over types as trees |
| `Walk` | recursion, cycle detection and pool of the encoder |
| `Stress` | the load generator |
| `SessionProofs` | proofs: read path, and a whole connection |
| `GatewayProofs`, `PushProofs` | proofs about `Gateway`, `Push` |
| `CodecProofs` | proofs about `Walk` and `Wire` |
| `MetricProofs` | proofs about `Report`, `Latency`, `Percentile` |
| `ProcessProofs` | proofs about `Startup`, `Stress`, `Discovery`, `Alert` |
| `DataLemmas` | lemmas about numbers, finite sets and sums |
| `MC*` | instances for TLC |

`Outbound` and `Inbound` extend `Agent`; they share its four variables, and their
own names do not clash, so that `Session` extends both. The names of the other
modules are kept apart where one instance holds several of them. `Gateway` models many
agents and therefore has the same fields as functions of the connection.

Definitions called "seeded defect" are variants of the definition they stand
before, each with a plausible mistake; they are used by no specification. They
show that a property would notice the mistake.

### Outbound

A frame is the call that wrote it. `WriteCheck` is the unlocked look at `w.err`,
`WriteAppend` the append under the lock; then the caller is at its `select`:
`WriteNotify` (room in `wd`), `WriteBlock` (parked on a full channel),
`WriteTimeout` (the tick comes while parked), `WriteLate` (the tick was there
before the select began). A receive from a full channel moves the token of a
parked sender into the place in the same step, as the Go runtime does
(`LoopRecv`). `LoopFlushFail` keeps in `batch` what the connection did not take.

`WriteLate` needs a goroutine that is off the CPU for 5 ms between `NewTicker` and
`select`; its token can be dropped although `wd` has room. Such a caller ends in
`"late"` instead of `"done"`, which is the same in the code. `NoStrandedFrame` is
stated frame by frame and leaves out a frame whose own caller was late; a late
caller spoils no other frame. `StreamDelivery` is stated for as long as nobody was
late (`NoneLate`): a stranded frame is stuck until the next wakeup.

The refinement maps the log to `wire \o batch \o b` and "broken" to a loop that
has returned.

### Inbound

Frames are numbered in read order; request 0 is the notice that the client has
gone. `ReadHeader` includes the hook, `Admit` includes the increment, the
creation of the properties and the start of the goroutine. `SeqSwap` and
`SeqAdd` are the two atomic operations on the sequence number. `Answer` has two
outcomes: nothing to write (errors, non-200, message id 0) or a reply. A frame
without a body needs nothing more from the connection. `disable`
is a plain bool, written and read by different goroutines; the read follows a
system call and is a single load, so it is modelled as a read of the current
value. `wraps` and `kickedAt` are history variables.

`Intake` sees the frames read, those under way and those served. Its intake is cut
off at the number that `kickedAt` has when the agent is disabled.

### Gateway

`phase` is the position of the accept loop with a connection, `fpc` the position
of its finalizer. The lock is held over several steps only by `Gateway.Close`
(`shut = "locked"`); all other critical sections are one step and wait for it.
`cause` records who cancelled an agent first. A uid is the counter, which starts
over at a limit, with a suffix for time and random number. `agents` is a map from
uids in use to agents (`Registry`), or nil, which `None` stands for; it is assumed
to be no map, uid or cause. The second panic in
`AlertPanic` ends the process.

`notice` is a history variable: whether message 5006 was posted for a connection,
and whether the backend took it. `ForwadHttp` may fail and the finalizer does not
look at its error, so `Announced` promises the post and no more: one attempt, unless
the process ends or a handler has found the agent. A backend that was not reached
keeps a client that is gone.

`Directory` maps the registry: a connection is listed from `AddAgent` on,
cancelled with its context, ended when `RemoveAgent` has run, and `Gateway.Close`
is the step that shuts the directory. `Single(c)` maps one connection to the
variables of `Agent`, with the steps of its finalizer up to `conn.Close` as one.

### Discovery

Times are remaining ticks, so the state is finite without a horizon. An attempt
takes at most `MaxDelay` ticks and takes effect in Redis anywhere within that
time; it may fail with or without effect. `ExpireTime` is cut down to a whole
second. Readers of the record are external: the node is taken for gone when
`ExpireTime` has passed.

### Latency

Every atomic access is a step. One protocol is modelled, since protocols share
nothing but the map. There may be any number of goroutines.

`Percentile` looks at one histogram with nothing else going on, but with a
hundred samples, and compares `P99.Out` with the sample of rank
`ceil(0.99 n)`. The bounds of the buckets ascend, as those in `metric.go` do, and
the set of latencies is finite, as that of a duration is.

### Report

The goroutine of `Report` with every load and every `Store(0)` of `collect` and
`reset` as a step, against requests that count themselves. `late`, `shown`,
`taken` and `hits` are history variables: they say what was lost, published,
loaded and counted in all.

### Session

Where `Inbound` lets a request write in one step, `Session` sends it through the
steps of `Outbound`: `Caller` is the set of requests and of sendAndClose
handlers. The second of delay before `Close` is taken to be longer than
`loopWrite` needs for what is in the buffer, unless it is blocked in `Flush`.
`LastWordOut` leaves out the kicks whose own call of `Agent.Write` was late, and
`outbound_stall` shows why.

### Push

A handler and the goroutine it leaves behind have their own positions, `hpc` and
`bpc`. `earlier` records which requests had been answered when one came in: that
is the order the backend can know of. `ender` is the request that cancelled a
connection. What a queue holds goes on in `Outbound`. `Directory` is refined here too,
with the requests as holders of what they have looked up: `Gateway` and `Push` rely
on one and the same registry.

### Startup

`conf` assigns hosts and ports to processes in any way. The private HTTP service
listens in a goroutine of its own (`web`), whose failure goes through
`AlertPanic` like those of `main`. The metadata service may answer with an error
page, which `GetFact` takes for the fact. It may also never answer: `http.Get` is
called without a timeout, so `Metadata` has no fairness. `NotifyContext` has taken
their own effect from the signals, so a process that hangs there does not end when
it is told to; `StopsWhenAsked` speaks of the processes that are not, or no longer,
in `LoadNodeInfo`.

### Alert

The cache is a set of keys with the remaining time of each and their order of
last use (`newer`), which decides which key a full cache gives up. `posts` and
`tried` count since a key came into the cache. A step of
`Age` may come between any two steps, so expiry crosses with everything.

### Wire, Codec and Walk

`Wire` has the branches of `encode` and `decode` for native types and the two-byte
lengths. It is apart from `Codec` because it does not recurse and can be proved about.
`Codec` translates the rest of `encode` and `decode` as recursive operators over
types and values. The decoder works on a heap, because it reuses memory: slices are
references with a length, `AppendTo` writes in place while there is room. One
variable receives several messages. A byte has `Base` values, so that the 16-bit
length is full at three elements.

The registration check goes by the kind of a type, `encode` and `decode` by the type
itself. A type is therefore native or named (`KindOf`), and int8 is there too: both
pass the check and are in no case of the codec, where the outcome is `panic`.
`CodecSafe` says that no message of the types listed in `encode.go` (`Listed`) ends so;
`RegisteredSupported`, which says it of every type that was accepted, is violated. A
named struct is a struct, and a named `[]byte` is encoded as a slice. The other way
round the check refuses a pointer to a slice, which the list allows and the codec
knows; in the model a type that is refused is not used.

`Walk` leaves the bytes out and keeps the recursion: a stack of calls over an
arbitrary graph of pointers and slices, `ptrLevel` and `ptrSeen` with the
deferred calls, and the pool. What a cycle is (`Acyclic`) is said without the
walk: nothing can be reached from a node but a closed set of nodes in every part
of which some node has no link back into that part.

### Stress

The two load tests are the same but for the message ids; "map" names one copy or
the other. The gateway is external: it answers late or not at all and may push
other messages. The goroutines are followed beyond the two seconds after which
the process ends, to see whether they would end by themselves.

## Runs

| Run | Instance | Shows |
|---|---|---|
| `outbound_flow` | 4 callers, `wd` of 2, fair | types, `NoStrandedFrame`, `StreamSafety` (`Outbound` implements `Stream`), `StreamDelivery` |
| `outbound_stall` | 2 callers, `wd` of 2 | `NotifyDelivers`, which is `NoStrandedFrame` also for frames whose caller was late, **violated** |
| `inbound_flow` | 4 frames, limit 1 (2 in flight), echo id, sizes around both limits, wrap at 2, word of 4 | types, `AdmissionExact`, `NumbersSafe`, `IntakeSafety` (`Inbound` implements `Intake`) |
| `inbound_kick` | 2 frames | `KickStopsForwarding` **violated** |
| `gateway_life` | 3 connections, 2 uids, 1 handler, fair | `GwSafe`, `RegistryExact`, `KickedSilent`, `DirectorySafety` (`Gateway` implements `Directory`), `AgentSafety` (each connection implements `Agent`), `Finalized`, `Announced` |
| `session_end` | 2 frames, 1 sendAndClose, `wd` of 1, echo id, a client that may stop reading, fair | `SessSafe`, `SlowClientServed`, `SessionEnds` |
| `push_order` | 2 requests, 2 connections, lists of 2, fair | `PushSafe`, `SendOrder`, `BroadcastExact`, `DirectorySafety` (`Push` implements `Directory`), `KickCompletes` |
| `data_parts` | `Latency`: 3 goroutines, 2 buckets; `Percentile`: 3 buckets, latencies on and beside their bounds, up to 101 samples; `Report`: 2 counters, 2 rounds, 4 requests each; `Discovery`: 10 s, 5 s, round trips up to 2 s, ticks of 250 ms; `Codec`: 10 types, 2 messages into one variable; `Walk`: every graph of 3 structs with up to 2 pointers, 2 calls | `LatSafe`, `DriftHeals`; `OutIsPercentile`; `ReportSafe`; types, `NeverLapses`; `RoundTrip`, `CodecSafe`; `WalkSafe` |
| `process_parts` | `Startup`: 2 processes, 2 hosts, 2 ports; `Alert`: 2 goroutines, 2 keys, room for 1, 2 ticks; `Discovery`: round trips up to 7 s, 2 failures in a row; `Stress`: 2 connections, 3 requests, 1 push; fair | `StartSafe`, `ListedServes`, `StopsWhenAsked`; `AlertSafe`, `PersistentReported`; `Reregisters`; `LoadSafe`, `SignalEnds` |
| `codec_nested` | slices of slices, of pointers, of structs with slices | `RoundTrip` **violated** |
| `codec_types` | structs with int8, with named native types and with slices of them | `RegisteredSupported` **violated** |
| `walk_slices` | pointers and slices | `NoOverflow` **violated** |

Several of these properties are conjunctions of named parts, each stated on its
own in the module: `NumbersSafe` is `BodyBounded` and `SeqDistinct`,
`GwSafe` is the types and `CountAgrees`, `RegistryExact` is `NoZombie` and `Reachable`,
`PushSafe` is the types and `LastWord`, `SessSafe` is the types and
`LastWordOut`, `LatSafe` the types and `CountCovers`, `ReportSafe` the types,
`CountedOnce` and `FreshGauges`, `StartSafe` the types, `UniqueID` and
`ListedAccepts`, `AlertSafe` the types, `StormBounded` and `DeathReported`,
`LoadSafe` is `NumbersAgree` and `FewOutstanding`, `CodecSafe` is
`TruncationDetected` and the absence of panics for listed types, `WalkSafe` the types,
`CycleVerdict`, `PoolClean` and `NoOverflow`.

The runs `data_parts` and `process_parts` hold components that share no state.
Interleaving them would multiply their states and show nothing new, so the MC
module keeps them side by side and a behaviour runs one of them, which the
variable `part` names; the others stay in an initial state, where their
properties hold. In `process_parts` the first process has the first host and the
first port: hosts and ports are interchangeable. In `data_parts` the nodes of
the walk, which are interchangeable too, are ordered by the number of their
links.

The violations:

* `outbound_stall`: the comment in `Agent.Write` promises delivery by writing to
  the buffer first and notifying afterwards, and allows a token to be dropped
  because the queue is full. The select takes any ready case, so a goroutine
  that was held up for 5 ms can drop its token while the queue is empty, and the
  frame waits for the next message to the same client.
* `inbound_kick`: two comments say that a disabled agent forwards nothing.
  Frames that passed the test of `disable` are still posted. What holds is
  `IntakeSafety`, whose intake lets in nothing that is read after the kick.
* `codec_nested`: the documented types include slices of slices, of pointers to
  structs and of structs with slices, but `decodeArray` decodes all elements into
  one variable, so they come back sharing memory.
* `walk_slices`: a cycle is said to be an error; one through slices only is not
  noticed and overflows the stack.

* `codec_types`: the list of supported types in `encode.go` is the one that
  `CheckRegisterType` is there to enforce, but the check lets int8 and named native
  types pass, and a message with one of them ends in the panic "Unknown type".

One more thing was met that is not a run. `get` in `pkg/configs` does not look at the
status of the answer, so an error page of the metadata service becomes the
instance ID; `UniqueID` says that two processes in service share an ID in no
other way.

### Bounds and why they are enough

* `Outbound`: four callers on a channel of two places give tokens that are
  stale, a parked caller and a caller that times out together, and batches of
  several frames that are cut by a failed write.
* `Inbound`: with `MaxConcurrent = 1` two requests are in flight and the third
  is refused or admitted after one has ended. `SeqLimit = 2`, `SeqWord = 4` reach
  the swap, the missed swap (two requests step over the limit together) and the
  overflow with four requests and the notice. Sizes are taken in a small word
  with the header length, minimum and maximum in the order they have in the code.
* `Gateway`: a third connection takes the uid of the first while the first is
  alive, being removed or gone. Connections are interchangeable, so `MCGateway`
  numbers them in the order in which they are accepted; `Accept` has no fairness
  that this could take away.
* `Discovery`: the durations are the real ones, in ticks.
* `Latency`: three goroutines are enough for two creators and a third that
  crosses with `Reset` of either histogram.
* `Percentile`: 100 samples are the first number at which 99 percent is a whole
  sample less than all, 101 the first beyond.
* `Report`: with an interval of 2 and four requests, rates are rounded down and a
  request may fall between any two steps of either of two rounds.
* `Session`: one place in `wd`, two requests and a kick: one token is stale, one
  caller is parked and one times out. Bodies have one byte, so that reading one may
  fail, or the header is refused; frames without a body are in `inbound_flow`.
* `Push`: two requests of the same or different routes are in flight together,
  and connections of a list leave before, between and after its writes.
* `Startup`: two processes on one host or two, with equal or crossed ports; each
  may start again without end.
* `Alert`: one key more than the cache holds, and as many goroutines as keys, so
  that a key expires or is evicted at every point of a call. (With room for one
  key, "used last" is the only key.)
* `Codec`: two values of a byte make the 16-bit limit 3, below the longest slice.
  Two messages into one variable show what is left of the first.
* `Walk`: a threshold of 2 instead of 100 with three nodes: cycles lie above,
  below and across it; the stack has room for more calls than any walk that
  stops needs (`NoOverflow` holds with that room).
* `Stress`: two goroutines count while the window is swapped out, and a third
  request follows a pushed message.

`CHECK_DEADLOCK FALSE` stands where the system may stop: a bounded number of
callers, frames or connections has been served, or the process has ended.

### Fairness

Weak fairness for every goroutine: the Go scheduler is preemptive. A read ends
at its 60 s deadline, a write at its 60 s deadline, a call to the backend at 10 s,
a parked `Agent.Write` at its tick; so each of these steps is eventually taken.
Nobody is obliged to connect, send, leave, kick or stop the process. In
`Discovery` an attempt fails at most `MaxFails` times in a row. In `Session` not
even `Flush` is obliged to return while the connection is open, which is less
than the code's deadline gives. In `Startup` Redis and the chat have timeouts,
so calls of them return; the metadata service is asked without one and is not
obliged to answer. In `Alert` and `Report` nobody is obliged to raise or count.

## Proofs

Every safety invariant that a run checks is proved for all values of the
constants, but for the two of `Codec`, and so is every abstract specification that a
run checks as a property. A theorem rests on an inductive invariant,
which was model-checked on the run's instance before it was proved; its parts say
what the property needs to know of the steps in between.

### Write path (`OutboundProofs`)

For every set of callers and every capacity of `wd` above 0.

* `OutTypeCorrect`: the types, with at most `WdCap` tokens.
* `NoStranded`: `[]NoStrandedFrame`. The property is not inductive.
  `WakeupPending` says that a frame whose caller is parked or through its select
  has a token, or a loop that is about to pop or has ended. A caller that gives
  up by timeout was parked, so its frame had a wakeup already; a late caller loses
  the wakeup of its own frame only, and the others keep theirs.
* `OutboundInv`: `NoneLost`. A frame that was appended is in the buffer, in the
  batch or on the wire, whatever fails.
* `OutboundIsStream`: `OutSpec => StreamSafety`, with `BatchHeld` (a batch exists
  only between pop and the end of flush), `LoggedOnce` (a frame in the log has a
  caller that is past its append), and facts about concatenation, which
  `SequenceTheorems` has not. Late callers do not matter for it.
* `OutboundIsAgent`: the loop may cancel its agent, and nothing but the finalizer
  closes the connection.

### Read path and connection (`SessionProofs`)

For any number of frames and requests, any limits, ids, sizes and words.

* `InTypeCorrect`, `AdmissionIsExact`: the counter is the number of requests that
  are not done; that it stays within `MaxConcurrent + 1` follows from counting,
  since only the reader adds to it, and only when it was not above the limit.
  `ReaderHolds` adds that the frame in the reader's hands has no goroutine yet.
* `KickIsCutOff`: with `KickKnown`, which says that no frame counts as late before
  `disable` is set, and that the frame the reader has past the test is not late.
* `InboundIsIntake`: `InSpec => IntakeSafety`. That the read path starts a frame only
  when there is a place needs the exact counter, that it starts each once needs
  `ReaderHolds`, and that it starts none after the kick needs `KickKnown`.
* `InboundIsAgent`: `InSpec => AgentSpec`, with `NoticeKnown`, which ties the finalizer
  to the request that posts message 5006 for it.
* `NumbersAreSafe`: `Numbered` bounds, for every number, the requests that carry it
  by the number of times the numbering started over, and by one more only for
  numbers up to the current one. It needs the swap and the addition as separate
  steps, and the overflow of the word.
* `SessionIsInbound`: a connection implements `Inbound`, so that all of this holds
  with the write path and the kicks around it. `SessionIsStream`: it keeps
  `StreamSafety`. `SessionKeepsHalves` puts them together, and
  `SessionIsIntakeAndAgent` carries both abstract specifications over.
* `SessionIsSafe`: types of both halves and `LastWordOut`. A kick that has cut the
  connection had its message on the wire: by `NoneLost` it was somewhere, and the
  second of delay emptied buffer and batch.

### Registry (`GatewayProofs`)

For any number of connections, uids and handlers. `GwInv` joins `NoZombie` and
`Findable` (an agent has its entry from `AddAgent` to `RemoveAgent`, also while its
finalizer is under way), `CountExact` (the counter is the number of agents between
their two atomic additions), `KickMarked` (who is about to cancel has disabled),
`NilAfterClose` and `CancelledLives` (what was cancelled, or found by a handler, was
running). `RegistryIsExact`, `CountIsRegistry`, `KickIsSilent` and
`NobodySurvives` follow: when nothing is on its way in or out, the agents that are
counted are those in the map, by `Findable` one way and by `NoZombie` the other.
`GatewayIsSafe` is the types and that.

* `RegistryIsDirectory`: `Spec => DirectorySafety`. Each step is a step of `Directory` or
  none. The hard one is `RemoveAgent`: it deletes by uid, and uids start over, so that
  it takes out its own entry and no other needs `Findable` and `NoZombie`.
* `ConnsAreAgents`, `ConnIsAgent`: every connection keeps `AgentSpec`, and so do, by
  `OutboundIsAgent`, `InboundIsAgent` and `SessionIsIntakeAndAgent`, the modules of a
  single connection. This is the link between the two levels of the project: the agent
  that `Gateway` cancels, disables and ends, and the one whose loops the other modules
  follow, keep one and the same specification. It does not say that every behaviour of
  `Agent` is possible in both.

### Private HTTP service (`PushProofs`)

For any connections and requests, and lists of any length. `PassedOn` counts, for a
broadcast under way, how often its list names a connection up to its position;
`EndedByKick` says which request has ended a connection and how far that one is;
`EarlierAnswered` is what makes `SendOrder` inductive. Results: `PushTypeCorrect`,
`SendsInOrder`, `BroadcastIsExact`, `WordBeforeEnd`, and `PushIsSafe`, the types and the
latter.

`PushUsesDirectory`: `Spec => DirectorySafety`. A kick acts on what was found at an
earlier step; if the agent has ended since, nothing happens to it and to no other.

### Metrics (`MetricProofs`)

* `ReportIsSafe`, for any counters, metrics and rounds: `HitsAccounted` is the
  balance of requests (taken, late, or still in the counter), and `RatesCovered`
  says that what is shown, times the interval, was taken.
* `LatencyIsSafe`, for any goroutines and number of buckets: `BucketsCovered` bounds
  the sum of the buckets that `Reset` has not yet to clear by the count and the
  goroutines between their two additions, for every histogram ever made.
* `OutIsExact`, for any ascending bounds and any number of samples: up to a bound,
  the buckets hold as many samples as there are latencies up to it.

### Start-up, load generator, discovery, alerting (`ProcessProofs`)

* `StartIsSafe`, for any processes, hosts and ports: `IDMade` says what an ID is
  made of, `ListensFrom` and `OneListener` tie registration to a listener, and
  two listeners on one host to two ports.
* `LoadIsSafe`, for any connections and messages: `CountedOnce` and `SuccessSent` are
  balances over the positions of all goroutines, `UnderWay` one per connection.
* `DiscTypeCorrect`, and `NoLapse`: if
  `(MaxFails + 1) * (MaxDelay + Interval) + MaxDelay + Sec - 1 < TTL` then a
  registered node never expires. `Budget` gives a lower bound on what is left of
  the record at each point, in terms of the time in the phase and the failures so
  far. With the 10 s and 5 s of the code the condition fails as soon as `MaxFails`
  is 1: a single failed heartbeat may let the node expire.
* `AlertIsSafe`, for any keys, goroutines, capacity and time to live:
  `PostsAndAdding` counts the posts of a key and the calls that are about to post
  it together, so that goroutines which meet between `Get` and `Add` are counted
  before they post; `Attempted` says that a key in the cache was tried or is being
  tried, which is what a dying process that finds it relies on. An attempt that is
  under way then may be cut off.

### Codec (`CodecProofs`)

The walk, for any message, threshold and depth of the stack:

* `WalkVerdict`: types, `CycleVerdict` and `PoolClean`, also for messages with
  slices. `OnPath`: the frames lead from the root along links. `SeenIsStack`:
  `ptrSeen` is exactly what the frames have recorded, each once, so that it is
  empty when they have returned and a pointer found in it closes a cycle: of the
  nodes from its frame to the top, each has a link back among them.
  `WalkedIsAcyclic`: what was walked to its end has no cycle; a node all links of
  which lead to such nodes is one (`AcyclicNode`).
* `WalkIsSafe`: also `NoOverflow`, under two hypotheses on the constants.
  `Kind = {"ptr"}`: with slices it is false, as `walk_slices` shows. The stack has
  room for as many frames as the threshold and the nodes together: 100 in the
  code, and Go's limit is 1 GB; `data_parts` is an instance of both. The depth is
  `ptrLevel`, so all frames above the threshold have recorded different nodes
  (`PtrOnly`, `DepthBound`).

The native types, for bytes of any size (`Base` of 2 or more, 256 in the code) and
strings and byte slices of any length:

* `LeafRoundTrip`: a value that is encoded without an error is decoded to itself,
  wherever it lies in a message, and exactly its bytes are consumed.
* `LeafTruncated`: of its bytes without the last ones the decoder makes no value; it
  reports the end of the input, leaves the variable alone and reads nothing beyond.
* `LengthsExact`: a length survives its two bytes exactly if `encode` does not refuse
  it, so the limit in `encode.go` is neither too high nor too low.

A number is split into halves (`Halves`, `TwoParts`) and a field found at its place in
a message (`At`, `Within`, `CutAt`); signed numbers are read back through the modulus.
What structs, slices and pointers add is recursion over types and stays with TLC.

### Lemmas, assumptions, limits

`DataLemmas` has what several of these need: induction over numbers and finite
sets, stated with sets instead of predicates, which the provers can instantiate;
the last element of a finite order; the largest and least number of a set; and
sums. A sum over a set is the fold that the models use, and its lemmas
(`SumChange`, `SumSplit`, `SumPart`, `SumPlus`, ...) are derived from the
definition of that fold.

The assumptions used are those named in the modules of the models: numbers are
natural numbers, limits of a word are below it, absent values are none of the
values they stand in for, and goroutines, connections, requests and latencies are
finite sets where they are counted.

Only model-checked: all liveness properties, as the proof system has no reasoning
about fairness here (`StreamDelivery`, `Finalized`, `Announced`,
`SlowClientServed`, `SessionEnds`, `KickCompletes`, `DriftHeals`, `ListedServes`,
`StopsWhenAsked`, `PersistentReported`, `Reregisters`, `SignalEnds`), and `RoundTrip`
and `CodecSafe`: above the native types `Codec` uses recursive operators and would need
induction over types and values, both out of the provers' reach, so what it computes
is checked on the bounded types and values of its runs.

## Not modelled

* Payloads, message ids other than the ones compared, logging, texts, the HTTP
  servers and the Go runtime beyond channels, atomics and maps.
* `Agent.Enable` and `getTcpStatus` have no caller; `validate` does nothing.
* Reconnecting to Redis after a change of configuration: nothing changes it.
* `pkg/cos` only does I/O through a vendor library, `crc.go` is one library call;
  the gateway uses neither.
* `CustomRecovery`: none of the modelled handlers panics.
* That samples are lost when two goroutines create the histogram of a protocol at the
  same time: `Latency` does this as the code does, and no property forbids it.
* What a reader of `metric.Data` sees while it is assigned without a lock.
* Registered types that refer to themselves, on which the check recurses for ever.

## Plan

1. Done: all models; the proofs above, with the refinements of `Stream`, `Intake`,
   `Directory` and `Agent`, and the native types of the codec.
2. Next: which part of the delivery of `Stream` is a safety property of a loop that
   has ended; the link between `Push` and `Outbound`, whose queue `Push` takes for
   granted; the registration check of one level of `Codec`.
