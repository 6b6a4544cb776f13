# OpusRef verification

TLA+ specifications of OpusRef, a half-duplex audio reflector over UDP: the
server's policy engine, its single state owner, its transaction cache and its
UDP adapter; the client's queue and its UDP adapter; the packet matrix both ends
validate with; and the server process with its monitoring. TLC checks them on
small instances; TLAPS proves their safety properties for all instances, some
under conditions that section 4 names. All paths below are relative to the
repository.

## 1. The system

A client connects over UDP with a challenge and response handshake (HELLO,
CHALLENGE, AUTHENTICATE, WELCOME), confirms its session with a KEEPALIVE, asks
for the one floor with STREAM_REQUEST, sends media, and gives the floor back
with STREAM_END. The server tells every other confirmed session with
STREAM_START, forwards the media to it, and ends the stream with
STREAM_REVOKE. Requests and notifications are transactions: retried by the
sender, answered from a cache by the receiver.

| Component | State | Operations | Talks to |
| --- | --- | --- | --- |
| Policy engine, `pkg/server/engine.go` | `sessions`, `floor`, gap counter, `draining`, behind one mutex | AddSession, SetReady, Touch, RequestFloor, Media, End, Disconnect, Tick, BeginShutdown; Snapshot reads | called by the state owner; returns a `*StreamEnd` when a call released the floor |
| State owner, `pkg/server/reflector.go` | `peers`, `challenges`, `transactions`, `pending` | handle (one branch per packet type), tick, drain and handleDrain | engine (calls), transport (channels), monitor (events) |
| UDP transport, `internal/transport/udp.go` | channels Inbound, Control, Media; `mediaEnabled`; counters | EnqueueControl, EnqueueMedia, DisableMedia, Read, Write | state owner (channels), socket |
| Wire codec, `pkg/wire` | none | Encode, Decode, Validate | everybody |
| Client queue, `pkg/client/client.go` | connected, stream, ending and close flags, counters of accepted and sent frames, channels for events, media, control | Connect, RequestStream, SendAudio, EndStream, Close, run, revoke, publish, fail | the application's goroutines, a Sender |
| Client UDP, `pkg/client/udp.go` | pending requests, receive state, retired streams | handshake, request with retries, readLoop, processLoop, keepalive, receive expiry | socket, client queue (callbacks) |
| Monitor, `pkg/monitor` | snapshot, counters, ring of recent events with their IDs, behind one mutex | Publish, Add, AddEvent; HTTP handlers read | state owner and monitor goroutine (calls) |
| Server command, `cmd/opusrefd` | signal context, error channels, prior counts of the monitor goroutine | run, waitForTermination, the orderly end | all of the above |
| Configuration, recording, the client command | files, flags | start-up and I/O | the above |

The server has three goroutines of its own: the state owner, the reader and the
writer. The state owner never blocks on the socket; what it enqueues leaves, or
does not leave, on the writer's time. The process adds main, which waits for
whatever ends it, a monitor goroutine, which turns snapshots into counters and
events, and the HTTP server.

### What is hard

* **One handler does many things.** A notification that finds the table or the
  control queue full disconnects its listener from inside the loop over the
  listeners; if that listener owns the floor, the stream ends there, which
  notifies everybody, which may overload again.
* **Two tables of the same sessions.** `Reflector.peers` and `Engine.sessions`
  are created, refreshed and expired by separate calls, at separate readings of
  the clock.
* **Late messages.** The acknowledgement of an old revoke, a repeated
  AUTHENTICATE or DISCONNECT, or a media frame from before the wrap of its
  sequence number may arrive at any time.
* **Limits.** Challenges, results, notifications and all three channels are
  bounded and refuse, drop or disconnect at the limit.
* **Concurrent writer.** It picks between control and media at random when both
  are ready, and is in the middle of a batch when `DisableMedia` runs.
* **Concurrent client.** The application's calls, the sending goroutine and the
  adapter's callbacks share one struct; each can fail or close the client while
  another waits, and a revoke can be handled before the grant it belongs to.
* **Answers of the past.** The client's adapter meets replies to a handshake or
  a request it has given up, and notifications of streams that are over; it
  remembers only the last eight streams it retired.
* **Several ends at once.** A signal, a failure of the HTTP server and one of the
  transport may come together; main takes one branch and must lose neither the
  drain nor an error.
* **Termination.** Every hold of the floor, every notification and every
  shutdown must end without help from a client.

### What makes each component correct

* Engine: the floor belongs to a live, confirmed session and to nobody once the
  server drains; each release is reported once, correctly; limits are enforced;
  every hold ends; media is in order, gaps are counted exactly, and a STREAM_END
  has one outcome whatever overtakes it.
* State owner: the two tables agree; nobody hears of a dead stream; every
  confirmed session hears of the live one before its media; every release is
  announced and revoked; notifications and the drain end.
* Transaction cache: a request takes effect once however often it arrives, its
  result can be had again, one challenge gives one session, full tables drain.
* Transport: `DisableMedia` is prompt, batches are accounted for, control gets
  through, the goroutines end.
* Client queue: STREAM_END follows the stream's media, close and failure release
  every waiter, a revoked stream is not active.
* Client UDP: both ends agree on the session; an answer decides the request it
  belongs to; receive state follows one stream, ends with it and never returns
  to a retired one; a lost session is noticed.
* Wire rules: neither end refuses what the other means it to accept, although
  they change phase at different times.
* Process and monitor: the socket outlives the drain, a failure is reported,
  drops are counted once and all, no event is lost or stored twice, and whatever
  asks the process to end does end it.

`PROJECT.json` lists the hazards line by line with the properties that cover
them.

## 2. Modules

```
Floor  <--(implements)--  Engine --EXTENDS--> EngineOps <--EXTENDS-- MediaOrder
                                                  ^
                                              Reflector <-- MCReflector

WireRules <--EXTENDS-- ClientSession      ClientQueue      Transactions      Transport      Daemon
```

The theorems about a module M are in MProofs, which extends it: EngineProofs,
MediaOrderProofs, ReflectorProofs, TransactionsProofs, TransportProofs,
ClientQueueProofs, ClientSessionProofs and DaemonProofs.

**EngineOps** is `engine.go` as operators on a record (`sessions`, `floor`,
`gaps`, `draining`), so that the engine on its own and the state owner that
calls it use the same definitions. A `time.Time` is kept as an age that stops
growing one past the only limit it is compared with. Tick returns at the first
session whose removal releases the floor, after removing any of the other
expired ones (map order): `TickRemovals` is the set of possible outcomes.

**Engine** makes each exported method that changes state an action; the mutex
makes them atomic. `end` is what the latest call returned.

**Floor** is the abstract promise: `idle -> granted -> active -> idle`, at most
one holder, closed for good at shutdown, every hold ends. `Engine` maps its
floor to (holder, phase, open) and is checked (`ImplementsFloor`) and, for the
safety part, proved (`RefinesFloor`) to implement it.

**MediaOrder** puts one stream of unboundedly numbered frames before the
engine's wrapping 32-bit arithmetic; frames are lost, repeated and reordered.
Then comes the owner's STREAM_END as the transaction it is: `Ask` sends it,
copies of it are refused while the cache is full (`Limited`), applied
(`EndStream`) or answered from the cache (`Replay`), late frames arrive between
them, the ticker may free the floor first (`Timeout`), the client's keepalive
goes on, and the caller of `EndFloor` gets its answer (`Complete`) or none
(`GiveUp`). Only what the request was answered with when it was applied is
cached, an ERROR INVALID_STREAM too; the ERROR LIMIT_EXCEEDED of a full cache is
not, so a later copy may still be applied. When an answer cannot be queued the
session is closed and a first result forgotten (`Undelivered`).

**Reflector** has one action per handler of the state owner. A handler threads
a record (engine, peers, pending, events, enqueues tried) through the calls it
makes, in the code's order, and commits the result. What the environment
decides, the order of each `range` over the peers and which enqueues find the
control queue full, is chosen before the handler starts: the first `MaxRanges`
ranges of a handler have an order of their own, later ones repeat the last.
`Loop` is the for statement: the body of each loop is a function of an entry and
the record (`RevokeEach`, `StartEach`, `CloseEach`, ...). `told` is history: the
sessions for which the control queue really took a STREAM_START of the stream
that holds the floor, which is not the same as `receiving`, set before the
enqueue is tried.

| Action | Code |
| --- | --- |
| Admit | authenticate, and transact's delivery of the WELCOME |
| Keepalive, StreamRequest, StreamEndRequest, DisconnectRequest | the branches of control, with transact's delivery of the response |
| Duplicate, Refuse | the stored response is sent again; sendError |
| Undelivered, RefuseOverload | the same when the control queue is full: controlOverload |
| ForwardMedia | media |
| Ack | ack, running or draining |
| TickServer | tick: expiry of peers, engine.Tick, retries |
| BeginDrain, StartDisconnects, FinishDrain, GraceExpires | the stages of drain |
| Advance | the clock (environment) |

The recursion controlOverload -> notifyEnd -> startNotification ->
controlOverload is cut after one round: the inner one meets an engine without a
floor, where `Drop` is all controlOverload does.

**Transactions** is the cache: keys, fingerprints, limits, replay, the undoing
of a request whose response cannot be queued, challenges and expiry. Any
request a client could have built may arrive any number of times. Requests of a
confirmed session are one kind, because their effects are in Reflector. A wrong
tag is rejected like a wrong nonce; random numbers are drawn fresh.

**Transport** follows the channel, atomic and socket operations of `udp.go` one
at a time. `ledger` is history: batches in the queue or in hand, lost, written
after `DisableMedia` returned.

**ClientQueue** interleaves the goroutines around `QueueClient`: one for each
call of the application, the ones executing run, and the adapter's, which calls
revoke, publish, fail and remoteClose. A step is a region under `c.mu`, a
channel operation or a call of the sender. The record `c` is the struct with
the contents of its channels; `server` is history. Of the adapter only the
callbacks are here, made by one goroutine (processLoop, readLoop and keepalive
make them from three; a failure next to a remoteClose comes from run or
EndStream instead).

| Action | Code |
| --- | --- |
| ConnectBegin, ConnectSent, ConnectDone, ConnectLeave | Connect |
| RequestBegin, RequestGranted, RequestLeave | requestStream |
| EnqueueMedia | SendAudio and SendData |
| EndBegin, WaitMedia, WaitProgress, WaitDone, WaitCancelled, EndAcquire, EndWrite, EndLeave | EndStream with waitMedia and acquireControl |
| RunTake, RunSend, RunCount, RunSignal, RunStop | run |
| CloseBegin, CloseAgain, CloseWaited, CloseDisconnected; RemoteBegin; CloseSender, CloseDone | closeContext; remoteClose; both |
| ReaderEvent, ReaderRevoke, ReaderDisconnect, ReaderFails, ReaderStop | the adapter's callbacks |
| Publish, Fail, Abort | publish and fail, as steps of whoever calls them |

**WireRules** is the table of `validate.go`, one line for each packet type, and
`Validate` as the predicate `Valid` of a packet, a direction and a phase.

**ClientSession** is the client's UDP adapter with the server's side of the
conversation. The network is two sets of packets that only grow, so that each
packet may be lost, delayed, repeated or overtaken; a packet counts only where
`Valid` lets its receiver accept it. The server answers each transaction once
and repeats the stored answer. Requests carry numbered transaction IDs, so a
late answer can be told from the right one; KEEPALIVEs share one number, and
what is left of a finished one is removed.

| Action | Code |
| --- | --- |
| Connect, Challenged, Welcomed, Confirmed, ConnectFails | Connect with handshake and exchange |
| ConnectUnread | Connect after a failed confirmation |
| RequestFloor, EndFloor, Disconnect, KeepaliveTick | request with its control token, for each caller |
| Reply, TimesOut, ReadFails | processLoop's lookup of the pending request; request's last wait; readLoop |
| ReceiveStart, ReceiveRevoke, ReceiveDisconnect, ReceiveAudio | processLoop, with retireLocked and isRetiredLocked |
| Age, ExpireRemote | the clock; expireRemote |
| Serve (ServeHello, ..., ServeDisconnect), ForeignStart, StreamEnds, SessionEnds | the server's handlers as one client sees them, other clients, timeouts |

**Daemon** is the process: main, Run with its drain, the monitor goroutine, the
HTTP server and the registry. What Run does to sessions is Reflector's; here it
finds drops and gaps, emits events and publishes snapshots. Steps that no other
goroutine can tell apart are one: `CloseMonitor` closes monitorDone and
publishes, `Close` shuts the HTTP server down and closes the socket. After
`stop()` a signal has its default effect, which is the state "killed".

| Action | Code |
| --- | --- |
| Work, WorkStore, publish | one turn of Run or of the drain: emit (ID, then ring), publish |
| RunFails, drain, DrainEnds | Run's other branches, drain |
| Tick, AddDrops, StoreDrops, PublishTick, MonitorReturns | the monitor goroutine |
| Signal, HTTPFails, InboundDrop, TransportFails | the environment |
| SelectSignal, SelectHTTP, SelectRun, AwaitRun | waitForTermination |
| CloseMonitor, Close | the end of run |

An operator whose comment begins "Mutant of" is a plausible bug in the operator
that follows it; the mutation runs of `PROJECT.json` use it and nothing else.

## 3. Runs

| Run | Instance | Shows |
| --- | --- | --- |
| engine | 2 sessions, 2 addresses, streams 0 and 1, sequence space 4, timeouts of 1 and 2 units | TypeOK, OwnerIsReadySession, ReleaseReported, TickEnforcesLimits, ImplementsFloor |
| media_order | sequence space 8, 19 frames, one STREAM_END, cache and control queue full at any time | ForwardedInOrder, GapsAreLosses, EndHasOneOutcome, FloorIsFreed |
| reflector_overload | 3 sessions in every order of visit, room for 2 notifications and 1 per client, the first or the next two enqueues of a handler fail, each session with an address of its own, one order per handler | TablesAgree, StartsAreCurrent, ListenersAreTold, ReleaseIsAnnounced |
| reflector_liveness | 2 sessions sharing an address, 2 notifications per client, no failing enqueue, two orders per handler | ReleaseIsAnnounced, NotificationsEnd, DrainCompletes |
| transactions | 2 session IDs, 2 addresses, 2 bodies, 2 challenges, 3 results, full queues | AppliedOnce, OneSessionPerChallenge, ChallengeIsRepeatable, DisconnectIsRepeatable, LimitsRecede |
| transport | 2 listeners, room for 2 control datagrams and 1 batch, failing writes | DisableIsPrompt, MediaIsAccounted, ControlIsWritten, GoroutinesEnd |
| client_queue | every call once at a time, 1 stream of up to 2 frames, all channels of capacity 1 | CloseIsShared, EndFollowsMedia, EndReturns |
| client_session | 2 connects and 1 or 2 requests, 2 streams of others, ring of 2, 2 tokens | HandshakeAgrees, NothingIsRefused, TransmitsAsAnswered, RetiredStaysRetired, EndsAreItsOwn, ReceiveStateClears, LossIsNoticed |
| daemon | ring of 2, 2 drops, 1 gap, 1 event of Run | CloseAfterDrain, FailureIsReported, EventsAreKept, Stops, DropsAreCounted |
| late_revoke_ack, revoke_before_grant, stream_reused | as small as shows it | the findings of section 6 |

In every module but Engine the type invariant, TypeOK, is the first conjunct of
the invariant about the module's own tables (GapsAreLosses, TablesAgree,
AppliedOnce, MediaIsAccounted, CloseIsShared, HandshakeAgrees, EventsAreKept).

### Why the bounds are enough

* *Two sessions* are an owner and a listener, or an owner and a rival; IDs and
  addresses are only compared for equality. The overload run has the third
  session a nested overload needs: one being visited, one already notified, one
  still to come, with the table full at the second.
* *Orders.* The overload run gives a handler one order for all its ranges.
  With two orders (`MaxRanges = 2`) the same run reaches the same 21,051 states
  and holds too; it takes four times as long, so it is not among the runs. The
  theorems hold for any `MaxRanges`.
* *Client.* One stream is enough for the races inside a stream's life. Two
  frames with room for one: a progress token of the first is in the channel
  while EndStream waits for the second. One run slot: a second run exists only
  for a Connect during a failure; the safety properties are proved for any
  number of them, and of streams.
* *Time.* An age matters only below, at or above its limit. In the reflector
  runs one unit of the clock separates the two (limit 0), so a timeout is a
  single step of the clock away from any state; the engine run uses different
  limits so that they expire in every order.
* *Sequence numbers.* Order depends on a distance being below half the space:
  a space of 8 with 19 frames wraps twice and has distances on both sides.
* *Attempts.* Two instead of four: a first, a last, and none left. Retries
  between them repeat the same branch.
* *Cache.* Room for three results with two sessions and two addresses makes both
  limits bind, also in the middle of a handshake.
* *Channels.* Capacity 1 makes each queue full and empty; two control datagrams
  let one overtake the media behind the other.
* *Client sessions.* Two connects: one attempt is late for the other. MaxTx
  counts handshakes and requests together: after one handshake two requests are
  left, an answered or abandoned one and the next for the same stream number;
  after two, one. Two streams of others come from different owners and have the
  same number; with the client's own stream, which may be revoked, they fill a
  ring of two and wrap it. Two tokens are a keepalive and one request, so the
  second request in flight finds none.
* *Process.* Two drops are found by one tick or by two; with Run's one event
  they are three events for a ring of two. More gaps or events repeat a branch.
* `MaxGaps`, `MaxDrops`, `MaxEvents`, `MaxSent`, `MaxNonces`, `MaxConnects`,
  `MaxTx` and `MaxForeign` cap what the code lets grow.
* Symmetry is used in safety runs only.

`CHECK_DEADLOCK FALSE` is set where the system may really stop: MediaOrder after
the stream ended or all frames were sent, Transport after both goroutines
ended, ClientQueue and ClientSession after the client was closed or failed,
Daemon after the process ended.

### Fairness

* *Tick.* Run's select has a 50 ms ticker. Go chooses among ready cases at
  random, so the tick is taken again and again while the server runs: weak
  fairness of Tick, and of the clock. `Reflector!Fairness` says so with
  `TickHasWork` in place of ENABLED; the two agree because a tick without work
  changes nothing.
* *Drain.* drainPending starts a new 50 ms timer after every datagram, so steady
  traffic may postpone the tick for ever. There only the grace period, a context
  with a deadline, is fair; DrainCompletes holds with that alone.
* *Writer.* A goroutine that is ready is scheduled. The random choice of the
  second select is NOT assumed fair: ControlIsWritten holds because the first
  select always looks at control alone.
* *Client.* EndStream and run go on when they can; a call of the sender returns,
  because its retry schedule is finite. Nothing is assumed of the application,
  the server, the adapter or a context's cancellation.
* *Owner's stream.* FloorIsFreed needs the server's ticker and the clock alone;
  nothing is assumed of the network or of the client.
* *Client session.* The keepalive ticker and the expiry in processLoop fire,
  waits end, media grows old. A frame of a stream that is over still refreshes
  the receive state (`udp.go:385`), so of the network one thing is assumed: such
  late frames do not arrive for ever (`LateAudio`). Nothing is assumed of the
  server or of an answer's arrival.
* *Process.* The goroutines are scheduled, the tickers fire, and the drain ends
  with ShutdownGrace at the latest. Strong fairness of RunFails, drain and
  DrainEnds stands for the random choice of Run's select, whose case stays ready
  from one turn to the next although the turns come between. Nothing is assumed
  of signals or failures.
* *Reader.* ReadFrom returns when the socket is closed; before that the reader
  may be kept busy by traffic after the cancel, and nothing is assumed.

## 4. Proofs

Each theorem holds for all values of the constants that satisfy the ASSUMEs of
its module.

| Module | Theorem | States |
| --- | --- | --- |
| EngineProofs | TypeCorrect | `[]TypeOK` |
| | FloorOwnership | `[]OwnerIsReadySession` |
| | ReleasesAreReported | `ReleaseReported`, an action property |
| | TickLimits | `TickEnforcesLimits`, an action property |
| | RefinesFloor | the engine implements `AbstractFloor!Safety` |
| ReflectorProofs | TypeCorrect | `[]TypeOK` |
| | TablesAlwaysAgree | `[]TablesAgree` |
| | ListenersAlwaysTold | `[]ListenersAreTold`, if StartSpares |
| | StartsAlwaysCurrent | `[]StartsAreCurrent`, if WelcomeSpares |
| | ReleasesAreAnnounced | `ReleaseIsAnnounced`, an action property, if WelcomeSpares |
| MediaOrderProofs | ForwardingOrder | `ForwardedInOrder`, an action property |
| | GapCounting | `[]GapsAreLosses` |
| | EndOutcome | `[]EndHasOneOutcome` |
| TransactionsProofs | EffectsOnce | `[]AppliedOnce` |
| | SingleAdmission | `[]OneSessionPerChallenge` |
| | ChallengeReplay | `[]ChallengeIsRepeatable` |
| | DisconnectReplay | `[]DisconnectIsRepeatable` |
| TransportProofs | MediaAccounting | `[]MediaIsAccounted` |
| | PromptDisable | `[]DisableIsPrompt` |
| ClientQueueProofs | SharedClose | `[]CloseIsShared` |
| | EndAfterMedia | `EndFollowsMedia`, an action property |
| ClientSessionProofs | HandshakeAgreement | `[]HandshakeAgrees` |
| | NoneRefused | `[]NothingIsRefused` |
| | TransmitsUnderGrant | `[]TransmitsAsAnswered` |
| | RetiredStreams | `RetiredStaysRetired`, an action property |
| | OwnEnds | `EndsAreItsOwn`, an action property |
| DaemonProofs | ClosedAfterDrain | `[]CloseAfterDrain` |
| | FailuresReported | `[]FailureIsReported` |
| | EventsKept | `[]EventsAreKept` |
| | NeverOvercounted | the safety half of `DropsAreCounted` |

### Assumptions

Timeouts are naturals, capacities positive naturals, the bounds that cap what the
code lets grow any naturals; a nil value is no session, floor, end, ID or
address. Besides these:

* `ChallengeTimeout < Retention` (Transactions): in the code 10 seconds and 30.
* Listeners and run goroutines are finite sets, and a run goroutine has a name
  of its own (Transport, ClientQueue).
* There is an owner, with an address and a stream other than 0 (MediaOrder):
  without one there is no stream to speak of.
* A notification has at least two attempts, and no listener may have more
  pending than all together (Reflector): the code makes four and allows 2 of
  200, and NewReflector refuses other orders (`reflector.go:169`).
* Between tick's reading of the clock and engine.Tick's the clock moves by at
  most one of the model's units (`Drift`), whatever the timeouts are in units.
* `WelcomeSpares`, a hypothesis of two theorems of ReflectorProofs: either no
  handler's first enqueue fails, or no two sessions have the same address. The
  code guarantees neither, and what goes wrong without it is the first known
  limit of section 6.
* `StartSpares`, the hypothesis of ListenersAlwaysTold: either no enqueue fails,
  or no two sessions have the same address. The code guarantees neither, and the
  second known limit is what it excludes.

### The inductive invariants

None of the properties is inductive as it stands.

* *Engine.* `Inv == TypeOK /\ OwnerIsReadySession /\ FloorConsistent`. SetReady
  and Touch need the types of the session they refresh, and a release reports the
  sequence after the prior one, which is right only because the first accepted
  frame sets firstMedia and the prior sequence together and an unused grant still
  has a zero timestamp (FloorConsistent). `StepEffect` says once what any step
  can do to floor and `end`; the action properties and the refinement follow from
  it and Inv.
* *MediaOrder.* The engine keeps the remainder of a frame's number, the
  properties are about the number. `FloorMatches` links the two, and `Counts`
  bounds how far the owner is ahead of the engine by half the sequence space:
  that bound is all that keeps a remainder unambiguous. The arithmetic is in
  MediaOrderProofs (`OneWrap`, `DistanceOf`, `SequenceInjective`).
* *Reflector.* A step is a whole handler, so the argument is about the record
  the handler works on. `Good` is the invariant as a predicate of that record:
  the types and limits, the agreement of the two tables, that the engine's floor
  owner is a live session, that only confirmed sessions are ever notified
  (without which a frame could go to a session that was not told), that whoever
  is confirmed has been told (under StartSpares), and that a pending start is for
  the stream that holds the floor. It has two exceptions, for the session a handler is working
  on, which the end of the handler makes good. `Whole(r, s)` says what calls may
  do to the record: `Frame` (sessions only go, the floor is kept or emptied),
  `Pend` (a revoke stays as long as its listener) and `Ended` (if the stream
  ended on the way, its event and its revokes are there). Whole composes, so the
  recursion controlOverload -> notifyEnd -> startNotification needs one lemma for
  each operator, in the order of the code. Each loop has an invariant of its
  rounds. That the loop's recursive function exists, and that an invariant holds
  of all its values, comes from the least-number principle (`LoopRounds`,
  `LoopReaches`): induction that needs no theorem with an operator parameter.
* *Transactions.* A second effect is impossible for a reason that differs from
  kind to kind, and `Barred` states it: the result is still stored, or the nonce
  has admitted a session, or the session is gone for good. `ChallengesStored`
  ties the age of a pending challenge to that of the CHALLENGE in the cache;
  with `ChallengeTimeout < Retention` the cache cannot forget it first.
* *Transport.* `LossBounded` bounds what is lost together with what may still be
  lost, and `LateOnce` says that a writer past its one late datagram has to look
  at mediaEnabled again before the next.
* *ClientQueue.* `Calls` says which locals belong to which place of a goroutine;
  `Closing`, that closeCalled elects one closer and that the sender is closed
  before `done` unless the client failed; `Frames`, that the frames of the
  current stream are the last of the media queue and that those missing from
  queue, hands and server are no more than were lost; `Waiting`, what EndStream
  knows once it has been let through.
* *ClientSession.* The invariant describes the network: `Sent` and `Formed` give
  the form of every packet by its type, with `Seen` for the sessions the server
  has confirmed; `Numbered`, that a transaction number is used once; `Granted`,
  that a grant answers a request the server has; `Waits`, that a STREAM_REQUEST
  in flight is the latest. `Ring` relates the retired ring to the list it stands
  for, slot by slot. For NoneRefused, `Fitting` reduces Validate to one line of
  the table, and each packet form is compared with its line.
* *Daemon.* Two invariants, one upon the other: `Ending` says where main and Run
  can be and who cancelled the context; `Counting`, how far the monitor goroutine
  is behind the counters, and which IDs are drawn, in hand and stored (`IdsKept`,
  `RingKept`).

### Only model-checked

* Liveness, which is out of the prover's reach: the fairness part of
  ImplementsFloor, FloorIsFreed, NotificationsEnd, DrainCompletes, LimitsRecede,
  ControlIsWritten, GoroutinesEnd, EndReturns, ReceiveStateClears, LossIsNoticed,
  Stops and the second half of DropsAreCounted.

The runs with `expect: violation` are TLC's alone as well: a counterexample is
an instance.

## 5. Reading a result

A property of the form `[][A]_vars` is about single steps, one of the form
`P ~> Q` about whole behaviours under the fairness above; the others hold in
every reachable state. Some deserve a remark.

* *DisableIsPrompt* allows one media datagram after DisableMedia returned: the
  writer may have read mediaEnabled just before. It allows no second one.
* *ReleaseIsAnnounced* asks for a revoke to listeners marked `notified`, which
  is what the code promises; that this is less than every listener is the first
  finding. A release is the loss of a floor the handler found held or granted
  itself, so a grant that is taken back because its own response or a STREAM_START
  could not be queued must be announced too. It is checked with failing enqueues
  when each session has its own address, and with a shared address when none
  fails: the two sides of WelcomeSpares. That an owner is closed in the middle of
  its own STREAM_START round by a failing enqueue takes a shared address and is
  covered by the theorem alone.
* *ListenersAreTold* counts a session as told when the control queue has taken
  its STREAM_START, first attempt. That the datagram then leaves before the media
  is the transport's affair (ControlIsWritten, and the fourth known limit).
* *TablesAgree* is checked with one reading of the clock per tick, where the
  tables have the same sessions. With two readings the peer table may have more,
  and only that: the theorem covers both (the third known limit of section 6).
* *DisconnectIsRepeatable* stops at the drain: handleDrain looks the session up
  first, so a DISCONNECT repeated during a shutdown is ignored although its
  result is retained (`docs/protocol-v1.md:261` makes no exception).
* *EndFollowsMedia* depends on the order in Close. When the client is closed
  without an error, waitMedia returns nil with frames still queued, and
  EndStream goes on to send STREAM_END; only the socket, closed before `done`,
  stops it.
* *EndHasOneOutcome* says that a STREAM_END refused as invalid stays refused, also
  when the frame it was waiting for arrives a moment later; FloorIsFreed says what
  is left then, a timeout. It says nothing of the kind of LIMIT_EXCEEDED: copies
  refused by a full cache may be followed by one that ends the stream.
* *RetiredStaysRetired* compares the ring with the plain list of the identities
  retired last, which the model keeps beside it.
* *LossIsNoticed* ends in a closed or failed client; it says nothing of how soon.

## 6. Findings

1. *late_revoke_ack*: `ack` clears `notified` and `receiving` for any pending
   STREAM_REVOKE it matches, also when a newer stream has started. The listener
   loses the rest of that stream and is not sent its revoke
   (`docs/protocol-v1.md:321`).
2. *revoke_before_grant*: the client ignores the revoke of a stream whose grant
   it has not seen yet, acknowledges it, and activates the stream when the grant
   arrives (`docs/architecture.md:117`). It happens when the grant is lost, the
   server's grant timeout ends the stream, and a retry gets the stored grant.
3. *stream_reused*: a request that timed out at the client after the server had
   granted it is followed by one with the same stream ID, which is granted again
   (`client.go:199`; `docs/protocol-v1.md:302` asks for a new ID). Listeners that
   retired the identity with the first grant's revoke ignore the second stream.

### Known limits

What the models also contain, without a run of its own:

* When a WELCOME cannot be queued, every session of the address is disconnected
  and the StreamEnd of one that held the floor is dropped: no `stream_ended`, no
  revoke (`reflector.go:442`, `docs/architecture.md:90`).
* When a STREAM_START cannot be queued, the server closes some session of the
  listener's address (`reflector.go:841`). If that is another session, the
  listener stays, marked notified and receiving, and is forwarded media although
  no STREAM_START has been queued for it, contrary to `docs/protocol-v1.md:334`;
  the notification is pending, so its retry repairs this half a second later.
  Three sessions, two of them at one address, show it.
* `tick` and `engine.Tick` read the clock separately; a session that expires in
  between is removed without `client_disconnected` (`reflector.go:762`,
  `docs/monitoring.md:62`). If one of its packets comes before the next tick,
  its peer stays, without a session in the engine: keepalives and STREAM_STARTs
  go on, but it gets no media, and its requests are refused as busy until it
  reconnects.
  `Drift = 1` in Reflector has these behaviours.
* Media may overtake the STREAM_START of its listener when that is the second
  control datagram queued between the writer's two selects (`udp.go:132`,
  `docs/protocol-v1.md:337`).
* An ERROR for a STREAM_END, KEEPALIVE or DISCONNECT is too long to carry the
  transaction ID, so the client waits for its last retry (`reflector.go:619`;
  documented in `docs/protocol-v1.md:376`).
* A delayed STREAM_START of a stream the client never heard of replaces the
  current one; the retired ring cannot know it (`pkg/client/udp.go:402`).
* Connect after a failed confirmation sends a request whose answer nobody reads,
  and can only time out (`pkg/client/udp.go:186`).
* The monitor goroutine may publish an older `Ready: true` after main's last
  Publish, while the HTTP server shuts down (`cmd/opusrefd/main.go:92`).
* After `stop()` a signal kills the process in the middle of the drain that a
  failed HTTP server began (`cmd/opusrefd/main.go:136`).
* Events of two publishers may be stored against the order of their IDs
  (`pkg/monitor/http.go:112`), so the list the endpoint returns need not be newest
  first (`docs/monitoring.md:28`). EventsAreKept orders the events of each
  publisher only.

## 7. Not modelled

* The byte layout of Encode and Decode with their helpers: stateless
  conversions, covered by the repository's round-trip and fuzz tests. HMAC and
  random numbers are equality and freshness.
* For the server modules the clients are the environment, which sends anything
  at any time; for ClientQueue the server is. ClientSession has both ends, the
  server reduced to its answers. What Connect and Close owe each other when they
  overlap (a session established after Close has begun gets no DISCONNECT) is in
  the model, but no document states it and no property does.
* Monitor: the HTTP handlers, the text of the metrics, their labels and the
  histogram only read or format.
* Configuration, recording and the client command: sequential start-up and file
  I/O, without a state that two steps share.
* Log lines, and counters but for drops and gaps. `Engine.Transaction` has no
  caller.

## 8. Plan

Every part that keeps state across steps has its module, and every safety
property its proof. What would add to this:

* `WelcomeSpares`, `StartSpares` and the two readings of the clock would go from
  the theorems with the code they are about: closing the new session alone when
  its WELCOME cannot be queued, the listener alone when its STREAM_START cannot,
  and handing `now` to engine.Tick.
* A bound on the time of LossIsNoticed, and the DISCONNECT that Connect and
  Close owe each other, once the documentation says what is promised.
* The layout of Encode and Decode, if a property is ever about it.
