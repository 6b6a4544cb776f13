------------------------------ MODULE Reflector ------------------------------
(***************************************************************************)
(* The state owner of pkg/server/reflector.go: one goroutine that owns the *)
(* engine, the peer table and the pending notifications, and runs one      *)
(* handler at a time.  Every action below is one whole handler (handle,    *)
(* tick, or a stage of drain) with all the calls it makes: a handler       *)
(* starts from the record Enter builds, its operators thread that record   *)
(* through the calls, and Commit stores the result.                        *)
(*                                                                         *)
(* What the environment decides per handler:                               *)
(*   fails   which of the handler's EnqueueControl calls find the control  *)
(*           queue full (the writer goroutine drains it concurrently);     *)
(*   orders  the order in which each range over the peers visits them.     *)
(* Transaction caching is another concern of the same file: here a request *)
(* is new, a duplicate (Duplicate) or refused (Refuse).  A session ID is   *)
(* drawn fresh, like the 64-bit random number it is.                       *)
(***************************************************************************)
EXTENDS EngineOps, Sequences, SequencesExt

CONSTANTS
    MaxPendingNotifications,  \* options.MaxPendingNotifications
    MaxPendingPerClient,      \* options.MaxPendingNotificationsPerClient
    MaxAttempts,              \* total attempts of a notification: 4
    RetryDelay,               \* delay after attempt i, for i < MaxAttempts
    Fails,                    \* the sets of failing enqueues to consider
    MaxRanges,                \* ranges of a handler with an order of their own
    Drift,                    \* how far the clock may move inside one tick
    Homes,                    \* the pairs of session and address to consider
    MaxGaps,                  \* bound on the gap counter
    NoPeer                    \* a nil *peer

Peer == [address : Addresses, ready : BOOLEAN, notified : BOOLEAN,
         receiving : BOOLEAN, idle : 0 .. SessionTimeout + 1]

ASSUME CapacityAssumption ==
    /\ MaxPendingNotifications \in Nat \ {0}
    /\ MaxPendingPerClient \in 1 .. MaxPendingNotifications
ASSUME RetryAssumption ==
    /\ MaxAttempts \in Nat \ {0, 1}
    /\ RetryDelay \in [1 .. MaxAttempts - 1 -> Nat]
ASSUME EnvironmentAssumption ==
    /\ \A f \in Fails : f \subseteq Nat \ {0}
    /\ MaxRanges \in Nat \ {0}
    /\ Drift \in {0, 1}
    /\ Homes \subseteq Ids \X Addresses
    /\ MaxGaps \in Nat
    /\ NoPeer \notin Peer

VARIABLES
    eng,       \* r.engine
    peers,     \* r.peers
    pending,   \* r.pending, with the key inside each notification
    stage,     \* "running", or how far drain is
    graceOver, \* the shutdown grace context is done
    told,      \* history: peers for whom the queue took a STREAM_START of this floor
    events     \* the monitoring events of the latest handler

vars == <<eng, peers, pending, stage, graceOver, told, events>>

Kinds == {"STREAM_START", "STREAM_REVOKE", "DISCONNECT"}

Notification ==
    [listener : Ids, kind : Kinds, tx : 1 .. MaxPendingPerClient,
     owner : Ids, stream : Streams \cup {0}, attempt : 1 .. MaxAttempts, due : Nat]

\* tx tells the pending notifications of a listener apart, as the random IDs
\* do: the key has the listener, the kind and the ID.
FreshTx(ns) ==
    CHOOSE t \in 1 .. MaxPendingPerClient : \A n \in ns : n.tx # t

StreamEnded(se) == [type |-> "stream_ended", session |-> se.session,
                    stream |-> se.stream, reason |-> se.reason]
StreamGranted(p, stream) == [type |-> "stream_granted", session |-> p, stream |-> stream]
Disconnected(p) == [type |-> "client_disconnected", session |-> p]

Event == [type : {"stream_ended"}, session : Ids, stream : Streams, reason : EndReasons]
             \cup [type : {"stream_granted"}, session : Ids, stream : Streams]
             \cup [type : {"client_disconnected"}, session : Ids]

-----------------------------------------------------------------------------
(* The record a handler works on.                                          *)

Handler ==
    [eng : EngineState, peers : [Ids -> Peer \cup {NoPeer}], pending : SUBSET Notification,
     told : SUBSET Ids, events : SUBSET Event,
     sends : Nat, fails : SUBSET Nat, ranges : Nat, orders : [1 .. MaxRanges -> Seq(Ids)]]

Enter(fails, orders) ==
    [eng |-> eng, peers |-> peers, pending |-> pending, told |-> told,
     events |-> {}, sends |-> 0, fails |-> fails, ranges |-> 0, orders |-> orders]

\* The handlers that neither send nor range.
Quiet == Enter({}, [i \in 1 .. MaxRanges |-> <<>>])

Commit(result) ==
    \E r \in {result} :
        /\ eng' = r.eng
        /\ peers' = r.peers
        /\ pending' = r.pending
        /\ events' = r.events
        /\ told' = IF r.eng.floor = NoFloor THEN {}
                   ELSE {p \in r.told : r.peers[p] # NoPeer}

PeerIds == {p \in Ids : peers[p] # NoPeer}
Known(r) == {p \in Ids : r.peers[p] # NoPeer}
PendingOf(r, p) == {n \in r.pending : n.listener = p}

\* One EnqueueControl: whether it succeeds, and that it was tried.
QueueTakes(r) == r.sends + 1 \notin r.fails
Tried(r) == [r EXCEPT !.sends = @ + 1]

\* for ... range entries { body }.  The body of a loop gives each entry a
\* function on the record; it passes over what was deleted meanwhile.
Loop(r, entries, body) ==
    LET after[i \in 0 .. Len(entries)] ==
            IF i = 0 THEN r ELSE body[entries[i]][after[i - 1]]
    IN  after[Len(entries)]

\* for ... range r.peers.  Each range draws an order; those beyond MaxRanges
\* take the last one again.
Order(r) == r.orders[IF r.ranges < MaxRanges THEN r.ranges + 1 ELSE MaxRanges]
Ranged(r) == [r EXCEPT !.ranges = @ + 1]
RangePeers(r, body) == Loop(Ranged(r), Order(r), body)

-----------------------------------------------------------------------------
(* Disconnect, overload and notification.  The calls recurse in the code:  *)
(* controlOverload may end the stream, notifyEnd notifies, a failing       *)
(* notification overloads.  The recursion ends at the second overload,     *)
(* because by then no floor is left to end: Drop is controlOverload there. *)

\* Mutant of DisconnectEnd: disconnectPeer loses the StreamEnd.
DisconnectEndLost(r, p) == NoEnd

DisconnectEnd(r, p) ==
    IF p \in Known(r) THEN ReleaseEnd(r.eng, p, "owner_disconnect") ELSE NoEnd

DisconnectPeer(r, p) ==
    IF p \in Known(r)
    THEN [r EXCEPT !.eng = Disconnect(@, p), !.peers[p] = NoPeer,
                   !.events = @ \cup {Disconnected(p)}]
    ELSE r

Drop(r, p) ==
    LET gone == DisconnectPeer(r, p)
    IN  [gone EXCEPT !.pending = @ \ PendingOf(r, p)]

\* Where range meets the sessions of an address.
Sharing(r, address) ==
    {i \in DOMAIN Order(r) :
        Order(r)[i] \in Known(r) /\ r.peers[Order(r)[i]].address = address}

\* sendControl: a full queue costs one session of the address its place.
SendControl(r, address, Overload(_, _)) ==
    IF QueueTakes(r) \/ Sharing(r, address) = {} THEN Tried(r)
    ELSE Overload(Ranged(Tried(r)), Order(r)[Min(Sharing(r, address))])

\* No room for another notification, in all or for this listener.
Crowded(r, p) ==
    \/ Cardinality(r.pending) >= MaxPendingNotifications
    \/ Cardinality(PendingOf(r, p)) >= MaxPendingPerClient

\* The first attempt of a notification, before it is sent.  told is the
\* history of what the queue then takes; receiving does not wait for that.
AddNotification(r, p, kind, owner, stream) ==
    [r EXCEPT
       !.pending = @ \cup {[listener |-> p, kind |-> kind, tx |-> FreshTx(PendingOf(r, p)),
                            owner |-> owner, stream |-> stream,
                            attempt |-> 1, due |-> RetryDelay[1]]},
       !.peers[p].receiving = (kind = "STREAM_START" \/ @),
       !.told = IF kind = "STREAM_START" /\ QueueTakes(r) THEN @ \cup {p} ELSE @]

StartNotification(r, p, kind, owner, stream, Overload(_, _)) ==
    IF Crowded(r, p) THEN Overload(r, p)
    ELSE SendControl(AddNotification(r, p, kind, owner, stream),
                     r.peers[p].address, Overload)

\* Mutant of CancelStarts: starts are not cancelled.
KeepStarts(ns) == ns

CancelStarts(ns) == {n \in ns : n.kind # "STREAM_START"}

NeedsRevoke(r, p, se) ==
    IF p = se.session THEN se.reason # "normal" ELSE r.peers[p].notified

RevokeEach(se) ==
    [p \in Ids |-> [acc \in Handler |->
        IF p \in Known(acc) /\ NeedsRevoke(acc, p, se)
        THEN StartNotification([acc EXCEPT !.peers[p].receiving = FALSE], p,
                               "STREAM_REVOKE", se.session, se.stream, Drop)
        ELSE acc]]

NotifyEnd(r, se) ==
    RangePeers([r EXCEPT !.events = @ \cup {StreamEnded(se)}, !.pending = CancelStarts(@)],
               RevokeEach(se))

\* The caller's "if end != nil { r.notifyEnd(end) }".
NotifyIfEnded(r, se) == IF se = NoEnd THEN r ELSE NotifyEnd(r, se)

\* Mutant of ControlOverload: the stream of the dropped session just ends.
ControlOverloadSilent(r, p) == Drop(r, p)

ControlOverload(r, p) == NotifyIfEnded(Drop(r, p), DisconnectEnd(r, p))

\* The callers of disconnectPeer that announce the end.
CloseSession(r, p) == NotifyIfEnded(DisconnectPeer(r, p), DisconnectEnd(r, p))

CloseEach(gone) ==
    [p \in Ids |-> [acc \in Handler |-> IF p \in gone THEN CloseSession(acc, p) ELSE acc]]

NotifyStart(r, p, owner, stream) ==
    IF owner \notin Known(r) THEN r
    ELSE StartNotification([r EXCEPT !.peers[p].notified = TRUE], p,
                           "STREAM_START", owner, stream, ControlOverload)

StartEach(owner, stream) ==
    [p \in Ids |-> [acc \in Handler |->
        IF p \in Known(acc) /\ p # owner /\ acc.peers[p].ready
        THEN NotifyStart(acc, p, owner, stream) ELSE acc]]

-----------------------------------------------------------------------------
(* Handlers of the running server.                                         *)

\* Mutant of Accept: the engine is not touched.
AcceptPeerOnly(r, p) == IF p \in Known(r) THEN [r EXCEPT !.peers[p].idle = 0] ELSE r

\* The last lines of handle: an accepted packet refreshes both tables.
Accept(r, p) ==
    IF p \in Known(r)
    THEN [r EXCEPT !.peers[p].idle = 0, !.eng = Touch(@, p, r.peers[p].address)]
    ELSE r

\* The end of transact: enqueue the response or close the session.
Reply(r, p) ==
    CASE QueueTakes(r) -> Accept(Tried(r), p)
      [] ~QueueTakes(r) -> IF p \in Known(r) THEN ControlOverload(Tried(r), p) ELSE Tried(r)

Running == stage = "running" /\ UNCHANGED <<stage, graceOver>>

DisconnectAddress(address) ==
    [p \in Ids |-> [acc \in Handler |->
        IF p \in Known(acc) /\ acc.peers[p].address = address
        THEN DisconnectPeer(acc, p) ELSE acc]]

\* authenticate and the delivery of its WELCOME.
Admit(id, address, fails, orders) ==
    LET r == Enter(fails, orders)
        added == Tried([r EXCEPT
                    !.eng = AddSession(@, id, address, FALSE),
                    !.peers[id] = [address |-> address, ready |-> FALSE, notified |-> FALSE,
                                   receiving |-> FALSE, idle |-> 0]])
    IN  /\ Running
        /\ CanAdd(eng, id)
        /\ peers[id] = NoPeer /\ \A n \in pending : id \notin {n.listener, n.owner}
        /\ <<id, address>> \in Homes
        /\ Commit(IF QueueTakes(r) THEN added
                  ELSE RangePeers(added, DisconnectAddress(address)))

\* Mutant of JoinedLate: nobody is told of a stream that is under way.
JoinedLateNever(r, p) == FALSE

JoinedLate(r, p) ==
    r.eng.floor # NoFloor /\ r.eng.floor.owner # p /\ ~r.peers[p].notified

Keepalive(p, fails, orders) ==
    LET r == [Enter(fails, orders) EXCEPT !.peers[p].ready = TRUE, !.eng = SetReady(@, p)]
        f == r.eng.floor
    IN  /\ Running
        /\ peers[p] # NoPeer
        /\ Commit(IF QueueTakes(r) /\ JoinedLate(r, p)
                  THEN Accept(NotifyStart(Tried(r), p, f.owner, f.stream), p)
                  ELSE Reply(r, p))

StreamRequest(p, stream, fails, orders) ==
    LET r == Enter(fails, orders)
        asked == [r EXCEPT !.eng = RequestFloor(@, p, stream)]
        granted == [asked EXCEPT !.events = @ \cup {StreamGranted(p, stream)}]
    IN  /\ Running
        /\ peers[p] # NoPeer /\ peers[p].ready
        /\ Commit(Reply(
              IF FloorResult(eng, p, stream) = "granted"
              THEN RangePeers(granted, StartEach(p, stream)) ELSE asked,
              p))

StreamEndRequest(p, stream, sequence, timestamp, fails, orders) ==
    LET r == [Enter(fails, orders) EXCEPT !.eng = Release(@, p)]
    IN  /\ Running
        /\ peers[p] # NoPeer /\ peers[p].ready
        /\ EndAccepted(eng, p, stream, sequence, timestamp)
        /\ Commit(Reply(NotifyEnd(r, ReleaseEnd(eng, p, "normal")), p))

\* A duplicate of a completed request: its stored response is sent again.
Duplicate(p) ==
    /\ Running
    /\ peers[p] # NoPeer
    /\ Commit(Accept(Quiet, p))

\* The stored response, or the ERROR for a rejected STREAM_END, cannot be
\* queued: the session is closed.
Undelivered(p, fails, orders) ==
    /\ Running
    /\ peers[p] # NoPeer
    /\ 1 \in fails
    /\ Commit(ControlOverload(Tried(Enter(fails, orders)), p))

ForwardMedia(p, stream, sequence, timestamp) ==
    LET r == Quiet
    IN  /\ Running
        /\ peers[p] # NoPeer /\ peers[p].ready
        /\ MediaAccepted(eng, p, peers[p].address, stream, sequence)
        /\ eng.gaps + Skipped(eng.floor, sequence) <= MaxGaps
        /\ Commit(Accept([r EXCEPT !.eng = Media(@, p, sequence, timestamp)], p))

\* The datagrams one accepted frame becomes.
Recipients(p) == {q \in Fanout(eng, p) : peers[q] # NoPeer /\ peers[q].receiving}

-----------------------------------------------------------------------------
(* Handlers shared by the running and the draining server.                 *)

Draining == stage \in {"revoking", "disconnecting"} /\ pending # {}
Handling == stage = "running" \/ Draining

\* DISCONNECT from the client; its response is retained either way.
DisconnectRequest(p, fails, orders) ==
    /\ Handling
    /\ peers[p] # NoPeer
    /\ Commit(Tried(CloseSession(Enter(fails, orders), p)))
    /\ UNCHANGED <<stage, graceOver>>

\* An ERROR: a rejected STREAM_END, a transaction conflict or a full
\* transaction cache.  It does not refresh the session.
Refuse(p) ==
    /\ Handling
    /\ peers[p] # NoPeer
    /\ Commit(Quiet)
    /\ UNCHANGED <<stage, graceOver>>

\* sendError finds the queue full.
RefuseOverload(p, fails, orders) ==
    /\ Handling
    /\ peers[p] # NoPeer
    /\ 1 \in fails
    /\ Commit(SendControl(Enter(fails, orders), peers[p].address, ControlOverload))
    /\ UNCHANGED <<stage, graceOver>>

\* The acknowledgement of a pending notification arrives, however late.
Ack(n) ==
    LET p == n.listener
        r == [Quiet EXCEPT !.pending = @ \ {n}]
        acked == CASE n.kind = "STREAM_START" -> [r EXCEPT !.peers[p].receiving = TRUE]
                   [] n.kind = "STREAM_REVOKE" ->
                        [r EXCEPT !.peers[p].notified = FALSE, !.peers[p].receiving = FALSE]
                   [] n.kind = "DISCONNECT" -> DisconnectPeer(r, p)
    IN  /\ Handling
        /\ Draining => n.kind # "STREAM_START"
        /\ peers[p] # NoPeer
        /\ stage = "running" => peers[p].ready
        /\ Commit(IF stage = "running" THEN Accept(acked, p) ELSE acked)
        /\ UNCHANGED <<stage, graceOver>>

\* The clock moves by one unit.
Earlier(n) == [n EXCEPT !.due = IF @ = 0 THEN 0 ELSE @ - 1]
AgePeers(ps) ==
    [p \in Ids |-> IF ps[p] = NoPeer THEN NoPeer
                   ELSE [ps[p] EXCEPT !.idle = Older(@, SessionTimeout)]]
Aged(r) == [r EXCEPT !.eng = Age(@), !.peers = AgePeers(@),
                     !.pending = {Earlier(n) : n \in @}]

\* Mutant of NextAttempt: the attempts are not counted.
SameAttempt(n) == n.attempt
NextAttempt(n) == n.attempt + 1

\* One round of the retry loop of tick for the notification with n's key.
Retry(r, n, drift) ==
    LET p == n.listener
        current == {m \in r.pending : m.listener = p /\ m.kind = n.kind /\ m.tx = n.tx}
        others == r.pending \ current
        attempt == NextAttempt(n)
        again == [n EXCEPT !.attempt = attempt,
                           !.due = IF attempt < MaxAttempts /\ RetryDelay[attempt] > drift
                                   THEN RetryDelay[attempt] - drift ELSE 0]
    IN  CASE current = {} -> r
          [] current # {} /\ n.attempt >= MaxAttempts ->
               IF n.kind = "STREAM_START" /\ p \in Known(r)
               THEN [r EXCEPT !.pending = others, !.peers[p].receiving = FALSE]
               ELSE [r EXCEPT !.pending = others]
          [] current # {} /\ n.attempt < MaxAttempts ->
               LET retried == [r EXCEPT !.pending = others \cup {again}]
               IN  IF p \in Known(r)
                   THEN SendControl(retried, r.peers[p].address, ControlOverload)
                   ELSE retried

RetryEach(drift) == [n \in Notification |-> [acc \in Handler |-> Retry(acc, n, drift)]]

\* tick reads the clock once for its own comparisons and engine.Tick reads
\* it again, drift later.  due is the order in which range meets the
\* notifications whose time has come.
TickServer(drift, fails, orders, due) ==
    LET now == Enter(fails, orders)
        late == {p \in PeerIds : peers[p].idle > SessionTimeout}
    IN  /\ Handling
        /\ \E r \in {RangePeers(IF drift = 0 THEN now ELSE Aged(now), CloseEach(late))} :
             \E gone \in TickRemovals(r.eng) :
               \E ticked \in {NotifyIfEnded([r EXCEPT !.eng = Tick(@, gone)],
                                           TickEnd(r.eng, gone))} :
                 Commit(Loop(ticked, due, RetryEach(drift)))
        /\ UNCHANGED <<stage, graceOver>>

Advance ==
    /\ Commit(Aged(Quiet))
    /\ UNCHANGED <<stage, graceOver>>

-----------------------------------------------------------------------------
(* drain, stage by stage.                                                  *)

BeginDrain(fails, orders) ==
    LET r == Enter(fails, orders)
    IN  /\ stage = "running"
        /\ Commit(NotifyIfEnded([r EXCEPT !.eng = BeginShutdown(@)], ShutdownEnd(eng)))
        /\ stage' = "revoking"
        /\ UNCHANGED graceOver

\* Mutant of Drained: the grace period does not end the wait.
DrainedOfAll == pending = {}

\* drainPending returned: nothing is pending or the grace period is over.
Drained == pending = {} \/ graceOver

DisconnectEach ==
    [p \in Ids |-> [acc \in Handler |->
        IF p \in Known(acc)
        THEN StartNotification(acc, p, "DISCONNECT", p, 0, ControlOverload) ELSE acc]]

StartDisconnects(fails, orders) ==
    /\ stage = "revoking" /\ Drained
    /\ Commit(RangePeers(Enter(fails, orders), DisconnectEach))
    /\ stage' = "disconnecting"
    /\ UNCHANGED graceOver

FinishDrain(orders) ==
    /\ stage = "disconnecting" /\ Drained
    /\ Commit(RangePeers(Enter({}, orders), CloseEach(Ids)))
    /\ stage' = "stopped"
    /\ UNCHANGED graceOver

GraceExpires ==
    /\ stage \in {"revoking", "disconnecting"}
    /\ ~graceOver
    /\ graceOver' = TRUE
    /\ Commit(Quiet)
    /\ UNCHANGED stage

-----------------------------------------------------------------------------
\* The orders in which range may visit the entries of the two maps.
OrdersOf(entries) == SetToSeqs(entries)
RangeOrders(ps) == [1 .. MaxRanges -> OrdersOf(ps)]
Orders == RangeOrders(PeerIds)
DueOrders == OrdersOf({n \in pending : n.due = 0})

Init ==
    /\ eng = NewEngine
    /\ peers = [p \in Ids |-> NoPeer]
    /\ pending = {}
    /\ stage = "running"
    /\ graceOver = FALSE
    /\ told = {}
    /\ events = {}

Requests(p, fails, orders) ==
    \/ Keepalive(p, fails, orders)
    \/ Undelivered(p, fails, orders)
    \/ RefuseOverload(p, fails, orders)
    \/ DisconnectRequest(p, fails, orders)
    \/ \E stream \in Streams \ {0} :
          \/ StreamRequest(p, stream, fails, orders)
          \/ \E sequence \in Sequences32, timestamp \in Timestamps :
                StreamEndRequest(p, stream, sequence, timestamp, fails, orders)

SomeMedia ==
    \E p \in Ids, stream \in Streams \ {0}, sequence \in Sequences32, timestamp \in Timestamps :
        ForwardMedia(p, stream, sequence, timestamp)

SomeTick ==
    \E drift \in 0 .. Drift, fails \in Fails, orders \in Orders, due \in DueOrders :
        TickServer(drift, fails, orders, due)
SomeDisconnects == \E fails \in Fails, orders \in Orders : StartDisconnects(fails, orders)
SomeFinish == \E orders \in Orders : FinishDrain(orders)

Next ==
    \/ \E p \in Ids, address \in Addresses, fails \in Fails :
          \E orders \in RangeOrders(PeerIds \cup {p}) : Admit(p, address, fails, orders)
    \/ \E p \in PeerIds, fails \in Fails, orders \in Orders : Requests(p, fails, orders)
    \/ \E p \in PeerIds : Duplicate(p) \/ Refuse(p)
    \/ SomeMedia
    \/ \E n \in pending : Ack(n)
    \/ SomeTick
    \/ \E fails \in Fails, orders \in Orders : BeginDrain(fails, orders)
    \/ SomeDisconnects
    \/ SomeFinish
    \/ GraceExpires
    \/ Advance

Safety == Init /\ [][Next]_vars

\* A tick of the running server changes something exactly in these states.
TickHasWork ==
    /\ stage = "running"
    /\ \/ events # {}
       \/ \E p \in PeerIds : peers[p].idle > SessionTimeout
       \/ \E n \in pending : n.due = 0
       \/ eng.floor # NoFloor /\ TimedOut(eng.floor)
       \/ Expired(eng) # {}

\* The ticker and the clock run, and drain goes on when its loops return.
\* The first conjunct is WF_vars(stage = "running" /\ SomeTick) with ENABLED
\* spelled out.  While draining, steady traffic may postpone the tick (its
\* timer restarts with every datagram), so only the grace period is fair.
Fairness ==
    /\ []<>~TickHasWork \/ []<><<stage = "running" /\ SomeTick>>_vars
    /\ WF_vars(Advance) /\ WF_vars(GraceExpires)
    /\ WF_vars(SomeDisconnects) /\ WF_vars(SomeFinish)

Spec == Safety /\ Fairness
-----------------------------------------------------------------------------
(* Properties.                                                             *)

\* Every variable has the type of its Go field, and the pending map has one
\* entry for each key and no more than configured.
TypeOK ==
    /\ eng \in EngineState
    /\ peers \in [Ids -> Peer \cup {NoPeer}]
    /\ pending \subseteq Notification
    /\ Cardinality(pending) <= MaxPendingNotifications
    /\ \A m, n \in pending : <<m.listener, m.tx>> = <<n.listener, n.tx>> => m = n
    /\ stage \in {"running", "revoking", "disconnecting", "stopped"}
    /\ graceOver \in BOOLEAN
    /\ told \subseteq Ids

\* The reflector and its engine keep two tables of the same sessions; no
\* sequence of handlers, overloads and timeouts lets them disagree about
\* where a session of the engine is, whether it is confirmed, and since when
\* silent.  The peer table has no other session, unless engine.Tick expired
\* one that was not yet due when tick read the clock.  The types and limits
\* hold with it.
TablesAgree ==
    /\ TypeOK
    /\ Live(eng) \subseteq PeerIds
    /\ \A p \in Live(eng) :
          /\ peers[p].address = eng.sessions[p].address
          /\ peers[p].ready = eng.sessions[p].ready
          /\ peers[p].idle = eng.sessions[p].idle
    /\ Drift = 0 => PeerIds \subseteq Live(eng)

HeldBy(owner, stream) ==
    eng.floor # NoFloor /\ eng.floor.owner = owner /\ eng.floor.stream = stream

\* A STREAM_START transaction never outlives its stream: notifyEnd cancels
\* the outstanding starts, so no retry announces a stream that is over.
StartsAreCurrent ==
    \A n \in pending : n.kind = "STREAM_START" => HeldBy(n.owner, n.stream)

\* While a stream holds the floor the control queue has taken a STREAM_START
\* for every other confirmed session, however it joined, and media is
\* forwarded to nobody else.
ListenersAreTold ==
    eng.floor # NoFloor =>
        /\ \A p \in PeerIds \ {eng.floor.owner} : peers[p].ready => p \in told
        /\ Recipients(eng.floor.owner) \subseteq told

Announced(owner, stream) ==
    \E ev \in events' : /\ ev.type = "stream_ended"
                        /\ ev.session = owner /\ ev.stream = stream

Revoked(p, owner, stream) ==
    \E n \in pending' : /\ n.listener = p /\ n.kind = "STREAM_REVOKE"
                        /\ n.owner = owner /\ n.stream = stream

\* A handler gives up the floor it found held or granted itself.
Released(owner, stream) ==
    /\ eng'.floor = NoFloor
    /\ HeldBy(owner, stream) \/ StreamGranted(owner, stream) \in events'

Notified(p) == peers[p] # NoPeer /\ peers[p].notified

\* Every release, that of a grant whose own handler takes it back included,
\* emits stream_ended in the handler that caused it and opens a
\* STREAM_REVOKE transaction to each session that was notified of the
\* stream, before or by this handler, and is still there afterwards, the
\* owner among them when it lost the floor without asking (a timeout or the
\* shutdown).
ReleaseIsAnnounced ==
    [][\A o \in Ids, s \in Streams : Released(o, s) =>
          /\ Announced(o, s)
          /\ \A p \in Ids \ {o} :
                peers'[p] # NoPeer /\ (Notified(p) \/ Notified(p)') => Revoked(p, o, s)
          /\ \/ peers'[o] = NoPeer
             \/ [type |-> "stream_ended", session |-> o, stream |-> s,
                 reason |-> "normal"] \in events'
             \/ Revoked(o, o, s)
      ]_vars

\* A release sends a STREAM_REVOKE to each listener.
EveryListenerRevoked ==
    [][\A o \in Ids, s \in Streams : Released(o, s) =>
          \A p \in PeerIds \ {o} :
             peers[p].ready /\ peers'[p] # NoPeer => Revoked(p, o, s)
      ]_vars

\* A notification is acknowledged, exhausted or cancelled in the end, even
\* when its listener is gone, unless the server stops first.
NotificationsEnd ==
    \A p \in Ids, t \in 1 .. MaxPendingPerClient :
        (\E n \in pending : n.listener = p /\ n.tx = t)
            ~> (stage = "stopped" \/ ~\E n \in pending : n.listener = p /\ n.tx = t)

\* A shutdown that began is completed, with every session closed, whatever
\* the listeners do with their revoke and disconnect notifications.
DrainCompletes == (stage = "revoking") ~> (stage = "stopped" /\ PeerIds = {})
=============================================================================
