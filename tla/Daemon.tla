------------------------------- MODULE Daemon -------------------------------
(***************************************************************************)
(* The process cmd/opusrefd/main.go composes: main waits for a signal, for *)
(* the monitoring server or for the state owner to end; Reflector.Run      *)
(* handles datagrams and drains; a monitor goroutine copies the snapshots  *)
(* of Run into the registry of pkg/monitor; Run and the monitor goroutine  *)
(* both store events there.  A step is one channel operation, one atomic   *)
(* load or store, or one region under the registry's mutex.                *)
(*                                                                         *)
(* What Run does to sessions and floor is Reflector's; here a datagram or  *)
(* a tick may find a gap or emit an event, and publishes a snapshot.       *)
(***************************************************************************)
EXTENDS Integers, Sequences, FiniteSets

CONSTANTS
    RecentEvents,   \* cfg.Limits.RecentEvents, the registry's capacity
    MaxDrops,       \* bound on the datagrams the inbound queue refuses
    MaxGaps,        \* bound on the sequence gaps
    MaxEvents       \* bound on the events Run emits

ASSUME DaemonAssumption ==
    RecentEvents \in Nat \ {0} /\ {MaxDrops, MaxGaps, MaxEvents} \subseteq Nat

VARIABLES
    main,       \* where run() is, its local err, and whether stop() was called
    ctx,        \* the signal context: signalled, done
    http,       \* the monitoring server and what errHTTP holds; without
                \* HTTPListen it is a server that never fails
    owner,      \* Reflector.Run: where it is, draining, what errRun holds
    transport,  \* the socket, a failure of the reader or writer not yet seen
    counts,     \* InboundDrops of the transport and gaps of the engine
    snapshot,   \* the last RuntimeSnapshot Run stored
    monitor,    \* the monitor goroutine: place, s, priorInbound and priorGaps
    registry,   \* Registry: ready of its snapshot, counters, next, events
    history     \* events in the order stored, IDs drawn and not yet stored

vars == <<main, ctx, http, owner, transport, counts, snapshot, monitor, registry, history>>

Counters == {"inbound", "gaps"}
Bound == [inbound |-> MaxDrops, gaps |-> MaxGaps]
Zero == [k \in Counters |-> 0]
Unread == [ready |-> FALSE, count |-> Zero]   \* s between two ticks
Publishers == {"owner", "monitor"}
None == "none"

Init ==
    /\ main = [at |-> "select", err |-> None, stopped |-> FALSE]
    /\ ctx = [signalled |-> FALSE, done |-> FALSE]
    /\ http = [state |-> "serving", err |-> None]
    /\ owner = [at |-> "loop", draining |-> FALSE, err |-> "running", emitted |-> 0]
    /\ transport = [closed |-> FALSE, failed |-> FALSE]
    /\ counts = Zero
    /\ snapshot = [ready |-> TRUE, count |-> counts]
    /\ monitor = [at |-> "select", done |-> FALSE, s |-> Unread, prior |-> Zero]
    /\ registry = [ready |-> FALSE, metric |-> Zero, next |-> 0, events |-> <<>>]
    /\ history = [stored |-> <<>>, drawn |-> [p \in Publishers |-> 0]]

Alive == main.at \notin {"exit", "killed"}

-----------------------------------------------------------------------------
(* The registry.                                                           *)

Publish(r, ready) == [r EXCEPT !.ready = ready]
Add(r, k, amount) == [r EXCEPT !.metric[k] = @ + amount]

\* AddEvent draws the ID outside the lock.
DrawID(p, r) ==
    /\ registry' = [r EXCEPT !.next = @ + 1]
    /\ history' = [history EXCEPT !.drawn[p] = r.next + 1]

\* Mutant of MakeRoom: the newest event goes.
MakeRoomAtEnd(events) ==
    IF Len(events) = RecentEvents THEN SubSeq(events, 1, RecentEvents - 1) ELSE events

\* The ring without its oldest event when it is full.
MakeRoom(events) == IF Len(events) = RecentEvents THEN Tail(events) ELSE events

StoreEvent(p) ==
    LET event == [id |-> history.drawn[p], by |-> p]
    IN  /\ registry' = [registry EXCEPT !.events = Append(MakeRoom(@), event)]
        /\ history' = [history EXCEPT !.drawn[p] = 0, !.stored = Append(@, event)]

-----------------------------------------------------------------------------
(* Reflector.Run and drain.                                                *)

\* While the reader runs it counts the datagrams the full queue refuses.
InboundDrop ==
    /\ Alive /\ owner.at # "returned" /\ counts["inbound"] < MaxDrops
    /\ counts' = [counts EXCEPT !["inbound"] = @ + 1]
    /\ UNCHANGED <<main, ctx, http, owner, transport, snapshot, monitor, registry, history>>

\* Read or Write returns an error, which waits in its channel.
TransportFails ==
    /\ Alive /\ owner.at # "returned" /\ ~transport.failed
    /\ transport' = [transport EXCEPT !.failed = TRUE]
    /\ UNCHANGED <<main, ctx, http, owner, counts, snapshot, monitor, registry, history>>

\* handle, tick, or a step of drain: an event, a gap of the media, or neither.
Work ==
    /\ Alive /\ owner.at \in {"loop", "drain"}
    /\ \/ /\ owner.emitted < MaxEvents
          /\ owner' = [owner EXCEPT !.at = "store", !.emitted = @ + 1]
          /\ DrawID("owner", registry)
          /\ UNCHANGED counts
       \/ /\ owner' = [owner EXCEPT !.at = "publish"]
          /\ \/ UNCHANGED counts
             \/ /\ ~owner.draining /\ counts["gaps"] < MaxGaps
                /\ counts' = [counts EXCEPT !["gaps"] = @ + 1]
          /\ UNCHANGED <<registry, history>>
    /\ UNCHANGED <<main, ctx, http, transport, snapshot, monitor>>

WorkStore ==
    /\ Alive /\ owner.at = "store"
    /\ owner' = [owner EXCEPT !.at = "publish"]
    /\ StoreEvent("owner")
    /\ UNCHANGED <<main, ctx, http, transport, counts, snapshot, monitor>>

publish ==
    /\ Alive /\ owner.at = "publish"
    /\ owner' = [owner EXCEPT !.at = IF owner.draining THEN "drain" ELSE "loop"]
    /\ snapshot' = [ready |-> ~owner.draining, count |-> counts]
    /\ UNCHANGED <<main, ctx, http, transport, counts, monitor, registry, history>>

\* Run sees the failure first: it returns it and drains nothing.
RunFails ==
    /\ Alive /\ owner.at = "loop" /\ transport.failed /\ ~ctx.done
    /\ owner' = [owner EXCEPT !.at = "returned", !.err = "transport"]
    /\ UNCHANGED <<main, ctx, http, transport, counts, snapshot, monitor, registry, history>>

\* BeginShutdown, and the snapshot that follows.
drain ==
    /\ Alive /\ owner.at = "loop" /\ ctx.done
    /\ owner' = [owner EXCEPT !.at = "publish", !.draining = TRUE]
    /\ UNCHANGED <<main, ctx, http, transport, counts, snapshot, monitor, registry, history>>

\* Every peer is told or has exhausted its retries, or the grace is over.
DrainEnds ==
    /\ Alive /\ owner.at = "drain"
    /\ owner' = [owner EXCEPT !.at = "returned", !.err = None]
    /\ UNCHANGED <<main, ctx, http, transport, counts, snapshot, monitor, registry, history>>

Run == Work \/ WorkStore \/ publish \/ RunFails \/ drain \/ DrainEnds

-----------------------------------------------------------------------------
(* The monitor goroutine.                                                  *)

\* A tick: the snapshot is read once.
Tick ==
    /\ Alive /\ monitor.at = "select"
    /\ monitor' = [monitor EXCEPT !.at = "drops", !.s = snapshot]
    /\ UNCHANGED <<main, ctx, http, owner, transport, counts, snapshot, registry, history>>

New(k) == monitor.s.count[k] - monitor.prior[k]

\* New drops: the counter, then the event with its own ID.
AddDrops ==
    /\ Alive /\ monitor.at = "drops" /\ New("inbound") > 0
    /\ DrawID("monitor", Add(registry, "inbound", New("inbound")))
    /\ monitor' = [monitor EXCEPT !.at = "store"]
    /\ UNCHANGED <<main, ctx, http, owner, transport, counts, snapshot>>

\* Mutant of Counted: remembered from a second reading of the snapshot.
CountedLatest(k) == [monitor.prior EXCEPT ![k] = snapshot.count[k]]

\* priorInbound and priorGaps after what s says was counted.
Counted(k) == [monitor.prior EXCEPT ![k] = monitor.s.count[k]]

StoreDrops ==
    /\ Alive /\ monitor.at = "store"
    /\ StoreEvent("monitor")
    /\ monitor' = [monitor EXCEPT !.at = "gaps", !.prior = Counted("inbound")]
    /\ UNCHANGED <<main, ctx, http, owner, transport, counts, snapshot>>

\* No drops, or stored: the gaps, for which there is no event, and Publish.
PublishTick ==
    /\ Alive
    /\ monitor.at = "gaps" \/ (monitor.at = "drops" /\ New("inbound") <= 0)
    /\ \/ /\ New("gaps") > 0
          /\ monitor' = [monitor EXCEPT !.at = "select", !.s = Unread, !.prior = Counted("gaps")]
          /\ registry' = Publish(Add(registry, "gaps", New("gaps")), monitor.s.ready)
       \/ /\ New("gaps") <= 0
          /\ monitor' = [monitor EXCEPT !.at = "select", !.s = Unread]
          /\ registry' = Publish(registry, monitor.s.ready)
    /\ UNCHANGED <<main, ctx, http, owner, transport, counts, snapshot, history>>

MonitorReturns ==
    /\ Alive /\ monitor.at = "select" /\ monitor.done
    /\ monitor' = [monitor EXCEPT !.at = "returned"]
    /\ UNCHANGED <<main, ctx, http, owner, transport, counts, snapshot, registry, history>>

MonitorLoop == AddDrops \/ StoreDrops \/ PublishTick

-----------------------------------------------------------------------------
(* Signals, the monitoring server, waitForTermination and the end of run.  *)

\* stop() gives the signals back to the system, so a later one kills.
Signal ==
    /\ Alive
    /\ IF main.stopped
       THEN main' = [main EXCEPT !.at = "killed"] /\ UNCHANGED ctx
       ELSE ctx' = [signalled |-> TRUE, done |-> TRUE] /\ UNCHANGED main
    /\ UNCHANGED <<http, owner, transport, counts, snapshot, monitor, registry, history>>

\* ListenAndServe cannot bind, or stops accepting.
HTTPFails ==
    /\ Alive /\ http.state = "serving"
    /\ http' = [state |-> "failed", err |-> "http"]
    /\ UNCHANGED <<main, ctx, owner, transport, counts, snapshot, monitor, registry, history>>

Waits(at, err, stop) ==
    /\ main' = [at |-> at, err |-> err, stopped |-> main.stopped \/ stop]
    /\ ctx' = [ctx EXCEPT !.done = @ \/ stop]
    /\ UNCHANGED <<http, owner, transport, counts, snapshot, monitor, registry, history>>

SelectSignal == Alive /\ main.at = "select" /\ ctx.done /\ Waits("await", None, FALSE)

SelectHTTPReady == Alive /\ main.at = "select" /\ http.err # None

\* The branch on httpErrors as it could have been written.
SelectHTTPKeepsRunning == SelectHTTPReady /\ Waits("await", http.err, FALSE)
SelectHTTPLeaves == SelectHTTPReady /\ Waits("close monitor", http.err, TRUE)
SelectHTTPForgets == SelectHTTPReady /\ Waits("await", None, TRUE)

SelectHTTP == SelectHTTPReady /\ Waits("await", http.err, TRUE)

SelectRun ==
    /\ Alive /\ main.at = "select" /\ owner.at = "returned"
    /\ Waits("close monitor", owner.err, TRUE)

\* The error of the monitoring server is kept before that of Run.
AwaitRun ==
    /\ Alive /\ main.at = "await" /\ owner.at = "returned"
    /\ Waits("close monitor", IF main.err = None THEN owner.err ELSE main.err, FALSE)

\* close(monitorDone), and Publish of a snapshot that is not ready: what the
\* monitor goroutine publishes between the two is overwritten.
CloseMonitor ==
    /\ Alive /\ main.at = "close monitor"
    /\ main' = [main EXCEPT !.at = "shutdown"]
    /\ monitor' = [monitor EXCEPT !.done = TRUE]
    /\ registry' = Publish(registry, FALSE)
    /\ UNCHANGED <<ctx, http, owner, transport, counts, snapshot, history>>

\* http.Server.Shutdown, for at most the grace, and Reflector.Close; the
\* process ends with err, and the deferred stop has nothing left to do.
Close ==
    /\ Alive /\ main.at = "shutdown"
    /\ main' = [main EXCEPT !.at = "exit"]
    /\ http' = [http EXCEPT !.state = IF @ = "serving" THEN "closed" ELSE @]
    /\ transport' = [transport EXCEPT !.closed = TRUE]
    /\ UNCHANGED <<ctx, owner, counts, snapshot, monitor, registry, history>>

waitForTermination == SelectSignal \/ SelectHTTP \/ SelectRun \/ AwaitRun

Main == waitForTermination \/ CloseMonitor \/ Close

Next ==
    \/ InboundDrop \/ TransportFails \/ Run
    \/ Tick \/ MonitorLoop \/ MonitorReturns
    \/ Signal \/ HTTPFails \/ Main

\* The goroutines are scheduled, the ticker fires, and the loops of Run and
\* drain come round: the select of Run has the ticker, and drain is bounded
\* by ShutdownGrace.  Nothing is assumed of signals and failures, nor that
\* the select of the monitor goroutine ever prefers monitorDone.  Strong
\* fairness stands for Go's random choice among ready cases.
Fairness ==
    /\ WF_vars(WorkStore) /\ WF_vars(publish) /\ WF_vars(Work)
    /\ SF_vars(RunFails) /\ SF_vars(drain) /\ SF_vars(DrainEnds)
    /\ WF_vars(Tick) /\ WF_vars(MonitorLoop)
    /\ WF_vars(Main)

Spec == Init /\ [][Next]_vars /\ Fairness

-----------------------------------------------------------------------------
(* Properties.                                                             *)

Errors == {None, "transport", "http"}

\* The program counters are those of the code, the ring never exceeds its
\* capacity, and what the monitor goroutine remembers is what was counted.
TypeOK ==
    /\ main \in [at : {"select", "await", "close monitor", "shutdown", "exit", "killed"},
                 err : Errors, stopped : BOOLEAN]
    /\ ctx \in [signalled : BOOLEAN, done : BOOLEAN]
    /\ http \in [state : {"serving", "failed", "closed"}, err : Errors]
    /\ owner \in [at : {"loop", "store", "publish", "drain", "returned"},
                  draining : BOOLEAN, err : Errors \cup {"running"}, emitted : 0 .. MaxEvents]
    /\ transport \in [closed : BOOLEAN, failed : BOOLEAN]
    /\ \A f \in {counts, snapshot.count, monitor.s.count, monitor.prior} :
           DOMAIN f = Counters /\ \A k \in Counters : f[k] \in 0 .. Bound[k]
    /\ snapshot.ready \in BOOLEAN /\ monitor.s.ready \in BOOLEAN
    /\ monitor.at \in {"select", "drops", "store", "gaps", "returned"}
    /\ monitor.done \in BOOLEAN /\ registry.ready \in BOOLEAN
    /\ DOMAIN registry.metric = Counters /\ \A k \in Counters : registry.metric[k] \in Nat
    /\ registry.next \in 0 .. MaxEvents + MaxDrops
    /\ Len(registry.events) <= RecentEvents

\* Close UDP only after drain completion (docs/architecture.md): when main
\* closes the socket, Run has returned, and it has drained unless the
\* transport itself had failed - also when a signal, a failure of the
\* monitoring server and one of the transport come together.
CloseAfterDrain ==
    transport.closed => owner.at = "returned" /\ (owner.draining \/ transport.failed)

\* The command reports the failure (docs/monitoring.md): without a signal
\* the process never ends with success, although stop() makes a failure of
\* the monitoring server look to Run like a signal.
FailureIsReported ==
    main.at = "exit" /\ main.err = None => ctx.signalled

\* The recent-event ring holds the last RecentEvents events stored; every
\* ID drawn is stored once or about to be; and the events of one publisher
\* are in the order of their IDs.  (Events of two publishers may be stored
\* against the order of their IDs: the ID is drawn outside the lock.)
EventsAreKept ==
    LET stored == history.stored
        n == Len(stored)
        IDs == {stored[i].id : i \in 1 .. n}
        Kept == IF n < RecentEvents THEN n ELSE RecentEvents
    IN  /\ TypeOK
        /\ registry.events = SubSeq(stored, n - Kept + 1, n)
        /\ IDs \cup ({history.drawn[p] : p \in Publishers} \ {0}) = 1 .. registry.next
        /\ Cardinality(IDs) = n
        /\ \A i, j \in 1 .. n :
               i < j /\ stored[i].by = stored[j].by => stored[i].id < stored[j].id

\* A signal, a failed monitoring server or a failed transport ends the
\* process: no branch of waitForTermination waits for a Run that was never
\* told to stop.
Stops ==
    ctx.signalled \/ http.err # None \/ transport.failed ~> ~Alive

\* Every drop and every gap is counted once: the registry's counters never
\* exceed what the transport and the engine counted, whatever the snapshots
\* the monitor goroutine misses or reads twice, and reach it unless the
\* process is on its way out.
DropsAreCounted ==
    \A k \in Counters :
        /\ [](registry.metric[k] <= counts[k])
        /\ \A n \in 1 .. Bound[k] :
               counts[k] >= n ~> registry.metric[k] >= n \/ ctx.done \/ transport.failed
=============================================================================
