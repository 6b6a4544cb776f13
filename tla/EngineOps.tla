------------------------------ MODULE EngineOps ------------------------------
(***************************************************************************)
(* The policy engine of pkg/server/engine.go as operators on its state: a  *)
(* record with the fields sessions, floor, gaps and draining of the Go     *)
(* struct.  Engine turns them into a state machine of its own; Reflector   *)
(* calls them from the handlers of the state owner.                        *)
(*                                                                         *)
(* Every time.Time of the code is kept as the age it has, in units of the  *)
(* model's clock: session.last is the field idle, floor.granted, .first    *)
(* and .last are the ages of the grant, the first and the last frame.  An  *)
(* age is only ever compared with one limit (now.Sub(t) > limit), so it    *)
(* stops growing one past that limit and nothing is lost.                  *)
(*                                                                         *)
(* Left out: callsigns and payloads (never read by the policy), session ID *)
(* zero (authenticate never offers it), and Transaction, which has no      *)
(* caller outside the tests.                                               *)
(***************************************************************************)
EXTENDS Integers, FiniteSets

CONSTANTS
    Ids,               \* session IDs
    Addresses,         \* UDP source addresses
    Streams,           \* stream IDs, zero among them or not
    Timestamps,        \* endpoint-supplied media timestamps, with zero
    Half,              \* half of the sequence space: 2^31 in the code
    MaxClients,        \* Limits.MaxClients
    SessionTimeout,    \* Limits.SessionTimeout
    GrantTimeout,      \* Limits.GrantTimeout
    MediaTimeout,      \* Limits.MediaTimeout
    TransmitTimeLimit, \* Limits.TransmitTimeLimit
    NoSession,         \* a nil *session
    NoFloor,           \* a nil *floor
    NoEnd              \* a nil *StreamEnd

ASSUME StreamsAssumption == Streams \subseteq Nat
ASSUME TimestampsAssumption == Timestamps \subseteq Nat /\ 0 \in Timestamps
ASSUME HalfAssumption == Half \in Nat \ {0}
\* A limit is in units of the model's clock; one shorter than a unit is 0.
ASSUME LimitsAssumption ==
    /\ MaxClients \in Nat \ {0}
    /\ SessionTimeout \in Nat
    /\ GrantTimeout \in Nat
    /\ MediaTimeout \in Nat
    /\ TransmitTimeLimit \in Nat

-----------------------------------------------------------------------------
SeqSpace == 2 * Half
Sequences32 == 0 .. SeqSpace - 1

EndReasons == {"normal", "owner_disconnect", "grant_timeout",
               "media_inactivity", "transmit_time_limit", "server_shutdown"}

Session == [address : Addresses, ready : BOOLEAN, idle : 0 .. SessionTimeout + 1]

FloorState ==
    [owner : Ids, stream : Streams,
     granted : 0 .. GrantTimeout + 1,
     started : BOOLEAN,                      \* firstMedia is not the zero time
     first : 0 .. TransmitTimeLimit + 1,
     last : 0 .. MediaTimeout + 1,
     hasPrior : BOOLEAN, prior : Sequences32, timestamp : Timestamps]

StreamEnd == [session : Ids, stream : Streams, reason : EndReasons,
              sequence : Sequences32, timestamp : Timestamps]

EngineState == [sessions : [Ids -> Session \cup {NoSession}],
                floor : FloorState \cup {NoFloor},
                gaps : Nat, draining : BOOLEAN]

\* The nil values are no records of the model.
ASSUME NilAssumption ==
    /\ NoSession \notin Session
    /\ NoFloor \notin FloorState
    /\ NoEnd \notin StreamEnd

NewEngine == [sessions |-> [i \in Ids |-> NoSession], floor |-> NoFloor,
              gaps |-> 0, draining |-> FALSE]

-----------------------------------------------------------------------------
(* Sessions.                                                               *)

Live(e) == {i \in Ids : e.sessions[i] # NoSession}

IsReady(e, id) == id \in Live(e) /\ e.sessions[id].ready

CanAdd(e, id) ==
    /\ ~e.draining
    /\ id \notin Live(e)
    /\ Cardinality(Live(e)) < MaxClients

AddSession(e, id, address, ready) ==
    [e EXCEPT !.sessions[id] = [address |-> address, ready |-> ready, idle |-> 0]]

\* s.last = e.now()
Refresh(e, id) == [e EXCEPT !.sessions[id].idle = 0]

SetReady(e, id) ==
    IF id \in Live(e)
    THEN [e EXCEPT !.sessions[id] =
             [address |-> e.sessions[id].address, ready |-> TRUE, idle |-> 0]]
    ELSE e

Touch(e, id, address) ==
    IF id \in Live(e) /\ e.sessions[id].address = address THEN Refresh(e, id) ELSE e

-----------------------------------------------------------------------------
(* The floor.                                                              *)

Owns(e, id) == e.floor # NoFloor /\ e.floor.owner = id
OwnsStream(e, id, stream) == Owns(e, id) /\ e.floor.stream = stream

\* Mutant of FloorResult: a floor in use is granted again.
FloorResultNeverBusy(e, id, stream) ==
    IF e.draining \/ ~IsReady(e, id) \/ stream = 0 THEN "rejected" ELSE "granted"

FloorResult(e, id, stream) ==
    IF e.draining \/ ~IsReady(e, id) \/ stream = 0 THEN "rejected"
    ELSE IF e.floor # NoFloor THEN "busy" ELSE "granted"

Granted(id, stream) ==
    [owner |-> id, stream |-> stream, granted |-> 0, started |-> FALSE,
     first |-> 0, last |-> 0, hasPrior |-> FALSE, prior |-> 0, timestamp |-> 0]

RequestFloor(e, id, stream) ==
    CASE FloorResult(e, id, stream) = "rejected" -> e
      [] FloorResult(e, id, stream) = "busy" -> Refresh(e, id)
      [] FloorResult(e, id, stream) = "granted" ->
            [Refresh(e, id) EXCEPT !.floor = Granted(id, stream)]

\* Mutant of Successor: the addition does not wrap.
SuccessorUnwrapped(sequence) == sequence + 1

\* expected := prior + 1 and delta := sequence - expected, in uint32.
Successor(sequence) == IF sequence = SeqSpace - 1 THEN 0 ELSE sequence + 1
Distance(from, to) == IF to >= from THEN to - from ELSE to - from + SeqSpace

\* Mutant of Skipped: counts from the prior frame itself.
SkippedFromPrior(f, sequence) ==
    IF f.started /\ f.hasPrior THEN Distance(f.prior, sequence) ELSE 0

\* The frames a datagram with this sequence number shows to be missing.
Skipped(f, sequence) ==
    IF f.started /\ f.hasPrior THEN Distance(Successor(f.prior), sequence) ELSE 0

\* Mutant of InOrder: the half-range comparison is missing.
InOrderAnySkip(f, sequence) == ~f.started => sequence = 0

InOrder(f, sequence) ==
    /\ ~f.started => sequence = 0
    /\ Skipped(f, sequence) < Half

MediaAccepted(e, id, address, stream, sequence) ==
    /\ id \in Live(e)
    /\ e.sessions[id].address = address
    /\ ~e.draining
    /\ OwnsStream(e, id, stream)
    /\ InOrder(e.floor, sequence)

Media(e, id, sequence, timestamp) ==
    [Refresh(e, id) EXCEPT
        !.gaps = @ + Skipped(e.floor, sequence),
        !.floor = [e.floor EXCEPT !.started = TRUE,
                                  !.first = IF e.floor.started THEN @ ELSE 0,
                                  !.last = 0, !.hasPrior = TRUE,
                                  !.prior = sequence, !.timestamp = timestamp]]

Fanout(e, id) == {i \in Ids \ {id} : IsReady(e, i)}

-----------------------------------------------------------------------------
(* Release.  ReleaseEnd is the value releaseLocked returns, Release what   *)
(* it leaves behind; both are guarded by ownership like the code.          *)

\* Mutant of ReleaseEnd: the last sequence number instead of the next.
ReleaseEndPrior(e, id, reason) ==
    IF Owns(e, id)
    THEN [session |-> id, stream |-> e.floor.stream, reason |-> reason,
          sequence |-> e.floor.prior, timestamp |-> e.floor.timestamp]
    ELSE NoEnd

ReleaseEnd(e, id, reason) ==
    IF Owns(e, id)
    THEN [session |-> id, stream |-> e.floor.stream, reason |-> reason,
          sequence |-> IF e.floor.started THEN Successor(e.floor.prior) ELSE 0,
          timestamp |-> IF e.floor.started THEN e.floor.timestamp ELSE 0]
    ELSE NoEnd

Release(e, id) == IF Owns(e, id) THEN [e EXCEPT !.floor = NoFloor] ELSE e

EndAccepted(e, id, stream, sequence, timestamp) ==
    /\ OwnsStream(e, id, stream)
    /\ sequence = IF e.floor.hasPrior THEN Successor(e.floor.prior) ELSE 0
    /\ timestamp = IF e.floor.hasPrior THEN e.floor.timestamp ELSE 0

RemoveSessions(e, gone) ==
    [e EXCEPT !.sessions = [i \in Ids |-> IF i \in gone THEN NoSession ELSE e.sessions[i]]]

\* Mutant of Disconnect: the floor is not released.
DisconnectKeepsFloor(e, id) == RemoveSessions(e, {id})

Disconnect(e, id) == Release(RemoveSessions(e, {id}), id)

\* Tick walks a Go map, so in any order, and returns at the first release:
\* with an expired owner it removes the owner and any of the other expired
\* sessions, otherwise all of them.
Expired(e) == {i \in Live(e) : e.sessions[i].idle > SessionTimeout}

TickRemovals(e) ==
    IF e.floor # NoFloor /\ e.floor.owner \in Expired(e)
    THEN {gone \in SUBSET Expired(e) : e.floor.owner \in gone}
    ELSE {Expired(e)}

TimedOut(f) ==
    \/ ~f.started /\ f.granted > GrantTimeout
    \/ f.started /\ (f.last > MediaTimeout \/ f.first > TransmitTimeLimit)

TimeoutReason(f) ==
    IF ~f.started THEN "grant_timeout"
    ELSE IF f.last > MediaTimeout THEN "media_inactivity" ELSE "transmit_time_limit"

\* Mutant of TickReleases: Tick forgets the floor's own limits.
TickReleasesGone(e, gone) == e.floor # NoFloor /\ e.floor.owner \in gone

TickReleases(e, gone) ==
    e.floor # NoFloor /\ (e.floor.owner \in gone \/ TimedOut(e.floor))

TickEnd(e, gone) ==
    IF TickReleases(e, gone)
    THEN ReleaseEnd(e, e.floor.owner,
                    IF e.floor.owner \in gone THEN "owner_disconnect"
                    ELSE TimeoutReason(e.floor))
    ELSE NoEnd

Tick(e, gone) ==
    IF TickReleases(e, gone)
    THEN Release(RemoveSessions(e, gone), e.floor.owner)
    ELSE RemoveSessions(e, gone)

ShutdownEnd(e) ==
    IF ~e.draining /\ e.floor # NoFloor
    THEN ReleaseEnd(e, e.floor.owner, "server_shutdown") ELSE NoEnd

BeginShutdown(e) ==
    IF e.draining THEN e ELSE [e EXCEPT !.draining = TRUE, !.floor = NoFloor]

-----------------------------------------------------------------------------
(* The injected clock.  The grant's age is not read once a frame arrived.  *)

Older(age, limit) == IF age > limit THEN age ELSE age + 1

Age(e) ==
    [e EXCEPT
       !.sessions = [i \in Ids |->
          IF e.sessions[i] = NoSession THEN NoSession
          ELSE [e.sessions[i] EXCEPT !.idle = Older(@, SessionTimeout)]],
       !.floor =
          CASE e.floor = NoFloor -> NoFloor
            [] e.floor # NoFloor /\ e.floor.started ->
                 [e.floor EXCEPT !.first = Older(@, TransmitTimeLimit),
                                 !.last = Older(@, MediaTimeout)]
            [] e.floor # NoFloor /\ ~e.floor.started ->
                 [e.floor EXCEPT !.granted = Older(@, GrantTimeout)]]
=============================================================================
