-------------------------------- MODULE Engine --------------------------------
(***************************************************************************)
(* The policy engine as a state machine: one action per exported method    *)
(* that changes state.  A method holds the engine's mutex from its first   *)
(* line to its return, so every action is atomic.  `end` is the *StreamEnd *)
(* the latest call returned: the caller's only notice that the floor was   *)
(* released.                                                               *)
(***************************************************************************)
EXTENDS EngineOps

CONSTANT MaxGaps       \* bound on the gap counter (a uint64 in the code)

ASSUME MaxGapsAssumption == MaxGaps \in Nat

VARIABLES eng, end

vars == <<eng, end>>

Init == eng = NewEngine /\ end = NoEnd

DoAddSession(id, address, ready) ==
    /\ CanAdd(eng, id)
    /\ eng' = AddSession(eng, id, address, ready)
    /\ end' = NoEnd

DoSetReady(id) ==
    /\ id \in Live(eng)
    /\ eng' = SetReady(eng, id)
    /\ end' = NoEnd

DoTouch(id, address) ==
    /\ id \in Live(eng)
    /\ eng' = Touch(eng, id, address)
    /\ end' = NoEnd

DoRequestFloor(id, stream) ==
    /\ eng' = RequestFloor(eng, id, stream)
    /\ end' = NoEnd

DoMedia(id, address, stream, sequence, timestamp) ==
    /\ MediaAccepted(eng, id, address, stream, sequence)
    /\ eng.gaps + Skipped(eng.floor, sequence) <= MaxGaps
    /\ eng' = Media(eng, id, sequence, timestamp)
    /\ end' = NoEnd

DoEnd(id, stream, sequence, timestamp) ==
    /\ EndAccepted(eng, id, stream, sequence, timestamp)
    /\ eng' = Release(eng, id)
    /\ end' = ReleaseEnd(eng, id, "normal")

DoDisconnect(id) ==
    /\ eng' = Disconnect(eng, id)
    /\ end' = ReleaseEnd(eng, id, "owner_disconnect")

DoTick ==
    \E gone \in TickRemovals(eng) :
        /\ eng' = Tick(eng, gone)
        /\ end' = TickEnd(eng, gone)

DoBeginShutdown ==
    /\ eng' = BeginShutdown(eng)
    /\ end' = ShutdownEnd(eng)

\* Time passes between two calls.
Advance ==
    /\ eng' = Age(eng)
    /\ end' = NoEnd

SessionStep(id) ==
    \/ \E address \in Addresses, ready \in BOOLEAN : DoAddSession(id, address, ready)
    \/ DoSetReady(id)
    \/ \E address \in Addresses : DoTouch(id, address)
    \/ DoDisconnect(id)

FloorStep(id) ==
    \E stream \in Streams :
        \/ DoRequestFloor(id, stream)
        \/ \E sequence \in Sequences32, timestamp \in Timestamps :
              \/ \E address \in Addresses : DoMedia(id, address, stream, sequence, timestamp)
              \/ DoEnd(id, stream, sequence, timestamp)

Next ==
    \/ \E id \in Ids : SessionStep(id) \/ FloorStep(id)
    \/ DoTick
    \/ DoBeginShutdown
    \/ Advance

Safety == Init /\ [][Next]_vars

\* The reflector's ticker calls Tick every 50 ms and the clock never stops.
Fairness == WF_vars(DoTick) /\ WF_vars(Advance)

Spec == Safety /\ Fairness

-----------------------------------------------------------------------------
(* Properties.                                                             *)

\* Every field has its Go type; the nil values are the model's own.
TypeOK ==
    /\ eng \in EngineState
    /\ end \in StreamEnd \cup {NoEnd}

\* The floor is never held by a session that is gone or unconfirmed, nor
\* once shutdown began: RequestFloor checks it once, and each of
\* Disconnect, Tick and BeginShutdown has to keep it true.
OwnerIsReadySession ==
    eng.floor # NoFloor =>
        /\ IsReady(eng, eng.floor.owner)
        /\ ~eng.draining
        /\ eng.floor.stream # 0

\* What a returned StreamEnd has to say about the floor f it ended.
Reports(se, f) ==
    /\ se # NoEnd
    /\ se.session = f.owner
    /\ se.stream = f.stream
    /\ se.sequence = IF f.hasPrior THEN Successor(f.prior) ELSE 0
    /\ se.timestamp = f.timestamp

\* A hold that is over was reported to the caller by the very call that
\* ended it, with the next sequence number and the final timestamp, and a
\* call reports an end only if it released the floor.  No call hands the
\* floor from one hold to the next: the caller could not revoke the first.
ReportedOrKept ==
    /\ (eng.floor # NoFloor /\ eng'.floor = NoFloor) => Reports(end', eng.floor)
    /\ end' # NoEnd => eng.floor # NoFloor /\ eng'.floor = NoFloor
    /\ (eng.floor # NoFloor /\ eng'.floor # NoFloor) =>
          /\ eng'.floor.owner = eng.floor.owner
          /\ eng'.floor.stream = eng.floor.stream
          /\ eng.floor.started => eng'.floor.started

ReleaseReported == [][ReportedOrKept]_vars

\* After a Tick no floor is left that is past one of its three limits, and
\* every session the tick found expired is gone unless the tick reported a
\* release (it returns at the first one).
LimitsEnforced ==
    /\ eng'.floor # NoFloor => ~TimedOut(eng'.floor)
    /\ end' = NoEnd => Expired(eng') = {}

TickEnforcesLimits == [][DoTick => LimitsEnforced]_vars

\* The engine implements the abstract floor: grants only on an idle, open
\* channel, activation by the first frame, release to idle, and closing.
\* Every hold ends: the owner may send frames for ever, but Tick releases
\* the floor when the transmit time limit has passed.
FloorHolder == IF eng.floor = NoFloor THEN NoFloor
               ELSE <<eng.floor.owner, eng.floor.stream>>
FloorPhase == CASE eng.floor = NoFloor -> "idle"
                [] eng.floor # NoFloor /\ ~eng.floor.started -> "granted"
                [] eng.floor # NoFloor /\ eng.floor.started -> "active"

AbstractFloor == INSTANCE Floor WITH
    Holders <- Ids \X Streams, NoOne <- NoFloor,
    holder <- FloorHolder, phase <- FloorPhase, open <- ~eng.draining

ImplementsFloor == AbstractFloor!Spec
=============================================================================
