---------------------------- MODULE EngineProofs ----------------------------
(***************************************************************************)
(* Theorems about Engine for every value of its constants.  The inductive  *)
(* invariant Inv adds to the two invariants the model checker sees what    *)
(* the code relies on without saying it: firstMedia and hasPrior are set   *)
(* together, and an unused grant still has the zero timestamp.             *)
(***************************************************************************)
EXTENDS Engine, TLAPS

FloorConsistent ==
    eng.floor # NoFloor =>
        /\ eng.floor.started <=> eng.floor.hasPrior
        /\ ~eng.floor.started => eng.floor.timestamp = 0

Inv == TypeOK /\ OwnerIsReadySession /\ FloorConsistent

-----------------------------------------------------------------------------
(* What the operators of EngineOps return.                                 *)

\* The sequence space is closed under prior + 1, as uint32 arithmetic is.
LEMMA SuccessorType ==
    ASSUME NEW s \in Sequences32
    PROVE  Successor(s) \in Sequences32
  BY HalfAssumption DEF Sequences32, SeqSpace, Successor

\* sequence - expected wraps into the sequence space.
LEMMA DistanceType ==
    ASSUME NEW s \in Sequences32, NEW t \in Sequences32
    PROVE  Distance(s, t) \in Nat
  BY HalfAssumption DEF Sequences32, SeqSpace, Distance

\* A frame skips a natural number of frames, so the gap counter only grows.
LEMMA SkippedType ==
    ASSUME NEW f \in FloorState, NEW s \in Sequences32
    PROVE  Skipped(f, s) \in Nat
  BY SuccessorType, DistanceType DEF Skipped, FloorState

\* Ageing stays in the range of a capped age.
LEMMA OlderType ==
    ASSUME NEW limit \in Nat, NEW a \in 0 .. limit + 1
    PROVE  Older(a, limit) \in 0 .. limit + 1
  BY DEF Older

\* Every field of a session survives a refresh of its activity time.
LEMMA RefreshType ==
    ASSUME NEW e \in EngineState, NEW id \in Live(e)
    PROVE  /\ Refresh(e, id) \in EngineState
           /\ Refresh(e, id).floor = e.floor
           /\ Refresh(e, id).draining = e.draining
           /\ Refresh(e, id).gaps = e.gaps
           /\ Live(Refresh(e, id)) = Live(e)
           /\ \A i \in Live(e) : Refresh(e, id).sessions[i].ready = e.sessions[i].ready
  BY LimitsAssumption, NilAssumption DEF Refresh, EngineState, Session, Live

\* A new session is one more live session and nothing else.
LEMMA AddSessionType ==
    ASSUME NEW e \in EngineState, NEW id \in Ids, id \notin Live(e),
           NEW a \in Addresses, NEW r \in BOOLEAN
    PROVE  /\ AddSession(e, id, a, r) \in EngineState
           /\ AddSession(e, id, a, r).floor = e.floor
           /\ AddSession(e, id, a, r).draining = e.draining
           /\ \A i \in Ids : IsReady(e, i) => IsReady(AddSession(e, id, a, r), i)
  BY LimitsAssumption, NilAssumption DEF AddSession, EngineState, Session, Live, IsReady

\* Confirming a session takes readiness from nobody.
LEMMA SetReadyType ==
    ASSUME NEW e \in EngineState, NEW id \in Live(e)
    PROVE  /\ SetReady(e, id) \in EngineState
           /\ SetReady(e, id).floor = e.floor
           /\ SetReady(e, id).draining = e.draining
           /\ SetReady(e, id).gaps = e.gaps
           /\ \A i \in Ids : IsReady(e, i) => IsReady(SetReady(e, id), i)
<1> DEFINE new == [address |-> e.sessions[id].address, ready |-> TRUE, idle |-> 0]
<1>1. SetReady(e, id) = [e EXCEPT !.sessions[id] = new]
  BY DEF SetReady
<1>2. new \in Session
  BY LimitsAssumption DEF EngineState, Session, Live
<1>3. new.ready = TRUE
  OBVIOUS
<1> HIDE DEF new
<1> QED
  BY <1>1, <1>2, <1>3, NilAssumption DEF EngineState, Live, IsReady

\* Removing sessions keeps the others as they were.
LEMMA RemoveType ==
    ASSUME NEW e \in EngineState, NEW gone
    PROVE  /\ RemoveSessions(e, gone) \in EngineState
           /\ RemoveSessions(e, gone).floor = e.floor
           /\ RemoveSessions(e, gone).draining = e.draining
           /\ RemoveSessions(e, gone).gaps = e.gaps
           /\ \A i \in Ids \ gone : RemoveSessions(e, gone).sessions[i] = e.sessions[i]
           /\ \A i \in Ids : i \in gone => RemoveSessions(e, gone).sessions[i] = NoSession
  BY DEF RemoveSessions, EngineState

\* Release empties the floor of its owner and touches nothing else.
LEMMA ReleaseType ==
    ASSUME NEW e \in EngineState, NEW id
    PROVE  /\ Release(e, id) \in EngineState
           /\ Release(e, id).sessions = e.sessions
           /\ Release(e, id).draining = e.draining
           /\ Release(e, id).gaps = e.gaps
           /\ Owns(e, id) => Release(e, id).floor = NoFloor
           /\ ~Owns(e, id) => Release(e, id).floor = e.floor
  BY DEF Release, EngineState

\* What releaseLocked returns is a StreamEnd exactly when the floor is owned.
LEMMA ReleaseEndType ==
    ASSUME NEW e \in EngineState, NEW id \in Ids, NEW r \in EndReasons
    PROVE  /\ ReleaseEnd(e, id, r) \in StreamEnd \cup {NoEnd}
           /\ ReleaseEnd(e, id, r) # NoEnd <=> Owns(e, id)
<1>1. CASE Owns(e, id)
  <2>1. e.floor \in FloorState
    BY <1>1 DEF Owns, EngineState
  <2>2. Successor(e.floor.prior) \in Sequences32
    BY <2>1, SuccessorType DEF FloorState
  <2>3. 0 \in Sequences32
    BY HalfAssumption DEF Sequences32, SeqSpace
  <2>4. ReleaseEnd(e, id, r) \in StreamEnd
    BY <1>1, <2>1, <2>2, <2>3, TimestampsAssumption DEF ReleaseEnd, StreamEnd, FloorState
  <2> QED
    BY <1>1, <2>4, NilAssumption
<1>2. CASE ~Owns(e, id)
  BY <1>2 DEF ReleaseEnd
<1> QED
  BY <1>1, <1>2

\* A fresh grant is a well-formed floor.
LEMMA GrantedType ==
    ASSUME NEW id \in Ids, NEW stream \in Streams
    PROVE  Granted(id, stream) \in FloorState
  BY LimitsAssumption, HalfAssumption, TimestampsAssumption
     DEF Granted, FloorState, Sequences32, SeqSpace

\* An accepted frame leaves a well-formed, started floor of the same hold.
LEMMA MediaType ==
    ASSUME NEW e \in EngineState, NEW id \in Live(e), NEW s \in Sequences32,
           NEW ts \in Timestamps, e.floor # NoFloor
    PROVE  LET m == Media(e, id, s, ts)
           IN  /\ m \in EngineState
               /\ m.floor # NoFloor
               /\ m.floor.owner = e.floor.owner
               /\ m.floor.stream = e.floor.stream
               /\ m.floor.started /\ m.floor.hasPrior
               /\ m.floor.prior = s /\ m.floor.timestamp = ts
               /\ m.gaps = e.gaps + Skipped(e.floor, s)
               /\ m.draining = e.draining
               /\ \A i \in Ids : IsReady(e, i) => IsReady(m, i)
<1> DEFINE r == Refresh(e, id)
           f == [e.floor EXCEPT !.started = TRUE,
                                !.first = IF e.floor.started THEN @ ELSE 0,
                                !.last = 0, !.hasPrior = TRUE,
                                !.prior = s, !.timestamp = ts]
           g == e.gaps + Skipped(e.floor, s)
<1>1. e.floor \in FloorState
  BY DEF EngineState
<1>2. /\ f \in FloorState
      /\ f.owner = e.floor.owner /\ f.stream = e.floor.stream
      /\ f.started /\ f.hasPrior /\ f.prior = s /\ f.timestamp = ts
  <2> DEFINE first == IF e.floor.started THEN e.floor.first ELSE 0
  <2>1. first \in 0 .. TransmitTimeLimit + 1 /\ 0 \in 0 .. MediaTimeout + 1
    BY <1>1, LimitsAssumption DEF FloorState
  <2>2. f = [e.floor EXCEPT !.started = TRUE, !.first = first, !.last = 0,
                            !.hasPrior = TRUE, !.prior = s, !.timestamp = ts]
    BY <1>1 DEF FloorState
  <2> HIDE DEF first, f
  <2> QED
    BY <1>1, <2>1, <2>2 DEF FloorState
<1>3. g \in Nat
  BY <1>1, SkippedType DEF EngineState
<1>4. r \in EngineState /\ r.gaps = e.gaps /\ r.draining = e.draining
  BY RefreshType
<1>5. \A i \in Ids : IsReady(e, i) => IsReady(r, i)
  BY RefreshType DEF IsReady
<1>6. Media(e, id, s, ts) = [r EXCEPT !.gaps = g, !.floor = f]
  BY <1>4 DEF Media, EngineState
<1>7. g = e.gaps + Skipped(e.floor, s)
  OBVIOUS
<1> HIDE DEF r, f, g
<1>8. /\ Media(e, id, s, ts) \in EngineState
      /\ Media(e, id, s, ts).floor = f /\ Media(e, id, s, ts).gaps = g
      /\ Media(e, id, s, ts).draining = e.draining
      /\ Media(e, id, s, ts).sessions = r.sessions
  BY <1>2, <1>3, <1>4, <1>6 DEF EngineState
<1>9. f # NoFloor
  BY <1>2, NilAssumption
<1>10. \A i \in Ids : IsReady(e, i) => IsReady(Media(e, id, s, ts), i)
  BY <1>5, <1>8 DEF IsReady, Live
<1> QED
  BY <1>2, <1>7, <1>8, <1>9, <1>10

\* Time changes ages only.
LEMMA AgeType ==
    ASSUME NEW e \in EngineState
    PROVE  /\ Age(e) \in EngineState
           /\ Age(e).draining = e.draining /\ Age(e).gaps = e.gaps
           /\ e.floor = NoFloor => Age(e).floor = NoFloor
           /\ e.floor # NoFloor =>
                 /\ Age(e).floor # NoFloor
                 /\ Age(e).floor.owner = e.floor.owner
                 /\ Age(e).floor.stream = e.floor.stream
                 /\ Age(e).floor.started = e.floor.started
                 /\ Age(e).floor.hasPrior = e.floor.hasPrior
                 /\ Age(e).floor.prior = e.floor.prior
                 /\ Age(e).floor.timestamp = e.floor.timestamp
           /\ \A i \in Ids : IsReady(e, i) => IsReady(Age(e), i)
<1> DEFINE ss == [i \in Ids |->
                    IF e.sessions[i] = NoSession THEN NoSession
                    ELSE [e.sessions[i] EXCEPT !.idle = Older(@, SessionTimeout)]]
           f == Age(e).floor
<1>1. Age(e) = [e EXCEPT !.sessions = ss, !.floor = f]
  BY DEF Age, EngineState
<1>2. ASSUME NEW i \in Ids, e.sessions[i] # NoSession
      PROVE  ss[i] \in Session /\ ss[i].ready = e.sessions[i].ready
  BY <1>2, LimitsAssumption, OlderType DEF EngineState, Session
<1>3. ss \in [Ids -> Session \cup {NoSession}]
  BY <1>2
<1>4. CASE e.floor = NoFloor
  <2>1. f = NoFloor
    BY <1>4 DEF Age, EngineState
  <2> HIDE DEF ss, f
  <2>2. \A i \in Ids : IsReady(e, i) => IsReady(Age(e), i)
    BY <1>1, <1>2, <1>3, NilAssumption DEF IsReady, Live, EngineState
  <2> QED
    BY <1>1, <1>3, <1>4, <2>1, <2>2 DEF EngineState
<1>5. CASE e.floor # NoFloor
  <2>1. e.floor \in FloorState
    BY <1>5 DEF EngineState
  <2>2. f = IF e.floor.started
            THEN [e.floor EXCEPT !.first = Older(@, TransmitTimeLimit),
                                 !.last = Older(@, MediaTimeout)]
            ELSE [e.floor EXCEPT !.granted = Older(@, GrantTimeout)]
    BY <1>5 DEF Age, EngineState
  <2>3. /\ f \in FloorState
        /\ f.owner = e.floor.owner /\ f.stream = e.floor.stream
        /\ f.started = e.floor.started /\ f.hasPrior = e.floor.hasPrior
        /\ f.prior = e.floor.prior /\ f.timestamp = e.floor.timestamp
    <3> HIDE DEF f
    <3> QED
      BY <2>1, <2>2, LimitsAssumption, OlderType DEF FloorState
  <2> HIDE DEF ss, f
  <2>4. \A i \in Ids : IsReady(e, i) => IsReady(Age(e), i)
    BY <1>1, <1>2, <1>3, NilAssumption DEF IsReady, Live, EngineState
  <2> QED
    BY <1>1, <1>3, <1>5, <2>3, <2>4, NilAssumption DEF EngineState
<1> QED
  BY <1>4, <1>5

-----------------------------------------------------------------------------
(* Steps that several calls share.                                         *)

\* The calls that neither grant, use nor release the floor keep Inv.
LEMMA QuietStep ==
    ASSUME Inv, NEW e \in EngineState, eng' = e, end' = NoEnd,
           e.floor = eng.floor, e.draining = eng.draining,
           \A i \in Ids : IsReady(eng, i) => IsReady(e, i)
    PROVE  Inv'
  BY DEF Inv, TypeOK, OwnerIsReadySession, FloorConsistent, EngineState, FloorState, IsReady, Live

\* The calls that leave the floor empty keep Inv.
LEMMA EmptyStep ==
    ASSUME NEW e \in EngineState, eng' = e, end' \in StreamEnd \cup {NoEnd},
           e.floor = NoFloor
    PROVE  Inv'
  BY DEF Inv, TypeOK, OwnerIsReadySession, FloorConsistent

-----------------------------------------------------------------------------
(* The inductive invariant.                                                *)

\* A new engine satisfies the inductive invariant: no session, no floor.
LEMMA InitInv == Init => Inv
  BY DEF Init, Inv, TypeOK, OwnerIsReadySession, FloorConsistent, NewEngine, EngineState

\* Every call of the engine, and the passing of time, keeps it.
LEMMA NextInv == Inv /\ [Next]_vars => Inv'
<1> SUFFICES ASSUME Inv, [Next]_vars PROVE Inv'
  OBVIOUS
<1>0. eng \in EngineState /\ end \in StreamEnd \cup {NoEnd}
  BY DEF Inv, TypeOK
<1>1. ASSUME NEW id \in Ids, NEW a \in Addresses, NEW r \in BOOLEAN, DoAddSession(id, a, r)
      PROVE  Inv'
  BY <1>0, <1>1, AddSessionType, QuietStep DEF DoAddSession, CanAdd
<1>2. ASSUME NEW id \in Ids, DoSetReady(id) PROVE Inv'
  BY <1>0, <1>2, SetReadyType, QuietStep DEF DoSetReady
<1>3. ASSUME NEW id \in Ids, NEW a \in Addresses, DoTouch(id, a) PROVE Inv'
  <2>1. Touch(eng, id, a) = eng \/ Touch(eng, id, a) = Refresh(eng, id)
    BY DEF Touch
  <2>2. \A i \in Ids : IsReady(eng, i) => IsReady(Refresh(eng, id), i)
    BY <1>0, <1>3, RefreshType DEF IsReady, DoTouch
  <2> QED
    BY <1>0, <1>3, <2>1, <2>2, RefreshType, QuietStep DEF DoTouch
<1>4. ASSUME NEW id \in Ids, NEW stream \in Streams, DoRequestFloor(id, stream) PROVE Inv'
  <2>1. CASE FloorResult(eng, id, stream) = "rejected"
    BY <1>0, <1>4, <2>1, QuietStep DEF DoRequestFloor, RequestFloor
  <2>2. ASSUME FloorResult(eng, id, stream) # "rejected"
        PROVE  /\ ~eng.draining /\ IsReady(eng, id) /\ stream # 0 /\ id \in Live(eng)
               /\ \A i \in Ids : IsReady(eng, i) => IsReady(Refresh(eng, id), i)
    BY <1>0, <2>2, RefreshType DEF FloorResult, IsReady
  <2>3. CASE FloorResult(eng, id, stream) = "busy"
    BY <1>0, <1>4, <2>2, <2>3, RefreshType, QuietStep DEF DoRequestFloor, RequestFloor
  <2>4. CASE FloorResult(eng, id, stream) = "granted"
    <3> DEFINE r == Refresh(eng, id)
               g == Granted(id, stream)
    <3>1. eng' = [r EXCEPT !.floor = g] /\ end' = NoEnd
      BY <1>4, <2>4 DEF DoRequestFloor, RequestFloor
    <3>2. r \in EngineState /\ r.draining = eng.draining /\ IsReady(r, id)
      BY <1>0, <2>2, <2>4, RefreshType
    <3>3. g \in FloorState
      BY GrantedType
    <3>4. g.owner = id /\ g.stream = stream /\ ~g.started /\ ~g.hasPrior /\ g.timestamp = 0
      BY DEF Granted
    <3> HIDE DEF r, g
    <3> QED
      BY <2>2, <2>4, <3>1, <3>2, <3>3, <3>4
         DEF Inv, TypeOK, OwnerIsReadySession, FloorConsistent, EngineState, IsReady, Live
  <2> QED
    BY <2>1, <2>3, <2>4 DEF FloorResult
<1>5. ASSUME NEW id \in Ids, NEW a \in Addresses, NEW stream \in Streams,
             NEW s \in Sequences32, NEW ts \in Timestamps, DoMedia(id, a, stream, s, ts)
      PROVE  Inv'
  <2> DEFINE m == Media(eng, id, s, ts)
  <2>1. eng.floor # NoFloor /\ id \in Live(eng) /\ eng' = m /\ end' = NoEnd
    BY <1>5 DEF DoMedia, MediaAccepted, OwnsStream, Owns
  <2>2. /\ m \in EngineState /\ m.floor # NoFloor /\ m.floor.owner = eng.floor.owner
        /\ m.floor.stream = eng.floor.stream /\ m.floor.started /\ m.floor.hasPrior
        /\ m.draining = eng.draining
        /\ \A i \in Ids : IsReady(eng, i) => IsReady(m, i)
    BY <1>0, <2>1, MediaType
  <2>3. eng.floor.owner \in Ids
    BY <1>0, <2>1 DEF EngineState, FloorState
  <2> HIDE DEF m
  <2> QED
    BY <2>1, <2>2, <2>3 DEF Inv, TypeOK, OwnerIsReadySession, FloorConsistent
<1>6. ASSUME NEW id \in Ids, NEW stream \in Streams, NEW s \in Sequences32,
             NEW ts \in Timestamps, DoEnd(id, stream, s, ts)
      PROVE  Inv'
  BY <1>0, <1>6, ReleaseType, ReleaseEndType, EmptyStep
     DEF DoEnd, EndAccepted, OwnsStream, EndReasons
<1>7. ASSUME NEW id \in Ids, DoDisconnect(id) PROVE Inv'
  <2> DEFINE r == RemoveSessions(eng, {id})
  <2>1. /\ r \in EngineState /\ r.floor = eng.floor /\ r.draining = eng.draining
        /\ \A i \in Ids \ {id} : r.sessions[i] = eng.sessions[i]
    BY <1>0, RemoveType
  <2>2. eng' = Release(r, id) /\ end' \in StreamEnd \cup {NoEnd}
    BY <1>0, <1>7, ReleaseEndType DEF DoDisconnect, Disconnect, EndReasons
  <2> HIDE DEF r
  <2>3. CASE Owns(r, id)
    BY <2>1, <2>2, <2>3, ReleaseType, EmptyStep
  <2>4. CASE ~Owns(r, id)
    <3>1. /\ eng' \in EngineState /\ eng'.floor = eng.floor /\ eng'.draining = eng.draining
          /\ eng'.sessions = r.sessions
      BY <2>1, <2>2, <2>4, ReleaseType
    <3>2. ASSUME eng.floor # NoFloor PROVE eng.floor.owner \in Ids \ {id}
      BY <1>0, <2>1, <2>4, <3>2 DEF Owns, EngineState, FloorState
    <3> QED
      BY <2>1, <2>2, <3>1, <3>2
         DEF Inv, TypeOK, OwnerIsReadySession, FloorConsistent, IsReady, Live
  <2> QED
    BY <2>3, <2>4
<1>8. CASE DoTick
  <2>1. PICK gone \in TickRemovals(eng) : eng' = Tick(eng, gone) /\ end' = TickEnd(eng, gone)
    BY <1>8 DEF DoTick
  <2> DEFINE r == RemoveSessions(eng, gone)
  <2>2. /\ r \in EngineState /\ r.floor = eng.floor /\ r.draining = eng.draining
        /\ \A i \in Ids \ gone : r.sessions[i] = eng.sessions[i]
    BY <1>0, RemoveType
  <2>3. CASE TickReleases(eng, gone)
    <3>1. eng' = Release(r, eng.floor.owner) /\ Owns(r, eng.floor.owner)
      BY <2>1, <2>2, <2>3 DEF Tick, TickReleases, Owns
    <3>2. eng.floor.owner \in Ids
      BY <1>0, <2>3 DEF TickReleases, EngineState, FloorState
    <3>3. end' \in StreamEnd \cup {NoEnd}
      BY <1>0, <2>1, <2>3, <3>2, ReleaseEndType DEF TickEnd, EndReasons, TimeoutReason
    <3> HIDE DEF r
    <3> QED
      BY <2>2, <3>1, <3>3, ReleaseType, EmptyStep
  <2>4. CASE ~TickReleases(eng, gone)
    <3>1. eng' = r /\ end' = NoEnd
      BY <2>1, <2>4 DEF Tick, TickEnd
    <3>2. ASSUME eng.floor # NoFloor PROVE eng.floor.owner \in Ids \ gone
      BY <1>0, <2>4, <3>2 DEF TickReleases, EngineState, FloorState
    <3> HIDE DEF r
    <3> QED
      BY <2>2, <3>1, <3>2 DEF Inv, TypeOK, OwnerIsReadySession, FloorConsistent, IsReady, Live
  <2> QED
    BY <2>3, <2>4
<1>9. CASE DoBeginShutdown
  <2>1. CASE eng.draining
    BY <1>0, <1>9, <2>1, QuietStep DEF DoBeginShutdown, BeginShutdown, ShutdownEnd
  <2>2. CASE ~eng.draining
    <3>1. eng' \in EngineState /\ eng'.floor = NoFloor
      BY <1>0, <1>9, <2>2 DEF DoBeginShutdown, BeginShutdown, EngineState
    <3>2. end' \in StreamEnd \cup {NoEnd}
      <4>1. eng.floor # NoFloor => eng.floor.owner \in Ids
        BY <1>0 DEF EngineState, FloorState
      <4> QED
        BY <1>0, <1>9, <4>1, ReleaseEndType DEF DoBeginShutdown, ShutdownEnd, EndReasons
    <3> QED
      BY <3>1, <3>2, EmptyStep
  <2> QED
    BY <2>1, <2>2
<1>10. CASE Advance
  <2>1. eng' = Age(eng) /\ end' = NoEnd
    BY <1>10 DEF Advance
  <2>2. eng.floor # NoFloor => eng.floor.owner \in Ids
    BY <1>0 DEF EngineState, FloorState
  <2> QED
    BY <1>0, <2>1, <2>2, AgeType DEF Inv, TypeOK, OwnerIsReadySession, FloorConsistent
<1>11. CASE UNCHANGED vars
  BY <1>11 DEF Inv, TypeOK, OwnerIsReadySession, FloorConsistent, vars, IsReady, Live
<1> QED
  BY <1>1, <1>2, <1>3, <1>4, <1>5, <1>6, <1>7, <1>8, <1>9, <1>10, <1>11
     DEF Next, SessionStep, FloorStep

\* So it holds in every reachable state.
LEMMA Invariance == Safety => []Inv
  BY InitInv, NextInv, PTL DEF Safety

-----------------------------------------------------------------------------
(* What one step can do to the floor: the five cases both the reporting    *)
(* property and the refinement rest on.                                    *)

KeepFloor ==
    /\ eng.floor = NoFloor <=> eng'.floor = NoFloor
    /\ eng.floor # NoFloor =>
          /\ eng'.floor.owner = eng.floor.owner
          /\ eng'.floor.stream = eng.floor.stream
          /\ eng'.floor.started = eng.floor.started
    /\ eng'.draining = eng.draining
    /\ end' = NoEnd

GrantFloor ==
    /\ eng.floor = NoFloor
    /\ ~eng.draining
    /\ eng'.floor \in FloorState
    /\ ~eng'.floor.started
    /\ eng'.draining = eng.draining
    /\ end' = NoEnd

UseFloor ==
    /\ eng.floor # NoFloor
    /\ eng'.floor # NoFloor
    /\ eng'.floor.owner = eng.floor.owner
    /\ eng'.floor.stream = eng.floor.stream
    /\ eng'.floor.started
    /\ eng'.draining = eng.draining
    /\ end' = NoEnd

ReleaseFloor ==
    /\ eng.floor # NoFloor
    /\ eng'.floor = NoFloor
    /\ eng'.draining = eng.draining
    /\ Reports(end', eng.floor)

CloseFloor ==
    /\ ~eng.draining
    /\ eng'.draining
    /\ eng'.floor = NoFloor
    /\ eng.floor # NoFloor => Reports(end', eng.floor)
    /\ eng.floor = NoFloor => end' = NoEnd

\* The value releaseLocked returns for the owner reports the whole hold.
LEMMA ReleaseEndReports ==
    ASSUME Inv, eng.floor # NoFloor, NEW r \in EndReasons
    PROVE  Reports(ReleaseEnd(eng, eng.floor.owner, r), eng.floor)
<1>1. eng \in EngineState /\ eng.floor \in FloorState /\ eng.floor.owner \in Ids
  BY DEF Inv, TypeOK, EngineState, FloorState
<1>2. Owns(eng, eng.floor.owner)
  BY DEF Owns
<1>3. ReleaseEnd(eng, eng.floor.owner, r) # NoEnd
  BY <1>1, <1>2, ReleaseEndType
<1> QED
  BY <1>1, <1>2, <1>3 DEF Reports, ReleaseEnd, Inv, FloorConsistent, FloorState

\* What a call does to the floor is one of five things: nothing, a grant, an
\* accepted frame, a reported release, or the closing of the channel.
LEMMA StepEffect ==
    Inv /\ [Next]_vars => KeepFloor \/ GrantFloor \/ UseFloor \/ ReleaseFloor \/ CloseFloor \/ UNCHANGED vars
<1> DEFINE Effect == KeepFloor \/ GrantFloor \/ UseFloor \/ ReleaseFloor \/ CloseFloor \/ UNCHANGED vars
<1> SUFFICES ASSUME Inv, [Next]_vars PROVE Effect
  OBVIOUS
<1>0. eng \in EngineState /\ end \in StreamEnd \cup {NoEnd}
  BY DEF Inv, TypeOK
<1>1. ASSUME NEW id \in Ids, NEW a \in Addresses, NEW r \in BOOLEAN, DoAddSession(id, a, r)
      PROVE  Effect
  BY <1>0, <1>1, AddSessionType DEF DoAddSession, CanAdd, KeepFloor
<1>2. ASSUME NEW id \in Ids, DoSetReady(id) PROVE Effect
  BY <1>0, <1>2, SetReadyType DEF DoSetReady, KeepFloor
<1>3. ASSUME NEW id \in Ids, NEW a \in Addresses, DoTouch(id, a) PROVE Effect
  BY <1>0, <1>3, RefreshType DEF DoTouch, Touch, KeepFloor
<1>4. ASSUME NEW id \in Ids, NEW stream \in Streams, DoRequestFloor(id, stream) PROVE Effect
  <2>1. CASE FloorResult(eng, id, stream) = "rejected"
    BY <1>0, <1>4, <2>1 DEF DoRequestFloor, RequestFloor, KeepFloor
  <2>2. CASE FloorResult(eng, id, stream) = "busy"
    <3>1. id \in Live(eng)
      BY <2>2 DEF FloorResult, IsReady
    <3> QED
      BY <1>0, <1>4, <2>2, <3>1, RefreshType DEF DoRequestFloor, RequestFloor, KeepFloor
  <2>3. CASE FloorResult(eng, id, stream) = "granted"
    <3>1. id \in Live(eng) /\ eng.floor = NoFloor /\ ~eng.draining
      BY <2>3 DEF FloorResult, IsReady
    <3>2. Refresh(eng, id) \in EngineState /\ Refresh(eng, id).draining = eng.draining
      BY <1>0, <3>1, RefreshType
    <3>3. Granted(id, stream) \in FloorState /\ ~Granted(id, stream).started
      BY GrantedType DEF Granted
    <3>4. eng'.floor = Granted(id, stream) /\ eng'.draining = eng.draining /\ end' = NoEnd
      BY <1>4, <2>3, <3>2 DEF DoRequestFloor, RequestFloor, EngineState
    <3> QED
      BY <3>1, <3>3, <3>4 DEF GrantFloor
  <2> QED
    BY <2>1, <2>2, <2>3 DEF FloorResult
<1>5. ASSUME NEW id \in Ids, NEW a \in Addresses, NEW stream \in Streams,
             NEW s \in Sequences32, NEW ts \in Timestamps, DoMedia(id, a, stream, s, ts)
      PROVE  Effect
  <2>1. eng.floor # NoFloor /\ id \in Live(eng) /\ eng' = Media(eng, id, s, ts) /\ end' = NoEnd
    BY <1>5 DEF DoMedia, MediaAccepted, OwnsStream, Owns
  <2> QED
    BY <1>0, <2>1, MediaType DEF UseFloor
<1>6. ASSUME NEW id \in Ids, NEW stream \in Streams, NEW s \in Sequences32,
             NEW ts \in Timestamps, DoEnd(id, stream, s, ts)
      PROVE  Effect
  <2>1. Owns(eng, id) /\ eng.floor # NoFloor /\ eng.floor.owner = id
    BY <1>6 DEF DoEnd, EndAccepted, OwnsStream, Owns
  <2>2. Reports(end', eng.floor)
    BY <1>6, <2>1, ReleaseEndReports DEF DoEnd, EndReasons
  <2> QED
    BY <1>0, <1>6, <2>1, <2>2, ReleaseType DEF DoEnd, ReleaseFloor
<1>7. ASSUME NEW id \in Ids, DoDisconnect(id) PROVE Effect
  <2>1. /\ RemoveSessions(eng, {id}) \in EngineState /\ RemoveSessions(eng, {id}).floor = eng.floor
        /\ RemoveSessions(eng, {id}).draining = eng.draining
    BY <1>0, RemoveType
  <2>2. CASE Owns(eng, id)
    <3>1. Reports(end', eng.floor) /\ eng.floor # NoFloor
      BY <1>7, <2>2, ReleaseEndReports DEF DoDisconnect, EndReasons, Owns
    <3>2. Owns(RemoveSessions(eng, {id}), id)
      BY <2>1, <2>2 DEF Owns
    <3> QED
      BY <1>7, <2>1, <3>1, <3>2, ReleaseType DEF DoDisconnect, Disconnect, ReleaseFloor
  <2>3. CASE ~Owns(eng, id)
    <3>1. ~Owns(RemoveSessions(eng, {id}), id) /\ end' = NoEnd
      BY <1>7, <2>1, <2>3 DEF Owns, DoDisconnect, ReleaseEnd
    <3> QED
      BY <1>7, <2>1, <3>1, ReleaseType DEF DoDisconnect, Disconnect, KeepFloor
  <2> QED
    BY <2>2, <2>3
<1>8. CASE DoTick
  <2>1. PICK gone \in TickRemovals(eng) : eng' = Tick(eng, gone) /\ end' = TickEnd(eng, gone)
    BY <1>8 DEF DoTick
  <2>2. /\ RemoveSessions(eng, gone) \in EngineState /\ RemoveSessions(eng, gone).floor = eng.floor
        /\ RemoveSessions(eng, gone).draining = eng.draining
    BY <1>0, RemoveType
  <2>3. CASE TickReleases(eng, gone)
    <3>1. eng.floor # NoFloor /\ Owns(RemoveSessions(eng, gone), eng.floor.owner)
      BY <2>2, <2>3 DEF TickReleases, Owns
    <3>2. Reports(end', eng.floor)
      BY <2>1, <2>3, <3>1, ReleaseEndReports DEF TickEnd, EndReasons, TimeoutReason
    <3> QED
      BY <2>1, <2>2, <2>3, <3>1, <3>2, ReleaseType DEF Tick, ReleaseFloor
  <2>4. CASE ~TickReleases(eng, gone)
    BY <2>1, <2>2, <2>4 DEF Tick, TickEnd, KeepFloor
  <2> QED
    BY <2>3, <2>4
<1>9. CASE DoBeginShutdown
  <2>1. CASE eng.draining
    BY <1>9, <2>1 DEF DoBeginShutdown, BeginShutdown, ShutdownEnd, KeepFloor
  <2>2. CASE ~eng.draining
    <3>1. eng'.draining /\ eng'.floor = NoFloor
      BY <1>0, <1>9, <2>2 DEF DoBeginShutdown, BeginShutdown, EngineState
    <3>2. eng.floor # NoFloor => Reports(end', eng.floor)
      BY <1>9, <2>2, ReleaseEndReports DEF DoBeginShutdown, ShutdownEnd, EndReasons
    <3> QED
      BY <1>9, <2>2, <3>1, <3>2 DEF DoBeginShutdown, ShutdownEnd, CloseFloor
  <2> QED
    BY <2>1, <2>2
<1>10. CASE Advance
  BY <1>0, <1>10, AgeType DEF Advance, KeepFloor
<1>11. CASE UNCHANGED vars
  BY <1>11
<1> QED
  BY <1>1, <1>2, <1>3, <1>4, <1>5, <1>6, <1>7, <1>8, <1>9, <1>10, <1>11
     DEF Next, SessionStep, FloorStep

-----------------------------------------------------------------------------
(* Theorems.                                                               *)

\* Every state of the engine is well typed: no call leaves a half-written
\* session or floor, and no sequence or age escapes its range.
THEOREM TypeCorrect == Safety => []TypeOK
<1>1. Inv => TypeOK
  BY DEF Inv
<1> QED
  BY <1>1, Invariance, PTL

\* The floor always belongs to a confirmed session of a server that is not
\* shutting down, whatever calls Disconnect, Tick and BeginShutdown make.
THEOREM FloorOwnership == Safety => []OwnerIsReadySession
<1>1. Inv => OwnerIsReadySession
  BY DEF Inv
<1> QED
  BY <1>1, Invariance, PTL

\* No release is silent and no report is false: the StreamEnd a call returns
\* and the disappearance of the floor always come together.
THEOREM ReleasesAreReported == Safety => ReleaseReported
<1>1. Inv /\ [Next]_vars => [ReportedOrKept]_vars
  BY StepEffect DEF KeepFloor, GrantFloor, UseFloor, ReleaseFloor, CloseFloor,
                    ReportedOrKept, Reports
<1> QED
  BY <1>1, Invariance, PTL DEF Safety, ReleaseReported

\* A Tick leaves neither a floor past its limits nor, unless it returned
\* early with a release, an expired session.
THEOREM TickLimits == Safety => TickEnforcesLimits
<1>1. Inv /\ [Next]_vars => [DoTick => LimitsEnforced]_vars
  <2> SUFFICES ASSUME Inv, DoTick PROVE LimitsEnforced
    OBVIOUS
  <2>0. eng \in EngineState
    BY DEF Inv, TypeOK
  <2>1. PICK gone \in TickRemovals(eng) : eng' = Tick(eng, gone) /\ end' = TickEnd(eng, gone)
    BY DEF DoTick
  <2>2. /\ RemoveSessions(eng, gone) \in EngineState /\ RemoveSessions(eng, gone).floor = eng.floor
        /\ \A i \in Ids \ gone : RemoveSessions(eng, gone).sessions[i] = eng.sessions[i]
        /\ \A i \in Ids : i \in gone => RemoveSessions(eng, gone).sessions[i] = NoSession
    BY <2>0, RemoveType
  <2>3. CASE TickReleases(eng, gone)
    <3>1. eng.floor # NoFloor /\ Owns(RemoveSessions(eng, gone), eng.floor.owner)
      BY <2>2, <2>3 DEF TickReleases, Owns
    <3>2. eng'.floor = NoFloor
      BY <2>1, <2>2, <2>3, <3>1, ReleaseType DEF Tick
    <3>3. end' # NoEnd
      BY <2>1, <2>3, <3>1, ReleaseEndReports DEF TickEnd, EndReasons, TimeoutReason, Reports
    <3> QED
      BY <3>2, <3>3 DEF LimitsEnforced
  <2>4. CASE ~TickReleases(eng, gone)
    <3>1. eng' = RemoveSessions(eng, gone)
      BY <2>1, <2>4 DEF Tick
    <3>2. eng'.floor # NoFloor => ~TimedOut(eng'.floor)
      BY <2>2, <2>4, <3>1 DEF TickReleases
    <3>3. gone = Expired(eng)
      BY <2>1, <2>4 DEF TickRemovals, TickReleases
    <3>4. Expired(eng') = {}
      BY <2>2, <3>1, <3>3 DEF Expired, Live
    <3> QED
      BY <3>2, <3>4 DEF LimitsEnforced
  <2> QED
    BY <2>3, <2>4
<1> QED
  BY <1>1, Invariance, PTL DEF Safety, TickEnforcesLimits

\* The engine implements the safety part of the abstract floor: its initial
\* state maps to the idle, open channel and every call to one step or none.
THEOREM RefinesFloor == Safety => AbstractFloor!Safety
<1>1. Init => AbstractFloor!Init
  BY DEF Init, NewEngine, AbstractFloor!Init, FloorHolder, FloorPhase
<1>2. Inv /\ Inv' /\ [Next]_vars => [AbstractFloor!Next]_(AbstractFloor!vars)
  <2> SUFFICES ASSUME Inv, Inv', [Next]_vars
               PROVE  [AbstractFloor!Next]_(AbstractFloor!vars)
    OBVIOUS
  <2>1. CASE KeepFloor
    BY <2>1 DEF KeepFloor, AbstractFloor!vars, FloorHolder, FloorPhase
  <2>2. CASE GrantFloor
    <3>1. eng'.floor # NoFloor /\ <<eng'.floor.owner, eng'.floor.stream>> \in Ids \X Streams
      BY <2>2, NilAssumption DEF GrantFloor, FloorState
    <3> QED
      BY <2>2, <3>1 DEF GrantFloor, AbstractFloor!Next, AbstractFloor!Grant, FloorHolder, FloorPhase
  <2>3. CASE UseFloor
    BY <2>3 DEF UseFloor, AbstractFloor!Next, AbstractFloor!Activate, AbstractFloor!vars,
                FloorHolder, FloorPhase
  <2>4. CASE ReleaseFloor
    BY <2>4 DEF ReleaseFloor, AbstractFloor!Next, AbstractFloor!Release, FloorHolder, FloorPhase
  <2>5. CASE CloseFloor
    BY <2>5 DEF CloseFloor, AbstractFloor!Next, AbstractFloor!Close, FloorHolder, FloorPhase
  <2>6. CASE UNCHANGED vars
    BY <2>6 DEF vars, AbstractFloor!vars, FloorHolder, FloorPhase
  <2> QED
    BY <2>1, <2>2, <2>3, <2>4, <2>5, <2>6, StepEffect
<1> QED
  BY <1>1, <1>2, Invariance, PTL DEF Safety, AbstractFloor!Safety
=============================================================================
