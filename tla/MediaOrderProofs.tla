-------------------------- MODULE MediaOrderProofs --------------------------
(***************************************************************************)
(* Theorems about MediaOrder for every size of the sequence space and      *)
(* every length of the stream.  The engine keeps a remainder of the number *)
(* of the last frame; the properties are about the number itself.  Inv     *)
(* links the two and bounds how far the owner is ahead of the engine: that *)
(* bound, half the sequence space, is all that keeps the remainder         *)
(* unambiguous.                                                            *)
(***************************************************************************)
EXTENDS MediaOrder, TLAPS

\* The engine's record of the last frame it accepted.
FloorMatches ==
    eng.floor # NoFloor =>
        /\ eng.floor.owner = Owner /\ eng.floor.stream = Stream
        /\ eng.floor.started <=> last >= 0
        /\ eng.floor.hasPrior <=> last >= 0
        /\ last >= 0 => /\ eng.floor.prior = SequenceOf(last)
                        /\ eng.floor.timestamp = TimestampOf(last)

Counts ==
    /\ sent \in 0 .. MaxSent
    /\ last \in -1 .. sent - 1
    /\ sent - last <= Half + 1
    /\ frames \in Nat
    /\ eng.gaps = last + 1 - frames

\* The cache, the wire, the owner and the engine agree on the STREAM_END.
EndingAgrees ==
    /\ asked \in BOOLEAN
    /\ answer \in {"none", "ended", "invalid"}
    /\ replies \subseteq ({answer} \ {"none"}) \cup {"limit"}
    /\ told \in {"none", "ended", "timeout"}
    /\ told = "ended" => answer = "ended"
    /\ reason \in EndReasons \cup {"none"}
    /\ answer = "ended" => reason = "normal"
    /\ reason = "normal" => /\ last = sent - 1 /\ eng.floor = NoFloor
                            /\ answer # "invalid"
                            /\ answer = "none" => Owner \notin Live(eng)

Inv == eng \in EngineState /\ ~eng.draining /\ FloorMatches /\ Counts /\ EndingAgrees

-----------------------------------------------------------------------------
(* Arithmetic on sequence numbers.  The provers know little of % with a    *)
(* divisor that is not a number, so its meaning comes first.               *)

\* A remainder is in range, and differs from the number by a multiple.
LEMMA Quotient ==
    ASSUME NEW n \in Nat \ {0}, NEW a \in Nat
    PROVE  a % n \in 0 .. n - 1 /\ \E q \in Int : a % n = a - n * q
<1>1. a % n = a - n * (a \div n)
  BY SMTT(30)
<1>2. a \div n \in Int
  OBVIOUS
<1>3. a % n \in 0 .. n - 1
  OBVIOUS
<1> QED
  BY <1>1, <1>2, <1>3

\* Different multiples are at least the divisor apart.
LEMMA Multiples ==
    ASSUME NEW n \in Nat \ {0}, NEW p \in Int, NEW q \in Int, p >= q + 1
    PROVE  n * p >= n * q + n
  OBVIOUS

\* Two frames less than a sequence space apart differ in their sequence
\* numbers by as much, or have one wrap between them.
LEMMA OneWrap ==
    ASSUME NEW n \in Nat \ {0}, NEW a \in Nat, NEW b \in Nat, a <= b, b - a < n
    PROVE  \/ b % n = (a % n) + (b - a)
           \/ b % n = (a % n) + (b - a) - n
<1>1. PICK p \in Int : a % n = a - n * p
  BY Quotient
<1>2. PICK q \in Int : b % n = b - n * q
  BY Quotient
<1> DEFINE x == n * p
           y == n * q
           r == a % n
           s == b % n
<1>3. /\ x \in Int /\ y \in Int
      /\ r = a - x /\ s = b - y /\ r \in 0 .. n - 1 /\ s \in 0 .. n - 1
  BY <1>1, <1>2, Quotient
<1>4. p >= q + 1 => x >= y + n
  BY Multiples
<1>5. q >= p + 2 => y >= x + n + n
  <2>1. n * (p + 1) = x + n
    OBVIOUS
  <2>2. q >= p + 2 => y >= n * (p + 1) + n
    BY Multiples
  <2> QED
    BY <2>1, <2>2
<1>6. (q = p + 1 => y = x + n) /\ (q = p => x = y)
  OBVIOUS
<1>7. s = r + (b - a) \/ s = r + (b - a) - n
  <2> HIDE DEF x, y, r, s
  <2>1. ~(x >= y + n) /\ ~(y >= x + n + n)
    BY <1>3
  <2>2. q = p \/ q = p + 1
    BY <1>4, <1>5, <2>1
  <2> QED
    BY <1>3, <1>6, <2>2
<1> QED
  BY <1>7

\* The sequence number of the next frame is expected := prior + 1.
LEMMA SuccessorOf ==
    ASSUME NEW a \in Nat
    PROVE  Successor(a % SeqSpace) = (a + 1) % SeqSpace
<1>1. SeqSpace \in Nat \ {0} /\ SeqSpace >= 2
  BY HalfAssumption DEF SeqSpace
<1>2. a % SeqSpace \in 0 .. SeqSpace - 1 /\ (a + 1) % SeqSpace \in 0 .. SeqSpace - 1
  BY <1>1, Quotient
<1>3. \/ (a + 1) % SeqSpace = (a % SeqSpace) + 1
      \/ (a + 1) % SeqSpace = (a % SeqSpace) + 1 - SeqSpace
  <2>1. a + 1 \in Nat /\ a <= a + 1 /\ (a + 1) - a < SeqSpace /\ (a + 1) - a = 1
    BY <1>1
  <2> QED
    BY <1>1, <2>1, OneWrap
<1> QED
  BY <1>1, <1>2, <1>3 DEF Successor

\* Within half the sequence space of the frame that is expected, the wrapping
\* difference is the real one, and an older frame is half a space or more
\* ahead.
LEMMA DistanceOf ==
    ASSUME NEW a \in Nat, NEW b \in Nat, b - a < Half, a - b <= Half
    PROVE  Distance(a % SeqSpace, b % SeqSpace) = IF a <= b THEN b - a ELSE b - a + SeqSpace
<1>1. SeqSpace \in Nat \ {0} /\ SeqSpace = Half + Half /\ Half \in Nat \ {0}
  BY HalfAssumption DEF SeqSpace
<1>2. a % SeqSpace \in 0 .. SeqSpace - 1 /\ b % SeqSpace \in 0 .. SeqSpace - 1
  BY <1>1, Quotient
<1>3. CASE a <= b
  <2>1. \/ b % SeqSpace = (a % SeqSpace) + (b - a)
        \/ b % SeqSpace = (a % SeqSpace) + (b - a) - SeqSpace
    <3>1. b - a < SeqSpace
      BY <1>1
    <3> QED
      BY <1>1, <1>3, <3>1, OneWrap
  <2> QED
    BY <1>1, <1>2, <1>3, <2>1 DEF Distance
<1>4. CASE b < a
  <2>1. \/ a % SeqSpace = (b % SeqSpace) + (a - b)
        \/ a % SeqSpace = (b % SeqSpace) + (a - b) - SeqSpace
    <3>1. b <= a /\ a - b < SeqSpace
      BY <1>1, <1>4
    <3> QED
      BY <1>1, <3>1, OneWrap
  <2> QED
    BY <1>1, <1>2, <1>4, <2>1 DEF Distance
<1> QED
  BY <1>3, <1>4

\* Frames less than a sequence space apart have different sequence numbers.
LEMMA SequenceInjective ==
    ASSUME NEW a \in Nat, NEW b \in Nat, a <= b, b - a < SeqSpace,
           a % SeqSpace = b % SeqSpace
    PROVE  a = b
<1>1. SeqSpace \in Nat \ {0}
  BY HalfAssumption DEF SeqSpace
<1>2. a % SeqSpace \in 0 .. SeqSpace - 1
  BY <1>1, Quotient
<1>3. \/ b % SeqSpace = (a % SeqSpace) + (b - a)
      \/ b % SeqSpace = (a % SeqSpace) + (b - a) - SeqSpace
  BY <1>1, OneWrap
<1> QED
  BY <1>1, <1>2, <1>3

-----------------------------------------------------------------------------
(* What the operators of EngineOps return: EngineProofs, whose variables    *)
(* this module cannot extend, has most of these lemmas too.                *)

\* The sequence space is closed under prior + 1, as uint32 arithmetic is.
LEMMA SuccessorType ==
    ASSUME NEW s \in Sequences32
    PROVE  Successor(s) \in Sequences32
  BY HalfAssumption DEF Sequences32, SeqSpace, Successor

\* sequence - expected wraps into the sequence space.
LEMMA DistanceType ==
    ASSUME NEW s \in Sequences32, NEW t \in Sequences32
    PROVE  Distance(s, t) \in Nat
  BY HalfAssumption DEF Sequences32, SeqSpace, Distance

\* A frame skips a natural number of frames, so the gap counter only grows.
LEMMA SkippedType ==
    ASSUME NEW f \in FloorState, NEW s \in Sequences32
    PROVE  Skipped(f, s) \in Nat
  BY SuccessorType, DistanceType DEF Skipped, FloorState

\* Ageing stays in the range of a capped age.
LEMMA OlderType ==
    ASSUME NEW limit \in Nat, NEW a \in 0 .. limit + 1
    PROVE  Older(a, limit) \in 0 .. limit + 1
  BY DEF Older

\* Every field of a session survives a refresh of its activity time.
LEMMA RefreshType ==
    ASSUME NEW e \in EngineState, NEW id \in Live(e)
    PROVE  /\ Refresh(e, id) \in EngineState
           /\ Refresh(e, id).floor = e.floor
           /\ Refresh(e, id).draining = e.draining
           /\ Refresh(e, id).gaps = e.gaps
           /\ Live(Refresh(e, id)) = Live(e)
           /\ \A i \in Live(e) : Refresh(e, id).sessions[i].ready = e.sessions[i].ready
  BY LimitsAssumption, NilAssumption DEF Refresh, EngineState, Session, Live

\* A new session is one more live session and nothing else.
LEMMA AddSessionType ==
    ASSUME NEW e \in EngineState, NEW id \in Ids, id \notin Live(e),
           NEW a \in Addresses, NEW r \in BOOLEAN
    PROVE  /\ AddSession(e, id, a, r) \in EngineState
           /\ AddSession(e, id, a, r).floor = e.floor
           /\ AddSession(e, id, a, r).draining = e.draining
           /\ \A i \in Ids : IsReady(e, i) => IsReady(AddSession(e, id, a, r), i)
  BY LimitsAssumption, NilAssumption DEF AddSession, EngineState, Session, Live, IsReady

\* Confirming a session takes readiness from nobody.
LEMMA SetReadyType ==
    ASSUME NEW e \in EngineState, NEW id \in Live(e)
    PROVE  /\ SetReady(e, id) \in EngineState
           /\ SetReady(e, id).floor = e.floor
           /\ SetReady(e, id).draining = e.draining
           /\ SetReady(e, id).gaps = e.gaps
           /\ Live(SetReady(e, id)) = Live(e)
           /\ \A i \in Ids : IsReady(e, i) => IsReady(SetReady(e, id), i)
<1> DEFINE new == [address |-> e.sessions[id].address, ready |-> TRUE, idle |-> 0]
<1>1. SetReady(e, id) = [e EXCEPT !.sessions[id] = new]
  BY DEF SetReady
<1>2. new \in Session
  BY LimitsAssumption DEF EngineState, Session, Live
<1>3. new.ready = TRUE
  OBVIOUS
<1> HIDE DEF new
<1> QED
  BY <1>1, <1>2, <1>3, NilAssumption DEF EngineState, Live, IsReady

\* Touch refreshes a session or nothing.
LEMMA TouchType ==
    ASSUME NEW e \in EngineState, NEW id \in Ids, NEW a
    PROVE  /\ Touch(e, id, a) \in EngineState
           /\ Touch(e, id, a).floor = e.floor
           /\ Touch(e, id, a).draining = e.draining
           /\ Touch(e, id, a).gaps = e.gaps
           /\ Live(Touch(e, id, a)) = Live(e)
  BY RefreshType DEF Touch

\* Removing sessions keeps the others as they were.
LEMMA RemoveType ==
    ASSUME NEW e \in EngineState, NEW gone
    PROVE  /\ RemoveSessions(e, gone) \in EngineState
           /\ RemoveSessions(e, gone).floor = e.floor
           /\ RemoveSessions(e, gone).draining = e.draining
           /\ RemoveSessions(e, gone).gaps = e.gaps
           /\ \A i \in Ids \ gone : RemoveSessions(e, gone).sessions[i] = e.sessions[i]
           /\ \A i \in Ids : i \in gone => RemoveSessions(e, gone).sessions[i] = NoSession
           /\ Live(RemoveSessions(e, gone)) = Live(e) \ gone
  BY DEF RemoveSessions, EngineState, Live

\* Release empties the floor of its owner and touches nothing else.
LEMMA ReleaseType ==
    ASSUME NEW e \in EngineState, NEW id
    PROVE  /\ Release(e, id) \in EngineState
           /\ Release(e, id).sessions = e.sessions
           /\ Release(e, id).draining = e.draining
           /\ Release(e, id).gaps = e.gaps
           /\ Owns(e, id) => Release(e, id).floor = NoFloor
           /\ ~Owns(e, id) => Release(e, id).floor = e.floor
           /\ Live(Release(e, id)) = Live(e)
  BY DEF Release, EngineState, Live

\* A session that is removed takes its floor along.
LEMMA DisconnectType ==
    ASSUME NEW e \in EngineState, NEW id \in Ids
    PROVE  /\ Disconnect(e, id) \in EngineState
           /\ Disconnect(e, id).draining = e.draining
           /\ Disconnect(e, id).gaps = e.gaps
           /\ Owns(e, id) => Disconnect(e, id).floor = NoFloor
           /\ ~Owns(e, id) => Disconnect(e, id).floor = e.floor
           /\ Live(Disconnect(e, id)) = Live(e) \ {id}
<1> DEFINE r == RemoveSessions(e, {id})
<1>1. /\ r \in EngineState /\ r.floor = e.floor /\ r.draining = e.draining
      /\ r.gaps = e.gaps /\ Live(r) = Live(e) \ {id}
  BY RemoveType
<1>2. Disconnect(e, id) = Release(r, id) /\ (Owns(r, id) <=> Owns(e, id))
  BY <1>1 DEF Disconnect, Owns
<1> HIDE DEF r
<1> QED
  BY <1>1, <1>2, ReleaseType

\* A fresh grant is a well-formed floor.
LEMMA GrantedType ==
    ASSUME NEW id \in Ids, NEW s \in Streams
    PROVE  Granted(id, s) \in FloorState
  BY LimitsAssumption, HalfAssumption, TimestampsAssumption
     DEF Granted, FloorState, Sequences32, SeqSpace

\* An accepted frame leaves a well-formed, started floor of the same hold.
LEMMA MediaType ==
    ASSUME NEW e \in EngineState, NEW id \in Live(e), NEW s \in Sequences32,
           NEW ts \in Timestamps, e.floor # NoFloor
    PROVE  LET m == Media(e, id, s, ts)
           IN  /\ m \in EngineState
               /\ m.floor # NoFloor
               /\ m.floor.owner = e.floor.owner
               /\ m.floor.stream = e.floor.stream
               /\ m.floor.started /\ m.floor.hasPrior
               /\ m.floor.prior = s /\ m.floor.timestamp = ts
               /\ m.gaps = e.gaps + Skipped(e.floor, s)
               /\ m.draining = e.draining
               /\ \A i \in Ids : IsReady(e, i) => IsReady(m, i)
<1> DEFINE r == Refresh(e, id)
           f == [e.floor EXCEPT !.started = TRUE,
                                !.first = IF e.floor.started THEN @ ELSE 0,
                                !.last = 0, !.hasPrior = TRUE,
                                !.prior = s, !.timestamp = ts]
           g == e.gaps + Skipped(e.floor, s)
<1>1. e.floor \in FloorState
  BY DEF EngineState
<1>2. /\ f \in FloorState
      /\ f.owner = e.floor.owner /\ f.stream = e.floor.stream
      /\ f.started /\ f.hasPrior /\ f.prior = s /\ f.timestamp = ts
  <2> DEFINE first == IF e.floor.started THEN e.floor.first ELSE 0
  <2>1. first \in 0 .. TransmitTimeLimit + 1 /\ 0 \in 0 .. MediaTimeout + 1
    BY <1>1, LimitsAssumption DEF FloorState
  <2>2. f = [e.floor EXCEPT !.started = TRUE, !.first = first, !.last = 0,
                            !.hasPrior = TRUE, !.prior = s, !.timestamp = ts]
    BY <1>1 DEF FloorState
  <2> HIDE DEF first, f
  <2> QED
    BY <1>1, <2>1, <2>2 DEF FloorState
<1>3. g \in Nat
  BY <1>1, SkippedType DEF EngineState
<1>4. r \in EngineState /\ r.gaps = e.gaps /\ r.draining = e.draining
  BY RefreshType
<1>5. \A i \in Ids : IsReady(e, i) => IsReady(r, i)
  BY RefreshType DEF IsReady
<1>6. Media(e, id, s, ts) = [r EXCEPT !.gaps = g, !.floor = f]
  BY <1>4 DEF Media, EngineState
<1>7. g = e.gaps + Skipped(e.floor, s)
  OBVIOUS
<1> HIDE DEF r, f, g
<1>8. /\ Media(e, id, s, ts) \in EngineState
      /\ Media(e, id, s, ts).floor = f /\ Media(e, id, s, ts).gaps = g
      /\ Media(e, id, s, ts).draining = e.draining
      /\ Media(e, id, s, ts).sessions = r.sessions
  BY <1>2, <1>3, <1>4, <1>6 DEF EngineState
<1>9. f # NoFloor
  BY <1>2, NilAssumption
<1>10. \A i \in Ids : IsReady(e, i) => IsReady(Media(e, id, s, ts), i)
  BY <1>5, <1>8 DEF IsReady, Live
<1> QED
  BY <1>2, <1>7, <1>8, <1>9, <1>10

\* Time changes ages only.
LEMMA AgeType ==
    ASSUME NEW e \in EngineState
    PROVE  /\ Age(e) \in EngineState
           /\ Age(e).draining = e.draining /\ Age(e).gaps = e.gaps
           /\ Live(Age(e)) = Live(e)
           /\ e.floor = NoFloor => Age(e).floor = NoFloor
           /\ e.floor # NoFloor =>
                 /\ Age(e).floor # NoFloor
                 /\ Age(e).floor.owner = e.floor.owner
                 /\ Age(e).floor.stream = e.floor.stream
                 /\ Age(e).floor.started = e.floor.started
                 /\ Age(e).floor.hasPrior = e.floor.hasPrior
                 /\ Age(e).floor.prior = e.floor.prior
                 /\ Age(e).floor.timestamp = e.floor.timestamp
           /\ \A i \in Ids : IsReady(e, i) => IsReady(Age(e), i)
<1> DEFINE ss == [i \in Ids |->
                    IF e.sessions[i] = NoSession THEN NoSession
                    ELSE [e.sessions[i] EXCEPT !.idle = Older(@, SessionTimeout)]]
           f == Age(e).floor
<1>1. Age(e) = [e EXCEPT !.sessions = ss, !.floor = f]
  BY DEF Age, EngineState
<1>2. ASSUME NEW i \in Ids, e.sessions[i] # NoSession
      PROVE  ss[i] \in Session /\ ss[i].ready = e.sessions[i].ready
  BY <1>2, LimitsAssumption, OlderType DEF EngineState, Session
<1>3. ss \in [Ids -> Session \cup {NoSession}]
  BY <1>2
<1>4. Live(Age(e)) = Live(e)
  <2> HIDE DEF ss, f
  <2>1. \A i \in Ids : Age(e).sessions[i] = ss[i]
    BY <1>1, <1>3 DEF EngineState
  <2>2. \A i \in Ids : ss[i] = NoSession <=> e.sessions[i] = NoSession
    BY <1>2, NilAssumption DEF ss
  <2> QED
    BY <2>1, <2>2 DEF Live
<1>5. CASE e.floor = NoFloor
  <2>1. f = NoFloor
    BY <1>5 DEF Age, EngineState
  <2> HIDE DEF ss, f
  <2>2. \A i \in Ids : IsReady(e, i) => IsReady(Age(e), i)
    BY <1>1, <1>2, <1>3, NilAssumption DEF IsReady, Live, EngineState
  <2> QED
    BY <1>1, <1>3, <1>4, <1>5, <2>1, <2>2 DEF EngineState
<1>6. CASE e.floor # NoFloor
  <2>1. e.floor \in FloorState
    BY <1>6 DEF EngineState
  <2>2. f = IF e.floor.started
            THEN [e.floor EXCEPT !.first = Older(@, TransmitTimeLimit),
                                 !.last = Older(@, MediaTimeout)]
            ELSE [e.floor EXCEPT !.granted = Older(@, GrantTimeout)]
    BY <1>6 DEF Age, EngineState
  <2>3. /\ f \in FloorState
        /\ f.owner = e.floor.owner /\ f.stream = e.floor.stream
        /\ f.started = e.floor.started /\ f.hasPrior = e.floor.hasPrior
        /\ f.prior = e.floor.prior /\ f.timestamp = e.floor.timestamp
    <3> HIDE DEF f
    <3> QED
      BY <2>1, <2>2, LimitsAssumption, OlderType DEF FloorState
  <2> HIDE DEF ss, f
  <2>4. \A i \in Ids : IsReady(e, i) => IsReady(Age(e), i)
    BY <1>1, <1>2, <1>3, NilAssumption DEF IsReady, Live, EngineState
  <2> QED
    BY <1>1, <1>3, <1>4, <1>6, <2>3, <2>4, NilAssumption DEF EngineState
<1> QED
  BY <1>5, <1>6

\* Tick keeps the floor or empties it, and a release it reports is never
\* called normal.
LEMMA TickType ==
    ASSUME NEW e \in EngineState, NEW gone
    PROVE  /\ Tick(e, gone) \in EngineState
           /\ Tick(e, gone).draining = e.draining
           /\ Tick(e, gone).gaps = e.gaps
           /\ Live(Tick(e, gone)) \subseteq Live(e)
           /\ ~TickReleases(e, gone) => Tick(e, gone).floor = e.floor
           /\ TickReleases(e, gone) =>
                 /\ e.floor # NoFloor /\ Tick(e, gone).floor = NoFloor
                 /\ TickEnd(e, gone).reason \in EndReasons \ {"normal"}
<1> DEFINE r == RemoveSessions(e, gone)
<1>1. /\ r \in EngineState /\ r.floor = e.floor /\ r.draining = e.draining
      /\ r.gaps = e.gaps /\ Live(r) \subseteq Live(e)
  BY RemoveType
<1>2. CASE ~TickReleases(e, gone)
  BY <1>1, <1>2 DEF Tick
<1>3. CASE TickReleases(e, gone)
  <2>1. /\ e.floor # NoFloor /\ Owns(e, e.floor.owner) /\ Owns(r, e.floor.owner)
        /\ Tick(e, gone) = Release(r, e.floor.owner)
    BY <1>1, <1>3 DEF Tick, TickReleases, Owns
  <2>2. TickEnd(e, gone).reason \in EndReasons \ {"normal"}
    BY <1>3, <2>1 DEF TickEnd, ReleaseEnd, TimeoutReason, EndReasons
  <2> HIDE DEF r
  <2> QED
    BY <1>1, <1>3, <2>1, <2>2, ReleaseType
<1> QED
  BY <1>2, <1>3

-----------------------------------------------------------------------------
(* Lemmas.                                                                 *)

\* The session and the stream of the module are what their names say.
LEMMA OwnerType ==
    /\ Owner \in Ids
    /\ Address \in Addresses
    /\ Stream \in Streams /\ Stream # 0
  BY OwnerAssumption DEF Owner, Address, Stream

\* The header of a frame is in the range of its fields.
LEMMA HeaderType ==
    ASSUME NEW i \in Nat
    PROVE  SequenceOf(i) \in Sequences32 /\ TimestampOf(i) \in Timestamps
<1>1. SeqSpace \in Nat \ {0}
  BY HalfAssumption DEF SeqSpace
<1>2. i % SeqSpace \in 0 .. SeqSpace - 1
  BY <1>1, Quotient
<1> QED
  BY <1>2, TimestampsAssumption DEF SequenceOf, TimestampOf, Sequences32

\* A frame number below the sequence space is its own sequence number.
LEMMA FirstSpace ==
    ASSUME NEW i \in Nat, i <= Half
    PROVE  SequenceOf(i) = 0 => i = 0
<1>1. SeqSpace \in Nat \ {0} /\ SeqSpace > Half
  BY HalfAssumption DEF SeqSpace
<1>2. 0 % SeqSpace = 0
  BY <1>1
<1>3. i - 0 < SeqSpace
  BY <1>1, HalfAssumption
<1> QED
  BY <1>1, <1>2, <1>3, SequenceInjective DEF SequenceOf

\* The engine accepts a frame only if it is newer than the last one, and
\* counts exactly the frames in between.
LEMMA AcceptedIsNewer ==
    ASSUME Inv, NEW i \in 0 .. sent - 1, Deliver(i)
    PROVE  /\ i > last
           /\ last >= 0 => Skipped(eng.floor, SequenceOf(i)) = i - last - 1
           /\ last < 0 => i = 0 /\ Skipped(eng.floor, SequenceOf(i)) = 0
<1>1. /\ sent - i <= Half /\ eng.floor # NoFloor
      /\ InOrder(eng.floor, SequenceOf(i))
  BY DEF Deliver, MediaAccepted, OwnsStream, Owns
<1>2. /\ sent \in Nat /\ i \in Nat /\ i < sent /\ Half \in Nat /\ last \in Int
      /\ last >= -1 /\ last < sent /\ sent - last <= Half + 1
  BY HalfAssumption, MaxSentAssumption DEF Inv, Counts
<1>3. CASE last >= 0
  <2>1. last \in Nat /\ last + 1 \in Nat
    BY <1>2, <1>3
  <2>2. eng.floor.prior = last % SeqSpace /\ eng.floor.started /\ eng.floor.hasPrior
    BY <1>1, <1>3 DEF Inv, FloorMatches, SequenceOf
  <2>3. Skipped(eng.floor, SequenceOf(i)) = Distance((last + 1) % SeqSpace, i % SeqSpace)
    BY <2>1, <2>2, SuccessorOf DEF Skipped, SequenceOf
  <2>4. i - (last + 1) < Half /\ (last + 1) - i <= Half
    BY <1>1, <1>2
  <2>5. Distance((last + 1) % SeqSpace, i % SeqSpace)
          = IF last + 1 <= i THEN i - (last + 1) ELSE i - (last + 1) + SeqSpace
    BY <1>2, <2>1, <2>4, DistanceOf
  <2>6. Distance((last + 1) % SeqSpace, i % SeqSpace) < Half
    BY <1>1, <2>3 DEF InOrder
  <2>7. last + 1 <= i
    BY <1>2, <2>1, <2>4, <2>5, <2>6, HalfAssumption DEF SeqSpace
  <2> QED
    BY <1>2, <1>3, <2>3, <2>5, <2>7
<1>4. CASE last < 0
  <2>1. ~eng.floor.started /\ last = -1
    BY <1>1, <1>2, <1>4 DEF Inv, FloorMatches
  <2>2. SequenceOf(i) = 0
    BY <1>1, <2>1 DEF InOrder
  <2>3. i <= Half
    BY <1>2, <2>1
  <2>4. i = 0
    BY <1>2, <2>2, <2>3, FirstSpace
  <2> QED
    BY <2>1, <2>4 DEF Skipped
<1> QED
  BY <1>2, <1>3, <1>4

\* EndFloor's STREAM_END matches the engine's expectation exactly when the
\* final frame is the last one accepted.
LEMMA EndsWithFinalFrame ==
    ASSUME Inv
    PROVE  EndNeedsFinalFrame
<1> SUFFICES ASSUME eng.floor # NoFloor
             PROVE  Ends <=> last = sent - 1
  BY DEF EndNeedsFinalFrame
<1>1. /\ sent \in Nat /\ Half \in Nat \ {0} /\ last \in Int
      /\ last >= -1 /\ last < sent /\ sent - last <= Half + 1
  BY HalfAssumption, MaxSentAssumption DEF Inv, Counts
<1>2. OwnsStream(eng, Owner, Stream)
  BY DEF OwnsStream, Owns, Inv, FloorMatches
<1>3. CASE last >= 0
  <2>1. last \in Nat /\ last + 1 \in Nat
    BY <1>1, <1>3
  <2>2. /\ eng.floor.prior = last % SeqSpace /\ eng.floor.hasPrior
        /\ eng.floor.timestamp = TimestampOf(last)
    BY <1>3 DEF Inv, FloorMatches, SequenceOf
  <2>3. Ends <=> /\ sent % SeqSpace = (last + 1) % SeqSpace
                 /\ TimestampOf(sent - 1) = TimestampOf(last)
    BY <1>2, <2>1, <2>2, SuccessorOf DEF Ends, EndAccepted, SequenceOf
  <2>4. last + 1 <= sent /\ sent - (last + 1) < SeqSpace
    BY <1>1 DEF SeqSpace
  <2>5. sent % SeqSpace = (last + 1) % SeqSpace => sent = last + 1
    BY <1>1, <2>1, <2>4, SequenceInjective
  <2>6. sent = last + 1 <=> last = sent - 1
    BY <1>1
  <2> QED
    BY <2>3, <2>5, <2>6
<1>4. CASE last < 0
  <2>1. last = -1 /\ sent <= Half
    BY <1>1, <1>4
  <2>2. ~eng.floor.hasPrior
    BY <1>1, <1>4 DEF Inv, FloorMatches
  <2>3. Ends <=> SequenceOf(sent) = 0 /\ TimestampOf(sent - 1) = 0
    BY <1>2, <2>2 DEF Ends, EndAccepted
  <2>4. SequenceOf(0) = 0 /\ TimestampOf(0 - 1) = 0
    BY HalfAssumption DEF SequenceOf, TimestampOf, SeqSpace
  <2>5. SequenceOf(sent) = 0 => sent = 0
    BY <1>1, <2>1, FirstSpace
  <2> QED
    BY <1>1, <2>1, <2>3, <2>4, <2>5
<1> QED
  BY <1>1, <1>3, <1>4

-----------------------------------------------------------------------------
(* The invariant.                                                          *)

\* The floor of a new stream: granted, no frame yet.
LEMMA InitInv == Init => Inv
<1> SUFFICES ASSUME Init PROVE Inv
  OBVIOUS
<1> DEFINE e == AddSession(NewEngine, Owner, Address, TRUE)
           r == Refresh(e, Owner)
           g == Granted(Owner, Stream)
<1>1. NewEngine \in EngineState
  BY DEF NewEngine, EngineState
<1>2. /\ NewEngine.floor = NoFloor /\ ~NewEngine.draining /\ NewEngine.gaps = 0
      /\ Owner \notin Live(NewEngine)
  BY DEF NewEngine, Live
<1>3. e \in EngineState /\ e.floor = NoFloor /\ ~e.draining
  BY <1>1, <1>2, OwnerType, AddSessionType
<1>4. e.gaps = 0 /\ IsReady(e, Owner)
  <2> DEFINE new == [address |-> Address, ready |-> TRUE, idle |-> 0]
  <2>1. new \in Session /\ new.ready
    BY OwnerType, LimitsAssumption DEF Session
  <2>2. e = [NewEngine EXCEPT !.sessions[Owner] = new]
    BY DEF AddSession
  <2> HIDE DEF new, e
  <2> QED
    BY <1>1, <1>2, <2>1, <2>2, OwnerType, NilAssumption DEF EngineState, IsReady, Live
<1> HIDE DEF e
<1>5. r \in EngineState /\ ~r.draining /\ r.gaps = 0
  BY <1>3, <1>4, OwnerType, RefreshType DEF IsReady
<1>6. RequestFloor(e, Owner, Stream) = [r EXCEPT !.floor = g]
  <2>1. FloorResult(e, Owner, Stream) = "granted"
    BY <1>3, <1>4, OwnerType DEF FloorResult
  <2> QED
    BY <2>1 DEF RequestFloor
<1>7. g \in FloorState /\ g.owner = Owner /\ g.stream = Stream /\ ~g.started /\ ~g.hasPrior
  BY OwnerType, GrantedType DEF Granted
<1>8. eng = [r EXCEPT !.floor = g]
  BY <1>6 DEF Init, e
<1> HIDE DEF r, g
<1>9. /\ eng \in EngineState /\ ~eng.draining /\ eng.gaps = 0
      /\ eng.floor = g
  BY <1>5, <1>7, <1>8 DEF EngineState
<1>10. Counts
  <2>1. sent = 0 /\ last = -1 /\ frames = 0
    BY DEF Init
  <2> QED
    BY <1>9, <2>1, MaxSentAssumption, HalfAssumption DEF Counts
<1>11. FloorMatches
  <2>1. ~(last >= 0)
    BY DEF Init
  <2> QED
    BY <1>7, <1>9, <2>1 DEF FloorMatches
<1>12. EndingAgrees
  BY DEF Init, EndingAgrees
<1> QED
  BY <1>9, <1>10, <1>11, <1>12 DEF Inv

\* What is known of the STREAM_END survives a step that does not concern it:
\* no session and no floor comes back.
LEMMA EndingKept ==
    ASSUME Inv, UNCHANGED <<stream, ending, reason>>, Live(eng') \subseteq Live(eng),
           eng.floor = NoFloor => eng'.floor = NoFloor
    PROVE  EndingAgrees'
<1>1. UNCHANGED <<sent, last, asked, answer, replies, told, reason>>
  BY DEF stream, ending
<1> QED
  BY <1>1 DEF Inv, EndingAgrees

\* A step of the engine that keeps what it knows of the stream.
LEMMA QuietStep ==
    ASSUME Inv, NEW e \in EngineState, eng' = e, ~e.draining, e.gaps = eng.gaps,
           UNCHANGED stream, EndingAgrees',
           \/ e.floor = eng.floor
           \/ /\ eng.floor # NoFloor /\ e.floor # NoFloor
              /\ e.floor.owner = eng.floor.owner /\ e.floor.stream = eng.floor.stream
              /\ e.floor.started = eng.floor.started
              /\ e.floor.hasPrior = eng.floor.hasPrior
              /\ e.floor.prior = eng.floor.prior
              /\ e.floor.timestamp = eng.floor.timestamp
    PROVE  Inv'
<1>1. UNCHANGED <<sent, last, frames>>
  BY DEF stream
<1>2. FloorMatches'
  BY <1>1 DEF Inv, FloorMatches
<1>3. Counts'
  BY <1>1 DEF Inv, Counts
<1> QED
  BY <1>2, <1>3 DEF Inv

\* A step that leaves the floor empty.
LEMMA FreeStep ==
    ASSUME Inv, NEW e \in EngineState, eng' = e, ~e.draining, e.gaps = eng.gaps,
           UNCHANGED stream, EndingAgrees', e.floor = NoFloor
    PROVE  Inv'
<1>1. UNCHANGED <<sent, last, frames>>
  BY DEF stream
<1>2. FloorMatches' /\ Counts'
  BY <1>1 DEF Inv, FloorMatches, Counts
<1> QED
  BY <1>2 DEF Inv

\* A copy of STREAM_END that is applied ends the stream or is refused.
LEMMA EndStreamInv ==
    ASSUME Inv, EndStream
    PROVE  Inv'
<1>0. eng \in EngineState /\ ~eng.draining /\ Owner \in Ids
  BY OwnerType DEF Inv
<1>1. /\ answer = "none" /\ Owner \in Live(eng)
      /\ UNCHANGED <<stream, sent, last, frames, asked, told>>
  BY DEF EndStream, Undecided, stream
<1>2. CASE Ends
  <2>1. /\ eng.floor # NoFloor /\ Owns(eng, Owner)
    BY <1>2 DEF Ends, EndAccepted, OwnsStream, Owns
  <2>2. last = sent - 1
    BY <1>2, <2>1, EndsWithFinalFrame DEF EndNeedsFinalFrame
  <2> DEFINE e == Touch(Release(eng, Owner), Owner, Address)
  <2>3. /\ answer' = "ended" /\ reason' = "normal" /\ replies' = replies \cup {"ended"}
        /\ eng' = e
    BY <1>2 DEF EndStream, Remembered, Accepted
  <2>4. e \in EngineState /\ ~e.draining /\ e.gaps = eng.gaps /\ e.floor = NoFloor
    BY <1>0, <2>1, ReleaseType, TouchType
  <2> HIDE DEF e
  <2>5. EndingAgrees'
    BY <1>1, <2>2, <2>3, <2>4 DEF Inv, EndingAgrees, EndReasons
  <2> QED
    BY <1>1, <2>3, <2>4, <2>5, FreeStep
<1>3. CASE ~Ends
  <2>1. /\ answer' = "invalid" /\ reason' = reason /\ replies' = replies \cup {"invalid"}
        /\ eng' = eng
    BY <1>3 DEF EndStream, Remembered, Accepted
  <2>2. EndingAgrees'
    BY <1>1, <2>1 DEF Inv, EndingAgrees
  <2> QED
    BY <1>0, <1>1, <2>1, <2>2, QuietStep
<1> QED
  BY <1>2, <1>3

\* An answer that cannot be queued costs the session, and the floor with it;
\* a result it leaves behind is out of reach.
LEMMA UndeliveredInv ==
    ASSUME Inv, Undelivered
    PROVE  Inv'
<1> DEFINE e == Disconnect(eng, Owner)
<1>0. eng \in EngineState /\ ~eng.draining /\ Owner \in Ids
  BY OwnerType DEF Inv
<1>1. /\ eng' = e /\ Owner \in Live(eng)
      /\ UNCHANGED <<stream, sent, last, frames, asked, answer, replies, told>>
  BY DEF Undelivered, stream, ending
<1>2. /\ e \in EngineState /\ ~e.draining /\ e.gaps = eng.gaps
      /\ Live(e) = Live(eng) \ {Owner}
      /\ Owns(eng, Owner) => e.floor = NoFloor
      /\ ~Owns(eng, Owner) => e.floor = eng.floor
  BY <1>0, DisconnectType
<1>3. Owns(eng, Owner) <=> eng.floor # NoFloor
  BY DEF Inv, FloorMatches, Owns
<1>4. e.floor = NoFloor
  BY <1>2, <1>3
<1> HIDE DEF e
<1>5. CASE Undecided /\ Ends /\ reason' = "normal"
  <2>1. last = sent - 1 /\ answer = "none"
    BY <1>5, EndsWithFinalFrame
       DEF EndNeedsFinalFrame, Ends, EndAccepted, OwnsStream, Owns, Undecided
  <2>2. EndingAgrees'
    BY <1>1, <1>2, <1>4, <1>5, <2>1 DEF Inv, EndingAgrees, EndReasons
  <2> QED
    BY <1>1, <1>2, <1>4, <2>2, FreeStep
<1>6. CASE Owns(eng, Owner) /\ reason' = "owner_disconnect"
  <2>1. reason # "normal"
    BY <1>3, <1>6 DEF Inv, EndingAgrees
  <2>2. EndingAgrees'
    BY <1>1, <1>6, <2>1 DEF Inv, EndingAgrees, EndReasons
  <2> QED
    BY <1>1, <1>2, <1>4, <2>2, FreeStep
<1>7. CASE reason' = reason
  <2>1. EndingAgrees'
    BY <1>1, <1>2, <1>4, <1>7 DEF Inv, EndingAgrees
  <2> QED
    BY <1>1, <1>2, <1>4, <2>1, FreeStep
<1> QED
  BY <1>5, <1>6, <1>7 DEF Undelivered

\* An accepted frame becomes the last one.
LEMMA DeliverInv ==
    ASSUME Inv, NEW i \in 0 .. sent - 1, Deliver(i)
    PROVE  Inv'
<1> DEFINE m == Media(eng, Owner, SequenceOf(i), TimestampOf(i))
<1>1. /\ eng' = m /\ last' = i /\ frames' = frames + 1
      /\ UNCHANGED <<sent, asked, answer, replies, told, reason>>
  BY DEF Deliver, ending
<1>2. /\ sent - i <= Half /\ eng.floor # NoFloor /\ Owner \in Live(eng)
      /\ eng.floor.owner = Owner /\ eng.floor.stream = Stream
  BY DEF Deliver, MediaAccepted, OwnsStream, Owns
<1>3. sent \in Nat /\ i \in Nat /\ i < sent /\ sent <= MaxSent /\ last \in Int /\ last >= -1
  BY MaxSentAssumption DEF Inv, Counts
<1>4. /\ m \in EngineState /\ m.floor # NoFloor
      /\ m.floor.owner = Owner /\ m.floor.stream = Stream
      /\ m.floor.started /\ m.floor.hasPrior
      /\ m.floor.prior = SequenceOf(i) /\ m.floor.timestamp = TimestampOf(i)
      /\ m.gaps = eng.gaps + Skipped(eng.floor, SequenceOf(i))
      /\ ~m.draining
  BY <1>2, <1>3, HeaderType, MediaType DEF Inv
<1> HIDE DEF m
<1>5. FloorMatches'
  BY <1>1, <1>3, <1>4 DEF FloorMatches
<1>6. Counts'
  <2>1. eng.gaps = last + 1 - frames /\ frames \in Nat /\ eng.gaps \in Nat
    BY DEF Inv, Counts, EngineState
  <2>2. m.gaps = i + 1 - (frames + 1)
    <3>1. CASE last >= 0
      BY <1>3, <1>4, <2>1, <3>1, AcceptedIsNewer
    <3>2. CASE last < 0
      <4>1. last = -1 /\ i = 0 /\ m.gaps = eng.gaps + 0
        BY <1>3, <1>4, <3>2, AcceptedIsNewer
      <4> QED
        BY <2>1, <4>1
    <3> QED
      BY <1>3, <3>1, <3>2
  <2>3. sent - i <= Half + 1
    BY <1>2, <1>3, HalfAssumption
  <2> QED
    BY <1>1, <1>3, <2>1, <2>2, <2>3, MaxSentAssumption DEF Counts
<1>7. EndingAgrees'
  BY <1>1, <1>2 DEF Inv, EndingAgrees
<1> QED
  BY <1>1, <1>4, <1>5, <1>6, <1>7 DEF Inv

\* Every step keeps the invariant.
LEMMA NextInv == Inv /\ [Next]_vars => Inv'
<1> SUFFICES ASSUME Inv, [Next]_vars PROVE Inv'
  OBVIOUS
<1>0. eng \in EngineState /\ ~eng.draining
  BY DEF Inv
<1>1. CASE Send
  <2>1. /\ sent' = sent + 1 /\ sent < MaxSent /\ sent - last <= Half
        /\ eng.floor # NoFloor
        /\ UNCHANGED <<eng, last, frames, asked, answer, replies, told, reason>>
    BY <1>1 DEF Send, ending
  <2>2. FloorMatches' /\ EndingAgrees'
    BY <2>1 DEF Inv, FloorMatches, EndingAgrees
  <2>3. Counts'
    BY <2>1, MaxSentAssumption, HalfAssumption DEF Inv, Counts
  <2> QED
    BY <2>1, <2>2, <2>3 DEF Inv
<1>2. ASSUME NEW i \in 0 .. sent - 1, Deliver(i) PROVE Inv'
  BY <1>2, DeliverInv
<1>3. CASE Ask \/ Limited \/ Complete \/ GiveUp
  <2>1. UNCHANGED <<eng, stream, sent, last, answer, reason>>
    BY <1>3 DEF Ask, Limited, Complete, GiveUp, stream
  <2>2. EndingAgrees'
    <3>1. CASE Ask
      BY <2>1, <3>1 DEF Ask, Inv, EndingAgrees
    <3>2. CASE Limited
      BY <2>1, <3>2 DEF Limited, Inv, EndingAgrees
    <3>3. CASE Complete
      BY <2>1, <3>3 DEF Complete, Inv, EndingAgrees
    <3>4. CASE GiveUp
      BY <2>1, <3>4 DEF GiveUp, Inv, EndingAgrees
    <3> QED
      BY <1>3, <3>1, <3>2, <3>3, <3>4
  <2> QED
    BY <1>0, <2>1, <2>2, QuietStep
<1>4. CASE Replay
  <2>1. /\ UNCHANGED <<stream, sent, last, asked, answer, told, reason>>
        /\ answer # "none" /\ replies' = replies \cup {answer}
        /\ eng' = Accepted(eng, answer)
    BY <1>4 DEF Replay, stream
  <2>2. /\ eng' \in EngineState /\ ~eng'.draining /\ eng'.gaps = eng.gaps
        /\ eng'.floor = eng.floor /\ Live(eng') = Live(eng)
    BY <1>0, <2>1, OwnerType, TouchType DEF Accepted
  <2>3. EndingAgrees'
    BY <2>1, <2>2 DEF Inv, EndingAgrees
  <2> QED
    BY <2>1, <2>2, <2>3, QuietStep
<1>5. CASE EndStream \/ Undelivered
  BY <1>5, EndStreamInv, UndeliveredInv
<1>6. CASE Keepalive
  <2>1. EndingAgrees'
    BY <1>0, <1>6, SetReadyType, EndingKept DEF Keepalive
  <2> QED
    BY <1>0, <1>6, <2>1, SetReadyType, QuietStep DEF Keepalive
<1>7. CASE Timeout
  <2>1. PICK gone : /\ eng' = Tick(eng, gone)
                    /\ reason' = IF TickReleases(eng, gone) THEN TickEnd(eng, gone).reason
                                 ELSE reason
    BY <1>7 DEF Timeout
  <2>2. UNCHANGED <<stream, ending, sent, last, asked, answer, replies, told>>
    BY <1>7 DEF Timeout, stream, ending
  <2>3. CASE ~TickReleases(eng, gone)
    <3>1. EndingAgrees'
      BY <1>0, <2>1, <2>2, <2>3, TickType, EndingKept
    <3> QED
      BY <1>0, <2>1, <2>2, <2>3, <3>1, TickType, QuietStep
  <2>4. CASE TickReleases(eng, gone)
    <3>1. /\ eng' \in EngineState /\ ~eng'.draining /\ eng'.gaps = eng.gaps
          /\ eng.floor # NoFloor /\ eng'.floor = NoFloor
          /\ reason' \in EndReasons \ {"normal"}
      BY <1>0, <2>1, <2>4, TickType
    <3>2. EndingAgrees'
      BY <2>2, <3>1 DEF Inv, EndingAgrees
    <3> QED
      BY <2>2, <3>1, <3>2, FreeStep
  <2> QED
    BY <2>3, <2>4
<1>8. CASE Advance
  <2>1. EndingAgrees'
    BY <1>0, <1>8, AgeType, EndingKept DEF Advance
  <2> QED
    BY <1>0, <1>8, <2>1, AgeType, QuietStep DEF Advance
<1>9. CASE UNCHANGED vars
  <2>1. EndingAgrees'
    BY <1>9, EndingKept DEF vars
  <2> QED
    BY <1>0, <1>9, <2>1, QuietStep DEF vars
<1> QED
  BY <1>1, <1>2, <1>3, <1>4, <1>5, <1>6, <1>7, <1>8, <1>9 DEF Next

\* The inductive invariant holds throughout.
LEMMA Invariance == Spec => []Inv
  BY InitInv, NextInv, PTL DEF Spec

\* The gap counter of the engine is the number of frames that were lost or
\* came too late, for any sequence space and any length of the stream.
THEOREM GapCounting == Spec => []GapsAreLosses
<1>1. Inv => GapsAreLosses
  <2> SUFFICES ASSUME Inv PROVE GapsAreLosses
    OBVIOUS
  <2>1. /\ sent \in 0 .. MaxSent /\ last \in -1 .. MaxSent - 1 /\ frames \in 0 .. MaxSent
        /\ eng.gaps = last + 1 - frames
    BY MaxSentAssumption DEF Inv, Counts, EngineState
  <2>2. replies \subseteq {"ended", "invalid", "limit"}
    BY DEF Inv, EndingAgrees
  <2> QED
    BY <2>1, <2>2 DEF Inv, EndingAgrees, GapsAreLosses, TypeOK
<1> QED
  BY <1>1, Invariance, PTL

\* A STREAM_END is decided once, whatever copies a full cache or a full queue
\* turns away, and ends the stream exactly with the final frame.
THEOREM EndOutcome == Spec => []EndHasOneOutcome
<1>1. Inv => EndHasOneOutcome
  BY EndsWithFinalFrame DEF Inv, EndingAgrees, EndHasOneOutcome
<1> QED
  BY <1>1, Invariance, PTL

\* The engine forwards frames in the order they were sent and none twice.
THEOREM ForwardingOrder == Spec => ForwardedInOrder
<1>1. Inv /\ [Next]_vars => [frames' > frames => last' > last]_vars
  <2> SUFFICES ASSUME Inv, Next, frames' > frames PROVE last' > last
    OBVIOUS
  <2>1. frames \in Nat
    BY DEF Inv, Counts
  <2>2. frames' # frames
    BY <2>1
  <2>3. PICK i \in 0 .. sent - 1 : Deliver(i)
    BY <2>2 DEF Next, Send, Ask, EndStream, Limited, Replay, Undelivered, Complete,
                GiveUp, Keepalive, Timeout, Advance, stream
  <2> QED
    BY <2>3, AcceptedIsNewer DEF Deliver
<1> QED
  BY <1>1, Invariance, PTL DEF Spec, ForwardedInOrder
=============================================================================
