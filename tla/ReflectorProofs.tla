-------------------------- MODULE ReflectorProofs --------------------------
(***************************************************************************)
(* Theorems about Reflector for any number of sessions, addresses, pending *)
(* notifications, retries and failing enqueues.                            *)
(*                                                                         *)
(* A handler threads one record through its calls, so the argument is      *)
(* about records.  Good is what holds of the record between two handlers   *)
(* and, with exceptions for what the handler is about to make good, inside *)
(* one.  Whole(r, s) says what any sequence of calls may do to it (Frame,  *)
(* Pend) and what it owes when the stream ended on the way (Ended): these  *)
(* relations compose, so each call needs one lemma, each loop an invariant *)
(* that goes from round to round (LoopReaches), and each handler the       *)
(* composition of its calls.  Inv is Good of the stored state.             *)
(*                                                                         *)
(* Two conditions on the constants appear, because without them the code   *)
(* does not have the property: WelcomeSpares, a WELCOME that cannot be     *)
(* queued closes no other session of its address, and StartSpares, the     *)
(* same of a STREAM_START.                                                 *)
(***************************************************************************)
EXTENDS Reflector, TLAPS, FiniteSetTheorems

\* A set of numbers that is not empty has a least element.
LEMMA Least ==
    ASSUME NEW T \in SUBSET Nat, T # {}
    PROVE  \E x \in T : \A y \in T : x <= y
<1>1. PICK x \in T : \A y \in T : ~(<<y, x>> \in OpToRel(<, Nat))
  BY NatLessThanWellFounded, WFMin
<1>2. \A y \in T : ~(y < x)
  BY <1>1 DEF OpToRel
<1> QED
  BY <1>2

\* g is the function a loop of n rounds chooses.
Rounds(g, r, entries, body, n) ==
    g = [i \in 0 .. n |-> IF i = 0 THEN r ELSE body[entries[i]][g[i - 1]]]

\* The function that Loop chooses exists: the rounds before round i decide it.
LEMMA LoopRounds ==
    ASSUME NEW r, NEW entries, NEW body, NEW n \in Nat
    PROVE  \E g : Rounds(g, r, entries, body, n)
<1> SUFFICES \E g : g = [i \in 0 .. n |-> IF i = 0 THEN r ELSE body[entries[i]][g[i - 1]]]
  BY DEF Rounds
<1> DEFINE Ok(k) == \E g : g = [i \in 0 .. k |->
                                  IF i = 0 THEN r ELSE body[entries[i]][g[i - 1]]]
           T == {k \in Nat : ~Ok(k)}
<1>1. SUFFICES ASSUME T # {} PROVE FALSE
  OBVIOUS
<1>2. PICK m \in T : \A y \in T : m <= y
  <2> HIDE DEF T
  <2>1. T \in SUBSET Nat
    BY DEF T
  <2> QED
    BY <1>1, <2>1, Least
<1>3. Ok(0)
  <2> DEFINE g == [i \in 0 .. 0 |-> r]
  <2>1. g = [i \in 0 .. 0 |-> IF i = 0 THEN r ELSE body[entries[i]][g[i - 1]]]
    OBVIOUS
  <2> QED
    BY <2>1
<1>4. m # 0 /\ m - 1 \in Nat
  <2> HIDE DEF Ok
  <2>1. m \in Nat /\ ~Ok(m)
    BY <1>2
  <2> QED
    BY <1>3, <2>1
<1>5. Ok(m - 1)
  <2> HIDE DEF Ok
  <2> QED
    BY <1>2, <1>4
<1>6. PICK g : g = [i \in 0 .. m - 1 |-> IF i = 0 THEN r ELSE body[entries[i]][g[i - 1]]]
  BY <1>5
<1> DEFINE h == [i \in 0 .. m |-> IF i = m THEN body[entries[m]][g[m - 1]] ELSE g[i]]
<1>7. h = [i \in 0 .. m |-> IF i = 0 THEN r ELSE body[entries[i]][h[i - 1]]]
  <2>1. \A i \in 0 .. m : h[i] = IF i = 0 THEN r ELSE body[entries[i]][h[i - 1]]
    <3> TAKE i \in 0 .. m
    <3>1. CASE i = m
      BY <3>1, <1>4
    <3>2. CASE i # m
      <4>1. h[i] = g[i] /\ i \in 0 .. m - 1
        BY <3>2, <1>4, SMTT(30)
      <4>2. g[i] = IF i = 0 THEN r ELSE body[entries[i]][g[i - 1]]
        BY <1>6, <4>1, Zenon
      <4>3. i # 0 => h[i - 1] = g[i - 1]
        BY <3>2, <1>4, <4>1
      <4> QED
        BY <4>1, <4>2, <4>3
    <3> QED
      BY <3>1, <3>2
  <2> HIDE DEF h
  <2>2. h = [i \in 0 .. m |-> h[i]]
    BY DEF h
  <2> QED
    BY <2>1, <2>2
<1>8. Ok(m)
  <2> HIDE DEF h
  <2> QED
    BY <1>7
<1> QED
  BY <1>2, <1>8

\* A loop whose i-th round leads from good[i - 1] to good[i] ends in the last
\* of these sets: the induction over the entries, as a function of i.
LEMMA LoopReaches ==
    ASSUME NEW r, NEW S, NEW entries \in Seq(S), NEW body, NEW good,
           r \in good[0],
           \A i \in 1 .. Len(entries) : \A a \in good[i - 1] :
              body[entries[i]][a] \in good[i]
    PROVE  Loop(r, entries, body) \in good[Len(entries)]
<1> DEFINE n == Len(entries)
           after == CHOOSE g : g = [i \in 0 .. n |->
                                      IF i = 0 THEN r ELSE body[entries[i]][g[i - 1]]]
<1>1. n \in Nat
  BY SMTT(30)
<1>2. after = [i \in 0 .. n |-> IF i = 0 THEN r ELSE body[entries[i]][after[i - 1]]]
  <2>1. \E g : Rounds(g, r, entries, body, n)
    BY <1>1, LoopRounds
  <2> QED
    BY <2>1, Zenon DEF Rounds
<1>3. Loop(r, entries, body) = after[n]
  BY DEF Loop
<1> HIDE DEF after
<1>4. after[0] = r /\ \A i \in 1 .. n : after[i] = body[entries[i]][after[i - 1]]
  <2> HIDE DEF n
  <2>1. 0 \in 0 .. n /\ \A i \in 1 .. n : i \in 0 .. n /\ i # 0
    BY <1>1
  <2>2. \A i \in 0 .. n : after[i] = IF i = 0 THEN r ELSE body[entries[i]][after[i - 1]]
    BY <1>2, Zenon
  <2> QED
    BY <2>1, <2>2
<1> DEFINE T == {k \in 0 .. n : after[k] \notin good[k]}
<1>5. SUFFICES ASSUME T # {} PROVE FALSE
  BY <1>1, <1>3
<1>6. PICK m \in T : \A y \in T : m <= y
  <2> HIDE DEF T
  <2>1. T \in SUBSET Nat
    BY DEF T
  <2> QED
    BY <1>5, <2>1, Least
<1>7. m \in 1 .. n /\ m - 1 \in 0 .. n /\ after[m - 1] \in good[m - 1]
  <2>1. m # 0 /\ m \in 0 .. n /\ after[m] \notin good[m]
    BY <1>4, <1>6
  <2>2. m - 1 \in 0 .. n /\ m - 1 \notin T
    BY <1>1, <1>6, <2>1
  <2> QED
    BY <1>1, <2>1, <2>2
<1> HIDE DEF n
<1>8. after[m] \in good[m]
  BY <1>4, <1>7 DEF n
<1> QED
  BY <1>6, <1>8

-----------------------------------------------------------------------------
(* What a handler record is fit for.                                       *)

\* The pending map: one entry for each key, and no more than configured.
PendingFit(ns) ==
    /\ ns \subseteq Notification
    /\ IsFiniteSet(ns)
    /\ Cardinality(ns) <= MaxPendingNotifications
    /\ \A m, n \in ns : m.listener = n.listener /\ m.tx = n.tx => m = n

\* The types, and that the engine knows no session the peer table does not,
\* the owner of the floor among them.
Fit(r) ==
    /\ r \in Handler
    /\ PendingFit(r.pending)
    /\ \A n \in r.pending : n.kind = "DISCONNECT" => r.eng.draining
    /\ Live(r.eng) \subseteq Known(r)
    /\ r.eng.floor # NoFloor => r.eng.floor.owner \in Live(r.eng) /\ ~r.eng.draining

\* owner holds the floor of r with its stream.
Held(r, owner, stream) ==
    r.eng.floor # NoFloor /\ r.eng.floor.owner = owner /\ r.eng.floor.stream = stream

\* What no call after the first lines of a handler changes: sessions only go,
\* readiness and activity stay, the floor is kept or emptied, and nobody is
\* notified of a stream unless there is one.
Frame(r, s) ==
    /\ s.orders = r.orders /\ s.fails = r.fails
    /\ Known(s) \subseteq Known(r)
    /\ \A p \in Known(s) :
          /\ s.peers[p].address = r.peers[p].address
          /\ s.peers[p].ready = r.peers[p].ready
          /\ s.peers[p].idle = r.peers[p].idle
          /\ r.peers[p].notified => s.peers[p].notified
          /\ s.peers[p].notified =>
                r.peers[p].notified \/ (r.peers[p].ready /\ r.eng.floor # NoFloor)
    /\ \A p \in Ids :
          /\ s.eng.sessions[p] \in {r.eng.sessions[p], NoSession}
          /\ Drift = 0 /\ p \in Known(s) => s.eng.sessions[p] = r.eng.sessions[p]
    /\ s.eng.floor \in {r.eng.floor, NoFloor}
    /\ r.eng.draining => s.eng.draining
    /\ r.told \subseteq s.told
    /\ r.events \subseteq s.events
    /\ \A ev \in s.events : ev.type = "stream_granted" => ev \in r.events

\* A revoke stays for as long as its listener, and every start that is new
\* announces the stream that holds the floor of r.
Pend(r, s) ==
    /\ \A n \in r.pending :
          n.kind = "STREAM_REVOKE" /\ n.listener \in Known(s) => n \in s.pending
    /\ \A n \in s.pending :
          n.kind = "STREAM_START" => n \in r.pending \/ Held(r, n.owner, n.stream)

\* A revoke of the stream to p that is in s, with a key that r had not.
NewRevoke(r, s, p, owner, stream) ==
    \E n \in s.pending :
        /\ n.listener = p /\ n.kind = "STREAM_REVOKE"
        /\ n.owner = owner /\ n.stream = stream
        /\ \A m \in r.pending :
              m.listener = p /\ m.kind = "STREAM_REVOKE" => m.tx # n.tx

\* The stream_ended event of a release.
EndEvent(owner, stream, reason) ==
    [type |-> "stream_ended", session |-> owner, stream |-> stream, reason |-> reason]

\* What the end of the stream owes, if it came between r and s: no start is
\* left, the event is emitted, and whoever is still there is told.
Ended(r, s) ==
    r.eng.floor # NoFloor /\ s.eng.floor = NoFloor =>
        LET o == r.eng.floor.owner
            t == r.eng.floor.stream
        IN  /\ \A n \in s.pending : n.kind # "STREAM_START"
            /\ \E reason \in EndReasons : EndEvent(o, t, reason) \in s.events
            /\ \A p \in Known(s) \ {o} : s.peers[p].notified => NewRevoke(r, s, p, o, t)
            /\ o \in Known(s) =>
                  EndEvent(o, t, "normal") \in s.events \/ NewRevoke(r, s, o, o, t)

\* s came from r by calls of the handlers, an unannounced release allowed.
Calls(r, s) == Fit(s) /\ Frame(r, s) /\ Pend(r, s)

\* The same, with every release announced.
Whole(r, s) == Calls(r, s) /\ Ended(r, s)

\* Calls in a row change no more than each may.
LEMMA FrameTrans ==
    ASSUME NEW r, NEW s, NEW t, Frame(r, s), Frame(s, t)
    PROVE  Frame(r, t)
  BY DEF Frame

\* Revokes and starts are kept through calls in a row.
LEMMA PendTrans ==
    ASSUME NEW r, NEW s, NEW t, Frame(r, s), Frame(s, t), Pend(r, s), Pend(s, t)
    PROVE  Pend(r, t)
  BY DEF Frame, Pend, Held

\* A revoke with a fresh key has a key that is fresh to the earlier record, too.
LEMMA NewRevokeFrom ==
    ASSUME NEW r, NEW s, NEW t, Frame(r, s), Pend(r, s), Frame(s, t), 
           NEW p \in Known(t), NEW o, NEW st, NewRevoke(s, t, p, o, st)
    PROVE  NewRevoke(r, t, p, o, st)
  BY DEF Frame, Pend, NewRevoke

\* A revoke stays for the calls that follow.
LEMMA NewRevokeKept ==
    ASSUME NEW r, NEW s, NEW t, Pend(s, t), 
           NEW p \in Known(t), NEW o, NEW st, NewRevoke(r, s, p, o, st)
    PROVE  NewRevoke(r, t, p, o, st)
  BY DEF Pend, NewRevoke

\* A release is announced, whichever of two calls in a row caused it.
LEMMA EndedTrans ==
    ASSUME NEW r, NEW s, NEW t, Calls(r, s), Calls(s, t), Ended(r, s), Ended(s, t)
    PROVE  Ended(r, t)
<1> SUFFICES ASSUME r.eng.floor # NoFloor, t.eng.floor = NoFloor PROVE Ended(r, t)
  BY DEF Ended
<1> DEFINE o == r.eng.floor.owner
           st == r.eng.floor.stream
<1>0. /\ Frame(r, s) /\ Frame(s, t) /\ Pend(r, s) /\ Pend(s, t)
      /\ Known(t) \subseteq Known(s) /\ s.events \subseteq t.events
  BY DEF Calls, Frame
<1>1. CASE s.eng.floor = NoFloor
  <2>1. /\ \A n \in s.pending : n.kind # "STREAM_START"
        /\ \E reason \in EndReasons : EndEvent(o, st, reason) \in s.events
        /\ \A p \in Known(s) \ {o} : s.peers[p].notified => NewRevoke(r, s, p, o, st)
        /\ o \in Known(s) =>
                  EndEvent(o, st, "normal") \in s.events \/ NewRevoke(r, s, o, o, st)
    BY <1>1 DEF Ended
  <2>2. \A n \in t.pending : n.kind # "STREAM_START"
    BY <1>0, <1>1, <2>1 DEF Pend, Held
  <2>3. \A p \in Known(t) : NewRevoke(r, s, p, o, st) => NewRevoke(r, t, p, o, st)
    BY <1>0, NewRevokeKept
  <2>4. \A p \in Known(t) : t.peers[p].notified => s.peers[p].notified
    BY <1>0, <1>1 DEF Frame
  <2> QED
    BY <1>0, <2>1, <2>2, <2>3, <2>4 DEF Ended
<1>2. CASE s.eng.floor # NoFloor
  <2>1. s.eng.floor = r.eng.floor
    BY <1>0, <1>2 DEF Frame
  <2>2. /\ \A n \in t.pending : n.kind # "STREAM_START"
        /\ \E reason \in EndReasons : EndEvent(o, st, reason) \in t.events
        /\ \A p \in Known(t) \ {o} : t.peers[p].notified => NewRevoke(s, t, p, o, st)
        /\ o \in Known(t) =>
                  EndEvent(o, st, "normal") \in t.events \/ NewRevoke(s, t, o, o, st)
    BY <1>2, <2>1 DEF Ended
  <2>3. \A p \in Known(t) : NewRevoke(s, t, p, o, st) => NewRevoke(r, t, p, o, st)
    BY <1>0, NewRevokeFrom
  <2> QED
    BY <1>0, <2>2, <2>3 DEF Ended
<1> QED
  BY <1>1, <1>2

\* Calls compose.
LEMMA CallsTrans ==
    ASSUME NEW r, NEW s, NEW t, Calls(r, s), Calls(s, t)
    PROVE  Calls(r, t)
  BY FrameTrans, PendTrans DEF Calls

\* Calls that announce their releases compose.
LEMMA WholeTrans ==
    ASSUME NEW r, NEW s, NEW t, Whole(r, s), Whole(s, t)
    PROVE  Whole(r, t)
  BY CallsTrans, EndedTrans DEF Whole

-----------------------------------------------------------------------------
(* What the engine's calls do to the fields the state owner relies on.     *)

\* engine.Disconnect removes one session, and the floor with it if it is the
\* owner's.
LEMMA DisconnectType ==
    ASSUME NEW e \in EngineState, NEW id
    PROVE  /\ Disconnect(e, id) \in EngineState
           /\ \A i \in Ids : Disconnect(e, id).sessions[i] =
                                IF i = id THEN NoSession ELSE e.sessions[i]
           /\ Disconnect(e, id).floor = IF Owns(e, id) THEN NoFloor ELSE e.floor
           /\ Disconnect(e, id).draining = e.draining
<1> DEFINE r == RemoveSessions(e, {id})
<1>1. /\ r \in EngineState /\ r.floor = e.floor /\ r.draining = e.draining
      /\ \A i \in Ids : r.sessions[i] = IF i = id THEN NoSession ELSE e.sessions[i]
  BY DEF RemoveSessions, EngineState
<1>2. Disconnect(e, id) = IF Owns(e, id) THEN [r EXCEPT !.floor = NoFloor] ELSE r
  BY <1>1 DEF Disconnect, Release, Owns
<1> HIDE DEF r
<1> QED
  BY <1>1, <1>2 DEF EngineState

-----------------------------------------------------------------------------
(* The smallest steps of a handler.                                        *)

\* Calls that leave the floor alone end nothing.
LEMMA SameFloor ==
    ASSUME NEW r, NEW s, Calls(r, s), s.eng.floor = r.eng.floor
    PROVE  Whole(r, s)
  BY DEF Whole, Ended

\* An enqueue that is tried changes the count of the sends and nothing else.
LEMMA TriedWhole ==
    ASSUME NEW r, Fit(r)
    PROVE  /\ Whole(r, Tried(r))
           /\ Known(Tried(r)) = Known(r)
           /\ Tried(r).eng = r.eng /\ Tried(r).peers = r.peers /\ Tried(r).told = r.told
           /\ Tried(r).pending = r.pending
<1> DEFINE s == Tried(r)
<1>1. /\ s \in Handler /\ s.eng = r.eng /\ s.peers = r.peers /\ s.pending = r.pending
      /\ s.told = r.told /\ s.events = r.events /\ s.fails = r.fails /\ s.orders = r.orders
  BY DEF Tried, Fit, Handler
<1> HIDE DEF s
<1>2. Known(s) = Known(r)
  BY <1>1 DEF Known
<1>3. Fit(s)
  BY <1>1, <1>2 DEF Fit
<1> QED
  <2>1. Frame(r, s) /\ Pend(r, s)
    BY <1>1, <1>2 DEF Frame, Pend
  <2>2. Whole(r, s)
    BY <1>1, <1>3, <2>1, SameFloor DEF Calls
  <2> QED
    BY <1>1, <1>2, <2>2 DEF s

\* A range that begins uses up an order and nothing else.
LEMMA RangedWhole ==
    ASSUME NEW r, Fit(r)
    PROVE  /\ Whole(r, Ranged(r))
           /\ Known(Ranged(r)) = Known(r)
           /\ Ranged(r).eng = r.eng /\ Ranged(r).peers = r.peers
           /\ Ranged(r).pending = r.pending
<1> DEFINE s == Ranged(r)
<1>1. /\ s \in Handler /\ s.eng = r.eng /\ s.peers = r.peers /\ s.pending = r.pending
      /\ s.told = r.told /\ s.events = r.events /\ s.fails = r.fails /\ s.orders = r.orders
  BY DEF Ranged, Fit, Handler
<1> HIDE DEF s
<1>2. Known(s) = Known(r)
  BY <1>1 DEF Known
<1>3. Fit(s)
  BY <1>1, <1>2 DEF Fit
<1>4. Frame(r, s) /\ Pend(r, s)
  BY <1>1, <1>2 DEF Frame, Pend
<1>5. Whole(r, s)
  BY <1>1, <1>3, <1>4, SameFloor DEF Calls
<1> QED
  BY <1>1, <1>2, <1>5 DEF s

\* The order a range takes is one of the handler's.
LEMMA OrderType ==
    ASSUME NEW r \in Handler
    PROVE  /\ Order(r) \in Seq(Ids)
           /\ \E k \in 1 .. MaxRanges : Order(r) = r.orders[k]
<1> DEFINE k == IF r.ranges < MaxRanges THEN r.ranges + 1 ELSE MaxRanges
<1>1. MaxRanges \in Nat \ {0}
  BY EnvironmentAssumption
<1>2. r.ranges \in Nat /\ r.orders \in [1 .. MaxRanges -> Seq(Ids)]
  BY DEF Handler
<1>3. k \in 1 .. MaxRanges
  BY <1>1, <1>2
<1>4. Order(r) = r.orders[k]
  BY DEF Order
<1> QED
  BY <1>2, <1>3, <1>4

\* disconnectPeer, field by field.
LEMMA DisconnectPeerFields ==
    ASSUME NEW r, Fit(r), NEW p \in Known(r), NEW s, s = DisconnectPeer(r, p)
    PROVE  /\ s \in Handler
           /\ s.eng = Disconnect(r.eng, p)
           /\ s.peers = [r.peers EXCEPT ![p] = NoPeer]
           /\ s.events = r.events \cup {Disconnected(p)}
           /\ s.pending = r.pending /\ s.told = r.told /\ s.sends = r.sends
           /\ s.fails = r.fails /\ s.orders = r.orders
<1>1. r \in Handler /\ p \in Ids
  BY DEF Fit, Known
<1>2. Disconnect(r.eng, p) \in EngineState
  BY <1>1, DisconnectType DEF Handler
<1>3. Disconnected(p) \in Event
  BY <1>1 DEF Disconnected, Event
<1>4. s = [r EXCEPT !.eng = Disconnect(@, p), !.peers[p] = NoPeer,
                    !.events = @ \cup {Disconnected(p)}]
  BY DEF DisconnectPeer
<1> DEFINE e == Disconnect(r.eng, p)
           ps == [r.peers EXCEPT ![p] = NoPeer]
           evs == r.events \cup {Disconnected(p)}
<1>5. s = [r EXCEPT !.eng = e, !.peers = ps, !.events = evs]
  BY <1>1, <1>4 DEF Handler
<1>6. ps \in [Ids -> Peer \cup {NoPeer}] /\ evs \in SUBSET Event
  BY <1>1, <1>3 DEF Handler
<1> HIDE DEF e, ps, evs
<1>7. s \in Handler /\ s.eng = e /\ s.peers = ps /\ s.events = evs
  BY <1>1, <1>2, <1>5, <1>6 DEF Handler, e
<1> QED
  BY <1>1, <1>5, <1>7 DEF Handler, e, ps, evs

\* controlOverload where no stream is left to end, field by field.
LEMMA DropFields ==
    ASSUME NEW r, Fit(r), NEW p \in Known(r), NEW s, s = Drop(r, p)
    PROVE  /\ s \in Handler
           /\ s.eng = Disconnect(r.eng, p)
           /\ s.peers = [r.peers EXCEPT ![p] = NoPeer]
           /\ s.events = r.events \cup {Disconnected(p)}
           /\ s.pending = r.pending \ PendingOf(r, p) /\ s.told = r.told
           /\ s.fails = r.fails /\ s.orders = r.orders
<1>1. r \in Handler
  BY DEF Fit
<1> DEFINE g == DisconnectPeer(r, p)
<1>2. s = [g EXCEPT !.pending = @ \ PendingOf(r, p)]
  BY DEF Drop
<1>3. /\ g \in Handler
      /\ g.eng = Disconnect(r.eng, p)
      /\ g.peers = [r.peers EXCEPT ![p] = NoPeer]
      /\ g.events = r.events \cup {Disconnected(p)}
      /\ g.pending = r.pending /\ g.told = r.told
      /\ g.fails = r.fails /\ g.orders = r.orders
  BY DisconnectPeerFields
<1> HIDE DEF g
<1> QED
  BY <1>1, <1>2, <1>3 DEF Handler

\* Fewer notifications are no less fit.
LEMMA FewerFit ==
    ASSUME NEW ns, PendingFit(ns), NEW ms, ms \subseteq ns
    PROVE  PendingFit(ms)
<1>1. IsFiniteSet(ms) /\ Cardinality(ms) <= Cardinality(ns)
  BY FS_Subset DEF PendingFit
<1>2. Cardinality(ms) \in Nat /\ Cardinality(ns) \in Nat
  BY <1>1, FS_CardinalityType DEF PendingFit
<1> QED
  BY <1>1, <1>2, CapacityAssumption DEF PendingFit

\* A session that is closed, its notifications kept or not.
LEMMA ClosedCalls ==
    ASSUME NEW r, Fit(r), NEW p \in Known(r), NEW s, s \in Handler,
           s.eng = Disconnect(r.eng, p),
           s.peers = [r.peers EXCEPT ![p] = NoPeer],
           s.events = r.events \cup {Disconnected(p)},
           s.pending \subseteq r.pending, r.pending \ PendingOf(r, p) \subseteq s.pending,
           s.told = r.told, s.fails = r.fails, s.orders = r.orders
    PROVE  /\ Calls(r, s)
           /\ Known(s) = Known(r) \ {p}
           /\ s.eng.floor = IF Owns(r.eng, p) THEN NoFloor ELSE r.eng.floor
<1>1. /\ r.eng \in EngineState /\ r.peers \in [Ids -> Peer \cup {NoPeer}] /\ p \in Ids
      /\ Live(r.eng) \subseteq Known(r)
  BY DEF Fit, Handler, Known
<1>2. /\ \A i \in Ids : s.eng.sessions[i] = IF i = p THEN NoSession ELSE r.eng.sessions[i]
      /\ s.eng.floor = IF Owns(r.eng, p) THEN NoFloor ELSE r.eng.floor
      /\ s.eng.draining = r.eng.draining
  BY <1>1, DisconnectType
<1>3. /\ Known(s) = Known(r) \ {p}
      /\ \A q \in Known(s) : s.peers[q] = r.peers[q]
  BY <1>1 DEF Known
<1>4. Live(s.eng) = Live(r.eng) \ {p}
  BY <1>2 DEF Live
<1>5. PendingFit(s.pending)
  BY FewerFit DEF Fit
<1>6. Fit(s)
  <2>1. Live(s.eng) \subseteq Known(s)
    BY <1>1, <1>3, <1>4
  <2>2. s.eng.floor # NoFloor => s.eng.floor.owner \in Live(s.eng) /\ ~s.eng.draining
    BY <1>2, <1>4 DEF Fit, Owns
  <2>3. \A n \in s.pending : n.kind = "DISCONNECT" => s.eng.draining
    BY <1>2 DEF Fit
  <2> QED
    BY <1>5, <2>1, <2>2, <2>3 DEF Fit
<1>7. Frame(r, s)
  <2>1. \A ev \in s.events : ev.type = "stream_granted" => ev \in r.events
    BY DEF Disconnected
  <2> QED
    BY <1>2, <1>3, <2>1 DEF Frame
<1>8. Pend(r, s)
  BY <1>3 DEF Pend, PendingOf
<1> QED
  BY <1>2, <1>3, <1>6, <1>7, <1>8 DEF Calls

\* disconnectPeer takes one session, and the floor only from its owner.
LEMMA DisconnectPeerCalls ==
    ASSUME NEW r, Fit(r), NEW p \in Known(r), NEW s, s = DisconnectPeer(r, p)
    PROVE  /\ Calls(r, s)
           /\ Known(s) = Known(r) \ {p}
           /\ s.eng.floor = IF Owns(r.eng, p) THEN NoFloor ELSE r.eng.floor
<1>1. /\ s \in Handler
      /\ s.eng = Disconnect(r.eng, p)
      /\ s.peers = [r.peers EXCEPT ![p] = NoPeer]
      /\ s.events = r.events \cup {Disconnected(p)}
      /\ s.told = r.told /\ s.fails = r.fails /\ s.orders = r.orders
      /\ s.pending \subseteq r.pending /\ r.pending \ PendingOf(r, p) \subseteq s.pending
  BY DisconnectPeerFields
<1> QED
  BY <1>1, ClosedCalls

\* So does the drop of an overloaded session.
LEMMA DropCalls ==
    ASSUME NEW r, Fit(r), NEW p \in Known(r), NEW s, s = Drop(r, p)
    PROVE  /\ Calls(r, s)
           /\ Known(s) = Known(r) \ {p}
           /\ s.eng.floor = IF Owns(r.eng, p) THEN NoFloor ELSE r.eng.floor
<1>1. /\ s \in Handler
      /\ s.eng = Disconnect(r.eng, p)
      /\ s.peers = [r.peers EXCEPT ![p] = NoPeer]
      /\ s.events = r.events \cup {Disconnected(p)}
      /\ s.told = r.told /\ s.fails = r.fails /\ s.orders = r.orders
      /\ s.pending \subseteq r.pending /\ r.pending \ PendingOf(r, p) \subseteq s.pending
  BY DropFields
<1> QED
  BY <1>1, ClosedCalls

-----------------------------------------------------------------------------
(* Flags of a peer.                                                        *)

\* The entry of p in the peer table is replaced.
SetPeer(r, p, v) == [r EXCEPT !.peers[p] = v]

\* The other fields stay as they are.
LEMMA SetPeerFields ==
    ASSUME NEW r \in Handler, NEW p \in Ids, NEW v \in Peer
    PROVE  /\ SetPeer(r, p, v) \in Handler
           /\ SetPeer(r, p, v).peers = [r.peers EXCEPT ![p] = v]
           /\ SetPeer(r, p, v).eng = r.eng /\ SetPeer(r, p, v).pending = r.pending
           /\ SetPeer(r, p, v).told = r.told /\ SetPeer(r, p, v).events = r.events
           /\ SetPeer(r, p, v).fails = r.fails /\ SetPeer(r, p, v).orders = r.orders
           /\ SetPeer(r, p, v).sends = r.sends
<1> DEFINE ps == [r.peers EXCEPT ![p] = v]
<1>1. SetPeer(r, p, v) = [r EXCEPT !.peers = ps]
  BY DEF SetPeer, Handler
<1>2. ps \in [Ids -> Peer \cup {NoPeer}]
  BY DEF Handler
<1> HIDE DEF ps
<1>3. SetPeer(r, p, v) \in Handler /\ SetPeer(r, p, v).peers = ps
  BY <1>1, <1>2 DEF Handler
<1> QED
  BY <1>1, <1>3 DEF Handler, ps

\* Setting a flag of a peer is a call like the others, as long as it marks
\* only a confirmed session as notified, and only of a stream there is.
LEMMA FlagWhole ==
    ASSUME NEW r, Fit(r), NEW p \in Known(r), NEW v \in Peer,
           v.address = r.peers[p].address, v.ready = r.peers[p].ready,
           v.idle = r.peers[p].idle, r.peers[p].notified => v.notified,
           v.notified =>
              r.peers[p].notified \/ (r.peers[p].ready /\ r.eng.floor # NoFloor)
    PROVE  /\ Whole(r, SetPeer(r, p, v)) /\ Known(SetPeer(r, p, v)) = Known(r)
           /\ SetPeer(r, p, v).peers[p] = v /\ SetPeer(r, p, v).eng = r.eng
<1> DEFINE s == SetPeer(r, p, v)
<1>1. /\ r.eng \in EngineState /\ r.peers \in [Ids -> Peer \cup {NoPeer}] /\ p \in Ids
      /\ v # NoPeer /\ r \in Handler
  BY EnvironmentAssumption DEF Fit, Handler, Known
<1>2. /\ s \in Handler /\ s.peers = [r.peers EXCEPT ![p] = v]
      /\ s.eng = r.eng /\ s.pending = r.pending /\ s.told = r.told
      /\ s.events = r.events /\ s.fails = r.fails /\ s.orders = r.orders
  BY <1>1, SetPeerFields
<1> HIDE DEF s
<1>3. /\ Known(s) = Known(r)
      /\ s.peers[p] = v
      /\ \A q \in Known(s) \ {p} : s.peers[q] = r.peers[q]
  BY <1>1, <1>2 DEF Known
<1>4. Fit(s)
  BY <1>2, <1>3 DEF Fit
<1>5. Frame(r, s)
  BY <1>2, <1>3 DEF Frame
<1>6. Pend(r, s)
  BY <1>2 DEF Pend
<1>7. Whole(r, s)
  BY <1>2, <1>4, <1>5, <1>6, SameFloor DEF Calls
<1> QED
  BY <1>2, <1>3, <1>7 DEF s

-----------------------------------------------------------------------------
(* A notification is added.                                                *)

\* Below the limit of a client there is a key it has not in use.
LEMMA FreshTxType ==
    ASSUME NEW ns, IsFiniteSet(ns), ~(Cardinality(ns) >= MaxPendingPerClient)
    PROVE  /\ FreshTx(ns) \in 1 .. MaxPendingPerClient
           /\ \A n \in ns : n.tx # FreshTx(ns)
<1> DEFINE D == 1 .. MaxPendingPerClient
<1>1. SUFFICES ASSUME \A t \in D : \E n \in ns : n.tx = t PROVE FALSE
  BY DEF FreshTx
<1> DEFINE f == [t \in D |-> CHOOSE n \in ns : n.tx = t]
<1>2. \A t \in D : f[t] \in ns /\ f[t].tx = t
  BY <1>1
<1>3. f \in [D -> ns]
  BY <1>2
<1>4. f \in Injection(D, ns)
  <2> HIDE DEF f
  <2> QED
    BY <1>2, <1>3 DEF Injection, IsInjective
<1>5. MaxPendingPerClient \in Nat \ {0}
  BY CapacityAssumption
<1>6. Cardinality(D) = MaxPendingPerClient
  BY <1>5, FS_Interval
<1>7. Cardinality(D) <= Cardinality(ns)
  BY <1>4, FS_Injection
<1>8. Cardinality(ns) \in Nat
  BY FS_CardinalityType
<1> HIDE DEF D
<1> QED
  BY <1>5, <1>6, <1>7, <1>8

\* Below both limits the pending map has room for one more key.
LEMMA AddedFit ==
    ASSUME NEW ns, PendingFit(ns), NEW n \in Notification,
           ~(Cardinality(ns) >= MaxPendingNotifications),
           \A m \in ns : m.listener = n.listener => m.tx # n.tx
    PROVE  PendingFit(ns \cup {n})
<1>1. IsFiniteSet(ns) /\ Cardinality(ns) \in Nat
  BY FS_CardinalityType DEF PendingFit
<1>2. /\ IsFiniteSet(ns \cup {n})
      /\ \/ Cardinality(ns \cup {n}) = Cardinality(ns)
         \/ Cardinality(ns \cup {n}) = Cardinality(ns) + 1
  BY <1>1, FS_AddElement
<1>3. Cardinality(ns \cup {n}) <= MaxPendingNotifications
  BY <1>1, <1>2, CapacityAssumption
<1> QED
  BY <1>2, <1>3 DEF PendingFit

\* A notification that is added is the kind the handler asked for, and the
\* listener of a start the queue takes is in the history of those told.
LEMMA AddWhole ==
    ASSUME NEW r, Fit(r), NEW p \in Known(r), ~Crowded(r, p), NEW kind \in Kinds,
           NEW owner \in Ids, NEW stream \in Streams \cup {0},
           kind = "STREAM_START" => Held(r, owner, stream),
           kind = "DISCONNECT" => r.eng.draining,
           NEW s, s = AddNotification(r, p, kind, owner, stream)
    PROVE  /\ Whole(r, s) /\ Known(s) = Known(r) /\ s.eng = r.eng
           /\ kind = "STREAM_START" /\ QueueTakes(r) => p \in s.told
           /\ kind = "STREAM_REVOKE" => NewRevoke(r, s, p, owner, stream)
           /\ s.sends = r.sends /\ s.fails = r.fails
<1> DEFINE tx == FreshTx(PendingOf(r, p))
           n == [listener |-> p, kind |-> kind, tx |-> tx, owner |-> owner,
                 stream |-> stream, attempt |-> 1, due |-> RetryDelay[1]]
           v == [r.peers[p] EXCEPT !.receiving = (kind = "STREAM_START" \/ @)]
           P == r.pending \cup {n}
           T == IF kind = "STREAM_START" /\ QueueTakes(r) THEN r.told \cup {p} ELSE r.told
           ps == [r.peers EXCEPT ![p] = v]
<1>1. /\ r \in Handler /\ p \in Ids /\ r.peers[p] \in Peer
      /\ PendingFit(r.pending) /\ r.pending \subseteq Notification
      /\ r.peers \in [Ids -> Peer \cup {NoPeer}] /\ r.told \subseteq Ids
  BY DEF Fit, Known, Handler, PendingFit
<1>2. IsFiniteSet(PendingOf(r, p))
  BY <1>1, FS_Subset DEF PendingFit, PendingOf
<1>3. tx \in 1 .. MaxPendingPerClient /\ \A m \in PendingOf(r, p) : m.tx # tx
  BY <1>2, FreshTxType DEF Crowded
<1>4. s = [r EXCEPT !.pending = P, !.peers = ps, !.told = T]
  BY <1>1 DEF AddNotification, Handler
<1> HIDE DEF tx
<1>5. n \in Notification
  BY <1>1, <1>3, RetryAssumption DEF Notification
<1>6. /\ n.listener = p /\ n.tx = tx /\ n.kind = kind
      /\ n.owner = owner /\ n.stream = stream
  OBVIOUS
<1>7. \A m \in r.pending : m.listener = p => m.tx # n.tx
  BY <1>3, <1>6 DEF PendingOf
<1>8. v \in Peer /\ v # NoPeer
  BY <1>1, EnvironmentAssumption DEF Peer
<1>9. /\ v.address = r.peers[p].address /\ v.ready = r.peers[p].ready
      /\ v.idle = r.peers[p].idle /\ v.notified = r.peers[p].notified
  BY <1>1 DEF Peer
<1> HIDE DEF n, v
<1>10. PendingFit(P)
  BY <1>1, <1>5, <1>6, <1>7, AddedFit DEF Crowded
<1>11. P \in SUBSET Notification /\ ps \in [Ids -> Peer \cup {NoPeer}] /\ T \in SUBSET Ids
  BY <1>1, <1>5, <1>8
<1> HIDE DEF P, ps, T
<1>12. /\ s \in Handler /\ s.pending = P /\ s.peers = ps /\ s.told = T
       /\ s.eng = r.eng /\ s.events = r.events /\ s.fails = r.fails /\ s.orders = r.orders
       /\ s.sends = r.sends
  BY <1>1, <1>4, <1>11 DEF Handler
<1>13. /\ Known(s) = Known(r)
       /\ s.peers[p] = v
       /\ \A q \in Known(s) \ {p} : s.peers[q] = r.peers[q]
  BY <1>1, <1>8, <1>12 DEF Known, ps
<1>14. Fit(s)
  BY <1>6, <1>10, <1>12, <1>13 DEF Fit, P
<1>15. Frame(r, s)
  BY <1>9, <1>12, <1>13 DEF Frame, T
<1>16. Pend(r, s)
  BY <1>6, <1>12 DEF Pend, P
<1>17. Whole(r, s)
  BY <1>12, <1>14, <1>15, <1>16, SameFloor DEF Calls
<1>18. kind = "STREAM_REVOKE" => NewRevoke(r, s, p, owner, stream)
  BY <1>6, <1>7, <1>12, SMTT(30) DEF NewRevoke, P
<1> QED
  BY <1>12, <1>13, <1>17, <1>18 DEF T

-----------------------------------------------------------------------------
(* The stream has ended: the revokes.                                      *)

\* The session that a full queue costs its place is a known one.
LEMMA FirstSharing ==
    ASSUME NEW r, Fit(r), NEW a, Sharing(r, a) # {}
    PROVE  /\ Order(r)[Min(Sharing(r, a))] \in Known(r)
           /\ r.peers[Order(r)[Min(Sharing(r, a))]].address = a
<1>1. Order(r) \in Seq(Ids)
  BY OrderType DEF Fit
<1>2. Sharing(r, a) \in SUBSET Nat
  BY <1>1 DEF Sharing
<1>3. \E x \in Sharing(r, a) : \A y \in Sharing(r, a) : x <= y
  BY <1>2, Least
<1>4. Min(Sharing(r, a)) \in Sharing(r, a)
  BY <1>3 DEF Min
<1> QED
  BY <1>4 DEF Sharing

\* An enqueue with no stream to end: it succeeds or drops one session.
LEMMA SendDrop ==
    ASSUME NEW r, Fit(r), r.eng.floor = NoFloor, NEW a, NEW s, s = SendControl(r, a, Drop)
    PROVE  Whole(r, s) /\ s.eng.floor = NoFloor
<1>1. Whole(r, Tried(r)) /\ Tried(r).eng.floor = NoFloor /\ Known(Tried(r)) = Known(r)
  BY TriedWhole
<1>2. CASE QueueTakes(r) \/ Sharing(r, a) = {}
  BY <1>1, <1>2 DEF SendControl
<1>3. CASE ~(QueueTakes(r) \/ Sharing(r, a) = {})
  <2> DEFINE p == Order(r)[Min(Sharing(r, a))]
             u == Ranged(Tried(r))
  <2>1. s = Drop(u, p)
    BY <1>3 DEF SendControl
  <2>2. Fit(Tried(r))
    BY <1>1 DEF Whole, Calls
  <2>3. /\ Whole(Tried(r), u) /\ Known(u) = Known(r) /\ u.eng.floor = NoFloor
    BY <1>1, <2>2, RangedWhole
  <2>4. p \in Known(u) /\ Fit(u)
    BY <1>3, <2>3, FirstSharing DEF Whole, Calls
  <2> HIDE DEF p, u
  <2>5. Calls(u, s) /\ s.eng.floor = u.eng.floor
    BY <2>1, <2>3, <2>4, DropCalls DEF Owns
  <2> QED
    BY <1>1, <2>3, <2>5, SameFloor, WholeTrans
<1> QED
  BY <1>2, <1>3

\* After startNotification of a revoke the listener has it, or is gone.
LEMMA RevokeOne ==
    ASSUME NEW r, Fit(r), r.eng.floor = NoFloor, NEW p \in Known(r),
           NEW owner \in Ids, NEW stream \in Streams,
           NEW s, s = StartNotification(r, p, "STREAM_REVOKE", owner, stream, Drop)
    PROVE  /\ Whole(r, s) /\ s.eng.floor = NoFloor
           /\ p \in Known(s) => NewRevoke(r, s, p, owner, stream)
<1>1. CASE Crowded(r, p)
  <2>1. s = Drop(r, p)
    BY <1>1 DEF StartNotification
  <2>2. Calls(r, s) /\ Known(s) = Known(r) \ {p}
    BY <2>1, DropCalls
  <2>3. s.eng.floor = IF Owns(r.eng, p) THEN NoFloor ELSE r.eng.floor
    BY <2>1, DropCalls
  <2> QED
    BY <2>2, <2>3, SameFloor
<1>2. CASE ~Crowded(r, p)
  <2> DEFINE u == AddNotification(r, p, "STREAM_REVOKE", owner, stream)
  <2>1. s = SendControl(u, r.peers[p].address, Drop)
    BY <1>2 DEF StartNotification
  <2>2. /\ Whole(r, u) /\ Known(u) = Known(r) /\ u.eng = r.eng
        /\ NewRevoke(r, u, p, owner, stream)
    BY <1>2, AddWhole DEF Kinds
  <2> HIDE DEF u
  <2>3. Whole(u, s) /\ s.eng.floor = NoFloor
    BY <2>1, <2>2, SendDrop DEF Whole, Calls
  <2>4. Pend(u, s)
    BY <2>3 DEF Whole, Calls
  <2> QED
    BY <2>2, <2>3, <2>4, WholeTrans, NewRevokeKept
<1> QED
  BY <1>1, <1>2

\* Forwarding to a listener stops: a flag like any other.
LEMMA NotDeafWhole ==
    ASSUME NEW r, Fit(r), NEW p \in Known(r),
           NEW s, s = [r EXCEPT !.peers[p].receiving = FALSE]
    PROVE  Whole(r, s) /\ Known(s) = Known(r) /\ s.eng = r.eng
<1> DEFINE v == [r.peers[p] EXCEPT !.receiving = FALSE]
<1>1. r \in Handler /\ p \in Ids /\ r.peers[p] \in Peer
  BY DEF Fit, Known, Handler
<1>2. s = SetPeer(r, p, v)
  BY <1>1 DEF Handler, SetPeer
<1>3. /\ v \in Peer /\ v.address = r.peers[p].address /\ v.ready = r.peers[p].ready
      /\ v.idle = r.peers[p].idle /\ v.notified = r.peers[p].notified
  BY <1>1 DEF Peer
<1> HIDE DEF v
<1>4. /\ r.peers[p].notified => v.notified
      /\ v.notified =>
            r.peers[p].notified \/ (r.peers[p].ready /\ r.eng.floor # NoFloor)
  BY <1>3
<1>5. /\ Whole(r, SetPeer(r, p, v)) /\ Known(SetPeer(r, p, v)) = Known(r)
      /\ SetPeer(r, p, v).eng = r.eng
  BY <1>3, <1>4, FlagWhole, Zenon
<1> QED
  BY <1>2, <1>5

\* notifyEnd cancels the starts, emits the event and opens a revoke to
\* whoever it finds notified and is still there when it returns.
LEMMA NotifyEndCalls ==
    ASSUME NEW r, Fit(r), r.eng.floor = NoFloor, NEW se \in StreamEnd,
           NEW s, s = NotifyEnd(r, se)
    PROVE  /\ Calls(r, s) /\ s.eng.floor = NoFloor
           /\ \A n \in s.pending : n.kind # "STREAM_START"
           /\ StreamEnded(se) \in s.events
           /\ \E order \in {r.orders[k] : k \in 1 .. MaxRanges} :
                 \A i \in 1 .. Len(order) :
                    order[i] \in Known(s) /\ NeedsRevoke(r, order[i], se) =>
                       NewRevoke(r, s, order[i], se.session, se.stream)
<1> DEFINE N == CancelStarts(r.pending)
           evs == r.events \cup {StreamEnded(se)}
           w == [r EXCEPT !.events = evs, !.pending = N]
           u == Ranged(w)
           order == Order(w)
           Done(a, i) ==
             /\ Whole(u, a) /\ a.eng.floor = NoFloor
             /\ \A j \in 1 .. i :
                   order[j] \in Known(a) /\ NeedsRevoke(u, order[j], se) =>
                      NewRevoke(u, a, order[j], se.session, se.stream)
           good == [i \in 0 .. Len(order) |-> {a \in Handler : Done(a, i)}]
<1>0. /\ r \in Handler /\ r.pending \subseteq Notification
      /\ r.events \subseteq Event /\ PendingFit(r.pending)
  BY DEF Fit, Handler, PendingFit
<1>2. se.session \in Ids /\ se.stream \in Streams /\ se.reason \in EndReasons
  BY DEF StreamEnd
<1>3. s = Loop(u, order, RevokeEach(se))
  BY <1>0 DEF NotifyEnd, RangePeers, Handler
<1>4. N \subseteq r.pending /\ \A n \in N : n.kind # "STREAM_START"
  BY DEF CancelStarts
<1>5. StreamEnded(se) \in Event
  BY <1>2 DEF StreamEnded, Event
<1>6. /\ w \in Handler /\ w.orders = r.orders
      /\ u \in Handler /\ u.eng = r.eng /\ u.peers = r.peers /\ u.told = r.told
      /\ u.pending = N /\ u.events = evs /\ u.fails = r.fails /\ u.orders = r.orders
  <2>1. N \in SUBSET Notification /\ evs \in SUBSET Event
    BY <1>0, <1>4, <1>5
  <2> HIDE DEF N, evs
  <2>2. /\ w \in Handler /\ w.eng = r.eng /\ w.peers = r.peers /\ w.told = r.told
        /\ w.pending = N /\ w.events = evs /\ w.fails = r.fails /\ w.orders = r.orders
    BY <1>0, <2>1 DEF Handler
  <2> HIDE DEF w
  <2> QED
    BY <2>2 DEF Handler, Ranged
<1>1. /\ r \in Handler /\ r.pending \subseteq Notification
      /\ r.events \subseteq Event /\ PendingFit(r.pending)
      /\ order \in Seq(Ids) /\ order \in {r.orders[k] : k \in 1 .. MaxRanges}
  <2> HIDE DEF w
  <2> QED
    BY <1>0, <1>6, OrderType
<1> HIDE DEF order
<1>7. Calls(r, u) /\ Known(u) = Known(r)
  <2> HIDE DEF u
  <2>1. Known(u) = Known(r)
    BY <1>6 DEF Known
  <2>2. Fit(u)
    BY <1>1, <1>4, <1>6, <2>1, FewerFit DEF Fit
  <2>3. \A ev \in evs : ev.type = "stream_granted" => ev \in r.events
    BY DEF StreamEnded
  <2>4. Frame(r, u)
    BY <1>6, <2>1, <2>3 DEF Frame
  <2>5. Pend(r, u)
    BY <1>4, <1>6 DEF Pend, CancelStarts
  <2> QED
    BY <2>1, <2>2, <2>4, <2>5 DEF Calls
<1> HIDE DEF u
<1>8. u \in good[0]
  <2>1. Frame(u, u) /\ Pend(u, u) /\ Fit(u)
    BY <1>7 DEF Frame, Pend, Calls
  <2>2. Whole(u, u)
    BY <2>1, SameFloor DEF Calls
  <2>3. Done(u, 0)
    BY <1>6, <2>2
  <2> HIDE DEF Done
  <2> QED
    BY <1>1, <1>6, <2>3
<1>9. ASSUME NEW i \in 1 .. Len(order), NEW a \in good[i - 1]
      PROVE  RevokeEach(se)[order[i]][a] \in good[i]
  <2> DEFINE p == order[i]
             b == RevokeEach(se)[p][a]
  <2>1. i - 1 \in 0 .. Len(order) /\ i \in 0 .. Len(order) /\ p \in Ids
    BY <1>1
  <2>2. a \in Handler /\ Done(a, i - 1)
    BY <1>9, <2>1
  <2>3. b = IF p \in Known(a) /\ NeedsRevoke(a, p, se)
            THEN StartNotification([a EXCEPT !.peers[p].receiving = FALSE], p,
                                   "STREAM_REVOKE", se.session, se.stream, Drop)
            ELSE a
    BY <2>1, <2>2 DEF RevokeEach
  <2>4. Fit(a) /\ Frame(u, a) /\ Pend(u, a)
    BY <2>2 DEF Whole, Calls
  <2> HIDE DEF b
  <2>5. /\ Whole(a, b) /\ b.eng.floor = NoFloor
        /\ p \in Known(b) /\ NeedsRevoke(u, p, se) => NewRevoke(a, b, p, se.session, se.stream)
    <3>1. CASE p \in Known(a) /\ NeedsRevoke(a, p, se)
      <4> DEFINE c == [a EXCEPT !.peers[p].receiving = FALSE]
      <4>1. Whole(a, c) /\ Known(c) = Known(a) /\ c.eng = a.eng
        BY <2>4, <3>1, NotDeafWhole
      <4>2. b = StartNotification(c, p, "STREAM_REVOKE", se.session, se.stream, Drop)
        BY <2>3, <3>1
      <4> HIDE DEF c
      <4>3. Fit(c) /\ p \in Known(c) /\ c.eng.floor = NoFloor
        BY <2>2, <3>1, <4>1 DEF Whole, Calls
      <4>4. /\ Whole(c, b) /\ b.eng.floor = NoFloor
            /\ p \in Known(b) => NewRevoke(c, b, p, se.session, se.stream)
        BY <1>2, <4>2, <4>3, RevokeOne
      <4>5. Frame(a, c) /\ Pend(a, c) /\ Frame(c, b)
        BY <4>1, <4>4 DEF Whole, Calls
      <4>6. p \in Known(b) => NewRevoke(a, b, p, se.session, se.stream)
        BY <4>4, <4>5, NewRevokeFrom
      <4> QED
        BY <4>1, <4>4, <4>6, WholeTrans
    <3>2. CASE ~(p \in Known(a) /\ NeedsRevoke(a, p, se))
      <4>1. b = a
        BY <2>3, <3>2
      <4>2. Frame(a, a) /\ Pend(a, a)
        BY DEF Frame, Pend
      <4>3. Whole(a, b)
        BY <2>4, <4>1, <4>2, SameFloor DEF Calls
      <4>4. p \in Known(a) /\ NeedsRevoke(u, p, se) => NeedsRevoke(a, p, se)
        BY <2>4 DEF Frame, NeedsRevoke
      <4> QED
        BY <2>2, <3>2, <4>1, <4>3, <4>4
    <3> QED
      BY <3>1, <3>2
  <2>6. Whole(u, b) /\ b \in Handler
    BY <2>2, <2>5, WholeTrans DEF Whole, Calls, Fit
  <2>7. Frame(a, b) /\ Pend(a, b) /\ Known(b) \subseteq Known(a)
    BY <2>5 DEF Whole, Calls, Frame
  <2>8. ASSUME NEW j \in 1 .. i, order[j] \in Known(b), NeedsRevoke(u, order[j], se)
        PROVE  NewRevoke(u, b, order[j], se.session, se.stream)
    <3>1. CASE j = i
      BY <2>4, <2>5, <2>7, <2>8, <3>1, NewRevokeFrom
    <3>2. CASE j # i
      <4>1. j \in 1 .. i - 1
        BY <3>2
      <4>2. NewRevoke(u, a, order[j], se.session, se.stream)
        BY <2>2, <2>7, <2>8, <4>1
      <4> QED
        BY <2>7, <2>8, <4>2, NewRevokeKept
    <3> QED
      BY <3>1, <3>2
  <2>9. Done(b, i)
    BY <2>5, <2>6, <2>8
  <2> HIDE DEF Done
  <2> QED
    BY <2>1, <2>6, <2>9 DEF b
<1>10. s \in good[Len(order)]
  <2> HIDE DEF good
  <2> QED
    BY <1>1, <1>3, <1>8, <1>9, LoopReaches
<1>11. Done(s, Len(order))
  BY <1>1, <1>10
<1>12. Calls(r, s) /\ Calls(u, s)
  BY <1>7, <1>11, CallsTrans DEF Whole
<1>13. \A n \in s.pending : n.kind # "STREAM_START"
  BY <1>4, <1>6, <1>12 DEF Calls, Pend, Held
<1>14. StreamEnded(se) \in s.events
  BY <1>6, <1>12 DEF Calls, Frame
<1>15. ASSUME NEW i \in 1 .. Len(order), order[i] \in Known(s), NeedsRevoke(r, order[i], se)
       PROVE  NewRevoke(r, s, order[i], se.session, se.stream)
  <2>1. NeedsRevoke(u, order[i], se)
    BY <1>6, <1>15 DEF NeedsRevoke
  <2>2. NewRevoke(u, s, order[i], se.session, se.stream)
    BY <1>11, <1>15, <2>1
  <2> QED
    BY <1>7, <1>12, <1>15, <2>2, NewRevokeFrom DEF Calls
<1> QED
  BY <1>1, <1>11, <1>12, <1>13, <1>14, <1>15

-----------------------------------------------------------------------------
(* The release of the floor, and everything that ends with it.             *)

\* Every range visits every session the record knows.
Covered(r) ==
    \A order \in {r.orders[k] : k \in 1 .. MaxRanges} :
       \A p \in Known(r) : \E i \in 1 .. Len(order) : order[i] = p

\* It still does after calls that add none.
LEMMA CoveredKept ==
    ASSUME NEW r, NEW s, Frame(r, s), Covered(r)
    PROVE  Covered(s)
<1>1. s.orders = r.orders /\ Known(s) \subseteq Known(r)
  BY DEF Frame
<1> QED
  BY <1>1 DEF Covered

\* A release of the floor followed by notifyEnd owes nothing any more.
LEMMA EndWhole ==
    ASSUME NEW r, Covered(r), r.eng.floor # NoFloor,
           NEW u, Calls(r, u), u.eng.floor = NoFloor,
           NEW se \in StreamEnd, se.session = r.eng.floor.owner,
           se.stream = r.eng.floor.stream
    PROVE  Whole(r, NotifyEnd(u, se)) /\ NotifyEnd(u, se).eng.floor = NoFloor
<1> DEFINE o == r.eng.floor.owner
           t == r.eng.floor.stream
           s == NotifyEnd(u, se)
<1>1. Fit(u) /\ Frame(r, u) /\ Pend(r, u)
  BY DEF Calls
<1>2. /\ Calls(u, s) /\ s.eng.floor = NoFloor
      /\ \A n \in s.pending : n.kind # "STREAM_START"
      /\ StreamEnded(se) \in s.events
      /\ \E order \in {u.orders[k] : k \in 1 .. MaxRanges} :
            \A i \in 1 .. Len(order) :
               order[i] \in Known(s) /\ NeedsRevoke(u, order[i], se) =>
                  NewRevoke(u, s, order[i], o, t)
  BY <1>1, NotifyEndCalls
<1> HIDE DEF s
<1>3. Calls(r, s) /\ Frame(u, s) /\ Known(s) \subseteq Known(u) /\ Covered(u)
  BY <1>1, <1>2, CallsTrans, CoveredKept DEF Calls, Frame
<1>4. ASSUME NEW p \in Known(s), NeedsRevoke(u, p, se) PROVE NewRevoke(r, s, p, o, t)
  <2>1. PICK order \in {u.orders[k] : k \in 1 .. MaxRanges} :
           \A i \in 1 .. Len(order) :
              order[i] \in Known(s) /\ NeedsRevoke(u, order[i], se) =>
                 NewRevoke(u, s, order[i], o, t)
    BY <1>2
  <2>2. PICK i \in 1 .. Len(order) : order[i] = p
    BY <1>3, <2>1 DEF Covered
  <2>3. NewRevoke(u, s, p, o, t)
    BY <1>4, <2>1, <2>2
  <2> QED
    BY <1>1, <1>3, <2>3, NewRevokeFrom
<1>5. StreamEnded(se) = EndEvent(o, t, se.reason) /\ se.reason \in EndReasons
  BY DEF StreamEnded, EndEvent, StreamEnd
<1>6. \A p \in Known(s) \ {o} : s.peers[p].notified => NewRevoke(r, s, p, o, t)
  <2> SUFFICES ASSUME NEW p \in Known(s) \ {o}, s.peers[p].notified
               PROVE  NewRevoke(r, s, p, o, t)
    OBVIOUS
  <2>1. u.peers[p].notified
    BY <1>3 DEF Frame
  <2> QED
    BY <1>4, <2>1 DEF NeedsRevoke
<1>7. o \in Known(s) => EndEvent(o, t, "normal") \in s.events \/ NewRevoke(r, s, o, o, t)
  BY <1>2, <1>4, <1>5 DEF NeedsRevoke
<1>8. Ended(r, s)
  BY <1>2, <1>5, <1>6, <1>7 DEF Ended
<1> QED
  BY <1>2, <1>3, <1>8 DEF Whole, s

\* The sequence space is closed under prior + 1.
LEMMA SuccessorType ==
    ASSUME NEW s \in Sequences32
    PROVE  Successor(s) \in Sequences32
  BY HalfAssumption DEF Sequences32, SeqSpace, Successor

\* What releaseLocked returns names the hold of the owner, and is nil for
\* everybody else.
LEMMA ReleaseEndType ==
    ASSUME NEW e \in EngineState, NEW id \in Ids, NEW reason \in EndReasons
    PROVE  /\ Owns(e, id) => /\ ReleaseEnd(e, id, reason) \in StreamEnd
                             /\ ReleaseEnd(e, id, reason) # NoEnd
                             /\ ReleaseEnd(e, id, reason).session = e.floor.owner
                             /\ ReleaseEnd(e, id, reason).stream = e.floor.stream
           /\ ~Owns(e, id) => ReleaseEnd(e, id, reason) = NoEnd
<1>1. CASE Owns(e, id)
  <2>1. e.floor \in FloorState
    BY <1>1 DEF Owns, EngineState
  <2>2. Successor(e.floor.prior) \in Sequences32
    BY <2>1, SuccessorType DEF FloorState
  <2>3. 0 \in Sequences32
    BY HalfAssumption DEF Sequences32, SeqSpace
  <2>4. ReleaseEnd(e, id, reason) \in StreamEnd
    BY <1>1, <2>1, <2>2, <2>3, TimestampsAssumption DEF ReleaseEnd, StreamEnd, FloorState
  <2>5. /\ ReleaseEnd(e, id, reason).session = id
        /\ ReleaseEnd(e, id, reason).stream = e.floor.stream
    BY <1>1 DEF ReleaseEnd
  <2> QED
    BY <1>1, <2>4, <2>5, NilAssumption DEF Owns
<1>2. CASE ~Owns(e, id)
  BY <1>2 DEF ReleaseEnd
<1> QED
  BY <1>1, <1>2

\* A session closed with its stream announced, its notifications kept or not.
LEMMA AnnouncedWhole ==
    ASSUME NEW r, Fit(r), Covered(r), NEW p \in Known(r),
           NEW u, Calls(r, u), Known(u) = Known(r) \ {p},
           u.eng.floor = IF Owns(r.eng, p) THEN NoFloor ELSE r.eng.floor
    PROVE  /\ Whole(r, NotifyIfEnded(u, DisconnectEnd(r, p)))
           /\ p \notin Known(NotifyIfEnded(u, DisconnectEnd(r, p)))
<1> DEFINE se == DisconnectEnd(r, p)
           s == NotifyIfEnded(u, se)
<1>1. r.eng \in EngineState /\ p \in Ids /\ "owner_disconnect" \in EndReasons
  BY DEF Fit, Handler, Known, EndReasons
<1>2. se = ReleaseEnd(r.eng, p, "owner_disconnect")
  BY DEF DisconnectEnd
<1>3. Whole(r, s)
  <2>1. CASE Owns(r.eng, p)
    <3>1. /\ se \in StreamEnd /\ se # NoEnd
          /\ se.session = r.eng.floor.owner /\ se.stream = r.eng.floor.stream
      BY <1>1, <1>2, <2>1, ReleaseEndType
    <3>2. s = NotifyEnd(u, se) /\ r.eng.floor # NoFloor /\ u.eng.floor = NoFloor
      BY <2>1, <3>1 DEF NotifyIfEnded, Owns
    <3> HIDE DEF se, s
    <3>3. Whole(r, NotifyEnd(u, se))
      BY <3>1, <3>2, EndWhole
    <3> QED
      BY <3>2, <3>3
  <2>2. CASE ~Owns(r.eng, p)
    <3>1. se = NoEnd
      BY <1>1, <1>2, <2>2, ReleaseEndType
    <3>2. s = u
      BY <3>1 DEF NotifyIfEnded
    <3> HIDE DEF s
    <3> QED
      BY <2>2, <3>2, SameFloor
  <2> QED
    BY <2>1, <2>2
<1>4. Calls(u, s)
  <2>1. CASE se = NoEnd
    <3>1. s = u
      BY <2>1 DEF NotifyIfEnded
    <3> HIDE DEF s
    <3> QED
      BY <3>1 DEF Calls, Frame, Pend
  <2>2. CASE se # NoEnd
    <3>1. Owns(r.eng, p) /\ se \in StreamEnd
      BY <1>1, <1>2, <2>2, ReleaseEndType
    <3>2. s = NotifyEnd(u, se) /\ u.eng.floor = NoFloor /\ Fit(u)
      BY <2>2, <3>1 DEF NotifyIfEnded, Calls
    <3> HIDE DEF se
    <3> QED
      BY <3>1, <3>2, NotifyEndCalls
  <2> QED
    BY <2>1, <2>2
<1> HIDE DEF s
<1>5. Known(s) \subseteq Known(u)
  BY <1>4 DEF Calls, Frame
<1> QED
  BY <1>3, <1>5 DEF s

\* controlOverload closes its session and announces the stream it ends.
LEMMA ControlOverloadWhole ==
    ASSUME NEW r, Fit(r), Covered(r), NEW p \in Known(r)
    PROVE  Whole(r, ControlOverload(r, p)) /\ p \notin Known(ControlOverload(r, p))
  BY DropCalls, AnnouncedWhole DEF ControlOverload

\* So do the callers of disconnectPeer that look at its StreamEnd.
LEMMA CloseSessionWhole ==
    ASSUME NEW r, Fit(r), Covered(r), NEW p \in Ids
    PROVE  Whole(r, CloseSession(r, p)) /\ p \notin Known(CloseSession(r, p))
<1>1. CASE p \in Known(r)
  BY <1>1, DisconnectPeerCalls, AnnouncedWhole DEF CloseSession
<1>2. CASE p \notin Known(r)
  <2>1. CloseSession(r, p) = r
    BY <1>2 DEF CloseSession, DisconnectPeer, DisconnectEnd, NotifyIfEnded
  <2>2. Calls(r, r)
    BY DEF Calls, Frame, Pend
  <2> QED
    BY <1>2, <2>1, <2>2, SameFloor
<1> QED
  BY <1>1, <1>2

-----------------------------------------------------------------------------
(* Calls that may overload a session.  They cost an owner the floor only   *)
(* with its session.                                                       *)

\* If the floor was lost, its owner is gone.
OwnerGone(r, s) ==
    r.eng.floor # NoFloor /\ s.eng.floor = NoFloor => r.eng.floor.owner \notin Known(s)

\* Calls that announce their releases and release only with the owner.
Sent(r, s) == Whole(r, s) /\ OwnerGone(r, s)

\* Such calls compose.
LEMMA SentTrans ==
    ASSUME NEW r, NEW s, NEW t, Sent(r, s), Sent(s, t)
    PROVE  Sent(r, t)
<1>1. Frame(r, s) /\ Frame(s, t)
  BY DEF Sent, Whole, Calls
<1>2. OwnerGone(r, t)
  BY <1>1 DEF Sent, OwnerGone, Frame
<1> QED
  BY <1>2, WholeTrans DEF Sent

\* controlOverload is one of them.
LEMMA OverloadSent ==
    ASSUME NEW r, Fit(r), Covered(r), NEW p \in Known(r)
    PROVE  Sent(r, ControlOverload(r, p)) /\ p \notin Known(ControlOverload(r, p))
<1>1. Whole(r, ControlOverload(r, p)) /\ p \notin Known(ControlOverload(r, p))
  BY ControlOverloadWhole
<1>2. CASE Owns(r.eng, p)
  BY <1>1, <1>2 DEF Sent, OwnerGone, Owns
<1>3. CASE ~Owns(r.eng, p)
  <2>1. DisconnectEnd(r, p) = NoEnd
    BY <1>3 DEF DisconnectEnd, ReleaseEnd
  <2>2. ControlOverload(r, p) = Drop(r, p)
    BY <2>1 DEF ControlOverload, NotifyIfEnded
  <2>3. ControlOverload(r, p).eng.floor = r.eng.floor
    BY <1>3, <2>2, DropCalls
  <2> QED
    BY <1>1, <2>3 DEF Sent, OwnerGone
<1> QED
  BY <1>2, <1>3

\* An enqueue that is tried is, too.
LEMMA TriedSent ==
    ASSUME NEW r, Fit(r), Covered(r)
    PROVE  /\ Sent(r, Tried(r)) /\ Fit(Tried(r)) /\ Covered(Tried(r))
           /\ Known(Tried(r)) = Known(r)
<1>1. /\ Whole(r, Tried(r)) /\ Known(Tried(r)) = Known(r)
      /\ Tried(r).eng = r.eng
  BY TriedWhole
<1> QED
  BY <1>1, CoveredKept DEF Sent, OwnerGone, Whole, Calls

\* So is a range that begins.
LEMMA RangedSent ==
    ASSUME NEW r, Fit(r), Covered(r)
    PROVE  /\ Sent(r, Ranged(r)) /\ Fit(Ranged(r)) /\ Covered(Ranged(r))
           /\ Known(Ranged(r)) = Known(r)
<1>1. /\ Whole(r, Ranged(r)) /\ Known(Ranged(r)) = Known(r)
      /\ Ranged(r).eng = r.eng
  BY RangedWhole
<1> QED
  BY <1>1, CoveredKept DEF Sent, OwnerGone, Whole, Calls

\* No failing enqueue of a handler costs another session of the address its
\* place: none fails, or nobody shares an address.
Apart(r) ==
    \/ r.fails = {}
    \/ \A p, q \in Known(r) : r.peers[p].address = r.peers[q].address => p = q

\* It stays so.
LEMMA ApartKept ==
    ASSUME NEW r, NEW s, Frame(r, s), Apart(r)
    PROVE  Apart(s)
  BY DEF Apart, Frame

\* sendControl succeeds or overloads one session of the address, the one it
\* sends to if the sessions are apart.
LEMMA SendSent ==
    ASSUME NEW r, Fit(r), Covered(r), NEW a
    PROVE  /\ Sent(r, SendControl(r, a, ControlOverload))
           /\ Apart(r) =>
                 \A p \in Known(r) : r.peers[p].address = a =>
                    QueueTakes(r) \/ p \notin Known(SendControl(r, a, ControlOverload))
<1>1. /\ Sent(r, Tried(r)) /\ Fit(Tried(r)) /\ Covered(Tried(r))
      /\ Known(Tried(r)) = Known(r)
  BY TriedSent
<1>2. ASSUME NEW p \in Known(r), r.peers[p].address = a PROVE Sharing(r, a) # {}
  <2>1. PICK k \in 1 .. MaxRanges : Order(r) = r.orders[k]
    BY OrderType DEF Fit
  <2>2. PICK i \in 1 .. Len(Order(r)) : Order(r)[i] = p
    BY <2>1 DEF Covered
  <2>3. Order(r) \in Seq(Ids)
    BY OrderType DEF Fit
  <2>4. i \in DOMAIN Order(r)
    BY <2>2, <2>3
  <2> QED
    BY <1>2, <2>2, <2>4 DEF Sharing
<1>3. CASE QueueTakes(r) \/ Sharing(r, a) = {}
  <2>1. SendControl(r, a, ControlOverload) = Tried(r)
    BY <1>3 DEF SendControl
  <2> QED
    BY <1>1, <1>2, <1>3, <2>1
<1>4. CASE ~(QueueTakes(r) \/ Sharing(r, a) = {})
  <2> DEFINE q == Order(r)[Min(Sharing(r, a))]
             u == Ranged(Tried(r))
  <2>1. SendControl(r, a, ControlOverload) = ControlOverload(u, q)
    BY <1>4 DEF SendControl
  <2>2. /\ Sent(Tried(r), u) /\ Fit(u) /\ Covered(u)
        /\ Known(u) = Known(r)
    BY <1>1, RangedSent
  <2>3. q \in Known(r) /\ r.peers[q].address = a
    BY <1>4, FirstSharing
  <2> HIDE DEF q, u
  <2>4. Sent(u, ControlOverload(u, q)) /\ q \notin Known(ControlOverload(u, q))
    BY <2>2, <2>3, OverloadSent
  <2>5. Sent(r, ControlOverload(u, q))
    BY <1>1, <2>2, <2>4, SentTrans
  <2>6. ASSUME Apart(r), NEW p \in Known(r), r.peers[p].address = a PROVE p = q
    <3>1. r.fails # {}
      BY <1>4 DEF QueueTakes
    <3> QED
      BY <2>3, <2>6, <3>1 DEF Apart
  <2> QED
    BY <2>1, <2>4, <2>5, <2>6
<1> QED
  BY <1>3, <1>4

\* startNotification opens its transaction, or closes a session; after a
\* start the listener has been told or is gone, if the sessions are apart.
LEMMA StartSent ==
    ASSUME NEW r, Fit(r), Covered(r), NEW p \in Known(r), NEW kind \in Kinds,
           NEW owner \in Ids, NEW stream \in Streams \cup {0},
           kind = "STREAM_START" => Held(r, owner, stream),
           kind = "DISCONNECT" => r.eng.draining,
           NEW s, s = StartNotification(r, p, kind, owner, stream, ControlOverload)
    PROVE  /\ Sent(r, s)
           /\ kind = "STREAM_START" /\ Apart(r) => p \notin Known(s) \/ p \in s.told
<1>1. CASE Crowded(r, p)
  BY <1>1, OverloadSent DEF StartNotification
<1>2. CASE ~Crowded(r, p)
  <2> DEFINE u == AddNotification(r, p, kind, owner, stream)
  <2>1. s = SendControl(u, r.peers[p].address, ControlOverload)
    BY <1>2 DEF StartNotification
  <2>2. /\ Whole(r, u) /\ Known(u) = Known(r) /\ u.eng = r.eng
        /\ kind = "STREAM_START" /\ QueueTakes(r) => p \in u.told
        /\ u.sends = r.sends /\ u.fails = r.fails
    BY <1>2, AddWhole
  <2> HIDE DEF u
  <2>3. Sent(r, u) /\ Fit(u) /\ Covered(u) /\ Frame(r, u)
    BY <2>2, CoveredKept DEF Sent, OwnerGone, Whole, Calls
  <2>4. Sent(u, s)
    BY <2>1, <2>3, SendSent
  <2>5. u.told \subseteq s.told
    BY <2>4 DEF Sent, Whole, Calls, Frame
  <2>6. QueueTakes(r) <=> QueueTakes(u)
    BY <2>2 DEF QueueTakes
  <2>7. ASSUME Apart(r), ~QueueTakes(r) PROVE p \notin Known(s)
    <3>1. Apart(u) /\ p \in Known(u) /\ u.peers[p].address = r.peers[p].address
      BY <2>2, <2>3, <2>7, ApartKept DEF Frame
    <3> QED
      BY <2>1, <2>3, <2>6, <2>7, <3>1, SendSent
  <2> QED
    BY <2>2, <2>3, <2>4, <2>5, <2>7, SentTrans
<1> QED
  BY <1>1, <1>2

\* notifyStart of the stream that holds the floor tells the listener, if the
\* sessions are apart.
LEMMA NotifyStartSent ==
    ASSUME NEW r, Fit(r), Covered(r), NEW p \in Known(r), r.peers[p].ready,
           NEW owner, NEW stream, Held(r, owner, stream) \/ owner \notin Known(r),
           NEW s, s = NotifyStart(r, p, owner, stream)
    PROVE  /\ Sent(r, s)
           /\ owner \in Known(r) /\ Apart(r) => p \notin Known(s) \/ p \in s.told
<1>1. CASE owner \notin Known(r)
  <2>1. s = r
    BY <1>1 DEF NotifyStart
  <2>2. Whole(r, r)
    BY SameFloor DEF Calls, Frame, Pend
  <2> QED
    BY <1>1, <2>1, <2>2 DEF Sent, OwnerGone
<1>2. CASE owner \in Known(r)
  <2> DEFINE v == [r.peers[p] EXCEPT !.notified = TRUE]
             u == SetPeer(r, p, v)
  <2>1. r \in Handler /\ p \in Ids /\ r.peers[p] \in Peer /\ Held(r, owner, stream)
    BY <1>2 DEF Fit, Known, Handler
  <2>2. u = [r EXCEPT !.peers[p].notified = TRUE]
    BY <2>1 DEF Handler, SetPeer
  <2>3. /\ v \in Peer /\ v.address = r.peers[p].address /\ v.ready = r.peers[p].ready
        /\ v.idle = r.peers[p].idle /\ v.notified
    BY <2>1 DEF Peer
  <2>4. s = StartNotification(u, p, "STREAM_START", owner, stream, ControlOverload)
    BY <1>2, <2>2 DEF NotifyStart
  <2> HIDE DEF v
  <2>5. /\ Whole(r, SetPeer(r, p, v)) /\ Known(SetPeer(r, p, v)) = Known(r)
        /\ SetPeer(r, p, v).eng = r.eng
    <3>1. r.eng.floor # NoFloor
      BY <2>1 DEF Held
    <3> QED
      BY <2>3, <3>1, FlagWhole, Zenon
  <2> HIDE DEF u
  <2>6. Whole(r, u) /\ Known(u) = Known(r) /\ u.eng = r.eng
    BY <2>5 DEF u
  <2>7. /\ Sent(r, u) /\ Fit(u) /\ Covered(u) /\ Held(u, owner, stream)
        /\ Apart(r) => Apart(u)
    BY <2>1, <2>6, CoveredKept, ApartKept DEF Sent, OwnerGone, Whole, Calls, Held
  <2>8. r.eng.floor \in FloorState
    BY <2>1 DEF Held, Handler, EngineState
  <2>9. owner \in Ids /\ stream \in Streams
    BY <2>1, <2>8 DEF Held, FloorState
  <2>10. Sent(u, s) /\ (Apart(u) => p \notin Known(s) \/ p \in s.told)
    BY <2>4, <2>6, <2>7, <2>9, StartSent DEF Kinds
  <2> QED
    BY <2>7, <2>10, SentTrans
<1> QED
  BY <1>1, <1>2

-----------------------------------------------------------------------------
(* What holds of the record between two calls, and of the state between    *)
(* two handlers: off Y for what the listeners were told, off X for the     *)
(* ages, while a handler is on its way to make these good.                 *)

\* The two tables agree about every session of the engine, and with one
\* reading of the clock the peer table has no other.
Agree(r, X) ==
    /\ \A p \in Live(r.eng) :
          /\ r.peers[p].address = r.eng.sessions[p].address
          /\ r.peers[p].ready = r.eng.sessions[p].ready
          /\ p \notin X => r.peers[p].idle = r.eng.sessions[p].idle
    /\ Drift = 0 => Known(r) \subseteq Live(r.eng)

\* Who is confirmed in the engine is in the peer table, and only a confirmed
\* session is ever notified.
Readied(r) ==
    \A p \in Known(r) :
        /\ p \in Live(r.eng) /\ r.eng.sessions[p].ready => r.peers[p].ready
        /\ r.peers[p].notified => r.peers[p].ready

\* Every session came from an address it may have.
Homed(r) == \A p \in Known(r) : <<p, r.peers[p].address>> \in Homes

\* A START that cannot be queued closes one session of its address, not
\* always the one it is for: here no enqueue fails, or no two sessions share
\* an address.
StartSpares ==
    \/ \A f \in Fails : f = {}
    \/ \A g, h \in Homes : g[2] = h[2] => g[1] = h[1]

\* The queue has taken a start of the stream for every other confirmed session.
Told(r, Y) ==
    StartSpares /\ r.eng.floor # NoFloor =>
        \A p \in Known(r) \ Y :
            p # r.eng.floor.owner /\ r.peers[p].ready => p \in r.told

\* What holds whatever fails.
Sound(r, Y, X) ==
    /\ Fit(r)
    /\ IsFiniteSet(Known(r))
    /\ Agree(r, X)
    /\ Readied(r)
    /\ Homed(r)
    /\ r.fails \in Fails \cup {{}}
    /\ Told(r, Y)

\* Every pending start announces the stream that holds the floor.
StartsHeld(r) == \A n \in r.pending : n.kind = "STREAM_START" => Held(r, n.owner, n.stream)

\* A WELCOME that cannot be queued closes the sessions of its address, and
\* a stream one of them owned then ends unannounced: here no enqueue of a
\* WELCOME fails, or no two sessions share an address.
WelcomeSpares ==
    \/ \A f \in Fails : 1 \notin f
    \/ \A g, h \in Homes : g[2] = h[2] => g[1] = h[1]

\* Sessions are apart where StartSpares says so.
LEMMA SparesApart ==
    ASSUME NEW r, NEW Y, NEW X, Sound(r, Y, X), StartSpares
    PROVE  Apart(r)
<1>1. CASE \A f \in Fails : f = {}
  BY <1>1 DEF Sound, Apart
<1>2. CASE \A g, h \in Homes : g[2] = h[2] => g[1] = h[1]
  <2> SUFFICES ASSUME NEW p \in Known(r), NEW q \in Known(r),
                      r.peers[p].address = r.peers[q].address
               PROVE  p = q
    BY DEF Apart
  <2>1. <<p, r.peers[p].address>> \in Homes /\ <<q, r.peers[q].address>> \in Homes
    BY DEF Sound, Homed
  <2> QED
    BY <1>2, <2>1
<1> QED
  BY <1>1, <1>2 DEF StartSpares

\* What holds between two calls of a handler.
Good(r, Y, X) == Sound(r, Y, X) /\ (WelcomeSpares => StartsHeld(r))

\* It survives the calls.
LEMMA SoundKept ==
    ASSUME NEW r, NEW s, NEW Y, NEW X, Sound(r, Y, X), Fit(s), Frame(r, s)
    PROVE  Sound(s, Y, X)
<1>1. Fit(s) /\ Fit(r) /\ Frame(r, s) /\ Known(s) \subseteq Known(r)
  BY DEF Sound, Frame
<1>2. IsFiniteSet(Known(s))
  BY <1>1, FS_Subset DEF Sound
<1>3. Known(r) \subseteq Ids /\ Known(s) \subseteq Ids
  BY DEF Known
<1>4. Agree(s, X)
  <2>1. ASSUME NEW p \in Live(s.eng)
        PROVE  /\ s.peers[p].address = s.eng.sessions[p].address
               /\ s.peers[p].ready = s.eng.sessions[p].ready
               /\ p \notin X => s.peers[p].idle = s.eng.sessions[p].idle
    <3>1. p \in Known(s) /\ p \in Ids /\ s.eng.sessions[p] # NoSession
      BY <1>1, <1>3 DEF Fit, Live
    <3>2. s.eng.sessions[p] = r.eng.sessions[p] /\ p \in Live(r.eng)
      BY <1>1, <3>1 DEF Frame, Live
    <3>3. /\ s.peers[p].address = r.peers[p].address
          /\ s.peers[p].ready = r.peers[p].ready
          /\ s.peers[p].idle = r.peers[p].idle
      BY <1>1, <3>1 DEF Frame
    <3> QED
      BY <3>2, <3>3 DEF Sound, Agree
  <2>2. ASSUME Drift = 0 PROVE Known(s) \subseteq Live(s.eng)
    <3>1. \A p \in Known(s) : s.eng.sessions[p] = r.eng.sessions[p]
      BY <1>1, <1>3, <2>2 DEF Frame
    <3>2. Known(r) \subseteq Live(r.eng)
      BY <2>2 DEF Sound, Agree
    <3> QED
      BY <1>1, <1>3, <3>1, <3>2 DEF Live
  <2> QED
    BY <2>1, <2>2 DEF Agree
<1>5. Readied(s)
  <2> SUFFICES ASSUME NEW p \in Known(s)
               PROVE  /\ p \in Live(s.eng) /\ s.eng.sessions[p].ready => s.peers[p].ready
                      /\ s.peers[p].notified => s.peers[p].ready
    BY DEF Readied
  <2>1. /\ s.peers[p].ready = r.peers[p].ready
        /\ s.peers[p].notified => r.peers[p].notified \/ r.peers[p].ready
        /\ s.eng.sessions[p] \in {r.eng.sessions[p], NoSession}
    BY <1>1, <1>3 DEF Frame
  <2>2. /\ p \in Live(r.eng) /\ r.eng.sessions[p].ready => r.peers[p].ready
        /\ r.peers[p].notified => r.peers[p].ready
    BY <1>1 DEF Sound, Readied
  <2>3. p \in Live(s.eng) => p \in Live(r.eng) /\ s.eng.sessions[p] = r.eng.sessions[p]
    BY <2>1 DEF Live
  <2> QED
    BY <2>1, <2>2, <2>3
<1>6. Homed(s)
  BY <1>1 DEF Homed, Sound, Frame
<1>7. Told(s, Y)
  BY <1>1 DEF Told, Sound, Frame
<1>8. s.fails \in Fails \cup {{}}
  BY <1>1 DEF Sound, Frame
<1> QED
  BY <1>1, <1>2, <1>4, <1>5, <1>6, <1>7, <1>8 DEF Sound

\* A start stays current through calls that announce their releases.
LEMMA StartsKept ==
    ASSUME NEW r, NEW s, StartsHeld(r), Whole(r, s)
    PROVE  StartsHeld(s)
<1>1. Frame(r, s) /\ Pend(r, s) /\ Ended(r, s)
  BY DEF Whole, Calls
<1>2. SUFFICES ASSUME NEW n \in s.pending, n.kind = "STREAM_START"
               PROVE  Held(s, n.owner, n.stream)
  BY DEF StartsHeld
<1>3. Held(r, n.owner, n.stream)
  BY <1>1, <1>2 DEF Pend, StartsHeld
<1>4. s.eng.floor # NoFloor
  BY <1>1, <1>2, <1>3 DEF Ended, Held
<1> QED
  BY <1>1, <1>3, <1>4 DEF Held, Frame

\* Both survive calls that announce their releases.
LEMMA GoodKept ==
    ASSUME NEW r, NEW s, NEW Y, NEW X, Good(r, Y, X), Whole(r, s)
    PROVE  Good(s, Y, X)
  BY SoundKept, StartsKept DEF Good, Whole, Calls

\* The exceptions are made good.
LEMMA MadeGood ==
    ASSUME NEW r, NEW Y, NEW X, Good(r, Y, X),
           StartSpares =>
              \A p \in Y \cap Known(r) :
                 r.eng.floor # NoFloor /\ p # r.eng.floor.owner /\ r.peers[p].ready =>
                    p \in r.told,
           \A p \in X \cap Live(r.eng) : r.peers[p].idle = r.eng.sessions[p].idle
    PROVE  Good(r, {}, {})
<1>1. Told(r, {})
  BY DEF Good, Sound, Told
<1>2. Agree(r, {})
  BY DEF Good, Sound, Agree
<1> QED
  BY <1>1, <1>2 DEF Good, Sound

\* The same owner with the same stream, or no floor in both.
SameHold(e, f) ==
    /\ e.floor = NoFloor <=> f.floor = NoFloor
    /\ e.floor # NoFloor => f.floor.owner = e.floor.owner /\ f.floor.stream = e.floor.stream

\* The same sessions and the same hold: only ages, flags and notifications
\* have changed.
LEMMA Reworked ==
    ASSUME NEW r, NEW Y, NEW X, Good(r, Y, X), NEW s \in Handler, NEW Z,
           PendingFit(s.pending),
           \A n \in s.pending : \E m \in r.pending :
              n.kind = m.kind /\ n.owner = m.owner /\ n.stream = m.stream,
           s.told = r.told, s.fails = r.fails, Known(s) = Known(r), SameHold(r.eng, s.eng),
           s.eng.draining = r.eng.draining,
           \A p \in Ids : s.eng.sessions[p] = NoSession <=> r.eng.sessions[p] = NoSession,
           \A p \in Live(r.eng) : /\ s.eng.sessions[p].address = r.eng.sessions[p].address
                                  /\ s.eng.sessions[p].ready = r.eng.sessions[p].ready,
           \A p \in Known(r) : /\ s.peers[p].address = r.peers[p].address
                               /\ s.peers[p].ready = r.peers[p].ready
                               /\ s.peers[p].notified => r.peers[p].notified,
           \A p \in Live(r.eng) \ Z : s.peers[p].idle = s.eng.sessions[p].idle
    PROVE  Good(s, Y, Z)
<1>1. Live(s.eng) = Live(r.eng)
  BY DEF Live
<1>2. Fit(r) /\ IsFiniteSet(Known(r)) /\ Live(r.eng) \subseteq Known(r)
  BY DEF Good, Sound, Fit
<1>3. Fit(s)
  <2>1. \A n \in s.pending : n.kind = "DISCONNECT" => s.eng.draining
    BY <1>2 DEF Fit
  <2>2. s.eng.floor # NoFloor => s.eng.floor.owner \in Live(s.eng) /\ ~s.eng.draining
    BY <1>1, <1>2 DEF Fit, SameHold
  <2> QED
    BY <1>1, <1>2, <2>1, <2>2 DEF Fit
<1>4. Agree(s, Z)
  BY <1>1, <1>2 DEF Agree, Good, Sound
<1>5. Readied(s)
  BY <1>1 DEF Readied, Good, Sound
<1>6. Homed(s)
  BY DEF Homed, Good, Sound
<1>7. Told(s, Y)
  BY DEF Told, Good, Sound, SameHold
<1>8. WelcomeSpares => StartsHeld(s)
  BY DEF Good, StartsHeld, Held, SameHold
<1>9. s.fails \in Fails \cup {{}}
  BY DEF Good, Sound
<1> QED
  BY <1>2, <1>3, <1>4, <1>5, <1>6, <1>7, <1>8, <1>9 DEF Good, Sound

-----------------------------------------------------------------------------
(* The loops over the peers.                                               *)

\* No call at all is a sequence of calls.
LEMMA WholeSelf ==
    ASSUME NEW r, Fit(r)
    PROVE  Whole(r, r) /\ Sent(r, r)
<1>1. Whole(r, r)
  BY SameFloor DEF Calls, Frame, Pend
<1> QED
  BY <1>1 DEF Sent, OwnerGone

\* Of the entries before the i-th, none is left of those to be closed.
LEMMA CloseEachWhole ==
    ASSUME NEW r, Fit(r), Covered(r), NEW gone,
           NEW s, s = RangePeers(r, CloseEach(gone))
    PROVE  Whole(r, s) /\ Known(s) \cap gone = {}
<1> DEFINE u == Ranged(r)
           order == Order(r)
           Done(a, i) ==
             Whole(r, a) /\ \A j \in 1 .. i : order[j] \in gone => order[j] \notin Known(a)
           good == [i \in 0 .. Len(order) |-> {a \in Handler : Done(a, i)}]
<1>1. /\ r \in Handler /\ order \in Seq(Ids) /\ order \in {r.orders[k] : k \in 1 .. MaxRanges}
      /\ Whole(r, u) /\ u \in Handler
      /\ s = Loop(u, order, CloseEach(gone))
  BY OrderType, RangedWhole DEF Fit, Whole, Calls, RangePeers
<1> HIDE DEF u, order
<1>2. u \in good[0]
  <2>1. Done(u, 0)
    BY <1>1
  <2> HIDE DEF Done
  <2> QED
    BY <1>1, <2>1
<1>3. ASSUME NEW i \in 1 .. Len(order), NEW a \in good[i - 1]
      PROVE  CloseEach(gone)[order[i]][a] \in good[i]
  <2> DEFINE p == order[i]
             b == CloseEach(gone)[p][a]
  <2>1. i - 1 \in 0 .. Len(order) /\ i \in 0 .. Len(order) /\ p \in Ids
    BY <1>1
  <2>2. a \in Handler /\ Done(a, i - 1)
    BY <1>3, <2>1
  <2>3. b = IF p \in gone THEN CloseSession(a, p) ELSE a
    BY <2>1, <2>2 DEF CloseEach
  <2>4. Fit(a) /\ Covered(a)
    BY <2>2, CoveredKept DEF Whole, Calls
  <2> HIDE DEF b
  <2>5. Whole(a, b) /\ (p \in gone => p \notin Known(b))
    BY <2>1, <2>3, <2>4, CloseSessionWhole, WholeSelf, SMTT(30)
  <2>6. Whole(r, b) /\ b \in Handler /\ Known(b) \subseteq Known(a)
    BY <2>2, <2>5, WholeTrans DEF Whole, Calls, Fit, Frame
  <2>7. \A j \in 1 .. i : j \in 1 .. i - 1 \/ j = i
    BY <2>1
  <2>8. Done(b, i)
    BY <2>2, <2>5, <2>6, <2>7
  <2> HIDE DEF Done
  <2> QED
    BY <2>1, <2>6, <2>8 DEF b
<1>4. s \in good[Len(order)]
  <2> HIDE DEF good
  <2> QED
    BY <1>1, <1>2, <1>3, LoopReaches
<1>5. Done(s, Len(order))
  BY <1>1, <1>4
<1>6. Covered(s) /\ s.orders = r.orders
  BY <1>5, CoveredKept DEF Whole, Calls, Frame
<1> QED
  BY <1>1, <1>5, <1>6 DEF Covered

\* The queue has taken a start of the owner's stream for p.
Heard(r, owner, p) ==
    owner \in Known(r) /\ p \in Known(r) /\ p # owner /\ r.peers[p].ready => p \in r.told

\* Who has been told has been told.
LEMMA HeardKept ==
    ASSUME NEW r, NEW s, NEW owner, NEW p, Frame(r, s), Heard(r, owner, p)
    PROVE  Heard(s, owner, p)
  BY DEF Heard, Frame

\* Every entry before the i-th that is to be told has been.
LEMMA StartEachWhole ==
    ASSUME NEW r, Fit(r), Covered(r), NEW owner, NEW stream, Held(r, owner, stream),
           NEW s, s = RangePeers(r, StartEach(owner, stream))
    PROVE  Whole(r, s) /\ (Apart(r) => \A p \in Known(s) : Heard(s, owner, p))
<1> DEFINE u == Ranged(r)
           order == Order(r)
           Done(a, i) ==
             Sent(r, a) /\ (Apart(r) => \A j \in 1 .. i : Heard(a, owner, order[j]))
           good == [i \in 0 .. Len(order) |-> {a \in Handler : Done(a, i)}]
<1>1. /\ r \in Handler /\ order \in Seq(Ids) /\ order \in {r.orders[k] : k \in 1 .. MaxRanges}
      /\ Sent(r, u) /\ u \in Handler
      /\ s = Loop(u, order, StartEach(owner, stream))
  BY OrderType, RangedSent DEF Fit, RangePeers
<1> HIDE DEF u, order
<1>2. u \in good[0]
  <2>1. Done(u, 0)
    BY <1>1
  <2> HIDE DEF Done
  <2> QED
    BY <1>1, <2>1
<1>3. ASSUME NEW i \in 1 .. Len(order), NEW a \in good[i - 1]
      PROVE  StartEach(owner, stream)[order[i]][a] \in good[i]
  <2> DEFINE p == order[i]
             b == StartEach(owner, stream)[p][a]
  <2>1. i - 1 \in 0 .. Len(order) /\ i \in 0 .. Len(order) /\ p \in Ids
    BY <1>1
  <2>2. a \in Handler /\ Done(a, i - 1)
    BY <1>3, <2>1
  <2>3. b = IF p \in Known(a) /\ p # owner /\ a.peers[p].ready
            THEN NotifyStart(a, p, owner, stream) ELSE a
    BY <2>1, <2>2 DEF StartEach
  <2>4. Fit(a) /\ Covered(a) /\ Frame(r, a) /\ OwnerGone(r, a)
    BY <2>2, CoveredKept DEF Sent, Whole, Calls
  <2>5. Held(a, owner, stream) \/ owner \notin Known(a)
    BY <2>4 DEF Held, OwnerGone, Frame
  <2> HIDE DEF b
  <2>6. Sent(a, b) /\ (Apart(r) => Heard(b, owner, p))
    <3>1. CASE p \in Known(a) /\ p # owner /\ a.peers[p].ready
      <4>1. b = NotifyStart(a, p, owner, stream)
        BY <2>3, <3>1
      <4>2. /\ Sent(a, b)
            /\ owner \in Known(a) /\ Apart(a) => p \notin Known(b) \/ p \in b.told
        BY <2>4, <2>5, <3>1, <4>1, NotifyStartSent
      <4>3. Known(b) \subseteq Known(a)
        BY <4>2 DEF Sent, Whole, Calls, Frame
      <4> QED
        BY <2>4, <4>2, <4>3, ApartKept DEF Heard
    <3>2. CASE ~(p \in Known(a) /\ p # owner /\ a.peers[p].ready)
      BY <2>3, <2>4, <3>2, WholeSelf DEF Heard
    <3> QED
      BY <3>1, <3>2
  <2>7. Sent(r, b) /\ b \in Handler /\ Frame(a, b)
    BY <2>2, <2>6, SentTrans DEF Sent, Whole, Calls, Fit
  <2>8. Apart(r) => \A j \in 1 .. i - 1 : Heard(b, owner, order[j])
    BY <2>2, <2>7, HeardKept
  <2>9. \A j \in 1 .. i : j \in 1 .. i - 1 \/ j = i
    BY <2>1
  <2>10. Done(b, i)
    BY <2>6, <2>7, <2>8, <2>9
  <2> HIDE DEF Done
  <2> QED
    BY <2>1, <2>7, <2>10 DEF b
<1>4. s \in good[Len(order)]
  <2> HIDE DEF good
  <2> QED
    BY <1>1, <1>2, <1>3, LoopReaches
<1>5. Done(s, Len(order))
  BY <1>1, <1>4
<1>6. Covered(s) /\ s.orders = r.orders
  BY <1>5, CoveredKept DEF Sent, Whole, Calls, Frame
<1> QED
  BY <1>1, <1>5, <1>6 DEF Covered, Sent

\* drain tells every session that the server goes.
LEMMA DisconnectEachWhole ==
    ASSUME NEW r, Fit(r), Covered(r), r.eng.draining,
           NEW s, s = RangePeers(r, DisconnectEach)
    PROVE  Whole(r, s)
<1> DEFINE u == Ranged(r)
           order == Order(r)
           good == [i \in 0 .. Len(order) |-> {a \in Handler : Whole(r, a)}]
<1>1. /\ r \in Handler /\ order \in Seq(Ids)
      /\ Whole(r, u) /\ u \in Handler
      /\ s = Loop(u, order, DisconnectEach)
  BY OrderType, RangedWhole DEF Fit, Whole, Calls, RangePeers
<1> HIDE DEF u, order
<1>2. u \in good[0]
  BY <1>1
<1>3. ASSUME NEW i \in 1 .. Len(order), NEW a \in good[i - 1]
      PROVE  DisconnectEach[order[i]][a] \in good[i]
  <2> DEFINE p == order[i]
             b == DisconnectEach[p][a]
  <2>1. i - 1 \in 0 .. Len(order) /\ i \in 0 .. Len(order) /\ p \in Ids
    BY <1>1
  <2>2. a \in Handler /\ Whole(r, a)
    BY <1>3, <2>1
  <2>3. b = IF p \in Known(a)
            THEN StartNotification(a, p, "DISCONNECT", p, 0, ControlOverload) ELSE a
    BY <2>1, <2>2 DEF DisconnectEach
  <2>4. Fit(a) /\ Covered(a) /\ a.eng.draining
    BY <2>2, CoveredKept DEF Whole, Calls, Frame
  <2> HIDE DEF b
  <2>5. Whole(a, b)
    <3>1. CASE p \in Known(a)
      BY <2>1, <2>3, <2>4, <3>1, StartSent DEF Sent, Kinds
    <3>2. CASE p \notin Known(a)
      BY <2>3, <2>4, <3>2, WholeSelf
    <3> QED
      BY <3>1, <3>2
  <2>6. Whole(r, b) /\ b \in Handler
    BY <2>2, <2>5, WholeTrans DEF Whole, Calls, Fit
  <2> QED
    BY <2>1, <2>6 DEF b
<1>4. s \in good[Len(order)]
  <2> HIDE DEF good
  <2> QED
    BY <1>1, <1>2, <1>3, LoopReaches
<1> QED
  BY <1>1, <1>4

\* The sessions of an address are closed and nothing is announced.
LEMMA DisconnectAddressCalls ==
    ASSUME NEW r, Fit(r), NEW address,
           NEW s, s = RangePeers(r, DisconnectAddress(address))
    PROVE  /\ Calls(r, s)
           /\ (\A p \in Known(r) : r.peers[p].address = address => ~Owns(r.eng, p))
                 => s.eng.floor = r.eng.floor
<1> DEFINE u == Ranged(r)
           order == Order(r)
           Alone == \A p \in Known(r) : r.peers[p].address = address => ~Owns(r.eng, p)
           Done(a) == Calls(r, a) /\ (Alone => a.eng.floor = r.eng.floor)
           good == [i \in 0 .. Len(order) |-> {a \in Handler : Done(a)}]
<1>1. /\ r \in Handler /\ order \in Seq(Ids)
      /\ Calls(r, u) /\ u.eng = r.eng /\ u \in Handler
      /\ s = Loop(u, order, DisconnectAddress(address))
  BY OrderType, RangedWhole DEF Fit, Whole, Calls, RangePeers
<1> HIDE DEF u, order
<1>2. u \in good[0]
  BY <1>1
<1>3. ASSUME NEW i \in 1 .. Len(order), NEW a \in good[i - 1]
      PROVE  DisconnectAddress(address)[order[i]][a] \in good[i]
  <2> DEFINE p == order[i]
             b == DisconnectAddress(address)[p][a]
  <2>1. i - 1 \in 0 .. Len(order) /\ i \in 0 .. Len(order) /\ p \in Ids
    BY <1>1
  <2>2. a \in Handler /\ Done(a)
    BY <1>3, <2>1
  <2>3. b = IF p \in Known(a) /\ a.peers[p].address = address
            THEN DisconnectPeer(a, p) ELSE a
    BY <2>1, <2>2 DEF DisconnectAddress
  <2>4. Fit(a) /\ Frame(r, a)
    BY <2>2 DEF Calls
  <2> HIDE DEF b
  <2>5. Calls(a, b) /\ (Alone => b.eng.floor = a.eng.floor)
    <3>1. CASE p \in Known(a) /\ a.peers[p].address = address
      <4>1. Calls(a, b)
        BY <2>3, <2>4, <3>1, DisconnectPeerCalls
      <4>2. b.eng.floor = IF Owns(a.eng, p) THEN NoFloor ELSE a.eng.floor
        BY <2>3, <2>4, <3>1, DisconnectPeerCalls
      <4>3. p \in Known(r) /\ r.peers[p].address = address
        BY <2>4, <3>1 DEF Frame
      <4>4. Alone => ~Owns(a.eng, p)
        BY <2>2, <4>3 DEF Owns
      <4> QED
        BY <4>1, <4>2, <4>4
    <3>2. CASE ~(p \in Known(a) /\ a.peers[p].address = address)
      BY <2>3, <2>4, <3>2, WholeSelf DEF Whole
    <3> QED
      BY <3>1, <3>2
  <2>6. Done(b) /\ b \in Handler
    BY <2>2, <2>5, CallsTrans DEF Calls, Fit
  <2> HIDE DEF Done
  <2> QED
    BY <2>1, <2>6 DEF b
<1>4. s \in good[Len(order)]
  <2> HIDE DEF good
  <2> QED
    BY <1>1, <1>2, <1>3, LoopReaches
<1> QED
  BY <1>1, <1>4

-----------------------------------------------------------------------------
(* The retries of a tick: the rounds go over the notifications that were   *)
(* due when the tick began, which is the record r here, and the revokes of *)
(* a stream that ends meanwhile are none of those still to come.           *)

\* A revoke of the stream to p that no round after the i-th will meet.
Rest(a, p, owner, stream, due, i) ==
    \E n \in a.pending :
        /\ n.listener = p /\ n.kind = "STREAM_REVOKE"
        /\ n.owner = owner /\ n.stream = stream
        /\ \A j \in i + 1 .. Len(due) :
              due[j].listener = p /\ due[j].kind = "STREAM_REVOKE" => due[j].tx # n.tx

\* What a release since the tick began owes, said with Rest: a retry may
\* replace or exhaust the revokes that were due.
EndedSince(r, a, due, i) ==
    r.eng.floor # NoFloor /\ a.eng.floor = NoFloor =>
        LET o == r.eng.floor.owner
            t == r.eng.floor.stream
        IN  /\ \E reason \in EndReasons : EndEvent(o, t, reason) \in a.events
            /\ \A p \in Known(a) \ {o} : a.peers[p].notified => Rest(a, p, o, t, due, i)
            /\ o \in Known(a) =>
                  EndEvent(o, t, "normal") \in a.events \/ Rest(a, o, o, t, due, i)

\* The revokes still to be retried are there, if their listeners are.
StillDue(a, due, i) ==
    \A j \in i + 1 .. Len(due) :
        due[j].kind = "STREAM_REVOKE" /\ due[j].listener \in Known(a) => due[j] \in a.pending

\* What holds of the record a after i rounds of the retry loop.
Retried(r, a, due, i) ==
    /\ Fit(a) /\ Frame(r, a)
    /\ StartsHeld(r) => StartsHeld(a)
    /\ EndedSince(r, a, due, i)
    /\ StillDue(a, due, i)

\* The calls of a round leave such a revoke alone.
LEMMA RestKept ==
    ASSUME NEW a, NEW b, Pend(a, b), NEW p \in Known(b), NEW o, NEW t, NEW due, NEW i,
           Rest(a, p, o, t, due, i)
    PROVE  Rest(b, p, o, t, due, i)
  BY DEF Rest, Pend

\* A revoke opened in a round is of this kind: the rounds to come are for
\* keys that were there before.
LEMMA RestNew ==
    ASSUME NEW a, NEW b, Frame(a, b), NEW p \in Known(b), NEW o, NEW t, NEW due, NEW i,
           StillDue(a, due, i), NewRevoke(a, b, p, o, t)
    PROVE  Rest(b, p, o, t, due, i)
<1>1. PICK n \in b.pending :
        /\ n.listener = p /\ n.kind = "STREAM_REVOKE"
        /\ n.owner = o /\ n.stream = t
        /\ \A m \in a.pending :
              m.listener = p /\ m.kind = "STREAM_REVOKE" => m.tx # n.tx
  BY DEF NewRevoke
<1>2. p \in Known(a)
  BY DEF Frame
<1>3. \A j \in i + 1 .. Len(due) :
         due[j].listener = p /\ due[j].kind = "STREAM_REVOKE" => due[j].tx # n.tx
  BY <1>1, <1>2 DEF StillDue
<1> QED
  BY <1>1, <1>3 DEF Rest

\* So the calls of a round keep what the loop needs.
LEMMA RetriedWhole ==
    ASSUME NEW r, NEW a, NEW due, NEW i, Retried(r, a, due, i), NEW b, Whole(a, b)
    PROVE  Retried(r, b, due, i)
<1>1. /\ Fit(a) /\ Frame(r, a) /\ EndedSince(r, a, due, i) /\ StillDue(a, due, i)
      /\ Fit(b) /\ Frame(a, b) /\ Pend(a, b) /\ Ended(a, b)
  BY DEF Retried, Whole, Calls
<1>2. Known(b) \subseteq Known(a) /\ a.events \subseteq b.events
  BY <1>1 DEF Frame
<1>3. Frame(r, b)
  BY <1>1, FrameTrans
<1>4. StartsHeld(r) => StartsHeld(b)
  BY StartsKept DEF Retried
<1>5. StillDue(b, due, i)
  BY <1>1, <1>2 DEF StillDue, Pend
<1>6. EndedSince(r, b, due, i)
  <2> SUFFICES ASSUME r.eng.floor # NoFloor, b.eng.floor = NoFloor
               PROVE  EndedSince(r, b, due, i)
    BY DEF EndedSince
  <2> DEFINE o == r.eng.floor.owner
             t == r.eng.floor.stream
  <2>1. CASE a.eng.floor = NoFloor
    <3>1. /\ \E reason \in EndReasons : EndEvent(o, t, reason) \in a.events
          /\ \A p \in Known(a) \ {o} : a.peers[p].notified => Rest(a, p, o, t, due, i)
          /\ o \in Known(a) =>
                EndEvent(o, t, "normal") \in a.events \/ Rest(a, o, o, t, due, i)
      BY <1>1, <2>1 DEF EndedSince
    <3>2. \A p \in Known(b) : Rest(a, p, o, t, due, i) => Rest(b, p, o, t, due, i)
      BY <1>1, RestKept
    <3>3. \A p \in Known(b) : b.peers[p].notified => a.peers[p].notified
      BY <1>1, <2>1 DEF Frame
    <3> QED
      BY <1>2, <3>1, <3>2, <3>3 DEF EndedSince
  <2>2. CASE a.eng.floor # NoFloor
    <3>1. a.eng.floor = r.eng.floor
      BY <1>1, <2>2 DEF Frame
    <3>2. /\ \E reason \in EndReasons : EndEvent(o, t, reason) \in b.events
          /\ \A p \in Known(b) \ {o} : b.peers[p].notified => NewRevoke(a, b, p, o, t)
          /\ o \in Known(b) =>
                EndEvent(o, t, "normal") \in b.events \/ NewRevoke(a, b, o, o, t)
      BY <1>1, <2>2, <3>1 DEF Ended
    <3>3. \A p \in Known(b) : NewRevoke(a, b, p, o, t) => Rest(b, p, o, t, due, i)
      BY <1>1, RestNew
    <3> QED
      BY <3>2, <3>3 DEF EndedSince
  <2> QED
    BY <2>1, <2>2
<1> QED
  BY <1>1, <1>3, <1>4, <1>5, <1>6 DEF Retried

\* The two notifications have the same key.
SameKey(m, n) == m.listener = n.listener /\ m.kind = n.kind /\ m.tx = n.tx

\* What the round for n does to the pending map, before it sends.
Replaced(a, c, n) ==
    /\ Fit(c) /\ Frame(a, c) /\ c.eng = a.eng /\ Known(c) = Known(a)
    /\ \A m \in a.pending : ~SameKey(m, n) => m \in c.pending
    /\ \A m \in c.pending :
          \/ m \in a.pending
          \/ /\ m.kind = n.kind /\ m.owner = n.owner /\ m.stream = n.stream
             /\ \E k \in a.pending : k.kind = n.kind

\* And so does the replacement a round begins with, of the i-th entry.
LEMMA RetriedReplaced ==
    ASSUME NEW r, Fit(r), NEW due \in Seq(r.pending),
           \A j, k \in 1 .. Len(due) : j # k => due[j] # due[k],
           NEW i \in 1 .. Len(due),
           NEW a, Retried(r, a, due, i - 1), NEW c, Replaced(a, c, due[i])
    PROVE  Retried(r, c, due, i)
<1> DEFINE n == due[i]
<1>1. /\ Fit(a) /\ Frame(r, a) /\ EndedSince(r, a, due, i - 1) /\ StillDue(a, due, i - 1)
      /\ Fit(c) /\ Frame(a, c) /\ c.eng = a.eng /\ Known(c) = Known(a)
      /\ a.events \subseteq c.events
  BY DEF Retried, Replaced, Frame
<1>2. Len(due) \in Nat /\ i \in Nat /\ n \in r.pending
  OBVIOUS
<1>3. /\ i \in (i - 1) + 1 .. Len(due)
      /\ \A j \in i + 1 .. Len(due) : j \in (i - 1) + 1 .. Len(due) /\ j # i /\ due[j] \in r.pending
  BY <1>2
<1>4. Frame(r, c)
  BY <1>1, FrameTrans
<1>5. ASSUME StartsHeld(r) PROVE StartsHeld(c)
  <2>1. SUFFICES ASSUME NEW m \in c.pending, m.kind = "STREAM_START"
                 PROVE  Held(c, m.owner, m.stream)
    BY DEF StartsHeld
  <2>2. StartsHeld(a)
    BY <1>5 DEF Retried
  <2>3. CASE m \in a.pending
    BY <1>1, <2>1, <2>2, <2>3 DEF StartsHeld, Held
  <2>4. CASE m \notin a.pending
    <3>1. /\ m.kind = n.kind /\ m.owner = n.owner /\ m.stream = n.stream
          /\ \E k \in a.pending : k.kind = n.kind
      BY <2>4 DEF Replaced
    <3>2. PICK k \in a.pending : k.kind = "STREAM_START"
      BY <2>1, <3>1
    <3>3. a.eng.floor # NoFloor
      BY <2>2, <3>2 DEF StartsHeld, Held
    <3>4. Held(r, n.owner, n.stream)
      BY <1>2, <1>5, <2>1, <3>1 DEF StartsHeld
    <3> QED
      BY <1>1, <3>1, <3>3, <3>4 DEF Held, Frame
  <2> QED
    BY <2>3, <2>4
<1>6. StillDue(c, due, i)
  <2> SUFFICES ASSUME NEW j \in i + 1 .. Len(due),
                      due[j].kind = "STREAM_REVOKE", due[j].listener \in Known(c)
               PROVE  due[j] \in c.pending
    BY DEF StillDue
  <2>1. due[j] \in a.pending
    BY <1>1, <1>3 DEF StillDue
  <2>2. due[j] # n /\ due[j] \in r.pending
    BY <1>3
  <2>3. ~SameKey(due[j], n)
    BY <1>2, <2>2 DEF SameKey, Fit, PendingFit
  <2> QED
    BY <2>1, <2>3 DEF Replaced
<1>7. ASSUME NEW p, NEW o, NEW t, Rest(a, p, o, t, due, i - 1)
      PROVE  Rest(c, p, o, t, due, i)
  <2>1. PICK m \in a.pending :
          /\ m.listener = p /\ m.kind = "STREAM_REVOKE"
          /\ m.owner = o /\ m.stream = t
          /\ \A j \in (i - 1) + 1 .. Len(due) :
                due[j].listener = p /\ due[j].kind = "STREAM_REVOKE" => due[j].tx # m.tx
    BY <1>7 DEF Rest
  <2>2. ~SameKey(m, n)
    BY <1>3, <2>1 DEF SameKey
  <2>3. m \in c.pending
    BY <2>2 DEF Replaced
  <2> QED
    BY <1>3, <2>1, <2>3 DEF Rest
<1>8. EndedSince(r, c, due, i)
  <2> SUFFICES ASSUME r.eng.floor # NoFloor, c.eng.floor = NoFloor
               PROVE  EndedSince(r, c, due, i)
    BY DEF EndedSince
  <2> DEFINE o == r.eng.floor.owner
             t == r.eng.floor.stream
  <2>1. /\ \E reason \in EndReasons : EndEvent(o, t, reason) \in a.events
        /\ \A p \in Known(a) \ {o} : a.peers[p].notified => Rest(a, p, o, t, due, i - 1)
        /\ o \in Known(a) =>
              EndEvent(o, t, "normal") \in a.events \/ Rest(a, o, o, t, due, i - 1)
    BY <1>1 DEF EndedSince
  <2>2. \A p \in Known(c) : c.peers[p].notified => a.peers[p].notified
    BY <1>1 DEF Frame
  <2> QED
    BY <1>1, <1>7, <2>1, <2>2 DEF EndedSince
<1> QED
  BY <1>1, <1>4, <1>5, <1>6, <1>8 DEF Retried

\* A replaced entry has the key of the one it replaces.
LEMMA ReplacedFit ==
    ASSUME NEW ns, PendingFit(ns), NEW n \in Notification, NEW k \in ns, SameKey(k, n),
           NEW again \in Notification, SameKey(again, n)
    PROVE  PendingFit((ns \ {m \in ns : SameKey(m, n)}) \cup {again})
<1> DEFINE others == ns \ {m \in ns : SameKey(m, n)}
<1>1. IsFiniteSet(ns) /\ Cardinality(ns) \in Nat /\ Cardinality(ns) <= MaxPendingNotifications
  BY FS_CardinalityType DEF PendingFit
<1>2. others \subseteq ns \ {k}
  OBVIOUS
<1>3. IsFiniteSet(ns \ {k}) /\ Cardinality(ns \ {k}) = Cardinality(ns) - 1
  BY <1>1, FS_RemoveElement
<1>4. IsFiniteSet(others) /\ Cardinality(others) <= Cardinality(ns \ {k})
  BY <1>2, <1>3, FS_Subset
<1>5. Cardinality(others) \in Nat
  BY <1>4, FS_CardinalityType
<1>6. /\ IsFiniteSet(others \cup {again})
      /\ \/ Cardinality(others \cup {again}) = Cardinality(others)
         \/ Cardinality(others \cup {again}) = Cardinality(others) + 1
  BY <1>4, FS_AddElement
<1>7. Cardinality(others \cup {again}) <= MaxPendingNotifications
  BY <1>1, <1>3, <1>4, <1>5, <1>6, CapacityAssumption
<1>8. ASSUME NEW m \in others, m.listener = again.listener, m.tx = again.tx PROVE FALSE
  <2>1. m \in ns /\ ~SameKey(m, n)
    BY <1>8
  <2>2. m.listener = k.listener /\ m.tx = k.tx
    BY <1>8 DEF SameKey
  <2>3. m = k
    BY <2>1, <2>2 DEF PendingFit
  <2> QED
    BY <2>1, <2>3
<1>9. \A m, l \in others \cup {again} : m.listener = l.listener /\ m.tx = l.tx => m = l
  <2>1. \A m, l \in others : m.listener = l.listener /\ m.tx = l.tx => m = l
    BY DEF PendingFit
  <2> HIDE DEF others
  <2> QED
    BY <1>8, <2>1
<1>10. others \cup {again} \subseteq Notification
  BY DEF PendingFit
<1> HIDE DEF others
<1>11. PendingFit(others \cup {again})
  BY <1>6, <1>7, <1>9, <1>10 DEF PendingFit
<1> QED
  BY <1>11 DEF others

\* The pending map is all a round changes before it sends.
LEMMA PendingReplaced ==
    ASSUME NEW a, Fit(a), NEW n, NEW ns, PendingFit(ns),
           \A m \in a.pending : ~SameKey(m, n) => m \in ns,
           \A m \in ns :
              \/ m \in a.pending
              \/ /\ m.kind = n.kind /\ m.owner = n.owner /\ m.stream = n.stream
                 /\ \E k \in a.pending : k.kind = n.kind
    PROVE  /\ Replaced(a, [a EXCEPT !.pending = ns], n)
           /\ [a EXCEPT !.pending = ns].peers = a.peers
<1> DEFINE c == [a EXCEPT !.pending = ns]
<1>1. /\ c \in Handler /\ c.pending = ns /\ c.eng = a.eng /\ c.peers = a.peers
      /\ c.told = a.told /\ c.events = a.events /\ c.fails = a.fails /\ c.orders = a.orders
  BY DEF Fit, Handler, PendingFit
<1> HIDE DEF c
<1>2. Known(c) = Known(a)
  BY <1>1 DEF Known
<1>3. \A m \in ns : m.kind = "DISCONNECT" => a.eng.draining
  BY DEF Fit
<1>4. Fit(c)
  BY <1>1, <1>2, <1>3 DEF Fit
<1>5. Frame(a, c)
  BY <1>1, <1>2 DEF Frame
<1> QED
  BY <1>1, <1>2, <1>4, <1>5 DEF Replaced, c

\* A round replaces one entry, and then it calls.
LEMMA RetryReplaced ==
    ASSUME NEW a, Fit(a), Covered(a), NEW n \in Notification, NEW drift \in 0 .. Drift,
           NEW b, b = Retry(a, n, drift)
    PROVE  \E c : Replaced(a, c, n) /\ Whole(c, b)
<1> DEFINE p == n.listener
           current == {m \in a.pending : SameKey(m, n)}
           others == a.pending \ current
           attempt == NextAttempt(n)
           again == [n EXCEPT !.attempt = attempt,
                              !.due = IF attempt < MaxAttempts /\ RetryDelay[attempt] > drift
                                      THEN RetryDelay[attempt] - drift ELSE 0]
<1>1. PendingFit(a.pending) /\ a \in Handler
  BY DEF Fit
<1>2. \A m \in a.pending : ~SameKey(m, n) => m \in others
  OBVIOUS
<1>3. CASE current = {}
  <2>1. b = a
    BY <1>3 DEF Retry, SameKey
  <2>2. Replaced(a, a, n)
    BY WholeSelf DEF Replaced, Whole, Calls
  <2> QED
    BY <2>1, <2>2, WholeSelf
<1>4. CASE current # {} /\ n.attempt >= MaxAttempts
  <2> DEFINE c == [a EXCEPT !.pending = others]
  <2>1. PendingFit(others)
    BY <1>1, FewerFit
  <2>2. \A m \in others : m \in a.pending
    OBVIOUS
  <2>3. b = IF n.kind = "STREAM_START" /\ p \in Known(a)
            THEN [a EXCEPT !.pending = others, !.peers[p].receiving = FALSE] ELSE c
    <3>1. current # {} /\ n.attempt >= MaxAttempts /\ ~(n.attempt < MaxAttempts)
      BY <1>4, RetryAssumption DEF Notification
    <3>2. current = {m \in a.pending : m.listener = p /\ m.kind = n.kind /\ m.tx = n.tx}
      BY DEF SameKey
    <3> HIDE DEF current
    <3> QED
      BY <3>1, <3>2 DEF Retry
  <2> HIDE DEF others
  <2>4. Replaced(a, c, n) /\ c.peers = a.peers
    BY <1>2, <2>1, <2>2, PendingReplaced
  <2>5. Fit(c) /\ Known(c) = Known(a)
    BY <2>4 DEF Replaced
  <2>6. CASE n.kind = "STREAM_START" /\ p \in Known(a)
    <3>1. b = [c EXCEPT !.peers[p].receiving = FALSE]
      BY <1>1, <2>3, <2>6 DEF Handler
    <3>2. Whole(c, b)
      <4> HIDE DEF c
      <4> QED
        BY <2>5, <2>6, <3>1, NotDeafWhole
    <3> QED
      BY <2>4, <3>2
  <2>7. CASE ~(n.kind = "STREAM_START" /\ p \in Known(a))
    BY <2>3, <2>4, <2>5, <2>7, WholeSelf
  <2> QED
    BY <2>6, <2>7
<1>5. CASE current # {} /\ n.attempt < MaxAttempts
  <2> DEFINE c == [a EXCEPT !.pending = others \cup {again}]
  <2>1. b = IF p \in Known(a) THEN SendControl(c, a.peers[p].address, ControlOverload) ELSE c
    <3>1. ~(n.attempt >= MaxAttempts)
      BY <1>5, RetryAssumption DEF Notification
    <3> QED
      BY <1>5, <3>1 DEF Retry, SameKey
  <2>2. PICK k \in a.pending : SameKey(k, n)
    BY <1>5
  <2>3. /\ again \in Notification /\ SameKey(again, n)
        /\ again.owner = n.owner /\ again.stream = n.stream
    <3> DEFINE due == IF attempt < MaxAttempts /\ RetryDelay[attempt] > drift
                      THEN RetryDelay[attempt] - drift ELSE 0
    <3>1. attempt \in 1 .. MaxAttempts
      BY <1>5, RetryAssumption DEF NextAttempt, Notification
    <3>2. drift \in Nat
      BY EnvironmentAssumption
    <3>3. due \in Nat
      <4>1. attempt < MaxAttempts => attempt \in 1 .. MaxAttempts - 1
        BY <3>1, RetryAssumption
      <4>2. attempt < MaxAttempts => RetryDelay[attempt] \in Nat
        BY <4>1, RetryAssumption
      <4> HIDE DEF attempt
      <4> QED
        BY <3>2, <4>2
    <3>4. again = [n EXCEPT !.attempt = attempt, !.due = due]
      OBVIOUS
    <3> HIDE DEF attempt, due, again
    <3> QED
      BY <3>1, <3>3, <3>4 DEF Notification, SameKey
  <2> HIDE DEF again
  <2>4. PendingFit(others \cup {again})
    BY <1>1, <2>2, <2>3, ReplacedFit
  <2>5. \A m \in others \cup {again} :
           \/ m \in a.pending
           \/ /\ m.kind = n.kind /\ m.owner = n.owner /\ m.stream = n.stream
              /\ \E l \in a.pending : l.kind = n.kind
    BY <2>2, <2>3 DEF SameKey
  <2>6. \A m \in a.pending : ~SameKey(m, n) => m \in others \cup {again}
    BY <1>2
  <2> DEFINE ns == others \cup {again}
  <2>7. /\ PendingFit(ns) /\ \A m \in a.pending : ~SameKey(m, n) => m \in ns
        /\ \A m \in ns :
              \/ m \in a.pending
              \/ /\ m.kind = n.kind /\ m.owner = n.owner /\ m.stream = n.stream
                 /\ \E l \in a.pending : l.kind = n.kind
    BY <2>4, <2>5, <2>6
  <2> HIDE DEF ns, others
  <2>8. Replaced(a, c, n) /\ c.peers = a.peers
    <3>1. Replaced(a, [a EXCEPT !.pending = ns], n) /\ [a EXCEPT !.pending = ns].peers = a.peers
      BY <2>7, PendingReplaced
    <3> QED
      BY <3>1 DEF ns
  <2> HIDE DEF c
  <2>9. Fit(c) /\ Covered(c) /\ Known(c) = Known(a)
    BY <2>8, CoveredKept DEF Replaced
  <2>10. Whole(c, b)
    BY <2>1, <2>9, SendSent, WholeSelf DEF Sent
  <2> QED
    BY <2>8, <2>10
<1> HIDE DEF current
<1>6. n.attempt >= MaxAttempts \/ n.attempt < MaxAttempts
  BY RetryAssumption DEF Notification
<1> QED
  BY <1>3, <1>4, <1>5, <1>6

\* r is the record the tick began with, a the one its retries begin with.
LEMMA RetryEachRetried ==
    ASSUME NEW r, Fit(r), Covered(r), NEW due \in Seq(r.pending),
           \A j, k \in 1 .. Len(due) : j # k => due[j] # due[k],
           NEW a, Whole(r, a), NEW drift \in 0 .. Drift,
           NEW s, s = Loop(a, due, RetryEach(drift))
    PROVE  Retried(r, s, due, Len(due))
<1> DEFINE good == [i \in 0 .. Len(due) |-> {b \in Handler : Retried(r, b, due, i)}]
<1>1. Len(due) \in Nat /\ \A i \in 1 .. Len(due) : due[i] \in r.pending
  OBVIOUS
<1>2. r.pending \subseteq Notification
  BY DEF Fit, PendingFit
<1>3. a \in good[0]
  <2>1. Frame(r, r) /\ EndedSince(r, r, due, 0)
    BY DEF Frame, EndedSince
  <2>2. StillDue(r, due, 0)
    BY <1>1 DEF StillDue
  <2>3. Retried(r, r, due, 0)
    BY <2>1, <2>2 DEF Retried
  <2>4. Retried(r, a, due, 0)
    BY <2>3, RetriedWhole
  <2> QED
    BY <1>1, <2>4 DEF Retried, Fit
<1>4. ASSUME NEW i \in 1 .. Len(due), NEW b \in good[i - 1]
      PROVE  RetryEach(drift)[due[i]][b] \in good[i]
  <2> DEFINE n == due[i]
             d == RetryEach(drift)[n][b]
  <2>1. i - 1 \in 0 .. Len(due) /\ i \in 0 .. Len(due)
    BY <1>1
  <2>2. n \in Notification
    BY <1>1, <1>2
  <2>3. b \in Handler /\ Retried(r, b, due, i - 1)
    BY <1>4, <2>1
  <2>4. d = Retry(b, n, drift)
    BY <2>2, <2>3 DEF RetryEach
  <2>5. Fit(b) /\ Covered(b)
    BY <2>3, CoveredKept DEF Retried
  <2> HIDE DEF d
  <2>6. PICK c : Replaced(b, c, n) /\ Whole(c, d)
    BY <2>2, <2>4, <2>5, RetryReplaced
  <2>7. Retried(r, c, due, i)
    BY <2>3, <2>6, RetriedReplaced
  <2>8. Retried(r, d, due, i)
    BY <2>6, <2>7, RetriedWhole
  <2> QED
    BY <2>1, <2>8 DEF Retried, Fit, d
<1>5. s \in good[Len(due)]
  <2> HIDE DEF good
  <2> QED
    BY <1>3, <1>4, LoopReaches
<1> QED
  BY <1>1, <1>5

-----------------------------------------------------------------------------
(* A release is announced, seen from the record h the handler began with.  *)

\* A revoke of the stream to p is pending.
Revoke(s, p, owner, stream) ==
    \E n \in s.pending : /\ n.listener = p /\ n.kind = "STREAM_REVOKE"
                         /\ n.owner = owner /\ n.stream = stream

\* What ReleaseIsAnnounced asks of the step from h to s.
Announces(h, s) ==
    \A o \in Ids, t \in Streams :
        s.eng.floor = NoFloor /\ (Held(h, o, t) \/ StreamGranted(o, t) \in s.events) =>
            /\ \E reason \in EndReasons : EndEvent(o, t, reason) \in s.events
            /\ \A p \in Known(s) \ {o} :
                  s.peers[p].notified \/ (p \in Known(h) /\ h.peers[p].notified) =>
                     Revoke(s, p, o, t)
            /\ o \in Known(s) => EndEvent(o, t, "normal") \in s.events \/ Revoke(s, o, o, t)

\* The record r the calls begin with has the hold and the listeners of h, and
\* a grant of this handler is the hold.
Alike(h, r) ==
    /\ h.eng.draining => r.eng.draining
    /\ h.eng.floor # NoFloor =>
          /\ r.eng.floor # NoFloor
          /\ r.eng.floor.owner = h.eng.floor.owner
          /\ r.eng.floor.stream = h.eng.floor.stream
    /\ \A p \in Known(h) \cap Known(r) : h.peers[p].notified => r.peers[p].notified
    /\ \A o \in Ids, t \in Streams : StreamGranted(o, t) \in r.events => Held(r, o, t)

\* What the frame keeps of this: the hold that is announced is the one of r,
\* and no listener is forgotten.
LEMMA AlikeKept ==
    ASSUME NEW h, NEW r, NEW s, Alike(h, r), Frame(r, s), NEW o \in Ids, NEW t \in Streams,
           Held(h, o, t) \/ StreamGranted(o, t) \in s.events
    PROVE  /\ Held(r, o, t)
           /\ \A p \in Known(s) : p \in Known(h) /\ h.peers[p].notified => s.peers[p].notified
<1>1. StreamGranted(o, t) \in s.events => StreamGranted(o, t) \in r.events
  BY DEF Frame, StreamGranted
<1>2. Held(r, o, t)
  BY <1>1 DEF Alike, Held
<1>3. \A p \in Known(s) : p \in Known(h) /\ h.peers[p].notified => s.peers[p].notified
  BY DEF Alike, Frame
<1> QED
  BY <1>2, <1>3

\* Calls that announce their releases do it for the hold of h, and for a
\* grant of this handler.
LEMMA EndedAnnounces ==
    ASSUME NEW h, NEW r, NEW s, Alike(h, r), Whole(r, s)
    PROVE  Announces(h, s)
<1>1. Ended(r, s) /\ Frame(r, s)
  BY DEF Whole, Calls
<1> SUFFICES ASSUME NEW o \in Ids, NEW t \in Streams, s.eng.floor = NoFloor,
                    Held(h, o, t) \/ StreamGranted(o, t) \in s.events
             PROVE  /\ \E reason \in EndReasons : EndEvent(o, t, reason) \in s.events
                    /\ \A p \in Known(s) \ {o} :
                          s.peers[p].notified \/ (p \in Known(h) /\ h.peers[p].notified) =>
                             Revoke(s, p, o, t)
                    /\ o \in Known(s) =>
                          EndEvent(o, t, "normal") \in s.events \/ Revoke(s, o, o, t)
  BY DEF Announces
<1>2. /\ Held(r, o, t)
      /\ \A p \in Known(s) : p \in Known(h) /\ h.peers[p].notified => s.peers[p].notified
  BY <1>1, AlikeKept
<1>3. /\ \E reason \in EndReasons : EndEvent(o, t, reason) \in s.events
      /\ \A p \in Known(s) \ {o} : s.peers[p].notified => NewRevoke(r, s, p, o, t)
      /\ o \in Known(s) => EndEvent(o, t, "normal") \in s.events \/ NewRevoke(r, s, o, o, t)
  BY <1>1, <1>2 DEF Ended, Held
<1>4. \A p : NewRevoke(r, s, p, o, t) => Revoke(s, p, o, t)
  BY DEF NewRevoke, Revoke
<1> QED
  BY <1>2, <1>3, <1>4

\* So do the retries of a tick.
LEMMA RetriedAnnounces ==
    ASSUME NEW h, NEW r, NEW s, NEW due, NEW i, Alike(h, r), Retried(r, s, due, i)
    PROVE  Announces(h, s)
<1>1. EndedSince(r, s, due, i) /\ Frame(r, s)
  BY DEF Retried
<1> SUFFICES ASSUME NEW o \in Ids, NEW t \in Streams, s.eng.floor = NoFloor,
                    Held(h, o, t) \/ StreamGranted(o, t) \in s.events
             PROVE  /\ \E reason \in EndReasons : EndEvent(o, t, reason) \in s.events
                    /\ \A p \in Known(s) \ {o} :
                          s.peers[p].notified \/ (p \in Known(h) /\ h.peers[p].notified) =>
                             Revoke(s, p, o, t)
                    /\ o \in Known(s) =>
                          EndEvent(o, t, "normal") \in s.events \/ Revoke(s, o, o, t)
  BY DEF Announces
<1>2. /\ Held(r, o, t)
      /\ \A p \in Known(s) : p \in Known(h) /\ h.peers[p].notified => s.peers[p].notified
  BY <1>1, AlikeKept
<1>3. /\ \E reason \in EndReasons : EndEvent(o, t, reason) \in s.events
      /\ \A p \in Known(s) \ {o} : s.peers[p].notified => Rest(s, p, o, t, due, i)
      /\ o \in Known(s) => EndEvent(o, t, "normal") \in s.events \/ Rest(s, o, o, t, due, i)
  BY <1>1, <1>2 DEF EndedSince, Held
<1>4. \A p : Rest(s, p, o, t, due, i) => Revoke(s, p, o, t)
  BY DEF Rest, Revoke
<1> QED
  BY <1>2, <1>3, <1>4

\* What a handler that began with h may leave behind.
Outcome(h, s) ==
    /\ Good(s, {}, {})
    /\ h.eng.draining => s.eng.draining
    /\ WelcomeSpares => Announces(h, s)

\* The calls of a handler lead to an outcome.
LEMMA WholeOutcome ==
    ASSUME NEW h, NEW r, NEW s, Alike(h, r), Good(r, {}, {}), Whole(r, s)
    PROVE  Outcome(h, s)
<1>1. h.eng.draining => s.eng.draining
  BY DEF Alike, Whole, Calls, Frame
<1> QED
  BY <1>1, GoodKept, EndedAnnounces DEF Outcome

\* engine.Touch sets one activity time back and nothing else.
LEMMA TouchType ==
    ASSUME NEW e \in EngineState, NEW id \in Ids, NEW address
    PROVE  LET t == Touch(e, id, address)
           IN  /\ t \in EngineState /\ t.floor = e.floor /\ t.draining = e.draining
               /\ \A i \in Ids : t.sessions[i] = NoSession <=> e.sessions[i] = NoSession
               /\ \A i \in Live(e) : /\ t.sessions[i].address = e.sessions[i].address
                                     /\ t.sessions[i].ready = e.sessions[i].ready
                                     /\ i # id => t.sessions[i].idle = e.sessions[i].idle
               /\ id \in Live(e) /\ e.sessions[id].address = address
                     => t.sessions[id].idle = 0
<1>1. CASE id \in Live(e) /\ e.sessions[id].address = address
  <2> DEFINE v == [e.sessions[id] EXCEPT !.idle = 0]
             t == [e EXCEPT !.sessions[id] = v]
  <2>1. e.sessions[id] \in Session
    BY <1>1 DEF Live, EngineState
  <2>2. /\ v \in Session /\ v.address = e.sessions[id].address
        /\ v.ready = e.sessions[id].ready /\ v.idle = 0
    BY <2>1, LimitsAssumption DEF Session
  <2>3. Touch(e, id, address) = t
    BY <1>1 DEF Touch, Refresh, EngineState
  <2> HIDE DEF v
  <2>4. /\ t \in EngineState /\ t.floor = e.floor /\ t.draining = e.draining
        /\ t.sessions[id] = v /\ v # NoSession
        /\ \A i \in Ids \ {id} : t.sessions[i] = e.sessions[i]
    BY <2>2, NilAssumption DEF EngineState
  <2> HIDE DEF t
  <2> QED
    BY <1>1, <2>2, <2>3, <2>4 DEF Live
<1>2. CASE ~(id \in Live(e) /\ e.sessions[id].address = address)
  <2>1. Touch(e, id, address) = e
    BY <1>2 DEF Touch
  <2> QED
    BY <1>2, <2>1
<1> QED
  BY <1>1, <1>2

\* An accepted packet refreshes both tables, so they agree about p again.
LEMMA AcceptGood ==
    ASSUME NEW r, NEW p \in Ids, Good(r, {}, {p})
    PROVE  /\ Good(Accept(r, p), {}, {})
           /\ Known(Accept(r, p)) = Known(r) /\ Accept(r, p).eng.floor = r.eng.floor
           /\ Accept(r, p).pending = r.pending /\ Accept(r, p).events = r.events
           /\ Accept(r, p).eng.draining = r.eng.draining
           /\ \A q \in Known(r) : Accept(r, p).peers[q].notified => r.peers[q].notified
<1>1. CASE p \notin Known(r)
  <2>1. Accept(r, p) = r
    BY <1>1 DEF Accept
  <2>2. Agree(r, {})
    BY <1>1 DEF Good, Sound, Agree, Fit
  <2> QED
    BY <2>1, <2>2 DEF Good, Sound
<1>2. CASE p \in Known(r)
  <2> DEFINE e == Touch(r.eng, p, r.peers[p].address)
             v == [r.peers[p] EXCEPT !.idle = 0]
             ps == [r.peers EXCEPT ![p] = v]
             s == [r EXCEPT !.peers = ps, !.eng = e]
  <2>1. Fit(r) /\ r \in Handler /\ r.peers[p] \in Peer /\ r.eng \in EngineState
    BY <1>2 DEF Good, Sound, Fit, Known, Handler
  <2>2. Accept(r, p) = s
    BY <1>2, <2>1 DEF Accept, Handler
  <2>3. /\ e \in EngineState /\ e.floor = r.eng.floor /\ e.draining = r.eng.draining
        /\ \A i \in Ids : e.sessions[i] = NoSession <=> r.eng.sessions[i] = NoSession
        /\ \A i \in Live(r.eng) : /\ e.sessions[i].address = r.eng.sessions[i].address
                                  /\ e.sessions[i].ready = r.eng.sessions[i].ready
                                  /\ i # p => e.sessions[i].idle = r.eng.sessions[i].idle
        /\ p \in Live(r.eng) /\ r.eng.sessions[p].address = r.peers[p].address
              => e.sessions[p].idle = 0
    BY <2>1, TouchType
  <2>4. /\ v \in Peer /\ v.address = r.peers[p].address /\ v.ready = r.peers[p].ready
        /\ v.notified = r.peers[p].notified /\ v.idle = 0 /\ v # NoPeer
    BY <2>1, LimitsAssumption, EnvironmentAssumption DEF Peer
  <2> HIDE DEF e, v
  <2>5. ps \in [Ids -> Peer \cup {NoPeer}] /\ ps[p] = v /\ \A q \in Ids \ {p} : ps[q] = r.peers[q]
    BY <2>1, <2>4 DEF Handler
  <2> HIDE DEF ps
  <2>6. /\ s \in Handler /\ s.peers = ps /\ s.eng = e /\ s.pending = r.pending
        /\ s.told = r.told /\ s.events = r.events /\ s.fails = r.fails
    BY <2>1, <2>3, <2>5 DEF Handler
  <2> HIDE DEF s
  <2>7. Known(s) = Known(r) /\ Known(r) \subseteq Ids
    BY <1>2, <2>4, <2>5, <2>6 DEF Known
  <2>8. \A q \in Known(r) : /\ s.peers[q].address = r.peers[q].address
                            /\ s.peers[q].ready = r.peers[q].ready
                            /\ s.peers[q].notified => r.peers[q].notified
                            /\ q # p => s.peers[q].idle = r.peers[q].idle
    BY <2>4, <2>5, <2>6, <2>7
  <2>9. \A q \in Live(r.eng) \ {} : s.peers[q].idle = s.eng.sessions[q].idle
    <3> SUFFICES ASSUME NEW q \in Live(r.eng)
                 PROVE  s.peers[q].idle = s.eng.sessions[q].idle
      OBVIOUS
    <3>1. /\ q \in Known(r) /\ r.eng.sessions[q].address = r.peers[q].address
          /\ q # p => r.peers[q].idle = r.eng.sessions[q].idle
      BY DEF Good, Sound, Agree, Fit
    <3>2. CASE q = p
      BY <2>3, <2>4, <2>5, <2>6, <3>1, <3>2
    <3>3. CASE q # p
      BY <2>3, <2>6, <2>8, <3>1, <3>3
    <3> QED
      BY <3>2, <3>3
  <2>10. SameHold(r.eng, s.eng)
    BY <2>3, <2>6 DEF SameHold
  <2>11. Good(s, {}, {})
    <3>1. PendingFit(s.pending)
      BY <2>1, <2>6 DEF Fit
    <3>2. \A i \in Ids : s.eng.sessions[i] = NoSession <=> r.eng.sessions[i] = NoSession
      BY <2>3, <2>6
    <3>3. \A i \in Live(r.eng) : /\ s.eng.sessions[i].address = r.eng.sessions[i].address
                                 /\ s.eng.sessions[i].ready = r.eng.sessions[i].ready
      BY <2>3, <2>6
    <3> QED
      BY <2>3, <2>6, <2>7, <2>8, <2>9, <2>10, <3>1, <3>2, <3>3, Reworked
  <2> QED
    BY <2>2, <2>3, <2>6, <2>7, <2>8, <2>11
<1> QED
  BY <1>1, <1>2

\* A handler may end by accepting its packet.
LEMMA AcceptOutcome ==
    ASSUME NEW h, NEW r, NEW p \in Ids, Good(r, {}, {p}),
           h.eng.draining => r.eng.draining, WelcomeSpares => Announces(h, r)
    PROVE  Outcome(h, Accept(r, p))
<1> DEFINE s == Accept(r, p)
<1>1. /\ Good(s, {}, {}) /\ Known(s) = Known(r) /\ s.eng.floor = r.eng.floor
      /\ s.pending = r.pending /\ s.events = r.events /\ s.eng.draining = r.eng.draining
      /\ \A q \in Known(r) : s.peers[q].notified => r.peers[q].notified
  BY AcceptGood
<1> HIDE DEF s
<1>2. Announces(h, r) => Announces(h, s)
  BY <1>1 DEF Announces, Revoke
<1> QED
  BY <1>1, <1>2 DEF Outcome, s

\* The same after calls of the handler.
LEMMA WholeAccepted ==
    ASSUME NEW h, NEW r, NEW s, NEW p \in Ids, Alike(h, r), Whole(r, s), Good(s, {}, {p})
    PROVE  Outcome(h, Accept(s, p))
<1>1. h.eng.draining => s.eng.draining
  BY DEF Alike, Whole, Calls, Frame
<1> QED
  BY <1>1, EndedAnnounces, AcceptOutcome

\* A session that is gone needs no exception.
LEMMA GoneGood ==
    ASSUME NEW r, NEW Y, NEW p, Good(r, Y, {p}), Y \cap Known(r) = {}, p \notin Known(r)
    PROVE  Good(r, {}, {})
  BY MadeGood DEF Good, Sound, Fit

\* u is what the request made of r: the response to p is still to be sent.
\* Should that fail, p need not have been told of the stream.
LEMMA ReplyOutcome ==
    ASSUME NEW h, NEW r, NEW u, NEW p \in Ids, Alike(h, r), Covered(r), Whole(r, u),
           Good(u, {p}, {p}), QueueTakes(u) => Good(u, {}, {p})
    PROVE  Outcome(h, Reply(u, p))
<1>1. Fit(u) /\ Covered(u)
  BY CoveredKept DEF Whole, Calls
<1>2. /\ Whole(u, Tried(u)) /\ Known(Tried(u)) = Known(u)
      /\ Fit(Tried(u)) /\ Covered(Tried(u))
  BY <1>1, TriedWhole, CoveredKept DEF Whole, Calls
<1>3. Whole(r, Tried(u)) /\ Good(Tried(u), {p}, {p})
  BY <1>2, WholeTrans, GoodKept
<1>4. CASE QueueTakes(u)
  <2>1. Reply(u, p) = Accept(Tried(u), p)
    BY <1>4 DEF Reply
  <2>2. Good(Tried(u), {}, {p})
    BY <1>2, <1>4, GoodKept
  <2> QED
    BY <1>3, <2>1, <2>2, WholeAccepted
<1>5. CASE ~QueueTakes(u)
  <2> DEFINE s == IF p \in Known(u) THEN ControlOverload(Tried(u), p) ELSE Tried(u)
  <2>1. Reply(u, p) = s
    BY <1>5 DEF Reply
  <2>2. Whole(Tried(u), s) /\ p \notin Known(s)
    BY <1>2, ControlOverloadWhole, WholeSelf
  <2> HIDE DEF s
  <2>3. Whole(r, s) /\ Good(s, {p}, {p})
    BY <1>3, <2>2, WholeTrans, GoodKept
  <2>4. Good(s, {}, {})
    BY <2>2, <2>3, GoneGood
  <2>5. Announces(h, s)
    BY <2>3, EndedAnnounces
  <2>6. h.eng.draining => s.eng.draining
    BY <2>3 DEF Alike, Whole, Calls, Frame
  <2> QED
    BY <2>1, <2>4, <2>5, <2>6 DEF Outcome
<1> QED
  BY <1>4, <1>5

-----------------------------------------------------------------------------
(* The orders of range.                                                    *)

\* An order of range visits each entry of the set, and once.
LEMMA OrderOf ==
    ASSUME NEW S, IsFiniteSet(S), NEW order \in OrdersOf(S)
    PROVE  /\ order \in Seq(S)
           /\ \A x \in S : \E i \in 1 .. Len(order) : order[i] = x
           /\ \A i, j \in 1 .. Len(order) : i # j => order[i] # order[j]
<1> DEFINE n == Cardinality(S)
           D == 1 .. n
<1>1. n \in Nat
  BY FS_CardinalityType
<1>2. order \in [D -> S] /\ \A i, j \in D : i # j => order[i] # order[j]
  BY DEF OrdersOf, SetToSeqs
<1> HIDE DEF n
<1>3. order \in Seq(S) /\ Len(order) = n
  BY <1>1, <1>2
<1>4. order \in Injection(D, S)
  BY <1>2 DEF Injection, IsInjective
<1>5. Cardinality(D) = n
  BY <1>1, FS_Interval
<1> HIDE DEF D
<1>6. order \in Surjection(D, S)
  BY <1>4, <1>5, FS_Injection DEF n
<1> QED
  BY <1>2, <1>3, <1>6 DEF Surjection, D

-----------------------------------------------------------------------------
(* What a handler does to the engine and the peers before its calls.       *)

\* The engine changes and the peers do not.
LEMMA EngineFields ==
    ASSUME NEW r, r \in Handler, NEW e \in EngineState
    PROVE  LET s == [r EXCEPT !.eng = e]
           IN  /\ s \in Handler /\ s.eng = e /\ s.peers = r.peers /\ s.pending = r.pending
               /\ s.told = r.told /\ s.events = r.events /\ s.fails = r.fails
               /\ s.orders = r.orders /\ Known(s) = Known(r)
  BY DEF Handler, Known

\* Sessions go or the floor does, nothing else happens to the engine.
LEMMA EngineCalls ==
    ASSUME NEW r, Fit(r), NEW e \in EngineState,
           \A p \in Ids : /\ e.sessions[p] \in {r.eng.sessions[p], NoSession}
                          /\ Drift = 0 /\ p \in Known(r) => e.sessions[p] = r.eng.sessions[p],
           e.floor # NoFloor => e.floor = r.eng.floor /\ e.floor.owner \in Live(e) /\ ~e.draining,
           r.eng.draining => e.draining
    PROVE  Calls(r, [r EXCEPT !.eng = e]) /\ Known([r EXCEPT !.eng = e]) = Known(r)
<1> DEFINE s == [r EXCEPT !.eng = e]
<1>1. /\ s \in Handler /\ s.eng = e /\ s.peers = r.peers /\ s.pending = r.pending
      /\ s.told = r.told /\ s.events = r.events /\ s.fails = r.fails
      /\ s.orders = r.orders /\ Known(s) = Known(r)
  BY EngineFields DEF Fit
<1> HIDE DEF s
<1>2. Live(e) \subseteq Live(r.eng)
  BY DEF Live
<1>3. Fit(s)
  BY <1>1, <1>2 DEF Fit
<1>4. Frame(r, s)
  BY <1>1 DEF Frame
<1>5. Pend(r, s)
  BY <1>1 DEF Pend
<1> QED
  BY <1>1, <1>3, <1>4, <1>5 DEF Calls, s

\* engine.Release takes the floor from its owner.
LEMMA ReleaseCalls ==
    ASSUME NEW r, Fit(r), NEW p
    PROVE  /\ Calls(r, [r EXCEPT !.eng = Release(@, p)])
           /\ Owns(r.eng, p) => [r EXCEPT !.eng = Release(@, p)].eng.floor = NoFloor
<1> DEFINE e == Release(r.eng, p)
<1>1. r.eng \in EngineState /\ r \in Handler
  BY DEF Fit, Handler
<1>2. /\ e \in EngineState /\ e.sessions = r.eng.sessions /\ e.draining = r.eng.draining
      /\ e.floor = IF Owns(r.eng, p) THEN NoFloor ELSE r.eng.floor
  BY <1>1 DEF Release, EngineState
<1>3. [r EXCEPT !.eng = Release(@, p)] = [r EXCEPT !.eng = e]
  BY <1>1 DEF Handler
<1> HIDE DEF e
<1>4. e.floor # NoFloor => e.floor = r.eng.floor /\ e.floor.owner \in Live(e) /\ ~e.draining
  BY <1>2 DEF Fit, Live
<1>5. Calls(r, [r EXCEPT !.eng = e])
  BY <1>2, <1>4, EngineCalls
<1>6. [r EXCEPT !.eng = e].eng = e
  BY <1>1 DEF Handler
<1> QED
  BY <1>2, <1>3, <1>5, <1>6

\* engine.BeginShutdown empties the floor and closes the channel.
LEMMA ShutdownCalls ==
    ASSUME NEW r, Fit(r)
    PROVE  LET s == [r EXCEPT !.eng = BeginShutdown(@)]
           IN  Calls(r, s) /\ s.eng.floor = NoFloor /\ s.eng.draining
<1> DEFINE e == BeginShutdown(r.eng)
<1>1. r.eng \in EngineState /\ r \in Handler
  BY DEF Fit, Handler
<1>2. /\ e \in EngineState /\ e.sessions = r.eng.sessions /\ e.draining
      /\ e.floor = NoFloor
  BY <1>1 DEF BeginShutdown, EngineState, Fit
<1>3. [r EXCEPT !.eng = BeginShutdown(@)] = [r EXCEPT !.eng = e]
  BY <1>1 DEF Handler
<1> HIDE DEF e
<1>4. Calls(r, [r EXCEPT !.eng = e])
  BY <1>2, EngineCalls
<1>5. [r EXCEPT !.eng = e].eng = e
  BY <1>1 DEF Handler
<1> QED
  BY <1>2, <1>3, <1>4, <1>5

\* The engine's Tick, when the peers it finds expired are gone already.
LEMMA TickCalls ==
    ASSUME NEW r, Fit(r), NEW gone, gone \subseteq Ids, Drift = 0 => gone \cap Known(r) = {}
    PROVE  LET s == [r EXCEPT !.eng = Tick(@, gone)]
           IN  /\ Calls(r, s)
               /\ s.eng.floor = IF TickReleases(r.eng, gone) THEN NoFloor ELSE r.eng.floor
<1> DEFINE d == RemoveSessions(r.eng, gone)
           e == Tick(r.eng, gone)
<1>1. r.eng \in EngineState /\ r \in Handler
  BY DEF Fit, Handler
<1>2. /\ d \in EngineState /\ d.draining = r.eng.draining /\ d.floor = r.eng.floor
      /\ \A p \in Ids : d.sessions[p] = IF p \in gone THEN NoSession ELSE r.eng.sessions[p]
  BY <1>1 DEF RemoveSessions, EngineState
<1>3. e = IF TickReleases(r.eng, gone) THEN [d EXCEPT !.floor = NoFloor] ELSE d
  BY <1>2 DEF Tick, Release, Owns, TickReleases
<1> HIDE DEF d, e
<1>4. /\ e \in EngineState /\ e.draining = r.eng.draining
      /\ e.floor = IF TickReleases(r.eng, gone) THEN NoFloor ELSE r.eng.floor
      /\ \A p \in Ids : e.sessions[p] = IF p \in gone THEN NoSession ELSE r.eng.sessions[p]
  BY <1>2, <1>3 DEF EngineState
<1>5. [r EXCEPT !.eng = Tick(@, gone)] = [r EXCEPT !.eng = e]
  BY <1>1 DEF Handler, e
<1>6. e.floor # NoFloor => e.floor = r.eng.floor /\ e.floor.owner \in Live(e) /\ ~e.draining
  <2>1. SUFFICES ASSUME ~TickReleases(r.eng, gone), r.eng.floor # NoFloor
                 PROVE  r.eng.floor.owner \in Live(e) /\ ~r.eng.draining
    BY <1>4
  <2>2. r.eng.floor.owner \notin gone
    BY <2>1 DEF TickReleases
  <2> QED
    BY <1>4, <2>1, <2>2 DEF Fit, Live
<1>7. Calls(r, [r EXCEPT !.eng = e])
  <2>1. \A p \in Ids : /\ e.sessions[p] \in {r.eng.sessions[p], NoSession}
                       /\ Drift = 0 /\ p \in Known(r) => e.sessions[p] = r.eng.sessions[p]
    BY <1>4
  <2> QED
    BY <1>4, <1>6, <2>1, EngineCalls
<1> DEFINE s == [r EXCEPT !.eng = e]
<1>8. s.eng = e
  BY <1>1 DEF Handler
<1>9. Calls(r, s)
  BY <1>7
<1> HIDE DEF s
<1>10. Calls(r, s) /\ s.eng.floor = IF TickReleases(r.eng, gone) THEN NoFloor ELSE r.eng.floor
  BY <1>4, <1>8, <1>9
<1> QED
  BY <1>5, <1>10 DEF s

\* Time changes ages only.
LEMMA AgeType ==
    ASSUME NEW e \in EngineState
    PROVE  /\ Age(e) \in EngineState /\ Age(e).draining = e.draining
           /\ SameHold(e, Age(e))
           /\ \A i \in Ids : Age(e).sessions[i] = NoSession <=> e.sessions[i] = NoSession
           /\ \A i \in Live(e) :
                 /\ Age(e).sessions[i].address = e.sessions[i].address
                 /\ Age(e).sessions[i].ready = e.sessions[i].ready
                 /\ Age(e).sessions[i].idle = Older(e.sessions[i].idle, SessionTimeout)
<1> DEFINE ss == [i \in Ids |->
                    IF e.sessions[i] = NoSession THEN NoSession
                    ELSE [e.sessions[i] EXCEPT !.idle = Older(@, SessionTimeout)]]
           f == Age(e).floor
<1>1. Age(e) = [e EXCEPT !.sessions = ss, !.floor = f]
  BY DEF Age, EngineState
<1>2. ASSUME NEW i \in Ids, e.sessions[i] # NoSession
      PROVE  /\ ss[i] \in Session /\ ss[i].address = e.sessions[i].address
             /\ ss[i].ready = e.sessions[i].ready
             /\ ss[i].idle = Older(e.sessions[i].idle, SessionTimeout)
  <2>1. e.sessions[i] \in Session
    BY <1>2 DEF EngineState
  <2>2. Older(e.sessions[i].idle, SessionTimeout) \in 0 .. SessionTimeout + 1
    BY <2>1, LimitsAssumption DEF Session, Older
  <2> QED
    BY <1>2, <2>1, <2>2 DEF Session
<1>3. ss \in [Ids -> Session \cup {NoSession}]
  BY <1>2
<1>4. \A i \in Ids : ss[i] = NoSession <=> e.sessions[i] = NoSession
  BY <1>2, NilAssumption
<1>5. f \in FloorState \cup {NoFloor} /\ SameHold(e, [e EXCEPT !.floor = f])
  <2>1. CASE e.floor = NoFloor
    <3>1. f = NoFloor
      BY <2>1 DEF Age, EngineState
    <3> HIDE DEF f
    <3> QED
      BY <2>1, <3>1 DEF EngineState, SameHold
  <2>2. CASE e.floor # NoFloor
    <3>1. e.floor \in FloorState
      BY <2>2 DEF EngineState
    <3>2. f = IF e.floor.started
              THEN [e.floor EXCEPT !.first = Older(@, TransmitTimeLimit),
                                   !.last = Older(@, MediaTimeout)]
              ELSE [e.floor EXCEPT !.granted = Older(@, GrantTimeout)]
      BY <2>2 DEF Age, EngineState
    <3> HIDE DEF f
    <3>3. \A limit \in Nat : \A a \in 0 .. limit + 1 : Older(a, limit) \in 0 .. limit + 1
      BY DEF Older
    <3>4. f \in FloorState /\ f.owner = e.floor.owner /\ f.stream = e.floor.stream
      BY <3>1, <3>2, <3>3, LimitsAssumption DEF FloorState
    <3>5. [e EXCEPT !.floor = f].floor = f
      BY DEF EngineState
    <3> QED
      BY <2>2, <3>4, <3>5, NilAssumption DEF SameHold
  <2> QED
    BY <2>1, <2>2
<1> HIDE DEF ss, f
<1>6. /\ Age(e) \in EngineState /\ Age(e).draining = e.draining
      /\ Age(e).sessions = ss /\ Age(e).floor = [e EXCEPT !.floor = f].floor
  BY <1>1, <1>3, <1>5 DEF EngineState
<1> QED
  BY <1>2, <1>4, <1>5, <1>6 DEF SameHold, Live

\* Time leaves the keys of the pending map alone.
LEMMA EarlierFit ==
    ASSUME NEW ns, PendingFit(ns)
    PROVE  PendingFit({Earlier(n) : n \in ns})
<1> DEFINE es == {Earlier(n) : n \in ns}
           f == [n \in ns |-> Earlier(n)]
<1>1. /\ ns \subseteq Notification /\ IsFiniteSet(ns)
      /\ Cardinality(ns) <= MaxPendingNotifications
      /\ \A m, n \in ns : m.listener = n.listener /\ m.tx = n.tx => m = n
  BY DEF PendingFit
<1>2. f \in Surjection(ns, es)
  BY DEF Surjection
<1>3. IsFiniteSet(es) /\ Cardinality(es) <= Cardinality(ns)
  <2> HIDE DEF f, es
  <2> QED
    BY <1>1, <1>2, FS_Surjection
<1>4. Cardinality(es) \in Nat /\ Cardinality(ns) \in Nat
  <2> HIDE DEF es
  <2> QED
    BY <1>1, <1>3, FS_CardinalityType
<1>5. Cardinality(es) <= MaxPendingNotifications
  <2> HIDE DEF es
  <2> QED
    BY <1>1, <1>3, <1>4, CapacityAssumption
<1>6. \A n \in ns : /\ Earlier(n) \in Notification
                    /\ Earlier(n).listener = n.listener /\ Earlier(n).tx = n.tx
  BY <1>1 DEF Earlier, Notification
<1>7. es \subseteq Notification
  BY <1>6
<1>8. \A m, n \in es : m.listener = n.listener /\ m.tx = n.tx => m = n
  <2> SUFFICES ASSUME NEW m \in ns, NEW n \in ns,
                      Earlier(m).listener = Earlier(n).listener, Earlier(m).tx = Earlier(n).tx
               PROVE  Earlier(m) = Earlier(n)
    OBVIOUS
  <2>1. m = n
    BY <1>1, <1>6
  <2> QED
    BY <2>1
<1> HIDE DEF es
<1>9. PendingFit(es)
  BY <1>3, <1>5, <1>7, <1>8 DEF PendingFit
<1> QED
  BY <1>9 DEF es

\* A unit of time ages both tables alike and touches nothing else.
LEMMA AgedGood ==
    ASSUME NEW r, Good(r, {}, {}), r.events = {}
    PROVE  /\ Good(Aged(r), {}, {}) /\ Alike(r, Aged(r))
           /\ Known(Aged(r)) = Known(r) /\ Aged(r).orders = r.orders
           /\ Aged(r).eng.draining = r.eng.draining
           /\ \A n \in r.pending : n.due = 0 => n \in Aged(r).pending
<1> DEFINE e == Age(r.eng)
           ps == AgePeers(r.peers)
           es == {Earlier(n) : n \in r.pending}
           s == Aged(r)
<1>1. /\ Fit(r) /\ r \in Handler /\ r.eng \in EngineState
      /\ r.peers \in [Ids -> Peer \cup {NoPeer}] /\ PendingFit(r.pending)
      /\ r.pending \subseteq Notification
  BY DEF Good, Sound, Fit, Handler, PendingFit
<1>2. s = [r EXCEPT !.eng = e, !.peers = ps, !.pending = es]
  BY <1>1 DEF Aged, Handler
<1>3. /\ e \in EngineState /\ e.draining = r.eng.draining /\ SameHold(r.eng, e)
      /\ \A i \in Ids : e.sessions[i] = NoSession <=> r.eng.sessions[i] = NoSession
      /\ \A i \in Live(r.eng) : /\ e.sessions[i].address = r.eng.sessions[i].address
                                /\ e.sessions[i].ready = r.eng.sessions[i].ready
                                /\ e.sessions[i].idle =
                                      Older(r.eng.sessions[i].idle, SessionTimeout)
  BY <1>1, AgeType
<1>4. PendingFit(es) /\ es \in SUBSET Notification
  <2>1. PendingFit(es)
    BY <1>1, EarlierFit
  <2> HIDE DEF es
  <2> QED
    BY <2>1 DEF PendingFit
<1>5. ASSUME NEW p \in Ids
      PROVE  /\ ps[p] \in Peer \cup {NoPeer} /\ (ps[p] = NoPeer <=> r.peers[p] = NoPeer)
             /\ r.peers[p] # NoPeer =>
                   /\ ps[p].address = r.peers[p].address /\ ps[p].ready = r.peers[p].ready
                   /\ ps[p].notified = r.peers[p].notified
                   /\ ps[p].idle = Older(r.peers[p].idle, SessionTimeout)
  <2>1. CASE r.peers[p] = NoPeer
    BY <2>1 DEF AgePeers
  <2>2. CASE r.peers[p] # NoPeer
    <3> DEFINE old == r.peers[p]
    <3>1. old \in Peer /\ ps[p] = [old EXCEPT !.idle = Older(@, SessionTimeout)]
      BY <1>1, <2>2 DEF AgePeers
    <3> HIDE DEF old, ps
    <3>2. Older(old.idle, SessionTimeout) \in 0 .. SessionTimeout + 1
      BY <3>1, LimitsAssumption DEF Peer, Older
    <3>3. /\ ps[p] \in Peer /\ ps[p].address = old.address /\ ps[p].ready = old.ready
          /\ ps[p].notified = old.notified
          /\ ps[p].idle = Older(old.idle, SessionTimeout)
      BY <3>1, <3>2 DEF Peer
    <3> QED
      BY <2>2, <3>3, EnvironmentAssumption DEF old
  <2> QED
    BY <2>1, <2>2
<1>6. ps \in [Ids -> Peer \cup {NoPeer}]
  BY <1>5 DEF AgePeers
<1>7. \A n \in r.pending :
         /\ Earlier(n).kind = n.kind /\ Earlier(n).owner = n.owner
         /\ Earlier(n).stream = n.stream
         /\ n.due = 0 => Earlier(n) = n
  BY <1>1 DEF Earlier, Notification
<1>8. /\ \A n \in es : \E m \in r.pending :
           n.kind = m.kind /\ n.owner = m.owner /\ n.stream = m.stream
      /\ \A n \in r.pending : n.due = 0 => n \in es
  BY <1>7
<1> HIDE DEF e, ps, es, s
<1>9. /\ s \in Handler /\ s.eng = e /\ s.peers = ps /\ s.pending = es
      /\ s.told = r.told /\ s.orders = r.orders /\ s.fails = r.fails /\ s.events = r.events
  BY <1>1, <1>2, <1>3, <1>4, <1>6 DEF Handler
<1>10. Known(s) = Known(r) /\ Known(r) \subseteq Ids
  BY <1>5, <1>9 DEF Known
<1>11. \A p \in Known(r) : /\ s.peers[p].address = r.peers[p].address
                           /\ s.peers[p].ready = r.peers[p].ready
                           /\ s.peers[p].notified = r.peers[p].notified
                           /\ s.peers[p].idle = Older(r.peers[p].idle, SessionTimeout)
  BY <1>5, <1>9 DEF Known
<1>12. \A p \in Live(r.eng) : s.peers[p].idle = s.eng.sessions[p].idle
  BY <1>3, <1>9, <1>11 DEF Good, Sound, Agree, Fit
<1>13. Good(s, {}, {})
  <2>1. \A p \in Known(r) : /\ s.peers[p].address = r.peers[p].address
                            /\ s.peers[p].ready = r.peers[p].ready
                            /\ s.peers[p].notified => r.peers[p].notified
    BY <1>11
  <2>2. \A p \in Live(r.eng) \ {} : s.peers[p].idle = s.eng.sessions[p].idle
    BY <1>12
  <2>3. /\ PendingFit(s.pending) /\ SameHold(r.eng, s.eng)
        /\ s.eng.draining = r.eng.draining
        /\ \A p \in Ids : s.eng.sessions[p] = NoSession <=> r.eng.sessions[p] = NoSession
        /\ \A p \in Live(r.eng) : /\ s.eng.sessions[p].address = r.eng.sessions[p].address
                                  /\ s.eng.sessions[p].ready = r.eng.sessions[p].ready
        /\ \A n \in s.pending : \E m \in r.pending :
              n.kind = m.kind /\ n.owner = m.owner /\ n.stream = m.stream
    BY <1>3, <1>4, <1>8, <1>9
  <2> QED
    BY <1>9, <1>10, <2>1, <2>2, <2>3, Reworked
<1>14. Alike(r, s)
  BY <1>3, <1>9, <1>10, <1>11 DEF Alike, SameHold
<1> QED
  BY <1>3, <1>8, <1>9, <1>10, <1>13, <1>14 DEF s

-----------------------------------------------------------------------------
(* The first lines of the handlers.                                        *)

\* engine.SetReady confirms one session.
LEMMA SetReadyType ==
    ASSUME NEW e \in EngineState, NEW id \in Ids
    PROVE  LET t == SetReady(e, id)
           IN  /\ t \in EngineState /\ t.floor = e.floor /\ t.draining = e.draining
               /\ Live(t) = Live(e)
               /\ id \in Live(e) => /\ t.sessions[id].address = e.sessions[id].address
                                    /\ t.sessions[id].ready = TRUE
               /\ \A i \in Ids \ {id} : t.sessions[i] = e.sessions[i]
<1>1. CASE id \in Live(e)
  <2> DEFINE v == [address |-> e.sessions[id].address, ready |-> TRUE, idle |-> 0]
             t == [e EXCEPT !.sessions[id] = v]
  <2>1. e.sessions[id] \in Session
    BY <1>1 DEF Live, EngineState
  <2>2. /\ v \in Session /\ v.address = e.sessions[id].address
        /\ v.ready = TRUE
    BY <2>1, LimitsAssumption DEF Session
  <2>3. SetReady(e, id) = t
    BY <1>1 DEF SetReady
  <2> HIDE DEF v
  <2>4. /\ t \in EngineState /\ t.floor = e.floor /\ t.draining = e.draining
        /\ t.sessions[id] = v /\ v # NoSession
        /\ \A i \in Ids \ {id} : t.sessions[i] = e.sessions[i]
    BY <2>2, NilAssumption DEF EngineState
  <2> HIDE DEF t
  <2>5. Live(t) = Live(e)
    BY <1>1, <2>4 DEF Live
  <2> QED
    BY <1>1, <2>2, <2>3, <2>4, <2>5
<1>2. CASE id \notin Live(e)
  BY <1>2 DEF SetReady
<1> QED
  BY <1>1, <1>2

\* handle for a KEEPALIVE, before it looks at the floor.
Confirmed(r, p) == [r EXCEPT !.peers[p].ready = TRUE, !.eng = SetReady(@, p)]

\* A KEEPALIVE confirms p in both tables; only its start may be missing.
LEMMA ConfirmedGood ==
    ASSUME NEW r, Good(r, {}, {}), r.events = {}, NEW p \in Known(r), NEW s, s = Confirmed(r, p)
    PROVE  /\ Good(s, {p}, {p}) /\ Alike(r, s) /\ p \in Known(s) /\ s.peers[p].ready
           /\ Known(s) = Known(r) /\ s.orders = r.orders
           /\ ~JoinedLate(s, p) => Good(s, {}, {p})
<1> DEFINE e == SetReady(r.eng, p)
           v == [r.peers[p] EXCEPT !.ready = TRUE]
           ps == [r.peers EXCEPT ![p] = v]
<1>1. /\ Fit(r) /\ r \in Handler /\ r.eng \in EngineState /\ p \in Ids
      /\ r.peers[p] \in Peer /\ PendingFit(r.pending) /\ Known(r) \subseteq Ids
  BY DEF Good, Sound, Fit, Handler, Known
<1>2. s = [r EXCEPT !.peers = ps, !.eng = e]
  BY <1>1 DEF Confirmed, Handler
<1>3. /\ e \in EngineState /\ e.floor = r.eng.floor /\ e.draining = r.eng.draining
      /\ Live(e) = Live(r.eng)
      /\ p \in Live(r.eng) => /\ e.sessions[p].address = r.eng.sessions[p].address
                              /\ e.sessions[p].ready = TRUE
      /\ \A i \in Ids \ {p} : e.sessions[i] = r.eng.sessions[i]
  BY <1>1, SetReadyType
<1>4. /\ v \in Peer /\ v.address = r.peers[p].address /\ v.ready = TRUE
      /\ v.notified = r.peers[p].notified /\ v # NoPeer
  BY <1>1, EnvironmentAssumption DEF Peer
<1> HIDE DEF e, v
<1>5. ps \in [Ids -> Peer \cup {NoPeer}] /\ ps[p] = v /\ \A q \in Ids \ {p} : ps[q] = r.peers[q]
  BY <1>1, <1>4 DEF Handler
<1> HIDE DEF ps
<1>6. /\ s \in Handler /\ s.peers = ps /\ s.eng = e /\ s.pending = r.pending
      /\ s.told = r.told /\ s.orders = r.orders /\ s.fails = r.fails /\ s.events = r.events
  BY <1>1, <1>2, <1>3, <1>5 DEF Handler
<1>7. Known(s) = Known(r)
  BY <1>4, <1>5, <1>6 DEF Known
<1>8. s.peers[p] = v /\ \A q \in Known(r) \ {p} : s.peers[q] = r.peers[q]
  BY <1>1, <1>5, <1>6
<1>9. Fit(s)
  BY <1>1, <1>3, <1>6, <1>7 DEF Fit
<1>10. Agree(s, {p})
  <2>1. /\ Live(r.eng) \subseteq Known(r)
        /\ \A q \in Live(r.eng) : /\ r.peers[q].address = r.eng.sessions[q].address
                                  /\ r.peers[q].ready = r.eng.sessions[q].ready
                                  /\ r.peers[q].idle = r.eng.sessions[q].idle
        /\ Drift = 0 => Known(r) \subseteq Live(r.eng)
    BY DEF Good, Sound, Agree, Fit
  <2>2. /\ Live(s.eng) = Live(r.eng)
        /\ Drift = 0 => Known(s) \subseteq Live(s.eng)
    BY <1>3, <1>6, <1>7, <2>1
  <2>3. p \in Live(r.eng) => /\ s.peers[p].address = s.eng.sessions[p].address
                             /\ s.peers[p].ready = s.eng.sessions[p].ready
    BY <1>3, <1>4, <1>6, <1>8, <2>1, ZenonT(30)
  <2>4. \A q \in Live(r.eng) \ {p} : /\ s.peers[q].address = s.eng.sessions[q].address
                                     /\ s.peers[q].ready = s.eng.sessions[q].ready
                                     /\ s.peers[q].idle = s.eng.sessions[q].idle
    BY <1>1, <1>3, <1>6, <1>7, <1>8, <2>1
  <2> QED
    BY <2>2, <2>3, <2>4 DEF Agree
<1>11. Readied(s)
  <2>1. \A q \in Known(r) : /\ q \in Live(r.eng) /\ r.eng.sessions[q].ready => r.peers[q].ready
                            /\ r.peers[q].notified => r.peers[q].ready
    BY DEF Good, Sound, Readied
  <2> QED
    BY <1>1, <1>3, <1>4, <1>6, <1>7, <1>8, <2>1 DEF Readied
<1>12. Homed(s)
  BY <1>4, <1>7, <1>8 DEF Homed, Good, Sound
<1>13. Told(s, {p})
  BY <1>3, <1>6, <1>7, <1>8 DEF Told, Good, Sound
<1>14. WelcomeSpares => StartsHeld(s)
  BY <1>3, <1>6 DEF Good, StartsHeld, Held
<1>15. Good(s, {p}, {p})
  BY <1>6, <1>7, <1>9, <1>10, <1>11, <1>12, <1>13, <1>14 DEF Good, Sound
<1>16. ASSUME ~JoinedLate(s, p) PROVE Good(s, {}, {p})
  <2>1. s.eng.floor # NoFloor /\ p # s.eng.floor.owner => r.peers[p].notified
    BY <1>4, <1>8, <1>16 DEF JoinedLate
  <2>2. r.peers[p].notified => r.peers[p].ready
    BY DEF Good, Sound, Readied
  <2>3. StartSpares /\ s.eng.floor # NoFloor /\ p # s.eng.floor.owner => p \in s.told
    BY <1>3, <1>6, <2>1, <2>2 DEF Good, Sound, Told
  <2>4. Told(s, {})
    BY <1>13, <2>3 DEF Told
  <2> QED
    BY <1>15, <2>4 DEF Good, Sound
<1>17. Alike(r, s)
  BY <1>3, <1>4, <1>6, <1>8 DEF Alike
<1> QED
  BY <1>4, <1>6, <1>7, <1>8, <1>15, <1>16, <1>17

\* A refresh sets the activity time of one session back.
LEMMA RefreshType ==
    ASSUME NEW e \in EngineState, NEW id \in Live(e)
    PROVE  LET t == Refresh(e, id)
           IN  /\ t \in EngineState /\ t.floor = e.floor /\ t.draining = e.draining
               /\ t.gaps = e.gaps
               /\ \A i \in Ids : t.sessions[i] = NoSession <=> e.sessions[i] = NoSession
               /\ \A i \in Live(e) : /\ t.sessions[i].address = e.sessions[i].address
                                     /\ t.sessions[i].ready = e.sessions[i].ready
                                     /\ i # id => t.sessions[i].idle = e.sessions[i].idle
<1> DEFINE v == [e.sessions[id] EXCEPT !.idle = 0]
           t == [e EXCEPT !.sessions[id] = v]
<1>1. e.sessions[id] \in Session /\ id \in Ids
  BY DEF Live, EngineState
<1>2. /\ v \in Session /\ v.address = e.sessions[id].address
      /\ v.ready = e.sessions[id].ready
  BY <1>1, LimitsAssumption DEF Session
<1>3. Refresh(e, id) = t
  BY <1>1 DEF Refresh, EngineState
<1> HIDE DEF v
<1>4. /\ t \in EngineState /\ t.floor = e.floor /\ t.draining = e.draining /\ t.gaps = e.gaps
      /\ t.sessions[id] = v /\ v # NoSession
      /\ \A i \in Ids \ {id} : t.sessions[i] = e.sessions[i]
  BY <1>1, <1>2, NilAssumption DEF EngineState
<1> HIDE DEF t
<1> QED
  BY <1>1, <1>2, <1>3, <1>4 DEF Live

\* The engine has answered a frame or a request of p that left the hold alone.
LEMMA RefreshedGood ==
    ASSUME NEW r, Good(r, {}, {}), r.events = {}, NEW p \in Ids,
           NEW e \in EngineState, SameHold(r.eng, e),
           e.draining = r.eng.draining,
           \A i \in Ids : e.sessions[i] = NoSession <=> r.eng.sessions[i] = NoSession,
           \A i \in Live(r.eng) : /\ e.sessions[i].address = r.eng.sessions[i].address
                                  /\ e.sessions[i].ready = r.eng.sessions[i].ready
                                  /\ i # p => e.sessions[i].idle = r.eng.sessions[i].idle
    PROVE  /\ Good([r EXCEPT !.eng = e], {}, {p}) /\ Alike(r, [r EXCEPT !.eng = e])
           /\ Known([r EXCEPT !.eng = e]) = Known(r) /\ [r EXCEPT !.eng = e].orders = r.orders
<1> DEFINE s == [r EXCEPT !.eng = e]
<1>1. Fit(r) /\ r \in Handler /\ PendingFit(r.pending)
  BY DEF Good, Sound, Fit
<1>2. /\ s \in Handler /\ s.eng = e /\ s.peers = r.peers /\ s.pending = r.pending
      /\ s.told = r.told /\ s.orders = r.orders /\ s.fails = r.fails
      /\ s.events = r.events /\ Known(s) = Known(r)
  BY <1>1, EngineFields
<1> HIDE DEF s
<1>3. \A q \in Live(r.eng) \ {p} : s.peers[q].idle = s.eng.sessions[q].idle
  BY <1>2 DEF Good, Sound, Agree
<1>4. Good(s, {}, {p})
  BY <1>1, <1>2, <1>3, Reworked
<1>5. Alike(r, s)
  BY <1>2 DEF Alike, SameHold
<1> QED
  BY <1>2, <1>4, <1>5 DEF s

\* handle for a STREAM_REQUEST once the engine has answered it, and the event
\* of a grant.
Asked(r, p, stream) == [r EXCEPT !.eng = RequestFloor(@, p, stream)]
GrantedTo(r, p, stream) ==
    [Asked(r, p, stream) EXCEPT !.events = @ \cup {StreamGranted(p, stream)}]

\* A request that is rejected or finds the floor busy refreshes p at most.
LEMMA NotGrantedGood ==
    ASSUME NEW r, Good(r, {}, {}), r.events = {}, NEW p \in Ids, NEW stream,
           FloorResult(r.eng, p, stream) # "granted",
           NEW s, s = Asked(r, p, stream)
    PROVE  /\ Good(s, {}, {p}) /\ Alike(r, s) /\ Known(s) = Known(r) /\ s.orders = r.orders
<1> DEFINE e == RequestFloor(r.eng, p, stream)
<1>1. r.eng \in EngineState /\ r \in Handler
  BY DEF Good, Sound, Fit, Handler
<1>2. s = [r EXCEPT !.eng = e]
  BY <1>1 DEF Handler, Asked
<1>3. \/ FloorResult(r.eng, p, stream) = "rejected" /\ e = r.eng
      \/ /\ FloorResult(r.eng, p, stream) = "busy" /\ e = Refresh(r.eng, p)
         /\ p \in Live(r.eng)
  BY DEF RequestFloor, FloorResult, IsReady
<1> HIDE DEF e
<1>4. /\ e \in EngineState /\ SameHold(r.eng, e) /\ e.draining = r.eng.draining
      /\ \A i \in Ids : e.sessions[i] = NoSession <=> r.eng.sessions[i] = NoSession
      /\ \A i \in Live(r.eng) : /\ e.sessions[i].address = r.eng.sessions[i].address
                                /\ e.sessions[i].ready = r.eng.sessions[i].ready
                                /\ i # p => e.sessions[i].idle = r.eng.sessions[i].idle
  <2>1. CASE e = r.eng
    BY <1>1, <2>1 DEF SameHold
  <2>2. CASE e = Refresh(r.eng, p) /\ p \in Live(r.eng)
    BY <1>1, <2>2, RefreshType DEF SameHold
  <2> QED
    BY <1>3, <2>1, <2>2
<1>5. /\ Good([r EXCEPT !.eng = e], {}, {p}) /\ Alike(r, [r EXCEPT !.eng = e])
      /\ Known([r EXCEPT !.eng = e]) = Known(r) /\ [r EXCEPT !.eng = e].orders = r.orders
  BY <1>4, RefreshedGood
<1> QED
  BY <1>2, <1>5

\* A granted request gives p the floor: now everybody is still to be told.
LEMMA GrantedGood ==
    ASSUME NEW r, Good(r, {}, {}), r.events = {}, NEW p \in Ids, NEW stream \in Streams,
           FloorResult(r.eng, p, stream) = "granted",
           NEW s, s = GrantedTo(r, p, stream)
    PROVE  /\ Good(s, Ids, {p}) /\ Held(s, p, stream) /\ Alike(r, s) /\ p \in Known(s)
           /\ Known(s) = Known(r) /\ s.orders = r.orders
<1> DEFINE d == Refresh(r.eng, p)
           f == Granted(p, stream)
           e == RequestFloor(r.eng, p, stream)
           evs == r.events \cup {StreamGranted(p, stream)}
<1>1. Fit(r) /\ r \in Handler /\ r.eng \in EngineState /\ Known(r) \subseteq Ids
  BY DEF Good, Sound, Fit, Handler, Known
<1>2. p \in Live(r.eng) /\ r.eng.floor = NoFloor /\ ~r.eng.draining
  BY DEF FloorResult, IsReady
<1>3. f \in FloorState /\ f.owner = p /\ f.stream = stream /\ f # NoFloor
  <2>1. f \in FloorState
    BY LimitsAssumption, HalfAssumption, TimestampsAssumption
       DEF Granted, FloorState, Sequences32, SeqSpace
  <2> QED
    BY <2>1, NilAssumption DEF Granted
<1>4. /\ d \in EngineState /\ d.draining = r.eng.draining
      /\ \A i \in Ids : d.sessions[i] = NoSession <=> r.eng.sessions[i] = NoSession
      /\ \A i \in Live(r.eng) : /\ d.sessions[i].address = r.eng.sessions[i].address
                                /\ d.sessions[i].ready = r.eng.sessions[i].ready
                                /\ i # p => d.sessions[i].idle = r.eng.sessions[i].idle
  BY <1>1, <1>2, RefreshType
<1>5. e = [d EXCEPT !.floor = f]
  BY DEF RequestFloor
<1>6. s = [r EXCEPT !.eng = e, !.events = evs]
  BY <1>1 DEF Handler, Asked, GrantedTo
<1> HIDE DEF d, f, e
<1>7. /\ e \in EngineState /\ e.sessions = d.sessions /\ e.floor = f /\ e.draining = d.draining
  BY <1>3, <1>4, <1>5 DEF EngineState
<1>8. /\ s \in Handler /\ s.eng = e /\ s.peers = r.peers /\ s.pending = r.pending
      /\ s.told = r.told /\ s.orders = r.orders /\ s.fails = r.fails
      /\ s.events = {StreamGranted(p, stream)} /\ Known(s) = Known(r)
  <2>1. StreamGranted(p, stream) \in Event
    BY DEF StreamGranted, Event
  <2>2. evs = {StreamGranted(p, stream)} /\ evs \in SUBSET Event
    BY <2>1
  <2> HIDE DEF evs
  <2>3. /\ s \in Handler /\ s.eng = e /\ s.peers = r.peers /\ s.pending = r.pending
        /\ s.told = r.told /\ s.orders = r.orders /\ s.fails = r.fails /\ s.events = evs
    BY <1>1, <1>6, <1>7, <2>2 DEF Handler
  <2> QED
    BY <2>2, <2>3 DEF Known
<1>9. Live(s.eng) = Live(r.eng)
  BY <1>4, <1>7, <1>8 DEF Live
<1>10. Fit(s)
  BY <1>1, <1>2, <1>3, <1>4, <1>7, <1>8, <1>9 DEF Fit
<1>11. Agree(s, {p})
  BY <1>4, <1>7, <1>8, <1>9 DEF Good, Sound, Agree
<1>12. Readied(s)
  BY <1>4, <1>7, <1>8, <1>9 DEF Good, Sound, Readied
<1>13. Homed(s) /\ Told(s, Ids)
  BY <1>1, <1>8 DEF Good, Sound, Homed, Told
<1>14. WelcomeSpares => StartsHeld(s)
  BY <1>2, <1>8 DEF Good, StartsHeld, Held
<1>15. Good(s, Ids, {p})
  BY <1>8, <1>10, <1>11, <1>12, <1>13, <1>14 DEF Good, Sound
<1>16. Held(s, p, stream) /\ p \in Known(s)
  BY <1>1, <1>2, <1>3, <1>7, <1>8 DEF Held, Fit
<1>17. Alike(r, s)
  <2>1. \A o \in Ids, t \in Streams :
           StreamGranted(o, t) = StreamGranted(p, stream) => o = p /\ t = stream
    BY DEF StreamGranted
  <2> QED
    BY <1>2, <1>4, <1>7, <1>8, <1>16, <2>1 DEF Alike
<1> QED
  BY <1>8, <1>15, <1>16, <1>17

\* sequence - expected is a natural number.
LEMMA DistanceType ==
    ASSUME NEW s \in Sequences32, NEW t \in Sequences32
    PROVE  Distance(s, t) \in Nat
  BY HalfAssumption DEF Sequences32, SeqSpace, Distance

\* A frame skips a natural number of frames.
LEMMA SkippedType ==
    ASSUME NEW f \in FloorState, NEW s \in Sequences32
    PROVE  Skipped(f, s) \in Nat
  BY SuccessorType, DistanceType DEF Skipped, FloorState

\* A frame leaves the hold alone.
LEMMA MediaGood ==
    ASSUME NEW r, Good(r, {}, {}), r.events = {}, NEW p \in Live(r.eng),
           NEW sequence \in Sequences32,
           NEW timestamp \in Timestamps, r.eng.floor # NoFloor,
           NEW s, s = [r EXCEPT !.eng = Media(@, p, sequence, timestamp)]
    PROVE  /\ Good(s, {}, {p}) /\ Alike(r, s) /\ Known(s) = Known(r) /\ s.orders = r.orders
<1> DEFINE d == Refresh(r.eng, p)
           old == r.eng.floor
           f == [old EXCEPT !.started = TRUE, !.first = IF old.started THEN @ ELSE 0,
                            !.last = 0, !.hasPrior = TRUE,
                            !.prior = sequence, !.timestamp = timestamp]
           g == r.eng.gaps + Skipped(old, sequence)
           e == Media(r.eng, p, sequence, timestamp)
<1>1. /\ Fit(r) /\ r \in Handler /\ r.eng \in EngineState /\ p \in Ids
      /\ old \in FloorState /\ r.eng.gaps \in Nat
  BY DEF Good, Sound, Fit, Handler, Live, EngineState
<1>2. /\ d \in EngineState /\ d.draining = r.eng.draining /\ d.gaps = r.eng.gaps
      /\ \A i \in Ids : d.sessions[i] = NoSession <=> r.eng.sessions[i] = NoSession
      /\ \A i \in Live(r.eng) : /\ d.sessions[i].address = r.eng.sessions[i].address
                                /\ d.sessions[i].ready = r.eng.sessions[i].ready
                                /\ i # p => d.sessions[i].idle = r.eng.sessions[i].idle
  BY <1>1, RefreshType
<1>3. f \in FloorState /\ f.owner = old.owner /\ f.stream = old.stream /\ f # NoFloor
  <2> DEFINE first == IF old.started THEN old.first ELSE 0
  <2>1. first \in 0 .. TransmitTimeLimit + 1 /\ 0 \in 0 .. MediaTimeout + 1
    BY <1>1, LimitsAssumption DEF FloorState
  <2>2. f = [old EXCEPT !.started = TRUE, !.first = first, !.last = 0,
                        !.hasPrior = TRUE, !.prior = sequence, !.timestamp = timestamp]
    BY <1>1 DEF FloorState
  <2> HIDE DEF first, f, old
  <2>3. f \in FloorState /\ f.owner = old.owner /\ f.stream = old.stream
    BY <1>1, <2>1, <2>2 DEF FloorState
  <2> QED
    BY <2>3, NilAssumption
<1>4. g \in Nat
  BY <1>1, SkippedType
<1>5. e = [d EXCEPT !.gaps = g, !.floor = f]
  BY <1>2 DEF Media, EngineState
<1>6. s = [r EXCEPT !.eng = e]
  BY <1>1 DEF Handler
<1>7. SameHold(r.eng, [r.eng EXCEPT !.floor = f])
  <2>1. [r.eng EXCEPT !.floor = f].floor = f
    BY <1>1 DEF EngineState
  <2> HIDE DEF f
  <2> QED
    BY <1>3, <2>1 DEF SameHold
<1> HIDE DEF d, f, g, e, old
<1>8. /\ e \in EngineState /\ e.sessions = d.sessions /\ e.floor = f /\ e.draining = d.draining
  BY <1>2, <1>3, <1>4, <1>5 DEF EngineState
<1>9. SameHold(r.eng, e)
  BY <1>3, <1>8 DEF SameHold, old
<1>10. /\ Good([r EXCEPT !.eng = e], {}, {p}) /\ Alike(r, [r EXCEPT !.eng = e])
       /\ Known([r EXCEPT !.eng = e]) = Known(r) /\ [r EXCEPT !.eng = e].orders = r.orders
  BY <1>1, <1>2, <1>8, <1>9, RefreshedGood
<1> QED
  BY <1>6, <1>10

\* authenticate, with the WELCOME still to be sent.
Welcomed(r, id, address) ==
    [r EXCEPT !.eng = AddSession(@, id, address, FALSE),
              !.peers[id] = [address |-> address, ready |-> FALSE, notified |-> FALSE,
                             receiving |-> FALSE, idle |-> 0]]

\* A session that is admitted is new to both tables and owns nothing.
LEMMA WelcomedGood ==
    ASSUME NEW r, Good(r, {}, {}), r.events = {}, NEW id \in Ids, NEW address \in Addresses,
           CanAdd(r.eng, id), id \notin Known(r), <<id, address>> \in Homes,
           NEW s, s = Welcomed(r, id, address)
    PROVE  /\ Good(s, {}, {}) /\ Alike(r, s) /\ Known(s) = Known(r) \cup {id}
           /\ s.orders = r.orders /\ ~Owns(s.eng, id)
<1> DEFINE e == AddSession(r.eng, id, address, FALSE)
           x == [address |-> address, ready |-> FALSE, idle |-> 0]
           v == [address |-> address, ready |-> FALSE, notified |-> FALSE,
                 receiving |-> FALSE, idle |-> 0]
           ps == [r.peers EXCEPT ![id] = v]
<1>1. /\ Fit(r) /\ r \in Handler /\ r.eng \in EngineState
      /\ Known(r) \subseteq Ids /\ id \notin Live(r.eng) /\ IsFiniteSet(Known(r))
  BY DEF Good, Sound, Fit, Handler, Known, CanAdd
<1>2. s = [r EXCEPT !.eng = e, !.peers = ps]
  BY <1>1 DEF Welcomed, Handler
<1>3. /\ v \in Peer /\ v # NoPeer /\ v.address = address
      /\ v.ready = FALSE /\ v.notified = FALSE /\ v.idle = 0
  <2>1. 0 \in 0 .. SessionTimeout + 1
    BY LimitsAssumption
  <2>2. v \in Peer
    BY <2>1 DEF Peer
  <2> QED
    BY <2>2, EnvironmentAssumption
<1>4. /\ x \in Session /\ x # NoSession /\ x.address = address
      /\ x.ready = FALSE /\ x.idle = 0
  <2>1. 0 \in 0 .. SessionTimeout + 1
    BY LimitsAssumption
  <2>2. x \in Session
    BY <2>1 DEF Session
  <2> QED
    BY <2>2, NilAssumption
<1>5. e = [r.eng EXCEPT !.sessions[id] = x]
  BY DEF AddSession
<1> HIDE DEF e, x, v
<1>6. /\ e \in EngineState /\ e.floor = r.eng.floor /\ e.draining = r.eng.draining
      /\ e.sessions[id] = x /\ \A i \in Ids \ {id} : e.sessions[i] = r.eng.sessions[i]
  BY <1>1, <1>4, <1>5 DEF EngineState
<1>7. ps \in [Ids -> Peer \cup {NoPeer}] /\ ps[id] = v /\ \A q \in Ids \ {id} : ps[q] = r.peers[q]
  BY <1>1, <1>3 DEF Handler
<1> HIDE DEF ps
<1>8. /\ s \in Handler /\ s.peers = ps /\ s.eng = e /\ s.pending = r.pending
      /\ s.told = r.told /\ s.orders = r.orders /\ s.fails = r.fails /\ s.events = r.events
  BY <1>1, <1>2, <1>6, <1>7 DEF Handler
<1>9. Known(s) = Known(r) \cup {id} /\ Live(s.eng) = Live(r.eng) \cup {id}
  BY <1>1, <1>3, <1>4, <1>6, <1>7, <1>8 DEF Known, Live
<1>10. s.peers[id] = v /\ \A q \in Known(r) : q # id /\ s.peers[q] = r.peers[q]
  BY <1>1, <1>7, <1>8
<1>11. Fit(s) /\ ~Owns(s.eng, id)
  <2>1. s.eng.floor # NoFloor => s.eng.floor.owner \in Live(r.eng) /\ ~s.eng.draining
    BY <1>1, <1>6, <1>8 DEF Fit
  <2> QED
    BY <1>1, <1>6, <1>8, <1>9, <2>1 DEF Fit, Owns
<1>12. IsFiniteSet(Known(s))
  BY <1>1, <1>9, FS_AddElement
<1>13. Agree(s, {})
  <2>1. /\ Live(r.eng) \subseteq Known(r)
        /\ \A q \in Live(r.eng) : /\ r.peers[q].address = r.eng.sessions[q].address
                                  /\ r.peers[q].ready = r.eng.sessions[q].ready
                                  /\ r.peers[q].idle = r.eng.sessions[q].idle
        /\ Drift = 0 => Known(r) \subseteq Live(r.eng)
    BY DEF Good, Sound, Agree, Fit
  <2>2. \A q \in Known(r) : s.eng.sessions[q] = r.eng.sessions[q]
    BY <1>1, <1>6, <1>8, <1>10
  <2> QED
    <3>1. Drift = 0 => Known(s) \subseteq Live(s.eng)
      BY <1>9, <2>1
    <3>2. /\ s.peers[id].address = s.eng.sessions[id].address
          /\ s.peers[id].ready = s.eng.sessions[id].ready
          /\ s.peers[id].idle = s.eng.sessions[id].idle
      BY <1>3, <1>4, <1>6, <1>8, <1>10
    <3>3. \A q \in Live(r.eng) : /\ s.peers[q].address = s.eng.sessions[q].address
                                 /\ s.peers[q].ready = s.eng.sessions[q].ready
                                 /\ s.peers[q].idle = s.eng.sessions[q].idle
      BY <1>10, <2>1, <2>2
    <3> QED
      BY <1>9, <3>1, <3>2, <3>3 DEF Agree
<1>14. Readied(s)
  <2>1. \A q \in Known(r) : /\ q \in Live(r.eng) /\ r.eng.sessions[q].ready => r.peers[q].ready
                            /\ r.peers[q].notified => r.peers[q].ready
    BY DEF Good, Sound, Readied
  <2>2. \A q \in Known(r) : s.eng.sessions[q] = r.eng.sessions[q]
    BY <1>1, <1>6, <1>8, <1>10
  <2> QED
    BY <1>3, <1>4, <1>6, <1>8, <1>9, <1>10, <2>1, <2>2 DEF Readied
<1>15. Homed(s)
  BY <1>3, <1>9, <1>10 DEF Homed, Good, Sound
<1>16. Told(s, {})
  BY <1>3, <1>6, <1>8, <1>9, <1>10 DEF Told, Good, Sound
<1>17. WelcomeSpares => StartsHeld(s)
  BY <1>6, <1>8 DEF Good, StartsHeld, Held
<1>18. Alike(r, s)
  BY <1>6, <1>8, <1>10 DEF Alike
<1> QED
  BY <1>8, <1>9, <1>11, <1>12, <1>13, <1>14, <1>15, <1>16, <1>17, <1>18 DEF Good, Sound

\* Exceptions ask for less.
LEMMA WeakerGood ==
    ASSUME NEW r, NEW Y, NEW X, Good(r, {}, {})
    PROVE  Good(r, Y, X)
  BY DEF Good, Sound, Told, Agree

-----------------------------------------------------------------------------
(* Whole handlers.                                                         *)

\* The acknowledgement of n.
Acked(r, n) ==
    LET p == n.listener
        q == [r EXCEPT !.pending = @ \ {n}]
    IN  CASE n.kind = "STREAM_START" -> [q EXCEPT !.peers[p].receiving = TRUE]
          [] n.kind = "STREAM_REVOKE" ->
               [q EXCEPT !.peers[p].notified = FALSE, !.peers[p].receiving = FALSE]
          [] n.kind = "DISCONNECT" -> DisconnectPeer(q, p)

\* Notifications may always go.
LEMMA FewerGood ==
    ASSUME NEW r, Good(r, {}, {}), NEW ns, ns \subseteq r.pending,
           NEW s, s = [r EXCEPT !.pending = ns]
    PROVE  /\ Good(s, {}, {}) /\ Known(s) = Known(r) /\ s.eng = r.eng /\ s.peers = r.peers
           /\ s.pending = ns /\ s.orders = r.orders /\ s.events = r.events
<1>1. /\ Fit(r) /\ r \in Handler /\ PendingFit(r.pending)
      /\ r.pending \subseteq Notification
  BY DEF Good, Sound, Fit, PendingFit
<1>2. PendingFit(ns)
  BY <1>1, FewerFit
<1>3. /\ s \in Handler /\ s.eng = r.eng /\ s.peers = r.peers /\ s.pending = ns
      /\ s.told = r.told /\ s.orders = r.orders /\ s.fails = r.fails /\ s.events = r.events
  BY <1>1 DEF Handler
<1>4. Known(s) = Known(r)
  BY <1>3 DEF Known
<1>5. \A q \in Live(r.eng) \ {} : s.peers[q].idle = s.eng.sessions[q].idle
  BY <1>3 DEF Good, Sound, Agree
<1>6. SameHold(r.eng, s.eng)
  BY <1>3 DEF SameHold
<1>7. Good(s, {}, {})
  BY <1>2, <1>3, <1>4, <1>5, <1>6, Reworked
<1> QED
  BY <1>3, <1>4, <1>7

\* Flags of a peer may change, as long as none is marked as notified.
LEMMA FlagsGood ==
    ASSUME NEW r, Good(r, {}, {}), NEW p \in Known(r), NEW v \in Peer,
           v.address = r.peers[p].address, v.ready = r.peers[p].ready,
           v.idle = r.peers[p].idle, v.notified => r.peers[p].notified
    PROVE  /\ Good(SetPeer(r, p, v), {}, {}) /\ Known(SetPeer(r, p, v)) = Known(r)
           /\ SetPeer(r, p, v).eng = r.eng /\ SetPeer(r, p, v).events = r.events
<1> DEFINE s == SetPeer(r, p, v)
<1>1. /\ Fit(r) /\ r \in Handler /\ PendingFit(r.pending) /\ p \in Ids
      /\ r.peers \in [Ids -> Peer \cup {NoPeer}] /\ v # NoPeer
  BY EnvironmentAssumption DEF Good, Sound, Fit, Handler, Known
<1>2. /\ s \in Handler /\ s.peers = [r.peers EXCEPT ![p] = v]
      /\ s.eng = r.eng /\ s.pending = r.pending /\ s.told = r.told /\ s.fails = r.fails
      /\ s.events = r.events
  BY <1>1, SetPeerFields
<1> HIDE DEF s
<1>3. /\ Known(s) = Known(r)
      /\ s.peers[p] = v
      /\ \A q \in Known(r) \ {p} : s.peers[q] = r.peers[q]
  BY <1>1, <1>2 DEF Known
<1>4. \A q \in Known(r) : /\ s.peers[q].address = r.peers[q].address
                          /\ s.peers[q].ready = r.peers[q].ready
                          /\ s.peers[q].idle = r.peers[q].idle
                          /\ s.peers[q].notified => r.peers[q].notified
  BY <1>3
<1>5. Fit(s) /\ IsFiniteSet(Known(s))
  BY <1>1, <1>2, <1>3 DEF Fit, Good, Sound
<1>6. Agree(s, {}) /\ Readied(s)
  BY <1>2, <1>3, <1>4 DEF Good, Sound, Agree, Readied, Fit
<1>7. Homed(s) /\ Told(s, {})
  BY <1>2, <1>3, <1>4 DEF Good, Sound, Homed, Told
<1>8. WelcomeSpares => StartsHeld(s)
  BY <1>2 DEF Good, StartsHeld, Held
<1>9. Good(s, {}, {})
  BY <1>2, <1>5, <1>6, <1>7, <1>8 DEF Good, Sound
<1> QED
  BY <1>2, <1>3, <1>9 DEF s

\* An acknowledgement, of whatever kind and however late, leads to an outcome.
LEMMA AckedOutcome ==
    ASSUME NEW h, Good(h, {}, {}), h.events = {}, NEW n \in h.pending, n.listener \in Known(h)
    PROVE  Outcome(h, Acked(h, n))
<1> DEFINE p == n.listener
           q == [h EXCEPT !.pending = @ \ {n}]
           s == Acked(h, n)
<1>1. /\ Fit(h) /\ h \in Handler /\ p \in Ids /\ h.peers[p] \in Peer /\ n.kind \in Kinds
  BY DEF Good, Sound, Fit, PendingFit, Handler, Known, Notification
<1>2. q = [h EXCEPT !.pending = h.pending \ {n}]
  BY <1>1 DEF Handler
<1>3. /\ Good(q, {}, {}) /\ Known(q) = Known(h) /\ q.eng = h.eng /\ q.peers = h.peers
      /\ q.pending = h.pending \ {n} /\ q.events = {}
  BY <1>2, FewerGood
<1>4. s = CASE n.kind = "STREAM_START" -> [q EXCEPT !.peers[p].receiving = TRUE]
            [] n.kind = "STREAM_REVOKE" ->
                 [q EXCEPT !.peers[p].notified = FALSE, !.peers[p].receiving = FALSE]
            [] n.kind = "DISCONNECT" -> DisconnectPeer(q, p)
  BY DEF Acked
<1> HIDE DEF q, s
<1>5. q \in Handler /\ Fit(q) /\ p \in Known(q)
  BY <1>3 DEF Good, Sound, Fit
<1>6. ASSUME NEW t, Good(t, {}, {}), t.eng.floor = h.eng.floor,
             t.eng.draining = h.eng.draining, t.events = {}
      PROVE  Outcome(h, t)
  BY <1>6 DEF Outcome, Announces, Held
<1>7. CASE n.kind = "STREAM_START"
  <2> DEFINE v == [h.peers[p] EXCEPT !.receiving = TRUE]
  <2>1. s = SetPeer(q, p, v)
    <3>1. s = [q EXCEPT !.peers[p].receiving = TRUE]
      BY <1>4, <1>7
    <3> QED
      BY <1>3, <1>5, <3>1 DEF SetPeer, Handler
  <2>2. /\ v \in Peer /\ v.address = h.peers[p].address /\ v.ready = h.peers[p].ready
        /\ v.idle = h.peers[p].idle /\ v.notified = h.peers[p].notified
    BY <1>1 DEF Peer
  <2> HIDE DEF v
  <2>3. /\ v.address = q.peers[p].address /\ v.ready = q.peers[p].ready
        /\ v.idle = q.peers[p].idle /\ (v.notified => q.peers[p].notified)
    BY <1>3, <2>2
  <2>4. /\ Good(SetPeer(q, p, v), {}, {}) /\ SetPeer(q, p, v).eng = q.eng
        /\ SetPeer(q, p, v).events = q.events
    BY <1>3, <1>5, <2>2, <2>3, FlagsGood, Zenon
  <2>5. Good(s, {}, {}) /\ s.eng = h.eng /\ s.events = {}
    BY <1>3, <2>1, <2>4
  <2> QED
    BY <1>6, <2>5 DEF s
<1>8. CASE n.kind = "STREAM_REVOKE"
  <2> DEFINE v == [h.peers[p] EXCEPT !.notified = FALSE, !.receiving = FALSE]
  <2>1. s = SetPeer(q, p, v)
    <3>1. s = [q EXCEPT !.peers[p].notified = FALSE, !.peers[p].receiving = FALSE]
      BY <1>4, <1>8
    <3> QED
      BY <1>3, <1>5, <3>1 DEF SetPeer, Handler
  <2>2. /\ v \in Peer /\ v.address = h.peers[p].address /\ v.ready = h.peers[p].ready
        /\ v.idle = h.peers[p].idle /\ v.notified = FALSE
    BY <1>1 DEF Peer
  <2> HIDE DEF v
  <2>3. /\ v.address = q.peers[p].address /\ v.ready = q.peers[p].ready
        /\ v.idle = q.peers[p].idle /\ (v.notified => q.peers[p].notified)
    BY <1>3, <2>2
  <2>4. /\ Good(SetPeer(q, p, v), {}, {}) /\ SetPeer(q, p, v).eng = q.eng
        /\ SetPeer(q, p, v).events = q.events
    BY <1>3, <1>5, <2>2, <2>3, FlagsGood, Zenon
  <2>5. Good(s, {}, {}) /\ s.eng = h.eng /\ s.events = {}
    BY <1>3, <2>1, <2>4
  <2> QED
    BY <1>6, <2>5 DEF s
<1>9. CASE n.kind = "DISCONNECT"
  <2>1. s = DisconnectPeer(q, p)
    BY <1>4, <1>9
  <2>2. q.eng.floor = NoFloor
    BY <1>1, <1>3, <1>9 DEF Fit
  <2>3. Calls(q, s)
    BY <1>5, <2>1, DisconnectPeerCalls
  <2>4. s.eng.floor = IF Owns(q.eng, p) THEN NoFloor ELSE q.eng.floor
    BY <1>5, <2>1, DisconnectPeerCalls
  <2>5. Whole(q, s)
    BY <2>2, <2>3, <2>4, SameFloor DEF Owns
  <2>6. Alike(h, q)
    BY <1>3 DEF Alike
  <2>7. Good(q, {}, {})
    BY <1>3
  <2> QED
    BY <2>5, <2>6, <2>7, WholeOutcome DEF s
<1> QED
  BY <1>1, <1>7, <1>8, <1>9 DEF Kinds

\* The end a tick reports is that of the hold it released.
LEMMA TickEndType ==
    ASSUME NEW e \in EngineState, NEW gone
    PROVE  /\ TickReleases(e, gone) => /\ TickEnd(e, gone) \in StreamEnd
                                       /\ TickEnd(e, gone) # NoEnd
                                       /\ TickEnd(e, gone).session = e.floor.owner
                                       /\ TickEnd(e, gone).stream = e.floor.stream
           /\ ~TickReleases(e, gone) => TickEnd(e, gone) = NoEnd
<1>1. CASE TickReleases(e, gone)
  <2> DEFINE o == e.floor.owner
             reason == IF o \in gone THEN "owner_disconnect" ELSE TimeoutReason(e.floor)
  <2>1. e.floor \in FloorState /\ Owns(e, o)
    BY <1>1 DEF TickReleases, EngineState, Owns
  <2>2. o \in Ids /\ reason \in EndReasons
    BY <2>1 DEF FloorState, TimeoutReason, EndReasons
  <2>3. TickEnd(e, gone) = ReleaseEnd(e, o, reason)
    BY <1>1 DEF TickEnd
  <2> HIDE DEF o, reason
  <2> QED
    BY <1>1, <2>1, <2>2, <2>3, ReleaseEndType
<1>2. CASE ~TickReleases(e, gone)
  BY <1>2 DEF TickEnd
<1> QED
  BY <1>1, <1>2

\* tick, from the record r it has when its clock has been read.
LEMMA TickOutcome ==
    ASSUME NEW h, NEW r, Alike(h, r), Good(r, {}, {}), Covered(r), NEW late,
           \A p \in Known(r) : Drift = 0 /\ r.peers[p].idle > SessionTimeout => p \in late,
           NEW due \in Seq(r.pending),
           \A j, k \in 1 .. Len(due) : j # k => due[j] # due[k],
           NEW drift \in 0 .. Drift,
           NEW c, c = RangePeers(r, CloseEach(late)),
           NEW gone \in TickRemovals(c.eng),
           NEW ticked, ticked = NotifyIfEnded([c EXCEPT !.eng = Tick(@, gone)],
                                              TickEnd(c.eng, gone)),
           NEW s, s = Loop(ticked, due, RetryEach(drift))
    PROVE  Outcome(h, s)
<1>1. Fit(r)
  BY DEF Good, Sound
<1>2. Whole(r, c) /\ Known(c) \cap late = {}
  BY <1>1, CloseEachWhole, SMTT(30)
<1>3. /\ Fit(c) /\ Frame(r, c) /\ Covered(c) /\ Good(c, {}, {}) /\ c.eng \in EngineState
      /\ Known(c) \subseteq Known(r)
  BY <1>2, CoveredKept, GoodKept DEF Whole, Calls, Fit, Handler, Frame
<1>4. gone \subseteq Expired(c.eng)
  BY DEF TickRemovals
<1>5. gone \subseteq Ids /\ (Drift = 0 => gone \cap Known(c) = {})
  <2>1. gone \subseteq Ids
    BY <1>4 DEF Expired, Live
  <2>2. ASSUME Drift = 0, NEW p \in gone, p \in Known(c) PROVE FALSE
    <3>1. c.eng.sessions[p].idle > SessionTimeout
      BY <1>4 DEF Expired
    <3>2. c.peers[p].idle = c.eng.sessions[p].idle
      BY <1>3, <1>4, <2>2 DEF Good, Sound, Agree, Expired
    <3>3. c.peers[p].idle = r.peers[p].idle /\ p \in Known(r)
      BY <1>3, <2>2 DEF Frame
    <3>4. p \in late
      BY <2>2, <3>1, <3>2, <3>3
    <3> QED
      BY <1>2, <2>2, <3>4
  <2> QED
    BY <2>1, <2>2
<1> DEFINE u == [c EXCEPT !.eng = Tick(@, gone)]
<1>6. /\ Calls(c, u)
      /\ u.eng.floor = IF TickReleases(c.eng, gone) THEN NoFloor ELSE c.eng.floor
  BY <1>3, <1>5, TickCalls
<1> HIDE DEF u
<1>7. ticked = NotifyIfEnded(u, TickEnd(c.eng, gone))
  BY DEF u
<1>8. Whole(c, ticked)
  <2>1. CASE TickReleases(c.eng, gone)
    <3> DEFINE se == TickEnd(c.eng, gone)
    <3>1. /\ se \in StreamEnd /\ se # NoEnd
          /\ se.session = c.eng.floor.owner /\ se.stream = c.eng.floor.stream
      BY <1>3, <2>1, TickEndType
    <3>2. ticked = NotifyEnd(u, se) /\ c.eng.floor # NoFloor /\ u.eng.floor = NoFloor
      BY <1>6, <1>7, <2>1, <3>1 DEF NotifyIfEnded, TickReleases
    <3> HIDE DEF se
    <3> QED
      BY <1>3, <1>6, <3>1, <3>2, EndWhole
  <2>2. CASE ~TickReleases(c.eng, gone)
    <3>1. TickEnd(c.eng, gone) = NoEnd
      BY <1>3, <2>2, TickEndType
    <3>2. ticked = u
      BY <1>7, <3>1 DEF NotifyIfEnded
    <3> QED
      BY <1>6, <2>2, <3>2, SameFloor
  <2> QED
    BY <2>1, <2>2
<1>9. Whole(r, ticked)
  BY <1>2, <1>8, WholeTrans
<1>10. Retried(r, s, due, Len(due))
  BY <1>1, <1>9, RetryEachRetried
<1>11. Fit(s) /\ Frame(r, s) /\ (StartsHeld(r) => StartsHeld(s))
  BY <1>10 DEF Retried
<1>12. Good(s, {}, {})
  BY <1>11, SoundKept, SMTT(30) DEF Good
<1>13. h.eng.draining => s.eng.draining
  BY <1>11 DEF Alike, Frame
<1>14. Announces(h, s)
  BY <1>10, RetriedAnnounces
<1> QED
  BY <1>12, <1>13, <1>14 DEF Outcome

\* A record is like itself.
LEMMA AlikeSelf ==
    ASSUME NEW h, h.events = {}
    PROVE  Alike(h, h) /\ Announces(h, h)
  BY DEF Alike, Announces, Held

\* Where the hold is kept there is nothing to announce.
LEMMA AlikeAnnounces ==
    ASSUME NEW h, NEW r, Alike(h, r)
    PROVE  Announces(h, r)
  BY DEF Alike, Announces, Held

\* A handler that changes nothing leads to an outcome.
LEMMA SelfOutcome ==
    ASSUME NEW h, Good(h, {}, {}), h.events = {}
    PROVE  Outcome(h, h)
  BY AlikeSelf DEF Outcome

\* What is good has its types.
LEMMA GoodFit ==
    ASSUME NEW r, NEW Y, NEW X, Good(r, Y, X)
    PROVE  Fit(r)
  BY DEF Good, Sound

\* The handlers whose calls are made of h itself.
LEMMA CallsOutcome ==
    ASSUME NEW h, Good(h, {}, {}), h.events = {}, NEW s, Whole(h, s)
    PROVE  Outcome(h, s)
<1>1. Alike(h, h)
  BY AlikeSelf
<1> QED
  BY <1>1, WholeOutcome, Zenon

\* A handler may accept its packet after anything else.
LEMMA OutcomeAccepted ==
    ASSUME NEW h, NEW s, Outcome(h, s), NEW p \in Ids
    PROVE  Outcome(h, Accept(s, p))
<1>1. Good(s, {}, {}) /\ (h.eng.draining => s.eng.draining)
      /\ (WelcomeSpares => Announces(h, s))
  BY DEF Outcome
<1>2. Good(s, {}, {p})
  BY <1>1, WeakerGood
<1> QED
  BY <1>1, <1>2, AcceptOutcome

\* A KEEPALIVE, with the start of a stream the session joined late.
LEMMA KeepaliveOutcome ==
    ASSUME NEW h, Good(h, {}, {}), h.events = {}, Covered(h), NEW p \in Known(h),
           NEW r, r = Confirmed(h, p)
    PROVE  Outcome(h, IF QueueTakes(r) /\ JoinedLate(r, p)
                      THEN Accept(NotifyStart(Tried(r), p, r.eng.floor.owner,
                                              r.eng.floor.stream), p)
                      ELSE Reply(r, p))
<1>1. /\ Good(r, {p}, {p}) /\ Alike(h, r) /\ p \in Known(r) /\ r.peers[p].ready
      /\ Known(r) = Known(h) /\ r.orders = h.orders
      /\ (~JoinedLate(r, p) => Good(r, {}, {p}))
  BY ConfirmedGood
<1>2. Fit(r) /\ Covered(r) /\ p \in Ids
  <2>1. Covered(r)
    BY <1>1 DEF Covered
  <2> QED
    BY <1>1, <2>1, GoodFit DEF Known
<1>3. CASE QueueTakes(r) /\ JoinedLate(r, p)
  <2> DEFINE o == r.eng.floor.owner
             st == r.eng.floor.stream
             q == Tried(r)
             s == NotifyStart(q, p, o, st)
  <2>1. /\ Sent(r, q) /\ Fit(q) /\ Covered(q) /\ Known(q) = Known(r)
        /\ q.eng = r.eng /\ q.peers = r.peers
    BY <1>2, TriedSent, TriedWhole
  <2>2. r.eng.floor # NoFloor /\ p # o
    BY <1>3 DEF JoinedLate
  <2>3. Held(q, o, st) /\ p \in Known(q) /\ q.peers[p].ready /\ o \in Known(q)
    BY <1>1, <1>2, <2>1, <2>2 DEF Held, Fit
  <2> HIDE DEF o, st, q
  <2>4. Sent(q, s) /\ (Apart(q) => p \notin Known(s) \/ p \in s.told)
    BY <2>1, <2>3, NotifyStartSent
  <2> HIDE DEF s
  <2>5. Whole(r, s)
    BY <2>1, <2>4, WholeTrans DEF Sent
  <2>6. Good(s, {p}, {p})
    BY <1>1, <2>5, GoodKept
  <2>7. Told(s, {})
    <3>1. StartSpares => Apart(q)
      BY <1>1, <2>1, SparesApart, ApartKept DEF Good, Sent, Whole, Calls
    <3> QED
      BY <2>4, <2>6, <3>1 DEF Good, Sound, Told
  <2>8. Good(s, {}, {p})
    BY <2>6, <2>7 DEF Good, Sound
  <2>9. Outcome(h, Accept(s, p))
    BY <1>1, <1>2, <2>5, <2>8, WholeAccepted
  <2> QED
    BY <1>3, <2>9 DEF o, st, q, s
<1>4. CASE ~(QueueTakes(r) /\ JoinedLate(r, p))
  <2>1. QueueTakes(r) => Good(r, {}, {p})
    BY <1>1, <1>4
  <2>2. Whole(r, r)
    BY <1>2, WholeSelf
  <2>3. Outcome(h, Reply(r, p))
    BY <1>1, <1>2, <2>1, <2>2, ReplyOutcome
  <2> QED
    BY <1>4, <2>3
<1> QED
  BY <1>3, <1>4

\* A STREAM_REQUEST, granted or not.
LEMMA StreamRequestOutcome ==
    ASSUME NEW h, Good(h, {}, {}), h.events = {}, Covered(h),
           NEW p \in Known(h), NEW stream \in Streams,
           NEW asked, asked = Asked(h, p, stream),
           NEW granted, granted = GrantedTo(h, p, stream)
    PROVE  Outcome(h, Reply(IF FloorResult(h.eng, p, stream) = "granted"
                            THEN RangePeers(granted, StartEach(p, stream)) ELSE asked, p))
<1>1. p \in Ids
  BY DEF Known
<1>2. CASE FloorResult(h.eng, p, stream) = "granted"
  <2> DEFINE u == RangePeers(granted, StartEach(p, stream))
  <2>1. /\ Good(granted, Ids, {p}) /\ Held(granted, p, stream) /\ Alike(h, granted)
        /\ Known(granted) = Known(h) /\ granted.orders = h.orders
    BY <1>1, <1>2, GrantedGood
  <2>2. Fit(granted) /\ Covered(granted)
    BY <2>1, GoodFit DEF Covered
  <2>3. /\ Whole(granted, u)
        /\ StartSpares => \A q \in Known(u) : Heard(u, p, q)
    <3>1. StartSpares => Apart(granted)
      BY <2>1, SparesApart DEF Good
    <3> QED
      BY <2>1, <2>2, <3>1, StartEachWhole
  <2> HIDE DEF u
  <2>4. Good(u, Ids, {p})
    BY <2>1, <2>3, GoodKept
  <2>5. u.eng.floor \in {granted.eng.floor, NoFloor} /\ Fit(u)
    BY <2>3 DEF Whole, Calls, Frame
  <2>6. Told(u, {})
    <3> SUFFICES ASSUME StartSpares, u.eng.floor # NoFloor, NEW q \in Known(u),
                        q # u.eng.floor.owner, u.peers[q].ready
                 PROVE  q \in u.told
      BY DEF Told
    <3>1. u.eng.floor.owner = p
      BY <2>1, <2>5 DEF Held
    <3>2. p \in Known(u)
      BY <2>5, <3>1 DEF Fit
    <3> QED
      BY <2>3, <3>1, <3>2 DEF Heard
  <2>7. Good(u, {}, {p}) /\ Good(u, {p}, {p})
    BY <2>4, <2>6 DEF Good, Sound, Told
  <2>8. Outcome(h, Reply(u, p))
    BY <1>1, <2>1, <2>2, <2>3, <2>7, ReplyOutcome
  <2> QED
    BY <1>2, <2>1, <2>8 DEF u
<1>3. CASE FloorResult(h.eng, p, stream) # "granted"
  <2>1. /\ Good(asked, {}, {p}) /\ Alike(h, asked)
        /\ Known(asked) = Known(h) /\ asked.orders = h.orders
    BY <1>1, <1>3, NotGrantedGood
  <2>2. Fit(asked) /\ Covered(asked)
    BY <2>1, GoodFit DEF Covered
  <2>3. Good(asked, {p}, {p})
    BY <2>1 DEF Good, Sound, Told
  <2>4. Whole(asked, asked)
    BY <2>2, WholeSelf
  <2>5. Outcome(h, Reply(asked, p))
    BY <1>1, <2>1, <2>2, <2>3, <2>4, ReplyOutcome
  <2> QED
    BY <1>3, <2>5
<1> QED
  BY <1>2, <1>3

\* The owner's STREAM_END.
LEMMA StreamEndRequestOutcome ==
    ASSUME NEW h, Good(h, {}, {}), h.events = {}, Covered(h), NEW p \in Known(h), Owns(h.eng, p),
           NEW r, r = [h EXCEPT !.eng = Release(@, p)]
    PROVE  Outcome(h, Reply(NotifyEnd(r, ReleaseEnd(h.eng, p, "normal")), p))
<1> DEFINE se == ReleaseEnd(h.eng, p, "normal")
           u == NotifyEnd(r, se)
<1>1. Fit(h) /\ p \in Ids /\ h.eng \in EngineState /\ h.eng.floor # NoFloor
  BY GoodFit DEF Known, Fit, Handler, Owns
<1>2. Calls(h, r) /\ r.eng.floor = NoFloor
  BY <1>1, ReleaseCalls
<1>3. "normal" \in EndReasons
  BY DEF EndReasons
<1>4. se \in StreamEnd /\ se.session = h.eng.floor.owner /\ se.stream = h.eng.floor.stream
  BY <1>1, <1>3, ReleaseEndType
<1> HIDE DEF se
<1>5. Whole(h, u)
  BY <1>1, <1>2, <1>4, EndWhole
<1> HIDE DEF u
<1>6. Good(u, {}, {})
  BY <1>5, GoodKept
<1>7. Good(u, {p}, {p}) /\ Good(u, {}, {p})
  BY <1>6, WeakerGood
<1>8. Outcome(h, Reply(u, p))
  BY <1>1, <1>5, <1>7, AlikeSelf, ReplyOutcome
<1> QED
  BY <1>8 DEF u, se

\* A response that cannot be queued.
LEMMA UndeliveredOutcome ==
    ASSUME NEW h, Good(h, {}, {}), h.events = {}, Covered(h), NEW p \in Known(h)
    PROVE  Outcome(h, ControlOverload(Tried(h), p))
<1>1. Fit(h)
  BY GoodFit
<1>2. Sent(h, Tried(h)) /\ Fit(Tried(h)) /\ Covered(Tried(h)) /\ Known(Tried(h)) = Known(h)
  BY <1>1, TriedSent
<1>3. Whole(Tried(h), ControlOverload(Tried(h), p))
  BY <1>2, ControlOverloadWhole
<1> QED
  BY <1>2, <1>3, WholeTrans, CallsOutcome DEF Sent

\* A frame that is forwarded.
LEMMA ForwardMediaOutcome ==
    ASSUME NEW h, Good(h, {}, {}), h.events = {}, NEW p \in Live(h.eng),
           NEW sequence \in Sequences32,
           NEW timestamp \in Timestamps, h.eng.floor # NoFloor,
           NEW s, s = [h EXCEPT !.eng = Media(@, p, sequence, timestamp)]
    PROVE  Outcome(h, Accept(s, p))
<1>1. Good(s, {}, {p}) /\ Alike(h, s)
  BY MediaGood
<1>2. p \in Ids /\ Announces(h, s)
  BY <1>1, AlikeAnnounces DEF Live
<1> QED
  BY <1>1, <1>2, AcceptOutcome DEF Alike

\* A DISCONNECT of the client.
LEMMA DisconnectRequestOutcome ==
    ASSUME NEW h, Good(h, {}, {}), h.events = {}, Covered(h), NEW p \in Ids
    PROVE  Outcome(h, Tried(CloseSession(h, p)))
<1>1. Whole(h, CloseSession(h, p))
  BY GoodFit, CloseSessionWhole
<1>2. Whole(CloseSession(h, p), Tried(CloseSession(h, p)))
  BY <1>1, TriedWhole DEF Whole, Calls
<1> QED
  BY <1>1, <1>2, WholeTrans, CallsOutcome

\* An ERROR that cannot be queued.
LEMMA RefuseOverloadOutcome ==
    ASSUME NEW h, Good(h, {}, {}), h.events = {}, Covered(h), NEW a
    PROVE  Outcome(h, SendControl(h, a, ControlOverload))
<1>1. Whole(h, SendControl(h, a, ControlOverload))
  BY GoodFit, SendSent DEF Sent
<1> QED
  BY <1>1, CallsOutcome

\* The first stage of drain ends the stream and announces it.
LEMMA BeginDrainOutcome ==
    ASSUME NEW h, Good(h, {}, {}), h.events = {}, Covered(h),
           NEW r, r = [h EXCEPT !.eng = BeginShutdown(@)],
           NEW s, s = NotifyIfEnded(r, ShutdownEnd(h.eng))
    PROVE  Outcome(h, s) /\ s.eng.draining
<1>1. Fit(h) /\ h.eng \in EngineState
  BY GoodFit DEF Fit, Handler
<1>2. Calls(h, r) /\ r.eng.floor = NoFloor /\ r.eng.draining
  BY <1>1, ShutdownCalls
<1>3. CASE h.eng.floor # NoFloor
  <2> DEFINE se == ReleaseEnd(h.eng, h.eng.floor.owner, "server_shutdown")
  <2>1. /\ ~h.eng.draining /\ h.eng.floor.owner \in Ids
        /\ Owns(h.eng, h.eng.floor.owner) /\ "server_shutdown" \in EndReasons
    BY <1>1, <1>3 DEF Fit, Live, Owns, EndReasons
  <2>2. /\ se \in StreamEnd /\ se # NoEnd
        /\ se.session = h.eng.floor.owner /\ se.stream = h.eng.floor.stream
    BY <1>1, <2>1, ReleaseEndType
  <2>3. ShutdownEnd(h.eng) = se
    BY <1>3, <2>1 DEF ShutdownEnd
  <2> HIDE DEF se
  <2>4. s = NotifyEnd(r, se)
    BY <2>2, <2>3 DEF NotifyIfEnded
  <2>5. Whole(h, s)
    BY <1>2, <1>3, <2>2, <2>4, EndWhole
  <2>6. Frame(r, s)
    BY <1>2, <2>2, <2>4, NotifyEndCalls DEF Calls
  <2> QED
    BY <1>2, <2>5, <2>6, CallsOutcome DEF Frame
<1>4. CASE h.eng.floor = NoFloor
  <2>1. s = r
    BY <1>4 DEF NotifyIfEnded, ShutdownEnd
  <2>2. Whole(h, s)
    BY <1>2, <1>4, <2>1, SameFloor
  <2> QED
    BY <1>2, <2>1, <2>2, CallsOutcome
<1> QED
  BY <1>3, <1>4

\* The second stage of drain.
LEMMA StartDisconnectsOutcome ==
    ASSUME NEW h, Good(h, {}, {}), h.events = {}, Covered(h), h.eng.draining
    PROVE  Outcome(h, RangePeers(h, DisconnectEach))
<1>1. Whole(h, RangePeers(h, DisconnectEach))
  BY GoodFit, DisconnectEachWhole
<1> QED
  BY <1>1, CallsOutcome

\* The last stage of drain.
LEMMA FinishDrainOutcome ==
    ASSUME NEW h, Good(h, {}, {}), h.events = {}, Covered(h)
    PROVE  Outcome(h, RangePeers(h, CloseEach(Ids)))
<1>1. Whole(h, RangePeers(h, CloseEach(Ids)))
  BY GoodFit, CloseEachWhole
<1> QED
  BY <1>1, CallsOutcome

\* A unit of time.
LEMMA AdvanceOutcome ==
    ASSUME NEW h, Good(h, {}, {}), h.events = {}
    PROVE  Outcome(h, Aged(h))
<1>1. Good(Aged(h), {}, {}) /\ Alike(h, Aged(h))
  BY AgedGood
<1>2. Announces(h, Aged(h))
  BY <1>1, AlikeAnnounces
<1> QED
  BY <1>1, <1>2 DEF Outcome, Alike

\* authenticate.  When its WELCOME finds the queue full the sessions of the
\* address are closed; with one session to an address none owns the floor.
LEMMA AdmitOutcome ==
    ASSUME NEW h, Good(h, {}, {}), h.events = {}, h.sends = 0, h.fails \in Fails,
           NEW id \in Ids, NEW address \in Addresses,
           CanAdd(h.eng, id), id \notin Known(h), <<id, address>> \in Homes,
           NEW a, a = Tried(Welcomed(h, id, address))
    PROVE  Outcome(h, IF QueueTakes(h) THEN a
                      ELSE RangePeers(a, DisconnectAddress(address)))
<1> DEFINE w == Welcomed(h, id, address)
           s == RangePeers(a, DisconnectAddress(address))
<1>1. /\ Good(w, {}, {}) /\ Alike(h, w) /\ Known(w) = Known(h) \cup {id}
      /\ w.orders = h.orders /\ ~Owns(w.eng, id)
  BY WelcomedGood
<1> HIDE DEF w
<1>2. Fit(w)
  BY <1>1, GoodFit
<1>3. a = Tried(w)
  BY DEF w
<1>4. Whole(w, a) /\ Known(a) = Known(w) /\ a.eng = w.eng
  BY <1>2, <1>3, TriedWhole
<1>5. Outcome(h, a)
  BY <1>1, <1>4, WholeOutcome
<1>6. Good(a, {}, {}) /\ Fit(a) /\ a.orders = h.orders
  BY <1>1, <1>4, <1>5, GoodFit DEF Outcome, Whole, Calls, Frame
<1>7. ASSUME ~QueueTakes(h) PROVE Outcome(h, s)
  <2>1. /\ Calls(a, s)
        /\ (\A p \in Known(a) : a.peers[p].address = address => ~Owns(a.eng, p))
              => s.eng.floor = a.eng.floor
    BY <1>6, DisconnectAddressCalls
  <2> HIDE DEF s
  <2>2. Sound(s, {}, {})
    BY <1>6, <2>1, SoundKept DEF Good, Calls
  <2>3. h.eng.draining => s.eng.draining
    BY <1>5, <2>1 DEF Outcome, Calls, Frame
  <2>4. ASSUME WelcomeSpares PROVE Whole(a, s)
    <3>1. 1 \in h.fails
      BY <1>7 DEF QueueTakes
    <3>2. \A g, k \in Homes : g[2] = k[2] => g[1] = k[1]
      BY <2>4, <3>1 DEF WelcomeSpares
    <3>3. ASSUME NEW p \in Known(a), a.peers[p].address = address PROVE p = id
      <4>1. <<p, address>> \in Homes
        BY <1>6, <3>3 DEF Good, Sound, Homed
      <4>2. <<p, address>>[2] = <<id, address>>[2]
        OBVIOUS
      <4>3. <<p, address>>[1] = <<id, address>>[1]
        BY <3>2, <4>1, <4>2
      <4> QED
        BY <4>3
    <3>4. s.eng.floor = a.eng.floor
      BY <1>1, <1>4, <2>1, <3>3
    <3> QED
      BY <2>1, <3>4, SameFloor
  <2>5. WelcomeSpares => StartsHeld(s) /\ Announces(h, s)
    <3> SUFFICES ASSUME WelcomeSpares PROVE StartsHeld(s) /\ Announces(h, s)
      OBVIOUS
    <3>1. Whole(w, s)
      BY <1>4, <2>4, WholeTrans
    <3> QED
      BY <1>1, <3>1, GoodKept, EndedAnnounces DEF Good
  <2> QED
    BY <2>2, <2>3, <2>5 DEF Outcome, Good
<1> QED
  BY <1>5, <1>6, <1>7

-----------------------------------------------------------------------------
(* The state between two handlers.                                         *)

\* The inductive invariant: the record the next handler would begin with is
\* good, and a server that drains has told its engine so.
Inv ==
    /\ Good(Quiet, {}, {})
    /\ stage \in {"running", "revoking", "disconnecting", "stopped"}
    /\ graceOver \in BOOLEAN
    /\ stage # "running" => eng.draining

\* An order for each range of a handler.
Orderings == [1 .. MaxRanges -> Seq(Ids)]

\* What every handler does: it leaves behind an outcome of the record it
\* entered with.
Handled ==
    \E fails \in Fails \cup {{}}, orders \in Orderings : \E s :
        Outcome(Enter(fails, orders), s) /\ Commit(s)

\* Neither the history of the sends nor the handler's environment matters.
LEMMA Recorded ==
    ASSUME NEW s, Good(s, {}, {}), NEW c \in Handler, c.fails \in Fails \cup {{}},
           c.eng = s.eng, c.peers = s.peers, c.pending = s.pending,
           \A p \in Known(s) : p \in s.told /\ s.eng.floor # NoFloor => p \in c.told
    PROVE  Good(c, {}, {}) /\ Known(c) = Known(s)
<1>1. Known(c) = Known(s)
  BY DEF Known
<1>2. Fit(c)
  BY <1>1 DEF Good, Sound, Fit
<1>3. Agree(c, {}) /\ Readied(c) /\ Homed(c) /\ IsFiniteSet(Known(c))
  BY <1>1 DEF Good, Sound, Agree, Readied, Homed
<1>4. Told(c, {})
  BY <1>1 DEF Good, Sound, Told
<1>5. WelcomeSpares => StartsHeld(c)
  BY DEF Good, StartsHeld, Held
<1> QED
  BY <1>1, <1>2, <1>3, <1>4, <1>5 DEF Good, Sound

\* The fields of the record a handler enters with.
LEMMA EnterFields ==
    ASSUME NEW fails, NEW orders
    PROVE  LET h == Enter(fails, orders)
           IN  /\ h.eng = eng /\ h.peers = peers /\ h.pending = pending /\ h.told = told
               /\ h.fails = fails /\ h.orders = orders /\ h.sends = 0
               /\ h.events = {} /\ Known(h) = PeerIds
  BY DEF Enter, Known, PeerIds

\* The invariant says that it is good, whatever the environment decides.
LEMMA EnterGood ==
    ASSUME Inv, NEW fails \in Fails \cup {{}}, NEW orders \in Orderings
    PROVE  Good(Enter(fails, orders), {}, {})
<1> DEFINE h == Enter(fails, orders)
           g == Quiet
<1>1. Good(g, {}, {}) /\ g \in Handler
  BY GoodFit DEF Inv, Fit
<1>2. h \in Handler
  <2>1. /\ eng \in EngineState /\ peers \in [Ids -> Peer \cup {NoPeer}]
        /\ pending \in SUBSET Notification /\ told \in SUBSET Ids
    BY <1>1 DEF Handler, Enter, Quiet
  <2>2. {} \in SUBSET Event /\ 0 \in Nat /\ fails \in SUBSET Nat
    BY EnvironmentAssumption
  <2> QED
    BY <2>1, <2>2 DEF Handler, Enter, Orderings
<1>3. /\ h.eng = g.eng /\ h.peers = g.peers /\ h.pending = g.pending /\ h.told = g.told
      /\ h.fails = fails
  BY EnterFields DEF Quiet
<1> HIDE DEF h, g
<1>4. Good(h, {}, {})
  BY <1>1, <1>2, <1>3, Recorded
<1> QED
  BY <1>4 DEF h

\* Orders of the ranges over the sessions cover the record.
LEMMA Ordered ==
    ASSUME Inv, NEW S \in SUBSET Ids, IsFiniteSet(S), PeerIds \subseteq S,
           NEW orders \in RangeOrders(S), NEW fails
    PROVE  orders \in Orderings /\ Covered(Enter(fails, orders))
<1>1. \A k \in 1 .. MaxRanges : orders[k] \in OrdersOf(S)
  BY DEF RangeOrders
<1>2. \A k \in 1 .. MaxRanges :
         /\ orders[k] \in Seq(S)
         /\ \A x \in S : \E i \in 1 .. Len(orders[k]) : orders[k][i] = x
  BY <1>1, OrderOf
<1>3. orders \in Orderings
  <2>1. \A k \in 1 .. MaxRanges : orders[k] \in Seq(Ids)
    BY <1>2
  <2> QED
    BY <2>1 DEF RangeOrders, Orderings
<1>4. Known(Enter(fails, orders)) = PeerIds /\ Enter(fails, orders).orders = orders
  BY EnterFields
<1> QED
  BY <1>2, <1>3, <1>4 DEF Covered

\* There are finitely many sessions.
LEMMA PeersFinite ==
    ASSUME Inv
    PROVE  IsFiniteSet(PeerIds) /\ PeerIds \in SUBSET Ids
<1>1. IsFiniteSet(Known(Quiet))
  BY DEF Inv, Good, Sound
<1>2. Known(Quiet) = PeerIds
  BY EnterFields DEF Quiet
<1> QED
  BY <1>1, <1>2 DEF PeerIds

\* What the lemmas about the handlers ask of the record they begin with.
LEMMA Entered ==
    ASSUME Inv, NEW fails \in Fails, NEW orders \in Orders
    PROVE  /\ fails \in Fails \cup {{}} /\ orders \in Orderings
           /\ Good(Enter(fails, orders), {}, {}) /\ Covered(Enter(fails, orders))
<1>1. IsFiniteSet(PeerIds) /\ PeerIds \in SUBSET Ids
  BY PeersFinite
<1>2. orders \in Orderings /\ Covered(Enter(fails, orders))
  BY <1>1, Ordered DEF Orders
<1> QED
  BY <1>2, EnterGood

\* No order is needed where nothing is ranged over.
LEMMA NoOrders == [i \in 1 .. MaxRanges |-> <<>>] \in Orderings
<1>1. <<>> \in Seq(Ids)
  OBVIOUS
<1> QED
  BY <1>1 DEF Orderings

\* A handler that meets neither a queue nor a loop.
LEMMA EnteredAlone ==
    ASSUME Inv
    PROVE  /\ Good(Quiet, {}, {}) /\ Quiet.events = {}
           /\ \A s : Outcome(Quiet, s) /\ Commit(s) => Handled
<1>1. Quiet.events = {}
  BY EnterFields DEF Quiet
<1>2. \A s : Outcome(Quiet, s) /\ Commit(s) => Handled
  <2>1. {} \in Fails \cup {{}}
    OBVIOUS
  <2> QED
    BY <2>1, NoOrders DEF Quiet, Handled
<1> QED
  BY <1>1, <1>2 DEF Inv

-----------------------------------------------------------------------------
(* One lemma for each action of Next: what Commit stores is an outcome.    *)

\* Of authenticate.
LEMMA AdmitHandled ==
    ASSUME Inv, NEW p \in Ids, NEW address \in Addresses, NEW fails \in Fails,
           NEW orders \in RangeOrders(PeerIds \cup {p}), Admit(p, address, fails, orders)
    PROVE  Handled
<1> DEFINE h == Enter(fails, orders)
           a == Tried(Welcomed(h, p, address))
           s == IF QueueTakes(h) THEN a ELSE RangePeers(a, DisconnectAddress(address))
<1>1. IsFiniteSet(PeerIds) /\ PeerIds \in SUBSET Ids
  BY PeersFinite
<1>2. IsFiniteSet(PeerIds \cup {p}) /\ PeerIds \cup {p} \in SUBSET Ids
  BY <1>1, FS_AddElement
<1>3. orders \in Orderings
  BY <1>2, Ordered
<1>4. fails \in Fails \cup {{}}
  OBVIOUS
<1>5. /\ h.eng = eng /\ h.peers = peers /\ Known(h) = PeerIds
      /\ h.fails = fails /\ h.events = {} /\ h.sends = 0
  BY EnterFields
<1>6. Good(h, {}, {})
  BY <1>3, <1>4, EnterGood
<1>7. CanAdd(eng, p) /\ peers[p] = NoPeer /\ <<p, address>> \in Homes
  BY DEF Admit
<1>8. Commit(s)
  BY DEF Admit, Welcomed
<1> HIDE DEF h
<1>9. p \notin Known(h)
  BY <1>5, <1>7 DEF PeerIds
<1>10. Outcome(h, s)
  BY <1>5, <1>6, <1>7, <1>9, AdmitOutcome
<1> HIDE DEF s
<1> QED
  BY <1>3, <1>4, <1>8, <1>10 DEF Handled, h

\* Of the handler of a KEEPALIVE.
LEMMA KeepaliveHandled ==
    ASSUME Inv, NEW p \in PeerIds, NEW fails \in Fails, NEW orders \in Orders,
           Keepalive(p, fails, orders)
    PROVE  Handled
<1> DEFINE h == Enter(fails, orders)
           r == Confirmed(h, p)
           s == IF QueueTakes(r) /\ JoinedLate(r, p)
                THEN Accept(NotifyStart(Tried(r), p, r.eng.floor.owner, r.eng.floor.stream), p)
                ELSE Reply(r, p)
<1>1. Commit(s)
  BY DEF Keepalive, Confirmed
<1>2. /\ fails \in Fails \cup {{}} /\ orders \in Orderings /\ Good(h, {}, {}) /\ Covered(h)
      /\ h.events = {} /\ p \in Known(h)
  BY Entered, EnterFields
<1> HIDE DEF h
<1>3. Outcome(h, s)
  BY <1>2, KeepaliveOutcome
<1> HIDE DEF s
<1> QED
  BY <1>1, <1>2, <1>3 DEF Handled, h

\* Of the handler of a STREAM_REQUEST.
LEMMA StreamRequestHandled ==
    ASSUME Inv, NEW p \in PeerIds, NEW fails \in Fails, NEW orders \in Orders,
           NEW stream \in Streams, StreamRequest(p, stream, fails, orders)
    PROVE  Handled
<1> DEFINE h == Enter(fails, orders)
           s == Reply(IF FloorResult(h.eng, p, stream) = "granted"
                      THEN RangePeers(GrantedTo(h, p, stream), StartEach(p, stream))
                      ELSE Asked(h, p, stream), p)
<1>1. /\ fails \in Fails \cup {{}} /\ orders \in Orderings /\ Good(h, {}, {}) /\ Covered(h)
      /\ h.events = {} /\ p \in Known(h) /\ h.eng = eng /\ h.orders = orders
  BY Entered, EnterFields
<1>2. Commit(s)
  BY <1>1 DEF StreamRequest, Asked, GrantedTo
<1> HIDE DEF h
<1>3. Outcome(h, s)
  BY <1>1, StreamRequestOutcome
<1> HIDE DEF s
<1> QED
  BY <1>1, <1>2, <1>3 DEF Handled, h

\* Of the handler of a STREAM_END that the engine accepts.
LEMMA StreamEndRequestHandled ==
    ASSUME Inv, NEW p \in PeerIds, NEW fails \in Fails, NEW orders \in Orders,
           NEW stream, NEW sequence, NEW timestamp,
           StreamEndRequest(p, stream, sequence, timestamp, fails, orders)
    PROVE  Handled
<1> DEFINE h == Enter(fails, orders)
           r == [h EXCEPT !.eng = Release(@, p)]
           s == Reply(NotifyEnd(r, ReleaseEnd(h.eng, p, "normal")), p)
<1>1. /\ fails \in Fails \cup {{}} /\ orders \in Orderings /\ Good(h, {}, {}) /\ Covered(h)
      /\ h.events = {} /\ p \in Known(h) /\ h.eng = eng
  BY Entered, EnterFields
<1>2. Commit(s) /\ Owns(h.eng, p)
  BY <1>1 DEF StreamEndRequest, EndAccepted, OwnsStream
<1> HIDE DEF h
<1>3. Outcome(h, s)
  BY <1>1, <1>2, StreamEndRequestOutcome
<1> HIDE DEF s
<1> QED
  BY <1>1, <1>2, <1>3 DEF Handled, h

\* Of a duplicate whose response is sent again.
LEMMA DuplicateHandled ==
    ASSUME Inv, NEW p \in PeerIds, Duplicate(p)
    PROVE  Handled
<1> DEFINE h == Quiet
<1>1. Good(h, {}, {}) /\ h.events = {} /\ p \in Ids
  BY EnteredAlone DEF PeerIds
<1>2. Commit(Accept(h, p))
  BY DEF Duplicate
<1> HIDE DEF h
<1>3. Outcome(h, Accept(h, p))
  BY <1>1, SelfOutcome, OutcomeAccepted
<1> QED
  BY <1>2, <1>3, EnteredAlone DEF h

\* Of a stored response that cannot be queued.
LEMMA UndeliveredHandled ==
    ASSUME Inv, NEW p \in PeerIds, NEW fails \in Fails, NEW orders \in Orders,
           Undelivered(p, fails, orders)
    PROVE  Handled
<1> DEFINE h == Enter(fails, orders)
<1>1. /\ fails \in Fails \cup {{}} /\ orders \in Orderings /\ Good(h, {}, {}) /\ Covered(h)
      /\ h.events = {} /\ p \in Known(h)
  BY Entered, EnterFields
<1>2. Commit(ControlOverload(Tried(h), p))
  BY DEF Undelivered
<1> HIDE DEF h
<1>3. Outcome(h, ControlOverload(Tried(h), p))
  BY <1>1, UndeliveredOutcome
<1> QED
  BY <1>1, <1>2, <1>3 DEF Handled, h

\* Of the handler of a frame.
LEMMA ForwardMediaHandled ==
    ASSUME Inv, NEW p \in Ids, NEW stream, NEW sequence \in Sequences32,
           NEW timestamp \in Timestamps, ForwardMedia(p, stream, sequence, timestamp)
    PROVE  Handled
<1> DEFINE h == Quiet
           r == [h EXCEPT !.eng = Media(@, p, sequence, timestamp)]
<1>1. Good(h, {}, {}) /\ h.events = {} /\ h.eng = eng
  BY EnteredAlone, EnterFields DEF Quiet
<1>2. p \in Live(h.eng) /\ h.eng.floor # NoFloor
  BY <1>1 DEF ForwardMedia, MediaAccepted, OwnsStream, Owns
<1>3. Commit(Accept(r, p))
  BY DEF ForwardMedia
<1> HIDE DEF h
<1>4. Outcome(h, Accept(r, p))
  BY <1>1, <1>2, ForwardMediaOutcome
<1> HIDE DEF r
<1> QED
  BY <1>3, <1>4, EnteredAlone DEF h

\* Of the handler of a DISCONNECT.
LEMMA DisconnectRequestHandled ==
    ASSUME Inv, NEW p \in PeerIds, NEW fails \in Fails, NEW orders \in Orders,
           DisconnectRequest(p, fails, orders)
    PROVE  Handled
<1> DEFINE h == Enter(fails, orders)
<1>1. /\ fails \in Fails \cup {{}} /\ orders \in Orderings /\ Good(h, {}, {}) /\ Covered(h)
      /\ h.events = {} /\ p \in Ids
  BY Entered, EnterFields DEF PeerIds
<1>2. Commit(Tried(CloseSession(h, p)))
  BY DEF DisconnectRequest
<1> HIDE DEF h
<1>3. Outcome(h, Tried(CloseSession(h, p)))
  BY <1>1, DisconnectRequestOutcome
<1> QED
  BY <1>1, <1>2, <1>3 DEF Handled, h

\* Of a handler that stores what it entered with.
LEMMA RefuseHandled ==
    ASSUME Inv, Commit(Quiet)
    PROVE  Handled
  BY EnteredAlone, SelfOutcome

\* Of an ERROR that cannot be queued.
LEMMA RefuseOverloadHandled ==
    ASSUME Inv, NEW p \in PeerIds, NEW fails \in Fails, NEW orders \in Orders,
           RefuseOverload(p, fails, orders)
    PROVE  Handled
<1> DEFINE h == Enter(fails, orders)
           a == peers[p].address
<1>1. /\ fails \in Fails \cup {{}} /\ orders \in Orderings /\ Good(h, {}, {}) /\ Covered(h)
      /\ h.events = {}
  BY Entered, EnterFields
<1>2. Commit(SendControl(h, a, ControlOverload))
  BY DEF RefuseOverload
<1> HIDE DEF h, a
<1>3. Outcome(h, SendControl(h, a, ControlOverload))
  BY <1>1, RefuseOverloadOutcome
<1> QED
  BY <1>1, <1>2, <1>3 DEF Handled, h

\* Of the acknowledgement of a notification.
LEMMA AckHandled ==
    ASSUME Inv, NEW n \in pending, Ack(n)
    PROVE  Handled
<1> DEFINE h == Quiet
           p == n.listener
           s == IF stage = "running" THEN Accept(Acked(h, n), p) ELSE Acked(h, n)
<1>1. Commit(s)
  BY DEF Ack, Acked
<1>2. /\ Good(h, {}, {}) /\ h.pending = pending /\ Known(h) = PeerIds /\ h.peers = peers
      /\ h.events = {}
  BY EnteredAlone, EnterFields DEF Quiet
<1>3. p \in Ids
  BY <1>2, GoodFit DEF Fit, PendingFit, Notification
<1>4. p \in PeerIds
  BY <1>3 DEF Ack, PeerIds
<1> HIDE DEF h
<1>5. Outcome(h, Acked(h, n))
  BY <1>2, <1>4, AckedOutcome
<1>6. Outcome(h, s)
  BY <1>3, <1>5, OutcomeAccepted
<1> HIDE DEF s
<1> QED
  BY <1>1, <1>6, EnteredAlone DEF h

\* Of tick: the sessions the owner finds silent, those the engine finds
\* expired, the floor's own limits, and the retries.
LEMMA TickHandled ==
    ASSUME Inv, NEW drift \in 0 .. Drift, NEW fails \in Fails, NEW orders \in Orders,
           NEW due \in DueOrders, TickServer(drift, fails, orders, due)
    PROVE  Handled
<1> DEFINE h == Enter(fails, orders)
           r == IF drift = 0 THEN h ELSE Aged(h)
           late == {p \in PeerIds : peers[p].idle > SessionTimeout}
           c == RangePeers(r, CloseEach(late))
           ticked(gone) == NotifyIfEnded([c EXCEPT !.eng = Tick(@, gone)], TickEnd(c.eng, gone))
           s(gone) == Loop(ticked(gone), due, RetryEach(drift))
<1>1. PICK gone \in TickRemovals(c.eng) : Commit(s(gone))
  BY DEF TickServer
<1>2. /\ fails \in Fails \cup {{}} /\ orders \in Orderings /\ Good(h, {}, {}) /\ Covered(h)
      /\ h.events = {} /\ h.orders = orders /\ h.pending = pending
      /\ h.peers = peers /\ Known(h) = PeerIds
  BY Entered, EnterFields
<1> HIDE DEF h
<1>3. /\ Good(Aged(h), {}, {}) /\ Alike(h, Aged(h))
      /\ Known(Aged(h)) = Known(h) /\ Aged(h).orders = h.orders
      /\ \A n \in h.pending : n.due = 0 => n \in Aged(h).pending
  BY <1>2, AgedGood
<1>4. /\ Good(r, {}, {}) /\ Alike(h, r) /\ Known(r) = Known(h) /\ r.orders = orders
      /\ \A n \in pending : n.due = 0 => n \in r.pending
  BY <1>2, <1>3, AlikeSelf
<1>5. Covered(r)
  BY <1>2, <1>4 DEF Covered
<1>6. \A p \in Known(r) : Drift = 0 /\ r.peers[p].idle > SessionTimeout => p \in late
  <2> SUFFICES ASSUME NEW p \in Known(r), Drift = 0, r.peers[p].idle > SessionTimeout
               PROVE  p \in late
    OBVIOUS
  <2>1. drift = 0
    BY EnvironmentAssumption
  <2>2. r = h
    BY <2>1
  <2> QED
    BY <1>2, <2>2
<1>7. /\ due \in Seq(r.pending)
      /\ \A j, k \in 1 .. Len(due) : j # k => due[j] # due[k]
  <2> DEFINE S == {n \in pending : n.due = 0}
  <2>1. IsFiniteSet(pending)
    BY <1>2, GoodFit DEF Fit, PendingFit
  <2>2. IsFiniteSet(S)
    BY <2>1, FS_Subset
  <2>3. due \in OrdersOf(S)
    BY DEF DueOrders
  <2>4. S \subseteq r.pending
    BY <1>4
  <2> HIDE DEF S, r
  <2>5. due \in Seq(S) /\ \A j, k \in 1 .. Len(due) : j # k => due[j] # due[k]
    BY <2>2, <2>3, OrderOf
  <2> QED
    BY <2>4, <2>5
<1> HIDE DEF r, late
<1>8. c = RangePeers(r, CloseEach(late))
  OBVIOUS
<1> HIDE DEF c
<1>9. Outcome(h, s(gone))
  BY <1>1, <1>4, <1>5, <1>6, <1>7, <1>8, TickOutcome
<1> HIDE DEF s
<1> QED
  BY <1>1, <1>2, <1>9 DEF Handled, h

\* Of the first stage of drain, which also closes the channel.
LEMMA BeginDrainHandled ==
    ASSUME Inv, NEW fails \in Fails, NEW orders \in Orders, BeginDrain(fails, orders)
    PROVE  Handled /\ eng'.draining
<1> DEFINE h == Enter(fails, orders)
           r == [h EXCEPT !.eng = BeginShutdown(@)]
           s == NotifyIfEnded(r, ShutdownEnd(h.eng))
<1>1. /\ fails \in Fails \cup {{}} /\ orders \in Orderings /\ Good(h, {}, {}) /\ Covered(h)
      /\ h.events = {} /\ h.eng = eng
  BY Entered, EnterFields
<1>2. Commit(s)
  BY <1>1 DEF BeginDrain
<1> HIDE DEF h
<1>3. Outcome(h, s) /\ s.eng.draining
  BY <1>1, BeginDrainOutcome
<1> HIDE DEF s
<1>4. eng' = s.eng
  BY <1>2 DEF Commit
<1> QED
  BY <1>1, <1>2, <1>3, <1>4 DEF Handled, h

\* Of the second.
LEMMA StartDisconnectsHandled ==
    ASSUME Inv, NEW fails \in Fails, NEW orders \in Orders, StartDisconnects(fails, orders)
    PROVE  Handled
<1> DEFINE h == Enter(fails, orders)
           s == RangePeers(h, DisconnectEach)
<1>1. /\ fails \in Fails \cup {{}} /\ orders \in Orderings /\ Good(h, {}, {}) /\ Covered(h)
      /\ h.events = {} /\ h.eng = eng /\ h.orders = orders
  BY Entered, EnterFields
<1>2. Commit(s)
  BY <1>1 DEF StartDisconnects
<1>3. h.eng.draining
  BY <1>1 DEF Inv, StartDisconnects
<1> HIDE DEF h
<1>4. Outcome(h, s)
  BY <1>1, <1>3, StartDisconnectsOutcome
<1> HIDE DEF s
<1> QED
  BY <1>1, <1>2, <1>4 DEF Handled, h

\* Of the last.
LEMMA FinishDrainHandled ==
    ASSUME Inv, NEW orders \in Orders, FinishDrain(orders)
    PROVE  Handled
<1> DEFINE h == Enter({}, orders)
           s == RangePeers(h, CloseEach(Ids))
<1>1. IsFiniteSet(PeerIds) /\ PeerIds \in SUBSET Ids
  BY PeersFinite
<1>2. orders \in Orderings /\ Covered(h) /\ {} \in Fails \cup {{}}
  BY <1>1, Ordered DEF Orders
<1>3. Good(h, {}, {}) /\ h.events = {}
  BY <1>2, EnterGood, EnterFields
<1>4. Commit(s)
  BY <1>3 DEF FinishDrain
<1> HIDE DEF h
<1>5. Outcome(h, s)
  BY <1>2, <1>3, FinishDrainOutcome
<1> HIDE DEF s
<1> QED
  BY <1>2, <1>4, <1>5 DEF Handled, h

\* Of the clock.
LEMMA AdvanceHandled ==
    ASSUME Inv, Advance
    PROVE  Handled
<1> DEFINE h == Quiet
<1>1. Good(h, {}, {}) /\ h.events = {} /\ Commit(Aged(h))
  BY EnteredAlone DEF Advance
<1> HIDE DEF h
<1>2. Outcome(h, Aged(h))
  BY <1>1, AdvanceOutcome
<1> QED
  BY <1>1, <1>2, EnteredAlone DEF h

\* Of the requests of a session together.
LEMMA RequestHandled ==
    ASSUME Inv, NEW p \in PeerIds, NEW fails \in Fails, NEW orders \in Orders,
           Requests(p, fails, orders)
    PROVE  Handled
<1>1. CASE \E stream \in Streams \ {0} :
              \/ StreamRequest(p, stream, fails, orders)
              \/ \E sequence \in Sequences32, timestamp \in Timestamps :
                    StreamEndRequest(p, stream, sequence, timestamp, fails, orders)
  BY <1>1, StreamRequestHandled, StreamEndRequestHandled
<1> QED
  BY <1>1, KeepaliveHandled, UndeliveredHandled, RefuseOverloadHandled,
     DisconnectRequestHandled DEF Requests

\* Every step of the state owner, and what it does to the stage of drain.
LEMMA NextHandled ==
    ASSUME Inv, Next
    PROVE  /\ Handled
           /\ stage' \in {"running", "revoking", "disconnecting", "stopped"}
           /\ graceOver' \in BOOLEAN
           /\ stage' # "running" => stage # "running" \/ eng'.draining
<1> USE DEF Inv
<1>1. ASSUME NEW p \in Ids, NEW address \in Addresses, NEW fails \in Fails,
             NEW orders \in RangeOrders(PeerIds \cup {p}), Admit(p, address, fails, orders)
      PROVE  Handled /\ UNCHANGED <<stage, graceOver>>
  BY <1>1, AdmitHandled DEF Admit, Running
<1>2. ASSUME NEW p \in PeerIds, NEW fails \in Fails, NEW orders \in Orders,
             Requests(p, fails, orders)
      PROVE  Handled /\ UNCHANGED <<stage, graceOver>>
  BY <1>2, RequestHandled DEF Requests, Running, Keepalive, Undelivered, RefuseOverload,
     DisconnectRequest, StreamRequest, StreamEndRequest
<1>3. ASSUME NEW p \in PeerIds, Duplicate(p) \/ Refuse(p)
      PROVE  Handled /\ UNCHANGED <<stage, graceOver>>
  BY <1>3, DuplicateHandled, RefuseHandled DEF Duplicate, Refuse, Running
<1>4. ASSUME SomeMedia PROVE Handled /\ UNCHANGED <<stage, graceOver>>
  BY <1>4, ForwardMediaHandled, Zenon DEF SomeMedia, ForwardMedia, Running
<1>5. ASSUME NEW n \in pending, Ack(n) PROVE Handled /\ UNCHANGED <<stage, graceOver>>
  BY <1>5, AckHandled, Zenon DEF Ack
<1>6. ASSUME SomeTick PROVE Handled /\ UNCHANGED <<stage, graceOver>>
  BY <1>6, TickHandled DEF SomeTick, TickServer
<1>7. ASSUME NEW fails \in Fails, NEW orders \in Orders, BeginDrain(fails, orders)
      PROVE  /\ Handled /\ eng'.draining
             /\ stage' = "revoking" /\ UNCHANGED graceOver
  BY <1>7, BeginDrainHandled DEF BeginDrain
<1>8. ASSUME SomeDisconnects
      PROVE  Handled /\ stage = "revoking" /\ stage' = "disconnecting" /\ UNCHANGED graceOver
  BY <1>8, StartDisconnectsHandled DEF SomeDisconnects, StartDisconnects
<1>9. ASSUME SomeFinish
      PROVE  Handled /\ stage = "disconnecting" /\ stage' = "stopped" /\ UNCHANGED graceOver
  BY <1>9, FinishDrainHandled DEF SomeFinish, FinishDrain
<1>10. ASSUME GraceExpires PROVE Handled /\ UNCHANGED stage /\ graceOver' = TRUE
  BY <1>10, RefuseHandled DEF GraceExpires
<1>11. ASSUME Advance PROVE Handled /\ UNCHANGED <<stage, graceOver>>
  BY <1>11, AdvanceHandled DEF Advance
<1> QED
  BY <1>1, <1>2, <1>3, <1>4, <1>5, <1>6, <1>7, <1>8, <1>9, <1>10, <1>11 DEF Next

-----------------------------------------------------------------------------
(* The theorems.                                                           *)

\* A new state owner has no session, no floor and nothing pending.
LEMMA InitInv ==
    ASSUME Init
    PROVE  Inv
<1> DEFINE h == Quiet
<1>1. /\ h.eng = NewEngine /\ h.peers = [p \in Ids |-> NoPeer] /\ h.pending = {}
      /\ h.told = {} /\ h.fails = {}
  BY EnterFields DEF Init, Quiet
<1>2. NewEngine \in EngineState
  BY DEF NewEngine, EngineState
<1>3. h \in Handler
  <2>1. [p \in Ids |-> NoPeer] \in [Ids -> Peer \cup {NoPeer}] /\ 0 \in Nat
    OBVIOUS
  <2> QED
    BY <1>2, <2>1, NoOrders DEF Handler, Enter, Init, Quiet, Orderings
<1> HIDE DEF h
<1>4. Known(h) = {}
  BY <1>1 DEF Known
<1>5. Live(h.eng) = {} /\ h.eng.floor = NoFloor
  BY <1>1 DEF Live, NewEngine
<1>6. IsFiniteSet({}) /\ Cardinality({}) = 0
  BY FS_EmptySet
<1>7. PendingFit(h.pending)
  BY <1>1, <1>6, CapacityAssumption DEF PendingFit
<1>8. Good(h, {}, {})
  BY <1>1, <1>3, <1>4, <1>5, <1>6, <1>7
     DEF Good, Sound, Fit, Agree, Readied, Homed, Told, StartsHeld
<1> QED
  BY <1>8 DEF Inv, Init, h

\* What Commit stores is again what the next handler enters with.
LEMMA CommitGood ==
    ASSUME NEW s, Good(s, {}, {}), Commit(s)
    PROVE  Good(Quiet, {}, {})'
<1> DEFINE t == IF s.eng.floor = NoFloor THEN {} ELSE {p \in s.told : s.peers[p] # NoPeer}
           none == [i \in 1 .. MaxRanges |-> <<>>]
           c == [eng |-> s.eng, peers |-> s.peers, pending |-> s.pending, told |-> t,
                 events |-> {}, sends |-> 0, fails |-> {}, ranges |-> 0, orders |-> none]
<1>1. eng' = s.eng /\ peers' = s.peers /\ pending' = s.pending /\ told' = t
  BY DEF Commit
<1>2. s \in Handler
  BY GoodFit DEF Fit
<1>3. c \in Handler
  <2>1. /\ s.eng \in EngineState /\ s.peers \in [Ids -> Peer \cup {NoPeer}]
        /\ s.pending \in SUBSET Notification /\ t \in SUBSET Ids
    BY <1>2 DEF Handler
  <2>2. {} \in SUBSET Event /\ 0 \in Nat /\ {} \in SUBSET Nat
    OBVIOUS
  <2>3. none \in [1 .. MaxRanges -> Seq(Ids)]
    BY NoOrders DEF Orderings
  <2> HIDE DEF t, none
  <2> QED
    BY <2>1, <2>2, <2>3 DEF Handler
<1>4. \A p \in Known(s) : p \in s.told /\ s.eng.floor # NoFloor => p \in t
  BY DEF Known
<1> HIDE DEF t
<1>5. /\ c.eng = s.eng /\ c.peers = s.peers /\ c.pending = s.pending /\ c.told = t
      /\ c.fails = {}
  OBVIOUS
<1>6. Good(c, {}, {})
  <2> HIDE DEF c
  <2> QED
    BY <1>3, <1>4, <1>5, Recorded
<1> QED
  BY <1>1, <1>6 DEF Quiet, Enter

\* Every handler keeps the invariant.
LEMMA NextInv ==
    ASSUME Inv, Next
    PROVE  Inv'
<1>1. PICK fails \in Fails \cup {{}}, orders \in Orderings :
         \E u : Outcome(Enter(fails, orders), u) /\ Commit(u)
  BY NextHandled DEF Handled
<1>2. PICK s : Outcome(Enter(fails, orders), s) /\ Commit(s)
  BY <1>1
<1>3. Good(s, {}, {}) /\ (eng.draining => s.eng.draining) /\ eng' = s.eng
  BY <1>2, EnterFields DEF Outcome, Commit
<1>4. Good(Quiet, {}, {})'
  BY <1>2, <1>3, CommitGood
<1> QED
  BY <1>3, <1>4, NextHandled DEF Inv

\* The inductive invariant holds in every reachable state.
THEOREM Invariance == Safety => []Inv
<1>1. Init => Inv
  BY InitInv
<1>2. Inv /\ [Next]_vars => Inv'
  <2>1. CASE Next
    BY <2>1, NextInv
  <2>2. CASE UNCHANGED vars
    BY <2>2 DEF vars, Inv, Quiet, Enter
  <2> QED
    BY <2>1, <2>2
<1> QED
  BY <1>1, <1>2, PTL DEF Safety

\* The types and the limits are part of it.
LEMMA InvType ==
    ASSUME Inv
    PROVE  TypeOK
<1> DEFINE h == Quiet
<1>1. h.eng = eng /\ h.peers = peers /\ h.pending = pending /\ h.told = told
  BY EnterFields DEF Quiet
<1>2. h \in Handler /\ PendingFit(h.pending)
  BY GoodFit DEF Inv, Fit
<1> HIDE DEF h
<1>3. /\ eng \in EngineState /\ peers \in [Ids -> Peer \cup {NoPeer}]
      /\ told \subseteq Ids
  BY <1>1, <1>2 DEF Handler
<1>4. /\ pending \subseteq Notification /\ Cardinality(pending) <= MaxPendingNotifications
      /\ \A m, n \in pending : m.listener = n.listener /\ m.tx = n.tx => m = n
  BY <1>1, <1>2 DEF PendingFit
<1>5. \A m, n \in pending : <<m.listener, m.tx>> = <<n.listener, n.tx>> => m = n
  BY <1>4
<1> QED
  BY <1>3, <1>4, <1>5 DEF TypeOK, Inv

\* Every variable of the state owner has its type, the pending map has one
\* entry for each key and never more than the configured number.
THEOREM TypeCorrect == Safety => []TypeOK
<1>1. Inv => TypeOK
  BY InvType
<1> QED
  BY <1>1, Invariance, PTL

\* The peer table and the engine's sessions never disagree, whatever is full,
\* fails or times out, except that two readings of the clock may leave peers
\* the engine has expired already.
THEOREM TablesAlwaysAgree == Safety => []TablesAgree
<1>1. Inv => TablesAgree
  <2> SUFFICES ASSUME Inv PROVE TablesAgree
    OBVIOUS
  <2> DEFINE h == Quiet
  <2>1. h.eng = eng /\ h.peers = peers /\ Known(h) = PeerIds
    BY EnterFields DEF Quiet
  <2>2. Agree(h, {}) /\ Live(h.eng) \subseteq Known(h)
    BY DEF Inv, Good, Sound, Fit
  <2> HIDE DEF h
  <2>3. /\ Live(eng) \subseteq PeerIds
        /\ \A p \in Live(eng) : /\ peers[p].address = eng.sessions[p].address
                                /\ peers[p].ready = eng.sessions[p].ready
                                /\ peers[p].idle = eng.sessions[p].idle
        /\ Drift = 0 => PeerIds \subseteq Live(eng)
    BY <2>1, <2>2 DEF Agree
  <2> QED
    BY <2>3, InvType DEF TablesAgree
<1> QED
  BY <1>1, Invariance, PTL

\* Whatever joins, overloads or expires, the control queue has taken a
\* STREAM_START of the stream that holds the floor for every other confirmed
\* session, and a frame goes to nobody else.  The condition is that no START
\* fails to be queued, or that no two sessions share an address; elsewhere a
\* failing START costs another session of the address its place, and the
\* session it was for receives media before the first retry.
THEOREM ListenersAlwaysTold ==
    ASSUME StartSpares
    PROVE  Safety => []ListenersAreTold
<1>1. Inv => ListenersAreTold
  <2> SUFFICES ASSUME Inv, eng.floor # NoFloor
               PROVE  /\ \A p \in PeerIds \ {eng.floor.owner} : peers[p].ready => p \in told
                      /\ Recipients(eng.floor.owner) \subseteq told
    BY DEF ListenersAreTold
  <2> DEFINE h == Quiet
  <2>1. h.eng = eng /\ h.peers = peers /\ h.told = told /\ Known(h) = PeerIds
    BY EnterFields DEF Quiet
  <2>2. Told(h, {}) /\ Readied(h)
    BY DEF Inv, Good, Sound
  <2> HIDE DEF h
  <2>3. \A p \in PeerIds \ {eng.floor.owner} : peers[p].ready => p \in told
    BY <2>1, <2>2 DEF Told
  <2>4. ASSUME NEW q \in Recipients(eng.floor.owner) PROVE q \in told
    <3>1. /\ q \in PeerIds \ {eng.floor.owner}
          /\ q \in Live(eng) /\ eng.sessions[q].ready
      BY <2>4 DEF Recipients, Fanout, IsReady, PeerIds
    <3>2. peers[q].ready
      BY <2>1, <2>2, <3>1 DEF Readied
    <3> QED
      BY <2>3, <3>1, <3>2
  <2> QED
    BY <2>3, <2>4
<1> QED
  BY <1>1, Invariance, PTL

\* Where a WELCOME that cannot be queued closes nobody who speaks, no pending
\* STREAM_START announces a stream that is over.
THEOREM StartsAlwaysCurrent ==
    ASSUME WelcomeSpares
    PROVE  Safety => []StartsAreCurrent
<1>1. Inv => StartsAreCurrent
  <2> SUFFICES ASSUME Inv PROVE StartsAreCurrent
    OBVIOUS
  <2> DEFINE h == Quiet
  <2>1. h.eng = eng /\ h.pending = pending
    BY EnterFields DEF Quiet
  <2>2. StartsHeld(h)
    BY DEF Inv, Good
  <2> HIDE DEF h
  <2> QED
    BY <2>1, <2>2 DEF StartsHeld, Held, StartsAreCurrent, HeldBy
<1> QED
  BY <1>1, Invariance, PTL

\* Under the same condition no release of the floor goes unannounced, that of
\* a grant which its own handler takes back included, and no listener that
\* was notified of the stream is left without its revoke.
THEOREM ReleasesAreAnnounced ==
    ASSUME WelcomeSpares
    PROVE  Safety => ReleaseIsAnnounced
<1> DEFINE Step ==
       \A o \in Ids, s \in Streams : Released(o, s) =>
          /\ Announced(o, s)
          /\ \A p \in Ids \ {o} :
                peers'[p] # NoPeer /\ (Notified(p) \/ Notified(p)') => Revoked(p, o, s)
          /\ \/ peers'[o] = NoPeer
             \/ [type |-> "stream_ended", session |-> o, stream |-> s,
                 reason |-> "normal"] \in events'
             \/ Revoked(o, o, s)
<1>1. ASSUME Inv, Next PROVE Step
  <2>1. PICK fails \in Fails \cup {{}}, orders \in Orderings :
           \E u : Outcome(Enter(fails, orders), u) /\ Commit(u)
    BY <1>1, NextHandled DEF Handled
  <2>2. PICK z : Outcome(Enter(fails, orders), z) /\ Commit(z)
    BY <2>1
  <2> DEFINE h == Enter(fails, orders)
  <2>3. h.eng = eng /\ h.peers = peers /\ Known(h) = PeerIds
    BY EnterFields
  <2>4. Announces(h, z)
    BY <2>2 DEF Outcome
  <2>5. eng' = z.eng /\ peers' = z.peers /\ pending' = z.pending /\ events' = z.events
    BY <2>2 DEF Commit
  <2> HIDE DEF h
  <2> SUFFICES ASSUME NEW o \in Ids, NEW s \in Streams, Released(o, s)
               PROVE  /\ Announced(o, s)
                      /\ \A p \in Ids \ {o} :
                            peers'[p] # NoPeer /\ (Notified(p) \/ Notified(p)')
                               => Revoked(p, o, s)
                      /\ \/ peers'[o] = NoPeer
                         \/ [type |-> "stream_ended", session |-> o, stream |-> s,
                             reason |-> "normal"] \in events'
                         \/ Revoked(o, o, s)
    OBVIOUS
  <2>6. z.eng.floor = NoFloor /\ (Held(h, o, s) \/ StreamGranted(o, s) \in z.events)
    BY <2>3, <2>5 DEF Released, Held, HeldBy
  <2>7. /\ \E reason \in EndReasons : EndEvent(o, s, reason) \in z.events
        /\ \A p \in Known(z) \ {o} :
              z.peers[p].notified \/ (p \in PeerIds /\ peers[p].notified) => Revoke(z, p, o, s)
        /\ o \in Known(z) => EndEvent(o, s, "normal") \in z.events \/ Revoke(z, o, o, s)
    BY <2>3, <2>4, <2>6 DEF Announces
  <2>8. Announced(o, s)
    BY <2>5, <2>7 DEF Announced, EndEvent
  <2>9. ASSUME NEW p \in Ids \ {o}, peers'[p] # NoPeer, Notified(p) \/ Notified(p)'
        PROVE  Revoked(p, o, s)
    <3>1. p \in Known(z)
      BY <2>5, <2>9 DEF Known
    <3>2. z.peers[p].notified \/ (p \in PeerIds /\ peers[p].notified)
      BY <2>5, <2>9 DEF Notified, PeerIds
    <3> QED
      BY <2>5, <2>7, <3>1, <3>2 DEF Revoke, Revoked
  <2>10. \/ peers'[o] = NoPeer
         \/ EndEvent(o, s, "normal") \in events'
         \/ Revoked(o, o, s)
    BY <2>5, <2>7 DEF Revoke, Revoked, Known
  <2> QED
    BY <2>8, <2>9, <2>10 DEF EndEvent
<1> HIDE DEF Step
<1>2. Inv /\ [Next]_vars => [Step]_vars
  BY <1>1
<1>3. ReleaseIsAnnounced <=> [][Step]_vars
  BY DEF ReleaseIsAnnounced, Step
<1> QED
  BY <1>2, <1>3, Invariance, PTL DEF Safety
=============================================================================
