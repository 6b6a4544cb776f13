---------------------------- MODULE DaemonProofs ----------------------------
(***************************************************************************)
(* Theorems about Daemon for every capacity of the ring and any number of  *)
(* events, drops and gaps.  There are two inductive invariants, one upon   *)
(* the other: Ending says where main and Run can be and who cancelled the  *)
(* context; Counting what the monitor goroutine has counted and what the   *)
(* registry stores.                                                        *)
(***************************************************************************)
EXTENDS Daemon, TLAPS, SequenceTheorems, FiniteSetTheorems

Count == {f \in [Counters -> Nat] : \A k \in Counters : f[k] <= Bound[k]}
Snapshot == [ready : BOOLEAN, count : Count]
Event == [id : Nat, by : Publishers]

Types ==
    /\ main \in [at : {"select", "await", "close monitor", "shutdown", "exit", "killed"},
                 err : Errors, stopped : BOOLEAN]
    /\ ctx \in [signalled : BOOLEAN, done : BOOLEAN]
    /\ http \in [state : {"serving", "failed", "closed"}, err : Errors]
    /\ owner \in [at : {"loop", "store", "publish", "drain", "returned"},
                  draining : BOOLEAN, err : Errors \cup {"running"}, emitted : 0 .. MaxEvents]
    /\ transport \in [closed : BOOLEAN, failed : BOOLEAN]

\* Run has returned once main is past waitForTermination; it has drained, or
\* returned the failure of the transport; and it drains only when the
\* context is done.
RunEnds ==
    /\ main.at \in {"close monitor", "shutdown", "exit"} => owner.at = "returned"
    /\ transport.closed => main.at = "exit"
    /\ owner.at = "drain" => owner.draining
    /\ owner.draining => ctx.done
    /\ owner.at = "returned" =>
          \/ owner.err = None /\ owner.draining
          \/ owner.err = "transport" /\ transport.failed

\* A context that is done was cancelled by a signal or by stop(), and main
\* calls stop() with an error in hand unless a signal came first.
DoneHasReason ==
    /\ ctx.done => ctx.signalled \/ main.stopped
    /\ main.at = "select" => ~main.stopped
    /\ main.at \notin {"select", "killed"} => ctx.signalled \/ main.err # None

Ending == Types /\ RunEnds /\ DoneHasReason

MonitorType == [at : {"select", "drops", "store", "gaps", "returned"},
                done : BOOLEAN, s : Snapshot, prior : Count]
RegistryType == [ready : BOOLEAN, metric : [Counters -> Nat], next : Nat, events : Seq(Event)]
HistoryType == [stored : Seq(Event), drawn : [Publishers -> Nat]]

CountTypes ==
    /\ counts \in Count
    /\ snapshot \in Snapshot
    /\ monitor \in MonitorType
    /\ registry \in RegistryType
    /\ history \in HistoryType

\* Snapshots lag behind the counts, the monitor goroutine behind the
\* snapshots, and the counters of the registry are what it remembers but
\* between Add and priorInbound = s.InboundDrops.  An event about drops has
\* a drop of its own.
CountsLag ==
    /\ \A k \in Counters :
          /\ snapshot.count[k] <= counts[k]
          /\ monitor.s.count[k] <= snapshot.count[k]
          /\ monitor.prior[k] <= snapshot.count[k]
    /\ registry.metric["gaps"] = monitor.prior["gaps"]
    /\ registry.metric["inbound"] = IF monitor.at = "store" THEN monitor.s.count["inbound"]
                                    ELSE monitor.prior["inbound"]
    /\ registry.next <= owner.emitted + registry.metric["inbound"]

\* The IDs up to next are each stored once or in one publisher's hands, and
\* a publisher stores its own in order.
IdsKept(stored, drawn, next) ==
    /\ \A i \in 1 .. Len(stored) : stored[i].id \in 1 .. next
    /\ \A p \in Publishers : drawn[p] <= next
    /\ \A id \in 1 .. next :
          \/ \E i \in 1 .. Len(stored) : stored[i].id = id
          \/ \E p \in Publishers : drawn[p] = id
    /\ \A i, j \in 1 .. Len(stored) : i # j => stored[i].id # stored[j].id
    /\ \A i \in 1 .. Len(stored), p \in Publishers : stored[i].id # drawn[p]
    /\ \A p, q \in Publishers : p # q /\ drawn[p] = drawn[q] => drawn[p] = 0
    /\ \A i, j \in 1 .. Len(stored) :
          i < j /\ stored[i].by = stored[j].by => stored[i].id < stored[j].id
    /\ \A i \in 1 .. Len(stored), p \in Publishers :
          stored[i].by = p /\ drawn[p] # 0 => stored[i].id < drawn[p]

\* How many of n events the ring holds, and that it holds the last ones.
RingSize(n) == IF n < RecentEvents THEN n ELSE RecentEvents
RingKept(events, stored) ==
    LET n == Len(stored)
    IN  /\ Len(events) = RingSize(n)
        /\ \A i \in 1 .. RingSize(n) : events[i] = stored[n - RingSize(n) + i]

EventsStored ==
    /\ history.drawn["owner"] # 0 <=> owner.at = "store"
    /\ history.drawn["monitor"] # 0 <=> monitor.at = "store"
    /\ IdsKept(history.stored, history.drawn, registry.next)
    /\ RingKept(registry.events, history.stored)

Counting == CountTypes /\ CountsLag /\ EventsStored

-----------------------------------------------------------------------------
(* How the process ends.                                                   *)

\* The process starts with Run in its loop and no reason to stop.
LEMMA InitEnding == Init => Ending
  BY DaemonAssumption DEF Init, Ending, Types, RunEnds, DoneHasReason, Errors, None

\* Steps of the monitor goroutine, the transport's counters and the end of
\* CloseMonitor say nothing about the end.
LEMMA EndingUnchanged ==
    ASSUME Ending, UNCHANGED <<main, ctx, http, owner, transport>>
    PROVE  Ending'
<1>1. main' = main /\ ctx' = ctx /\ http' = http /\ owner' = owner /\ transport' = transport
  OBVIOUS
<1>2. Types'
  BY <1>1, Zenon DEF Ending, Types
<1> QED
  BY <1>1, <1>2 DEF Ending, RunEnds, DoneHasReason

\* A step of Run that does not return from a loop it is in.
LEMMA RunStep ==
    ASSUME Ending, UNCHANGED <<main, ctx, http, transport>>, owner.at # "returned",
           owner' \in [at : {"loop", "store", "publish", "drain", "returned"},
                       draining : BOOLEAN, err : Errors \cup {"running"},
                       emitted : 0 .. MaxEvents],
           owner'.at = "drain" => owner'.draining,
           owner'.draining => ctx.done,
           owner'.at = "returned" =>
              \/ owner'.err = None /\ owner'.draining
              \/ owner'.err = "transport" /\ transport.failed
    PROVE  Ending'
  BY DEF Ending, Types, RunEnds, DoneHasReason

\* A step of waitForTermination: main goes on with an error or after a
\* signal, and past its end only when Run has returned.
LEMMA WaitsStep ==
    ASSUME Ending, Alive, NEW at \in {"await", "close monitor"}, NEW err \in Errors,
           NEW stop \in BOOLEAN, Waits(at, err, stop),
           main.at \in {"select", "await"},
           at = "close monitor" => owner.at = "returned",
           ctx.signalled \/ err # None
    PROVE  Ending'
<1>1. /\ main' = [at |-> at, err |-> err, stopped |-> main.stopped \/ stop]
      /\ ctx' = [ctx EXCEPT !.done = @ \/ stop]
      /\ UNCHANGED <<http, owner, transport>>
  BY DEF Waits
<1>2. /\ ctx' \in [signalled : BOOLEAN, done : BOOLEAN]
      /\ ctx'.signalled = ctx.signalled
      /\ ctx'.done <=> ctx.done \/ stop
  BY <1>1 DEF Ending, Types
<1>3. Types'
  BY <1>1, <1>2 DEF Ending, Types
<1>4. RunEnds'
  BY <1>1, <1>2 DEF Ending, RunEnds
<1>5. DoneHasReason'
  BY <1>1, <1>2 DEF Ending, DoneHasReason
<1> QED
  BY <1>3, <1>4, <1>5 DEF Ending

\* Every step keeps Ending.
LEMMA NextEnding == Ending /\ [Next]_vars => Ending'
<1> SUFFICES ASSUME Ending, [Next]_vars PROVE Ending'
  OBVIOUS
<1>0. /\ Types /\ owner.at \in {"loop", "store", "publish", "drain", "returned"}
      /\ owner.emitted \in 0 .. MaxEvents
  BY DEF Ending, Types
<1>1. CASE InboundDrop \/ Tick \/ MonitorLoop \/ MonitorReturns
  BY <1>1, EndingUnchanged DEF InboundDrop, Tick, MonitorLoop, AddDrops, StoreDrops,
                              PublishTick, MonitorReturns
<1>2. CASE TransportFails
  BY <1>2 DEF TransportFails, Ending, Types, RunEnds, DoneHasReason
<1>3. CASE Work
  <2>1. CASE owner' = [owner EXCEPT !.at = "store", !.emitted = @ + 1] /\ owner.emitted < MaxEvents
    <3> DEFINE n == owner.emitted + 1
    <3>1. n \in 0 .. MaxEvents
      BY <1>0, <2>1, DaemonAssumption
    <3>2. owner' = [owner EXCEPT !.at = "store", !.emitted = n]
      BY <2>1
    <3> HIDE DEF n
    <3>3. /\ owner' \in [at : {"loop", "store", "publish", "drain", "returned"},
                         draining : BOOLEAN, err : Errors \cup {"running"},
                         emitted : 0 .. MaxEvents]
          /\ owner'.at = "store" /\ owner'.draining = owner.draining
      BY <1>0, <3>1, <3>2 DEF Types
    <3> QED
      BY <1>3, <3>3, RunStep DEF Work, Ending, RunEnds
  <2>2. CASE owner' = [owner EXCEPT !.at = "publish"]
    <3>1. /\ owner' \in [at : {"loop", "store", "publish", "drain", "returned"},
                         draining : BOOLEAN, err : Errors \cup {"running"},
                         emitted : 0 .. MaxEvents]
          /\ owner'.at = "publish" /\ owner'.draining = owner.draining
      BY <1>0, <2>2 DEF Types
    <3> QED
      BY <1>3, <3>1, RunStep DEF Work, Ending, RunEnds
  <2> QED
    BY <1>3, <2>1, <2>2 DEF Work
<1>4. CASE WorkStore \/ publish
  <2>1. /\ owner.at \in {"store", "publish"}
        /\ owner' = [owner EXCEPT !.at = "publish"]
           \/ owner' = [owner EXCEPT !.at = IF owner.draining THEN "drain" ELSE "loop"]
        /\ UNCHANGED <<main, ctx, http, transport>>
    BY <1>4 DEF WorkStore, publish
  <2>2. /\ owner' \in [at : {"loop", "store", "publish", "drain", "returned"},
                       draining : BOOLEAN, err : Errors \cup {"running"},
                       emitted : 0 .. MaxEvents]
        /\ owner'.draining = owner.draining
        /\ owner'.at # "returned"
        /\ owner'.at = "drain" => owner.draining
    BY <1>0, <2>1 DEF Types
  <2> QED
    BY <2>1, <2>2, RunStep DEF Ending, RunEnds
<1>5. CASE RunFails
  BY <1>5 DEF RunFails, Ending, Types, RunEnds, DoneHasReason, Errors, None
<1>6. CASE drain
  BY <1>6 DEF drain, Ending, Types, RunEnds, DoneHasReason
<1>7. CASE DrainEnds
  BY <1>7 DEF DrainEnds, Ending, Types, RunEnds, DoneHasReason, Errors, None
<1>8. CASE Signal
  <2>1. CASE main.stopped
    BY <1>8, <2>1 DEF Signal, Alive, Ending, Types, RunEnds, DoneHasReason
  <2>2. CASE ~main.stopped
    <3>1. /\ ctx' = [signalled |-> TRUE, done |-> TRUE]
          /\ UNCHANGED <<main, http, owner, transport>>
      BY <1>8, <2>2 DEF Signal
    <3>2. Types'
      BY <1>0, <3>1 DEF Types
    <3>3. RunEnds' /\ DoneHasReason'
      BY <3>1 DEF Ending, RunEnds, DoneHasReason
    <3> QED
      BY <3>2, <3>3 DEF Ending
  <2> QED
    BY <2>1, <2>2
<1>9. CASE HTTPFails
  <2>1. http' = [state |-> "failed", err |-> "http"] /\ UNCHANGED <<main, ctx, owner, transport>>
    BY <1>9 DEF HTTPFails
  <2>2. http' \in [state : {"serving", "failed", "closed"}, err : Errors]
    BY <2>1 DEF Errors
  <2>3. Types'
    BY <1>0, <2>1, <2>2, Zenon DEF Types
  <2> QED
    BY <2>1, <2>3 DEF Ending, RunEnds, DoneHasReason
<1>10. CASE SelectSignal
  <2>1. ctx.signalled /\ None \in Errors
    BY <1>10 DEF SelectSignal, Ending, DoneHasReason, Errors
  <2> QED
    BY <1>10, <2>1, WaitsStep DEF SelectSignal
<1>11. CASE SelectHTTP
  <2>1. http.err \in Errors
    BY <1>0 DEF Types
  <2> QED
    BY <1>11, <2>1, WaitsStep DEF SelectHTTP, SelectHTTPReady
<1>12. CASE SelectRun
  <2>1. owner.err \in Errors /\ (ctx.signalled \/ owner.err # None)
    BY <1>12 DEF SelectRun, Ending, RunEnds, DoneHasReason, Errors, None
  <2> QED
    BY <1>12, <2>1, WaitsStep DEF SelectRun
<1>13. CASE AwaitRun
  <2> DEFINE err == IF main.err = None THEN owner.err ELSE main.err
  <2>1. err \in Errors /\ (ctx.signalled \/ err # None)
    BY <1>13 DEF AwaitRun, Ending, Types, RunEnds, DoneHasReason, Errors, None
  <2> QED
    BY <1>13, <2>1, WaitsStep DEF AwaitRun
<1>14. CASE CloseMonitor
  BY <1>14 DEF CloseMonitor, Ending, Types, RunEnds, DoneHasReason
<1>15. CASE Close
  BY <1>15 DEF Close, Ending, Types, RunEnds, DoneHasReason
<1>16. CASE UNCHANGED vars
  BY <1>16, EndingUnchanged DEF vars
<1> QED
  BY <1>1, <1>2, <1>3, <1>4, <1>5, <1>6, <1>7, <1>8, <1>9, <1>10, <1>11, <1>12, <1>13,
     <1>14, <1>15, <1>16 DEF Next, Run, Main, waitForTermination

\* Where main and Run are, throughout.
LEMMA EndingInvariance == Spec => []Ending
  BY InitEnding, NextEnding, PTL DEF Spec

\* main closes the socket only after Run has returned, drained or failed.
THEOREM ClosedAfterDrain == Spec => []CloseAfterDrain
<1>1. Ending => CloseAfterDrain
  BY DEF Ending, RunEnds, CloseAfterDrain
<1> QED
  BY <1>1, EndingInvariance, PTL

\* Without a signal the process does not end with success.
THEOREM FailuresReported == Spec => []FailureIsReported
<1>1. Ending => FailureIsReported
  BY DEF Ending, DoneHasReason, FailureIsReported
<1> QED
  BY <1>1, EndingInvariance, PTL

-----------------------------------------------------------------------------
(* What the registry holds.                                                *)

\* Drawing an ID that nobody has yet.
LEMMA DrawKeeps ==
    ASSUME NEW stored \in Seq(Event), NEW drawn \in [Publishers -> Nat], NEW next \in Nat,
           IdsKept(stored, drawn, next), NEW p \in Publishers, drawn[p] = 0
    PROVE  IdsKept(stored, [drawn EXCEPT ![p] = next + 1], next + 1)
<1> DEFINE d == [drawn EXCEPT ![p] = next + 1]
<1>1. d[p] = next + 1 /\ \A q \in Publishers \ {p} : d[q] = drawn[q]
  OBVIOUS
<1>2. /\ Len(stored) \in Nat
      /\ \A i \in 1 .. Len(stored) : stored[i].id \in Nat /\ stored[i].id <= next
      /\ \A q \in Publishers : drawn[q] \in Nat /\ drawn[q] <= next
  BY LenProperties DEF IdsKept
<1> HIDE DEF d
<1>3. \A i \in 1 .. Len(stored) : stored[i].id \in 1 .. next + 1
  BY DEF IdsKept
<1>4. \A q \in Publishers : d[q] <= next + 1
  BY <1>1, <1>2
<1>5. ASSUME NEW id \in 1 .. next + 1
      PROVE  \/ \E i \in 1 .. Len(stored) : stored[i].id = id
             \/ \E q \in Publishers : d[q] = id
  <2>1. CASE id = next + 1
    BY <1>1, <2>1
  <2>2. CASE id \in 1 .. next
    BY <1>1, <2>2 DEF IdsKept
  <2> QED
    BY <2>1, <2>2
<1>6. \A i \in 1 .. Len(stored), q \in Publishers : stored[i].id # d[q]
  BY <1>1, <1>2 DEF IdsKept
<1>7. \A q, r \in Publishers : q # r /\ d[q] = d[r] => d[q] = 0
  BY <1>1, <1>2 DEF IdsKept
<1>8. \A i \in 1 .. Len(stored), q \in Publishers :
         stored[i].by = q /\ d[q] # 0 => stored[i].id < d[q]
  BY <1>1, <1>2 DEF IdsKept
<1>9. /\ \A i, j \in 1 .. Len(stored) : i # j => stored[i].id # stored[j].id
      /\ \A i, j \in 1 .. Len(stored) :
            i < j /\ stored[i].by = stored[j].by => stored[i].id < stored[j].id
  BY DEF IdsKept
<1>10. IdsKept(stored, d, next + 1)
  BY <1>3, <1>4, <1>5, <1>6, <1>7, <1>8, <1>9 DEF IdsKept
<1> QED
  BY <1>10 DEF d

\* Storing the event whose ID was drawn.
LEMMA StoreKeeps ==
    ASSUME NEW stored \in Seq(Event), NEW drawn \in [Publishers -> Nat], NEW next \in Nat,
           IdsKept(stored, drawn, next), NEW p \in Publishers, drawn[p] # 0
    PROVE  IdsKept(Append(stored, [id |-> drawn[p], by |-> p]), [drawn EXCEPT ![p] = 0], next)
<1> DEFINE e == [id |-> drawn[p], by |-> p]
           t == Append(stored, e)
           d == [drawn EXCEPT ![p] = 0]
           n == Len(stored)
<1>1. d[p] = 0 /\ \A q \in Publishers \ {p} : d[q] = drawn[q]
  OBVIOUS
<1>2. e \in Event /\ e.id = drawn[p] /\ e.by = p
  BY DEF Event
<1> HIDE DEF e
<1>3. /\ n \in Nat /\ Len(t) = n + 1 /\ t[n + 1] = e
      /\ \A i \in 1 .. n : t[i] = stored[i]
  BY <1>2, AppendProperties, LenProperties
<1>4. /\ \A i \in 1 .. n : stored[i].id \in 1 .. next
      /\ \A q \in Publishers : drawn[q] \in 0 .. next
      /\ drawn[p] \in 1 .. next
  BY DEF IdsKept
<1> HIDE DEF t, d
<1>5. \A i \in 1 .. n + 1 : (i \in 1 .. n /\ t[i] = stored[i]) \/ (i = n + 1 /\ t[i] = e)
  BY <1>3
<1>6. \A i \in 1 .. n + 1 : t[i].id \in 1 .. next
  BY <1>2, <1>4, <1>5
<1>7. \A q \in Publishers : d[q] <= next
  BY <1>1, <1>4
<1>8. ASSUME NEW id \in 1 .. next
      PROVE  \/ \E i \in 1 .. n + 1 : t[i].id = id
             \/ \E q \in Publishers : d[q] = id
  <2>1. CASE \E i \in 1 .. n : stored[i].id = id
    BY <1>3, <2>1
  <2>2. CASE drawn[p] = id
    BY <1>2, <1>3, <2>2
  <2>3. CASE \E q \in Publishers \ {p} : drawn[q] = id
    BY <1>1, <2>3
  <2> QED
    BY <2>1, <2>2, <2>3 DEF IdsKept
<1>9. \A i, j \in 1 .. n + 1 : i # j => t[i].id # t[j].id
  BY <1>2, <1>3, <1>5 DEF IdsKept
<1>10. \A i \in 1 .. n + 1, q \in Publishers : t[i].id # d[q]
  <2>1. \A q \in Publishers \ {p} : drawn[q] # drawn[p]
    BY DEF IdsKept
  <2>2. \A i \in 1 .. n, q \in Publishers : stored[i].id # drawn[q] /\ stored[i].id # 0
    BY <1>4 DEF IdsKept
  <2> QED
    BY <1>1, <1>2, <1>5, <2>1, <2>2
<1>11. \A q, r \in Publishers : q # r /\ d[q] = d[r] => d[q] = 0
  BY <1>1 DEF IdsKept
<1>12. \A i, j \in 1 .. n + 1 : i < j /\ t[i].by = t[j].by => t[i].id < t[j].id
  <2> SUFFICES ASSUME NEW i \in 1 .. n + 1, NEW j \in 1 .. n + 1, i < j, t[i].by = t[j].by
               PROVE  t[i].id < t[j].id
    OBVIOUS
  <2>1. i \in 1 .. n /\ t[i] = stored[i]
    BY <1>3, <1>5
  <2>2. CASE j \in 1 .. n /\ t[j] = stored[j]
    BY <2>1, <2>2 DEF IdsKept
  <2>3. CASE t[j] = e
    BY <1>2, <2>1, <2>3 DEF IdsKept
  <2> QED
    BY <1>5, <2>2, <2>3
<1>13. \A i \in 1 .. n + 1, q \in Publishers :
          t[i].by = q /\ d[q] # 0 => t[i].id < d[q]
  <2>1. \A i \in 1 .. n, q \in Publishers :
           stored[i].by = q /\ drawn[q] # 0 => stored[i].id < drawn[q]
    BY DEF IdsKept
  <2> QED
    BY <1>1, <1>2, <1>5, <2>1
<1>14. IdsKept(t, d, next)
  BY <1>3, <1>6, <1>7, <1>8, <1>9, <1>10, <1>11, <1>12, <1>13 DEF IdsKept
<1> QED
  BY <1>14 DEF t, d, e

\* The ring loses its oldest event only, and only when it is full.
LEMMA RingKeeps ==
    ASSUME NEW events \in Seq(Event), NEW stored \in Seq(Event), NEW e \in Event,
           RingKept(events, stored)
    PROVE  /\ Append(MakeRoom(events), e) \in Seq(Event)
           /\ RingKept(Append(MakeRoom(events), e), Append(stored, e))
<1> DEFINE n == Len(stored)
           k == Len(events)
           room == MakeRoom(events)
           ring == Append(room, e)
           t == Append(stored, e)
<1>1. n \in Nat /\ k \in Nat /\ k = RingSize(n) /\ RecentEvents \in Nat \ {0}
  BY LenProperties, DaemonAssumption DEF RingKept
<1>2. \A i \in 1 .. k : events[i] = stored[n - k + i]
  BY DEF RingKept
<1>3. Len(t) = n + 1 /\ t[n + 1] = e /\ \A i \in 1 .. n : t[i] = stored[i]
  BY AppendProperties
<1>4. CASE k = RecentEvents
  <2>1. events # <<>>
    BY <1>1, <1>4, EmptySeq
  <2>2. room = Tail(events)
    BY <1>4 DEF MakeRoom
  <2>3. room \in Seq(Event) /\ Len(room) = k - 1 /\ \A i \in 1 .. k - 1 : room[i] = events[i + 1]
    BY <1>1, <2>1, <2>2, HeadTailProperties
  <2> HIDE DEF room
  <2>4. /\ ring \in Seq(Event) /\ Len(ring) = k /\ ring[k] = e
        /\ \A i \in 1 .. k - 1 : ring[i] = room[i]
    BY <1>1, <2>3, AppendProperties
  <2> HIDE DEF ring, t
  <2>5. n >= k /\ RingSize(n + 1) = k
    BY <1>1, <1>4 DEF RingSize
  <2>6. ASSUME NEW i \in 1 .. k PROVE ring[i] = t[n + 1 - k + i]
    <3>1. CASE i = k
      BY <1>1, <1>3, <2>4, <3>1
    <3>2. CASE i \in 1 .. k - 1
      <4>1. ring[i] = stored[n - k + (i + 1)]
        <5>1. i + 1 \in 1 .. k
          BY <1>1, <3>2
        <5>2. ring[i] = events[i + 1]
          BY <2>3, <2>4, <3>2
        <5> QED
          BY <1>2, <5>1, <5>2
      <4>2. n - k + (i + 1) \in 1 .. n /\ n - k + (i + 1) = n + 1 - k + i
        BY <1>1, <2>5, <3>2
      <4> QED
        BY <1>3, <4>1, <4>2
    <3> QED
      BY <1>1, <3>1, <3>2
  <2>7. RingKept(ring, t)
    <3>1. Len(t) = n + 1 /\ RingSize(Len(t)) = k
      BY <1>3, <2>5
    <3>2. \A i \in 1 .. k : ring[i] = t[Len(t) - k + i]
      BY <2>6, <3>1
    <3> QED
      BY <2>4, <3>1, <3>2 DEF RingKept
  <2> QED
    BY <2>4, <2>7 DEF ring, t, room
<1>5. CASE k # RecentEvents
  <2>1. room = events /\ k = n /\ RingSize(n + 1) = n + 1
    BY <1>1, <1>5 DEF MakeRoom, RingSize
  <2> HIDE DEF room
  <2>2. /\ ring \in Seq(Event) /\ Len(ring) = n + 1 /\ ring[n + 1] = e
        /\ \A i \in 1 .. n : ring[i] = events[i]
    BY <2>1, AppendProperties
  <2> HIDE DEF ring, t
  <2>3. \A i \in 1 .. n + 1 : ring[i] = t[(n + 1) - (n + 1) + i]
    BY <1>1, <1>2, <1>3, <2>1, <2>2
  <2>4. RingKept(ring, t)
    BY <1>1, <1>3, <2>1, <2>2, <2>3 DEF RingKept
  <2> QED
    BY <2>2, <2>4 DEF ring, t, room
<1> QED
  BY <1>4, <1>5

\* Zero is a count, and a bound is a number.
LEMMA ZeroType == /\ Zero \in Count
                  /\ \A k \in Counters : Bound[k] \in Nat
                  /\ Bound["inbound"] = MaxDrops /\ Bound["gaps"] = MaxGaps
  BY DaemonAssumption DEF Zero, Count, Counters, Bound

\* What drawing an ID does to the registry and to the history.
LEMMA DrawEffect ==
    ASSUME NEW r \in RegistryType, history \in HistoryType, NEW p \in Publishers, DrawID(p, r)
    PROVE  /\ registry' \in RegistryType /\ history' \in HistoryType
           /\ registry'.next = r.next + 1 /\ registry'.metric = r.metric
           /\ registry'.events = r.events
           /\ history'.stored = history.stored
           /\ history'.drawn = [history.drawn EXCEPT ![p] = r.next + 1]
<1> DEFINE n == r.next + 1
<1>1. n \in Nat
  BY DEF RegistryType
<1>2. /\ registry' = [r EXCEPT !.next = n]
      /\ history' = [history EXCEPT !.drawn[p] = n]
  BY DEF DrawID
<1> HIDE DEF n
<1>3. /\ registry' \in RegistryType /\ history' \in HistoryType
      /\ registry'.next = n /\ registry'.metric = r.metric
      /\ registry'.events = r.events
      /\ history'.stored = history.stored
      /\ history'.drawn = [history.drawn EXCEPT ![p] = n]
  BY <1>1, <1>2 DEF RegistryType, HistoryType
<1> QED
  BY <1>3 DEF n

\* What storing an event does to them.
LEMMA StoreEffect ==
    ASSUME registry \in RegistryType, history \in HistoryType, NEW p \in Publishers,
           StoreEvent(p)
    PROVE  LET event == [id |-> history.drawn[p], by |-> p]
           IN  /\ history' \in HistoryType
               /\ history'.stored = Append(history.stored, event)
               /\ history'.drawn = [history.drawn EXCEPT ![p] = 0]
               /\ registry' = [registry EXCEPT !.events = Append(MakeRoom(registry.events), event)]
               /\ event \in Event
<1> DEFINE event == [id |-> history.drawn[p], by |-> p]
           s == Append(history.stored, event)
<1>1. event \in Event
  BY DEF HistoryType, Event
<1>2. /\ registry' = [registry EXCEPT !.events = Append(MakeRoom(registry.events), event)]
      /\ history' = [history EXCEPT !.drawn[p] = 0, !.stored = s]
  BY DEF StoreEvent
<1>3. s \in Seq(Event)
  <2> HIDE DEF event
  <2>1. history.stored \in Seq(Event)
    BY DEF HistoryType
  <2> QED
    BY <1>1, <2>1, AppendProperties
<1> HIDE DEF event, s
<1>4. /\ history' \in HistoryType /\ history'.stored = s
      /\ history'.drawn = [history.drawn EXCEPT ![p] = 0]
  BY <1>2, <1>3 DEF HistoryType
<1> QED
  BY <1>1, <1>2, <1>4 DEF event, s

\* Storing keeps the ring, the IDs and the counters.
LEMMA StoreEventKeeps ==
    ASSUME Counting, NEW p \in Publishers, history.drawn[p] # 0, StoreEvent(p)
    PROVE  /\ registry' \in RegistryType /\ history' \in HistoryType
           /\ registry'.next = registry.next /\ registry'.metric = registry.metric
           /\ history'.drawn = [history.drawn EXCEPT ![p] = 0]
           /\ IdsKept(history.stored, history.drawn, registry.next)'
           /\ RingKept(registry.events, history.stored)'
<1> DEFINE event == [id |-> history.drawn[p], by |-> p]
           ring == Append(MakeRoom(registry.events), event)
<1>1. registry \in RegistryType /\ history \in HistoryType
  BY DEF Counting, CountTypes
<1>2. /\ registry.events \in Seq(Event) /\ history.stored \in Seq(Event)
      /\ history.drawn \in [Publishers -> Nat] /\ registry.next \in Nat
  BY <1>1 DEF RegistryType, HistoryType
<1>3. /\ history' \in HistoryType
      /\ history'.stored = Append(history.stored, event)
      /\ history'.drawn = [history.drawn EXCEPT ![p] = 0]
      /\ registry' = [registry EXCEPT !.events = ring]
      /\ event \in Event
  BY <1>1, StoreEffect
<1>4. IdsKept(history'.stored, history'.drawn, registry.next)
  <2>1. IdsKept(history.stored, history.drawn, registry.next)
    BY DEF Counting, EventsStored
  <2>2. IdsKept(Append(history.stored, [id |-> history.drawn[p], by |-> p]),
                [history.drawn EXCEPT ![p] = 0], registry.next)
    BY <1>2, <2>1, StoreKeeps
  <2> QED
    BY <1>3, <2>2
<1>5. ring \in Seq(Event) /\ RingKept(ring, history'.stored)
  <2> HIDE DEF event
  <2> QED
    BY <1>2, <1>3, RingKeeps DEF Counting, EventsStored
<1> HIDE DEF event, ring
<1>6. /\ registry' \in RegistryType /\ registry'.events = ring
      /\ registry'.next = registry.next /\ registry'.metric = registry.metric
  BY <1>1, <1>3, <1>5 DEF RegistryType
<1> QED
  BY <1>3, <1>4, <1>5, <1>6

\* Nothing is counted and nothing stored when the process starts.
LEMMA InitCounting == Init => Counting
<1> SUFFICES ASSUME Init PROVE Counting
  OBVIOUS
<1>1. /\ counts = Zero /\ snapshot = [ready |-> TRUE, count |-> Zero]
      /\ monitor = [at |-> "select", done |-> FALSE,
                    s |-> [ready |-> FALSE, count |-> Zero], prior |-> Zero]
      /\ registry = [ready |-> FALSE, metric |-> Zero, next |-> 0, events |-> <<>>]
      /\ history = [stored |-> <<>>, drawn |-> [p \in Publishers |-> 0]]
      /\ owner.at = "loop" /\ owner.emitted = 0
  BY DEF Init, Unread
<1>2. <<>> \in Seq(Event) /\ Len(<<>>) = 0
  BY EmptySeq
<1>3. Zero \in [Counters -> Nat] /\ \A k \in Counters : Zero[k] = 0
  BY DEF Zero
<1>4. CountTypes
  <2> HIDE DEF Zero
  <2>1. counts \in Count /\ snapshot \in Snapshot /\ monitor \in MonitorType
    BY <1>1, ZeroType DEF Snapshot, MonitorType
  <2>2. registry \in RegistryType /\ history \in HistoryType
    BY <1>1, <1>2, <1>3 DEF RegistryType, HistoryType
  <2> QED
    BY <2>1, <2>2 DEF CountTypes
<1>5. CountsLag
  BY <1>1, <1>3 DEF CountsLag, Counters
<1>6. IdsKept(history.stored, history.drawn, registry.next)
  BY <1>1, <1>2 DEF IdsKept
<1>7. RingKept(registry.events, history.stored)
  BY <1>1, <1>2, DaemonAssumption DEF RingKept, RingSize
<1>8. history.drawn["owner"] = 0 /\ history.drawn["monitor"] = 0
  BY <1>1 DEF Publishers
<1> QED
  BY <1>1, <1>4, <1>5, <1>6, <1>7, <1>8 DEF Counting, EventsStored

\* Steps that change none of what Counting reads but perhaps the place of Run
\* outside WorkStore.
LEMMA CountingUnchanged ==
    ASSUME Counting, UNCHANGED <<counts, snapshot, monitor, registry, history>>,
           owner'.at = "store" <=> owner.at = "store", owner'.emitted = owner.emitted
    PROVE  Counting'
<1>1. /\ counts' = counts /\ snapshot' = snapshot /\ monitor' = monitor
      /\ registry' = registry /\ history' = history
  OBVIOUS
<1>2. CountTypes'
  BY <1>1, Zenon DEF Counting, CountTypes
<1>3. CountsLag'
  BY <1>1 DEF Counting, CountsLag
<1>4. EventsStored'
  BY <1>1 DEF Counting, EventsStored
<1> QED
  BY <1>2, <1>3, <1>4 DEF Counting

\* A count grows by one, within its bound.
LEMMA CountGrows ==
    ASSUME Counting, NEW k \in Counters, counts[k] < Bound[k],
           counts' = [counts EXCEPT ![k] = @ + 1],
           UNCHANGED <<snapshot, monitor, registry, history>>,
           owner'.at = "store" <=> owner.at = "store", owner'.emitted = owner.emitted
    PROVE  Counting'
<1>1. /\ snapshot' = snapshot /\ monitor' = monitor
      /\ registry' = registry /\ history' = history
  OBVIOUS
<1>2. counts \in [Counters -> Nat] /\ \A j \in Counters : counts[j] <= Bound[j]
  BY DEF Counting, CountTypes, Count
<1>3. /\ counts' \in [Counters -> Nat]
      /\ \A j \in Counters : counts'[j] <= Bound[j] /\ counts[j] <= counts'[j]
  BY <1>2, ZeroType
<1>4. counts' \in Count
  BY <1>3 DEF Count
<1>5. CountTypes'
  BY <1>1, <1>4, Zenon DEF Counting, CountTypes
<1>6. CountsLag'
  <2>1. \A j \in Counters : snapshot.count[j] \in Nat
    BY DEF Counting, CountTypes, Snapshot, Count
  <2> QED
    BY <1>1, <1>2, <1>3, <2>1 DEF Counting, CountsLag
<1>7. EventsStored'
  BY <1>1 DEF Counting, EventsStored
<1> QED
  BY <1>5, <1>6, <1>7 DEF Counting

\* publish stores a snapshot of the counts.
LEMMA PublishKeeps ==
    ASSUME Counting, Ending, publish
    PROVE  Counting'
<1>1. /\ owner.at = "publish"
      /\ owner' = [owner EXCEPT !.at = IF owner.draining THEN "drain" ELSE "loop"]
      /\ snapshot' = [ready |-> ~owner.draining, count |-> counts]
      /\ counts' = counts /\ monitor' = monitor /\ registry' = registry /\ history' = history
  BY DEF publish
<1>2. owner'.at # "store" /\ owner'.emitted = owner.emitted /\ (~owner.draining) \in BOOLEAN
  BY <1>1 DEF Ending, Types
<1>3. /\ counts \in [Counters -> Nat] /\ snapshot.count \in [Counters -> Nat]
      /\ monitor.s.count \in [Counters -> Nat] /\ monitor.prior \in [Counters -> Nat]
  BY DEF Counting, CountTypes, MonitorType, Snapshot, Count
<1>4. snapshot' \in Snapshot /\ snapshot'.count = counts
  BY <1>1, <1>2 DEF Counting, CountTypes, Snapshot
<1>5. CountTypes'
  BY <1>1, <1>4, Zenon DEF Counting, CountTypes
<1>6. CountsLag'
  BY <1>1, <1>2, <1>3, <1>4 DEF Counting, CountsLag
<1>7. EventsStored'
  BY <1>1, <1>2 DEF Counting, EventsStored
<1> QED
  BY <1>5, <1>6, <1>7 DEF Counting

\* An event of Run: its ID is drawn,
LEMMA WorkDraws ==
    ASSUME Counting, Ending, owner.at \in {"loop", "drain"},
           owner' = [owner EXCEPT !.at = "store", !.emitted = @ + 1],
           DrawID("owner", registry), UNCHANGED <<counts, snapshot, monitor>>
    PROVE  Counting'
<1>1. owner'.at = "store" /\ owner'.emitted = owner.emitted + 1 /\ owner.emitted \in Nat
  <2>1. owner.emitted \in 0 .. MaxEvents
    BY DEF Ending, Types
  <2>2. owner'.at = "store" /\ owner'.emitted = owner.emitted + 1
    BY DEF Ending, Types
  <2> QED
    BY <2>1, <2>2
<1>2. /\ registry \in RegistryType /\ history \in HistoryType
      /\ "owner" \in Publishers /\ "monitor" \in Publishers
  BY DEF Counting, CountTypes, Publishers
<1>3. /\ registry' \in RegistryType /\ history' \in HistoryType
      /\ registry'.next = registry.next + 1 /\ registry'.metric = registry.metric
      /\ registry'.events = registry.events
      /\ history'.stored = history.stored
      /\ history'.drawn = [history.drawn EXCEPT !["owner"] = registry.next + 1]
  BY <1>2, DrawEffect
<1>4. counts' = counts /\ snapshot' = snapshot /\ monitor' = monitor
  OBVIOUS
<1>5. /\ history.stored \in Seq(Event) /\ history.drawn \in [Publishers -> Nat]
      /\ registry.next \in Nat /\ registry.metric["inbound"] \in Nat
  BY <1>2 DEF RegistryType, HistoryType, Counters
<1>6. CountTypes'
  BY <1>3, <1>4, Zenon DEF Counting, CountTypes
<1>7. CountsLag'
  BY <1>1, <1>3, <1>4, <1>5 DEF Counting, CountsLag
<1>8. EventsStored'
  <2>1. history.drawn["owner"] = 0 /\ IdsKept(history.stored, history.drawn, registry.next)
    BY DEF Counting, EventsStored
  <2>2. IdsKept(history.stored, [history.drawn EXCEPT !["owner"] = registry.next + 1],
                registry.next + 1)
    BY <1>2, <1>5, <2>1, DrawKeeps
  <2>3. IdsKept(history.stored, history.drawn, registry.next)'
    BY <1>3, <2>2
  <2>4. RingKept(registry.events, history.stored)'
    BY <1>3 DEF Counting, EventsStored, RingKept
  <2>5. history'.drawn["owner"] # 0 /\ history'.drawn["monitor"] = history.drawn["monitor"]
    BY <1>2, <1>3, <1>5
  <2> QED
    BY <1>1, <1>4, <2>3, <2>4, <2>5 DEF Counting, EventsStored
<1> QED
  BY <1>6, <1>7, <1>8 DEF Counting

\* and it is stored.
LEMMA WorkStoreKeeps ==
    ASSUME Counting, Ending, WorkStore
    PROVE  Counting'
<1>1. /\ owner.at = "store" /\ owner' = [owner EXCEPT !.at = "publish"] /\ StoreEvent("owner")
      /\ counts' = counts /\ snapshot' = snapshot /\ monitor' = monitor
  BY DEF WorkStore
<1>2. owner'.at = "publish" /\ owner'.emitted = owner.emitted
  BY <1>1 DEF Ending, Types
<1>3. /\ "owner" \in Publishers /\ "monitor" \in Publishers /\ history.drawn["owner"] # 0
      /\ history.drawn \in [Publishers -> Nat]
  BY <1>1 DEF Counting, CountTypes, HistoryType, EventsStored, Publishers
<1>4. /\ registry' \in RegistryType /\ history' \in HistoryType
      /\ registry'.next = registry.next /\ registry'.metric = registry.metric
      /\ history'.drawn = [history.drawn EXCEPT !["owner"] = 0]
      /\ IdsKept(history.stored, history.drawn, registry.next)'
      /\ RingKept(registry.events, history.stored)'
  BY <1>1, <1>3, StoreEventKeeps
<1>5. CountTypes'
  BY <1>1, <1>4, Zenon DEF Counting, CountTypes
<1>6. CountsLag'
  BY <1>1, <1>2, <1>4 DEF Counting, CountsLag
<1>7. history'.drawn["owner"] = 0 /\ history'.drawn["monitor"] = history.drawn["monitor"]
  BY <1>3, <1>4
<1>8. EventsStored'
  BY <1>1, <1>2, <1>4, <1>7 DEF Counting, EventsStored
<1> QED
  BY <1>5, <1>6, <1>8 DEF Counting

\* What Counting says of the monitor goroutine's numbers.
LEMMA MonitorNumbers ==
    ASSUME Counting
    PROVE  /\ monitor \in MonitorType /\ snapshot \in Snapshot
           /\ registry \in RegistryType /\ history \in HistoryType
           /\ monitor.s \in Snapshot /\ monitor.prior \in Count
           /\ counts \in [Counters -> Nat] /\ snapshot.count \in [Counters -> Nat]
           /\ monitor.s.count \in [Counters -> Nat] /\ monitor.prior \in [Counters -> Nat]
           /\ registry.metric \in [Counters -> Nat] /\ registry.next \in Nat
           /\ history.stored \in Seq(Event) /\ history.drawn \in [Publishers -> Nat]
           /\ "inbound" \in Counters /\ "gaps" \in Counters
           /\ "owner" \in Publishers /\ "monitor" \in Publishers
  BY DEF Counting, CountTypes, MonitorType, RegistryType, HistoryType, Snapshot, Count,
         Counters, Publishers

\* The snapshot the monitor goroutine reads may be any later one.
LEMMA TickKeeps ==
    ASSUME Counting, Tick
    PROVE  Counting'
<1>1. /\ monitor.at = "select" /\ monitor' = [monitor EXCEPT !.at = "drops", !.s = snapshot]
      /\ counts' = counts /\ snapshot' = snapshot /\ registry' = registry
      /\ history' = history /\ owner' = owner
  BY DEF Tick
<1>2. /\ monitor' \in MonitorType /\ monitor'.at = "drops" /\ monitor'.s = snapshot
      /\ monitor'.prior = monitor.prior
  BY <1>1, MonitorNumbers DEF MonitorType
<1>3. CountTypes'
  BY <1>1, <1>2, Zenon DEF Counting, CountTypes
<1>4. CountsLag'
  BY <1>1, <1>2, MonitorNumbers DEF Counting, CountsLag
<1>5. EventsStored'
  BY <1>1, <1>2 DEF Counting, EventsStored
<1> QED
  BY <1>3, <1>4, <1>5 DEF Counting

\* New drops: the counter and the ID of the event.
LEMMA AddDropsKeeps ==
    ASSUME Counting, Ending, AddDrops
    PROVE  Counting'
<1> DEFINE new == New("inbound")
           r == Add(registry, "inbound", new)
<1>1. /\ monitor.at = "drops" /\ New("inbound") > 0 /\ DrawID("monitor", r)
      /\ monitor' = [monitor EXCEPT !.at = "store"]
      /\ counts' = counts /\ snapshot' = snapshot /\ owner' = owner
  BY DEF AddDrops
<1>2. /\ new \in Nat \ {0}
      /\ registry.metric["inbound"] + new = monitor.s.count["inbound"]
  BY <1>1, MonitorNumbers DEF New, Counting, CountsLag
<1> HIDE DEF new
<1>3. /\ r \in RegistryType /\ r.next = registry.next /\ r.events = registry.events
      /\ r.metric["inbound"] = monitor.s.count["inbound"]
      /\ r.metric["gaps"] = registry.metric["gaps"]
  <2> DEFINE metric == [registry.metric EXCEPT !["inbound"] = @ + new]
  <2>1. r = [registry EXCEPT !.metric = metric]
    BY MonitorNumbers DEF Add, RegistryType
  <2>2. /\ metric \in [Counters -> Nat]
        /\ metric["inbound"] = registry.metric["inbound"] + new
        /\ metric["gaps"] = registry.metric["gaps"]
    BY <1>2, MonitorNumbers
  <2> HIDE DEF metric, r
  <2> QED
    BY <1>2, <2>1, <2>2, MonitorNumbers DEF RegistryType
<1> HIDE DEF r
<1>4. /\ registry' \in RegistryType /\ history' \in HistoryType
      /\ registry'.next = r.next + 1 /\ registry'.metric = r.metric
      /\ registry'.events = r.events
      /\ history'.stored = history.stored
      /\ history'.drawn = [history.drawn EXCEPT !["monitor"] = r.next + 1]
  BY <1>1, <1>3, MonitorNumbers, DrawEffect
<1>5. /\ monitor' \in MonitorType /\ monitor'.at = "store" /\ monitor'.s = monitor.s
      /\ monitor'.prior = monitor.prior
  BY <1>1, MonitorNumbers DEF MonitorType
<1>6. CountTypes'
  BY <1>1, <1>4, <1>5, Zenon DEF Counting, CountTypes
<1>7. CountsLag'
  <2>1. owner.emitted \in Nat
    <3>1. owner.emitted \in 0 .. MaxEvents
      BY DEF Ending, Types
    <3> QED
      BY <3>1
  <2>2. registry'.next <= owner.emitted + registry'.metric["inbound"]
    <3>1. registry.next <= owner.emitted + registry.metric["inbound"]
      BY DEF Counting, CountsLag
    <3>2. registry.metric["inbound"] \in Nat /\ registry.next \in Nat
      BY MonitorNumbers
    <3>3. /\ registry'.next = registry.next + 1
          /\ registry'.metric["inbound"] = registry.metric["inbound"] + new
      BY <1>2, <1>3, <1>4
    <3> QED
      BY <1>2, <2>1, <3>1, <3>2, <3>3
  <2> QED
    BY <1>1, <1>3, <1>4, <1>5, <2>2 DEF Counting, CountsLag
<1>8. EventsStored'
  <2>1. history.drawn["monitor"] = 0 /\ IdsKept(history.stored, history.drawn, registry.next)
    BY <1>1 DEF Counting, EventsStored
  <2>2. IdsKept(history.stored, [history.drawn EXCEPT !["monitor"] = registry.next + 1],
                registry.next + 1)
    BY <2>1, MonitorNumbers, DrawKeeps
  <2>3. IdsKept(history.stored, history.drawn, registry.next)'
    BY <1>3, <1>4, <2>2
  <2>4. RingKept(registry.events, history.stored)'
    BY <1>3, <1>4 DEF Counting, EventsStored
  <2>5. history'.drawn["monitor"] # 0 /\ history'.drawn["owner"] = history.drawn["owner"]
    BY <1>3, <1>4, MonitorNumbers
  <2> QED
    BY <1>1, <1>5, <2>3, <2>4, <2>5 DEF Counting, EventsStored
<1> QED
  BY <1>6, <1>7, <1>8 DEF Counting

\* The event about the drops is stored, and the drops are remembered.
LEMMA StoreDropsKeeps ==
    ASSUME Counting, StoreDrops
    PROVE  Counting'
<1> DEFINE prior == [monitor.prior EXCEPT !["inbound"] = monitor.s.count["inbound"]]
<1>1. /\ monitor.at = "store" /\ StoreEvent("monitor")
      /\ monitor' = [monitor EXCEPT !.at = "gaps", !.prior = prior]
      /\ counts' = counts /\ snapshot' = snapshot /\ owner' = owner
  BY DEF StoreDrops, Counted
<1>2. prior \in Count
  <2>1. /\ \A k \in Counters : monitor.prior[k] <= Bound[k]
        /\ \A k \in Counters : monitor.s.count[k] <= Bound[k]
    BY MonitorNumbers DEF Snapshot, Count
  <2> QED
    BY <2>1, MonitorNumbers DEF Count
<1>3. /\ prior["inbound"] = monitor.s.count["inbound"]
      /\ \A k \in Counters : prior[k] \in {monitor.prior[k], monitor.s.count[k]}
      /\ prior["gaps"] = monitor.prior["gaps"]
  BY MonitorNumbers
<1> HIDE DEF prior
<1>4. /\ monitor' \in MonitorType /\ monitor'.at = "gaps" /\ monitor'.s = monitor.s
      /\ monitor'.prior = prior
  BY <1>1, <1>2, MonitorNumbers DEF MonitorType
<1>5. /\ registry' \in RegistryType /\ history' \in HistoryType
      /\ registry'.next = registry.next /\ registry'.metric = registry.metric
      /\ history'.drawn = [history.drawn EXCEPT !["monitor"] = 0]
      /\ IdsKept(history.stored, history.drawn, registry.next)'
      /\ RingKept(registry.events, history.stored)'
  <2>1. history.drawn["monitor"] # 0
    BY <1>1 DEF Counting, EventsStored
  <2> QED
    BY <1>1, <2>1, MonitorNumbers, StoreEventKeeps
<1>6. CountTypes'
  BY <1>1, <1>4, <1>5, Zenon DEF Counting, CountTypes
<1>7. CountsLag'
  <2>1. \A k \in Counters : prior[k] <= snapshot.count[k]
    BY <1>3 DEF Counting, CountsLag
  <2> QED
    BY <1>1, <1>3, <1>4, <1>5, <2>1 DEF Counting, CountsLag
<1>8. history'.drawn["monitor"] = 0 /\ history'.drawn["owner"] = history.drawn["owner"]
  BY <1>5, MonitorNumbers
<1>9. EventsStored'
  BY <1>1, <1>4, <1>5, <1>8 DEF Counting, EventsStored
<1> QED
  BY <1>6, <1>7, <1>9 DEF Counting

\* The gaps are counted and remembered in one step of the goroutine.
LEMMA PublishTickKeeps ==
    ASSUME Counting, PublishTick
    PROVE  Counting'
<1> DEFINE new == New("gaps")
           prior == IF new > 0 THEN Counted("gaps") ELSE monitor.prior
           metric == IF new > 0 THEN [registry.metric EXCEPT !["gaps"] = @ + new]
                     ELSE registry.metric
<1>1. /\ monitor.at \in {"gaps", "drops"}
      /\ counts' = counts /\ snapshot' = snapshot /\ owner' = owner /\ history' = history
  BY DEF PublishTick
<1>2. new \in Int /\ new = monitor.s.count["gaps"] - monitor.prior["gaps"]
  <2>1. new = monitor.s.count["gaps"] - monitor.prior["gaps"]
    BY DEF New
  <2>2. monitor.s.count["gaps"] \in Nat /\ monitor.prior["gaps"] \in Nat
    BY MonitorNumbers
  <2> HIDE DEF new
  <2> QED
    BY <2>1, <2>2
<1>3. /\ metric \in [Counters -> Nat] /\ prior \in [Counters -> Nat]
      /\ metric["inbound"] = registry.metric["inbound"]
      /\ prior["inbound"] = monitor.prior["inbound"]
      /\ metric["gaps"] = prior["gaps"]
      /\ \A k \in Counters : prior[k] \in {monitor.prior[k], monitor.s.count[k]}
  <2>1. registry.metric["gaps"] = monitor.prior["gaps"]
    BY DEF Counting, CountsLag
  <2> HIDE DEF new
  <2>2. CASE new > 0
    <3>1. /\ metric = [registry.metric EXCEPT !["gaps"] = @ + new]
          /\ prior = [monitor.prior EXCEPT !["gaps"] = monitor.s.count["gaps"]]
      BY <2>2 DEF Counted
    <3> HIDE DEF metric, prior
    <3>2. monitor.s.count["gaps"] \in Nat /\ registry.metric["gaps"] \in Nat
      BY MonitorNumbers
    <3>3. registry.metric["gaps"] + new = monitor.s.count["gaps"]
      BY <1>2, <2>1, <3>2
    <3> QED
      BY <3>1, <3>2, <3>3, MonitorNumbers
  <2>3. CASE ~(new > 0)
    BY <1>2, <2>1, <2>3, MonitorNumbers
  <2> QED
    BY <2>2, <2>3
<1>4. prior \in Count
  <2>1. /\ \A k \in Counters : monitor.prior[k] <= Bound[k]
        /\ \A k \in Counters : monitor.s.count[k] <= Bound[k]
    BY MonitorNumbers DEF Snapshot, Count
  <2> HIDE DEF prior
  <2> QED
    BY <1>3, <2>1 DEF Count
<1>5. /\ monitor' = [monitor EXCEPT !.at = "select", !.s = Unread, !.prior = prior]
      /\ registry' = [registry EXCEPT !.ready = monitor.s.ready, !.metric = metric]
  <2>1. CASE new > 0
    <3>1. /\ monitor' = [monitor EXCEPT !.at = "select", !.s = Unread, !.prior = Counted("gaps")]
          /\ registry' = Publish(Add(registry, "gaps", new), monitor.s.ready)
      BY <1>2, <2>1 DEF PublishTick
    <3>2. prior = Counted("gaps") /\ metric = [registry.metric EXCEPT !["gaps"] = @ + new]
      BY <2>1
    <3> HIDE DEF prior, metric, new
    <3>3. Add(registry, "gaps", new) = [registry EXCEPT !.metric = metric]
      BY <3>2, MonitorNumbers DEF Add, RegistryType
    <3>4. registry' = [registry EXCEPT !.ready = monitor.s.ready, !.metric = metric]
      BY <3>1, <3>3, MonitorNumbers DEF Publish, RegistryType
    <3> QED
      BY <3>1, <3>2, <3>4
  <2>2. CASE ~(new > 0)
    BY <1>2, <2>2, MonitorNumbers DEF PublishTick, Publish, RegistryType, MonitorType
  <2> QED
    BY <2>1, <2>2
<1> HIDE DEF prior, metric, new
<1>6. Unread \in Snapshot /\ \A k \in Counters : Unread.count[k] = 0
  BY ZeroType DEF Unread, Snapshot, Zero
<1>7. /\ monitor' \in MonitorType /\ monitor'.at = "select" /\ monitor'.s = Unread
      /\ monitor'.prior = prior
  BY <1>4, <1>5, <1>6, MonitorNumbers DEF MonitorType
<1>8. /\ registry' \in RegistryType /\ registry'.metric = metric
      /\ registry'.next = registry.next /\ registry'.events = registry.events
  <2>1. monitor.s.ready \in BOOLEAN
    BY MonitorNumbers DEF Snapshot
  <2> QED
    BY <1>3, <1>5, <2>1, MonitorNumbers DEF RegistryType
<1>9. CountTypes'
  BY <1>1, <1>7, <1>8, Zenon DEF Counting, CountTypes
<1>10. CountsLag'
  <2>1. \A k \in Counters : prior[k] <= snapshot.count[k]
    BY <1>3 DEF Counting, CountsLag
  <2>2. \A k \in Counters : 0 <= snapshot.count[k]
    <3>1. \A k \in Counters : snapshot.count[k] \in Nat
      BY MonitorNumbers
    <3> QED
      BY <3>1
  <2> QED
    BY <1>1, <1>3, <1>6, <1>7, <1>8, <2>1, <2>2 DEF Counting, CountsLag
<1>11. EventsStored'
  BY <1>1, <1>7, <1>8 DEF Counting, EventsStored
<1> QED
  BY <1>9, <1>10, <1>11 DEF Counting

\* main tells the monitor goroutine to end and publishes a last snapshot.
LEMMA MonitorEnds ==
    ASSUME Counting, CloseMonitor \/ MonitorReturns
    PROVE  Counting'
<1>1. /\ counts' = counts /\ snapshot' = snapshot /\ owner' = owner /\ history' = history
      /\ \/ monitor' = [monitor EXCEPT !.done = TRUE]
         \/ monitor.at = "select" /\ monitor' = [monitor EXCEPT !.at = "returned"]
      /\ registry' = registry \/ registry' = [registry EXCEPT !.ready = FALSE]
  BY DEF CloseMonitor, MonitorReturns, Publish
<1>2. /\ monitor' \in MonitorType /\ monitor'.s = monitor.s /\ monitor'.prior = monitor.prior
      /\ monitor'.at = "store" <=> monitor.at = "store"
  BY <1>1, MonitorNumbers DEF MonitorType
<1>3. /\ registry' \in RegistryType /\ registry'.metric = registry.metric
      /\ registry'.next = registry.next /\ registry'.events = registry.events
  BY <1>1, MonitorNumbers DEF RegistryType
<1>4. CountTypes'
  BY <1>1, <1>2, <1>3, Zenon DEF Counting, CountTypes
<1>5. CountsLag' /\ EventsStored'
  BY <1>1, <1>2, <1>3 DEF Counting, CountsLag, EventsStored
<1> QED
  BY <1>4, <1>5 DEF Counting

\* Every step keeps Counting.
LEMMA NextCounting == Ending /\ Counting /\ [Next]_vars => Counting'
<1> SUFFICES ASSUME Ending, Counting, [Next]_vars PROVE Counting'
  OBVIOUS
<1>0. /\ \A at \in {"loop", "publish", "drain"} :
             owner' = [owner EXCEPT !.at = at] =>
                owner'.at = at /\ owner'.emitted = owner.emitted
      /\ \A k \in Counters : Bound[k] = IF k = "inbound" THEN MaxDrops ELSE MaxGaps
  BY ZeroType DEF Ending, Types, Counters
<1>1. CASE InboundDrop
  BY <1>0, <1>1, CountGrows, MonitorNumbers DEF InboundDrop
<1>2. CASE TransportFails \/ Signal \/ HTTPFails \/ waitForTermination \/ Close \/ UNCHANGED vars
  <2>1. /\ owner' = owner
        /\ UNCHANGED <<counts, snapshot, monitor, registry, history>>
    BY <1>2 DEF TransportFails, Signal, HTTPFails, waitForTermination, SelectSignal,
               SelectHTTP, SelectRun, AwaitRun, Waits, Close, vars
  <2> QED
    BY <2>1, CountingUnchanged
<1>3. CASE Work
  <2>1. CASE /\ owner' = [owner EXCEPT !.at = "store", !.emitted = @ + 1]
             /\ DrawID("owner", registry) /\ UNCHANGED counts
    BY <1>3, <2>1, WorkDraws DEF Work
  <2>2. CASE owner' = [owner EXCEPT !.at = "publish"] /\ UNCHANGED <<registry, history>>
    <3>1. /\ owner'.at # "store" /\ owner.at # "store" /\ owner'.emitted = owner.emitted
          /\ UNCHANGED <<snapshot, monitor, registry, history>>
      BY <1>0, <1>3, <2>2 DEF Work
    <3>2. CASE UNCHANGED counts
      BY <3>1, <3>2, CountingUnchanged
    <3>3. CASE counts["gaps"] < MaxGaps /\ counts' = [counts EXCEPT !["gaps"] = @ + 1]
      <4>1. counts["gaps"] < Bound["gaps"] /\ "gaps" \in Counters
        BY <3>3, ZeroType DEF Counters
      <4> QED
        BY <3>1, <3>3, <4>1, CountGrows
    <3> QED
      BY <1>3, <2>2, <3>2, <3>3 DEF Work
  <2> QED
    BY <1>3, <2>1, <2>2 DEF Work
<1>4. CASE WorkStore
  BY <1>4, WorkStoreKeeps
<1>5. CASE publish
  BY <1>5, PublishKeeps
<1>6. CASE RunFails \/ drain \/ DrainEnds
  <2>1. /\ owner'.at # "store" /\ owner.at # "store" /\ owner'.emitted = owner.emitted
        /\ UNCHANGED <<counts, snapshot, monitor, registry, history>>
    BY <1>6 DEF RunFails, drain, DrainEnds, Ending, Types
  <2> QED
    BY <2>1, CountingUnchanged
<1>7. CASE Tick
  BY <1>7, TickKeeps
<1>8. CASE MonitorLoop
  BY <1>8, AddDropsKeeps, StoreDropsKeeps, PublishTickKeeps DEF MonitorLoop
<1>9. CASE MonitorReturns \/ CloseMonitor
  BY <1>9, MonitorEnds
<1> QED
  BY <1>1, <1>2, <1>3, <1>4, <1>5, <1>6, <1>7, <1>8, <1>9 DEF Next, Run, Main

\* What is counted and stored, throughout.
LEMMA CountingInvariance == Spec => []Counting
  BY InitCounting, NextCounting, EndingInvariance, PTL DEF Spec

\* The registry never counts a drop or a gap that did not happen: the safety
\* half of DropsAreCounted.
THEOREM NeverOvercounted == Spec => [](\A k \in Counters : registry.metric[k] <= counts[k])
<1>1. Counting => \A k \in Counters : registry.metric[k] <= counts[k]
  <2> SUFFICES ASSUME Counting, NEW k \in Counters PROVE registry.metric[k] <= counts[k]
    OBVIOUS
  <2>1. registry.metric[k] \in {monitor.prior[k], monitor.s.count[k]}
    BY DEF Counting, CountsLag, Counters
  <2>2. /\ snapshot.count[k] <= counts[k]
        /\ monitor.s.count[k] <= snapshot.count[k]
        /\ monitor.prior[k] <= snapshot.count[k]
    BY DEF Counting, CountsLag
  <2>3. /\ counts[k] \in Nat /\ snapshot.count[k] \in Nat
        /\ monitor.s.count[k] \in Nat /\ monitor.prior[k] \in Nat
    BY MonitorNumbers
  <2> QED
    BY <2>1, <2>2, <2>3
<1> QED
  BY <1>1, CountingInvariance, PTL

\* The ring is the end of what was stored.
LEMMA RingIsSuffix ==
    ASSUME NEW events \in Seq(Event), NEW stored \in Seq(Event), RingKept(events, stored)
    PROVE  LET n == Len(stored)
               Kept == IF n < RecentEvents THEN n ELSE RecentEvents
           IN  events = SubSeq(stored, n - Kept + 1, n) /\ Len(events) <= RecentEvents
<1> DEFINE n == Len(stored)
           Kept == IF n < RecentEvents THEN n ELSE RecentEvents
           suffix == SubSeq(stored, n - Kept + 1, n)
<1>1. /\ n \in Nat /\ Kept \in 0 .. n /\ Kept <= RecentEvents /\ Kept = RingSize(n)
      /\ n - Kept + 1 \in 1 .. n + 1
  <2>1. n \in Nat /\ RecentEvents \in Nat \ {0}
    BY LenProperties, DaemonAssumption
  <2> HIDE DEF n
  <2>2. Kept \in 0 .. n /\ Kept <= RecentEvents /\ Kept = RingSize(n)
    BY <2>1 DEF RingSize
  <2> HIDE DEF Kept
  <2> QED
    BY <2>1, <2>2
<1>2. /\ Len(events) = Kept
      /\ \A i \in 1 .. Kept : events[i] = stored[n - Kept + i]
  BY <1>1 DEF RingKept
<1> HIDE DEF n, Kept
<1>3. /\ suffix \in Seq(Event) /\ Len(suffix) = Kept
      /\ \A i \in 1 .. Kept : suffix[i] = stored[(n - Kept + 1) + i - 1]
  <2>1. CASE Kept = 0
    <3>1. suffix = <<>>
      BY <1>1, <2>1, SubSeqProperties DEF n
    <3> QED
      BY <1>1, <2>1, <3>1, EmptySeq
  <2>2. CASE Kept # 0
    <3>1. n - Kept + 1 \in 1 .. n /\ n \in (n - Kept + 1) .. n /\ n - (n - Kept + 1) + 1 = Kept
      BY <1>1, <2>2
    <3> QED
      BY <1>1, <3>1, SubSeqProperties DEF n
  <2> QED
    BY <2>1, <2>2
<1> HIDE DEF suffix
<1>4. \A i \in 1 .. Kept : suffix[i] = events[i]
  BY <1>1, <1>2, <1>3
<1>5. events = suffix
  BY <1>2, <1>3, <1>4, SeqEqual
<1>6. Len(events) <= RecentEvents
  BY <1>1, <1>2
<1> QED
  BY <1>5, <1>6 DEF suffix, Kept, n

\* The IDs of the stored events are as many as the events.
LEMMA IdsCounted ==
    ASSUME NEW stored \in Seq(Event),
           \A i, j \in 1 .. Len(stored) : i # j => stored[i].id # stored[j].id
    PROVE  Cardinality({stored[i].id : i \in 1 .. Len(stored)}) = Len(stored)
<1> DEFINE n == Len(stored)
           IDs == {stored[i].id : i \in 1 .. n}
           f == [i \in 1 .. n |-> stored[i].id]
<1>1. n \in Nat
  BY LenProperties
<1>2. f \in Surjection(1 .. n, IDs)
  BY DEF Surjection
<1>3. \A i, j \in 1 .. n : f[i] = f[j] => i = j
  OBVIOUS
<1>4. f \in Injection(1 .. n, IDs)
  BY <1>2, <1>3 DEF Injection, IsInjective, Surjection
<1> HIDE DEF IDs, f, n
<1>5. IsFiniteSet(1 .. n) /\ Cardinality(1 .. n) = n
  <2>1. 1 \in Int /\ n \in Int
    BY <1>1
  <2>2. /\ IsFiniteSet(1 .. n)
        /\ Cardinality(1 .. n) = IF 1 > n THEN 0 ELSE n - 1 + 1
    BY <2>1, FS_Interval
  <2> QED
    BY <1>1, <2>2
<1>6. Cardinality(IDs) = Cardinality(1 .. n)
  BY <1>2, <1>4, <1>5, FS_Surjection
<1> QED
  BY <1>5, <1>6 DEF IDs, n

\* The types of what is counted, as TypeOK states them.
LEMMA TypesHold == Ending /\ Counting => TypeOK
<1> SUFFICES ASSUME Ending, Counting PROVE TypeOK
  OBVIOUS
<1>1. \A f \in Count : DOMAIN f = Counters /\ \A k \in Counters : f[k] \in 0 .. Bound[k]
  BY ZeroType DEF Count
<1>2. /\ counts \in Count /\ snapshot.count \in Count /\ snapshot.ready \in BOOLEAN
      /\ monitor.s.count \in Count /\ monitor.s.ready \in BOOLEAN /\ monitor.prior \in Count
      /\ monitor.at \in {"select", "drops", "store", "gaps", "returned"}
      /\ monitor.done \in BOOLEAN /\ registry.ready \in BOOLEAN
      /\ DOMAIN registry.metric = Counters /\ \A k \in Counters : registry.metric[k] \in Nat
  BY DEF Counting, CountTypes, Snapshot, MonitorType, RegistryType
<1>3. registry.next \in 0 .. MaxEvents + MaxDrops
  <2>1. /\ registry.metric["inbound"] <= MaxDrops
        /\ registry.metric["inbound"] \in Nat /\ registry.next \in Nat
    <3>1. registry.metric["inbound"] \in {monitor.s.count["inbound"], monitor.prior["inbound"]}
      BY DEF Counting, CountsLag
    <3> QED
      BY <1>2, <3>1, MonitorNumbers, ZeroType DEF Count
  <2>2. registry.next <= owner.emitted + registry.metric["inbound"]
    BY DEF Counting, CountsLag
  <2>3. owner.emitted \in 0 .. MaxEvents
    BY DEF Ending, Types
  <2>4. MaxEvents \in Nat /\ MaxDrops \in Nat
    BY DaemonAssumption
  <2> QED
    BY <2>1, <2>2, <2>3, <2>4
<1>4. Len(registry.events) <= RecentEvents
  <2>1. registry.events \in Seq(Event) /\ RingKept(registry.events, history.stored)
    BY DEF Counting, CountTypes, RegistryType, EventsStored
  <2> QED
    BY <2>1, MonitorNumbers, RingIsSuffix
<1>5. Types
  BY DEF Ending
<1> QED
  BY <1>1, <1>2, <1>3, <1>4, <1>5, Zenon DEF TypeOK, Types

\* The recent-event ring of the registry is the end of what Run and the
\* monitor goroutine stored, and no ID AddEvent drew is lost or stored twice.
THEOREM EventsKept == Spec => []EventsAreKept
<1>1. Ending /\ Counting => EventsAreKept
  <2> SUFFICES ASSUME Ending, Counting PROVE EventsAreKept
    OBVIOUS
  <2> DEFINE stored == history.stored
             n == Len(stored)
             IDs == {stored[i].id : i \in 1 .. n}
             held == {history.drawn[p] : p \in Publishers} \ {0}
  <2>1. /\ stored \in Seq(Event) /\ registry.events \in Seq(Event) /\ registry.next \in Nat
        /\ history.drawn \in [Publishers -> Nat]
        /\ RingKept(registry.events, stored)
        /\ IdsKept(stored, history.drawn, registry.next)
    BY MonitorNumbers DEF Counting, CountTypes, RegistryType, EventsStored
  <2>2. IDs \cup held = 1 .. registry.next
    <3>1. IDs \subseteq 1 .. registry.next
      BY <2>1 DEF IdsKept
    <3>2. held \subseteq 1 .. registry.next
      BY <2>1 DEF IdsKept
    <3>3. 1 .. registry.next \subseteq IDs \cup held
      BY <2>1 DEF IdsKept
    <3> QED
      BY <3>1, <3>2, <3>3
  <2>3. Cardinality(IDs) = n
    BY <2>1, IdsCounted DEF IdsKept
  <2>4. registry.events = SubSeq(stored, n - (IF n < RecentEvents THEN n ELSE RecentEvents) + 1, n)
    BY <2>1, RingIsSuffix
  <2>5. \A i, j \in 1 .. n :
           i < j /\ stored[i].by = stored[j].by => stored[i].id < stored[j].id
    BY <2>1 DEF IdsKept
  <2>6. TypeOK
    BY TypesHold
  <2> QED
    BY <2>2, <2>3, <2>4, <2>5, <2>6 DEF EventsAreKept
<1> QED
  BY <1>1, EndingInvariance, CountingInvariance, PTL
=============================================================================
