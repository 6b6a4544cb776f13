-------------------------- MODULE ClientQueueProofs --------------------------
(***************************************************************************)
(* Theorems about ClientQueue for any number of streams, frames and run    *)
(* goroutines and every capacity of the queues.  Inv is made of four parts *)
(* that build on each other: where the goroutines can be (Types, Calls),   *)
(* who closes the client (Closing), where the frames of the current stream *)
(* are (Frames), and what EndStream knows while it waits (Waiting).        *)
(***************************************************************************)
EXTENDS ClientQueue, TLAPS, FiniteSetTheorems, SequenceTheorems

Flags == {"connected", "connecting", "stream", "requesting", "ending",
          "terminal", "closeCalled", "progress", "done"}

\* The fields of the records.
Shape ==
    /\ DOMAIN c = Flags \cup {"streamID", "sequence", "accepted", "sent", "media",
                              "control", "events", "closes"}
    /\ DOMAIN local = {"asked", "stream", "sequence", "target", "frame"}
    /\ DOMAIN sender = {"session", "closed"}
    /\ DOMAIN server = {"granted", "revoked", "ended", "written"}

Places ==
    /\ DOMAIN pc = Procs
    /\ pc["connect"] \in {"idle", "calling", "sent", "publish", "abort", "leave"}
    /\ pc["request"] \in {"idle", "calling", "abort", "leave"}
    /\ pc["end"] \in {"idle", "wait", "blocked", "acquire", "calling", "awaiting",
                      "abort", "leave"}
    /\ pc["close"] \in {"idle", "waiting", "disconnecting", "abort", "shut", "finish"}
    /\ pc["reader"] \in {"idle", "publish", "abort", "begin", "shut", "finish", "off"}
    /\ \A r \in Runs : pc[r] \in {"off", "idle", "sending", "abort", "count", "signal"}

Marks == \A f \in Flags : c[f] \in BOOLEAN

Control == c.control \subseteq {"request", "end"} /\ Cardinality(c.control) <= ControlCapacity

Numbers ==
    /\ c.streamID \in 0 .. MaxStreams /\ c.sequence \in Nat /\ c.accepted \in 0 .. MaxFrames
    /\ c.sent \in Nat /\ c.media \in Seq(Streams) /\ Len(c.media) <= MediaCapacity
    /\ c.events \in 0 .. EventCapacity
    /\ local.frame \in [Runs -> Streams \cup {0}] /\ local.target \in Nat
    /\ server.written \in [Streams -> Nat]

Types == Shape /\ Places /\ Marks /\ Control /\ Numbers

\* requesting and ending are set while RequestStream and EndStream run, only
\* they hold places in c.control, and a stream is requested when there is
\* none and no EndStream waits for the frames of an earlier one.
Calls ==
    /\ c.requesting <=> pc["request"] # "idle"
    /\ c.ending <=> pc["end"] # "idle"
    /\ "request" \in c.control => c.requesting
    /\ "end" \in c.control => c.ending
    /\ pc["request"] = "calling" =>
          ~c.stream /\ pc["end"] = "idle" /\ local.asked = c.streamID + 1 /\ local.asked \in Streams
    /\ pc["end"] # "idle" => ~c.stream
    /\ c.stream => c.streamID \in Streams

\* closeCalled picks the one of Close and remoteClose that closes closeDone.
CloserClose == pc["close"] \in {"disconnecting", "abort", "shut", "finish"}
CloserReader == pc["reader"] \in {"shut", "finish"}
Closing ==
    /\ c.closes \in 0 .. 1
    /\ ~(CloserClose /\ CloserReader)
    /\ CloserClose \/ CloserReader => c.closeCalled /\ c.closes = 0
    /\ c.closes = 1 => c.closeCalled
    /\ c.closeCalled => CloserClose \/ CloserReader \/ c.closes = 1
    /\ pc["close"] = "waiting" => c.closeCalled
    /\ pc["close"] = "finish" \/ pc["reader"] = "finish" => sender.closed
    /\ c.done /\ ~c.terminal => sender.closed

\* The frames run has taken and not counted, those of the current stream it
\* has not written, and the frames that a failed run dropped.
Taken == {r \in Runs : pc[r] \in {"sending", "count"}}
Sending == {r \in Runs : pc[r] = "sending" /\ local.frame[r] = c.streamID}
Lost == c.accepted - c.sent - Len(c.media) - Cardinality(Taken)

\* The last k frames of the queue, and no others, are those of stream n; the
\* frames of the current stream neither written nor queued nor in hand.
Suffix(media, n, k) == \A i \in 1 .. Len(media) : media[i] = n <=> i > Len(media) - k
Missing(k) == c.sequence - server.written[c.streamID] - k - Cardinality(Sending)

\* The queue is in the order of the streams, its last k frames are those of
\* the current stream, and of that stream no more frames are missing than
\* were lost in all.
Frames ==
    /\ \A i \in 1 .. Len(c.media) : c.media[i] <= c.streamID
    /\ \A r \in Runs : pc[r] = "sending" =>
          local.frame[r] \in Streams /\ local.frame[r] <= c.streamID
    /\ \A n \in Streams : n > c.streamID => server.written[n] = 0
    /\ c.sequence <= c.accepted
    /\ Lost >= 0
    /\ c.streamID # 0 =>
          \E k \in 0 .. Len(c.media) :
              Suffix(c.media, c.streamID, k) /\ Missing(k) \in 0 .. Lost

\* EndStream remembers the stream, which nothing changes while it waits, and
\* sends STREAM_END when all frames are out or the sender is closed.
Waiting ==
    /\ pc["end"] # "idle" =>
          /\ local.stream = c.streamID /\ local.stream \in Streams
          /\ local.sequence = c.sequence /\ local.target = c.accepted
    /\ pc["end"] \in {"acquire", "calling"} => c.sent >= local.target \/ sender.closed

Inv == Types /\ Calls /\ Closing /\ Frames /\ Waiting

-----------------------------------------------------------------------------
(* Where the goroutines are.                                               *)

\* The names of the goroutines.
LEMMA ProcsType ==
    /\ {"connect", "request", "end", "close", "reader"} \subseteq Procs /\ Runs \subseteq Procs
    /\ \A r \in Runs : r \notin {"connect", "request", "end", "close", "reader"}
  BY ClientAssumption DEF Procs

\* A step moves one goroutine.
LEMMA StepMoves ==
    ASSUME DOMAIN pc = Procs, NEW p \in Procs, NEW from, NEW to, Step(p, from, to)
    PROVE  /\ DOMAIN pc' = Procs /\ pc[p] = from /\ pc'[p] = to
           /\ \A q \in Procs \ {p} : pc'[q] = pc[q]
  BY DEF Step

\* The client starts without streams, frames or calls.
LEMMA InitTypes == Init => Types /\ Calls /\ Closing /\ Waiting
<1> SUFFICES ASSUME Init PROVE Types /\ Calls /\ Closing /\ Waiting
  OBVIOUS
<1>1. Shape
  BY DEF Init, Shape, Flags
<1>2. Places
  BY ProcsType DEF Init, Places
<1>3. Types
  <2>1. \A f \in Flags : c[f] \in BOOLEAN
    <3>1. /\ c.connected = FALSE /\ c.connecting = FALSE /\ c.stream = FALSE
          /\ c.requesting = FALSE /\ c.ending = FALSE /\ c.terminal = FALSE
          /\ c.closeCalled = FALSE /\ c.progress = FALSE /\ c.done = FALSE
      BY DEF Init
    <3> QED
      BY <3>1 DEF Flags
  <2>2. Cardinality({}) = 0
    BY FS_EmptySet
  <2>3. /\ c.streamID = 0 /\ c.sequence = 0 /\ c.accepted = 0 /\ c.sent = 0 /\ c.events = 0
        /\ c.media = <<>> /\ c.control = {} /\ local.frame = [r \in Runs |-> 0]
        /\ local.target = 0 /\ server.written = [n \in Streams |-> 0]
    BY DEF Init
  <2> QED
    BY <1>1, <1>2, <2>1, <2>2, <2>3, EmptySeq, ClientAssumption DEF Types, Marks, Control, Numbers
<1>4. Calls /\ Closing /\ Waiting
  BY ProcsType DEF Init, Calls, Closing, CloserClose, CloserReader, Waiting
<1> QED
  BY <1>3, <1>4

\* A goroutine moves to a place of its own.
LEMMA PlacesKeep ==
    ASSUME Places, NEW p \in Procs, NEW from, NEW to, Step(p, from, to),
           \/ p = "connect" /\ to \in {"idle", "calling", "sent", "publish", "abort", "leave"}
           \/ p = "request" /\ to \in {"idle", "calling", "abort", "leave"}
           \/ p = "end" /\ to \in {"idle", "wait", "blocked", "acquire", "calling", "awaiting",
                                   "abort", "leave"}
           \/ p = "close" /\ to \in {"idle", "waiting", "disconnecting", "abort", "shut", "finish"}
           \/ p = "reader" /\ to \in {"idle", "publish", "abort", "begin", "shut", "finish", "off"}
           \/ p \in Runs /\ to \in {"off", "idle", "sending", "abort", "count", "signal"}
    PROVE  Places'
<1>1. /\ DOMAIN pc' = Procs /\ pc'[p] = to
      /\ \A q \in Procs \ {p} : pc'[q] = pc[q]
  BY StepMoves DEF Places
<1> QED
  BY <1>1, ProcsType DEF Places

\* No step gives a record another field.
LEMMA NextShape == Shape /\ [Next]_vars => Shape'
<1> SUFFICES ASSUME Shape, [Next]_vars PROVE Shape'
  OBVIOUS
<1>1. CASE Environment
  BY <1>1 DEF Environment, ConnectBegin, RequestBegin, EnqueueMedia, EndBegin, CloseBegin,
     CloseAgain, TakeEvent, ServerGrants, WaitCancelled, ReaderEvent, ReaderDisconnect,
     ReaderFails, ReaderStop, ReaderRevoke, Publish, Fail, Update, Goto, Closed, Shape
<1>2. CASE ConnectStep
  BY <1>2 DEF ConnectStep, ConnectSent, ConnectDone, ConnectLeave, Publish, Fail, Abort, Update,
     Shape
<1>3. CASE RequestStep
  BY <1>3 DEF RequestStep, RequestGranted, BadReply, RequestLeave, Publish, Fail, Abort, Update,
     Shape
<1>4. CASE EndStep
  BY <1>4 DEF EndStep, WaitMedia, WaitProgress, WaitDone, EndAcquire, EndWrite, EndLeave,
     BadReply, Publish, Fail, Abort, Update, Goto, Shape
<1>5. CASE CloseStep
  BY <1>5 DEF CloseStep, CloseWaited, CloseDisconnected, CloseSender, CloseDone, Fail, Abort,
     Update, Goto, Shape
<1>6. CASE ReaderStep
  BY <1>6 DEF ReaderStep, RemoteBegin, CloseSender, CloseDone, Closed, Publish, Fail, Abort,
     Update, Shape
<1>7. CASE \E r \in Runs : RunStep(r)
  BY <1>7 DEF RunStep, RunTake, RunStop, RunSend, RunCount, RunSignal, Fail, Abort, Update,
     Goto, Shape
<1>8. CASE UNCHANGED vars
  BY <1>8 DEF vars, Shape
<1> QED
  BY <1>1, <1>2, <1>3, <1>4, <1>5, <1>6, <1>7, <1>8 DEF Next

\* What waitMedia reads decides where EndStream goes.
LEMMA WaitMediaMoves ==
    ASSUME Types, WaitMedia
    PROVE  /\ UNCHANGED <<c, local, sender, server>>
           /\ \E to \in {"acquire", "leave", "blocked"} :
                 /\ Step("end", "wait", to)
                 /\ to = "acquire" => c.sent >= local.target
<1>1. c.sent \in Nat /\ local.target \in Nat /\ c.terminal \in BOOLEAN
  BY DEF Types, Marks, Numbers, Flags
<1>2. CASE c.sent >= local.target
  BY <1>1, <1>2 DEF WaitMedia, Goto
<1>3. CASE c.sent < local.target /\ c.terminal
  BY <1>1, <1>3 DEF WaitMedia, Goto
<1>4. CASE c.sent < local.target /\ ~c.terminal
  BY <1>1, <1>4 DEF WaitMedia, Goto
<1> QED
  BY <1>1, <1>2, <1>3, <1>4

\* Every goroutine is where its code can be.
LEMMA NextPlaces == Types /\ [Next]_vars => Places'
<1> SUFFICES ASSUME Types, [Next]_vars PROVE Places'
  OBVIOUS
<1> USE ProcsType DEF Update, Step, Goto, Fail, Abort, Publish, Return, BadReply, Places
<1>0. Places
  BY DEF Types
<1>1. CASE Environment
  BY <1>0, <1>1 DEF Environment, ConnectBegin, RequestBegin, EnqueueMedia, EndBegin, CloseBegin,
     CloseAgain, TakeEvent, ServerGrants, WaitCancelled, ReaderEvent, ReaderDisconnect,
     ReaderFails, ReaderStop, ReaderRevoke
<1>2. CASE ConnectStep
  BY <1>0, <1>2 DEF ConnectStep, ConnectSent, ConnectDone, ConnectLeave
<1>3. CASE RequestStep
  BY <1>0, <1>3 DEF RequestStep, RequestGranted, RequestLeave
<1>4. CASE WaitMedia
  BY <1>0, <1>4, WaitMediaMoves
<1>5. CASE EndStep /\ ~WaitMedia
  BY <1>0, <1>5 DEF EndStep, WaitProgress, WaitDone, EndAcquire, EndWrite, EndLeave
<1>6. CASE CloseStep
  BY <1>0, <1>6 DEF CloseStep, CloseWaited, CloseDisconnected, CloseSender, CloseDone
<1>7. CASE ReaderStep
  BY <1>0, <1>7 DEF ReaderStep, RemoteBegin, CloseSender, CloseDone
<1>8. ASSUME NEW r \in Runs, RunStep(r) PROVE Places'
  BY <1>0, <1>8 DEF RunStep, RunTake, RunStop, RunSend, RunCount, RunSignal
<1>9. CASE UNCHANGED vars
  BY <1>0, <1>9 DEF vars
<1> QED
  BY <1>1, <1>2, <1>3, <1>4, <1>5, <1>6, <1>7, <1>8, <1>9 DEF Next

\* What Calls reads.  A step of another goroutine changes none of it but
\* perhaps ends the stream.
LEMMA CallsUnchanged ==
    ASSUME Calls, c'.requesting = c.requesting, c'.ending = c.ending,
           c'.control = c.control, c'.streamID = c.streamID, c'.stream => c.stream,
           local'.asked = local.asked,
           pc'["request"] = "idle" <=> pc["request"] = "idle",
           pc'["request"] = "calling" => pc["request"] = "calling",
           pc'["end"] = "idle" <=> pc["end"] = "idle"
    PROVE  Calls'
  BY DEF Calls

\* requesting, ending and the places in c.control are taken and given back
\* by the calls they belong to.
LEMMA NextCalls == Types /\ Calls /\ [Next]_vars => Calls'
<1> SUFFICES ASSUME Types, Calls, [Next]_vars PROVE Calls'
  OBVIOUS
<1> USE ProcsType DEF Update, Step, Goto, Fail, Abort, Publish, Return, BadReply
<1>0. Shape /\ Places
  BY DEF Types
<1>1. CASE RequestBegin
  <2>1. c.streamID + 1 \in Streams
    BY <1>1, ClientAssumption DEF RequestBegin, Types, Numbers, Streams
  <2> QED
    BY <1>0, <1>1, <2>1 DEF RequestBegin, Shape, Places, Calls, Flags
<1>2. CASE RequestGranted
  BY <1>0, <1>2 DEF RequestGranted, Shape, Places, Calls, Flags
<1>3. CASE RequestLeave
  BY <1>0, <1>3 DEF RequestLeave, Shape, Places, Calls, Flags
<1>4. CASE EndBegin
  BY <1>0, <1>4 DEF EndBegin, Shape, Places, Calls, Flags
<1>5. CASE EndAcquire
  <2>1. /\ c'.requesting = c.requesting /\ c'.ending = c.ending
        /\ c'.control \subseteq c.control \cup {"end"} /\ c'.streamID = c.streamID
        /\ local' = local /\ pc'["request"] = pc["request"]
        /\ pc["end"] = "acquire" /\ pc'["end"] \in {"calling", "abort"}
    BY <1>0, <1>5 DEF EndAcquire, Shape, Places, Flags
  <2>2. c'.stream => c.stream
    BY <1>0, <1>5 DEF EndAcquire, Shape, Flags
  <2> QED
    BY <2>1, <2>2 DEF Calls
<1>6. CASE EndLeave
  BY <1>0, <1>6 DEF EndLeave, Shape, Places, Calls, Flags
<1>7. CASE \/ ConnectBegin \/ EnqueueMedia \/ TakeEvent \/ ServerGrants \/ WaitCancelled
           \/ CloseBegin \/ CloseAgain \/ ConnectStep
  <2>1. /\ c'.requesting = c.requesting
        /\ c'.ending = c.ending
        /\ c'.control = c.control
        /\ c'.streamID = c.streamID
        /\ c'.stream => c.stream
    BY <1>0, <1>7 DEF ConnectBegin, EnqueueMedia, TakeEvent, ServerGrants, WaitCancelled,
       CloseBegin, CloseAgain, Closed, ConnectStep, ConnectSent, ConnectDone, ConnectLeave,
       Shape, Flags
  <2>2. /\ pc'["request"] = pc["request"]
        /\ pc'["end"] = "idle" <=> pc["end"] = "idle"
        /\ local'.asked = local.asked
    BY <1>0, <1>7 DEF ConnectBegin, EnqueueMedia, TakeEvent, ServerGrants, WaitCancelled,
       CloseBegin, CloseAgain, ConnectStep, ConnectSent, ConnectDone, ConnectLeave,
       Shape, Places
  <2> QED
    BY <2>1, <2>2, CallsUnchanged
<1>8. CASE \/ ReaderEvent \/ ReaderDisconnect \/ ReaderFails \/ ReaderStop
           \/ (\E n \in Streams : ReaderRevoke(n)) \/ ReaderStep \/ CloseStep
  <2>1. /\ c'.requesting = c.requesting
        /\ c'.ending = c.ending
        /\ c'.control = c.control
        /\ c'.streamID = c.streamID
        /\ c'.stream => c.stream
    BY <1>0, <1>8 DEF ReaderEvent, ReaderDisconnect, ReaderFails, ReaderStop, ReaderRevoke,
       ReaderStep, RemoteBegin, CloseStep, CloseWaited, CloseDisconnected, CloseSender,
       CloseDone, Closed, Shape, Flags
  <2>2. /\ pc'["request"] = pc["request"]
        /\ pc'["end"] = pc["end"]
        /\ local'.asked = local.asked
    BY <1>0, <1>8 DEF ReaderEvent, ReaderDisconnect, ReaderFails, ReaderStop, ReaderRevoke,
       ReaderStep, RemoteBegin, CloseStep, CloseWaited, CloseDisconnected, CloseSender,
       CloseDone, Shape, Places
  <2> QED
    BY <2>1, <2>2, CallsUnchanged
<1>9. CASE BadReply("request", "calling") \/ Abort("request")
  <2>1. /\ c'.requesting = c.requesting
        /\ c'.ending = c.ending
        /\ c'.control = c.control
        /\ c'.streamID = c.streamID
        /\ c'.stream => c.stream
    BY <1>0, <1>9 DEF Shape, Flags
  <2>2. /\ pc["request"] # "idle" /\ pc'["request"] \in {"leave", "abort"}
        /\ pc'["end"] = pc["end"]
        /\ local'.asked = local.asked
    BY <1>0, <1>9 DEF Shape, Places
  <2> QED
    BY <2>1, <2>2, CallsUnchanged
<1>10. CASE \/ WaitMedia \/ WaitProgress \/ WaitDone \/ EndWrite
            \/ BadReply("end", "awaiting") \/ Abort("end")
  <2>1. /\ c'.requesting = c.requesting
        /\ c'.ending = c.ending
        /\ c'.control = c.control
        /\ c'.streamID = c.streamID
        /\ c'.stream => c.stream
    BY <1>0, <1>10 DEF WaitMedia, WaitProgress, WaitDone, EndWrite, Shape, Flags
  <2>2. /\ pc'["request"] = pc["request"]
        /\ local'.asked = local.asked
    BY <1>0, <1>10 DEF WaitMedia, WaitProgress, WaitDone, EndWrite, Shape, Places
  <2>3. pc["end"] # "idle" /\ pc'["end"] # "idle"
    <3>1. CASE WaitMedia
      BY <1>0, <3>1, WaitMediaMoves DEF Places
    <3>2. CASE ~WaitMedia
      BY <1>0, <1>10, <3>2 DEF WaitProgress, WaitDone, EndWrite, Places
    <3> QED
      BY <3>1, <3>2
  <2> QED
    BY <2>1, <2>2, <2>3, CallsUnchanged
<1>11. ASSUME NEW r \in Runs, RunStep(r) PROVE Calls'
  <2>1. /\ c'.requesting = c.requesting
        /\ c'.ending = c.ending
        /\ c'.control = c.control
        /\ c'.streamID = c.streamID
        /\ c'.stream => c.stream
    BY <1>0, <1>11 DEF RunStep, RunTake, RunStop, RunSend, RunCount, RunSignal, Shape, Flags
  <2>2. /\ pc'["request"] = pc["request"]
        /\ pc'["end"] = pc["end"]
        /\ local'.asked = local.asked
    BY <1>0, <1>11 DEF RunStep, RunTake, RunStop, RunSend, RunCount, RunSignal, Shape, Places
  <2> QED
    BY <2>1, <2>2, CallsUnchanged
<1>12. CASE UNCHANGED vars
  BY <1>12 DEF vars, Calls
<1> QED
  BY <1>1, <1>2, <1>3, <1>4, <1>5, <1>6, <1>7, <1>8, <1>9, <1>10, <1>11, <1>12
     DEF Next, Environment, RequestStep, EndStep

\* The marks are switched on and off.
LEMMA NextMarks == Types /\ [Next]_vars => Marks'
<1> SUFFICES ASSUME Types, [Next]_vars PROVE Marks'
  OBVIOUS
<1> USE DEF Update, Goto, Fail, Abort, Publish, BadReply
<1>0. Shape /\ Marks
  BY DEF Types
<1>1. CASE Environment
  <2>1. CASE \E n \in Streams : ReaderRevoke(n)
    BY <1>0, <2>1 DEF ReaderRevoke, Shape, Marks, Flags
  <2>2. CASE ConnectBegin \/ RequestBegin \/ EnqueueMedia \/ EndBegin \/ CloseBegin
    BY <1>0, <2>2 DEF ConnectBegin, RequestBegin, EnqueueMedia, EndBegin, CloseBegin, Closed,
       Shape, Marks, Flags
  <2>3. CASE \/ CloseAgain \/ TakeEvent \/ ServerGrants \/ WaitCancelled
             \/ ReaderDisconnect \/ ReaderStop
    BY <1>0, <2>3 DEF CloseAgain, TakeEvent, ServerGrants, WaitCancelled, ReaderDisconnect,
       ReaderStop, Shape, Marks, Flags
  <2>4. CASE ReaderEvent \/ ReaderFails
    BY <1>0, <2>4 DEF ReaderEvent, ReaderFails, Shape, Marks, Flags
  <2> QED
    BY <1>1, <2>1, <2>2, <2>3, <2>4 DEF Environment
<1>2. CASE ConnectStep
  BY <1>0, <1>2 DEF ConnectStep, ConnectSent, ConnectDone, ConnectLeave, Shape, Marks, Flags
<1>3. CASE RequestStep
  BY <1>0, <1>3 DEF RequestStep, RequestGranted, RequestLeave, Shape, Marks, Flags
<1>4. CASE EndStep
  BY <1>0, <1>4 DEF EndStep, WaitMedia, WaitProgress, WaitDone, EndAcquire, EndWrite, EndLeave,
     Shape, Marks, Flags
<1>5. CASE CloseStep
  BY <1>0, <1>5 DEF CloseStep, CloseWaited, CloseDisconnected, CloseSender, CloseDone, Shape,
     Marks, Flags
<1>6. CASE ReaderStep
  BY <1>0, <1>6 DEF ReaderStep, RemoteBegin, CloseSender, CloseDone, Closed, Shape, Marks, Flags
<1>7. ASSUME NEW r \in Runs, RunStep(r) PROVE Marks'
  BY <1>0, <1>7 DEF RunStep, RunTake, RunStop, RunSend, RunCount, RunSignal, Shape, Marks, Flags
<1>8. CASE UNCHANGED vars
  BY <1>0, <1>8 DEF vars, Marks
<1> QED
  BY <1>1, <1>2, <1>3, <1>4, <1>5, <1>6, <1>7, <1>8 DEF Next

\* EndStream and RequestStream are the only users of c.control, and
\* RequestStream finds it empty.
LEMMA NextControl == Types /\ Calls /\ [Next]_vars => Control'
<1> SUFFICES ASSUME Types, Calls, [Next]_vars PROVE Control'
  OBVIOUS
<1> USE DEF Update, Goto, Fail, Abort, Publish, BadReply
<1>0. Shape /\ Control /\ IsFiniteSet(c.control) /\ ControlCapacity \in Nat \ {0}
  <2>1. IsFiniteSet({"request", "end"})
    <3>1. IsFiniteSet({"request"})
      BY FS_Singleton
    <3>2. IsFiniteSet({"request"} \cup {"end"})
      BY <3>1, FS_AddElement
    <3>3. {"request"} \cup {"end"} = {"request", "end"}
      OBVIOUS
    <3> QED
      BY <3>2, <3>3
  <2> QED
    BY <2>1, FS_Subset, ClientAssumption DEF Types, Control
<1>1. CASE RequestBegin
  <2>1. c.control = {}
    BY <1>0, <1>1 DEF RequestBegin, Calls, Control
  <2>2. c'.control = {"request"}
    BY <1>0, <1>1, <2>1 DEF RequestBegin, Shape
  <2>3. Cardinality({"request"}) = 1
    BY FS_Singleton
  <2> QED
    BY <1>0, <2>2, <2>3 DEF Control
<1>2. CASE RequestLeave
  <2>1. c'.control = c.control \ {"request"}
    BY <1>0, <1>2 DEF RequestLeave, Shape
  <2>2. Cardinality(c.control \ {"request"}) <= Cardinality(c.control)
    BY <1>0, FS_Subset
  <2> QED
    BY <1>0, <2>1, <2>2, FS_CardinalityType, FS_Subset DEF Control
<1>3. CASE EndLeave
  <2>1. c'.control = c.control \ {"end"}
    BY <1>0, <1>3 DEF EndLeave, Shape
  <2>2. Cardinality(c.control \ {"end"}) <= Cardinality(c.control)
    BY <1>0, FS_Subset
  <2> QED
    BY <1>0, <2>1, <2>2, FS_CardinalityType, FS_Subset DEF Control
<1>4. CASE EndAcquire
  <2>1. CASE Cardinality(c.control) < ControlCapacity /\ c'.control = c.control \cup {"end"}
    <3>1. /\ Cardinality(c.control) \in Nat /\ Cardinality(c.control \cup {"end"}) \in Nat
          /\ Cardinality(c.control \cup {"end"}) <= Cardinality(c.control) + 1
      <4>1. Cardinality(c.control) \in Nat
        BY <1>0, FS_CardinalityType
      <4>2. Cardinality(c.control \cup {"end"})
               \in {Cardinality(c.control), Cardinality(c.control) + 1}
        BY <1>0, FS_AddElement
      <4> QED
        BY <4>1, <4>2
    <3> QED
      BY <1>0, <2>1, <3>1 DEF Control
  <2>2. CASE c'.control = c.control
    BY <1>0, <2>2 DEF Control
  <2> QED
    BY <1>0, <1>4, <2>1, <2>2 DEF EndAcquire, Shape
<1>5. CASE \/ ConnectBegin \/ EnqueueMedia \/ EndBegin \/ CloseBegin \/ CloseAgain \/ TakeEvent
           \/ ServerGrants \/ WaitCancelled \/ ReaderEvent \/ ReaderDisconnect \/ ReaderFails
           \/ ReaderStop \/ (\E n \in Streams : ReaderRevoke(n))
  <2>1. c'.control = c.control
    BY <1>0, <1>5 DEF ConnectBegin, EnqueueMedia, EndBegin, CloseBegin, CloseAgain, TakeEvent,
       ServerGrants, WaitCancelled, ReaderEvent, ReaderDisconnect, ReaderFails, ReaderStop,
       ReaderRevoke, Closed, Shape
  <2> QED
    BY <1>0, <2>1 DEF Control
<1>6. CASE \/ ConnectStep \/ CloseStep \/ ReaderStep \/ (\E r \in Runs : RunStep(r))
  <2>1. c'.control = c.control
    BY <1>0, <1>6 DEF ConnectStep, ConnectSent, ConnectDone, ConnectLeave, CloseStep,
       CloseWaited, CloseDisconnected, CloseSender, CloseDone, ReaderStep, RemoteBegin, Closed,
       RunStep, RunTake, RunStop, RunSend, RunCount, RunSignal, Shape
  <2> QED
    BY <1>0, <2>1 DEF Control
<1>7. CASE \/ RequestGranted \/ BadReply("request", "calling") \/ Abort("request")
           \/ WaitMedia \/ WaitProgress \/ WaitDone \/ EndWrite
           \/ BadReply("end", "awaiting") \/ Abort("end") \/ UNCHANGED vars
  <2>1. c'.control = c.control
    BY <1>0, <1>7 DEF RequestGranted, WaitMedia, WaitProgress, WaitDone, EndWrite, vars, Shape
  <2> QED
    BY <1>0, <2>1 DEF Control
<1> QED
  BY <1>1, <1>2, <1>3, <1>4, <1>5, <1>6, <1>7 DEF Next, Environment, RequestStep, EndStep

\* The numbers and the queue of media stay in their bounds.
LEMMA NextNumbers == Types /\ Calls /\ [Next]_vars => Numbers'
<1> SUFFICES ASSUME Types, Calls, [Next]_vars PROVE Numbers'
  OBVIOUS
<1> USE DEF Update, Goto, Fail, Abort, Publish, BadReply
<1>0. Shape /\ Numbers /\ MaxFrames \in Nat /\ MediaCapacity \in Nat /\ EventCapacity \in Nat
  BY ClientAssumption DEF Types
<1>00. c.events \in 0 .. EventCapacity
  BY <1>0 DEF Numbers
<1>1. CASE EnqueueMedia
  <2>1. c.streamID \in Streams /\ c.media \in Seq(Streams)
    BY <1>0, <1>1 DEF EnqueueMedia, Calls, Numbers
  <2>2. /\ Append(c.media, c.streamID) \in Seq(Streams)
        /\ Len(Append(c.media, c.streamID)) = Len(c.media) + 1
    BY <2>1, AppendProperties
  <2>3. Len(c.media) \in Nat
    BY <2>1, LenProperties
  <2>4. /\ c'.media = Append(c.media, c.streamID)
        /\ c'.sequence = c.sequence + 1 /\ c'.accepted = c.accepted + 1
        /\ c'.streamID = c.streamID /\ c'.sent = c.sent /\ c'.events = c.events
        /\ local' = local /\ server' = server
        /\ c.accepted < MaxFrames /\ Len(c.media) < MediaCapacity
    BY <1>0, <1>1 DEF EnqueueMedia, Shape
  <2>5. /\ c'.sequence \in Nat /\ c'.accepted \in 0 .. MaxFrames
        /\ c'.media \in Seq(Streams) /\ Len(c'.media) <= MediaCapacity
    <3>1. c.sequence \in Nat /\ c.accepted \in 0 .. MaxFrames
      BY <1>0 DEF Numbers
    <3>2. MaxFrames \in Nat /\ MediaCapacity \in Nat
      BY <1>0
    <3> QED
      BY <2>2, <2>3, <2>4, <3>1, <3>2
  <2> QED
    BY <1>0, <2>4, <2>5 DEF Numbers
<1>2. ASSUME NEW r \in Runs, RunTake(r) PROVE Numbers'
  <2>1. c.media \in Seq(Streams) /\ c.media # <<>>
    BY <1>0, <1>2 DEF RunTake, Numbers
  <2>2. /\ Head(c.media) \in Streams /\ Tail(c.media) \in Seq(Streams)
        /\ Len(Tail(c.media)) = Len(c.media) - 1 /\ Len(c.media) \in Nat
    BY <2>1, HeadTailProperties, LenProperties
  <2>3. /\ c'.media = Tail(c.media)
        /\ c'.sequence = c.sequence /\ c'.accepted = c.accepted
        /\ c'.streamID = c.streamID /\ c'.sent = c.sent /\ c'.events = c.events
        /\ local'.frame = [local.frame EXCEPT ![r] = Head(c.media)]
        /\ local'.target = local.target /\ server' = server
    BY <1>0, <1>2 DEF RunTake, Shape
  <2>4. local'.frame \in [Runs -> Streams \cup {0}]
    BY <1>0, <2>2, <2>3 DEF Numbers
  <2>5. Len(c'.media) <= MediaCapacity
    <3>1. Len(c.media) <= MediaCapacity
      BY <1>0 DEF Numbers
    <3> QED
      BY <1>0, <2>2, <2>3, <3>1
  <2> QED
    BY <1>0, <2>2, <2>3, <2>4, <2>5 DEF Numbers
<1>3. ASSUME NEW r \in Runs, RunSend(r) PROVE Numbers'
  <2>1. /\ server'.written = [server.written EXCEPT ![local.frame[r]] = @ + 1]
        /\ c' = c /\ local' = local
    BY <1>0, <1>3 DEF RunSend, Shape
  <2>2. server'.written \in [Streams -> Nat]
    <3>1. server.written \in [Streams -> Nat]
      BY <1>0 DEF Numbers
    <3>2. \A n \in Streams : server.written[n] + 1 \in Nat
      BY <3>1
    <3> QED
      BY <2>1, <3>1, <3>2
  <2> QED
    BY <1>0, <2>1, <2>2 DEF Numbers
<1>4. ASSUME NEW r \in Runs, RunCount(r) PROVE Numbers'
  BY <1>0, <1>4 DEF RunCount, Shape, Numbers
<1>5. CASE RequestGranted
  <2>1. /\ c'.streamID = local.asked /\ c'.sequence = 0 /\ c'.accepted = c.accepted
        /\ c'.sent = c.sent /\ c'.media = c.media /\ c'.events = c.events
        /\ local' = local /\ server' = server /\ pc["request"] = "calling"
    BY <1>0, <1>5 DEF RequestGranted, Step, Shape
  <2>2. local.asked \in 0 .. MaxStreams
    BY <2>1, ClientAssumption DEF Calls, Streams
  <2> QED
    BY <1>0, <2>1, <2>2 DEF Numbers
<1>6. CASE EndBegin \/ EndLeave
  <2>1. /\ c'.streamID = c.streamID /\ c'.sequence = c.sequence /\ c'.accepted = c.accepted
        /\ c'.sent = c.sent /\ c'.media = c.media /\ c'.events = c.events
        /\ local'.frame = local.frame /\ local'.target \in {c.accepted, 0}
        /\ server' = server
    BY <1>0, <1>6 DEF EndBegin, EndLeave, Shape
  <2>2. local'.target \in Nat
    <3>1. c.accepted \in Nat
      BY <1>0 DEF Numbers
    <3> QED
      BY <2>1, <3>1
  <2> QED
    BY <1>0, <2>1, <2>2 DEF Numbers
<1>7. CASE \/ ConnectBegin \/ RequestBegin \/ CloseBegin \/ CloseAgain \/ TakeEvent
           \/ ServerGrants \/ WaitCancelled \/ ReaderEvent \/ ReaderDisconnect \/ ReaderFails
           \/ ReaderStop \/ (\E n \in Streams : ReaderRevoke(n))
  <2>1. /\ c'.streamID = c.streamID /\ c'.sequence = c.sequence /\ c'.accepted = c.accepted
        /\ c'.sent = c.sent /\ c'.media = c.media
        /\ local'.frame = local.frame /\ local'.target = local.target
        /\ server'.written = server.written
    BY <1>0, <1>7 DEF ConnectBegin, RequestBegin, CloseBegin, CloseAgain, TakeEvent,
       ServerGrants, WaitCancelled, ReaderEvent, ReaderDisconnect, ReaderFails, ReaderStop,
       ReaderRevoke, Closed, Shape
  <2>2. \/ c'.events = c.events
        \/ c.events < EventCapacity /\ c'.events = c.events + 1
        \/ c.events > 0 /\ c'.events = c.events - 1
    BY <1>0, <1>7 DEF ConnectBegin, RequestBegin, CloseBegin, CloseAgain, TakeEvent,
       ServerGrants, WaitCancelled, ReaderEvent, ReaderDisconnect, ReaderFails, ReaderStop,
       ReaderRevoke, Closed, Shape
  <2>3. c'.events \in 0 .. EventCapacity
    BY <1>0, <1>00, <2>2
  <2> QED
    BY <1>0, <2>1, <2>3 DEF Numbers
<1>8. CASE \/ ConnectStep \/ CloseStep \/ ReaderStep
           \/ \E r \in Runs : RunStop(r) \/ Fail(r, "sending") \/ Abort(r) \/ RunSignal(r)
  <2>1. /\ c'.streamID = c.streamID /\ c'.sequence = c.sequence /\ c'.accepted = c.accepted
        /\ c'.sent = c.sent /\ c'.media = c.media
        /\ local' = local /\ server' = server
    BY <1>0, <1>8 DEF ConnectStep, ConnectSent, ConnectDone, ConnectLeave, CloseStep,
       CloseWaited, CloseDisconnected, CloseSender, CloseDone, ReaderStep, RemoteBegin, Closed,
       RunStop, RunSignal, Shape
  <2>2. \/ c'.events = c.events
        \/ c.events < EventCapacity /\ c'.events = c.events + 1
        \/ c.events > 0 /\ c'.events = c.events - 1
    BY <1>0, <1>8 DEF ConnectStep, ConnectSent, ConnectDone, ConnectLeave, CloseStep,
       CloseWaited, CloseDisconnected, CloseSender, CloseDone, ReaderStep, RemoteBegin, Closed,
       RunStop, RunSignal, Shape
  <2>3. c'.events \in 0 .. EventCapacity
    BY <1>0, <1>00, <2>2
  <2> QED
    BY <1>0, <2>1, <2>3 DEF Numbers
<1>9. CASE \/ RequestLeave \/ BadReply("request", "calling") \/ Abort("request")
           \/ WaitMedia \/ WaitProgress \/ WaitDone \/ EndAcquire \/ EndWrite
           \/ BadReply("end", "awaiting") \/ Abort("end") \/ UNCHANGED vars
  <2>1. /\ c'.streamID = c.streamID /\ c'.sequence = c.sequence /\ c'.accepted = c.accepted
        /\ c'.sent = c.sent /\ c'.media = c.media
        /\ local'.frame = local.frame /\ local'.target = local.target
        /\ server'.written = server.written
    BY <1>0, <1>9 DEF RequestLeave, WaitMedia, WaitProgress, WaitDone, EndAcquire, EndWrite,
       vars, Shape
  <2>2. \/ c'.events = c.events
        \/ c.events < EventCapacity /\ c'.events = c.events + 1
        \/ c.events > 0 /\ c'.events = c.events - 1
    BY <1>0, <1>9 DEF RequestLeave, WaitMedia, WaitProgress, WaitDone, EndAcquire, EndWrite,
       vars, Shape
  <2>3. c'.events \in 0 .. EventCapacity
    BY <1>0, <1>00, <2>2
  <2> QED
    BY <1>0, <2>1, <2>3 DEF Numbers
<1> QED
  BY <1>1, <1>2, <1>3, <1>4, <1>5, <1>6, <1>7, <1>8, <1>9
     DEF Next, Environment, RequestStep, EndStep, RunStep

\* Types and Calls are inductive together.
LEMMA NextTypes == Types /\ Calls /\ [Next]_vars => Types' /\ Calls'
  BY NextShape, NextPlaces, NextMarks, NextControl, NextNumbers, NextCalls DEF Types

-----------------------------------------------------------------------------
(* Who closes the client.                                                  *)

\* A step that moves neither closer; it may fail the client or close the
\* sender.
LEMMA ClosingUnchanged ==
    ASSUME Closing, c'.closeCalled = c.closeCalled, c'.closes = c.closes,
           pc'["close"] = pc["close"],
           pc'["reader"] = pc["reader"]
              \/ {pc["reader"], pc'["reader"]} \cap {"shut", "finish"} = {},
           sender.closed => sender'.closed,
           c'.done /\ ~c'.terminal => c.done /\ ~c.terminal
    PROVE  Closing'
  BY DEF Closing, CloserClose, CloserReader

\* closeCalled is set before one goroutine goes on to close done and
\* closeDone, and the sender is closed before done unless the client failed.
LEMMA NextClosing == Types /\ Closing /\ [Next]_vars => Closing'
<1> SUFFICES ASSUME Types, Closing, [Next]_vars PROVE Closing'
  OBVIOUS
<1> USE ProcsType DEF Update, Step, Goto, Fail, Abort, Publish, Return, BadReply
<1>0. Shape /\ Places
  BY DEF Types
<1>1. CASE CloseBegin
  BY <1>0, <1>1 DEF CloseBegin, Closed, Shape, Flags, Places, Closing, CloserClose, CloserReader
<1>2. CASE CloseAgain
  BY <1>0, <1>2 DEF CloseAgain, Shape, Flags, Places, Closing, CloserClose, CloserReader
<1>3. CASE CloseWaited \/ CloseDisconnected
  BY <1>0, <1>3 DEF CloseWaited, CloseDisconnected, Shape, Flags, Places, Closing, CloserClose,
     CloserReader
<1>4. CASE Fail("close", "disconnecting") \/ Abort("close")
  <2>1. /\ c'.closeCalled = c.closeCalled /\ c'.closes = c.closes
        /\ pc'["reader"] = pc["reader"]
        /\ pc["close"] \in {"disconnecting", "abort"} /\ pc'["close"] \in {"abort", "shut"}
        /\ sender'.closed \/ sender' = sender
    BY <1>0, <1>4 DEF Shape, Flags, Places
  <2>2. c'.done /\ ~c'.terminal => c.done /\ ~c.terminal
    BY <1>0, <1>4 DEF Shape, Flags
  <2> QED
    BY <2>1, <2>2 DEF Closing, CloserClose, CloserReader
<1>5. ASSUME NEW p \in {"close", "reader"}, CloseSender(p) \/ CloseDone(p) PROVE Closing'
  <2> DEFINE q == IF p = "close" THEN "reader" ELSE "close"
  <2>1. CASE CloseSender(p)
    <3>1. /\ pc[p] = "shut" /\ pc'[p] = "finish" /\ pc'[q] = pc[q]
          /\ c' = c /\ sender'.closed
      BY <1>0, <1>5, <2>1 DEF CloseSender, Shape, Places
    <3> QED
      BY <1>5, <3>1 DEF Closing, CloserClose, CloserReader
  <2>2. CASE CloseDone(p)
    <3>1. /\ pc[p] = "finish" /\ pc'[p] \in {"idle", "off"} /\ pc'[q] = pc[q]
          /\ sender' = sender
      BY <1>0, <1>5, <2>2 DEF CloseDone, Shape, Places
    <3>2. c'.closes = c.closes + 1 /\ c'.closeCalled = c.closeCalled
      BY <1>0, <2>2 DEF CloseDone, Shape, Flags
    <3>3. sender.closed /\ c.closeCalled /\ c.closes = 0
      BY <1>5, <3>1 DEF Closing, CloserClose, CloserReader
    <3> QED
      BY <1>5, <3>1, <3>2, <3>3 DEF Closing, CloserClose, CloserReader
  <2> QED
    BY <1>5, <2>1, <2>2
<1>6. CASE RemoteBegin
  BY <1>0, <1>6 DEF RemoteBegin, Closed, Shape, Flags, Places, Closing, CloserClose, CloserReader
<1>7. CASE \/ ConnectBegin \/ RequestBegin \/ EnqueueMedia \/ EndBegin \/ TakeEvent
           \/ ServerGrants \/ WaitCancelled \/ ConnectStep \/ RequestStep
  <2>1. /\ c'.closeCalled = c.closeCalled
        /\ c'.closes = c.closes
        /\ c'.done /\ ~c'.terminal => c.done /\ ~c.terminal
    BY <1>0, <1>7 DEF ConnectBegin, RequestBegin, EnqueueMedia, EndBegin, TakeEvent,
       ServerGrants, WaitCancelled, ConnectStep, ConnectSent, ConnectDone, ConnectLeave,
       RequestStep, RequestGranted, RequestLeave, Shape, Flags
  <2>2. /\ pc'["close"] = pc["close"]
        /\ pc'["reader"] = pc["reader"]
        /\ sender.closed => sender'.closed
    BY <1>0, <1>7 DEF ConnectBegin, RequestBegin, EnqueueMedia, EndBegin, TakeEvent,
       ServerGrants, WaitCancelled, ConnectStep, ConnectSent, ConnectDone, ConnectLeave,
       RequestStep, RequestGranted, RequestLeave, Shape, Places
  <2> QED
    BY <2>1, <2>2, ClosingUnchanged
<1>8. CASE EndStep
  <2>1. /\ c'.closeCalled = c.closeCalled
        /\ c'.closes = c.closes
        /\ c'.done /\ ~c'.terminal => c.done /\ ~c.terminal
    BY <1>0, <1>8 DEF EndStep, WaitMedia, WaitProgress, WaitDone, EndAcquire, EndWrite,
       EndLeave, Shape, Flags
  <2>2. /\ pc'["close"] = pc["close"]
        /\ pc'["reader"] = pc["reader"]
        /\ sender.closed => sender'.closed
    BY <1>0, <1>8 DEF EndStep, WaitMedia, WaitProgress, WaitDone, EndAcquire, EndWrite,
       EndLeave, Shape, Places
  <2> QED
    BY <2>1, <2>2, ClosingUnchanged
<1>9. CASE \/ ReaderEvent \/ ReaderDisconnect \/ ReaderFails \/ ReaderStop
           \/ (\E n \in Streams : ReaderRevoke(n))
           \/ Publish("reader", "publish") \/ Abort("reader")
  <2>1. /\ c'.closeCalled = c.closeCalled
        /\ c'.closes = c.closes
        /\ c'.done /\ ~c'.terminal => c.done /\ ~c.terminal
    BY <1>0, <1>9 DEF ReaderEvent, ReaderDisconnect, ReaderFails, ReaderStop, ReaderRevoke,
       Shape, Flags
  <2>2. /\ pc'["close"] = pc["close"]
        /\ {pc["reader"], pc'["reader"]} \cap {"shut", "finish"} = {}
        /\ sender.closed => sender'.closed
    BY <1>0, <1>9 DEF ReaderEvent, ReaderDisconnect, ReaderFails, ReaderStop, ReaderRevoke,
       Shape, Places
  <2> QED
    BY <2>1, <2>2, ClosingUnchanged
<1>10. ASSUME NEW r \in Runs, RunStep(r) PROVE Closing'
  <2>1. /\ c'.closeCalled = c.closeCalled
        /\ c'.closes = c.closes
        /\ c'.done /\ ~c'.terminal => c.done /\ ~c.terminal
    BY <1>0, <1>10 DEF RunStep, RunTake, RunStop, RunSend, RunCount, RunSignal, Shape, Flags
  <2>2. /\ pc'["close"] = pc["close"]
        /\ pc'["reader"] = pc["reader"]
        /\ sender.closed => sender'.closed
    BY <1>0, <1>10 DEF RunStep, RunTake, RunStop, RunSend, RunCount, RunSignal, Shape, Places
  <2> QED
    BY <2>1, <2>2, ClosingUnchanged
<1>11. CASE UNCHANGED vars
  BY <1>11 DEF vars, Closing, CloserClose, CloserReader
<1> QED
  BY <1>1, <1>2, <1>3, <1>4, <1>5, <1>6, <1>7, <1>8, <1>9, <1>10, <1>11
     DEF Next, Environment, CloseStep, ReaderStep

-----------------------------------------------------------------------------
(* Where the frames are.                                                   *)

\* The numbers of frames in the hands of run.
LEMMA HandsCounted ==
    /\ IsFiniteSet(Taken) /\ Cardinality(Taken) \in Nat
    /\ IsFiniteSet(Sending) /\ Cardinality(Sending) \in Nat
<1>1. Taken \subseteq Runs /\ Sending \subseteq Runs /\ IsFiniteSet(Runs)
  BY ClientAssumption DEF Taken, Sending
<1>2. IsFiniteSet(Taken) /\ IsFiniteSet(Sending)
  BY <1>1, FS_Subset
<1> QED
  BY <1>2, FS_CardinalityType

\* The numbers Frames is about.
LEMMA FrameNumbers ==
    ASSUME Types
    PROVE  /\ c.streamID \in Nat /\ c.sequence \in Nat /\ c.accepted \in Nat /\ c.sent \in Nat
           /\ c.media \in Seq(Streams) /\ Len(c.media) \in Nat
           /\ server.written \in [Streams -> Nat]
           /\ \A n \in Streams : n \in Nat /\ n # 0
           /\ c.streamID # 0 => c.streamID \in Streams
           /\ Lost \in Int
<1>1. /\ c.streamID \in 0 .. MaxStreams /\ c.sequence \in Nat /\ c.accepted \in Nat
      /\ c.sent \in Nat /\ c.media \in Seq(Streams) /\ server.written \in [Streams -> Nat]
      /\ MaxStreams \in Nat
  BY ClientAssumption DEF Types, Numbers
<1>2. Len(c.media) \in Nat
  BY <1>1, LenProperties
<1>3. Cardinality(Taken) \in Nat
  BY HandsCounted
<1>4. Lost \in Int
  BY <1>1, <1>2, <1>3 DEF Lost
<1> QED
  BY <1>1, <1>2, <1>4 DEF Streams

\* There are no frames before the first stream.
LEMMA InitFrames == Init => Frames
<1> SUFFICES ASSUME Init PROVE Frames
  OBVIOUS
<1>1. /\ c.streamID = 0 /\ c.sequence = 0 /\ c.accepted = 0 /\ c.sent = 0 /\ c.media = <<>>
      /\ server.written = [n \in Streams |-> 0]
      /\ \A r \in Runs : pc[r] = "off"
  BY ProcsType DEF Init
<1>2. Taken = {}
  BY <1>1 DEF Taken
<1>3. Len(c.media) = 0 /\ Cardinality(Taken) = 0
  BY <1>1, <1>2, FS_EmptySet, EmptySeq
<1>4. Lost = 0
  <2>1. Lost = 0 - 0 - 0 - 0
    BY <1>1, <1>3, Zenon DEF Lost
  <2> QED
    BY <2>1
<1> QED
  BY <1>1, <1>3, <1>4 DEF Frames

\* Most steps touch no frame.
LEMMA FramesUnchanged ==
    ASSUME Frames, c'.streamID = c.streamID, c'.sequence = c.sequence,
           c'.accepted = c.accepted, c'.sent = c.sent, c'.media = c.media,
           local'.frame = local.frame, server'.written = server.written,
           \A r \in Runs : pc'[r] = "sending" <=> pc[r] = "sending",
           \A r \in Runs : pc'[r] = "count" <=> pc[r] = "count"
    PROVE  Frames'
<1>1. Taken' = Taken
  BY DEF Taken
<1>2. Sending' = Sending
  BY DEF Sending
<1>3. Lost' = Lost /\ \A k : Missing(k)' = Missing(k)
  BY <1>1, <1>2 DEF Lost, Missing
<1>4. \A k : Suffix(c.media, c.streamID, k)' = Suffix(c.media, c.streamID, k)
  BY DEF Suffix
<1> QED
  BY <1>3, <1>4 DEF Frames

\* A frame at the end makes the suffix longer.
LEMMA SuffixAppend ==
    ASSUME NEW media \in Seq(Streams), NEW n \in Streams, NEW k \in 0 .. Len(media),
           Suffix(media, n, k)
    PROVE  LET longer == Append(media, n)
           IN  /\ longer \in Seq(Streams) /\ Len(longer) = Len(media) + 1
               /\ Suffix(longer, n, k + 1)
<1> DEFINE m == Len(media)
           longer == Append(media, n)
<1>1. m \in Nat /\ k \in Nat
  BY LenProperties
<1>2. /\ longer \in Seq(Streams) /\ Len(longer) = m + 1 /\ longer[m + 1] = n
      /\ \A i \in 1 .. m : longer[i] = media[i]
  BY AppendProperties
<1>3. \A i \in 1 .. m : media[i] = n <=> i > m - k
  BY DEF Suffix
<1> HIDE DEF m, longer
<1>4. \A i \in 1 .. m + 1 : longer[i] = n <=> i > (m + 1) - (k + 1)
  <2> SUFFICES ASSUME NEW i \in 1 .. m + 1
               PROVE  longer[i] = n <=> i > (m + 1) - (k + 1)
    OBVIOUS
  <2>1. CASE i = m + 1
    BY <1>1, <1>2, <2>1
  <2>2. CASE i \in 1 .. m
    BY <1>1, <1>2, <1>3, <2>2
  <2> QED
    BY <1>1, <2>1, <2>2
<1>5. Suffix(longer, n, k + 1)
  BY <1>2, <1>4 DEF Suffix
<1> QED
  BY <1>2, <1>5 DEF m, longer

\* Taking the head shortens the suffix only when the suffix is all there is.
LEMMA SuffixTail ==
    ASSUME NEW media \in Seq(Streams), media # <<>>, NEW n \in Streams,
           NEW k \in 0 .. Len(media), Suffix(media, n, k)
    PROVE  /\ Head(media) \in Streams /\ Tail(media) \in Seq(Streams)
           /\ Len(Tail(media)) = Len(media) - 1 /\ Len(media) \in Nat \ {0}
           /\ \A i \in 1 .. Len(Tail(media)) : Tail(media)[i] = media[i + 1]
           /\ Head(media) = media[1]
           /\ Head(media) = n => k = Len(media) /\ Suffix(Tail(media), n, k - 1)
           /\ Head(media) # n => k < Len(media) /\ Suffix(Tail(media), n, k)
<1> DEFINE m == Len(media)
           shorter == Tail(media)
<1>1. m \in Nat \ {0} /\ k \in Nat
  BY LenProperties, EmptySeq
<1>2. /\ Head(media) \in Streams /\ shorter \in Seq(Streams) /\ Len(shorter) = m - 1
      /\ \A i \in 1 .. m - 1 : shorter[i] = media[i + 1]
      /\ Head(media) = media[1]
  BY HeadTailProperties
<1>3. \A i \in 1 .. m : media[i] = n <=> i > m - k
  BY DEF Suffix
<1> HIDE DEF m, shorter
<1>4. Head(media) = n <=> 1 > m - k
  <2>1. 1 \in 1 .. m
    BY <1>1
  <2> QED
    BY <1>2, <1>3, <2>1
<1>5. ASSUME NEW i \in 1 .. m - 1 PROVE shorter[i] = n <=> i + 1 > m - k
  <2>1. i + 1 \in 1 .. m /\ shorter[i] = media[i + 1]
    BY <1>1, <1>2
  <2> QED
    BY <1>3, <2>1
<1>6. ASSUME Head(media) = n PROVE k = m /\ Suffix(shorter, n, k - 1)
  <2>1. k = m
    BY <1>1, <1>4, <1>6 DEF m
  <2>2. \A i \in 1 .. m - 1 : shorter[i] = n <=> i > (m - 1) - (k - 1)
    BY <1>1, <1>5, <2>1
  <2> QED
    BY <1>2, <2>1, <2>2 DEF Suffix
<1>7. ASSUME Head(media) # n PROVE k < m /\ Suffix(shorter, n, k)
  <2>1. k < m
    BY <1>1, <1>4, <1>7
  <2>2. \A i \in 1 .. m - 1 : shorter[i] = n <=> i > (m - 1) - k
    BY <1>1, <1>5
  <2> QED
    BY <1>2, <2>1, <2>2 DEF Suffix
<1> QED
  BY <1>1, <1>2, <1>6, <1>7 DEF m, shorter

\* A frame is accepted at the end of the queue.
LEMMA EnqueueFrames ==
    ASSUME Types, Calls, Frames, EnqueueMedia
    PROVE  Frames'
<1> DEFINE n == c.streamID
           m == Len(c.media)
           S == Cardinality(Sending)
           T == Cardinality(Taken)
           w == server.written[n]
<1>1. /\ c.stream
      /\ c'.media = Append(c.media, n) /\ c'.sequence = c.sequence + 1
      /\ c'.accepted = c.accepted + 1 /\ c'.streamID = n /\ c'.sent = c.sent
      /\ local' = local /\ pc' = pc /\ server' = server
  BY DEF EnqueueMedia, Types, Shape
<1>2. n \in Streams /\ n # 0
  BY <1>1, FrameNumbers DEF Calls
<1>3. Taken' = Taken /\ Sending' = Sending
  BY <1>1 DEF Taken, Sending
<1>4. /\ m \in Nat /\ S \in Nat /\ T \in Nat /\ w \in Nat /\ n \in Nat
      /\ c.accepted \in Nat /\ c.sent \in Nat /\ c.sequence \in Nat /\ Lost \in Int
  BY <1>2, FrameNumbers, HandsCounted
<1>5. PICK k \in 0 .. m : Suffix(c.media, n, k) /\ Missing(k) \in 0 .. Lost
  BY <1>2 DEF Frames
<1>6. Len(c'.media) = m + 1 /\ Suffix(c'.media, n, k + 1)
  BY <1>1, <1>2, <1>5, FrameNumbers, SuffixAppend
<1>7. Lost' = Lost
  <2>1. Lost = c.accepted - c.sent - m - T /\ Lost' = c'.accepted - c'.sent - Len(c'.media) - T
    BY <1>3 DEF Lost
  <2>2. c'.accepted = c.accepted + 1 /\ c'.sent = c.sent /\ Len(c'.media) = m + 1
    BY <1>1, <1>6
  <2> HIDE DEF m, T
  <2>3. Lost' = (c.accepted + 1) - c.sent - (m + 1) - T
    BY <2>1, <2>2, Zenon
  <2>4. \A a, b, x, y \in Int : (a + 1) - b - (x + 1) - y = a - b - x - y
    OBVIOUS
  <2>5. c.accepted \in Int /\ c.sent \in Int /\ m \in Int /\ T \in Int
    BY <1>4
  <2> QED
    BY <2>1, <2>3, <2>4, <2>5
<1>8. Missing(k + 1)' = Missing(k)
  <2>1. /\ Missing(k) = c.sequence - w - k - S
        /\ Missing(k + 1)' = c'.sequence - server'.written[c'.streamID] - (k + 1) - S
    BY <1>3 DEF Missing
  <2>2. c'.sequence = c.sequence + 1 /\ server'.written[c'.streamID] = w
    BY <1>1
  <2> HIDE DEF m, S, w
  <2> QED
    BY <1>4, <1>5, <2>1, <2>2
<1>9. k + 1 \in 0 .. Len(c'.media)
  <2> HIDE DEF m
  <2> QED
    BY <1>4, <1>5, <1>6
<1>10. \A i \in 1 .. Len(c'.media) : c'.media[i] <= n
  <2>1. /\ \A i \in 1 .. m : c.media[i] <= n
        /\ \A i \in 1 .. m : c'.media[i] = c.media[i]
        /\ c'.media[m + 1] = n
    BY <1>1, <1>2, FrameNumbers, AppendProperties DEF Frames
  <2>2. n <= n
    BY <1>4
  <2>3. \A i \in 1 .. Len(c'.media) : i \in 1 .. m \/ i = m + 1
    <3> HIDE DEF m
    <3> QED
      BY <1>4, <1>6
  <2> HIDE DEF m, n
  <2> QED
    BY <2>1, <2>2, <2>3, Zenon
<1>11. c'.sequence <= c'.accepted /\ Lost >= 0
  <2>1. c.sequence <= c.accepted /\ Lost >= 0
    BY DEF Frames
  <2> QED
    BY <1>1, <1>4, <2>1
<1>12. /\ \A r \in Runs : pc[r] = "sending" =>
             local.frame[r] \in Streams /\ local.frame[r] <= n
       /\ \A j \in Streams : j > n => server.written[j] = 0
  BY DEF Frames
<1>13. \E j \in 0 .. Len(c'.media) : Suffix(c'.media, c'.streamID, j) /\ Missing(j)' \in 0 .. Lost'
  BY <1>1, <1>5, <1>6, <1>7, <1>8, <1>9
<1> HIDE DEF n, m
<1> QED
  BY <1>1, <1>7, <1>10, <1>11, <1>12, <1>13 DEF n, Frames

\* What moving one frame does to the sums.
LEMMA Sums ==
    \A a, b, x, y \in Int :
        /\ a - b - (x - 1) - (y + 1) = a - b - x - y
        /\ a - (b + 1) - x - (y - 1) = a - b - x - y
        /\ a - b - x - (y - 1) = (a - b - x - y) + 1
  OBVIOUS

\* A run goroutine takes the frame at the head of the queue.
LEMMA TakeFrames ==
    ASSUME Types, Frames, NEW r \in Runs, RunTake(r)
    PROVE  Frames'
<1> DEFINE n == c.streamID
           m == Len(c.media)
           S == Cardinality(Sending)
           T == Cardinality(Taken)
           w == server.written[n]
           head == Head(c.media)
<1>1. /\ c.media # <<>> /\ pc[r] = "idle"
      /\ c'.media = Tail(c.media) /\ c'.sequence = c.sequence
      /\ c'.accepted = c.accepted /\ c'.streamID = n /\ c'.sent = c.sent
      /\ local'.frame = [local.frame EXCEPT ![r] = head]
      /\ server' = server
  BY DEF RunTake, Step, Types, Shape
<1>2. pc'[r] = "sending" /\ \A q \in Runs \ {r} : pc'[q] = pc[q]
  BY ProcsType DEF RunTake, Step, Types, Places
<1>3. local'.frame[r] = head /\ \A q \in Runs \ {r} : local'.frame[q] = local.frame[q]
  BY <1>1 DEF Types, Numbers
<1>4. head \in Streams /\ head <= n /\ n \in Streams /\ n # 0
  <2>1. /\ head = c.media[1] /\ head \in Streams /\ m \in Nat \ {0}
    BY <1>1, FrameNumbers, HeadTailProperties, EmptySeq
  <2>2. head <= n
    <3>1. 1 \in 1 .. m
      BY <2>1
    <3> QED
      BY <2>1, <3>1 DEF Frames
  <2>3. head \in Nat /\ head # 0 /\ n \in Nat
    BY <2>1, FrameNumbers
  <2>4. n # 0
    <3> HIDE DEF head, n
    <3> QED
      BY <2>2, <2>3
  <2> QED
    BY <2>1, <2>2, <2>4, FrameNumbers
<1>5. PICK k \in 0 .. m : Suffix(c.media, n, k) /\ Missing(k) \in 0 .. Lost
  BY <1>4 DEF Frames
<1>6. /\ Len(c'.media) = m - 1 /\ m \in Nat \ {0}
      /\ \A i \in 1 .. m - 1 : c'.media[i] = c.media[i + 1]
      /\ head = n => k = m /\ Suffix(c'.media, n, k - 1)
      /\ head # n => k < m /\ Suffix(c'.media, n, k)
  BY <1>1, <1>4, <1>5, FrameNumbers, SuffixTail
<1>7. Cardinality(Taken)' = T + 1
  <2>1. Taken' = Taken \cup {r} /\ r \notin Taken
    BY <1>1, <1>2 DEF Taken
  <2> QED
    BY <2>1, HandsCounted, FS_AddElement
<1>8. Cardinality(Sending)' = IF head = n THEN S + 1 ELSE S
  <2>1. r \notin Sending
    BY <1>1 DEF Sending
  <2>2. Sending' = IF head = n THEN Sending \cup {r} ELSE Sending
    BY <1>1, <1>2, <1>3, <2>1 DEF Sending
  <2> QED
    BY <2>1, <2>2, HandsCounted, FS_AddElement
<1>9. /\ S \in Int /\ T \in Int /\ w \in Int /\ m \in Int /\ k \in Int /\ Lost \in Int
      /\ c.accepted \in Int /\ c.sent \in Int /\ c.sequence \in Int
  <2>1. k \in Int /\ m \in Int
    <3> HIDE DEF m
    <3> QED
      BY <1>5, <1>6
  <2> QED
    BY <1>4, <2>1, FrameNumbers, HandsCounted
<1>10. Lost' = Lost
  <2>1. Lost = c.accepted - c.sent - m - T /\ Lost' = c.accepted - c.sent - (m - 1) - (T + 1)
    BY <1>1, <1>6, <1>7 DEF Lost
  <2> HIDE DEF m, T
  <2> QED
    BY <1>9, <2>1, Sums
<1>11. \E j \in 0 .. Len(c'.media) : Suffix(c'.media, c'.streamID, j) /\ Missing(j)' \in 0 .. Lost'
  <2>1. \A j : Missing(j)' = c.sequence - w - j - Cardinality(Sending)'
    BY <1>1 DEF Missing
  <2>2. Missing(k) = c.sequence - w - k - S
    BY DEF Missing
  <2> HIDE DEF S, w, m
  <2>3. CASE head = n
    <3>1. Missing(k - 1)' = Missing(k)
      BY <1>8, <1>9, <2>1, <2>2, <2>3, Sums
    <3>2. k - 1 \in 0 .. Len(c'.media) /\ Suffix(c'.media, n, k - 1)
      BY <1>6, <2>3
    <3> QED
      BY <1>1, <1>5, <1>10, <3>1, <3>2
  <2>4. CASE head # n
    <3>1. Missing(k)' = Missing(k)
      BY <1>8, <2>1, <2>2, <2>4
    <3>2. k \in 0 .. Len(c'.media) /\ Suffix(c'.media, n, k)
      BY <1>6, <2>4
    <3> QED
      BY <1>1, <1>5, <1>10, <3>1, <3>2
  <2> QED
    BY <2>3, <2>4
<1>12. \A i \in 1 .. Len(c'.media) : c'.media[i] <= n
  <2> SUFFICES ASSUME NEW i \in 1 .. Len(c'.media) PROVE c'.media[i] <= n
    OBVIOUS
  <2>1. c'.media[i] = c.media[i + 1] /\ i + 1 \in 1 .. m
    BY <1>6
  <2> QED
    BY <2>1 DEF Frames
<1>13. \A q \in Runs : pc'[q] = "sending" =>
           local'.frame[q] \in Streams /\ local'.frame[q] <= n
  BY <1>2, <1>3, <1>4 DEF Frames
<1>14. /\ c.sequence <= c.accepted /\ Lost >= 0
       /\ \A j \in Streams : j > n => server.written[j] = 0
  BY DEF Frames
<1> QED
  BY <1>1, <1>10, <1>11, <1>12, <1>13, <1>14 DEF Frames

\* The frame a run goroutine has taken is written.
LEMMA SendFrames ==
    ASSUME Types, Frames, NEW r \in Runs, RunSend(r)
    PROVE  Frames'
<1> DEFINE n == c.streamID
           S == Cardinality(Sending)
           w == server.written[n]
           f == local.frame[r]
<1>1. /\ pc[r] = "sending" /\ c' = c /\ local' = local
      /\ server'.written = [server.written EXCEPT ![f] = @ + 1]
  BY DEF RunSend, Step, Types, Shape
<1>2. pc'[r] = "count" /\ \A q \in Runs \ {r} : pc'[q] = pc[q]
  BY ProcsType DEF RunSend, Step, Types, Places
<1>3. f \in Streams /\ f <= n /\ n \in Streams /\ n # 0
  <2>1. f \in Streams /\ f <= n
    BY <1>1 DEF Frames
  <2>2. f \in Nat /\ f # 0 /\ n \in Nat
    BY <2>1, FrameNumbers
  <2>3. n # 0
    <3> HIDE DEF f, n
    <3> QED
      BY <2>1, <2>2
  <2> QED
    BY <2>1, <2>3, FrameNumbers
<1>4. Taken' = Taken
  BY <1>1, <1>2 DEF Taken
<1>5. Lost' = Lost
  BY <1>1, <1>4 DEF Lost
<1>6. Cardinality(Sending)' = IF f = n THEN S - 1 ELSE S
  <2>1. r \in Sending <=> f = n
    BY <1>1 DEF Sending
  <2>2. Sending' = Sending \ {r}
    BY <1>1, <1>2 DEF Sending
  <2> QED
    BY <2>1, <2>2, HandsCounted, FS_RemoveElement
<1>7. server'.written[n] = IF f = n THEN w + 1 ELSE w
  BY <1>1, <1>3, FrameNumbers
<1>8. PICK k \in 0 .. Len(c.media) : Suffix(c.media, n, k) /\ Missing(k) \in 0 .. Lost
  BY <1>3 DEF Frames
<1>9. S \in Int /\ w \in Int /\ k \in Int /\ c.sequence \in Int
  BY <1>3, <1>8, FrameNumbers, HandsCounted
<1>10. Missing(k)' = Missing(k)
  <2>1. /\ Missing(k) = c.sequence - w - k - S
        /\ Missing(k)' = c.sequence - server'.written[n] - k - Cardinality(Sending)'
    BY <1>1 DEF Missing
  <2> HIDE DEF S, w, f, n
  <2>2. CASE f = n
    <3>1. Missing(k)' = c.sequence - (w + 1) - k - (S - 1)
      BY <1>6, <1>7, <2>1, <2>2
    <3> QED
      BY <1>9, <2>1, <3>1, Sums
  <2>3. CASE f # n
    BY <1>6, <1>7, <2>1, <2>3
  <2> QED
    BY <2>2, <2>3
<1>11. \E j \in 0 .. Len(c'.media) : Suffix(c'.media, c'.streamID, j) /\ Missing(j)' \in 0 .. Lost'
  BY <1>1, <1>5, <1>8, <1>10
<1>12. \A j \in Streams : j > n => server'.written[j] = 0
  <2>1. \A j \in Streams : j > n => j # f
    BY <1>3, FrameNumbers
  <2> QED
    BY <1>1, <2>1, FrameNumbers DEF Frames
<1>13. \A q \in Runs : pc'[q] = "sending" =>
           local.frame[q] \in Streams /\ local.frame[q] <= n
  BY <1>2 DEF Frames
<1> QED
  BY <1>1, <1>5, <1>11, <1>12, <1>13 DEF Frames

\* A written frame is counted, or the run goroutine fails and drops its own.
LEMMA CountFrames ==
    ASSUME Types, Frames, NEW r \in Runs, RunCount(r) \/ Fail(r, "sending")
    PROVE  Frames'
<1> DEFINE n == c.streamID
           m == Len(c.media)
           S == Cardinality(Sending)
           T == Cardinality(Taken)
           w == server.written[n]
           counted == pc[r] = "count"
<1>1. /\ pc[r] \in {"sending", "count"} /\ local' = local /\ server' = server
      /\ c'.media = c.media /\ c'.sequence = c.sequence
      /\ c'.accepted = c.accepted /\ c'.streamID = n
      /\ c'.sent = IF counted THEN c.sent + 1 ELSE c.sent
  BY DEF RunCount, Fail, Update, Step, Types, Shape
<1>2. pc'[r] \in {"signal", "abort"} /\ \A q \in Runs \ {r} : pc'[q] = pc[q]
  BY ProcsType DEF RunCount, Fail, Update, Step, Types, Places
<1>3. Cardinality(Taken)' = T - 1
  <2>1. Taken' = Taken \ {r} /\ r \in Taken
    BY <1>1, <1>2 DEF Taken
  <2> QED
    BY <2>1, HandsCounted, FS_RemoveElement
<1>4. Cardinality(Sending)' \in IF counted THEN {S} ELSE {S, S - 1}
  <2>1. Sending' = Sending \ {r}
    BY <1>1, <1>2 DEF Sending
  <2>2. Cardinality(Sending \ {r}) = IF r \in Sending THEN S - 1 ELSE S
    BY HandsCounted, FS_RemoveElement
  <2>3. counted => r \notin Sending
    BY DEF Sending
  <2> HIDE DEF S, counted
  <2> QED
    BY <2>1, <2>2, <2>3
<1>5. /\ S \in Int /\ T \in Int /\ m \in Int /\ Lost \in Int /\ n \in Nat
      /\ c.accepted \in Int /\ c.sent \in Int /\ c.sequence \in Int
  BY FrameNumbers, HandsCounted
<1>6. Lost' = IF counted THEN Lost ELSE Lost + 1
  <2>1. Lost = c.accepted - c.sent - m - T /\ Lost' = c.accepted - c'.sent - m - (T - 1)
    BY <1>1, <1>3 DEF Lost
  <2> HIDE DEF m, T
  <2> QED
    BY <1>1, <1>5, <2>1, Sums
<1>7. Lost >= 0 /\ Lost' >= 0
  <2>1. Lost >= 0
    BY DEF Frames
  <2> QED
    BY <1>5, <1>6, <2>1
<1>8. ASSUME n # 0
      PROVE  \E j \in 0 .. Len(c'.media) :
                 Suffix(c'.media, c'.streamID, j) /\ Missing(j)' \in 0 .. Lost'
  <2>1. PICK k \in 0 .. m : Suffix(c.media, n, k) /\ Missing(k) \in 0 .. Lost
    BY <1>8 DEF Frames
  <2>2. /\ Missing(k) = c.sequence - w - k - S
        /\ Missing(k)' = c.sequence - w - k - Cardinality(Sending)'
    BY <1>1 DEF Missing
  <2>3. w \in Int /\ k \in Int
    BY <1>8, <2>1, FrameNumbers
  <2> HIDE DEF S, w, counted
  <2>4. Missing(k)' = Missing(k) \/ (~counted /\ Missing(k)' = Missing(k) + 1)
    <3>1. CASE Cardinality(Sending)' = S
      BY <2>2, <3>1
    <3>2. CASE ~counted /\ Cardinality(Sending)' = S - 1
      <4>1. Missing(k)' = c.sequence - w - k - (S - 1)
        BY <2>2, <3>2
      <4>2. c.sequence \in Int /\ w \in Int /\ k \in Int /\ S \in Int
        BY <1>5, <2>3
      <4>3. c.sequence - w - k - (S - 1) = (c.sequence - w - k - S) + 1
        BY <4>2, Sums
      <4> QED
        BY <2>2, <3>2, <4>1, <4>3
    <3> QED
      BY <1>4, <3>1, <3>2
  <2>5. Missing(k)' \in 0 .. Lost'
    BY <1>5, <1>6, <2>1, <2>4
  <2> QED
    BY <1>1, <2>1, <2>5
<1>9. \A q \in Runs : pc'[q] = "sending" =>
           local.frame[q] \in Streams /\ local.frame[q] <= n
  BY <1>2 DEF Frames
<1> QED
  BY <1>1, <1>7, <1>8, <1>9 DEF Frames

\* A new stream starts with no frames, whatever is left of the earlier ones.
LEMMA GrantFrames ==
    ASSUME Types, Calls, Frames, RequestGranted
    PROVE  Frames'
<1> DEFINE n == c.streamID
           m == Len(c.media)
<1>1. /\ pc["request"] = "calling"
      /\ c'.streamID = local.asked /\ c'.sequence = 0 /\ c'.accepted = c.accepted
      /\ c'.sent = c.sent /\ c'.media = c.media
      /\ local' = local /\ server' = server
  BY DEF RequestGranted, Update, Step, Types, Shape
<1>2. local.asked = n + 1 /\ local.asked \in Streams
  BY <1>1 DEF Calls
<1>3. \A r \in Runs : pc'[r] = pc[r]
  BY ProcsType DEF RequestGranted, Update, Step, Types, Places
<1>4. /\ n \in Nat /\ m \in Nat /\ c.accepted \in Nat /\ Lost \in Int
      /\ \A i \in 1 .. m : c.media[i] \in Nat
  <2>1. \A i \in 1 .. m : c.media[i] \in Streams
    BY FrameNumbers, ElementOfSeq
  <2> QED
    BY <2>1, FrameNumbers
<1>5. /\ \A i \in 1 .. m : c.media[i] <= n
      /\ \A r \in Runs : pc[r] = "sending" =>
            local.frame[r] \in Streams /\ local.frame[r] <= n
      /\ \A j \in Streams : j > n => server.written[j] = 0
      /\ Lost >= 0
  BY DEF Frames
<1>6. \A x \in Nat : x <= n => x <= n + 1 /\ x # n + 1
  <2> HIDE DEF n
  <2> QED
    BY <1>4
<1>7. Taken' = Taken
  BY <1>3 DEF Taken
<1>8. Lost' = Lost
  BY <1>1, <1>7 DEF Lost
<1>9. Cardinality(Sending') = 0
  <2>1. \A r \in Runs : pc[r] = "sending" => local.frame[r] # n + 1
    BY <1>5, <1>6, FrameNumbers
  <2>2. Sending' = {}
    BY <1>1, <1>2, <1>3, <2>1 DEF Sending
  <2> QED
    BY <2>2, FS_EmptySet
<1>10. server.written[n + 1] = 0
  <2>1. n + 1 > n
    <3> HIDE DEF n
    <3> QED
      BY <1>4
  <2> QED
    BY <1>2, <1>5, <2>1
<1>11. Missing(0)' = 0
  <2>1. Missing(0)' = 0 - 0 - 0 - 0
    BY <1>1, <1>2, <1>9, <1>10 DEF Missing
  <2> QED
    BY <2>1
<1>12. Suffix(c.media, n + 1, 0)
  <2>1. \A i \in 1 .. m : c.media[i] # n + 1
    BY <1>4, <1>5, <1>6
  <2>2. \A i \in 1 .. m : ~(i > m - 0)
    <3> HIDE DEF m
    <3> QED
      BY <1>4
  <2> QED
    BY <2>1, <2>2 DEF Suffix
<1>13. \E k \in 0 .. Len(c'.media) : Suffix(c'.media, c'.streamID, k) /\ Missing(k)' \in 0 .. Lost'
  <2>1. 0 \in 0 .. Len(c'.media) /\ 0 \in 0 .. Lost'
    BY <1>1, <1>4, <1>5, <1>8
  <2> QED
    BY <1>1, <1>2, <1>11, <1>12, <2>1
<1>14. \A i \in 1 .. Len(c'.media) : c'.media[i] <= c'.streamID
  BY <1>1, <1>2, <1>4, <1>5, <1>6
<1>15. \A r \in Runs : pc'[r] = "sending" =>
           local'.frame[r] \in Streams /\ local'.frame[r] <= c'.streamID
  BY <1>1, <1>2, <1>3, <1>5, <1>6, FrameNumbers
<1>16. \A j \in Streams : j > c'.streamID => server'.written[j] = 0
  <2>1. \A j \in Streams : j > n + 1 => j > n
    <3>1. \A j \in Streams : j \in Nat
      BY FrameNumbers
    <3> HIDE DEF n
    <3> QED
      BY <1>4, <3>1
  <2> QED
    BY <1>1, <1>2, <1>5, <2>1
<1>17. c'.sequence <= c'.accepted /\ Lost' >= 0
  BY <1>1, <1>4, <1>5, <1>8
<1> QED
  BY <1>13, <1>14, <1>15, <1>16, <1>17 DEF Frames

\* Every step keeps the account of the frames.
LEMMA NextFrames == Types /\ Calls /\ Frames /\ [Next]_vars => Frames'
<1> SUFFICES ASSUME Types, Calls, Frames, [Next]_vars PROVE Frames'
  OBVIOUS
<1> USE ProcsType DEF Update, Goto, Step, Fail, Abort, Publish, BadReply, Return
<1>0. Shape /\ Places
  BY DEF Types
<1>1. CASE EnqueueMedia
  BY <1>1, EnqueueFrames
<1>2. CASE RequestGranted
  BY <1>2, GrantFrames
<1>3. ASSUME NEW r \in Runs, RunTake(r) \/ RunSend(r) \/ RunCount(r) \/ Fail(r, "sending")
      PROVE  Frames'
  <2> HIDE DEF Fail
  <2> QED
    BY <1>3, TakeFrames, SendFrames, CountFrames
<1>4. ASSUME NEW r \in Runs, RunStop(r) \/ Abort(r) \/ RunSignal(r) PROVE Frames'
  <2>1. /\ c'.streamID = c.streamID /\ c'.sequence = c.sequence /\ c'.accepted = c.accepted
        /\ c'.sent = c.sent /\ c'.media = c.media
        /\ local' = local /\ server' = server
    BY <1>0, <1>4 DEF RunStop, RunSignal, Shape
  <2>2. /\ pc[r] \in {"idle", "abort", "signal"} /\ pc'[r] \in {"off", "idle"}
        /\ \A q \in Runs \ {r} : pc'[q] = pc[q]
    BY <1>0, <1>4 DEF RunStop, RunSignal, Places
  <2> QED
    BY <2>1, <2>2, FramesUnchanged
<1>5. CASE \/ ConnectBegin \/ RequestBegin \/ EndBegin \/ CloseBegin \/ CloseAgain \/ TakeEvent
           \/ ServerGrants \/ WaitCancelled \/ ReaderEvent \/ ReaderDisconnect \/ ReaderFails
           \/ ReaderStop \/ (\E n \in Streams : ReaderRevoke(n))
  <2>1. /\ c'.streamID = c.streamID /\ c'.sequence = c.sequence /\ c'.accepted = c.accepted
        /\ c'.sent = c.sent /\ c'.media = c.media
        /\ local'.frame = local.frame /\ server'.written = server.written
    BY <1>0, <1>5 DEF ConnectBegin, RequestBegin, EndBegin, CloseBegin, CloseAgain, TakeEvent,
       ServerGrants, WaitCancelled, ReaderEvent, ReaderDisconnect, ReaderFails, ReaderStop,
       ReaderRevoke, Closed, Shape
  <2>2. \A r \in Runs : pc'[r] = pc[r]
    BY <1>0, <1>5 DEF ConnectBegin, RequestBegin, EndBegin, CloseBegin, CloseAgain, TakeEvent,
       ServerGrants, WaitCancelled, ReaderEvent, ReaderDisconnect, ReaderFails, ReaderStop,
       ReaderRevoke, Places
  <2> QED
    BY <2>1, <2>2, FramesUnchanged
<1>6. CASE ConnectStep \/ CloseStep \/ ReaderStep
  <2>1. /\ c'.streamID = c.streamID /\ c'.sequence = c.sequence /\ c'.accepted = c.accepted
        /\ c'.sent = c.sent /\ c'.media = c.media
        /\ local' = local /\ server' = server
    BY <1>0, <1>6 DEF ConnectStep, ConnectSent, ConnectDone, ConnectLeave, CloseStep,
       CloseWaited, CloseDisconnected, CloseSender, CloseDone, ReaderStep, RemoteBegin, Closed,
       Shape
  <2>2. \A r \in Runs : pc'[r] = pc[r] \/ (pc[r] = "off" /\ pc'[r] = "idle")
    BY <1>0, <1>6 DEF ConnectStep, ConnectSent, ConnectDone, ConnectLeave, CloseStep,
       CloseWaited, CloseDisconnected, CloseSender, CloseDone, ReaderStep, RemoteBegin, Places
  <2> QED
    BY <2>1, <2>2, FramesUnchanged
<1>7. CASE \/ RequestLeave \/ BadReply("request", "calling") \/ Abort("request")
           \/ EndStep \/ UNCHANGED vars
  <2>1. /\ c'.streamID = c.streamID /\ c'.sequence = c.sequence /\ c'.accepted = c.accepted
        /\ c'.sent = c.sent /\ c'.media = c.media
        /\ local'.frame = local.frame /\ server'.written = server.written
    BY <1>0, <1>7 DEF RequestLeave, EndStep, WaitMedia, WaitProgress, WaitDone, EndAcquire,
       EndWrite, EndLeave, vars, Shape
  <2>2. \A r \in Runs : pc'[r] = pc[r]
    BY <1>0, <1>7 DEF RequestLeave, EndStep, WaitMedia, WaitProgress, WaitDone, EndAcquire,
       EndWrite, EndLeave, vars, Places
  <2> QED
    BY <2>1, <2>2, FramesUnchanged
<1> HIDE DEF Fail, Abort, BadReply
<1> QED
  BY <1>1, <1>2, <1>3, <1>4, <1>5, <1>6, <1>7 DEF Next, Environment, RequestStep, RunStep

-----------------------------------------------------------------------------
(* What EndStream knows.                                                   *)

\* Steps that leave EndStream, its stream and the counts alone.
LEMMA WaitingUnchanged ==
    ASSUME Types, Waiting,
           c'.streamID = c.streamID, c'.sequence = c.sequence, c'.accepted = c.accepted,
           c'.sent = c.sent, local'.stream = local.stream, local'.sequence = local.sequence,
           local'.target = local.target, pc'["end"] = pc["end"],
           sender.closed => sender'.closed
    PROVE  Waiting'
  BY DEF Waiting

\* While EndStream is under way no stream is granted and no frame accepted,
\* and it goes on to STREAM_END only when all frames are sent or the sender
\* is closed.
LEMMA NextWaiting == Types /\ Calls /\ Closing /\ Waiting /\ [Next]_vars => Waiting'
<1> SUFFICES ASSUME Types, Calls, Closing, Waiting, [Next]_vars PROVE Waiting'
  OBVIOUS
<1> USE ProcsType DEF Update, Goto, Step, Fail, Abort, Publish, BadReply, Return
<1>0. Shape /\ Places /\ c.sent \in Nat /\ local.target \in Nat
  BY DEF Types, Numbers
<1>1. CASE EnqueueMedia \/ RequestGranted
  <2>1. pc["end"] = "idle" /\ pc'["end"] = "idle"
    BY <1>0, <1>1 DEF EnqueueMedia, RequestGranted, Calls, Places
  <2> QED
    BY <2>1 DEF Waiting
<1>2. CASE EndBegin
  <2>1. /\ local'.stream = c.streamID /\ local'.sequence = c.sequence
        /\ local'.target = c.accepted /\ pc'["end"] = "wait"
        /\ c'.streamID = c.streamID /\ c'.sequence = c.sequence /\ c'.accepted = c.accepted
        /\ c.stream
    BY <1>0, <1>2 DEF EndBegin, Shape, Flags, Places
  <2> QED
    BY <2>1 DEF Waiting, Calls
<1>3. CASE EndLeave
  <2>1. pc'["end"] = "idle"
    BY <1>0, <1>3 DEF EndLeave, Places
  <2> QED
    BY <2>1 DEF Waiting
<1>4. CASE WaitMedia
  BY <1>0, <1>4, WaitMediaMoves DEF Waiting, Places
<1>5. CASE WaitDone
  <2>1. c' = c /\ local' = local /\ sender' = sender /\ pc["end"] = "blocked" /\ c.done
    BY <1>5 DEF WaitDone
  <2>2. pc'["end"] = IF c.terminal THEN "leave" ELSE "acquire"
    BY <1>0, <1>5 DEF WaitDone, Places
  <2> QED
    BY <2>1, <2>2 DEF Waiting, Closing
<1>6. CASE \/ WaitCancelled \/ WaitProgress \/ EndAcquire \/ EndWrite
           \/ BadReply("end", "awaiting") \/ Abort("end")
  <2>1. /\ c'.streamID = c.streamID /\ c'.sequence = c.sequence /\ c'.accepted = c.accepted
        /\ c'.sent = c.sent /\ local' = local
        /\ sender'.closed \/ sender' = sender
    BY <1>0, <1>6 DEF WaitCancelled, WaitProgress, EndAcquire, EndWrite, Shape
  <2>2. /\ pc["end"] # "idle"
        /\ pc'["end"] \in {"acquire", "calling"} => pc["end"] \in {"acquire", "calling"}
    BY <1>0, <1>6 DEF WaitCancelled, WaitProgress, EndAcquire, EndWrite, Places
  <2> QED
    BY <2>1, <2>2 DEF Waiting
<1>7. CASE \/ ConnectBegin \/ RequestBegin \/ CloseBegin \/ CloseAgain \/ TakeEvent
           \/ ServerGrants \/ ReaderEvent \/ ReaderDisconnect \/ ReaderFails
           \/ ReaderStop \/ (\E n \in Streams : ReaderRevoke(n))
  <2>1. /\ c'.streamID = c.streamID /\ c'.sequence = c.sequence /\ c'.accepted = c.accepted
        /\ c'.sent = c.sent /\ local'.stream = local.stream
        /\ local'.sequence = local.sequence /\ local'.target = local.target
        /\ sender' = sender
    BY <1>0, <1>7 DEF ConnectBegin, RequestBegin, CloseBegin, CloseAgain, TakeEvent,
       ServerGrants, ReaderEvent, ReaderDisconnect, ReaderFails, ReaderStop,
       ReaderRevoke, Closed, Shape
  <2>2. pc'["end"] = pc["end"]
    BY <1>0, <1>7 DEF ConnectBegin, RequestBegin, CloseBegin, CloseAgain, TakeEvent,
       ServerGrants, ReaderEvent, ReaderDisconnect, ReaderFails, ReaderStop,
       ReaderRevoke, Places
  <2> QED
    BY <2>1, <2>2, WaitingUnchanged
<1>8. CASE \/ ConnectStep \/ CloseStep \/ ReaderStep \/ RequestLeave
           \/ BadReply("request", "calling") \/ Abort("request") \/ UNCHANGED vars
  <2>1. /\ c'.streamID = c.streamID /\ c'.sequence = c.sequence /\ c'.accepted = c.accepted
        /\ c'.sent = c.sent /\ local'.stream = local.stream
        /\ local'.sequence = local.sequence /\ local'.target = local.target
        /\ sender.closed => sender'.closed
    BY <1>0, <1>8 DEF ConnectStep, ConnectSent, ConnectDone, ConnectLeave, CloseStep,
       CloseWaited, CloseDisconnected, CloseSender, CloseDone, ReaderStep, RemoteBegin, Closed,
       RequestLeave, vars, Shape
  <2>2. pc'["end"] = pc["end"]
    BY <1>0, <1>8 DEF ConnectStep, ConnectSent, ConnectDone, ConnectLeave, CloseStep,
       CloseWaited, CloseDisconnected, CloseSender, CloseDone, ReaderStep, RemoteBegin,
       RequestLeave, vars, Places
  <2> QED
    BY <2>1, <2>2, WaitingUnchanged
<1>9. ASSUME NEW r \in Runs, RunStep(r) PROVE Waiting'
  <2>1. /\ c'.streamID = c.streamID /\ c'.sequence = c.sequence /\ c'.accepted = c.accepted
        /\ c'.sent \in {c.sent, c.sent + 1} /\ local'.stream = local.stream
        /\ local'.sequence = local.sequence /\ local'.target = local.target
    BY <1>0, <1>9 DEF RunStep, RunTake, RunStop, RunSend, RunCount, RunSignal, Shape
  <2>2. pc'["end"] = pc["end"]
    BY <1>0, <1>9 DEF RunStep, RunTake, RunStop, RunSend, RunCount, RunSignal, Places
  <2>3. sender.closed => sender'.closed
    BY <1>0, <1>9 DEF RunStep, RunTake, RunStop, RunSend, RunCount, RunSignal, Shape
  <2>4. c.sent >= local.target => c'.sent >= local.target
    BY <1>0, <2>1
  <2> QED
    BY <2>1, <2>2, <2>3, <2>4 DEF Waiting
<1> HIDE DEF Fail, Abort, BadReply
<1> QED
  BY <1>1, <1>2, <1>3, <1>4, <1>5, <1>6, <1>7, <1>8, <1>9
     DEF Next, Environment, RequestStep, EndStep

-----------------------------------------------------------------------------
(* Theorems.                                                               *)

\* Inv holds throughout, with or without the fairness of Spec.
LEMMA Invariance == Safety => []Inv
<1>1. Init => Inv
  BY InitTypes, InitFrames DEF Inv
<1>2. Inv /\ [Next]_vars => Inv'
  BY NextTypes, NextClosing, NextFrames, NextWaiting DEF Inv
<1> QED
  BY <1>1, <1>2, PTL DEF Safety

\* No more frames are counted as sent than were accepted.
LEMMA SentBounded ==
    ASSUME Types, Frames
    PROVE  /\ c.sent <= c.accepted
           /\ c.sent = c.accepted => Lost = 0 /\ Len(c.media) = 0 /\ Taken = {}
<1> DEFINE m == Len(c.media)
           T == Cardinality(Taken)
<1>1. /\ c.accepted \in Int /\ c.sent \in Int /\ m \in Nat /\ T \in Nat
      /\ Lost = c.accepted - c.sent - m - T /\ Lost >= 0
  BY FrameNumbers, HandsCounted DEF Lost, Frames
<1> HIDE DEF m, T
<1>2. \A a, b \in Int, x, y \in Nat :
         a - b - x - y >= 0 => b <= a /\ (b = a => a - b - x - y = 0 /\ x = 0 /\ y = 0)
  OBVIOUS
<1>3. c.sent <= c.accepted /\ (c.sent = c.accepted => Lost = 0 /\ m = 0 /\ T = 0)
  BY <1>1, <1>2
<1>4. T = 0 => Taken = {}
  BY HandsCounted, FS_EmptySet DEF T
<1> QED
  BY <1>3, <1>4 DEF m

\* TypeOK is part of Inv, but for the bound of the frames sent.
LEMMA TypesHold == Inv => TypeOK
<1> SUFFICES ASSUME Inv PROVE TypeOK
  OBVIOUS
<1>1. Types /\ Frames /\ Closing
  BY DEF Inv
<1>2. /\ c.sequence \in Nat /\ c.accepted \in 0 .. MaxFrames /\ c.sent \in Nat
      /\ c.sequence <= c.accepted /\ c.sent <= c.accepted
  BY <1>1, SentBounded DEF Types, Numbers, Frames
<1>3. {c.sequence, c.accepted, c.sent} \subseteq 0 .. MaxFrames
  <2>1. MaxFrames \in Nat
    BY ClientAssumption
  <2> QED
    BY <1>2, <2>1
<1>4. Marks /\ Control /\ Numbers /\ c.closes \in 0 .. 1
  BY <1>1 DEF Types, Closing
<1> QED
  BY <1>3, <1>4, Zenon DEF TypeOK, Marks, Flags, Control, Numbers

\* Close and remoteClose share one close: closeDone is closed once, and a
\* Close that waits for it waits for a remoteClose on its way.
THEOREM SharedClose == Spec => []CloseIsShared
<1>1. Inv => CloseIsShared
  <2> SUFFICES ASSUME Inv PROVE CloseIsShared
    OBVIOUS
  <2>1. Closing
    BY DEF Inv
  <2>2. pc["close"] = "waiting" => c.closes > 0 \/ pc["reader"] \in {"shut", "finish"}
    BY <2>1 DEF Closing, CloserClose, CloserReader
  <2> QED
    BY <2>2, TypesHold DEF CloseIsShared
<1> QED
  BY <1>1, Invariance, PTL DEF Spec

\* When EndStream writes STREAM_END every frame of its stream is written.
LEMMA AllWritten ==
    ASSUME Inv, pc["end"] = "calling", ~sender.closed
    PROVE  server.written[local.stream] = local.sequence
<1>1. Types /\ Frames /\ Waiting
  BY DEF Inv
<1>2. /\ local.stream = c.streamID /\ local.stream \in Streams
      /\ local.sequence = c.sequence /\ local.target = c.accepted
      /\ c.sent >= local.target
  BY <1>1 DEF Waiting
<1>3. c.sent = c.accepted
  <2>1. c.sent \in Nat /\ c.accepted \in Nat /\ c.sent <= c.accepted
    BY <1>1, SentBounded, FrameNumbers
  <2> QED
    BY <1>2, <2>1
<1>4. Lost = 0 /\ Len(c.media) = 0 /\ Taken = {}
  BY <1>1, <1>3, SentBounded
<1>5. Cardinality(Sending) = 0
  <2>1. Sending = {}
    BY <1>4 DEF Sending, Taken
  <2> QED
    BY <2>1, FS_EmptySet
<1>6. /\ c.streamID \in Streams /\ c.streamID # 0
      /\ server.written[c.streamID] \in Nat /\ c.sequence \in Nat
  BY <1>1, <1>2, FrameNumbers
<1>7. PICK k \in 0 .. 0 : Missing(k) \in 0 .. 0
  BY <1>1, <1>4, <1>6 DEF Frames
<1>8. c.sequence - server.written[c.streamID] - 0 - 0 = 0
  <2>1. k = 0 /\ Missing(k) = 0
    BY <1>7
  <2> QED
    BY <1>5, <2>1 DEF Missing
<1> QED
  BY <1>2, <1>6, <1>8

\* STREAM_END is written after every frame of its stream, for any number of
\* run goroutines and whatever frames of revoked streams are in the queue.
THEOREM EndAfterMedia == Spec => EndFollowsMedia
<1> DEFINE Follows == \A n \in server'.ended \ server.ended :
                          n = local.stream /\ server.written[n] = local.sequence
<1>1. Inv /\ [Next]_vars => [Follows]_vars
  <2> SUFFICES ASSUME Inv, [Next]_vars, ~(UNCHANGED vars) PROVE Follows
    OBVIOUS
  <2> USE DEF Update, Goto, Fail, Abort, Publish, BadReply
  <2>0. Shape
    BY DEF Inv, Types
  <2>1. CASE EndWrite
    <3>1. /\ pc["end"] = "calling" /\ ~sender.closed
          /\ server'.ended = server.ended \cup {local.stream}
      BY <2>0, <2>1 DEF EndWrite, Step, Shape
    <3> QED
      BY <3>1, AllWritten
  <2>2. CASE Environment
    <3>1. server'.ended = server.ended
      BY <2>0, <2>2 DEF Environment, ConnectBegin, RequestBegin, EnqueueMedia, EndBegin,
         CloseBegin, CloseAgain, TakeEvent, ServerGrants, WaitCancelled, ReaderEvent,
         ReaderDisconnect, ReaderFails, ReaderStop, ReaderRevoke, Shape
    <3> QED
      BY <3>1
  <2>3. CASE ConnectStep \/ RequestStep \/ CloseStep \/ ReaderStep
    <3>1. server' = server
      BY <2>3 DEF ConnectStep, ConnectSent, ConnectDone, ConnectLeave, RequestStep,
         RequestGranted, RequestLeave, CloseStep, CloseWaited, CloseDisconnected, CloseSender,
         CloseDone, ReaderStep, RemoteBegin
    <3> QED
      BY <3>1
  <2>4. CASE EndStep /\ ~EndWrite
    <3>1. server' = server
      BY <2>4 DEF EndStep, WaitMedia, WaitProgress, WaitDone, EndAcquire, EndLeave
    <3> QED
      BY <3>1
  <2>5. ASSUME NEW r \in Runs, RunStep(r) PROVE Follows
    <3>1. server'.ended = server.ended
      BY <2>0, <2>5 DEF RunStep, RunTake, RunStop, RunSend, RunCount, RunSignal, Shape
    <3> QED
      BY <3>1
  <2> HIDE DEF Follows
  <2> QED
    BY <2>1, <2>2, <2>3, <2>4, <2>5 DEF Next
<1> QED
  BY <1>1, Invariance, PTL DEF Spec, Safety, EndFollowsMedia
=============================================================================
