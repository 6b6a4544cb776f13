----------------------------- MODULE ClientQueue -----------------------------
(***************************************************************************)
(* QueueClient of pkg/client/client.go: an application calls Connect,      *)
(* RequestStream, SendAudio, EndStream and Close from goroutines of its    *)
(* own while run sends the queued media, the UDP adapter delivers events   *)
(* and revokes, and any of them may fail the client.  A step is one region *)
(* under c.mu, one channel operation, or one call of the sender.           *)
(*                                                                         *)
(* Of the sender (udpSender) the module keeps what the queue depends on:   *)
(* nothing is written after its Close, a call returns, and its replies and *)
(* the server's notifications are handled by another goroutine.  Payloads, *)
(* timestamps and the text of errors are left out; a queued frame is the   *)
(* stream it belongs to.                                                   *)
(***************************************************************************)
EXTENDS Integers, Sequences, FiniteSets

CONSTANTS
    Runs,             \* slots for goroutines executing run
    MaxStreams,       \* bound on the streams requested
    MaxFrames,        \* bound on the frames accepted
    MediaCapacity,    \* options.MediaSendQueueFrames
    EventCapacity,    \* options.ApplicationQueueEvents
    ControlCapacity   \* options.ControlSendQueuePackets

ASSUME ClientAssumption ==
    /\ {MaxStreams, MaxFrames} \subseteq Nat
    /\ {MediaCapacity, EventCapacity, ControlCapacity} \subseteq Nat \ {0}
    /\ IsFiniteSet(Runs) /\ Runs \cap {"connect", "request", "end", "close", "reader"} = {}

VARIABLES
    c,        \* the QueueClient: its fields and what its channels hold
    local,    \* variables of requestStream and EndStream, a run's frame
    pc,       \* where each goroutine is
    sender,   \* session: the handshake is over; closed: the socket is
    server    \* history: streams granted, revoked and ended, frames written

vars == <<c, local, pc, sender, server>>

Streams == 1 .. MaxStreams
Procs == {"connect", "request", "end", "close", "reader"} \cup Runs

Init ==
    /\ c = [connected |-> FALSE, connecting |-> FALSE, stream |-> FALSE,
            requesting |-> FALSE, ending |-> FALSE, streamID |-> 0, sequence |-> 0,
            accepted |-> 0, sent |-> 0, terminal |-> FALSE, closeCalled |-> FALSE,
            media |-> <<>>, progress |-> FALSE, control |-> {}, events |-> 0,
            done |-> FALSE, closes |-> 0]
    /\ local = [asked |-> 0, stream |-> 0, sequence |-> 0, target |-> 0,
                frame |-> [r \in Runs |-> 0]]
    /\ pc = [p \in Procs |-> IF p \in Runs THEN "off" ELSE "idle"]
    /\ sender = [session |-> FALSE, closed |-> FALSE]
    /\ server = [granted |-> {}, revoked |-> {}, ended |-> {},
                 written |-> [n \in Streams |-> 0]]

Step(p, from, to) == pc[p] = from /\ pc' = [pc EXCEPT ![p] = to]

\* A step that changes nothing else, and one that changes the client only.
Goto(p, from, to) == Step(p, from, to) /\ UNCHANGED <<c, local, sender, server>>
Update(p, from, to, new) ==
    Step(p, from, to) /\ c' = new /\ UNCHANGED <<local, sender, server>>

-----------------------------------------------------------------------------
(* fail and what leads to it.                                              *)

\* Where fail and publish return to.
Return(p) ==
    CASE p \in {"connect", "request", "end"} -> "leave"
      [] p = "close" -> "shut"
      [] p = "reader" -> "idle"
      [] p \in Runs -> "off"

\* The region under the lock and close(done): the latter only lets others
\* go on, so nothing is lost when it follows at once.
Fail(p, from) ==
    Update(p, from, "abort",
           [c EXCEPT !.terminal = TRUE, !.connected = FALSE, !.stream = FALSE,
                     !.done = TRUE])

\* fail closes the sender last.
Abort(p) ==
    /\ Step(p, "abort", Return(p))
    /\ sender' = [sender EXCEPT !.closed = TRUE]
    /\ UNCHANGED <<c, local, server>>

\* A required event: without room the client fails.
Publish(p, from) ==
    \/ /\ c.events < EventCapacity
       /\ Update(p, from, Return(p), [c EXCEPT !.events = @ + 1])
    \/ c.events = EventCapacity /\ Fail(p, from)

\* A reply of the server that is an error is published before the call
\* returns; too many requests inside the sender fail the client.
BadReply(p, from) == Publish(p, from) \/ Fail(p, from)

-----------------------------------------------------------------------------
(* Connect.                                                                *)

ConnectBegin ==
    /\ ~c.connected /\ ~c.connecting
    /\ Update("connect", "idle", "calling", [c EXCEPT !.connecting = TRUE])

\* The handshake, or a keepalive if there is a session already.
ConnectSent ==
    /\ Step("connect", "calling", "sent")
    /\ ~sender.closed
    /\ sender' = [sender EXCEPT !.session = TRUE]
    /\ UNCHANGED <<c, local, server>>

\* connected = true and go c.run(), then the event.
ConnectDone ==
    /\ pc["connect"] = "sent"
    /\ c' = [c EXCEPT !.connected = TRUE]
    /\ \E r \in Runs : /\ pc[r] = "off"
                       /\ pc' = [pc EXCEPT !["connect"] = "publish", ![r] = "idle"]
    /\ UNCHANGED <<local, sender, server>>

\* Connect returns, with an error of the sender or from publish.
ConnectLeave ==
    \E from \in {"calling", "leave"} :
        Update("connect", from, "idle", [c EXCEPT !.connecting = FALSE])

ConnectStep ==
    \/ ConnectSent \/ ConnectDone
    \/ Publish("connect", "publish") \/ Abort("connect") \/ ConnectLeave

-----------------------------------------------------------------------------
(* RequestStream, SendAudio and SendData.                                  *)

\* The checks and acquireControl.  EndStream gives its place in c.control
\* back before it resets ending, so there is one.
RequestBegin ==
    /\ c.connected
    /\ ~(c.stream \/ c.requesting \/ c.ending)
    /\ c.streamID < MaxStreams
    /\ Step("request", "idle", "calling")
    /\ c' = [c EXCEPT !.requesting = TRUE, !.control = @ \cup {"request"}]
    /\ local' = [local EXCEPT !.asked = c.streamID + 1]
    /\ UNCHANGED <<sender, server>>

\* The server grants the floor; its reply may be lost and repeated.
ServerGrants ==
    /\ pc["request"] = "calling" /\ ~sender.closed
    /\ server' = [server EXCEPT !.granted = @ \cup {local.asked}]
    /\ UNCHANGED <<c, local, pc, sender>>

\* The grant arrives, in time or much later, and the stream is active.
RequestGranted ==
    /\ local.asked \in server.granted
    /\ Update("request", "calling", "leave",
              [c EXCEPT !.streamID = local.asked, !.sequence = 0, !.stream = TRUE])

\* The deferred calls: releaseControl, then requesting = false.
RequestLeave ==
    /\ \E from \in {"calling", "leave"} : Step("request", from, "idle")
    /\ c' = [c EXCEPT !.requesting = FALSE, !.control = @ \ {"request"}]
    /\ local' = [local EXCEPT !.asked = 0]
    /\ UNCHANGED <<sender, server>>

RequestStep ==
    \/ RequestGranted \/ BadReply("request", "calling")
    \/ Abort("request") \/ RequestLeave

EnqueueMedia ==
    /\ c.stream
    /\ c.accepted < MaxFrames /\ Len(c.media) < MediaCapacity
    /\ c' = [c EXCEPT !.media = Append(@, c.streamID), !.sequence = @ + 1,
                      !.accepted = @ + 1]
    /\ UNCHANGED <<local, pc, sender, server>>

-----------------------------------------------------------------------------
(* EndStream with waitMedia.                                               *)

EndBegin ==
    /\ c.stream
    /\ Step("end", "idle", "wait")
    /\ c' = [c EXCEPT !.stream = FALSE, !.ending = TRUE]
    /\ local' = [local EXCEPT !.stream = c.streamID, !.sequence = c.sequence,
                              !.target = c.accepted]
    /\ UNCHANGED <<sender, server>>

\* Under the lock: has everything been sent, and has the client failed?
WaitMedia ==
    Goto("end", "wait",
         CASE c.sent >= local.target -> "acquire"
           [] c.sent < local.target /\ c.terminal -> "leave"
           [] c.sent < local.target /\ ~c.terminal -> "blocked")

WaitProgress ==
    c.progress /\ Update("end", "blocked", "wait", [c EXCEPT !.progress = FALSE])

\* After done waitMedia returns c.Err(), which is nil when the client was
\* closed without a failure: EndStream then goes on.
WaitDone == c.done /\ Goto("end", "blocked", IF c.terminal THEN "leave" ELSE "acquire")

WaitCancelled == Goto("end", "blocked", "leave")

\* RequestStream may not have given its place back yet.
EndAcquire ==
    \/ /\ Cardinality(c.control) < ControlCapacity
       /\ Update("end", "acquire", "calling", [c EXCEPT !.control = @ \cup {"end"}])
    \/ Cardinality(c.control) = ControlCapacity /\ Fail("end", "acquire")

\* EndFloor: STREAM_END is written, and its reply awaited.
EndWrite ==
    /\ ~sender.closed
    /\ Step("end", "calling", "awaiting")
    /\ server' = [server EXCEPT !.ended = @ \cup {local.stream}]
    /\ UNCHANGED <<c, local, sender>>

\* EndStream returns: the reply has come or nothing was or will be sent.
EndLeave ==
    /\ \E from \in {"calling", "awaiting", "leave"} : Step("end", from, "idle")
    /\ c' = [c EXCEPT !.ending = FALSE, !.control = @ \ {"end"}]
    /\ local' = [local EXCEPT !.stream = 0, !.sequence = 0, !.target = 0]
    /\ UNCHANGED <<sender, server>>

EndStep ==
    \/ WaitMedia \/ WaitProgress \/ WaitDone
    \/ EndAcquire \/ EndWrite
    \/ BadReply("end", "awaiting") \/ Abort("end") \/ EndLeave

-----------------------------------------------------------------------------
(* run.                                                                    *)

RunTake(r) ==
    /\ c.media # <<>>
    /\ Step(r, "idle", "sending")
    /\ local' = [local EXCEPT !.frame[r] = Head(c.media)]
    /\ c' = [c EXCEPT !.media = Tail(@)]
    /\ UNCHANGED <<sender, server>>

RunStop(r) == c.done /\ Goto(r, "idle", "off")

RunSend(r) ==
    /\ ~sender.closed
    /\ Step(r, "sending", "count")
    /\ server' = [server EXCEPT !.written[local.frame[r]] = @ + 1]
    /\ UNCHANGED <<c, local, sender>>

RunCount(r) == Update(r, "count", "signal", [c EXCEPT !.sent = @ + 1])

\* Mutant of RunSignal: nobody is woken.
RunSignalNobody(r) == Goto(r, "signal", "idle")

RunSignal(r) == Update(r, "signal", "idle", [c EXCEPT !.progress = TRUE])

RunStep(r) ==
    \/ RunTake(r) \/ RunStop(r)
    \/ RunSend(r) \/ Fail(r, "sending") \/ Abort(r)
    \/ RunCount(r) \/ RunSignal(r)

-----------------------------------------------------------------------------
(* The goroutines of the UDP adapter that call back: processLoop, which    *)
(* becomes remoteClose when the server disconnects, readLoop and keepalive.*)

\* A lifecycle event of another stream, or an ERROR.
ReaderEvent == sender.session /\ Publish("reader", "idle")

\* STREAM_REVOKE for a stream of this client: acknowledged, and published
\* if it ends the local stream.
ReaderRevoke(n) ==
    /\ n \in server.granted \ server.revoked
    /\ Step("reader", "idle", IF c.stream /\ c.streamID = n THEN "publish" ELSE "idle")
    /\ c' = [c EXCEPT !.stream = @ /\ c.streamID # n]
    /\ server' = [server EXCEPT !.revoked = @ \cup {n}]
    /\ UNCHANGED <<local, sender>>

\* DISCONNECT: go remoteClose() and return.
ReaderDisconnect == sender.session /\ Goto("reader", "idle", "begin")

\* readLoop or keepalive meets an error.
ReaderFails == sender.session /\ ~sender.closed /\ Fail("reader", "idle")

ReaderStop == c.done /\ Goto("reader", "idle", "off")

-----------------------------------------------------------------------------
(* Close and remoteClose.                                                  *)

Closed == [c EXCEPT !.closeCalled = TRUE, !.connected = FALSE, !.stream = FALSE]

CloseBegin ==
    /\ ~c.closeCalled
    /\ Update("close", "idle",
              IF c.connected /\ ~c.terminal THEN "disconnecting" ELSE "shut", Closed)

\* Another Close is under way, or remoteClose: wait for closeDone.
CloseAgain == c.closeCalled /\ Goto("close", "idle", "waiting")
CloseWaited == c.closes > 0 /\ Goto("close", "waiting", "idle")

\* The transactional DISCONNECT: a response or a timeout.
CloseDisconnected == Goto("close", "disconnecting", "shut")

\* Mutant of RemoteBegin: a client that has failed already is left alone
\* once closeCalled is set.
RemoteBeginAlive ==
    Update("reader", "begin", IF c.closeCalled \/ c.terminal THEN "off" ELSE "shut",
           IF c.closeCalled THEN c ELSE Closed)

RemoteBegin ==
    Update("reader", "begin", IF c.closeCalled THEN "off" ELSE "shut",
           IF c.closeCalled THEN c ELSE Closed)

\* Mutant of CloseSender: the sender is closed after done.
CloseSenderLate(p) == Update(p, "shut", "finish", [c EXCEPT !.done = TRUE])

CloseSender(p) ==
    /\ Step(p, "shut", "finish")
    /\ sender' = [sender EXCEPT !.closed = TRUE]
    /\ UNCHANGED <<c, local, server>>

\* close(done) and close(closeDone).
CloseDone(p) ==
    Update(p, "finish", IF p = "close" THEN "idle" ELSE "off",
           [c EXCEPT !.done = TRUE, !.closes = @ + 1])

CloseStep ==
    \/ CloseWaited \/ CloseDisconnected \/ Fail("close", "disconnecting") \/ Abort("close")
    \/ CloseSender("close") \/ CloseDone("close")

ReaderStep ==
    \/ Publish("reader", "publish") \/ Abort("reader")
    \/ RemoteBegin \/ CloseSender("reader") \/ CloseDone("reader")

-----------------------------------------------------------------------------
TakeEvent ==
    /\ c.events > 0
    /\ c' = [c EXCEPT !.events = @ - 1]
    /\ UNCHANGED <<local, pc, sender, server>>

\* What the application and the network decide to do.
Environment ==
    \/ ConnectBegin \/ RequestBegin \/ EnqueueMedia \/ EndBegin
    \/ CloseBegin \/ CloseAgain \/ TakeEvent
    \/ ServerGrants \/ WaitCancelled
    \/ ReaderEvent \/ ReaderDisconnect \/ ReaderFails \/ ReaderStop
    \/ \E n \in Streams : ReaderRevoke(n)

Next ==
    \/ Environment
    \/ ConnectStep \/ RequestStep \/ EndStep \/ CloseStep \/ ReaderStep
    \/ \E r \in Runs : RunStep(r)

Safety == Init /\ [][Next]_vars

\* EndStream and run go on when they can, and a call of the sender returns:
\* its retry schedule is finite.  No context is assumed to be cancelled.
Spec ==
    /\ Safety
    /\ WF_vars(EndStep)
    /\ \A r \in Runs : WF_vars(RunStep(r))

-----------------------------------------------------------------------------
(* Properties.                                                             *)

\* The client's fields and channels have their types and bounds; closeDone
\* is never closed twice, which would panic, although Close and remoteClose
\* race for it.
TypeOK ==
    /\ \A f \in {"connected", "connecting", "stream", "requesting", "ending",
                 "terminal", "closeCalled", "progress", "done"} : c[f] \in BOOLEAN
    /\ c.streamID \in 0 .. MaxStreams
    /\ {c.sequence, c.accepted, c.sent} \subseteq 0 .. MaxFrames
    /\ c.media \in Seq(Streams) /\ Len(c.media) <= MediaCapacity
    /\ c.control \subseteq {"request", "end"} /\ Cardinality(c.control) <= ControlCapacity
    /\ c.events \in 0 .. EventCapacity
    /\ c.closes \in 0 .. 1
    /\ local.frame \in [Runs -> Streams \cup {0}]

\* STREAM_END leaves only after every frame the stream accepted has left,
\* also when the client is closed or fails while EndStream waits.
EndFollowsMedia ==
    [][\A n \in server'.ended \ server.ended :
          n = local.stream /\ server.written[n] = local.sequence]_vars

\* EndStream returns, whatever fails or closes the client while it waits
\* for its frames: no wake-up through mediaProgress or done is lost.
EndReturns == (pc["end"] # "idle") ~> (pc["end"] = "idle")

\* A Close that waits for closeDone is not left waiting: remoteClose is on
\* its way to close it, or it is closed; and it is closed once (TypeOK).
CloseIsShared ==
    /\ TypeOK
    /\ pc["close"] = "waiting" => c.closes > 0 \/ pc["reader"] \in {"shut", "finish"}

\* A stream whose revoke the client has acknowledged is not active.
RevokedIsInactive == c.stream => c.streamID \notin server.revoked
=============================================================================
