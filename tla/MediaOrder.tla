----------------------------- MODULE MediaOrder -----------------------------
(***************************************************************************)
(* One stream through the engine over a network that loses, duplicates and *)
(* reorders datagrams.  The owner numbers its frames 0, 1, 2, ... without  *)
(* bound; a datagram carries the number modulo the sequence space (2^32 in *)
(* the code), and the engine sees nothing else.  The module asks whether   *)
(* the wrapping arithmetic of Engine.Media and Engine.End recovers what    *)
(* really happened to the frames, and whether the owner's STREAM_END, a    *)
(* transaction that is retried while frames are still in flight, has one   *)
(* outcome that the owner, the cache and the engine agree on.  Its copies  *)
(* (EndFloor retries for seconds) do not outlive the cached result, which  *)
(* is kept for 30 s: Transactions has the cache's expiry.                  *)
(***************************************************************************)
EXTENDS EngineOps

CONSTANT MaxSent       \* bound on the frames of the stream

ASSUME MaxSentAssumption == MaxSent \in Nat
\* There is an owner, with an address and a stream to send.
ASSUME OwnerAssumption == Ids # {} /\ Addresses # {} /\ Streams \ {0} # {}

VARIABLES
    eng,      \* the engine, with the floor granted
    sent,     \* frames the owner has sent: numbers 0 .. sent - 1
    last,     \* history: the latest frame the engine accepted, or -1
    frames,   \* history: how many frames it accepted
    asked,    \* EndFloor has sent STREAM_END: no frame follows
    answer,   \* the cached response of that transaction, or "none"
    replies,  \* responses put on the wire
    told,     \* what EndFloor returned, or "none"
    reason    \* history: why the floor was released, or "none"

stream == <<sent, last, frames>>
ending == <<asked, answer, replies, told>>
vars == <<eng, stream, ending, reason>>

\* The header of frame i.
SequenceOf(i) == i % SeqSpace
TimestampOf(i) == IF i >= 0 /\ i % 2 = 1 /\ 1 \in Timestamps THEN 1 ELSE 0

\* The one session and the one stream of this module.
Owner == CHOOSE id \in Ids : TRUE
Address == CHOOSE address \in Addresses : TRUE
Stream == CHOOSE s \in Streams \ {0} : TRUE

Init ==
    /\ eng = RequestFloor(AddSession(NewEngine, Owner, Address, TRUE), Owner, Stream)
    /\ sent = 0 /\ last = -1 /\ frames = 0
    /\ asked = FALSE /\ answer = "none" /\ replies = {} /\ told = "none"
    /\ reason = "none"

\* The media timeout takes the floor away long before half the sequence
\* space of frames in a row is lost.
Send ==
    /\ eng.floor # NoFloor
    /\ ~asked
    /\ sent < MaxSent
    /\ sent - last <= Half
    /\ sent' = sent + 1
    /\ UNCHANGED <<eng, last, frames, ending, reason>>

\* A copy of frame i arrives, unless it is older than half the sequence
\* space (2^31 frames, more than a year of audio).
Deliver(i) ==
    /\ sent - i <= Half
    /\ MediaAccepted(eng, Owner, Address, Stream, SequenceOf(i))
    /\ eng' = Media(eng, Owner, SequenceOf(i), TimestampOf(i))
    /\ last' = i
    /\ frames' = frames + 1
    /\ UNCHANGED <<sent, ending, reason>>

\* EndFloor: the request and its retries are copies of one datagram.
Ask ==
    /\ ~asked
    /\ asked' = TRUE
    /\ UNCHANGED <<eng, stream, answer, replies, told, reason>>

\* The owner's STREAM_END: next sequence number, final timestamp.
Ends == EndAccepted(eng, Owner, Stream, SequenceOf(sent), TimestampOf(sent - 1))

\* Mutant of Remembered: an ERROR is not cached, a retry is applied again.
RememberedUnlessError(response) == IF response = "invalid" THEN "none" ELSE response

\* What transact caches is whatever the request was answered with when it
\* was applied, an ERROR too.
Remembered(response) == response

\* A copy of STREAM_END reaches transact, which has no result for it yet.
Undecided == asked /\ Owner \in Live(eng) /\ answer = "none"

\* handle refreshes the session of a request that was not answered with an
\* ERROR.
Accepted(e, response) == IF response = "ended" THEN Touch(e, Owner, Address) ELSE e

\* The first copy that finds room in the cache is applied: it ends the
\* stream or is refused with ERROR INVALID_STREAM.
EndStream ==
    /\ Undecided
    /\ LET response == IF Ends THEN "ended" ELSE "invalid"
       IN  /\ eng' = Accepted(IF Ends THEN Release(eng, Owner) ELSE eng, response)
           /\ answer' = Remembered(response)
           /\ replies' = replies \cup {response}
           /\ reason' = IF Ends THEN "normal" ELSE reason
    /\ UNCHANGED <<stream, asked, told>>

\* The cache is full, in all or for this session: ERROR LIMIT_EXCEEDED is
\* not cached and decides nothing, so a later copy may still be applied.
Limited ==
    /\ Undecided
    /\ replies' = replies \cup {"limit"}
    /\ UNCHANGED <<eng, stream, asked, answer, told, reason>>

\* A later copy is answered from the cache.
Replay ==
    /\ answer # "none"
    /\ Owner \in Live(eng)
    /\ eng' = Accepted(eng, answer)
    /\ replies' = replies \cup {answer}
    /\ UNCHANGED <<stream, asked, answer, told, reason>>

\* An answer to the owner cannot be queued: controlOverload closes the
\* session, and the stream with it unless the request that is left without
\* its answer was the STREAM_END that had just ended it.  transact forgets
\* that result.
Undelivered ==
    /\ Owner \in Live(eng)
    /\ eng' = Disconnect(eng, Owner)
    /\ \/ Undecided /\ Ends /\ reason' = "normal"
       \/ reason' = IF Owns(eng, Owner) THEN "owner_disconnect" ELSE reason
    /\ UNCHANGED <<stream, ending>>

\* EndFloor returns with the STREAM_END response, or after the last wait.
\* An ERROR for a STREAM_END is too large to carry the transaction ID
\* (errorResponse drops it), so it completes nothing.
Complete ==
    /\ told = "none"
    /\ "ended" \in replies
    /\ told' = "ended"
    /\ UNCHANGED <<eng, stream, asked, answer, replies, reason>>

GiveUp ==
    /\ asked
    /\ told = "none"
    /\ told' = "timeout"
    /\ UNCHANGED <<eng, stream, asked, answer, replies, reason>>

\* The client's keepalive holds the session, never the floor.
Keepalive ==
    /\ Owner \in Live(eng)
    /\ eng' = SetReady(eng, Owner)
    /\ UNCHANGED <<stream, ending, reason>>

Timeout ==
    /\ \E gone \in TickRemovals(eng) :
          /\ eng' = Tick(eng, gone)
          /\ reason' = IF TickReleases(eng, gone) THEN TickEnd(eng, gone).reason ELSE reason
    /\ eng' # eng
    /\ UNCHANGED <<stream, ending>>

Advance ==
    /\ eng' = Age(eng)
    /\ eng' # eng
    /\ UNCHANGED <<stream, ending, reason>>

Next ==
    \/ Send \/ (\E i \in 0 .. sent - 1 : Deliver(i))
    \/ Ask \/ EndStream \/ Limited \/ Replay \/ Undelivered \/ Complete \/ GiveUp
    \/ Keepalive \/ Timeout \/ Advance

\* The state owner's ticker and the clock never stop.
Fairness == WF_vars(Timeout) /\ WF_vars(Advance)

Spec == Init /\ [][Next]_vars /\ Fairness

-----------------------------------------------------------------------------
\* The engine's fields and the history stay in range.
TypeOK ==
    /\ eng \in EngineState
    /\ sent \in 0 .. MaxSent
    /\ last \in -1 .. MaxSent - 1
    /\ frames \in 0 .. MaxSent
    /\ asked \in BOOLEAN
    /\ answer \in {"none", "ended", "invalid"}
    /\ replies \subseteq {"ended", "invalid", "limit"}
    /\ told \in {"none", "ended", "timeout"}
    /\ reason \in EndReasons \cup {"none"}

\* Listeners get frames in the order the owner sent them and no frame
\* twice: late and duplicated datagrams are rejected, across the wrap too.
ForwardedInOrder == [][frames' > frames => last' > last]_vars

\* The gap counter is exactly the number of frames that were passed over,
\* and stays in range with the rest of the engine.
GapsAreLosses == TypeOK /\ eng.gaps = last + 1 - frames

\* The engine accepts the owner's STREAM_END if and only if the final frame
\* arrived; when it is lost the floor is only freed by a timeout.
EndNeedsFinalFrame == eng.floor # NoFloor => (Ends <=> last = sent - 1)

\* A STREAM_END is decided once.  However its copies interleave with late
\* frames, a full cache or queue and the inactivity timeout, the server
\* never tells one copy that the stream is invalid and another that it
\* ended; while the floor is held nothing but the want of the final frame
\* makes the stream invalid (EndNeedsFinalFrame); the owner is told "ended"
\* only for a stream that ended normally with its final frame forwarded; and
\* a stream refused as invalid never ends normally, because the cached
\* refusal outlives the late frame that would have made the request
\* acceptable.  ERROR LIMIT_EXCEEDED is no decision: it may precede either
\* of the two.
EndHasOneOutcome ==
    /\ EndNeedsFinalFrame
    /\ ~({"ended", "invalid"} \subseteq replies)
    /\ told = "ended" => reason = "normal" /\ last = sent - 1
    /\ "invalid" \in replies => reason # "normal"

\* An owner that has asked for the end of its stream does not keep the floor,
\* even when its STREAM_END is lost or refused and its keepalives go on:
\* Engine.Tick's own limits free it.
FloorIsFreed == asked ~> eng.floor = NoFloor
=============================================================================
