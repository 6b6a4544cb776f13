---------------------------- MODULE ClientSession ----------------------------
(***************************************************************************)
(* The UDP adapter of pkg/client/udp.go: the handshake, the transactional  *)
(* requests, the keepalive goroutine, and the receive state that follows   *)
(* the streams of other clients, against a server that answers each        *)
(* transaction once.  Both ends accept what WireRules lets them accept.    *)
(*                                                                         *)
(* toServer and toClient only grow: a datagram in them may arrive at any   *)
(* later time, any number of times or never, which stands for loss, delay, *)
(* duplication, the retries of one request and for the bounded inbound     *)
(* queue with its drops.  A wait of exchange or request may end at any     *)
(* time; an ERROR with the transaction ID ends a request like a wait that  *)
(* ran out, one without it only publishes an event.  Acknowledgements      *)
(* change the server's notification table, which is Reflector's.           *)
(***************************************************************************)
EXTENDS WireRules, Sequences, FiniteSets, SequencesExt

CONSTANTS
    MaxConnects,      \* bound on the handshakes, and so on the sessions
    MaxTx,            \* bound on handshakes and requests together
    MaxForeign,       \* bound on the streams of other clients
    RetiredCapacity,  \* len(udpSender.retired): 8 in the code
    TokenCapacity     \* Options.ControlSendQueuePackets

ASSUME SessionAssumption ==
    /\ {MaxConnects, MaxTx, MaxForeign} \subseteq Nat
    /\ {RetiredCapacity, TokenCapacity} \subseteq Nat \ {0}

VARIABLES
    conn,         \* where Connect, Close and fail have brought the adapter
    tx,           \* transaction ID of the handshake, counted up
    requests,     \* transactions of the session so far
    session,      \* udpSender.session
    pending,      \* requests that wait for a response
    local,        \* QueueClient's active stream, or 0
    streamID,     \* QueueClient.streamID
    remote,       \* identity of the stream being received, or NoKey
    stale,        \* its last media is more than two seconds old
    retired,      \* udpSender.retired, as far as it is filled
    retiredNext,  \* udpSender.retiredNext
    toServer, toClient,
    done,         \* requests in the server's transaction cache
    phase,        \* the server's view of each session it made for this client
    floor,        \* identity of the stream that holds the server's floor
    foreign,      \* streams other clients have started
    grants,       \* history: stream IDs the server granted to this client
    queue         \* history: the last RetiredCapacity identities retired

connecting == <<tx, requests, session>>
sending == <<pending, local, streamID>>
receiving == <<remote, stale, retired, retiredNext, queue>>
network == <<toServer, toClient>>
server == <<done, phase, floor, foreign, grants>>
vars == <<conn, connecting, sending, receiving, network, server>>

-----------------------------------------------------------------------------
\* A stream's identity is its owner's session and its number: every client
\* numbers its streams from one.
Key(owner, stream) == [owner |-> owner, stream |-> stream]
NoKey == Key(0, 0)
Me == 1 .. MaxConnects
ForeignKey(n) == Key(MaxConnects + 1 + (n % 2), 1 + (n \div 2))

\* Transaction IDs are random in the code and only compared; here handshakes
\* and requests number theirs, and 0 is one of the server's own.
KeepTx == MaxConnects + MaxTx + 1
NextTx == MaxConnects + requests + 1

\* A packet in the network, and all that Validate reads of it: the extensions
\* are those its sender puts in.
Packet(type, kind, id, stream, transaction) ==
    [type |-> type, kind |-> kind, session |-> id, stream |-> stream, tx |-> transaction]

Extensions(p) ==
    CASE p.type = "HELLO" -> Tx \cup {"node", "client_nonce"}
      [] p.type = "CHALLENGE" -> Tx \cup {"server_nonce", "reflector_id", "display_name"}
      [] p.type = "AUTHENTICATE" -> Tx \cup {"client_nonce", "server_nonce"}
      [] p.type = "WELCOME" -> Tx \cup {"reflector_id", "display_name"}
      [] p.type = "STREAM_REQUEST" -> Tx \cup {"source"}
      [] p.type = "STREAM_GRANT" -> Tx \cup Limit
      [] p.type = "STREAM_START" /\ p.kind = "request" -> Tx \cup Limit \cup {"node", "source"}
      [] p.type = "STREAM_REVOKE" /\ p.kind = "request" -> Tx \cup {"end_reason"}
      [] p.type = "STREAM_END" /\ p.kind = "response" -> Tx \cup {"end_reason"}
      [] p.type = "ERROR" -> {"error_code"} \cup (IF p.tx = 0 THEN {} ELSE Tx)
      [] p.type = "AUDIO" -> {}
      [] OTHER -> Tx

Full(p) ==
    [type |-> p.type, session |-> p.session, stream |-> p.stream,
     flags |-> {f \in {p.kind, p.retry} : f \in {"response", "retry"}},
     sequence |-> 0, payload |-> p.type = "AUDIO", tlvs |-> Extensions(p)]

\* What each end accepts, worked out once: Validate asks of the numbers in a
\* header only whether they are zero.
Shapes == [type : DOMAIN Rules, kind : Either, retry : {"first", "retry"},
           session : {0, 1}, stream : {0, 1}, tx : {0, 1}]
Accepted == {a \in Shapes \X Both \X (Pre \cup Admitted) : Valid(Full(a[1]), a[2], a[3])}

Sign(n) == IF n = 0 THEN 0 ELSE 1
Shape(p, copy) == [type |-> p.type, kind |-> p.kind, retry |-> copy, tx |-> Sign(p.tx),
                   session |-> Sign(p.session), stream |-> Sign(p.stream)]
Accepts(p, direction, at) == <<Shape(p, "first"), direction, at>> \in Accepted
AcceptsRetry(p, direction, at) == <<Shape(p, "retry"), direction, at>> \in Accepted

Request(type, id, stream, transaction) == Packet(type, "request", id, stream, transaction)
Response(type, id, q) == Packet(type, "response", id, q.stream, q.tx)
Keepalive(id) == Request("KEEPALIVE", id, 0, KeepTx)
Notification(type, key) == Request(type, key.owner, key.stream, 0)
Start(key) == Notification("STREAM_START", key)
Revoke(key) == Notification("STREAM_REVOKE", key)
Ack(p) == Packet(p.type, "response", session, p.stream, p.tx)
KeyOf(p) == Key(p.session, p.stream)

\* errorResponse: the ERROR must not be longer than the request, and next to
\* the error code only a STREAM_REQUEST leaves room for a transaction ID.
ErrorFor(q) == [Response("ERROR", q.session, q) EXCEPT
                  !.tx = IF q.type = "STREAM_REQUEST" THEN @ ELSE 0]

-----------------------------------------------------------------------------
(* Connect: exchange reads the socket itself, one reply type at a time.    *)

Connect ==
    /\ conn = "idle" /\ session = 0
    /\ tx < MaxConnects
    /\ conn' = "hello"
    /\ tx' = tx + 1
    /\ toServer' = toServer \cup {Request("HELLO", 0, 0, tx')}
    /\ UNCHANGED <<requests, session, sending, receiving, toClient, server>>

\* Mutant of Awaited: the transaction ID is not compared.
AwaitedByType(p, type, transaction, at) == p.type = type /\ Accepts(p, "server", at)

Awaited(p, type, transaction, at) ==
    /\ p.type = type
    /\ p.tx = transaction
    /\ Accepts(p, "server", at)

Challenged(p) ==
    /\ conn = "hello"
    /\ Awaited(p, "CHALLENGE", tx, "pre")
    /\ conn' = "authenticate"
    /\ toServer' = toServer \cup {Request("AUTHENTICATE", 0, 0, tx)}
    /\ UNCHANGED <<connecting, sending, receiving, toClient, server>>

\* The session is set before the server has confirmed it.
Welcomed(p) ==
    /\ conn = "authenticate"
    /\ Awaited(p, "WELCOME", tx, "pre")
    /\ session' = p.session
    /\ conn' = "confirm"
    /\ toServer' = toServer \cup {Keepalive(p.session)}
    /\ UNCHANGED <<tx, requests, sending, receiving, toClient, server>>

\* Nothing that was sent for the handshakes has an effect on an established
\* client; only the WELCOME it went by is kept, to compare.
Confirmed(p) ==
    /\ conn = "confirm"
    /\ Awaited(p, "KEEPALIVE", KeepTx, "connected")
    /\ p.session = session
    /\ conn' = "up"
    /\ toServer' = {} /\ done' = {}
    /\ toClient' = {r \in toClient : (r.type = "WELCOME" /\ r.tx = tx) \/ r.tx = 0}
    /\ UNCHANGED <<connecting, sending, receiving, phase, floor, foreign, grants>>

\* Connect after a failed confirmation: the session is set, so the KEEPALIVE
\* is a request whose response no goroutine reads.
ConnectUnread ==
    /\ conn = "idle"
    /\ session # 0
    /\ conn' = "unread"
    /\ UNCHANGED <<connecting, sending, receiving, network, server>>

ConnectFails ==
    /\ conn \in {"hello", "authenticate", "confirm", "unread"}
    /\ conn' = "idle"
    /\ UNCHANGED <<connecting, sending, receiving, network, server>>

-----------------------------------------------------------------------------
(* Requests of the established session.  pending is a map keyed by         *)
(* transaction and stream; the tokens bound it, and running out of them    *)
(* fails the client.                                                       *)

Fails == conn' = "failed" /\ pending' = {} /\ local' = 0

Send(q, next, stream) ==
    IF Cardinality(pending) < TokenCapacity
    THEN /\ pending' = pending \cup {q}
         /\ toServer' = toServer \cup {q}
         /\ conn' = next
         /\ local' = stream
    ELSE Fails /\ UNCHANGED toServer

Outstanding(types) == {q \in pending : q.type \in types}

KeepaliveTick ==
    /\ conn = "up"
    /\ Outstanding({"KEEPALIVE"}) = {}
    /\ Send(Keepalive(session), conn, local)
    /\ UNCHANGED <<connecting, streamID, receiving, toClient, server>>

\* QueueClient proposes the ID after the last one it saw granted, whatever
\* became of the requests since.
NextStream == streamID + 1

\* A request of the application, or Close, with its own transaction.
Begin(q, next) ==
    /\ conn = "up"
    /\ tx + requests < MaxTx
    /\ requests' = requests + 1
    /\ Send(q, next, 0)
    /\ UNCHANGED <<tx, session, streamID, receiving, toClient, server>>

RequestFloor ==
    /\ local = 0
    /\ Outstanding({"STREAM_REQUEST", "STREAM_END"}) = {}
    /\ Begin(Request("STREAM_REQUEST", session, NextStream, NextTx), conn)

EndFloor ==
    /\ local # 0
    /\ Begin(Request("STREAM_END", session, local, NextTx), conn)

\* closing stops the keepalive goroutine.
Disconnect == Begin(Request("DISCONNECT", session, 0, NextTx), "closing")

\* What the caller does once request has returned, with a response or none.
Return(q, granted, failed) ==
    /\ streamID' = IF granted THEN q.stream ELSE streamID
    /\ IF q.type = "KEEPALIVE" /\ failed THEN Fails
       ELSE /\ local' = IF granted THEN q.stream ELSE local
            /\ conn' = IF q.type = "DISCONNECT" THEN "closed" ELSE conn
            /\ pending' = IF q.type = "DISCONNECT" THEN {} ELSE pending \ {q}

\* Mutant of TimesOut: the keepalive goroutine ignores the error.
TimesOutIgnored(q) ==
    /\ Return(q, FALSE, FALSE)
    /\ UNCHANGED <<connecting, receiving, network, server>>

TimesOut(q) ==
    /\ Return(q, FALSE, TRUE)
    /\ UNCHANGED <<connecting, receiving, network, server>>

Wants(q) == (IF q.type = "STREAM_REQUEST" THEN {"STREAM_GRANT", "STREAM_BUSY"} ELSE {q.type})
            \cup {"ERROR"}

\* Mutant of Matches: requests are found by their stream alone.
MatchesStream(p, q) == p.session = session /\ p.stream = q.stream /\ p.type \in Wants(q)

\* The lookup in processLoop.
Matches(p, q) ==
    /\ p.session = session
    /\ p.tx = q.tx /\ p.stream = q.stream
    /\ p.type \in Wants(q)

\* Packets of a finished KEEPALIVE have no effect any more; dropping them
\* lets the model number every KEEPALIVE alike.
Forget(packets) == {p \in packets : p.tx # KeepTx}

Reading == conn \in {"up", "closing"}

Reply(p, q) ==
    /\ Reading
    /\ Matches(p, q)
    /\ Accepts(p, "server", "ready")
    /\ Return(q, p.type = "STREAM_GRANT", p.type = "ERROR")
    /\ IF q.type = "KEEPALIVE"
       THEN toServer' = Forget(toServer) /\ toClient' = Forget(toClient) /\ done' = Forget(done)
       ELSE UNCHANGED <<network, done>>
    /\ UNCHANGED <<connecting, receiving, phase, floor, foreign, grants>>

\* readLoop meets an error other than its deadline.
ReadFails ==
    /\ Reading
    /\ Fails
    /\ UNCHANGED <<connecting, streamID, receiving, network, server>>

-----------------------------------------------------------------------------
(* The receive state.                                                      *)

isRetired(key) == key \in ToSet(retired)

\* What remembering the last RetiredCapacity identities means.
Remember(key) ==
    queue' = CASE key = NoKey \/ key \in ToSet(queue) -> queue
               [] OTHER -> LET all == Append(queue, key)
                           IN  IF Len(all) > RetiredCapacity THEN Tail(all) ELSE all

\* Mutant of retire: a repeated notification takes another slot.
retireAgain(key) ==
    CASE key = NoKey -> UNCHANGED <<retired, retiredNext>>
      [] key # NoKey /\ Len(retired) < RetiredCapacity ->
            retired' = Append(retired, key) /\ UNCHANGED retiredNext
      [] OTHER -> /\ retired' = [retired EXCEPT ![retiredNext + 1] = key]
                  /\ retiredNext' = (retiredNext + 1) % RetiredCapacity

retire(key) ==
    CASE key = NoKey \/ isRetired(key) -> UNCHANGED <<retired, retiredNext>>
      [] key # NoKey /\ ~isRetired(key) /\ Len(retired) < RetiredCapacity ->
            retired' = Append(retired, key) /\ UNCHANGED retiredNext
      [] OTHER -> /\ retired' = [retired EXCEPT ![retiredNext + 1] = key]
                  /\ retiredNext' = (retiredNext + 1) % RetiredCapacity

\* Duplicates are acknowledged and change nothing; they do not count as media.
ReceiveStart(p) ==
    /\ Reading
    /\ p.type = "STREAM_START"
    /\ Accepts(p, "server", "ready")
    /\ KeyOf(p) # remote
    /\ ~isRetired(KeyOf(p))
    /\ retire(remote) /\ Remember(remote)
    /\ remote' = KeyOf(p)
    /\ stale' = FALSE
    /\ UNCHANGED <<conn, connecting, sending, network, server>>

\* Mutant of Follows: streams are compared by number only.
FollowsNumber(key) == remote.stream = key.stream
Follows(key) == remote = key

ReceiveRevoke(p) ==
    /\ Reading
    /\ p.type = "STREAM_REVOKE"
    /\ Accepts(p, "server", "ready")
    /\ local' = IF p.session = session /\ p.stream = local THEN 0 ELSE local
    /\ retire(KeyOf(p)) /\ Remember(KeyOf(p))
    /\ remote' = IF Follows(KeyOf(p)) THEN NoKey ELSE remote
    /\ stale' = (stale /\ remote' # NoKey)
    /\ UNCHANGED <<conn, connecting, pending, streamID, network, server>>

\* Not the response of a pending DISCONNECT; remoteClose closes the socket
\* without a second exchange.
ReceiveDisconnect(p) ==
    /\ Reading
    /\ p.type = "DISCONNECT"
    /\ ~\E q \in pending : Matches(p, q)
    /\ Accepts(p, "server", "ready")
    /\ p.session = session
    /\ conn' = "closed"
    /\ pending' = {}
    /\ local' = 0
    /\ UNCHANGED <<connecting, streamID, receiving, network, server>>

\* A frame of the stream being received, delayed past its end perhaps.
ReceiveAudio ==
    /\ Reading
    /\ remote # NoKey /\ stale
    /\ Accepts(Notification("AUDIO", remote), "server", "ready")
    /\ stale' = FALSE
    /\ UNCHANGED <<conn, connecting, sending, remote, retired, retiredNext, queue, network, server>>

Age ==
    /\ Reading
    /\ remote # NoKey
    /\ ~stale
    /\ stale' = TRUE
    /\ UNCHANGED <<conn, connecting, sending, remote, retired, retiredNext, queue, network, server>>

\* Mutant of ExpireRemote: the identity is retired, the state kept.
ExpireRemoteKept ==
    /\ Reading
    /\ remote # NoKey /\ stale
    /\ retire(remote) /\ Remember(remote)
    /\ UNCHANGED <<conn, connecting, sending, remote, stale, network, server>>

ExpireRemote ==
    /\ Reading
    /\ remote # NoKey /\ stale
    /\ retire(remote) /\ Remember(remote)
    /\ remote' = NoKey /\ stale' = FALSE
    /\ UNCHANGED <<conn, connecting, sending, network, server>>

-----------------------------------------------------------------------------
(* The server: handle, transact and control, as far as this client can     *)
(* tell.  Replaying a cached result adds nothing to toClient.              *)

client == <<conn, connecting, sending, receiving, toServer>>

Alive == {"connected", "ready"}
Listening == \E i \in Me : phase[i] = "ready"
Tell(packets) == toClient' = toClient \cup packets

\* A fresh transaction: applied, cached and answered.
Answer(q, type, id) == done' = done \cup {q} /\ Tell({Response(type, id, q)})

ServeHello(q) ==
    /\ q.type = "HELLO" /\ Accepts(q, "client", "pre")
    /\ Answer(q, "CHALLENGE", 0)
    /\ UNCHANGED <<client, phase, floor, foreign, grants>>

ServeAuthenticate(q) ==
    /\ q.type = "AUTHENTICATE" /\ Accepts(q, "client", "pre")
    /\ \E i \in Me :
          /\ phase[i] = "none" /\ \A j \in 1 .. i - 1 : phase[j] # "none"
          /\ phase' = [phase EXCEPT ![i] = "connected"]
          /\ Answer(q, "WELCOME", i)
    /\ UNCHANGED <<client, floor, foreign, grants>>

InSession(q, type) ==
    /\ q.type = type
    /\ phase[q.session] \in Alive
    /\ Accepts(q, "client", phase[q.session])

\* A client that confirms its session during a stream is told of it.
ServeKeepalive(q) ==
    /\ InSession(q, "KEEPALIVE")
    /\ done' = done \cup {q}
    /\ phase' = [phase EXCEPT ![q.session] = "ready"]
    /\ Tell({Response("KEEPALIVE", q.session, q)}
            \cup (IF floor.owner \in Me \cup {0} THEN {} ELSE {Start(floor)}))
    /\ UNCHANGED <<client, floor, foreign, grants>>

ServeRequest(q) ==
    /\ InSession(q, "STREAM_REQUEST")
    /\ Answer(q, IF floor = NoKey THEN "STREAM_GRANT" ELSE "STREAM_BUSY", q.session)
    /\ floor' = IF floor = NoKey THEN KeyOf(q) ELSE floor
    /\ grants' = IF floor = NoKey THEN Append(grants, q.stream) ELSE grants
    /\ UNCHANGED <<client, phase, foreign>>

\* Whether the final frame has arrived is MediaOrder's question; a refusal
\* is cached, and its ERROR completes nothing.
ServeEnd(q) ==
    /\ InSession(q, "STREAM_END")
    /\ \/ /\ floor = KeyOf(q)
          /\ floor' = NoKey
          /\ Answer(q, "STREAM_END", q.session)
       \/ done' = done \cup {q} /\ UNCHANGED <<floor, toClient>>
    /\ UNCHANGED <<client, phase, foreign, grants>>

ServeDisconnect(q) ==
    /\ InSession(q, "DISCONNECT")
    /\ Answer(q, "DISCONNECT", q.session)
    /\ phase' = [phase EXCEPT ![q.session] = "gone"]
    /\ floor' = IF floor.owner = q.session THEN NoKey ELSE floor
    /\ UNCHANGED <<client, foreign, grants>>

Serve(q) ==
    /\ q \notin done
    /\ \/ ServeHello(q) \/ ServeAuthenticate(q) \/ ServeKeepalive(q)
       \/ ServeRequest(q) \/ ServeEnd(q) \/ ServeDisconnect(q)

ForeignStart ==
    /\ floor = NoKey
    /\ foreign < MaxForeign
    /\ foreign' = foreign + 1
    /\ floor' = ForeignKey(foreign)
    /\ Tell(IF Listening THEN {Start(floor')} ELSE {})
    /\ UNCHANGED <<client, done, phase, grants>>

\* The stream ends: by its owner, by a timeout or by the owner's departure.
\* Its own stream ends like this only by a timeout; the owner is told.
StreamEnds ==
    /\ floor # NoKey
    /\ floor' = NoKey
    /\ Tell(IF floor.owner \in Me \/ Start(floor) \in toClient THEN {Revoke(floor)} ELSE {})
    /\ UNCHANGED <<client, done, phase, foreign, grants>>

\* The server loses the session, silently or with a DISCONNECT of its own.
SessionEnds(i) ==
    /\ phase[i] \in Alive
    /\ Reading => i = session
    /\ phase' = [phase EXCEPT ![i] = "gone"]
    /\ floor' = IF floor.owner = i THEN NoKey ELSE floor
    /\ Tell({Request("DISCONNECT", i, 0, 0)}) \/ UNCHANGED toClient
    /\ UNCHANGED <<client, done, foreign, grants>>

-----------------------------------------------------------------------------
Init ==
    /\ conn = "idle" /\ tx = 0 /\ requests = 0 /\ session = 0
    /\ pending = {} /\ local = 0 /\ streamID = 0
    /\ remote = NoKey /\ stale = FALSE /\ retired = <<>> /\ retiredNext = 0 /\ queue = <<>>
    /\ toServer = {} /\ toClient = {}
    /\ done = {} /\ phase = [i \in Me |-> "none"]
    /\ floor = NoKey /\ foreign = 0 /\ grants = <<>>

processLoop ==
    \/ \E p \in toClient : \/ ReceiveStart(p) \/ ReceiveRevoke(p) \/ ReceiveDisconnect(p)
                           \/ \E q \in pending : Reply(p, q)
    \/ ReceiveAudio \/ ExpireRemote \/ ReadFails

handshake ==
    \/ Connect \/ ConnectUnread \/ ConnectFails
    \/ \E p \in toClient : Challenged(p) \/ Welcomed(p) \/ Confirmed(p)

\* Once the client is closed or its session lost, the server is of no
\* further interest: it will not answer.
ServerStep ==
    /\ conn \notin {"closed", "failed"}
    /\ Reading => phase[session] # "gone"
    /\ \/ \E q \in toServer : Serve(q)
       \/ ForeignStart \/ StreamEnds \/ \E i \in Me : SessionEnds(i)

SomeTimesOut == \E q \in pending : TimesOut(q)

Next ==
    \/ handshake \/ processLoop \/ Age \/ SomeTimesOut
    \/ KeepaliveTick \/ RequestFloor \/ EndFloor \/ Disconnect
    \/ ServerStep

LateAudio == remote # floor /\ ReceiveAudio

\* Tickers fire and waits end.  Of the network only this is assumed: the
\* frames of a stream that is over, each of which still refreshes the receive
\* state, do not arrive forever.
Fairness ==
    /\ WF_vars(KeepaliveTick) /\ WF_vars(SomeTimesOut)
    /\ WF_vars(Age) /\ WF_vars(ExpireRemote)
    /\ <>[][~LateAudio]_vars

Spec == Init /\ [][Next]_vars /\ Fairness

-----------------------------------------------------------------------------
\* The fields stay in range and the requests in flight within the tokens.
TypeOK ==
    /\ conn \in {"idle", "hello", "authenticate", "confirm", "unread",
                 "up", "closing", "closed", "failed"}
    /\ tx \in 0 .. MaxConnects /\ requests \in 0 .. MaxTx /\ session \in 0 .. MaxConnects
    /\ pending \subseteq toServer /\ Cardinality(pending) <= TokenCapacity
    /\ local \in {0, streamID}
    /\ stale \in BOOLEAN
    /\ Len(retired) <= RetiredCapacity /\ retiredNext \in 0 .. RetiredCapacity - 1
    /\ phase \in [Me -> Alive \cup {"none", "gone"}]

\* An established client and the server agree on the session: it is the one
\* created for this very handshake, not for an earlier attempt whose WELCOME
\* was late, and the server has seen its confirmation.  Every field is in
\* range meanwhile.
HandshakeAgrees ==
    /\ TypeOK
    /\ Reading => /\ phase[session] \in {"ready", "gone"}
                  /\ \E p \in toClient : p.type = "WELCOME" /\ p.session = session /\ p.tx = tx

\* Neither end refuses what the other means it to accept: every first copy
\* and every retry of a request passes Validate in the phase the server is in,
\* every reply passes it in the phase in which the client waits for it, and
\* so do the notifications of a confirmed session and their acknowledgements.
NothingIsRefused ==
    /\ \A q \in toServer \ done :
          LET at == IF q.session = 0 THEN "pre" ELSE phase[q.session]
          IN  at \in Alive \cup Pre => Accepts(q, "client", at) /\ AcceptsRetry(q, "client", at)
    /\ \A p \in toClient :
          /\ p.type \in {"CHALLENGE", "WELCOME"} => Accepts(p, "server", "pre")
          /\ p.type = "KEEPALIVE" /\ conn = "confirm" => Accepts(p, "server", "connected")
          /\ Reading /\ p.type \notin {"CHALLENGE", "WELCOME"} => Accepts(p, "server", "ready")
          /\ Reading /\ p.tx = 0 /\ phase[session] = "ready" => Accepts(Ack(p), "client", "ready")
    /\ \A q \in pending : Accepts(ErrorFor(q), "server", "ready")

\* The client transmits only under a grant of the request it made last: a
\* late answer to an earlier request for the same stream number (BUSY does
\* not use the number up) does not decide a newer one.
TransmitsAsAnswered ==
    conn = "up" /\ local # 0 =>
        \E q \in done :
           /\ q.type = "STREAM_REQUEST" /\ q.stream = local
           /\ \A r \in toServer : r.type = "STREAM_REQUEST" => r.tx <= q.tx
           /\ Response("STREAM_GRANT", session, q) \in toClient

\* A late or repeated STREAM_START never revives one of the last
\* RetiredCapacity streams that ended, expired or were replaced, however
\* often their revokes were repeated meanwhile.
RetiredStaysRetired ==
    [][remote' # remote /\ remote' # NoKey => remote' \notin ToSet(queue)]_vars

\* Only a revoke of that very stream or two seconds without media end it: the
\* late revoke of another owner's stream with the same number does not.
EndsAreItsOwn ==
    [][remote # NoKey /\ remote' = NoKey => stale \/ Revoke(remote) \in toClient]_vars

\* Receive state of a stream that is over is given up even when every revoke
\* is lost: late copies of its START do not keep it alive, nor do its late
\* frames once they have stopped.
ReceiveStateClears ==
    \A n \in 0 .. MaxForeign - 1 :
       (Reading /\ remote = ForeignKey(n) /\ floor # ForeignKey(n))
          ~> (remote # ForeignKey(n) \/ ~Reading)

\* A client whose session the server has lost finds out, with no message from
\* the server: its next keepalive goes unanswered and fails the client.
LossIsNoticed ==
    (Reading /\ phase[session] = "gone") ~> ~Reading

\* What docs/protocol-v1.md says of STREAM_REQUEST: each one names a new
\* stream, so no stream ID is granted twice to one session.
GrantsAreNew == \A i, j \in 1 .. Len(grants) : grants[i] = grants[j] => i = j
=============================================================================
