------------------------- MODULE ClientSessionProofs -------------------------
(***************************************************************************)
(* Theorems about ClientSession for any number of handshakes, requests,    *)
(* streams of others and tokens and every size of the ring.  Inv describes *)
(* what can be in the network: each packet has the form its type asks for  *)
(* (Sent, Answers), an answer was given to a request the server has seen   *)
(* (Granted), and transaction numbers are used once (Numbered).  The       *)
(* client's own state is read against it.                                  *)
(***************************************************************************)
EXTENDS ClientSession, TLAPS, FiniteSetTheorems, SequenceTheorems

Keys == [owner : Nat, stream : Nat]
Handshakes == {"HELLO", "AUTHENTICATE"}
Transacted == {"STREAM_REQUEST", "STREAM_END", "DISCONNECT"}
Answered == {"STREAM_GRANT", "STREAM_BUSY", "STREAM_END"}
TxRange == MaxConnects + 1 .. MaxConnects + MaxTx

\* The server has confirmed session i, and may have lost it since.
Seen(i) == i \in Me /\ phase[i] \in {"ready", "gone"}

\* The client's scalars, and what its place implies for them.
Scalars ==
    /\ conn \in {"idle", "hello", "authenticate", "confirm", "unread",
                 "up", "closing", "closed", "failed"}
    /\ tx \in 0 .. MaxConnects /\ requests \in 0 .. MaxTx /\ session \in 0 .. MaxConnects
    /\ streamID \in Nat /\ local \in {0, streamID}
    /\ conn \in {"hello", "authenticate"} => tx > 0
    /\ conn \notin {"up", "closing", "closed"} => local = 0

\* The server's scalars.
Served ==
    /\ phase \in [Me -> Alive \cup {"none", "gone"}]
    /\ foreign \in Nat
    /\ floor \in Keys
    /\ floor # NoKey => floor.owner # 0 /\ floor.stream # 0

\* What each request of the client looks like.
Sent ==
    \A q \in toServer :
       /\ q \in [type : Handshakes \cup Transacted \cup {"KEEPALIVE"}, kind : {"request"},
                 session : 0 .. MaxConnects, stream : Nat, tx : Nat]
       /\ q.type \in Handshakes => q.session = 0 /\ q.stream = 0 /\ q.tx \in 1 .. MaxConnects
       /\ q.type = "KEEPALIVE" => q.session \in Me /\ q.stream = 0 /\ q.tx = KeepTx
       /\ q.type \in Transacted => /\ Seen(q.session)
                                   /\ q.tx \in MaxConnects + 1 .. MaxConnects + requests
                                   /\ (q.type = "DISCONNECT") <=> (q.stream = 0)

\* What a packet of the server looks like.
Formed(p) ==
    /\ p \in [type : Answered \cup {"CHALLENGE", "WELCOME", "KEEPALIVE", "DISCONNECT",
                                    "STREAM_START", "STREAM_REVOKE"},
              kind : {"request", "response"}, session : Nat, stream : Nat, tx : Nat]
    /\ p.type = "CHALLENGE" => /\ p.kind = "response" /\ p.session = 0 /\ p.stream = 0
                               /\ p.tx \in 1 .. MaxConnects
    /\ p.type = "WELCOME" => /\ p.kind = "response" /\ p.session \in Me /\ p.stream = 0
                             /\ p.tx \in 1 .. MaxConnects
    /\ p.type = "KEEPALIVE" => /\ p.kind = "response" /\ Seen(p.session) /\ p.stream = 0
                               /\ p.tx = KeepTx
    /\ p.type \in Answered => /\ p.kind = "response" /\ p.session \in Me /\ p.stream # 0
                              /\ p.tx \in TxRange
    /\ p.type = "DISCONNECT" => /\ p.session \in Me /\ p.stream = 0
                                /\ \/ p.kind = "request" /\ p.tx = 0
                                   \/ p.kind = "response" /\ p.tx \in TxRange
    /\ p.type \in {"STREAM_START", "STREAM_REVOKE"} =>
          p.kind = "request" /\ p.session # 0 /\ p.stream # 0 /\ p.tx = 0

Answers == \A p \in toClient : Formed(p)

\* No two requests have a number in common.
Numbered == \A q, r \in toServer : q.type \in Transacted /\ r.type \in Transacted
                                   /\ q.tx = r.tx => q = r

\* The requests in flight are those of this session, within the tokens, and
\* a STREAM_REQUEST among them is the latest the client made.
Waits ==
    /\ pending \subseteq toServer
    /\ IsFiniteSet(pending) /\ Cardinality(pending) <= TokenCapacity
    /\ pending # {} => Reading
    /\ \A q \in pending : q.session = session
    /\ \A q \in pending, r \in toServer :
          q.type = "STREAM_REQUEST" /\ r.type = "STREAM_REQUEST" => r.tx <= q.tx

\* The session is one the server offered in this very handshake, and an
\* established client has its confirmation.
Welcome ==
    /\ conn \in {"confirm", "up", "closing"} =>
          \E p \in toClient : p.type = "WELCOME" /\ p.session = session /\ p.tx = tx
    /\ Reading => Seen(session)

\* A grant answers a request that the server has in its cache.
Granted ==
    /\ done \subseteq toServer
    /\ \A p \in toClient : p.type = "STREAM_GRANT" =>
          \E q \in done : /\ q.type = "STREAM_REQUEST"
                          /\ p = Response("STREAM_GRANT", q.session, q)

\* The i-th oldest identity is in this slot of a full ring whose next slot to
\* overwrite is n.
Slot(n, i) == IF n + i <= RetiredCapacity THEN n + i ELSE n + i - RetiredCapacity

\* The ring holds exactly the last identities retired.
Ring ==
    /\ retired \in Seq(Keys) /\ queue \in Seq(Keys)
    /\ Len(retired) <= RetiredCapacity /\ Len(queue) = Len(retired)
    /\ retiredNext \in 0 .. RetiredCapacity - 1
    /\ Len(retired) < RetiredCapacity => retiredNext = 0
    /\ \A i \in 1 .. Len(queue) :
          queue[i] = retired[IF Len(retired) < RetiredCapacity THEN i ELSE Slot(retiredNext, i)]
    /\ remote \in Keys /\ stale \in BOOLEAN

Inv == /\ Scalars /\ Served /\ Sent /\ Answers /\ Numbered /\ Waits
       /\ Welcome /\ Granted /\ TransmitsAsAnswered /\ Ring

-----------------------------------------------------------------------------
(* Who changes what.                                                       *)

\* Every step is one of the client or one of the server.
ClientStep == \/ handshake \/ processLoop \/ Age \/ SomeTimesOut
              \/ KeepaliveTick \/ RequestFloor \/ EndFloor \/ Disconnect

Everything == <<conn, tx, requests, session, pending, local, streamID, remote, stale, retired,
                retiredNext, queue, toServer, toClient, done, phase, floor, foreign, grants>>

\* The variables by themselves.
LEMMA Stutter == (UNCHANGED vars) <=> UNCHANGED Everything
  BY DEF vars, Everything, connecting, sending, receiving, network, server

\* The server's steps leave the client and its packets alone, and only add to
\* the answers.
LEMMA ServerLeaves ==
    ASSUME ServerStep
    PROVE  /\ UNCHANGED <<conn, tx, requests, session, pending, local, streamID, remote,
                          stale, retired, retiredNext, queue, toServer>>
           /\ toClient \subseteq toClient' /\ done \subseteq done'
<1> USE DEF client, connecting, sending, receiving, Answer, Tell
<1>1. ASSUME NEW q \in toServer, Serve(q)
      PROVE  UNCHANGED client /\ toClient \subseteq toClient' /\ done \subseteq done'
  <2>1. CASE ServeHello(q)
    BY <2>1 DEF ServeHello
  <2>2. CASE ServeAuthenticate(q)
    BY <2>2 DEF ServeAuthenticate
  <2>3. CASE ServeKeepalive(q)
    BY <2>3 DEF ServeKeepalive
  <2>4. CASE ServeRequest(q)
    BY <2>4 DEF ServeRequest
  <2>5. CASE ServeEnd(q)
    BY <2>5 DEF ServeEnd
  <2>6. CASE ServeDisconnect(q)
    BY <2>6 DEF ServeDisconnect
  <2> QED
    BY <1>1, <2>1, <2>2, <2>3, <2>4, <2>5, <2>6 DEF Serve
<1>2. CASE ForeignStart
  BY <1>2 DEF ForeignStart
<1>3. CASE StreamEnds
  BY <1>3 DEF StreamEnds
<1>4. ASSUME NEW i \in Me, SessionEnds(i)
      PROVE  UNCHANGED client /\ toClient \subseteq toClient' /\ done \subseteq done'
  BY <1>4 DEF SessionEnds
<1> QED
  BY <1>1, <1>2, <1>3, <1>4 DEF ServerStep

\* The client's steps leave the server alone and add nothing to its answers.
LEMMA ClientLeaves ==
    ASSUME ClientStep
    PROVE  UNCHANGED <<phase, floor, foreign, grants>> /\ toClient' \subseteq toClient
<1> USE DEF server, network, Begin, Forget
<1>1. CASE handshake
  BY <1>1 DEF handshake, Connect, ConnectUnread, ConnectFails, Challenged, Welcomed, Confirmed
<1>2. CASE processLoop
  <2>1. CASE \E p \in toClient, q \in pending : Reply(p, q)
    BY <2>1 DEF Reply
  <2>2. CASE \E p \in toClient : ReceiveStart(p) \/ ReceiveRevoke(p) \/ ReceiveDisconnect(p)
    BY <2>2 DEF ReceiveStart, ReceiveRevoke, ReceiveDisconnect
  <2>3. CASE ReceiveAudio \/ ExpireRemote \/ ReadFails
    BY <2>3 DEF ReceiveAudio, ExpireRemote, ReadFails
  <2> QED
    BY <1>2, <2>1, <2>2, <2>3 DEF processLoop
<1>3. CASE Age \/ SomeTimesOut \/ KeepaliveTick
  BY <1>3 DEF Age, SomeTimesOut, TimesOut, KeepaliveTick
<1>4. CASE RequestFloor \/ EndFloor \/ Disconnect
  BY <1>4 DEF RequestFloor, EndFloor, Disconnect
<1> QED
  BY <1>1, <1>2, <1>3, <1>4 DEF ClientStep

\* The initial state.
LEMMA InitInv == Init => Inv
<1> SUFFICES ASSUME Init PROVE Inv
  OBVIOUS
<1> USE SessionAssumption DEF Init
<1>1. Scalars /\ Served
  BY DEF Scalars, Served, Alive, Keys, NoKey, Key
<1>2. Sent /\ Answers /\ Numbered /\ Welcome /\ Granted /\ TransmitsAsAnswered
  BY DEF Sent, Answers, Numbered, Welcome, Granted, TransmitsAsAnswered, Reading
<1>3. Waits
  BY FS_EmptySet DEF Waits
<1>4. Ring
  <2>1. retired = <<>> /\ queue = <<>> /\ Len(retired) = 0 /\ Len(queue) = 0
    OBVIOUS
  <2>2. NoKey \in Keys
    BY DEF NoKey, Key, Keys
  <2>3. retired \in Seq(Keys) /\ queue \in Seq(Keys)
    BY <2>1
  <2>4. RetiredCapacity \in Nat \ {0}
    OBVIOUS
  <2>5. \A i \in 1 .. Len(queue) : FALSE
    BY <2>1
  <2>6. /\ Len(retired) <= RetiredCapacity /\ Len(queue) = Len(retired)
        /\ retiredNext \in 0 .. RetiredCapacity - 1 /\ retiredNext = 0
    BY <2>1, <2>4
  <2>7. remote \in Keys /\ stale \in BOOLEAN
    BY <2>2
  <2> QED
    BY <2>3, <2>5, <2>6, <2>7 DEF Ring
<1> QED
  BY <1>1, <1>2, <1>3, <1>4 DEF Inv

-----------------------------------------------------------------------------
(* The server's state.                                                     *)

\* A stream of another client.
LEMMA ForeignKeyType ==
    ASSUME NEW n \in Nat
    PROVE  /\ ForeignKey(n) \in Keys
           /\ ForeignKey(n).owner # 0 /\ ForeignKey(n).stream # 0
<1>1. n % 2 \in 0 .. 1 /\ n \div 2 \in Nat
  OBVIOUS
<1> QED
  BY <1>1, SessionAssumption DEF ForeignKey, Key, Keys

\* A session once confirmed stays confirmed or is lost, and the server's
\* state keeps its type.
LEMMA NextServed ==
    ASSUME Served, Sent, ServerStep
    PROVE  Served' /\ \A i \in Me : Seen(i) => Seen(i)'
<1> USE DEF Served, Seen, Alive
<1>0. Me \subseteq Nat \ {0}
  BY SessionAssumption DEF Me
<1>1. ASSUME NEW q \in toServer, Serve(q)
      PROVE  Served' /\ \A i \in Me : Seen(i) => Seen(i)'
  <2> USE <1>1
  <2>0. /\ q.type = "KEEPALIVE" => q.session \in Me
        /\ q.type \in Transacted => q.session \in Me
        /\ q.session \in Nat /\ q.stream \in Nat
        /\ q.type = "STREAM_REQUEST" => q.session # 0 /\ q.stream # 0
    BY <1>0, SessionAssumption DEF Sent, Transacted
  <2>1. CASE ServeHello(q)
    BY <2>1 DEF ServeHello
  <2>2. CASE ServeAuthenticate(q)
    BY <2>2 DEF ServeAuthenticate
  <2>3. CASE ServeKeepalive(q)
    BY <2>0, <2>3 DEF ServeKeepalive, InSession
  <2>4. CASE ServeRequest(q)
    BY <2>0, <2>4 DEF ServeRequest, InSession, KeyOf, Key, Keys
  <2>5. CASE ServeEnd(q)
    BY <2>5 DEF ServeEnd, NoKey, Key, Keys
  <2>6. CASE ServeDisconnect(q)
    BY <2>0, <2>6 DEF ServeDisconnect, InSession, NoKey, Key, Keys, Transacted
  <2> QED
    BY <2>1, <2>2, <2>3, <2>4, <2>5, <2>6 DEF Serve
<1>2. CASE ForeignStart
  BY <1>2, ForeignKeyType DEF ForeignStart
<1>3. CASE StreamEnds
  BY <1>3 DEF StreamEnds, NoKey, Key, Keys
<1>4. ASSUME NEW i \in Me, SessionEnds(i)
      PROVE  Served' /\ \A j \in Me : Seen(j) => Seen(j)'
  BY <1>4 DEF SessionEnds, NoKey, Key, Keys
<1> QED
  BY <1>1, <1>2, <1>3, <1>4 DEF ServerStep

\* The same for every step.
LEMMA SeenStays ==
    ASSUME Served, Sent, [Next]_vars
    PROVE  Served' /\ \A i \in Me : Seen(i) => Seen(i)'
<1>1. CASE ServerStep
  BY <1>1, NextServed
<1>2. CASE ClientStep
  BY <1>2, ClientLeaves DEF Served, Seen
<1>3. CASE UNCHANGED vars
  BY <1>3, Stutter DEF Everything, Served, Seen
<1> QED
  BY <1>1, <1>2, <1>3 DEF Next, ClientStep

-----------------------------------------------------------------------------
(* The client's scalars.                                                   *)

\* Sending a request, or failing for want of a token.
LEMMA SendScalars ==
    ASSUME Scalars, NEW q, NEW next \in {"up", "closing"}, NEW s \in {0, local},
           conn = "up", Send(q, next, s), streamID' = streamID, tx' = tx, session' = session,
           requests' \in 0 .. MaxTx
    PROVE  Scalars'
  BY DEF Scalars, Send, Fails

\* Returning from a request.
LEMMA ReturnScalars ==
    ASSUME Scalars, NEW q, NEW granted \in BOOLEAN, NEW failed \in BOOLEAN,
           Reading, q.stream \in Nat, Return(q, granted, failed),
           granted => q.type # "KEEPALIVE",
           UNCHANGED <<tx, session, requests>>
    PROVE  Scalars'
  BY DEF Scalars, Return, Fails, Reading

\* Every step keeps the client's scalars in range.
LEMMA NextScalars == Scalars /\ Sent /\ Answers /\ Waits /\ [Next]_vars => Scalars'
<1> SUFFICES ASSUME Scalars, Sent, Answers, Waits, [Next]_vars PROVE Scalars'
  OBVIOUS
<1> USE SessionAssumption DEF connecting, sending, receiving, network, server
<1>1. CASE handshake
  <2>1. CASE Connect
    BY <2>1 DEF Connect, Scalars
  <2>2. CASE ConnectUnread \/ ConnectFails
    BY <2>2 DEF ConnectUnread, ConnectFails, Scalars
  <2>3. ASSUME NEW p \in toClient, Challenged(p) PROVE Scalars'
    BY <2>3 DEF Challenged, Scalars
  <2>4. ASSUME NEW p \in toClient, Welcomed(p) PROVE Scalars'
    BY <2>4 DEF Welcomed, Scalars, Awaited, Answers, Formed, Me
  <2>5. ASSUME NEW p \in toClient, Confirmed(p) PROVE Scalars'
    BY <2>5 DEF Confirmed, Scalars
  <2> QED
    BY <1>1, <2>1, <2>2, <2>3, <2>4, <2>5 DEF handshake
<1>2. CASE processLoop
  <2>1. ASSUME NEW p \in toClient, NEW q \in pending, Reply(p, q) PROVE Scalars'
    <3>1. p.type = "STREAM_GRANT" => q.type # "KEEPALIVE"
      BY <2>1 DEF Reply, Matches, Wants
    <3>2. q.stream \in Nat
      BY DEF Waits, Sent
    <3> QED
      BY <2>1, <3>1, <3>2, ReturnScalars DEF Reply
  <2>2. ASSUME NEW p \in toClient, ReceiveStart(p) \/ ReceiveRevoke(p) \/ ReceiveDisconnect(p)
        PROVE  Scalars'
    BY <2>2 DEF ReceiveStart, ReceiveRevoke, ReceiveDisconnect, Scalars, Reading
  <2>3. CASE ReceiveAudio \/ ExpireRemote \/ ReadFails
    BY <2>3 DEF ReceiveAudio, ExpireRemote, ReadFails, Fails, Scalars
  <2> QED
    BY <1>2, <2>1, <2>2, <2>3 DEF processLoop
<1>3. CASE Age
  BY <1>3 DEF Age, Scalars
<1>4. ASSUME NEW q \in pending, TimesOut(q) PROVE Scalars'
  <2>1. q.stream \in Nat /\ Reading
    BY DEF Waits, Sent
  <2> QED
    BY <1>4, <2>1, ReturnScalars DEF TimesOut
<1>5. CASE KeepaliveTick
  BY <1>5, SendScalars DEF KeepaliveTick, Scalars
<1>6. ASSUME NEW q, NEW next \in {"up", "closing"}, Begin(q, next) PROVE Scalars'
  <2>1. requests' \in 0 .. MaxTx
    BY <1>6 DEF Begin, Scalars
  <2> QED
    BY <1>6, <2>1, SendScalars DEF Begin
<1>7. CASE RequestFloor \/ EndFloor \/ Disconnect
  BY <1>6, <1>7 DEF RequestFloor, EndFloor, Disconnect, Begin
<1>8. CASE ServerStep
  BY <1>8, ServerLeaves DEF Scalars
<1>9. CASE UNCHANGED vars
  BY <1>9, Stutter DEF Everything, Scalars
<1> QED
  BY <1>1, <1>2, <1>3, <1>4, <1>5, <1>7, <1>8, <1>9 DEF Next, SomeTimesOut

-----------------------------------------------------------------------------
(* What the client has sent.                                               *)

\* A request that the application or Close adds: of this session, with a
\* number of its own.
Added(q) ==
    /\ q \in [type : Transacted, kind : {"request"}, session : {session},
              stream : Nat, tx : {NextTx}]
    /\ (q.type = "DISCONNECT") <=> (q.stream = 0)
    /\ conn = "up" /\ requests' = requests + 1
    /\ q.type = "STREAM_REQUEST" => Outstanding({"STREAM_REQUEST", "STREAM_END"}) = {}
                                    /\ local = 0

\* What a step adds to the packets sent.
LEMMA SentStep ==
    ASSUME Scalars, Answers, Welcome, [Next]_vars
    PROVE  /\ requests' \in {requests, requests + 1}
           /\ \A q, r \in toServer' \ toServer : q = r
           /\ \A q \in toServer' \ toServer :
                 \/ /\ q \in [type : Handshakes, kind : {"request"}, session : {0},
                              stream : {0}, tx : 1 .. MaxConnects]
                    /\ requests' = requests
                 \/ q = Keepalive(session') /\ session' \in Me /\ requests' = requests
                 \/ Added(q)
<1> DEFINE Goal == /\ requests' \in {requests, requests + 1}
                   /\ \A q, r \in toServer' \ toServer : q = r
                   /\ \A q \in toServer' \ toServer :
                         \/ /\ q \in [type : Handshakes, kind : {"request"}, session : {0},
                                      stream : {0}, tx : 1 .. MaxConnects]
                            /\ requests' = requests
                         \/ q = Keepalive(session') /\ session' \in Me /\ requests' = requests
                         \/ Added(q)
<1> SUFFICES Goal
  OBVIOUS
<1> USE SessionAssumption DEF connecting, sending, receiving, network, server
<1>0. Reading => session \in Me
  BY DEF Welcome, Seen
<1>1. CASE handshake
  <2>1. CASE Connect
    BY <2>1 DEF Connect, Scalars, Request, Packet, Handshakes
  <2>2. CASE ConnectUnread \/ ConnectFails
    BY <2>2 DEF ConnectUnread, ConnectFails
  <2>3. ASSUME NEW p \in toClient, Challenged(p) PROVE Goal
    BY <2>3 DEF Challenged, Scalars, Request, Packet, Handshakes
  <2>4. ASSUME NEW p \in toClient, Welcomed(p) PROVE Goal
    BY <2>4 DEF Welcomed, Awaited, Answers, Formed
  <2>5. ASSUME NEW p \in toClient, Confirmed(p) PROVE Goal
    BY <2>5 DEF Confirmed
  <2> QED
    BY <1>1, <2>1, <2>2, <2>3, <2>4, <2>5 DEF handshake
<1>2. CASE processLoop
  <2>1. ASSUME NEW p \in toClient, NEW q \in pending, Reply(p, q) PROVE Goal
    BY <2>1 DEF Reply, Forget
  <2>2. ASSUME NEW p \in toClient, ReceiveStart(p) \/ ReceiveRevoke(p) \/ ReceiveDisconnect(p)
        PROVE  Goal
    BY <2>2 DEF ReceiveStart, ReceiveRevoke, ReceiveDisconnect
  <2>3. CASE ReceiveAudio \/ ExpireRemote \/ ReadFails
    BY <2>3 DEF ReceiveAudio, ExpireRemote, ReadFails
  <2> QED
    BY <1>2, <2>1, <2>2, <2>3 DEF processLoop
<1>3. CASE Age \/ SomeTimesOut
  BY <1>3 DEF Age, SomeTimesOut, TimesOut
<1>5. CASE KeepaliveTick
  BY <1>0, <1>5 DEF KeepaliveTick, Send, Reading
<1>6. CASE RequestFloor
  <2>1. Added(Request("STREAM_REQUEST", session, NextStream, NextTx))
    BY <1>6 DEF RequestFloor, Begin, Added, Request, Packet, NextStream, Scalars, Transacted
  <2> QED
    BY <1>6, <2>1 DEF RequestFloor, Begin, Send
<1>7. CASE EndFloor
  <2>1. Added(Request("STREAM_END", session, local, NextTx))
    BY <1>7 DEF EndFloor, Begin, Added, Request, Packet, Scalars, Transacted
  <2> QED
    BY <1>7, <2>1 DEF EndFloor, Begin, Send
<1>8. CASE Disconnect
  <2>1. Added(Request("DISCONNECT", session, 0, NextTx))
    BY <1>8 DEF Disconnect, Begin, Added, Request, Packet, Scalars, Transacted
  <2> QED
    BY <1>8, <2>1 DEF Disconnect, Begin, Send
<1>9. CASE ServerStep
  BY <1>9, ServerLeaves
<1>10. CASE UNCHANGED vars
  BY <1>10, Stutter DEF Everything
<1> QED
  BY <1>1, <1>2, <1>3, <1>5, <1>6, <1>7, <1>8, <1>9, <1>10 DEF Next

\* Every step keeps the form of the requests, and their numbers apart.
LEMMA NextSent ==
    ASSUME Scalars, Scalars', Served, Sent, Answers, Numbered, Welcome, [Next]_vars
    PROVE  Sent' /\ Numbered'
<1> USE SessionAssumption
<1>0. /\ requests \in Nat /\ requests' \in 0 .. MaxTx /\ MaxTx \in Nat /\ MaxConnects \in Nat
      /\ requests' \in {requests, requests + 1} /\ session \in 0 .. MaxConnects
  BY SentStep DEF Scalars
<1>1. \A i \in Me : Seen(i) => Seen(i)'
  BY SeenStays
<1>2. conn = "up" => Seen(session)
  BY DEF Welcome, Reading
<1>3. \A q \in toServer' : q \in toServer \/ q \notin toServer
  OBVIOUS
<1>4. Sent'
  <2> SUFFICES ASSUME NEW q \in toServer'
               PROVE  /\ q \in [type : Handshakes \cup Transacted \cup {"KEEPALIVE"},
                                kind : {"request"}, session : 0 .. MaxConnects,
                                stream : Nat, tx : Nat]
                      /\ q.type \in Handshakes => q.session = 0 /\ q.stream = 0
                                                  /\ q.tx \in 1 .. MaxConnects
                      /\ q.type = "KEEPALIVE" => q.session \in Me /\ q.stream = 0 /\ q.tx = KeepTx
                      /\ q.type \in Transacted =>
                            /\ Seen(q.session)'
                            /\ q.tx \in MaxConnects + 1 .. MaxConnects + requests'
                            /\ (q.type = "DISCONNECT") <=> (q.stream = 0)
    BY DEF Sent
  <2>1. CASE q \in toServer
    <3>1. q.type \in Transacted => Seen(q.session)'
      BY <1>1, <2>1 DEF Sent, Seen
    <3> QED
      BY <1>0, <2>1, <3>1 DEF Sent
  <2>2. CASE q \in [type : Handshakes, kind : {"request"}, session : {0},
                    stream : {0}, tx : 1 .. MaxConnects]
    BY <2>2 DEF Handshakes, Transacted
  <2>3. CASE q = Keepalive(session') /\ session' \in Me
    BY <2>3, <1>0 DEF Keepalive, Request, Packet, Me, KeepTx, Handshakes, Transacted
  <2>4. CASE Added(q)
    <3>1. Seen(q.session)'
      BY <1>1, <1>2, <2>4 DEF Added, Seen
    <3>2. q.tx \in MaxConnects + 1 .. MaxConnects + requests'
      BY <1>0, <2>4 DEF Added, NextTx
    <3> QED
      BY <1>0, <2>4, <3>1, <3>2 DEF Added, Transacted, Handshakes
  <2> QED
    BY <2>1, <2>2, <2>3, <2>4, SentStep
<1>5. Numbered'
  <2> SUFFICES ASSUME NEW q \in toServer', NEW r \in toServer', q.type \in Transacted,
                      r.type \in Transacted, q.tx = r.tx
               PROVE  q = r
    BY DEF Numbered
  <2>1. \A s \in toServer' : s.type \in Transacted =>
           \/ s \in toServer /\ s.tx < NextTx
           \/ s \notin toServer /\ Added(s) /\ s.tx = NextTx
    <3> TAKE s \in toServer'
    <3>1. CASE s \in toServer
      BY <1>0, <3>1 DEF Sent, NextTx
    <3>2. CASE s \notin toServer
      BY <3>2, SentStep DEF Added, Keepalive, Request, Packet, Handshakes, Transacted
    <3> QED
      BY <3>1, <3>2
  <2>2. CASE q \in toServer /\ r \in toServer
    BY <2>2 DEF Numbered
  <2>3. CASE q \notin toServer /\ r \notin toServer
    BY <2>3, SentStep
  <2> QED
    BY <1>0, <2>1, <2>2, <2>3 DEF NextTx
<1> QED
  BY <1>4, <1>5

-----------------------------------------------------------------------------
(* What the server has answered.                                           *)

\* What a step of the server adds is of that form in the state it leads to.
LEMMA AnswersStep ==
    ASSUME Scalars, Served, Served', Sent, ServerStep
    PROVE  \A p \in toClient' \ toClient : Formed(p)'
<1> USE SessionAssumption DEF Tell
<1>0. Me \subseteq Nat \ {0} /\ MaxConnects \in Nat
  BY DEF Me
<1>a. \A key \in Keys : key.owner # 0 /\ key.stream # 0 =>
                            Formed(Start(key))' /\ Formed(Revoke(key))'
  BY DEF Start, Revoke, Notification, Request, Packet, Formed, Answered, Keys
<1>1. ASSUME NEW q \in toServer, Serve(q)
      PROVE  \A p \in toClient' \ toClient : Formed(p)'
  <2> USE <1>1
  <2>0. /\ q.session \in Nat /\ q.stream \in Nat /\ q.tx \in Nat
        /\ q.type \in Handshakes => q.session = 0 /\ q.stream = 0 /\ q.tx \in 1 .. MaxConnects
        /\ q.type = "KEEPALIVE" => q.session \in Me /\ q.stream = 0 /\ q.tx = KeepTx
        /\ q.type \in Transacted => /\ q.session \in Me /\ q.tx \in TxRange
                                    /\ (q.type = "DISCONNECT") <=> (q.stream = 0)
    BY DEF Sent, Scalars, TxRange, Seen
  <2>1. CASE ServeHello(q)
    BY <2>0, <2>1, <1>0 DEF ServeHello, Answer, Response, Packet, Formed, Handshakes, Answered
  <2>2. CASE ServeAuthenticate(q)
    BY <2>0, <2>2, <1>0 DEF ServeAuthenticate, Answer, Response, Packet, Formed, Handshakes,
                            Answered
  <2>3. CASE ServeKeepalive(q)
    <3>1. Seen(q.session)'
      BY <2>0, <2>3 DEF ServeKeepalive, InSession, Seen, Served
    <3>2. q.session \in Nat /\ q.stream = 0 /\ q.tx = KeepTx
      BY <2>0, <2>3 DEF ServeKeepalive, InSession
    <3>3. Formed(Response("KEEPALIVE", q.session, q))'
      BY <2>0, <3>1, <3>2 DEF Response, Packet, Formed, Answered
    <3>4. floor.owner \notin Me \cup {0} => \A p \in {Start(floor)} : Formed(p)'
      BY <1>a DEF Served, NoKey, Key
    <3>5. \A p \in {Response("KEEPALIVE", q.session, q)} : Formed(p)'
      BY <3>3
    <3> QED
      BY <2>3, <3>4, <3>5 DEF ServeKeepalive
  <2>4. CASE ServeRequest(q)
    BY <2>0, <2>4, <1>0 DEF ServeRequest, InSession, Answer, Response, Packet, Formed, Answered,
                            Transacted
  <2>5. CASE ServeEnd(q)
    BY <2>0, <2>5, <1>0 DEF ServeEnd, InSession, Answer, Response, Packet, Formed, Answered,
                            Transacted
  <2>6. CASE ServeDisconnect(q)
    BY <2>0, <2>6, <1>0 DEF ServeDisconnect, InSession, Answer, Response, Packet, Formed,
                            Answered, Transacted
  <2> QED
    BY <2>1, <2>2, <2>3, <2>4, <2>5, <2>6 DEF Serve
<1>2. CASE ForeignStart
  <2>1. floor' \in Keys /\ floor'.owner # 0 /\ floor'.stream # 0
    BY <1>2, ForeignKeyType DEF ForeignStart, Served
  <2>2. \A p \in {Start(floor')} : Formed(p)'
    BY <1>a, <2>1
  <2> QED
    BY <1>2, <2>2 DEF ForeignStart
<1>3. CASE StreamEnds
  <2>1. \A p \in {Revoke(floor)} : Formed(p)'
    BY <1>a, <1>3 DEF StreamEnds, Served
  <2> QED
    BY <1>3, <2>1 DEF StreamEnds
<1>4. ASSUME NEW i \in Me, SessionEnds(i)
      PROVE  \A p \in toClient' \ toClient : Formed(p)'
  BY <1>0, <1>4 DEF SessionEnds, Request, Packet, Formed, Answered
<1> QED
  BY <1>1, <1>2, <1>3, <1>4 DEF ServerStep

\* Every step keeps the form of the server's packets.
LEMMA NextAnswers ==
    ASSUME Scalars, Served, Sent, Answers, [Next]_vars
    PROVE  Answers'
<1> USE DEF Answers
<1>3. Served' /\ \A i \in Me : Seen(i) => Seen(i)'
  BY SeenStays
<1>4. ASSUME NEW p, Formed(p) PROVE Formed(p)'
  BY <1>3, <1>4 DEF Formed, Seen
<1>5. CASE ServerStep
  BY <1>3, <1>4, <1>5, AnswersStep
<1>6. CASE ClientStep
  BY <1>4, <1>6, ClientLeaves
<1>7. CASE UNCHANGED vars
  BY <1>4, <1>7, Stutter DEF Everything
<1> QED
  BY <1>5, <1>6, <1>7 DEF Next, ClientStep

-----------------------------------------------------------------------------
(* The requests in flight.                                                 *)

\* A step that removes requests, or ends them all, and forgets no packet of
\* those that are left.
LEMMA WaitsShrink ==
    ASSUME Waits, pending' \subseteq pending, toServer' \subseteq toServer,
           pending' \subseteq toServer', session' = session,
           pending' # {} => Reading'
    PROVE  Waits'
<1>1. IsFiniteSet(pending') /\ Cardinality(pending') <= Cardinality(pending)
      /\ Cardinality(pending) \in Nat /\ Cardinality(pending') \in Nat
  BY FS_Subset, FS_CardinalityType DEF Waits
<1> QED
  BY <1>1, SessionAssumption DEF Waits

\* A failed client waits for nothing.
LEMMA WaitsFail ==
    ASSUME Waits, Fails, toServer' = toServer, session' = session
    PROVE  Waits'
  BY WaitsShrink DEF Fails, Waits

\* Sending a request.
LEMMA WaitsSend ==
    ASSUME Waits, NEW q, NEW next \in {"up", "closing"}, NEW s, Send(q, next, s),
           conn = "up", q.session = session, session' = session, q.tx \in Int,
           q.type = "STREAM_REQUEST" =>
              /\ Outstanding({"STREAM_REQUEST", "STREAM_END"}) = {}
              /\ \A r \in toServer : r.type = "STREAM_REQUEST" => r.tx <= q.tx
    PROVE  Waits'
<1>1. CASE Fails /\ UNCHANGED toServer
  BY <1>1, WaitsFail
<1>2. CASE /\ Cardinality(pending) < TokenCapacity
           /\ pending' = pending \cup {q} /\ toServer' = toServer \cup {q} /\ conn' = next
  <2>1. IsFiniteSet(pending') /\ Cardinality(pending') <= TokenCapacity
    <3>1. IsFiniteSet(pending) /\ Cardinality(pending) \in Nat /\ TokenCapacity \in Nat
      BY FS_CardinalityType, SessionAssumption DEF Waits
    <3>2. /\ IsFiniteSet(pending \cup {q})
          /\ \/ Cardinality(pending \cup {q}) = Cardinality(pending)
             \/ Cardinality(pending \cup {q}) = Cardinality(pending) + 1
      BY <3>1, FS_AddElement
    <3> QED
      BY <1>2, <3>1, <3>2
  <2>2. pending' \subseteq toServer' /\ Reading' /\ \A r \in pending' : r.session = session'
    BY <1>2 DEF Waits, Reading
  <2>3. \A r \in pending', t \in toServer' :
           r.type = "STREAM_REQUEST" /\ t.type = "STREAM_REQUEST" => t.tx <= r.tx
    BY <1>2 DEF Waits, Outstanding
  <2> QED
    BY <2>1, <2>2, <2>3 DEF Waits
<1> QED
  BY <1>1, <1>2 DEF Send

\* Returning from a request while its packets are kept.
LEMMA WaitsReturn ==
    ASSUME Waits, NEW q \in pending, NEW granted, NEW failed, Return(q, granted, failed),
           toServer' = toServer, session' = session
    PROVE  Waits'
<1>1. pending' \subseteq pending /\ (pending' # {} => Reading')
  BY DEF Return, Fails, Waits, Reading
<1> QED
  BY <1>1, WaitsShrink DEF Waits

\* Every step keeps what is known of the requests in flight.
LEMMA NextWaits ==
    ASSUME Scalars, Sent, Waits, Welcome, [Next]_vars
    PROVE  Waits'
<1> USE SessionAssumption DEF connecting, sending, receiving, network, server
<1>0. ~Reading => pending = {}
  BY DEF Waits
<1>1. CASE handshake
  <2>1. pending = {} /\ pending' = {}
    BY <1>0, <1>1 DEF handshake, Connect, ConnectUnread, ConnectFails, Challenged, Welcomed,
                      Confirmed, Reading
  <2> QED
    BY <2>1, FS_EmptySet DEF Waits
<1>2. CASE processLoop
  <2>1. ASSUME NEW p \in toClient, NEW q \in pending, Reply(p, q) PROVE Waits'
    <3>1. CASE q.type # "KEEPALIVE"
      BY <2>1, <3>1, WaitsReturn DEF Reply
    <3>2. CASE q.type = "KEEPALIVE"
      <4>1. pending' \subseteq pending \ {q} /\ (pending' # {} => Reading')
        BY <2>1, <3>2 DEF Reply, Return, Fails, Reading
      <4>2. \A r \in pending : r.tx = KeepTx => r = q
        BY <3>2 DEF Waits, Sent, Scalars, Handshakes, Transacted, KeepTx
      <4>3. toServer' = Forget(toServer) /\ session' = session
        BY <2>1, <3>2 DEF Reply
      <4>4. pending' \subseteq toServer'
        BY <4>1, <4>2, <4>3 DEF Forget, Waits
      <4> QED
        BY <4>1, <4>3, <4>4, WaitsShrink DEF Forget
    <3> QED
      BY <3>1, <3>2
  <2>2. ASSUME NEW p \in toClient, ReceiveStart(p) \/ ReceiveRevoke(p) \/ ReceiveDisconnect(p)
        PROVE  Waits'
    <3>1. /\ pending' \subseteq pending /\ toServer' = toServer /\ session' = session
          /\ pending' # {} => Reading'
      BY <2>2 DEF ReceiveStart, ReceiveRevoke, ReceiveDisconnect, Reading
    <3> QED
      BY <3>1, WaitsShrink DEF Waits
  <2>3. CASE ReadFails
    BY <2>3, WaitsFail DEF ReadFails
  <2>4. CASE ReceiveAudio \/ ExpireRemote
    BY <2>4 DEF ReceiveAudio, ExpireRemote, Waits, Reading
  <2> QED
    BY <1>2, <2>1, <2>2, <2>3, <2>4 DEF processLoop
<1>3. CASE Age
  BY <1>3 DEF Age, Waits, Reading
<1>4. ASSUME NEW q \in pending, TimesOut(q) PROVE Waits'
  BY <1>4, WaitsReturn DEF TimesOut
<1>5. CASE KeepaliveTick
  <2>1. /\ Keepalive(session).session = session /\ Keepalive(session).tx \in Int
        /\ Keepalive(session).type # "STREAM_REQUEST"
    BY DEF Keepalive, Request, Packet, KeepTx
  <2> QED
    BY <1>5, <2>1, WaitsSend DEF KeepaliveTick
<1>6. ASSUME NEW q, NEW next \in {"up", "closing"}, Begin(q, next), q.session = session,
             q.tx = NextTx,
             q.type = "STREAM_REQUEST" => Outstanding({"STREAM_REQUEST", "STREAM_END"}) = {}
      PROVE  Waits'
  <2>1. \A r \in toServer : r.type = "STREAM_REQUEST" => r.tx <= q.tx
    BY <1>6 DEF Sent, Scalars, Transacted, NextTx
  <2>2. q.tx \in Int
    BY <1>6 DEF NextTx, Scalars
  <2> QED
    BY <1>6, <2>1, <2>2, WaitsSend DEF Begin
<1>7. CASE RequestFloor \/ EndFloor \/ Disconnect
  BY <1>6, <1>7 DEF RequestFloor, EndFloor, Disconnect, Begin, Request, Packet
<1>8. CASE ServerStep
  BY <1>8, ServerLeaves DEF Waits, Reading
<1>9. CASE UNCHANGED vars
  BY <1>9, Stutter DEF Everything, Waits, Reading
<1> QED
  BY <1>1, <1>2, <1>3, <1>4, <1>5, <1>7, <1>8, <1>9 DEF Next, SomeTimesOut

-----------------------------------------------------------------------------
(* The session, and the grant under which the client transmits.            *)

\* A client that reads had been reading or has just been confirmed.
LEMMA NextWelcome ==
    ASSUME Scalars, Served, Sent, Answers, Waits, Welcome, [Next]_vars
    PROVE  Welcome'
<1> USE SessionAssumption DEF connecting, sending, receiving, network, server
<1> DEFINE Offered == \E p \in toClient : p.type = "WELCOME" /\ p.session = session /\ p.tx = tx
<1>a. \A i \in Me : Seen(i) => Seen(i)'
  BY SeenStays
<1>b. /\ conn \in {"confirm", "up", "closing"} => Offered
      /\ Reading => Seen(session) /\ session \in Me
      /\ pending # {} => Reading
  BY DEF Welcome, Seen, Waits
\* The session stays; the client goes on or stops reading.
<1>c. ASSUME session' = session, tx' = tx, toClient' = toClient,
             \/ conn' = conn
             \/ conn' \notin {"confirm", "up", "closing"}
             \/ conn = "up" /\ conn' = "closing"
      PROVE  Welcome'
  BY <1>a, <1>b, <1>c DEF Welcome, Reading
<1>1. CASE handshake
  <2>1. CASE Connect
    BY <2>1 DEF Connect, Welcome, Reading
  <2>2. CASE ConnectUnread \/ ConnectFails
    BY <1>c, <2>2 DEF ConnectUnread, ConnectFails
  <2>3. ASSUME NEW p \in toClient, Challenged(p) PROVE Welcome'
    BY <1>c, <2>3 DEF Challenged
  <2>4. ASSUME NEW p \in toClient, Welcomed(p) PROVE Welcome'
    BY <2>4 DEF Welcomed, Awaited, Welcome, Reading
  <2>5. ASSUME NEW p \in toClient, Confirmed(p) PROVE Welcome'
    <3>1. Seen(session)
      BY <2>5 DEF Confirmed, Awaited, Answers, Formed
    <3>2. Seen(session') /\ phase' = phase /\ session' = session /\ tx' = tx /\ conn' = "up"
      BY <2>5, <3>1 DEF Confirmed
    <3>3. PICK r \in toClient : r.type = "WELCOME" /\ r.session = session /\ r.tx = tx
      BY <1>b, <2>5 DEF Confirmed
    <3>4. r \in toClient'
      BY <2>5, <3>3 DEF Confirmed
    <3> QED
      BY <3>2, <3>3, <3>4 DEF Welcome, Seen
  <2> QED
    BY <1>1, <2>1, <2>2, <2>3, <2>4, <2>5 DEF handshake
<1>2. CASE processLoop
  <2>1. ASSUME NEW p \in toClient, NEW q \in pending, Reply(p, q) PROVE Welcome'
    <3>1. /\ session' = session /\ tx' = tx /\ Reading
          /\ conn' = conn \/ conn' \in {"closed", "failed"}
      BY <2>1 DEF Reply, Return, Fails
    <3>2. PICK r \in toClient : r.type = "WELCOME" /\ r.session = session /\ r.tx = tx
      BY <1>b, <3>1 DEF Reading
    <3>3. r.tx # KeepTx
      BY <3>2 DEF Scalars, KeepTx
    <3>4. r \in toClient'
      BY <2>1, <3>3 DEF Reply, Forget
    <3> QED
      BY <1>a, <1>b, <3>1, <3>2, <3>4 DEF Welcome, Reading
  <2>2. ASSUME NEW p \in toClient, ReceiveStart(p) \/ ReceiveRevoke(p) \/ ReceiveDisconnect(p)
        PROVE  Welcome'
    BY <1>c, <2>2 DEF ReceiveStart, ReceiveRevoke, ReceiveDisconnect
  <2>3. CASE ReceiveAudio \/ ExpireRemote \/ ReadFails
    BY <1>c, <2>3 DEF ReceiveAudio, ExpireRemote, ReadFails, Fails
  <2> QED
    BY <1>2, <2>1, <2>2, <2>3 DEF processLoop
<1>3. CASE Age
  BY <1>c, <1>3 DEF Age
<1>4. ASSUME NEW q \in pending, TimesOut(q) PROVE Welcome'
  BY <1>c, <1>4 DEF TimesOut, Return, Fails
<1>5. CASE KeepaliveTick
  BY <1>c, <1>5 DEF KeepaliveTick, Send, Fails
<1>6. CASE RequestFloor \/ EndFloor \/ Disconnect
  BY <1>c, <1>6 DEF RequestFloor, EndFloor, Disconnect, Begin, Send, Fails, Reading
<1>7. CASE ServerStep
  BY <1>a, <1>b, <1>7, ServerLeaves DEF Welcome, Reading
<1>8. CASE UNCHANGED vars
  BY <1>c, <1>8, Stutter DEF Everything
<1> QED
  BY <1>1, <1>2, <1>3, <1>4, <1>5, <1>6, <1>7, <1>8 DEF Next, SomeTimesOut

\* Only ServeRequest grants.
LEMMA NextGranted ==
    ASSUME Scalars, Sent, Answers, Waits, Granted, [Next]_vars
    PROVE  Granted'
<1> USE SessionAssumption DEF connecting, sending, receiving, network, server
<1>a. ASSUME UNCHANGED <<toClient, done>>, toServer \subseteq toServer'
      PROVE  Granted'
  BY <1>a DEF Granted
<1>1. CASE handshake
  <2>1. CASE Connect \/ ConnectUnread \/ ConnectFails
             \/ \E p \in toClient : Challenged(p) \/ Welcomed(p)
    BY <1>a, <2>1 DEF Connect, ConnectUnread, ConnectFails, Challenged, Welcomed
  <2>2. ASSUME NEW p \in toClient, Confirmed(p) PROVE Granted'
    <3>1. \A r \in toClient' : r \in toClient /\ (r.type = "WELCOME" \/ r.tx = 0)
      BY <2>2 DEF Confirmed
    <3>2. \A r \in toClient : r.type = "STREAM_GRANT" => r.tx # 0
      BY DEF Answers, Formed, Answered, TxRange
    <3>3. \A r \in toClient' : r.type # "STREAM_GRANT"
      BY <3>1, <3>2
    <3> QED
      BY <2>2, <3>3 DEF Confirmed, Granted
  <2> QED
    BY <1>1, <2>1, <2>2 DEF handshake
<1>2. CASE processLoop
  <2>1. ASSUME NEW p \in toClient, NEW q \in pending, Reply(p, q) PROVE Granted'
    <3>1. CASE q.type # "KEEPALIVE"
      BY <1>a, <2>1, <3>1 DEF Reply
    <3>2. CASE q.type = "KEEPALIVE"
      <4>1. /\ toServer' = Forget(toServer) /\ toClient' = Forget(toClient)
            /\ done' = Forget(done)
        BY <2>1, <3>2 DEF Reply
      <4>2. \A r \in toServer : r.type = "STREAM_REQUEST" => r.tx # KeepTx
        BY DEF Sent, Scalars, Transacted, KeepTx
      <4> QED
        BY <4>1, <4>2 DEF Granted, Forget
    <3> QED
      BY <3>1, <3>2
  <2>2. ASSUME NEW p \in toClient, ReceiveStart(p) \/ ReceiveRevoke(p) \/ ReceiveDisconnect(p)
        PROVE  Granted'
    BY <1>a, <2>2 DEF ReceiveStart, ReceiveRevoke, ReceiveDisconnect
  <2>3. CASE ReceiveAudio \/ ExpireRemote \/ ReadFails
    BY <1>a, <2>3 DEF ReceiveAudio, ExpireRemote, ReadFails
  <2> QED
    BY <1>2, <2>1, <2>2, <2>3 DEF processLoop
<1>3. CASE Age \/ SomeTimesOut
  BY <1>a, <1>3 DEF Age, SomeTimesOut, TimesOut
<1>4. CASE KeepaliveTick
  BY <1>a, <1>4 DEF KeepaliveTick, Send
<1>5. CASE RequestFloor \/ EndFloor \/ Disconnect
  BY <1>a, <1>5 DEF RequestFloor, EndFloor, Disconnect, Begin, Send
<1>6. CASE ServerStep
  <2>a. toServer' = toServer /\ done \subseteq done'
    BY <1>6, ServerLeaves
  <2>b. ASSUME done' \subseteq toServer,
               \A p \in toClient' \ toClient : p.type # "STREAM_GRANT"
        PROVE  Granted'
    BY <2>a, <2>b DEF Granted
  <2> USE DEF Tell, Answer, Granted
  <2>1. ASSUME NEW q \in toServer, Serve(q) PROVE Granted'
    <3>1. CASE ServeHello(q)
      BY <2>b, <3>1 DEF ServeHello, Response, Packet
    <3>2. CASE ServeAuthenticate(q)
      BY <2>b, <3>2 DEF ServeAuthenticate, Response, Packet
    <3>3. CASE ServeKeepalive(q)
      BY <2>b, <3>3 DEF ServeKeepalive, Response, Packet, Start, Notification, Request
    <3>4. CASE ServeRequest(q)
      <4>1. q.type = "STREAM_REQUEST" /\ done' = done \cup {q}
        BY <3>4 DEF ServeRequest, InSession
      <4>2. \A p \in toClient' : p \in toClient \/ p = Response("STREAM_GRANT", q.session, q)
                                                \/ p.type # "STREAM_GRANT"
        BY <3>4 DEF ServeRequest, Response, Packet
      <4> QED
        BY <2>a, <4>1, <4>2 DEF Granted
    <3>5. CASE ServeEnd(q)
      BY <2>b, <3>5 DEF ServeEnd, Response, Packet
    <3>6. CASE ServeDisconnect(q)
      BY <2>b, <3>6 DEF ServeDisconnect, Response, Packet
    <3> QED
      BY <2>1, <3>1, <3>2, <3>3, <3>4, <3>5, <3>6 DEF Serve
  <2>2. CASE ForeignStart
    BY <2>b, <2>2 DEF ForeignStart, client, Start, Notification, Request, Packet
  <2>3. CASE StreamEnds
    BY <2>b, <2>3 DEF StreamEnds, client, Revoke, Notification, Request, Packet
  <2>4. ASSUME NEW i \in Me, SessionEnds(i) PROVE Granted'
    BY <2>b, <2>4 DEF SessionEnds, client, Request, Packet
  <2> QED
    BY <1>6, <2>1, <2>2, <2>3, <2>4 DEF ServerStep
<1>7. CASE UNCHANGED vars
  BY <1>a, <1>7, Stutter DEF Everything
<1> QED
  BY <1>1, <1>2, <1>3, <1>4, <1>5, <1>6, <1>7 DEF Next

\* A grant taken up belongs to the request in flight, which is the last one;
\* until the stream is given up there is no other.
LEMMA NextTransmits ==
    ASSUME Scalars, Sent, Answers, Numbered, Waits, Granted, TransmitsAsAnswered, [Next]_vars
    PROVE  TransmitsAsAnswered'
<1> USE SessionAssumption DEF connecting, sending, receiving, network, server
<1>a. ASSUME conn' # "up" \/ local' = 0 PROVE TransmitsAsAnswered'
  BY <1>a DEF TransmitsAsAnswered
\* The client keeps its stream and makes no new request for one.
<1>b. ASSUME conn' = "up" => conn = "up", local' # 0 => local' = local, session' = session,
             done \subseteq done', toClient \subseteq toClient',
             \A r \in toServer' \ toServer : r.type # "STREAM_REQUEST"
      PROVE  TransmitsAsAnswered'
  BY <1>b DEF TransmitsAsAnswered
<1>1. CASE handshake
  <2>1. local' = 0
    BY <1>1 DEF handshake, Connect, ConnectUnread, ConnectFails, Challenged, Welcomed, Confirmed,
                Scalars
  <2> QED
    BY <1>a, <2>1
<1>2. CASE processLoop
  <2>1. ASSUME NEW p \in toClient, NEW q \in pending, Reply(p, q) PROVE TransmitsAsAnswered'
    <3>1. CASE p.type = "STREAM_GRANT"
      <4>1. q.type = "STREAM_REQUEST" /\ p.tx = q.tx
        BY <2>1, <3>1 DEF Reply, Matches, Wants, Waits, Sent, Handshakes, Transacted
      <4>2. /\ local' = q.stream /\ conn' = conn
            /\ UNCHANGED <<toServer, toClient, done, session>>
        BY <2>1, <3>1, <4>1 DEF Reply, Return
      <4>3. PICK r \in done : /\ r.type = "STREAM_REQUEST"
                              /\ p = Response("STREAM_GRANT", r.session, r)
        BY <3>1 DEF Granted
      <4>4. r.tx = q.tx /\ r \in toServer /\ q \in toServer
        BY <4>1, <4>3 DEF Response, Packet, Granted, Waits
      <4>5. r = q
        BY <4>1, <4>3, <4>4 DEF Numbered, Transacted
      <4>6. q.session = session /\ \A t \in toServer : t.type = "STREAM_REQUEST" => t.tx <= q.tx
        BY <4>1 DEF Waits
      <4>7. q \in done' /\ Response("STREAM_GRANT", session', q) \in toClient'
        BY <4>2, <4>3, <4>5, <4>6
      <4> QED
        BY <4>1, <4>2, <4>6, <4>7 DEF TransmitsAsAnswered
    <3>2. CASE p.type # "STREAM_GRANT"
      <4>1. /\ conn' = "up" => conn = "up"
            /\ local' # 0 => local' = local
            /\ session' = session /\ toServer' \subseteq toServer
        BY <2>1, <3>2 DEF Reply, Return, Fails, Forget
      <4>2. CASE q.type # "KEEPALIVE"
        BY <1>b, <2>1, <4>1, <4>2 DEF Reply
      <4>3. CASE q.type = "KEEPALIVE"
        <5>1. toClient' = Forget(toClient) /\ done' = Forget(done)
          BY <2>1, <4>3 DEF Reply
        <5>2. \A r \in done : r.type = "STREAM_REQUEST" => r.tx # KeepTx
          BY DEF Granted, Sent, Scalars, Transacted, KeepTx
        <5>3. \A r \in done : r.type = "STREAM_REQUEST" =>
                 /\ r \in done'
                 /\ Response("STREAM_GRANT", session, r) \in toClient
                       => Response("STREAM_GRANT", session, r) \in toClient'
          BY <5>1, <5>2 DEF Forget, Response, Packet
        <5> QED
          BY <4>1, <5>3 DEF TransmitsAsAnswered
      <4> QED
        BY <4>2, <4>3
    <3> QED
      BY <3>1, <3>2
  <2>2. ASSUME NEW p \in toClient, ReceiveStart(p) \/ ReceiveRevoke(p) \/ ReceiveDisconnect(p)
        PROVE  TransmitsAsAnswered'
    BY <1>b, <2>2 DEF ReceiveStart, ReceiveRevoke, ReceiveDisconnect
  <2>3. CASE ReceiveAudio \/ ExpireRemote \/ ReadFails
    BY <1>b, <2>3 DEF ReceiveAudio, ExpireRemote, ReadFails, Fails
  <2> QED
    BY <1>2, <2>1, <2>2, <2>3 DEF processLoop
<1>3. CASE Age
  BY <1>b, <1>3 DEF Age
<1>4. ASSUME NEW q \in pending, TimesOut(q) PROVE TransmitsAsAnswered'
  BY <1>b, <1>4 DEF TimesOut, Return, Fails
<1>5. CASE KeepaliveTick
  <2>1. Keepalive(session).type # "STREAM_REQUEST"
    BY DEF Keepalive, Request, Packet
  <2> QED
    BY <1>b, <1>5, <2>1 DEF KeepaliveTick, Send, Fails
<1>6. CASE RequestFloor \/ EndFloor \/ Disconnect
  BY <1>a, <1>6 DEF RequestFloor, EndFloor, Disconnect, Begin, Send, Fails
<1>7. CASE ServerStep
  BY <1>b, <1>7, ServerLeaves
<1>8. CASE UNCHANGED vars
  BY <1>b, <1>8, Stutter DEF Everything
<1> QED
  BY <1>1, <1>2, <1>3, <1>4, <1>5, <1>6, <1>7, <1>8 DEF Next, SomeTimesOut

-----------------------------------------------------------------------------
(* The ring of retired streams.                                            *)

\* The slot after the last is the first.
LEMMA NextSlot ==
    ASSUME NEW c \in Nat \ {0}, NEW n \in 0 .. c - 1
    PROVE  (n + 1) % c = IF n + 1 = c THEN 0 ELSE n + 1
<1>1. \A a \in 0 .. c - 1 : a % c = a
  OBVIOUS
<1>2. c % c = 0
  OBVIOUS
<1> QED
  BY <1>1, <1>2

\* The slots of a full ring are all its places.
LEMMA Slots ==
    ASSUME NEW n \in 0 .. RetiredCapacity - 1
    PROVE  /\ \A i \in 1 .. RetiredCapacity : Slot(n, i) \in 1 .. RetiredCapacity
           /\ \A k \in 1 .. RetiredCapacity : \E i \in 1 .. RetiredCapacity : Slot(n, i) = k
<1> USE SessionAssumption DEF Slot
<1>0. RetiredCapacity \in Nat /\ n \in Nat
  OBVIOUS
<1>1. \A i \in 1 .. RetiredCapacity : Slot(n, i) \in 1 .. RetiredCapacity
  BY <1>0
<1>2. ASSUME NEW k \in 1 .. RetiredCapacity
      PROVE  \E i \in 1 .. RetiredCapacity : Slot(n, i) = k
  <2>1. CASE k > n
    <3>1. k - n \in 1 .. RetiredCapacity /\ Slot(n, k - n) = k
      BY <1>0, <2>1
    <3> QED
      BY <3>1
  <2>2. CASE ~(k > n)
    <3>1. /\ (k + RetiredCapacity) - n \in 1 .. RetiredCapacity
          /\ Slot(n, (k + RetiredCapacity) - n) = k
      BY <1>0, <2>2
    <3> QED
      BY <3>1
  <2> QED
    BY <2>1, <2>2
<1> QED
  BY <1>1, <1>2

\* The ring and the list have the same elements.
LEMMA SameElements == Ring => ToSet(queue) = ToSet(retired)
<1> SUFFICES ASSUME Ring PROVE ToSet(queue) = ToSet(retired)
  OBVIOUS
<1> USE DEF ToSet
<1>0. /\ Len(queue) \in Nat /\ Len(retired) = Len(queue) /\ RetiredCapacity \in Nat
      /\ Len(retired) <= RetiredCapacity /\ retiredNext \in 0 .. RetiredCapacity - 1
      /\ DOMAIN queue = 1 .. Len(queue) /\ DOMAIN retired = 1 .. Len(queue)
  BY SessionAssumption DEF Ring
<1>1. CASE Len(retired) < RetiredCapacity
  BY <1>0, <1>1 DEF Ring
<1>2. CASE Len(retired) = RetiredCapacity
  <2>1. \A i \in 1 .. RetiredCapacity : queue[i] = retired[Slot(retiredNext, i)]
    BY <1>0, <1>2 DEF Ring
  <2>2. /\ \A i \in 1 .. RetiredCapacity : Slot(retiredNext, i) \in 1 .. RetiredCapacity
        /\ \A k \in 1 .. RetiredCapacity :
              \E i \in 1 .. RetiredCapacity : Slot(retiredNext, i) = k
    BY <1>0, Slots
  <2> QED
    BY <1>0, <1>2, <2>1, <2>2
<1>3. Len(retired) < RetiredCapacity \/ Len(retired) = RetiredCapacity
  <2>1. Len(retired) \in Nat /\ Len(retired) <= RetiredCapacity /\ RetiredCapacity \in Nat
    BY SessionAssumption DEF Ring
  <2> QED
    BY <2>1
<1> QED
  BY <1>1, <1>2, <1>3

\* Retiring an identity keeps the ring a picture of the list.
LEMMA RetireKeeps ==
    ASSUME Ring, NEW key \in Keys, retire(key), Remember(key), remote' \in Keys,
           stale' \in BOOLEAN
    PROVE  Ring'
<1>0. /\ Len(queue) \in Nat /\ Len(retired) = Len(queue) /\ RetiredCapacity \in Nat \ {0}
      /\ retiredNext \in 0 .. RetiredCapacity - 1
      /\ retired \in Seq(Keys) /\ queue \in Seq(Keys)
      /\ Len(retired) <= RetiredCapacity
  BY SessionAssumption DEF Ring
<1>1. CASE key = NoKey \/ isRetired(key)
  <2>1. UNCHANGED <<retired, retiredNext>>
    BY <1>1 DEF retire
  <2>2. queue' = queue
    BY <1>1, SameElements DEF Remember, isRetired
  <2> QED
    BY <2>1, <2>2 DEF Ring
<1>2. CASE ~(key = NoKey \/ isRetired(key)) /\ Len(retired) < RetiredCapacity
  <2>1. retired' = Append(retired, key) /\ retiredNext' = retiredNext /\ retiredNext = 0
    BY <1>2 DEF retire, Ring
  <2>2. Len(Append(queue, key)) = Len(queue) + 1
    BY <1>0, AppendProperties
  <2>3. queue' = Append(queue, key)
    BY <1>0, <1>2, <2>2, SameElements DEF Remember, isRetired
  <2>4. \A i \in 1 .. Len(queue) : queue[i] = retired[i]
    BY <1>2 DEF Ring
  <2>5. \A i \in 1 .. Len(queue) + 1 : queue'[i] = retired'[i]
    BY <1>0, <2>1, <2>3, <2>4, AppendProperties
  <2>6. \A i \in 1 .. RetiredCapacity : Slot(0, i) = i
    BY <1>0 DEF Slot
  <2>7. /\ retired' \in Seq(Keys) /\ queue' \in Seq(Keys)
        /\ Len(retired') = Len(queue) + 1 /\ Len(queue') = Len(queue) + 1
    BY <1>0, <2>1, <2>3, AppendProperties
  <2>8. Len(retired') <= RetiredCapacity
    BY <1>0, <1>2, <2>7
  <2>9. \A i \in 1 .. Len(queue') :
           queue'[i] = retired'[IF Len(retired') < RetiredCapacity THEN i
                                ELSE Slot(retiredNext', i)]
    <3> TAKE i \in 1 .. Len(queue')
    <3>1. i \in 1 .. RetiredCapacity /\ i \in 1 .. Len(queue) + 1
      BY <1>0, <2>7, <2>8
    <3>2. Slot(retiredNext', i) = i
      BY <2>1, <2>6, <3>1
    <3> QED
      BY <2>5, <3>1, <3>2
  <2> QED
    BY <1>0, <2>1, <2>7, <2>8, <2>9 DEF Ring, Slot
<1>3. CASE ~(key = NoKey \/ isRetired(key)) /\ Len(retired) = RetiredCapacity
  <2>1. /\ retired' = [retired EXCEPT ![retiredNext + 1] = key]
        /\ retiredNext' = (retiredNext + 1) % RetiredCapacity
    BY <1>3 DEF retire
  <2>2. /\ Len(Append(queue, key)) = RetiredCapacity + 1
        /\ Append(queue, key) \in Seq(Keys) /\ Append(queue, key) # <<>>
        /\ \A i \in 1 .. RetiredCapacity : Append(queue, key)[i] = queue[i]
        /\ Append(queue, key)[RetiredCapacity + 1] = key
    <3>1. Len(queue) = RetiredCapacity
      BY <1>0, <1>3
    <3>2. /\ Append(queue, key) \in Seq(Keys) /\ Append(queue, key) # <<>>
          /\ Len(Append(queue, key)) = Len(queue) + 1
          /\ \A i \in 1 .. Len(queue) : Append(queue, key)[i] = queue[i]
          /\ Append(queue, key)[Len(queue) + 1] = key
      BY <1>0, AppendProperties
    <3> QED
      BY <3>1, <3>2
  <2>3. queue' = Tail(Append(queue, key))
    BY <1>0, <1>3, <2>2, SameElements DEF Remember, isRetired
  <2>4. /\ queue' \in Seq(Keys) /\ Len(queue') = RetiredCapacity
        /\ \A i \in 1 .. RetiredCapacity : queue'[i] = Append(queue, key)[i + 1]
    BY <1>0, <2>2, <2>3, HeadTailProperties
  <2>5. /\ retired' \in Seq(Keys) /\ Len(retired') = RetiredCapacity
        /\ \A k \in 1 .. RetiredCapacity :
              retired'[k] = IF k = retiredNext + 1 THEN key ELSE retired[k]
    BY <1>0, <1>3, <2>1, ExceptSeq
  <2>6. retiredNext' = IF retiredNext + 1 = RetiredCapacity THEN 0 ELSE retiredNext + 1
    BY <1>0, <2>1, NextSlot
  <2>7. \A i \in 1 .. RetiredCapacity : queue'[i] = retired'[Slot(retiredNext', i)]
    <3> TAKE i \in 1 .. RetiredCapacity
    <3>1. CASE i = RetiredCapacity
      <4>1. Slot(retiredNext', i) = retiredNext + 1
        BY <1>0, <2>6, <3>1 DEF Slot
      <4> QED
        BY <1>0, <2>2, <2>4, <2>5, <3>1, <4>1
    <3>2. CASE i # RetiredCapacity
      <4>1. /\ Slot(retiredNext', i) = Slot(retiredNext, i + 1)
            /\ Slot(retiredNext, i + 1) # retiredNext + 1
            /\ Slot(retiredNext, i + 1) \in 1 .. RetiredCapacity
        BY <1>0, <2>6, <3>2 DEF Slot
      <4>2. i + 1 \in 1 .. RetiredCapacity
        BY <1>0, <3>2
      <4>3. queue[i + 1] = retired[Slot(retiredNext, i + 1)]
        BY <1>0, <1>3, <4>2 DEF Ring
      <4> QED
        BY <2>2, <2>4, <2>5, <4>1, <4>2, <4>3
    <3> QED
      BY <3>1, <3>2
  <2>8. retiredNext' \in 0 .. RetiredCapacity - 1
    BY <1>0, <2>6
  <2> QED
    BY <1>0, <2>4, <2>5, <2>7, <2>8 DEF Ring
<1> QED
  BY <1>0, <1>1, <1>2, <1>3

\* The stream a START or a REVOKE names is one, and not NoKey.
LEMMA KeyOfType ==
    ASSUME Answers, NEW p \in toClient, p.type \in {"STREAM_START", "STREAM_REVOKE"}
    PROVE  /\ KeyOf(p) \in Keys /\ KeyOf(p) # NoKey
           /\ p.type = "STREAM_REVOKE" => p = Revoke(KeyOf(p))
  BY DEF Answers, Formed, KeyOf, Key, Keys, NoKey, Revoke, Notification, Request, Packet

\* Every step keeps the ring a picture of the list.
LEMMA NextRing ==
    ASSUME Answers, Ring, [Next]_vars
    PROVE  Ring'
<1> USE DEF connecting, sending, receiving, network, server
<1>a. ASSUME UNCHANGED <<remote, stale, retired, retiredNext, queue>> PROVE Ring'
  BY <1>a DEF Ring
<1>b. remote \in Keys /\ stale \in BOOLEAN /\ NoKey \in Keys
  BY DEF Ring, NoKey, Key, Keys
<1>1. CASE handshake
  BY <1>a, <1>1 DEF handshake, Connect, ConnectUnread, ConnectFails, Challenged, Welcomed,
                    Confirmed
<1>2. CASE processLoop
  <2>1. ASSUME NEW p \in toClient, NEW q \in pending, Reply(p, q) PROVE Ring'
    BY <1>a, <2>1 DEF Reply
  <2>2. ASSUME NEW p \in toClient, ReceiveStart(p) PROVE Ring'
    BY <1>b, <2>2, KeyOfType, RetireKeeps DEF ReceiveStart
  <2>3. ASSUME NEW p \in toClient, ReceiveRevoke(p) PROVE Ring'
    <3>1. KeyOf(p) \in Keys /\ remote' \in Keys
      BY <1>b, <2>3, KeyOfType DEF ReceiveRevoke
    <3>2. stale' \in BOOLEAN
      BY <2>3 DEF ReceiveRevoke
    <3> QED
      BY <2>3, <3>1, <3>2, RetireKeeps DEF ReceiveRevoke
  <2>4. ASSUME NEW p \in toClient, ReceiveDisconnect(p) PROVE Ring'
    BY <1>a, <2>4 DEF ReceiveDisconnect
  <2>5. CASE ReceiveAudio
    BY <2>5 DEF ReceiveAudio, Ring
  <2>6. CASE ExpireRemote
    BY <1>b, <2>6, RetireKeeps DEF ExpireRemote
  <2>7. CASE ReadFails
    BY <1>a, <2>7 DEF ReadFails
  <2> QED
    BY <1>2, <2>1, <2>2, <2>3, <2>4, <2>5, <2>6, <2>7 DEF processLoop
<1>3. CASE Age
  BY <1>3 DEF Age, Ring
<1>4. CASE SomeTimesOut \/ KeepaliveTick
  BY <1>a, <1>4 DEF SomeTimesOut, TimesOut, KeepaliveTick
<1>5. CASE RequestFloor \/ EndFloor \/ Disconnect
  BY <1>a, <1>5 DEF RequestFloor, EndFloor, Disconnect, Begin
<1>6. CASE ServerStep
  BY <1>a, <1>6, ServerLeaves
<1>7. CASE UNCHANGED vars
  BY <1>a, <1>7, Stutter DEF Everything
<1> QED
  BY <1>1, <1>2, <1>3, <1>4, <1>5, <1>6, <1>7 DEF Next

-----------------------------------------------------------------------------
(* What either end accepts.                                                *)

\* A control packet p satisfies a line of the table.
Fits(p, copy, d, at, rule) ==
    /\ rule.payload = "empty"
    /\ d \in rule.directions /\ at \in rule.phases /\ p.kind \in rule.kinds
    /\ rule.session = "zero" => p.session = 0
    /\ rule.session = "nonzero" => p.session # 0
    /\ rule.stream = "zero" => p.stream = 0
    /\ rule.stream = "nonzero" => p.stream # 0
    /\ p.kind = "response" => /\ copy = "first"
                              /\ rule.responseRequired \subseteq Extensions(Shape(p, copy))
                              /\ Extensions(Shape(p, copy))
                                    \subseteq rule.responseRequired \cup rule.optional
    /\ p.kind = "request" => /\ rule.requestRequired \subseteq Extensions(Shape(p, copy))
                             /\ Extensions(Shape(p, copy))
                                   \subseteq rule.requestRequired \cup rule.optional

\* A control packet that satisfies its line of the table is accepted.
LEMMA Fitting ==
    ASSUME NEW p, NEW copy \in {"first", "retry"}, NEW d \in Both, NEW at \in Pre \cup Admitted,
           p.type \in DOMAIN Rules, p.type \notin {"AUDIO", "DATA"}, p.kind \in Either,
           p.type \in {"STREAM_START", "STREAM_REVOKE"} => (d = "client" <=> p.kind = "response"),
           p.type = "STREAM_END" => (d = "server" <=> p.kind = "response"),
           Fits(p, copy, d, at, Rules[p.type])
    PROVE  <<Shape(p, copy), d, at>> \in Accepted
<1> DEFINE f == Full(Shape(p, copy))
           a == <<Shape(p, copy), d, at>>
<1>1. /\ f.type = p.type /\ f.session = Sign(p.session) /\ f.stream = Sign(p.stream)
      /\ f.sequence = 0 /\ f.payload = FALSE /\ f.tlvs = Extensions(Shape(p, copy))
      /\ f.flags = {x \in {p.kind, copy} : x \in {"response", "retry"}}
  BY DEF Full, Shape
<1>2. /\ "response" \in f.flags <=> p.kind = "response"
      /\ "retry" \in f.flags <=> copy = "retry"
  BY <1>1 DEF Either
<1> HIDE DEF f
<1>3. FlagsFit(f, d)
  BY <1>1, <1>2 DEF FlagsFit, Either, Both, Fits
<1>4. Valid(f, d, at)
  BY <1>1, <1>2, <1>3 DEF Valid, Fits, checkNumber, Sign, Either
<1>5. a \in Shapes \X Both \X (Pre \cup Admitted)
  BY DEF Shapes, Shape, Sign
<1>6. a[1] = Shape(p, copy) /\ a[2] = d /\ a[3] = at
  OBVIOUS
<1>7. Valid(Full(a[1]), a[2], a[3])
  BY <1>4, <1>6 DEF f
<1> QED
  BY <1>5, <1>7 DEF Accepted

\* Every request of a client, first copy or retry, in the phase it is made for.
LEMMA RequestFits ==
    ASSUME NEW p, NEW copy \in {"first", "retry"}, NEW at \in {"pre", "connected", "ready"},
           p.kind = "request", p.type \in Handshakes \cup Transacted \cup {"KEEPALIVE"},
           p.type \in Handshakes => at = "pre" /\ p.session = 0 /\ p.stream = 0,
           p.type = "KEEPALIVE" => at # "pre" /\ p.session # 0 /\ p.stream = 0,
           p.type \in Transacted => /\ at = "ready" /\ p.session # 0
                                    /\ (p.type = "DISCONNECT") <=> (p.stream = 0)
    PROVE  <<Shape(p, copy), "client", at>> \in Accepted
<1> USE DEF C, S, Both, Pre, Confirming, Admitted, Ready, KeepalivePhases, Req, Rsp, Either
<1>0. p.type \in DOMAIN Rules /\ p.type \notin {"AUDIO", "DATA"}
  BY DEF Rules, Handshakes, Transacted
<1> SUFFICES Fits(p, copy, "client", at, Rules[p.type])
  BY <1>0, Fitting DEF Handshakes, Transacted
<1> USE DEF Handshakes, Transacted, Fits, Rule, Rules, Extensions, Shape, Tx, Limit
<1>1. CASE p.type = "HELLO"
  BY <1>1
<1>2. CASE p.type = "AUTHENTICATE"
  BY <1>2
<1>3. CASE p.type = "KEEPALIVE"
  BY <1>3
<1>4. CASE p.type = "STREAM_REQUEST"
  BY <1>4
<1>5. CASE p.type = "STREAM_END"
  BY <1>5
<1>6. CASE p.type = "DISCONNECT"
  BY <1>6
<1> QED
  BY <1>1, <1>2, <1>3, <1>4, <1>5, <1>6 DEF Handshakes, Transacted

\* Every packet of the server, in the phase the client waits for it.
LEMMA AnswerFits ==
    ASSUME NEW p, Formed(p), NEW at \in {"pre", "connected", "ready"},
           p.type \in {"CHALLENGE", "WELCOME"} <=> at = "pre",
           at = "connected" => p.type = "KEEPALIVE"
    PROVE  Accepts(p, "server", at)
<1> USE DEF Me, C, S, Both, Pre, Confirming, Admitted, Ready, KeepalivePhases, Req, Rsp, Either
<1>0. p.type \in DOMAIN Rules /\ p.type \notin {"AUDIO", "DATA"}
  BY DEF Rules, Formed, Answered
<1> SUFFICES Fits(p, "first", "server", at, Rules[p.type])
  BY <1>0, Fitting DEF Accepts, Formed, Answered
<1> USE DEF Formed, Answered, Seen, Fits, Rule, Rules, Extensions, Shape, Tx, Limit
<1>1. CASE p.type = "CHALLENGE"
  BY <1>1
<1>2. CASE p.type = "WELCOME"
  BY <1>2
<1>3. CASE p.type = "KEEPALIVE"
  BY <1>3
<1>4. CASE p.type = "DISCONNECT"
  BY <1>4
<1>5. CASE p.type = "STREAM_GRANT"
  BY <1>5
<1>6. CASE p.type = "STREAM_BUSY"
  BY <1>6
<1>7. CASE p.type = "STREAM_END"
  BY <1>7
<1>8. CASE p.type = "STREAM_START"
  BY <1>8
<1>9. CASE p.type = "STREAM_REVOKE"
  BY <1>9
<1> QED
  BY <1>1, <1>2, <1>3, <1>4, <1>5, <1>6, <1>7, <1>8, <1>9 DEF Formed, Answered

\* Every acknowledgement of a notification.
LEMMA AckFits ==
    ASSUME NEW p, p.kind = "response", p.session # 0,
           p.type \in {"STREAM_START", "STREAM_REVOKE", "DISCONNECT"},
           (p.type = "DISCONNECT") <=> (p.stream = 0)
    PROVE  Accepts(p, "client", "ready")
<1> USE DEF C, S, Both, Pre, Confirming, Admitted, Ready, KeepalivePhases, Req, Rsp, Either
<1>0. p.type \in DOMAIN Rules /\ p.type \notin {"AUDIO", "DATA"}
  BY DEF Rules
<1> SUFFICES Fits(p, "first", "client", "ready", Rules[p.type])
  BY <1>0, Fitting DEF Accepts
<1> USE DEF Fits, Rule, Rules, Extensions, Shape, Tx, Limit
<1>1. CASE p.type = "STREAM_START"
  BY <1>1
<1>2. CASE p.type = "STREAM_REVOKE"
  BY <1>2
<1>3. CASE p.type = "DISCONNECT"
  BY <1>3
<1> QED
  BY <1>1, <1>2, <1>3

\* Every ERROR, with a transaction ID or without.
LEMMA ErrorFits ==
    ASSUME NEW p, p.kind = "response", p.type = "ERROR"
    PROVE  Accepts(p, "server", "ready")
<1> USE DEF C, S, Both, Pre, Confirming, Admitted, Ready, KeepalivePhases, Req, Rsp, Either
<1>0. p.type \in DOMAIN Rules /\ p.type \notin {"AUDIO", "DATA"}
  BY DEF Rules
<1> SUFFICES Fits(p, "first", "server", "ready", Rules[p.type])
  BY <1>0, Fitting DEF Accepts
<1> USE DEF Sign, Fits, Rule, Rules, Extensions, Shape, Tx, Limit
<1>1. CASE p.tx = 0
  BY <1>1
<1>2. CASE p.tx # 0
  BY <1>2
<1> QED
  BY <1>1, <1>2

-----------------------------------------------------------------------------
(* The theorems.                                                           *)

\* Every step keeps the invariant.
LEMMA NextInv == Inv /\ [Next]_vars => Inv'
<1> SUFFICES ASSUME Inv, [Next]_vars PROVE Inv'
  OBVIOUS
<1> USE DEF Inv
<1>1. Scalars' /\ Served'
  BY NextScalars, SeenStays
<1>2. Sent' /\ Numbered'
  BY <1>1, NextSent
<1>3. Answers' /\ Waits' /\ Welcome' /\ Granted'
  BY NextAnswers, NextWaits, NextWelcome, NextGranted
<1>4. TransmitsAsAnswered' /\ Ring'
  BY NextTransmits, NextRing
<1> QED
  BY <1>1, <1>2, <1>3, <1>4

\* The invariant holds in every reachable state.
LEMMA Invariance == Spec => []Inv
<1> QED
  BY InitInv, NextInv, PTL DEF Spec

\* An established client uses the session that the server made for this very
\* handshake and has confirmed, and every field stays in range.
THEOREM HandshakeAgreement == Spec => []HandshakeAgrees
<1>1. Inv => TypeOK
  BY DEF Inv, Scalars, Served, Waits, Ring, TypeOK
<1>2. Inv => HandshakeAgrees
  BY <1>1 DEF Inv, HandshakeAgrees, Welcome, Seen, Reading
<1> QED
  BY <1>2, Invariance, PTL

\* The client transmits only under a grant of the request it made last.
THEOREM TransmitsUnderGrant == Spec => []TransmitsAsAnswered
<1>1. Inv => TransmitsAsAnswered
  BY DEF Inv
<1> QED
  BY <1>1, Invariance, PTL

\* A STREAM_START never revives one of the last RetiredCapacity streams the
\* client retired: the ring holds exactly those.
THEOREM RetiredStreams == Spec => RetiredStaysRetired
<1>1. Inv /\ [Next]_vars =>
         [remote' # remote /\ remote' # NoKey => remote' \notin ToSet(queue)]_vars
  <2> SUFFICES ASSUME Inv, [Next]_vars, remote' # remote, remote' # NoKey
               PROVE  remote' \notin ToSet(queue)
    OBVIOUS
  <2>1. PICK p \in toClient : ReceiveStart(p)
    <3> USE DEF connecting, sending, receiving, network, server
    <3>1. ~ServerStep /\ ~UNCHANGED vars
      BY ServerLeaves, Stutter DEF Everything
    <3>2. ~handshake /\ ~Age /\ ~SomeTimesOut /\ ~KeepaliveTick
      BY DEF handshake, Connect, ConnectUnread, ConnectFails, Challenged, Welcomed, Confirmed,
             Age, SomeTimesOut, TimesOut, KeepaliveTick
    <3>3. ~(RequestFloor \/ EndFloor \/ Disconnect)
      BY DEF RequestFloor, EndFloor, Disconnect, Begin
    <3>4. processLoop
      BY <3>1, <3>2, <3>3 DEF Next
    <3>5. ~ReceiveAudio /\ ~ExpireRemote /\ ~ReadFails
      BY DEF ReceiveAudio, ExpireRemote, ReadFails
    <3>6. \A p \in toClient : /\ ~ReceiveRevoke(p) /\ ~ReceiveDisconnect(p)
                              /\ \A q \in pending : ~Reply(p, q)
      BY DEF ReceiveRevoke, ReceiveDisconnect, Reply
    <3> QED
      BY <3>4, <3>5, <3>6 DEF processLoop
  <2>2. remote' \notin ToSet(retired)
    BY <2>1 DEF ReceiveStart, isRetired
  <2> QED
    BY <2>2, SameElements DEF Inv
<1> QED
  BY <1>1, Invariance, PTL DEF Spec, RetiredStaysRetired

\* Receive state ends with two seconds without media or with a revoke of that
\* very stream, never with that of another.
THEOREM OwnEnds == Spec => EndsAreItsOwn
<1>1. Inv /\ [Next]_vars =>
         [remote # NoKey /\ remote' = NoKey => stale \/ Revoke(remote) \in toClient]_vars
  <2> SUFFICES ASSUME Inv, [Next]_vars, remote # NoKey, remote' = NoKey
               PROVE  stale \/ Revoke(remote) \in toClient
    OBVIOUS
  <2> USE DEF connecting, sending, receiving, network, server
  <2>1. ~ServerStep /\ ~UNCHANGED vars
    BY ServerLeaves, Stutter DEF Everything
  <2>2. ~handshake /\ ~Age /\ ~SomeTimesOut /\ ~KeepaliveTick
    BY DEF handshake, Connect, ConnectUnread, ConnectFails, Challenged, Welcomed, Confirmed,
           Age, SomeTimesOut, TimesOut, KeepaliveTick
  <2>3. ~(RequestFloor \/ EndFloor \/ Disconnect)
    BY DEF RequestFloor, EndFloor, Disconnect, Begin
  <2>4. processLoop
    BY <2>1, <2>2, <2>3 DEF Next
  <2>5. CASE ExpireRemote
    BY <2>5 DEF ExpireRemote
  <2>6. ASSUME NEW p \in toClient, ReceiveRevoke(p) PROVE Revoke(remote) \in toClient
    BY <2>6, KeyOfType DEF ReceiveRevoke, Follows, Inv
  <2>7. \A p \in toClient : /\ ~ReceiveStart(p) /\ ~ReceiveDisconnect(p)
                            /\ \A q \in pending : ~Reply(p, q)
    BY KeyOfType DEF ReceiveStart, ReceiveDisconnect, Reply, Inv
  <2>8. ~ReceiveAudio /\ ~ReadFails
    BY DEF ReceiveAudio, ReadFails
  <2> QED
    BY <2>4, <2>5, <2>6, <2>7, <2>8 DEF processLoop
<1> QED
  BY <1>1, Invariance, PTL DEF Spec, EndsAreItsOwn

\* Neither end refuses what the other means it to accept: requests and their
\* retries, replies, notifications, acknowledgements and errors all fit the
\* table of validate.go in the phase in which they are met, whatever of them
\* is late.
THEOREM NoneRefused == Spec => []NothingIsRefused
<1>1. Inv => NothingIsRefused
  <2> SUFFICES ASSUME Inv PROVE NothingIsRefused
    OBVIOUS
  <2> USE DEF Inv
  <2>0. /\ Me \subseteq Nat \ {0} /\ "pre" \notin Alive
        /\ Reading => session \in Me
    BY SessionAssumption DEF Me, Alive, Welcome, Seen
  <2>1. ASSUME NEW q \in toServer, NEW at, at = IF q.session = 0 THEN "pre" ELSE phase[q.session],
               at \in Alive \cup Pre
        PROVE  Accepts(q, "client", at) /\ AcceptsRetry(q, "client", at)
    <3>1. /\ q.type \in Handshakes \cup Transacted \cup {"KEEPALIVE"} /\ q.kind = "request"
          /\ q.type \in Handshakes => q.session = 0 /\ q.stream = 0
          /\ q.type = "KEEPALIVE" => q.session # 0 /\ q.stream = 0 /\ q.session \in Me
          /\ q.type \in Transacted => /\ q.session # 0 /\ Seen(q.session)
                                      /\ (q.type = "DISCONNECT") <=> (q.stream = 0)
      BY <2>0 DEF Sent, Seen
    <3>2. at \in {"pre", "connected", "ready"}
      BY <2>1 DEF Alive, Pre
    <3>3. /\ q.type \in Handshakes => at = "pre"
          /\ q.type = "KEEPALIVE" => at # "pre"
          /\ q.type \in Transacted => at = "ready"
      BY <2>1, <3>1 DEF Alive, Pre, Seen, Served
    <3> QED
      BY <3>1, <3>2, <3>3, RequestFits DEF Accepts, AcceptsRetry
  <2>2. ASSUME NEW p \in toClient
        PROVE  /\ p.type \in {"CHALLENGE", "WELCOME"} => Accepts(p, "server", "pre")
               /\ p.type = "KEEPALIVE" /\ conn = "confirm" => Accepts(p, "server", "connected")
               /\ Reading /\ p.type \notin {"CHALLENGE", "WELCOME"} => Accepts(p, "server", "ready")
               /\ Reading /\ p.tx = 0 /\ phase[session] = "ready" => Accepts(Ack(p), "client", "ready")
    <3>1. Formed(p)
      BY DEF Answers
    <3>2. /\ p.type \in {"CHALLENGE", "WELCOME"} => Accepts(p, "server", "pre")
          /\ p.type = "KEEPALIVE" => Accepts(p, "server", "connected")
          /\ p.type \notin {"CHALLENGE", "WELCOME"} => Accepts(p, "server", "ready")
      BY <3>1, AnswerFits
    <3>3. ASSUME Reading, p.tx = 0 PROVE Accepts(Ack(p), "client", "ready")
      <4>1. /\ p.type \in {"STREAM_START", "STREAM_REVOKE", "DISCONNECT"}
            /\ (p.type = "DISCONNECT") <=> (p.stream = 0)
        BY <3>1, <3>3, SessionAssumption DEF Formed, Answered, TxRange, KeepTx
      <4>2. /\ Ack(p).kind = "response" /\ Ack(p).session # 0
            /\ Ack(p).type = p.type /\ Ack(p).stream = p.stream
        BY <2>0, <3>3 DEF Ack, Packet
      <4> QED
        BY <4>1, <4>2, AckFits
    <3> QED
      BY <3>2, <3>3
  <2>3. ASSUME NEW q \in pending PROVE Accepts(ErrorFor(q), "server", "ready")
    <3>1. ErrorFor(q).type = "ERROR" /\ ErrorFor(q).kind = "response"
      BY DEF ErrorFor, Response, Packet
    <3> QED
      BY <3>1, ErrorFits
  <2> QED
    BY <2>1, <2>2, <2>3 DEF NothingIsRefused
<1> QED
  BY <1>1, Invariance, PTL
=============================================================================
