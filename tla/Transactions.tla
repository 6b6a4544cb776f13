---------------------------- MODULE Transactions ----------------------------
(***************************************************************************)
(* Admission and the completed-transaction cache of the state owner        *)
(* (transact, replayDisconnect, hello, authenticate and the expiry loops   *)
(* of tick in pkg/server/reflector.go).  The network may lose, repeat,     *)
(* delay and reorder: any request a client can have built may arrive at    *)
(* any time, any number of times.  The effects a request has on the floor  *)
(* and on notifications are Reflector's subject; here it matters only      *)
(* whether a request takes effect, so KEEPALIVE, STREAM_REQUEST and        *)
(* STREAM_END are one kind, "CONTROL".                                     *)
(*                                                                         *)
(* A request carries a transaction ID and a body: what its fingerprint     *)
(* adds to the cache key (client nonce, stream, callsigns...).  The RETRY  *)
(* flag is not part of it.  A wrong HMAC tag is rejected exactly like a    *)
(* wrong server nonce.  Random session IDs and nonces are drawn fresh.     *)
(***************************************************************************)
EXTENDS Integers, FiniteSets

CONSTANTS
    Ids,               \* session IDs
    Addresses,         \* UDP source addresses
    Txs,               \* transaction IDs
    Bodies,            \* the rest of a request, as far as fingerprints differ
    MaxNonces,         \* bound on the challenges ever issued
    MaxClients,        \* Limits.MaxClients
    MaxChallenges,     \* options.MaxPendingChallenges
    MaxCompleted,      \* Limits.MaxCompletedTransactions
    MaxPerSession,     \* options.MaxCompletedTransactionsPerSession
    ChallengeTimeout,  \* 10 s
    Retention,         \* 30 s
    QueueFull,         \* may EnqueueControl fail?  a set of Booleans
    Nobody             \* session ID zero, and no address

ASSUME NobodyAssumption == Nobody \notin Ids \cup Addresses
ASSUME BoundsAssumption ==
    /\ MaxNonces \in Nat
    /\ {MaxClients, MaxChallenges, MaxCompleted, MaxPerSession} \subseteq Nat \ {0}
ASSUME TimeoutsAssumption ==
    /\ ChallengeTimeout \in Nat
    /\ Retention \in Nat
    /\ ChallengeTimeout < Retention
ASSUME QueueAssumption == QueueFull \subseteq BOOLEAN

VARIABLES
    challenges,    \* r.challenges
    transactions,  \* r.transactions
    sessions,      \* the address of each peer, or Nobody
    draining,      \* drain has begun
    issued,        \* server nonces drawn so far
    welcomes,      \* history: which challenge created which session
    recent         \* history: requests that took effect in the last 30 s

vars == <<challenges, transactions, sessions, draining, issued, welcomes, recent>>

Nonces == 1 .. MaxNonces

Handshakes == [kind : {"HELLO"}, address : Addresses, session : {Nobody},
               tx : Txs, body : Bodies, nonce : {0}]
              \cup
              [kind : {"AUTHENTICATE"}, address : Addresses, session : {Nobody},
               tx : Txs, body : Bodies, nonce : Nonces]
SessionRequests == [kind : {"CONTROL", "DISCONNECT"}, address : Addresses,
                    session : Ids, tx : Txs, body : Bodies, nonce : {0}]
Requests == Handshakes \cup SessionRequests

Responses == [kind : {"CHALLENGE"}, session : {Nobody}, nonce : Nonces]
             \cup [kind : {"WELCOME", "RESULT"}, session : Ids, nonce : {0}]

Challenge == [address : Addresses, tx : Txs, body : Bodies, nonce : Nonces,
              age : 0 .. ChallengeTimeout + 1]
Completed == [request : Requests, response : Responses, age : 0 .. Retention + 1]
Effect == [request : Requests, times : 1 .. 2, age : 0 .. Retention]

-----------------------------------------------------------------------------
(* The cache.                                                              *)

Key(q) == IF q.session = Nobody THEN <<q.address, q.kind, q.tx>>
          ELSE <<q.session, q.kind, q.tx>>

Stored(q) == {t \in transactions : Key(t.request) = Key(q)}

\* Fingerprints leave out the address; replayDisconnect compares it too.
Fingerprint(q) == [q EXCEPT !.address = Nobody]
Duplicates(q) == {t \in Stored(q) : Fingerprint(t.request) = Fingerprint(q)}

Live == {i \in Ids : sessions[i] # Nobody}

\* handle and handleDrain: which requests get as far as transact.
Reaches(q) ==
    /\ q.session # Nobody => sessions[q.session] = q.address
    /\ draining => q.kind = "DISCONNECT"

\* Mutant of Replayed: only for sessions that are still there.
ReplayedToLive(q) == Duplicates(q) # {} /\ Reaches(q)

\* A request whose stored result is sent again.
Replayed(q) ==
    /\ Duplicates(q) # {}
    /\ \/ Reaches(q)
       \/ /\ ~draining
          /\ q.kind = "DISCONNECT"
          /\ \E t \in Duplicates(q) : t.request.address = q.address

OverLimit(q) ==
    \/ Cardinality(transactions) >= MaxCompleted
    \/ /\ q.session # Nobody
       /\ Cardinality({t \in transactions : t.request.session = q.session}) >= MaxPerSession

Fresh(q) == Reaches(q) /\ Stored(q) = {} /\ ~OverLimit(q)

Complete(q, response) ==
    transactions' = transactions \cup {[request |-> q, response |-> response, age |-> 0]}

\* The history of effects: a second one within the retention time counts.
TookEffect(q) ==
    LET before == {h \in recent : h.request = q}
    IN  recent' = (recent \ before) \cup
                  {[request |-> q, times |-> IF before = {} THEN 1 ELSE 2, age |-> 0]}

-----------------------------------------------------------------------------
(* The branches of transact.  full: EnqueueControl finds no room.          *)

\* replayOverload closes the session that the stored response names.
Replay(q, full) ==
    /\ Replayed(q)
    /\ \E t \in Duplicates(q) :
         LET named == t.response.session
         IN  sessions' = IF full /\ named # Nobody /\ sessions[named] = q.address
                         THEN [sessions EXCEPT ![named] = Nobody] ELSE sessions
    /\ UNCHANGED <<challenges, transactions, draining, issued, welcomes, recent>>

\* sendError: a transaction conflict or a full cache.  Without a session the
\* server stays silent; when the queue is full one session of the address
\* is closed.
Refuse(q, full) ==
    /\ Reaches(q)
    /\ Duplicates(q) = {}
    /\ Stored(q) # {} \/ OverLimit(q)
    /\ IF q.session # Nobody /\ full
       THEN \E i \in {j \in Live : sessions[j] = q.address} :
               sessions' = [sessions EXCEPT ![i] = Nobody]
       ELSE UNCHANGED sessions
    /\ UNCHANGED <<challenges, transactions, draining, issued, welcomes, recent>>

\* HELLO: the challenge and its transaction are both undone when the
\* CHALLENGE cannot be queued.
Hello(q, full) ==
    LET nonce == issued + 1
        others == {c \in challenges : <<c.address, c.tx>> # <<q.address, q.tx>>}
    IN  /\ q.kind = "HELLO"
        /\ Fresh(q)
        /\ Cardinality(challenges) < MaxChallenges
        /\ nonce <= MaxNonces
        /\ issued' = nonce
        /\ IF full
           THEN challenges' = others /\ UNCHANGED <<transactions, recent>>
           ELSE /\ challenges' = others \cup
                     {[address |-> q.address, tx |-> q.tx, body |-> q.body,
                       nonce |-> nonce, age |-> 0]}
                /\ Complete(q, [kind |-> "CHALLENGE", session |-> Nobody, nonce |-> nonce])
                /\ TookEffect(q)
        /\ UNCHANGED <<sessions, draining, welcomes>>

\* Mutant of Without: the challenge stays valid.
WithoutNone(c) == challenges
Without(c) == challenges \ {c}

\* AUTHENTICATE consumes the challenge.  A WELCOME that cannot be queued
\* costs every session of the address, the new one among them.
Authenticate(q, id, full) ==
    /\ q.kind = "AUTHENTICATE"
    /\ Fresh(q)
    /\ Cardinality(Live) < MaxClients
    /\ \A w \in welcomes : w.session # id
    /\ \E c \in challenges :
         /\ c.address = q.address /\ c.tx = q.tx
         /\ c.age <= ChallengeTimeout
         /\ c.body = q.body /\ c.nonce = q.nonce
         /\ challenges' = Without(c)
    /\ welcomes' = welcomes \cup {[nonce |-> q.nonce, session |-> id]}
    /\ TookEffect(q)
    /\ IF full
       THEN /\ sessions' = [i \in Ids |-> IF sessions[i] = q.address THEN Nobody ELSE sessions[i]]
            /\ UNCHANGED transactions
       ELSE /\ sessions' = [sessions EXCEPT ![id] = q.address]
            /\ Complete(q, [kind |-> "WELCOME", session |-> id, nonce |-> 0])
    /\ UNCHANGED <<draining, issued>>

\* Mutant of Control: the session survives the response it never gets.
ControlForgiving(q, full) ==
    /\ q.kind = "CONTROL"
    /\ Fresh(q)
    /\ TookEffect(q)
    /\ IF full THEN UNCHANGED transactions
       ELSE Complete(q, [kind |-> "RESULT", session |-> q.session, nonce |-> 0])
    /\ UNCHANGED <<challenges, sessions, draining, issued, welcomes>>

\* KEEPALIVE, STREAM_REQUEST or STREAM_END: without its response the
\* session is closed (controlOverload).
Control(q, full) ==
    /\ q.kind = "CONTROL"
    /\ Fresh(q)
    /\ TookEffect(q)
    /\ IF full
       THEN /\ sessions' = [sessions EXCEPT ![q.session] = Nobody]
            /\ UNCHANGED transactions
       ELSE /\ UNCHANGED sessions
            /\ Complete(q, [kind |-> "RESULT", session |-> q.session, nonce |-> 0])
    /\ UNCHANGED <<challenges, draining, issued, welcomes>>

\* DISCONNECT: its result is retained whether it could be queued or not.
Disconnect(q) ==
    /\ q.kind = "DISCONNECT"
    /\ Fresh(q)
    /\ TookEffect(q)
    /\ sessions' = [sessions EXCEPT ![q.session] = Nobody]
    /\ Complete(q, [kind |-> "RESULT", session |-> q.session, nonce |-> 0])
    /\ UNCHANGED <<challenges, draining, issued, welcomes>>

-----------------------------------------------------------------------------
\* Mutants of Tick: the two limits swapped; results never expire.
TickSwapped ==
    /\ challenges' = {c \in challenges : c.age <= Retention}
    /\ transactions' = {t \in transactions : t.age <= ChallengeTimeout}
    /\ UNCHANGED <<sessions, draining, issued, welcomes, recent>>
TickChallenges ==
    /\ challenges' = {c \in challenges : c.age <= ChallengeTimeout}
    /\ UNCHANGED <<transactions, sessions, draining, issued, welcomes, recent>>

\* The two expiry loops of tick.
Tick ==
    /\ challenges' = {c \in challenges : c.age <= ChallengeTimeout}
    /\ transactions' = {t \in transactions : t.age <= Retention}
    /\ UNCHANGED <<sessions, draining, issued, welcomes, recent>>

\* Time passes; an age past its limit grows no further.
Advance ==
    /\ challenges' = {[c EXCEPT !.age = IF @ > ChallengeTimeout THEN @ ELSE @ + 1]
                         : c \in challenges}
    /\ transactions' = {[t EXCEPT !.age = IF @ > Retention THEN @ ELSE @ + 1]
                         : t \in transactions}
    /\ recent' = {[h EXCEPT !.age = @ + 1] : h \in {h \in recent : h.age < Retention}}
    /\ UNCHANGED <<sessions, draining, issued, welcomes>>

\* A session ends in another handler: a timeout, an overload, the drain.
Lose(id) ==
    /\ id \in Live
    /\ sessions' = [sessions EXCEPT ![id] = Nobody]
    /\ UNCHANGED <<challenges, transactions, draining, issued, welcomes, recent>>

BeginDrain ==
    /\ draining' = TRUE
    /\ UNCHANGED <<challenges, transactions, sessions, issued, welcomes, recent>>

Init ==
    /\ challenges = {}
    /\ transactions = {}
    /\ sessions = [i \in Ids |-> Nobody]
    /\ draining = FALSE
    /\ issued = 0
    /\ welcomes = {}
    /\ recent = {}

Receive(q, full) ==
    \/ Replay(q, full)
    \/ Refuse(q, full)
    \/ Hello(q, full)
    \/ \E id \in Ids : Authenticate(q, id, full)
    \/ Control(q, full)
    \/ Disconnect(q)

Next ==
    \/ \E q \in Requests, full \in QueueFull : Receive(q, full)
    \/ Tick
    \/ Advance
    \/ \E id \in Ids : Lose(id)
    \/ BeginDrain

Safety == Init /\ [][Next]_vars

\* The ticker and the clock run.
Spec == Safety /\ WF_vars(Tick) /\ WF_vars(Advance)

-----------------------------------------------------------------------------
(* Properties.                                                             *)

\* The tables hold what their Go types hold, one entry for each key and no
\* more entries than configured.
TypeOK ==
    /\ challenges \subseteq Challenge /\ Cardinality(challenges) <= MaxChallenges
    /\ transactions \subseteq Completed /\ Cardinality(transactions) <= MaxCompleted
    /\ \A t \in transactions : Stored(t.request) = {t}
    /\ sessions \in [Ids -> Addresses \cup {Nobody}]
    /\ draining \in BOOLEAN
    /\ issued \in 0 .. MaxNonces
    /\ welcomes \subseteq [nonce : Nonces, session : Ids]
    /\ recent \subseteq Effect

\* A request takes effect at most once within the retention time, however
\* often it arrives: where a full queue makes transact forget the result,
\* the session or the challenge it could have affected again is gone too.
\* The tables are in bounds meanwhile.
AppliedOnce == TypeOK /\ \A h \in recent : h.times = 1

\* A challenge admits at most one session, at any time: neither a retried
\* AUTHENTICATE nor one that arrives after its result expired or was
\* dropped creates a second.
OneSessionPerChallenge ==
    \A v, w \in welcomes : v.nonce = w.nonce => v.session = w.session

\* While a challenge is pending, a repeated HELLO is answered from the cache
\* with the nonce that authenticate will compare, so a client that lost the
\* CHALLENGE can still complete the handshake.
ChallengeIsRepeatable ==
    \A c \in challenges :
        \E t \in transactions :
            /\ t.request.kind = "HELLO"
            /\ t.request.address = c.address
            /\ t.request.tx = c.tx
            /\ t.request.body = c.body
            /\ t.response.nonce = c.nonce

\* A repeated DISCONNECT is answered throughout the retention time although
\* its session is gone, also if the first response was never queued.  A
\* draining server is excepted: handleDrain never calls replayDisconnect.
DisconnectIsRepeatable ==
    \A h \in recent :
        h.request.kind = "DISCONNECT" /\ ~draining => Replayed(h.request)

\* A full cache or challenge table does not stay full for ever: nothing is
\* evicted to make room, but everything expires.
LimitsRecede ==
    /\ (Cardinality(transactions) = MaxCompleted) ~> (Cardinality(transactions) < MaxCompleted)
    /\ (Cardinality(challenges) = MaxChallenges) ~> (Cardinality(challenges) < MaxChallenges)
=============================================================================
