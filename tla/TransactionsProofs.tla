------------------------- MODULE TransactionsProofs -------------------------
(***************************************************************************)
(* Theorems about Transactions for any clients, limits and timeouts with   *)
(* ChallengeTimeout < Retention.  None of the four invariants of the run   *)
(* is inductive alone.  A second effect is impossible for a different      *)
(* reason for each kind of request (its result is still stored, its        *)
(* challenge is consumed, its session is gone for good), and Inv states    *)
(* those reasons; it also ties the age of a challenge to that of the       *)
(* CHALLENGE in the cache, without which tick could drop the wrong one     *)
(* first.                                                                  *)
(***************************************************************************)
EXTENDS Transactions, TLAPS, FiniteSetTheorems

\* Known(i): session ID i was drawn, so it is never drawn again.
Known(i) == \E w \in welcomes : w.session = i

\* Kept(h): the result of a recent effect is stored, and is as old.
Kept(h) == \E t \in transactions : t.request = h.request /\ t.age = h.age

TablesFinite == IsFiniteSet(challenges) /\ IsFiniteSet(transactions)

\* Nonces are drawn once, a pending challenge has its own, and none that has
\* admitted a session is still pending.
NoncesFresh ==
    /\ \A c \in challenges : c.nonce <= issued
    /\ \A w \in welcomes : w.nonce <= issued
    /\ \A c, d \in challenges : c.nonce = d.nonce => c = d
    /\ \A c \in challenges, w \in welcomes : c.nonce # w.nonce

SessionsKnown == \A i \in Ids : sessions[i] # Nobody => Known(i)

\* Why a request that took effect takes none again.
Barred(h) ==
    /\ h.request.kind \in {"HELLO", "DISCONNECT"} => Kept(h)
    /\ h.request.kind = "AUTHENTICATE" =>
           \E w \in welcomes : w.nonce = h.request.nonce
    /\ h.request.kind = "CONTROL" =>
           /\ Known(h.request.session)
           /\ Kept(h) \/ sessions[h.request.session] = Nobody

EffectsBarred == \A h \in recent : h.times = 1 /\ Barred(h)

\* A pending challenge has its CHALLENGE in the cache, of the same age until
\* it is too old to be used.
ChallengesStored ==
    \A c \in challenges :
        \E t \in transactions :
            /\ t.request.kind = "HELLO"
            /\ t.request.address = c.address
            /\ t.request.tx = c.tx
            /\ t.request.body = c.body
            /\ t.response.nonce = c.nonce
            /\ c.age <= ChallengeTimeout => t.age = c.age

Inv ==
    /\ TypeOK
    /\ TablesFinite
    /\ NoncesFresh
    /\ SessionsKnown
    /\ EffectsBarred
    /\ ChallengesStored
    /\ OneSessionPerChallenge

-----------------------------------------------------------------------------
(* Lemmas on requests and tables.                                          *)

\* What the kind of a request says about its other fields.
LEMMA RequestType ==
    ASSUME NEW q \in Requests
    PROVE  /\ q.kind \in {"HELLO", "AUTHENTICATE", "CONTROL", "DISCONNECT"}
           /\ q.address \in Addresses /\ q.tx \in Txs /\ q.body \in Bodies
           /\ q.kind \in {"CONTROL", "DISCONNECT"} => q.session \in Ids
           /\ q.kind \in {"HELLO", "AUTHENTICATE"} => q.session = Nobody
           /\ q.kind = "AUTHENTICATE" => q.nonce \in Nonces
  BY DEF Requests, Handshakes, SessionRequests

\* Completing a transaction that is not stored yet, below the limit, keeps
\* one result for each key.
LEMMA CompleteType ==
    ASSUME Inv, NEW q \in Requests, NEW r \in Responses, Fresh(q), Complete(q, r)
    PROVE  /\ transactions' \subseteq Completed
           /\ IsFiniteSet(transactions')
           /\ Cardinality(transactions') <= MaxCompleted
           /\ (\A t \in transactions : Stored(t.request) = {t})'
<1> DEFINE new == [request |-> q, response |-> r, age |-> 0]
<1>1. new \in Completed /\ new.request = q
  BY TimeoutsAssumption DEF Completed
<1>2. transactions' = transactions \cup {new}
  BY DEF Complete
<1> HIDE DEF new
<1>3. transactions' \subseteq Completed
  BY <1>1, <1>2 DEF Inv, TypeOK
<1>4. /\ IsFiniteSet(transactions')
      /\ \/ Cardinality(transactions') = Cardinality(transactions)
         \/ Cardinality(transactions') = Cardinality(transactions) + 1
  BY <1>2, FS_AddElement DEF Inv, TablesFinite
<1>5. Cardinality(transactions) \in Nat
  BY FS_CardinalityType DEF Inv, TablesFinite
<1>6. Cardinality(transactions') <= MaxCompleted
  BY <1>4, <1>5, BoundsAssumption DEF Fresh, OverLimit
<1>7. ASSUME NEW t \in transactions', NEW u \in transactions', Key(t.request) = Key(u.request)
      PROVE  t = u
  <2>1. \A v \in transactions : Key(v.request) # Key(q)
    BY DEF Fresh, Stored
  <2>2. \A v, w \in transactions : Key(v.request) = Key(w.request) => v = w
    BY DEF Inv, TypeOK, Stored
  <2> QED
    BY <1>1, <1>2, <1>7, <2>1, <2>2
<1> QED
  BY <1>3, <1>4, <1>6, <1>7 DEF Stored

\* The first effect of a request is one more recent effect.
LEMMA TookEffectType ==
    ASSUME Inv, NEW q \in Requests, TookEffect(q), \A h \in recent : h.request # q
    PROVE  /\ recent' = recent \cup {[request |-> q, times |-> 1, age |-> 0]}
           /\ recent' \subseteq Effect
<1>1. {h \in recent : h.request = q} = {}
  OBVIOUS
<1>2. recent' = recent \cup {[request |-> q, times |-> 1, age |-> 0]}
  BY <1>1 DEF TookEffect
<1>3. [request |-> q, times |-> 1, age |-> 0] \in Effect
  BY TimeoutsAssumption DEF Effect
<1> QED
  BY <1>2, <1>3 DEF Inv, TypeOK

\* A request that is not stored has taken no effect that is still kept.
LEMMA FreshIsNotKept ==
    ASSUME NEW q, Fresh(q), NEW h, h.request = q
    PROVE  ~Kept(h)
  BY DEF Fresh, Stored, Kept

\* What barred the earlier effects goes on doing so when results and welcomes
\* are added and no closed session opens again.
LEMMA EffectAdded ==
    ASSUME Inv, NEW q \in Requests, TookEffect(q), \A h \in recent : h.request # q,
           transactions \subseteq transactions', welcomes \subseteq welcomes',
           \A i \in Ids : Known(i) /\ sessions[i] = Nobody => sessions'[i] = Nobody,
           \A h : h.request = q /\ h.age = 0 => Barred(h)'
    PROVE  EffectsBarred'
<1> SUFFICES ASSUME NEW h \in recent'
             PROVE  h.times = 1 /\ Barred(h)'
  BY DEF EffectsBarred
<1>1. h \in recent \/ (h.request = q /\ h.times = 1 /\ h.age = 0)
  BY TookEffectType
<1>2. CASE h \in recent
  <2>1. h.times = 1 /\ Barred(h) /\ (h.request.kind = "CONTROL" => h.request.session \in Ids)
    BY <1>2, RequestType DEF Inv, TypeOK, Effect, EffectsBarred
  <2>2. Kept(h) => Kept(h)'
    BY DEF Kept
  <2> QED
    BY <2>1, <2>2 DEF Barred, Known
<1> QED
  BY <1>1, <1>2

-----------------------------------------------------------------------------
(* The invariant.                                                          *)

\* A server without clients satisfies the invariant.
LEMMA InitInv == Init => Inv
<1> SUFFICES ASSUME Init PROVE Inv
  OBVIOUS
<1>1. Cardinality({}) <= MaxChallenges /\ Cardinality({}) <= MaxCompleted
  BY FS_EmptySet, BoundsAssumption
<1>2. TypeOK
  <2>1. sessions \in [Ids -> Addresses \cup {Nobody}] /\ draining \in BOOLEAN
    BY DEF Init
  <2>2. issued \in 0 .. MaxNonces
    BY BoundsAssumption DEF Init
  <2> QED
    BY <1>1, <2>1, <2>2 DEF Init, TypeOK
<1>3. TablesFinite
  BY FS_EmptySet DEF Init, TablesFinite
<1>4. NoncesFresh /\ EffectsBarred /\ ChallengesStored /\ OneSessionPerChallenge
  BY DEF Init, NoncesFresh, EffectsBarred, ChallengesStored, OneSessionPerChallenge
<1>5. SessionsKnown
  BY DEF Init, SessionsKnown
<1> QED
  BY <1>2, <1>3, <1>4, <1>5 DEF Inv

\* Losing sessions changes nothing else: what barred an effect still does.
LEMMA SessionsOnlyLost ==
    ASSUME Inv, sessions' \in [Ids -> Addresses \cup {Nobody}],
           \A i \in Ids : sessions'[i] \in {sessions[i], Nobody},
           draining' \in BOOLEAN,
           UNCHANGED <<challenges, transactions, issued, welcomes, recent>>
    PROVE  Inv'
<1>1. TypeOK'
  BY DEF Inv, TypeOK, Stored
<1>2. TablesFinite' /\ NoncesFresh' /\ ChallengesStored' /\ OneSessionPerChallenge'
  BY DEF Inv, TablesFinite, NoncesFresh, ChallengesStored, OneSessionPerChallenge
<1>3. SessionsKnown'
  BY DEF Inv, SessionsKnown, Known
<1>4. \A h \in recent : h.request.kind = "CONTROL" => h.request.session \in Ids
  BY RequestType DEF Inv, TypeOK, Effect
<1>5. EffectsBarred'
  BY <1>4 DEF Inv, EffectsBarred, Barred, Kept, Known
<1> QED
  BY <1>1, <1>2, <1>3, <1>5 DEF Inv

\* replayOverload closes at most the session the stored response names.
LEMMA ReplayInv ==
    ASSUME Inv, NEW q \in Requests, NEW full \in BOOLEAN, Replay(q, full)
    PROVE  Inv'
<1>1. PICK t \in Duplicates(q) :
         sessions' = IF full /\ t.response.session # Nobody /\ sessions[t.response.session] = q.address
                     THEN [sessions EXCEPT ![t.response.session] = Nobody] ELSE sessions
  BY DEF Replay
<1>2. t \in Completed
  BY DEF Duplicates, Stored, Inv, TypeOK
<1>3. t.response.session \in Ids \cup {Nobody}
  BY <1>2 DEF Completed, Responses
<1>4. sessions \in [Ids -> Addresses \cup {Nobody}] /\ draining \in BOOLEAN
  BY DEF Inv, TypeOK
<1>5. /\ sessions' \in [Ids -> Addresses \cup {Nobody}]
      /\ \A i \in Ids : sessions'[i] \in {sessions[i], Nobody}
  BY <1>1, <1>3, <1>4
<1>6. UNCHANGED <<challenges, transactions, draining, issued, welcomes, recent>>
  BY DEF Replay
<1> QED
  BY <1>4, <1>5, <1>6, SessionsOnlyLost

\* So does a refusal that cannot be queued, or the loss of a session.
LEMMA LoseInv ==
    ASSUME Inv, NEW i \in Ids, sessions' = [sessions EXCEPT ![i] = Nobody],
           UNCHANGED <<challenges, transactions, draining, issued, welcomes, recent>>
    PROVE  Inv'
<1>1. sessions \in [Ids -> Addresses \cup {Nobody}] /\ draining \in BOOLEAN
  BY DEF Inv, TypeOK
<1>2. /\ sessions' \in [Ids -> Addresses \cup {Nobody}]
      /\ \A j \in Ids : sessions'[j] \in {sessions[j], Nobody}
  BY <1>1
<1> QED
  BY <1>1, <1>2, SessionsOnlyLost

\* A HELLO takes effect with a nonce of its own, or leaves no trace but the
\* nonce when its CHALLENGE cannot be queued.
LEMMA HelloInv ==
    ASSUME Inv, NEW q \in Requests, NEW full \in BOOLEAN, Hello(q, full)
    PROVE  Inv'
<1> DEFINE nonce == issued + 1
           others == {c \in challenges : <<c.address, c.tx>> # <<q.address, q.tx>>}
           new == [address |-> q.address, tx |-> q.tx, body |-> q.body,
                   nonce |-> nonce, age |-> 0]
           answer == [kind |-> "CHALLENGE", session |-> Nobody, nonce |-> nonce]
<1>1. /\ q.kind = "HELLO" /\ Fresh(q)
      /\ Cardinality(challenges) < MaxChallenges
      /\ nonce <= MaxNonces /\ issued' = nonce
      /\ UNCHANGED <<sessions, draining, welcomes>>
  BY DEF Hello
<1>2. /\ nonce \in Nonces /\ nonce \in 0 .. MaxNonces
      /\ issued \in Nat /\ nonce \in Nat /\ nonce > issued
  BY <1>1, BoundsAssumption DEF Inv, TypeOK, Nonces
<1>3. new \in Challenge /\ answer \in Responses
  BY <1>2, RequestType, TimeoutsAssumption DEF Challenge, Responses
<1>4. others \subseteq challenges
  OBVIOUS
<1>5. \/ challenges' = others /\ UNCHANGED <<transactions, recent>>
      \/ /\ challenges' = others \cup {new}
         /\ Complete(q, answer)
         /\ TookEffect(q)
  BY DEF Hello
<1>6. /\ new.nonce = nonce /\ new.address = q.address /\ new.tx = q.tx
      /\ new.body = q.body /\ new.age = 0 /\ answer.nonce = nonce
  OBVIOUS
<1>7. \A c \in challenges : c.nonce \in Nat /\ c.nonce <= issued
  BY DEF Inv, TypeOK, NoncesFresh, Challenge, Nonces
<1>8. \A w \in welcomes : w.nonce \in Nat /\ w.nonce <= issued
  BY DEF Inv, TypeOK, NoncesFresh, Nonces
<1> HIDE DEF others, new, answer, nonce
<1>9. challenges' \subseteq Challenge
  BY <1>3, <1>4, <1>5 DEF Inv, TypeOK
<1>10. IsFiniteSet(challenges') /\ Cardinality(challenges') <= MaxChallenges
  <2>1. IsFiniteSet(others) /\ Cardinality(others) <= Cardinality(challenges)
    BY <1>4, FS_Subset DEF Inv, TablesFinite
  <2>2. Cardinality(others) \in Nat /\ Cardinality(challenges) \in Nat
    BY <2>1, FS_CardinalityType DEF Inv, TablesFinite
  <2>3. /\ IsFiniteSet(others \cup {new})
        /\ \/ Cardinality(others \cup {new}) = Cardinality(others)
           \/ Cardinality(others \cup {new}) = Cardinality(others) + 1
    BY <2>1, FS_AddElement
  <2>4. MaxChallenges \in Nat
    BY BoundsAssumption
  <2> QED
    BY <1>1, <1>5, <2>1, <2>2, <2>3, <2>4
<1>11. NoncesFresh'
  <2>1. /\ \A c \in challenges' : c \in challenges \/ c = new
        /\ welcomes' = welcomes
    BY <1>1, <1>4, <1>5
  <2>2. /\ \A c \in challenges' : c.nonce <= issued'
        /\ \A w \in welcomes' : w.nonce <= issued'
    BY <1>1, <1>2, <1>6, <1>7, <1>8, <2>1
  <2>3. \A c, d \in challenges' : c.nonce = d.nonce => c = d
    BY <1>2, <1>6, <1>7, <2>1 DEF Inv, NoncesFresh
  <2>4. \A c \in challenges', w \in welcomes' : c.nonce # w.nonce
    BY <1>2, <1>6, <1>8, <2>1 DEF Inv, NoncesFresh
  <2> QED
    BY <2>2, <2>3, <2>4 DEF NoncesFresh
<1>12. SessionsKnown' /\ OneSessionPerChallenge'
  BY <1>1 DEF Inv, SessionsKnown, Known, OneSessionPerChallenge
<1>13. CASE challenges' = others /\ UNCHANGED <<transactions, recent>>
  <2>1. TypeOK'
    BY <1>1, <1>2, <1>9, <1>10, <1>13 DEF Inv, TypeOK, Stored
  <2>2. EffectsBarred'
    BY <1>1, <1>13 DEF Inv, EffectsBarred, Barred, Kept, Known
  <2>3. ChallengesStored'
    BY <1>4, <1>13 DEF Inv, ChallengesStored
  <2> QED
    BY <1>10, <1>11, <1>12, <1>13, <2>1, <2>2, <2>3 DEF Inv, TablesFinite
<1>14. CASE /\ challenges' = others \cup {new}
            /\ Complete(q, answer)
            /\ TookEffect(q)
  <2>1. \A h \in recent : h.request # q
    BY <1>1, FreshIsNotKept DEF Inv, EffectsBarred, Barred
  <2>2. PICK t \in transactions' : t.request = q /\ t.response = answer /\ t.age = 0
    <3>1. [request |-> q, response |-> answer, age |-> 0] \in transactions'
      BY <1>14 DEF Complete
    <3> QED
      BY <3>1
  <2>3. transactions \subseteq transactions'
    BY <1>14 DEF Complete
  <2>4. TypeOK' /\ TablesFinite'
    BY <1>1, <1>2, <1>3, <1>9, <1>10, <1>14, <2>1, CompleteType, TookEffectType
       DEF Inv, TypeOK, TablesFinite
  <2>5. \A h : h.request = q /\ h.age = 0 => Barred(h)'
    BY <1>1, <2>2 DEF Barred, Kept
  <2>6. EffectsBarred'
    BY <1>1, <1>14, <2>1, <2>3, <2>5, EffectAdded
  <2>7. ChallengesStored'
    <3>1. ASSUME NEW c \in challenges'
          PROVE  \E u \in transactions' :
                   /\ u.request.kind = "HELLO"
                   /\ u.request.address = c.address
                   /\ u.request.tx = c.tx
                   /\ u.request.body = c.body
                   /\ u.response.nonce = c.nonce
                   /\ c.age <= ChallengeTimeout => u.age = c.age
      <4>1. CASE c \in challenges
        BY <2>3, <4>1 DEF Inv, ChallengesStored
      <4>2. CASE c = new
        BY <1>1, <1>6, <2>2, <4>2
      <4> QED
        BY <1>4, <1>14, <4>1, <4>2
    <3> QED
      BY <3>1 DEF ChallengesStored
  <2> QED
    BY <1>11, <1>12, <2>4, <2>6, <2>7 DEF Inv
<1> QED
  BY <1>5, <1>13, <1>14

\* A completed request has its result in the cache, and the others keep
\* theirs.
LEMMA Completes ==
    ASSUME NEW q, NEW r, Complete(q, r)
    PROVE  /\ \A h : h.request = q /\ h.age = 0 => Kept(h)'
           /\ transactions \subseteq transactions'
<1>1. [request |-> q, response |-> r, age |-> 0] \in transactions'
  BY DEF Complete
<1> QED
  BY <1>1 DEF Complete, Kept

\* A pending challenge keeps its CHALLENGE when results are added.
LEMMA ChallengesKept ==
    ASSUME Inv, challenges' \subseteq challenges, transactions \subseteq transactions'
    PROVE  ChallengesStored'
  BY DEF Inv, ChallengesStored

\* An AUTHENTICATE that takes effect consumes its challenge, whatever then
\* becomes of the WELCOME.
LEMMA AuthenticateInv ==
    ASSUME Inv, NEW q \in Requests, NEW full \in BOOLEAN, NEW id \in Ids,
           Authenticate(q, id, full)
    PROVE  Inv'
<1> DEFINE answer == [kind |-> "WELCOME", session |-> id, nonce |-> 0]
           admitted == [nonce |-> q.nonce, session |-> id]
<1>1. PICK c \in challenges :
        /\ c.address = q.address /\ c.tx = q.tx /\ c.age <= ChallengeTimeout
        /\ c.body = q.body /\ c.nonce = q.nonce
        /\ challenges' = challenges \ {c}
  BY DEF Authenticate, Without
<1>2. /\ q.kind = "AUTHENTICATE" /\ Fresh(q) /\ TookEffect(q)
      /\ \A w \in welcomes : w.session # id
      /\ welcomes' = welcomes \cup {admitted}
      /\ UNCHANGED <<draining, issued>>
  BY DEF Authenticate
<1>3. \/ /\ sessions' = [i \in Ids |-> IF sessions[i] = q.address THEN Nobody ELSE sessions[i]]
         /\ UNCHANGED transactions
      \/ /\ sessions' = [sessions EXCEPT ![id] = q.address]
         /\ Complete(q, answer)
  BY DEF Authenticate
<1>4. answer \in Responses /\ admitted \in [nonce : Nonces, session : Ids]
  BY <1>2, RequestType DEF Responses
<1>5. admitted.nonce = q.nonce /\ admitted.session = id /\ q.address \in Addresses
  BY RequestType
<1> HIDE DEF answer, admitted
<1>6. \A w \in welcomes : w.nonce # q.nonce
  BY <1>1 DEF Inv, NoncesFresh
<1>7. \A h \in recent : h.request # q
  BY <1>2, <1>6 DEF Inv, EffectsBarred, Barred
<1>8. /\ recent' \subseteq Effect
      /\ transactions \subseteq transactions'
      /\ transactions' \subseteq Completed
      /\ IsFiniteSet(transactions') /\ Cardinality(transactions') <= MaxCompleted
      /\ (\A t \in transactions : Stored(t.request) = {t})'
  <2>1. recent' \subseteq Effect
    BY <1>2, <1>7, TookEffectType
  <2>2. CASE UNCHANGED transactions
    BY <2>1, <2>2 DEF Inv, TypeOK, TablesFinite, Stored
  <2>3. CASE Complete(q, answer)
    BY <1>2, <1>4, <2>1, <2>3, CompleteType, Completes
  <2> QED
    BY <1>3, <2>2, <2>3
<1>9. IsFiniteSet(challenges') /\ Cardinality(challenges') <= MaxChallenges
  <2>1. /\ IsFiniteSet(challenges')
        /\ Cardinality(challenges') <= Cardinality(challenges)
    BY <1>1, FS_Subset DEF Inv, TablesFinite
  <2>2. Cardinality(challenges') \in Nat /\ Cardinality(challenges) \in Nat
    BY <2>1, FS_CardinalityType DEF Inv, TablesFinite
  <2> QED
    BY <2>1, <2>2, BoundsAssumption DEF Inv, TypeOK
<1>10. sessions' \in [Ids -> Addresses \cup {Nobody}]
  BY <1>3, <1>5 DEF Inv, TypeOK
<1>11. TypeOK' /\ TablesFinite'
  BY <1>1, <1>2, <1>4, <1>8, <1>9, <1>10 DEF Inv, TypeOK, TablesFinite
<1>12. NoncesFresh'
  <2>1. c.nonce <= issued
    BY DEF Inv, NoncesFresh
  <2> QED
    BY <1>1, <1>2, <1>5, <2>1 DEF Inv, NoncesFresh
<1>13. \A i \in Ids : /\ sessions'[i] # Nobody => i = id \/ sessions[i] # Nobody
                      /\ Known(i) => i # id
  BY <1>2, <1>3, NobodyAssumption DEF Inv, TypeOK, Known
<1>14. SessionsKnown'
  BY <1>2, <1>5, <1>13 DEF Inv, SessionsKnown, Known
<1>15. EffectsBarred'
  <2>1. \A h : h.request = q /\ h.age = 0 => Barred(h)'
    BY <1>2, <1>5 DEF Barred
  <2> QED
    BY <1>2, <1>7, <1>8, <1>13, <2>1, EffectAdded
<1>16. ChallengesStored'
  BY <1>1, <1>8, ChallengesKept
<1>17. OneSessionPerChallenge'
  BY <1>2, <1>5, <1>6 DEF Inv, OneSessionPerChallenge
<1> QED
  BY <1>11, <1>12, <1>14, <1>15, <1>16, <1>17 DEF Inv

\* KEEPALIVE, STREAM_REQUEST, STREAM_END and DISCONNECT: either the result is
\* stored or the session is closed, and a DISCONNECT does both.
LEMMA SessionRequestInv ==
    ASSUME Inv, NEW q \in Requests, Fresh(q), TookEffect(q),
           UNCHANGED <<challenges, draining, issued, welcomes>>,
           \/ q.kind = "CONTROL" \/ q.kind = "DISCONNECT",
           sessions' \in {sessions, [sessions EXCEPT ![q.session] = Nobody]},
           \/ Complete(q, [kind |-> "RESULT", session |-> q.session, nonce |-> 0])
           \/ /\ q.kind = "CONTROL"
              /\ sessions' = [sessions EXCEPT ![q.session] = Nobody]
              /\ UNCHANGED transactions
    PROVE  Inv'
<1> DEFINE answer == [kind |-> "RESULT", session |-> q.session, nonce |-> 0]
<1>1. q.session \in Ids /\ q.session # Nobody /\ answer \in Responses
  BY RequestType, NobodyAssumption DEF Responses
<1>2. Complete(q, answer) \/ UNCHANGED transactions
  OBVIOUS
<1> HIDE DEF answer
<1>3. sessions[q.session] # Nobody /\ Known(q.session)
  BY <1>1, RequestType, NobodyAssumption DEF Fresh, Reaches, Inv, SessionsKnown
<1>4. \A h \in recent : h.request # q
  BY <1>3, FreshIsNotKept DEF Inv, EffectsBarred, Barred
<1>5. /\ recent' \subseteq Effect
      /\ transactions \subseteq transactions'
      /\ transactions' \subseteq Completed
      /\ IsFiniteSet(transactions') /\ Cardinality(transactions') <= MaxCompleted
      /\ (\A t \in transactions : Stored(t.request) = {t})'
  <2>1. recent' \subseteq Effect
    BY <1>4, TookEffectType
  <2>2. CASE UNCHANGED transactions
    BY <2>1, <2>2 DEF Inv, TypeOK, TablesFinite, Stored
  <2>3. CASE Complete(q, answer)
    BY <1>1, <2>1, <2>3, CompleteType, Completes
  <2> QED
    BY <1>2, <2>2, <2>3
<1>6. /\ sessions' \in [Ids -> Addresses \cup {Nobody}]
      /\ \A i \in Ids : sessions'[i] \in {sessions[i], Nobody}
  BY <1>1 DEF Inv, TypeOK
<1>7. TypeOK' /\ TablesFinite'
  BY <1>5, <1>6 DEF Inv, TypeOK, TablesFinite
<1>8. NoncesFresh' /\ OneSessionPerChallenge'
  BY DEF Inv, NoncesFresh, OneSessionPerChallenge
<1>9. SessionsKnown'
  BY <1>6 DEF Inv, SessionsKnown, Known
<1>10. EffectsBarred'
  <2>1. \A h : h.request = q /\ h.age = 0 => Barred(h)'
    <3>1. Known(q.session)'
      BY <1>3 DEF Known
    <3>2. CASE Complete(q, answer)
      BY <3>1, <3>2, Completes DEF Barred
    <3>3. CASE q.kind = "CONTROL" /\ sessions' = [sessions EXCEPT ![q.session] = Nobody]
      BY <1>1, <3>1, <3>3 DEF Barred, Inv, TypeOK
    <3> QED
      BY <3>2, <3>3 DEF answer
  <2> QED
    BY <1>4, <1>5, <1>6, <2>1, EffectAdded
<1>11. ChallengesStored'
  BY <1>5, ChallengesKept
<1> QED
  BY <1>7, <1>8, <1>9, <1>10, <1>11 DEF Inv

\* A table that only shrinks stays finite and within its limit.
LEMMA ShrinksType ==
    ASSUME NEW S, IsFiniteSet(S), NEW T \in SUBSET S, NEW n \in Nat, Cardinality(S) <= n
    PROVE  IsFiniteSet(T) /\ Cardinality(T) <= n
<1>1. IsFiniteSet(T) /\ Cardinality(T) <= Cardinality(S)
  BY FS_Subset
<1>2. Cardinality(T) \in Nat /\ Cardinality(S) \in Nat
  BY <1>1, FS_CardinalityType
<1> QED
  BY <1>1, <1>2

\* Expiry drops results that bar nothing any more, and no CHALLENGE before
\* its challenge.
LEMMA TickInv ==
    ASSUME Inv, Tick
    PROVE  Inv'
<1>1. /\ challenges' = {c \in challenges : c.age <= ChallengeTimeout}
      /\ transactions' = {t \in transactions : t.age <= Retention}
      /\ UNCHANGED <<sessions, draining, issued, welcomes, recent>>
  BY DEF Tick
<1>2. /\ IsFiniteSet(challenges') /\ Cardinality(challenges') <= MaxChallenges
      /\ IsFiniteSet(transactions') /\ Cardinality(transactions') <= MaxCompleted
  BY <1>1, ShrinksType, BoundsAssumption DEF Inv, TypeOK, TablesFinite
<1>3. TypeOK' /\ TablesFinite'
  BY <1>1, <1>2 DEF Inv, TypeOK, TablesFinite, Stored
<1>4. NoncesFresh' /\ SessionsKnown' /\ OneSessionPerChallenge'
  BY <1>1 DEF Inv, NoncesFresh, SessionsKnown, Known, OneSessionPerChallenge
<1>5. EffectsBarred'
  <2>1. \A h \in recent : h.age <= Retention
    BY TimeoutsAssumption DEF Inv, TypeOK, Effect
  <2>2. \A h \in recent : Kept(h) => Kept(h)'
    BY <1>1, <2>1 DEF Kept
  <2> QED
    BY <1>1, <2>2 DEF Inv, EffectsBarred, Barred, Known
<1>6. ChallengesStored'
  <2>1. \A c \in challenges : c.age \in Nat
    BY TimeoutsAssumption DEF Inv, TypeOK, Challenge
  <2> QED
    BY <1>1, <2>1, TimeoutsAssumption DEF Inv, ChallengesStored
<1> QED
  BY <1>3, <1>4, <1>5, <1>6 DEF Inv

\* A table whose entries grow older stays finite and within its limit.
LEMMA ImageType ==
    ASSUME NEW S, IsFiniteSet(S), NEW f, f = [x \in S |-> f[x]],
           NEW n \in Nat, Cardinality(S) <= n
    PROVE  LET T == {f[x] : x \in S}
           IN  IsFiniteSet(T) /\ Cardinality(T) <= n
<1> DEFINE T == {f[x] : x \in S}
<1>1. f \in Surjection(S, T)
  BY DEF Surjection
<1> HIDE DEF T
<1>2. IsFiniteSet(T) /\ Cardinality(T) <= Cardinality(S)
  BY <1>1, FS_Surjection
<1>3. Cardinality(T) \in Nat /\ Cardinality(S) \in Nat
  BY <1>2, FS_CardinalityType
<1>4. IsFiniteSet(T) /\ Cardinality(T) <= n
  BY <1>2, <1>3
<1> QED
  BY <1>4 DEF T

\* Time passes for a challenge, for its CHALLENGE, for results and for the
\* effects they bar alike.
LEMMA AdvanceInv ==
    ASSUME Inv, Advance
    PROVE  Inv'
<1> DEFINE ch == [c \in challenges |->
                    [c EXCEPT !.age = IF @ > ChallengeTimeout THEN @ ELSE @ + 1]]
           tr == [t \in transactions |->
                    [t EXCEPT !.age = IF @ > Retention THEN @ ELSE @ + 1]]
<1>1. /\ challenges' = {ch[c] : c \in challenges}
      /\ transactions' = {tr[t] : t \in transactions}
      /\ recent' = {[h EXCEPT !.age = @ + 1] : h \in {h \in recent : h.age < Retention}}
      /\ UNCHANGED <<sessions, draining, issued, welcomes>>
  BY DEF Advance
<1>2. /\ ch = [c \in challenges |-> ch[c]]
      /\ tr = [t \in transactions |-> tr[t]]
  OBVIOUS
<1>3. \A c \in challenges :
        /\ ch[c] \in Challenge
        /\ ch[c].address = c.address /\ ch[c].tx = c.tx /\ ch[c].body = c.body
        /\ ch[c].nonce = c.nonce
        /\ ch[c].age = IF c.age > ChallengeTimeout THEN c.age ELSE c.age + 1
  <2> SUFFICES ASSUME NEW c \in challenges
               PROVE  /\ ch[c] \in Challenge
                      /\ ch[c].address = c.address /\ ch[c].tx = c.tx
                      /\ ch[c].body = c.body /\ ch[c].nonce = c.nonce
                      /\ ch[c].age = IF c.age > ChallengeTimeout THEN c.age ELSE c.age + 1
    OBVIOUS
  <2>1. c \in Challenge
    BY DEF Inv, TypeOK
  <2> QED
    BY <2>1, TimeoutsAssumption DEF Challenge
<1>4. \A t \in transactions :
        /\ tr[t] \in Completed
        /\ tr[t].request = t.request /\ tr[t].response = t.response
        /\ tr[t].age = IF t.age > Retention THEN t.age ELSE t.age + 1
  <2> SUFFICES ASSUME NEW t \in transactions
               PROVE  /\ tr[t] \in Completed
                      /\ tr[t].request = t.request /\ tr[t].response = t.response
                      /\ tr[t].age = IF t.age > Retention THEN t.age ELSE t.age + 1
    OBVIOUS
  <2>1. t \in Completed
    BY DEF Inv, TypeOK
  <2> QED
    BY <2>1, TimeoutsAssumption DEF Completed
<1> HIDE DEF ch, tr
<1>5. /\ IsFiniteSet(challenges') /\ Cardinality(challenges') <= MaxChallenges
      /\ IsFiniteSet(transactions') /\ Cardinality(transactions') <= MaxCompleted
  <2>1. MaxChallenges \in Nat /\ MaxCompleted \in Nat
    BY BoundsAssumption
  <2>2. /\ IsFiniteSet(challenges) /\ Cardinality(challenges) <= MaxChallenges
        /\ IsFiniteSet(transactions) /\ Cardinality(transactions) <= MaxCompleted
    BY DEF Inv, TypeOK, TablesFinite
  <2> QED
    BY <1>1, <1>2, <2>1, <2>2, ImageType
<1>6. ASSUME NEW h \in recent'
      PROVE  \E g \in recent : /\ g.age < Retention
                               /\ h.request = g.request /\ h.times = g.times
                               /\ h.age = g.age + 1 /\ h \in Effect
  <2>1. PICK g \in recent : g.age < Retention /\ h = [g EXCEPT !.age = @ + 1]
    BY <1>1
  <2>2. g \in Effect
    BY DEF Inv, TypeOK
  <2> QED
    BY <2>1, <2>2, TimeoutsAssumption DEF Effect
<1>7. TypeOK' /\ TablesFinite'
  <2>1. \A t \in transactions' : Stored(t.request)' = {t}
    <3>1. \A t, u \in transactions : Key(t.request) = Key(u.request) => t = u
      BY DEF Inv, TypeOK, Stored
    <3>2. \A t, u \in transactions' : Key(t.request) = Key(u.request) => t = u
      BY <1>1, <1>4, <3>1
    <3> QED
      BY <3>2 DEF Stored
  <2>2. recent' \subseteq Effect
    BY <1>6
  <2>3. challenges' \subseteq Challenge /\ transactions' \subseteq Completed
    BY <1>1, <1>3, <1>4
  <2> QED
    BY <1>1, <1>5, <2>1, <2>2, <2>3 DEF Inv, TypeOK, TablesFinite
<1>8. NoncesFresh' /\ SessionsKnown' /\ OneSessionPerChallenge'
  BY <1>1, <1>3 DEF Inv, NoncesFresh, SessionsKnown, Known, OneSessionPerChallenge
<1>9. EffectsBarred'
  <2> SUFFICES ASSUME NEW h \in recent'
               PROVE  h.times = 1 /\ Barred(h)'
    BY DEF EffectsBarred
  <2>1. PICK g \in recent : /\ g.age < Retention
                            /\ h.request = g.request /\ h.times = g.times
                            /\ h.age = g.age + 1
    BY <1>6
  <2>2. g.times = 1 /\ Barred(g) /\ g.age \in Nat
    BY TimeoutsAssumption DEF Inv, TypeOK, Effect, EffectsBarred
  <2>3. ASSUME Kept(g) PROVE Kept(h)'
    <3>1. PICK t \in transactions : t.request = g.request /\ t.age = g.age
      BY <2>3 DEF Kept
    <3>2. tr[t].request = h.request /\ tr[t].age = h.age
      BY <1>4, <2>1, <2>2, <3>1, TimeoutsAssumption
    <3> QED
      BY <1>1, <3>2 DEF Kept
  <2> QED
    BY <1>1, <2>1, <2>2, <2>3 DEF Barred, Known
<1>10. ChallengesStored'
  <2> SUFFICES ASSUME NEW d \in challenges'
               PROVE  \E u \in transactions' :
                        /\ u.request.kind = "HELLO"
                        /\ u.request.address = d.address
                        /\ u.request.tx = d.tx
                        /\ u.request.body = d.body
                        /\ u.response.nonce = d.nonce
                        /\ d.age <= ChallengeTimeout => u.age = d.age
    BY DEF ChallengesStored
  <2>1. PICK c \in challenges : d = ch[c]
    BY <1>1
  <2>2. PICK t \in transactions :
          /\ t.request.kind = "HELLO"
          /\ t.request.address = c.address
          /\ t.request.tx = c.tx
          /\ t.request.body = c.body
          /\ t.response.nonce = c.nonce
          /\ c.age <= ChallengeTimeout => t.age = c.age
    BY DEF Inv, ChallengesStored
  <2>3. c.age \in Nat /\ tr[t] \in transactions'
    BY <1>1, TimeoutsAssumption DEF Inv, TypeOK, Challenge
  <2>4. d.age <= ChallengeTimeout => tr[t].age = d.age
    BY <1>3, <1>4, <2>1, <2>2, <2>3, TimeoutsAssumption
  <2> QED
    BY <1>3, <1>4, <2>1, <2>2, <2>3, <2>4
<1> QED
  BY <1>7, <1>8, <1>9, <1>10 DEF Inv

\* Every step keeps the invariant.
LEMMA NextInv == Inv /\ [Next]_vars => Inv'
<1> SUFFICES ASSUME Inv, [Next]_vars PROVE Inv'
  OBVIOUS
<1>1. ASSUME NEW q \in Requests, NEW full \in QueueFull, Receive(q, full) PROVE Inv'
  <2>1. full \in BOOLEAN
    BY QueueAssumption
  <2>2. CASE Replay(q, full)
    BY <2>1, <2>2, ReplayInv
  <2>3. CASE Refuse(q, full)
    <3>1. CASE UNCHANGED sessions
      <4>1. UNCHANGED vars
        BY <2>3, <3>1 DEF Refuse, vars
      <4> QED
        BY <4>1, SessionsOnlyLost DEF vars, Inv, TypeOK
    <3>2. CASE \E i \in {j \in Live : sessions[j] = q.address} :
                  sessions' = [sessions EXCEPT ![i] = Nobody]
      BY <2>3, <3>2, LoseInv DEF Refuse, Live
    <3> QED
      BY <2>3, <3>1, <3>2 DEF Refuse
  <2>4. CASE Hello(q, full)
    BY <2>1, <2>4, HelloInv
  <2>5. CASE \E id \in Ids : Authenticate(q, id, full)
    BY <2>1, <2>5, AuthenticateInv
  <2>6. CASE Control(q, full)
    BY <2>6, SessionRequestInv DEF Control
  <2>7. CASE Disconnect(q)
    BY <2>7, SessionRequestInv DEF Disconnect
  <2> QED
    BY <1>1, <2>2, <2>3, <2>4, <2>5, <2>6, <2>7 DEF Receive
<1>2. CASE Tick
  BY <1>2, TickInv
<1>3. CASE Advance
  BY <1>3, AdvanceInv
<1>4. ASSUME NEW id \in Ids, Lose(id) PROVE Inv'
  BY <1>4, LoseInv DEF Lose
<1>5. CASE BeginDrain
  BY <1>5, SessionsOnlyLost DEF BeginDrain, Inv, TypeOK
<1>6. CASE UNCHANGED vars
  BY <1>6, SessionsOnlyLost DEF vars, Inv, TypeOK
<1> QED
  BY <1>1, <1>2, <1>3, <1>4, <1>5, <1>6 DEF Next

\* The inductive invariant holds throughout.
LEMMA Invariance == Safety => []Inv
  BY InitInv, NextInv, PTL DEF Safety

\* No request takes effect twice within the retention time, whatever the
\* network repeats and whichever response cannot be queued, and the tables
\* stay within their limits.
THEOREM EffectsOnce == Spec => []AppliedOnce
<1>1. Inv => AppliedOnce
  BY DEF Inv, EffectsBarred, AppliedOnce
<1> QED
  BY <1>1, Invariance, PTL DEF Spec

\* A challenge admits one session, ever.
THEOREM SingleAdmission == Spec => []OneSessionPerChallenge
<1>1. Inv => OneSessionPerChallenge
  BY DEF Inv
<1> QED
  BY <1>1, Invariance, PTL DEF Spec

\* As long as a challenge is pending, its CHALLENGE can be had again.
THEOREM ChallengeReplay == Spec => []ChallengeIsRepeatable
<1>1. Inv => ChallengeIsRepeatable
  BY DEF Inv, ChallengesStored, ChallengeIsRepeatable
<1> QED
  BY <1>1, Invariance, PTL DEF Spec

\* A DISCONNECT that took effect is answered again for as long as its result
\* is retained, unless the server drains.
THEOREM DisconnectReplay == Spec => []DisconnectIsRepeatable
<1>1. ASSUME Inv, NEW h \in recent, h.request.kind = "DISCONNECT", ~draining
      PROVE  Replayed(h.request)
  <2>1. PICK t \in transactions : t.request = h.request
    BY <1>1 DEF Inv, EffectsBarred, Barred, Kept
  <2>2. t \in Duplicates(h.request)
    BY <2>1 DEF Duplicates, Stored
  <2> QED
    BY <1>1, <2>1, <2>2 DEF Replayed
<1>2. Inv => DisconnectIsRepeatable
  BY <1>1 DEF DisconnectIsRepeatable
<1> QED
  BY <1>2, Invariance, PTL DEF Spec
=============================================================================
