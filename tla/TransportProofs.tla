--------------------------- MODULE TransportProofs ---------------------------
(***************************************************************************)
(* Theorems about Transport for any set of listeners and any capacities.   *)
(* What the run checks is not inductive: MediaIsAccounted bounds what is   *)
(* lost, but not what is lost together with what may still be lost, and    *)
(* DisableIsPrompt does not say that a writer past its last late datagram  *)
(* has to look at mediaEnabled again.  Inv adds both, and what the         *)
(* positions of the writer and of DisableMedia imply.                      *)
(***************************************************************************)
EXTENDS Transport, TLAPS, FiniteSetTheorems, SequenceTheorems

\* The batch in the writer's hands, as a number.
InHand == IF batch # <<>> \/ writer = "check" THEN 1 ELSE 0

\* The writer has recipients left where it is about to serve one, and none
\* where it selects.
HandConsistent ==
    /\ writer \in {"steal", "send"} => batch # <<>>
    /\ writer \in {"poll", "wait"} => batch = <<>>

\* DisableMedia clears mediaEnabled before it drains, and nobody sets it.
SwitchConsistent == enabled <=> disabling = "no"

\* Nothing is lost before DisableMedia; afterwards, what is lost and what is
\* left to lose fit into the queue and one hand.
LossBounded ==
    /\ enabled => ledger.lost = 0
    /\ ledger.lost + Len(media) + InHand <= MediaCapacity + 1

\* A writer that has sent its late datagram is not about to send another.
LateOnce ==
    /\ disabling # "done" => ledger.late = 0
    /\ ledger.late <= 1
    /\ ledger.late = 1 => writer \notin {"steal", "send"}

Inv ==
    /\ TypeOK
    /\ HandConsistent
    /\ SwitchConsistent
    /\ ledger.offered = Len(media) + InHand
    /\ LossBounded
    /\ LateOnce

-----------------------------------------------------------------------------
(* Lemmas on queues.                                                       *)

\* A sequence of the recipients of a batch is a sequence of listeners.
LEMMA RecipientsType ==
    ASSUME NEW to \in SUBSET Listeners, NEW r \in SetToSeqs(to)
    PROVE  r \in Seq(Listeners)
<1>1. Cardinality(to) \in Nat
  BY ListenersAssumption, FS_Subset, FS_CardinalityType
<1>2. r \in [1 .. Cardinality(to) -> Listeners]
  BY DEF SetToSeqs
<1> QED
  BY <1>1, <1>2, SeqDef

\* Sending on a channel that has room.
LEMMA EnqueueType ==
    ASSUME NEW S, NEW q \in Seq(S), NEW x \in S
    PROVE  Append(q, x) \in Seq(S) /\ Len(Append(q, x)) = Len(q) + 1
  BY AppendProperties

\* Receiving from a channel that is not empty.
LEMMA DequeueType ==
    ASSUME NEW S, NEW q \in Seq(S), q # <<>>
    PROVE  /\ Tail(q) \in Seq(S) /\ Head(q) \in S
           /\ Len(q) \in Nat \ {0} /\ Len(Tail(q)) = Len(q) - 1
  BY HeadTailProperties, EmptySeq, LenProperties

-----------------------------------------------------------------------------
(* The steps of the writer that its selects share.                         *)

\* Writing a control datagram, or failing to, keeps the invariant when the
\* writer goes on to a place that fits its hand.
LEMMA WriteControlInv ==
    ASSUME Inv, NEW next, WriteControl(next), control # <<>>,
           \/ next = "poll" /\ batch = <<>> /\ writer # "check"
           \/ next = "send" /\ writer = "steal"
    PROVE  Inv'
<1> USE DEF Inv, TypeOK
<1>1. control' \in Seq(Datagram) /\ Len(control') <= ControlCapacity
  BY DequeueType, CapacityAssumption DEF WriteControl
<1>2. /\ writer' \in {next, "stopped"}
      /\ ledger' \in Ledger
      /\ ledger'.offered = ledger.offered
      /\ ledger'.lost = ledger.lost
      /\ ledger'.late = ledger.late
  BY DEF WriteControl, Ledger
<1>3. UNCHANGED <<inbound, media, enabled, disabling, batch, reader,
                  cancelled, closed, announced>>
  BY DEF WriteControl, environment
<1>4. TypeOK'
  BY <1>1, <1>2, <1>3
<1>5. InHand' = InHand
  BY <1>2, <1>3 DEF InHand, HandConsistent
<1>6. HandConsistent' /\ LateOnce'
  BY <1>2, <1>3 DEF HandConsistent, LateOnce
<1> QED
  BY <1>2, <1>3, <1>4, <1>5, <1>6 DEF SwitchConsistent, LossBounded

\* So does moving on without a write.
LEMMA GotoInv ==
    ASSUME Inv, NEW next, Goto(next),
           \/ next = "stopped" /\ writer \in {"poll", "wait"}
           \/ next = "wait" /\ writer = "poll"
           \/ next = "send" /\ writer = "steal"
           \/ next = "steal" /\ writer = "check" /\ batch # <<>> /\ enabled
    PROVE  Inv'
<1> USE DEF Inv
<1>1. /\ writer' = next
      /\ UNCHANGED <<inbound, control, media, enabled, disabling, batch, reader,
                     cancelled, closed, announced, ledger>>
  BY DEF Goto, queues, environment
<1>2. TypeOK'
  BY <1>1 DEF TypeOK
<1>3. InHand' = InHand
  BY <1>1 DEF InHand, HandConsistent
<1>4. HandConsistent' /\ LateOnce'
  BY <1>1 DEF HandConsistent, LateOnce, SwitchConsistent, TypeOK
<1> QED
  BY <1>1, <1>2, <1>3, <1>4 DEF SwitchConsistent, LossBounded

-----------------------------------------------------------------------------
(* The invariant.                                                          *)

\* A new transport satisfies the invariant.
LEMMA InitInv == Init => Inv
<1> SUFFICES ASSUME Init PROVE Inv
  OBVIOUS
<1>1. /\ control \in Seq(Datagram) /\ media \in Seq(Seq(Listeners))
      /\ batch \in Seq(Listeners)
      /\ Len(control) = 0 /\ Len(media) = 0
  BY EmptySeq DEF Init
<1>2. ledger \in Ledger
  BY DEF Init, Ledger
<1>3. TypeOK
  <2>1. {enabled, cancelled, closed} \subseteq BOOLEAN
    BY DEF Init
  <2>2. inbound \in 0 .. InboundCapacity /\ 0 <= ControlCapacity /\ 0 <= MediaCapacity
    BY CapacityAssumption DEF Init
  <2> QED
    BY <1>1, <1>2, <2>1, <2>2 DEF Init, TypeOK
<1> QED
  BY <1>1, <1>3, CapacityAssumption, EmptySeq
     DEF Init, Inv, HandConsistent, SwitchConsistent, LossBounded, LateOnce, InHand, TypeOK

\* Every step of the owner, the reader, the writer and the environment
\* keeps the invariant.
LEMMA NextInv == Inv /\ [Next]_vars => Inv'
<1> SUFFICES ASSUME Inv, [Next]_vars PROVE Inv'
  OBVIOUS
<1> USE CapacityAssumption
<1>1. ASSUME NEW d \in Datagram, EnqueueControl(d) PROVE Inv'
  <2>1. TypeOK'
    BY <1>1, EnqueueType DEF EnqueueControl, Inv, TypeOK, environment, Datagram
  <2> QED
    BY <1>1, <2>1 DEF EnqueueControl, Inv, HandConsistent, SwitchConsistent,
                      LossBounded, LateOnce, InHand
<1>2. ASSUME NEW to \in SUBSET Listeners \ {{}}, NEW r \in SetToSeqs(to),
             EnqueueMedia(r)
      PROVE  Inv'
  <2>1. media' \in Seq(Seq(Listeners)) /\ Len(media') = Len(media) + 1
    BY <1>2, RecipientsType, EnqueueType DEF EnqueueMedia, Inv, TypeOK
  <2>2. /\ Len(media) \in Nat /\ Len(media) < MediaCapacity /\ enabled
        /\ ledger' \in Ledger
        /\ ledger'.offered = ledger.offered + 1
        /\ ledger'.lost = ledger.lost
        /\ ledger'.late = ledger.late
    <3>1. Len(media) \in Nat /\ Len(media) < MediaCapacity /\ enabled
      BY <1>2, LenProperties DEF EnqueueMedia, Inv, TypeOK
    <3>2. ledger \in Ledger /\ ledger' = [ledger EXCEPT !.offered = @ + 1]
      BY <1>2 DEF EnqueueMedia, Inv, TypeOK
    <3> QED
      BY <3>1, <3>2 DEF Ledger
  <2>3. UNCHANGED <<inbound, control, enabled, disabling, writer, batch, reader,
                    cancelled, closed, announced>>
    BY <1>2 DEF EnqueueMedia, environment
  <2>4. TypeOK'
    BY <2>1, <2>2, <2>3 DEF Inv, TypeOK
  <2>5. InHand' = InHand /\ InHand \in {0, 1}
    BY <2>3 DEF InHand
  <2>6. HandConsistent' /\ SwitchConsistent' /\ LateOnce'
    BY <2>2, <2>3 DEF Inv, HandConsistent, SwitchConsistent, LateOnce
  <2>7. (ledger.offered = Len(media) + InHand)' /\ LossBounded'
    BY <2>1, <2>2, <2>3, <2>5 DEF Inv, LossBounded, Ledger
  <2> QED
    BY <2>4, <2>6, <2>7 DEF Inv
<1>3. CASE DisableMedia
  BY <1>3 DEF DisableMedia, Inv, TypeOK, queues, environment, HandConsistent,
              SwitchConsistent, LossBounded, LateOnce, InHand
<1>4. CASE Discard
  <2>1. CASE media = <<>>
    BY <1>4, <2>1 DEF Discard, Inv, TypeOK, environment, HandConsistent,
                      SwitchConsistent, LossBounded, LateOnce, InHand
  <2>2. CASE media # <<>>
    <3>1. /\ media' \in Seq(Seq(Listeners))
          /\ Len(media) \in Nat \ {0}
          /\ Len(media') = Len(media) - 1
      <4>1. media \in Seq(Seq(Listeners)) /\ media' = Tail(media)
        BY <1>4, <2>2 DEF Discard, Inv, TypeOK
      <4> QED
        BY <2>2, <4>1, DequeueType
    <3>2. UNCHANGED <<inbound, control, enabled, disabling, writer, batch, reader,
                      cancelled, closed, announced>>
      BY <1>4, <2>2 DEF Discard, environment
    <3>3. InHand' = InHand /\ InHand \in {0, 1}
      BY <3>2 DEF InHand
    <3>4. /\ ~enabled
          /\ ledger' \in Ledger
          /\ ledger'.offered = ledger.offered - 1
          /\ ledger'.lost = ledger.lost + 1
          /\ ledger'.late = ledger.late
      <4>1. ledger \in Ledger /\ ~enabled /\ ledger.offered = Len(media) + InHand
        BY <1>4 DEF Discard, Inv, TypeOK, SwitchConsistent
      <4>2. ledger' = [ledger EXCEPT !.offered = @ - 1, !.lost = @ + 1]
        BY <1>4, <2>2 DEF Discard
      <4> QED
        <5> DEFINE m == ledger.offered - 1
                   n == ledger.lost + 1
        <5>1. m \in Nat /\ n \in Nat
          BY <3>1, <3>3, <4>1 DEF Ledger
        <5>2. ledger' = [ledger EXCEPT !.offered = m, !.lost = n]
          BY <4>2
        <5>3. /\ ledger'.offered = m /\ ledger'.lost = n
              /\ ledger' \in Ledger /\ ledger'.late = ledger.late
          <6> HIDE DEF m, n
          <6> QED
            BY <4>1, <5>1, <5>2 DEF Ledger
        <5> QED
          BY <4>1, <5>3
    <3>5. TypeOK'
      BY <3>1, <3>2, <3>4 DEF Inv, TypeOK
    <3>6. HandConsistent' /\ SwitchConsistent' /\ LateOnce'
      BY <3>2, <3>4 DEF Inv, HandConsistent, SwitchConsistent, LateOnce
    <3>7. (ledger.offered = Len(media) + InHand)' /\ LossBounded'
      BY <3>1, <3>2, <3>3, <3>4 DEF Inv, TypeOK, LossBounded, Ledger
    <3> QED
      BY <3>5, <3>6, <3>7 DEF Inv
  <2> QED
    BY <2>1, <2>2
<1>5. CASE TakeInbound \/ Read
  BY <1>5 DEF TakeInbound, Read, Inv, TypeOK, environment, HandConsistent,
              SwitchConsistent, LossBounded, LateOnce, InHand
<1>6. CASE ReadFails \/ Cancel \/ Close
  <2>1. UNCHANGED <<inbound, control, media, enabled, disabling, writer, batch,
                    announced, ledger>>
    BY <1>6 DEF ReadFails, Cancel, Close, queues
  <2>2. /\ reader' \in {"reading", "stopped"}
        /\ {cancelled', closed'} \subseteq BOOLEAN
    BY <1>6 DEF ReadFails, Cancel, Close, environment, Inv, TypeOK
  <2>3. TypeOK'
    BY <2>1, <2>2 DEF Inv, TypeOK
  <2> QED
    BY <2>1, <2>3 DEF Inv, HandConsistent, SwitchConsistent, LossBounded, LateOnce, InHand
<1>7. CASE Poll
  BY <1>7, WriteControlInv, GotoInv DEF Poll, Inv, HandConsistent
<1>8. CASE Wait
  <2>1. CASE control # <<>> /\ WriteControl("poll")
    BY <1>8, <2>1, WriteControlInv DEF Wait, Inv, HandConsistent
  <2>2. CASE cancelled /\ Goto("stopped")
    BY <1>8, <2>2, GotoInv DEF Wait
  <2>3. ASSUME media # <<>>, media' = Tail(media), batch' = Head(media),
               writer' = "check",
               UNCHANGED <<inbound, control, enabled, disabling, reader,
                           environment, announced, ledger>>
        PROVE  Inv'
    <3>1. /\ media' \in Seq(Seq(Listeners)) /\ batch' \in Seq(Listeners)
          /\ Len(media) \in Nat \ {0}
          /\ Len(media') = Len(media) - 1
      BY <2>3, DequeueType DEF Inv, TypeOK
    <3>2. TypeOK'
      BY <2>3, <3>1 DEF Inv, TypeOK, environment
    <3>3. InHand = 0 /\ InHand' = 1
      BY <1>8, <2>3 DEF Wait, Inv, HandConsistent, InHand
    <3>4. HandConsistent' /\ SwitchConsistent' /\ LateOnce'
      BY <2>3 DEF Inv, HandConsistent, SwitchConsistent, LateOnce
    <3>5. (ledger.offered = Len(media) + InHand)' /\ LossBounded'
      BY <2>3, <3>1, <3>3 DEF Inv, TypeOK, LossBounded, Ledger
    <3> QED
      BY <3>2, <3>4, <3>5 DEF Inv
  <2> QED
    BY <1>8, <2>1, <2>2, <2>3 DEF Wait
<1>9. CASE Check
  <2>1. CASE batch # <<>> /\ enabled /\ Goto("steal")
    BY <1>9, <2>1, GotoInv DEF Check
  <2>2. ASSUME batch = <<>> \/ ~enabled,
               ledger' = [ledger EXCEPT !.offered = @ - 1,
                                        !.lost = IF batch = <<>> THEN @ ELSE @ + 1],
               batch' = <<>>, writer' = "poll",
               UNCHANGED <<queues, enabled, disabling, reader, environment,
                           announced>>
        PROVE  Inv'
    <3>1. InHand = 1 /\ InHand' = 0
      BY <1>9, <2>2 DEF Check, InHand
    <3>2. Len(media) \in Nat /\ batch' \in Seq(Listeners)
      BY <2>2, LenProperties, EmptySeq DEF Inv, TypeOK
    <3>3. /\ ledger' \in Ledger
          /\ ledger'.offered = ledger.offered - 1
          /\ ledger'.lost \in {ledger.lost, ledger.lost + 1}
          /\ enabled => ledger'.lost = ledger.lost
          /\ ledger'.late = ledger.late
      <4>1. ledger \in Ledger /\ ledger.offered = Len(media) + 1
        BY <3>1 DEF Inv, TypeOK
      <4> QED
        <5> DEFINE m == ledger.offered - 1
                   n == IF batch = <<>> THEN ledger.lost ELSE ledger.lost + 1
        <5>1. m \in Nat /\ n \in Nat
          BY <3>2, <4>1 DEF Ledger
        <5>2. ledger' = [ledger EXCEPT !.offered = m, !.lost = n]
          BY <2>2
        <5>3. /\ ledger'.offered = m /\ ledger'.lost = n
              /\ ledger' \in Ledger /\ ledger'.late = ledger.late
          <6> HIDE DEF m, n
          <6> QED
            BY <4>1, <5>1, <5>2 DEF Ledger
        <5>4. n \in {ledger.lost, ledger.lost + 1} /\ (enabled => n = ledger.lost)
          BY <2>2
        <5> QED
          BY <5>3, <5>4
    <3>4. TypeOK'
      BY <2>2, <3>2, <3>3 DEF Inv, TypeOK, queues, environment
    <3>5. HandConsistent' /\ SwitchConsistent' /\ LateOnce'
      BY <2>2, <3>3 DEF Inv, HandConsistent, SwitchConsistent, LateOnce
    <3>6. (ledger.offered = Len(media) + InHand)' /\ LossBounded'
      BY <2>2, <3>1, <3>2, <3>3 DEF Inv, TypeOK, LossBounded, Ledger, queues
    <3> QED
      BY <3>4, <3>5, <3>6 DEF Inv
  <2> QED
    BY <1>9, <2>1, <2>2 DEF Check
<1>10. CASE Steal
  BY <1>10, WriteControlInv, GotoInv DEF Steal
<1>11. CASE Send
  <2>1. PICK fails \in WriteFails :
          IF fails \/ closed
          THEN /\ writer' = "stopped"
               /\ ledger' = [ledger EXCEPT !.failed = TRUE]
               /\ UNCHANGED batch
          ELSE /\ writer' = "check"
               /\ batch' = Tail(batch)
               /\ ledger' = [ledger EXCEPT !.late = IF disabling = "done" THEN @ + 1 ELSE @]
    BY <1>11 DEF Send
  <2>2. /\ writer = "send" /\ batch # <<>> /\ ledger.late = 0
        /\ UNCHANGED <<inbound, control, media, enabled, disabling, reader,
                       cancelled, closed, announced>>
    BY <1>11 DEF Send, Inv, TypeOK, Ledger, HandConsistent, LateOnce, queues, environment
  <2>3. batch' \in Seq(Listeners)
    <3>1. batch \in Seq(Listeners) /\ (batch' = batch \/ batch' = Tail(batch))
      BY <2>1 DEF Inv, TypeOK
    <3>2. Tail(batch) \in Seq(Listeners)
      BY <2>2, <3>1
    <3> QED
      BY <3>1, <3>2
  <2>4. /\ writer' \in {"stopped", "check"}
        /\ InHand = 1 /\ InHand' = 1
    BY <2>1, <2>2 DEF InHand
  <2>5. /\ ledger' \in Ledger
        /\ ledger'.offered = ledger.offered
        /\ ledger'.lost = ledger.lost
        /\ ledger'.late \in {0, 1}
        /\ disabling # "done" => ledger'.late = 0
    <3>1. ledger \in Ledger
      BY DEF Inv, TypeOK
    <3> QED
      <4>1. CASE ledger' = [ledger EXCEPT !.failed = TRUE]
        BY <2>2, <3>1, <4>1 DEF Ledger
      <4>2. CASE disabling = "done" /\ ledger' = [ledger EXCEPT !.late = 1]
        BY <2>2, <3>1, <4>2 DEF Ledger
      <4>3. CASE disabling # "done" /\ ledger' = [ledger EXCEPT !.late = 0]
        BY <2>2, <3>1, <4>3 DEF Ledger
      <4> QED
        BY <2>1, <2>2, <4>1, <4>2, <4>3
  <2>6. TypeOK'
    BY <2>2, <2>3, <2>4, <2>5 DEF Inv, TypeOK
  <2>7. HandConsistent' /\ SwitchConsistent' /\ LateOnce'
    BY <2>2, <2>4, <2>5 DEF Inv, HandConsistent, SwitchConsistent, LateOnce
  <2> QED
    BY <2>2, <2>4, <2>5, <2>6, <2>7 DEF Inv, LossBounded
<1>12. CASE UNCHANGED vars
  BY <1>12 DEF vars, Inv, TypeOK, HandConsistent, SwitchConsistent, LossBounded,
               LateOnce, InHand
<1> QED
  BY <1>1, <1>2, <1>3, <1>4, <1>5, <1>6, <1>7, <1>8, <1>9, <1>10, <1>11, <1>12
     DEF Next, WriterStep

\* The inductive invariant holds throughout.
LEMMA Invariance == Safety => []Inv
  BY InitInv, NextInv, PTL DEF Safety

\* Every batch EnqueueMedia accepted is queued, in hand or out of the books
\* once, and DisableMedia with the writer's break lose at most a full queue
\* and one batch; the channels keep their capacities.
THEOREM MediaAccounting == Spec => []MediaIsAccounted
<1>1. Inv => MediaIsAccounted
  BY CapacityAssumption, LenProperties
     DEF Inv, MediaIsAccounted, InHand, LossBounded, TypeOK, Ledger
<1> QED
  BY <1>1, Invariance, PTL DEF Spec

\* After DisableMedia has returned at most one media datagram is written.
THEOREM PromptDisable == Spec => []DisableIsPrompt
<1>1. Inv => DisableIsPrompt
  BY DEF Inv, LateOnce, DisableIsPrompt
<1> QED
  BY <1>1, Invariance, PTL DEF Spec
=============================================================================
