------------------------------ MODULE Transport ------------------------------
(***************************************************************************)
(* The bounded UDP adapter of internal/transport/udp.go: three goroutines  *)
(* around one socket.  The state owner enqueues control datagrams and      *)
(* media batches without blocking and takes inbound datagrams; the reader  *)
(* fills the inbound queue; the writer alternates between its two select   *)
(* statements and sends one batch recipient by recipient.  Between any two *)
(* of the writer's steps the others run.                                   *)
(*                                                                         *)
(* A control datagram is a STREAM_START for a listener or anything else; a *)
(* media batch is the sequence of its recipients.  Only the state owner    *)
(* takes mediaMu, so the mutex is never contended and is left out.         *)
(***************************************************************************)
EXTENDS Integers, Sequences, SequencesExt, FiniteSets

CONSTANTS
    Listeners,       \* destination addresses
    InboundCapacity, \* capacities of the three channels
    ControlCapacity,
    MediaCapacity,
    WriteFails       \* may WriteTo fail on an open socket?  a set of Booleans

ASSUME CapacityAssumption ==
    {InboundCapacity, ControlCapacity, MediaCapacity} \subseteq Nat \ {0}
ASSUME ListenersAssumption == IsFiniteSet(Listeners)
ASSUME FailureAssumption == WriteFails \subseteq BOOLEAN /\ FALSE \in WriteFails

VARIABLES
    inbound,     \* how many datagrams u.Inbound holds
    control,     \* u.Control
    media,       \* u.Media
    enabled,     \* u.mediaEnabled
    disabling,   \* DisableMedia: "no", "draining" its queue, or "done"
    writer,      \* where the writer is
    batch,       \* the recipients the writer still has to serve
    reader,      \* "reading" or "stopped"
    cancelled,   \* the context of Read and Write is done
    closed,      \* the socket is closed
    announced,   \* history: listeners whose STREAM_START was enqueued
    ledger       \* history: what became of the batches; see Ledger

queues == <<inbound, control, media>>
environment == <<cancelled, closed>>
vars == <<inbound, control, media, enabled, disabling, writer, batch,
          reader, cancelled, closed, announced, ledger>>

Datagram == [to : Listeners, start : BOOLEAN]

\* offered: batches offered to EnqueueMedia less those sent to the end,
\*          dropped, discarded or abandoned;
\* lost:    batches that DisableMedia discarded or the writer abandoned;
\* late:    media datagrams written after DisableMedia returned;
\* turn:    changes with every control datagram written;
\* failed:  a WriteTo failed.
Ledger == [offered : Nat, lost : Nat, late : Nat, turn : BOOLEAN, failed : BOOLEAN]

-----------------------------------------------------------------------------
(* The state owner.  It is inside DisableMedia while that drains.          *)

OwnerFree == disabling # "draining"

\* A full queue changes ControlFailures only: what the caller then does is
\* Reflector's subject.
EnqueueControl(d) ==
    /\ OwnerFree
    /\ Len(control) < ControlCapacity
    /\ control' = Append(control, d)
    /\ announced' = IF d.start THEN announced \cup {d.to} ELSE announced
    /\ UNCHANGED <<inbound, media, enabled, disabling, writer, batch, reader,
                   environment, ledger>>

\* Mutant of EnqueueMedia: mediaEnabled is not looked at.
EnqueueMediaAlways(recipients) ==
    /\ OwnerFree
    /\ ToSet(recipients) \subseteq announced
    /\ Len(media) < MediaCapacity
    /\ media' = Append(media, recipients)
    /\ ledger' = [ledger EXCEPT !.offered = @ + 1]
    /\ UNCHANGED <<inbound, control, enabled, disabling, writer, batch, reader,
                   environment, announced>>

\* The media handler of the reflector picks recipients among the listeners
\* whose STREAM_START it enqueued before.  A batch that finds the queue full
\* or disabled is counted in MediaDrops and is out of the books.
EnqueueMedia(recipients) ==
    /\ OwnerFree
    /\ ToSet(recipients) \subseteq announced
    /\ enabled /\ Len(media) < MediaCapacity
    /\ media' = Append(media, recipients)
    /\ ledger' = [ledger EXCEPT !.offered = @ + 1]
    /\ UNCHANGED <<inbound, control, enabled, disabling, writer, batch, reader,
                   environment, announced>>

DisableMedia ==
    /\ disabling = "no"
    /\ enabled' = FALSE
    /\ disabling' = "draining"
    /\ UNCHANGED <<queues, writer, batch, reader, environment,
                   announced, ledger>>

\* One round of its loop; the writer may take a batch in between.
Discard ==
    /\ disabling = "draining"
    /\ IF media = <<>>
       THEN disabling' = "done" /\ UNCHANGED <<media, ledger>>
       ELSE /\ media' = Tail(media)
            /\ ledger' = [ledger EXCEPT !.offered = @ - 1, !.lost = @ + 1]
            /\ UNCHANGED disabling
    /\ UNCHANGED <<inbound, control, enabled, writer, batch, reader,
                   environment, announced>>

TakeInbound ==
    /\ OwnerFree
    /\ inbound > 0
    /\ inbound' = inbound - 1
    /\ UNCHANGED <<control, media, enabled, disabling, writer, batch, reader,
                   environment, announced, ledger>>

-----------------------------------------------------------------------------
(* The reader.                                                             *)

\* A datagram arrives; the newest is dropped when the queue is full.
Read ==
    /\ reader = "reading"
    /\ ~closed
    /\ inbound' = IF inbound < InboundCapacity THEN inbound + 1 ELSE inbound
    /\ UNCHANGED <<control, media, enabled, disabling, writer, batch, reader,
                   environment, announced, ledger>>

\* Mutant of ReadFails: the loop continues after every error.
ReadRetries == reader = "reading" /\ cancelled /\ UNCHANGED vars

\* ReadFrom fails, by its deadline or the closed socket: only then does the
\* reader look at its context.
ReadFails ==
    /\ reader = "reading"
    /\ cancelled
    /\ reader' = "stopped"
    /\ UNCHANGED <<queues, enabled, disabling, writer, batch,
                   environment, announced, ledger>>

-----------------------------------------------------------------------------
(* The writer.                                                             *)

\* WriteTo: it fails on a closed socket and may fail on an open one; a
\* failure ends the writer.
WriteControl(next) ==
    \E fails \in WriteFails :
        /\ control' = Tail(control)
        /\ IF fails \/ closed
           THEN /\ writer' = "stopped"
                /\ ledger' = [ledger EXCEPT !.failed = TRUE]
           ELSE /\ writer' = next
                /\ ledger' = [ledger EXCEPT !.turn = ~@]
        /\ UNCHANGED <<inbound, media, enabled, disabling, batch, reader,
                       environment, announced>>

Goto(next) ==
    /\ writer' = next
    /\ UNCHANGED <<queues, enabled, disabling, batch, reader,
                   environment, announced, ledger>>

\* The first select: control or the end, and on if neither is ready.
Poll ==
    /\ writer = "poll"
    /\ \/ control # <<>> /\ WriteControl("poll")
       \/ cancelled /\ Goto("stopped")
       \/ control = <<>> /\ ~cancelled /\ Goto("wait")

\* The second select: whatever is ready, chosen at random.
Wait ==
    /\ writer = "wait"
    /\ \/ control # <<>> /\ WriteControl("poll")
       \/ cancelled /\ Goto("stopped")
       \/ /\ media # <<>>
          /\ media' = Tail(media)
          /\ batch' = Head(media)
          /\ writer' = "check"
          /\ UNCHANGED <<inbound, control, enabled, disabling, reader,
                         environment, announced, ledger>>

\* Mutants of Check: mediaEnabled is not looked at; a return for the break.
CheckNot ==
    /\ writer = "check"
    /\ \/ batch # <<>> /\ Goto("steal")
       \/ /\ batch = <<>>
          /\ ledger' = [ledger EXCEPT !.offered = @ - 1]
          /\ writer' = "poll"
          /\ UNCHANGED <<queues, enabled, disabling, batch, reader, environment,
                         announced>>
CheckReturns ==
    /\ writer = "check"
    /\ \/ batch # <<>> /\ enabled /\ Goto("steal")
       \/ /\ batch = <<>> \/ ~enabled
          /\ ledger' = [ledger EXCEPT !.offered = @ - 1,
                                      !.lost = IF batch = <<>> THEN @ ELSE @ + 1]
          /\ batch' = <<>>
          /\ writer' = IF enabled THEN "poll" ELSE "stopped"
          /\ UNCHANGED <<queues, enabled, disabling, reader, environment,
                         announced>>

\* for each recipient: if !u.mediaEnabled.Load() { break }
Check ==
    /\ writer = "check"
    /\ \/ batch # <<>> /\ enabled /\ Goto("steal")
       \/ /\ batch = <<>> \/ ~enabled
          /\ ledger' = [ledger EXCEPT !.offered = @ - 1,
                                      !.lost = IF batch = <<>> THEN @ ELSE @ + 1]
          /\ batch' = <<>>
          /\ writer' = "poll"
          /\ UNCHANGED <<queues, enabled, disabling, reader, environment,
                         announced>>

\* One control datagram, if there is one, before each recipient.
Steal ==
    /\ writer = "steal"
    /\ IF control # <<>> THEN WriteControl("send") ELSE Goto("send")

Send ==
    /\ writer = "send"
    /\ \E fails \in WriteFails :
         IF fails \/ closed
         THEN /\ writer' = "stopped"
              /\ ledger' = [ledger EXCEPT !.failed = TRUE]
              /\ UNCHANGED batch
         ELSE /\ writer' = "check"
              /\ batch' = Tail(batch)
              /\ ledger' = [ledger EXCEPT !.late = IF disabling = "done" THEN @ + 1 ELSE @]
    /\ UNCHANGED <<queues, enabled, disabling, reader, environment, announced>>

WriterStep == Poll \/ Wait \/ Check \/ Steal \/ Send

-----------------------------------------------------------------------------
(* The end: Run cancels the context and the command closes the socket.     *)

Cancel ==
    /\ ~cancelled
    /\ cancelled' = TRUE
    /\ UNCHANGED <<queues, enabled, disabling, writer, batch, reader, closed,
                   announced, ledger>>

Close ==
    /\ cancelled /\ ~closed
    /\ closed' = TRUE
    /\ UNCHANGED <<queues, enabled, disabling, writer, batch, reader, cancelled,
                   announced, ledger>>

Init ==
    /\ inbound = 0
    /\ control = <<>>
    /\ media = <<>>
    /\ enabled = TRUE
    /\ disabling = "no"
    /\ writer = "poll"
    /\ batch = <<>>
    /\ reader = "reading"
    /\ cancelled = FALSE
    /\ closed = FALSE
    /\ announced = {}
    /\ ledger = [offered |-> 0, lost |-> 0, late |-> 0,
                 turn |-> FALSE, failed |-> FALSE]

Next ==
    \/ \E d \in Datagram : EnqueueControl(d)
    \/ \E to \in SUBSET Listeners \ {{}} : \E r \in SetToSeqs(to) : EnqueueMedia(r)
    \/ DisableMedia \/ Discard \/ TakeInbound
    \/ Read \/ ReadFails
    \/ WriterStep
    \/ Cancel \/ Close

Safety == Init /\ [][Next]_vars

\* The goroutines are scheduled, a loop of the state owner ends, and every
\* ReadFrom returns by its deadline or because the socket is closed.
Spec == Safety /\ WF_vars(WriterStep) /\ WF_vars(Discard)
               /\ WF_vars(ReadFails /\ closed)

-----------------------------------------------------------------------------
(* Properties.                                                             *)

\* The channels respect their capacities and the program counters are
\* those of the code.
TypeOK ==
    /\ inbound \in 0 .. InboundCapacity
    /\ control \in Seq(Datagram) /\ Len(control) <= ControlCapacity
    /\ media \in Seq(Seq(Listeners)) /\ Len(media) <= MediaCapacity
    /\ batch \in Seq(Listeners)
    /\ {enabled, cancelled, closed} \subseteq BOOLEAN
    /\ disabling \in {"no", "draining", "done"}
    /\ writer \in {"poll", "wait", "check", "steal", "send", "stopped"}
    /\ reader \in {"reading", "stopped"}
    /\ announced \subseteq Listeners
    /\ ledger \in Ledger

\* Once DisableMedia has returned, at most one more media datagram leaves
\* the socket: the one the writer was about to send when it had last looked
\* at mediaEnabled.
DisableIsPrompt == ledger.late <= 1

\* Every batch the queue took is still there, in the writer's hands, or was
\* sent to the end, discarded or abandoned, once.  Batches are lost only to
\* DisableMedia, and no more than a full queue and the one in hand.  The
\* channels are in bounds meanwhile.
MediaIsAccounted ==
    /\ TypeOK
    /\ ledger.offered = Len(media) + (IF batch # <<>> \/ writer = "check" THEN 1 ELSE 0)
    /\ ledger.lost > 0 => ~enabled
    /\ ledger.lost <= MediaCapacity + 1

\* The control queue keeps moving, whatever media is offered and whenever it
\* is disabled: its head is written unless the context is cancelled or a
\* write fails.  The queue is first in, first out, so every control datagram
\* is written.
ControlIsWritten ==
    \A turn \in BOOLEAN :
        (control # <<>> /\ ledger.turn = turn) ~> (ledger.turn # turn \/ cancelled \/ ledger.failed)

\* When the context is cancelled and the socket closed, both goroutines end,
\* wherever they were.
GoroutinesEnd == closed ~> (reader = "stopped" /\ writer = "stopped")
=============================================================================
