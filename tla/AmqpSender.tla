----------------------------- MODULE AmqpSender -----------------------------
(***************************************************************************)
(* The sending side of one attached AMQP link (src/sender.go, with the     *)
(* shutdown half of src/link.go).                                          *)
(*                                                                         *)
(* Actors:                                                                 *)
(*  - Callers: goroutines in Sender.Send / Sender.send, serialised by s.mu *)
(*    and handing frames to the mux over the unbuffered s.transfers chan.  *)
(*  - the link mux goroutine (Sender.mux, muxHandleFrame, link.muxClose),  *)
(*    a Go select over dispositions to send, received frames, transfers    *)
(*    and the close / session.done signals;                                *)
(*  - the application closing the link (link.closeLink);                   *)
(*  - the session, which is not part of src/: it routes the peer's frames  *)
(*    into the link's rx channel, writes the mux's frames and completes    *)
(*    the per-delivery Done channel (modelled from spec.md 4.3, 4.5);      *)
(*  - the remote receiver, an arbitrary conforming AMQP peer.              *)
(*                                                                         *)
(* Data is abstracted: a message is its delivery tag and its frame count;  *)
(* an error is the kind of doneErr that the code tells apart.  Credit and  *)
(* delivery-count are uint32 in the code and are kept modulo 2^CreditBits *)
(* here, so the wrap-around of the code's arithmetic is preserved.         *)
(***************************************************************************)
EXTENDS Integers, Sequences, FiniteSets, SequencesExt

CONSTANTS
    Callers,          \* goroutines that call Send concurrently
    NoCaller,         \* model value: s.mu is not held
    MaxMsgs,          \* bound: number of Send calls in a behaviour
    MaxFrames,        \* bound: transfer frames per message (payload/maxPayloadSize)
    MaxCredit,        \* bound: link-credit the peer grants in one flow
    MaxFlows,         \* bound: flow frames the peer sends in a behaviour
    MaxCancels,       \* bound: ctx cancellations of Send / Close calls
    CreditBits,       \* width of the credit arithmetic (uint32 in the code)
    MonotoneCredit,   \* TRUE: the peer never lowers delivery-count + link-credit
    PeerMayDetach,    \* TRUE: the peer may detach the link on its own
    SessionMayEnd,    \* TRUE: the parent session may terminate
    SSMs,             \* negotiated sender settle modes to explore
    RSMs,             \* negotiated receiver settle modes to explore
    CloseOnDispErrs,  \* values of closeOnDispositionError to explore
    Echoes,           \* values of the echo flag the peer may set on a flow
    EmptyMsgs,        \* TRUE: a message may marshal to zero bytes
    Coordinator       \* TRUE: the link is a TransactionController's link to
                      \* a transaction coordinator

ASSUME /\ MaxMsgs \in 1..(2^CreditBits - 1)
       /\ MaxFrames \in Nat \ {0}
       /\ MaxCredit \in Nat /\ MaxFlows \in Nat /\ MaxCancels \in Nat
       /\ SSMs \subseteq {"unsettled", "settled", "mixed"} /\ SSMs # {}
       /\ RSMs \subseteq {"first", "second"} /\ RSMs # {}
       /\ CloseOnDispErrs \subseteq BOOLEAN /\ CloseOnDispErrs # {}
       /\ Echoes \subseteq BOOLEAN /\ Echoes # {}
       /\ EmptyMsgs \in BOOLEAN /\ Coordinator \in BOOLEAN
       \* a declare or discharge message always has a body
       /\ Coordinator => ~EmptyMsgs

Mod == 2^CreditBits

\* Delivery tags 0, 1, ... : nextDeliveryTag encoded as the tag (sender.go:123-129).
Msgs == 0..(MaxMsgs - 1)
NoMsg == -1

\* s.l.rx = make(chan frames.FrameBody, 1)
RxCapacity == 1

\* The delivery states the peer may settle with; "released" stands for
\* Released and Modified, which no code of src/ tells apart.
States == {"accepted", "rejected", "released", "declared"}

\* The calls made on the link: Send, or on a coordinator link (spec.md 4.7)
\* only TransactionController.Declare and .Discharge.  Discharge is a Send
\* of the discharge body; Declare is a sendRaw of the declare body.
Ops == IF Coordinator THEN {"declare", "discharge"} ELSE {"send"}

\* doneErr kinds: LinkError{} | LinkError{RemoteErr} | LinkError{inner} | session.doneErr
ErrKinds == {"none", "closed", "remote", "inner", "session"}

NoFrame == [type |-> "none"]
NoDisp  == [d |-> NoMsg, state |-> "none"]

VARIABLES
    ssm, rsm, closeOnDispositionError,       \* fixed by attach / options
    pc, opOf, msgOf, frameOf, mutex, calls, nextDeliveryTag, msgs, cancels, results,
    muxPc, tr, dr, outgoingDisps, outgoingDisp, availableCredit, deliveryCount,
    doneErr, detachReceived, linkDone, rx,
    closeSignalled, closerPc, closeResult,
    toPeer, fromPeer, doneCh, sessionDone,
    peerDC, peerLimit, peerPending, peerOutcome, peerDetach, flowsSent,
    xfers, limitSeen, dispsSeen, acks          \* history, read by properties only

cfgVars    == <<ssm, rsm, closeOnDispositionError>>
callerVars == <<pc, opOf, msgOf, frameOf, mutex, calls, nextDeliveryTag, msgs, cancels, results>>
muxVars    == <<muxPc, tr, dr, outgoingDisps, outgoingDisp, availableCredit, deliveryCount,
                doneErr, detachReceived, linkDone, rx>>
closerVars == <<closeSignalled, closerPc, closeResult>>
netVars    == <<toPeer, fromPeer, doneCh, sessionDone>>
peerVars   == <<peerDC, peerLimit, peerPending, peerOutcome, peerDetach, flowsSent>>
histVars   == <<xfers, limitSeen, dispsSeen, acks>>
vars == <<cfgVars, callerVars, muxVars, closerVars, netVars, peerVars, histVars>>

TransferFrames ==
    [type: {"transfer"}, d: Msgs, k: 1..MaxFrames, more: BOOLEAN, settled: BOOLEAN]
ToPeerFrames ==
    TransferFrames \cup [type: {"disposition"}, d: Msgs]
                   \cup {[type |-> "flow"], [type |-> "detach"]}
FromPeerFrames ==
    [type: {"flow"}, dc: 0..(Mod - 1), credit: 0..MaxCredit, limit: Nat, echo: BOOLEAN]
    \cup [type: {"disposition"}, d: Msgs, state: States, settled: BOOLEAN]
    \cup [type: {"detach"}, closed: BOOLEAN, err: BOOLEAN]

-----------------------------------------------------------------------------
(* Helpers translated from the code.                                        *)

\* Sender.detachOnRejectDisp
DetachOnRejectDisp ==
    closeOnDispositionError /\ rsm = "first"

\* senderSettled in Sender.send
SenderSettled(sendSettled) ==
    ssm = "settled" \/ (ssm = "mixed" /\ sendSettled)

\* Send's case state := <-done: Rejected is an error (a LinkError when
\* detachOnRejectDisp holds), any other state is success.
SendResult(state) == IF state = "rejected" THEN "err" ELSE "ok"

\* Mutant: Declare returns a transaction id whatever the state.
DeclareResultNoTypeCheck(state) == "ok"

\* TransactionController.Declare once sendRaw has returned the state: the
\* TransactionID of a *StateDeclared, any other state is the "invalid
\* response" error.
DeclareResult(state) == IF state = "declared" THEN "ok" ELSE "err"

\* What the peer may answer to a delivery: a transaction coordinator answers
\* a declare with Declared or Rejected and a discharge with Accepted or
\* Rejected (spec.md 4.7); a receiver accepts, rejects, releases or
\* modifies (spec.md 4.5).
Answers(op) ==
    CASE op = "declare"   -> {"declared", "rejected"}
      [] op = "discharge" -> {"accepted", "rejected"}
      [] OTHER            -> {"accepted", "rejected", "released"}

\* The mux returns (its deferred muxClose runs next), dropping what it held.
MuxReturn(err) ==
    /\ muxPc' = "closeSend"
    /\ doneErr' = err
    /\ tr' = NoFrame
    /\ dr' = NoDisp

\* History: a last frame the mux has taken but not yet written completes a
\* delivery whatever the next flow says.
InFlightLast ==
    IF tr.type = "transfer" /\ ~tr.more THEN 1 ELSE 0

\* Sender.muxHandleFrame, case *frames.PerformFlow.
HandleFlow(f, disps) ==
    LET linkCredit == (f.credit - deliveryCount + f.dc) % Mod IN
    /\ availableCredit' = linkCredit
    /\ limitSeen' = LET owed == deliveryCount + InFlightLast IN
                     IF f.limit >= owed THEN f.limit ELSE owed
    /\ toPeer' = IF f.echo THEN Append(toPeer, [type |-> "flow"]) ELSE toPeer
    /\ outgoingDisps' = disps
    /\ UNCHANGED <<muxPc, doneErr, tr, dr, detachReceived, dispsSeen>>

\* Sender.muxHandleFrame, case *frames.PerformDisposition, and the append of
\* the returned acknowledgement to outgoingDisps in mux's handleFrame.
HandleDisposition(f, disps) ==
    \/ /\ f.state = "rejected" /\ DetachOnRejectDisp
       /\ MuxReturn("remote")
       /\ outgoingDisps' = disps
       /\ UNCHANGED <<detachReceived, dispsSeen>>
    \/ /\ ~(f.state = "rejected" /\ DetachOnRejectDisp)
       /\ f.settled
       /\ outgoingDisps' = disps
       /\ UNCHANGED <<muxPc, doneErr, tr, dr, detachReceived, dispsSeen>>
    \/ /\ ~(f.state = "rejected" /\ DetachOnRejectDisp)
       /\ ~f.settled
       /\ outgoingDisps' = Append(disps, [d |-> f.d, state |-> f.state])
       /\ dispsSeen' = Append(dispsSeen, f.d)
       /\ UNCHANGED <<muxPc, doneErr, tr, dr, detachReceived>>

\* link.muxHandleFrame, case *frames.PerformDetach.
HandleDetach(f, disps) ==
    /\ IF f.closed
          THEN /\ detachReceived' = TRUE
               /\ MuxReturn(IF f.err THEN "remote" ELSE "closed")
          ELSE /\ MuxReturn("inner")
               /\ UNCHANGED detachReceived
    /\ outgoingDisps' = disps
    /\ UNCHANGED dispsSeen

\* handleFrame in Sender.mux: dispatch on the frame type.
HandleFrame(f, disps) ==
    \/ /\ f.type = "flow"
       /\ HandleFlow(f, disps)
    \/ /\ f.type = "disposition"
       /\ HandleDisposition(f, disps)
       /\ UNCHANGED <<availableCredit, limitSeen, toPeer>>
    \/ /\ f.type = "detach"
       /\ HandleDetach(f, disps)
       /\ UNCHANGED <<availableCredit, limitSeen, toPeer>>

-----------------------------------------------------------------------------
Init ==
    /\ ssm \in SSMs
    /\ rsm \in RSMs
    /\ closeOnDispositionError \in CloseOnDispErrs
    /\ pc = [c \in Callers |-> "idle"]
    /\ opOf = [c \in Callers |-> "none"]
    /\ msgOf = [c \in Callers |-> NoMsg]
    /\ frameOf = [c \in Callers |-> 0]
    /\ mutex = NoCaller
    /\ calls = 0
    /\ nextDeliveryTag = 0
    /\ msgs = [m \in Msgs |-> [n |-> 0, settled |-> FALSE, op |-> "none"]]
    /\ cancels = 0
    /\ results = {}
    /\ muxPc = "loop"
    /\ tr = NoFrame
    /\ dr = NoDisp
    /\ outgoingDisps = <<>>
    /\ outgoingDisp = NoDisp
    /\ availableCredit = 0
    /\ deliveryCount = 0
    /\ doneErr = "none"
    /\ detachReceived = FALSE
    /\ linkDone = FALSE
    /\ rx = <<>>
    /\ closeSignalled = FALSE
    /\ closerPc = "idle"
    /\ closeResult = "none"
    /\ toPeer = <<>>
    /\ fromPeer = <<>>
    /\ doneCh = [m \in Msgs |-> "none"]
    /\ sessionDone = FALSE
    /\ peerDC = 0
    /\ peerLimit = 0
    /\ peerPending = {}
    /\ peerOutcome = [m \in Msgs |-> "none"]
    /\ peerDetach = "none"
    /\ flowsSent = 0
    /\ xfers = <<>>
    /\ limitSeen = 0
    /\ dispsSeen = <<>>
    /\ acks = <<>>
-----------------------------------------------------------------------------
(* Callers: Sender.Send and Sender.send.                                    *)

\* Send, Declare or Discharge is called on a live link.  (On a dead link it
\* returns s.l.doneErr at once and changes nothing.)
CallSend(c) ==
    /\ pc[c] = "idle"
    /\ calls < MaxMsgs
    /\ ~linkDone
    /\ pc' = [pc EXCEPT ![c] = "locking"]
    /\ \E op \in Ops : opOf' = [opOf EXCEPT ![c] = op]
    /\ calls' = calls + 1
    /\ UNCHANGED <<cfgVars, msgOf, frameOf, mutex, nextDeliveryTag, msgs, cancels,
                   results, muxVars, closerVars, netVars, peerVars, histVars>>

\* Mutant: the caller proceeds without waiting for s.mu.
AcquireLockUnguarded(c) ==
    /\ pc[c] = "locking"
    /\ \E n \in 1..MaxFrames, sendSettled \in BOOLEAN :
          /\ pc' = [pc EXCEPT ![c] = "sending"]
          /\ mutex' = c
          /\ msgOf' = [msgOf EXCEPT ![c] = nextDeliveryTag]
          /\ frameOf' = [frameOf EXCEPT ![c] = 1]
          /\ msgs' = [msgs EXCEPT ![nextDeliveryTag] =
                         [n |-> n, settled |-> SenderSettled(sendSettled), op |-> opOf[c]]]
          /\ nextDeliveryTag' = nextDeliveryTag + 1
    /\ UNCHANGED <<cfgVars, opOf, calls, cancels, results, muxVars, closerVars,
                   netVars, peerVars, histVars>>

\* s.mu.Lock(); marshal; the maxMessageSize check; the delivery tag taken
\* from nextDeliveryTag.  The message size is an input: too large (return
\* with the lock released), zero bytes (the frame loop is skipped and send
\* returns the nil fr.Done, on which Send then waits), or a number of
\* frames of maxPayloadSize.
AcquireLock(c) ==
    /\ pc[c] = "locking"
    /\ mutex = NoCaller
    /\ \/ /\ pc' = [pc EXCEPT ![c] = "idle"]
          /\ UNCHANGED <<msgOf, frameOf, mutex, nextDeliveryTag, msgs>>
       \/ /\ EmptyMsgs
          /\ pc' = [pc EXCEPT ![c] = "waiting"]
          /\ msgOf' = [msgOf EXCEPT ![c] = nextDeliveryTag]
          /\ msgs' = [msgs EXCEPT ![nextDeliveryTag] =
                         [n |-> 0, settled |-> FALSE, op |-> opOf[c]]]
          /\ nextDeliveryTag' = nextDeliveryTag + 1
          /\ UNCHANGED <<frameOf, mutex>>
       \/ \E n \in 1..MaxFrames, sendSettled \in BOOLEAN :
             /\ pc' = [pc EXCEPT ![c] = "sending"]
             /\ mutex' = c
             /\ msgOf' = [msgOf EXCEPT ![c] = nextDeliveryTag]
             /\ frameOf' = [frameOf EXCEPT ![c] = 1]
             /\ msgs' = [msgs EXCEPT ![nextDeliveryTag] =
                            [n |-> n, settled |-> SenderSettled(sendSettled),
                             op |-> opOf[c]]]
             /\ nextDeliveryTag' = nextDeliveryTag + 1
    /\ UNCHANGED <<cfgVars, opOf, calls, cancels, results, muxVars, closerVars,
                   netVars, peerVars, histVars>>

\* A Send returns: release s.mu if held, record the outcome.
Return(c, res) ==
    /\ pc' = [pc EXCEPT ![c] = "idle"]
    /\ mutex' = IF mutex = c THEN NoCaller ELSE mutex
    /\ results' = results \cup {[m |-> msgOf[c], res |-> res]}

\* The select in send's frame loop: case <-s.l.done.
SendLinkDone(c) ==
    /\ pc[c] = "sending"
    /\ linkDone
    /\ Return(c, "err")
    /\ UNCHANGED <<cfgVars, opOf, msgOf, frameOf, calls, nextDeliveryTag, msgs, cancels,
                   muxVars, closerVars, netVars, peerVars, histVars>>

\* case <-ctx.Done() in send's frame loop or in Send's wait for the outcome.
SendCancel(c) ==
    /\ pc[c] \in {"sending", "waiting"}
    /\ cancels < MaxCancels
    /\ cancels' = cancels + 1
    /\ Return(c, "err")
    /\ UNCHANGED <<cfgVars, opOf, msgOf, frameOf, calls, nextDeliveryTag, msgs,
                   muxVars, closerVars, netVars, peerVars, histVars>>

\* Mutant: any state on the done channel is reported as success.
SendCompleteIgnoringReject(c) ==
    /\ pc[c] = "waiting"
    /\ doneCh[msgOf[c]] # "none"
    /\ Return(c, "ok")
    /\ UNCHANGED <<cfgVars, opOf, msgOf, frameOf, calls, nextDeliveryTag, msgs, cancels,
                   muxVars, closerVars, netVars, peerVars, histVars>>

\* The wait of Send, and of sendRaw under Declare: case state := <-done.
SendComplete(c) ==
    /\ pc[c] = "waiting"
    /\ doneCh[msgOf[c]] # "none"
    /\ Return(c, IF opOf[c] = "declare" THEN DeclareResult(doneCh[msgOf[c]])
                  ELSE SendResult(doneCh[msgOf[c]]))
    /\ UNCHANGED <<cfgVars, opOf, msgOf, frameOf, calls, nextDeliveryTag, msgs, cancels,
                   muxVars, closerVars, netVars, peerVars, histVars>>

\* Mutant: a link the caller closed (an empty LinkError, which closeLink
\* reports as nil) is reported as success by Send too.
SendWaitLinkDoneClosedIsNil(c) ==
    /\ pc[c] = "waiting"
    /\ linkDone
    /\ Return(c, IF doneErr = "closed" THEN "ok" ELSE "err")
    /\ UNCHANGED <<cfgVars, opOf, msgOf, frameOf, calls, nextDeliveryTag, msgs, cancels,
                   muxVars, closerVars, netVars, peerVars, histVars>>

\* Send's wait: case <-s.l.done.
SendWaitLinkDone(c) ==
    /\ pc[c] = "waiting"
    /\ linkDone
    /\ Return(c, "err")
    /\ UNCHANGED <<cfgVars, opOf, msgOf, frameOf, calls, nextDeliveryTag, msgs, cancels,
                   muxVars, closerVars, netVars, peerVars, histVars>>

-----------------------------------------------------------------------------
(* The mux goroutine: Sender.mux.  Its top-level select.                    *)

\* Mutant: the oldest queued disposition is copied into the channel but
\* left in the slice.
FeedDispKeepingHead(disps, slot) ==
    IF disps # <<>> /\ slot = NoDisp
       THEN [disps |-> disps, slot |-> Head(disps)]
       ELSE [disps |-> disps, slot |-> slot]

\* The top of each iteration of Sender.mux's loop: when the outgoingDisps
\* slice is not empty and the one-slot outgoingDisp channel is, the oldest
\* disposition moves from the slice into the channel.
FeedDisp(disps, slot) ==
    IF disps # <<>> /\ slot = NoDisp
       THEN [disps |-> Tail(disps), slot |-> Head(disps)]
       ELSE [disps |-> disps, slot |-> slot]

\* The slice and the channel as the loop's select sees them.
Fed == FeedDisp(outgoingDisps, outgoingDisp)
TakeFed == outgoingDisps' = Fed.disps /\ outgoingDisp' = Fed.slot

\* Mutant: the outgoing dispositions are gated on credit like the transfers.
MuxTakeDispWithCredit ==
    /\ muxPc = "loop"
    /\ availableCredit > 0
    /\ Fed.slot # NoDisp
    /\ dr' = Fed.slot
    /\ outgoingDisp' = NoDisp
    /\ outgoingDisps' = Fed.disps
    /\ muxPc' = "txDisp"
    /\ UNCHANGED <<cfgVars, callerVars, tr, availableCredit, deliveryCount, doneErr,
                   detachReceived, linkDone, rx, closerVars, netVars, peerVars, histVars>>

\* case dr := <-outgoingDisp.
MuxTakeDisp ==
    /\ muxPc = "loop"
    /\ Fed.slot # NoDisp
    /\ dr' = Fed.slot
    /\ outgoingDisp' = NoDisp
    /\ outgoingDisps' = Fed.disps
    /\ muxPc' = "txDisp"
    /\ UNCHANGED <<cfgVars, callerVars, tr, availableCredit, deliveryCount, doneErr,
                   detachReceived, linkDone, rx, closerVars, netVars, peerVars, histVars>>

\* Mutant: the frame loop runs one frame past the end of the payload.
MuxTakeTransferOffByOne(c) ==
    /\ muxPc = "loop"
    /\ availableCredit > 0
    /\ pc[c] = "sending"
    /\ LET m    == msgOf[c]
           k    == frameOf[c]
           more == k <= msgs[m].n
       IN  /\ tr' = [type |-> "transfer", d |-> m, k |-> k, more |-> more,
                     settled |-> (~more /\ msgs[m].settled)]
           /\ IF more
                 THEN /\ frameOf' = [frameOf EXCEPT ![c] = k + 1]
                      /\ UNCHANGED <<pc, mutex>>
                 ELSE /\ pc' = [pc EXCEPT ![c] = "waiting"]
                      /\ mutex' = NoCaller
                      /\ UNCHANGED frameOf
    /\ muxPc' = "txTransfer"
    /\ UNCHANGED <<cfgVars, opOf, msgOf, calls, nextDeliveryTag, msgs, cancels, results,
                   dr, availableCredit, deliveryCount, doneErr,
                   detachReceived, linkDone, rx, closerVars, netVars, peerVars, histVars>>
    /\ TakeFed

\* case tr := <-outgoingTransfers, enabled only while availableCredit > 0:
\* the rendezvous with the caller blocked on s.transfers <- fr.  The caller
\* then clears the first-frame fields and loops, or returns fr.Done after
\* the last frame (unlocking s.mu).
MuxTakeTransfer(c) ==
    /\ muxPc = "loop"
    /\ availableCredit > 0
    /\ pc[c] = "sending"
    /\ LET m    == msgOf[c]
           k    == frameOf[c]
           more == k < msgs[m].n
       IN  /\ tr' = [type |-> "transfer", d |-> m, k |-> k, more |-> more,
                     settled |-> (~more /\ msgs[m].settled)]
           /\ IF more
                 THEN /\ frameOf' = [frameOf EXCEPT ![c] = k + 1]
                      /\ UNCHANGED <<pc, mutex>>
                 ELSE /\ pc' = [pc EXCEPT ![c] = "waiting"]
                      /\ mutex' = NoCaller
                      /\ UNCHANGED frameOf
    /\ muxPc' = "txTransfer"
    /\ UNCHANGED <<cfgVars, opOf, msgOf, calls, nextDeliveryTag, msgs, cancels, results,
                   dr, availableCredit, deliveryCount, doneErr,
                   detachReceived, linkDone, rx, closerVars, netVars, peerVars, histVars>>
    /\ TakeFed

\* case fr := <-s.l.rx, in the top-level select and in both inner loops.
MuxRecv ==
    /\ muxPc \in {"loop", "txDisp", "txTransfer"}
    /\ rx # <<>>
    /\ rx' = Tail(rx)
    /\ LET q == IF muxPc = "loop" THEN Fed
                ELSE [disps |-> outgoingDisps, slot |-> outgoingDisp]
       IN  /\ outgoingDisp' = q.slot
           /\ HandleFrame(Head(rx), q.disps)
    /\ UNCHANGED <<cfgVars, callerVars, deliveryCount, linkDone, closerVars,
                   fromPeer, doneCh, sessionDone, peerVars, xfers, acks>>

\* case <-s.l.close: doneErr = &LinkError{}; return.
MuxClose ==
    /\ muxPc = "loop"
    /\ closeSignalled
    /\ MuxReturn("closed")
    /\ TakeFed
    /\ UNCHANGED <<cfgVars, callerVars, availableCredit, deliveryCount,
                   detachReceived, linkDone, rx, closerVars, netVars, peerVars, histVars>>

\* case <-s.l.session.done: doneErr = session.doneErr; return.
MuxSessionDone ==
    /\ muxPc = "loop"
    /\ sessionDone
    /\ MuxReturn("session")
    /\ TakeFed
    /\ UNCHANGED <<cfgVars, callerVars, availableCredit, deliveryCount,
                   detachReceived, linkDone, rx, closerVars, netVars, peerVars, histVars>>

(* The inner loop after taking a disposition.                               *)

\* case s.l.session.tx <- dr.  The session writes the settled ack and, the
\* peer having settled second, completes the delivery's Done channel with the
\* state the peer gave it (spec.md 4.5, receiver-settle second).
MuxWriteDisp ==
    /\ muxPc = "txDisp"
    /\ ~sessionDone
    /\ toPeer' = Append(toPeer, [type |-> "disposition", d |-> dr.d])
    /\ acks' = Append(acks, dr.d)
    /\ doneCh' = [doneCh EXCEPT ![dr.d] = IF @ = "none" THEN dr.state ELSE @]
    /\ dr' = NoDisp
    /\ muxPc' = "loop"
    /\ UNCHANGED <<cfgVars, callerVars, tr, outgoingDisps, outgoingDisp, availableCredit, deliveryCount,
                   doneErr, detachReceived, linkDone, rx, closerVars, fromPeer,
                   sessionDone, peerVars, xfers, limitSeen, dispsSeen>>

\* case <-s.l.close / case <-s.l.session.done: continue Loop, dropping dr.
MuxDropDisp ==
    /\ muxPc = "txDisp"
    /\ closeSignalled \/ sessionDone
    /\ dr' = NoDisp
    /\ muxPc' = "loop"
    /\ UNCHANGED <<cfgVars, callerVars, tr, outgoingDisps, outgoingDisp, availableCredit, deliveryCount,
                   doneErr, detachReceived, linkDone, rx, closerVars, netVars,
                   peerVars, histVars>>

(* The inner loop after taking a transfer.                                  *)

\* Mutant: availableCredit is not decremented after a delivery.
MuxWriteTransferNoDecrement ==
    /\ muxPc = "txTransfer"
    /\ ~sessionDone
    /\ toPeer' = Append(toPeer, tr)
    /\ xfers' = Append(xfers, tr)
    /\ deliveryCount' = IF ~tr.more THEN (deliveryCount + 1) % Mod ELSE deliveryCount
    /\ doneCh' = IF tr.settled THEN [doneCh EXCEPT ![tr.d] = "accepted"] ELSE doneCh
    /\ tr' = NoFrame
    /\ muxPc' = "loop"
    /\ UNCHANGED <<cfgVars, callerVars, dr, outgoingDisps, outgoingDisp, availableCredit, doneErr,
                   detachReceived, linkDone, rx, closerVars, fromPeer, sessionDone,
                   peerVars, limitSeen, dispsSeen, acks>>

\* case s.l.session.txTransfer <- &tr: the session writes the frame (and for
\* a settled last frame completes Done at once, spec.md 4.5); after the last
\* frame of a message deliveryCount++ and availableCredit-- (uint32).
MuxWriteTransfer ==
    /\ muxPc = "txTransfer"
    /\ ~sessionDone
    /\ toPeer' = Append(toPeer, tr)
    /\ xfers' = Append(xfers, tr)
    /\ IF ~tr.more
          THEN /\ deliveryCount' = (deliveryCount + 1) % Mod
               /\ availableCredit' = (availableCredit - 1) % Mod
          ELSE UNCHANGED <<deliveryCount, availableCredit>>
    /\ doneCh' = IF tr.settled THEN [doneCh EXCEPT ![tr.d] = "accepted"] ELSE doneCh
    /\ tr' = NoFrame
    /\ muxPc' = "loop"
    /\ UNCHANGED <<cfgVars, callerVars, dr, outgoingDisps, outgoingDisp, doneErr, detachReceived,
                   linkDone, rx, closerVars, fromPeer, sessionDone, peerVars,
                   limitSeen, dispsSeen, acks>>

\* case <-s.l.close / case <-s.l.session.done: continue Loop, dropping tr,
\* which the caller has already handed over.
MuxDropTransfer ==
    /\ muxPc = "txTransfer"
    /\ closeSignalled \/ sessionDone
    /\ tr' = NoFrame
    /\ muxPc' = "loop"
    /\ UNCHANGED <<cfgVars, callerVars, dr, outgoingDisps, outgoingDisp, availableCredit, deliveryCount,
                   doneErr, detachReceived, linkDone, rx, closerVars, netVars,
                   peerVars, histVars>>
-----------------------------------------------------------------------------
(* link.muxClose, deferred by Sender.mux with context.Background().         *)

\* The deferred cleanup: deallocate the handle (a session operation) and
\* close(l.done).
MuxFinish ==
    /\ muxPc' = "exited"
    /\ linkDone' = TRUE

\* Mutant: the closing detach always waits for the peer's reply, even when
\* it was itself the reply to the peer's closing detach.
CloseSendDetachAlwaysWaits ==
    /\ muxPc = "closeSend"
    /\ ~sessionDone
    /\ toPeer' = Append(toPeer, [type |-> "detach"])
    /\ muxPc' = "closeWait"
    /\ UNCHANGED <<cfgVars, callerVars, tr, dr, outgoingDisps, outgoingDisp, availableCredit,
                   deliveryCount, doneErr, detachReceived, linkDone, rx, closerVars,
                   fromPeer, doneCh, sessionDone, peerVars, histVars>>

\* select case l.session.tx <- Detach{Closed: true}; if the peer initiated
\* the close this was the acknowledgement and the mux is done, otherwise it
\* waits for the peer's closing detach.
CloseSendDetach ==
    /\ muxPc = "closeSend"
    /\ ~sessionDone
    /\ toPeer' = Append(toPeer, [type |-> "detach"])
    /\ IF detachReceived
          THEN MuxFinish
          ELSE /\ muxPc' = "closeWait"
               /\ UNCHANGED linkDone
    /\ UNCHANGED <<cfgVars, callerVars, tr, dr, outgoingDisps, outgoingDisp, availableCredit,
                   deliveryCount, doneErr, detachReceived, rx, closerVars, fromPeer,
                   doneCh, sessionDone, peerVars, histVars>>

\* case <-l.session.done while sending the detach, or waitForFrame
\* returning session.doneErr while waiting for the ack: keep the first error.
CloseSessionDone ==
    /\ muxPc \in {"closeSend", "closeWait"}
    /\ sessionDone
    /\ doneErr' = IF doneErr = "none" THEN "session" ELSE doneErr
    /\ MuxFinish
    /\ UNCHANGED <<cfgVars, callerVars, tr, dr, outgoingDisps, outgoingDisp, availableCredit,
                   deliveryCount, detachReceived, rx, closerVars, netVars,
                   peerVars, histVars>>

\* waitForFrame: a closing detach ends the wait, any other frame is dropped.
CloseWaitFrame ==
    /\ muxPc = "closeWait"
    /\ rx # <<>>
    /\ rx' = Tail(rx)
    /\ IF Head(rx).type = "detach" /\ Head(rx).closed
          THEN MuxFinish
          ELSE UNCHANGED <<muxPc, linkDone>>
    /\ UNCHANGED <<cfgVars, callerVars, tr, dr, outgoingDisps, outgoingDisp, availableCredit,
                   deliveryCount, doneErr, detachReceived, closerVars, netVars,
                   peerVars, histVars>>

-----------------------------------------------------------------------------
(* The application closing the link: link.closeLink.                        *)

\* l.closeOnce.Do(func() { close(l.close) }), then wait.
CloseCall ==
    /\ closerPc = "idle"
    /\ closeSignalled' = TRUE
    /\ closerPc' = "waiting"
    /\ UNCHANGED <<cfgVars, callerVars, muxVars, closeResult, netVars, peerVars, histVars>>

\* case <-l.done: a *LinkError with inner == nil is reported as nil.
CloseReturn ==
    /\ closerPc = "waiting"
    /\ linkDone
    /\ closeResult' = IF doneErr \in {"closed", "remote"} THEN "nil" ELSE "err"
    /\ closerPc' = "returned"
    /\ UNCHANGED <<cfgVars, callerVars, muxVars, closeSignalled, netVars, peerVars, histVars>>

\* case <-ctx.Done(): return ctx.Err().
CloseCancel ==
    /\ closerPc = "waiting"
    /\ cancels < MaxCancels
    /\ cancels' = cancels + 1
    /\ closeResult' = "err"
    /\ closerPc' = "returned"
    /\ UNCHANGED <<cfgVars, pc, opOf, msgOf, frameOf, mutex, calls, nextDeliveryTag, msgs,
                   results, muxVars, closeSignalled, netVars, peerVars, histVars>>

-----------------------------------------------------------------------------
(* The session (not in src/; spec.md 4.3 and 4.5).                          *)

\* Route the peer's next frame to the link.  A settled disposition first
\* completes the delivery's Done channel (non-blocking send).  Once the link
\* has terminated its frames are dropped; otherwise the send into the
\* link's rx channel blocks while the channel is full.
SessionRoute ==
    /\ ~sessionDone
    /\ fromPeer # <<>>
    /\ LET f == Head(fromPeer) IN
       /\ fromPeer' = Tail(fromPeer)
       /\ doneCh' = IF f.type = "disposition" /\ f.settled
                       THEN [doneCh EXCEPT ![f.d] = IF @ = "none" THEN f.state ELSE @]
                       ELSE doneCh
       /\ IF linkDone
             THEN UNCHANGED rx
             ELSE /\ Len(rx) < RxCapacity
                  /\ rx' = Append(rx, f)
    /\ UNCHANGED <<cfgVars, callerVars, muxPc, tr, dr, outgoingDisps, outgoingDisp, availableCredit,
                   deliveryCount, doneErr, detachReceived, linkDone, closerVars,
                   toPeer, sessionDone, peerVars, histVars>>

\* The session terminates (peer End, connection failure): session.done closes.
SessionEnd ==
    /\ SessionMayEnd
    /\ ~sessionDone
    /\ sessionDone' = TRUE
    /\ UNCHANGED <<cfgVars, callerVars, muxVars, closerVars, toPeer, fromPeer, doneCh,
                   peerVars, histVars>>

-----------------------------------------------------------------------------
(* The remote receiver.                                                     *)

\* The peer reads the next frame.  A transfer without more completes a
\* delivery (its delivery-count advances; an unsettled one awaits its
\* disposition); a detach is answered with a closing detach unless the peer
\* has already closed the link.
PeerReceive ==
    /\ toPeer # <<>>
    /\ toPeer' = Tail(toPeer)
    /\ LET f == Head(toPeer) IN
       IF f.type = "transfer" /\ ~f.more /\ peerDetach = "none"
          THEN /\ peerDC' = peerDC + 1
               /\ peerPending' = IF f.settled THEN peerPending ELSE peerPending \cup {f.d}
               /\ UNCHANGED <<fromPeer, peerDetach>>
       ELSE IF f.type = "detach" /\ peerDetach # "closing"
          THEN /\ fromPeer' = Append(fromPeer, [type |-> "detach", closed |-> TRUE, err |-> FALSE])
               /\ peerDetach' = "closing"
               /\ UNCHANGED <<peerDC, peerPending>>
          ELSE UNCHANGED <<fromPeer, peerDC, peerPending, peerDetach>>
    /\ UNCHANGED <<cfgVars, callerVars, muxVars, closerVars, doneCh, sessionDone,
                   peerLimit, peerOutcome, flowsSent, histVars>>

\* The peer issues credit: Flow{delivery-count, link-credit, echo}.  A peer
\* that only raises its limit never sets delivery-count + link-credit below
\* a limit it granted before.
PeerFlow ==
    /\ peerDetach = "none"
    /\ flowsSent < MaxFlows
    /\ \E credit \in 0..MaxCredit, echo \in Echoes :
          LET limit == peerDC + credit IN
          /\ MonotoneCredit => limit >= peerLimit
          /\ fromPeer' = Append(fromPeer, [type |-> "flow", dc |-> peerDC % Mod,
                                           credit |-> credit, limit |-> limit, echo |-> echo])
          /\ peerLimit' = limit
    /\ flowsSent' = flowsSent + 1
    /\ UNCHANGED <<cfgVars, callerVars, muxVars, closerVars, toPeer, doneCh, sessionDone,
                   peerDC, peerPending, peerOutcome, peerDetach, histVars>>

\* The peer decides an unsettled delivery: settled at once in receiver
\* settle mode first, unsettled (awaiting the sender's ack) in mode second.
PeerDispose ==
    /\ peerDetach = "none"
    /\ \E d \in peerPending : \E st \in Answers(msgs[d].op) :
          /\ fromPeer' = Append(fromPeer, [type |-> "disposition", d |-> d, state |-> st,
                                           settled |-> (rsm = "first")])
          /\ peerPending' = peerPending \ {d}
          /\ peerOutcome' = [peerOutcome EXCEPT ![d] = st]
    /\ UNCHANGED <<cfgVars, callerVars, muxVars, closerVars, toPeer, doneCh, sessionDone,
                   peerDC, peerLimit, peerDetach, flowsSent, histVars>>

\* The peer detaches the link on its own, closing or not, with or without an error.
PeerDetach ==
    /\ PeerMayDetach
    /\ peerDetach = "none"
    /\ \E closed, err \in BOOLEAN :
          /\ fromPeer' = Append(fromPeer, [type |-> "detach", closed |-> closed, err |-> err])
          /\ peerDetach' = IF closed THEN "closing" ELSE "open"
    /\ UNCHANGED <<cfgVars, callerVars, muxVars, closerVars, toPeer, doneCh, sessionDone,
                   peerDC, peerLimit, peerPending, peerOutcome, flowsSent, histVars>>

-----------------------------------------------------------------------------
MuxStep ==
    \/ MuxTakeDisp \/ MuxRecv \/ MuxClose \/ MuxSessionDone
    \/ MuxWriteDisp \/ MuxDropDisp \/ MuxWriteTransfer \/ MuxDropTransfer
    \/ \E c \in Callers : MuxTakeTransfer(c)

MuxCloseStep == CloseSendDetach \/ CloseSessionDone \/ CloseWaitFrame

CallerStep(c) ==
    \/ CallSend(c) \/ AcquireLock(c) \/ SendLinkDone(c) \/ SendCancel(c)
    \/ SendComplete(c) \/ SendWaitLinkDone(c)

Next ==
    \/ \E c \in Callers : CallerStep(c)
    \/ MuxStep
    \/ MuxCloseStep
    \/ CloseCall \/ CloseReturn \/ CloseCancel
    \/ SessionRoute \/ SessionEnd
    \/ PeerReceive \/ PeerFlow \/ PeerDispose \/ PeerDetach

Spec == Init /\ [][Next]_vars

(* Go picks uniformly among the ready cases of a select, so every case of   *)
(* the mux's selects that is enabled infinitely often is eventually taken   *)
(* (strong fairness).  The session goroutine and muxClose keep running      *)
(* while they can, and a conforming peer keeps reading its input.  Callers, *)
(* the application and the peer's own decisions get no fairness.            *)
Fairness ==
    /\ SF_vars(MuxTakeDisp) /\ SF_vars(MuxRecv) /\ SF_vars(MuxClose)
    /\ SF_vars(MuxSessionDone) /\ SF_vars(MuxWriteDisp) /\ SF_vars(MuxDropDisp)
    /\ SF_vars(MuxWriteTransfer) /\ SF_vars(MuxDropTransfer)
    /\ WF_vars(MuxCloseStep)
    /\ WF_vars(SessionRoute)
    /\ WF_vars(PeerReceive)

FairSpec == Spec /\ Fairness
-----------------------------------------------------------------------------
(* Properties.                                                              *)

TypeOK ==
    /\ ssm \in SSMs /\ rsm \in RSMs /\ closeOnDispositionError \in BOOLEAN
    /\ pc \in [Callers -> {"idle", "locking", "sending", "waiting"}]
    /\ msgOf \in [Callers -> Msgs \cup {NoMsg}]
    /\ frameOf \in [Callers -> 0..MaxFrames]
    /\ mutex \in Callers \cup {NoCaller}
    /\ calls \in 0..MaxMsgs /\ nextDeliveryTag \in 0..MaxMsgs
    /\ opOf \in [Callers -> Ops \cup {"none"}]
    /\ msgs \in [Msgs -> [n: 0..MaxFrames, settled: BOOLEAN, op: Ops \cup {"none"}]]
    /\ cancels \in 0..MaxCancels
    /\ results \subseteq [m: Msgs, res: {"ok", "err"}]
    /\ muxPc \in {"loop", "txDisp", "txTransfer", "closeSend", "closeWait", "exited"}
    /\ tr \in TransferFrames \cup {NoFrame}
    /\ dr \in [d: Msgs, state: States] \cup {NoDisp}
    /\ outgoingDisps \in Seq([d: Msgs, state: States])
    /\ outgoingDisp \in [d: Msgs, state: States] \cup {NoDisp}
    /\ availableCredit \in 0..(Mod - 1) /\ deliveryCount \in 0..(Mod - 1)
    /\ doneErr \in ErrKinds
    /\ detachReceived \in BOOLEAN /\ linkDone \in BOOLEAN
    /\ rx \in Seq(FromPeerFrames) /\ Len(rx) <= RxCapacity
    /\ closeSignalled \in BOOLEAN
    /\ closerPc \in {"idle", "waiting", "returned"}
    /\ closeResult \in {"none", "nil", "err"}
    /\ toPeer \in Seq(ToPeerFrames) /\ fromPeer \in Seq(FromPeerFrames)
    /\ doneCh \in [Msgs -> {"none"} \cup States]
    /\ sessionDone \in BOOLEAN
    /\ peerDC \in Nat /\ peerLimit \in Nat /\ peerPending \subseteq Msgs
    /\ peerOutcome \in [Msgs -> {"none"} \cup States]
    /\ peerDetach \in {"none", "open", "closing"}
    /\ flowsSent \in 0..MaxFlows

\* Position of x in a sequence in which it occurs once.
PosIn(s, x) == CHOOSE i \in 1..Len(s) : s[i] = x

\* The credit rule of spec.md 4.5: the sender sends only while the credit
\* computed from the peer's last flow (link-credit + delivery-count of the
\* peer - its own delivery-count) is positive, so the deliveries it has
\* completed never exceed the limit of the last flow the mux handled, save
\* those already completed or in flight when that flow arrived (a peer may
\* lower its limit below what is on the wire).  About
\* Sender.muxHandleFrame's uint32 credit computation and the
\* availableCredit-- after a transfer in Sender.mux.
CreditRespected ==
    deliveryCount <= limitSeen

\* spec.md 5: on a link, the transfers of one delivery are emitted
\* contiguously, never interleaved with those of another delivery.  About
\* s.mu held by send across the whole frame loop.
TransfersContiguous ==
    \A i, j, k \in 1..Len(xfers) :
        (i < j /\ j < k /\ xfers[i].d = xfers[k].d) => xfers[j].d = xfers[i].d

\* spec.md 5: a delivery written with more=true is continued by the next transfer on
\* the link: no delivery is left unfinished while another one starts.  About
\* send returning on ctx.Done() in the middle of its frame loop.
NoAbandonedDelivery ==
    \A i \in 1..(Len(xfers) - 1) : xfers[i].more => xfers[i + 1].d = xfers[i].d

\* Every transfer on the wire is the first frame of its delivery or directly
\* follows the previous frame of the same delivery: no frame is skipped.
\* About the inner select of Sender.mux, which on s.l.close continues the
\* loop without writing the transfer the caller had already handed over.
DeliveryFramesInOrder ==
    \A i \in 1..Len(xfers) :
        \/ xfers[i].k = 1
        \/ i > 1 /\ xfers[i - 1].d = xfers[i].d /\ xfers[i - 1].k = xfers[i].k - 1

\* In receiver settle mode second the sender acknowledges each unsettled
\* disposition once, in the order the dispositions reached the link.  About
\* the outgoingDisps slice, the one-slot outgoingDisp channel and the
\* handoff between them at the top of Sender.mux's loop (sender.go:310-314).
AcksFollowDispositions ==
    \A i, j \in 1..Len(acks) :
        /\ acks[i] \in Range(dispsSeen)
        /\ i < j => PosIn(dispsSeen, acks[i]) < PosIn(dispsSeen, acks[j])

\* A Send or Discharge that returns nil sent a message that the peer
\* settled with a state other than Rejected, or a pre-settled message
\* whose last frame was written; a
\* Declare that returns a transaction id had its own declare answered with
\* Declared by the coordinator, while other calls were in flight on the
\* link.  About Send's and Declare's handling of the state received on the
\* delivery's done channel.
Success(op) == IF op = "declare" THEN {"declared"} ELSE {"accepted", "released"}
SendResultSound ==
    \A r \in results :
        r.res = "ok" =>
            \/ peerOutcome[r.m] \in Success(msgs[r.m].op)
            \/ /\ msgs[r.m].settled /\ msgs[r.m].op # "declare"
               /\ \E i \in 1..Len(xfers) : xfers[i].d = r.m /\ ~xfers[i].more

\* spec.md 7: an empty LinkError{} means the link was closed by the local
\* caller and is reported as nil from an explicit close; any other terminal
\* error is reported.  About link.closeLink's test of linkErr.inner.
CloseReportsRemoteError ==
    closeResult = "nil" => doneErr = "closed"

\* Every unsettled disposition that reaches the link is eventually
\* acknowledged, unless the link terminates.  About the mux's queue of
\* outgoing dispositions and its select.
AckEventually ==
    \A m \in Msgs :
        (m \in Range(dispsSeen)) ~> (m \in Range(acks) \/ linkDone)

\* Once the application has called Close, the link terminates (l.done is
\* closed): the mux leaves its loop, and the detach handshake of
\* link.muxClose ends whichever side started it.  About muxClose's
\* detachReceived test and its wait for the peer's closing detach.
LinkClosesEventually ==
    closeSignalled ~> linkDone

-----------------------------------------------------------------------------
(* Refinement: the sender implements CreditLink.  The limit the link has    *)
(* learnt is limitSeen, the wire holds the deliveries whose last frame the  *)
(* session has written, the outcomes are Send's results, and the link is    *)
(* open while the mux runs its loop.                                        *)

Delivered ==
    LET lasts == SelectSeq(xfers, LAMBDA f : ~f.more)
    IN  [i \in 1..Len(lasts) |-> lasts[i].d]

MuxOpen == muxPc \in {"loop", "txDisp", "txTransfer"}

Abstract == INSTANCE CreditLink
              WITH granted <- limitSeen, wire <- Delivered,
                   returned <- results, open <- MuxOpen

\* The sender, with its callers, mux, Close, session and a peer that never
\* lowers its limit, implements the abstract link: the limit it acts on
\* only grows, each delivery is completed once, within that limit and only
\* while the mux runs, and each Send returns once, with nil only for a
\* delivered message.  About Sender.send's frame loop and Send's wait on
\* done, l.done and ctx, with Sender.mux's credit and shutdown.
CreditLinkSpec == Abstract!Spec

=============================================================================
