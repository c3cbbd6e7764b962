------------------------------ MODULE LinkAttach ------------------------------
(***************************************************************************)
(* Link attach (src/link.go attach, setSettleModes, waitForFrame) and the  *)
(* muxClose that cleans up after it, for several links of one session      *)
(* sharing the session's handle space.                                     *)
(*                                                                         *)
(* Each link attaches once: allocate the lowest free handle, send Attach,  *)
(* wait for the peer's Attach (or the caller's ctx, or the session's end). *)
(* A refused attach (no source, no target) is followed by the peer's       *)
(* closing Detach, which the link answers.  A cancelled attach leaves a    *)
(* background muxClose with a 5 s timeout; a settle-mode mismatch runs     *)
(* muxClose under the caller's ctx; an attached sender's mux runs muxClose *)
(* under context.Background when it exits.  muxClose frees the handle only *)
(* when its ctx has not expired.                                           *)
(*                                                                         *)
(* The session (handle map and frame routing) and the peer are modelled    *)
(* from spec.md 4.3 and 4.4: the peer answers each Attach by accepting it  *)
(* with modes and a max-message-size of its choice, or by refusing it, and *)
(* answers each closing Detach.  Session traffic is in order both ways.    *)
(***************************************************************************)
EXTENDS Integers, Sequences, FiniteSets

CONSTANTS
    Links,          \* the links of the session (model values)
    HandleMax,      \* the session's handle-max: handles are 0..HandleMax
    LocalRSMs,      \* requested receiver settle modes ("nil" = not set)
    LocalSSMs,      \* requested sender settle modes ("nil" = not set)
    LocalMaxSizes,  \* the link's own max message size (0 = unlimited)
    PeerRSMs,       \* receiver settle modes the peer may answer with
    PeerSSMs,       \* sender settle modes the peer may answer with
    PeerMaxSizes,   \* max message sizes the peer may answer with
    SessionMayEnd   \* whether the session may terminate

Handles == 0..HandleMax
NoLink == "none"
NoHandle == -1

\* receiverSettleModeValue / senderSettleModeValue: a nil mode is the
\* AMQP default (first; mixed).
RSMValue(m) == IF m = "nil" THEN "first" ELSE m
SSMValue(m) == IF m = "nil" THEN "mixed" ELSE m

\* Session frames.  'link' is a history field: the link the sender of the
\* frame meant it for.  It is not on the wire and no code reads it.
Frame(type, h, l, terminus, rsm, ssm, size, err) ==
    [type |-> type, h |-> h, link |-> l, terminus |-> terminus,
     rsm |-> rsm, ssm |-> ssm, size |-> size, err |-> err]
NoPeerLink == [st |-> "free", link |-> NoLink, rsm |-> "nil", ssm |-> "nil", size |-> 0]
DetachFrame(h, l, err) == Frame("detach", h, l, FALSE, "nil", "nil", 0, err)

VARIABLES
    pc,          \* where each link's attach call is
    result,      \* what attach returned
    handle,      \* l.handle
    req,         \* the link's requested modes and max message size
    modes,       \* l.receiverSettleMode / l.senderSettleMode after attach
    maxMsg,      \* l.maxMessageSize after attach
    ctxDone,     \* the attach caller's ctx has expired
    cleanup,     \* where the link's muxClose is ("none" if not started)
    ctxKind,     \* the ctx muxClose runs under: "caller", "timeout5s", "background"
    bgExpired,   \* the 5 s ctx of the background muxClose has expired
    allocated,   \* the session's handle map: handle -> link
    rxQ,         \* l.rxQ: frames the session routed to the link
    toPeer,      \* session traffic to the peer
    fromPeer,    \* session traffic from the peer
    peer,        \* the peer's view of each handle: [st, link]
    sessionDone, \* session.done is closed
    clash        \* history: handle confusions seen (see HandlesNeverConfused)

vars == <<pc, result, handle, req, modes, maxMsg, ctxDone, cleanup, ctxKind,
          bgExpired, allocated, rxQ, toPeer, fromPeer, peer, sessionDone, clash>>
linkVars == <<pc, result, handle, req, modes, maxMsg, ctxDone>>
closeVars == <<cleanup, ctxKind, bgExpired>>
netVars == <<rxQ, toPeer, fromPeer, peer>>

Init ==
    /\ pc = [l \in Links |-> "new"]
    /\ result = [l \in Links |-> "none"]
    /\ handle = [l \in Links |-> NoHandle]
    /\ req = [l \in Links |-> [rsm |-> "nil", ssm |-> "nil", size |-> 0]]
    /\ modes = [l \in Links |-> [rsm |-> "nil", ssm |-> "nil"]]
    /\ maxMsg = [l \in Links |-> 0]
    /\ ctxDone = [l \in Links |-> FALSE]
    /\ cleanup = [l \in Links |-> "none"]
    /\ ctxKind = [l \in Links |-> "background"]
    /\ bgExpired = [l \in Links |-> FALSE]
    /\ allocated = [h \in Handles |-> NoLink]
    /\ rxQ = [l \in Links |-> <<>>]
    /\ toPeer = <<>>
    /\ fromPeer = <<>>
    /\ peer = [h \in Handles |-> NoPeerLink]
    /\ sessionDone = FALSE
    /\ clash = {}

-----------------------------------------------------------------------------
(* The link's attach call.                                                 *)

\* Mutant: the allocator's bound check one too far (handle-max + 1).
FreeHandlesOffByOne == {h \in 0..(HandleMax + 1) : h > HandleMax \/ allocated[h] = NoLink}

\* session.allocateHandle: the lowest free handle (spec.md 4.3).
FreeHandles == {h \in Handles : allocated[h] = NoLink}
LowestFree == CHOOSE h \in FreeHandles : \A g \in FreeHandles : h <= g

\* Return from attach with err.
Return(l, err) == /\ pc' = [pc EXCEPT ![l] = "returned"]
                  /\ result' = [result EXCEPT ![l] = err]

\* Start muxClose for l under the ctx of the given kind.
StartClose(l, kind) == /\ cleanup' = [cleanup EXCEPT ![l] = "send"]
                       /\ ctxKind' = [ctxKind EXCEPT ![l] = kind]

\* The settle modes SenderOptions may request: ReceiverSettleMode up to
\* second, SenderSettleMode up to mixed ("nil": the option not set).
ValidRSMs == {"nil", "first", "second"}
ValidSSMs == {"nil", "unsettled", "settled", "mixed"}

\* newSender: a requested mode out of range is an error returned before
\* anything is allocated or sent, as are an invalid durability or expiry
\* policy and an empty property key, which return the same way and are not
\* told apart.  Otherwise the link keeps the requested modes for attach.
\* The size is a receiving link's MaxMessageSize option (newReceiver is not
\* under src/); newSender sets none, so a sender's is 0.
NewSender(l) ==
    /\ pc[l] = "new"
    /\ \E r \in LocalRSMs, s \in LocalSSMs, m \in LocalMaxSizes :
          \/ /\ r \in ValidRSMs /\ s \in ValidSSMs
             /\ req' = [req EXCEPT ![l] = [rsm |-> r, ssm |-> s, size |-> m]]
             /\ modes' = [modes EXCEPT ![l] = [rsm |-> r, ssm |-> s]]
             /\ maxMsg' = [maxMsg EXCEPT ![l] = m]
             /\ pc' = [pc EXCEPT ![l] = "created"]
             /\ UNCHANGED result
          \/ /\ r \notin ValidRSMs \/ s \notin ValidSSMs
             /\ Return(l, "options")
             /\ UNCHANGED <<req, modes, maxMsg>>
    /\ UNCHANGED <<handle, ctxDone, closeVars, allocated, netVars, sessionDone, clash>>

\* attach: allocate a handle (an error when none is free or the session has
\* ended), then send the Attach with the requested modes and size.
CallAttach(l) ==
    /\ pc[l] = "created"
    /\ IF sessionDone \/ FreeHandles = {}
          THEN /\ Return(l, IF sessionDone THEN "session" ELSE "handles")
               /\ UNCHANGED <<handle, allocated, toPeer>>
          ELSE LET h == LowestFree IN
               /\ allocated' = [allocated EXCEPT ![h] = l]
               /\ handle' = [handle EXCEPT ![l] = h]
               /\ toPeer' = Append(toPeer, Frame("attach", h, l, TRUE, req[l].rsm,
                                                 req[l].ssm, req[l].size, FALSE))
               /\ pc' = [pc EXCEPT ![l] = "waitAttach"]
               /\ UNCHANGED result
    /\ UNCHANGED <<req, modes, maxMsg, ctxDone, closeVars, rxQ, fromPeer, peer, sessionDone, clash>>

\* The caller's ctx expires (the environment; at most once per call).
CancelCtx(l) ==
    /\ pc[l] \in {"waitAttach", "waitDetach", "closing"}
    /\ ~ctxDone[l]
    /\ ctxDone' = [ctxDone EXCEPT ![l] = TRUE]
    /\ UNCHANGED <<pc, result, handle, req, modes, maxMsg, closeVars, allocated,
                   netVars, sessionDone, clash>>

\* waitForFrame returned ctx.Err() while waiting for the peer's Attach: the
\* Attach is on the wire, so muxClose runs in the background with a 5 s
\* timeout, and attach returns the ctx error.
AttachCancelled(l) ==
    /\ pc[l] = "waitAttach" /\ ctxDone[l]
    /\ StartClose(l, "timeout5s")
    /\ Return(l, "ctx")
    /\ UNCHANGED <<handle, req, modes, maxMsg, ctxDone, bgExpired, allocated, netVars,
                   sessionDone, clash>>

\* The same while waiting for the Detach that follows a refusal.
RefusalCancelled(l) ==
    /\ pc[l] = "waitDetach" /\ ctxDone[l]
    /\ StartClose(l, "timeout5s")
    /\ Return(l, "ctx")
    /\ UNCHANGED <<handle, req, modes, maxMsg, ctxDone, bgExpired, allocated, netVars,
                   sessionDone, clash>>

\* waitForFrame returned session.doneErr: attach returns it, no cleanup.
AttachSessionDone(l) ==
    /\ pc[l] \in {"waitAttach", "waitDetach"} /\ sessionDone
    /\ Return(l, "session")
    /\ UNCHANGED <<handle, req, modes, maxMsg, ctxDone, closeVars, allocated, netVars,
                   sessionDone, clash>>

\* The max-message-size of an attached link: the link's own unless it is 0
\* or the peer's is smaller.
ResolveMaxMessageSize(local, remote) ==
    IF local = 0 \/ remote < local THEN remote ELSE local

\* Mutant: the sender settle mode taken over without the check.
SetSettleModesIgnoringSender(m, resp) ==
    LET rOK == m.rsm = "nil" \/ RSMValue(m.rsm) = RSMValue(resp.rsm)
    IN  [ok |-> rOK, rsm |-> IF rOK THEN RSMValue(resp.rsm) ELSE m.rsm,
         ssm |-> IF rOK THEN SSMValue(resp.ssm) ELSE m.ssm]

\* setSettleModes: an explicitly requested mode the peer did not answer with
\* is an error; the receiver mode is taken over before the sender mode is
\* checked.
SetSettleModes(m, resp) ==
    LET rOK == m.rsm = "nil" \/ RSMValue(m.rsm) = RSMValue(resp.rsm)
        sOK == m.ssm = "nil" \/ SSMValue(m.ssm) = SSMValue(resp.ssm)
    IN  [ok  |-> rOK /\ sOK,
         rsm |-> IF rOK THEN RSMValue(resp.rsm) ELSE m.rsm,
         ssm |-> IF rOK /\ sOK THEN SSMValue(resp.ssm) ELSE m.ssm]

\* The peer's answer to the Attach: not an Attach is an error; an Attach
\* without terminus means a Detach follows; otherwise take the size and
\* the modes, and on a mode mismatch run muxClose under the caller's ctx
\* before returning.
RecvAttachReply(l) ==
    /\ pc[l] = "waitAttach" /\ rxQ[l] # <<>>
    /\ rxQ' = [rxQ EXCEPT ![l] = Tail(@)]
    /\ LET fr == Head(rxQ[l])
           sm == SetSettleModes(modes[l], fr)
       IN  CASE fr.type # "attach" ->
                  /\ Return(l, "unexpected")
                  /\ UNCHANGED <<modes, maxMsg, cleanup, ctxKind>>
             [] ~fr.terminus ->
                  /\ pc' = [pc EXCEPT ![l] = "waitDetach"]
                  /\ UNCHANGED <<result, modes, maxMsg, cleanup, ctxKind>>
             [] sm.ok ->
                  /\ maxMsg' = [maxMsg EXCEPT ![l] = ResolveMaxMessageSize(@, fr.size)]
                  /\ modes' = [modes EXCEPT ![l] = [rsm |-> sm.rsm, ssm |-> sm.ssm]]
                  /\ pc' = [pc EXCEPT ![l] = "attached"]
                  /\ result' = [result EXCEPT ![l] = "ok"]
                  /\ UNCHANGED <<cleanup, ctxKind>>
             [] OTHER ->
                  /\ maxMsg' = [maxMsg EXCEPT ![l] = ResolveMaxMessageSize(@, fr.size)]
                  /\ modes' = [modes EXCEPT ![l] = [rsm |-> sm.rsm, ssm |-> sm.ssm]]
                  /\ pc' = [pc EXCEPT ![l] = "closing"]
                  /\ StartClose(l, "caller")
                  /\ UNCHANGED result
    /\ UNCHANGED <<handle, req, ctxDone, bgExpired, allocated, toPeer, fromPeer, peer,
                   sessionDone, clash>>

\* The Detach after a refusal: answer it with a closing Detach and return
\* its error (or "received detach with no error specified").  The handle is
\* not deallocated.
RecvRefusalDetach(l) ==
    /\ pc[l] = "waitDetach" /\ rxQ[l] # <<>>
    /\ rxQ' = [rxQ EXCEPT ![l] = Tail(@)]
    /\ LET fr == Head(rxQ[l]) IN
       IF fr.type # "detach"
          THEN /\ Return(l, "unexpected")
               /\ UNCHANGED toPeer
          ELSE /\ toPeer' = Append(toPeer, DetachFrame(handle[l], l, FALSE))
               /\ Return(l, IF fr.err THEN "refused" ELSE "noerror")
    /\ UNCHANGED <<handle, req, modes, maxMsg, ctxDone, closeVars, allocated, fromPeer,
                   peer, sessionDone, clash>>

-----------------------------------------------------------------------------
(* muxClose, run for l under the ctx of kind ctxKind[l].                   *)

CloseCtxDone(l) ==
    CASE ctxKind[l] = "caller"    -> ctxDone[l]
      [] ctxKind[l] = "timeout5s" -> bgExpired[l]
      [] OTHER                    -> FALSE

\* Mutant: the handle deallocated whether or not the ctx expired.
MuxCloseExitAlwaysFrees(l) ==
    /\ cleanup' = [cleanup EXCEPT ![l] = "exited"]
    /\ allocated' = IF ~sessionDone THEN [allocated EXCEPT ![handle[l]] = NoLink] ELSE allocated
    /\ IF pc[l] = "closing" THEN Return(l, "modes") ELSE UNCHANGED <<pc, result>>

\* The deferred cleanup: deallocate the handle only if the ctx has not
\* expired (the peer may still hold it otherwise), then close l.done; a
\* synchronous muxClose lets attach return its settle-mode error.
MuxCloseExit(l) ==
    /\ cleanup' = [cleanup EXCEPT ![l] = "exited"]
    /\ allocated' = IF ~CloseCtxDone(l) /\ ~sessionDone
                       THEN [allocated EXCEPT ![handle[l]] = NoLink] ELSE allocated
    /\ IF pc[l] = "closing" THEN Return(l, "modes") ELSE UNCHANGED <<pc, result>>

\* Send the closing Detach to the session mux, unless the ctx expires or
\* the session ends first.
MuxCloseSend(l) ==
    /\ cleanup[l] = "send"
    /\ \/ /\ CloseCtxDone(l) \/ sessionDone
          /\ MuxCloseExit(l)
          /\ UNCHANGED toPeer
       \/ /\ ~sessionDone
          /\ toPeer' = Append(toPeer, DetachFrame(handle[l], l, FALSE))
          /\ cleanup' = [cleanup EXCEPT ![l] = "wait"]
          /\ UNCHANGED <<pc, result, allocated>>
    /\ UNCHANGED <<handle, req, modes, maxMsg, ctxDone, ctxKind, bgExpired, rxQ, fromPeer,
                   peer, sessionDone, clash>>

\* Mutant: the wait for the peer's Detach without the ctx arm.
MuxCloseWaitIgnoringCtx(l) ==
    /\ cleanup[l] = "wait"
    /\ \/ /\ sessionDone
          /\ MuxCloseExit(l)
          /\ UNCHANGED rxQ
       \/ /\ rxQ[l] # <<>>
          /\ rxQ' = [rxQ EXCEPT ![l] = Tail(@)]
          /\ IF Head(rxQ[l]).type = "detach"
                THEN MuxCloseExit(l)
                ELSE UNCHANGED <<cleanup, pc, result, allocated>>
    /\ UNCHANGED <<handle, req, modes, maxMsg, ctxDone, ctxKind, bgExpired, toPeer, fromPeer,
                   peer, sessionDone, clash>>

\* Mutant: the wait ends on whatever frame arrives first.
MuxCloseWaitExitOnAnyFrame(l) ==
    /\ cleanup[l] = "wait"
    /\ \/ /\ CloseCtxDone(l) \/ sessionDone
          /\ MuxCloseExit(l)
          /\ UNCHANGED rxQ
       \/ /\ rxQ[l] # <<>>
          /\ rxQ' = [rxQ EXCEPT ![l] = Tail(@)]
          /\ MuxCloseExit(l)
    /\ UNCHANGED <<handle, req, modes, maxMsg, ctxDone, ctxKind, bgExpired, toPeer, fromPeer,
                   peer, sessionDone, clash>>

\* Wait for the peer's closing Detach, dropping any other frame, unless the
\* ctx expires or the session ends first.
MuxCloseWait(l) ==
    /\ cleanup[l] = "wait"
    /\ \/ /\ CloseCtxDone(l) \/ sessionDone
          /\ MuxCloseExit(l)
          /\ UNCHANGED rxQ
       \/ /\ rxQ[l] # <<>>
          /\ rxQ' = [rxQ EXCEPT ![l] = Tail(@)]
          /\ IF Head(rxQ[l]).type = "detach"
                THEN MuxCloseExit(l)
                ELSE UNCHANGED <<cleanup, pc, result, allocated>>
    /\ UNCHANGED <<handle, req, modes, maxMsg, ctxDone, ctxKind, bgExpired, toPeer, fromPeer,
                   peer, sessionDone, clash>>

\* The 5 s timeout of the background muxClose fires.
BgTimeout(l) ==
    /\ ctxKind[l] = "timeout5s" /\ cleanup[l] \in {"send", "wait"} /\ ~bgExpired[l]
    /\ bgExpired' = [bgExpired EXCEPT ![l] = TRUE]
    /\ UNCHANGED <<linkVars, cleanup, ctxKind, allocated, netVars, sessionDone, clash>>

\* An attached Sender's mux exits: muxClose under context.Background.
LinkClose(l) ==
    /\ pc[l] = "attached" /\ cleanup[l] = "none"
    /\ StartClose(l, "background")
    /\ UNCHANGED <<linkVars, bgExpired, allocated, netVars, sessionDone, clash>>

-----------------------------------------------------------------------------
(* The session (spec.md 4.3) and the peer (spec.md 4.4).                   *)

\* The session routes a peer frame to the link that holds its handle in the
\* handle map (a frame for a free handle is dropped).  A frame reaching a
\* link other than the one the peer meant is a handle confusion.
SessionRoute ==
    /\ ~sessionDone /\ fromPeer # <<>>
    /\ LET f == Head(fromPeer)
           dest == allocated[f.h]
       IN  /\ rxQ' = IF dest = NoLink THEN rxQ ELSE [rxQ EXCEPT ![dest] = Append(@, f)]
           /\ clash' = IF dest # f.link THEN clash \cup {"misrouted"} ELSE clash
    /\ fromPeer' = Tail(fromPeer)
    /\ UNCHANGED <<linkVars, closeVars, allocated, toPeer, peer, sessionDone>>

\* session.done is closed (the connection failed or the session ended).
SessionEnd ==
    /\ SessionMayEnd /\ ~sessionDone
    /\ sessionDone' = TRUE
    /\ UNCHANGED <<linkVars, closeVars, allocated, netVars, clash>>

\* An Attach on a handle the peer still holds is a handle confusion.
PeerClash(h) == IF peer[h].st # "free" THEN clash \cup {"inUse"} ELSE clash

\* The peer accepts an Attach, answering with modes and a size of its own.
PeerAccept ==
    /\ toPeer # <<>> /\ Head(toPeer).type = "attach"
    /\ LET f == Head(toPeer) IN
       \E r \in PeerRSMs, s \in PeerSSMs, m \in PeerMaxSizes :
          /\ peer' = [peer EXCEPT ![f.h] = [st |-> "attached", link |-> f.link,
                                             rsm |-> r, ssm |-> s, size |-> m]]
          /\ fromPeer' = Append(fromPeer, Frame("attach", f.h, f.link, TRUE, r, s, m, FALSE))
          /\ clash' = PeerClash(f.h)
    /\ toPeer' = Tail(toPeer)
    /\ UNCHANGED <<linkVars, closeVars, allocated, rxQ, sessionDone>>

\* The peer refuses an Attach: an Attach without terminus, then a closing
\* Detach with or without an error.
PeerRefuse ==
    /\ toPeer # <<>> /\ Head(toPeer).type = "attach"
    /\ LET f == Head(toPeer) IN
       \E e \in BOOLEAN :
          /\ peer' = [peer EXCEPT ![f.h] = [NoPeerLink EXCEPT !.st = "refused", !.link = f.link]]
          /\ fromPeer' = fromPeer \o <<Frame("attach", f.h, f.link, FALSE, "nil", "nil", 0, FALSE),
                                       DetachFrame(f.h, f.link, e)>>
          /\ clash' = PeerClash(f.h)
    /\ toPeer' = Tail(toPeer)
    /\ UNCHANGED <<linkVars, closeVars, allocated, rxQ, sessionDone>>

\* The peer receives a closing Detach: it answers one for an attached link;
\* after a refusal it is the answer to its own.  Either way the handle is free.
PeerRecvDetach ==
    /\ toPeer # <<>> /\ Head(toPeer).type = "detach"
    /\ LET f == Head(toPeer) IN
       /\ fromPeer' = IF peer[f.h].st = "attached"
                         THEN Append(fromPeer, DetachFrame(f.h, peer[f.h].link, FALSE))
                         ELSE fromPeer
       /\ peer' = [peer EXCEPT ![f.h] = NoPeerLink]
    /\ toPeer' = Tail(toPeer)
    /\ UNCHANGED <<linkVars, closeVars, allocated, rxQ, sessionDone, clash>>

-----------------------------------------------------------------------------
LinkStep(l) ==
    \/ NewSender(l) \/ CallAttach(l) \/ CancelCtx(l) \/ AttachCancelled(l) \/ RefusalCancelled(l)
    \/ AttachSessionDone(l) \/ RecvAttachReply(l) \/ RecvRefusalDetach(l)
    \/ MuxCloseSend(l) \/ MuxCloseWait(l) \/ BgTimeout(l) \/ LinkClose(l)

Next ==
    \/ \E l \in Links : LinkStep(l)
    \/ SessionRoute \/ SessionEnd \/ PeerAccept \/ PeerRefuse \/ PeerRecvDetach

Spec == Init /\ [][Next]_vars

\* The goroutines run while they can: muxClose, attach's waits and the
\* session mux (WF); the 5 s timer fires (WF).  The caller's ctx and the
\* peer get no fairness: a peer may never answer.
FairSpec ==
    /\ Spec
    /\ \A l \in Links : /\ WF_vars(MuxCloseSend(l)) /\ WF_vars(MuxCloseWait(l))
                        /\ WF_vars(BgTimeout(l))
    /\ WF_vars(SessionRoute)

-----------------------------------------------------------------------------
(* Properties.                                                              *)

TypeOK ==
    /\ pc \in [Links -> {"new", "created", "waitAttach", "waitDetach", "closing", "attached", "returned"}]
    /\ cleanup \in [Links -> {"none", "send", "wait", "exited"}]
    /\ allocated \in [Handles -> Links \cup {NoLink}]
    /\ handle \in [Links -> Handles \cup {NoHandle}]
    /\ \A h \in Handles : allocated[h] # NoLink => handle[allocated[h]] = h

\* spec.md 6 ("the handle cannot be reused until the peer acks") and 4.3
\* (frame dispatch by handle): the session never sends an Attach on a handle
\* the peer still holds, and never routes a peer frame to a link other than
\* the one it was meant for.  About muxClose deallocating the handle only
\* when its ctx has not expired (link.go:294-304), with cancelled attaches,
\* background cleanups, refusals and handle reuse interleaved.
HandlesNeverConfused == clash = {}

\* spec.md 4.4: when attach returns nil the peer holds the link attached on
\* its handle, every settle mode the link requested is the one the peer
\* answered with, and the link's modes are the peer's.  About attach's reply
\* handling and setSettleModes (link.go:150-242).
AttachedAgreesWithPeer ==
    \A l \in Links :
        (pc[l] = "attached" /\ cleanup[l] = "none") =>
            LET p == peer[handle[l]] IN
            /\ p.st = "attached" /\ p.link = l
            /\ modes[l] = [rsm |-> RSMValue(p.rsm), ssm |-> SSMValue(p.ssm)]
            /\ req[l].rsm \in {"nil", modes[l].rsm}
            /\ req[l].ssm \in {"nil", modes[l].ssm}

\* spec.md 4.4 (Detach): once the closing Detaches of a link have been
\* exchanged, its handle is back in the pool, unless the ctx of its muxClose
\* expired.  About the refusal path of attach (link.go:172-201).
HandleFreedAfterDetach ==
    ~sessionDone =>
        \A l \in Links :
            (/\ pc[l] = "returned" /\ cleanup[l] = "none" /\ handle[l] # NoHandle
             /\ peer[handle[l]].st = "free"
             /\ \A i \in DOMAIN toPeer : toPeer[i].h # handle[l])
                => allocated[handle[l]] # l

\* spec.md 4.4: max-message-size resolves to the smaller of the link's and
\* the peer's, where 0 means unlimited.  About link.go:203-205.
SpecMaxMessageSize(local, remote) ==
    CASE local = 0 -> remote [] remote = 0 -> local
      [] OTHER -> IF local < remote THEN local ELSE remote
MaxMessageSizeResolved ==
    \A l \in Links :
        (pc[l] = "attached" /\ cleanup[l] = "none") =>
            maxMsg[l] = SpecMaxMessageSize(req[l].size, peer[handle[l]].size)

\* spec.md 4.4: the peer answers an Attach with an Attach, so attach never
\* fails with "unexpected attach response" (link.go:155-158) or "unexpected
\* frame while waiting for detach" (link.go:185-188).  Either error leaves
\* the handle allocated; with a conforming peer it can only come from a
\* frame for an earlier holder of the handle routed to the new link, e.g.
\* the answer to a background muxClose's Detach arriving after that
\* muxClose freed the handle on an earlier frame (link.go:348-369).
NoUnexpectedReply == \A l \in Links : result[l] # "unexpected"

\* The background muxClose left by a cancelled attach always ends, whatever
\* the peer does: its 5 s ctx bounds both of its waits (link.go:142-147).
BackgroundCleanupEnds ==
    \A l \in Links :
        (ctxKind[l] = "timeout5s" /\ cleanup[l] \in {"send", "wait"}) ~> cleanup[l] = "exited"
====
