# TLA+ models of the AMQP 1.0 sender link and type codec (Azure/amqp)

This directory holds TLC-checkable TLA+ models of the Go code under `src/`:
- the sending side of an AMQP link (`src/sender.go`) and the shutdown half of the link (`src/link.go`);
- link attach (`src/link.go`): handle allocation, the peer's answer, refusal, cancellation and the background muxClose;
- the type encoder (`src/encode.go`), with the marshal methods of the performatives the links send (`src/frames.go`). The session, the connection and the remote peer are
modelled only as far as the sender depends on them, from `spec.md`.

## 1. The system (inventory)

| Part | Source | State | Operations |
|---|---|---|---|
| Sender API | `sender.go` newSender, Send, send | `s.mu`, `nextDeliveryTag`, `s.buf` | newSender: option validation before attach. Send: check `l.done`, `send`, wait on `Done` / `l.done` / ctx. send: lock, marshal, size check, settle mode, tag, frame loop handing frames to the mux over the unbuffered `s.transfers` |
| Sender mux | `sender.go` mux, muxHandleFrame, detachOnRejectDisp | `availableCredit`, `l.deliveryCount`, `outgoingDisps` slice + one-slot `outgoingDisp`, `l.doneErr` | A select over dispositions to acknowledge, frames in `l.rx` (capacity 1), transfers (only while credit > 0), `l.close` and `session.done`. The two inner loops keep reading `l.rx` while waiting for the session |
| Link shutdown | `link.go` closeLink, muxClose, muxHandleFrame, waitForFrame | `l.close`, `l.done`, `detachReceived`, `doneErr` | Close signals the mux and waits for `l.done`. muxClose sends a closing detach, waits for the peer's (unless the peer started), and closes `l.done` |
| Link attach | `link.go` attach, setSettleModes | handle, settle modes, maxMessageSize | allocate handle, send attach, wait for the reply, cancellation cleanup |
| Codec | `encode.go` | the `*buffer.Buffer` written to | marshal's type switch, the write* helpers with width selection, writeMap, marshalComposite's trailing-field trimming, array headers, writeFrame's patched size |
| Performatives | `frames.go` | none | each marshal and unmarshal method of the nine AMQP and five SASL performatives: a field list with omit conditions, through marshalComposite; transfer appends its payload |
| Transaction controller | `transaction_controller.go` | none of its own | Declare (sendRaw, then the test for `*StateDeclared`), Discharge (Send) and Close on a sender link to a coordinator |
| Session, connection, receiver | not in `src/` | — | spec.md 4.2, 4.3, 4.6 |

How they interact: callers hand frames to the mux by rendezvous. The mux
hands frames to the session (`session.tx`, `session.txTransfer`, both
unbuffered). The session routes the peer's frames into the link's `rx`
channel. It completes the per-delivery `Done` channel when a delivery is
settled.

The hard behaviours are these:
- concurrent Send callers;
- ctx cancellation at any select;
- Close racing every mux state;
- the peer detaching with or without error;
- session termination;
- flows that lower the peer's limit;
- the uint32 credit arithmetic;
- the order of acknowledgements.

Correctness means:
- the sender respects the peer's credit;
- a delivery's frames are contiguous and complete;
- acknowledgements follow dispositions;
- a nil from Send means success;
- Close reports remote errors;
- acknowledgements and link termination eventually happen.

## 2. Modules

### `AmqpSender.tla`: sender, its mux and link shutdown

This module covers the callers, the mux goroutine, the application's Close,
the session (the parts from spec.md) and an arbitrary peer.

Variables, and the code they stand for:
- `pc`, `msgOf`, `frameOf`: where each Send goroutine is.
- `mutex`: `s.mu`.
- `msgs`: each message's frame count and settled flag.
- `muxPc`: where the mux is. The values are the top-level `loop`, the two inner loops `txDisp` and `txTransfer`, then muxClose's `closeSend` and `closeWait`, and `exited`.
- `tr`, `dr`: the frame the mux holds in an inner loop.
- `outgoingDisps`, `outgoingDisp`: the slice and the one-slot channel. `FeedDisp` is the handoff at the top of each loop iteration (sender.go:310-314); the select takes from the channel only, and `handleFrame` appends to the slice, also inside the inner loops.
- `availableCredit`, `deliveryCount`: the fields of the same names, modulo `2^CreditBits`.
- `doneErr`: the kind of `l.doneErr`. The values are `closed` = `LinkError{}`, `remote` = `LinkError{RemoteErr}`, `inner`, and `session`.
- `rx`: the link's `rx` channel, capacity 1.
- `linkDone`: `l.done` is closed.
- `closeSignalled`: `l.close` is closed.
- `toPeer`, `fromPeer`: in-order session traffic.
- `doneCh`: the per-delivery `Done` channels.

Actions: each arm of each Go select is one action. There are three groups:
- The mux: `MuxTakeDisp`, `MuxTakeTransfer(c)` (the rendezvous with a caller), `MuxRecv` (in all three loops), `MuxClose`, `MuxSessionDone`, `MuxWriteDisp`/`MuxDropDisp`, and `MuxWriteTransfer`/`MuxDropTransfer`.
- The callers: `CallSend`, `AcquireLock`, `SendLinkDone`, `SendCancel`, `SendComplete` and `SendWaitLinkDone`.
- Shutdown: `CloseSendDetach`, `CloseSessionDone` and `CloseWaitFrame` for muxClose, and `CloseCall`, `CloseReturn` and `CloseCancel` for closeLink.

The constant `Coordinator` makes the link a `TransactionController`'s
link to a transaction coordinator. The callers' operations `Ops` are then
`declare` and `discharge` instead of `send`, and each message records its
`op`. A discharge returns as Send does (`SendResult`: an error for
Rejected). A declare returns through sendRaw, which has no such test, and
then Declare's own test (`DeclareResult`: an id only for Declared). The
coordinator answers a declare with Declared or Rejected and a discharge with
Accepted or Rejected (`Answers`, spec_modelled). On an ordinary link the
peer also answers Released (standing for Released and Modified, which no
code here tells apart). Send returns nil for it, as for Accepted: the
caller cannot tell a released message from a delivered one. spec.md 4.5
calls the terminal state "the result" without saying how it is reported,
so `SendResultSound` allows nil for both and no property flags it. The bodies are abstracted to
the op: a declare is never empty, so `Coordinator` excludes `EmptyMsgs`.

`HandleFrame` is the `handleFrame` closure together with `muxHandleFrame`. It includes the flow credit computation, the echo, the reject-detach, and the acknowledgement appended to `outgoingDisps`.

The session's `SessionRoute` and `SessionEnd` come from spec.md (marked `spec_modelled`). The peer (`Peer*`) may:
- grant credit, lowering its limit only where `MonotoneCredit` is FALSE;
- settle per the receiver settle mode;
- detach, closing or not, with or without error.

Note: the `src/` files come from neighbouring versions of the library.
- `sender.go` uses a channel `l.rx`, which `link.go`'s struct has replaced with a queue `rxQ` read by `waitForFrame`. Both are modelled as the same FIFO.
- `transaction_controller.go` calls a `sendRaw` that this `sender.go` lacks.

`MC_AmqpSender.tla` adds the symmetry set of the callers.

### `AmqpCodec.tla`: the type encoder

Each encoder is an operator from a Go value to `Enc(ok, bytes)`: the bytes
it appends and whether it returns nil. A Go value is a record tagged with its
Go type (`go`). A float is its IEEE-754 bits. A time is its Unix
milliseconds. A string or `[]byte` is its byte sequence.

The encoders mirror `encode.go` one to one: `Marshal`, `WriteInt32`,
`WriteInt64`, `WriteUint32`, `WriteUint64`, `WriteFloat`, `WriteDouble`,
`WriteTimestamp`, `WriteString`, `WriteBinary`, `WriteMap` with `MapPairs`,
and `MarshalComposite` with `LastSet` and `CompositeFields`. The array headers
and `WriteFrame` follow the same pattern. Go's random map iteration order is
an input: the MC module gives every order of each map's pairs.

The performatives the links send are records of their Go fields. A nil
pointer is `Nil`. `FlowFields`, `TransferFields`, `DispositionFields`,
`DetachFields`, `EndFields` and `CloseFields` are the field lists of their
marshal methods, with the same omit conditions. `OpenFields`, `BeginFields`
and `AttachFields` do the same for link and session setup, and
`SaslInitFields`, `SaslMechanismsFields`, `SaslChallengeFields`,
`SaslResponseFields` and `SaslOutcomeFields` for the SASL handshake. Three
marshalers these fields use are not under `src/` and are modelled from AMQP
1.0: `WriteSymbol` (sym8/sym32), a multiSymbol as an array of symbols
(`SymArrayBytes`, written even when empty, as saslMechanisms does), and
saslCode as a ubyte. `MarshalTransfer`
appends the payload. `MaxUint32` is a model value standing for 4294967295,
the default of Open's max-frame-size and Begin's handle-max. TLC's integers
are 32-bit signed, so it is only ever compared, never encoded.

The unmarshal methods are field lists too. `OpenUnmarshal` ...
`CloseUnmarshal` give each field's name, how the Go field holds it, and what
a null or missing item does: an error for a required field, a default, or
the Go zero value. `UnmarshalComposite` reads a decoded value through such a
list. It models `unmarshalComposite`, which is not under `src/`.
`PerformativeRoundTrip` checks every performative written against its own
unmarshal: the marshal side's omit conditions against the unmarshal side's
defaults.

The state is the buffer (`wr`) that successive calls append to. The actions
are:
- `MarshalValue`: marshal of a value.
- `MarshalPerformative`: a performative's or described type's marshal.
- `WriteArray`, `WriteVarArray`: the array marshalers. They are not under `src/`, so they are modelled from the AMQP spec around the headers that are.
- `WriteFrameCall`: writeFrame on an empty buffer.

A caller stops using a buffer after an error. Two histories follow the
calls:
- `expected`: the AMQP values written successfully;
- `good`: the buffer before the call that failed.

The reference is a decoder (`DecodeOne`, `DecodeAll`, `DecodeFrame`), written
from the AMQP 1.0 type encodings rather than from the encoder. `AmqpOf`
gives the AMQP value of each Go value. Deep recursion is avoided: UTF-8
validity and fixed-width array elements are stated with quantifiers rather
than recursion over 256-byte inputs.

`MC_AmqpCodec.tla` holds the inputs:
- integers at 0, 127/128, 255/256 and the type limits;
- strings and binaries of 255 and 256 bytes;
- three kinds of ill-formed UTF-8;
- maps with string and other keys, including a bad key;
- arrays on both sides of the array8 limit;
- the flows, transfers, dispositions, detaches, end and close that `sender.go` and `link.go` build;
- opens and begins at their defaults and with every field set (capabilities of one and of two symbols, one of them 256 bytes long, so sym32), and the attach of a sender and of a receiver;
- the SASL frames with and without their optional fields, and saslMechanisms with no mechanism and with two.

### `CreditLink.tla`: what a sending link promises, and the refinement

`CreditLink` is the abstract sending link of spec.md 4.5 and 5, with no
frames, mux or session. Its state is:
- `granted`, the limit learnt from the peer;
- `wire`, the completed deliveries;
- `returned`, the outcomes Send reported;
- `open`.

Its actions are `Grant` (the limit only grows), `Deliver(m)` (once per
message, only while open and within `granted`), `Report(m, res)` (once per
message, "ok" only for a delivered one) and `Stop`.

`AmqpSender` instantiates it with the refinement mapping:
- `granted <- limitSeen`;
- `wire <- Delivered`, the delivery of each transfer written with more=false;
- `returned <- results`;
- `open <- MuxOpen`, true while the mux runs its loop.

`CreditLinkSpec == Abstract!Spec` is a PROPERTY of `sender_second` and
`sender_first`. TLC checks that every step of the sender is a step of
CreditLink or leaves the mapped state unchanged.

### `LinkAttach.tla`: link attach, handle allocation and background cleanup

This module covers several links of one session attaching through the same
small pool of handles, the session's routing by handle, and a peer.
- State per link: `pc` (where `attach` or `muxClose` is), `handle`, the
  requested settle modes and max message size (`req`), the resolved ones
  (`modes`, `maxMsg`), `rxQ`, and the muxClose context (`ctxKind`: the
  caller's, the 5 s `WithTimeout` of link.go:146, or `context.Background()`
  from `Sender.mux`; `ctxDone`, `bgExpired`).
- State of the session: `allocated` (handle to link, the lowest free handle is
  taken, spec.md 4.3), `toPeer` and `fromPeer` (FIFO, one per direction),
  `sessionDone`. State of the peer: what it holds per handle (`peer`).
- Actions: `NewSender` (sender.go:201-262: a requested receiver settle mode
  above second or sender settle mode above mixed, like newSender's other
  option errors, returns before anything is allocated; the option values
  `"invalid"` stand for them), `CallAttach` (link.go:119-138), `AttachCancelled` and
  `RefusalCancelled` (the two ctx branches that start a background muxClose),
  `AttachSessionDone`, `RecvAttachReply` (type check, refusal, max message
  size, `SetSettleModes`, muxClose on failure), `RecvRefusalDetach`,
  `MuxCloseSend`, `MuxCloseWait`, `MuxCloseExit` (the deferred deallocation,
  only if the ctx has not expired), `BgTimeout`, `LinkClose`.
- `clash` is a history variable: the session adds "misrouted" when it routes a
  peer frame to a link that was not the one the peer meant, and the peer adds
  "inUse" when it receives an Attach for a handle it still holds.

## 3. Runs

| Run | Expect | What it checks |
|---|---|---|
| `sender_second` | pass | A transaction controller's link (`Coordinator`): 2 callers each calling Declare or Discharge, messages of up to 2 frames, receiver settle mode second, cancellation, Close, peer detach. Checks `TypeOK`, `CreditRespected`, `TransfersContiguous`, `AcksFollowDispositions`, `SendResultSound` (an id only for the caller's own Declared, success only for its own answer other than Rejected) and the refinement `CreditLinkSpec`. About 6.4M states, 2 min |
| `sender_first` | pass | 1 caller, receiver mode first, sender mode mixed, closeOnDispositionError both ways, echo flows, peer detach, session end. Messages may also marshal to zero bytes (sender.go:139), which skips the frame loop. The peer accepts, rejects or releases. Checks `SendResultSound` and `CreditLinkSpec` (`TypeOK` is checked in `sender_second`). About 10.7M states, 3 min |
| `sender_ack_liveness` | pass | Under `FairSpec`, `AckEventually` and `LinkClosesEventually`. About 54K states, under 2 min |
| `credit_wrap` | violation | `CreditRespected`: a flow lowering the limit wraps the uint32 credit (sender.go:396, 362) |
| `cancel_mid_delivery` | violation | `NoAbandonedDelivery`: ctx cancel between frames leaves a delivery with more=true unfinished (sender.go:160) |
| `close_drops_frame` | violation | `DeliveryFramesInOrder`: Close in the transfer inner loop drops a handed-over frame, and the next frame of the same delivery follows (sender.go:372) |
| `codec` | pass | Two encoder calls on one buffer (or one writeFrame). Checks `RoundTrip` (the buffer decodes to the values written, in order, and a frame's size is its length); `ShortestForm` (every integer, string, binary and array takes its shortest encoding); `PerformativeRoundTrip` (each performative's unmarshal reads back what its marshal wrote, omitted fields included). About 6K states, a few seconds |
| `codec_partial_write` | violation | `NoPartialWrite`: writeMap with an ill-formed string key leaves `map32` and 8 placeholder bytes in the buffer (encode.go:438-451, against spec.md 8) |
| `close_hides_remote_error` | violation | `CloseReportsRemoteError`: closeLink returns nil for `LinkError{RemoteErr}` (link.go:282, against spec.md 7) |
| `attach_handles` | pass | Under `FairSpec`, 2 links share one handle, with refusals, cancellations at both waits, settle-mode mismatches, Close and session end. Checks `TypeOK`, `HandlesNeverConfused` (no handle is reused while the peer holds it, and no frame reaches the wrong link), `AttachedAgreesWithPeer`, `NoUnexpectedReply` (attach never fails on a first frame that is not the peer's Attach, or on a non-Detach after a refusal, link.go:157 and 187, errors that would leak the handle), and `BackgroundCleanupEnds` (the 5 s background muxClose of a cancelled attach always ends, even if the peer never answers). One option value is out of range, so `NewSender` also fails. About 220K states, 15 s |
| `refusal_leaks_handle` | violation | `HandleFreedAfterDetach`: a refused attach exchanges closing Detaches and keeps its handle (link.go:186-201, against spec.md 4.4) |
| `peer_unlimited_size` | violation | `MaxMessageSizeResolved`: a peer answering max-message-size 0 removes the link's own limit (link.go:203, against spec.md 4.4) |

Every property of a passing run has a mutant in `PROJECT.json`: a plausible
bug in the mapped code that TLC finds under that run's configuration.

Bounds. Credit is 3 bits wide. That is enough for a wrap: the violation
reaches `availableCredit = 7`.

The codec's bounds are the encoders' own boundaries. These are the values
on both sides of every width choice, so each branch of each encoder is taken.
Two calls on one buffer are enough to show that each value's size field
delimits it from the next.

Two messages with two frames each exercise:
- interleaving between callers;
- an inner-loop frame arriving mid-delivery;
- the order of two acknowledgements.

One cancellation and one Close cover each select's ctx and close arms.
MaxCredit = 1 with 2 flows lets credit run out and be renewed.

Link attach: two links over one handle (HandleMax = 0) are enough for the
second link to find no free handle, for a handle to be freed and reused, and
for the peer's late frames for the first link to arrive after the reuse. Each link
attaches once, so the state space is finite without a counter.

The safety runs use symmetry over the callers, which are interchangeable
goroutines. The liveness run uses none.

Fairness. Go's select chooses uniformly among ready cases. So every arm of
the mux's selects that is enabled infinitely often is taken (SF per action).
The other goroutines run while they can (WF):
- muxClose;
- the session's routing;
- the peer reading its input.

In `LinkAttach`, the background muxClose goroutine, the 5 s timer and the
session's routing are WF: they run whenever they can.

Callers, the application and the peer's decisions get no fairness, because
the code does not force them.

## 4. What is not modelled, and the plan

- **Codec, remaining cases**: the symbol, unsettled, filter and Annotations cases of writeMap, UUIDs and lists of interface{}. They can be added as further inputs in `AmqpCodec`. The "too large" errors need values of 2^32 bytes and stay out of reach.
- **Unmarshal**: `unmarshalComposite` and the type decoders are not under `src/`. The model's own decoder stands in for them, and the unmarshal field lists of `frames.go` are modelled on top of it. Time values are their milliseconds, so `UnixNano`'s int64 overflow (encode.go:301) is not modelled.
- **Transaction controller**: the declare and discharge bodies, and the transaction ids, are abstracted away; a Declare cancelled after its transfer was written leaves a transaction declared at the coordinator that the caller never learns of (transaction_controller.go:48). Nothing in spec.md says what should become of it, so no property is about it.
- **Connection driver and receiver**: not under `src/`. They appear only as session termination and as an arbitrary peer.
- The mutual wait between the session mux and the link mux is not modelled, because the session is not modelled as a single goroutine. A zero-byte message is modelled (`EmptyMsgs`). Its Send blocks until ctx or l.done, which the code intends, so no property is about that wait.
- Cancellation is checked only in the safety runs. `sender_ack_liveness` has no cancellation, because with one cancel the liveness check takes over 10 minutes.
