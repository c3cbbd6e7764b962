---------------------------- MODULE MC_AmqpCodec ----------------------------
(* Inputs for AmqpCodec at the boundaries of each encoder's width choice.  *)
EXTENDS AmqpCodec

\* n bytes of 'a' (a valid UTF-8 string) and n zero bytes.
Ascii(n) == [i \in 1..n |-> 97]
Zeros(n) == [i \in 1..n |-> 0]

V(kind, n) == [go |-> kind, n |-> n]
S(kind, s) == [go |-> kind, s |-> s]
B(b) == [go |-> "bool", b |-> b]
Nil == [go |-> "nil"]

\* Strings: empty, ASCII, a 2-byte sequence, the str8/str32 boundary, and
\* ill-formed UTF-8 (a stray 0xFF, an overlong NUL, a UTF-16 surrogate).
GoodStrings == {<<>>, <<104, 105>>, <<195, 169>>, Ascii(255), Ascii(256)}
BadStrings  == {<<255>>, <<192, 128>>, <<237, 160, 128>>}

MCScalars ==
    {Nil, B(TRUE), B(FALSE)}
    \cup {V("uint8", n) : n \in {0, 255}}
    \cup {V("uint16", n) : n \in {1, 65535}}
    \cup {V("uint32", n) : n \in {0, 1, 255, 256, 2147483647}}
    \cup {V("uint64", n) : n \in {0, 255, 256}}
    \cup {V("int8", n) : n \in {-128, 127}}
    \cup {V("int16", n) : n \in {-32768, 300}}
    \cup {V("int32", n) : n \in {-2147483647, -129, -128, 127, 128}}
    \cup {V("int64", n) : n \in {-129, -1, 128}}
    \cup {V("float32", 1065353216), V("float64", 1), V("time", -1), V("time", 86400000)}
    \cup {S("string", s) : s \in GoodStrings \cup BadStrings}
    \cup {S("binary", b) : b \in {<<>>, <<255>>, Zeros(255), Zeros(256)}}

\* Maps in every iteration order: string keys (map[string]interface{}),
\* other keys (map[interface{}]interface{}), and an ill-formed string key.
Map(keys, pairs) == {[go |-> "map", keys |-> keys, pairs |-> o] : o \in SetToSeqs(pairs)}
MCMaps ==
    Map("string", {<<S("string", <<97>>), V("uint32", 1)>>, <<S("string", <<98>>), Nil>>})
    \cup Map("any", {<<V("int64", 1), S("string", <<120>>)>>})
    \cup Map("string", {<<S("string", <<255>>), Nil>>})
    \cup Map("string", {})

F(x) == [omit |-> FALSE, value |-> x]
Omit == [omit |-> TRUE, value |-> Nil]
Comp(code, fields) == [go |-> "composite", code |-> code, fields |-> fields]

\* Described types of encoding (not under src/), as composites: accepted,
\* rejected, and an error whose description may be ill-formed UTF-8.
Accepted == Comp(36, <<>>)
ErrorOf(desc) == Comp(29, <<F(S("string", <<97>>)), F(S("string", desc))>>)
Rejected(e) == Comp(37, <<F(e)>>)
U(n) == V("uint32", n)
NoProps == [go |-> "map", keys |-> "string", pairs |-> <<>>]

\* The flow of sender.go's echo reply: handle, delivery-count, link-credit.
FlowEcho ==
    [go |-> "flow", nextIncomingID |-> Nil, incomingWindow |-> 0, nextOutgoingID |-> 0,
     outgoingWindow |-> 0, handle |-> U(0), deliveryCount |-> U(3), linkCredit |-> U(1),
     available |-> Nil, drain |-> FALSE, echo |-> FALSE, properties |-> NoProps]
FlowFull ==
    [FlowEcho EXCEPT !.nextIncomingID = U(1), !.incomingWindow = 300, !.available = U(0),
                     !.drain = TRUE, !.echo = TRUE,
                     !.properties = [go |-> "map", keys |-> "string",
                                     pairs |-> <<<<S("string", <<97>>), Nil>>>>]]
\* The transfers of sender.go send: id, tag and format set, more on every
\* frame but the last; and a settled transfer with a state.
Transfer(more, payload) ==
    [go |-> "transfer", handle |-> 0, deliveryID |-> U(7), deliveryTag |-> <<1>>,
     messageFormat |-> U(0), settled |-> FALSE, more |-> more, receiverSettleMode |-> Nil,
     state |-> Nil, resume |-> FALSE, aborted |-> FALSE, batchable |-> FALSE,
     payload |-> payload]
DataSection == <<0, Code.smallulong, 117, Code.vbin8, 1, 120>>
MCTransfers ==
    {Transfer(TRUE, DataSection), Transfer(FALSE, <<>>),
     [Transfer(FALSE, DataSection) EXCEPT !.settled = TRUE, !.deliveryTag = <<>>,
                                          !.receiverSettleMode = V("uint8", 1),
                                          !.state = Accepted, !.batchable = TRUE]}
\* The sender's acknowledgement (settled, no last) and a rejecting range.
Disp(first, last, settled, state) ==
    [go |-> "disposition", role |-> FALSE, first |-> first, last |-> last,
     settled |-> settled, state |-> state, batchable |-> FALSE]
\* muxClose's detach (closed, with or without error), a detach with an
\* ill-formed error, and end/close with and without an error.
Detach(closed, err) == [go |-> "detach", handle |-> 0, closed |-> closed, error |-> err]
\* Open with every field at its default, and with the host, frame size,
\* channel-max and idle time-out set.
OpenMin ==
    [go |-> "open", containerID |-> <<99>>, hostname |-> <<>>, maxFrameSize |-> MaxUint32,
     channelMax |-> 65535, idleTimeout |-> 0, outgoingLocales |-> <<>>,
     incomingLocales |-> <<>>, offeredCapabilities |-> <<>>, desiredCapabilities |-> <<>>,
     properties |-> NoProps]
OpenSet ==
    [OpenMin EXCEPT !.hostname = <<104>>, !.maxFrameSize = 512, !.channelMax = 0,
                    !.idleTimeout = 60000, !.offeredCapabilities = <<<<97>>>>,
                    !.desiredCapabilities = <<<<97>>, Ascii(256)>>]
\* A locally started Begin (no remote channel, default handle-max) and an
\* answering Begin with an empty, non-nil property map.
BeginLocal ==
    [go |-> "begin", remoteChannel |-> Nil, nextOutgoingID |-> 0, incomingWindow |-> 5000,
     outgoingWindow |-> 5000, handleMax |-> MaxUint32, offeredCapabilities |-> <<>>,
     desiredCapabilities |-> <<>>, properties |-> Nil]
BeginReply ==
    [BeginLocal EXCEPT !.remoteChannel = V("uint16", 3), !.handleMax = 7,
                       !.properties = NoProps]
\* link.attach's Attach for a sender (settle modes, source and target,
\* initial-delivery-count, max-message-size) and for a receiver (no modes).
Terminus(code, addr) == Comp(code, <<F(S("string", addr))>>)
AttachSender ==
    [go |-> "attach", name |-> <<108>>, handle |-> 0, role |-> FALSE,
     senderSettleMode |-> V("uint8", 2), receiverSettleMode |-> V("uint8", 1),
     source |-> Terminus(40, <<>>), target |-> Terminus(41, <<113>>),
     unsettled |-> NoProps, incompleteUnsettled |-> FALSE, initialDeliveryCount |-> 3,
     maxMessageSize |-> 256, offeredCapabilities |-> <<>>, desiredCapabilities |-> <<>>,
     properties |-> NoProps]
AttachReceiver ==
    [AttachSender EXCEPT !.handle = 1, !.role = TRUE, !.senderSettleMode = Nil,
                         !.receiverSettleMode = Nil, !.initialDeliveryCount = 0,
                         !.maxMessageSize = 0, !.incompleteUnsettled = TRUE]
\* The SASL frames of the handshake (spec.md 4.2): an init with and without
\* the optional response and host, the mechanisms offered (none or two), an
\* empty challenge, a response, and an outcome with and without data.
SaslInit(resp, host) ==
    [go |-> "saslInit", mechanism |-> <<80>>, initialResponse |-> resp, hostname |-> host]
MCSasl ==
    {SaslInit(<<>>, <<>>), SaslInit(<<0, 117>>, <<104>>),
     [go |-> "saslMechanisms", mechanisms |-> <<>>],
     [go |-> "saslMechanisms", mechanisms |-> <<<<80>>, <<65>>>>],
     [go |-> "saslChallenge", challenge |-> <<>>], [go |-> "saslResponse", response |-> <<1>>],
     [go |-> "saslOutcome", code |-> 0, additionalData |-> <<>>],
     [go |-> "saslOutcome", code |-> 1, additionalData |-> <<2>>]}
MCComposites ==
    {OpenMin, OpenSet, BeginLocal, BeginReply, AttachSender, AttachReceiver,
     FlowEcho, FlowFull,
     Disp(2, Nil, TRUE, Nil), Disp(2, U(3), FALSE, Rejected(ErrorOf(<<98>>))),
     Detach(TRUE, Nil), Detach(FALSE, Nil), Detach(TRUE, ErrorOf(<<255>>)),
     [go |-> "end", error |-> Nil], [go |-> "close", error |-> ErrorOf(<<99>>)]}
    \cup MCSasl

MCValues == MCScalars \cup MCMaps

\* Fixed-width arrays on both sides of the array8 limit (size + 2 <= 255).
MCArrays ==
    {[length |-> 0, typeSize |-> 4, type |-> Code.uint],
     [length |-> 63, typeSize |-> 4, type |-> Code.uint],
     [length |-> 64, typeSize |-> 4, type |-> Code.uint],
     [length |-> 253, typeSize |-> 1, type |-> Code.ubyte],
     [length |-> 254, typeSize |-> 1, type |-> Code.ubyte]}

\* Variable-width arrays: str8 elements on both sides of the limit, str32.
MCVarArrays ==
    {[type |-> Code.str8, elems |-> <<<<97>>, <<98, 99>>>>],
     [type |-> Code.str8, elems |-> <<Ascii(252)>>],
     [type |-> Code.str8, elems |-> <<Ascii(253)>>],
     [type |-> Code.str32, elems |-> <<<<97>>, <<>>>>]}

MCFrameBodies == MCTransfers \cup {FlowEcho, AttachSender, Detach(TRUE, ErrorOf(<<255>>)),
                                SaslInit(<<0, 117>>, <<104>>)}
MCChannels == {0, 65535}
=============================================================================
