------------------------------ MODULE AmqpCodec ------------------------------
(***************************************************************************)
(* The AMQP type encoder of src/encode.go: marshal and the write*          *)
(* helpers, marshalComposite (every performative of src/frames.go is       *)
(* written through it), the array headers and writeFrame.                  *)
(*                                                                         *)
(* The encoders are operators from a Go value to the bytes they append to  *)
(* the buffer, with the error flag they return.  The state machine is the  *)
(* *buffer.Buffer that successive calls append to.  Each encoder is        *)
(* checked against a decoder written from the AMQP 1.0 type encodings      *)
(* (spec.md 4.1), not from the encoder.                                    *)
(*                                                                         *)
(* A byte is an integer in 0..255.  A float or double is its IEEE-754 bit  *)
(* pattern (math.Float32bits) and a time is its Unix milliseconds: the     *)
(* encoder only writes those numbers.  A Go string or []byte is its        *)
(* sequence of bytes.                                                      *)
(***************************************************************************)
EXTENDS Integers, Sequences, SequencesExt, FiniteSets

CONSTANTS
    Values,       \* Go values handed to marshal (records, see GoKinds)
    Composites,   \* performatives and described types with a marshal method
    Arrays,       \* fixed-width arrays: [length, typeSize, type]
    VarArrays,    \* variable-width arrays: [type, elems (byte sequences)]
    FrameBodies,  \* composites written as frame bodies by writeFrame
    Channels,     \* channel numbers of frames
    MaxWrites,    \* bound: encoder calls on one buffer
    MaxUint32     \* model value: 4294967295, the uint32 default of Open and
                  \* Begin, beyond TLC's integers; compared, never encoded

\* The Go types marshal dispatches on (pointer variants encode alike).
GoKinds == {"nil", "bool", "uint8", "uint16", "uint32", "uint64", "int8", "int16",
            "int32", "int64", "float32", "float64", "time", "string", "binary", "map",
            "composite", "open", "begin", "attach", "flow", "transfer", "disposition",
            "detach", "end", "close", "symbol", "symarray", "saslMechanisms", "saslInit",
            "saslChallenge", "saslResponse", "saslOutcome"}

\* AMQP 1.0 format codes (the typeCode* constants).
Code == [null |-> 64, boolTrue |-> 65, boolFalse |-> 66, uint0 |-> 67, ulong0 |-> 68,
         list0 |-> 69, ubyte |-> 80, byte |-> 81, smalluint |-> 82, smallulong |-> 83,
         smallint |-> 84, smalllong |-> 85, ushort |-> 96, short |-> 97, uint |-> 112,
         int |-> 113, float |-> 114, ulong |-> 128, long |-> 129, double |-> 130,
         timestamp |-> 131, vbin8 |-> 160, str8 |-> 161, sym8 |-> 163, vbin32 |-> 176,
         str32 |-> 177, sym32 |-> 179,
         list8 |-> 192, map8 |-> 193, list32 |-> 208, map32 |-> 209, array8 |-> 224,
         array32 |-> 240]

\* The w-byte big-endian two's-complement form of n: binary.BigEndian.PutUintN
\* of the uintN conversion of n (buffer.WriteUint16/32/64).
RECURSIVE BigEndian(_, _)
BigEndian(n, w) ==
    IF w = 0 THEN <<>> ELSE BigEndian(n \div 256, w - 1) \o <<n % 256>>

\* The result of an encoder: the bytes it appended and whether it returned nil.
Enc(ok, bytes) == [ok |-> ok, bytes |-> bytes]

\* UTF-8 well-formedness (utf8.ValidString), RFC 3629: every byte is ASCII,
\* a lead byte followed by its continuation bytes (with the narrower second
\* byte after E0, ED, F0 and F4), or a continuation byte of such a lead.
Cont(c) == c \in 128..191
Need(c) == CASE c < 128 -> 0 [] c \in 194..223 -> 1 [] c \in 224..239 -> 2
              [] c \in 240..244 -> 3 [] OTHER -> -1
SecondRange(c) == CASE c = 224 -> 160..191 [] c = 237 -> 128..159
                    [] c = 240 -> 144..191 [] c = 244 -> 128..143 [] OTHER -> 128..191
ValidUTF8(s) ==
    LET n == Len(s) IN
    /\ \A i \in 1..n : ~Cont(s[i]) =>
          /\ Need(s[i]) >= 0 /\ i + Need(s[i]) <= n
          /\ \A j \in (i + 1)..(i + Need(s[i])) :
                s[j] \in (IF j = i + 1 THEN SecondRange(s[i]) ELSE 128..191)
    /\ \A j \in 1..n : Cont(s[j]) =>
          \E k \in 1..(j - 1) : /\ ~Cont(s[k]) /\ j - k <= Need(s[k])
                               /\ \A m \in (k + 1)..j : Cont(s[m])

-----------------------------------------------------------------------------
(* The encoders.                                                            *)

\* writeInt32 / writeInt64: smallint / smalllong when -128 <= n <= 127.
WriteInt32(n) ==
    IF n \in -128..127 THEN <<Code.smallint, n % 256>> ELSE <<Code.int>> \o BigEndian(n, 4)
WriteInt64(n) ==
    IF n \in -128..127 THEN <<Code.smalllong, n % 256>> ELSE <<Code.long>> \o BigEndian(n, 8)

\* Mutant: the one-byte form stopping one short of 255.
WriteUint32SmallOffByOne(n) ==
    CASE n = 0   -> <<Code.uint0>>
      [] n \in 1..254 -> <<Code.smalluint, n>>
      [] n >= 255 -> <<Code.uint>> \o BigEndian(n, 4)

\* writeUint32 / writeUint64: the zero form, the one-byte form below 256,
\* else the full width.
WriteUint32(n) ==
    CASE n = 0   -> <<Code.uint0>>
      [] n \in 1..255 -> <<Code.smalluint, n>>
      [] n >= 256 -> <<Code.uint>> \o BigEndian(n, 4)
WriteUint64(n) ==
    CASE n = 0   -> <<Code.ulong0>>
      [] n \in 1..255 -> <<Code.smallulong, n>>
      [] n >= 256 -> <<Code.ulong>> \o BigEndian(n, 8)

\* writeFloat / writeDouble: the IEEE 754 bits (x.n holds them) at full
\* width.  writeTimestamp: milliseconds since the epoch as a uint64 (x.n
\* holds t.UnixNano() / 1e6).
WriteFloat(bits) == <<Code.float>> \o BigEndian(bits, 4)
WriteDouble(bits) == <<Code.double>> \o BigEndian(bits, 8)
WriteTimestamp(ms) == <<Code.timestamp>> \o BigEndian(ms, 8)

\* writeString: reject invalid UTF-8 before writing; str8 below 256 bytes,
\* else str32.  (The "too long" error needs a string of 2^32 - 1 bytes.)
WriteString(s) ==
    CASE ~ValidUTF8(s)  -> Enc(FALSE, <<>>)
      [] Len(s) < 256   -> Enc(TRUE, <<Code.str8, Len(s)>> \o s)
      [] Len(s) >= 256  -> Enc(TRUE, <<Code.str32>> \o BigEndian(Len(s), 4) \o s)

\* writeBinary: vbin8 below 256 bytes, else vbin32.
WriteBinary(b) ==
    IF Len(b) < 256 THEN <<Code.vbin8, Len(b)>> \o b
    ELSE <<Code.vbin32>> \o BigEndian(Len(b), 4) \o b

\* symbol.marshal (not under src/): sym8 below 256 bytes, else sym32; a
\* symbol is ASCII and is not validated.
WriteSymbol(s) ==
    IF Len(s) < 256 THEN <<Code.sym8, Len(s)>> \o s
    ELSE <<Code.sym32>> \o BigEndian(Len(s), 4) \o s

\* writeDescriptor: 0x00, then the descriptor code as a smallulong.
WriteDescriptor(code) == <<0, Code.smallulong, code>>

\* lastSetIdx + 1 in marshalComposite: the position of the last field that
\* is not omitted, 0 when every field is omitted.
LastSet(fields) ==
    LET set == {i \in DOMAIN fields : ~fields[i].omit}
    IN  IF set = {} THEN 0 ELSE Max(set)

\* The performatives of src/frames.go the links send, as records of their
\* Go fields (a nil pointer is Nil), and their descriptor codes.
PerfCode == [open |-> 16, begin |-> 17, attach |-> 18, flow |-> 19, transfer |-> 20,
             disposition |-> 21, detach |-> 22, end |-> 23, close |-> 24,
             saslMechanisms |-> 64, saslInit |-> 65, saslChallenge |-> 66,
             saslResponse |-> 67, saslOutcome |-> 68]

\* marshalField{value, omit}: a field always written, a pointer field
\* omitted when nil, a bool field omitted when false.
Req(v) == [omit |-> FALSE, value |-> v]
Ptr(v) == [omit |-> v.go = "nil", value |-> v]
Flag(b) == [omit |-> ~b, value |-> [go |-> "bool", b |-> b]]
U32(n) == [go |-> "uint32", n |-> n]

U16(n) == [go |-> "uint16", n |-> n]
Str(s) == [go |-> "string", s |-> s]
\* A field omitted when it equals its default.
Dflt(v, default, g) == [omit |-> v = default, value |-> g]
\* A map field, omitted when empty (len(m) == 0).
MapField(m) == [omit |-> m.pairs = <<>>, value |-> m]
\* A multiSymbol field, omitted when empty.
Multi(syms) == [omit |-> syms = <<>>, value |-> [go |-> "symarray", elems |-> syms]]
Sym(s) == [go |-> "symbol", s |-> s]
Bin(b) == [go |-> "binary", s |-> b]

\* (*performOpen).marshal (IdleTimeout as its milliseconds)
OpenFields(o) ==
    <<Req(Str(o.containerID)), Dflt(o.hostname, <<>>, Str(o.hostname)),
      Dflt(o.maxFrameSize, MaxUint32, U32(o.maxFrameSize)),
      Dflt(o.channelMax, 65535, U16(o.channelMax)),
      Dflt(o.idleTimeout, 0, U32(o.idleTimeout)),
      Multi(o.outgoingLocales), Multi(o.incomingLocales),
      Multi(o.offeredCapabilities), Multi(o.desiredCapabilities), MapField(o.properties)>>
\* (*performBegin).marshal: Properties is omitted only when nil
BeginFields(b) ==
    <<Ptr(b.remoteChannel), Req(U32(b.nextOutgoingID)), Req(U32(b.incomingWindow)),
      Req(U32(b.outgoingWindow)), Dflt(b.handleMax, MaxUint32, U32(b.handleMax)),
      Multi(b.offeredCapabilities), Multi(b.desiredCapabilities),
      Ptr(b.properties)>>
\* Mutant: initial-delivery-count omitted for a sender instead of a receiver.
AttachFieldsOmitDCForSender(a) ==
    <<Req(Str(a.name)), Req(U32(a.handle)), Req([go |-> "bool", b |-> a.role]),
      Ptr(a.senderSettleMode), Ptr(a.receiverSettleMode), Ptr(a.source), Ptr(a.target),
      MapField(a.unsettled), Flag(a.incompleteUnsettled),
      [omit |-> ~a.role, value |-> U32(a.initialDeliveryCount)],
      Dflt(a.maxMessageSize, 0, [go |-> "uint64", n |-> a.maxMessageSize]),
      Multi(a.offeredCapabilities), Multi(a.desiredCapabilities), MapField(a.properties)>>
\* (*performAttach).marshal: role is a bool (receiver = true);
\* initial-delivery-count is omitted for a receiver
AttachFields(a) ==
    <<Req(Str(a.name)), Req(U32(a.handle)), Req([go |-> "bool", b |-> a.role]),
      Ptr(a.senderSettleMode), Ptr(a.receiverSettleMode), Ptr(a.source), Ptr(a.target),
      MapField(a.unsettled), Flag(a.incompleteUnsettled),
      [omit |-> a.role, value |-> U32(a.initialDeliveryCount)],
      Dflt(a.maxMessageSize, 0, [go |-> "uint64", n |-> a.maxMessageSize]),
      Multi(a.offeredCapabilities), Multi(a.desiredCapabilities), MapField(a.properties)>>
\* (*performFlow).marshal
FlowFields(f) ==
    <<Ptr(f.nextIncomingID), Req(U32(f.incomingWindow)), Req(U32(f.nextOutgoingID)),
      Req(U32(f.outgoingWindow)), Ptr(f.handle), Ptr(f.deliveryCount), Ptr(f.linkCredit),
      Ptr(f.available), Flag(f.drain), Flag(f.echo),
      [omit |-> f.properties.pairs = <<>>, value |-> f.properties]>>
\* (*performTransfer).marshal, before the payload is appended
TransferFields(t) ==
    <<Req(U32(t.handle)), Ptr(t.deliveryID),
      [omit |-> t.deliveryTag = <<>>, value |-> [go |-> "binary", s |-> t.deliveryTag]],
      Ptr(t.messageFormat), Flag(t.settled), Flag(t.more), Ptr(t.receiverSettleMode),
      Ptr(t.state), Flag(t.resume), Flag(t.aborted), Flag(t.batchable)>>
\* (*performDisposition).marshal (role is a bool)
DispositionFields(d) ==
    <<Req([go |-> "bool", b |-> d.role]), Req(U32(d.first)), Ptr(d.last),
      Flag(d.settled), Ptr(d.state), Flag(d.batchable)>>
\* (*performDetach).marshal
DetachFields(d) == <<Req(U32(d.handle)), Flag(d.closed), Ptr(d.error)>>
\* (*performEnd).marshal and (*performClose).marshal
EndFields(e) == <<Ptr(e.error)>>
CloseFields(c) == <<Ptr(c.error)>>
\* (*saslInit).marshal
SaslInitFields(si) ==
    <<Req(Sym(si.mechanism)), Dflt(si.initialResponse, <<>>, Bin(si.initialResponse)),
      Dflt(si.hostname, <<>>, Str(si.hostname))>>
\* (*saslMechanisms).marshal: the multiSymbol is written even when empty
SaslMechanismsFields(sm) == <<Req([go |-> "symarray", elems |-> sm.mechanisms])>>
\* (*saslChallenge).marshal and (*saslResponse).marshal
SaslChallengeFields(sc) == <<Req(Bin(sc.challenge))>>
SaslResponseFields(sr) == <<Req(Bin(sr.response))>>
\* (*saslOutcome).marshal: saslCode.marshal (not under src/) writes a ubyte
SaslOutcomeFields(so) ==
    <<Req([go |-> "uint8", n |-> so.code]),
      Dflt(so.additionalData, <<>>, Bin(so.additionalData))>>

PerfFields(x) ==
    CASE x.go = "open"        -> OpenFields(x)
      [] x.go = "begin"       -> BeginFields(x)
      [] x.go = "attach"      -> AttachFields(x)
      [] x.go = "flow"        -> FlowFields(x)
      [] x.go = "transfer"    -> TransferFields(x)
      [] x.go = "disposition" -> DispositionFields(x)
      [] x.go = "detach"      -> DetachFields(x)
      [] x.go = "end"         -> EndFields(x)
      [] x.go = "close"       -> CloseFields(x)
      [] x.go = "saslInit"       -> SaslInitFields(x)
      [] x.go = "saslMechanisms" -> SaslMechanismsFields(x)
      [] x.go = "saslChallenge"  -> SaslChallengeFields(x)
      [] x.go = "saslResponse"   -> SaslResponseFields(x)
      [] x.go = "saslOutcome"    -> SaslOutcomeFields(x)

\* writeArrayHeader: size = length * typeSize; array8 when size + 2 fits a
\* byte, else array32 (size and count as uint32).
WriteArrayHeader(length, typeSize, type) ==
    LET size == length * typeSize
    IN  IF size + 2 <= 255
           THEN <<Code.array8, size + 2, length % 256, type>>
           ELSE <<Code.array32>> \o BigEndian(size + 5, 4) \o BigEndian(length, 4) \o <<type>>

\* writeVariableArrayHeader: every element carries a length prefix of 1 byte
\* (element codes 0xA_) or 4 bytes (0xB_, type & 0xf0 == 0xb0).
WriteVariableArrayHeader(length, elementsSizeTotal, type) ==
    LET elementTypeSize == IF type \div 16 = 11 THEN 4 ELSE 1
        size == elementsSizeTotal + length * elementTypeSize
    IN  IF size + 2 <= 255
           THEN <<Code.array8, size + 2, length % 256, type>>
           ELSE <<Code.array32>> \o BigEndian(size + 5, 4) \o BigEndian(length, 4) \o <<type>>

\* An array of variable-width elements: the header, then each element as
\* its length prefix and its bytes.
VarArrayBytes(type, elems) ==
    LET pw == IF type \div 16 = 11 THEN 4 ELSE 1
        Plus(m, n) == m + n
        total == FoldLeft(Plus, 0, [i \in DOMAIN elems |-> Len(elems[i])])
    IN  WriteVariableArrayHeader(Len(elems), total, type)
        \o FlattenSeq([i \in DOMAIN elems |-> BigEndian(Len(elems[i]), pw) \o elems[i]])

\* multiSymbol.marshal (not under src/), as arraySymbol.marshal: an array of
\* sym8 elements, of sym32 when one is longer than 255 bytes.
SymArrayBytes(syms) ==
    VarArrayBytes(IF \E i \in DOMAIN syms : Len(syms[i]) > 255 THEN Code.sym32 ELSE Code.sym8,
                  syms)

RECURSIVE Marshal(_), WriteMap(_), MapPairs(_, _), CompositeFields(_),
          MarshalComposite(_, _), MarshalTransfer(_)

\* marshal: dispatch on the Go type of x (uint and int go to the 64-bit
\* writers, like uint64 and int64; a marshaler writes itself, and the
\* performatives and termini are composites).
Marshal(x) ==
    CASE x.go = "nil"       -> Enc(TRUE, <<Code.null>>)
      [] x.go = "bool"      -> Enc(TRUE, <<IF x.b THEN Code.boolTrue ELSE Code.boolFalse>>)
      [] x.go = "uint8"     -> Enc(TRUE, <<Code.ubyte, x.n>>)
      [] x.go = "uint16"    -> Enc(TRUE, <<Code.ushort>> \o BigEndian(x.n, 2))
      [] x.go = "uint32"    -> Enc(TRUE, WriteUint32(x.n))
      [] x.go = "uint64"    -> Enc(TRUE, WriteUint64(x.n))
      [] x.go = "int8"      -> Enc(TRUE, <<Code.byte, x.n % 256>>)
      [] x.go = "int16"     -> Enc(TRUE, <<Code.short>> \o BigEndian(x.n, 2))
      [] x.go = "int32"     -> Enc(TRUE, WriteInt32(x.n))
      [] x.go = "int64"     -> Enc(TRUE, WriteInt64(x.n))
      [] x.go = "float32"   -> Enc(TRUE, WriteFloat(x.n))
      [] x.go = "float64"   -> Enc(TRUE, WriteDouble(x.n))
      [] x.go = "time"      -> Enc(TRUE, WriteTimestamp(x.n))
      [] x.go = "string"    -> WriteString(x.s)
      [] x.go = "binary"    -> Enc(TRUE, WriteBinary(x.s))
      [] x.go = "symbol"    -> Enc(TRUE, WriteSymbol(x.s))
      [] x.go = "symarray"  -> Enc(TRUE, SymArrayBytes(x.elems))
      [] x.go = "map"       -> WriteMap(x)
      [] x.go = "composite" -> MarshalComposite(x.code, x.fields)
      [] x.go = "transfer"  -> MarshalTransfer(x)
      [] x.go \in DOMAIN PerfCode \ {"transfer"} ->
            MarshalComposite(PerfCode[x.go], PerfFields(x))

\* Mutant: the count patched in as the number of pairs, not of elements.
WriteMapPairCount(x) ==
    LET body == MapPairs(x.keys, x.pairs)
    IN  IF body.ok
           THEN Enc(TRUE, <<Code.map32>> \o BigEndian(4 + Len(body.bytes), 4)
                          \o BigEndian(Len(x.pairs), 4) \o body.bytes)
           ELSE Enc(FALSE, <<Code.map32>> \o BigEndian(0, 8) \o body.bytes)

\* writeMap: the map32 code with placeholders for size and count, every
\* pair in Go's iteration order (x.pairs), then the size (the bytes after the
\* size field) and the count (2 * pairs) patched in.  A key or value that
\* fails returns at once, leaving the placeholders and the pairs written.
WriteMap(x) ==
    LET body == MapPairs(x.keys, x.pairs)
    IN  IF body.ok
           THEN Enc(TRUE, <<Code.map32>> \o BigEndian(4 + Len(body.bytes), 4)
                          \o BigEndian(2 * Len(x.pairs), 4) \o body.bytes)
           ELSE Enc(FALSE, <<Code.map32>> \o BigEndian(0, 8) \o body.bytes)

\* The pairs of writeMap: string keys (map[string]interface{}, unsettled)
\* through writeString, other keys through marshal; then the value.
MapPairs(keys, ps) ==
    IF ps = <<>> THEN Enc(TRUE, <<>>)
    ELSE LET k    == IF keys = "string" THEN WriteString(Head(ps)[1].s) ELSE Marshal(Head(ps)[1])
             v    == Marshal(Head(ps)[2])
             rest == MapPairs(keys, Tail(ps))
         IN  CASE ~k.ok         -> k
               [] k.ok /\ ~v.ok -> Enc(FALSE, k.bytes \o v.bytes)
               [] k.ok /\ v.ok  -> Enc(rest.ok, k.bytes \o v.bytes \o rest.bytes)

\* The field loop of marshalComposite: null for an omitted field, marshal
\* otherwise, returning at the first error.
CompositeFields(fs) ==
    IF fs = <<>> THEN Enc(TRUE, <<>>)
    ELSE LET f    == IF Head(fs).omit THEN Enc(TRUE, <<Code.null>>) ELSE Marshal(Head(fs).value)
             rest == CompositeFields(Tail(fs))
         IN  IF f.ok THEN Enc(rest.ok, f.bytes \o rest.bytes) ELSE f

\* marshalComposite: with every field omitted, the described empty list;
\* else the descriptor, list32 with a size placeholder, the field count,
\* the fields up to the last one set, and the size patched in.
MarshalComposite(code, fields) ==
    LET last == LastSet(fields)
        body == CompositeFields(SubSeq(fields, 1, last))
        head == WriteDescriptor(code) \o <<Code.list32>>
    IN  CASE last = 0 -> Enc(TRUE, <<0, Code.smallulong, code, Code.list0>>)
          [] last > 0 /\ body.ok ->
                Enc(TRUE, head \o BigEndian(4 + Len(body.bytes), 4) \o BigEndian(last, 4)
                          \o body.bytes)
          [] last > 0 /\ ~body.ok ->
                Enc(FALSE, head \o BigEndian(0, 4) \o BigEndian(last, 4) \o body.bytes)

\* (*performTransfer).marshal: the composite, then the payload appended
\* unless marshalComposite failed.
MarshalTransfer(t) ==
    LET c == MarshalComposite(PerfCode.transfer, TransferFields(t))
    IN  IF c.ok THEN Enc(TRUE, c.bytes \o t.payload) ELSE c

\* writeFrame: a size placeholder, doff = 2, the frame type, the channel,
\* the body, then the size of the whole buffer patched in.
WriteFrame(type, channel, body) ==
    LET b    == Marshal(body)
        rest == <<2, type>> \o BigEndian(channel, 2) \o b.bytes
    IN  IF b.ok THEN Enc(TRUE, BigEndian(4 + Len(rest), 4) \o rest)
        ELSE Enc(FALSE, BigEndian(0, 4) \o rest)

-----------------------------------------------------------------------------
(* The reference: AMQP 1.0 values, the AMQP type of each Go type (spec.md   *)
(* 4.1) and a decoder of the AMQP encodings.                                *)

Null == [t |-> "null"]

RECURSIVE AmqpOf(_)
\* The AMQP value a Go value stands for.
AmqpOf(x) ==
    LET Num(t) == [t |-> t, n |-> x.n]
        Field(f) == IF f.omit THEN Null ELSE AmqpOf(f.value)
    IN
    CASE x.go = "nil"       -> Null
      [] x.go = "bool"      -> [t |-> "boolean", b |-> x.b]
      [] x.go = "uint8"     -> Num("ubyte")
      [] x.go = "uint16"    -> Num("ushort")
      [] x.go = "uint32"    -> Num("uint")
      [] x.go = "uint64"    -> Num("ulong")
      [] x.go = "int8"      -> Num("byte")
      [] x.go = "int16"     -> Num("short")
      [] x.go = "int32"     -> Num("int")
      [] x.go = "int64"     -> Num("long")
      [] x.go = "float32"   -> Num("float")
      [] x.go = "float64"   -> Num("double")
      [] x.go = "time"      -> Num("timestamp")
      [] x.go = "string"    -> [t |-> "string", s |-> x.s]
      [] x.go = "binary"    -> [t |-> "binary", s |-> x.s]
      [] x.go = "symbol"    -> [t |-> "symbol", s |-> x.s]
      [] x.go = "symarray"  ->
            [t |-> "array", elems |-> x.elems,
             elem |-> IF \E i \in DOMAIN x.elems : Len(x.elems[i]) > 255
                      THEN Code.sym32 ELSE Code.sym8]
      [] x.go = "map"       ->
            [t |-> "map", pairs |-> {<<AmqpOf(p[1]), AmqpOf(p[2])>> : p \in ToSet(x.pairs)}]
      [] x.go = "composite" ->
            LET last == CHOOSE i \in 0..Len(x.fields) :
                           /\ \A j \in (i + 1)..Len(x.fields) : x.fields[j].omit
                           /\ i > 0 => ~x.fields[i].omit
            IN  [t |-> "described", d |-> [t |-> "ulong", n |-> x.code],
                 v |-> [t |-> "list", items |-> [i \in 1..last |-> Field(x.fields[i])]]]
      [] x.go \in DOMAIN PerfCode ->
            AmqpOf([go |-> "composite", code |-> PerfCode[x.go], fields |-> PerfFields(x)])

\* Unsigned and two's-complement big-endian values of a byte sequence.
RECURSIVE UintOf(_)
UintOf(s) == IF s = <<>> THEN 0 ELSE UintOf(Front(s)) * 256 + Last(s)
IntOf(s) ==
    IF s # <<>> /\ s[1] >= 128 THEN -(UintOf([i \in DOMAIN s |-> 255 - s[i]]) + 1)
    ELSE UintOf(s)

\* Fixed-width encodings: code, AMQP type, width of the value, signedness.
FixedForms ==
    {<<64, "null", 0, FALSE>>, <<65, "boolean", 0, FALSE>>, <<66, "boolean", 0, FALSE>>,
     <<67, "uint", 0, FALSE>>, <<68, "ulong", 0, FALSE>>, <<80, "ubyte", 1, FALSE>>,
     <<81, "byte", 1, TRUE>>, <<82, "uint", 1, FALSE>>, <<83, "ulong", 1, FALSE>>,
     <<84, "int", 1, TRUE>>, <<85, "long", 1, TRUE>>, <<96, "ushort", 2, FALSE>>,
     <<97, "short", 2, TRUE>>, <<112, "uint", 4, FALSE>>, <<113, "int", 4, TRUE>>,
     <<114, "float", 4, FALSE>>, <<128, "ulong", 8, FALSE>>, <<129, "long", 8, TRUE>>,
     <<130, "double", 8, FALSE>>, <<131, "timestamp", 8, TRUE>>}
FixedCodes == {f[1] : f \in FixedForms}
Fixed(c) == CHOOSE f \in FixedForms : f[1] = c

\* A decoded item: its value and the number of bytes it took.
Item(val, len) == [ok |-> TRUE, val |-> val, len |-> len]
Bad == [ok |-> FALSE, val |-> Null, len |-> 0]

\* The fixed-width value of code c from the bytes b that follow it.
FixedValue(c, b) ==
    LET f == Fixed(c) IN
    CASE f[2] = "null"    -> Null
      [] f[2] = "boolean" -> [t |-> "boolean", b |-> c = 65]
      [] OTHER            -> [t |-> f[2], n |-> IF f[4] THEN IntOf(b) ELSE UintOf(b)]

\* The raw (constructor-less) elements of an array of element code c: n
\* values of the code's width, or n length-prefixed values.
RECURSIVE VarElems(_, _, _)
VarElems(w, n, b) ==
    LET len  == w + UintOf(SubSeq(b, 1, w))
        rest == VarElems(w, n - 1, SubSeq(b, len + 1, Len(b)))
    IN  CASE n = 0 -> [ok |-> b = <<>>, v |-> <<>>]
          [] n > 0 /\ Len(b) >= w /\ Len(b) >= len ->
                [ok |-> rest.ok, v |-> <<SubSeq(b, w + 1, len)>> \o rest.v]
          [] OTHER -> [ok |-> FALSE, v |-> <<>>]
RawElems(c, n, b) ==
    IF c \in FixedCodes
       THEN LET w == Fixed(c)[3] IN
            [ok |-> Len(b) = n * w, v |-> [i \in 1..n |-> SubSeq(b, (i - 1) * w + 1, i * w)]]
       ELSE VarElems(IF c \div 16 = 11 THEN 4 ELSE 1, n, b)

RECURSIVE DecodeOne(_), DecodeN(_, _)

\* Decode the value at the start of b (AMQP 1.0 part 1, type encodings).
DecodeOne(b) ==
    LET c == b[1]
        r == Tail(b)
        \* width of size/count fields and of length prefixes: 0xA_/0xC_/0xE_
        \* one byte, 0xB_/0xD_/0xF_ four bytes
        w == IF c \div 16 \in {11, 13, 15} THEN 4 ELSE 1
        size == UintOf(SubSeq(r, 1, w))
        inner == SubSeq(r, w + 1, w + size)
        count == UintOf(SubSeq(inner, 1, w))
    IN
    IF b = <<>> THEN Bad ELSE
    CASE c \in FixedCodes ->
            IF Len(r) < Fixed(c)[3] THEN Bad
            ELSE Item(FixedValue(c, SubSeq(r, 1, Fixed(c)[3])), 1 + Fixed(c)[3])
      [] c \in {Code.vbin8, Code.vbin32, Code.str8, Code.str32, Code.sym8, Code.sym32} ->
            IF Len(r) < w + size THEN Bad
            ELSE Item([t |-> CASE c % 16 = 0 -> "binary" [] c % 16 = 1 -> "string"
                                [] OTHER -> "symbol",
                       s |-> inner],
                      1 + w + size)
      [] c = Code.list0 -> Item([t |-> "list", items |-> <<>>], 1)
      [] c \in {Code.list8, Code.list32, Code.map8, Code.map32} ->
            LET items == DecodeN(count, SubSeq(inner, w + 1, Len(inner)))
                isMap == c % 16 = 1
            IN  IF Len(r) < w + size \/ size < w \/ ~items.ok \/ (isMap /\ count % 2 = 1)
                   THEN Bad
                ELSE Item(IF isMap
                             THEN [t |-> "map", pairs |-> {<<items.v[2 * i - 1], items.v[2 * i]>> :
                                                        i \in 1..(count \div 2)}]
                             ELSE [t |-> "list", items |-> items.v],
                          1 + w + size)
      [] c \in {Code.array8, Code.array32} ->
            LET elems == RawElems(inner[w + 1], count, SubSeq(inner, w + 2, Len(inner)))
            IN  IF Len(r) < w + size \/ size < w + 1 \/ ~elems.ok THEN Bad
                ELSE Item([t |-> "array", elem |-> inner[w + 1], elems |-> elems.v], 1 + w + size)
      [] c = 0 ->
            LET d == DecodeOne(r)
                v == DecodeOne(SubSeq(r, d.len + 1, Len(r)))
            IN  IF d.ok /\ v.ok THEN Item([t |-> "described", d |-> d.val, v |-> v.val],
                                         1 + d.len + v.len)
                ELSE Bad
      [] OTHER -> Bad

\* Decode exactly n values that take up all of b.
DecodeN(n, b) ==
    IF n = 0 THEN [ok |-> b = <<>>, v |-> <<>>, lens |-> <<>>]
    ELSE LET first == DecodeOne(b)
             rest  == DecodeN(n - 1, SubSeq(b, first.len + 1, Len(b)))
         IN  [ok |-> first.ok /\ rest.ok, v |-> <<first.val>> \o rest.v,
              lens |-> <<first.len>> \o rest.lens]

\* Decode a frame (AMQP 1.0 part 2.3.1): size, doff, type, channel, then the
\* performative from byte 4 * doff, then the payload (the rest); the size
\* must be the frame's length, at least 8.
DecodeFrame(b) ==
    LET size == UintOf(SubSeq(b, 1, 4))
        doff == b[5]
        body == SubSeq(b, 4 * doff + 1, Len(b))
        v    == DecodeOne(body)
    IN  IF Len(b) >= 8 /\ size = Len(b) /\ doff >= 2 /\ v.ok
           THEN [ok |-> TRUE, v |-> [t |-> "frame", type |-> b[6],
                                     channel |-> UintOf(SubSeq(b, 7, 8)), body |-> v.val,
                                     payload |-> SubSeq(body, v.len + 1, Len(body))]]
           ELSE [ok |-> FALSE, v |-> Null]

\* Decode every value of b, in order.
RECURSIVE DecodeAll(_)
DecodeAll(b) ==
    IF b = <<>> THEN [ok |-> TRUE, v |-> <<>>, lens |-> <<>>]
    ELSE LET first == DecodeOne(b)
             rest  == DecodeAll(SubSeq(b, first.len + 1, Len(b)))
         IN  IF first.ok
                THEN [ok |-> rest.ok, v |-> <<first.val>> \o rest.v,
                      lens |-> <<first.len>> \o rest.lens]
                ELSE [ok |-> FALSE, v |-> <<>>, lens |-> <<>>]

-----------------------------------------------------------------------------
(* The unmarshal methods of src/frames.go: each lists the performative's    *)
(* fields in order, with what happens when a field is null or absent: an    *)
(* error ("required"), a default, or the Go zero value ("zero").  A field's *)
(* kind says how the Go field holds it: a number, a bool, bytes, a map      *)
(* (nil and empty alike) or any other value (compared as its AMQP value).   *)

UF(name, kind, null) == [name |-> name, kind |-> kind, null |-> null, default |-> 0]
\* A field whose handleNull sets a default.
UD(name, kind, d) == [name |-> name, kind |-> kind, null |-> "default", default |-> d]

\* (*performOpen).unmarshal
OpenUnmarshal ==
    <<UF("containerID", "bytes", "required"), UF("hostname", "bytes", "zero"),
      UD("maxFrameSize", "num", MaxUint32), UD("channelMax", "num", 65535),
      UF("idleTimeout", "num", "zero"), UF("outgoingLocales", "multi", "zero"),
      UF("incomingLocales", "multi", "zero"), UF("offeredCapabilities", "multi", "zero"),
      UF("desiredCapabilities", "multi", "zero"), UF("properties", "map", "zero")>>
\* (*performBegin).unmarshal
BeginUnmarshal ==
    <<UF("remoteChannel", "value", "zero"), UF("nextOutgoingID", "num", "required"),
      UF("incomingWindow", "num", "required"), UF("outgoingWindow", "num", "required"),
      UD("handleMax", "num", MaxUint32), UF("offeredCapabilities", "multi", "zero"),
      UF("desiredCapabilities", "multi", "zero"), UF("properties", "map", "zero")>>
\* (*performAttach).unmarshal
AttachUnmarshal ==
    <<UF("name", "bytes", "required"), UF("handle", "num", "required"),
      UF("role", "flag", "required"), UF("senderSettleMode", "value", "zero"),
      UF("receiverSettleMode", "value", "zero"), UF("source", "value", "zero"),
      UF("target", "value", "zero"), UF("unsettled", "map", "zero"),
      UF("incompleteUnsettled", "flag", "zero"), UF("initialDeliveryCount", "num", "zero"),
      UF("maxMessageSize", "num", "zero"), UF("offeredCapabilities", "multi", "zero"),
      UF("desiredCapabilities", "multi", "zero"), UF("properties", "map", "zero")>>
\* (*performFlow).unmarshal
FlowUnmarshal ==
    <<UF("nextIncomingID", "value", "zero"), UF("incomingWindow", "num", "required"),
      UF("nextOutgoingID", "num", "required"), UF("outgoingWindow", "num", "required"),
      UF("handle", "value", "zero"), UF("deliveryCount", "value", "zero"),
      UF("linkCredit", "value", "zero"), UF("available", "value", "zero"),
      UF("drain", "flag", "zero"), UF("echo", "flag", "zero"),
      UF("properties", "map", "zero")>>
\* (*performTransfer).unmarshal, before the payload is taken
TransferUnmarshal ==
    <<UF("handle", "num", "required"), UF("deliveryID", "value", "zero"),
      UF("deliveryTag", "bytes", "zero"), UF("messageFormat", "value", "zero"),
      UF("settled", "flag", "zero"), UF("more", "flag", "zero"),
      UF("receiverSettleMode", "value", "zero"), UF("state", "value", "zero"),
      UF("resume", "flag", "zero"), UF("aborted", "flag", "zero"),
      UF("batchable", "flag", "zero")>>
\* (*performDisposition).unmarshal
DispositionUnmarshal ==
    <<UF("role", "flag", "required"), UF("first", "num", "required"),
      UF("last", "value", "zero"), UF("settled", "flag", "zero"),
      UF("state", "value", "zero"), UF("batchable", "flag", "zero")>>
\* (*performDetach).unmarshal
DetachUnmarshal ==
    <<UF("handle", "num", "required"), UF("closed", "flag", "zero"),
      UF("error", "value", "zero")>>
\* (*performEnd).unmarshal and (*performClose).unmarshal
EndUnmarshal == <<UF("error", "value", "zero")>>
CloseUnmarshal == <<UF("error", "value", "zero")>>
\* (*saslInit).unmarshal
SaslInitUnmarshal ==
    <<UF("mechanism", "bytes", "required"), UF("initialResponse", "bytes", "zero"),
      UF("hostname", "bytes", "zero")>>
\* (*saslMechanisms).unmarshal
SaslMechanismsUnmarshal == <<UF("mechanisms", "multi", "required")>>
\* (*saslChallenge).unmarshal and (*saslResponse).unmarshal
SaslChallengeUnmarshal == <<UF("challenge", "bytes", "required")>>
SaslResponseUnmarshal == <<UF("response", "bytes", "required")>>
\* (*saslOutcome).unmarshal
SaslOutcomeUnmarshal ==
    <<UF("code", "num", "required"), UF("additionalData", "bytes", "zero")>>

UnmarshalFields ==
    [open |-> OpenUnmarshal, begin |-> BeginUnmarshal, attach |-> AttachUnmarshal,
     flow |-> FlowUnmarshal, transfer |-> TransferUnmarshal,
     disposition |-> DispositionUnmarshal, detach |-> DetachUnmarshal,
     end |-> EndUnmarshal, close |-> CloseUnmarshal, saslInit |-> SaslInitUnmarshal,
     saslMechanisms |-> SaslMechanismsUnmarshal, saslChallenge |-> SaslChallengeUnmarshal,
     saslResponse |-> SaslResponseUnmarshal, saslOutcome |-> SaslOutcomeUnmarshal]

\* The Go zero value of a field kind, and the Go field a decoded value sets.
Zero(kind) ==
    CASE kind = "num" -> 0 [] kind = "flag" -> FALSE [] kind \in {"bytes", "multi"} -> <<>>
      [] OTHER -> Null
Fits(kind, a) ==
    CASE kind = "num" -> "n" \in DOMAIN a [] kind = "flag" -> a.t = "boolean"
      [] kind = "bytes" -> a.t \in {"string", "binary", "symbol"} [] kind = "map" -> a.t = "map"
      [] kind = "multi" -> a.t = "symbol" \/ (a.t = "array" /\ a.elem \in {Code.sym8, Code.sym32})
      [] OTHER -> TRUE
FieldOf(kind, a) ==
    CASE kind = "num" -> a.n [] kind = "flag" -> a.b [] kind = "bytes" -> a.s
      [] kind = "multi" -> IF a.t = "symbol" THEN <<a.s>> ELSE a.elems
      [] kind = "map" -> IF a.pairs = {} THEN Null ELSE a
      [] OTHER -> a

\* unmarshalComposite (not under src/; spec.md 4.1): the value must be the
\* described list of the performative's code; field i is the i-th item, or
\* null past the end of the list; a null field takes its handleNull.
UnmarshalComposite(code, specs, a) ==
    LET items == IF a.t = "described" /\ a.v.t = "list" THEN a.v.items ELSE <<>>
        It(i) == IF i <= Len(items) THEN items[i] ELSE Null
        Set(i) == LET f == specs[i] IN
                  CASE It(i) # Null     -> FieldOf(f.kind, It(i))
                    [] f.null = "zero"  -> Zero(f.kind)
                    [] OTHER            -> f.default
    IN  [ok |-> /\ a.t = "described" /\ a.d = [t |-> "ulong", n |-> code]
               /\ a.v.t = "list"
               /\ \A i \in DOMAIN specs :
                     IF It(i) = Null THEN specs[i].null # "required"
                     ELSE Fits(specs[i].kind, It(i)),
         v |-> [n \in {specs[i].name : i \in DOMAIN specs} |->
                  Set(CHOOSE i \in DOMAIN specs : specs[i].name = n)]]

\* The Go fields of performative x as the unmarshal methods set them.
GoView(x) ==
    LET specs == UnmarshalFields[x.go]
        View(f) == LET g == x[f.name] IN
                   CASE f.kind = "value" -> AmqpOf(g)
                     [] f.kind = "map"   -> IF g.go = "nil" \/ g.pairs = <<>> THEN Null
                                            ELSE AmqpOf(g)
                     [] OTHER            -> g
    IN  [n \in {specs[i].name : i \in DOMAIN specs} |->
           View(specs[CHOOSE i \in DOMAIN specs : specs[i].name = n])]

-----------------------------------------------------------------------------
(* The buffer and the calls that write to it.                               *)

VARIABLES
    wr,        \* the bytes of the *buffer.Buffer
    calls,     \* encoder calls made on it
    framed,    \* the buffer holds a frame written by writeFrame
    failed,    \* the last call returned an error
    expected,  \* history: the AMQP values of the calls that returned nil
    sent,      \* history: the Go values of those calls
    good       \* history: the buffer before the call that failed

vars == <<wr, calls, framed, failed, expected, sent, good>>

Init ==
    /\ wr = <<>>
    /\ calls = 0
    /\ framed = FALSE
    /\ failed = FALSE
    /\ expected = <<>>
    /\ sent = <<>>
    /\ good = <<>>

\* One encoder call appends its bytes whatever it returns; a caller stops
\* writing to the buffer after an error.
Write(r, val, x) ==
    /\ wr' = wr \o r.bytes
    /\ calls' = calls + 1
    /\ IF r.ok THEN /\ expected' = Append(expected, val)
                    /\ sent' = Append(sent, x)
                    /\ UNCHANGED <<failed, good>>
               ELSE /\ failed' = TRUE
                    /\ good' = wr
                    /\ UNCHANGED <<expected, sent>>

CanWrite == calls < MaxWrites /\ ~failed /\ ~framed

\* marshal(wr, x).
MarshalValue ==
    /\ CanWrite
    /\ \E x \in Values : Write(Marshal(x), AmqpOf(x), x)
    /\ UNCHANGED framed

\* marshal(wr, x) of a performative or described type: its marshal method.
MarshalPerformative ==
    /\ CanWrite
    /\ \E x \in Composites : Write(Marshal(x), AmqpOf(x), x)
    /\ UNCHANGED framed

\* A fixed-width array's marshal: writeArrayHeader, then each element raw.
\* The element bytes are not interpreted; they are zero here.
WriteArray ==
    /\ CanWrite
    /\ \E a \in Arrays :
          LET elems == [i \in 1..a.length |-> [j \in 1..a.typeSize |-> 0]]
          IN  Write(Enc(TRUE, WriteArrayHeader(a.length, a.typeSize, a.type)
                              \o [i \in 1..(a.length * a.typeSize) |-> 0]),
                    [t |-> "array", elem |-> a.type, elems |-> elems], a)
    /\ UNCHANGED framed

\* A variable-width array's marshal (arrays of strings, symbols, binaries):
\* writeVariableArrayHeader with the total of the element lengths, then
\* each element as its length prefix and its bytes.
WriteVarArray ==
    /\ CanWrite
    /\ \E a \in VarArrays :
          Write(Enc(TRUE, VarArrayBytes(a.type, a.elems)),
                [t |-> "array", elem |-> a.type, elems |-> a.elems], a)
    /\ UNCHANGED framed

\* writeFrame on a buffer the connection has just reset.
WriteFrameCall ==
    /\ calls = 0
    /\ \E ft \in {0, 1}, ch \in Channels, body \in FrameBodies :
          Write(WriteFrame(ft, ch, body),
                [t |-> "frame", type |-> ft, channel |-> ch, body |-> AmqpOf(body),
                 payload |-> IF body.go = "transfer" THEN body.payload ELSE <<>>], body)
    /\ framed' = TRUE

Next == MarshalValue \/ MarshalPerformative \/ WriteArray \/ WriteVarArray \/ WriteFrameCall

Spec == Init /\ [][Next]_vars
-----------------------------------------------------------------------------
(* Properties.                                                              *)

\* What the buffer decodes to: one frame, or the values in order.
Decoded ==
    IF framed THEN LET f == DecodeFrame(wr) IN [ok |-> f.ok, v |-> <<f.v>>]
    ELSE DecodeAll(wr)

\* spec.md 8, decode(encode(v)) == v: while no call has failed, the buffer
\* decodes to the AMQP values of the Go values written, in order (maps
\* compared as sets of pairs); a frame's size field is its length, at least
\* 8.  About marshal, writeMap's patched size and count, marshalComposite's
\* trailing-field trimming and patched size, the array headers and
\* writeFrame's patched size.
RoundTrip ==
    ~failed => Decoded.ok /\ Decoded.v = expected

\* The fewest bytes an AMQP value can be encoded in (AMQP 1.0 part 1.6):
\* the zero and one-byte forms of the integers, the 8-bit forms of strings,
\* binaries and arrays when the length fits.  Other values: no constraint.
ShortestLen(val) ==
    LET Raw(e) == IF val.elem \in FixedCodes THEN Fixed(val.elem)[3]
                  ELSE (IF val.elem \div 16 = 11 THEN 4 ELSE 1) + Len(e)
        Plus(m, n) == m + n
        E == CASE val.t # "array"        -> 0
               [] val.elem \in FixedCodes -> Len(val.elems) * Fixed(val.elem)[3]
               [] OTHER -> FoldLeft(Plus, 0, [i \in DOMAIN val.elems |-> Raw(val.elems[i])])
    IN
    CASE val.t \in {"uint", "ulong"} ->
            IF val.n = 0 THEN 1 ELSE IF val.n < 256 THEN 2
            ELSE IF val.t = "uint" THEN 5 ELSE 9
      [] val.t \in {"int", "long"} ->
            IF val.n \in -128..127 THEN 2 ELSE IF val.t = "int" THEN 5 ELSE 9
      [] val.t \in {"string", "binary", "symbol"} ->
            IF Len(val.s) < 256 THEN 2 + Len(val.s) ELSE 5 + Len(val.s)
      [] val.t = "array" ->
            IF E + 2 <= 255 /\ Len(val.elems) < 256 THEN 4 + E ELSE 10 + E
      [] OTHER -> -1

\* spec.md 4.1 and 8: small forms are always chosen when the value fits:
\* every integer, string, binary and array in the buffer takes the fewest
\* bytes its AMQP type allows.  About the range tests of writeUint32/64,
\* writeInt32/64, writeString, writeBinary and the array headers.
ShortestForm ==
    LET d == DecodeAll(wr) IN
    ~framed /\ ~failed =>
        \A i \in DOMAIN expected :
            ShortestLen(expected[i]) \in {-1, d.lens[i]}

\* spec.md 8: an encoder that fails writes no bytes past the last value it
\* encoded successfully.  About writeMap and marshalComposite returning the
\* error of a key, value or field after writing their headers.
NoPartialWrite ==
    failed => wr = good

\* What a performative's marshal method writes, its unmarshal method reads
\* back: the decoded value passes unmarshalComposite (no required field is
\* null) and sets every Go field to the value it had, an omitted field
\* taking back, as its default or zero value, the value it was omitted
\* for.  About the omit conditions of the marshal methods of src/frames.go
\* against the handleNull defaults and required fields of their unmarshal
\* methods.
PerformativeRoundTrip ==
    ~failed =>
        /\ Decoded.ok
        /\ \A i \in DOMAIN sent :
              "go" \in DOMAIN sent[i] /\ sent[i].go \in DOMAIN UnmarshalFields =>
                 LET a == IF framed THEN Decoded.v[1].body ELSE Decoded.v[i]
                     u == UnmarshalComposite(PerfCode[sent[i].go],
                                             UnmarshalFields[sent[i].go], a)
                 IN  u.ok /\ u.v = GoView(sent[i])

====
