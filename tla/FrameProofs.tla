----------------------------- MODULE FrameProofs -----------------------------
(***************************************************************************)
(* Theorems about Frame, for every header, payload and frame length.       *)
(***************************************************************************)
EXTENDS Frame, TLAPS

\* A 16-bit value survives being stored as two bytes and loaded again.
LEMMA LoadOfStore ==
    ASSUME NEW v \in UInt16
    PROVE  /\ LowByte(v) \in Byte /\ HighByte(v) \in Byte
           /\ Load(LowByte(v), HighByte(v)) = v
BY DEF UInt16, Byte, LowByte, HighByte, Load

\* data begins with the first len bytes of the frame packed from h and json.
Begins(data, len, h, n, json) ==
    \A i \in 0..(len-1) : i < HeaderLen + n => data[i] = Packed(h, n, json)[i]

\* What unpack makes of such data.
Unpacks(data, len, h, n, json) ==
    /\ HeaderLen + n <= len => /\ Accepts(data, len)
                               /\ UnpackedFields(data) = h
                               /\ PayloadLen(data) = n
                               /\ \A i \in 0..(n-1) : data[HeaderLen + i] = json[i]
    /\ len < HeaderLen + n => ~Accepts(data, len)

\* Unpacking the beginning of a packed frame restores it if it is all there,
\* and fails otherwise.
LEMMA UnpackOfPack ==
    ASSUME NEW h \in Fields, NEW n \in UInt16, NEW json, NEW len \in Nat, NEW data,
           Begins(data, len, h, n, json)
    PROVE  Unpacks(data, len, h, n, json)
<1>0. n \in Nat /\ HeaderLen = 12
  BY DEF UInt16, HeaderLen
<1>1a. \A i \in 0..(HeaderLen + n - 1) :
         i < len => data[i] = IF i < HeaderLen THEN HeaderByte(h, n, i) ELSE json[i - HeaderLen]
  <2>1. SUFFICES ASSUME NEW i \in 0..(HeaderLen + n - 1), i < len
                 PROVE  data[i] = IF i < HeaderLen THEN HeaderByte(h, n, i)
                                                   ELSE json[i - HeaderLen]
    OBVIOUS
  <2>2. data[i] = Packed(h, n, json)[i]
    BY <1>0, <2>1 DEF Begins
  <2> QED
    BY <2>2 DEF Packed
<1>1. \A i \in 0..(HeaderLen - 1) : i < len => data[i] = HeaderByte(h, n, i)
  BY <1>0, <1>1a
<1>2. ASSUME HeaderLen <= len
      PROVE  /\ data[0] = Magic0 /\ data[1] = Magic1 /\ data[2] = Version
             /\ data[3] = h.type /\ data[4] = h.flags /\ data[5] = HeaderLen
             /\ Load(data[6], data[7]) = h.seq
             /\ Load(data[8], data[9]) = h.xid
             /\ PayloadLen(data) = n
  <2>1. /\ data[0] = Magic0 /\ data[1] = Magic1 /\ data[2] = Version
        /\ data[3] = h.type /\ data[4] = h.flags /\ data[5] = HeaderLen
        /\ data[6] = LowByte(h.seq) /\ data[7] = HighByte(h.seq)
        /\ data[8] = LowByte(h.xid) /\ data[9] = HighByte(h.xid)
        /\ data[10] = LowByte(n) /\ data[11] = HighByte(n)
    BY <1>1, <1>2 DEF HeaderByte, HeaderLen
  <2>2. h.seq \in UInt16 /\ h.xid \in UInt16
    BY DEF Fields
  <2> QED
    BY <2>1, <2>2, LoadOfStore DEF PayloadLen
<1>3. ASSUME HeaderLen + n <= len
      PROVE  /\ Accepts(data, len)
             /\ UnpackedFields(data) = h
             /\ PayloadLen(data) = n
             /\ \A i \in 0..(n-1) : data[HeaderLen + i] = json[i]
  <2>1. HeaderLen <= len
    BY <1>3 DEF UInt16, HeaderLen
  <2>2. UnpackedFields(data) = h
    BY <1>2, <2>1 DEF UnpackedFields, Fields
  <2>3. ASSUME NEW i \in 0..(n-1)
        PROVE  data[HeaderLen + i] = json[i]
    <3>1. HeaderLen + i \in 0..(HeaderLen + n - 1) /\ HeaderLen + i < len
      BY <1>0, <1>3
    <3>2. ~(HeaderLen + i < HeaderLen) /\ (HeaderLen + i) - HeaderLen = i
      BY <1>0
    <3> QED
      BY <1>1a, <3>1, <3>2
  <2> QED
    BY <1>2, <1>3, <2>1, <2>2, <2>3 DEF Accepts
<1>4. ASSUME len < HeaderLen + n
      PROVE  ~Accepts(data, len)
  BY <1>2, <1>4 DEF Accepts, UInt16, HeaderLen
<1> QED
  BY <1>3, <1>4 DEF Unpacks

\* Two bytes that are loaded as a 16-bit value are stored as themselves.
LEMMA StoreOfLoad ==
    ASSUME NEW lo \in Byte, NEW hi \in Byte
    PROVE  /\ Load(lo, hi) \in UInt16
           /\ LowByte(Load(lo, hi)) = lo /\ HighByte(Load(lo, hi)) = hi
BY DEF UInt16, Byte, LowByte, HighByte, Load

\* The len bytes at data, numbered from 0, are bytes.
AreBytes(data, len) == \A i \in 0..(len - 1) : data[i] \in Byte

\* Accepted bytes begin with what pack makes of the fields and the payload
\* that unpack returns.
LEMMA PackOfUnpack ==
    ASSUME NEW len \in Nat, NEW data, AreBytes(data, len), Accepts(data, len),
           NEW json, \A i \in 0..(PayloadLen(data) - 1) : json[i] = data[HeaderLen + i]
    PROVE  /\ UnpackedFields(data) \in Fields
           /\ HeaderLen + PayloadLen(data) <= len
           /\ \A i \in 0..(HeaderLen + PayloadLen(data) - 1) :
                 data[i] = Packed(UnpackedFields(data), PayloadLen(data), json)[i]
<1> DEFINE h == UnpackedFields(data)
           n == PayloadLen(data)
<1>1. \A i \in 0..11 : data[i] \in Byte
  BY DEF AreBytes, Accepts, HeaderLen
<1>2. data[3] \in Byte /\ data[4] \in Byte
  BY <1>1
<1>3. /\ Load(data[6], data[7]) \in UInt16
      /\ LowByte(Load(data[6], data[7])) = data[6]
      /\ HighByte(Load(data[6], data[7])) = data[7]
  BY <1>1, StoreOfLoad
<1>4. /\ Load(data[8], data[9]) \in UInt16
      /\ LowByte(Load(data[8], data[9])) = data[8]
      /\ HighByte(Load(data[8], data[9])) = data[9]
  BY <1>1, StoreOfLoad
<1>5. n \in UInt16 /\ LowByte(n) = data[10] /\ HighByte(n) = data[11]
  BY <1>1, StoreOfLoad DEF PayloadLen
<1>6. h \in Fields
  BY <1>2, <1>3, <1>4 DEF UnpackedFields, Fields
<1>7. /\ h.type = data[3] /\ h.flags = data[4]
      /\ h.seq = Load(data[6], data[7]) /\ h.xid = Load(data[8], data[9])
  BY DEF UnpackedFields
<1>8. /\ data[0] = Magic0 /\ data[1] = Magic1 /\ data[2] = Version
      /\ data[5] = HeaderLen /\ HeaderLen + n <= len
  BY DEF Accepts
<1> HIDE DEF h, n
<1>9. ASSUME NEW i \in 0..(HeaderLen - 1)
      PROVE  data[i] = HeaderByte(h, n, i)
  BY <1>3, <1>4, <1>5, <1>7, <1>8 DEF HeaderByte, HeaderLen
<1>10. ASSUME NEW i \in 0..(HeaderLen + n - 1)
       PROVE  data[i] = Packed(h, n, json)[i]
  <2>1. CASE i < HeaderLen
    BY <1>9, <2>1 DEF Packed, HeaderLen
  <2>2. CASE ~(i < HeaderLen)
    <3>1. i - HeaderLen \in 0..(n - 1) /\ HeaderLen + (i - HeaderLen) = i
      BY <1>5, <2>2 DEF UInt16, HeaderLen
    <3>2. json[i - HeaderLen] = data[i]
      BY <3>1 DEF n
    <3> QED
      BY <2>2, <3>2 DEF Packed
  <2> QED
    BY <2>1, <2>2
<1> QED
  BY <1>6, <1>8, <1>10 DEF h, n

\* What pack writes are bytes.
LEMMA PackedAreBytes ==
    ASSUME NEW h \in Fields, NEW n \in UInt16, NEW json \in [0..(n-1) -> Byte]
    PROVE  AreBytes(Packed(h, n, json), HeaderLen + n)
<1>1. n \in Nat /\ HeaderLen \in Nat
  BY DEF UInt16, HeaderLen
<1>2. ASSUME NEW i \in 0..(HeaderLen + n - 1)
      PROVE  Packed(h, n, json)[i] \in Byte
  <2>1. CASE i < HeaderLen
    <3>1. /\ LowByte(h.seq) \in Byte /\ HighByte(h.seq) \in Byte
          /\ LowByte(h.xid) \in Byte /\ HighByte(h.xid) \in Byte
          /\ LowByte(n) \in Byte /\ HighByte(n) \in Byte
      BY LoadOfStore DEF Fields
    <3>2. h.type \in Byte /\ h.flags \in Byte
      BY DEF Fields
    <3>3. HeaderByte(h, n, i) \in Byte
      <4>1. i \in 0..11
        BY <2>1 DEF HeaderLen
      <4>2. Magic0 \in Byte /\ Magic1 \in Byte /\ Version \in Byte /\ HeaderLen \in Byte
        BY DEF Magic0, Magic1, Version, HeaderLen, Byte
      <4> HIDE DEF HeaderLen
      <4> QED
        BY <3>1, <3>2, <4>1, <4>2 DEF HeaderByte
    <3> QED
      BY <2>1, <3>3 DEF Packed
  <2>2. CASE ~(i < HeaderLen)
    <3>1. i - HeaderLen \in 0..(n - 1)
      BY <1>1, <2>2 DEF HeaderLen
    <3> QED
      BY <2>2, <3>1 DEF Packed
  <2> QED
    BY <2>1, <2>2
<1> QED
  BY <1>1, <1>2 DEF AreBytes
-----------------------------------------------------------------------------
(* What is packed, delivered and unpacked, at every moment. *)

SentOK == sent.step = "packed" => /\ sent.fields \in Fields /\ sent.n \in UInt16
                                  /\ sent.json \in [0..(sent.n - 1) -> Byte]

WireOK ==
    /\ wire.step # "none" => /\ sent.step = "packed"
                             /\ wire.len \in Nat
                             /\ AreBytes(wire.data, wire.len)
    /\ wire.step = "ours" =>
            Begins(wire.data, wire.len, sent.fields, sent.n, sent.json)

GotOK ==
    got.step # "none" =>
        /\ wire.step # "none"
        /\ got = IF Accepts(wire.data, wire.len)
                 THEN [step |-> "accepted", fields |-> UnpackedFields(wire.data),
                       n |-> PayloadLen(wire.data)]
                 ELSE [step |-> "dropped"]

Inv == SentOK /\ WireOK /\ GotOK

LEMMA InitInv == Init => Inv
BY DEF Init, Nothing, Inv, SentOK, WireOK, GotOK

LEMMA StepInv == Inv /\ [Next]_vars => Inv'
<1> SUFFICES ASSUME Inv, [Next]_vars
             PROVE  Inv'
  OBVIOUS
<1> USE DEF Inv
<1>1. CASE Pack
  <2>1. wire.step = "none" /\ got.step = "none" /\ UNCHANGED <<wire, got>>
    BY <1>1 DEF Pack, WireOK, GotOK
  <2>2. SentOK'
    <3>1. PICK h \in SampleFields, n \in SampleLens, room \in SampleLens :
          \E json \in [0..(n-1) -> SampleBytes] :
             sent' = [step |-> IF Packs(n, HeaderLen + room) THEN "packed" ELSE "refused",
                      room |-> HeaderLen + room, fields |-> h, n |-> n, json |-> json]
      BY <1>1 DEF Pack
    <3>2. PICK json \in [0..(n-1) -> SampleBytes] :
             sent' = [step |-> IF Packs(n, HeaderLen + room) THEN "packed" ELSE "refused",
                      room |-> HeaderLen + room, fields |-> h, n |-> n, json |-> json]
      BY <3>1
    <3>3. json \in [0..(n-1) -> Byte] /\ h \in Fields /\ n \in Nat
      BY SamplesAreValues
    <3>4. sent'.step = "packed" => n <= 65535
      BY <3>2 DEF Packs
    <3> QED
      BY <3>2, <3>3, <3>4 DEF SentOK, UInt16
  <2> QED
    BY <2>1, <2>2 DEF WireOK, GotOK
<1>2. CASE Deliver
  <2>1. PICK len \in 1..(MaxFrameLen + 1), pad \in SampleBytes :
          LET data == Packed(sent.fields, sent.n, sent.json)
          IN  wire' = [step |-> "ours", len |-> len,
                       data |-> [i \in 0..(len-1) |-> IF i \in DOMAIN data THEN data[i]
                                                                          ELSE pad]]
    BY <1>2 DEF Deliver
  <2>2. wire'.step = "ours" /\ wire'.len = len /\ len \in Nat
    BY <2>1, FrameHoldsHeader
  <2>3. Begins(wire'.data, len, sent.fields, sent.n, sent.json)
    <3>1. DOMAIN Packed(sent.fields, sent.n, sent.json) = 0..(HeaderLen + sent.n - 1)
      BY DEF Packed
    <3>2. sent.n \in Nat
      BY <1>2 DEF Deliver, SentOK, UInt16
    <3> QED
      BY <2>1, <2>2, <3>1, <3>2 DEF Begins, HeaderLen
  <2>4. got.step = "none" /\ UNCHANGED <<sent, got>> /\ sent.step = "packed"
    BY <1>2 DEF Deliver, GotOK
  <2>5. AreBytes(wire'.data, len)
    <3> DEFINE data == Packed(sent.fields, sent.n, sent.json)
    <3>1. AreBytes(data, HeaderLen + sent.n)
      BY <2>4, PackedAreBytes DEF SentOK
    <3>2. DOMAIN data = 0..(HeaderLen + sent.n - 1)
      BY DEF Packed
    <3>3. wire'.data = [i \in 0..(len-1) |-> IF i \in DOMAIN data THEN data[i] ELSE pad]
      BY <2>1
    <3>4. sent.n \in Nat /\ len \in Nat
      BY <2>2, <2>4 DEF SentOK, UInt16
    <3> HIDE DEF data
    <3>5. \A i \in DOMAIN data : data[i] \in Byte
      BY <3>1, <3>2, <3>4 DEF AreBytes, HeaderLen
    <3>6. \A i \in 0..(len-1) : wire'.data[i] \in Byte
      BY <3>3, <3>5, SamplesAreValues
    <3> QED
      BY <3>6 DEF AreBytes
  <2> QED
    BY <2>2, <2>3, <2>4, <2>5 DEF SentOK, WireOK, GotOK
<1>3. CASE DeliverForeign
  <2> DEFINE data == Packed(sent.fields, sent.n, sent.json)
  <2>1. sent.step = "packed" /\ UNCHANGED <<sent, got>> /\ got.step = "none"
    BY <1>3 DEF DeliverForeign, GotOK
  <2>2. PICK at \in 0..(HeaderLen - 1), value \in SampleBytes :
          wire' = [step |-> "foreign", len |-> HeaderLen + sent.n,
                   data |-> [data EXCEPT ![at] = value]]
    BY <1>3 DEF DeliverForeign
  <2>3. AreBytes(data, HeaderLen + sent.n)
    BY <2>1, PackedAreBytes DEF SentOK
  <2>4. DOMAIN data = 0..(HeaderLen + sent.n - 1)
    BY DEF Packed
  <2>5. wire'.len \in Nat
    BY <2>1, <2>2 DEF SentOK, UInt16, HeaderLen
  <2>6. AreBytes(wire'.data, wire'.len)
    <3> HIDE DEF data
    <3> QED
      BY <2>2, <2>3, <2>4, SamplesAreValues DEF AreBytes
  <2> QED
    BY <2>1, <2>2, <2>5, <2>6 DEF SentOK, WireOK, GotOK
<1>4. CASE Unpack
  BY <1>4 DEF Unpack, SentOK, WireOK, GotOK
<1>5. CASE UNCHANGED vars
  BY <1>5 DEF vars, SentOK, WireOK, GotOK
<1> QED
  BY <1>1, <1>2, <1>3, <1>4, <1>5 DEF Next, Done

LEMMA InvImplies == Inv => WholeFrameIsRestored /\ CutFrameIsDropped
<1> SUFFICES ASSUME Inv, got.step # "none"
             PROVE  WholeFrameIsRestored /\ CutFrameIsDropped
  BY DEF WholeFrameIsRestored, CutFrameIsDropped
<1>1. ASSUME wire.step = "ours"
      PROVE  WholeFrameIsRestored /\ CutFrameIsDropped
  <2> DEFINE h == sent.fields
             n == sent.n
             json == sent.json
             len == wire.len
             data == wire.data
  <2>1. h \in Fields /\ n \in UInt16 /\ len \in Nat /\ Begins(data, len, h, n, json)
    BY <1>1 DEF Inv, SentOK, WireOK
  <2>2. IsWhole <=> HeaderLen + n <= len
    BY <1>1 DEF IsWhole
  <2>3. got = IF Accepts(data, len)
              THEN [step |-> "accepted", fields |-> UnpackedFields(data), n |-> PayloadLen(data)]
              ELSE [step |-> "dropped"]
    BY DEF Inv, GotOK
  <2> SUFFICES
        /\ IsWhole => /\ got.step = "accepted" /\ got.fields = h /\ got.n = n
                      /\ \A i \in 0..(n-1) : data[HeaderLen + i] = json[i]
        /\ ~IsWhole => got.step = "dropped"
    BY DEF WholeFrameIsRestored, CutFrameIsDropped
  <2> HIDE DEF h, n, json, len, data
  <2>4. Unpacks(data, len, h, n, json)
    BY <2>1, UnpackOfPack
  <2>5. ~(HeaderLen + n <= len) => len < HeaderLen + n
    BY <2>1 DEF UInt16, HeaderLen
  <2> QED
    BY <2>2, <2>3, <2>4, <2>5 DEF Unpacks
<1> QED
  BY <1>1 DEF WholeFrameIsRestored, CutFrameIsDropped, IsWhole

LEMMA InvImpliesPacked == Inv => AcceptedIsPacked
<1> SUFFICES ASSUME Inv, got.step = "accepted"
             PROVE  LET payload == [i \in 0..(got.n - 1) |-> wire.data[HeaderLen + i]]
                    IN  /\ got.fields \in Fields
                        /\ HeaderLen + got.n <= wire.len
                        /\ \A i \in 0..(HeaderLen + got.n - 1) :
                              wire.data[i] = Packed(got.fields, got.n, payload)[i]
  BY DEF AcceptedIsPacked
<1> DEFINE payload == [i \in 0..(got.n - 1) |-> wire.data[HeaderLen + i]]
<1>1. /\ Accepts(wire.data, wire.len)
      /\ got.fields = UnpackedFields(wire.data)
      /\ got.n = PayloadLen(wire.data)
  BY DEF Inv, GotOK
<1>2. wire.len \in Nat /\ AreBytes(wire.data, wire.len)
  BY DEF Inv, GotOK, WireOK
<1>3. \A i \in 0..(PayloadLen(wire.data) - 1) : payload[i] = wire.data[HeaderLen + i]
  BY <1>1
<1> HIDE DEF payload
<1>4. /\ UnpackedFields(wire.data) \in Fields
      /\ HeaderLen + PayloadLen(wire.data) <= wire.len
      /\ \A i \in 0..(HeaderLen + PayloadLen(wire.data) - 1) :
            wire.data[i] = Packed(UnpackedFields(wire.data), PayloadLen(wire.data), payload)[i]
  <2> DEFINE d == wire.data
             l == wire.len
  <2>1. l \in Nat /\ AreBytes(d, l) /\ Accepts(d, l)
    BY <1>1, <1>2
  <2>2. \A i \in 0..(PayloadLen(d) - 1) : payload[i] = d[HeaderLen + i]
    BY <1>3
  <2> HIDE DEF d, l
  <2>3. /\ UnpackedFields(d) \in Fields
        /\ HeaderLen + PayloadLen(d) <= l
        /\ \A i \in 0..(HeaderLen + PayloadLen(d) - 1) :
              d[i] = Packed(UnpackedFields(d), PayloadLen(d), payload)[i]
    BY <2>1, <2>2, PackOfUnpack
  <2> QED
    BY <2>3 DEF d, l
<1> QED
  BY <1>1, <1>4 DEF payload

\* Packing and unpacking are inverse: a whole frame is restored.
THEOREM WholeFrameRestored == Spec => []WholeFrameIsRestored
BY InitInv, StepInv, InvImplies, PTL DEF Spec

\* A frame that was cut short is never accepted.
THEOREM CutFrameDropped == Spec => []CutFrameIsDropped
BY InitInv, StepInv, InvImplies, PTL DEF Spec

\* Whatever unpack accepts, from a phyMCP sender or not, begins with a frame
\* that pack makes of the fields and the payload it returns.
THEOREM AcceptedPacked == Spec => []AcceptedIsPacked
BY InitInv, StepInv, InvImpliesPacked, PTL DEF Spec
=============================================================================
