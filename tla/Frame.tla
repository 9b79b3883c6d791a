-------------------------------- MODULE Frame --------------------------------
(***************************************************************************)
(* The phyMCP frame (src/phymcp_frame.c): twelve header bytes and a JSON   *)
(* payload that is opaque here.  Bytes are numbered from 0, as in C; a     *)
(* buffer is a function from its indexes to bytes.                         *)
(***************************************************************************)
EXTENDS Integers

CONSTANT MaxFrameLen   \* PHYMCP_MAX_FRAME_LEN

HeaderLen == 12        \* PHYMCP_FRAME_HEADER_LEN

ASSUME FrameHoldsHeader == MaxFrameLen \in Nat /\ MaxFrameLen >= HeaderLen

Byte == {v \in Nat : v < 256}
UInt16 == {v \in Nat : v < 65536}

Magic0 == 80   \* 'P'
Magic1 == 77   \* 'M'
Version == 1
-----------------------------------------------------------------------------
(* store_u16_le and load_u16_le *)

LowByte(v) == v % 256
HighByte(v) == (v \div 256) % 256

\* Mutant of Load: big-endian.
LoadBigEndian(lo, hi) == hi + 256 * lo

Load(lo, hi) == lo + 256 * hi
-----------------------------------------------------------------------------
(* phymcp_frame_pack *)

\* The header fields a caller chooses.
Fields == [type : Byte, flags : Byte, seq : UInt16, xid : UInt16]

\* Whether a payload of n bytes is packed into a buffer of outLen.
Packs(n, outLen) == /\ n <= 65535
                    /\ HeaderLen + n <= MaxFrameLen
                    /\ HeaderLen + n <= outLen

HeaderByte(h, n, i) ==
    CASE i = 0 -> Magic0
      [] i = 1 -> Magic1
      [] i = 2 -> Version
      [] i = 3 -> h.type
      [] i = 4 -> h.flags
      [] i = 5 -> HeaderLen
      [] i = 6 -> LowByte(h.seq)
      [] i = 7 -> HighByte(h.seq)
      [] i = 8 -> LowByte(h.xid)
      [] i = 9 -> HighByte(h.xid)
      [] i = 10 -> LowByte(n)
      [] i = 11 -> HighByte(n)

Packed(h, n, json) ==
    [i \in 0..(HeaderLen + n - 1) |-> IF i < HeaderLen THEN HeaderByte(h, n, i)
                                                       ELSE json[i - HeaderLen]]
-----------------------------------------------------------------------------
(* phymcp_frame_unpack *)

PayloadLen(data) == Load(data[10], data[11])

\* Mutant of Accepts: the payload length is not compared with the data's.
AcceptsAnyLength(data, len) == /\ len >= HeaderLen
                               /\ data[0] = Magic0 /\ data[1] = Magic1
                               /\ data[2] = Version
                               /\ data[5] = HeaderLen

\* Mutant of Accepts: the version is not looked at.
AcceptsAnyVersion(data, len) == /\ len >= HeaderLen
                                /\ data[0] = Magic0 /\ data[1] = Magic1
                                /\ data[5] = HeaderLen
                                /\ HeaderLen + PayloadLen(data) <= len

\* Whether unpack accepts the len bytes at data.
Accepts(data, len) == /\ len >= HeaderLen
                      /\ data[0] = Magic0 /\ data[1] = Magic1
                      /\ data[2] = Version
                      /\ data[5] = HeaderLen
                      /\ HeaderLen + PayloadLen(data) <= len

\* The header it fills in then.  The payload it returns is the
\* PayloadLen(data) bytes of data from HeaderLen on, not a copy.
UnpackedFields(data) == [type |-> data[3], flags |-> data[4],
                         seq |-> Load(data[6], data[7]), xid |-> Load(data[8], data[9])]
-----------------------------------------------------------------------------
(* A sender and a receiver: the sender packs a message, the radio delivers   *)
(* the bytes, possibly followed by others or cut short, or somebody else's   *)
(* bytes, and the receiver unpacks what it was given.                        *)

CONSTANTS SampleFields, SampleLens, SampleBytes   \* what TLC tries

ASSUME SamplesAreValues == /\ SampleFields \subseteq Fields
                           /\ SampleLens \subseteq Nat
                           /\ SampleBytes \subseteq Byte

VARIABLES sent,   \* the message, once the sender has tried to pack it
          wire,   \* the bytes delivered, and how many
          got     \* what the receiver made of them

vars == <<sent, wire, got>>

Nothing == [step |-> "none"]

Init == sent = Nothing /\ wire = Nothing /\ got = Nothing

Pack ==
    /\ sent.step = "none"
    /\ \E h \in SampleFields, n \in SampleLens, room \in SampleLens :
       \E json \in [0..(n-1) -> SampleBytes] :
          sent' = [step |-> IF Packs(n, HeaderLen + room) THEN "packed" ELSE "refused",
                   room |-> HeaderLen + room, fields |-> h, n |-> n, json |-> json]
    /\ UNCHANGED <<wire, got>>

\* The frame arrives with extra bytes after it, or without its last ones.
Deliver ==
    /\ sent.step = "packed" /\ wire.step = "none"
    /\ \E len \in 1..(MaxFrameLen + 1), pad \in SampleBytes :
          LET data == Packed(sent.fields, sent.n, sent.json)
          IN  wire' = [step |-> "ours", len |-> len,
                       data |-> [i \in 0..(len-1) |-> IF i \in DOMAIN data THEN data[i]
                                                                          ELSE pad]]
    /\ UNCHANGED <<sent, got>>

\* Some other ESP-NOW frame: like ours, but for one byte of the header.
DeliverForeign ==
    /\ sent.step = "packed" /\ wire.step = "none"
    /\ \E at \in 0..(HeaderLen - 1), value \in SampleBytes :
          LET data == Packed(sent.fields, sent.n, sent.json)
          IN  wire' = [step |-> "foreign", len |-> HeaderLen + sent.n,
                       data |-> [data EXCEPT ![at] = value]]
    /\ UNCHANGED <<sent, got>>

\* The worker task unpacks the bytes, and drops what is no frame.
Unpack ==
    /\ wire.step # "none" /\ got.step = "none"
    /\ got' = IF Accepts(wire.data, wire.len)
              THEN [step |-> "accepted", fields |-> UnpackedFields(wire.data),
                    n |-> PayloadLen(wire.data)]
              ELSE [step |-> "dropped"]
    /\ UNCHANGED <<sent, wire>>

Done == (got.step # "none" \/ sent.step = "refused") /\ UNCHANGED vars

Next == Pack \/ Deliver \/ DeliverForeign \/ Unpack \/ Done

Spec == Init /\ [][Next]_vars
-----------------------------------------------------------------------------
(* Properties *)

IsWhole == wire.step = "ours" /\ HeaderLen + sent.n <= wire.len

\* A frame that arrives whole is accepted, with the header that was packed and
\* the payload that was packed, whatever follows it in the receive buffer.
WholeFrameIsRestored ==
    got.step # "none" /\ IsWhole =>
        /\ got.step = "accepted"
        /\ got.fields = sent.fields
        /\ got.n = sent.n
        /\ \A i \in 0..(got.n - 1) : wire.data[HeaderLen + i] = sent.json[i]

\* A frame that was cut short is dropped: its payload is never taken for the
\* one that was sent.
CutFrameIsDropped ==
    got.step # "none" /\ wire.step = "ours" /\ ~IsWhole => got.step = "dropped"

\* Whoever sent the bytes, what unpack accepts begins with a frame that pack
\* makes: its fields and payload, packed again, give the same bytes, all of
\* them within those that were received.
AcceptedIsPacked ==
    got.step = "accepted" =>
        LET payload == [i \in 0..(got.n - 1) |-> wire.data[HeaderLen + i]]
        IN  /\ got.fields \in Fields
            /\ HeaderLen + got.n <= wire.len
            /\ \A i \in 0..(HeaderLen + got.n - 1) :
                   wire.data[i] = Packed(got.fields, got.n, payload)[i]
=============================================================================
