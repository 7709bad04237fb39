--------------------------- MODULE WsParserProofs ---------------------------
(***************************************************************************)
(* For every set of streams, every limit and every way of cutting the      *)
(* bytes into chunks: the parser keeps its types and ParserInv, so it      *)
(* never indexes the mask key out of bounds; and on every well-formed      *)
(* stream it delivers the messages the stream encodes, in order, unmasked  *)
(* and without delay, and fails only on a frame over the limit.  Whatever  *)
(* inter_send writes is such a stream, and is read back as it was sent.    *)
(***************************************************************************)
EXTENDS WsReadBack, SequenceTheorems, WellFoundedInduction, TLAPS

(* What one byte gives to GET_OPCODE and GET_PAYLOAD_LEN.                   *)
LEMMA ByteFields ==
  ASSUME NEW ch \in Byte
  PROVE  /\ GET_FIN(ch) \in BOOLEAN
         /\ GET_MASK(ch) \in BOOLEAN
         /\ GET_OPCODE(ch) \in 0..15
         /\ GET_PAYLOAD_LEN(ch) \in 0..127
  BY DEF Byte, GET_FIN, GET_MASK, GET_OPCODE, GET_PAYLOAD_LEN

(* The part of a buffer that was used up and the part that is left are      *)
(* byte sequences.                                                          *)
LEMMA Cut ==
  ASSUME NEW s \in Seq(Byte), NEW n \in Nat, n <= Len(s)
  PROVE  /\ SubSeq(s, 1, n) \in Seq(Byte)
         /\ Len(SubSeq(s, 1, n)) = n
         /\ SubSeq(s, n + 1, Len(s)) \in Seq(Byte)
  OBVIOUS

(* The cleared vector.                                                      *)
LEMMA EmptyBytes == <<>> \in Seq(Byte)
  OBVIOUS

(* Assigning to a field of a WsFrame gives a WsFrame.                       *)
LEMMA FrameUpdate ==
  ASSUME NEW fr \in WsFrame
  PROVE  /\ \A fin \in BOOLEAN : [fr EXCEPT !.fin = fin] \in WsFrame
         /\ \A op \in 0..15 :
              [fr EXCEPT !.opcode = op, !.mask_key = <<>>, !.payload = <<>>]
                \in WsFrame
         /\ \A mask \in BOOLEAN, len \in Nat :
              [fr EXCEPT !.mask = mask, !.payload_len = len] \in WsFrame
         /\ \A len \in Nat : [fr EXCEPT !.payload_len = len] \in WsFrame
         /\ \A key \in Seq(Byte) : [fr EXCEPT !.mask_key = key] \in WsFrame
         /\ \A pl \in Seq(Byte) : [fr EXCEPT !.payload = pl] \in WsFrame
  BY EmptyBytes, Zenon DEF WsFrame

(* The fields of a WsFrame have their types.                                *)
LEMMA FrameFields ==
  ASSUME NEW fr \in WsFrame
  PROVE  /\ fr.fin \in BOOLEAN
         /\ fr.mask \in BOOLEAN
         /\ fr.opcode \in 0..15
         /\ fr.payload_len \in Nat
         /\ fr.mask_key \in Seq(Byte)
         /\ fr.payload \in Seq(Byte)
  BY DEF WsFrame

(* The initial state of a connection satisfies the inductive invariant.     *)
LEMMA InitInv == Init => TypeOK /\ ParserInv
  <1> SUFFICES ASSUME Init PROVE TypeOK /\ ParserInv
    OBVIOUS
  <1>1. input \in StreamType
    BY StreamsAssumption DEF Init
  <1>2. frame \in WsFrame
    <2>1. 0 \in 0..15 /\ 0 \in Nat
      OBVIOUS
    <2> QED
      BY <2>1, EmptyBytes, Zenon DEF Init, WsFrame
  <1>3. wire \in Seq(Byte) /\ <<>> \in Seq(Message)
    BY <1>1 DEF Init, StreamType
  <1>4. TypeOK
    <2>1. byteNeed \in Nat /\ maskIndex \in 0..3
      BY DEF Init
    <2> QED
      BY <1>1, <1>2, <1>3, <2>1, EmptyBytes, Zenon DEF Init, TypeOK, Status
  <1>5. ParserInv
    BY DEF Init, ParserInv, MaskAligned
  <1> QED
    BY <1>4, <1>5

(* The bytes a payload step stores are bytes: in a payload the key is       *)
(* complete, so the index the code computes stays inside mask_key.          *)
LEMMA UnmaskType ==
  ASSUME TypeOK, ParserInv, status = "payload", NEW bytes \in Seq(Byte)
  PROVE  Unmask(bytes) \in Seq(Byte)
  <1>1. CASE frame.mask
    <2>1. frame.mask_key \in Seq(Byte) /\ Len(frame.mask_key) = 4
      BY <1>1 DEF TypeOK, WsFrame, ParserInv, MaskAligned
    <2>2. ASSUME NEW i \in 1..Len(bytes)
          PROVE  Xor(bytes[i], frame.mask_key[((maskIndex + i - 1) % 4) + 1])
                   \in Byte
      <3>1. ((maskIndex + i - 1) % 4) + 1 \in 1..4
        BY DEF TypeOK
      <3>2. frame.mask_key[((maskIndex + i - 1) % 4) + 1] \in Byte
        BY <2>1, <3>1
      <3>3. bytes[i] \in Byte
        OBVIOUS
      <3> QED
        BY <3>2, <3>3, XorAssumption
    <2> QED
      BY <1>1, <2>2 DEF Unmask
  <1>2. CASE ~frame.mask
    BY <1>2 DEF Unmask
  <1> QED
    BY <1>1, <1>2

(* Entering the mask key or the payload of a frame whose length is known.   *)
LEMMA SwitchInv ==
  ASSUME TypeOK, maskIndex = 0, maskIndex' = 0,
         NEW fr \in WsFrame, SwitchToMask(fr)
  PROVE  /\ ParserInv'
         /\ status' \in Status
         /\ byteNeed' \in Nat
         /\ frame' \in WsFrame
  <1>1. CASE fr.mask
    <2>1. /\ status' = "maskKey"
          /\ byteNeed' = 4
          /\ frame' = [fr EXCEPT !.mask_key = <<>>]
      BY <1>1 DEF SwitchToMask
    <2>2. frame' \in WsFrame
      BY <2>1, EmptyBytes, FrameUpdate
    <2>3. frame'.mask /\ frame'.mask_key = <<>>
      BY <1>1, <2>1 DEF WsFrame
    <2> QED
      BY <2>1, <2>2, <2>3 DEF ParserInv, MaskAligned, Status
  <1>2. CASE ~fr.mask
    <2>1. /\ status' = "payload"
          /\ byteNeed' = fr.payload_len
          /\ frame' = fr
      BY <1>2 DEF SwitchToMask
    <2> QED
      BY <1>2, <2>1 DEF ParserInv, MaskAligned, Status, WsFrame, OverLimit
  <1> QED
    BY <1>1, <1>2

(* Every turn of the loop of parse(), and every call of it, preserves the   *)
(* inductive invariant.                                                     *)
LEMMA NextInv == TypeOK /\ ParserInv /\ [Next]_vars => (TypeOK /\ ParserInv)'
  <1> SUFFICES ASSUME TypeOK, ParserInv, [Next]_vars
               PROVE  TypeOK' /\ ParserInv'
    OBVIOUS
  <1>1. ASSUME NEW n \in 1..Len(wire), Receive(n)
        PROVE  TypeOK' /\ ParserInv'
    <2>1. wire \in Seq(Byte) /\ n \in Nat /\ n <= Len(wire)
      BY DEF TypeOK
    <2>2. data' \in Seq(Byte) /\ wire' \in Seq(Byte)
      BY <1>1, <2>1, Cut DEF Receive
    <2> QED
      BY <1>1, <2>2 DEF Receive, TypeOK, ParserInv, MaskAligned, OverLimit
  <1>2. CASE FinAndOpcode
    <2>1. Head(data) \in Byte /\ Tail(data) \in Seq(Byte)
      BY <1>2 DEF FinAndOpcode, TypeOK
    <2> DEFINE fr == [frame EXCEPT !.fin = GET_FIN(Head(data))]
               op == GET_OPCODE(Head(data))
    <2>a. fr \in WsFrame
      BY <2>1, ByteFields, FrameUpdate DEF TypeOK
    <2>b. /\ op \in 0..15
          /\ \/ frame' = fr
             \/ frame' = [fr EXCEPT !.opcode = op, !.mask_key = <<>>,
                                    !.payload = <<>>]
      BY <1>2, <2>1, ByteFields DEF FinAndOpcode
    <2> HIDE DEF fr, op
    <2>2. frame' \in WsFrame
      BY <2>a, <2>b, FrameUpdate, ZenonT(40)
    <2> QED
      BY <1>2, <2>1, <2>2
      DEF FinAndOpcode, TypeOK, Status, ParserInv, MaskAligned
  <1>3. CASE PayloadLenAndMask
    <2> DEFINE len == GET_PAYLOAD_LEN(Head(data))
               fr  == [frame EXCEPT !.mask = GET_MASK(Head(data)),
                         !.payload_len = IF len <= 125 THEN len ELSE 0]
    <2>1. Head(data) \in Byte /\ Tail(data) \in Seq(Byte)
      BY <1>3 DEF PayloadLenAndMask, TypeOK
    <2>2. fr \in WsFrame
      <3>1. len \in 0..127 /\ GET_MASK(Head(data)) \in BOOLEAN
        BY <2>1, ByteFields
      <3>2. (IF len <= 125 THEN len ELSE 0) \in Nat
        BY <3>1
      <3> QED
        BY <3>1, <3>2, FrameUpdate DEF TypeOK
    <2>3. maskIndex = 0 /\ maskIndex' = 0
      BY <1>3 DEF PayloadLenAndMask, ParserInv
    <2>4. CASE len <= 125
      <3>1. SwitchToMask(fr)
        BY <1>3, <2>4 DEF PayloadLenAndMask
      <3> HIDE DEF fr
      <3>2. /\ ParserInv' /\ status' \in Status
            /\ byteNeed' \in Nat /\ frame' \in WsFrame
        BY <2>2, <2>3, <3>1, SwitchInv
      <3> QED
        BY <1>3, <2>1, <2>3, <3>2 DEF PayloadLenAndMask, TypeOK
    <2>5. CASE ~(len <= 125)
      <3>1. frame' = fr /\ status' = "payloadLen" /\ byteNeed' \in {2, 8}
        BY <1>3, <2>5 DEF PayloadLenAndMask
      <3> HIDE DEF fr
      <3> QED
        BY <1>3, <2>1, <2>2, <2>3, <3>1
        DEF PayloadLenAndMask, TypeOK, Status, ParserInv, MaskAligned
    <2> QED
      BY <2>4, <2>5
  <1>4. CASE PayloadLen
    <2> DEFINE fr == [frame EXCEPT !.payload_len = 256 * @ + Head(data)]
    <2>1. Head(data) \in Byte /\ Tail(data) \in Seq(Byte)
      BY <1>4 DEF PayloadLen, TypeOK
    <2>2. fr \in WsFrame
      <3>1. frame.payload_len \in Nat
        BY FrameFields DEF TypeOK
      <3>2. ASSUME NEW a \in Nat, NEW b \in Byte PROVE 256 * a + b \in Nat
        BY DEF Byte
      <3>3. 256 * frame.payload_len + Head(data) \in Nat
        BY <2>1, <3>1, <3>2
      <3> QED
        BY <3>3, FrameUpdate, ZenonT(40) DEF TypeOK
    <2>3. maskIndex = 0 /\ maskIndex' = 0 /\ byteNeed \in 1..8
      BY <1>4 DEF PayloadLen, ParserInv
    <2>4. CASE byteNeed = 1
      <3>1. SwitchToMask(fr)
        BY <1>4, <2>4 DEF PayloadLen
      <3> HIDE DEF fr
      <3>2. /\ ParserInv' /\ status' \in Status
            /\ byteNeed' \in Nat /\ frame' \in WsFrame
        BY <2>2, <2>3, <3>1, SwitchInv
      <3> QED
        BY <1>4, <2>1, <2>3, <3>2 DEF PayloadLen, TypeOK
    <2>5. CASE byteNeed # 1
      <3>1. /\ frame' = fr /\ byteNeed' = byteNeed - 1
            /\ status = "payloadLen" /\ status' = status
        BY <1>4, <2>5 DEF PayloadLen
      <3> HIDE DEF fr
      <3> QED
        BY <1>4, <2>1, <2>2, <2>3, <2>5, <3>1
        DEF PayloadLen, TypeOK, Status, ParserInv, MaskAligned
    <2> QED
      BY <2>4, <2>5
  <1>5. CASE MaskKey
    <2>1. Head(data) \in Byte /\ Tail(data) \in Seq(Byte)
      BY <1>5 DEF MaskKey, TypeOK
    <2>a. /\ Append(frame.mask_key, Head(data)) \in Seq(Byte)
          /\ Len(Append(frame.mask_key, Head(data))) = Len(frame.mask_key) + 1
      BY <2>1, FrameFields DEF TypeOK
    <2>b. frame' \in WsFrame
      BY <1>5, <2>a, FrameUpdate DEF MaskKey, TypeOK
    <2>2. /\ frame' \in WsFrame
          /\ frame'.mask = frame.mask
          /\ frame'.payload_len = frame.payload_len
          /\ Len(frame'.mask_key) = Len(frame.mask_key) + 1
      BY <1>5, <2>a, <2>b DEF MaskKey, TypeOK, WsFrame
    <2>3. /\ maskIndex = 0 /\ maskIndex' = 0
          /\ frame.mask /\ byteNeed \in 1..4
          /\ Len(frame.mask_key) + byteNeed = 4
      BY <1>5 DEF MaskKey, ParserInv
    <2>4. frame.payload_len \in Nat /\ Len(frame.mask_key) \in Nat
      BY DEF TypeOK, WsFrame
    <2>5. CASE byteNeed = 1
      <3>1. status' = "payload" /\ byteNeed' = frame.payload_len
        BY <1>5, <2>5 DEF MaskKey
      <3> QED
        BY <1>5, <2>1, <2>2, <2>3, <2>4, <2>5, <3>1
        DEF MaskKey, TypeOK, Status, ParserInv, MaskAligned, OverLimit
    <2>6. CASE byteNeed # 1
      <3>1. status' = "maskKey" /\ byteNeed' = byteNeed - 1
        BY <1>5, <2>6 DEF MaskKey
      <3> QED
        BY <1>5, <2>1, <2>2, <2>3, <2>4, <2>6, <3>1, SMTT(30)
        DEF MaskKey, TypeOK, Status, ParserInv, MaskAligned
    <2> QED
      BY <2>5, <2>6
  <1>6. CASE PayloadTooLong
    <2>1. maskIndex = 0
      <3>1. byteNeed = frame.payload_len /\ byteNeed \in Nat
        BY <1>6 DEF PayloadTooLong, ParserInv, TypeOK
      <3>2. (frame.payload_len - byteNeed) % 4 = 0
        BY <3>1
      <3> QED
        BY <1>6, <3>2 DEF PayloadTooLong, ParserInv, MaskAligned
    <2> QED
      BY <1>6, <2>1, EmptyBytes
      DEF PayloadTooLong, TypeOK, Status, ParserInv, MaskAligned
  <1>7. CASE PayloadPart
    <2>1. Unmask(data) \in Seq(Byte)
      BY <1>7, UnmaskType DEF PayloadPart, TypeOK
    <2>a. frame.payload \o Unmask(data) \in Seq(Byte)
      BY <2>1, FrameFields DEF TypeOK
    <2>b. frame' \in WsFrame
      BY <1>7, <2>a, FrameUpdate DEF PayloadPart, TypeOK
    <2>2. /\ frame' \in WsFrame
          /\ frame'.mask = frame.mask
          /\ frame'.payload_len = frame.payload_len
          /\ frame'.mask_key = frame.mask_key
      BY <1>7, <2>b DEF PayloadPart, TypeOK, WsFrame
    <2>3. /\ Len(data) \in Nat /\ byteNeed \in Nat /\ Len(data) < byteNeed
          /\ frame.payload_len \in Nat /\ byteNeed <= frame.payload_len
          /\ byteNeed' = byteNeed - Len(data)
          /\ status = "payload" /\ status' = "payload"
          /\ ~OverLimit /\ ~OverLimit'
      BY <1>7, <2>2 DEF PayloadPart, TypeOK, WsFrame, ParserInv, HoldsRest,
                        OverLimit
    <2>4. maskIndex' \in 0..3
      BY <1>7, <2>3, SMTT(40) DEF PayloadPart, MaskIndexAfter, TypeOK
    <2>5. frame.mask => maskIndex' = (frame.payload_len - byteNeed') % 4
      <3> SUFFICES ASSUME frame.mask
                   PROVE  maskIndex' = (frame.payload_len - byteNeed') % 4
        OBVIOUS
      <3>1. maskIndex = (frame.payload_len - byteNeed) % 4
        BY <2>3 DEF ParserInv, MaskAligned
      <3>2. maskIndex' = (maskIndex + Len(data)) % 4
        BY <1>7 DEF PayloadPart, MaskIndexAfter
      <3>3. ASSUME NEW a \in Nat, NEW d \in Nat
            PROVE  ((a % 4) + d) % 4 = (a + d) % 4
        OBVIOUS
      <3>4. /\ frame.payload_len - byteNeed \in Nat
            /\ frame.payload_len - byteNeed'
                 = (frame.payload_len - byteNeed) + Len(data)
        BY <2>3
      <3> QED
        BY <2>3, <3>1, <3>2, <3>3, <3>4
    <2>6. ~frame.mask => maskIndex' = 0
      BY <1>7, <2>3 DEF PayloadPart, MaskIndexAfter, ParserInv
    <2>7. TypeOK'
      BY <1>7, <2>2, <2>3, <2>4 DEF PayloadPart, TypeOK
    <2>8. MaskAligned'
      BY <2>2, <2>3, <2>5 DEF MaskAligned, ParserInv
    <2> QED
      BY <2>2, <2>3, <2>6, <2>7, <2>8 DEF ParserInv
  <1>8. CASE PayloadComplete
    <2> DEFINE bytes == SubSeq(data, 1, byteNeed)
    <2>1. /\ data \in Seq(Byte) /\ byteNeed \in Nat /\ byteNeed <= Len(data)
          /\ status = "payload"
      BY <1>8 DEF PayloadComplete, HoldsRest, TypeOK
    <2>2. bytes \in Seq(Byte) /\ data' \in Seq(Byte)
      BY <1>8, <2>1, Cut DEF PayloadComplete
    <2>3. Unmask(bytes) \in Seq(Byte)
      BY <2>1, <2>2, UnmaskType
    <2>4. /\ frame' = [frame EXCEPT !.payload = @ \o Unmask(bytes)]
          /\ delivered' = IF frame'.fin
                          THEN Append(delivered, [opcode |-> frame'.opcode,
                                                  mask |-> frame'.mask,
                                                  payload |-> frame'.payload])
                          ELSE delivered
      BY <1>8 DEF PayloadComplete
    <2> HIDE DEF bytes
    <2>5. frame' \in WsFrame
      <3>1. frame.payload \o Unmask(bytes) \in Seq(Byte)
        BY <2>3, FrameFields DEF TypeOK
      <3> QED
        BY <2>4, <3>1, FrameUpdate DEF TypeOK
    <2>6. delivered' \in Seq(Message)
      <3>1. [opcode |-> frame'.opcode, mask |-> frame'.mask,
             payload |-> frame'.payload] \in Message
        BY <2>5, FrameFields, Zenon DEF Message
      <3> QED
        BY <2>4, <3>1 DEF TypeOK
    <2>7. isContinuation' \in BOOLEAN
      BY <1>8 DEF PayloadComplete
    <2> QED
      BY <1>8, <2>2, <2>5, <2>6, <2>7
      DEF PayloadComplete, TypeOK, Status, ParserInv, MaskAligned
  <1>9. CASE UNCHANGED vars
    BY <1>9 DEF vars, TypeOK, ParserInv, MaskAligned, OverLimit
  <1> QED
    BY <1>1, <1>2, <1>3, <1>4, <1>5, <1>6, <1>7, <1>8, <1>9 DEF Next

(* The parser keeps its types, and its place in the frame and its counters  *)
(* agree, whatever bytes arrive and however they are cut.                   *)
THEOREM ParserInvariant == Spec => [](TypeOK /\ ParserInv)
  BY InitInv, NextInv, PTL DEF Spec

(* websocket_parser keeps its types.                                        *)
THEOREM TypeCorrect == Spec => []TypeOK
  BY ParserInvariant, PTL

(* The index used on mask_key is always inside it, and is the position of   *)
(* the byte in its frame modulo 4.                                          *)
THEOREM MaskAlwaysAligned == Spec => []MaskAligned
  <1>1. ParserInv => MaskAligned
    BY DEF ParserInv
  <1> QED
    BY <1>1, ParserInvariant, PTL

-----------------------------------------------------------------------------
(***************************************************************************)
(* The parser and the stream.  The bytes that parse() was given are those  *)
(* of the stream; the parser is in its k-th frame, or between two; and     *)
(* what it has stored is what these bytes mean.                            *)
(***************************************************************************)

F(k) == input.frames[k]
K    == Len(input.frames)

StartOf(k) == IF k <= K THEN F(k).start ELSE FrameEnd(F(K))

(* What is still to be looked at is the rest of the bytes.                  *)
Rest ==
  /\ Len(data) + Len(wire) <= Len(input.bytes)
  /\ \A i \in 1..Len(data) : data[i] = input.bytes[Consumed + i]
  /\ \A i \in 1..Len(wire) : wire[i] = input.bytes[Consumed + Len(data) + i]

(* The messages that were delivered are those that end before frame k.      *)
Past(k) ==
  /\ Len(delivered) <= Len(input.msgs)
  /\ \A i \in 1..Len(input.msgs) : i <= Len(delivered) <=> input.last[i] < k
  /\ \A i \in 1..Len(delivered) : ~input.disturbed[i] => delivered[i] = input.msgs[i]

(* What the message of frame k has before it, and with p bytes of it.       *)
Base(k) == IF InMessage(input, k) THEN F(k - 1).payload ELSE <<>>
Stored(k, p) == Base(k) \o [i \in 1..p |-> ContentAt(input, F(k), i)]

Gathering(k, p) ==
  ~F(k).disturbed => frame.opcode = F(k).opcode /\ frame.payload = Stored(k, p)

(* A message goes on in frame k.                                            *)
Between(k) ==
  /\ isContinuation = (k > 1 /\ ~F(k - 1).fin)
  /\ isContinuation /\ ~F(k - 1).disturbed =>
       frame.opcode = F(k - 1).opcode /\ frame.payload = F(k - 1).payload
  /\ k = K + 1 => ~Oversize(F(K))

(* The length and the key that were read so far.                            *)
AtLength(k) ==
  /\ Consumed = F(k).start + 2 + ExtLen(F(k)) - byteNeed
  /\ byteNeed <= ExtLen(F(k))
  /\ frame.mask = F(k).mask
  /\ frame.payload_len = F(k).sizes[ExtLen(F(k)) - byteNeed + 1]
  /\ Gathering(k, 0)

AtKey(k) ==
  /\ Consumed = KeyAt(F(k)) + 4 - byteNeed
  /\ F(k).mask
  /\ frame.payload_len = F(k).len
  /\ \A i \in 1..(4 - byteNeed) : frame.mask_key[i] = input.bytes[KeyAt(F(k)) + i]
  /\ Gathering(k, 0)

AtPayload(k) ==
  /\ Consumed = FrameEnd(F(k)) - byteNeed
  /\ frame.mask = F(k).mask
  /\ frame.payload_len = F(k).len
  /\ F(k).mask => \A i \in 1..4 : frame.mask_key[i] = input.bytes[KeyAt(F(k)) + i]
  /\ byteNeed = 0 => F(k).len = 0
  /\ Gathering(k, F(k).len - byteNeed)

Place(k) ==
  IF status = "finAndOpcode"
  THEN k \in 1..(K + 1) /\ Consumed = StartOf(k) /\ Between(k)
  ELSE /\ k \in 1..K
       /\ frame.fin = F(k).fin
       /\ status = "payloadLenAndMask" => Consumed = F(k).start + 1 /\ Gathering(k, 0)
       /\ status = "payloadLen" => AtLength(k)
       /\ status = "maskKey" => AtKey(k)
       /\ status = "payload" => AtPayload(k)

(* A frame over the limit was met: it is the last one.                      *)
Refused ==
  /\ input.oversize /\ Len(delivered) = Len(input.msgs) /\ data = <<>>
  /\ \A i \in 1..Len(delivered) :
       /\ ~input.disturbed[i] => delivered[i] = input.msgs[i]
       /\ input.ends[i] <= Consumed

StreamInv ==
  WellFormed(input) =>
    IF err = "SUCCESS" THEN Rest /\ \E k \in 1..(K + 1) : Past(k) /\ Place(k)
    ELSE Refused

-----------------------------------------------------------------------------
(* What the fields of a frame are.                                          *)
LEMMA StreamFields ==
  ASSUME WellFormed(input), NEW k \in 1..K
  PROVE  /\ F(k).start \in Nat /\ F(k).len \in Nat
         /\ F(k).sizes \in Seq(Nat)
         /\ F(k).op \in 0..15 /\ F(k).opcode \in 0..15
         /\ F(k).fin \in BOOLEAN /\ F(k).mask \in BOOLEAN
         /\ F(k).open \in BOOLEAN /\ F(k).disturbed \in BOOLEAN
         /\ F(k).payload \in Seq(Byte)
  <1>1. input \in StreamType
    BY Zenon DEF WellFormed
  <1>2. input.frames \in Seq(FrameType)
    BY <1>1 DEF StreamType
  <1>3. F(k) \in FrameType
    BY <1>2 DEF F, K
  <1> QED
    BY <1>3 DEF FrameType

(* Where the parts of a frame are.                                          *)
LEMMA StreamLayout ==
  ASSUME WellFormed(input), NEW k \in 1..K
  PROVE  /\ ExtLen(F(k)) \in {0, 2, 8}
         /\ KeyAt(F(k)) = F(k).start + 2 + ExtLen(F(k)) /\ KeyAt(F(k)) \in Nat
         /\ HeadEnd(F(k)) = KeyAt(F(k)) + (IF F(k).mask THEN 4 ELSE 0)
         /\ HeadEnd(F(k)) \in Nat /\ HeadEnd(F(k)) <= Len(input.bytes)
         /\ FrameEnd(F(k)) = HeadEnd(F(k)) + F(k).len /\ FrameEnd(F(k)) \in Nat
         /\ input.bytes \in Seq(Byte)
         /\ LaidOut(input, F(k))
  <1>1. input \in StreamType
    BY Zenon DEF WellFormed
  <1>2. input.bytes \in Seq(Byte)
    BY <1>1 DEF StreamType
  <1>3. HeadEnd(F(k)) <= Len(input.bytes) /\ LaidOut(input, F(k))
    BY DEF WellFormed, FramesFill, F, K
  <1>4. Len(F(k).sizes) \in {1, 3, 9}
    BY <1>3 DEF LaidOut
  <1>5. ExtLen(F(k)) \in {0, 2, 8}
    BY <1>4 DEF ExtLen
  <1>6. KeyAt(F(k)) = F(k).start + 2 + ExtLen(F(k)) /\ KeyAt(F(k)) \in Nat
    BY <1>5, StreamFields DEF KeyAt
  <1>7. /\ HeadEnd(F(k)) = KeyAt(F(k)) + (IF F(k).mask THEN 4 ELSE 0)
        /\ HeadEnd(F(k)) \in Nat
    BY <1>6 DEF HeadEnd
  <1>8. FrameEnd(F(k)) = HeadEnd(F(k)) + F(k).len /\ FrameEnd(F(k)) \in Nat
    BY <1>7, StreamFields DEF FrameEnd
  <1> QED
    BY <1>2, <1>3, <1>5, <1>6, <1>7, <1>8

(* A frame has a head.                                                      *)
LEMMA StreamSizes ==
  ASSUME WellFormed(input), NEW k \in 1..K
  PROVE  /\ F(k).start \in Nat /\ HeadEnd(F(k)) \in Nat /\ FrameEnd(F(k)) \in Nat
         /\ F(k).start < HeadEnd(F(k)) /\ HeadEnd(F(k)) <= FrameEnd(F(k))
         /\ Len(input.bytes) \in Nat
  <1>1. /\ F(k).start \in Nat /\ F(k).len \in Nat /\ F(k).mask \in BOOLEAN
    BY StreamFields
  <1>2. /\ ExtLen(F(k)) \in Nat
        /\ KeyAt(F(k)) = F(k).start + 2 + ExtLen(F(k))
        /\ HeadEnd(F(k)) = KeyAt(F(k)) + (IF F(k).mask THEN 4 ELSE 0)
        /\ FrameEnd(F(k)) = HeadEnd(F(k)) + F(k).len
        /\ Len(input.bytes) \in Nat
    BY StreamLayout
  <1> QED
    BY <1>1, <1>2, SMTT(40)

(* The frames are one behind the other.                                     *)
LEMMA StreamOrder ==
  ASSUME WellFormed(input)
  PROVE  /\ K \in Nat /\ K > 0
         /\ StartOf(1) = 0
         /\ \A k \in 1..K : StartOf(k) = F(k).start /\ StartOf(k + 1) = FrameEnd(F(k))
         /\ \A k \in 1..(K + 1) : StartOf(k) \in Nat
         /\ \A j \in 1..K, k \in 1..(K + 1) : j < k => FrameEnd(F(j)) <= StartOf(k)
         /\ \A k \in 1..K : k < K => ~Oversize(F(k))
         /\ FrameEnd(F(K)) >= Len(input.bytes)
         /\ input.oversize = (Oversize(F(K)) /\ HeadEnd(F(K)) < Len(input.bytes))
  <1>1. input \in StreamType
    BY Zenon DEF WellFormed
  <1>2. K \in Nat
    BY <1>1 DEF StreamType, K
  <1>3. /\ K > 0 /\ F(1).start = 0
        /\ \A k \in 1..(K - 1) : F(k + 1).start = FrameEnd(F(k)) /\ ~Oversize(F(k))
        /\ \A j, k \in 1..K : j < k => FrameEnd(F(j)) <= F(k).start
        /\ FrameEnd(F(K)) >= Len(input.bytes)
        /\ input.oversize = (Oversize(F(K)) /\ HeadEnd(F(K)) < Len(input.bytes))
    BY DEF WellFormed, FramesFill, F, K
  <1>4. \A k \in 1..K : F(k).start \in Nat /\ FrameEnd(F(k)) \in Nat /\ FrameEnd(F(k)) >= F(k).start
    <2> TAKE k \in 1..K
    <2> QED
      BY StreamFields, StreamLayout, SMTT(40)
  <1>5. \A k \in 1..K : StartOf(k) = F(k).start
    BY <1>2 DEF StartOf
  <1>6. StartOf(K + 1) = FrameEnd(F(K))
    BY <1>2 DEF StartOf
  <1>7. \A k \in 1..K : StartOf(k + 1) = FrameEnd(F(k))
    BY <1>2, <1>3, <1>5, <1>6
  <1>8. \A k \in 1..(K + 1) : StartOf(k) \in Nat
    <2> TAKE k \in 1..(K + 1)
    <2>1. K \in 1..K /\ (k \in 1..K \/ k = K + 1)
      BY <1>2, <1>3
    <2> QED
      BY <2>1, <1>4, <1>5, <1>6
  <1>9. \A j \in 1..K, k \in 1..(K + 1) : j < k => FrameEnd(F(j)) <= StartOf(k)
    <2> SUFFICES ASSUME NEW j \in 1..K, NEW k \in 1..(K + 1), j < k
                 PROVE  FrameEnd(F(j)) <= StartOf(k)
      OBVIOUS
    <2>1. CASE k <= K
      BY <2>1, <1>2, <1>3, <1>5
    <2>2. CASE k = K + 1 /\ j = K
      BY <2>2, <1>2, <1>4, <1>6
    <2>3. CASE k = K + 1 /\ j < K
      <3>1. FrameEnd(F(j)) <= F(K).start /\ F(K).start <= FrameEnd(F(K))
        BY <2>3, <1>2, <1>3, <1>4
      <3> QED
        BY <3>1, <2>3, <1>2, <1>3, <1>4, <1>6
    <2> QED
      BY <2>1, <2>2, <2>3, <1>2
  <1> QED
    BY <1>2, <1>3, <1>5, <1>7, <1>8, <1>9

(* What an undisturbed frame is, and the frame before it.                   *)
LEMMA StreamMessages ==
  ASSUME WellFormed(input), NEW k \in 1..K, ~F(k).disturbed
  PROVE  /\ InMessage(input, k) =>
              /\ k > 1 /\ ~F(k - 1).fin /\ ~F(k - 1).disturbed
              /\ F(k).opcode = F(k - 1).opcode
         /\ ~InMessage(input, k) =>
              /\ F(k).op # 0 /\ F(k).opcode = F(k).op
              /\ k > 1 => F(k - 1).fin
         /\ Complete(input, F(k)) => F(k).payload = Stored(k, F(k).len)
  <1>1. /\ Fragmented(input, k) /\ Gathered(input, k)
        /\ k > 1 => Fragmented(input, k - 1)
    BY DEF WellFormed, K
  <1>2. /\ F(k).op \in 0..15 /\ F(k).disturbed \in BOOLEAN
        /\ k > 1 => /\ F(k - 1).fin \in BOOLEAN /\ F(k - 1).disturbed \in BOOLEAN
                    /\ F(k - 1).open \in BOOLEAN /\ k - 1 \in 1..K
    BY StreamFields, StreamOrder
  <1>3. ASSUME InMessage(input, k)
        PROVE  /\ k > 1 /\ ~F(k - 1).fin /\ ~F(k - 1).disturbed
               /\ F(k).opcode = F(k - 1).opcode
    <2>1. k > 1 /\ F(k - 1).open /\ ~F(k - 1).disturbed /\ F(k).opcode = F(k - 1).opcode
      BY <1>1, <1>2, <1>3 DEF InMessage, Fragmented, Gathered, F
    <2>2. ~F(k - 1).fin
      BY <1>1, <1>2, <2>1 DEF Fragmented, F
    <2> QED
      BY <2>1, <2>2
  <1>4. ASSUME ~InMessage(input, k)
        PROVE  /\ F(k).op # 0 /\ F(k).opcode = F(k).op
               /\ k > 1 => F(k - 1).fin
    <2>1. F(k).op # 0 /\ F(k).opcode = F(k).op
      BY <1>1, <1>2, <1>4 DEF Fragmented, Gathered, Control, F
    <2>2. ASSUME k > 1 PROVE F(k - 1).fin
      BY <1>1, <1>2, <1>4, <2>2 DEF InMessage, Fragmented, F
    <2> QED
      BY <2>1, <2>2
  <1>5. Complete(input, F(k)) => F(k).payload = Stored(k, F(k).len)
    BY <1>1, Zenon DEF Gathered, Stored, Base, Content, F
  <1> QED
    BY <1>3, <1>4, <1>5

-----------------------------------------------------------------------------
(* What was read is where it is in the stream.                              *)
LEMMA Buffer ==
  ASSUME TypeOK, Rest
  PROVE  /\ Consumed \in Nat /\ Consumed + Len(data) <= Len(input.bytes)
         /\ data # <<>> => Head(data) = input.bytes[Consumed + 1]
                           /\ Consumed < Len(input.bytes)
         /\ data = <<>> /\ wire = <<>> => Consumed = Len(input.bytes)
  <1>1. input.bytes \in Seq(Byte)
    BY DEF TypeOK, StreamType
  <1>2. Len(input.bytes) \in Nat /\ Len(wire) \in Nat /\ Len(data) \in Nat
    BY <1>1 DEF TypeOK
  <1>3. data # <<>> => Len(data) > 0 /\ Head(data) = data[1]
    BY DEF TypeOK
  <1> QED
    BY <1>2, <1>3, SMTT(40) DEF Rest, Consumed

(* How far a step that looks at n bytes gets.                               *)
LEMMA Moves ==
  ASSUME TypeOK, NEW n \in Nat, Len(data') = Len(data) - n, wire' = wire, input' = input
  PROVE  /\ Consumed' = Consumed + n /\ Consumed \in Int
         /\ Consumed' + Len(data') = Consumed + Len(data)
  <1>1. input.bytes \in Seq(Byte)
    BY DEF TypeOK, StreamType
  <1>2. Len(input.bytes) \in Nat /\ Len(wire) \in Nat /\ Len(data) \in Nat
    BY <1>1 DEF TypeOK
  <1> QED
    BY <1>2 DEF Consumed

(* A step that looks at n bytes.                                            *)
LEMMA Looks ==
  ASSUME TypeOK, Rest, NEW n \in Nat, n <= Len(data),
         data' = SubSeq(data, n + 1, Len(data)), wire' = wire, input' = input
  PROVE  /\ Rest' /\ Consumed' = Consumed + n
         /\ \A i \in 1..n : data[i] = input.bytes[Consumed + i]
  <1>1. input.bytes \in Seq(Byte)
    BY DEF TypeOK, StreamType
  <1>2. /\ Len(input.bytes) \in Nat /\ Len(wire) \in Nat /\ Len(data) \in Nat
        /\ Len(data') = Len(data) - n
        /\ \A i \in 1..Len(data') : data'[i] = data[n + i]
    BY <1>1 DEF TypeOK
  <1>3. /\ Consumed' = Consumed + n /\ Consumed \in Int
        /\ Consumed' + Len(data') = Consumed + Len(data)
    BY <1>2, Moves, Zenon
  <1>4. Len(data') + Len(wire') <= Len(input'.bytes)
    BY <1>2 DEF Rest
  <1>5. ASSUME NEW i \in 1..Len(data') PROVE data'[i] = input'.bytes[Consumed' + i]
    <2>1. n + i \in 1..Len(data)
      BY <1>2
    <2>2. data[n + i] = input.bytes[Consumed + (n + i)]
      BY <2>1 DEF Rest
    <2>3. Consumed' + i = Consumed + (n + i)
      BY <1>3
    <2> QED
      BY <1>2, <2>2, <2>3
  <1>6. ASSUME NEW i \in 1..Len(wire') PROVE wire'[i] = input'.bytes[Consumed' + Len(data') + i]
    <2>1. wire[i] = input.bytes[Consumed + Len(data) + i]
      BY DEF Rest
    <2> QED
      BY <1>3, <2>1
  <1>7. \A i \in 1..n : data[i] = input.bytes[Consumed + i]
    BY <1>2 DEF Rest
  <1> QED
    BY <1>3, <1>4, <1>5, <1>6, <1>7 DEF Rest

(* A step that looks at one byte.                                           *)
LEMMA LooksAtOne ==
  ASSUME TypeOK, Rest, data # <<>>, data' = Tail(data), wire' = wire, input' = input
  PROVE  /\ Rest' /\ Consumed' = Consumed + 1
         /\ Consumed \in Nat /\ Consumed < Len(input.bytes)
         /\ Head(data) = input.bytes[Consumed + 1] /\ Head(data) \in Byte
  <1>1. data' = SubSeq(data, 1 + 1, Len(data)) /\ 1 <= Len(data) /\ Head(data) \in Byte
    BY DEF TypeOK
  <1>2. Rest' /\ Consumed' = Consumed + 1
    BY <1>1, Looks
  <1> QED
    BY <1>1, <1>2, Buffer

(* A call of parse().                                                       *)
LEMMA ReceiveRest ==
  ASSUME TypeOK, Rest, NEW n \in 1..Len(wire), Receive(n)
  PROVE  Rest' /\ Consumed' = Consumed
  <1>1. input.bytes \in Seq(Byte)
    BY DEF TypeOK, StreamType
  <1>2. /\ Len(input.bytes) \in Nat /\ Len(wire) \in Nat /\ n \in Nat
        /\ Len(data) = 0 /\ input' = input
        /\ Len(data') = n /\ Len(wire') = Len(wire) - n
        /\ \A i \in 1..n : data'[i] = wire[i]
        /\ \A i \in 1..(Len(wire) - n) : wire'[i] = wire[n + i]
    BY <1>1 DEF TypeOK, Receive
  <1>3. Consumed' = Consumed /\ Consumed \in Int
    BY <1>2 DEF Consumed
  <1>4. Len(data') + Len(wire') <= Len(input'.bytes)
    BY <1>2 DEF Rest
  <1>5. ASSUME NEW i \in 1..Len(data') PROVE data'[i] = input'.bytes[Consumed' + i]
    BY <1>2, <1>3 DEF Rest
  <1>6. ASSUME NEW i \in 1..Len(wire') PROVE wire'[i] = input'.bytes[Consumed' + Len(data') + i]
    <2>a. n + i \in 1..Len(wire)
      BY <1>2
    <2>1. wire[n + i] = input.bytes[Consumed + Len(data) + (n + i)]
      BY <2>a DEF Rest
    <2>2. Consumed' + Len(data') + i = Consumed + Len(data) + (n + i)
      BY <1>2, <1>3
    <2> QED
      BY <1>2, <2>1, <2>2
  <1> QED
    BY <1>3, <1>4, <1>5, <1>6 DEF Rest

-----------------------------------------------------------------------------
(* The payload of a frame are bytes.                                        *)
LEMMA ContentType ==
  ASSUME WellFormed(input), NEW k \in 1..K, NEW i \in 1..F(k).len,
         HeadEnd(F(k)) + i <= Len(input.bytes)
  PROVE  ContentAt(input, F(k), i) \in Byte
  <1>1. F(k).len \in Nat /\ F(k).mask \in BOOLEAN
    BY StreamFields
  <1>2. /\ input.bytes \in Seq(Byte) /\ HeadEnd(F(k)) \in Nat /\ KeyAt(F(k)) \in Nat
        /\ HeadEnd(F(k)) = KeyAt(F(k)) + (IF F(k).mask THEN 4 ELSE 0)
        /\ HeadEnd(F(k)) <= Len(input.bytes)
    BY StreamLayout
  <1>3. input.bytes[HeadEnd(F(k)) + i] \in Byte
    BY <1>1, <1>2
  <1>4. CASE F(k).mask
    <2>1. ((i - 1) % 4) \in 0..3
      BY <1>1
    <2>2. KeyAt(F(k)) + ((i - 1) % 4) + 1 \in 1..Len(input.bytes)
      BY <1>2, <1>4, <2>1
    <2>3. input.bytes[KeyAt(F(k)) + ((i - 1) % 4) + 1] \in Byte
      BY <1>2, <2>2
    <2> QED
      BY <1>3, <1>4, <2>3, XorAssumption DEF ContentAt
  <1> QED
    BY <1>3, <1>4 DEF ContentAt

(* Concatenation of byte sequences is associative.                          *)
LEMMA Associative == \A x, y, z \in Seq(Byte) : (x \o y) \o z = x \o (y \o z)
  BY ConcatAssociative

(* c is b and then u.                                                       *)
Splits(c, b, u) ==
  /\ Len(c) = Len(b) + Len(u)
  /\ \A i \in 1..Len(b) : b[i] = c[i]
  /\ \A i \in 1..Len(u) : u[i] = c[Len(b) + i]

(* Appending b and then u to a is appending c.                              *)
Joins(a, b, u, c) == (a \o b) \o u = a \o c

(* Appending to a sequence what comes next of another.                      *)
LEMMA Extends ==
  \A a, b, u, c \in Seq(Byte) : Splits(c, b, u) => Joins(a, b, u, c)
  <1> SUFFICES ASSUME NEW a \in Seq(Byte), NEW b \in Seq(Byte),
                      NEW u \in Seq(Byte), NEW c \in Seq(Byte), Splits(c, b, u)
               PROVE  (a \o b) \o u = a \o c
    BY Zenon DEF Joins
  <1>s. /\ Len(c) = Len(b) + Len(u)
        /\ \A i \in 1..Len(b) : b[i] = c[i]
        /\ \A i \in 1..Len(u) : u[i] = c[Len(b) + i]
    BY DEF Splits
  <1>1. b \o u = c
    <2>1. /\ b \o u \in Seq(Byte) /\ Len(b \o u) = Len(b) + Len(u)
          /\ \A i \in 1..(Len(b) + Len(u)) :
               (b \o u)[i] = IF i <= Len(b) THEN b[i] ELSE u[i - Len(b)]
      BY ConcatProperties
    <2>2. ASSUME NEW i \in 1..(Len(b) + Len(u)) PROVE (b \o u)[i] = c[i]
      <3>1. CASE i <= Len(b)
        BY <1>s, <2>1, <3>1
      <3>2. CASE i > Len(b)
        <4>1. i - Len(b) \in 1..Len(u) /\ Len(b) + (i - Len(b)) = i
          BY <3>2
        <4>2. u[i - Len(b)] = c[Len(b) + (i - Len(b))]
          BY <1>s, <4>1
        <4> QED
          BY <2>1, <3>2, <4>1, <4>2
      <3>3. i <= Len(b) \/ i > Len(b)
        OBVIOUS
      <3> QED
        BY <3>1, <3>2, <3>3, Zenon
    <2>3. Len(b \o u) = Len(c) /\ \A i \in 1..Len(b \o u) : (b \o u)[i] = c[i]
      BY <1>s, <2>1, <2>2
    <2> QED
      BY <2>1, <2>3, SeqEqual, Zenon
  <1>2. (a \o b) \o u = a \o (b \o u)
    BY Associative, Zenon
  <1> QED
    BY <1>1, <1>2, Zenon

(* What a message has before frame k.                                       *)
LEMMA StoredNone ==
  ASSUME WellFormed(input), NEW k \in 1..K
  PROVE  Base(k) \in Seq(Byte) /\ Stored(k, 0) = Base(k)
  <1>1. Base(k) \in Seq(Byte)
    <2>1. CASE InMessage(input, k)
      <3>1. k - 1 \in 1..K
        BY <2>1, StreamOrder DEF InMessage
      <3>2. F(k - 1).payload \in Seq(Byte)
        BY <3>1, StreamFields
      <3> QED
        BY <2>1, <3>2 DEF Base
    <2> QED
      BY <2>1, EmptyBytes DEF Base
  <1>2. ASSUME NEW e, e = [i \in 1..0 |-> ContentAt(input, F(k), i)] PROVE e = <<>>
    <2>1. e \in Seq(Byte) /\ Len(e) = 0
      BY <1>2
    <2> QED
      BY <2>1, EmptySeq
  <1>3. Stored(k, 0) = Base(k) \o <<>>
    BY <1>2, Zenon DEF Stored
  <1> QED
    BY <1>1, <1>3, ConcatEmptySeq

(* Storing the next bytes of a frame's payload.                             *)
LEMMA StoredMore ==
  ASSUME WellFormed(input), NEW k \in 1..K, NEW p \in Nat, NEW n \in Nat,
         p + n <= F(k).len, HeadEnd(F(k)) + p + n <= Len(input.bytes),
         NEW u \in Seq(Byte), Len(u) = n,
         \A i \in 1..n : u[i] = ContentAt(input, F(k), p + i)
  PROVE  Stored(k, p) \o u = Stored(k, p + n)
  <1> DEFINE c == [i \in 1..(p + n) |-> ContentAt(input, F(k), i)]
  <1>1. ASSUME NEW i \in 1..(p + n) PROVE ContentAt(input, F(k), i) \in Byte
    <2>1. /\ F(k).len \in Nat /\ HeadEnd(F(k)) \in Nat /\ Len(input.bytes) \in Nat
      BY StreamFields, StreamLayout
    <2>2. i \in 1..F(k).len /\ HeadEnd(F(k)) + i <= Len(input.bytes)
      BY <2>1
    <2> QED
      BY <2>2, ContentType
  <1> DEFINE b == [i \in 1..p |-> ContentAt(input, F(k), i)]
  <1>2. /\ c \in Seq(Byte) /\ Len(c) = p + n
        /\ \A i \in 1..n : u[i] = c[p + i]
    BY <1>1
  <1>3. b \in Seq(Byte) /\ Len(b) = p /\ \A i \in 1..p : b[i] = c[i]
    BY <1>1
  <1>4. Stored(k, p) = Base(k) \o b /\ Stored(k, p + n) = Base(k) \o c /\ Base(k) \in Seq(Byte)
    BY StoredNone, Zenon DEF Stored
  <1> HIDE DEF b, c
  <1>5. (Base(k) \o b) \o u = Base(k) \o c
    <2>1. \A i \in 1..Len(b) : b[i] = c[i]
      BY <1>3
    <2>2. \A i \in 1..Len(u) : u[i] = c[Len(b) + i]
      BY <1>2, <1>3
    <2>3. Len(c) = Len(b) + Len(u)
      BY <1>2, <1>3
    <2>5. Splits(c, b, u)
      BY <2>1, <2>2, <2>3, Zenon DEF Splits
    <2>4. b \in Seq(Byte) /\ c \in Seq(Byte) /\ u \in Seq(Byte) /\ Base(k) \in Seq(Byte)
      BY <1>2, <1>3, <1>4, Zenon
    <2>6. Joins(Base(k), b, u, c)
      BY <2>4, <2>5, Extends, Zenon
    <2> QED
      BY <2>6, Zenon DEF Joins
  <1> QED
    BY <1>4, <1>5, Zenon

(* What a payload step stores is what the bytes mean.                       *)
LEMMA UnmaskIs ==
  ASSUME TypeOK, ParserInv, WellFormed(input), Rest, status = "payload",
         NEW k \in 1..K, AtPayload(k), NEW n \in Nat, n <= Len(data), n <= byteNeed,
         NEW bytes \in Seq(Byte), Len(bytes) = n, \A i \in 1..n : bytes[i] = data[i]
  PROVE  /\ Unmask(bytes) \in Seq(Byte) /\ Len(Unmask(bytes)) = n
         /\ \A i \in 1..n : Unmask(bytes)[i] = ContentAt(input, F(k), (F(k).len - byteNeed) + i)
         /\ F(k).len - byteNeed \in Nat
         /\ HeadEnd(F(k)) + (F(k).len - byteNeed) + n <= Len(input.bytes)
  <1> DEFINE p == F(k).len - byteNeed
  <1>1. /\ F(k).len \in Nat /\ F(k).mask \in BOOLEAN /\ HeadEnd(F(k)) \in Nat
        /\ FrameEnd(F(k)) = HeadEnd(F(k)) + F(k).len
        /\ byteNeed \in Nat /\ byteNeed <= F(k).len
        /\ Len(data) \in Nat /\ Len(input.bytes) \in Nat
    BY StreamFields, StreamLayout, SMTT(40) DEF TypeOK, ParserInv, AtPayload
  <1>2. p \in Nat /\ Consumed = HeadEnd(F(k)) + p
    BY <1>1 DEF AtPayload
  <1>p. p = F(k).len - byteNeed
    OBVIOUS
  <1> HIDE DEF p
  <1>3. Consumed + Len(data) <= Len(input.bytes)
    BY Buffer
  <1>4. HeadEnd(F(k)) + p + n <= Len(input.bytes)
    BY <1>1, <1>2, <1>3
  <1>5. ASSUME NEW i \in 1..n PROVE bytes[i] = input.bytes[HeadEnd(F(k)) + (p + i)]
    <2>1. data[i] = input.bytes[Consumed + i]
      BY <1>1 DEF Rest
    <2>2. Consumed + i = HeadEnd(F(k)) + (p + i)
      BY <1>1, <1>2
    <2> QED
      BY <2>1, <2>2
  <1>6. Unmask(bytes) \in Seq(Byte)
    BY UnmaskType
  <1>7. CASE F(k).mask
    <2>1. Unmask(bytes) = [i \in 1..n |->
            Xor(bytes[i], frame.mask_key[((maskIndex + i - 1) % 4) + 1])]
      BY <1>7 DEF Unmask, AtPayload
    <2>2. Len(Unmask(bytes)) = n
      BY <2>1
    <2>3. maskIndex = p % 4
      BY <1>7, <1>p DEF ParserInv, MaskAligned, AtPayload
    <2>4. ASSUME NEW i \in 1..n
          PROVE  Unmask(bytes)[i] = ContentAt(input, F(k), p + i)
      <3>1. ((maskIndex + i - 1) % 4) = (((p + i) - 1) % 4) /\ (((p + i) - 1) % 4) \in 0..3
        <4>1. ASSUME NEW a \in Nat, NEW d \in Nat
              PROVE  ((a % 4) + d) % 4 = (a + d) % 4 /\ (a + d) % 4 \in 0..3
          OBVIOUS
        <4>2. i - 1 \in Nat /\ maskIndex + i - 1 = (p % 4) + (i - 1) /\ (p + i) - 1 = p + (i - 1)
          BY <1>2, <2>3
        <4> QED
          BY <1>2, <4>1, <4>2
      <3>2. frame.mask_key[(((p + i) - 1) % 4) + 1] = input.bytes[KeyAt(F(k)) + (((p + i) - 1) % 4) + 1]
        <4>1. ASSUME NEW j \in 0..3
              PROVE  frame.mask_key[j + 1] = input.bytes[KeyAt(F(k)) + j + 1]
          <5>1. j + 1 \in 1..4 /\ KeyAt(F(k)) + (j + 1) = KeyAt(F(k)) + j + 1
            BY StreamLayout
          <5> QED
            BY <1>7, <5>1 DEF AtPayload
        <4> QED
          BY <3>1, <4>1, Zenon
      <3>3. Unmask(bytes)[i] = Xor(bytes[i], frame.mask_key[((maskIndex + i - 1) % 4) + 1])
        BY <2>1
      <3>4. ContentAt(input, F(k), p + i) = Xor(input.bytes[HeadEnd(F(k)) + (p + i)],
              input.bytes[KeyAt(F(k)) + (((p + i) - 1) % 4) + 1])
        BY <1>7, Zenon DEF ContentAt
      <3> QED
        BY <1>5, <3>1, <3>2, <3>3, <3>4, Zenon
    <2> QED
      BY <1>2, <1>4, <1>6, <1>p, <2>2, <2>4, Zenon
  <1>8. CASE ~F(k).mask
    <2>1. Unmask(bytes) = bytes
      BY <1>8 DEF Unmask, AtPayload
    <2>2. ASSUME NEW i \in 1..n PROVE bytes[i] = ContentAt(input, F(k), p + i)
      BY <1>5, <1>8 DEF ContentAt
    <2> QED
      BY <1>2, <1>4, <1>6, <1>p, <2>1, <2>2, Zenon
  <1> QED
    BY <1>1, <1>7, <1>8

-----------------------------------------------------------------------------
(* The first byte of frame k.                                               *)
LEMMA FinAndOpcodePlace ==
  ASSUME TypeOK, WellFormed(input), Rest, NEW k \in 1..(K + 1), Place(k), FinAndOpcode
  PROVE  Rest' /\ Place(k)'
  <1>1. /\ status = "finAndOpcode" /\ status' = "payloadLenAndMask"
        /\ data # <<>> /\ data' = Tail(data) /\ wire' = wire /\ input' = input
        /\ isContinuation' = isContinuation
    BY DEF FinAndOpcode
  <1>2. Consumed = StartOf(k) /\ Between(k)
    BY <1>1 DEF Place
  <1>3. /\ Rest' /\ Consumed' = Consumed + 1
        /\ Consumed \in Nat /\ Consumed < Len(input.bytes)
        /\ Head(data) = input.bytes[Consumed + 1] /\ Head(data) \in Byte
    BY <1>1, LooksAtOne
  <1>4. k \in 1..K
    <2>1. /\ K \in Nat /\ FrameEnd(F(K)) >= Len(input.bytes)
          /\ StartOf(K + 1) = FrameEnd(F(K)) /\ FrameEnd(F(K)) \in Nat
      <3>1. K \in Nat /\ K \in 1..K /\ FrameEnd(F(K)) >= Len(input.bytes)
        BY StreamOrder
      <3> QED
        BY <3>1, StreamOrder, StreamLayout
    <2>2. Len(input.bytes) \in Nat
      BY <2>1, StreamLayout DEF TypeOK, StreamType
    <2>3. k # K + 1
      BY <1>2, <1>3, <2>1, <2>2
    <2> QED
      BY <2>1, <2>3
  <1>5. Consumed = F(k).start
    BY <1>2, <1>4, StreamOrder
  <1>6. /\ F(k).fin = GET_FIN(Head(data)) /\ F(k).op = GET_OPCODE(Head(data))
    <2>1. LaidOut(input, F(k))
      BY <1>4, StreamLayout
    <2> QED
      BY <1>3, <1>5, <2>1 DEF LaidOut, GET_FIN, GET_OPCODE
  <1> DEFINE fr == [frame EXCEPT !.fin = GET_FIN(Head(data))]
  <1>7. frame' = IF StartsMessage(Head(data))
                 THEN [fr EXCEPT !.opcode = GET_OPCODE(Head(data)),
                                 !.mask_key = <<>>, !.payload = <<>>]
                 ELSE fr
    BY DEF FinAndOpcode
  <1>8. /\ frame'.fin = GET_FIN(Head(data))
        /\ StartsMessage(Head(data)) => frame'.opcode = GET_OPCODE(Head(data)) /\ frame'.payload = <<>>
        /\ ~StartsMessage(Head(data)) => frame'.opcode = frame.opcode /\ frame'.payload = frame.payload
    BY <1>7 DEF TypeOK, WsFrame
  <1>9. ASSUME ~F(k).disturbed
        PROVE  frame'.opcode = F(k).opcode /\ frame'.payload = Stored(k, 0)
    <2>1. /\ InMessage(input, k) =>
               /\ k > 1 /\ ~F(k - 1).fin /\ ~F(k - 1).disturbed
               /\ F(k).opcode = F(k - 1).opcode
          /\ ~InMessage(input, k) =>
               /\ F(k).op # 0 /\ F(k).opcode = F(k).op
               /\ k > 1 => F(k - 1).fin
      BY <1>4, <1>9, StreamMessages
    <2>2. Stored(k, 0) = Base(k)
      BY <1>4, StoredNone
    <2>3. CASE InMessage(input, k)
      <3>1. isContinuation
        BY <1>2, <2>1, <2>3 DEF Between
      <3>2. ~StartsMessage(Head(data))
        BY <3>1 DEF StartsMessage
      <3>3. frame.opcode = F(k - 1).opcode /\ frame.payload = F(k - 1).payload
        BY <1>2, <2>1, <2>3, <3>1 DEF Between
      <3> QED
        BY <1>8, <2>1, <2>2, <2>3, <3>2, <3>3 DEF Base
    <2>4. CASE ~InMessage(input, k)
      <3>1. ~isContinuation
        BY <1>2, <2>1, <2>4 DEF Between
      <3>2. StartsMessage(Head(data))
        BY <1>6, <2>1, <2>4, <3>1 DEF StartsMessage
      <3> QED
        BY <1>6, <1>8, <2>1, <2>2, <2>4, <3>2 DEF Base
    <2> QED
      BY <2>3, <2>4
  <1>10. F(k)' = F(k) /\ K' = K /\ Stored(k, 0)' = Stored(k, 0)
    BY <1>1 DEF F, K, Stored, Base
  <1>11. Gathering(k, 0)'
    BY <1>9, <1>10, Zenon DEF Gathering
  <1>12. Place(k)'
    BY <1>1, <1>3, <1>4, <1>5, <1>6, <1>8, <1>10, <1>11 DEF Place
  <1> QED
    BY <1>3, <1>12

(* The key, or the payload, of frame k comes next.                          *)
LEMMA SwitchPlace ==
  ASSUME WellFormed(input), NEW k \in 1..K, input' = input,
         Consumed' = KeyAt(F(k)), NEW fr \in WsFrame, SwitchToMask(fr),
         fr.fin = F(k).fin, fr.mask = F(k).mask, fr.payload_len = F(k).len,
         ~F(k).disturbed => fr.opcode = F(k).opcode /\ fr.payload = Stored(k, 0)
  PROVE  Place(k)'
  <1>1. F(k)' = F(k) /\ K' = K /\ Stored(k, 0)' = Stored(k, 0)
    BY DEF F, K, Stored, Base
  <1>2. /\ F(k).len \in Nat /\ F(k).mask \in BOOLEAN /\ KeyAt(F(k)) \in Nat
        /\ HeadEnd(F(k)) = KeyAt(F(k)) + (IF F(k).mask THEN 4 ELSE 0)
        /\ FrameEnd(F(k)) = HeadEnd(F(k)) + F(k).len
    BY StreamFields, StreamLayout
  <1>3. CASE fr.mask
    <2>1. /\ status' = "maskKey" /\ byteNeed' = 4
          /\ frame' = [fr EXCEPT !.mask_key = <<>>]
      BY <1>3 DEF SwitchToMask
    <2>2. /\ frame'.fin = fr.fin /\ frame'.mask = fr.mask /\ frame'.payload_len = fr.payload_len
          /\ frame'.opcode = fr.opcode /\ frame'.payload = fr.payload
      BY <2>1 DEF WsFrame
    <2>3. Gathering(k, 0)'
      BY <1>1, <2>2, Zenon DEF Gathering
    <2>4. AtKey(k)'
      BY <1>1, <1>2, <1>3, <2>1, <2>2, <2>3 DEF AtKey
    <2> QED
      BY <1>1, <2>1, <2>2, <2>4 DEF Place
  <1>4. CASE ~fr.mask
    <2>1. status' = "payload" /\ byteNeed' = fr.payload_len /\ frame' = fr
      BY <1>4 DEF SwitchToMask
    <2>2. F(k).len - byteNeed' = 0
      BY <1>2, <2>1
    <2>3. Gathering(k, 0)'
      BY <1>1, <2>1, Zenon DEF Gathering
    <2>4. Gathering(k, F(k).len - byteNeed)'
      BY <1>1, <2>2, <2>3
    <2>5. Consumed' = FrameEnd(F(k)) - byteNeed'
      BY <1>2, <1>4, <2>1
    <2>6. AtPayload(k)'
      BY <1>1, <1>4, <2>1, <2>4, <2>5 DEF AtPayload
    <2> QED
      BY <1>1, <2>1, <2>6 DEF Place
  <1> QED
    BY <1>3, <1>4

(* The second byte of frame k.                                              *)
LEMMA PayloadLenAndMaskPlace ==
  ASSUME TypeOK, WellFormed(input), Rest, NEW k \in 1..(K + 1), Place(k), PayloadLenAndMask
  PROVE  Rest' /\ Place(k)'
  <1> DEFINE len == GET_PAYLOAD_LEN(Head(data))
             fr  == [frame EXCEPT !.mask = GET_MASK(Head(data)),
                       !.payload_len = IF len <= 125 THEN len ELSE 0]
  <1>1. /\ status = "payloadLenAndMask"
        /\ data # <<>> /\ data' = Tail(data) /\ wire' = wire /\ input' = input
    BY DEF PayloadLenAndMask
  <1>2. k \in 1..K /\ frame.fin = F(k).fin /\ Consumed = F(k).start + 1 /\ Gathering(k, 0)
    BY <1>1 DEF Place
  <1>3. /\ Rest' /\ Consumed' = Consumed + 1
        /\ Head(data) = input.bytes[Consumed + 1] /\ Head(data) \in Byte
    BY <1>1, LooksAtOne
  <1>4. /\ F(k).start \in Nat /\ F(k).mask \in BOOLEAN /\ F(k).sizes \in Seq(Nat)
        /\ KeyAt(F(k)) = F(k).start + 2 + ExtLen(F(k))
        /\ ExtLen(F(k)) \in {0, 2, 8}
        /\ LaidOut(input, F(k))
    BY <1>2, StreamFields, StreamLayout
  <1>5. Consumed + 1 = F(k).start + 2 /\ Consumed' = F(k).start + 2
    BY <1>2, <1>3, <1>4
  <1>6. /\ F(k).mask = GET_MASK(Head(data))
        /\ len <= 125 => ExtLen(F(k)) = 0 /\ F(k).sizes[1] = len /\ F(k).len = len
        /\ ~(len <= 125) => F(k).sizes[1] = 0 /\ ExtLen(F(k)) = IF len = 126 THEN 2 ELSE 8
    <2>1. Head(data) = input.bytes[F(k).start + 2]
      BY <1>3, <1>5
    <2>2. /\ F(k).mask = (Head(data) >= 128)
          /\ IF len <= 125 THEN Len(F(k).sizes) = 1 /\ F(k).sizes[1] = len
             ELSE Len(F(k).sizes) = (IF len = 126 THEN 3 ELSE 9) /\ F(k).sizes[1] = 0
          /\ F(k).len = F(k).sizes[Len(F(k).sizes)]
      BY <1>4, <2>1, SMTT(40) DEF LaidOut, GET_PAYLOAD_LEN
    <2> HIDE DEF len
    <2> QED
      BY <2>2 DEF GET_MASK, ExtLen
  <1>7. len \in 0..127 /\ GET_MASK(Head(data)) \in BOOLEAN
    BY <1>3, ByteFields
  <1>8. (IF len <= 125 THEN len ELSE 0) \in Nat
    BY <1>7
  <1>9. fr \in WsFrame
    BY <1>7, <1>8, FrameUpdate DEF TypeOK
  <1>10. /\ fr.fin = frame.fin /\ fr.opcode = frame.opcode /\ fr.payload = frame.payload
         /\ fr.mask = GET_MASK(Head(data))
         /\ fr.payload_len = IF len <= 125 THEN len ELSE 0
    BY DEF TypeOK, WsFrame
  <1>11. /\ len <= 125 => SwitchToMask(fr)
         /\ ~(len <= 125) => /\ frame' = fr /\ status' = "payloadLen"
                            /\ byteNeed' = IF len = 126 THEN 2 ELSE 8
    BY DEF PayloadLenAndMask
  <1> HIDE DEF fr, len
  <1>12. ~F(k).disturbed => fr.opcode = F(k).opcode /\ fr.payload = Stored(k, 0)
    BY <1>2, <1>10 DEF Gathering
  <1>13. CASE len <= 125
    <2>1. SwitchToMask(fr)
      BY <1>11, <1>13
    <2>2. Consumed' = KeyAt(F(k))
      BY <1>4, <1>5, <1>6, <1>13
    <2>3. fr.fin = F(k).fin /\ fr.mask = F(k).mask /\ fr.payload_len = F(k).len
      BY <1>2, <1>6, <1>10, <1>13
    <2>4. Place(k)'
      BY <1>1, <1>2, <1>9, <1>12, <2>1, <2>2, <2>3, SwitchPlace
    <2> QED
      BY <1>3, <2>4
  <1>14. CASE ~(len <= 125)
    <2>1. frame' = fr /\ status' = "payloadLen" /\ byteNeed' = ExtLen(F(k))
      BY <1>6, <1>11, <1>14
    <2>2. F(k)' = F(k) /\ K' = K /\ Stored(k, 0)' = Stored(k, 0)
      BY <1>1 DEF F, K, Stored, Base
    <2>3. Gathering(k, 0)'
      BY <1>12, <2>1, <2>2, Zenon DEF Gathering
    <2>4. ExtLen(F(k)) - byteNeed' + 1 = 1 /\ F(k).start + 2 + ExtLen(F(k)) - byteNeed' = F(k).start + 2
      BY <1>4, <2>1
    <2>5. fr.payload_len = F(k).sizes[ExtLen(F(k)) - byteNeed' + 1]
      BY <1>6, <1>10, <1>14, <2>4
    <2>6. byteNeed' <= ExtLen(F(k)) /\ Consumed' = F(k).start + 2 + ExtLen(F(k)) - byteNeed'
      BY <1>4, <1>5, <2>1, <2>4
    <2>7. AtLength(k)'
      BY <1>6, <1>10, <2>1, <2>2, <2>3, <2>5, <2>6, Zenon DEF AtLength
    <2>8. Place(k)'
      BY <1>2, <1>10, <2>1, <2>2, <2>7 DEF Place
    <2> QED
      BY <1>3, <2>8
  <1> QED
    BY <1>13, <1>14

(* A byte of the extended length of frame k.                                *)
LEMMA PayloadLenPlace ==
  ASSUME TypeOK, ParserInv, WellFormed(input), Rest, NEW k \in 1..(K + 1), Place(k), PayloadLen
  PROVE  Rest' /\ Place(k)'
  <1> DEFINE fr == [frame EXCEPT !.payload_len = 256 * @ + Head(data)]
             j  == ExtLen(F(k)) - byteNeed + 1
  <1>1. /\ status = "payloadLen"
        /\ data # <<>> /\ data' = Tail(data) /\ wire' = wire /\ input' = input
    BY DEF PayloadLen
  <1>2. k \in 1..K /\ frame.fin = F(k).fin /\ AtLength(k)
    BY <1>1 DEF Place
  <1>3. /\ Rest' /\ Consumed' = Consumed + 1
        /\ Head(data) = input.bytes[Consumed + 1] /\ Head(data) \in Byte
    BY <1>1, LooksAtOne
  <1>4. /\ F(k).start \in Nat /\ F(k).mask \in BOOLEAN /\ F(k).sizes \in Seq(Nat)
        /\ KeyAt(F(k)) = F(k).start + 2 + ExtLen(F(k))
        /\ ExtLen(F(k)) \in {0, 2, 8}
        /\ LaidOut(input, F(k))
    BY <1>2, StreamFields, StreamLayout
  <1>5. byteNeed \in 1..8 /\ byteNeed <= ExtLen(F(k))
    BY <1>1, <1>2 DEF ParserInv, AtLength
  <1>6. j \in 1..ExtLen(F(k)) /\ Consumed + 1 = F(k).start + 2 + j /\ Consumed' = F(k).start + 2 + j
    <2>1. Consumed = F(k).start + 2 + ExtLen(F(k)) - byteNeed
      BY <1>2 DEF AtLength
    <2>2. ExtLen(F(k)) \in Nat /\ byteNeed \in Nat /\ F(k).start \in Nat /\ byteNeed >= 1
      BY <1>4, <1>5
    <2>3. j \in 1..ExtLen(F(k))
      BY <1>5, <2>2
    <2>4. Consumed + 1 = F(k).start + 2 + j
      BY <2>1, <2>2
    <2> QED
      BY <1>3, <2>3, <2>4, Zenon
  <1>7. frame.payload_len = F(k).sizes[j] /\ frame.mask = F(k).mask
    BY <1>2 DEF AtLength
  <1>8. fr \in WsFrame
    <2>1. frame.payload_len \in Nat
      BY FrameFields DEF TypeOK
    <2>2. ASSUME NEW a \in Nat, NEW b \in Byte PROVE 256 * a + b \in Nat
      BY DEF Byte
    <2>3. 256 * frame.payload_len + Head(data) \in Nat
      BY <1>3, <2>1, <2>2
    <2> QED
      BY <2>3, FrameUpdate, ZenonT(40) DEF TypeOK
  <1>9. /\ fr.fin = frame.fin /\ fr.opcode = frame.opcode /\ fr.payload = frame.payload
        /\ fr.mask = frame.mask /\ fr.payload_len = 256 * frame.payload_len + Head(data)
    BY DEF TypeOK, WsFrame
  <1>10. /\ byteNeed = 1 => SwitchToMask(fr)
         /\ byteNeed # 1 => frame' = fr /\ byteNeed' = byteNeed - 1 /\ status' = status
    BY DEF PayloadLen
  <1>j. j = ExtLen(F(k)) - byteNeed + 1
    OBVIOUS
  <1> HIDE DEF fr, j
  <1>11. fr.payload_len = F(k).sizes[j + 1]
    <2>1. F(k).sizes[j + 1] = 256 * F(k).sizes[j] + input.bytes[F(k).start + 2 + j]
      BY <1>4, <1>6, Zenon DEF LaidOut
    <2> QED
      BY <1>3, <1>6, <1>7, <1>9, <2>1, Zenon
  <1>12. ~F(k).disturbed => fr.opcode = F(k).opcode /\ fr.payload = Stored(k, 0)
    BY <1>2, <1>9 DEF AtLength, Gathering
  <1>13. CASE byteNeed = 1
    <2>1. j = ExtLen(F(k))
      BY <1>4, <1>13, <1>j
    <2>2. Consumed' = KeyAt(F(k))
      BY <1>4, <1>6, <2>1
    <2>3. fr.payload_len = F(k).len
      <3>1. Len(F(k).sizes) = j + 1
        BY <1>4, <2>1 DEF ExtLen
      <3> QED
        BY <1>4, <1>11, <3>1 DEF LaidOut
    <2>4. Place(k)'
      BY <1>1, <1>2, <1>7, <1>8, <1>9, <1>10, <1>12, <1>13, <2>2, <2>3, SwitchPlace
    <2> QED
      BY <1>3, <2>4
  <1>14. CASE byteNeed # 1
    <2>1. frame' = fr /\ byteNeed' = byteNeed - 1 /\ status' = "payloadLen"
      BY <1>1, <1>10, <1>14
    <2>2. F(k)' = F(k) /\ K' = K /\ Stored(k, 0)' = Stored(k, 0)
      BY <1>1 DEF F, K, Stored, Base
    <2>3. Gathering(k, 0)'
      BY <1>12, <2>1, <2>2, Zenon DEF Gathering
    <2>4. /\ ExtLen(F(k)) - byteNeed' + 1 = j + 1 /\ byteNeed' <= ExtLen(F(k))
          /\ Consumed' = F(k).start + 2 + ExtLen(F(k)) - byteNeed'
      BY <1>4, <1>5, <1>6, <1>j, <2>1
    <2>5. fr.payload_len = F(k).sizes[ExtLen(F(k)) - byteNeed' + 1]
      BY <1>11, <2>4
    <2>7. AtLength(k)'
      BY <1>7, <1>9, <2>1, <2>2, <2>3, <2>4, <2>5, Zenon DEF AtLength
    <2>8. Place(k)'
      BY <1>2, <1>9, <2>1, <2>2, <2>7 DEF Place
    <2> QED
      BY <1>3, <2>8
  <1> QED
    BY <1>13, <1>14

(* A byte of the key of frame k.                                            *)
LEMMA MaskKeyPlace ==
  ASSUME TypeOK, ParserInv, WellFormed(input), Rest, NEW k \in 1..(K + 1), Place(k), MaskKey
  PROVE  Rest' /\ Place(k)'
  <1> DEFINE key == Append(frame.mask_key, Head(data))
  <1>1. /\ status = "maskKey"
        /\ data # <<>> /\ data' = Tail(data) /\ wire' = wire /\ input' = input
    BY DEF MaskKey
  <1>2. k \in 1..K /\ frame.fin = F(k).fin /\ AtKey(k)
    BY <1>1 DEF Place
  <1>3. /\ Rest' /\ Consumed' = Consumed + 1
        /\ Head(data) = input.bytes[Consumed + 1] /\ Head(data) \in Byte
    BY <1>1, LooksAtOne
  <1>4. /\ F(k).len \in Nat /\ F(k).mask /\ KeyAt(F(k)) \in Nat
        /\ HeadEnd(F(k)) = KeyAt(F(k)) + 4
        /\ FrameEnd(F(k)) = HeadEnd(F(k)) + F(k).len
    BY <1>2, StreamFields, StreamLayout DEF AtKey
  <1>5. /\ byteNeed \in 1..4 /\ Len(frame.mask_key) = 4 - byteNeed /\ frame.mask
        /\ frame.mask_key \in Seq(Byte)
    BY <1>1, FrameFields DEF ParserInv, TypeOK
  <1>6. /\ Consumed = KeyAt(F(k)) + 4 - byteNeed /\ frame.payload_len = F(k).len
        /\ \A i \in 1..(4 - byteNeed) : frame.mask_key[i] = input.bytes[KeyAt(F(k)) + i]
        /\ Gathering(k, 0)
    BY <1>2 DEF AtKey
  <1>7. ASSUME NEW i \in 1..(5 - byteNeed) PROVE key[i] = input.bytes[KeyAt(F(k)) + i]
    <2>1. CASE i \in 1..(4 - byteNeed)
      <3>1. key[i] = frame.mask_key[i]
        BY <1>3, <1>5, <2>1
      <3> QED
        BY <1>6, <2>1, <3>1, Zenon
    <2>2. CASE i = 5 - byteNeed
      <3>1. key[i] = Head(data)
        BY <1>3, <1>5, <2>2
      <3>2. Consumed + 1 = KeyAt(F(k)) + i
        BY <1>4, <1>5, <1>6, <2>2
      <3> QED
        BY <1>3, <3>1, <3>2, Zenon
    <2>3. i \in 1..(4 - byteNeed) \/ i = 5 - byteNeed
      BY <1>5
    <2> QED
      BY <2>1, <2>2, <2>3, Zenon
  <1> HIDE DEF key
  <1>8. /\ frame'.fin = frame.fin /\ frame'.opcode = frame.opcode /\ frame'.payload = frame.payload
        /\ frame'.mask = frame.mask /\ frame'.payload_len = frame.payload_len
        /\ frame'.mask_key = key
    BY DEF MaskKey, TypeOK, WsFrame, key
  <1>9. F(k)' = F(k) /\ K' = K /\ Stored(k, 0)' = Stored(k, 0)
    BY <1>1 DEF F, K, Stored, Base
  <1>10. Gathering(k, 0)'
    BY <1>6, <1>8, <1>9, Zenon DEF Gathering
  <1>11. CASE byteNeed = 1
    <2>1. status' = "payload" /\ byteNeed' = F(k).len
      BY <1>6, <1>11 DEF MaskKey
    <2>2. F(k).len - byteNeed' = 0 /\ Consumed' = FrameEnd(F(k)) - byteNeed'
      BY <1>3, <1>4, <1>6, <1>11, <2>1
    <2>3. Gathering(k, F(k).len - byteNeed)'
      BY <1>9, <1>10, <2>2
    <2>4. \A i \in 1..4 : frame'.mask_key[i] = input.bytes[KeyAt(F(k)) + i]
      BY <1>7, <1>8, <1>11
    <2>5. frame'.mask = F(k).mask /\ frame'.payload_len = F(k).len
      BY <1>4, <1>5, <1>6, <1>8
    <2>6. AtPayload(k)'
      BY <1>1, <1>9, <2>1, <2>2, <2>3, <2>4, <2>5 DEF AtPayload
    <2>7. Place(k)'
      BY <1>2, <1>8, <1>9, <2>1, <2>6 DEF Place
    <2> QED
      BY <1>3, <2>7
  <1>12. CASE byteNeed # 1
    <2>1. status' = "maskKey" /\ byteNeed' = byteNeed - 1
      BY <1>1, <1>12 DEF MaskKey
    <2>2. 4 - byteNeed' = 5 - byteNeed /\ Consumed' = KeyAt(F(k)) + 4 - byteNeed'
      BY <1>3, <1>4, <1>5, <1>6, <2>1
    <2>3. \A i \in 1..(4 - byteNeed') : frame'.mask_key[i] = input.bytes[KeyAt(F(k)) + i]
      BY <1>7, <1>8, <2>2
    <2>4. AtKey(k)'
      BY <1>1, <1>4, <1>6, <1>8, <1>9, <1>10, <2>2, <2>3 DEF AtKey
    <2>5. Place(k)'
      BY <1>2, <1>8, <1>9, <2>1, <2>4 DEF Place
    <2> QED
      BY <1>3, <2>5
  <1> QED
    BY <1>11, <1>12

(* The frames that end the messages.                                        *)
LEMMA StreamEnds ==
  ASSUME WellFormed(input)
  PROVE  /\ Len(input.msgs) \in Nat /\ input.oversize \in BOOLEAN
         /\ \A i \in 1..Len(input.msgs) : input.last[i] \in 1..K
         /\ \A i, j \in 1..Len(input.msgs) : i < j => input.last[i] < input.last[j]
         /\ \A k \in 1..K : (\E i \in 1..Len(input.msgs) : input.last[i] = k)
                              <=> (F(k).fin /\ Complete(input, F(k)) /\ ~Oversize(F(k)))
         /\ \A i \in 1..Len(input.msgs) :
              /\ input.ends[i] = FrameEnd(F(input.last[i]))
              /\ input.empty[i] = (F(input.last[i]).len = 0)
              /\ input.disturbed[i] = F(input.last[i]).disturbed
              /\ ~F(input.last[i]).disturbed =>
                   input.msgs[i] = [opcode  |-> F(input.last[i]).opcode,
                                    mask    |-> F(input.last[i]).mask,
                                    payload |-> F(input.last[i]).payload]
  <1>1. input \in StreamType
    BY Zenon DEF WellFormed
  <1>2. input.msgs \in Seq(Message) /\ input.oversize \in BOOLEAN
    BY <1>1 DEF StreamType
  <1>3. MessagesEnd(input)
    BY Zenon DEF WellFormed
  <1>4. Len(input.msgs) \in Nat
    BY <1>2
  <1>5. /\ \A i \in 1..Len(input.msgs) : input.last[i] \in 1..K
        /\ \A i, j \in 1..Len(input.msgs) : i < j => input.last[i] < input.last[j]
    BY <1>3, Zenon DEF MessagesEnd, K
  <1>6. \A k \in 1..K : (\E i \in 1..Len(input.msgs) : input.last[i] = k)
                          <=> (F(k).fin /\ Complete(input, F(k)) /\ ~Oversize(F(k)))
    BY <1>3, Zenon DEF MessagesEnd, F, K
  <1>7. ASSUME NEW i \in 1..Len(input.msgs)
        PROVE  /\ input.ends[i] = FrameEnd(F(input.last[i]))
               /\ input.empty[i] = (F(input.last[i]).len = 0)
               /\ input.disturbed[i] = F(input.last[i]).disturbed
               /\ ~F(input.last[i]).disturbed =>
                    input.msgs[i] = [opcode  |-> F(input.last[i]).opcode,
                                     mask    |-> F(input.last[i]).mask,
                                     payload |-> F(input.last[i]).payload]
    BY <1>3, Zenon DEF MessagesEnd, F
  <1> QED
    BY <1>2, <1>4, <1>5, <1>6, <1>7, Zenon

(* In frame k the bytes before it were looked at.                           *)
LEMMA Reached ==
  ASSUME TypeOK, ParserInv, WellFormed(input), NEW k \in 1..(K + 1), Place(k)
  PROVE  StartOf(k) <= Consumed
  <1>1. CASE status = "finAndOpcode"
    BY <1>1, StreamOrder DEF Place
  <1>2. CASE status # "finAndOpcode"
    <2>1. k \in 1..K
      BY <1>2 DEF Place
    <2>2. /\ F(k).start \in Nat /\ F(k).len \in Nat
          /\ ExtLen(F(k)) \in Nat
          /\ KeyAt(F(k)) = F(k).start + 2 + ExtLen(F(k)) /\ KeyAt(F(k)) \in Nat
          /\ HeadEnd(F(k)) >= KeyAt(F(k)) /\ HeadEnd(F(k)) \in Nat
          /\ FrameEnd(F(k)) = HeadEnd(F(k)) + F(k).len
          /\ StartOf(k) = F(k).start
      <3>1. F(k).start \in Nat /\ F(k).len \in Nat /\ StartOf(k) = F(k).start
        BY <2>1, StreamFields, StreamOrder
      <3> QED
        BY <2>1, <3>1, StreamLayout
    <2>3. byteNeed \in Nat
      BY DEF TypeOK
    <2>4. CASE status = "payloadLenAndMask"
      BY <2>2, <2>4 DEF Place
    <2>5. CASE status = "payloadLen"
      BY <2>2, <2>3, <2>5 DEF Place, AtLength
    <2>6. CASE status = "maskKey"
      BY <2>2, <2>3, <2>6 DEF Place, AtKey, ParserInv
    <2>7. CASE status = "payload"
      BY <2>2, <2>3, <2>7 DEF Place, AtPayload, ParserInv
    <2> QED
      BY <1>2, <2>4, <2>5, <2>6, <2>7 DEF TypeOK, Status
  <1> QED
    BY <1>1, <1>2

(* No message was delivered before its last byte was looked at.             *)
LEMMA EndsBefore ==
  ASSUME TypeOK, ParserInv, WellFormed(input), Rest, NEW k \in 1..(K + 1), Past(k), Place(k),
         NEW i \in 1..Len(delivered)
  PROVE  input.ends[i] <= Consumed
  <1>1. i \in 1..Len(input.msgs) /\ input.last[i] < k
    <2>1. Len(delivered) \in Nat /\ Len(input.msgs) \in Nat
      BY StreamEnds DEF TypeOK
    <2>2. i \in 1..Len(input.msgs) /\ i <= Len(delivered)
      BY <2>1 DEF Past
    <2> QED
      BY <2>2 DEF Past
  <1>2. input.last[i] \in 1..K /\ input.ends[i] = FrameEnd(F(input.last[i]))
    BY <1>1, StreamEnds
  <1>3. FrameEnd(F(input.last[i])) <= StartOf(k) /\ StartOf(k) \in Nat
    BY <1>1, <1>2, StreamOrder
  <1>4. FrameEnd(F(input.last[i])) \in Nat
    BY <1>2, StreamLayout
  <1>5. StartOf(k) <= Consumed /\ Consumed \in Nat
    BY Reached, Buffer
  <1> QED
    BY <1>2, <1>3, <1>4, <1>5

(* Assigning to the payload of a WsFrame changes no other field.            *)
LEMMA PayloadField ==
  ASSUME NEW fr \in WsFrame, NEW pl
  PROVE  /\ [fr EXCEPT !.payload = pl].fin = fr.fin
         /\ [fr EXCEPT !.payload = pl].opcode = fr.opcode
         /\ [fr EXCEPT !.payload = pl].mask = fr.mask
         /\ [fr EXCEPT !.payload = pl].payload_len = fr.payload_len
         /\ [fr EXCEPT !.payload = pl].mask_key = fr.mask_key
         /\ [fr EXCEPT !.payload = pl].payload = pl
  BY DEF WsFrame

(* The chunk ends inside the payload of frame k.                            *)
LEMMA PayloadPartPlace ==
  ASSUME TypeOK, ParserInv, WellFormed(input), Rest, NEW k \in 1..(K + 1), Place(k), PayloadPart
  PROVE  Rest' /\ Place(k)'
  <1>a. status = "payload" /\ data \in Seq(Byte) /\ byteNeed \in Nat
    BY DEF PayloadPart, TypeOK
  <1>2. k \in 1..K /\ frame.fin = F(k).fin /\ AtPayload(k)
    BY <1>a DEF Place
  <1>6. /\ F(k).len \in Nat /\ FrameEnd(F(k)) \in Nat
    BY <1>2, StreamFields, StreamLayout
  <1>b. PICK n \in Nat : n = Len(data)
    BY <1>a
  <1>p. PICK p \in Nat : p = F(k).len - byteNeed
    <2>1. F(k).len - byteNeed \in Nat
      BY <1>2, <1>6, <1>a DEF AtPayload, ParserInv
    <2> QED
      BY <2>1
  <1>1. /\ status = "payload" /\ status' = "payload" /\ data' = <<>>
        /\ wire' = wire /\ input' = input /\ byteNeed' = byteNeed - n
        /\ frame' = [frame EXCEPT !.payload = @ \o Unmask(data)]
    BY <1>b DEF PayloadPart
  <1>3. n < byteNeed /\ n <= Len(data)
    BY <1>a, <1>b DEF PayloadPart, HoldsRest
  <1>4. Rest' /\ Consumed' = Consumed + n
    <2>1. data' = SubSeq(data, n + 1, Len(data))
      BY <1>1, <1>a, <1>b
    <2> QED
      BY <1>1, <1>3, <2>1, Looks
  <1>5. /\ Unmask(data) \in Seq(Byte) /\ Len(Unmask(data)) = n
        /\ \A i \in 1..n : Unmask(data)[i] = ContentAt(input, F(k), p + i)
        /\ HeadEnd(F(k)) + p + n <= Len(input.bytes)
    BY <1>1, <1>2, <1>3, <1>a, <1>b, <1>p, UnmaskIs
  <1>7. /\ p + n <= F(k).len /\ F(k).len - byteNeed' = p + n
        /\ byteNeed' # 0 /\ Consumed' = FrameEnd(F(k)) - byteNeed'
    BY <1>1, <1>2, <1>3, <1>4, <1>6, <1>a, <1>p, SMTT(40) DEF AtPayload
  <1>8. Stored(k, p) \o Unmask(data) = Stored(k, p + n)
    BY <1>2, <1>3, <1>5, <1>7, StoredMore
  <1>9. /\ frame'.fin = frame.fin /\ frame'.opcode = frame.opcode
        /\ frame'.mask = frame.mask /\ frame'.payload_len = frame.payload_len
        /\ frame'.mask_key = frame.mask_key /\ frame'.payload = frame.payload \o Unmask(data)
    BY <1>1, PayloadField DEF TypeOK
  <1>10. F(k)' = F(k) /\ K' = K /\ Stored(k, p + n)' = Stored(k, p + n)
    BY <1>1 DEF F, K, Stored, Base
  <1>11. ASSUME ~F(k).disturbed
         PROVE  frame'.opcode = F(k).opcode /\ frame'.payload = Stored(k, p + n)
    <2>1. frame.opcode = F(k).opcode /\ frame.payload = Stored(k, p)
      BY <1>2, <1>11, <1>p, Zenon DEF AtPayload, Gathering
    <2> QED
      BY <1>8, <1>9, <2>1, Zenon
  <1>12. Gathering(k, p + n)'
    BY <1>10, <1>11, Zenon DEF Gathering
  <1>13. Gathering(k, F(k).len - byteNeed)'
    BY <1>7, <1>10, <1>12
  <1>14. AtPayload(k)'
    BY <1>1, <1>2, <1>7, <1>9, <1>10, <1>13 DEF AtPayload
  <1>15. Place(k)'
    BY <1>1, <1>2, <1>9, <1>10, <1>14 DEF Place
  <1> QED
    BY <1>4, <1>15

(* The message that frame k ends is the next one to be delivered.           *)
LEMMA NextMessage ==
  ASSUME TypeOK, WellFormed(input), NEW k \in 1..K, Past(k),
         NEW i \in 1..Len(input.msgs), input.last[i] = k
  PROVE  i = Len(delivered) + 1
  <1>1. Len(delivered) \in Nat /\ Len(input.msgs) \in Nat /\ K \in Nat
    BY StreamEnds, StreamOrder DEF TypeOK
  <1>2. i > Len(delivered)
    BY <1>1 DEF Past
  <1>3. CASE i > 1
    <2>1. i - 1 \in 1..Len(input.msgs) /\ i - 1 < i
      BY <1>1, <1>3
    <2>2. input.last[i - 1] < k
      BY <2>1, StreamEnds
    <2>3. i - 1 <= Len(delivered)
      BY <2>1, <2>2 DEF Past
    <2> QED
      BY <1>1, <1>2, <2>3
  <1> QED
    BY <1>1, <1>2, <1>3

(* With frame k the messages that end in it are delivered too.              *)
LEMMA PastGrows ==
  ASSUME TypeOK, WellFormed(input), NEW k \in 1..K, Past(k), input' = input,
         Complete(input, F(k)), ~Oversize(F(k)), NEW m,
         delivered' = IF F(k).fin THEN Append(delivered, m) ELSE delivered,
         m \in Message,
         ~F(k).disturbed => m = [opcode |-> F(k).opcode, mask |-> F(k).mask, payload |-> F(k).payload]
  PROVE  Past(k + 1)'
  <1>1. /\ Len(delivered) \in Nat /\ Len(input.msgs) \in Nat /\ K \in Nat
        /\ delivered \in Seq(Message)
        /\ \A i \in 1..Len(input.msgs) : input.last[i] \in 1..K
    BY StreamEnds, StreamOrder DEF TypeOK
  <1>2. CASE ~F(k).fin
    <2>1. \A i \in 1..Len(input.msgs) : input.last[i] # k
      BY <1>2, StreamEnds
    <2>2. ASSUME NEW i \in 1..Len(input.msgs) PROVE input.last[i] < k + 1 <=> input.last[i] < k
      BY <1>1, <2>1
    <2>3. delivered' = delivered
      BY <1>2
    <2> QED
      BY <2>2, <2>3 DEF Past
  <1>3. CASE F(k).fin
    <2>1. PICK i \in 1..Len(input.msgs) : input.last[i] = k
      BY <1>3, StreamEnds
    <2>2. i = Len(delivered) + 1
      BY <2>1, NextMessage
    <2>3. /\ Len(delivered') = i /\ delivered'[i] = m
          /\ \A j \in 1..Len(delivered) : delivered'[j] = delivered[j]
      BY <1>1, <1>3, <2>2
    <2>4. ASSUME NEW j \in 1..Len(input.msgs)
          PROVE  j <= Len(delivered') <=> input.last[j] < k + 1
      <3>1. CASE j < i
        <4>1. input.last[j] < k
          BY <2>1, <3>1, StreamEnds
        <4> QED
          BY <1>1, <2>3, <3>1, <4>1
      <3>2. CASE j = i
        BY <1>1, <2>1, <2>3, <3>2
      <3>3. CASE j > i
        <4>1. k < input.last[j]
          BY <2>1, <3>3, StreamEnds
        <4> QED
          BY <1>1, <2>3, <3>3, <4>1
      <3> QED
        BY <3>1, <3>2, <3>3
    <2>5. ASSUME NEW j \in 1..Len(delivered'), ~input.disturbed[j]
          PROVE  delivered'[j] = input.msgs[j]
      <3>1. CASE j = i
        <4>1. ~F(k).disturbed
          BY <2>1, <2>5, <3>1, StreamEnds
        <4>2. input.msgs[i] = [opcode |-> F(k).opcode, mask |-> F(k).mask, payload |-> F(k).payload]
          BY <2>1, <4>1, StreamEnds, Zenon
        <4> QED
          BY <2>3, <3>1, <4>1, <4>2, Zenon
      <3>2. CASE j # i
        <4>1. j \in 1..Len(delivered)
          BY <1>1, <2>2, <2>3, <3>2
        <4> QED
          BY <2>3, <2>5, <4>1 DEF Past
      <3> QED
        BY <3>1, <3>2
    <2>6. Len(delivered') <= Len(input.msgs)
      BY <2>3
    <2> QED
      BY <2>4, <2>5, <2>6 DEF Past
  <1> QED
    BY <1>2, <1>3

(* The payload of frame k is complete: the parser is before the next one.   *)
LEMMA PayloadCompletePlace ==
  ASSUME TypeOK, ParserInv, WellFormed(input), Rest, NEW k \in 1..(K + 1), Past(k), Place(k),
         PayloadComplete
  PROVE  k \in 1..K /\ Rest' /\ Past(k + 1)' /\ Place(k + 1)'
  <1>a. status = "payload" /\ data \in Seq(Byte) /\ byteNeed \in Nat
    BY DEF PayloadComplete, TypeOK
  <1>2. k \in 1..K /\ frame.fin = F(k).fin /\ AtPayload(k)
    BY <1>a DEF Place
  <1>6. F(k).len \in Nat /\ FrameEnd(F(k)) \in Nat /\ Len(input.bytes) \in Nat /\ K \in Nat
    BY <1>2, StreamFields, StreamLayout, StreamOrder
  <1>b. PICK n \in Nat : n = byteNeed
    BY <1>a
  <1>p. PICK p \in Nat : p = F(k).len - n
    <2>1. F(k).len - byteNeed \in Nat
      BY <1>2, <1>6, <1>a DEF AtPayload, ParserInv
    <2> QED
      BY <1>b, <2>1
  <1>3. n <= Len(data) /\ ~OverLimit
    BY <1>b DEF PayloadComplete, HoldsRest
  <1>u. PICK bytes \in Seq(Byte) : bytes = SubSeq(data, 1, n)
    BY <1>3, <1>a, Cut
  <1>1. /\ status' = "finAndOpcode" /\ data' = SubSeq(data, n + 1, Len(data))
        /\ wire' = wire /\ input' = input /\ isContinuation' = ~frame.fin
        /\ frame' = [frame EXCEPT !.payload = @ \o Unmask(bytes)]
        /\ delivered' = IF frame'.fin
                        THEN Append(delivered, [opcode |-> frame'.opcode,
                                                mask |-> frame'.mask,
                                                payload |-> frame'.payload])
                        ELSE delivered
    BY <1>b, <1>u DEF PayloadComplete
  <1>4. Rest' /\ Consumed' = Consumed + n
    BY <1>1, <1>3, Looks
  <1>c. Len(bytes) = n /\ \A i \in 1..n : bytes[i] = data[i]
    BY <1>3, <1>a, <1>u
  <1>5. /\ Unmask(bytes) \in Seq(Byte) /\ Len(Unmask(bytes)) = n
        /\ \A i \in 1..n : Unmask(bytes)[i] = ContentAt(input, F(k), p + i)
        /\ HeadEnd(F(k)) + p + n <= Len(input.bytes)
    BY <1>2, <1>3, <1>a, <1>b, <1>c, <1>p, UnmaskIs
  <1>7. p + n = F(k).len /\ Consumed' = FrameEnd(F(k))
    BY <1>2, <1>4, <1>6, <1>b, <1>p DEF AtPayload
  <1>8. Stored(k, p) \o Unmask(bytes) = Stored(k, F(k).len)
    <2>1. p + n <= F(k).len
      BY <1>6, <1>7
    <2>2. Stored(k, p) \o Unmask(bytes) = Stored(k, p + n)
      BY <1>2, <1>5, <2>1, StoredMore
    <2> QED
      BY <1>7, <2>2, Zenon
  <1>9. /\ frame'.fin = frame.fin /\ frame'.opcode = frame.opcode
        /\ frame'.mask = frame.mask /\ frame'.payload = frame.payload \o Unmask(bytes)
    BY <1>1, PayloadField DEF TypeOK
  <1>10. Complete(input, F(k)) /\ ~Oversize(F(k))
    <2>1. FrameEnd(F(k)) = HeadEnd(F(k)) + F(k).len /\ HeadEnd(F(k)) \in Nat
      BY <1>2, StreamLayout
    <2>2. FrameEnd(F(k)) <= Len(input.bytes)
      BY <1>5, <1>6, <1>7, <2>1
    <2> QED
      BY <1>2, <1>3, <2>2 DEF Complete, Oversize, OverLimit, AtPayload
  <1>11. ASSUME ~F(k).disturbed
         PROVE  frame'.opcode = F(k).opcode /\ frame'.payload = F(k).payload
    <2>1. frame.opcode = F(k).opcode /\ frame.payload = Stored(k, p)
      BY <1>2, <1>11, <1>b, <1>p, Zenon DEF AtPayload, Gathering
    <2>2. F(k).payload = Stored(k, F(k).len)
      BY <1>2, <1>10, <1>11, StreamMessages
    <2> QED
      BY <1>8, <1>9, <2>1, <2>2, Zenon
  <1>12. Past(k + 1)'
    <2> DEFINE m == [opcode |-> frame'.opcode, mask |-> frame'.mask, payload |-> frame'.payload]
    <2>1. m \in Message
      <3>1. frame' \in WsFrame
        <4>1. frame.payload \o Unmask(bytes) \in Seq(Byte)
          BY <1>5, FrameFields DEF TypeOK
        <4> QED
          BY <1>1, <4>1, FrameUpdate DEF TypeOK
      <3> QED
        BY <3>1, FrameFields, Zenon DEF Message
    <2>2. delivered' = IF F(k).fin THEN Append(delivered, m) ELSE delivered
      BY <1>1, <1>2, <1>9
    <2>3. ~F(k).disturbed => m = [opcode |-> F(k).opcode, mask |-> F(k).mask, payload |-> F(k).payload]
      BY <1>2, <1>9, <1>11 DEF AtPayload
    <2> HIDE DEF m
    <2> QED
      BY <1>1, <1>2, <1>10, <2>1, <2>2, <2>3, PastGrows
  <1>13. Place(k + 1)'
    <2>1. k + 1 \in 1..(K + 1) /\ (k + 1) - 1 = k /\ k + 1 > 1 /\ Consumed' = StartOf(k + 1)
      BY <1>2, <1>6, <1>7, StreamOrder
    <2>2. F(k)' = F(k) /\ K' = K /\ StartOf(k + 1)' = StartOf(k + 1) /\ F((k + 1) - 1) = F(k)
      BY <1>1, <2>1 DEF F, K, StartOf
    <2>3. /\ isContinuation' = (k + 1 > 1 /\ ~F(k).fin)
          /\ isContinuation' /\ ~F(k).disturbed =>
               frame'.opcode = F(k).opcode /\ frame'.payload = F(k).payload
          /\ k + 1 = K + 1 => ~Oversize(F(K))
      BY <1>1, <1>2, <1>6, <1>10, <1>11, <2>1
    <2>4. F((k + 1) - 1)' = F(k) /\ F(K)' = F(K)
      BY <1>1, <2>1 DEF F, K
    <2>5. Between(k + 1)'
      BY <2>2, <2>3, <2>4, Zenon DEF Between
    <2> QED
      BY <1>1, <2>1, <2>2, <2>5 DEF Place
  <1> QED
    BY <1>2, <1>4, <1>12, <1>13

(* A frame over the limit is the last one, and its payload has begun.       *)
LEMMA PayloadTooLongRefuses ==
  ASSUME TypeOK, ParserInv, WellFormed(input), Rest, NEW k \in 1..(K + 1), Past(k), Place(k),
         PayloadTooLong
  PROVE  Refused'
  <1>1. /\ status = "payload" /\ data # <<>> /\ data' = <<>> /\ OverLimit
        /\ wire' = wire /\ input' = input /\ delivered' = delivered
    BY DEF PayloadTooLong
  <1>2. k \in 1..K /\ AtPayload(k)
    BY <1>1 DEF Place
  <1>3. Oversize(F(k))
    BY <1>1, <1>2 DEF AtPayload, OverLimit, Oversize
  <1>4. k = K /\ K \in Nat /\ K > 0
    BY <1>2, <1>3, StreamOrder
  <1>5. Consumed = HeadEnd(F(K)) /\ HeadEnd(F(K)) < Len(input.bytes)
    <2>1. byteNeed = F(k).len
      BY <1>1, <1>2 DEF ParserInv, AtPayload
    <2>2. F(k).len \in Nat /\ HeadEnd(F(k)) \in Nat /\ FrameEnd(F(k)) = HeadEnd(F(k)) + F(k).len
      BY <1>2, StreamFields, StreamLayout
    <2>3. Consumed = HeadEnd(F(k))
      BY <1>2, <2>1, <2>2 DEF AtPayload
    <2> QED
      BY <1>1, <1>4, <2>3, Buffer
  <1>6. input.oversize
    BY <1>3, <1>4, <1>5, StreamOrder
  <1>7. Len(delivered) = Len(input.msgs)
    <2>1. Len(delivered) \in Nat /\ Len(input.msgs) \in Nat /\ Len(delivered) <= Len(input.msgs)
      BY StreamEnds DEF TypeOK, Past
    <2>2. CASE Len(input.msgs) > 0
      <3> DEFINE i == Len(input.msgs)
      <3>1. i \in 1..Len(input.msgs)
        BY <2>1, <2>2
      <3>2. input.last[i] \in 1..K /\ input.last[i] # K
        BY <1>3, <1>4, <3>1, StreamEnds
      <3>3. input.last[i] < k
        BY <1>4, <3>2
      <3> QED
        BY <2>1, <3>1, <3>3 DEF Past
    <2> QED
      BY <2>1, <2>2
  <1>8. Consumed <= Consumed'
    <2>1. input.bytes \in Seq(Byte)
      BY DEF TypeOK, StreamType
    <2>2. Len(input.bytes) \in Nat /\ Len(wire) \in Nat /\ Len(data) \in Nat /\ Len(data') = 0
      BY <1>1, <2>1 DEF TypeOK
    <2> QED
      BY <1>1, <2>2 DEF Consumed
  <1>9. ASSUME NEW i \in 1..Len(delivered)
        PROVE  /\ ~input.disturbed[i] => delivered[i] = input.msgs[i]
               /\ input.ends[i] <= Consumed'
    <2>1. input.ends[i] <= Consumed
      BY EndsBefore
    <2>2. Consumed \in Nat /\ Consumed' \in Int
      <3>1. Len(input.bytes) \in Nat /\ Len(wire) \in Nat
        BY DEF TypeOK, StreamType
      <3> QED
        BY <1>1, <3>1, Buffer DEF Consumed
    <2>3. input.ends[i] \in Nat
      <3>1. i \in 1..Len(input.msgs)
        BY <1>7
      <3>2. input.last[i] \in 1..K /\ input.ends[i] = FrameEnd(F(input.last[i]))
        BY <3>1, StreamEnds
      <3> QED
        BY <3>2, StreamLayout
    <2> QED
      BY <1>8, <2>1, <2>2, <2>3 DEF Past
  <1> QED
    BY <1>1, <1>6, <1>7, <1>9 DEF Refused

(* A new chunk changes nothing but where the bytes are.                     *)
LEMMA ReceivePlace ==
  ASSUME TypeOK, WellFormed(input), Rest, NEW k \in 1..(K + 1), Place(k),
         NEW n \in 1..Len(wire), Receive(n)
  PROVE  Rest' /\ Place(k)'
  <1>1. Rest' /\ Consumed' = Consumed
    BY ReceiveRest
  <1>2. /\ input' = input /\ status' = status /\ byteNeed' = byteNeed
        /\ isContinuation' = isContinuation /\ frame' = frame
    BY DEF Receive
  <1>3. K' = K /\ F(k)' = F(k) /\ F(k - 1)' = F(k - 1) /\ F(K)' = F(K) /\ StartOf(k)' = StartOf(k)
    BY <1>2 DEF F, K, StartOf
  <1>4. Gathering(k, 0)' = Gathering(k, 0) /\ Between(k)' = Between(k)
    BY <1>2 DEF Gathering, Between, Stored, Base, F, K
  <1>5. AtLength(k)' = AtLength(k) /\ AtKey(k)' = AtKey(k)
    BY <1>1, <1>2, <1>3, <1>4 DEF AtLength, AtKey
  <1>6. AtPayload(k)' = AtPayload(k)
    BY <1>1, <1>2 DEF AtPayload, Gathering, Stored, Base, F
  <1>7. Place(k)'
    BY <1>1, <1>2, <1>3, <1>4, <1>5, <1>6 DEF Place
  <1> QED
    BY <1>1, <1>7

-----------------------------------------------------------------------------
(* Before the first byte the parser is before the first frame.              *)
LEMMA StreamInit == Init => StreamInv
  <1> SUFFICES ASSUME Init, WellFormed(input)
               PROVE  Rest /\ \E k \in 1..(K + 1) : Past(k) /\ Place(k)
    BY DEF Init, StreamInv
  <1>1. /\ wire = input.bytes /\ data = <<>> /\ status = "finAndOpcode"
        /\ isContinuation = FALSE /\ delivered = <<>>
    BY DEF Init
  <1>2. Len(input.bytes) \in Nat /\ Len(input.msgs) \in Nat
    <2>1. 1 \in 1..K
      BY StreamOrder
    <2> QED
      BY <2>1, StreamLayout, StreamEnds
  <1>3. Consumed = 0
    <2>1. Len(data) = 0 /\ Len(wire) = Len(input.bytes)
      BY <1>1
    <2> QED
      BY <1>2, <2>1 DEF Consumed
  <1>4. Rest
    BY <1>1, <1>2, <1>3 DEF Rest
  <1>5. 1 \in 1..(K + 1) /\ StartOf(1) = 0 /\ 1 # K + 1
    BY StreamOrder
  <1>6. Past(1)
    BY <1>1, <1>2, StreamEnds DEF Past
  <1>7. Place(1)
    <2>a. ~(1 > 1)
      OBVIOUS
    <2>1. Between(1)
      BY <1>1, <1>5, <2>a, Zenon DEF Between
    <2> QED
      BY <1>1, <1>3, <1>5, <2>1 DEF Place
  <1> QED
    BY <1>4, <1>5, <1>6, <1>7

(* Every turn of the loop keeps the parser at its place in the stream.      *)
LEMMA StreamNext == TypeOK /\ ParserInv /\ StreamInv /\ [Next]_vars => StreamInv'
  <1> SUFFICES ASSUME TypeOK, ParserInv, StreamInv, [Next]_vars PROVE StreamInv'
    OBVIOUS
  <1>1. input' = input
    BY DEF Next, vars, Receive, FinAndOpcode, PayloadLenAndMask, PayloadLen, MaskKey,
           PayloadTooLong, PayloadPart, PayloadComplete
  <1>2. CASE ~WellFormed(input)
    BY <1>1, <1>2 DEF StreamInv
  <1>3. CASE UNCHANGED vars
    <2>1. /\ input' = input /\ wire' = wire /\ data' = data /\ status' = status
          /\ byteNeed' = byteNeed /\ isContinuation' = isContinuation
          /\ frame' = frame /\ err' = err /\ delivered' = delivered
      BY <1>3 DEF vars
    <2>2. Consumed' = Consumed /\ K' = K
      BY <2>1 DEF Consumed, K
    <2>3. Rest' = Rest /\ Refused' = Refused
      BY <2>1, <2>2 DEF Rest, Refused
    <2>4. ASSUME NEW k PROVE Past(k)' = Past(k) /\ Place(k)' = Place(k)
      <3>1. Past(k)' = Past(k)
        BY <2>1 DEF Past
      <3>2. Gathering(k, 0)' = Gathering(k, 0)
        BY <2>1 DEF Gathering, Stored, Base, F
      <3>3. Between(k)' = Between(k) /\ StartOf(k)' = StartOf(k)
        BY <2>1 DEF Between, StartOf, F, K
      <3>4. AtLength(k)' = AtLength(k) /\ AtKey(k)' = AtKey(k)
        BY <2>1, <2>2, <3>2 DEF AtLength, AtKey, F
      <3>5. AtPayload(k)' = AtPayload(k)
        BY <2>1, <2>2 DEF AtPayload, Gathering, Stored, Base, F
      <3> QED
        BY <2>1, <2>2, <3>1, <3>2, <3>3, <3>4, <3>5 DEF Place, F
    <2> QED
      BY <2>1, <2>2, <2>3, <2>4 DEF StreamInv
  <1>4. CASE WellFormed(input) /\ err # "SUCCESS" /\ Next
    <2>1. data = <<>>
      BY <1>4 DEF StreamInv, Refused
    <2> QED
      BY <1>4, <2>1 DEF Next, Receive, FinAndOpcode, PayloadLenAndMask, PayloadLen, MaskKey,
                        PayloadTooLong, PayloadPart, PayloadComplete
  <1>5. CASE WellFormed(input) /\ err = "SUCCESS" /\ Next
    <2>1. Rest /\ \E k \in 1..(K + 1) : Past(k) /\ Place(k)
      BY <1>5 DEF StreamInv
    <2>2. PICK k \in 1..(K + 1) : Past(k) /\ Place(k)
      BY <2>1
    <2>3. K' = K /\ WellFormed(input) /\ K \in Nat
      BY <1>1, <1>5, StreamOrder DEF K
    <2>4. ASSUME err' = err, delivered' = delivered, Rest', Place(k)'
          PROVE  StreamInv'
      <3>1. Past(k)'
        BY <1>1, <2>2, <2>4 DEF Past
      <3> QED
        BY <1>5, <2>3, <2>4, <3>1 DEF StreamInv
    <2>5. ASSUME NEW n \in 1..Len(wire), Receive(n) PROVE StreamInv'
      <3>1. err' = err /\ delivered' = delivered
        BY <2>5 DEF Receive
      <3>2. Rest' /\ Place(k)'
        BY <2>1, <2>2, <2>3, <2>5, ReceivePlace
      <3> QED
        BY <2>4, <3>1, <3>2
    <2>6. CASE FinAndOpcode
      <3>1. err' = err /\ delivered' = delivered
        BY <2>6 DEF FinAndOpcode
      <3>2. Rest' /\ Place(k)'
        BY <2>1, <2>2, <2>3, <2>6, FinAndOpcodePlace
      <3> QED
        BY <2>4, <3>1, <3>2
    <2>7. CASE PayloadLenAndMask
      <3>1. err' = err /\ delivered' = delivered
        BY <2>7 DEF PayloadLenAndMask
      <3>2. Rest' /\ Place(k)'
        BY <2>1, <2>2, <2>3, <2>7, PayloadLenAndMaskPlace
      <3> QED
        BY <2>4, <3>1, <3>2
    <2>8. CASE PayloadLen
      <3>1. err' = err /\ delivered' = delivered
        BY <2>8 DEF PayloadLen
      <3>2. Rest' /\ Place(k)'
        BY <2>1, <2>2, <2>3, <2>8, PayloadLenPlace
      <3> QED
        BY <2>4, <3>1, <3>2
    <2>9. CASE MaskKey
      <3>1. err' = err /\ delivered' = delivered
        BY <2>9 DEF MaskKey
      <3>2. Rest' /\ Place(k)'
        BY <2>1, <2>2, <2>3, <2>9, MaskKeyPlace
      <3> QED
        BY <2>4, <3>1, <3>2
    <2>10. CASE PayloadTooLong
      <3>1. err' # "SUCCESS"
        BY <2>10 DEF PayloadTooLong
      <3>2. Refused'
        BY <2>1, <2>2, <2>3, <2>10, PayloadTooLongRefuses
      <3> QED
        BY <3>1, <3>2 DEF StreamInv
    <2>11. CASE PayloadPart
      <3>1. err' = err /\ delivered' = delivered
        BY <2>11 DEF PayloadPart
      <3>2. Rest' /\ Place(k)'
        BY <2>1, <2>2, <2>3, <2>11, PayloadPartPlace
      <3> QED
        BY <2>4, <3>1, <3>2
    <2>12. CASE PayloadComplete
      <3>1. err' = err
        BY <2>12 DEF PayloadComplete
      <3>2. k \in 1..K /\ Rest' /\ Past(k + 1)' /\ Place(k + 1)'
        BY <2>1, <2>2, <2>3, <2>12, PayloadCompletePlace
      <3>3. k + 1 \in 1..(K' + 1)
        BY <2>3, <3>2
      <3> QED
        BY <1>5, <3>1, <3>2, <3>3 DEF StreamInv
    <2> QED
      BY <1>5, <2>5, <2>6, <2>7, <2>8, <2>9, <2>10, <2>11, <2>12 DEF Next
  <1> QED
    BY <1>2, <1>3, <1>4, <1>5

(* In frame k no byte behind it was looked at.                              *)
LEMMA NotBeyond ==
  ASSUME TypeOK, ParserInv, WellFormed(input), NEW k \in 1..K, Place(k)
  PROVE  /\ status # "payload" => Consumed < HeadEnd(F(k))
         /\ Consumed <= FrameEnd(F(k))
         /\ Consumed = FrameEnd(F(k)) => F(k).len = 0
  <1>1. /\ F(k).start \in Nat /\ F(k).len \in Nat
        /\ StartOf(k) = F(k).start
    BY StreamFields, StreamOrder
  <1>2. /\ ExtLen(F(k)) \in Nat
        /\ KeyAt(F(k)) = F(k).start + 2 + ExtLen(F(k)) /\ KeyAt(F(k)) \in Nat
        /\ HeadEnd(F(k)) = KeyAt(F(k)) + (IF F(k).mask THEN 4 ELSE 0)
        /\ HeadEnd(F(k)) >= KeyAt(F(k)) /\ HeadEnd(F(k)) \in Nat
        /\ FrameEnd(F(k)) = HeadEnd(F(k)) + F(k).len
    BY <1>1, StreamLayout
  <1>3. byteNeed \in Nat
    BY DEF TypeOK
  <1>4. CASE status = "payload"
    BY <1>1, <1>2, <1>3, <1>4 DEF Place, AtPayload
  <1>5. ASSUME status # "payload" PROVE Consumed < HeadEnd(F(k)) /\ Consumed \in Int
    <2>1. CASE status = "finAndOpcode"
      BY <1>1, <1>2, <2>1 DEF Place
    <2>2. CASE status = "payloadLenAndMask"
      BY <1>1, <1>2, <2>2 DEF Place
    <2>3. CASE status = "payloadLen"
      BY <1>1, <1>2, <1>3, <2>3 DEF Place, AtLength, ParserInv
    <2>4. CASE status = "maskKey"
      <3>1. /\ F(k).mask /\ Consumed = KeyAt(F(k)) + 4 - byteNeed
            /\ byteNeed \in 1..4
        BY <2>4 DEF Place, AtKey, ParserInv
      <3>2. HeadEnd(F(k)) = KeyAt(F(k)) + 4
        BY <1>2, <3>1
      <3> QED
        BY <1>2, <3>1, <3>2
    <2> QED
      BY <1>5, <2>1, <2>2, <2>3, <2>4 DEF TypeOK, Status
  <1> QED
    BY <1>1, <1>2, <1>4, <1>5

(* What was delivered are the messages of the stream.                       *)
LEMMA StreamDelivered ==
  ASSUME TypeOK, ParserInv, StreamInv, WellFormed(input)
  PROVE  DeliveredInOrder
  <1>1. CASE err # "SUCCESS"
    <2>1. Refused
      BY <1>1 DEF StreamInv
    <2>2. Len(input.msgs) \in Nat
      BY StreamEnds
    <2> QED
      BY <2>1, <2>2 DEF Refused, DeliveredInOrder
  <1>2. CASE err = "SUCCESS"
    <2>1. Rest /\ \E k \in 1..(K + 1) : Past(k) /\ Place(k)
      BY <1>2 DEF StreamInv
    <2>2. PICK k \in 1..(K + 1) : Past(k) /\ Place(k)
      BY <2>1
    <2>3. \A i \in 1..Len(delivered) : input.ends[i] <= Consumed
      BY <2>1, <2>2, EndsBefore
    <2> QED
      BY <2>2, <2>3 DEF Past, DeliveredInOrder
  <1> QED
    BY <1>1, <1>2

(* No complete message is held back.                                        *)
LEMMA StreamPrompt ==
  ASSUME TypeOK, ParserInv, StreamInv, WellFormed(input)
  PROVE  DeliveredPromptly
  <1> SUFFICES ASSUME data = <<>>, err = "SUCCESS", NEW i \in 1..Len(input.msgs),
                      ~(i <= Len(delivered))
               PROVE  ~(\/ input.ends[i] < Consumed
                        \/ input.ends[i] = Consumed /\ ~input.empty[i])
    BY DEF DeliveredPromptly
  <1>1. Rest /\ \E k \in 1..(K + 1) : Past(k) /\ Place(k)
    BY DEF StreamInv
  <1>2. PICK k \in 1..(K + 1) : Past(k) /\ Place(k)
    BY <1>1
  <1>3. /\ input.last[i] \in 1..K /\ input.ends[i] = FrameEnd(F(input.last[i]))
        /\ input.empty[i] = (F(input.last[i]).len = 0) /\ K \in Nat
    BY StreamEnds, StreamOrder
  <1>4. ~(input.last[i] < k)
    BY <1>2 DEF Past
  <1>5. k \in 1..K /\ k <= input.last[i]
    BY <1>3, <1>4
  <1>6. /\ Consumed <= FrameEnd(F(k)) /\ FrameEnd(F(k)) \in Nat
        /\ Consumed = FrameEnd(F(k)) => F(k).len = 0
    BY <1>2, <1>5, NotBeyond, StreamLayout
  <1>7. Consumed \in Nat
    BY <1>1, Buffer
  <1>8. CASE input.last[i] = k
    <2>1. input.ends[i] = FrameEnd(F(k)) /\ input.empty[i] = (F(k).len = 0)
      BY <1>3, <1>8
    <2>2. ~(input.ends[i] < Consumed)
      BY <1>6, <1>7, <2>1
    <2> QED
      BY <1>6, <2>1, <2>2, Zenon
  <1>9. CASE input.last[i] > k
    <2>1. /\ FrameEnd(F(k)) <= F(input.last[i]).start
          /\ F(input.last[i]).start \in Nat
      <3>1. input.last[i] \in 1..(K + 1) /\ k < input.last[i]
        BY <1>3, <1>9
      <3> QED
        BY <1>3, <1>5, <3>1, StreamOrder, StreamFields
    <2>2. F(input.last[i]).start < FrameEnd(F(input.last[i])) /\ FrameEnd(F(input.last[i])) \in Nat
      BY <1>3, StreamSizes, SMTT(40)
    <2> QED
      BY <1>3, <1>6, <1>7, <2>1, <2>2
  <1> QED
    BY <1>3, <1>5, <1>8, <1>9

(* An error means a frame over the limit, and such a frame an error.        *)
LEMMA StreamRefuses ==
  ASSUME TypeOK, ParserInv, StreamInv, WellFormed(input)
  PROVE  RefusesOversizeOnly
  <1>1. err # "SUCCESS" => input.oversize /\ Len(delivered) = Len(input.msgs)
    BY DEF StreamInv, Refused
  <1>2. ASSUME data = <<>>, wire = <<>>, input.oversize, err = "SUCCESS" PROVE FALSE
    <2>1. Rest /\ \E k \in 1..(K + 1) : Past(k) /\ Place(k)
      BY <1>2 DEF StreamInv
    <2>2. PICK k \in 1..(K + 1) : Past(k) /\ Place(k)
      BY <2>1
    <2>3. Consumed = Len(input.bytes)
      BY <1>2, <2>1, Buffer
    <2>4. /\ K \in Nat /\ K \in 1..K /\ Oversize(F(K)) /\ HeadEnd(F(K)) < Len(input.bytes)
      <3>1. K \in Nat /\ K \in 1..K
        BY StreamOrder
      <3>2. input.oversize = (Oversize(F(K)) /\ HeadEnd(F(K)) < Len(input.bytes))
        BY StreamOrder
      <3> QED
        BY <1>2, <3>1, <3>2, Zenon
    <2>5. CASE k = K + 1
      <3>1. status = "finAndOpcode"
        BY <2>2, <2>4, <2>5 DEF Place
      <3> QED
        BY <2>2, <2>4, <2>5, <3>1 DEF Place, Between
    <2>6. CASE k = K
      <3>1. status = "payload"
        <4>1. HeadEnd(F(K)) \in Nat /\ Len(input.bytes) \in Nat
          BY <2>4, StreamLayout
        <4> QED
          BY <2>2, <2>3, <2>4, <2>6, <4>1, NotBeyond
      <3>2. AtPayload(K)
        BY <2>2, <2>6, <3>1 DEF Place
      <3>3. OverLimit
        BY <2>4, <3>2 DEF OverLimit, Oversize, AtPayload
      <3>4. byteNeed = F(K).len
        BY <3>1, <3>2, <3>3 DEF ParserInv, AtPayload
      <3>5. F(K).len \in Nat /\ HeadEnd(F(K)) \in Nat /\ FrameEnd(F(K)) = HeadEnd(F(K)) + F(K).len
        BY <2>4, StreamFields, StreamLayout
      <3>6. Consumed = HeadEnd(F(K))
        BY <3>2, <3>4, <3>5 DEF AtPayload
      <3> QED
        BY <2>3, <2>4, <3>5, <3>6
    <2>7. CASE k < K
      <3>1. k \in 1..K /\ FrameEnd(F(k)) \in Nat
        BY <2>4, <2>7, StreamLayout
      <3>2. Consumed <= FrameEnd(F(k))
        BY <2>2, <3>1, NotBeyond
      <3>3. FrameEnd(F(k)) <= F(K).start /\ F(K).start \in Nat
        BY <2>4, <2>7, <3>1, StreamOrder, StreamFields
      <3>4. F(K).start <= HeadEnd(F(K)) /\ HeadEnd(F(K)) \in Nat /\ Len(input.bytes) \in Nat
        BY <2>4, StreamSizes
      <3> QED
        BY <2>3, <2>4, <3>1, <3>2, <3>3, <3>4
    <2> QED
      BY <2>4, <2>5, <2>6, <2>7
  <1> QED
    BY <1>1, <1>2 DEF RefusesOversizeOnly

(* The parser is always at its place in the stream.                         *)
THEOREM StreamInvariant == Spec => []StreamInv
  BY StreamNext, ParserInvariant, StreamInit, PTL DEF Spec

(* For every stream of frames and every way to cut it into chunks, the      *)
(* calls of m_onComplete are the messages of the stream, in their order,    *)
(* each unmasked and put together right and none early.                     *)
THEOREM InOrder == Spec => [](WellFormed(input) => DeliveredInOrder)
  <1>1. TypeOK /\ ParserInv /\ StreamInv => (WellFormed(input) => DeliveredInOrder)
    BY StreamDelivered
  <1> QED
    BY <1>1, ParserInvariant, StreamInvariant, PTL

(* Between two calls of parse() no message is held back.                    *)
THEOREM Promptly == Spec => [](WellFormed(input) => DeliveredPromptly)
  <1>1. TypeOK /\ ParserInv /\ StreamInv => (WellFormed(input) => DeliveredPromptly)
    BY StreamPrompt
  <1> QED
    BY <1>1, ParserInvariant, StreamInvariant, PTL

(* parse() fails on the streams with a frame over the limit and on no       *)
(* other, and loses no message before that frame.                           *)
THEOREM OversizeOnly == Spec => [](WellFormed(input) => RefusesOversizeOnly)
  <1>1. TypeOK /\ ParserInv /\ StreamInv => (WellFormed(input) => RefusesOversizeOnly)
    BY StreamRefuses
  <1> QED
    BY <1>1, ParserInvariant, StreamInvariant, PTL

-----------------------------------------------------------------------------
(***************************************************************************)
(* What inter_send writes.  A length is written one byte at a time, the    *)
(* highest first, and read the same way; so the header means the length    *)
(* it was written for, a written frame is laid out as WsStreams says, and  *)
(* the frames of any calls are a well-formed stream.                       *)
(***************************************************************************)

(* size_t has 64 bits.                                                      *)
SizeT == 0..(2^32 * 2^32 - 1)

(* A shift by k bytes, one byte after the other.                            *)
LEMMA ShiftedStep ==
  ASSUME NEW n \in Nat
  PROVE  /\ Shifted(n, 0) = n
         /\ \A k \in 1..8 : Shifted(n, k) = Shifted(n, k - 1) \div 256
         /\ \A k \in 0..8 : Shifted(n, k) \in Nat
  <1> DEFINE Shifts(f) == f = [k \in 0..8 |-> IF k = 0 THEN n ELSE f[k - 1] \div 256]
             shifted == CHOOSE f : Shifts(f)
             d1 == n \div 256
             d2 == d1 \div 256
             d3 == d2 \div 256
             d4 == d3 \div 256
             d5 == d4 \div 256
             d6 == d5 \div 256
             d7 == d6 \div 256
             g  == <<d1, d2, d3, d4, d5, d6, d7, d7 \div 256>>
             h  == [k \in 0..8 |-> IF k = 0 THEN n ELSE g[k]]
  <1>1. \A k \in 0..8 : h[k] = IF k = 0 THEN n ELSE h[k - 1] \div 256
    <2>1. h[0] = n
      OBVIOUS
    <2>2. /\ h[1] = d1 /\ h[2] = d2 /\ h[3] = d3 /\ h[4] = d4
          /\ h[5] = d5 /\ h[6] = d6 /\ h[7] = d7 /\ h[8] = d7 \div 256
      <3>1. \A k \in 1..8 : h[k] = g[k]
        OBVIOUS
      <3>2. /\ g[1] = d1 /\ g[2] = d2 /\ g[3] = d3 /\ g[4] = d4
            /\ g[5] = d5 /\ g[6] = d6 /\ g[7] = d7 /\ g[8] = d7 \div 256
        BY Zenon
      <3>3. {1, 2, 3, 4, 5, 6, 7, 8} \subseteq 1..8
        OBVIOUS
      <3> HIDE DEF h, g
      <3> QED
        BY <3>1, <3>2, <3>3
    <2> HIDE DEF h
    <2>3. TAKE k \in 0..8
    <2>4. \/ k = 0 \/ k = 1 \/ k = 2 \/ k = 3 \/ k = 4 \/ k = 5 \/ k = 6 \/ k = 7 \/ k = 8
      OBVIOUS
    <2> QED
      BY <2>1, <2>2, <2>4
  <1>2. Shifts(h)
    <2>1. h = [k \in 0..8 |-> h[k]]
      OBVIOUS
    <2> HIDE DEF h
    <2> QED
      BY <1>1, <2>1, Zenon
  <1>3. Shifts(shifted)
    <2> HIDE DEF h, Shifts
    <2> QED
      BY <1>2, Zenon
  <1>4. \A k \in 0..8 : Shifted(n, k) = shifted[k]
    BY Zenon DEF Shifted
  <1> HIDE DEF shifted
  <1>5. shifted[0] = n /\ \A k \in 1..8 : shifted[k] = shifted[k - 1] \div 256
    BY <1>3
  <1>6. /\ shifted[0] \in Nat /\ shifted[1] \in Nat /\ shifted[2] \in Nat /\ shifted[3] \in Nat
        /\ shifted[4] \in Nat /\ shifted[5] \in Nat /\ shifted[6] \in Nat /\ shifted[7] \in Nat
        /\ shifted[8] \in Nat
    BY <1>5
  <1>7. \A k \in 0..8 : shifted[k] \in Nat
    <2> TAKE k \in 0..8
    <2>1. \/ k = 0 \/ k = 1 \/ k = 2 \/ k = 3 \/ k = 4 \/ k = 5 \/ k = 6 \/ k = 7 \/ k = 8
      OBVIOUS
    <2> QED
      BY <1>6, <2>1
  <1> QED
    BY <1>4, <1>5, <1>7

(* The numbers that 16 and 64 bits can hold.                                *)
LEMMA Powers ==
  /\ 2^16 = 65536
  /\ \A n \in SizeT : n \in Nat /\ n < 4294967296 * 4294967296
  <1>1. 2^16 = 65536
    BY SMTT(40)
  <1>2. 2^32 = 4294967296
    BY SMTT(40)
  <1> QED
    BY <1>1, <1>2, SMT DEF SizeT

(* A length of 16 bits is gone after two bytes, and one of 64 bits after    *)
(* eight.                                                                   *)
LEMMA ShiftedOut ==
  ASSUME NEW n \in Nat
  PROVE  /\ n < 2^16 => Shifted(n, 2) = 0
         /\ n \in SizeT => Shifted(n, 8) = 0
  <1>1. /\ Shifted(n, 0) = n
        /\ \A k \in 1..8 : Shifted(n, k) = Shifted(n, k - 1) \div 256
        /\ \A k \in 0..8 : Shifted(n, k) \in Nat
    BY ShiftedStep
  <1>4. n < 65536 => Shifted(n, 2) = 0
    BY <1>1
  <1>5. ASSUME n < 4294967296 * 4294967296 PROVE Shifted(n, 8) = 0
    <2>1. Shifted(n, 1) < 72057594037927936
      BY <1>1, <1>5
    <2>2. Shifted(n, 2) < 281474976710656
      BY <1>1, <2>1
    <2>3. Shifted(n, 3) < 1099511627776
      BY <1>1, <2>2
    <2>4. Shifted(n, 4) < 4294967296
      BY <1>1, <2>3
    <2>5. Shifted(n, 5) < 16777216
      BY <1>1, <2>4
    <2>6. Shifted(n, 6) < 65536
      BY <1>1, <2>5
    <2>7. Shifted(n, 7) < 256
      BY <1>1, <2>6
    <2> QED
      BY <1>1, <2>7
  <1> QED
    BY <1>4, <1>5, Powers, SMT

(* Bytes behind bytes.                                                      *)
LEMMA ConcatBytes ==
  ASSUME NEW x \in Seq(Byte), NEW y \in Seq(Byte), NEW z, z = x \o y
  PROVE  /\ z \in Seq(Byte)
         /\ Len(z) = Len(x) + Len(y)
         /\ \A i \in 1..Len(x) : z[i] = x[i]
         /\ \A i \in 1..Len(y) : z[Len(x) + i] = y[i]
  OBVIOUS

(* What GET_FIN and GET_MASK give is a truth value.                         *)
LEMMA HighBit ==
  \A b \in 0..255, set \in BOOLEAN : (set <=> b >= 128) => set = (b >= 128)
  OBVIOUS

(* The header that is written, byte by byte.                                *)
HeaderIs(len, op) ==
  /\ ExtSent(len) \in {0, 2, 8}
  /\ Header(len, op) \in Seq(Byte)
  /\ Len(Header(len, op)) = 2 + ExtSent(len)
  /\ Header(len, op)[1] = 128 + op
  /\ Header(len, op)[2] = IF ExtSent(len) = 0 THEN len
                          ELSE IF ExtSent(len) = 2 THEN 126 ELSE 127
  /\ ExtSent(len) = 0 => len < 126
  /\ ExtSent(len) = 2 => len < 2^16
  /\ \A j \in 1..ExtSent(len) :
       Header(len, op)[2 + j] = Shifted(len, ExtSent(len) - j) % 256

(* inter_send writes these bytes.                                           *)
LEMMA HeaderBytes ==
  ASSUME NEW len \in Nat, NEW op \in {WS_TEXT, WS_PONG}
  PROVE  HeaderIs(len, op)
  <1>1. \A k \in 0..8 : Shifted(len, k) \in Nat
    BY ShiftedStep
  <1>2. 128 + op \in Byte
    BY DEF WS_TEXT, WS_PONG, Byte
  <1>3. \A x \in Nat : x % 256 \in Byte
    BY DEF Byte
  <1>4. 2^16 = 65536
    BY Powers, SMT
  <1>5. CASE len < 126
    <2>1. ExtSent(len) = 0
      BY <1>5 DEF ExtSent
    <2>2. Header(len, op) = <<128 + op>> \o <<len>>
      BY <1>5, Zenon DEF Header
    <2>3. len \in Byte
      BY <1>5 DEF Byte
    <2> QED
      BY <1>2, <1>5, <2>1, <2>2, <2>3 DEF HeaderIs
  <1>6. CASE len >= 126 /\ len < 2^16
    <2>1. ExtSent(len) = 2
      BY <1>4, <1>6, SMT DEF ExtSent
    <2> DEFINE a == Shifted(len, 1) % 256
               b == Shifted(len, 0) % 256
    <2>2. Header(len, op) = <<128 + op>> \o <<126, a, b>>
      <3>1. ~(len < 126)
        BY <1>6
      <3> QED
        BY <1>6, <3>1, Zenon DEF Header, ByteOf
    <2>3. a \in Byte /\ b \in Byte /\ 126 \in Byte
      BY <1>1, <1>3 DEF Byte
    <2>4. \A j \in 1..2 : Header(len, op)[2 + j] = Shifted(len, 2 - j) % 256
      <3> TAKE j \in 1..2
      <3>1. j = 1 \/ j = 2
        OBVIOUS
      <3> QED
        BY <2>2, <3>1
    <2> HIDE DEF a, b
    <2> QED
      BY <1>2, <1>6, <2>1, <2>2, <2>3, <2>4 DEF HeaderIs
  <1>7. CASE len >= 126 /\ ~(len < 2^16)
    <2>1. ExtSent(len) = 8
      BY <1>4, <1>7, SMT DEF ExtSent
    <2> DEFINE low == [i \in 1..8 |-> ByteOf(len, 8 - i)]
    <2>2. Header(len, op) = <<128 + op>> \o (<<127>> \o low)
      <3>1. ~(len < 126)
        BY <1>7
      <3> QED
        BY <1>7, <3>1, Zenon DEF Header
    <2>3. \A i \in 1..8 : low[i] = Shifted(len, 8 - i) % 256
      BY DEF ByteOf
    <2>4. \A i \in 1..8 : low[i] \in Byte
      BY <1>1, <1>3, <2>3
    <2>5. low \in Seq(Byte) /\ Len(low) = 8
      <3>1. low \in [1..8 -> Byte]
        BY <2>4
      <3> QED
        BY <3>1
    <2> HIDE DEF low
    <2>6. 127 \in Byte
      BY DEF Byte
    <2> DEFINE rest == <<127>> \o low
    <2>a. /\ rest \in Seq(Byte) /\ Len(rest) = 9 /\ rest[1] = 127
          /\ \A j \in 1..8 : rest[1 + j] = low[j]
      <3> DEFINE first == <<127>>
      <3>1. first \in Seq(Byte) /\ low \in Seq(Byte)
        BY <2>5, <2>6
      <3>4. Len(first) = 1 /\ first[1] = 127
        OBVIOUS
      <3>2. rest = first \o low
        OBVIOUS
      <3> HIDE DEF first, rest
      <3>3. /\ rest \in Seq(Byte)
            /\ Len(rest) = Len(first) + Len(low)
            /\ \A i \in 1..Len(first) : rest[i] = first[i]
            /\ \A i \in 1..Len(low) : rest[Len(first) + i] = low[i]
        BY <3>1, <3>2, ConcatBytes
      <3> QED
        BY <2>5, <3>3, <3>4
    <2> HIDE DEF rest
    <2>7. /\ Header(len, op) \in Seq(Byte) /\ Len(Header(len, op)) = 10
          /\ Header(len, op)[1] = 128 + op /\ Header(len, op)[2] = 127
          /\ \A j \in 1..8 : Header(len, op)[2 + j] = low[j]
      BY <1>2, <2>2, <2>a DEF rest
    <2> QED
      BY <2>1, <2>3, <2>7 DEF HeaderIs
  <1> QED
    BY <1>4, <1>5, <1>6, <1>7, SMT

(* Shifted back byte by byte the length is what it was.                     *)
LEMMA SizesAre ==
  ASSUME NEW len \in SizeT
  PROVE  /\ SizesSent(len) \in Seq(Nat)
         /\ Len(SizesSent(len)) = ExtSent(len) + 1
         /\ SizesSent(len)[ExtSent(len) + 1] = len
         /\ ExtSent(len) # 0 => SizesSent(len)[1] = 0
         /\ \A j \in 1..ExtSent(len) :
              SizesSent(len)[j + 1] =
                256 * SizesSent(len)[j] + (Shifted(len, ExtSent(len) - j) % 256)
  <1> DEFINE e == ExtSent(len)
  <1>0. len \in Nat
    BY Powers, SMT
  <1>1. /\ Shifted(len, 0) = len
        /\ \A k \in 1..8 : Shifted(len, k) = Shifted(len, k - 1) \div 256
        /\ \A k \in 0..8 : Shifted(len, k) \in Nat
    BY <1>0, ShiftedStep
  <1>2. /\ len < 2^16 => Shifted(len, 2) = 0
        /\ Shifted(len, 8) = 0
    BY <1>0, ShiftedOut
  <1>3. e \in {0, 2, 8} /\ (e = 2 => len < 2^16)
    BY <1>0, HeaderBytes DEF WS_TEXT, HeaderIs
  <1>4. SizesSent(len) = [j \in 1..(e + 1) |-> Shifted(len, e + 1 - j)]
    BY DEF SizesSent
  <1> HIDE DEF e
  <1>5. SizesSent(len) \in [1..(e + 1) -> Nat]
    <2>1. \A j \in 1..(e + 1) : e + 1 - j \in 0..8
      BY <1>3
    <2> QED
      BY <1>1, <1>4, <2>1
  <1>6. SizesSent(len) \in Seq(Nat) /\ Len(SizesSent(len)) = e + 1
    BY <1>3, <1>5
  <1>7. SizesSent(len)[e + 1] = len
    BY <1>1, <1>3, <1>4
  <1>8. e # 0 => SizesSent(len)[1] = 0
    BY <1>2, <1>3, <1>4
  <1>9. ASSUME NEW j \in 1..e
        PROVE  SizesSent(len)[j + 1] = 256 * SizesSent(len)[j] + (Shifted(len, e - j) % 256)
    <2>1. /\ SizesSent(len)[j + 1] = Shifted(len, e - j)
          /\ SizesSent(len)[j] = Shifted(len, e + 1 - j)
      BY <1>3, <1>4
    <2>2. e + 1 - j \in 1..8 /\ e - j \in 0..8 /\ (e + 1 - j) - 1 = e - j
      BY <1>3
    <2>3. Shifted(len, e + 1 - j) = Shifted(len, e - j) \div 256 /\ Shifted(len, e - j) \in Nat
      BY <1>1, <2>2
    <2>4. \A x \in Nat : x = 256 * (x \div 256) + (x % 256)
      OBVIOUS
    <2> QED
      BY <2>1, <2>3, <2>4
  <1> QED
    BY <1>6, <1>7, <1>8, <1>9 DEF e

(* The bytes of s from start on are those of h.                             *)
Holds(s, start, h) == \A i \in 1..Len(h) : s.bytes[start + i] = h[i]

(* Where the parts of a frame are that inter_send writes.                   *)
LEMMA SentEnds ==
  ASSUME NEW len \in SizeT, NEW op \in {WS_TEXT, WS_PONG}, NEW start \in Nat, NEW payload,
         NEW f, f = SentFrame(start, op, payload, len)
  PROVE  /\ ExtLen(f) = ExtSent(len)
         /\ HeadEnd(f) = start + Len(Header(len, op))
         /\ FrameEnd(f) = start + Len(Header(len, op)) + len
         /\ len \in Nat /\ Len(Header(len, op)) \in Nat /\ Len(Header(len, op)) > 0
  <1>0. len \in Nat
    BY Powers, SMT
  <1>1. f.start = start /\ f.mask = FALSE /\ f.sizes = SizesSent(len) /\ f.len = len
    BY DEF SentFrame
  <1>2. ExtSent(len) \in {0, 2, 8} /\ Len(Header(len, op)) = 2 + ExtSent(len)
    <2>1. HeaderIs(len, op)
      BY <1>0, HeaderBytes
    <2> QED
      BY <2>1, Zenon DEF HeaderIs
  <1>3. Len(SizesSent(len)) = ExtSent(len) + 1
    BY SizesAre
  <1>4. ExtLen(f) = ExtSent(len)
    BY <1>1, <1>2, <1>3 DEF ExtLen
  <1>5. HeadEnd(f) = start + Len(Header(len, op))
    BY <1>1, <1>2, <1>4 DEF HeadEnd, KeyAt
  <1>6. FrameEnd(f) = start + Len(Header(len, op)) + len
    BY <1>1, <1>5 DEF FrameEnd
  <1> QED
    BY <1>0, <1>2, <1>4, <1>5, <1>6

(* A frame that begins with the header is laid out as it is described.      *)
LEMMA HeaderLaidOut ==
  ASSUME NEW len \in SizeT, NEW op \in {WS_TEXT, WS_PONG},
         NEW s, NEW start \in Nat, NEW payload, NEW f, f = SentFrame(start, op, payload, len),
         Holds(s, start, Header(len, op))
  PROVE  LaidOut(s, f)
  <1>0. len \in Nat
    BY Powers, SMT
  <1>1. /\ f.start = start /\ f.fin = TRUE /\ f.op = op /\ f.mask = FALSE
        /\ f.sizes = SizesSent(len) /\ f.len = len
    BY DEF SentFrame
  <1>2. /\ ExtSent(len) \in {0, 2, 8}
        /\ Len(Header(len, op)) = 2 + ExtSent(len)
        /\ Header(len, op)[1] = 128 + op
        /\ Header(len, op)[2] = IF ExtSent(len) = 0 THEN len
                                ELSE IF ExtSent(len) = 2 THEN 126 ELSE 127
        /\ ExtSent(len) = 0 => len < 126
        /\ \A j \in 1..ExtSent(len) :
             Header(len, op)[2 + j] = Shifted(len, ExtSent(len) - j) % 256
    <2>1. HeaderIs(len, op)
      BY <1>0, HeaderBytes
    <2> QED
      BY <2>1, Zenon DEF HeaderIs
  <1>3. /\ Len(SizesSent(len)) = ExtSent(len) + 1
        /\ SizesSent(len)[ExtSent(len) + 1] = len
        /\ ExtSent(len) # 0 => SizesSent(len)[1] = 0
        /\ \A j \in 1..ExtSent(len) :
             SizesSent(len)[j + 1] =
               256 * SizesSent(len)[j] + (Shifted(len, ExtSent(len) - j) % 256)
    BY SizesAre
  <1>4. ExtLen(f) = ExtSent(len)
    BY SentEnds
  <1>7. /\ s.bytes[start + 1] = 128 + op
        /\ s.bytes[start + 2] = IF ExtSent(len) = 0 THEN len
                                ELSE IF ExtSent(len) = 2 THEN 126 ELSE 127
        /\ \A j \in 1..ExtSent(len) :
             s.bytes[start + 2 + j] = Shifted(len, ExtSent(len) - j) % 256
    <2>1. ASSUME NEW j \in 1..ExtSent(len)
          PROVE  s.bytes[start + 2 + j] = Shifted(len, ExtSent(len) - j) % 256
      <3>1. 2 + j \in 1..Len(Header(len, op)) /\ start + 2 + j = start + (2 + j)
        BY <1>2
      <3> QED
        BY <1>2, <3>1 DEF Holds
    <2> QED
      BY <1>2, <2>1 DEF Holds
  <1>8. op \in 0..15 /\ (128 + op) % 16 = op /\ 128 + op >= 128
    BY DEF WS_TEXT, WS_PONG
  <1>9. /\ s.bytes[start + 2] % 128 = s.bytes[start + 2]
        /\ s.bytes[start + 2] \in 0..127
    <2>1. s.bytes[start + 2] \in 0..127
      BY <1>0, <1>2, <1>7
    <2>2. \A x \in 0..127 : x % 128 = x
      OBVIOUS
    <2> QED
      BY <2>1, <2>2
  <1>10. IF s.bytes[start + 2] % 128 <= 125
         THEN Len(f.sizes) = 1 /\ f.sizes[1] = s.bytes[start + 2] % 128
         ELSE Len(f.sizes) = (IF s.bytes[start + 2] % 128 = 126 THEN 3 ELSE 9) /\ f.sizes[1] = 0
    <2>1. CASE ExtSent(len) = 0
      <3>1. /\ s.bytes[start + 2] % 128 = len /\ len <= 125
            /\ Len(f.sizes) = 1 /\ f.sizes[1] = len
        BY <1>0, <1>1, <1>2, <1>3, <1>7, <1>9, <2>1
      <3> QED
        BY <3>1
    <2>2. CASE ExtSent(len) = 2
      <3>1. s.bytes[start + 2] % 128 = 126 /\ Len(f.sizes) = 3 /\ f.sizes[1] = 0
        BY <1>1, <1>3, <1>7, <1>9, <2>2
      <3> QED
        BY <3>1
    <2>3. CASE ExtSent(len) = 8
      <3>1. s.bytes[start + 2] % 128 = 127 /\ Len(f.sizes) = 9 /\ f.sizes[1] = 0
        BY <1>1, <1>3, <1>7, <1>9, <2>3
      <3> QED
        BY <3>1
    <2> QED
      BY <1>2, <2>1, <2>2, <2>3
  <1>11. \A j \in 1..ExtLen(f) :
           f.sizes[j + 1] = 256 * f.sizes[j] + s.bytes[f.start + 2 + j]
    <2> TAKE j \in 1..ExtLen(f)
    <2>1. j \in 1..ExtSent(len)
      BY <1>4
    <2>2. s.bytes[start + 2 + j] = Shifted(len, ExtSent(len) - j) % 256
      BY <1>7, <2>1
    <2>3. SizesSent(len)[j + 1] =
            256 * SizesSent(len)[j] + (Shifted(len, ExtSent(len) - j) % 256)
      BY <1>3, <2>1
    <2> QED
      BY <1>1, <2>2, <2>3
  <1> QED
    <2>1. f.fin = (s.bytes[f.start + 1] >= 128) /\ f.op = s.bytes[f.start + 1] % 16
      BY <1>1, <1>7, <1>8
    <2>2. f.mask = (s.bytes[f.start + 2] >= 128)
      <3>1. s.bytes[f.start + 2] \in 0..127
        BY <1>1, <1>9
      <3>2. s.bytes[f.start + 2] \in 0..255 /\ ~(s.bytes[f.start + 2] >= 128)
        BY <3>1
      <3>3. f.mask \in BOOLEAN /\ ~f.mask
        BY <1>1
      <3> QED
        BY <3>2, <3>3, HighBit, Zenon
    <2>4. IF s.bytes[f.start + 2] % 128 <= 125
          THEN Len(f.sizes) = 1 /\ f.sizes[1] = s.bytes[f.start + 2] % 128
          ELSE Len(f.sizes) = (IF s.bytes[f.start + 2] % 128 = 126 THEN 3 ELSE 9) /\ f.sizes[1] = 0
      BY <1>1, <1>10
    <2>3. f.len = f.sizes[Len(f.sizes)]
      BY <1>1, <1>3
    <2> QED
      BY <1>11, <2>1, <2>2, <2>3, <2>4, Zenon DEF LaidOut

(* A set of numbers has a least member.                                     *)
LEMMA Least ==
  ASSUME NEW B \in SUBSET Nat, B # {}
  PROVE  \E m \in B : \A k \in B : m <= k
  <1> DEFINE R == {p \in Nat \X Nat : p[1] < p[2]}
  <1>1. IsWellFoundedOn(R, Nat)
    BY NatLessThanWellFounded DEF OpToRel
  <1> HIDE DEF R
  <1>2. PICK m \in B : \A k \in B : ~(<<k, m>> \in R)
    BY <1>1, WFMin
  <1>3. ASSUME NEW k \in B PROVE m <= k
    <2>1. k \in Nat /\ m \in Nat /\ ~(<<k, m>> \in R)
      BY <1>2
    <2>2. ~(k < m)
      BY <2>1 DEF R
    <2> QED
      BY <2>1, <2>2
  <1> QED
    BY <1>3

(* The calls send payloads that the parser of the other side would take.    *)
Sendable(calls) ==
  \A i \in 1..Len(calls) :
    /\ Len(calls[i].payload) \in SizeT
    /\ Len(calls[i].payload) <= LimitPayloadLen

(* A frame that inter_send writes is a frame.                               *)
LEMMA SentType ==
  ASSUME NEW len \in SizeT, NEW op \in {WS_TEXT, WS_PONG}, NEW start \in Nat,
         NEW payload \in Seq(Byte)
  PROVE  SentFrame(start, op, payload, len) \in FrameType
  <1>1. SizesSent(len) \in Seq(Nat)
    BY SizesAre
  <1>2. len \in Nat /\ op \in 0..15
    BY Powers, SMT DEF WS_TEXT, WS_PONG
  <1> QED
    BY <1>1, <1>2 DEF SentFrame, FrameType

(* The header of a text is the beginning of a stream.                       *)
LEMMA HeaderWellFormed ==
  ASSUME NEW len \in SizeT, len # 0
  PROVE  WellFormed(HeaderOf(len))
  <1> DEFINE s == HeaderOf(len)
             h == Header(len, WS_TEXT)
             f == SentFrame(0, WS_TEXT, <<>>, len)
  <1>1. /\ s.bytes = h /\ s.frames = <<f>> /\ s.last = <<>> /\ s.msgs = <<>>
        /\ s.ends = <<Len(h) + len>> /\ s.empty = <<FALSE>>
        /\ s.disturbed = <<FALSE>> /\ s.oversize = FALSE
    BY Zenon DEF HeaderOf
  <1>2. /\ f.start = 0 /\ f.fin = TRUE /\ f.op = WS_TEXT /\ f.mask = FALSE
        /\ f.len = len /\ f.open = FALSE /\ f.disturbed = FALSE /\ f.opcode = WS_TEXT
        /\ f.payload = <<>>
    BY Zenon DEF SentFrame
  <1>3. /\ HeadEnd(f) = Len(h) /\ FrameEnd(f) = Len(h) + len
        /\ len \in Nat /\ Len(h) \in Nat /\ Len(h) > 0
    <2>1. /\ HeadEnd(f) = 0 + Len(h) /\ FrameEnd(f) = 0 + Len(h) + len
          /\ len \in Nat /\ Len(h) \in Nat /\ Len(h) > 0
      BY SentEnds
    <2> QED
      BY <2>1
  <1>4. h \in Seq(Byte)
    <2>1. HeaderIs(len, WS_TEXT)
      BY <1>3, HeaderBytes
    <2> QED
      BY <2>1, Zenon DEF HeaderIs
  <1>5. f \in FrameType
    <2>1. <<>> \in Seq(Byte) /\ 0 \in Nat
      OBVIOUS
    <2> QED
      BY <2>1, SentType
  <1>6. LaidOut(s, f)
    <2>1. Holds(s, 0, h)
      BY <1>1, <1>3 DEF Holds
    <2> QED
      BY <2>1, HeaderLaidOut
  <1>7. s = [bytes |-> h, frames |-> <<f>>, last |-> <<>>, msgs |-> <<>>,
             ends |-> <<Len(h) + len>>, empty |-> <<FALSE>>, disturbed |-> <<FALSE>>,
             oversize |-> FALSE]
    BY Zenon DEF HeaderOf
  <1> HIDE DEF s, h, f
  <1>8. s \in StreamType
    <2>1. /\ <<f>> \in Seq(FrameType) /\ <<>> \in Seq(Nat) /\ <<>> \in Seq(Message)
          /\ <<Len(h) + len>> \in Seq(Nat) /\ <<FALSE>> \in Seq(BOOLEAN)
      BY <1>3, <1>5
    <2> QED
      BY <1>4, <1>7, <2>1, Zenon DEF StreamType
  <1>9. Len(s.frames) = 1 /\ s.frames[1] = f /\ Len(s.bytes) = Len(h) /\ Len(s.msgs) = 0
    BY <1>1
  <1>10. ~Complete(s, f)
    BY <1>3, <1>9 DEF Complete
  <1>11. FramesFill(s)
    <2>1. HeadEnd(f) <= Len(s.bytes) /\ FrameEnd(f) >= Len(s.bytes) /\ ~(HeadEnd(f) < Len(s.bytes))
      BY <1>3, <1>9
    <2>2. s.oversize = (Oversize(f) /\ HeadEnd(f) < Len(s.bytes))
      BY <1>1, <2>1, Zenon
    <2>3. \A k \in 1..1 : k = 1
      OBVIOUS
    <2>4. 1 \in 1..1 /\ \A k \in 1..(1 - 1) : FALSE
      OBVIOUS
    <2>5. \A j, k \in 1..1 : ~(j < k)
      OBVIOUS
    <2>6. 1 > 0
      OBVIOUS
    <2> QED
      BY <1>2, <1>6, <1>9, <2>1, <2>2, <2>3, <2>4, <2>5, <2>6, Zenon DEF FramesFill
  <1>12. ASSUME NEW k \in 1..1 PROVE Fragmented(s, k) /\ Gathered(s, k)
    <2>1. k = 1 /\ ~InMessage(s, k)
      BY DEF InMessage
    <2>2. ~Control(f) /\ f.op # 0
      BY <1>2 DEF Control, WS_TEXT
    <2>3. Fragmented(s, k)
      BY <1>2, <1>9, <2>1, <2>2, Zenon DEF Fragmented
    <2>4. Gathered(s, k)
      BY <1>2, <1>9, <1>10, <2>1, Zenon DEF Gathered
    <2> QED
      BY <2>3, <2>4
  <1>13. MessagesEnd(s)
    <2>1. /\ Len(s.last) = 0 /\ Len(s.ends) >= 0 /\ Len(s.empty) >= 0 /\ Len(s.disturbed) >= 0
      BY <1>1
    <2>2. \A i \in 1..0 : FALSE
      OBVIOUS
    <2>3. \A k \in 1..1 : s.frames[k] = f
      BY <1>9
    <2> QED
      BY <1>9, <1>10, <2>1, <2>2, <2>3, Zenon DEF MessagesEnd
  <1> QED
    BY <1>8, <1>9, <1>11, <1>12, <1>13, Zenon DEF WellFormed, s

(* What the calls of inter_send write is the frames, each with the bytes    *)
(* that were to be sent, one behind the other.                              *)
LEMMA WrittenFrames ==
  ASSUME NEW calls \in Seq(Call), NEW s \in StreamType, Written(s, calls), Sendable(calls),
         NEW i \in 1..Len(calls)
  PROVE  LET f == s.frames[i]
             c == calls[i]
         IN  /\ f.start \in Nat /\ FrameEnd(f) \in Nat /\ f.start < FrameEnd(f)
             /\ c.opcode \in {WS_TEXT, WS_PONG} /\ c.payload \in Seq(Byte)
             /\ Len(c.payload) \in SizeT
             /\ f = SentFrame(f.start, c.opcode, c.payload, Len(c.payload))
             /\ HeadEnd(f) = f.start + Len(Header(Len(c.payload), c.opcode))
             /\ FrameEnd(f) = HeadEnd(f) + Len(c.payload)
             /\ Len(Header(Len(c.payload), c.opcode)) \in Nat
  <1> DEFINE f == s.frames[i]
             c == calls[i]
  <1>1. c \in Call
    OBVIOUS
  <1>2. c.opcode \in {WS_TEXT, WS_PONG} /\ c.payload \in Seq(Byte)
    BY <1>1 DEF Call
  <1>3. Len(c.payload) \in SizeT
    BY DEF Sendable
  <1>4. s.frames \in Seq(FrameType)
    BY DEF StreamType
  <1>5. i \in 1..Len(s.frames)
    BY DEF Written
  <1>6. f \in FrameType
    BY <1>4, <1>5
  <1>7. f.start \in Nat
    BY <1>6 DEF FrameType
  <1>8. f = SentFrame(f.start, c.opcode, c.payload, Len(c.payload))
    BY Zenon DEF Written
  <1> HIDE DEF f, c
  <1>9. /\ HeadEnd(f) = f.start + Len(Header(Len(c.payload), c.opcode))
        /\ FrameEnd(f) = f.start + Len(Header(Len(c.payload), c.opcode)) + Len(c.payload)
        /\ Len(c.payload) \in Nat /\ Len(Header(Len(c.payload), c.opcode)) \in Nat
        /\ Len(Header(Len(c.payload), c.opcode)) > 0
    <2> DEFINE start == f.start
               len   == Len(c.payload)
               op    == c.opcode
               pay   == c.payload
    <2>1. /\ start \in Nat /\ len \in SizeT /\ op \in {WS_TEXT, WS_PONG}
          /\ f = SentFrame(start, op, pay, len)
      BY <1>2, <1>3, <1>7, <1>8, Zenon
    <2> HIDE DEF start, len, op, pay
    <2>2. /\ HeadEnd(f) = start + Len(Header(len, op))
          /\ FrameEnd(f) = start + Len(Header(len, op)) + len
          /\ len \in Nat /\ Len(Header(len, op)) \in Nat /\ Len(Header(len, op)) > 0
      BY <2>1, SentEnds
    <2> QED
      BY <2>2, Zenon DEF start, len, op
  <1>10. /\ FrameEnd(f) \in Nat /\ f.start < FrameEnd(f)
         /\ FrameEnd(f) = HeadEnd(f) + Len(c.payload)
    BY <1>7, <1>9
  <1> QED
    BY <1>2, <1>3, <1>7, <1>8, <1>9, <1>10, Zenon DEF f, c

(* Frames that follow each other are in order: no k is the least that       *)
(* begins before an earlier one has ended.                                  *)
LEMMA WrittenOrder ==
  ASSUME NEW calls \in Seq(Call), NEW s \in StreamType, Written(s, calls), Sendable(calls)
  PROVE  /\ \A j, k \in 1..Len(calls) : j < k => FrameEnd(s.frames[j]) <= s.frames[k].start
         /\ \A k \in 1..Len(calls) :
              /\ FrameEnd(s.frames[k]) <= Len(s.bytes)
              /\ k < Len(calls) => FrameEnd(s.frames[k]) < Len(s.bytes)
         /\ Len(calls) \in Nat \ {0}
  <1> DEFINE n == Len(calls)
             A(k) == s.frames[k].start
             E(k) == FrameEnd(s.frames[k])
  <1>1. \A k \in 1..n : A(k) \in Nat /\ E(k) \in Nat /\ A(k) < E(k)
    BY WrittenFrames
  <1>2. /\ n \in Nat \ {0} /\ E(n) = Len(s.bytes)
        /\ \A k \in 1..(n - 1) : A(k + 1) = E(k)
    BY DEF Written
  <1> HIDE DEF n, A, E
  <1>3. ASSUME NEW j \in 1..n, NEW x \in 1..n, j < x, ~(E(j) <= A(x)) PROVE FALSE
    <2> DEFINE B == {k \in 1..n : j < k /\ ~(E(j) <= A(k))}
    <2>1. PICK k \in B : \A y \in B : k <= y
      <3>1. B \in SUBSET Nat /\ B # {}
        BY <1>2, <1>3
      <3> QED
        BY <3>1, Least
    <2>2. k \in 1..n /\ j < k /\ ~(E(j) <= A(k))
      BY <2>1
    <2>3. k - 1 \in 1..n /\ k - 1 \in 1..(n - 1) /\ (k - 1) + 1 = k
      BY <1>2, <2>2
    <2>4. A(k) = E(k - 1) /\ A(k - 1) < E(k - 1)
      BY <1>1, <1>2, <2>3
    <2>5. CASE k - 1 = j
      BY <1>1, <2>2, <2>3, <2>4, <2>5
    <2>6. CASE k - 1 # j
      <3>1. j < k - 1 /\ ~(k - 1 \in B)
        BY <2>1, <2>2, <2>3, <2>6
      <3>2. E(j) <= A(k - 1)
        BY <2>3, <3>1
      <3> QED
        BY <1>1, <2>2, <2>3, <2>4, <3>2
    <2> QED
      BY <2>5, <2>6
  <1>4. \A k \in 1..n : E(k) <= Len(s.bytes) /\ (k < n => E(k) < Len(s.bytes))
    <2> TAKE k \in 1..n
    <2>1. CASE k = n
      BY <1>1, <1>2, <2>1
    <2>2. CASE k < n
      <3>1. n \in 1..n /\ E(k) <= A(n)
        BY <1>2, <1>3, <2>2
      <3> QED
        BY <1>1, <1>2, <3>1
    <2> QED
      BY <1>2, <2>1, <2>2
  <1>5. \A j, k \in 1..n : j < k => E(j) <= A(k)
    BY <1>3
  <1> QED
    BY <1>2, <1>4, <1>5 DEF n, A, E

(* The bytes behind the first a ones, up to the e-th.                       *)
LEMMA PartOf ==
  ASSUME NEW b \in Seq(Byte), NEW a \in Nat, NEW e \in Nat, a <= e, e <= Len(b),
         NEW w, SubSeq(b, a + 1, e) = w
  PROVE  \A j \in 1..Len(w) : b[a + j] = w[j]
  <1> DEFINE m == a + 1
  <1>1. m \in Int /\ e \in Int /\ \A i \in m..e : b[i] \in Byte
    OBVIOUS
  <1>2. SubSeq(b, m, e) = w
    OBVIOUS
  <1> HIDE DEF m
  <1>3. /\ Len(w) = IF m <= e THEN e - m + 1 ELSE 0
        /\ \A i \in 1..(e - m + 1) : w[i] = b[m + i - 1]
    BY <1>1, <1>2, SubSeqProperties
  <1>4. ASSUME NEW j \in 1..Len(w) PROVE b[a + j] = w[j]
    <2>1. j \in 1..(e - m + 1) /\ m + j - 1 = a + j
      BY <1>3 DEF m
    <2> QED
      BY <1>3, <2>1
  <1> QED
    BY <1>4

(* The bytes of a frame, and what they mean.                                *)
LEMMA WrittenBytes ==
  ASSUME NEW calls \in Seq(Call), NEW s \in StreamType, Written(s, calls), Sendable(calls),
         NEW i \in 1..Len(calls)
  PROVE  /\ LaidOut(s, s.frames[i])
         /\ Content(s, s.frames[i]) = calls[i].payload
  <1> DEFINE f == s.frames[i]
             c == calls[i]
             h == Header(Len(c.payload), c.opcode)
             w == InterSend(c.payload, c.opcode)
  <1>1. /\ f.start \in Nat /\ FrameEnd(f) \in Nat /\ f.start < FrameEnd(f)
        /\ c.opcode \in {WS_TEXT, WS_PONG} /\ c.payload \in Seq(Byte)
        /\ Len(c.payload) \in SizeT
        /\ f = SentFrame(f.start, c.opcode, c.payload, Len(c.payload))
        /\ HeadEnd(f) = f.start + Len(h)
        /\ FrameEnd(f) = HeadEnd(f) + Len(c.payload)
        /\ Len(h) \in Nat
    BY WrittenFrames
  <1>2. /\ s.bytes \in Seq(Byte) /\ FrameEnd(f) <= Len(s.bytes)
        /\ SubSeq(s.bytes, f.start + 1, FrameEnd(f)) = w
    BY WrittenOrder DEF Written
  <1>3. h \in Seq(Byte) /\ w = h \o c.payload /\ Len(c.payload) \in Nat
    <2>1. Len(c.payload) \in Nat
      BY <1>1
    <2>2. HeaderIs(Len(c.payload), c.opcode)
      BY <1>1, <2>1, HeaderBytes
    <2> QED
      BY <2>1, <2>2, Zenon DEF HeaderIs, InterSend
  <1>4. /\ f.len = Len(c.payload) /\ f.mask = FALSE
    BY <1>1 DEF SentFrame
  <1> HIDE DEF f, h, c, w
  <1>5. /\ Len(w) = Len(h) + Len(c.payload)
        /\ \A j \in 1..Len(h) : w[j] = h[j]
        /\ \A j \in 1..Len(c.payload) : w[Len(h) + j] = c.payload[j]
    BY <1>1, <1>3, ConcatBytes
  <1>6. \A j \in 1..Len(w) : s.bytes[f.start + j] = w[j]
    <2> DEFINE b == s.bytes
               a == f.start
               e == FrameEnd(f)
    <2>1. b \in Seq(Byte) /\ a \in Nat /\ e \in Nat /\ a <= e /\ e <= Len(b)
      BY <1>1, <1>2
    <2>2. SubSeq(b, a + 1, e) = w
      BY <1>2, Zenon
    <2> HIDE DEF b, a, e
    <2>3. \A j \in 1..Len(w) : b[a + j] = w[j]
      BY <2>1, <2>2, PartOf
    <2> QED
      BY <2>3, Zenon DEF a, b
  <1>7. LaidOut(s, f)
    <2>1. Holds(s, f.start, h)
      BY <1>1, <1>3, <1>5, <1>6 DEF Holds
    <2> QED
      BY <1>1, <2>1, HeaderLaidOut, Zenon DEF h
  <1>8. Content(s, f) = c.payload
    <2>1. ASSUME NEW j \in 1..f.len PROVE ContentAt(s, f, j) = c.payload[j]
      <3>1. Len(h) + j \in 1..Len(w) /\ j \in 1..Len(c.payload)
        BY <1>1, <1>3, <1>4, <1>5
      <3>2. s.bytes[HeadEnd(f) + j] = w[Len(h) + j]
        <4>1. HeadEnd(f) + j = f.start + (Len(h) + j)
          BY <1>1
        <4> QED
          BY <1>6, <3>1, <4>1
      <3> QED
        BY <1>4, <1>5, <3>1, <3>2 DEF ContentAt
    <2>2. c.payload = [j \in 1..Len(c.payload) |-> c.payload[j]]
      BY <1>1
    <2> QED
      BY <1>4, <2>1, <2>2, Zenon DEF Content
  <1> QED
    BY <1>7, <1>8 DEF f, c

(* What the calls of inter_send write is a stream of whole messages.        *)
LEMMA WrittenWellFormed ==
  ASSUME NEW calls \in Seq(Call), NEW s \in StreamType, Written(s, calls), Sendable(calls)
  PROVE  WellFormed(s)
  <1> DEFINE n == Len(calls)
             f(i) == s.frames[i]
             c(i) == calls[i]
  <1>1. /\ n \in Nat \ {0} /\ Len(s.frames) = n /\ n \in 1..n
        /\ \A j, k \in 1..n : j < k => FrameEnd(f(j)) <= f(k).start
        /\ \A k \in 1..n : FrameEnd(f(k)) <= Len(s.bytes)
    <2>1. /\ n \in Nat \ {0}
          /\ \A j, k \in 1..n : j < k => FrameEnd(f(j)) <= f(k).start
          /\ \A k \in 1..n : FrameEnd(f(k)) <= Len(s.bytes)
      BY WrittenOrder
    <2>2. Len(s.frames) = n
      BY Zenon DEF Written
    <2>3. n \in 1..n
      BY <2>1
    <2> QED
      BY <2>1, <2>2, <2>3, Zenon
  <1>2. \A i \in 1..n : LaidOut(s, f(i)) /\ Content(s, f(i)) = c(i).payload
    BY WrittenBytes
  <1>3. \A i \in 1..n : /\ f(i) = SentFrame(f(i).start, c(i).opcode, c(i).payload, Len(c(i).payload))
                        /\ c(i).opcode \in {WS_TEXT, WS_PONG} /\ c(i).payload \in Seq(Byte)
                        /\ FrameEnd(f(i)) \in Nat /\ HeadEnd(f(i)) <= FrameEnd(f(i))
    <2> TAKE i \in 1..n
    <2>1. /\ f(i) = SentFrame(f(i).start, c(i).opcode, c(i).payload, Len(c(i).payload))
          /\ c(i).opcode \in {WS_TEXT, WS_PONG} /\ c(i).payload \in Seq(Byte)
          /\ f(i).start \in Nat /\ FrameEnd(f(i)) \in Nat
          /\ HeadEnd(f(i)) = f(i).start + Len(Header(Len(c(i).payload), c(i).opcode))
          /\ FrameEnd(f(i)) = HeadEnd(f(i)) + Len(c(i).payload)
          /\ Len(Header(Len(c(i).payload), c(i).opcode)) \in Nat
      BY WrittenFrames
    <2> HIDE DEF f, c
    <2>2. Len(c(i).payload) \in Nat
      BY <2>1
    <2> QED
      BY <2>1, <2>2
  <1>4. \A i \in 1..n : /\ f(i).fin = TRUE /\ f(i).op = c(i).opcode /\ f(i).mask = FALSE
                        /\ f(i).len = Len(c(i).payload) /\ f(i).open = FALSE
                        /\ f(i).disturbed = FALSE /\ f(i).opcode = c(i).opcode
                        /\ f(i).payload = c(i).payload
    <2> TAKE i \in 1..n
    <2>1. f(i) = SentFrame(f(i).start, c(i).opcode, c(i).payload, Len(c(i).payload))
      BY <1>3
    <2> HIDE DEF f, c
    <2> QED
      BY <2>1 DEF SentFrame
  <1>5. /\ s.frames[1].start = 0 /\ s.bytes \in Seq(Byte)
        /\ Len(s.bytes) = FrameEnd(f(n)) /\ s.oversize = FALSE
        /\ \A k \in 1..(n - 1) : f(k + 1).start = FrameEnd(f(k))
    BY DEF Written
  <1>6. \A i \in 1..n : ~Oversize(f(i))
    <2> TAKE i \in 1..n
    <2>1. f(i).len = Len(c(i).payload) /\ Len(c(i).payload) <= LimitPayloadLen
      BY <1>4 DEF Sendable
    <2>2. Len(c(i).payload) \in Nat
      BY <1>3
    <2> QED
      BY <2>1, <2>2, LimitAssumption DEF Oversize
  <1>7. \A i \in 1..n : Complete(s, f(i))
    BY <1>1 DEF Complete
  <1> HIDE DEF f, c, n
  <1>8. FramesFill(s)
    <2>1. n > 0
      BY <1>1
    <2>2. \A k \in 1..n : HeadEnd(f(k)) <= Len(s.bytes)
      <3> TAKE k \in 1..n
      <3>1. FrameEnd(f(k)) <= Len(s.bytes) /\ FrameEnd(f(k)) \in Nat /\ HeadEnd(f(k)) <= FrameEnd(f(k))
        BY <1>1, <1>3
      <3>2. HeadEnd(f(k)) \in Nat /\ Len(s.bytes) \in Nat
        <4>1. /\ f(k).start \in Nat
              /\ HeadEnd(f(k)) = f(k).start + Len(Header(Len(c(k).payload), c(k).opcode))
              /\ Len(Header(Len(c(k).payload), c(k).opcode)) \in Nat
          BY WrittenFrames DEF f, c, n
        <4> QED
          BY <1>5, <4>1
      <3> QED
        BY <3>1, <3>2
    <2>3. \A k \in 1..(n - 1) : f(k + 1).start = FrameEnd(f(k)) /\ ~Oversize(f(k))
      BY <1>1, <1>5, <1>6
    <2>4. FrameEnd(f(n)) >= Len(s.bytes)
      BY <1>5
    <2>5. s.oversize = (Oversize(f(n)) /\ HeadEnd(f(n)) < Len(s.bytes))
      BY <1>1, <1>5, <1>6, Zenon
    <2> QED
      BY <1>1, <1>2, <1>5, <2>1, <2>2, <2>3, <2>4, <2>5, Zenon DEF FramesFill, f
  <1>9. ASSUME NEW k \in 1..n PROVE Fragmented(s, k) /\ Gathered(s, k)
    <2>1. ~InMessage(s, k)
      BY <1>1, <1>4 DEF InMessage, f
    <2>2. /\ f(k).op # 0
      BY <1>3, <1>4 DEF WS_TEXT, WS_PONG
    <2>3. Fragmented(s, k)
      <3>1. f(k).open = IF Control(f(k)) THEN InMessage(s, k) ELSE ~f(k).fin
        <4>1. CASE Control(f(k))
          <5>1. f(k).open \in BOOLEAN /\ ~f(k).open
            BY <1>4
          <5>2. InMessage(s, k) \in BOOLEAN
            BY DEF InMessage
          <5> QED
            BY <2>1, <4>1, <5>1, <5>2
        <4>2. CASE ~Control(f(k))
          <5>1. f(k).open \in BOOLEAN /\ ~f(k).open /\ f(k).fin
            BY <1>4
          <5> QED
            BY <4>2, <5>1
        <4> QED
          BY <4>1, <4>2
      <3>2. f(k).disturbed = (InMessage(s, k) /\ (Control(f(k)) \/ s.frames[k - 1].disturbed))
        BY <1>4, <2>1, Zenon
      <3> QED
        BY <1>4, <2>1, <2>2, <3>1, <3>2, Zenon DEF Fragmented, f
    <2>4. <<>> \o Content(s, f(k)) = f(k).payload
      <3>1. Content(s, f(k)) \in Seq(Byte) /\ Content(s, f(k)) = f(k).payload
        BY <1>2, <1>3, <1>4
      <3>2. \A x \in Seq(Byte) : <<>> \o x = x
        OBVIOUS
      <3> QED
        BY <3>1, <3>2
    <2>5. Gathered(s, k)
      BY <1>4, <2>1, <2>4, Zenon DEF Gathered, f
    <2> QED
      BY <2>3, <2>5
  <1>10. MessagesEnd(s)
    <2>1. /\ s.last = [i \in 1..n |-> i]
          /\ s.msgs = [i \in 1..n |-> [opcode |-> c(i).opcode, mask |-> FALSE,
                                       payload |-> c(i).payload]]
          /\ s.ends = [i \in 1..n |-> FrameEnd(f(i))]
          /\ s.empty = [i \in 1..n |-> c(i).payload = <<>>]
          /\ s.disturbed = [i \in 1..n |-> FALSE]
      BY Zenon DEF Written, n, c, f
    <2>2. /\ Len(s.msgs) = n /\ Len(s.last) = n /\ Len(s.ends) >= n /\ Len(s.empty) >= n
          /\ Len(s.disturbed) >= n
      BY <1>1, <2>1
    <2>3. \A i \in 1..n : /\ s.last[i] = i /\ s.last[i] \in 1..Len(s.frames)
                          /\ s.ends[i] = FrameEnd(f(i)) /\ s.disturbed[i] = f(i).disturbed
                          /\ s.msgs[i] = [opcode |-> f(i).opcode, mask |-> f(i).mask,
                                          payload |-> f(i).payload]
      <3> TAKE i \in 1..n
      <3>1. s.last[i] = i /\ s.last[i] \in 1..Len(s.frames)
        BY <1>1, <2>1
      <3>2. s.ends[i] = FrameEnd(f(i)) /\ s.disturbed[i] = FALSE
        BY <2>1, Zenon
      <3>3. s.msgs[i] = [opcode |-> c(i).opcode, mask |-> FALSE, payload |-> c(i).payload]
        BY <2>1, Zenon
      <3> QED
        BY <1>4, <3>1, <3>2, <3>3, Zenon
    <2>4. \A i \in 1..n : s.empty[i] = (f(i).len = 0)
      <3> TAKE i \in 1..n
      <3>1. s.empty[i] = (c(i).payload = <<>>) /\ f(i).len = Len(c(i).payload)
        BY <1>4, <2>1
      <3>2. c(i).payload = <<>> <=> Len(c(i).payload) = 0
        BY <1>3
      <3> QED
        BY <3>1, <3>2
    <2>5. \A i, j \in 1..n : i < j => s.last[i] < s.last[j]
      BY <2>3
    <2>6. \A k \in 1..n : f(k).fin /\ Complete(s, f(k)) /\ ~Oversize(f(k))
      BY <1>4, <1>6, <1>7
    <2>7. \A k \in 1..n : \E i \in 1..n : s.last[i] = k
      BY <2>3, Zenon
    <2>8. \A i \in 1..n : s.frames[s.last[i]] = f(i)
      BY <2>3, Zenon DEF f
    <2>9. \A i \in 1..Len(s.msgs) : s.last[i] \in 1..Len(s.frames)
      BY <2>2, <2>3, Zenon
    <2>10. \A k \in 1..Len(s.frames) :
             LET g == s.frames[k]
             IN  (\E i \in 1..Len(s.msgs) : s.last[i] = k)
                   <=> (g.fin /\ Complete(s, g) /\ ~Oversize(g))
      BY <1>1, <2>2, <2>6, <2>7, Zenon DEF f
    <2>11. \A i \in 1..Len(s.msgs) :
             LET g == s.frames[s.last[i]]
             IN  /\ s.ends[i] = FrameEnd(g)
                 /\ s.empty[i] = (g.len = 0)
                 /\ s.disturbed[i] = g.disturbed
                 /\ ~g.disturbed =>
                      s.msgs[i] = [opcode |-> g.opcode, mask |-> g.mask, payload |-> g.payload]
      <3> TAKE i \in 1..Len(s.msgs)
      <3>1. i \in 1..n
        BY <2>2
      <3>2. s.frames[s.last[i]] = f(i)
        BY <2>8, <3>1
      <3>3. /\ s.ends[i] = FrameEnd(f(i))
            /\ s.empty[i] = (f(i).len = 0)
            /\ s.disturbed[i] = f(i).disturbed
            /\ s.msgs[i] = [opcode |-> f(i).opcode, mask |-> f(i).mask,
                            payload |-> f(i).payload]
        BY <2>3, <2>4, <3>1, Zenon
      <3> QED
        BY <3>2, <3>3, ZenonT(40)
    <2> QED
      BY <2>2, <2>5, <2>9, <2>10, <2>11, Zenon DEF MessagesEnd
  <1> QED
    BY <1>1, <1>8, <1>9, <1>10, Zenon DEF WellFormed, n

-----------------------------------------------------------------------------
(* After a header of inter_send the parser is in the payload.               *)
LEMMA HeaderPlace ==
  ASSUME TypeOK, ParserInv, StreamInv, NEW len \in SizeT, len # 0, input = HeaderOf(len)
  PROVE  HeaderUnderstood
  <1> SUFFICES ASSUME wire = <<>>, data = <<>>
               PROVE  /\ status = "payload"
                      /\ frame.fin /\ ~frame.mask /\ frame.opcode = WS_TEXT
                      /\ byteNeed = frame.payload_len
                      /\ Consumed + byteNeed = input.ends[1]
    BY Zenon DEF HeaderUnderstood
  <1> DEFINE h == Header(len, WS_TEXT)
             f == SentFrame(0, WS_TEXT, <<>>, len)
  <1>1. WellFormed(input)
    BY HeaderWellFormed
  <1>2. /\ input.bytes = h /\ input.frames = <<f>>
        /\ input.ends = <<Len(h) + len>> /\ input.oversize = FALSE
    BY Zenon DEF HeaderOf
  <1>3. /\ f.fin = TRUE /\ f.mask = FALSE /\ f.len = len /\ f.disturbed = FALSE
        /\ f.opcode = WS_TEXT
    BY Zenon DEF SentFrame
  <1>4. /\ HeadEnd(f) = Len(h) /\ FrameEnd(f) = Len(h) + len
        /\ len \in Nat /\ Len(h) \in Nat
    <2>1. /\ HeadEnd(f) = 0 + Len(h) /\ FrameEnd(f) = 0 + Len(h) + len
          /\ len \in Nat /\ Len(h) \in Nat
      BY SentEnds
    <2> QED
      BY <2>1
  <1> HIDE DEF h, f
  <1>5. K = 1 /\ F(1) = f
    BY <1>2 DEF K, F
  <1>6. err = "SUCCESS"
    BY <1>1, <1>2 DEF StreamInv, Refused
  <1>7. Rest /\ \E k \in 1..(K + 1) : Past(k) /\ Place(k)
    BY <1>1, <1>6 DEF StreamInv
  <1>8. PICK k \in 1..(K + 1) : Place(k)
    BY <1>7
  <1>9. Consumed = Len(h)
    BY <1>2, <1>7, Buffer
  <1>10. k = 1
    <2>1. CASE k = 2
      <3>1. Consumed = StartOf(2)
        BY <1>5, <1>8, <2>1 DEF Place
      <3>2. StartOf(2) = FrameEnd(F(1))
        BY <1>5 DEF StartOf
      <3> QED
        BY <1>4, <1>5, <1>9, <3>1, <3>2
    <2> QED
      BY <1>5, <2>1
  <1>11. status = "payload"
    <2>1. 1 \in 1..K
      BY <1>5
    <2>2. status # "payload" => Consumed < HeadEnd(F(1))
      BY <1>1, <1>8, <1>10, <2>1, NotBeyond
    <2> QED
      BY <1>4, <1>5, <1>9, <2>2
  <1>12. AtPayload(1) /\ frame.fin = F(1).fin
    BY <1>8, <1>10, <1>11 DEF Place
  <1>13. byteNeed \in Nat
    BY DEF TypeOK
  <1>14. byteNeed = len /\ frame.payload_len = len /\ frame.mask = FALSE /\ frame.fin = TRUE
    BY <1>3, <1>4, <1>5, <1>9, <1>12, <1>13 DEF AtPayload
  <1>15. frame.opcode = WS_TEXT
    BY <1>3, <1>5, <1>12 DEF AtPayload, Gathering
  <1>16. Consumed + byteNeed = input.ends[1]
    BY <1>2, <1>9, <1>14
  <1> QED
    BY <1>11, <1>14, <1>15, <1>16, Zenon

(* The calls that were written are the calls of m_onComplete: in order,     *)
(* unchanged, without an error, and once all bytes are read all of them,    *)
(* except that an empty last frame waits for the next byte.                 *)
ReadBack(calls) ==
  /\ err = "SUCCESS"
  /\ Len(delivered) <= Len(calls)
  /\ \A i \in 1..Len(delivered) :
       delivered[i] = [opcode |-> calls[i].opcode, mask |-> FALSE,
                       payload |-> calls[i].payload]
  /\ wire = <<>> /\ data = <<>> =>
       \A i \in 1..Len(calls) :
         i <= Len(delivered) \/ (i = Len(calls) /\ calls[i].payload = <<>>)

(* The invariant says so of every stream that inter_send wrote.             *)
LEMMA WrittenRead ==
  ASSUME TypeOK, ParserInv, StreamInv, NEW calls \in Seq(Call),
         Sendable(calls), Written(input, calls)
  PROVE  ReadBack(calls)
  <1> DEFINE n == Len(calls)
  <1>1. input \in StreamType
    BY DEF TypeOK
  <1>2. WellFormed(input)
    BY <1>1, WrittenWellFormed
  <1>3. /\ n \in Nat /\ n # 0
        /\ \A k \in 1..n : /\ FrameEnd(input.frames[k]) <= Len(input.bytes)
                           /\ k < n => FrameEnd(input.frames[k]) < Len(input.bytes)
    BY <1>1, WrittenOrder
  <1>4. /\ input.msgs = [i \in 1..n |-> [opcode |-> calls[i].opcode, mask |-> FALSE,
                                         payload |-> calls[i].payload]]
        /\ input.ends = [i \in 1..n |-> FrameEnd(input.frames[i])]
        /\ input.empty = [i \in 1..n |-> calls[i].payload = <<>>]
        /\ input.disturbed = [i \in 1..n |-> FALSE]
        /\ input.oversize = FALSE
        /\ Len(input.bytes) = FrameEnd(input.frames[n])
    BY Zenon DEF Written
  <1>5. DeliveredInOrder /\ DeliveredPromptly /\ RefusesOversizeOnly
    BY <1>2, StreamDelivered, StreamPrompt, StreamRefuses
  <1> HIDE DEF n
  <1>6. Len(input.msgs) = n
    BY <1>3, <1>4
  <1>7. err = "SUCCESS"
    BY <1>4, <1>5 DEF RefusesOversizeOnly
  <1>8. Len(delivered) <= n /\ Len(delivered) \in Nat
    BY <1>5, <1>6 DEF DeliveredInOrder, TypeOK
  <1>9. ASSUME NEW i \in 1..Len(delivered)
        PROVE  delivered[i] = [opcode |-> calls[i].opcode, mask |-> FALSE,
                               payload |-> calls[i].payload]
    <2>1. i \in 1..n
      BY <1>3, <1>8
    <2>2. ~input.disturbed[i]
      BY <1>4, <2>1
    <2>3. delivered[i] = input.msgs[i]
      BY <1>5, <2>2 DEF DeliveredInOrder
    <2> QED
      BY <1>4, <2>1, <2>3
  <1>10. ASSUME wire = <<>>, data = <<>>, NEW i \in 1..n
         PROVE  i <= Len(delivered) \/ (i = n /\ calls[i].payload = <<>>)
    <2>1. Consumed = Len(input.bytes)
      <3>1. Len(input.bytes) \in Nat
        BY <1>1 DEF StreamType
      <3> QED
        BY <1>10, <3>1 DEF Consumed
    <2>2. \/ input.ends[i] < Consumed
          \/ input.ends[i] = Consumed /\ ~input.empty[i]
          => i <= Len(delivered)
      BY <1>5, <1>6, <1>7, <1>10 DEF DeliveredPromptly
    <2>3. input.ends[i] = FrameEnd(input.frames[i]) /\ input.empty[i] = (calls[i].payload = <<>>)
      BY <1>4
    <2>4. CASE i = n
      BY <1>4, <2>1, <2>2, <2>3, <2>4
    <2>5. CASE i # n
      <3>1. i < n
        BY <1>3, <2>5
      <3> QED
        BY <1>3, <2>1, <2>2, <2>3, <3>1
    <2> QED
      BY <2>4, <2>5
  <1> QED
    BY <1>7, <1>8, <1>9, <1>10, Zenon DEF ReadBack, n

(* Of every length that size_t can hold: after the header that inter_send   *)
(* writes for it, however it is cut, the parser waits for exactly the       *)
(* payload that was announced, as the whole of an unmasked text message.    *)
THEOREM HeadersUnderstood ==
  Spec => [](\A len \in SizeT \ {0} : input = HeaderOf(len) => HeaderUnderstood)
  <1>1. TypeOK /\ ParserInv /\ StreamInv
        => \A len \in SizeT \ {0} : input = HeaderOf(len) => HeaderUnderstood
    BY HeaderPlace
  <1> QED
    BY <1>1, ParserInvariant, StreamInvariant, PTL

(* The encoder and the decoder of the project agree: whatever texts and     *)
(* answers to pings, within the limit, are sent with inter_send and however *)
(* the bytes are cut into chunks, parse() returns no error and gives        *)
(* m_onComplete what was sent.                                              *)
THEOREM SentIsReadBack ==
  Spec => [](\A calls \in Seq(Call) :
               Sendable(calls) /\ Written(input, calls) => ReadBack(calls))
  <1>1. TypeOK /\ ParserInv /\ StreamInv
        => \A calls \in Seq(Call) :
             Sendable(calls) /\ Written(input, calls) => ReadBack(calls)
    BY WrittenRead
  <1> QED
    BY <1>1, ParserInvariant, StreamInvariant, PTL
=============================================================================
