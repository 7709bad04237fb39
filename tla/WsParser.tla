------------------------------ MODULE WsParser ------------------------------
(***************************************************************************)
(* The incremental WebSocket frame parser of                               *)
(* src/src/core/websocket_parser.cpp.                                      *)
(*                                                                         *)
(* TCP hands the bytes of one connection to websocket_parser::parse() in   *)
(* chunks whose boundaries mean nothing.  The parser keeps its place in    *)
(* the frame format in m_status, m_byteNeed, m_maskIndex and               *)
(* m_isContinuation between calls, and calls m_onComplete for every        *)
(* message.  A call of parse() is the action Receive followed by one step  *)
(* for each turn of its for loop, until the chunk is used up or parse()    *)
(* returns an error.                                                       *)
(***************************************************************************)
EXTENDS WsStreams

CONSTANT
  Streams  \* the connections considered

ASSUME StreamsAssumption == Streams \subseteq StreamType

ASSUME LimitAssumption == LimitPayloadLen \in Nat

ASSUME XorAssumption == \A a, b \in Byte : Xor(a, b) \in Byte

VARIABLES
  input,           \* the stream this connection carries (never changes)
  wire,            \* the bytes of it not yet read from the socket
  data,            \* what the running call of parse() has still to look at
  status,          \* m_status
  byteNeed,        \* m_byteNeed
  isContinuation,  \* m_isContinuation
  maskIndex,       \* m_maskIndex
  frame,           \* *m_frame, the WsFrame of the session
  err,             \* what the latest parse() returns
  delivered        \* history: the messages given to m_onComplete

vars == <<input, wire, data, status, byteNeed, isContinuation, maskIndex,
          frame, err, delivered>>

Status == {"finAndOpcode", "payloadLenAndMask", "payloadLen", "maskKey",
           "payload"}

WsFrame == [fin : BOOLEAN, opcode : 0..15, mask : BOOLEAN,
            payload_len : Nat, mask_key : Seq(Byte), payload : Seq(Byte)]

GET_FIN(ch)         == ch >= 128
GET_OPCODE(ch)      == ch % 16
GET_MASK(ch)        == ch >= 128
GET_PAYLOAD_LEN(ch) == ch % 128

Init ==
  /\ input \in Streams
  /\ wire = input.bytes
  /\ data = <<>>
  /\ status = "finAndOpcode"
  /\ byteNeed = 1
  /\ isContinuation = FALSE
  /\ maskIndex = 0
  /\ frame = [fin |-> FALSE, opcode |-> 0, mask |-> FALSE, payload_len |-> 0,
              mask_key |-> <<>>, payload |-> <<>>]
  /\ err = "SUCCESS"
  /\ delivered = <<>>

-----------------------------------------------------------------------------
(* parse() is called with the next n bytes.  After an error the session     *)
(* stops reading, so there is no further call.                              *)
Receive(n) ==
  /\ data = <<>>
  /\ err = "SUCCESS"
  /\ data' = SubSeq(wire, 1, n)
  /\ wire' = SubSeq(wire, n + 1, Len(wire))
  /\ UNCHANGED <<input, status, byteNeed, isContinuation, maskIndex, frame,
                 err, delivered>>

(* A continuation clears what was gathered.                                 *)
MStartsMessage(ch) == TRUE

(* The first byte of a frame.  A frame that continues a message, and one    *)
(* whose opcode is 0, keeps the opcode and the payload gathered so far.     *)
StartsMessage(ch) == ~isContinuation /\ GET_OPCODE(ch) # 0

FinAndOpcode ==
  /\ data # <<>>
  /\ status = "finAndOpcode"
  /\ frame' = LET ch == Head(data)
                  fr == [frame EXCEPT !.fin = GET_FIN(ch)]
              IN  IF StartsMessage(ch)
                  THEN [fr EXCEPT !.opcode = GET_OPCODE(ch),
                                  !.mask_key = <<>>, !.payload = <<>>]
                  ELSE fr
  /\ status' = "payloadLenAndMask"
  /\ data' = Tail(data)
  /\ UNCHANGED <<input, wire, byteNeed, isContinuation, maskIndex, err,
                 delivered>>

(* SWITCH_TO_MASK: the length of fr is known, its mask key comes next.      *)
SwitchToMask(fr) ==
  IF fr.mask
  THEN /\ status' = "maskKey"
       /\ byteNeed' = 4
       /\ frame' = [fr EXCEPT !.mask_key = <<>>]
  ELSE /\ status' = "payload"
       /\ byteNeed' = fr.payload_len
       /\ frame' = fr

PayloadLenAndMask ==
  /\ data # <<>>
  /\ status = "payloadLenAndMask"
  /\ LET len == GET_PAYLOAD_LEN(Head(data))
         fr  == [frame EXCEPT !.mask = GET_MASK(Head(data)),
                              !.payload_len = IF len <= 125 THEN len ELSE 0]
     IN  IF len <= 125
         THEN SwitchToMask(fr)
         ELSE /\ frame' = fr
              /\ status' = "payloadLen"
              /\ byteNeed' = IF len = 126 THEN 2 ELSE 8
  /\ data' = Tail(data)
  /\ UNCHANGED <<input, wire, isContinuation, maskIndex, err, delivered>>

(* One byte of the extended length, most significant byte first.  At most   *)
(* 8 bytes are shifted in, so the 64 bits of size_t are never exceeded.     *)
PayloadLen ==
  /\ data # <<>>
  /\ status = "payloadLen"
  /\ LET fr == [frame EXCEPT !.payload_len = 256 * @ + Head(data)]
     IN  IF byteNeed = 1
         THEN SwitchToMask(fr)
         ELSE /\ frame' = fr
              /\ byteNeed' = byteNeed - 1
              /\ UNCHANGED status
  /\ data' = Tail(data)
  /\ UNCHANGED <<input, wire, isContinuation, maskIndex, err, delivered>>

MaskKey ==
  /\ data # <<>>
  /\ status = "maskKey"
  /\ frame' = [frame EXCEPT !.mask_key = Append(@, Head(data))]
  /\ IF byteNeed = 1
     THEN status' = "payload" /\ byteNeed' = frame.payload_len
     ELSE UNCHANGED status /\ byteNeed' = byteNeed - 1
  /\ data' = Tail(data)
  /\ UNCHANGED <<input, wire, isContinuation, maskIndex, err, delivered>>

(* The limit is off by one.                                                 *)
MOverLimit == frame.payload_len > LimitPayloadLen + 1

OverLimit == frame.payload_len > LimitPayloadLen

(* A frame longer than the limit is refused when its first payload byte is  *)
(* looked at; the rest of the chunk is dropped.                             *)
PayloadTooLong ==
  /\ data # <<>>
  /\ status = "payload"
  /\ OverLimit
  /\ status' = "finAndOpcode"
  /\ isContinuation' = FALSE
  /\ err' = "INVALID_PAYLOAD_LEN"
  /\ data' = <<>>
  /\ UNCHANGED <<input, wire, byteNeed, maskIndex, frame, delivered>>

(* bytes as they are stored in the payload: with the mask removed, starting *)
(* at m_maskIndex.                                                          *)
Unmask(bytes) ==
  IF frame.mask
  THEN [i \in 1..Len(bytes) |->
          Xor(bytes[i], frame.mask_key[((maskIndex + i - 1) % 4) + 1])]
  ELSE bytes

(* The index starts over with every chunk.                                  *)
MMaskIndexRestarts(n) == IF frame.mask THEN n % 4 ELSE maskIndex

MaskIndexAfter(n) == IF frame.mask THEN (maskIndex + n) % 4 ELSE maskIndex

(* A payload that ends with the chunk is taken for unfinished.              *)
MHoldsRest == byteNeed < Len(data)

(* to_read = m_byteNeed: the chunk holds the rest of the payload.           *)
HoldsRest == byteNeed <= Len(data)

(* The chunk ends inside the payload.                                       *)
PayloadPart ==
  /\ data # <<>>
  /\ status = "payload"
  /\ ~OverLimit
  /\ ~HoldsRest
  /\ frame' = [frame EXCEPT !.payload = @ \o Unmask(data)]
  /\ maskIndex' = MaskIndexAfter(Len(data))
  /\ byteNeed' = byteNeed - Len(data)
  /\ data' = <<>>
  /\ UNCHANGED <<input, wire, status, isContinuation, err, delivered>>

(* The rest of the payload is taken and the case falls through to complete. *)
(* An empty payload is completed here too, without using up the byte that   *)
(* was looked at.                                                           *)
PayloadComplete ==
  /\ data # <<>>
  /\ status = "payload"
  /\ ~OverLimit
  /\ HoldsRest
  /\ LET fr == [frame EXCEPT !.payload = @ \o Unmask(SubSeq(data, 1, byteNeed))]
     IN  /\ frame' = fr
         /\ delivered' = IF fr.fin
                         THEN Append(delivered, [opcode |-> fr.opcode,
                                                 mask |-> fr.mask,
                                                 payload |-> fr.payload])
                         ELSE delivered
  /\ isContinuation' = ~frame.fin
  /\ maskIndex' = 0
  /\ byteNeed' = 0
  /\ status' = "finAndOpcode"
  /\ data' = SubSeq(data, byteNeed + 1, Len(data))
  /\ UNCHANGED <<input, wire, err>>

Next ==
  \/ \E n \in 1..Len(wire) : Receive(n)
  \/ FinAndOpcode
  \/ PayloadLenAndMask
  \/ PayloadLen
  \/ MaskKey
  \/ PayloadTooLong
  \/ PayloadPart
  \/ PayloadComplete

Spec == Init /\ [][Next]_vars

-----------------------------------------------------------------------------
(* The type invariant: the variables of websocket_parser and the fields of  *)
(* WsFrame keep their types.                                                *)
TypeOK ==
  /\ input \in StreamType
  /\ wire \in Seq(Byte)
  /\ data \in Seq(Byte)
  /\ status \in Status
  /\ byteNeed \in Nat
  /\ isContinuation \in BOOLEAN
  /\ maskIndex \in 0..3
  /\ frame \in WsFrame
  /\ err \in {"SUCCESS", "INVALID_PAYLOAD_LEN"}
  /\ delivered \in Seq(Message)

Consumed == Len(input.bytes) - Len(wire) - Len(data)

(* However the bytes are cut into chunks, m_onComplete is called for the    *)
(* messages the peer encoded, in their order, each with its own opcode and  *)
(* unmasked payload, and for none before its last byte was looked at.  A    *)
(* control frame between the fragments of a message is merged into it, for  *)
(* the parser takes its FIN bit for the end of the message: this spoils     *)
(* that message and that control frame, and nothing before or after them.   *)
DeliveredInOrder ==
  /\ Len(delivered) <= Len(input.msgs)
  /\ \A i \in 1..Len(delivered) :
       /\ ~input.disturbed[i] => delivered[i] = input.msgs[i]
       /\ input.ends[i] <= Consumed

(* Between two calls of parse() no complete message is held back: every     *)
(* message whose bytes have arrived was given to m_onComplete, except that  *)
(* one that ends in an empty frame may wait for the next byte.              *)
DeliveredPromptly ==
  data = <<>> /\ err = "SUCCESS" =>
    \A i \in 1..Len(input.msgs) :
      \/ input.ends[i] < Consumed
      \/ input.ends[i] = Consumed /\ ~input.empty[i]
      => i <= Len(delivered)

(* parse() fails exactly on the connections with a frame over the limit,    *)
(* and then every message before that frame was delivered.                  *)
RefusesOversizeOnly ==
  /\ err # "SUCCESS" => input.oversize /\ Len(delivered) = Len(input.msgs)
  /\ data = <<>> /\ wire = <<>> /\ input.oversize => err # "SUCCESS"

(* Whenever a payload byte is unmasked, the key has its 4 bytes and the     *)
(* index is the position of that byte in the payload of its frame, modulo 4 *)
(* (an index outside the vector would be undefined behaviour).              *)
MaskAligned ==
  status = "payload" /\ frame.mask =>
    /\ Len(frame.mask_key) = 4
    /\ maskIndex = (frame.payload_len - byteNeed) % 4

(* Where the parser is in a frame and what its counters say always agree:   *)
(* the inductive invariant.  The extended length and the key are never      *)
(* asked for a byte too many, a payload over the limit is refused before    *)
(* any byte of it is stored, and the mask index is 0 outside payloads.      *)
ParserInv ==
  /\ status # "payload" => maskIndex = 0
  /\ status = "payloadLen" => byteNeed \in 1..8
  /\ status = "maskKey" => /\ frame.mask
                           /\ byteNeed \in 1..4
                           /\ Len(frame.mask_key) + byteNeed = 4
  /\ status = "payload" => /\ byteNeed <= frame.payload_len
                           /\ OverLimit => byteNeed = frame.payload_len
                           /\ ~frame.mask => maskIndex = 0
  /\ MaskAligned
=============================================================================
