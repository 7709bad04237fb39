------------------------------- MODULE WsSend -------------------------------
(***************************************************************************)
(* The frame that WsSession::inter_send writes (src/src/core/              *)
(* WebSocket.cpp): a header for the length of the text, or of what the     *)
(* FileReader has read, and the payload, in one frame and unmasked.  When  *)
(* it is written, and what becomes of the write, is WsSession's.           *)
(***************************************************************************)
EXTENDS Naturals, Sequences

WS_TEXT == 1
WS_PONG == 10

(* payload_len >> (i * 8), and its lowest byte, the uint8_t of it.          *)
Shifted(payload_len, i) ==
  LET shifted[k \in 0..8] ==
        IF k = 0 THEN payload_len ELSE shifted[k - 1] \div 256
  IN  shifted[i]

ByteOf(payload_len, i) == Shifted(payload_len, i) % 256

(* 16 bits are used up to 2^16 and not below.                               *)
MHeader16(payload_len, opcode) ==
  <<128 + opcode>> \o
  (IF payload_len < 126 THEN <<payload_len>>
   ELSE IF payload_len <= 2^16
   THEN <<126, ByteOf(payload_len, 1), ByteOf(payload_len, 0)>>
   ELSE <<127>> \o [i \in 1..8 |-> ByteOf(payload_len, 8 - i)])

Header(payload_len, opcode) ==
  <<128 + opcode>> \o
  (IF payload_len < 126 THEN <<payload_len>>
   ELSE IF payload_len < 2^16
   THEN <<126, ByteOf(payload_len, 1), ByteOf(payload_len, 0)>>
   ELSE <<127>> \o [i \in 1..8 |-> ByteOf(payload_len, 8 - i)])

(* The header and the buffers behind it.                                    *)
InterSend(payload, opcode) == Header(Len(payload), opcode) \o payload

(* send() and sendFile() are WS_TEXT, sendPong() is an empty WS_PONG.       *)
SendText(payload) == InterSend(payload, WS_TEXT)

SendPong == InterSend(<<>>, WS_PONG)

=============================================================================
