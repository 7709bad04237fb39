----------------------------- MODULE WsReadBack -----------------------------
(***************************************************************************)
(* The encoder of the project (WsSend) and its decoder (WsParser) against  *)
(* each other: the streams that WsSession::inter_send writes, described as *)
(* WsStreams describes a stream.  What is meant by the bytes is said by    *)
(* the calls of send() and sendPong(); that the bytes do mean it is a      *)
(* theorem of WsParserProofs.                                              *)
(***************************************************************************)
EXTENDS WsParser, WsSend

(* A call of inter_send.                                                    *)
Call == [opcode : {WS_TEXT, WS_PONG}, payload : Seq(Byte)]

(* How many bytes the extended length has, and what the length is after     *)
(* each of the bytes that it is written with.                               *)
ExtSent(len) == IF len < 126 THEN 0 ELSE IF len < 2^16 THEN 2 ELSE 8

SizesSent(len) ==
  [j \in 1..(ExtSent(len) + 1) |-> Shifted(len, ExtSent(len) + 1 - j)]

(* An unmasked frame that is a message, behind start bytes.                 *)
SentFrame(start, opcode, payload, len) ==
  [start |-> start, fin |-> TRUE, op |-> opcode, mask |-> FALSE,
   sizes |-> SizesSent(len), len |-> len, open |-> FALSE, disturbed |-> FALSE,
   opcode |-> opcode, payload |-> payload]

(* The stream s is what the calls write, one behind the other.              *)
Written(s, calls) ==
  LET n == Len(calls)
  IN  /\ n > 0 /\ Len(s.frames) = n /\ s.frames[1].start = 0
      /\ s.bytes \in Seq(Byte) /\ Len(s.bytes) = FrameEnd(s.frames[n])
      /\ \A i \in 1..(n - 1) : s.frames[i + 1].start = FrameEnd(s.frames[i])
      /\ \A i \in 1..n :
           LET f == s.frames[i]
               c == calls[i]
           IN  /\ f = SentFrame(f.start, c.opcode, c.payload, Len(c.payload))
               /\ SubSeq(s.bytes, f.start + 1, FrameEnd(f)) = InterSend(c.payload, c.opcode)
      /\ s.last = [i \in 1..n |-> i]
      /\ s.msgs = [i \in 1..n |-> [opcode |-> calls[i].opcode, mask |-> FALSE,
                                   payload |-> calls[i].payload]]
      /\ s.ends = [i \in 1..n |-> FrameEnd(s.frames[i])]
      /\ s.empty = [i \in 1..n |-> calls[i].payload = <<>>]
      /\ s.disturbed = [i \in 1..n |-> FALSE]
      /\ s.oversize = FALSE

(* The header of a text whose payload is still to come: ends is where it    *)
(* will end.                                                                *)
HeaderOf(len) ==
  LET h == Header(len, WS_TEXT)
  IN  [bytes |-> h, frames |-> <<SentFrame(0, WS_TEXT, <<>>, len)>>, last |-> <<>>,
       msgs |-> <<>>, ends |-> <<Len(h) + len>>, empty |-> <<FALSE>>,
       disturbed |-> <<FALSE>>, oversize |-> FALSE]

-----------------------------------------------------------------------------
(* After the header that inter_send writes, and however it is cut, the      *)
(* parser waits for exactly the payload that was announced, as the whole of *)
(* an unmasked text message.                                                *)
HeaderUnderstood ==
  /\ Len(input.ends) > Len(input.msgs)
  /\ wire = <<>> /\ data = <<>>
  => /\ status = "payload"
     /\ frame.fin /\ ~frame.mask /\ frame.opcode = WS_TEXT
     /\ byteNeed = frame.payload_len
     /\ Consumed + byteNeed = input.ends[1]
=============================================================================
