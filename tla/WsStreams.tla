----------------------------- MODULE WsStreams -----------------------------
(***************************************************************************)
(* What the bytes of a WebSocket connection mean, without a parser: the    *)
(* layout of a frame as src/src/core/websocket_parser.h draws it (lines    *)
(* 13-33), and the messages that frames make up.  A stream is described by *)
(* its frames, one behind the other; each says what it holds and what is   *)
(* known of its message after it, and the definitions below say when that  *)
(* is true of the bytes.                                                   *)
(***************************************************************************)
EXTENDS Integers, Sequences

CONSTANTS
  LimitPayloadLen,  \* LIMIT_PAYLOAD_LEN
  Xor(_, _)         \* the ^ of two bytes

Byte == 0..255

Message == [opcode : 0..15, mask : BOOLEAN, payload : Seq(Byte)]

FrameType ==
  [start     : Nat,       \* how many bytes come before it
   fin       : BOOLEAN,
   op        : 0..15,
   mask      : BOOLEAN,
   sizes     : Seq(Nat),  \* what the length is after each of its bytes
   len       : Nat,
   open      : BOOLEAN,   \* after it a fragmented message is unfinished
   disturbed : BOOLEAN,   \* its message has a control frame in it, or it is one
   opcode    : 0..15,     \* of its message
   payload   : Seq(Byte)] \* of its message, up to and with it

StreamType ==
  [bytes     : Seq(Byte),       \* every byte the peer sends
   frames    : Seq(FrameType),  \* what they are; the last may be cut short
   msgs      : Seq(Message),    \* the messages the bytes encode, in order
   last      : Seq(Nat),        \* the frame that ends msgs[i]
   ends      : Seq(Nat),        \* how many bytes it and all before it take
   empty     : Seq(BOOLEAN),    \* whether that frame is empty
   disturbed : Seq(BOOLEAN),    \* whether a control frame came inside msgs[i]
                                \* or msgs[i] is a control frame inside another
   oversize  : BOOLEAN]         \* payload of a frame over the limit was sent

-----------------------------------------------------------------------------
(* The layout of a frame *)

ExtLen(f)  == Len(f.sizes) - 1
KeyAt(f)   == f.start + 2 + ExtLen(f)
HeadEnd(f) == KeyAt(f) + IF f.mask THEN 4 ELSE 0
FrameEnd(f) == HeadEnd(f) + f.len

(* The two first bytes, and the extended length.                            *)
LaidOut(s, f) ==
  LET len7 == s.bytes[f.start + 2] % 128
  IN  /\ f.fin = (s.bytes[f.start + 1] >= 128)
      /\ f.op = s.bytes[f.start + 1] % 16
      /\ f.mask = (s.bytes[f.start + 2] >= 128)
      /\ IF len7 <= 125
         THEN Len(f.sizes) = 1 /\ f.sizes[1] = len7
         ELSE Len(f.sizes) = (IF len7 = 126 THEN 3 ELSE 9) /\ f.sizes[1] = 0
      /\ \A j \in 1..ExtLen(f) :
           f.sizes[j + 1] = 256 * f.sizes[j] + s.bytes[f.start + 2 + j]
      /\ f.len = f.sizes[Len(f.sizes)]

(* The i-th byte of the payload, unmasked.                                  *)
ContentAt(s, f, i) ==
  LET b == s.bytes[HeadEnd(f) + i]
  IN  IF f.mask THEN Xor(b, s.bytes[KeyAt(f) + ((i - 1) % 4) + 1]) ELSE b

Content(s, f) == [i \in 1..f.len |-> ContentAt(s, f, i)]

Complete(s, f) == FrameEnd(f) <= Len(s.bytes)
Oversize(f)    == f.len > LimitPayloadLen

(* The frames fill the bytes, one behind the other; every head is there,    *)
(* and every payload but the last one's; nothing follows a frame that is    *)
(* over the limit.                                                          *)
FramesFill(s) ==
  LET n == Len(s.frames)
  IN  /\ n > 0 /\ s.frames[1].start = 0
      /\ \A k \in 1..n : /\ HeadEnd(s.frames[k]) <= Len(s.bytes)
                         /\ LaidOut(s, s.frames[k])
      /\ \A k \in 1..(n - 1) :
           /\ s.frames[k + 1].start = FrameEnd(s.frames[k])
           /\ ~Oversize(s.frames[k])
      /\ \A j, k \in 1..n : j < k => FrameEnd(s.frames[j]) <= s.frames[k].start
      /\ FrameEnd(s.frames[n]) >= Len(s.bytes)
      /\ s.oversize =
           (Oversize(s.frames[n]) /\ HeadEnd(s.frames[n]) < Len(s.bytes))

-----------------------------------------------------------------------------
(* The messages *)

Control(f) == f.op >= 8

(* A fragmented message is unfinished before frame k.                       *)
InMessage(s, k) == k > 1 /\ s.frames[k - 1].open

(* RFC 6455, 5.4: in a fragmented message only continuations, outside none; *)
(* control frames are whole and may come anywhere.                          *)
Fragmented(s, k) ==
  LET f == s.frames[k]
  IN  /\ Control(f) => f.fin
      /\ ~Control(f) => (f.op = 0 <=> InMessage(s, k))
      /\ f.open = IF Control(f) THEN InMessage(s, k) ELSE ~f.fin
      /\ f.disturbed = (InMessage(s, k) /\ (Control(f) \/ s.frames[k - 1].disturbed))

(* What the frames of a message that is not disturbed make up.              *)
Gathered(s, k) ==
  LET f == s.frames[k]
  IN  ~f.disturbed =>
        /\ f.opcode = IF InMessage(s, k) THEN s.frames[k - 1].opcode ELSE f.op
        /\ Complete(s, f) =>
             f.payload = (IF InMessage(s, k) THEN s.frames[k - 1].payload ELSE <<>>)
                         \o Content(s, f)

(* The messages are those that frames with FIN end.                         *)
MessagesEnd(s) ==
  LET n == Len(s.msgs)
  IN  /\ Len(s.last) = n /\ Len(s.ends) >= n /\ Len(s.empty) >= n /\ Len(s.disturbed) >= n
      /\ \A i \in 1..n : s.last[i] \in 1..Len(s.frames)
      /\ \A i, j \in 1..n : i < j => s.last[i] < s.last[j]
      /\ \A k \in 1..Len(s.frames) :
           LET f == s.frames[k]
           IN  (\E i \in 1..n : s.last[i] = k) <=> (f.fin /\ Complete(s, f) /\ ~Oversize(f))
      /\ \A i \in 1..n :
           LET f == s.frames[s.last[i]]
           IN  /\ s.ends[i] = FrameEnd(f)
               /\ s.empty[i] = (f.len = 0)
               /\ s.disturbed[i] = f.disturbed
               /\ ~f.disturbed =>
                    s.msgs[i] = [opcode |-> f.opcode, mask |-> f.mask, payload |-> f.payload]

WellFormed(s) ==
  /\ s \in StreamType
  /\ FramesFill(s)
  /\ \A k \in 1..Len(s.frames) : Fragmented(s, k) /\ Gathered(s, k)
  /\ MessagesEnd(s)
=============================================================================
