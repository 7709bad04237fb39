----------------------------- MODULE MCWsParser -----------------------------
(***************************************************************************)
(* Model checking WsParser.  The streams are the encodings of all scripts  *)
(* of at most MaxFrames frames.  Encode follows the frame layout drawn in  *)
(* src/src/core/websocket_parser.h, lines 13-33, and Msgs says what a      *)
(* script means without looking at bytes: together they are the reference  *)
(* the parser is compared with.  A second set of streams is what the       *)
(* server itself writes (WsSend).                                          *)
(***************************************************************************)
EXTENDS WsReadBack, SequencesExt, TLC

CONSTANTS MaxFrames, PayloadLens

BitAt(a, k) == (a \div 2^k) % 2

MCXor(a, b) ==
  LET bit[k \in 0..8] ==
        IF k = 8 THEN 0
        ELSE (IF BitAt(a, k) # BitAt(b, k) THEN 2^k ELSE 0) + bit[k + 1]
  IN  bit[0]

Key == <<1, 130, 68, 255>>

Text(len) == [i \in 1..len |-> (60 + 45 * i) % 256]

(* form: how many bits the length is written with.                          *)
Frames ==
  [fin : BOOLEAN, op : {0, 1}, mask : {TRUE}, form : {7}, len : PayloadLens]
  \cup [fin : BOOLEAN, op : {0, 2}, mask : {FALSE}, form : {7}, len : {2}]
  \cup [fin : {TRUE}, op : {1}, mask : {TRUE}, form : {16, 64},
        len : {5, LimitPayloadLen + 1}]
  \cup [fin : {TRUE}, op : {9}, mask : {TRUE}, form : {7}, len : {0, 2}]

LengthBytes(f) ==
  LET m == IF f.mask THEN 128 ELSE 0
  IN  CASE f.form = 7  -> <<m + f.len>>
        [] f.form = 16 -> <<m + 126, f.len \div 256, f.len % 256>>
        [] f.form = 64 -> <<m + 127, 0, 0, 0, 0, 0, 0,
                            f.len \div 256, f.len % 256>>

(* Of a payload over the limit, the peer has sent the first bytes.          *)
Sent(f) == Text(IF Oversize(f) THEN 2 ELSE f.len)

EncodeFrame(f) ==
  <<(IF f.fin THEN 128 ELSE 0) + f.op>> \o LengthBytes(f)
  \o IF f.mask
     THEN Key \o [i \in 1..Len(Sent(f)) |->
                    MCXor(Sent(f)[i], Key[((i - 1) % 4) + 1])]
     ELSE Sent(f)

(* A fragmented message is under way before frame i.                        *)
Inside(script, i) ==
  \E j \in 1..(i - 1) : /\ ~script[j].fin
                        /\ \A k \in (j + 1)..(i - 1) : Control(script[k])

(* Inside a fragmented message only continuation frames, outside it none;   *)
(* nothing follows a frame over the limit.                                  *)
Legal(script) ==
  \A i \in 1..Len(script) :
    /\ (script[i].op = 0) <=> (i > 1 /\ ~script[i - 1].fin)
    /\ Oversize(script[i]) => i = Len(script)

Scripts == {s \in UNION {[1..n -> Frames] : n \in 1..MaxFrames} : Legal(s)}

(* Scripts with control frames in fragmented messages, and what may follow. *)
ShortFrames ==
  [fin : BOOLEAN, op : {0, 1}, mask : {TRUE}, form : {7}, len : {2}]
  \cup [fin : {TRUE}, op : {9}, mask : {TRUE}, form : {7}, len : {0, 1}]

Interrupted(script) ==
  /\ \A i \in 1..Len(script) :
       ~Control(script[i]) => (script[i].op = 0 <=> Inside(script, i))
  /\ \E i \in 1..Len(script) : Control(script[i]) /\ Inside(script, i)

ControlScripts ==
  {s \in UNION {[1..n -> ShortFrames] : n \in 1..(MaxFrames + 1)} : Interrupted(s)}

(* The frames of the message that frame i ends.                             *)
FirstFrame(script, i) ==
  IF Control(script[i]) THEN i
  ELSE CHOOSE j \in 1..i : /\ script[j].op # 0 /\ ~Control(script[j])
                           /\ \A k \in (j + 1)..i : \/ script[k].op = 0
                                                    \/ Control(script[k])

(* The payload of the frames i..j that belong together.                     *)
Joined(script, i, j) ==
  FoldLeft(LAMBDA acc, f : IF Control(f) /\ i # j THEN acc
                           ELSE acc \o Text(f.len),
           <<>>, SubSeq(script, i, j))

Concat(seqs) == FoldLeft(LAMBDA acc, s : acc \o s, <<>>, seqs)

Bytes(script, i) == Concat([k \in 1..i |-> EncodeFrame(script[k])])

Ends(script) == SelectSeq([i \in 1..Len(script) |-> i],
                  LAMBDA i : script[i].fin /\ ~Oversize(script[i]))

(* What the length is after each of its ext extended bytes.                 *)
Sizes(ext, len) ==
  IF ext = 0 THEN <<len>>
  ELSE [j \in 1..(ext + 1) |->
          IF j < ext - 2 THEN 0 ELSE len \div 256^(ext + 1 - j)]

Disturbed(script, i) ==
  IF Control(script[i]) THEN Inside(script, i)
  ELSE \E j \in FirstFrame(script, i)..i : Control(script[j])

FrameOf(script, i) ==
  LET f == script[i]
      j == FirstFrame(script, i)
  IN  [start |-> Len(Bytes(script, i - 1)), fin |-> f.fin, op |-> f.op, mask |-> f.mask,
       sizes |-> Sizes(CASE f.form = 7 -> 0 [] f.form = 16 -> 2 [] f.form = 64 -> 8, f.len),
       len |-> f.len,
       open |-> IF Control(f) THEN Inside(script, i) ELSE ~f.fin,
       disturbed |-> Disturbed(script, i),
       opcode |-> script[j].op, payload |-> Joined(script, j, i)]

Stream(script) ==
  LET e == Ends(script)
      frames == [i \in 1..Len(script) |-> FrameOf(script, i)]
  IN  [bytes |-> Bytes(script, Len(script)),
       frames |-> frames,
       msgs |-> [k \in 1..Len(e) |->
          [opcode |-> frames[e[k]].opcode, mask |-> frames[e[k]].mask,
           payload |-> frames[e[k]].payload]],
       last |-> e,
       ends |-> [k \in 1..Len(e) |-> Len(Bytes(script, e[k]))],
       empty |-> [k \in 1..Len(e) |-> script[e[k]].len = 0],
       disturbed |-> [k \in 1..Len(e) |-> Disturbed(script, e[k])],
       oversize |-> \E i \in 1..Len(script) : Oversize(script[i])]

-----------------------------------------------------------------------------
(* What inter_send writes: whole messages of small sizes and around 125,    *)
(* and one of the limit; for the other borders of the length the header.    *)

ShortLens == {0, 1, 3}

Sends ==
  {<<len>> : len \in {125, 126, LimitPayloadLen}}
  \cup {<<a, b, 2>> : a, b \in ShortLens}

(* A text for every number; in front of it the answer to a ping.            *)
SendBytes(lens) ==
  SendPong \o Concat([i \in 1..Len(lens) |-> SendText(Text(lens[i]))])

CallsOf(lens) ==
  <<[opcode |-> WS_PONG, payload |-> <<>>]>>
  \o [i \in 1..Len(lens) |-> [opcode |-> WS_TEXT, payload |-> Text(lens[i])]]

Whole(lens) ==
  LET calls == CallsOf(lens)
      n     == Len(calls)
      at(i) == IF i = 1 THEN 0 ELSE Len(SendBytes(SubSeq(lens, 1, i - 2)))
      c     == [i \in 1..n |-> calls[i].payload]
  IN  [bytes |-> SendBytes(lens),
       frames |-> [i \in 1..n |-> SentFrame(at(i), calls[i].opcode, c[i], Len(c[i]))],
       last  |-> [i \in 1..n |-> i],
       msgs  |-> [i \in 1..n |-> [opcode |-> calls[i].opcode, mask |-> FALSE,
                                 payload |-> c[i]]],
       ends  |-> [i \in 1..n |-> at(i + 1)],
       empty |-> [i \in 1..n |-> c[i] = <<>>],
       disturbed |-> [i \in 1..n |-> FALSE],
       oversize |-> FALSE]

Borders == {1, 125, 126, 127, 255, 256, 32767, 32768, 65535, 65536, 65537,
            16777215, 16777216, 1048576, 1048577, 2147483600}

-----------------------------------------------------------------------------
MCScriptStreams == {Stream(s) : s \in Scripts \cup ControlScripts}

(* The streams are what the theorems of WsParserProofs ask for.             *)
ASSUME ScriptsAssumption == \A s \in MCScriptStreams : WellFormed(s)

(* The streams of the sends are what inter_send writes for the calls.       *)
ASSUME SendsAssumption == \A lens \in Sends : Written(Whole(lens), CallsOf(lens))

MCStreams ==
  MCScriptStreams
  \cup {Whole(lens) : lens \in Sends}
  \cup {HeaderOf(len) : len \in Borders}
=============================================================================
