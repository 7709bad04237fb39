--------------------------- MODULE ResponseProofs ---------------------------
(***************************************************************************)
(* What Response keeps for every set of texts and files, for every number  *)
(* of sends and of writes in libuv's queue.                                *)
(***************************************************************************)
EXTENDS Response, TLAPS

-----------------------------------------------------------------------------
(* The inductive invariant *)

Codes  == Statuses \cup {200, 500}
Heads  == SUBSET {"own", "text", "json", "mime"}
Names  == {c.is : c \in Contents \cup {Empty, ErrorStr}}
Bodies == [is : Names, size : Nat]
Stages == {"opening", "reading", "closing", "read", "deleted", "deletedInUse"}

(* What libuv may be given.                                                 *)
Answers ==
  [status : Codes, headers : Heads, body : Bodies, from : Nat, out : BOOLEAN,
   intact : BOOLEAN]

Readers ==
  {r \in [file : Files, got : Nat, state : Stages] : r.got <= r.file.size}

(* m_sendType is FILE only when m_reader was initialised.                   *)
Basics ==
  /\ status \in Codes /\ headers \in Heads
  /\ type \in {"NONE", "STR", "JSON", "FILE"}
  /\ body \in Strings \cup {Empty, ErrorStr}
  /\ readers \in Seq(Readers)
  /\ reader \in 0..Len(readers)
  /\ type = "FILE" => reader # 0
  /\ writes \in Seq(Answers) /\ wire \in Seq(Answers)
  /\ \A i \in 1..Len(writes) : writes[i].from \in 0..Len(readers)
  /\ hook \in {"session", "app"} /\ told \in Nat /\ asked \in Seq(Contents)
  /\ cleared \in BOOLEAN /\ closing \in BOOLEAN /\ short \in BOOLEAN
  /\ failed \in SUBSET {"open", "close"}
  /\ refused \in BOOLEAN /\ fault \in BOOLEAN

(* The file asked for is still being read.                                  *)
Pending == readers # <<>> /\ readers[1].state \in InUse

(* An answer that is what was asked, the error in a file's place, or, after *)
(* a short read, part of the file.                                          *)
Right(w) == w.intact /\ (IsWhole(w) \/ IsError(w) \/ (short /\ IsCut(w)))

(* Nothing was asked, or it was and nothing was given to libuv.             *)
Unsent == writes = <<>> /\ wire = <<>> /\ told = 0

(* The one answer is with libuv; it is out or not.                          *)
InQueue ==
  /\ Len(writes) = 1 /\ told = 0
  /\ Len(wire) = IF writes[1].out THEN 1 ELSE 0

(* onWriteEnd was called for it.                                            *)
Ended ==
  /\ writes = <<>>
  /\ Len(wire) <= 1
  /\ told <= 1
  /\ hook = "session" => told = 1

(* The reader there is, if any, is of the file that was asked for.          *)
OneReader ==
  /\ asked = <<>> => readers = <<>>
  /\ asked # <<>> =>
       IF asked[1] \in Files
       THEN Len(readers) = 1 /\ reader = 1 /\ readers[1].file = asked[1]
       ELSE readers = <<>>

(* What m_sendType says of the reader: it is what onWriteEnd goes by.       *)
TypeTells ==
  /\ type = "FILE" /\ writes # <<>> => readers[1].state = "read"
  /\ Pending /\ ~cleared => type = "FILE" /\ "mime" \in headers
  /\ readers # <<>> /\ ~Pending /\ ~cleared /\ ~refused /\ readers[1].state # "deleted" =>
       type = "FILE" /\ writes # <<>>
  /\ readers # <<>> => readers[1].state # "deletedInUse"

(* A file that is being closed was read to its end.                         *)
ReadWhole ==
  readers # <<>> /\ readers[1].state = "closing" /\ ~short =>
    readers[1].got = readers[1].file.size

(* Freed memory was used by onOpen only.                                    *)
FaultIsOpen == fault => "open" \in failed

(* How far the one answer has come.                                         *)
Phases ==
  IF asked = <<>> \/ Pending THEN Unsent /\ ~refused
  ELSE IF refused THEN Unsent ELSE InQueue \/ Ended

(* Nothing that libuv has or the kernel took is anything else than right.   *)
AllRight ==
  ~cleared => /\ \A i \in 1..Len(writes) : Right(writes[i])
              /\ \A i \in 1..Len(wire) : Right(wire[i])

OneAnswerInv ==
  FaultIsOpen /\ OneReader /\ ReadWhole /\ TypeTells /\ Phases /\ AllRight

Once == SentOnce => OneAnswerInv

IInv == Basics /\ Once

-----------------------------------------------------------------------------
(* The operators *)

Types == {"NONE", "STR", "JSON", "FILE"}
MBody == Strings \cup {Empty, ErrorStr}

(* A body of m_body, and what was read of a file, is a body.                *)
LEMMA BodyFacts ==
  /\ \A b \in MBody : b \in Bodies
  /\ \A f \in Files, n \in Nat : [is |-> f.is, size |-> n] \in Bodies
  /\ Empty.size = 0 /\ ErrorStr.size = 3
<1>1. Empty \in Bodies /\ ErrorStr \in Bodies /\ Empty.size = 0 /\ ErrorStr.size = 3
  BY DEF Empty, ErrorStr, Bodies, Names
<1>2. ASSUME NEW b \in Strings PROVE b \in Bodies
  <2>1. b.is \in Names
    BY DEF Names, Contents
  <2>2. b = [is |-> b.is, size |-> b.size] /\ b.size \in Nat
    BY ContentsAssumption
  <2> QED BY <2>1, <2>2 DEF Bodies
<1>3. ASSUME NEW f \in Files, NEW n \in Nat PROVE [is |-> f.is, size |-> n] \in Bodies
  BY DEF Bodies, Names, Contents
<1> QED BY <1>1, <1>2, <1>3 DEF MBody

(* To spoil the waiting writes changes nothing but intact.                  *)
LEMMA SpoiltFacts ==
  ASSUME NEW s \in Seq(Answers)
  PROVE  /\ Spoilt(s) \in Seq(Answers)
         /\ Len(Spoilt(s)) = Len(s)
         /\ \A i \in 1..Len(s) : Spoilt(s)[i].from = s[i].from
         /\ s = <<>> => Spoilt(s) = <<>>
<1>1. \A i \in 1..Len(s) : s[i] \in Answers
  OBVIOUS
<1>2. \A w \in Answers : [w EXCEPT !.intact = FALSE] \in Answers
                         /\ [w EXCEPT !.intact = FALSE].from = w.from
  BY DEF Answers
<1>3. \A i \in 1..Len(s) : Spoilt(s)[i] \in Answers /\ Spoilt(s)[i].from = s[i].from
  BY <1>1, <1>2 DEF Spoilt
<1>4. Spoilt(s) \in Seq(Answers) /\ Len(Spoilt(s)) = Len(s)
  BY <1>3 DEF Spoilt
<1> QED BY <1>3, <1>4

(* What send() gives to libuv is an answer, from m_reader or from m_body.   *)
LEMMA WrittenFacts ==
  ASSUME Basics, NEW t \in Types, NEW s \in Codes, NEW b \in MBody, NEW h \in Heads,
         t = "FILE" => reader # 0
  PROVE  /\ Written(t, s, b, h) \in Answers
         /\ Written(t, s, b, h).from \in 0..Len(readers)
<1>1. CASE t = "FILE"
  <2>1. readers[reader] \in Readers
    BY <1>1 DEF Basics
  <2>2. readers[reader].file \in Files /\ readers[reader].got \in Nat /\ reader \in Nat
    BY <2>1 DEF Readers, Basics
  <2>3. [is |-> readers[reader].file.is, size |-> readers[reader].got] \in Bodies
    BY <2>2, BodyFacts
  <2> QED BY <1>1, <2>2, <2>3 DEF Written, Answers, Basics
<1>2. CASE t # "FILE"
  <2>1. b \in Bodies
    BY BodyFacts
  <2>2. b.size \in Nat
    BY <2>1 DEF Bodies
  <2> QED BY <1>2, <2>1, <2>2 DEF Written, Answers, Basics
<1> QED BY <1>1, <1>2

(* send() adds at most one answer to the queue.                             *)
LEMMA SendFacts ==
  ASSUME Basics, NEW t \in Types, NEW s \in Codes, NEW b \in MBody, NEW h \in Heads,
         t = "FILE" => reader # 0, Send(t, s, b, h)
  PROVE  /\ writes' \in Seq(Answers)
         /\ \A i \in 1..Len(writes') : writes'[i].from \in 0..Len(readers)
         /\ refused' \in BOOLEAN
         /\ writes = <<>> =>
              IF closing THEN writes' = <<>>
              ELSE Len(writes') = 1 /\ writes'[1] = Written(t, s, b, h)
<1> DEFINE w == Written(t, s, b, h)
<1>1. w \in Answers /\ w.from \in 0..Len(readers)
  BY WrittenFacts
<1>2. /\ Spoilt(writes) \in Seq(Answers) /\ Len(Spoilt(writes)) = Len(writes)
      /\ \A i \in 1..Len(writes) : Spoilt(writes)[i].from = writes[i].from
      /\ writes = <<>> => Spoilt(writes) = <<>>
  BY SpoiltFacts DEF Basics
<1>3. writes' = IF closing THEN Spoilt(writes) ELSE Append(Spoilt(writes), w)
  BY DEF Send
<1>4. refused' \in BOOLEAN
  BY Zenon DEF Send
<1>5. \A i \in 1..Len(writes) : writes[i].from \in 0..Len(readers)
  BY DEF Basics
<1> HIDE DEF w
<1>6. writes' \in Seq(Answers)
  BY <1>1, <1>2, <1>3
<1>7. \A i \in 1..Len(writes') : writes'[i].from \in 0..Len(readers)
  <2>1. CASE closing
    BY <2>1, <1>2, <1>3, <1>5
  <2>2. CASE ~closing
    <3>1. Len(writes') = Len(writes) + 1 /\ writes'[Len(writes) + 1] = w
      BY <2>2, <1>1, <1>2, <1>3
    <3>2. \A i \in 1..Len(writes) : writes'[i] = Spoilt(writes)[i]
      BY <2>2, <1>1, <1>2, <1>3
    <3>3. Len(writes) \in Nat
      BY DEF Basics
    <3> QED BY <3>1, <3>2, <3>3, <1>1, <1>2, <1>5
  <2> QED BY <2>1, <2>2
<1>8. ASSUME writes = <<>>
      PROVE  IF closing THEN writes' = <<>> ELSE Len(writes') = 1 /\ writes'[1] = w
  BY <1>8, <1>1, <1>2, <1>3
<1> QED BY <1>4, <1>6, <1>7, <1>8 DEF w

(* A response that is sent again, or whose uv_fs_close fails, stays so.     *)
LEMMA Lasting ==
  ASSUME Basics, [Next]_vars
  PROVE  /\ SentOnce' => SentOnce
         /\ cleared => cleared'
         /\ hook = "app" => hook' = "app"
         /\ refused => refused'
         /\ short => short'
         /\ fault => fault'
<1>1. asked' = asked \/ \E c \in Contents : asked' = Append(asked, c)
  BY DEF Next, vars, content, history, SendStr, SendJson, SendFile, SetStatus, SetHeader,
         ClearContent, OnSent, Close, ReaderNext, ReaderStep, Opened, Read, ReadLast,
         ReadOfDeleted, ReaderClosed, OpenFailed, ReadFailed, ReaderCloseFailed,
         WriteNext, Flush, WriteEnd, WriteFailed, Contents
<1>2. Len(asked') >= Len(asked)
  BY <1>1 DEF Basics
<1>3. failed \subseteq failed'
  <2>1. failed' \in {failed, failed \cup {"open"}, failed \cup {"close"}}
    BY DEF Next, vars, content, history, SendStr, SendJson, SendFile, SetStatus, SetHeader,
         ClearContent, OnSent, Close, ReaderNext, ReaderStep, Opened, Read, ReadLast,
         ReadOfDeleted, ReaderClosed, OpenFailed, ReadFailed, ReaderCloseFailed,
         WriteNext, Flush, WriteEnd, WriteFailed
  <2> QED BY <2>1
<1>4. cleared => cleared'
  BY DEF Next, vars, content, history, SendStr, SendJson, SendFile, SetStatus, SetHeader,
         ClearContent, OnSent, Close, ReaderNext, ReaderStep, Opened, Read, ReadLast,
         ReadOfDeleted, ReaderClosed, OpenFailed, ReadFailed, ReaderCloseFailed,
         WriteNext, Flush, WriteEnd, WriteFailed
<1>5. hook = "app" => hook' = "app"
  BY DEF Next, vars, content, history, SendStr, SendJson, SendFile, SetStatus, SetHeader,
         ClearContent, OnSent, Close, ReaderNext, ReaderStep, Opened, Read, ReadLast,
         ReadOfDeleted, ReaderClosed, OpenFailed, ReadFailed, ReaderCloseFailed,
         WriteNext, Flush, WriteEnd, WriteFailed
<1>6. refused => refused'
  BY DEF Next, vars, content, history, SendStr, SendJson, SendFile, SetStatus, SetHeader,
         ClearContent, OnSent, Close, ReaderNext, ReaderStep, Opened, Read, ReadLast,
         ReadOfDeleted, ReaderClosed, OpenFailed, ReadFailed, ReaderCloseFailed,
         WriteNext, Flush, WriteEnd, WriteFailed, Send, SendBody, SendErr
<1>8. short => short'
  BY DEF Next, vars, content, history, SendStr, SendJson, SendFile, SetStatus, SetHeader,
         ClearContent, OnSent, Close, ReaderNext, ReaderStep, Opened, Read, ReadLast,
         ReadOfDeleted, ReaderClosed, OpenFailed, ReadFailed, ReaderCloseFailed,
         WriteNext, Flush, WriteEnd, WriteFailed
<1>9. fault => fault'
  BY DEF Next, vars, content, history, SendStr, SendJson, SendFile, SetStatus, SetHeader,
         ClearContent, OnSent, Close, ReaderNext, ReaderStep, Opened, Read, ReadLast,
         ReadOfDeleted, ReaderClosed, OpenFailed, ReadFailed, ReaderCloseFailed,
         WriteNext, Flush, WriteEnd, WriteFailed, OnWriteEnd
<1>7. SentOnce' => SentOnce
  <2>1. Len(asked) \in Nat /\ Len(asked') \in Nat
    BY <1>1 DEF Basics
  <2> QED BY <2>1, <1>2, <1>3 DEF SentOnce
<1> QED BY <1>4, <1>5, <1>6, <1>7, <1>8, <1>9

-----------------------------------------------------------------------------
(* The application's calls *)

LEMMA TextKeeps ==
  ASSUME Basics, NEW b \in Strings, SendStr(b) \/ SendJson(b)
  PROVE  Basics'
<1>1. /\ asked' = Append(asked, b)
      /\ body' = b /\ status' = status /\ headers' \in Heads /\ type' \in {"STR", "JSON"}
      /\ Send(type', status, b, headers')
      /\ UNCHANGED <<reader, readers, hook, told, wire, cleared, failed, short, closing,
                     fault>>
  BY DEF SendStr, SendJson, SendBody, Basics, Heads
<1>2. type' \in Types /\ b \in MBody /\ status \in Codes
  BY <1>1 DEF Types, MBody, Basics
<1>3. /\ writes' \in Seq(Answers)
      /\ \A i \in 1..Len(writes') : writes'[i].from \in 0..Len(readers)
      /\ refused' \in BOOLEAN
  BY <1>1, <1>2, SendFacts
<1>4. asked' \in Seq(Contents)
  BY <1>1 DEF Basics, Contents
<1> QED BY <1>1, <1>3, <1>4 DEF Basics

LEMMA SendFileKeeps ==
  ASSUME Basics, NEW f \in Files, SendFile(f)
  PROVE  Basics'
<1> DEFINE r == [file |-> f, got |-> 0, state |-> "opening"]
<1>1. r \in Readers
  BY ContentsAssumption DEF Readers, Stages
<1>2. readers' = Append(readers, r) /\ reader' = Len(readers')
  BY DEF SendFile
<1> HIDE DEF r
<1>3. readers' \in Seq(Readers) /\ Len(readers') = Len(readers) + 1 /\ Len(readers) \in Nat
  BY <1>1, <1>2 DEF Basics
<1>4. asked' \in Seq(Contents)
  BY DEF SendFile, Basics, Contents
<1>5. headers' \in Heads
  BY DEF SendFile, Basics, Heads
<1>6. \A i \in 1..Len(writes') : writes'[i].from \in 0..Len(readers')
  BY <1>3 DEF SendFile, Basics
<1> QED BY <1>2, <1>3, <1>4, <1>5, <1>6 DEF SendFile, Basics

LEMMA SettingsKeep ==
  ASSUME Basics, (\E s \in Statuses : SetStatus(s)) \/ SetHeader \/ OnSent \/ Close
  PROVE  Basics'
<1>0. status' \in Codes
  BY DEF Basics, Codes, SetStatus, SetHeader, OnSent, Close, content
<1>1. headers' \in Heads
  BY DEF Basics, Heads, SetStatus, SetHeader, OnSent, Close, content
<1>2. hook' \in {"session", "app"} /\ closing' \in BOOLEAN
  BY DEF Basics, SetStatus, SetHeader, OnSent, Close, content, history
<1>3. UNCHANGED <<type, body, reader, readers, writes, told, wire, asked, cleared, failed,
                  short, refused, fault>>
  BY DEF SetStatus, SetHeader, OnSent, Close, content, history
<1> QED BY <1>0, <1>1, <1>2, <1>3 DEF Basics

LEMMA ClearKeeps ==
  ASSUME Basics, ClearContent
  PROVE  /\ Basics'
         /\ Len(writes') = Len(writes)
         /\ \A i \in 1..Len(writes) : writes'[i].out = writes[i].out
<1> DEFINE spoil(w) == [w EXCEPT !.intact = FALSE]
<1>1. \A i \in 1..Len(writes) : writes[i] \in Answers
  BY DEF Basics
<1>2. \A w \in Answers : spoil(w) \in Answers /\ spoil(w).from = w.from /\ spoil(w).out = w.out
  BY DEF Answers
<1>3. \A i \in 1..Len(writes) : writes'[i] = writes[i] \/ writes'[i] = spoil(writes[i])
  BY DEF ClearContent
<1> HIDE DEF spoil
<1>4. \A i \in 1..Len(writes) :
        writes'[i] \in Answers /\ writes'[i].from = writes[i].from
        /\ writes'[i].out = writes[i].out
  BY <1>1, <1>2, <1>3
<1>5. writes' \in Seq(Answers) /\ Len(writes') = Len(writes)
  <2>1. Len(writes) \in Nat
    BY DEF Basics
  <2>2. writes' \in [1..Len(writes) -> Answers]
    BY <1>4 DEF ClearContent
  <2> QED BY <2>1, <2>2
<1>6. headers' \in Heads /\ status' \in Codes
  BY DEF ClearContent, Heads, Codes
<1>7. \A i \in 1..Len(writes') : writes'[i].from \in 0..Len(readers')
  BY <1>4, <1>5 DEF ClearContent, Basics
<1> QED BY <1>4, <1>5, <1>6, <1>7 DEF ClearContent, Basics

-----------------------------------------------------------------------------
(* The reader's callbacks *)

(* What a callback makes of a reader, its file apart.                       *)
LEMMA ReaderChanges ==
  ASSUME NEW list \in Seq(Readers), NEW r \in 1..Len(list), NEW st \in Stages
  PROVE  LET new == [list EXCEPT ![r].state = st]
         IN  /\ new \in Seq(Readers) /\ Len(new) = Len(list)
             /\ new[r].state = st /\ new[r].file = list[r].file
             /\ new[r].got = list[r].got
<1> DEFINE x == [list[r] EXCEPT !.state = st]
           new == [list EXCEPT ![r] = x]
<1>1. list[r] \in Readers
  OBVIOUS
<1>2. x \in Readers /\ x.state = st /\ x.file = list[r].file /\ x.got = list[r].got
  BY <1>1 DEF Readers, Stages
<1>3. new = [list EXCEPT ![r].state = st]
  OBVIOUS
<1> HIDE DEF x
<1>4. new \in Seq(Readers) /\ Len(new) = Len(list) /\ new[r] = x
  BY <1>2
<1> QED BY <1>2, <1>3, <1>4

LEMMA ReadKeeps ==
  ASSUME Basics, NEW r \in 1..Len(readers), Read(r)
  PROVE  /\ Basics' /\ Len(readers') = Len(readers)
         /\ readers'[r].file = readers[r].file /\ readers'[r].state = "reading"
<1> DEFINE x == [readers[r] EXCEPT !.got = readers[r].got + 1]
<1>1. readers[r] \in Readers
  BY DEF Basics
<1>2. readers[r].file.size \in Nat
  BY <1>1, ContentsAssumption DEF Readers
<1>3. x \in Readers /\ x.file = readers[r].file /\ x.state = "reading"
  BY <1>1, <1>2 DEF Readers, Read
<1>4. readers' = [readers EXCEPT ![r] = x]
  BY DEF Read
<1> HIDE DEF x
<1>5. readers' \in Seq(Readers) /\ Len(readers') = Len(readers) /\ readers'[r] = x
  BY <1>3, <1>4 DEF Basics
<1> QED BY <1>3, <1>5 DEF Read, Basics, content, history

LEMMA OpenedKeeps ==
  ASSUME Basics, NEW r \in 1..Len(readers), Opened(r)
  PROVE  Basics'
<1>1. readers' \in Seq(Readers) /\ Len(readers') = Len(readers)
  BY ReaderChanges DEF Opened, Basics, Stages
<1> QED BY <1>1 DEF Opened, Basics, content, history

LEMMA ReadLastKeeps ==
  ASSUME Basics, NEW r \in 1..Len(readers), ReadLast(r)
  PROVE  Basics'
<1>1. readers' \in Seq(Readers) /\ Len(readers') = Len(readers)
  BY ReaderChanges DEF ReadLast, Basics, Stages
<1>2. short' \in BOOLEAN
  BY Zenon DEF ReadLast
<1> QED BY <1>1, <1>2 DEF ReadLast, Basics, content

LEMMA ReadOfDeletedKeeps ==
  ASSUME Basics, NEW r \in 1..Len(readers), ReadOfDeleted(r)
  PROVE  Basics'
<1>1. readers' \in Seq(Readers) /\ Len(readers') = Len(readers)
  <2>1. readers \in Seq(Readers) /\ "deleted" \in Stages
    BY DEF Basics, Stages
  <2>2. readers' = [readers EXCEPT ![r].state = "deleted"]
    BY DEF ReadOfDeleted, Delete
  <2> QED BY <2>1, <2>2, ReaderChanges
<1> QED BY <1>1 DEF ReadOfDeleted, Basics, content, history

LEMMA ReaderClosedKeeps ==
  ASSUME Basics, NEW r \in 1..Len(readers), ReaderClosed(r)
  PROVE  Basics'
<1>1. readers' \in Seq(Readers) /\ Len(readers') = Len(readers)
  BY ReaderChanges DEF ReaderClosed, Basics, Stages
<1>2. /\ writes' \in Seq(Answers)
      /\ \A i \in 1..Len(writes') : writes'[i].from \in 0..Len(readers)
      /\ refused' \in BOOLEAN /\ fault' \in BOOLEAN
  <2>0. fault' \in BOOLEAN
    BY Zenon DEF ReaderClosed
  <2>1. type \in Types /\ status \in Codes /\ body \in MBody /\ headers \in Heads
        /\ (type = "FILE" => reader # 0)
    BY DEF Basics, Types, MBody
  <2>2. Send(type, status, body, headers)
    BY DEF ReaderClosed
  <2> QED BY <2>0, <2>1, <2>2, SendFacts
<1> QED BY <1>1, <1>2 DEF ReaderClosed, Basics, content, history

(* The error that sendErr() and the failed close send.                      *)
LEMMA ErrorFacts ==
  /\ "STR" \in Types /\ 500 \in Codes /\ ErrorStr \in MBody /\ {"text"} \in Heads
  /\ {} \cup {"text"} = {"text"}
BY DEF Types, Codes, MBody, Heads

LEMMA ErrorKeeps ==
  ASSUME Basics, NEW r \in 1..Len(readers), ReadFailed(r) \/ OpenFailed(r)
  PROVE  Basics'
<1>1. readers' \in Seq(Readers) /\ Len(readers') = Len(readers)
  <2>1. readers' = [readers EXCEPT ![r].state = "deleted"]
    BY DEF ReadFailed, OpenFailed, Delete
  <2>2. "deleted" \in Stages /\ readers \in Seq(Readers)
    BY DEF Stages, Basics
  <2> QED BY <2>1, <2>2, ReaderChanges
<1>2. /\ Send("STR", 500, ErrorStr, {"text"})
      /\ body' = ErrorStr /\ status' = 500 /\ headers' = {"text"} /\ type' = "STR"
  BY ErrorFacts DEF ReadFailed, OpenFailed, SendErr, SendBody
<1>3. /\ writes' \in Seq(Answers)
      /\ \A i \in 1..Len(writes') : writes'[i].from \in 0..Len(readers)
      /\ refused' \in BOOLEAN
  BY <1>2, ErrorFacts, SendFacts
<1>4. fault' \in BOOLEAN /\ failed' \in SUBSET {"open", "close"}
  BY DEF ReadFailed, OpenFailed, Basics, history
<1>5. UNCHANGED <<reader, hook, told, wire, asked, cleared, short, closing>>
  BY DEF ReadFailed, OpenFailed, history
<1> QED BY <1>1, <1>2, <1>3, <1>4, <1>5, ErrorFacts DEF Basics

LEMMA ReaderCloseFailedKeeps ==
  ASSUME Basics, NEW r \in 1..Len(readers), ReaderCloseFailed(r)
  PROVE  Basics'
<1> DEFINE err == Written("STR", 500, ErrorStr, {"text"})
<1>1. readers' \in Seq(Readers) /\ Len(readers') = Len(readers)
  <2>1. readers \in Seq(Readers) /\ "deleted" \in Stages
    BY DEF Basics, Stages
  <2>2. readers' = [readers EXCEPT ![r].state = "deleted"]
    BY DEF ReaderCloseFailed, Delete
  <2> QED BY <2>1, <2>2, ReaderChanges
<1>2. err \in Answers /\ err.from = 0
  <2>1. err \in Answers
    BY ErrorFacts, WrittenFacts
  <2> QED BY <2>1 DEF Written
<1> DEFINE one == Append(Spoilt(writes), err)
<1>3. writes' \in {Spoilt(writes), one, Append(Spoilt(one), err)}
  BY DEF ReaderCloseFailed
<1> HIDE DEF err
<1>6. /\ Spoilt(writes) \in Seq(Answers) /\ Len(Spoilt(writes)) = Len(writes)
      /\ \A i \in 1..Len(Spoilt(writes)) : Spoilt(writes)[i].from \in 0..Len(readers)
      /\ Len(writes) \in Nat /\ Len(readers) \in Nat
  BY SpoiltFacts DEF Basics
<1>4. /\ one \in Seq(Answers)
      /\ \A i \in 1..Len(one) : one[i].from \in 0..Len(readers)
  BY <1>2, <1>6
<1> HIDE DEF one
<1>5. /\ Spoilt(one) \in Seq(Answers) /\ Len(Spoilt(one)) = Len(one)
      /\ \A i \in 1..Len(Spoilt(one)) : Spoilt(one)[i].from \in 0..Len(readers)
      /\ Len(one) \in Nat
  BY <1>4, SpoiltFacts
<1>9. LET two == Append(Spoilt(one), err)
      IN  two \in Seq(Answers) /\ \A i \in 1..Len(two) : two[i].from \in 0..Len(readers)
  <2> DEFINE x == Spoilt(one)
             two == Append(x, err)
  <2>1. x \in Seq(Answers) /\ Len(x) \in Nat /\ \A i \in 1..Len(x) : x[i].from \in 0..Len(readers)
    BY <1>5
  <2> HIDE DEF x
  <2>2. /\ two \in Seq(Answers) /\ Len(two) = Len(x) + 1 /\ two[Len(x) + 1] = err
        /\ \A i \in 1..Len(x) : two[i] = x[i]
    BY <1>2, <2>1
  <2>3. err.from \in 0..Len(readers)
    BY <1>2, <1>6
  <2> HIDE DEF two
  <2>4. \A i \in 1..Len(two) : two[i].from \in 0..Len(readers)
    BY <2>1, <2>2, <2>3
  <2> QED BY <2>2, <2>4 DEF two, x
<1>7. writes' \in Seq(Answers) /\ \A i \in 1..Len(writes') : writes'[i].from \in 0..Len(readers)
  BY <1>3, <1>4, <1>6, <1>9
<1>8. refused' \in BOOLEAN /\ fault' \in BOOLEAN /\ failed' \in SUBSET {"open", "close"}
  <2>1. refused' \in BOOLEAN /\ fault' \in BOOLEAN
    BY Zenon DEF ReaderCloseFailed
  <2> QED BY <2>1 DEF ReaderCloseFailed, Basics
<1> QED BY <1>1, <1>7, <1>8, ErrorFacts DEF ReaderCloseFailed, Basics

-----------------------------------------------------------------------------
(* The write queue *)

LEMMA FlushKeeps ==
  ASSUME Basics, Flush
  PROVE  Basics'
<1>1. PICK i \in Waiting :
        writes' = [writes EXCEPT ![i].out = TRUE] /\ wire' = Append(wire, writes[i])
  BY DEF Flush
<1>2. i \in 1..Len(writes) /\ writes[i] \in Answers
  BY DEF Waiting, Basics
<1> DEFINE w == [writes[i] EXCEPT !.out = TRUE]
<1>3. w \in Answers /\ w.from = writes[i].from
  BY <1>2 DEF Answers
<1>4. writes' = [writes EXCEPT ![i] = w]
  BY <1>1
<1> HIDE DEF w
<1>5. writes' \in Seq(Answers) /\ Len(writes') = Len(writes)
  BY <1>2, <1>3, <1>4 DEF Basics
<1>6. \A j \in 1..Len(writes') : writes'[j].from \in 0..Len(readers)
  BY <1>2, <1>3, <1>4, <1>5 DEF Basics
<1>7. wire' \in Seq(Answers)
  BY <1>1, <1>2 DEF Basics
<1> QED BY <1>5, <1>6, <1>7 DEF Flush, Basics, content, history

(* onWriteEnd: the queue is one shorter, and a reader may be deleted.       *)
LEMMA OnWriteEndFacts ==
  ASSUME Basics, writes # <<>>, OnWriteEnd
  PROVE  /\ writes' \in Seq(Answers) /\ Len(writes') = Len(writes) - 1
         /\ \A i \in 1..Len(writes') : writes'[i].from \in 0..Len(readers)
         /\ readers' \in Seq(Readers) /\ Len(readers') = Len(readers)
         /\ fault' \in BOOLEAN /\ told' \in Nat
<1> DEFINE rest == Tail(writes)
           spoil(w) == [w EXCEPT !.intact = FALSE]
<1>1. /\ rest \in Seq(Answers) /\ Len(rest) = Len(writes) - 1
      /\ \A i \in 1..Len(rest) : rest[i] \in Answers /\ rest[i].from \in 0..Len(readers)
  BY DEF Basics
<1>2. /\ writes' = [i \in 1..Len(rest) |->
                     IF type = "FILE" /\ rest[i].from = reader /\ ~rest[i].out
                     THEN spoil(rest[i]) ELSE rest[i]]
  BY DEF OnWriteEnd
<1>3. \A w \in Answers : spoil(w) \in Answers /\ spoil(w).from = w.from
  BY DEF Answers
<1> HIDE DEF rest, spoil
<1>4. \A i \in 1..Len(rest) : writes'[i] = rest[i] \/ writes'[i] = spoil(rest[i])
  BY <1>2
<1>5. \A i \in 1..Len(rest) : writes'[i] \in Answers /\ writes'[i].from = rest[i].from
  BY <1>1, <1>3, <1>4
<1>6. writes' \in Seq(Answers) /\ Len(writes') = Len(rest)
  BY <1>1, <1>2, <1>5
<1>7. readers' \in Seq(Readers) /\ Len(readers') = Len(readers)
  <2>1. CASE type = "FILE"
    <3>1. reader \in 1..Len(readers)
      BY <2>1 DEF Basics
    <3>2. PICK st \in Stages : readers' = [readers EXCEPT ![reader].state = st]
      <4> DEFINE st == IF readers[reader].state \in InUse THEN "deletedInUse" ELSE "deleted"
      <4>1. st \in Stages /\ readers' = [readers EXCEPT ![reader].state = st]
        BY <2>1 DEF OnWriteEnd, Stages
      <4> QED BY <4>1
    <3> QED BY <3>1, <3>2, ReaderChanges DEF Basics
  <2> QED BY <2>1 DEF OnWriteEnd, Basics
<1>8. fault' \in BOOLEAN
  <2>1. CASE type = "FILE"
    BY <2>1, Zenon DEF OnWriteEnd
  <2>2. CASE type # "FILE"
    BY <2>2 DEF OnWriteEnd, Basics
  <2> QED BY <2>1, <2>2
<1>9. told' \in Nat
  BY DEF OnWriteEnd, Basics
<1> QED BY <1>1, <1>5, <1>6, <1>7, <1>8, <1>9

LEMMA EndKeeps ==
  ASSUME Basics, WriteEnd \/ WriteFailed
  PROVE  Basics'
<1>1. /\ writes # <<>> /\ OnWriteEnd
      /\ UNCHANGED <<content, reader, hook, wire, history, refused>>
  BY DEF WriteEnd, WriteFailed
<1> QED BY <1>1, OnWriteEndFacts DEF Basics, content, history

LEMMA BasicsKept ==
  ASSUME Basics, [Next]_vars
  PROVE  Basics'
<1>1. CASE UNCHANGED vars
  BY <1>1 DEF Basics, vars, content, history
<1>2. CASE \E b \in Strings : SendStr(b) \/ SendJson(b)
  BY <1>2, TextKeeps
<1>3. CASE \E f \in Files : SendFile(f)
  BY <1>3, SendFileKeeps
<1>4. CASE (\E s \in Statuses : SetStatus(s)) \/ SetHeader \/ OnSent \/ Close
  BY <1>4, SettingsKeep
<1>5. CASE ClearContent
  BY <1>5, ClearKeeps
<1>6. CASE ReaderNext
  BY <1>6, OpenedKeeps, ReadKeeps, ReadLastKeeps, ReadOfDeletedKeeps, ReaderClosedKeeps,
     ErrorKeeps, ReaderCloseFailedKeeps DEF ReaderNext, ReaderStep
<1>7. CASE WriteNext
  BY <1>7, FlushKeeps, EndKeeps DEF WriteNext
<1> QED BY <1>1, <1>2, <1>3, <1>4, <1>5, <1>6, <1>7 DEF Next

-----------------------------------------------------------------------------
(* A response that is sent once *)

(* The first send finds nothing there.                                      *)
LEMMA FirstSend ==
  ASSUME Basics, OneAnswerInv, NEW c \in Contents, asked' = Append(asked, c), SentOnce'
  PROVE  /\ asked = <<>> /\ Len(asked') = 1 /\ asked' # <<>> /\ asked'[1] = c
         /\ readers = <<>> /\ writes = <<>> /\ wire = <<>> /\ told = 0
         /\ ~refused
<1>1. Len(asked') <= 1 /\ Len(asked') = Len(asked) + 1 /\ Len(asked) \in Nat
  BY DEF SentOnce, Basics
<1>2. asked = <<>> /\ Len(asked') = 1 /\ asked' # <<>> /\ asked'[1] = c
  BY <1>1 DEF Basics
<1> QED BY <1>2 DEF OneAnswerInv, OneReader, Phases, Unsent

LEMMA TextOnce ==
  ASSUME Basics, OneAnswerInv, NEW b \in Strings, SendStr(b) \/ SendJson(b), SentOnce'
  PROVE  OneAnswerInv'
<1>1. /\ asked' = Append(asked, b) /\ headers' \in Heads /\ "mime" \notin headers'
      /\ type' \in {"STR", "JSON"} /\ status \in Codes
      /\ Send(type', status, b, headers')
      /\ UNCHANGED <<reader, readers, hook, told, wire, cleared, failed, short, closing,
                     fault>>
  BY DEF SendStr, SendJson, SendBody, Basics, Heads
<1>2. b \in Contents /\ b \in MBody /\ b \notin Files /\ type' \in Types
  BY <1>1, ContentsAssumption DEF Contents, MBody, Types
<1>3. /\ asked = <<>> /\ Len(asked') = 1 /\ asked' # <<>> /\ asked'[1] = b
      /\ readers = <<>> /\ writes = <<>> /\ wire = <<>> /\ told = 0
      /\ ~refused
  BY <1>1, <1>2, FirstSend
<1> DEFINE w == Written(type', status, b, headers')
<1>4. IF closing THEN writes' = <<>> ELSE Len(writes') = 1 /\ writes'[1] = w
  BY <1>1, <1>2, <1>3, SendFacts
<1>5. w.body = b /\ w.headers = headers' /\ ~w.out /\ w.intact
  BY <1>1 DEF Written
<1> HIDE DEF w
<1>6. refused' = closing /\ FaultIsOpen'
  BY <1>1, <1>3 DEF Send, Basics, OneAnswerInv, FaultIsOpen
<1>7. OneReader' /\ ReadWhole'
  BY <1>1, <1>2, <1>3 DEF OneReader, ReadWhole
<1>8. TypeTells'
  BY <1>1, <1>3 DEF TypeTells, Pending
<1>9. Phases'
  BY <1>1, <1>3, <1>4, <1>5, <1>6 DEF Phases, Pending, Unsent, InQueue
<1>10. AllRight'
  BY <1>1, <1>2, <1>3, <1>4, <1>5 DEF AllRight, Right, IsWhole
<1> QED BY <1>6, <1>7, <1>8, <1>9, <1>10 DEF OneAnswerInv

LEMMA SendFileOnce ==
  ASSUME Basics, OneAnswerInv, NEW f \in Files, SendFile(f), SentOnce'
  PROVE  OneAnswerInv'
<1> DEFINE r == [file |-> f, got |-> 0, state |-> "opening"]
<1>1. /\ asked' = Append(asked, f) /\ "mime" \in headers' /\ type' = "FILE"
      /\ readers' = Append(readers, r) /\ reader' = Len(readers')
      /\ UNCHANGED <<status, body, writes, hook, told, wire, cleared, failed, short,
                     closing, refused, fault>>
  BY DEF SendFile
<1>2. /\ asked = <<>> /\ Len(asked') = 1 /\ asked' # <<>> /\ asked'[1] = f
      /\ readers = <<>> /\ writes = <<>> /\ wire = <<>> /\ told = 0
      /\ ~refused
  BY <1>1, FirstSend DEF Contents
<1>3. Len(readers') = 1 /\ readers'[1] = r /\ readers' # <<>> /\ reader' = 1
  BY <1>1, <1>2
<1>4. r.file = f /\ r.state = "opening"
  OBVIOUS
<1> HIDE DEF r
<1>5. OneReader' /\ ReadWhole' /\ FaultIsOpen'
  BY <1>1, <1>2, <1>3, <1>4 DEF OneReader, ReadWhole, OneAnswerInv, FaultIsOpen
<1>6. TypeTells'
  BY <1>1, <1>2, <1>3, <1>4 DEF TypeTells, Pending, InUse
<1>7. Phases'
  BY <1>1, <1>2, <1>3, <1>4 DEF Phases, Pending, InUse, Unsent
<1>8. AllRight'
  BY <1>1, <1>2 DEF AllRight
<1> QED BY <1>5, <1>6, <1>7, <1>8 DEF OneAnswerInv

LEMMA SettingsOnce ==
  ASSUME Basics, OneAnswerInv,
         (\E s \in Statuses : SetStatus(s)) \/ SetHeader \/ OnSent \/ Close
  PROVE  OneAnswerInv'
<1>1. UNCHANGED <<type, body, reader, readers, writes, told, wire, asked, cleared, failed,
                  short, refused, fault>>
  BY DEF SetStatus, SetHeader, OnSent, Close, content, history
<1>2. headers \subseteq headers'
  BY DEF SetStatus, SetHeader, OnSent, Close, content
<1>3. hook' = hook \/ hook' = "app"
  BY DEF SetStatus, SetHeader, OnSent, Close
<1>4. OneReader' /\ TypeTells' /\ ReadWhole' /\ FaultIsOpen'
  BY <1>1, <1>2 DEF OneAnswerInv, OneReader, TypeTells, Pending, ReadWhole, FaultIsOpen
<1>5. Phases'
  BY <1>1, <1>3 DEF OneAnswerInv, Phases, Pending, Unsent, InQueue, Ended
<1>6. AllRight'
  BY <1>1 DEF OneAnswerInv, AllRight, Right, IsWhole, IsError, IsCut
<1> QED BY <1>4, <1>5, <1>6 DEF OneAnswerInv

LEMMA ClearOnce ==
  ASSUME Basics, OneAnswerInv, ClearContent
  PROVE  OneAnswerInv'
<1>1. /\ Len(writes') = Len(writes) /\ writes' \in Seq(Answers)
      /\ \A i \in 1..Len(writes) : writes'[i].out = writes[i].out
  BY ClearKeeps DEF Basics
<1>2. cleared' /\ type' = "NONE"
      /\ UNCHANGED <<reader, readers, hook, told, wire, asked, failed, short, refused, fault>>
  BY DEF ClearContent
<1>3. (writes = <<>>) <=> (writes' = <<>>)
  BY <1>1 DEF Basics
<1>4. OneReader' /\ ReadWhole' /\ FaultIsOpen'
  BY <1>2 DEF OneAnswerInv, OneReader, ReadWhole, FaultIsOpen
<1>5. TypeTells'
  BY <1>2 DEF OneAnswerInv, TypeTells
<1>6. Phases'
  BY <1>1, <1>2, <1>3 DEF OneAnswerInv, Phases, Pending, Unsent, InQueue, Ended
<1> QED BY <1>2, <1>4, <1>5, <1>6 DEF OneAnswerInv, AllRight

(* There is one reader, m_reader, and it is of the file asked for.          *)
LEMMA TheReader ==
  ASSUME Basics, OneAnswerInv, NEW r \in 1..Len(readers)
  PROVE  /\ r = 1 /\ reader = 1 /\ Len(readers) = 1 /\ readers # <<>>
         /\ asked # <<>> /\ asked[1] \in Files /\ readers[1].file = asked[1]
         /\ readers[1] \in Readers
<1>1. readers # <<>>
  BY DEF Basics
<1>2. asked # <<>> /\ asked[1] \in Files /\ Len(readers) = 1 /\ reader = 1
      /\ readers[1].file = asked[1]
  BY <1>1 DEF OneAnswerInv, OneReader
<1> QED BY <1>1, <1>2 DEF Basics

(* While the file is read, nothing was given to libuv.                      *)
LEMMA WhilePending ==
  ASSUME Basics, OneAnswerInv, NEW r \in 1..Len(readers), readers[r].state \in InUse
  PROVE  /\ Pending /\ writes = <<>> /\ wire = <<>> /\ told = 0 /\ ~refused
         /\ ~cleared => type = "FILE" /\ "mime" \in headers
<1>1. Pending
  BY TheReader DEF Pending
<1> QED BY <1>1 DEF OneAnswerInv, Phases, Unsent, TypeTells

(* A reader that goes on: what is closed without a short read is whole.     *)
LEMMA ReadingOnce ==
  ASSUME Basics, OneAnswerInv, NEW r \in 1..Len(readers),
         Opened(r) \/ Read(r) \/ ReadLast(r)
  PROVE  OneAnswerInv'
<1>1. /\ r = 1 /\ reader = 1 /\ Len(readers) = 1
      /\ asked # <<>> /\ asked[1] \in Files /\ readers[1].file = asked[1]
      /\ readers[1] \in Readers
  BY TheReader
<1>0. readers[r].state \in InUse
  BY DEF Opened, Read, ReadLast, InUse
<1>2. /\ writes = <<>> /\ wire = <<>> /\ told = 0 /\ ~refused
      /\ ~cleared => type = "FILE" /\ "mime" \in headers
  BY <1>0, WhilePending
<1>3. /\ Len(readers') = 1 /\ readers' # <<>>
      /\ readers'[1].file = asked[1] /\ readers'[1].state \in InUse
      /\ readers'[1].state = "closing" /\ ~short' => readers'[1].got = readers'[1].file.size
  <2>1. CASE Opened(r)
    <3>1. readers' = [readers EXCEPT ![1].state = "reading"] /\ readers \in Seq(Readers)
      BY <1>1, <2>1 DEF Opened, Basics
    <3>2. "reading" \in Stages /\ 1 \in 1..Len(readers) /\ "reading" \in InUse
      BY <1>1 DEF Stages, InUse
    <3>3. readers' \in Seq(Readers) /\ Len(readers') = Len(readers)
          /\ readers'[1].state = "reading" /\ readers'[1].file = readers[1].file
      BY <3>1, <3>2, ReaderChanges
    <3>4. Len(readers') = 1 /\ readers' # <<>>
      <4>1. Len(readers') = 1
        BY <1>1, <3>3
      <4> QED BY <4>1
    <3>5. readers'[1].state # "closing"
      BY <3>3
    <3> QED BY <1>1, <3>2, <3>3, <3>4, <3>5
  <2>2. CASE Read(r)
    BY <1>1, <2>2, ReadKeeps DEF Basics, InUse
  <2>3. CASE ReadLast(r)
    <3>1. readers' = [readers EXCEPT ![1].state = "closing"] /\ readers \in Seq(Readers)
      BY <1>1, <2>3 DEF ReadLast, Basics
    <3>2. "closing" \in Stages /\ 1 \in 1..Len(readers) /\ "closing" \in InUse
      BY <1>1 DEF Stages, InUse
    <3>3. readers' \in Seq(Readers) /\ Len(readers') = Len(readers)
          /\ readers'[1].state = "closing" /\ readers'[1].file = readers[1].file
          /\ readers'[1].got = readers[1].got
      BY <3>1, <3>2, ReaderChanges
    <3>4. readers[1].got \in Nat /\ readers[1].got <= readers[1].file.size
          /\ readers[1].file.size \in Nat
      BY <1>1, ContentsAssumption DEF Readers
    <3>5. ~short' => ~(readers[1].got < readers[1].file.size)
      BY <1>1, <2>3 DEF ReadLast
    <3>6. Len(readers') = 1 /\ readers' # <<>>
      <4>1. Len(readers') = 1
        BY <1>1, <3>3
      <4> QED BY <4>1
    <3>7. ~short' => readers[1].got = readers[1].file.size
      BY <3>4, <3>5
    <3> QED BY <1>1, <3>2, <3>3, <3>6, <3>7
  <2> QED BY <2>1, <2>2, <2>3
<1>4. UNCHANGED <<type, headers, reader, writes, hook, told, wire, asked, cleared, failed,
                  refused, fault>>
  BY DEF Opened, Read, ReadLast, content, history
<1>5. OneReader' /\ ReadWhole' /\ FaultIsOpen'
  BY <1>1, <1>3, <1>4 DEF OneReader, ReadWhole, FaultIsOpen, OneAnswerInv
<1>6. TypeTells'
  BY <1>2, <1>3, <1>4 DEF TypeTells, Pending, InUse
<1>7. Phases'
  BY <1>2, <1>3, <1>4 DEF Phases, Pending, Unsent
<1>8. AllRight'
  BY <1>2, <1>4 DEF AllRight
<1> QED BY <1>5, <1>6, <1>7, <1>8 DEF OneAnswerInv

LEMMA ReadOfDeletedNever ==
  ASSUME Basics, OneAnswerInv, NEW r \in 1..Len(readers)
  PROVE  ~ReadOfDeleted(r)
BY TheReader DEF ReadOfDeleted, OneAnswerInv, TypeTells

(* The file was read: what is sent is the whole of it, or what there is of  *)
(* it after a short read.                                                   *)
LEMMA ReaderClosedOnce ==
  ASSUME Basics, OneAnswerInv, NEW r \in 1..Len(readers), ReaderClosed(r)
  PROVE  OneAnswerInv'
<1>1. /\ r = 1 /\ reader = 1 /\ Len(readers) = 1
      /\ asked # <<>> /\ asked[1] \in Files /\ readers[1].file = asked[1]
      /\ readers[1] \in Readers
  BY TheReader
<1>0. readers[r].state \in InUse /\ readers[1].state = "closing"
  BY <1>1 DEF ReaderClosed, InUse
<1>2. /\ writes = <<>> /\ wire = <<>> /\ told = 0 /\ ~refused
      /\ ~cleared => type = "FILE" /\ "mime" \in headers
  BY <1>0, WhilePending
<1>3. /\ Len(readers') = 1 /\ readers' # <<>>
      /\ readers'[1].file = asked[1] /\ readers'[1].state = "read"
  <2>1. readers' = [readers EXCEPT ![1].state = "read"] /\ readers \in Seq(Readers)
    BY <1>1 DEF ReaderClosed, Basics
  <2>2. "read" \in Stages /\ 1 \in 1..Len(readers)
    BY <1>1 DEF Stages
  <2>3. readers' \in Seq(Readers)
    BY <2>1, <2>2, ReaderChanges
  <2> QED BY <1>1, <2>1, <2>2, <2>3, ReaderChanges
<1>4. UNCHANGED <<type, headers, reader, hook, told, wire, asked, cleared, failed, short>>
  BY DEF ReaderClosed, content, history
<1> DEFINE w == Written(type, status, body, headers)
<1>5. /\ IF closing THEN writes' = <<>> ELSE Len(writes') = 1 /\ writes'[1] = w
      /\ writes' \in Seq(Answers)
  <2>1. type \in Types /\ status \in Codes /\ body \in MBody /\ headers \in Heads
        /\ (type = "FILE" => reader # 0)
    BY DEF Basics, Types, MBody
  <2>2. Send(type, status, body, headers)
    BY DEF ReaderClosed
  <2> QED BY <1>2, <2>1, <2>2, SendFacts
<1>6. refused' = closing /\ FaultIsOpen'
  <2>1. refused' = closing
    BY <1>2 DEF ReaderClosed, Send, Basics
  <2>2. fault' = fault
    BY <1>0, <1>1 DEF ReaderClosed, Basics
  <2> QED BY <1>4, <2>1, <2>2 DEF OneAnswerInv, FaultIsOpen
<1>7. ~w.out /\ (~cleared => Right(w))
  <2>1. ~w.out /\ w.intact
    BY DEF Written
  <2>2. ASSUME ~cleared PROVE IsWhole(w) \/ (short /\ IsCut(w))
    <3>1. w.body = [is |-> asked[1].is, size |-> readers[1].got] /\ "mime" \in w.headers
      BY <1>1, <1>2, <2>2 DEF Written
    <3>2. asked[1] = [is |-> asked[1].is, size |-> asked[1].size]
      BY <1>1, ContentsAssumption
    <3>3. CASE readers[1].got = asked[1].size
      BY <1>1, <3>1, <3>2, <3>3 DEF IsWhole
    <3>4. CASE readers[1].got # asked[1].size
      <4>1. short
        <5>1. readers # <<>> /\ ReadWhole
          BY <1>1 DEF OneAnswerInv
        <5>2. readers[1].file = asked[1] /\ readers[1].state = "closing"
          BY <1>0, <1>1
        <5> QED BY <5>1, <5>2, <3>4 DEF ReadWhole
      <4>2. readers[1].got \in Nat /\ readers[1].got <= asked[1].size /\ asked[1].size \in Nat
        BY <1>1, ContentsAssumption DEF Readers
      <4> QED BY <1>1, <3>1, <3>4, <4>1, <4>2 DEF IsCut
    <3> QED BY <3>3, <3>4
  <2> QED BY <2>1, <2>2 DEF Right
<1> HIDE DEF w
<1>8. OneReader' /\ ReadWhole'
  BY <1>1, <1>3, <1>4 DEF OneReader, ReadWhole
<1>9. TypeTells'
  <2>1. ~cleared' /\ ~refused' => type' = "FILE" /\ writes' # <<>>
    <3>1. ~closing => writes' # <<>>
      BY <1>5
    <3>2. ~refused' => ~closing
      BY <1>6, Zenon
    <3> QED BY <1>2, <1>4, <3>1, <3>2
  <2> QED BY <1>3, <2>1 DEF TypeTells, Pending, InUse
<1>10. Phases'
  BY <1>1, <1>2, <1>3, <1>4, <1>5, <1>6, <1>7 DEF Phases, Pending, InUse, Unsent, InQueue, Basics
<1>11. AllRight'
  BY <1>2, <1>4, <1>5, <1>7 DEF AllRight, Right, IsWhole, IsError, IsCut
<1> QED BY <1>6, <1>8, <1>9, <1>10, <1>11 DEF OneAnswerInv

(* The file could not be read: what is sent is the error.                   *)
LEMMA ErrorOnce ==
  ASSUME Basics, OneAnswerInv, NEW r \in 1..Len(readers),
         ReadFailed(r) \/ OpenFailed(r)
  PROVE  OneAnswerInv'
<1>1. /\ r = 1 /\ reader = 1 /\ Len(readers) = 1
      /\ asked # <<>> /\ asked[1] \in Files /\ readers[1].file = asked[1]
  BY TheReader
<1>2. writes = <<>> /\ wire = <<>> /\ told = 0 /\ ~refused
  BY WhilePending DEF ReadFailed, OpenFailed, InUse
<1>3. /\ Len(readers') = 1 /\ readers' # <<>>
      /\ readers'[1].file = asked[1] /\ readers'[1].state = "deleted"
  <2>1. readers' = [readers EXCEPT ![1].state = "deleted"] /\ readers \in Seq(Readers)
    BY <1>1 DEF ReadFailed, OpenFailed, Delete, Basics
  <2>2. "deleted" \in Stages /\ 1 \in 1..Len(readers)
    BY <1>1 DEF Stages
  <2>3. readers' \in Seq(Readers)
    BY <2>1, <2>2, ReaderChanges
  <2> QED BY <1>1, <2>1, <2>2, <2>3, ReaderChanges
<1>4. UNCHANGED <<reader, hook, told, wire, asked, cleared, short>> /\ type' = "STR"
      /\ Send("STR", 500, ErrorStr, {"text"})
  BY ErrorFacts DEF ReadFailed, OpenFailed, SendErr, SendBody, history
<1> DEFINE w == Written("STR", 500, ErrorStr, {"text"})
<1>5. IF closing THEN writes' = <<>> ELSE Len(writes') = 1 /\ writes'[1] = w
  BY <1>2, <1>4, ErrorFacts, SendFacts
<1>6. refused' = closing /\ FaultIsOpen'
  <2>1. refused' = closing
    BY <1>2, <1>4 DEF Send, Basics
  <2>2. CASE ReadFailed(r)
    BY <2>1, <2>2 DEF ReadFailed, history, OneAnswerInv, FaultIsOpen
  <2>3. CASE OpenFailed(r)
    BY <2>1, <2>3 DEF OpenFailed, FaultIsOpen
  <2> QED BY <2>2, <2>3
<1>7. ~w.out /\ Right(w)
  <2>1. ~w.out /\ w.intact /\ w.body = ErrorStr /\ w.status = 500 /\ w.headers = {"text"}
    BY DEF Written
  <2> QED BY <1>1, <2>1 DEF Right, IsError
<1> HIDE DEF w
<1>8. OneReader' /\ ReadWhole'
  BY <1>1, <1>3, <1>4 DEF OneReader, ReadWhole
<1>9. TypeTells'
  BY <1>3, <1>4 DEF TypeTells, Pending, InUse
<1>10. Phases'
  BY <1>1, <1>2, <1>3, <1>4, <1>5, <1>6, <1>7 DEF Phases, Pending, InUse, Unsent, InQueue, Basics
<1>11. AllRight'
  BY <1>2, <1>4, <1>5, <1>7 DEF AllRight, Right, IsWhole, IsError, IsCut
<1> QED BY <1>6, <1>8, <1>9, <1>10, <1>11 DEF OneAnswerInv

LEMMA FlushOnce ==
  ASSUME Basics, OneAnswerInv, Flush
  PROVE  /\ OneAnswerInv'
         /\ InQueue /\ ~Pending /\ wire = <<>> /\ told = 0
         /\ wire' # <<>> /\ wire'[1] = writes[1] /\ asked # <<>>
<1>1. PICK i \in Waiting :
        writes' = [writes EXCEPT ![i].out = TRUE] /\ wire' = Append(wire, writes[i])
  BY DEF Flush
<1>2. i \in 1..Len(writes) /\ ~writes[i].out /\ writes[i] \in Answers /\ writes # <<>>
  BY DEF Waiting, Basics
<1>3. UNCHANGED <<type, headers, reader, readers, hook, told, asked, cleared, failed, short,
                  refused, fault>>
  BY DEF Flush, content, history
<1>4. asked # <<>> /\ ~Pending /\ ~refused /\ InQueue
  BY <1>2 DEF OneAnswerInv, Phases, Unsent, Ended
<1>5. Len(writes) = 1 /\ i = 1 /\ told = 0 /\ wire = <<>>
  BY <1>2, <1>4 DEF InQueue, Basics
<1> DEFINE w == [writes[1] EXCEPT !.out = TRUE]
<1>6. w.out /\ w.intact = writes[1].intact /\ w.body = writes[1].body
      /\ w.headers = writes[1].headers /\ w.status = writes[1].status
  BY <1>2, <1>5 DEF Answers
<1>7. Len(writes') = 1 /\ writes'[1] = w /\ writes' # <<>>
  <2>1. writes' = [writes EXCEPT ![1] = w] /\ writes \in Seq(Answers)
    BY <1>1, <1>5 DEF Basics
  <2> HIDE DEF w
  <2>2. w \in Answers
    BY <1>2, <1>5 DEF Answers, w
  <2>3. writes' \in Seq(Answers) /\ Len(writes') = 1 /\ writes'[1] = w
    BY <1>5, <2>1, <2>2
  <2> QED BY <2>3
<1> HIDE DEF w
<1>8. Len(wire') = 1 /\ wire'[1] = writes[1] /\ wire' # <<>>
  BY <1>1, <1>5
<1>9. OneReader' /\ ReadWhole' /\ FaultIsOpen'
  BY <1>3 DEF OneAnswerInv, OneReader, ReadWhole, FaultIsOpen
<1>10. TypeTells'
  BY <1>2, <1>3, <1>7 DEF OneAnswerInv, TypeTells, Pending
<1>11. Phases'
  BY <1>3, <1>4, <1>5, <1>6, <1>7, <1>8 DEF Phases, Pending, InQueue
<1>12. AllRight'
  <2>1. ASSUME ~cleared PROVE Right(writes[1])
    BY <1>5, <2>1 DEF OneAnswerInv, AllRight
  <2>2. ASSUME ~cleared PROVE (Right(writes[1]) /\ Right(wire[1]))'
    BY <1>3, <1>6, <1>7, <1>8, <2>1, <2>2 DEF Right, IsWhole, IsError, IsCut
  <2> QED BY <1>3, <1>7, <1>8, <2>2 DEF AllRight
<1> QED BY <1>3, <1>4, <1>5, <1>8, <1>9, <1>10, <1>11, <1>12 DEF OneAnswerInv

LEMMA EndOnce ==
  ASSUME Basics, OneAnswerInv, WriteEnd \/ WriteFailed
  PROVE  /\ OneAnswerInv'
         /\ asked # <<>> /\ told = 0 /\ (hook = "session" => told' = 1)
         /\ wire' = wire /\ asked' = asked /\ fault' = fault
<1>1. /\ writes # <<>> /\ OnWriteEnd
      /\ UNCHANGED <<type, headers, reader, hook, wire, asked, cleared, failed, short,
                     refused>>
  BY DEF WriteEnd, WriteFailed, content, history
<1>2. asked # <<>> /\ ~Pending /\ ~refused /\ InQueue
  BY <1>1 DEF OneAnswerInv, Phases, Unsent, Ended
<1>3. Len(writes) = 1 /\ told = 0 /\ Len(wire) <= 1
  BY <1>2 DEF InQueue
<1>4. writes' = <<>> /\ Len(readers') = Len(readers) /\ readers' \in Seq(Readers)
  BY <1>1, <1>3, OnWriteEndFacts DEF Basics
<1>5. told' \in {0, 1} /\ (hook = "session" => told' = 1)
  BY <1>1, <1>3 DEF OnWriteEnd
<1>6. ASSUME type = "FILE" PROVE OneReader' /\ ReadWhole' /\ TypeTells' /\ ~Pending' /\ fault' = fault
  <2>1. reader \in 1..Len(readers)
    BY <1>6 DEF Basics
  <2>2. /\ reader = 1 /\ Len(readers) = 1 /\ readers # <<>>
        /\ asked[1] \in Files /\ readers[1].file = asked[1]
    BY <2>1, TheReader
  <2>3. readers[1].state = "read"
    BY <1>1, <1>6 DEF OneAnswerInv, TypeTells
  <2>4. readers' = [readers EXCEPT ![1].state = "deleted"] /\ fault' = fault
    BY <1>1, <1>6, <2>2, <2>3 DEF OnWriteEnd, InUse, Basics
  <2>5. readers' # <<>> /\ readers'[1].state = "deleted" /\ readers'[1].file = asked[1]
    <3>1. "deleted" \in Stages /\ 1 \in 1..Len(readers) /\ readers \in Seq(Readers)
      BY <2>2 DEF Stages, Basics
    <3> QED BY <1>4, <2>2, <2>4, <3>1, ReaderChanges
  <2>6. OneReader' /\ ReadWhole'
    BY <1>1, <1>2, <1>4, <2>2, <2>5 DEF OneReader, ReadWhole
  <2>7. TypeTells'
    BY <1>4, <2>5 DEF TypeTells, Pending, InUse
  <2>8. ~Pending' /\ fault' = fault
    BY <2>4, <2>5 DEF Pending, InUse
  <2> QED BY <2>6, <2>7, <2>8
<1>7. ASSUME type # "FILE" PROVE OneReader' /\ ReadWhole' /\ TypeTells' /\ ~Pending' /\ fault' = fault
  <2>1. readers' = readers /\ fault' = fault
    BY <1>1, <1>7 DEF OnWriteEnd
  <2>2. OneReader' /\ ReadWhole'
    BY <1>1, <2>1 DEF OneAnswerInv, OneReader, ReadWhole
  <2>3. TypeTells'
    BY <1>1, <1>2, <1>7, <2>1 DEF OneAnswerInv, TypeTells, Pending
  <2>4. ~Pending' /\ fault' = fault
    BY <1>2, <2>1 DEF Pending
  <2> QED BY <2>2, <2>3, <2>4
<1>8. OneReader' /\ ReadWhole' /\ TypeTells' /\ ~Pending' /\ fault' = fault
  BY <1>6, <1>7
<1>9. Phases'
  BY <1>1, <1>2, <1>3, <1>4, <1>5, <1>8 DEF Phases, Ended
<1>10. AllRight'
  BY <1>1, <1>4 DEF OneAnswerInv, AllRight, Right, IsWhole, IsError, IsCut
<1>11. FaultIsOpen'
  BY <1>1, <1>8 DEF OneAnswerInv, FaultIsOpen
<1> QED BY <1>1, <1>2, <1>3, <1>5, <1>8, <1>9, <1>10, <1>11 DEF OneAnswerInv

-----------------------------------------------------------------------------
(* The theorems *)

LEMMA InitHolds == Init => IInv
<1> SUFFICES ASSUME Init PROVE IInv
  OBVIOUS
<1>1. Basics
  <2>1. status \in Codes /\ headers \in Heads
    BY DEF Init, Codes, Heads
  <2>2. <<>> \in Seq(Readers) /\ <<>> \in Seq(Answers) /\ <<>> \in Seq(Contents)
    OBVIOUS
  <2>3. \A i \in 1..Len(writes) : writes[i].from \in 0..Len(readers)
    BY DEF Init
  <2>4. reader \in 0..Len(readers) /\ told \in Nat
    BY DEF Init
  <2> QED BY <2>1, <2>2, <2>3, <2>4 DEF Init, Basics
<1>2. OneReader /\ ReadWhole /\ TypeTells /\ Phases /\ AllRight /\ FaultIsOpen
  BY DEF Init, OneReader, ReadWhole, TypeTells, Phases, Pending, Unsent, AllRight, FaultIsOpen
<1> QED BY <1>1, <1>2 DEF IInv, Once, OneAnswerInv

LEMMA StepKeeps == IInv /\ [Next]_vars => IInv'
<1> SUFFICES ASSUME IInv, [Next]_vars PROVE IInv'
  OBVIOUS
<1>1. Basics /\ Basics' /\ (SentOnce' => SentOnce)
  BY BasicsKept, Lasting DEF IInv
<1>2. ASSUME SentOnce' PROVE OneAnswerInv'
  <2>1. OneAnswerInv
    BY <1>1, <1>2 DEF IInv, Once
  <2>2. CASE UNCHANGED vars
    BY <2>1, <2>2 DEF vars, content, history, OneAnswerInv, OneReader, TypeTells, Phases,
                      Pending, Unsent, InQueue, Ended, AllRight, Right, IsWhole, IsError,
                      IsCut, ReadWhole, FaultIsOpen
  <2>3. CASE \E b \in Strings : SendStr(b) \/ SendJson(b)
    BY <1>1, <1>2, <2>1, <2>3, TextOnce
  <2>4. CASE \E f \in Files : SendFile(f)
    BY <1>1, <1>2, <2>1, <2>4, SendFileOnce
  <2>5. CASE (\E s \in Statuses : SetStatus(s)) \/ SetHeader \/ OnSent \/ Close
    BY <1>1, <2>1, <2>5, SettingsOnce
  <2>6. CASE ClearContent
    BY <1>1, <2>1, <2>6, ClearOnce
  <2>7. CASE ReaderNext
    <3>1. PICK r \in 1..Len(readers) : ReaderStep(r)
      BY <2>7 DEF ReaderNext
    <3>2. ~ReaderCloseFailed(r)
      BY <1>2 DEF ReaderCloseFailed, SentOnce
    <3> QED BY <1>1, <2>1, <3>1, <3>2, ReadingOnce, ReadOfDeletedNever, ReaderClosedOnce,
               ErrorOnce DEF ReaderStep
  <2>8. CASE WriteNext
    BY <1>1, <2>1, <2>8, FlushOnce, EndOnce DEF WriteNext
  <2> QED BY <2>2, <2>3, <2>4, <2>5, <2>6, <2>7, <2>8 DEF Next
<1> QED BY <1>1, <1>2 DEF IInv, Once

(* Every state of a response that the code can reach satisfies the          *)
(* inductive invariant.                                                     *)
THEOREM Invariant == Spec => []IInv
<1>1. Init => IInv
  BY InitHolds
<1>2. IInv /\ [Next]_vars => IInv'
  BY StepKeeps
<1> QED BY <1>1, <1>2, PTL DEF Spec

(* One send, and no failed uv_fs_close: the reader is deleted once, after   *)
(* its last use, but for what onOpen does when the file could not be        *)
(* opened, and no buffer changes under a write.                             *)
THEOREM Memory == Spec => []MemoryCauses
<1>1. ASSUME IInv PROVE TypeOK
  <2>1. \A r \in 1..Len(readers) :
          /\ readers[r].file \in Files
          /\ readers[r].got \in 0..readers[r].file.size
          /\ readers[r].state \in InUse \cup {"read", "deleted", "deletedInUse"}
    <3> SUFFICES ASSUME NEW r \in 1..Len(readers)
                 PROVE  /\ readers[r].file \in Files
                        /\ readers[r].got \in 0..readers[r].file.size
                        /\ readers[r].state \in Stages
      BY DEF Stages, InUse
    <3>1. readers[r] \in Readers
      BY <1>1 DEF IInv, Basics
    <3>2. readers[r].file \in Files /\ readers[r].got \in Nat
          /\ readers[r].got <= readers[r].file.size /\ readers[r].state \in Stages
      BY <3>1 DEF Readers
    <3>3. readers[r].file.size \in Nat
      BY <3>2, ContentsAssumption
    <3> QED BY <3>2, <3>3
  <2>2. {cleared, short, closing, refused, fault} \subseteq BOOLEAN
    BY <1>1 DEF IInv, Basics
  <2> QED BY <1>1, <2>1, <2>2 DEF IInv, Basics, TypeOK, Codes, Heads
<1>2. IInv => MemoryCauses
  BY <1>1 DEF IInv, Once, OneAnswerInv, FaultIsOpen, AllRight, Right, MemoryCauses
<1> QED BY <1>2, Invariant, PTL

(* One send that reaches libuv: when all is done no FileReader is left.     *)
THEOREM NoReaderLeft == Spec => []LeakCauses
<1>1. ASSUME IInv, Quiet, SentOnce, ~cleared, ~refused, NEW r \in 1..Len(readers)
      PROVE  readers[r].state = "deleted"
  <2>1. Basics /\ OneAnswerInv
    BY <1>1 DEF IInv, Once
  <2>2. r = 1 /\ readers # <<>>
    BY <2>1, TheReader
  <2>3. writes = <<>> /\ readers[1].state \notin InUse
    BY <1>1, <2>2 DEF Quiet
  <2> QED BY <1>1, <2>1, <2>2, <2>3 DEF OneAnswerInv, TypeTells, Pending
<1>2. IInv => LeakCauses
  BY <1>1 DEF LeakCauses
<1> QED BY <1>2, Invariant, PTL

(* One send: what leaves is what was asked for, or for a file the error     *)
(* with nothing of the answer it stands for, or after a short read part of  *)
(* the file.                                                                *)
THEOREM AsAsked == Spec => []AnswersAsked
<1>1. IInv => AnswersAsked
  BY DEF IInv, Once, OneAnswerInv, AllRight, Right, AnswersAsked
<1> QED BY <1>1, Invariant, PTL

(* One send: when all is done the session was told once, unless the         *)
(* application took its callback or uv_write refused the answer.            *)
THEOREM ToldOnce == Spec => []ToldCauses
<1>1. ASSUME IInv, Quiet, SentOnce, Len(asked) = 1
      PROVE  told = 1 \/ hook = "app" \/ (refused /\ told = 0)
  <2>1. Basics /\ OneAnswerInv
    BY <1>1 DEF IInv, Once
  <2>2. asked # <<>> /\ writes = <<>>
    BY <1>1 DEF Quiet
  <2>3. ~Pending
    <3>1. SUFFICES ASSUME Pending PROVE FALSE
      OBVIOUS
    <3>2. 1 \in 1..Len(readers)
      BY <2>1, <3>1 DEF Pending, Basics
    <3> QED BY <1>1, <3>1, <3>2 DEF Quiet, Pending
  <2> QED BY <2>1, <2>2, <2>3 DEF OneAnswerInv, Phases, Unsent, InQueue, Ended, Basics
<1>2. IInv => ToldCauses
  BY <1>1 DEF ToldCauses
<1> QED BY <1>2, Invariant, PTL

-----------------------------------------------------------------------------
(* OneAnswer, its liveness apart *)

LEMMA StepSimulates ==
  ASSUME IInv, IInv', [Next]_vars
  PROVE  [Promise!Next]_(Promise!vars)
<1>1. Basics /\ (UsedAsMeant' => UsedAsMeant) /\ (fault => fault')
  BY Lasting DEF IInv, UsedAsMeant, Basics
<1>2. CASE ~UsedAsMeant'
  BY <1>2 DEF Promise!Next
<1>3. CASE UsedAsMeant'
  <2>1. /\ UsedAsMeant /\ SentOnce /\ SentOnce' /\ OneAnswerInv /\ OneAnswerInv'
        /\ ~cleared /\ ~short /\ hook = "session" /\ hook' = "session"
    BY <1>1, <1>3 DEF UsedAsMeant, IInv, Once
  <2>2. CASE \E c \in Contents : asked' = Append(asked, c) /\ UNCHANGED <<wire, told, fault>>
    <3>1. PICK c \in Contents : asked' = Append(asked, c) /\ UNCHANGED <<wire, told, fault>>
      BY <2>2
    <3>2. asked = <<>> /\ asked' = <<c>>
      <4>1. asked = <<>>
        BY <1>1, <2>1, <3>1, FirstSend
      <4> QED BY <3>1, <4>1
    <3>3. Promise!Ask
      BY <3>1, <3>2 DEF Promise!Ask
    <3> QED BY <1>3, <2>1, <3>1, <3>3 DEF Promise!Next
  <2>3. CASE Flush
    <3>1. /\ wire = <<>> /\ told = 0 /\ wire' # <<>> /\ wire'[1] = writes[1]
          /\ asked # <<>> /\ Len(writes) = 1 /\ UNCHANGED <<asked, told, fault>>
      BY <1>1, <2>1, <2>3, FlushOnce DEF InQueue, Flush, history
    <3>2. Right(writes[1])
      BY <2>1, <3>1 DEF OneAnswerInv, AllRight
    <3>3. \/ writes[1].body = asked[1]
          \/ asked[1] \in Files /\ writes[1].body = ErrorStr
      BY <2>1, <3>2 DEF Right, IsWhole, IsError
    <3>4. Len(wire') = 1
      BY <2>3, <3>1 DEF Flush
    <3>5. BodiesOf(wire) = <<>> /\ BodiesOf(wire)' = <<writes[1].body>>
      BY <3>1, <3>4 DEF BodiesOf
    <3>6. Promise!Answer
      BY <3>1, <3>3, <3>5, Zenon DEF Promise!Answer
    <3> QED BY <1>3, <2>1, <3>1, <3>6 DEF Promise!Next
  <2>4. CASE WriteEnd \/ WriteFailed
    <3>1. asked # <<>> /\ told = 0 /\ told' = 1 /\ wire' = wire /\ asked' = asked /\ fault' = fault
      BY <1>1, <2>1, <2>4, EndOnce
    <3>2. Promise!Tell
      BY <3>1 DEF Promise!Tell, BodiesOf
    <3> QED BY <1>3, <2>1, <3>1, <3>2 DEF Promise!Next
  <2>5. CASE UNCHANGED <<asked, wire, told>> /\ (fault' = fault \/ readers # <<>>)
    <3>1. UsedAsMeant' = UsedAsMeant /\ BodiesOf(wire)' = BodiesOf(wire)
      BY <1>3, <2>1, <2>5 DEF UsedAsMeant, BodiesOf
    <3>2. CASE fault' = fault
      <4>1. UNCHANGED Promise!vars
        BY <2>5, <3>1, <3>2, Zenon DEF Promise!vars
      <4> QED BY <4>1
    <3>3. CASE fault' # fault
      <4>1. fault' = TRUE
        BY <1>1, <3>3 DEF IInv, Basics
      <4>2. asked # <<>>
        BY <2>1, <2>5, <3>3 DEF OneAnswerInv, OneReader
      <4>3. Promise!Break
        BY <2>5, <3>1, <4>1, <4>2, Zenon DEF Promise!Break
      <4> QED BY <1>3, <2>1, <4>3 DEF Promise!Next
    <3> QED BY <3>2, <3>3
  <2>6. \/ \E c \in Contents : asked' = Append(asked, c) /\ UNCHANGED <<wire, told, fault>>
        \/ Flush \/ WriteEnd \/ WriteFailed
        \/ UNCHANGED <<asked, wire, told>> /\ (fault' = fault \/ readers # <<>>)
    <3>1. CASE ReaderNext
      <4>1. readers # <<>>
        BY <1>1, <3>1 DEF ReaderNext, Basics
      <4>2. UNCHANGED <<asked, wire, told>>
        BY <3>1 DEF ReaderNext, ReaderStep, Opened, Read, ReadLast, ReadOfDeleted,
               ReaderClosed, OpenFailed, ReadFailed, ReaderCloseFailed, history
      <4> QED BY <4>1, <4>2
    <3>2. CASE ~ReaderNext
      BY <3>2 DEF Next, vars, content, history, SendStr, SendJson, SendFile, SetStatus,
             SetHeader, ClearContent, OnSent, Close, WriteNext, Contents
    <3> QED BY <3>1, <3>2
  <2> QED BY <2>2, <2>3, <2>4, <2>5, <2>6
<1> QED BY <1>2, <1>3

(* A response that is used as it is meant behaves as OneAnswer: asked once, *)
(* answered at most once and as asked, told at most once; all that leaves   *)
(* and every telling count.  That it is told at all is for TLC              *)
(* (Implements).                                                            *)
THEOREM SafeAnswer == Spec => Promise!Init /\ [][Promise!Next]_(Promise!vars)
<1>1. Init => Promise!Init
  BY DEF Init, Promise!Init, BodiesOf, UsedAsMeant, SentOnce
<1>2. IInv /\ IInv' /\ [Next]_vars => [Promise!Next]_(Promise!vars)
  BY StepSimulates
<1> QED BY <1>1, <1>2, Invariant, PTL DEF Spec
=============================================================================
