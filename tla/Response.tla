------------------------------ MODULE Response ------------------------------
(***************************************************************************)
(* One httpResp (src/src/core/httpResp.cpp): the answer that a handler     *)
(* fills and sends, perhaps after a file has been read.  uv_write does not *)
(* copy what it sends: the buffers of a write point into m_head, m_body or *)
(* the FileReader until the kernel has taken them.                         *)
(*                                                                         *)
(* A body is a record of what it is and of its size, which Content-Length  *)
(* announces; a FileReader has read so much of its file.  The requests of  *)
(* a reader are FileReader's and the session that onSent tells is          *)
(* HttpSession's.                                                          *)
(***************************************************************************)
EXTENDS Naturals, Sequences

CONSTANTS
  Strings,       \* bodies for sendStr and sendJson: records [is, size]
  Files,         \* files for sendFile: records [is, size]
  Statuses,      \* what setStatus may be given
  MaxSends       \* bound: calls of sendStr, sendJson and sendFile; the README
                 \* allows one

VARIABLES
  status,    \* m_status
  type,      \* m_sendType
  body,      \* m_body
  headers,   \* m_headers: those set, by the application or by a send
  reader,    \* m_reader, an index of readers; 0: not initialised
  readers,   \* every FileReader made: its file, what it has read, its state
  writes,    \* the writes that libuv has, in order
  hook,      \* m_onSent: that of the "session" or one of the "app"
  told,      \* how often the session's onSent was called
  asked,     \* history: what the application has sent
  wire,      \* history: the answers that left, as they left
  cleared,   \* history: clearContent() was called
  failed,    \* history: uv_fs_open or uv_fs_close failed, "open" or "close"
  short,     \* history: a read before the end of a file was taken for its end
  closing,   \* the handle m_client is closing
  refused,   \* history: uv_write refused an answer
  fault      \* history: a reader deleted twice, or used when deleted

content == <<status, type, body, headers>>
history == <<asked, cleared, failed, short, closing>>
vars == <<content, reader, readers, writes, hook, told, wire, history, refused,
          fault>>

Empty    == [is |-> "", size |-> 0]
ErrorStr == [is |-> "500", size |-> 3]

(* Records say what they stand for: a text is no file, and neither is the   *)
(* m_body of a response that was never sent.                                *)
ASSUME ContentsAssumption ==
  /\ \A c \in Strings \cup Files : c.size \in Nat /\ c = [is |-> c.is, size |-> c.size]
  /\ Strings \cap Files = {}
  /\ Empty \notin Strings \cup Files

Init ==
  /\ status = 200
  /\ type = "NONE"
  /\ body = Empty
  /\ headers = {}
  /\ reader = 0
  /\ readers = <<>>
  /\ writes = <<>>
  /\ hook = "session"
  /\ told = 0
  /\ asked = <<>>
  /\ wire = <<>>
  /\ cleared = FALSE
  /\ failed = {}
  /\ short = FALSE
  /\ closing = FALSE
  /\ refused = FALSE
  /\ fault = FALSE

-----------------------------------------------------------------------------
(* Every write that is not out yet has its m_head, or its m_body, changed.  *)
Spoilt(list) ==
  [i \in 1..Len(list) |-> IF list[i].out THEN list[i] ELSE [list[i] EXCEPT !.intact = FALSE]]

(* What send() writes, for the m_sendType, m_status, m_body and headers     *)
(* given and the readers as they are.                                       *)
Written(t, s, b, h) ==
  [status |-> s, headers |-> h,
   body   |-> IF t = "FILE" THEN [is |-> readers[reader].file.is, size |-> readers[reader].got]
                            ELSE b,
   from   |-> IF t = "FILE" THEN reader ELSE 0,
   out    |-> FALSE, intact |-> TRUE]

(* send(): m_head is written over and the write given to libuv, which       *)
(* refuses it when the handle is closing; nobody looks.                     *)
Send(t, s, b, h) ==
  /\ writes' = IF closing THEN Spoilt(writes)
               ELSE Append(Spoilt(writes), Written(t, s, b, h))
  /\ refused' = (refused \/ closing)

SendBody(t, ctype, s, b, h) ==
  /\ body' = b
  /\ status' = s
  /\ headers' = h \cup {ctype}
  /\ type' = t
  /\ Send(t, s, b, h \cup {ctype})

MayAsk == Len(asked) < MaxSends

SendStr(b) ==
  /\ MayAsk
  /\ asked' = Append(asked, b)
  /\ SendBody("STR", "text", status, b, headers \ {"json", "mime"})
  /\ UNCHANGED <<reader, readers, hook, told, wire, cleared, failed, short,
                 closing, fault>>

SendJson(b) ==
  /\ MayAsk
  /\ asked' = Append(asked, b)
  /\ SendBody("JSON", "json", status, b, headers \ {"text", "mime"})
  /\ UNCHANGED <<reader, readers, hook, told, wire, cleared, failed, short,
                 closing, fault>>

SendFile(f) ==
  /\ MayAsk
  /\ asked' = Append(asked, f)
  /\ headers' = (headers \ {"text", "json"}) \cup {"mime"}
  /\ type' = "FILE"
  /\ readers' = Append(readers, [file |-> f, got |-> 0, state |-> "opening"])
  /\ reader' = Len(readers')
  /\ UNCHANGED <<status, body, writes, hook, told, wire, cleared, failed, short,
                 closing, refused, fault>>

SetStatus(s) ==
  /\ status # s
  /\ status' = s
  /\ UNCHANGED <<type, body, headers, reader, readers, writes, hook, told, wire,
                 history, refused, fault>>

SetHeader ==
  /\ "own" \notin headers
  /\ headers' = headers \cup {"own"}
  /\ UNCHANGED <<status, type, body, reader, readers, writes, hook, told, wire,
                 history, refused, fault>>

(* m_head stays, m_body does not.                                           *)
ClearContent ==
  /\ cleared' = TRUE
  /\ status' = 200
  /\ type' = "NONE"
  /\ body' = Empty
  /\ headers' = {}
  /\ writes' = [i \in 1..Len(writes) |->
                  IF writes[i].from # 0 \/ writes[i].out \/ writes[i].body.size = 0
                  THEN writes[i] ELSE [writes[i] EXCEPT !.intact = FALSE]]
  /\ UNCHANGED <<reader, readers, hook, told, wire, asked, failed, short, closing,
                 refused, fault>>

(* onSent(), which is public: the session's callback is gone.               *)
OnSent ==
  /\ hook' = "app"
  /\ UNCHANGED <<content, reader, readers, writes, told, wire, history, refused, fault>>

-----------------------------------------------------------------------------
(* The FileReader's steps and the callbacks of initReader                   *)

InUse == {"opening", "reading", "closing"}

Delete(list, r) == [list EXCEPT ![r].state = "deleted"]

Opened(r) ==
  /\ readers[r].state = "opening"
  /\ readers' = [readers EXCEPT ![r].state = "reading"]
  /\ UNCHANGED <<content, reader, writes, hook, told, wire, history, refused, fault>>

(* A buffer is filled.                                                      *)
Read(r) ==
  /\ readers[r].state = "reading"
  /\ readers[r].got < readers[r].file.size
  /\ readers' = [readers EXCEPT ![r].got = @ + 1]
  /\ UNCHANGED <<content, reader, writes, hook, told, wire, history, refused, fault>>

(* A read that does not fill its buffer is taken for the end of the file,   *)
(* wherever it is.                                                          *)
ReadLast(r) ==
  /\ readers[r].state = "reading"
  /\ readers' = [readers EXCEPT ![r].state = "closing"]
  /\ short' = (short \/ readers[r].got < readers[r].file.size)
  /\ UNCHANGED <<content, reader, writes, hook, told, wire, asked, cleared, failed,
                 closing, refused, fault>>

(* The callback of a reader that was deleted under it uses freed memory.    *)
ReadOfDeleted(r) ==
  /\ readers[r].state = "deletedInUse"
  /\ readers' = Delete(readers, r)
  /\ fault' = TRUE
  /\ UNCHANGED <<content, reader, writes, hook, told, wire, history, refused>>

(* m_onClose: send(), with whatever m_reader is by now.                     *)
ReaderClosed(r) ==
  /\ readers[r].state = "closing"
  /\ Send(type, status, body, headers)
  /\ fault' = (fault \/ (type = "FILE" /\ readers[reader].state = "deleted"))
  /\ readers' = [readers EXCEPT ![r].state = "read"]
  /\ UNCHANGED <<content, reader, hook, told, wire, history>>

(* The headers of the answer that failed are kept, and so is its status.    *)
MSendErr ==
  SendBody("STR", "text", status, ErrorStr, headers \ {"json", "mime"})

SendErr == SendBody("STR", "text", 500, ErrorStr, {})

(* m_sendType is left as it is: FILE.                                       *)
MReadFailed(r) ==
  /\ readers[r].state = "reading"
  /\ Send("STR", 500, ErrorStr, {"text"})
  /\ body' = ErrorStr /\ status' = 500 /\ headers' = {"text"}
  /\ readers' = Delete(readers, r)
  /\ UNCHANGED <<type, reader, hook, told, wire, history, fault>>

(* m_onError, and m_onClose behind it: the error is sent twice.             *)
MReadFailedTwice(r) ==
  /\ readers[r].state = "reading"
  /\ body' = ErrorStr /\ status' = 500 /\ headers' = {"text"} /\ type' = "STR"
  /\ LET err == Written("STR", 500, ErrorStr, {"text"})
     IN  writes' = IF closing THEN writes ELSE Append(Append(writes, err), err)
  /\ refused' = (refused \/ closing)
  /\ readers' = Delete(readers, r)
  /\ UNCHANGED <<reader, hook, told, wire, history, fault>>

(* m_onError, the last thing that onRead calls: the error is sent, the      *)
(* reader deleted; m_sendType is STR, so onWriteEnd does not delete it      *)
(* again.                                                                   *)
ReadFailed(r) ==
  /\ readers[r].state = "reading"
  /\ SendErr
  /\ readers' = Delete(readers, r)
  /\ UNCHANGED <<reader, hook, told, wire, history, fault>>

(* The same m_onError, called by onOpen, which then goes on with its req, a *)
(* member of the reader.                                                    *)
OpenFailed(r) ==
  /\ readers[r].state = "opening"
  /\ SendErr
  /\ readers' = Delete(readers, r)
  /\ failed' = failed \cup {"open"}
  /\ fault' = TRUE
  /\ UNCHANGED <<reader, hook, told, wire, asked, cleared, short, closing>>

(* uv_fs_close fails: onClose calls m_onError and then, of the deleted      *)
(* reader, m_onClose; if that is still called, its send() repeats the error *)
(* of the first.                                                            *)
ReaderCloseFailed(r) ==
  /\ readers[r].state = "closing"
  /\ body' = ErrorStr
  /\ status' = 500
  /\ headers' = {"text"}
  /\ type' = "STR"
  /\ LET err  == Written("STR", 500, ErrorStr, {"text"})
         once == Append(Spoilt(writes), err)
     IN  writes' \in IF closing THEN {Spoilt(writes)}
                     ELSE {once, Append(Spoilt(once), err)}
  /\ refused' = (refused \/ closing)
  /\ readers' = Delete(readers, r)
  /\ failed' = failed \cup {"close"}
  /\ fault' = TRUE
  /\ UNCHANGED <<reader, hook, told, wire, asked, cleared, short, closing>>

-----------------------------------------------------------------------------
(* libuv's side of the write queue *)

Waiting == {i \in 1..Len(writes) : ~writes[i].out}

(* The kernel has taken the whole of the first write that is not out.       *)
Flush ==
  /\ ~closing
  /\ \E i \in Waiting :
       /\ \A j \in Waiting : i <= j
       /\ writes' = [writes EXCEPT ![i].out = TRUE]
       /\ wire' = Append(wire, writes[i])
  /\ UNCHANGED <<content, reader, readers, hook, told, history, refused, fault>>

(* The reader of a file that was sent is not deleted.                       *)
MOnWriteEnd ==
  /\ UNCHANGED <<readers, fault>>
  /\ writes' = Tail(writes)
  /\ told' = IF hook = "session" THEN told + 1 ELSE told

(* onWriteEnd: m_reader is deleted if m_sendType is now FILE.               *)
OnWriteEnd ==
  /\ IF type = "FILE"
     THEN /\ fault' = (fault \/ readers[reader].state # "read")
          /\ readers' = [readers EXCEPT ![reader].state =
                           IF @ \in InUse THEN "deletedInUse" ELSE "deleted"]
     ELSE UNCHANGED <<readers, fault>>
  /\ writes' =
       LET rest == Tail(writes)
       IN  [i \in 1..Len(rest) |->
              IF type = "FILE" /\ rest[i].from = reader /\ ~rest[i].out
              THEN [rest[i] EXCEPT !.intact = FALSE] ELSE rest[i]]
  /\ told' = IF hook = "session" THEN told + 1 ELSE told

WriteEnd ==
  /\ writes # <<>>
  /\ Head(writes).out
  /\ OnWriteEnd
  /\ UNCHANGED <<content, reader, hook, wire, history, refused>>

(* onSent is for answers that were written.                                 *)
MWriteFailed ==
  /\ writes # <<>>
  /\ ~Head(writes).out
  /\ writes' = Tail(writes)
  /\ UNCHANGED <<content, reader, readers, hook, told, wire, history, refused, fault>>

(* The connection is lost or closed: status < 0, which is only logged.      *)
WriteFailed ==
  /\ writes # <<>>
  /\ ~Head(writes).out
  /\ OnWriteEnd
  /\ UNCHANGED <<content, reader, hook, wire, history, refused>>

(* The session closes the connection: by its timer, by the peer's end, or   *)
(* by another answer's onSent.                                              *)
Close ==
  /\ ~closing
  /\ closing' = TRUE
  /\ UNCHANGED <<content, reader, readers, writes, hook, told, wire, asked,
                 cleared, failed, short, refused, fault>>

-----------------------------------------------------------------------------
ReaderStep(r) ==
  \/ Opened(r) \/ Read(r) \/ ReadLast(r) \/ ReaderClosed(r)
  \/ OpenFailed(r) \/ ReadFailed(r) \/ ReaderCloseFailed(r)
  \/ ReadOfDeleted(r)

ReaderNext == \E r \in 1..Len(readers) : ReaderStep(r)

WriteNext == Flush \/ WriteEnd \/ WriteFailed

Next ==
  \/ \E b \in Strings : SendStr(b) \/ SendJson(b)
  \/ \E f \in Files : SendFile(f)
  \/ \E s \in Statuses : SetStatus(s)
  \/ SetHeader
  \/ ClearContent
  \/ OnSent
  \/ Close
  \/ ReaderNext
  \/ WriteNext

(* libuv completes what was started: reads, and writes, which the kernel    *)
(* takes or the connection's end cancels.                                   *)
Spec == Init /\ [][Next]_vars /\ WF_vars(ReaderNext) /\ WF_vars(WriteNext)
-----------------------------------------------------------------------------
Contents == Strings \cup Files

(* The type invariant; m_reader, and what a write points into, is a reader  *)
(* that was made.                                                           *)
TypeOK ==
  /\ status \in Statuses \cup {200, 500}
  /\ type \in {"NONE", "STR", "JSON", "FILE"}
  /\ body \in Strings \cup {Empty, ErrorStr}
  /\ headers \in SUBSET {"own", "text", "json", "mime"}
  /\ reader \in 0..Len(readers)
  /\ \A r \in 1..Len(readers) :
       /\ readers[r].file \in Files
       /\ readers[r].got \in 0..readers[r].file.size
       /\ readers[r].state \in InUse \cup {"read", "deleted", "deletedInUse"}
  /\ \A i \in 1..Len(writes) : writes[i].from \in 0..Len(readers)
  /\ hook \in {"session", "app"}
  /\ told \in Nat
  /\ asked \in Seq(Contents)
  /\ failed \subseteq {"open", "close"}
  /\ {cleared, short, closing, refused, fault} \subseteq BOOLEAN

Quiet == writes = <<>> /\ \A r \in 1..Len(readers) : readers[r].state \notin InUse

(* The README's rule is kept, and uv_fs_close did not fail.                 *)
SentOnce == Len(asked) <= 1 /\ "close" \notin failed

(* The application leaves alone what it was not given to change, the        *)
(* connection is not closed before the answer is there, and no read was     *)
(* short.                                                                   *)
UsedAsMeant == SentOnce /\ ~cleared /\ hook = "session" /\ ~refused /\ ~short

(* When one answer is sent, the reader is deleted once and not used         *)
(* afterwards, but by onOpen when the file could not be opened; and if      *)
(* clearContent() is left alone, what a write points to stays as it was     *)
(* until the kernel has it.                                                 *)
MemoryCauses ==
  /\ TypeOK
  /\ SentOnce => /\ fault => "open" \in failed
                 /\ ~cleared => \A i \in 1..Len(wire) : wire[i].intact

(* When all is done, every FileReader is deleted: by onError, or by         *)
(* onWriteEnd, which needs m_sendType to be FILE still, and is not called   *)
(* when the file was read too late and uv_write refused it.                 *)
LeakCauses ==
  Quiet /\ SentOnce /\ ~cleared /\ ~refused =>
    \A r \in 1..Len(readers) : readers[r].state = "deleted"

(* An answer that is what was asked for, with the type of it; the first     *)
(* part of a file; or an error, with its own status and nothing that the    *)
(* application has set before.                                              *)
IsWhole(w) ==
  /\ w.body = asked[1]
  /\ ("mime" \in w.headers) = (asked[1] \in Files)

IsCut(w) ==
  /\ asked[1] \in Files
  /\ w.body.is = asked[1].is /\ w.body.size < asked[1].size
  /\ "mime" \in w.headers

IsError(w) ==
  /\ asked[1] \in Files
  /\ w.body = ErrorStr /\ w.status = 500 /\ w.headers = {"text"}

(* Whatever leaves of a response that is sent once is what was sent, or an  *)
(* error in the place of a file; part of a file leaves as the whole only    *)
(* when a read was short.                                                   *)
AnswersAsked ==
  SentOnce /\ ~cleared =>
    \A i \in 1..Len(wire) :
      IsWhole(wire[i]) \/ IsError(wire[i]) \/ (short /\ IsCut(wire[i]))

(* The session hears of each answer as often as it was written, unless the  *)
(* application has taken its onSent, and then the connection is neither     *)
(* closed nor timed (initResp), or uv_write refused it.                     *)
ToldCauses ==
  Quiet /\ SentOnce /\ Len(asked) = 1 =>
    told = 1 \/ hook = "app" \/ (refused /\ told = 0)

(* A response that is used as it is meant leaves as one answer, as sent,    *)
(* and the session is told, once, also when the connection is lost or       *)
(* closed under the write (OneAnswer).  All that left and every telling     *)
(* count.                                                                   *)
BodiesOf(list) == [i \in 1..Len(list) |-> list[i].body]

Promise ==
  INSTANCE OneAnswer WITH
    MayFail <- Files, Error <- ErrorStr,
    answers <- BodiesOf(wire),
    kept    <- UsedAsMeant,
    broken  <- fault

Implements == Promise!Spec
=============================================================================
