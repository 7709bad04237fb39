----------------------------- MODULE FileReader -----------------------------
(***************************************************************************)
(* FileReader (src/src/core/FileReader.cpp): a file is read by a chain of  *)
(* asynchronous libuv requests, open, read, ..., read, close, each started *)
(* by the callback of the one before.  The reader is deleted by the        *)
(* callbacks that its users install: httpResp::initReader and onWriteEnd   *)
(* (src/src/core/httpResp.cpp), and WsSession::sendFile                    *)
(* (src/src/core/WebSocket.cpp).                                           *)
(***************************************************************************)
EXTENDS Naturals, Sequences

CONSTANTS
  BufSize,  \* DEFAULT_FILE_READER_BUFF_SIZE
  MaxBufs   \* bound: the file fills at most so many buffers

ASSUME SizesAssumption == BufSize \in Nat \ {0} /\ MaxBufs \in Nat

VARIABLES
  user,      \* who reads: "http" or "ws"
  size,      \* the size of the file
  reader,    \* the FileReader: "none", "alive", "deleted"
  inflight,  \* the libuv request at work: "none", "open", "read", "close"
  fd,        \* the file: "none", "open", "closed"
  lens,      \* the len of each buffer in m_bufferVec
  buffUsed,  \* m_buffUsed
  readByte,  \* m_readByte
  result,    \* m_result; "unset" before it is assigned
  told,      \* history: the callbacks called, "error" or "close"
  writing,   \* uv_write is sending the buffers
  short,     \* history: a read returned less than was asked for and there
  refused,   \* history: uv_write refused the buffers
  reqs,      \* the life of the members m_open_req, m_read_req, m_close_req
  misuse,    \* history: requests given to uv_fs_req_cleanup out of their life
  rest,      \* the callback that has called m_onError and is still to go on
  fault      \* "stale_reader" when the reader is used after its deletion

causes == <<short, refused>>
uses == <<reqs, misuse, rest, fault>>
vars == <<user, size, reader, inflight, fd, lens, buffUsed, readByte, result,
          told, writing, causes, uses>>

Requests == {"m_open_req", "m_read_req", "m_close_req"}

Init ==
  /\ user \in {"http", "ws"}
  /\ size \in 0..(MaxBufs * BufSize)
  /\ reader = "none"
  /\ inflight = "none"
  /\ fd = "none"
  /\ lens = <<>>
  /\ buffUsed = 0
  /\ readByte = 0
  /\ result = "unset"
  /\ told = <<>>
  /\ writing = FALSE
  /\ short = FALSE
  /\ refused = FALSE
  /\ reqs = [r \in Requests |-> "unset"]
  /\ misuse = {}
  /\ rest = "none"
  /\ fault = "none"

-----------------------------------------------------------------------------
(* A request is unset, at work in libuv, finished when its callback runs,   *)
(* and clean.  The callbacks treat several, one after the other: f is       *)
(* [reqs |-> ..., misuse |-> ...], the state in between.                    *)
Before == [reqs |-> reqs, misuse |-> misuse]

Started(f, r) == [f EXCEPT !.reqs[r] = "busy"]

Finished(f, r) == [f EXCEPT !.reqs[r] = "finished"]

(* uv_fs_req_cleanup frees what the request points to.  One that libuv is   *)
(* working on stays busy.                                                   *)
Cleaned(f, r) ==
  IF f.reqs[r] \in {"unset", "busy"} THEN [f EXCEPT !.misuse = @ \cup {r}]
  ELSE [f EXCEPT !.reqs[r] = "clean"]

Becomes(f) == reqs' = f.reqs /\ misuse' = f.misuse

(* Every callback starts, or goes on, with self and req, which is a member  *)
(* of the reader.                                                           *)
UseReader == fault' = IF reader = "alive" THEN fault ELSE "stale_reader"

(* The constructor and fileRead(), called by sendFile().                    *)
FileRead ==
  /\ reader = "none"
  /\ reader' = "alive"
  /\ lens' = <<BufSize>>
  /\ buffUsed' = 0
  /\ readByte' = 0
  /\ inflight' = "open"
  /\ Becomes(Started(Before, "m_open_req"))
  /\ UNCHANGED <<user, size, causes, fd, result, told, writing, rest, fault>>

(* FILE_ON_ERROR: both users delete the reader in m_onError.  The error     *)
(* answer that httpResp sends has a body of its own (sendErr).              *)
FileOnError(err) ==
  /\ result' = err
  /\ told' = Append(told, "error")
  /\ reader' = "deleted"

(* The wrong request is cleaned up.                                         *)
MOnOpen ==
  /\ inflight = "open"
  /\ UseReader
  /\ fd' = "open"
  /\ buffUsed' = 0
  /\ inflight' = "read"
  /\ Becomes(Cleaned(Started(Finished(Before, "m_open_req"), "m_read_req"),
                     "m_read_req"))
  /\ UNCHANGED <<user, size, causes, reader, lens, readByte, result, told,
                 writing, rest>>

OnOpen ==
  /\ inflight = "open"
  /\ UseReader
  /\ fd' = "open"
  /\ buffUsed' = 0
  /\ inflight' = "read"
  /\ Becomes(Cleaned(Started(Finished(Before, "m_open_req"), "m_read_req"),
                     "m_open_req"))
  /\ UNCHANGED <<user, size, causes, reader, lens, readByte, result, told,
                 writing, rest>>

OnOpenFailed ==
  /\ inflight = "open"
  /\ UseReader
  /\ inflight' = "none"
  /\ Becomes(Finished(Before, "m_open_req"))
  /\ FileOnError("open_failed")
  /\ rest' = "onOpen"
  /\ UNCHANGED <<user, size, causes, fd, lens, buffUsed, readByte, writing>>

(* onOpen behind m_onError: req->result is looked at again, still an error, *)
(* and req is cleaned up.                                                   *)
OnOpenRest ==
  /\ rest = "onOpen"
  /\ rest' = "none"
  /\ UseReader
  /\ Becomes(Cleaned(Before, "m_open_req"))
  /\ UNCHANGED <<user, size, causes, reader, inflight, fd, lens, buffUsed,
                 readByte, result, told, writing>>

(* The file is closed after the first buffer.                               *)
MOnReadOnce ==
  /\ inflight = "read"
  /\ UseReader
  /\ readByte + lens[buffUsed + 1] <= size
  /\ readByte' = readByte + lens[buffUsed + 1]
  /\ buffUsed' = buffUsed + 1
  /\ inflight' = "close"
  /\ UNCHANGED <<user, size, causes, reader, fd, lens, result, told, writing,
                 reqs, misuse, rest>>

(* The buffer is full: there may be more.                                   *)
OnReadFull ==
  /\ inflight = "read"
  /\ UseReader
  /\ readByte + lens[buffUsed + 1] <= size
  /\ readByte' = readByte + lens[buffUsed + 1]
  /\ buffUsed' = buffUsed + 1
  /\ lens' = IF buffUsed' = Len(lens) THEN Append(lens, BufSize) ELSE lens
  /\ Becomes(Started(Finished(Before, "m_read_req"), "m_read_req"))
  /\ UNCHANGED <<user, size, causes, reader, inflight, fd, result, told,
                 writing, rest>>

(* The last buffer keeps the length it was allocated with.                  *)
MOnReadKeepsLen(n) ==
  /\ inflight = "read"
  /\ UseReader
  /\ n < lens[buffUsed + 1]
  /\ n <= size - readByte
  /\ short' = (short \/ n < size - readByte)
  /\ readByte' = readByte + n
  /\ buffUsed' = buffUsed + 1
  /\ inflight' = "close"
  /\ UNCHANGED <<user, size, refused, reader, fd, lens, result, told, writing,
                 reqs, misuse, rest>>

(* A read that does not fill the buffer is the last one.  The file is       *)
(* closed with m_read_req, and that is the req cleaned up behind it.        *)
OnReadLast(n) ==
  /\ inflight = "read"
  /\ UseReader
  /\ n < lens[buffUsed + 1]
  /\ n <= size - readByte
  /\ short' = (short \/ n < size - readByte)
  /\ readByte' = readByte + n
  /\ lens' = [lens EXCEPT ![buffUsed + 1] = n]
  /\ buffUsed' = buffUsed + 1
  /\ inflight' = "close"
  /\ Becomes(Cleaned(Started(Finished(Before, "m_read_req"), "m_read_req"),
                     "m_read_req"))
  /\ UNCHANGED <<user, size, refused, reader, fd, result, told, writing, rest>>

(* req is m_read_req; m_close_req was never started, and the file is not    *)
(* closed.  m_onError comes last.                                           *)
OnReadFailed ==
  /\ inflight = "read"
  /\ UseReader
  /\ inflight' = "none"
  /\ Becomes(Cleaned(Cleaned(Cleaned(Finished(Before, "m_read_req"),
                     "m_read_req"), "m_close_req"), "m_read_req"))
  /\ FileOnError("read_failed")
  /\ UNCHANGED <<user, size, causes, fd, lens, buffUsed, readByte, writing,
                 rest>>

(* m_onClose sends the buffers; uv_write takes them, or fails because the   *)
(* connection is closing, which neither user looks at.                      *)
SendBuffers ==
  /\ told' = Append(told, "close")
  /\ writing' \in BOOLEAN
  /\ refused' = ~writing'

(* req is m_read_req here too.                                              *)
OnClose ==
  /\ inflight = "close"
  /\ UseReader
  /\ inflight' = "none"
  /\ fd' = "closed"
  /\ Becomes(Cleaned(Cleaned(Finished(Before, "m_read_req"), "m_read_req"),
                     "m_read_req"))
  /\ SendBuffers
  /\ UNCHANGED <<user, size, short, reader, lens, buffUsed, readByte, result,
                 rest>>

OnCloseFailed ==
  /\ inflight = "close"
  /\ UseReader
  /\ inflight' = "none"
  /\ fd' = "closed"
  /\ Becomes(Finished(Before, "m_read_req"))
  /\ FileOnError("close_failed")
  /\ rest' = "onClose"
  /\ UNCHANGED <<user, size, causes, lens, buffUsed, readByte, writing>>

(* onClose behind m_onError: what is left of the deleted reader is cleaned  *)
(* up, and its m_onClose is called, or no longer found to be set.  Then a   *)
(* WsSession sends the buffers, and httpResp, whose m_sendType is STR since *)
(* sendErr(), the text of the error once more.                              *)
OnCloseRest ==
  /\ rest = "onClose"
  /\ rest' = "none"
  /\ UseReader
  /\ Becomes(Cleaned(Cleaned(Before, "m_read_req"), "m_read_req"))
  /\ \/ user = "ws" /\ SendBuffers
     \/ user = "http" /\ told' = Append(told, "close") /\ UNCHANGED <<writing, refused>>
     \/ UNCHANGED <<told, writing, refused>>
  /\ UNCHANGED <<user, size, short, reader, inflight, fd, lens, buffUsed,
                 readByte, result>>

(* The reader is deleted before the buffers are sent.                       *)
MOnWriteEnd ==
  /\ writing
  /\ reader = "alive"
  /\ reader' = IF user = "http" THEN "deleted" ELSE reader
  /\ UNCHANGED <<user, size, causes, inflight, fd, lens, buffUsed, readByte,
                 result, told, writing, uses>>

(* Nobody deletes the reader.                                               *)
MOnWriteEndKeeps ==
  /\ writing
  /\ writing' = FALSE
  /\ UNCHANGED <<user, size, causes, reader, inflight, fd, lens, buffUsed,
                 readByte, result, told, uses>>

(* The write callbacks: httpResp deletes the reader, WsSession does not.    *)
OnWriteEnd ==
  /\ writing
  /\ writing' = FALSE
  /\ reader' = IF user = "http" THEN "deleted" ELSE reader
  /\ fault' = IF user = "http" /\ reader = "deleted" THEN "stale_reader"
              ELSE fault
  /\ UNCHANGED <<user, size, causes, inflight, fd, lens, buffUsed, readByte,
                 result, told, reqs, misuse, rest>>

-----------------------------------------------------------------------------
Callback ==
  \/ OnOpen \/ OnOpenFailed \/ OnOpenRest
  \/ OnReadFull \/ (\E n \in 0..BufSize : OnReadLast(n)) \/ OnReadFailed
  \/ OnClose \/ OnCloseFailed \/ OnCloseRest

Next == FileRead \/ Callback \/ OnWriteEnd

(* libuv's thread pool finishes every request, and files are finite.        *)
Spec == Init /\ [][Next]_vars /\ WF_vars(Callback)

-----------------------------------------------------------------------------
(* The type invariant; m_buffUsed never counts more than m_bufferVec has.   *)
TypeOK ==
  /\ user \in {"http", "ws"}
  /\ size \in Nat
  /\ reader \in {"none", "alive", "deleted"}
  /\ inflight \in {"none", "open", "read", "close"}
  /\ fd \in {"none", "open", "closed"}
  /\ lens \in Seq(0..BufSize)
  /\ buffUsed \in 0..Len(lens)
  /\ readByte \in Nat
  /\ result \in {"unset", "open_failed", "read_failed", "close_failed"}
  /\ told \in Seq({"error", "close"})
  /\ writing \in BOOLEAN
  /\ short \in BOOLEAN
  /\ refused \in BOOLEAN
  /\ reqs \in [Requests -> {"unset", "busy", "finished", "clean"}]
  /\ misuse \subseteq Requests
  /\ rest \in {"none", "onOpen", "onClose"}
  /\ fault \in {"none", "stale_reader"}

(* While reading, there is an empty buffer of full size behind those that   *)
(* are in use, and m_readByte counts what they hold; afterwards all but the *)
(* last are full.  So m_readByte, the Content-Length of the response or the *)
(* length of the frame, is the number of bytes that appendToBuff hands on.  *)
LengthInv ==
  /\ inflight = "read" =>
       /\ buffUsed < Len(lens)
       /\ readByte = buffUsed * BufSize
       /\ \A i \in 1..Len(lens) : lens[i] = BufSize
  /\ inflight = "close" \/ told = <<"close">> =>
       /\ buffUsed \in 1..Len(lens)
       /\ readByte = (buffUsed - 1) * BufSize + lens[buffUsed]
       /\ \A i \in 1..(buffUsed - 1) : lens[i] = BufSize

(* What m_onClose finds is the whole file, also when it just fills its      *)
(* buffers, unless a read was short: that is taken for the end.             *)
WholeUnlessShort ==
  (inflight = "close" \/ told = <<"close">>) /\ ~short => readByte = size

(* What is left behind.  When all is done the reader is deleted, but for    *)
(* that of a WsSession, and that of an httpResp whose connection was        *)
(* closing when it was read; and when the user is told of the end the file  *)
(* is closed, but for a read that failed.                                   *)
LeakCauses ==
  /\ told # <<>> /\ ~writing /\ reader = "alive" => user = "ws" \/ refused
  /\ told # <<>> /\ fd = "open" => result = "read_failed"

(* uv_write points into the reader's buffers: the reader outlives it, but   *)
(* for that of a WsSession which a failed close has deleted before          *)
(* m_onClose.                                                               *)
BuffersOutliveWrite ==
  writing => reader = "alive" \/ (user = "ws" /\ result = "close_failed")

(* What is used outside its life.  Only behind a failed open or close is a  *)
(* reader used that m_onError has deleted.  libuv's fs.rst:224 has a        *)
(* request cleaned up when it is finished; of the clean-ups of the three    *)
(* callbacks the only others are that of m_read_req while it closes the     *)
(* file, when nothing reads any more, and that of m_close_req, which was    *)
(* never started, when a read has failed.                                   *)
StaleCauses ==
  /\ fault # "none" => result \in {"open_failed", "close_failed"}
  /\ "m_open_req" \notin misuse
  /\ "m_close_req" \in misuse => result = "read_failed"
  /\ "m_read_req" \in misuse => inflight = "close" \/ fd = "closed"

(* Where in the chain the reader is, and its requests.                      *)
ChainInv ==
  /\ inflight # "none" => /\ reader = "alive" /\ told = <<>> /\ rest = "none"
                          /\ ~writing /\ fault = "none" /\ result = "unset"
  /\ inflight = "open" => Len(lens) = 1 /\ readByte = 0 /\ lens[1] = BufSize
                        /\ misuse = {} /\ reqs["m_open_req"] = "busy"
  /\ inflight \in {"read", "close"} => reqs["m_read_req"] = "busy"
  /\ rest = "onOpen" => reqs["m_open_req"] = "finished"
  /\ rest = "onClose" => reqs["m_read_req"] = "finished" /\ fd = "closed"
  /\ fd = "open" => inflight \in {"read", "close"} \/ result = "read_failed"
  /\ reader = "none" => /\ inflight = "none" /\ fd = "none" /\ told = <<>>
                        /\ ~writing /\ result = "unset" /\ misuse = {}
                        /\ rest = "none" /\ fault = "none"

(* The callbacks of the user: one, and it was m_onError exactly when there  *)
(* is a result; a second one only behind a failed close.                    *)
ToldInv ==
  /\ result = "unset" => told \in {<<>>, <<"close">>} /\ rest = "none"
  /\ result \in {"open_failed", "read_failed"} => told = <<"error">>
  /\ result = "close_failed" => told \in {<<"error">>, <<"error", "close">>}
  /\ rest # "none" => told = <<"error">> /\ reader = "deleted" /\ ~writing
  /\ rest = "onOpen" => result = "open_failed"
  /\ rest = "onClose" => result = "close_failed"
  /\ result \in {"open_failed", "read_failed"} => ~writing
  /\ result # "unset" => reader = "deleted" /\ inflight = "none"
  /\ writing => reader # "none"

(* The inductive invariant of FileReaderProofs.                             *)
ReaderInv ==
  LengthInv /\ WholeUnlessShort /\ LeakCauses /\ BuffersOutliveWrite
  /\ StaleCauses /\ ChainInv /\ ToldInv

(* The bytes of the first n buffers, which appendToBuff adds one by one.    *)
BytesOf(vec, n) ==
  LET sum[i \in 0..n] == IF i = 0 THEN 0 ELSE sum[i - 1] + vec[i]
  IN  sum[n]

(* The reading ends, in m_onClose or m_onError and not in both unless the   *)
(* file would not close, and the length that is announced is the length of  *)
(* what is handed over: FileReader implements FileResult.                   *)
Result == INSTANCE FileResult WITH
            started   <- reader # "none",
            calls     <- told,
            unclosed  <- result = "close_failed",
            announced <- IF told = <<"close">> THEN readByte ELSE 0,
            handed    <- IF told = <<"close">>
                         THEN BytesOf(lens, buffUsed) ELSE 0

ImplementsFileResult == Result!Spec
=============================================================================
