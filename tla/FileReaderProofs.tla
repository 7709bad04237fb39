-------------------------- MODULE FileReaderProofs --------------------------
(***************************************************************************)
(* ReaderInv is inductive for every size of the buffers and every length   *)
(* of the file.                                                            *)
(***************************************************************************)
EXTENDS FileReader, SequenceTheorems, WellFoundedInduction, TLAPS

IInv == TypeOK /\ ReaderInv

USE DEF causes, uses, Requests

(* What the callbacks make of the requests: m_read_req is at work, or m_open_req *)
(* is done with, and so on; only m_read_req is cleaned up while it is busy, and  *)
(* m_close_req while it is unset.                                                *)
LEMMA ReqSteps ==
  ASSUME TypeOK
  PROVE  /\ Becomes(Started(Before, "m_open_req")) =>
              reqs' = [reqs EXCEPT !["m_open_req"] = "busy"] /\ misuse' = misuse
         /\ Becomes(Finished(Before, "m_open_req")) =>
              reqs' = [reqs EXCEPT !["m_open_req"] = "finished"] /\ misuse' = misuse
         /\ Becomes(Finished(Before, "m_read_req")) =>
              reqs' = [reqs EXCEPT !["m_read_req"] = "finished"] /\ misuse' = misuse
         /\ Becomes(Started(Finished(Before, "m_read_req"), "m_read_req")) =>
              reqs' = [reqs EXCEPT !["m_read_req"] = "busy"] /\ misuse' = misuse
BY DEF Becomes, Started, Finished, Before, TypeOK

LEMMA CleanSteps ==
  ASSUME TypeOK
  PROVE  /\ Becomes(Cleaned(Started(Finished(Before, "m_open_req"), "m_read_req"), "m_open_req")) =>
              /\ reqs' = [reqs EXCEPT !["m_open_req"] = "clean", !["m_read_req"] = "busy"]
              /\ misuse' = misuse
         /\ Becomes(Cleaned(Started(Finished(Before, "m_read_req"), "m_read_req"), "m_read_req")) =>
              /\ reqs' = [reqs EXCEPT !["m_read_req"] = "busy"]
              /\ misuse' = misuse \cup {"m_read_req"}
         /\ Becomes(Cleaned(Cleaned(Finished(Before, "m_read_req"), "m_read_req"), "m_read_req")) =>
              /\ reqs' = [reqs EXCEPT !["m_read_req"] = "clean"]
              /\ misuse' = misuse
BY DEF Becomes, Started, Finished, Cleaned, Before, TypeOK

LEMMA RestSteps ==
  ASSUME TypeOK
  PROVE  /\ Becomes(Cleaned(Before, "m_open_req")) /\ reqs["m_open_req"] = "finished" =>
              /\ reqs' = [reqs EXCEPT !["m_open_req"] = "clean"]
              /\ misuse' = misuse
         /\ Becomes(Cleaned(Cleaned(Before, "m_read_req"), "m_read_req")) /\ reqs["m_read_req"] = "finished" =>
              /\ reqs' = [reqs EXCEPT !["m_read_req"] = "clean"]
              /\ misuse' = misuse
         /\ Becomes(Cleaned(Cleaned(Cleaned(Finished(Before, "m_read_req"), "m_read_req"), "m_close_req"), "m_read_req")) =>
              /\ reqs' \in [Requests -> {"unset", "busy", "finished", "clean"}]
              /\ misuse' \subseteq (misuse \cup {"m_close_req"})
BY DEF Becomes, Finished, Cleaned, Before, TypeOK

(* One more full buffer is BufSize more bytes.                              *)
LEMMA OneMoreBuffer ==
  ASSUME NEW b \in Nat
  PROVE  (b + 1) * BufSize = b * BufSize + BufSize
BY SizesAssumption

(* Both callbacks, one after the other.                                     *)
LEMMA BothCalls ==
  /\ Append(<<"error">>, "close") = <<"error", "close">>
  /\ <<"error", "close">> # <<>> /\ <<"error", "close">> # <<"close">>
  /\ <<"error">> # <<"close">> /\ <<"error">> # <<>>
  /\ <<"error">> \in Seq({"error", "close"})
  /\ <<"error", "close">> \in Seq({"error", "close"})
<1> DEFINE e == <<"error">>
           b == <<"error", "close">>
           c == <<"close">>
<1>1. e \in Seq({"error", "close"}) /\ Len(e) = 1 /\ e[1] = "error"
  OBVIOUS
<1>2. b \in Seq({"error", "close"}) /\ Len(b) = 2 /\ b[1] = "error" /\ b[2] = "close"
  OBVIOUS
<1>3. Len(c) = 1 /\ c[1] = "close"
  OBVIOUS
<1>4. b # <<>> /\ b # c /\ e # c /\ e # <<>>
  BY <1>1, <1>2, <1>3
<1>5. Append(e, "close") = b
  <2>1. Append(e, "close") \in Seq({"error", "close"}) /\ Len(Append(e, "close")) = 2
    BY <1>1
  <2>2. Append(e, "close")[1] = "error" /\ Append(e, "close")[2] = "close"
    OBVIOUS
  <2>3. \A i \in 1..Len(b) : Append(e, "close")[i] = b[i]
    BY <1>2, <2>2
  <2> HIDE DEF e, b
  <2> QED BY <1>2, <2>1, <2>3, SeqEqual
<1> QED BY <1>1, <1>2, <1>4, <1>5

(* The initial states satisfy the invariant.                                *)
LEMMA InitInv == Init => IInv
<1> SUFFICES ASSUME Init PROVE IInv
  OBVIOUS
<1>1. TypeOK
  <2>1. lens \in Seq(0..BufSize) /\ buffUsed \in 0..Len(lens)
    BY DEF Init
  <2>2. told \in Seq({"error", "close"})
    BY DEF Init
  <2>3. size \in Nat
    <3>1. MaxBufs * BufSize \in Nat
      BY SizesAssumption
    <3> QED BY <3>1 DEF Init
  <2> QED BY <2>1, <2>2, <2>3 DEF Init, TypeOK
<1>2. LengthInv
  <2>1. told # <<"close">>
    BY DEF Init
  <2> QED BY <2>1 DEF Init, LengthInv
<1>3. /\ WholeUnlessShort /\ LeakCauses /\ BuffersOutliveWrite
      /\ StaleCauses /\ ChainInv /\ ToldInv
  BY DEF Init, WholeUnlessShort, LeakCauses, BuffersOutliveWrite, StaleCauses, ChainInv, ToldInv
<1> QED BY <1>1, <1>2, <1>3 DEF IInv, ReaderInv

(* fileRead: one empty buffer, nothing read.                                *)
LEMMA FileReadInv ==
  ASSUME IInv, FileRead PROVE IInv'
<1>r. reqs' = [reqs EXCEPT !["m_open_req"] = "busy"] /\ misuse' = misuse
  BY ReqSteps DEF FileRead, IInv
<1>1. TypeOK'
  BY <1>r, SizesAssumption DEF IInv, TypeOK, FileRead
<1>2. ReaderInv'
  BY <1>r, SizesAssumption
     DEF IInv, TypeOK, ReaderInv, FileRead, LengthInv, WholeUnlessShort,
         LeakCauses, BuffersOutliveWrite,
         StaleCauses, ChainInv, ToldInv
<1> QED BY <1>1, <1>2 DEF IInv

(* onOpen starts the first read; a failed open deletes the reader, and the  *)
(* rest of onOpen uses it.                                                  *)
LEMMA OpenInv ==
  ASSUME IInv, OnOpen \/ OnOpenFailed \/ OnOpenRest PROVE IInv'
<1>1. CASE OnOpen
  <2>r. reqs' = [reqs EXCEPT !["m_open_req"] = "clean", !["m_read_req"] = "busy"] /\ misuse' = misuse
    BY <1>1, CleanSteps DEF OnOpen, IInv
  <2>f. fault' = "none" /\ fault = "none" /\ misuse = {}
    BY <1>1 DEF OnOpen, UseReader, IInv, ReaderInv, ChainInv
  <2>1. TypeOK'
    BY <1>1, <2>r, <2>f DEF IInv, TypeOK, OnOpen
  <2>2. LengthInv'
    <3>1. /\ Len(lens) = 1 /\ readByte = 0 /\ lens[1] = BufSize
          /\ told = <<>> /\ told' = <<>>
      BY <1>1 DEF IInv, OnOpen, ReaderInv, ChainInv
    <3>2. readByte' = buffUsed' * BufSize
      BY <1>1, <3>1, SizesAssumption DEF OnOpen
    <3>3. told' # <<"close">>
      BY <3>1
    <3>4. \A i \in 1..Len(lens) : lens[i] = BufSize
      BY <3>1
    <3> QED BY <1>1, <3>1, <3>2, <3>3, <3>4 DEF OnOpen, LengthInv
  <2>3. (WholeUnlessShort /\ LeakCauses /\ BuffersOutliveWrite
       /\ StaleCauses /\ ChainInv /\ ToldInv)'
    BY <1>1, <2>r, <2>f
       DEF IInv, TypeOK, OnOpen, ReaderInv, WholeUnlessShort, LeakCauses,
           BuffersOutliveWrite, StaleCauses, ChainInv, ToldInv
  <2> QED BY <2>1, <2>2, <2>3 DEF IInv, ReaderInv
<1>2. CASE OnOpenFailed
  <2>r. reqs' = [reqs EXCEPT !["m_open_req"] = "finished"] /\ misuse' = misuse
    BY <1>2, ReqSteps DEF OnOpenFailed, IInv
  <2>f. fault' = "none" /\ misuse = {}
    BY <1>2 DEF OnOpenFailed, UseReader, IInv, ReaderInv, ChainInv
  <2>1. told = <<>> /\ told' = <<"error">>
    BY <1>2
       DEF IInv, TypeOK, OnOpenFailed, FileOnError, ReaderInv, ChainInv
  <2>2. TypeOK'
    BY <1>2, <2>1, <2>r, <2>f DEF IInv, TypeOK, OnOpenFailed, FileOnError
  <2>3. LengthInv'
    BY <1>2, <2>1 DEF OnOpenFailed, LengthInv
  <2>4. (WholeUnlessShort /\ LeakCauses /\ BuffersOutliveWrite
       /\ StaleCauses /\ ChainInv /\ ToldInv)'
    BY <1>2, <2>1, <2>r, <2>f
       DEF IInv, TypeOK, OnOpenFailed, FileOnError, ReaderInv,
           WholeUnlessShort,
           LeakCauses, BuffersOutliveWrite, StaleCauses, ChainInv, ToldInv
  <2> QED BY <2>2, <2>3, <2>4 DEF IInv, ReaderInv
<1>3. CASE OnOpenRest
  <2>r. reqs' = [reqs EXCEPT !["m_open_req"] = "clean"] /\ misuse' = misuse
    BY <1>3, RestSteps DEF OnOpenRest, IInv, ReaderInv, ChainInv
  <2>f. /\ fault' = "stale_reader" /\ result = "open_failed" /\ reader = "deleted"
        /\ told = <<"error">> /\ inflight = "none"
    BY <1>3 DEF OnOpenRest, UseReader, IInv, ReaderInv, ToldInv
  <2>1. TypeOK'
    BY <1>3, <2>r, <2>f DEF IInv, TypeOK, OnOpenRest
  <2>2. LengthInv' /\ WholeUnlessShort'
    BY <1>3, <2>f DEF OnOpenRest, LengthInv, WholeUnlessShort
  <2>3. (LeakCauses /\ BuffersOutliveWrite /\ StaleCauses /\ ChainInv /\ ToldInv)'
    BY <1>3, <2>r, <2>f
       DEF IInv, TypeOK, OnOpenRest, ReaderInv, LeakCauses,
           BuffersOutliveWrite, StaleCauses, ChainInv, ToldInv
  <2> QED BY <2>1, <2>2, <2>3 DEF IInv, ReaderInv
<1> QED BY <1>1, <1>2, <1>3

(* A full buffer: there is always an empty one behind it for the next read. *)
LEMMA ReadFullInv ==
  ASSUME IInv, OnReadFull PROVE IInv'
<1>1. /\ inflight = "read" /\ inflight' = "read"
      /\ buffUsed < Len(lens) /\ buffUsed \in Nat
      /\ readByte = buffUsed * BufSize
      /\ \A i \in 1..Len(lens) : lens[i] = BufSize
      /\ lens \in Seq(0..BufSize)
      /\ told = <<>> /\ told' = <<>>
  BY DEF IInv, TypeOK, OnReadFull, ReaderInv, LengthInv, ChainInv
<1>r. reqs' = [reqs EXCEPT !["m_read_req"] = "busy"] /\ misuse' = misuse
  BY ReqSteps DEF OnReadFull, IInv
<1>f. fault' = "none"
  BY <1>1 DEF OnReadFull, UseReader, IInv, ReaderInv, ChainInv
<1>2. buffUsed' = buffUsed + 1 /\ readByte' = readByte + BufSize
  BY <1>1 DEF OnReadFull
<1>3. readByte' = buffUsed' * BufSize
  BY <1>1, <1>2, OneMoreBuffer
<1>4. /\ lens' \in Seq(0..BufSize)
      /\ buffUsed' < Len(lens')
      /\ \A i \in 1..Len(lens') : lens'[i] = BufSize
  <2>1. CASE buffUsed + 1 = Len(lens)
    <3>1. lens' = Append(lens, BufSize)
      BY <2>1, <1>2 DEF OnReadFull
    <3>2. BufSize \in 0..BufSize
      BY SizesAssumption
    <3> QED BY <3>1, <3>2, <2>1, <1>1, <1>2
  <2>2. CASE buffUsed + 1 # Len(lens)
    <3>1. lens' = lens
      BY <2>2, <1>2 DEF OnReadFull
    <3> QED BY <3>1, <2>2, <1>1, <1>2
  <2> QED BY <2>1, <2>2
<1>5. TypeOK'
  <2>1. readByte' \in Nat
    BY <1>2, SizesAssumption DEF IInv, TypeOK
  <2> QED BY <2>1, <1>1, <1>2, <1>4, <1>r, <1>f DEF IInv, TypeOK, OnReadFull
<1>6. LengthInv'
  BY <1>1, <1>3, <1>4 DEF LengthInv
<1>7. (WholeUnlessShort /\ LeakCauses /\ BuffersOutliveWrite
       /\ StaleCauses /\ ChainInv /\ ToldInv)'
  BY <1>1, <1>r, <1>f
     DEF IInv, TypeOK, OnReadFull, ReaderInv, WholeUnlessShort, LeakCauses,
         BuffersOutliveWrite, StaleCauses, ChainInv, ToldInv
<1> QED BY <1>5, <1>6, <1>7 DEF IInv, ReaderInv

(* The last read: its buffer is cut to what it holds.                       *)
LEMMA ReadLastInv ==
  ASSUME IInv, NEW n \in 0..BufSize, OnReadLast(n) PROVE IInv'
<1>1. /\ inflight = "read" /\ inflight' = "close"
      /\ buffUsed < Len(lens) /\ buffUsed \in Nat
      /\ readByte = buffUsed * BufSize
      /\ \A i \in 1..Len(lens) : lens[i] = BufSize
      /\ lens \in Seq(0..BufSize)
      /\ told = <<>> /\ told' = <<>>
  BY DEF IInv, TypeOK, OnReadLast, ReaderInv, LengthInv, ChainInv
<1>r. reqs' = [reqs EXCEPT !["m_read_req"] = "busy"] /\ misuse' = misuse \cup {"m_read_req"}
  BY CleanSteps DEF OnReadLast, IInv
<1>f. fault' = "none"
  BY <1>1 DEF OnReadLast, UseReader, IInv, ReaderInv, ChainInv
<1>2. buffUsed' = buffUsed + 1 /\ readByte' = readByte + n
  BY DEF OnReadLast
<1>3. lens' = [lens EXCEPT ![buffUsed + 1] = n]
  BY DEF OnReadLast
<1>4. /\ lens' \in Seq(0..BufSize)
      /\ Len(lens') = Len(lens)
      /\ lens'[buffUsed + 1] = n
      /\ \A i \in 1..buffUsed : lens'[i] = BufSize
  BY <1>1, <1>3
<1>5. TypeOK'
  <2>1. readByte' \in Nat
    BY <1>2 DEF IInv, TypeOK
  <2> QED BY <2>1, <1>1, <1>2, <1>4, <1>r, <1>f DEF IInv, TypeOK, OnReadLast
<1>6. LengthInv'
  <2>1. buffUsed' - 1 = buffUsed
    BY <1>1, <1>2
  <2>2. readByte' = (buffUsed' - 1) * BufSize + lens'[buffUsed']
    BY <2>1, <1>1, <1>2, <1>4
  <2> QED BY <2>1, <2>2, <1>1, <1>2, <1>4 DEF LengthInv
<1>7. WholeUnlessShort'
  <2>1. readByte \in Nat /\ size \in Nat /\ size' = size
    BY DEF IInv, TypeOK, OnReadLast
  <2>2. n <= size - readByte /\ (~short' => ~(n < size - readByte))
    BY DEF OnReadLast, IInv, TypeOK
  <2> QED BY <1>2, <2>1, <2>2 DEF WholeUnlessShort
<1>8. (LeakCauses /\ BuffersOutliveWrite
       /\ StaleCauses /\ ChainInv /\ ToldInv)'
  BY <1>1, <1>r, <1>f
     DEF IInv, TypeOK, OnReadLast, ReaderInv, LeakCauses, BuffersOutliveWrite,
         StaleCauses, ChainInv, ToldInv
<1> QED BY <1>5, <1>6, <1>7, <1>8 DEF IInv, ReaderInv

(* A failed read deletes the reader and leaves the file open.               *)
LEMMA ReadFailedInv ==
  ASSUME IInv, OnReadFailed PROVE IInv'
<1>r. /\ reqs' \in [Requests -> {"unset", "busy", "finished", "clean"}]
      /\ misuse' \subseteq (misuse \cup {"m_close_req"})
  BY RestSteps DEF OnReadFailed, IInv
<1>f. fault' = "none"
  BY DEF OnReadFailed, UseReader, IInv, ReaderInv, ChainInv
<1>1. told = <<>> /\ told' = <<"error">>
  BY DEF IInv, TypeOK, OnReadFailed, FileOnError, ReaderInv, ChainInv
<1>2. TypeOK'
  BY <1>1, <1>r, <1>f DEF IInv, TypeOK, OnReadFailed, FileOnError
<1>3. ReaderInv'
  BY <1>1, <1>r, <1>f
     DEF IInv, TypeOK, OnReadFailed, FileOnError, ReaderInv, LengthInv,
         WholeUnlessShort,
         LeakCauses, BuffersOutliveWrite, StaleCauses, ChainInv, ToldInv
<1> QED BY <1>2, <1>3 DEF IInv

(* onClose, successful or not, ends the chain with the file closed; behind  *)
(* a failed close it goes on with the deleted reader.                       *)
LEMMA CloseInv ==
  ASSUME IInv, OnClose \/ OnCloseFailed \/ OnCloseRest PROVE IInv'
<1>1. CASE OnClose
  <2>r. reqs' = [reqs EXCEPT !["m_read_req"] = "clean"] /\ misuse' = misuse
    BY <1>1, CleanSteps DEF OnClose, IInv
  <2>f. fault' = "none"
    BY <1>1 DEF OnClose, UseReader, IInv, ReaderInv, ChainInv
  <2>1. told = <<>> /\ told' = <<"close">>
    BY <1>1 DEF IInv, TypeOK, OnClose, SendBuffers, ReaderInv, ChainInv
  <2>2. TypeOK'
    BY <1>1, <2>1, <2>r, <2>f DEF IInv, TypeOK, OnClose, SendBuffers
  <2>3. LengthInv'
    BY <1>1, <2>1 DEF IInv, TypeOK, OnClose, ReaderInv, LengthInv
  <2>4. (WholeUnlessShort /\ LeakCauses /\ BuffersOutliveWrite
       /\ StaleCauses /\ ChainInv /\ ToldInv)'
    BY <1>1, <2>1, <2>r, <2>f
       DEF IInv, TypeOK, OnClose, SendBuffers, ReaderInv, WholeUnlessShort,
           LeakCauses,
           BuffersOutliveWrite, StaleCauses, ChainInv, ToldInv
  <2> QED BY <2>2, <2>3, <2>4 DEF IInv, ReaderInv
<1>2. CASE OnCloseFailed
  <2>r. reqs' = [reqs EXCEPT !["m_read_req"] = "finished"] /\ misuse' = misuse
    BY <1>2, ReqSteps DEF OnCloseFailed, IInv
  <2>f. fault' = "none"
    BY <1>2 DEF OnCloseFailed, UseReader, IInv, ReaderInv, ChainInv
  <2>1. told = <<>> /\ told' = <<"error">>
    BY <1>2
       DEF IInv, TypeOK, OnCloseFailed, FileOnError, ReaderInv, ChainInv
  <2>2. TypeOK'
    BY <1>2, <2>1, <2>r, <2>f DEF IInv, TypeOK, OnCloseFailed, FileOnError
  <2>3. ReaderInv'
    BY <1>2, <2>1, <2>r, <2>f
       DEF IInv, TypeOK, OnCloseFailed, FileOnError, ReaderInv, LengthInv,
           WholeUnlessShort,
           LeakCauses, BuffersOutliveWrite, StaleCauses, ChainInv, ToldInv
  <2> QED BY <2>2, <2>3 DEF IInv
<1>3. CASE OnCloseRest
  <2>r. reqs' = [reqs EXCEPT !["m_read_req"] = "clean"] /\ misuse' = misuse
    BY <1>3, RestSteps DEF OnCloseRest, IInv, ReaderInv, ChainInv
  <2>f. /\ fault' = "stale_reader" /\ result = "close_failed" /\ reader = "deleted"
        /\ told = <<"error">> /\ inflight = "none" /\ fd = "closed"
    BY <1>3 DEF OnCloseRest, UseReader, IInv, ReaderInv, ToldInv, ChainInv
  <2>t. /\ told' \in {<<"error">>, <<"error", "close">>}
        /\ writing' \in BOOLEAN /\ refused' \in BOOLEAN
    <3>1. told' = told \/ told' = Append(told, "close")
      BY <1>3 DEF OnCloseRest, SendBuffers
    <3>2. writing' \in BOOLEAN /\ refused' \in BOOLEAN
      BY <1>3 DEF OnCloseRest, SendBuffers, IInv, TypeOK
    <3> QED BY <3>1, <3>2, <2>f, BothCalls
  <2>u. told' # <<>> /\ told' # <<"close">> /\ told' \in Seq({"error", "close"})
    BY <2>t, BothCalls
  <2>1. TypeOK'
    BY <1>3, <2>r, <2>f, <2>t, <2>u DEF IInv, TypeOK, OnCloseRest
  <2>2. LengthInv' /\ WholeUnlessShort'
    BY <1>3, <2>f, <2>u DEF OnCloseRest, LengthInv, WholeUnlessShort
  <2>3. (LeakCauses /\ BuffersOutliveWrite /\ StaleCauses /\ ChainInv /\ ToldInv)'
    BY <1>3, <2>r, <2>f, <2>t, <2>u
       DEF IInv, TypeOK, OnCloseRest, ReaderInv, LeakCauses,
           BuffersOutliveWrite, StaleCauses, ChainInv, ToldInv
  <2> QED BY <2>1, <2>2, <2>3 DEF IInv, ReaderInv
<1> QED BY <1>1, <1>2, <1>3

(* The end of the write lets go of the buffers and, for httpResp, of the    *)
(* reader.                                                                  *)
LEMMA WriteEndInv ==
  ASSUME IInv, OnWriteEnd PROVE IInv'
<1>1. TypeOK'
  BY DEF IInv, TypeOK, OnWriteEnd
<1>2. inflight = "none"
  BY DEF IInv, TypeOK, OnWriteEnd, ReaderInv, ChainInv
<1>3. LengthInv'
  BY <1>2 DEF IInv, OnWriteEnd, ReaderInv, LengthInv
<1>4. (WholeUnlessShort /\ LeakCauses /\ BuffersOutliveWrite
       /\ StaleCauses /\ ChainInv /\ ToldInv)'
  BY <1>2
     DEF IInv, TypeOK, OnWriteEnd, ReaderInv, WholeUnlessShort, LeakCauses,
         BuffersOutliveWrite, StaleCauses, ChainInv, ToldInv
<1> QED BY <1>1, <1>3, <1>4 DEF IInv, ReaderInv

(* Every step keeps the invariant.                                          *)
LEMMA NextInv == IInv /\ [Next]_vars => IInv'
<1> SUFFICES ASSUME IInv, [Next]_vars PROVE IInv'
  OBVIOUS
<1>1. CASE FileRead
  BY <1>1, FileReadInv
<1>2. CASE OnOpen \/ OnOpenFailed \/ OnOpenRest
  BY <1>2, OpenInv
<1>3. CASE OnReadFull
  BY <1>3, ReadFullInv
<1>4. CASE \E n \in 0..BufSize : OnReadLast(n)
  BY <1>4, ReadLastInv
<1>5. CASE OnReadFailed
  BY <1>5, ReadFailedInv
<1>6. CASE OnClose \/ OnCloseFailed \/ OnCloseRest
  BY <1>6, CloseInv
<1>7. CASE OnWriteEnd
  BY <1>7, WriteEndInv
<1>8. CASE UNCHANGED vars
  BY <1>8
     DEF vars, causes, IInv, TypeOK, ReaderInv, LengthInv, WholeUnlessShort,
         LeakCauses, BuffersOutliveWrite,
         StaleCauses, ChainInv, ToldInv
<1> QED BY <1>1, <1>2, <1>3, <1>4, <1>5, <1>6, <1>7, <1>8 DEF Next, Callback

LEMMA Inductive == Spec => []IInv
<1>1. Init => IInv
  BY InitInv
<1>2. IInv /\ [Next]_vars => IInv'
  BY NextInv
<1> QED BY <1>1, <1>2, PTL DEF Spec

(* The chain of requests keeps its invariant, whatever fails in it.         *)
THEOREM ReaderInvariant == Spec => []ReaderInv
<1>1. IInv => ReaderInv
  BY DEF IInv
<1> QED BY <1>1, Inductive, PTL

(* The variables keep their types; m_buffUsed stays within m_bufferVec.     *)
THEOREM ReaderTypeCorrect == Spec => []TypeOK
<1>1. IInv => TypeOK
  BY DEF IInv
<1> QED BY <1>1, Inductive, PTL

(* m_readByte is what the buffers hold, for every length of the file: all   *)
(* but the last are full, and the last is cut to what was read.             *)
THEOREM LengthAlwaysMatches == Spec => []LengthInv
<1>1. IInv => LengthInv
  BY DEF IInv, ReaderInv
<1> QED BY <1>1, Inductive, PTL

(* Every byte of the file is in the buffers when no read was short.         *)
THEOREM FileAlwaysWhole == Spec => []WholeUnlessShort
<1>1. IInv => WholeUnlessShort
  BY DEF IInv, ReaderInv
<1> QED BY <1>1, Inductive, PTL

(* Only a WsSession, or a connection that closed first, leaves the reader   *)
(* behind, and only a failed read the open file.                            *)
THEOREM LeakHasCauses == Spec => []LeakCauses
<1>1. IInv => LeakCauses
  BY DEF IInv, ReaderInv
<1> QED BY <1>1, Inductive, PTL

(* The reader is not deleted while uv_write points into its buffers, but    *)
(* for that of a WsSession which a failed close has deleted before.         *)
THEOREM BuffersAlwaysOutlive == Spec => []BuffersOutliveWrite
<1>1. IInv => BuffersOutliveWrite
  BY DEF IInv, ReaderInv
<1> QED BY <1>1, Inductive, PTL

(* Only a failed open or close goes on with a deleted reader, and only      *)
(* m_read_req and, after a failed read, m_close_req is cleaned up           *)
(* unfinished.                                                              *)
THEOREM StaleHasCauses == Spec => []StaleCauses
<1>1. IInv => StaleCauses
  BY DEF IInv, ReaderInv
<1> QED BY <1>1, Inductive, PTL

-----------------------------------------------------------------------------
(* A set of natural numbers that is not empty has a least one.              *)
LEMMA Least ==
  ASSUME NEW B \in SUBSET Nat, B # {}
  PROVE  \E m \in B : \A k \in B : m <= k
<1> DEFINE R == {p \in Nat \X Nat : p[1] < p[2]}
<1>1. IsWellFoundedOn(R, Nat)
  BY NatLessThanWellFounded DEF OpToRel
<1> HIDE DEF R
<1>2. PICK m \in B : \A k \in B : ~(<<k, m>> \in R)
  BY <1>1, WFMin
<1>3. ASSUME NEW k \in B PROVE m <= k
  <2>1. k \in Nat /\ m \in Nat /\ ~(<<k, m>> \in R)
    BY <1>2
  <2>2. ~(k < m)
    BY <2>1 DEF R
  <2> QED BY <2>1, <2>2
<1> QED BY <1>3

(* Buffers of which all but the last are full have so many bytes: the sum   *)
(* that is meant satisfies the equation, and so does no other.              *)
LEMMA BytesOfFull ==
  ASSUME NEW n \in Nat \ {0}, NEW vec, NEW x \in Nat, vec[n] = x,
         \A i \in 1..(n - 1) : vec[i] = BufSize
  PROVE  BytesOf(vec, n) = (n - 1) * BufSize + x
<1> DEFINE Sums(f) == f = [i \in 0..n |-> IF i = 0 THEN 0 ELSE f[i - 1] + vec[i]]
           g == [i \in 0..n |-> IF i = n THEN (n - 1) * BufSize + x ELSE i * BufSize]
           sum == CHOOSE f : Sums(f)
<1>1. \A i \in 0..n : g[i] = IF i = 0 THEN 0 ELSE g[i - 1] + vec[i]
  <2> SUFFICES ASSUME NEW i \in 0..n PROVE g[i] = IF i = 0 THEN 0 ELSE g[i - 1] + vec[i]
    OBVIOUS
  <2>1. CASE i = 0
    <3>1. n # 0 /\ g[0] = 0 * BufSize /\ 0 * BufSize = 0
      BY SizesAssumption
    <3> QED BY <2>1, <3>1
  <2>2. CASE i # 0 /\ i # n
    <3>1. i \in 1..(n - 1) /\ i - 1 \in 0..n /\ i - 1 # n
      BY <2>2
    <3>2. g[i - 1] = (i - 1) * BufSize /\ g[i] = i * BufSize /\ vec[i] = BufSize
      BY <2>2, <3>1
    <3>3. i * BufSize = (i - 1) * BufSize + BufSize
      BY <3>1, SizesAssumption
    <3> QED BY <2>2, <3>2, <3>3
  <2>3. CASE i = n
    <3>1. n # 0 /\ n - 1 \in 0..n /\ n - 1 # n
      OBVIOUS
    <3> QED BY <2>3, <3>1
  <2> QED BY <2>1, <2>2, <2>3
<1>2. Sums(g)
  BY <1>1
<1>3. Sums(sum)
  BY <1>2, Zenon
<1> HIDE DEF sum, g
<1>4. ASSUME sum[n] # g[n] PROVE FALSE
  <2> DEFINE B == {i \in 0..n : sum[i] # g[i]}
  <2>1. PICK m \in B : \A k \in B : m <= k
    <3>1. B \in SUBSET Nat /\ B # {}
      BY <1>4
    <3> QED BY <3>1, Least
  <2>2. sum[m] = IF m = 0 THEN 0 ELSE sum[m - 1] + vec[m]
    BY <1>3, <2>1
  <2>3. g[m] = IF m = 0 THEN 0 ELSE g[m - 1] + vec[m]
    BY <1>1, <2>1
  <2>4. m # 0 => sum[m - 1] = g[m - 1]
    BY <2>1
  <2> QED BY <2>1, <2>2, <2>3, <2>4
<1>5. BytesOf(vec, n) = sum[n]
  BY DEF BytesOf, sum
<1> QED BY <1>4, <1>5 DEF g

(* Every callback of libuv is a step of FileResult or none.                 *)
LEMMA StepResult == IInv /\ [Next]_vars => [Result!Next]_(Result!vars)
<1> SUFFICES ASSUME IInv, [Next]_vars PROVE [Result!Next]_(Result!vars)
  OBVIOUS
<1> DEFINE Same == /\ told' = told /\ result' = result
                   /\ (reader' # "none") = (reader # "none")
                   /\ told = <<"close">> => UNCHANGED <<readByte, buffUsed, lens>>
<1>1. Same => [Result!Next]_(Result!vars)
  BY DEF Result!vars
<1>2. inflight # "none" => told = <<>> /\ reader = "alive" /\ result = "unset"
  BY DEF IInv, ReaderInv, ChainInv
<1>3. CASE FileRead
  <2>1. told = <<>> /\ told' = <<>> /\ reader = "none" /\ reader' = "alive" /\ result' = result
    BY <1>3 DEF FileRead, IInv, ReaderInv, ChainInv
  <2>2. Result!Start
    BY <2>1 DEF Result!Start
  <2> QED BY <2>2 DEF Result!Next
<1>4. CASE OnOpen \/ OnReadFull \/ (\E n \in 0..BufSize : OnReadLast(n))
  <2>1. Same
    BY <1>2, <1>4 DEF OnOpen, OnReadFull, OnReadLast
  <2> QED BY <1>1, <2>1
<1>5. CASE OnOpenFailed \/ OnReadFailed \/ OnCloseFailed
  <2>a. inflight # "none" /\ told' = Append(told, "error") /\ reader' = "deleted"
    BY <1>5 DEF OnOpenFailed, OnReadFailed, OnCloseFailed, FileOnError
  <2>1. told = <<>> /\ reader = "alive" /\ told' = <<"error">>
    BY <1>2, <2>a
  <2>2. Result!Fail
    BY <2>a, <2>1 DEF Result!Fail
  <2> QED BY <2>2 DEF Result!Next
<1>6. CASE OnClose
  <2>1. /\ inflight = "close" /\ told = <<>> /\ reader = "alive" /\ told' = <<"close">>
        /\ readByte' = readByte /\ buffUsed' = buffUsed /\ lens' = lens
        /\ reader' = reader /\ result' = result
    BY <1>2, <1>6 DEF OnClose, SendBuffers
  <2>3. readByte = (buffUsed - 1) * BufSize + lens[buffUsed] /\ readByte \in Nat
    BY <2>1 DEF IInv, ReaderInv, LengthInv, TypeOK
  <2>4. BytesOf(lens, buffUsed) = readByte
    <3>1. /\ buffUsed \in Nat \ {0} /\ lens[buffUsed] \in Nat
          /\ \A i \in 1..(buffUsed - 1) : lens[i] = BufSize
      BY <2>1, SizesAssumption DEF IInv, ReaderInv, LengthInv, TypeOK
    <3> QED BY <2>3, <3>1, BytesOfFull
  <2>5. Result!Finish
    BY <2>1, <2>3, <2>4 DEF Result!Finish
  <2> QED BY <2>5 DEF Result!Next
<1>7. CASE OnCloseRest
  <2>1. told = <<"error">> /\ reader = "deleted" /\ result = "close_failed"
    BY <1>7 DEF OnCloseRest, IInv, ReaderInv, ToldInv
  <2>2. CASE told' = told
    <3>1. Same
      BY <1>7, <2>1, <2>2 DEF OnCloseRest
    <3> QED BY <1>1, <3>1
  <2>3. CASE told' = Append(told, "close")
    <3>1. /\ told' = <<"error", "close">> /\ reader' = reader /\ result' = result
          /\ told # <<"close">> /\ told' # <<"close">>
      BY <1>7, <2>1, <2>3, BothCalls DEF OnCloseRest
    <3>2. Result!CloseAnyway
      BY <2>1, <3>1 DEF Result!CloseAnyway
    <3> QED BY <3>2 DEF Result!Next
  <2> QED BY <1>7, <2>2, <2>3 DEF OnCloseRest, SendBuffers
<1>8. CASE OnWriteEnd \/ OnOpenRest
  <2>1. told' = told /\ reader # "none" /\ reader' # "none"
    BY <1>8 DEF OnWriteEnd, OnOpenRest, IInv, ReaderInv, ToldInv
  <2>2. Same
    BY <1>8, <2>1 DEF OnWriteEnd, OnOpenRest
  <2> QED BY <1>1, <2>2
<1>9. CASE UNCHANGED vars
  <2>1. Same
    BY <1>9 DEF vars
  <2> QED BY <1>1, <2>1
<1> QED BY <1>3, <1>4, <1>5, <1>6, <1>7, <1>8, <1>9 DEF Next, Callback

(* Whatever fails, the user is called back at most once, in m_onClose or in *)
(* m_onError; only when the file would not close may m_onClose follow       *)
(* m_onError, as FileReader.cpp:109-113 has it.  And the length announced   *)
(* at the end is that of the buffers handed over, for every size of the     *)
(* file.  This is what FileResult asks for, but that the reading does end.  *)
THEOREM EndsOnce == Spec => Result!Init /\ [][Result!Next]_(Result!vars)
<1>1. Init => Result!Init
  BY DEF Init, Result!Init
<1>2. Spec => [][Result!Next]_(Result!vars)
  BY Inductive, StepResult, PTL DEF Spec
<1> QED BY <1>1, <1>2, PTL DEF Spec
=============================================================================
