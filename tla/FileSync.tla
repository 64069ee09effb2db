------------------------------ MODULE FileSync ------------------------------
(***************************************************************************)
(* The filesync protocol of adb/filesync_protocol.py: FileSyncConnection,  *)
(* which packs records into ADB packets and cuts records out of packets,   *)
(* and Push, Pull, Stat and List, which run on it.  One session is one of  *)
(* these calls on a new "sync:" connection.                                *)
(*                                                                         *)
(* A length is counted in words of 4 bytes.  A record the host receives is *)
(* the sequence of its words <<k, i>>: word i of the k-th record sent.     *)
(* The sync service of adbd is external; it follows filesync_protocol.txt. *)
(***************************************************************************)
EXTENDS Naturals, Sequences

CONSTANTS
  MaxData,         \* MAX_ADB_DATA
  NameLen,         \* length of the file name, or of name and mode
  ChunkLens,       \* lengths of the DATA (or DENT name) records of the file
  FailLen,         \* length of a FAIL message
  ServiceFails     \* whether the service may fail

ASSUME FileSyncAssumption ==
  /\ MaxData \in Nat
  /\ NameLen \in Nat
  /\ ChunkLens \in Seq(Nat \ {0})
  /\ FailLen \in Nat
  /\ ServiceFails \in BOOLEAN
  /\ \A i \in 1..Len(ChunkLens) : ChunkLens[i] + 2 < MaxData
  /\ NameLen + 2 < MaxData

VARIABLES
  op,              \* the call
  pc,              \* where it stands
  todo,            \* records not yet given to Send
  send_buffer,     \* FileSyncConnection.send_buffer, as records
  send_idx,        \* FileSyncConnection.send_idx
  recv_buffer,     \* FileSyncConnection.recv_buffer, as words
  record,          \* the record whose data is read
  result,          \* the records the caller has been given
  outcome,         \* how the call ended
  out,             \* packets for the service
  inp,             \* packets for the host
  received,        \* records the service has received
  answer,          \* records the service has begun to send
  unsent,          \* the words of them it has not written yet
  acked            \* whether it may write

hostVars == <<op, pc, todo, send_buffer, send_idx, recv_buffer, record, result, outcome>>
serviceVars == <<received, answer, unsent, acked>>
vars == <<hostVars, out, inp, serviceVars>>

Ops == {"push", "pull", "stat", "list"}
Record == [id : {"SEND", "RECV", "STAT", "LIST", "DATA", "DENT", "DONE", "OKAY", "FAIL"},
           n : Nat, len : Nat]
Rec(id, n, len) == [id |-> id, n |-> n, len |-> len]
NoRecord == Rec("OKAY", 0, 0)
Chunk(id, i) == Rec(id, i, ChunkLens[i])
Chunks(id) == [i \in 1..Len(ChunkLens) |-> Chunk(id, i)]

SendHeaderLen == 2
RecvHeaderLen == CASE op = "stat" -> 4 [] op = "list" -> 5 [] OTHER -> 2

-----------------------------------------------------------------------------
(* The records each call sends before it reads.                            *)
Script(call) ==
  CASE call = "push" -> <<Rec("SEND", 0, NameLen)>> \o Chunks("DATA") \o <<Rec("DONE", 0, 0)>>
    [] call = "pull" -> <<Rec("RECV", 0, NameLen)>>
    [] call = "stat" -> <<Rec("STAT", 0, NameLen)>>
    [] call = "list" -> <<Rec("LIST", 0, NameLen)>>

ExpectedIds ==
  CASE op = "push" -> {"OKAY", "FAIL"}
    [] op = "pull" -> {"DATA", "DONE"}
    [] op = "stat" -> {"STAT"}
    [] op = "list" -> {"DENT", "DONE"}

(* _AdbConnection.Write and ReadUntil, which acknowledges each packet.     *)
Write(recs, len) == out' = Append(out, [cmd |-> "WRTE", recs |-> recs, len |-> len])
Okay == out' = Append(out, [cmd |-> "OKAY", recs |-> <<>>, len |-> 0])
Ends(how) == pc' = "ended" /\ outcome' = how

-----------------------------------------------------------------------------
(* Send: a record that does not fit flushes the buffer first.              *)
(* Mutant of _CanAddToSendBuffer: the header is not counted.               *)
CanAddData(len) == send_idx + len < MaxData
CanAddToSendBuffer(len) == send_idx + SendHeaderLen + len < MaxData

Flush(next) ==
  /\ Write(send_buffer, send_idx)
  /\ send_buffer' = <<>>
  /\ send_idx' = 0
  /\ pc' = next

(* Mutant of SendRecord: the buffer is not flushed when it is full, and    *)
(* written over.                                                           *)
SendRecordOver ==
  /\ pc = "send"
  /\ todo # <<>>
  /\ send_buffer' = IF CanAddToSendBuffer(Head(todo).len)
       THEN Append(send_buffer, Head(todo)) ELSE <<Head(todo)>>
  /\ send_idx' = IF CanAddToSendBuffer(Head(todo).len)
       THEN send_idx + SendHeaderLen + Head(todo).len ELSE SendHeaderLen + Head(todo).len
  /\ todo' = Tail(todo)
  /\ UNCHANGED <<op, pc, recv_buffer, record, result, outcome, out, inp, serviceVars>>

SendRecord ==
  /\ pc = "send"
  /\ todo # <<>>
  /\ IF CanAddToSendBuffer(Head(todo).len)
       THEN /\ send_buffer' = Append(send_buffer, Head(todo))
            /\ send_idx' = send_idx + SendHeaderLen + Head(todo).len
            /\ todo' = Tail(todo)
            /\ UNCHANGED <<pc, out>>
       ELSE Flush("flushed") /\ UNCHANGED todo
  /\ UNCHANGED <<op, recv_buffer, record, result, outcome, inp, serviceVars>>

(* Mutant of StartRead: what is buffered stays there.                      *)
StartReadUnflushed ==
  /\ pc = "send"
  /\ todo = <<>>
  /\ pc' = "header"
  /\ UNCHANGED <<op, todo, send_buffer, send_idx, recv_buffer, record, result,
                 outcome, out, inp, serviceVars>>

(* Read: what is still buffered is flushed.                                *)
StartRead ==
  /\ pc = "send"
  /\ todo = <<>>
  /\ IF send_idx # 0
       THEN Flush("flushed")
       ELSE pc' = "header" /\ UNCHANGED <<send_buffer, send_idx, out>>
  /\ UNCHANGED <<op, todo, recv_buffer, record, result, outcome, inp, serviceVars>>

(* Write waits for OKAY.  A packet of the service that is there before is  *)
(* skipped by its header only, and its payload cannot be unpacked.         *)
WriteAnswer ==
  /\ pc = "flushed"
  /\ inp # <<>>
  /\ inp' = Tail(inp)
  /\ IF Head(inp).cmd = "OKAY"
       THEN pc' = "send" /\ UNCHANGED outcome
       ELSE Ends("misread")
  /\ UNCHANGED <<op, todo, send_buffer, send_idx, recv_buffer, record, result, out, serviceVars>>

-----------------------------------------------------------------------------
(* _ReadBuffered(size): packets are read until there are enough words.     *)
Wanted == IF pc = "header" THEN RecvHeaderLen ELSE record.len

ReadMore ==
  /\ pc \in {"header", "body"}
  /\ Len(recv_buffer) < Wanted
  /\ inp # <<>>
  /\ inp' = Tail(inp)
  /\ IF Head(inp).cmd = "WRTE"
       THEN recv_buffer' = recv_buffer \o Head(inp).words /\ Okay
       ELSE UNCHANGED <<recv_buffer, out>>
  /\ UNCHANGED <<op, pc, todo, send_buffer, send_idx, record, result, outcome, serviceVars>>

(* Mutant of RestOf: the buffer is emptied.                                *)
RestOfNone(size) == SubSeq(recv_buffer, Len(recv_buffer) + size, Len(recv_buffer))
RestOf(size) == SubSeq(recv_buffer, size + 1, Len(recv_buffer))

(* The header at the front of the buffer, if one is there.                 *)
Aligned == recv_buffer[1][2] = 1
Front == answer[recv_buffer[1][1]]

(* A record is handed over when its data is there: DATA and DENT are kept, *)
(* DONE and OKAY end the call, FAIL raises PushFailedError in Push.        *)
Deliver(r) ==
  CASE r.id \in {"DATA", "DENT"} ->
         result' = Append(result, r) /\ pc' = "header" /\ UNCHANGED outcome
    [] r.id = "FAIL" -> Ends("push_failed") /\ UNCHANGED result
    [] OTHER -> Ends("done") /\ UNCHANGED result

ReadHeader ==
  /\ pc = "header"
  /\ Len(recv_buffer) >= Wanted
  /\ recv_buffer' = RestOf(Wanted)
  /\ record' = Front
  /\ CASE ~Aligned -> Ends("key_error") /\ UNCHANGED result
       [] Aligned /\ Front.id \notin ExpectedIds ->
            Ends(IF Front.id = "FAIL" THEN "command_failed" ELSE "invalid") /\ UNCHANGED result
       [] Aligned /\ Front.id = "STAT" -> Ends("done") /\ result' = <<Front>>
       [] OTHER -> pc' = "body" /\ UNCHANGED <<result, outcome>>
  /\ UNCHANGED <<op, todo, send_buffer, send_idx, out, inp, serviceVars>>

ReadBody ==
  /\ pc = "body"
  /\ Len(recv_buffer) >= Wanted
  /\ recv_buffer' = RestOf(Wanted)
  /\ record' = NoRecord
  /\ Deliver(record)
  /\ UNCHANGED <<op, todo, send_buffer, send_idx, out, inp, serviceVars>>

Host ==
  \/ SendRecord
  \/ StartRead
  \/ WriteAnswer
  \/ ReadMore
  \/ ReadHeader
  \/ ReadBody

-----------------------------------------------------------------------------
(* The sync service.  Words(k, r) are the words of its k-th record, r.     *)
HeaderLen(r) ==
  CASE r.id = "STAT" -> 4
    [] r.id = "DENT" \/ (r.id = "DONE" /\ op = "list") -> 5
    [] OTHER -> 2
Words(k, r) == [i \in 1..HeaderLen(r) + r.len |-> <<k, i>>]

Answers(r) ==
  /\ answer' = Append(answer, r)
  /\ unsent' = unsent \o Words(Len(answer) + 1, r)
  /\ UNCHANGED <<hostVars, out, inp, received, acked>>

ServiceReads ==
  /\ out # <<>>
  /\ out' = Tail(out)
  /\ IF Head(out).cmd = "OKAY"
       THEN acked' = TRUE /\ UNCHANGED <<received, inp>>
       ELSE /\ received' = received \o Head(out).recs
            /\ inp' = Append(inp, [cmd |-> "OKAY", words |-> <<>>])
            /\ UNCHANGED acked
  /\ UNCHANGED <<hostVars, answer, unsent>>

Complete == received = Script(op)
Failed == \E i \in 1..Len(answer) : answer[i].id = "FAIL"
Replies ==
  CASE op = "push" -> <<Rec("OKAY", 0, 0)>>
    [] op = "pull" -> Chunks("DATA") \o <<Rec("DONE", 0, 0)>>
    [] op = "stat" -> <<Rec("STAT", 0, 0)>>
    [] op = "list" -> Chunks("DENT") \o <<Rec("DONE", 0, 0)>>

ServiceAnswers ==
  /\ Complete
  /\ ~Failed
  /\ Len(answer) < Len(Replies)
  /\ Answers(Replies[Len(answer) + 1])

(* Push and Pull may fail as soon as the file is named.                    *)
ServiceFailure ==
  /\ ServiceFails
  /\ op \in {"push", "pull"}
  /\ received # <<>>
  /\ ~Failed
  /\ Len(answer) < Len(Replies)
  /\ Answers(Rec("FAIL", 0, FailLen))

(* The service's words are cut into packets anywhere.                      *)
ServiceWrites ==
  /\ acked
  /\ \E n \in 1..Len(unsent) :
       /\ inp' = Append(inp, [cmd |-> "WRTE", words |-> SubSeq(unsent, 1, n)])
       /\ unsent' = SubSeq(unsent, n + 1, Len(unsent))
  /\ acked' = FALSE
  /\ UNCHANGED <<hostVars, out, received, answer>>

Service ==
  \/ ServiceReads
  \/ ServiceAnswers
  \/ ServiceFailure
  \/ ServiceWrites

Init ==
  /\ op \in Ops
  /\ pc = "send"
  /\ todo = Script(op)
  /\ send_buffer = <<>>
  /\ send_idx = 0
  /\ recv_buffer = <<>>
  /\ record = NoRecord
  /\ result = <<>>
  /\ outcome = "none"
  /\ out = <<>>
  /\ inp = <<>>
  /\ received = <<>>
  /\ answer = <<>>
  /\ unsent = <<>>
  /\ acked = TRUE

Next == Host \/ Service
Spec == Init /\ [][Next]_vars
FairSpec == Spec /\ WF_vars(Host) /\ WF_vars(ServiceReads)
                 /\ WF_vars(ServiceAnswers) /\ WF_vars(ServiceWrites)

-----------------------------------------------------------------------------
(* Type correctness of a session.                                          *)
Word == Nat \X Nat
TypeOK ==
  /\ op \in Ops
  /\ pc \in {"send", "flushed", "header", "body", "ended"}
  /\ todo \in Seq(Record)
  /\ send_buffer \in Seq(Record)
  /\ send_idx \in 0..MaxData
  /\ recv_buffer \in Seq(Word)
  /\ record \in Record
  /\ result \in Seq(Record)
  /\ outcome \in {"none", "done", "push_failed", "command_failed", "invalid",
                  "key_error", "misread"}
  /\ received \in Seq(Record)
  /\ answer \in Seq(Record)
  /\ unsent \in Seq(Word)
  /\ acked \in BOOLEAN

(* The service receives the records in the order of the calls of Send,     *)
(* each once, however they were packed (Send, _Flush).                     *)
Packed == IF out = <<>> THEN <<>> ELSE Head(out).recs
RecordsInOrder == received \o Packed \o send_buffer \o todo = Script(op)

(* A packet is never longer than adbd accepts (_CanAddToSendBuffer).       *)
PacketsFit == \A i \in 1..Len(out) : out[i].len <= MaxData

(* The records handed to the caller are those the service sent, in order,  *)
(* a call that succeeds has them all, wherever the packets were cut, and   *)
(* one that raises does so because the service failed (_ReadBuffered,      *)
(* Read): file data is never shifted, lost or repeated.  How it raises     *)
(* depends on the moment: a FAIL met by Write is no PushFailedError.       *)
Kept ==
  CASE op = "push" -> <<>>
    [] op = "pull" -> Chunks("DATA")
    [] op = "stat" -> Replies
    [] op = "list" -> Chunks("DENT")
ResultIsAnswer ==
  /\ Len(result) <= Len(Kept)
  /\ result = SubSeq(Kept, 1, Len(result))
  /\ outcome = "done" => result = Kept /\ Complete /\ ~Failed
  /\ outcome \notin {"key_error", "invalid"}
  /\ outcome \in {"push_failed", "command_failed", "misread"} => Failed

(* A session never waits for an answer to records that it still holds in   *)
(* its buffer ("this will always get flushed", Send's docstring): it ends. *)
SessionEnds == <>(pc = "ended")
=============================================================================
