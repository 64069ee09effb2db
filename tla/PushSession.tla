---------------------------- MODULE PushSession ----------------------------
(***************************************************************************)
(* Pushing files over the multiplexer: AndroidDevice.push (device.py),     *)
(* PushConnection (connection.py) and adb.push (adb.py).                   *)
(*                                                                         *)
(* Each member of Pushes is one file, pushed by one user thread in turn;   *)
(* the records of a push are sent by the thread of its connection.  A      *)
(* record is <<p, k>>: SEND is the first, DONE and QUIT are the last two,  *)
(* the others are DATA.  A push takes its id from the counter that shell   *)
(* takes its ids from.  The sync service of adbd is external.              *)
(***************************************************************************)
EXTENDS AdbShell

CONSTANTS
  Pushes,          \* the files pushed, numbered
  FileChunks,      \* how many DATA records the file p makes
  BlockingPush     \* adb.push's parameter block

ASSUME PushAssumption ==
  /\ Pushes \subseteq Nat \ {0}
  /\ FileChunks \in [Pushes -> Nat]
  /\ BlockingPush \in BOOLEAN

VARIABLES
  ppc,             \* where push(), then PushConnection.main_loop, stands
  pid,             \* the local_id of a push, 0 before
  prid,            \* its remote_id, 0 before
  record,          \* the record it sends next
  reply            \* what receive() read after DONE

pushVars == <<ppc, pid, prid, record, reply>>

(* "ended": main_loop returned.  "raised": an exception ended the thread.  *)
(* "refused": push() raised.                                               *)
InPushCall == {"open", "open_data", "await"}
InPushTask == {"send", "send_data", "await_okay", "await_reply", "await_close", "close"}
PPc == {"idle", "refused", "ended", "raised"} \cup InPushCall \cup InPushTask

SendRecord == 1
Done(p) == FileChunks[p] + 2
Quit(p) == FileChunks[p] + 3

ReplyOkay == <<0, 1>>
ReplyFail == <<0, 2>>

Advance(p, from, to) == ppc[p] = from /\ ppc' = [ppc EXCEPT ![p] = to]
HostOnly == UNCHANGED <<daemonVars, authVars>>

-----------------------------------------------------------------------------
(* push(): the next even id, OPEN, and the first response of that id.  The *)
(* thread that calls it waits for the whole push when it is blocking.      *)
PushUnderWay(p) == ppc[p] \in InPushCall \/ (BlockingPush /\ ppc[p] \in InPushTask)

CallPush(p) ==
  /\ auth_pc = "done"
  /\ \A q \in Pushes : ~PushUnderWay(q)
  /\ base_id + 2 \in LocalIds
  /\ Advance(p, "idle", "open")
  /\ base_id' = base_id + 2
  /\ pid' = [pid EXCEPT ![p] = base_id + 2]
  /\ UNCHANGED <<AuthVars, prid, record, reply>>

PushOpenMsg(p) == Msg("OPEN", pid[p], 0, NoData)

SendPushOpen(p) ==
  /\ Advance(p, "open", "open_data")
  /\ PutHeader(PushOpenMsg(p))
  /\ HostOnly /\ UNCHANGED <<base_id, pid, prid, record, reply>>

SendPushOpenPayload(p) ==
  /\ Advance(p, "open_data", "await")
  /\ PutPayload(PushOpenMsg(p))
  /\ HostOnly /\ UNCHANGED <<base_id, pid, prid, record, reply>>

PushOpenAnswer(p) ==
  /\ Take(pid[p])
  /\ IF Response(pid[p]).cmd = "OKAY"
       THEN /\ Advance(p, "await", "send")
            /\ prid' = [prid EXCEPT ![p] = Response(pid[p]).arg0]
       ELSE /\ Advance(p, "await", "refused")
            /\ UNCHANGED prid
  /\ HostOnly /\ UNCHANGED <<base_id, pid, record, reply>>

-----------------------------------------------------------------------------
(* PushConnection.send: WRTE, then a response that must be OKAY; whatever  *)
(* else arrives, a FAIL of the service above all, raises.                  *)
RecordMsg(p) == Msg("WRTE", pid[p], prid[p], <<p, record[p]>>)
Awaited(p) == Expected(Response(pid[p]), pid[p], prid[p])

SendHeader(p) ==
  /\ Advance(p, "send", "send_data")
  /\ PutHeader(RecordMsg(p))
  /\ HostOnly /\ UNCHANGED <<base_id, pid, prid, record, reply>>

SendPayload(p) ==
  /\ Advance(p, "send_data", "await_okay")
  /\ PutPayload(RecordMsg(p))
  /\ HostOnly /\ UNCHANGED <<base_id, pid, prid, record, reply>>

(* Mutant of AfterOkay: the answer to DONE is not read.                    *)
AfterOkayNoReceive(p) == IF record[p] = Quit(p) THEN "await_close" ELSE "send"

(* After DONE comes receive(), after QUIT the wait for CLSE.               *)
AfterOkay(p) ==
  CASE record[p] = Done(p) -> "await_reply"
    [] record[p] = Quit(p) -> "await_close"
    [] OTHER -> "send"

(* Mutant of TakeOkay: the file is not read on.                            *)
TakeOkaySameRecord(p) ==
  /\ Take(pid[p])
  /\ Advance(p, "await_okay", AfterOkay(p))
  /\ HostOnly /\ UNCHANGED <<base_id, pid, prid, record, reply>>

TakeOkay(p) ==
  /\ ppc[p] = "await_okay"
  /\ Take(pid[p])
  /\ IF ~Awaited(p)
       THEN UNCHANGED <<ppc, record>>
       ELSE IF Response(pid[p]).cmd = "OKAY"
         THEN /\ Advance(p, "await_okay", AfterOkay(p))
              /\ record' = [record EXCEPT ![p] = @ + 1]
         ELSE /\ Advance(p, "await_okay", "raised")
              /\ UNCHANGED record
  /\ HostOnly /\ UNCHANGED <<base_id, pid, prid, reply>>

(* receive(): OKAY or FAIL, and main_loop goes on to QUIT with either; a   *)
(* response without data cannot be unpacked and raises.                    *)
TakeReply(p) ==
  /\ ppc[p] = "await_reply"
  /\ Take(pid[p])
  /\ IF ~Awaited(p)
       THEN UNCHANGED <<ppc, reply>>
       ELSE IF Response(pid[p]).cmd = "WRTE"
         THEN /\ Advance(p, "await_reply", "send")
              /\ reply' = [reply EXCEPT ![p] = Response(pid[p]).data]
         ELSE /\ Advance(p, "await_reply", "raised")
              /\ UNCHANGED reply
  /\ HostOnly /\ UNCHANGED <<base_id, pid, prid, record>>

(* receive(cmd=(CLSE,)) drops every other response, then CLSE is answered. *)
TakeClose(p) ==
  /\ ppc[p] = "await_close"
  /\ Take(pid[p])
  /\ IF Awaited(p) /\ Response(pid[p]).cmd = "CLSE"
       THEN Advance(p, "await_close", "close")
       ELSE UNCHANGED ppc
  /\ HostOnly /\ UNCHANGED <<base_id, pid, prid, record, reply>>

SendClose(p) ==
  /\ Advance(p, "close", "ended")
  /\ PutHeader(Msg("CLSE", pid[p], prid[p], NoData))
  /\ HostOnly /\ UNCHANGED <<base_id, pid, prid, record, reply>>

Push(p) ==
  \/ CallPush(p)
  \/ SendPushOpen(p)
  \/ SendPushOpenPayload(p)
  \/ PushOpenAnswer(p)
  \/ SendHeader(p)
  \/ SendPayload(p)
  \/ TakeOkay(p)
  \/ TakeReply(p)
  \/ TakeClose(p)
  \/ SendClose(p)

-----------------------------------------------------------------------------
(* The sync service: after DONE it says OKAY; it may say FAIL at any time  *)
(* after SEND, once, and then throws the rest away; after QUIT it ends.    *)
Last(r) == stream[r].got[Len(stream[r].got)]
HasDone(r) == \E i \in 1..Len(stream[r].got) :
  LET rec == stream[r].got[i] IN rec[1] \in Pushes /\ rec[2] = Done(rec[1])

SyncReply(r, data) ==
  /\ stream[r].st = "ready"
  /\ stream[r].sent = 0
  /\ DevWrites(Msg("WRTE", r, stream[r].peer, data))
  /\ stream' = [stream EXCEPT ![r].st = "waitack", ![r].sent = 1]
  /\ UNCHANGED <<dev_auth, dev_token>>

SyncOkay(r) == HasDone(r) /\ SyncReply(r, ReplyOkay)
SyncFail(r) == stream[r].got # <<>> /\ SyncReply(r, ReplyFail)

SyncQuit(r) ==
  /\ stream[r].got # <<>>
  /\ Last(r)[1] \in Pushes
  /\ Last(r)[2] = Quit(Last(r)[1])
  /\ DevStreamEnd(r)

SyncService(r) == SyncOkay(r) \/ SyncFail(r) \/ SyncQuit(r)

PushInit ==
  /\ ppc = [p \in Pushes |-> "idle"]
  /\ pid = [p \in Pushes |-> 0]
  /\ prid = [p \in Pushes |-> 0]
  /\ record = [p \in Pushes |-> SendRecord]
  /\ reply = [p \in Pushes |-> NoData]

-----------------------------------------------------------------------------
(* Type correctness of push and PushConnection.                            *)
PushTypeOK ==
  /\ ppc \in [Pushes -> PPc]
  /\ pid \in [Pushes -> LocalIds \cup {0}]
  /\ prid \in [Pushes -> StreamIds \cup {0}]
  /\ record \in [Pushes -> Nat]
  /\ \A p \in Pushes : record[p] \in 1..Quit(p) + 1
  /\ reply \in [Pushes -> {NoData, ReplyOkay, ReplyFail}]

(* The service of a push has received the records of this push and of no   *)
(* other, in order from SEND on, never more than were sent (send waiting   *)
(* for the OKAY of each record).                                           *)
Received(p) == stream[prid[p]].got
RecordsInOrder ==
  \A p \in Pushes : prid[p] # 0 =>
    /\ Len(Received(p)) <= record[p]
    /\ Received(p) = [k \in 1..Len(Received(p)) |-> <<p, k>>]

(* A push that ran to its end has seen the service's answer to DONE and    *)
(* its CLSE after QUIT: nothing it sent is still on the way.               *)
EndedMeansFinished ==
  \A p \in Pushes : ppc[p] = "ended" =>
    /\ reply[p] # NoData
    /\ Len(Received(p)) = Quit(p)
    /\ stream[prid[p]].st = "closed"

=============================================================================
