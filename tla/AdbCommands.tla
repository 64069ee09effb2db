---------------------------- MODULE AdbCommands ----------------------------
(***************************************************************************)
(* The commands of adb/adb_commands.py on one device.  A program makes one *)
(* call after the other; a call is one or several commands, each on a      *)
(* stream of its own: Shell and StreamingShell (StreamingCommand), Reboot, *)
(* the calls of the sync service, and InteractiveShell on its persistent   *)
(* connection.                                                             *)
(*                                                                         *)
(* A command may raise, which ends its call; a StreamingShell need not be  *)
(* read to its end, and InteractiveShell swallows every exception: in each *)
(* case the program goes on with its next call on the same handle.         *)
(***************************************************************************)
EXTENDS AdbMessage, FiniteSets

CONSTANTS
  Programs,        \* the sequences of calls a program may make
  MaxCommands,     \* bound: commands of a program
  PushWrites,      \* WRTE packets of a Push
  EarlyTimeouts    \* whether a read may time out while an answer is coming

(* Push and Install, Pull (also Stat and List), Shell (also Uninstall,     *)
(* Remount, Root and the verity commands), StreamingShell and Logcat.      *)
Plan ==
  [Shell |-> <<"shell">>, StreamingShell |-> <<"streaming">>,
   InteractiveShell |-> <<"interactive">>, Reboot |-> <<"reboot">>,
   Push |-> <<"push">>, PushDirectory |-> <<"mkdir", "push", "push">>,
   Pull |-> <<"pull">>, Install |-> <<"push", "pm_install", "rm">>]

ASSUME CommandsAssumption ==
  /\ Programs \subseteq Seq(DOMAIN Plan)
  /\ MaxCommands \in Nat
  /\ PushWrites \in Nat \ {0}
  /\ EarlyTimeouts \in BOOLEAN

VARIABLES
  pc,              \* where the program stands
  program,         \* the calls it has not begun
  pending,         \* the commands of its call that are not begun
  call,            \* the number of the last command
  cmd,             \* which command each is
  written,         \* how many packets of a push are written
  remote,          \* remote_id of the connection it uses
  service,         \* remote_id of _service_connections["shell:"], or 0
  status,          \* how each command ended
  data             \* what each command yielded

plan == <<program, pending>>
commandVars == <<pc, plan, call, cmd, written, remote, service, status, data>>
vars == <<wireVars, commandVars>>

Calls == 1..MaxCommands
Commands == {"shell", "streaming", "interactive", "reboot", "mkdir", "push",
             "pull", "pm_install", "rm"}
SyncCommands == {"push", "pull"}
Statuses == {"none", "returned", "refused", "raised", "abandoned"}

-----------------------------------------------------------------------------
(* The next command of the call, or the first of the next call.            *)
Todo ==
  IF pending # <<>> \/ program = <<>> THEN pending ELSE Plan[Head(program)]

Begin(c, label) ==
  /\ pc = "idle"
  /\ Todo # <<>> /\ Head(Todo) = c
  /\ call < MaxCommands
  /\ pending' = Tail(Todo)
  /\ program' = IF pending = <<>> THEN Tail(program) ELSE program
  /\ call' = call + 1
  /\ cmd' = [cmd EXCEPT ![call + 1] = c]
  /\ pc' = label

(* Mutant of Ends: Install and Push of a directory go on after an error.   *)
EndsOnly(how) ==
  /\ pc' = "idle"
  /\ status' = [status EXCEPT ![call] = how]
  /\ UNCHANGED pending

(* What a command raises, its call raises.                                 *)
Ends(how) ==
  /\ pc' = "idle"
  /\ status' = [status EXCEPT ![call] = how]
  /\ pending' = IF how = "returned" THEN pending ELSE <<>>

-----------------------------------------------------------------------------
(* Open: OPEN, then the first CLSE or OKAY, whichever stream it is of; its *)
(* ids are not compared with the request.                                  *)
OpenMsg(n) == Pkt("OPEN", LocalId, 0, <<n, 0>>)
WriteMsg(n, i, r) == Pkt("WRTE", LocalId, r, <<n, i>>)

Open ==
  /\ \E c \in Commands \ {"interactive"} : Begin(c, "open")
  /\ Send(OpenMsg(call + 1))
  /\ UNCHANGED <<inp, stream, written, remote, service, status, data>>

(* InteractiveShell: the connection of an earlier call is used again.      *)
InteractiveShell ==
  /\ IF service = 0
       THEN /\ Begin("interactive", "open")
            /\ Send(OpenMsg(call + 1))
            /\ UNCHANGED remote
       ELSE /\ Begin("interactive", "write")
            /\ Send(WriteMsg(call + 1, 0, service))
            /\ remote' = service
  /\ UNCHANGED <<inp, stream, written, service, status, data>>

(* What is done with the connection: Reboot drops it, InteractiveShell and *)
(* the calls of the sync service write, the others read.                   *)
Connected(r) ==
  /\ remote' = r
  /\ service' = IF cmd[call] = "interactive" THEN r ELSE service
  /\ CASE cmd[call] = "reboot" -> Ends("returned") /\ UNCHANGED <<out, written>>
       [] cmd[call] = "interactive" ->
            /\ pc' = "write"
            /\ Send(WriteMsg(call, 0, r))
            /\ UNCHANGED <<status, pending, written>>
       [] cmd[call] \in SyncCommands ->
            /\ pc' = "sync_write"
            /\ Send(WriteMsg(call, 1, r))
            /\ written' = 1
            /\ UNCHANGED <<status, pending>>
       [] OTHER -> pc' = "read" /\ UNCHANGED <<out, status, pending, written>>

(* Open returns None, which only Reboot survives.                          *)
Refused ==
  /\ Ends(IF cmd[call] = "reboot" THEN "returned" ELSE "refused")
  /\ UNCHANGED <<out, remote, service, written>>

(* Mutant of OpenAnswer: the first CLSE is the answer.                     *)
OpenAnswerOnce ==
  /\ pc = "open"
  /\ Reads({"CLSE", "OKAY"})
  /\ IF Incoming.cmd = "OKAY" THEN Connected(Incoming.arg0) ELSE Refused
  /\ UNCHANGED <<stream, program, call, cmd, data>>

(* "Some devices seem to be sending CLSE once more after a request, this   *)
(* *should* handle it": a second answer is read.                           *)
OpenAnswer ==
  /\ pc \in {"open", "open_again"}
  /\ Reads({"CLSE", "OKAY"})
  /\ IF Incoming.cmd = "OKAY" THEN Connected(Incoming.arg0)
     ELSE IF pc = "open_again" THEN Refused
     ELSE pc' = "open_again" /\ UNCHANGED <<out, remote, service, written, status, pending>>
  /\ UNCHANGED <<stream, program, call, cmd, data>>

-----------------------------------------------------------------------------
(* ReadUntilClose, one packet: data is yielded, CLSE is answered and ends  *)
(* the command, and a packet of another stream raises.                     *)
ReadOutput ==
  /\ pc = "read"
  /\ Reads({"CLSE", "WRTE"})
  /\ IF ~Matches(remote)
       THEN Ends("raised") /\ UNCHANGED <<out, data>>
       ELSE IF Incoming.cmd = "CLSE"
         THEN Send(Close(remote)) /\ Ends("returned") /\ UNCHANGED data
         ELSE /\ AckIfWrite(remote)
              /\ data' = [data EXCEPT ![call] = Append(@, Incoming.data)]
              /\ UNCHANGED <<pc, status, pending>>
  /\ UNCHANGED <<stream, program, call, cmd, written, remote, service>>

(* The caller of StreamingShell or Logcat drops the generator after a      *)
(* yield: nothing is sent to the device.                                   *)
Abandon ==
  /\ pc = "read" /\ cmd[call] = "streaming"
  /\ data[call] # <<>>
  /\ Ends("abandoned")
  /\ UNCHANGED <<wireVars, program, call, cmd, written, remote, service, data>>

-----------------------------------------------------------------------------
(* InteractiveShellCommand: Write reads until OKAY, then WRTE packets are  *)
(* read until the delimiter is seen (after any of them).                   *)
WriteAnswer ==
  /\ pc = "write"
  /\ Reads({"OKAY"})
  /\ IF Matches(remote) THEN pc' = "echo" /\ UNCHANGED <<status, pending>>
                       ELSE Ends("raised")
  /\ UNCHANGED <<out, stream, program, call, cmd, written, remote, service, data>>

ReadEcho ==
  /\ pc = "echo"
  /\ Reads({"WRTE"})
  /\ IF ~Matches(remote)
       THEN Ends("raised") /\ UNCHANGED <<out, data>>
       ELSE /\ AckIfWrite(remote)
            /\ data' = [data EXCEPT ![call] = Append(@, Incoming.data)]
            /\ Ends("returned") \/ UNCHANGED <<pc, status, pending>>
  /\ UNCHANGED <<stream, program, call, cmd, written, remote, service>>

-----------------------------------------------------------------------------
(* The calls of the sync service: each packet of Push is written and       *)
(* acknowledged before the next (FileSync has the records in them).        *)
Writes(c) == IF c = "push" THEN PushWrites ELSE 1
Whole(n) == [i \in 1..Writes(cmd[n]) |-> <<n, i>>]
IsSync(r) == stream[r].service[1] \in Calls /\ cmd[stream[r].service[1]] \in SyncCommands

SyncWriteAnswer ==
  /\ pc = "sync_write"
  /\ Reads({"OKAY"})
  /\ IF ~Matches(remote) THEN Ends("raised") /\ UNCHANGED <<out, written>>
     ELSE /\ IF written < Writes(cmd[call])
               THEN Send(WriteMsg(call, written + 1, remote)) /\ UNCHANGED pc
               ELSE pc' = "sync_read" /\ UNCHANGED out
          /\ written' = written + 1
          /\ UNCHANGED <<status, pending>>
  /\ UNCHANGED <<stream, program, call, cmd, remote, service, data>>

(* The answer is taken, and unless it is one of failure, or no answer of a *)
(* sync service at all, connection.Close() sends CLSE and waits for one.   *)
IsSuccess == IsSync(remote) /\ Incoming.data = <<remote, 1>>
SyncAnswer ==
  /\ pc = "sync_read"
  /\ Reads({"WRTE"})
  /\ IF ~Matches(remote) THEN Ends("raised") /\ UNCHANGED <<out, data>>
     ELSE /\ data' = [data EXCEPT ![call] = Append(@, Incoming.data)]
          /\ IF IsSuccess
               THEN /\ out' = out \o <<Okay(remote), Close(remote)>>
                    /\ pc' = "sync_close"
                    /\ UNCHANGED <<status, pending>>
               ELSE Send(Okay(remote)) /\ Ends("raised")
  /\ UNCHANGED <<stream, program, call, cmd, written, remote, service>>

SyncClosed ==
  /\ pc = "sync_close"
  /\ Reads({"CLSE"})
  /\ Ends(IF Matches(remote) THEN "returned" ELSE "raised")
  /\ UNCHANGED <<out, stream, program, call, cmd, written, remote, service, data>>

(* The service answers a whole request, and fails whenever it likes.       *)
DevSyncAnswer(r) ==
  /\ stream[r].st = "ready"
  /\ stream[r].got # <<>> /\ stream[r].sent = 0
  /\ \E answer \in {1, 2} :
       /\ answer = 1 => \E n \in 1..call : stream[r].got = Whole(n)
       /\ DevWrites(Pkt("WRTE", r, stream[r].peer, <<r, answer>>))
  /\ stream' = [stream EXCEPT ![r].st = "waitack", ![r].sent = 1]
  /\ UNCHANGED out

Service(r) ==
  \/ IsSync(r) /\ DevSyncAnswer(r)
  \/ ~IsSync(r) /\ DevStreamWrite(r)
  \/ DevStreamEnd(r)

-----------------------------------------------------------------------------
(* AdbCommands.Close: CLSE on the persistent connection, whose errors are  *)
(* ignored, then the handle is closed.                                     *)
CloseDevice ==
  /\ pc = "idle" /\ pending = <<>>
  /\ IF service = 0
       THEN pc' = "closed" /\ UNCHANGED <<out, remote>>
       ELSE pc' = "closing" /\ Send(Close(service)) /\ remote' = service
  /\ service' = 0
  /\ UNCHANGED <<inp, stream, plan, call, cmd, written, status, data>>

CloseAnswer ==
  /\ pc = "closing"
  /\ Reads({"CLSE"})
  /\ pc' = "closed"
  /\ UNCHANGED <<out, stream, plan, call, cmd, written, remote, service, status, data>>

-----------------------------------------------------------------------------
(* What the reads above do with other transfers, or with none.             *)
ExpectedCmds ==
  CASE pc \in {"open", "open_again"} -> {"CLSE", "OKAY"}
    [] pc = "read" -> {"CLSE", "WRTE"}
    [] pc \in {"write", "sync_write"} -> {"OKAY"}
    [] pc \in {"echo", "sync_read"} -> {"WRTE"}
    [] pc \in {"sync_close", "closing"} -> {"CLSE"}
    [] OTHER -> {}

Reading == ExpectedCmds # {}

SkipPacket ==
  /\ Reading
  /\ Skips(ExpectedCmds)
  /\ UNCHANGED <<out, stream, commandVars>>

Fails ==
  IF pc = "closing" THEN pc' = "closed" /\ UNCHANGED <<status, pending>> ELSE Ends("raised")

(* A payload is taken for a header, or the read of one times out.          *)
Misread ==
  /\ Reading
  /\ Misreads \/ (EarlyTimeouts /\ HalfReads(ExpectedCmds))
  /\ Fails
  /\ UNCHANGED <<out, stream, program, call, cmd, written, remote, service, data>>

(* Mutant of ReadTimeout: BulkRead waits without end.                      *)
ReadWithoutTimeout ==
  /\ Reading
  /\ inp = <<>>
  /\ Quiet
  /\ UNCHANGED vars

(* BulkRead times out: nothing has come, and perhaps nothing will.         *)
ReadTimeout ==
  /\ Reading
  /\ inp = <<>>
  /\ EarlyTimeouts \/ Quiet
  /\ Fails
  /\ UNCHANGED <<wireVars, program, call, cmd, written, remote, service, data>>

Read ==
  \/ OpenAnswer
  \/ ReadOutput
  \/ WriteAnswer
  \/ ReadEcho
  \/ SyncWriteAnswer
  \/ SyncAnswer
  \/ SyncClosed
  \/ CloseAnswer
  \/ SkipPacket
  \/ Misread
  \/ ReadTimeout

Init ==
  /\ WireInit
  /\ pc = "idle"
  /\ program \in Programs
  /\ pending = <<>>
  /\ call = 0
  /\ cmd = [n \in Calls |-> "none"]
  /\ written = 0
  /\ remote = 0
  /\ service = 0
  /\ status = [n \in Calls |-> "none"]
  /\ data = [n \in Calls |-> <<>>]

Next ==
  \/ (DevPacket \/ \E r \in RemoteIds : Service(r)) /\ UNCHANGED commandVars
  \/ Open
  \/ InteractiveShell
  \/ Abandon
  \/ CloseDevice
  \/ Read

Spec == Init /\ [][Next]_vars

(* adbd reads its packets, a service ends some day, and a read returns or  *)
(* times out.                                                              *)
Fairness ==
  /\ WF_vars(DevPacket /\ UNCHANGED commandVars)
  /\ \A r \in RemoteIds : WF_vars(DevStreamEnd(r) /\ UNCHANGED commandVars)
  /\ WF_vars(Read)

FairSpec == Spec /\ Fairness

-----------------------------------------------------------------------------
(* Type correctness of the commands and of the wire.                       *)
CommandsTypeOK ==
  /\ pc \in {"idle", "open", "open_again", "read", "write", "echo", "sync_write",
             "sync_read", "sync_close", "closing", "closed"}
  /\ program \in Seq(DOMAIN Plan)
  /\ pending \in Seq(Commands)
  /\ call \in 0..MaxCommands
  /\ cmd \in [Calls -> Commands \cup {"none"}]
  /\ written \in Nat
  /\ remote \in RemoteIds \cup {0}
  /\ service \in RemoteIds \cup {0}
  /\ status \in [Calls -> Statuses]
  /\ data \in [Calls -> Seq(Data)]
TypeOK == WireTypeOK /\ CommandsTypeOK

(* "Returns: The response from the service" (the docstring of Command):    *)
(* though every stream has the local id 1, Open takes any OKAY and some    *)
(* devices close a stream twice, a Shell that returns has the whole output *)
(* of the service it asked for, if every command before it returned or was *)
(* refused and left no stream open.  After one that raised, or was not     *)
(* read to its end, it may have another's.                                 *)
Chunks(r, n) == [i \in 1..n |-> <<r, i>>]
Response(n) ==
  \E r \in RemoteIds :
    /\ stream[r].service = <<n, 0>>
    /\ data[n] = Chunks(r, stream[r].sent)
Tidy(m) == cmd[m] \notin {"interactive", "reboot"} /\ status[m] \in {"returned", "refused"}
ResponseFromService ==
  \A n \in Calls :
    /\ status[n] = "returned" /\ cmd[n] \notin SyncCommands
    /\ \A m \in 1..n : Tidy(m)
    => Response(n)

(* Install asks for "pm install" only when a sync service has received the *)
(* whole apk, in one stream and in order, and has said so, whatever the    *)
(* calls before it left in the pipe (Install, FilesyncProtocol.Push, and   *)
(* the answer Open takes).                                                 *)
InstalledIsPushed ==
  \A r \in RemoteIds : \A n \in Calls :
    stream[r].service = <<n, 0>> /\ cmd[n] = "pm_install" =>
      \E q \in RemoteIds : stream[q].got = Whole(n - 1)

(* Whatever the calls before it did, or left in the pipe, what one call    *)
(* yields is an unbroken piece of the output of a single stream (the       *)
(* remote id compared in ReadUntil).                                       *)
OnePiece ==
  \A n \in Calls : \A i \in 2..Len(data[n]) :
    /\ data[n][i][1] = data[n][1][1]
    /\ data[n][i][2] = data[n][i - 1][2] + 1

(* No packet is acknowledged twice, or without having been written: each   *)
(* stream has at most one WRTE or OKAY under way, and none while it may    *)
(* write (ReadUntil, Okay, and the calls that raise in between).           *)
UnreadWrites(r) ==
  {i \in 1..Len(inp) : /\ inp[i].kind = "header"
                       /\ inp[i].packet.cmd = "WRTE" /\ inp[i].packet.arg0 = r}
UnreadAcks(r) == {i \in 1..Len(out) : out[i].cmd = "OKAY" /\ out[i].arg1 = r}
UnderWay(r) == Cardinality(UnreadWrites(r)) + Cardinality(UnreadAcks(r))
NoDoubleAck ==
  \A r \in RemoteIds : UnderWay(r) <= (IF stream[r].st = "ready" THEN 0 ELSE 1)

(* A call returns or raises, and never waits for a packet that was already *)
(* taken from the pipe.                                                    *)
AtRest == pc \in {"idle", "closed"}
CallEnds == ~AtRest ~> AtRest
=============================================================================
