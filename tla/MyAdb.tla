------------------------------- MODULE MyAdb -------------------------------
(***************************************************************************)
(* ADBDevice of myadb/device.py: calls of shell, tcpip or forward (one     *)
(* loop), query_file_attributes, push, and of active_shell followed by     *)
(* get_active_shell_result, which waits while run_cmd_loop, in a thread of *)
(* its own, has the command carried out.  The program makes one call after *)
(* the other, so that one thread at a time uses the device.                *)
(*                                                                         *)
(* Every stream has an id of its own, nothing has a timeout, and receive() *)
(* skips the header of a packet that is not expected but not its payload,  *)
(* which it then takes for a header.                                       *)
(***************************************************************************)
EXTENDS AdbMessage

CONSTANTS
  MaxCalls,        \* bound: calls of the program
  Records,         \* bound: writes of a push before QUIT
  Prompts          \* what is written that contains both "@" and ":/"

ASSUME MyAdbAssumption ==
  /\ MaxCalls \in Nat
  /\ Records \in Nat \ {0}
  /\ Prompts \subseteq Data

VARIABLES
  pc,              \* where the program stands
  call,            \* the last call
  kind,            \* what each call is
  base_id,         \* self.base_id
  local_id,        \* the ids of the stream in use
  remote_id,
  active,          \* the ids of the stream of run_cmd_loop
  step,            \* how much of the script of a call is done
  status,          \* how each call ended
  data,            \* what it was given: result
  failed,          \* streams whose sync service failed before it had all
  cut              \* history: calls during which an interactive shell ended

hostVars == <<pc, call, kind, base_id, local_id, remote_id, active, step, status, data>>
envVars == <<failed, cut>>
vars == <<wireVars, hostVars, envVars>>

Calls == 1..MaxCalls
Kinds == {"shell", "query", "push", "active"}
NoIds == [local |-> 0, remote |-> 0]
Ends(how) == pc' = "idle" /\ status' = [status EXCEPT ![call] = how]

(* An exception: that of run_cmd_loop ends its thread, and the program     *)
(* waits in result_queue.get for a result nobody will put there.           *)
Raises(how) ==
  /\ pc' = IF kind[call] = "active" THEN "stranded" ELSE "idle"
  /\ status' = [status EXCEPT ![call] = how]

-----------------------------------------------------------------------------
(* What query_file_attributes and push do after their OPEN: they send, and *)
(* they receive whatever comes with one command.                           *)
(* Mutant of Script: CLSE is awaited before it is sent.                    *)
ScriptAwaitsFirst ==
  IF kind[call] = "query"
    THEN << "write", "OKAY", "WRTE", "ack", "CLSE", "close" >>
    ELSE [i \in 1..2 * Records |-> IF i % 2 = 1 THEN "write" ELSE "OKAY"]
         \o << "WRTE", "ack", "write", "CLSE", "close" >>

Script ==
  IF kind[call] = "query"
    THEN << "write", "OKAY", "WRTE", "ack", "close", "CLSE" >>
    ELSE [i \in 1..2 * Records |-> IF i % 2 = 1 THEN "write" ELSE "OKAY"]
         \o << "WRTE", "ack", "write", "CLSE", "close" >>
InScript == pc = "script"
Now == Script[step + 1]

NextStep ==
  /\ step' = step + 1
  /\ IF step + 1 = Len(Script) THEN Ends("returned") ELSE UNCHANGED <<pc, status>>

Ack == Pkt("OKAY", local_id, remote_id, NoData)
CloseMsg == Pkt("CLSE", local_id, remote_id, NoData)
WriteMsg(n) == Pkt("WRTE", local_id, remote_id, <<call, n>>)

-----------------------------------------------------------------------------
(* A call: establish_connection with the next id, but for a command of an  *)
(* active shell whose thread runs already.  Mutant of Call: every stream   *)
(* has the same id (as in adb/).                                           *)
CallSameId ==
  /\ pc = "idle" /\ call < MaxCalls
  /\ call' = call + 1
  /\ \E k \in Kinds :
       /\ kind' = [kind EXCEPT ![call + 1] = k]
       /\ IF k = "active" /\ active # NoIds
            THEN /\ pc' = "command"
                 /\ local_id' = active.local
                 /\ remote_id' = active.remote
                 /\ UNCHANGED <<base_id, out>>
            ELSE /\ pc' = "answer"
                 /\ local_id' = 2
                 /\ Send(Pkt("OPEN", 2, 0, <<call + 1, 0>>))
                 /\ UNCHANGED <<base_id, remote_id>>
  /\ UNCHANGED <<inp, stream, active, step, status, data>>

Call ==
  /\ pc = "idle" /\ call < MaxCalls
  /\ call' = call + 1
  /\ \E k \in Kinds :
       /\ kind' = [kind EXCEPT ![call + 1] = k]
       /\ IF k = "active" /\ active # NoIds
            THEN /\ pc' = "command"
                 /\ local_id' = active.local
                 /\ remote_id' = active.remote
                 /\ UNCHANGED <<base_id, out>>
            ELSE /\ pc' = "answer"
                 /\ base_id' = base_id + 1
                 /\ local_id' = base_id + 1
                 /\ Send(Pkt("OPEN", base_id + 1, 0, <<call + 1, 0>>))
                 /\ UNCHANGED remote_id
  /\ UNCHANGED <<inp, stream, active, step, status, data>>

(* Answers to other streams are dropped until one is ours.                 *)
OpenAnswer ==
  /\ pc = "answer"
  /\ Reads({"OKAY", "CLSE"})
  /\ IF Incoming.arg1 # local_id THEN UNCHANGED <<pc, remote_id, step, status>>
     ELSE IF Incoming.cmd = "CLSE" THEN Raises("refused") /\ UNCHANGED <<remote_id, step>>
     ELSE /\ remote_id' = Incoming.arg0
          /\ pc' = CASE kind[call] = "shell" -> "read"
                     [] kind[call] = "active" -> "prompt"
                     [] OTHER -> "script"
          /\ step' = 0
          /\ UNCHANGED status
  /\ UNCHANGED <<out, stream, call, kind, base_id, local_id, active, data>>

-----------------------------------------------------------------------------
(* shell: a WRTE of another stream is dropped, and a CLSE ends the loop    *)
(* whatever its ids, though only our own is answered.  Mutant of IsOwn:    *)
(* the remote id is not compared with that of the stream.                  *)
IsAnyones == Incoming.arg0 \in RemoteIds /\ Incoming.arg1 \in 0..base_id
IsOwn == Incoming.arg0 = remote_id /\ Incoming.arg1 = local_id
ReadOutput ==
  /\ pc = "read"
  /\ Reads({"WRTE", "CLSE"})
  /\ IF IsOwn
       THEN /\ Send(IF Incoming.cmd = "WRTE" THEN Ack ELSE CloseMsg)
            /\ data' = IF Incoming.cmd = "WRTE"
                         THEN [data EXCEPT ![call] = Append(@, Incoming.data)] ELSE data
       ELSE UNCHANGED <<out, data>>
  /\ IF Incoming.cmd = "CLSE" THEN Ends("returned") ELSE UNCHANGED <<pc, status>>
  /\ UNCHANGED <<stream, call, kind, base_id, local_id, remote_id, active, step>>

(* Mutant of ReadScript: any packet is taken for the one awaited.          *)
ReadScriptAny ==
  /\ InScript
  /\ Now \in {"OKAY", "WRTE", "CLSE"}
  /\ Reads({"OKAY", "WRTE", "CLSE"})
  /\ data' = IF Incoming.cmd = "WRTE"
               THEN [data EXCEPT ![call] = Append(@, Incoming.data)] ELSE data
  /\ NextStep
  /\ UNCHANGED <<out, stream, call, kind, base_id, local_id, remote_id, active>>

ReadScript ==
  /\ InScript
  /\ Now \in {"OKAY", "WRTE", "CLSE"}
  /\ Reads({Now})
  /\ data' = IF Now = "WRTE" THEN [data EXCEPT ![call] = Append(@, Incoming.data)] ELSE data
  /\ NextStep
  /\ UNCHANGED <<out, stream, call, kind, base_id, local_id, remote_id, active>>

SendScript ==
  /\ InScript
  /\ Now \in {"write", "ack", "close"}
  /\ Send(CASE Now = "write" -> WriteMsg(step + 1)
            [] Now = "ack" -> Ack
            [] OTHER -> CloseMsg)
  /\ NextStep
  /\ UNCHANGED <<inp, stream, call, kind, base_id, local_id, remote_id, active, data>>

-----------------------------------------------------------------------------
(* run_cmd_loop.  The first packet is acknowledged, whatever it says; then *)
(* packets are collected up to one that looks like a prompt, be it one or  *)
(* not, which is not acknowledged.                                         *)
ReadPrompt ==
  /\ pc = "prompt"
  /\ Reads({"WRTE"})
  /\ Send(Ack)
  /\ active' = [local |-> local_id, remote |-> remote_id]
  /\ pc' = "command"
  /\ UNCHANGED <<stream, call, kind, base_id, local_id, remote_id, step, status, data>>

SendCommand ==
  /\ pc = "command"
  /\ Send(WriteMsg(1))
  /\ pc' = "output"
  /\ UNCHANGED <<inp, stream, call, kind, base_id, local_id, remote_id, active, step, status, data>>

(* Mutant of ReadCommandOutput: the result ends with any output.           *)
ReadOneOutput ==
  /\ pc = "output"
  /\ Reads({"WRTE", "OKAY"})
  /\ IF Incoming.cmd = "OKAY" THEN UNCHANGED <<out, pc, status, data>>
     ELSE /\ data' = [data EXCEPT ![call] = Append(@, Incoming.data)]
          /\ Send(Ack)
          /\ Ends("returned")
  /\ UNCHANGED <<stream, call, kind, base_id, local_id, remote_id, active, step>>

ReadCommandOutput ==
  /\ pc = "output"
  /\ Reads({"WRTE", "OKAY"})
  /\ IF Incoming.cmd = "OKAY" THEN UNCHANGED <<out, pc, status, data>>
     ELSE /\ data' = [data EXCEPT ![call] = Append(@, Incoming.data)]
          /\ IF Incoming.data \in Prompts THEN Ends("returned") /\ UNCHANGED out
                                        ELSE Send(Ack) /\ UNCHANGED <<pc, status>>
  /\ UNCHANGED <<stream, call, kind, base_id, local_id, remote_id, active, step>>

-----------------------------------------------------------------------------
(* receive(cmd_list) of another command, or of a payload: one of 24 bytes  *)
(* is skipped like a header, and of any other it raises struct.error.      *)
Expected ==
  CASE pc = "answer" -> {"OKAY", "CLSE"}
    [] pc = "read" -> {"WRTE", "CLSE"}
    [] pc = "prompt" -> {"WRTE"}
    [] pc = "output" -> {"WRTE", "OKAY"}
    [] InScript -> {Now} \cap {"OKAY", "WRTE", "CLSE"}
    [] OTHER -> {}

SkipPacket ==
  /\ Expected # {}
  /\ Skips(Expected)
  /\ UNCHANGED <<out, stream, hostVars>>

Misread ==
  /\ Expected # {}
  /\ Misreads
  /\ Raises("raised") \/ UNCHANGED <<pc, status>>
  /\ UNCHANGED <<out, stream, call, kind, base_id, local_id, remote_id, active, step, data>>

Device ==
  \/ OpenAnswer
  \/ ReadOutput
  \/ ReadScript
  \/ SendScript
  \/ ReadPrompt
  \/ SendCommand
  \/ ReadCommandOutput
  \/ SkipPacket
  \/ Misread

-----------------------------------------------------------------------------
(* The services.  A shell writes what it likes and ends; the sync service  *)
(* answers when it has the whole request, or a push earlier when it fails, *)
(* and ends after QUIT.  An interactive shell writes something when it has *)
(* started and when it has got a command, and what it likes at any other   *)
(* time, and may end at any moment.                                        *)
Service(r) == kind[stream[r].service[1]]
Got(r) == Len(stream[r].got)
HasAll(r) == Got(r) >= (IF Service(r) = "query" THEN 1 ELSE Records)

ServiceAnswer(r) ==
  /\ CASE Service(r) = "active" -> stream[r].sent = 0 \/ Got(r) > 0
       [] Service(r) = "shell" -> FALSE
       [] OTHER -> HasAll(r) /\ stream[r].sent = 0
  /\ DevStreamWrite(r)

ServiceWrite(r) ==
  /\ Service(r) \in {"shell", "active"}
  /\ DevStreamWrite(r)

ServiceFails(r) ==
  /\ Service(r) = "push" /\ Got(r) > 0 /\ ~HasAll(r) /\ stream[r].sent = 0
  /\ DevStreamWrite(r)

ServiceEnd(r) ==
  /\ Service(r) = "shell" \/ (Service(r) = "push" /\ Got(r) > Records)
  /\ DevStreamEnd(r)

ShellExits(r) ==
  /\ Service(r) = "active"
  /\ DevStreamEnd(r)

Adbd ==
  \/ DevPacket /\ UNCHANGED envVars
  \/ \E r \in RemoteIds :
       /\ IsOpen(r)
       /\ \/ (ServiceAnswer(r) \/ ServiceWrite(r) \/ ServiceEnd(r)) /\ UNCHANGED envVars
          \/ ServiceFails(r) /\ failed' = failed \cup {r} /\ UNCHANGED cut
          \/ /\ ShellExits(r) /\ UNCHANGED failed
             /\ cut' = IF pc = "idle" THEN cut ELSE cut \cup {call}

Init ==
  /\ WireInit
  /\ pc = "idle"
  /\ call = 0
  /\ kind = [c \in Calls |-> "none"]
  /\ base_id = 1
  /\ local_id = 0
  /\ remote_id = 0
  /\ active = NoIds
  /\ step = 0
  /\ status = [c \in Calls |-> "none"]
  /\ data = [c \in Calls |-> <<>>]
  /\ failed = {}
  /\ cut = {}

Next ==
  \/ Adbd /\ UNCHANGED hostVars
  \/ (Call \/ Device) /\ UNCHANGED envVars

Spec == Init /\ [][Next]_vars

(* adbd reads its packets, a service that has the whole request answers    *)
(* and ends, an interactive shell answers, and the program goes on.        *)
FairSpec ==
  /\ Spec
  /\ WF_vars(DevPacket /\ UNCHANGED <<hostVars, envVars>>)
  /\ \A r \in RemoteIds :
       /\ WF_vars(IsOpen(r) /\ ServiceAnswer(r) /\ UNCHANGED <<hostVars, envVars>>)
       /\ WF_vars(IsOpen(r) /\ ServiceEnd(r) /\ UNCHANGED <<hostVars, envVars>>)
  /\ WF_vars(Device /\ UNCHANGED envVars)

-----------------------------------------------------------------------------
(* Type correctness of ADBDevice and of the wire.                          *)
TypeOK ==
  /\ WireTypeOK
  /\ pc \in {"idle", "answer", "read", "script", "prompt", "command", "output", "stranded"}
  /\ call \in 0..MaxCalls
  /\ kind \in [Calls -> Kinds \cup {"none"}]
  /\ base_id \in Nat
  /\ local_id \in Nat
  /\ remote_id \in Nat
  /\ active \in [local : Nat, remote : Nat]
  /\ step \in Nat
  /\ status \in [Calls -> {"none", "returned", "refused", "raised"}]
  /\ data \in [Calls -> Seq(Data)]
  /\ failed \subseteq RemoteIds
  /\ cut \subseteq 0..MaxCalls

(* Q(r) holds of the stream that was opened for call c, if the call has    *)
(* returned.                                                               *)
Returned(c, k, Q(_)) ==
  status[c] = "returned" /\ kind[c] = k =>
    \E r \in RemoteIds : stream[r].service = <<c, 0>> /\ Q(r)

(* No call up to c has raised, nor was any under way when an interactive   *)
(* shell ended.                                                            *)
Orderly(c) == \A b \in 1..c : status[b] # "raised" /\ b \notin cut

(* What shell() returns is a beginning of the output of its own service,   *)
(* whatever was called before, what raised and what ended meanwhile: the   *)
(* ids of a WRTE are compared.                                             *)
OutputIsOwn ==
  \A c \in Calls : Returned(c, "shell", LAMBDA r :
    \E n \in 0..stream[r].sent : data[c] = [i \in 1..n |-> <<r, i>>])

(* And it is the whole output of a service that has ended, although a CLSE *)
(* ends the loop whatever its ids: the second CLSE of a device that closes *)
(* streams twice comes before the answer to the OPEN, and so does that of  *)
(* an interactive shell that ended between two calls.  One that ends while *)
(* shell() reads cuts its output short.                                    *)
OutputWhole ==
  \A c \in Calls : Orderly(c) => Returned(c, "shell", LAMBDA r :
    stream[r].st = "closed" /\ data[c] = [i \in 1..stream[r].sent |-> <<r, i>>])

(* A push() that returns has waited for the answer of its own service,     *)
(* which has received every record.  One whose service fails earlier does  *)
(* not return: the failure comes where an OKAY is expected, and push()     *)
(* raises, or waits for ever if the failure is of 24 bytes.                *)
PushedWhole ==
  \A c \in Calls : Orderly(c) => Returned(c, "push", LAMBDA r :
    Got(r) >= Records /\ r \notin failed /\ data[c] = << <<r, 1>> >>)

(* get_active_shell_result() returns an unbroken piece of what its own     *)
(* interactive shell wrote, from the second packet to the first that looks *)
(* like a prompt.                                                          *)
ResultIsOwn ==
  \A c \in Calls : Orderly(c) => Returned(c, "active", LAMBDA r :
    \E n \in 2..stream[r].sent :
      /\ data[c] = [i \in 1..n - 1 |-> <<r, i + 1>>]
      /\ \A i \in 2..n : <<r, i>> \in Prompts <=> i = n)

(* A call ends, though nothing has a timeout: none waits for a packet that *)
(* was skipped or never asked for, but for:                                *)
(*  - a further command of an active shell, since the packet that ended    *)
(*    the result of the first was never acknowledged, so that adbd sends   *)
(*    nothing more on that stream;                                         *)
(*  - a command whose shell has ended, or writes nothing that looks like a *)
(*    prompt;                                                              *)
(*  - a push whose service has failed;                                     *)
(*  - get_active_shell_result when the thread was refused its stream or    *)
(*    met a stray payload ("stranded").                                    *)
MayWait ==
  \/ kind[call] = "active" /\
       \/ \E c \in 1..call - 1 : kind[c] = "active" /\ status[c] = "returned"
       \/ \E r \in RemoteIds : stream[r].service = <<call, 0>> /\
            (stream[r].st = "closed" \/ \A i \in 2..MaxChunks : <<r, i>> \notin Prompts)
  \/ kind[call] = "push" /\ \E r \in failed : stream[r].service = <<call, 0>>
CallEnds == pc # "idle" ~> (pc \in {"idle", "stranded"} \/ MayWait)
=============================================================================
