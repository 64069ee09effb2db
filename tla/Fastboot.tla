------------------------------ MODULE Fastboot ------------------------------
(***************************************************************************)
(* adb/fastboot.py: FastbootProtocol (commands, the responses they wait    *)
(* for, the data phase of a download) and FastbootCommands on top of it.   *)
(*                                                                         *)
(* Calls are numbered 1..MaxCalls; the program goes on after a call that   *)
(* raises.  A file is a sequence of units <<n, i>>, n the call that sends  *)
(* it; a command that the bootloader takes for file data is one unit.      *)
(* The bootloader is external and follows fastboot_protocol.txt; a         *)
(* BulkWrite returns when the bootloader has taken the transfer, so that   *)
(* the next one starts only then.                                          *)
(***************************************************************************)
EXTENDS Integers, Sequences

CONSTANTS
  ChunkLen,        \* chunk_kb * 1024
  FileLens,        \* lengths of the files, in characters
  Surpluses,       \* by how much data may be longer than its count
  MaxCalls,        \* bound: calls of the program
  Refuses,         \* whether the bootloader may accept a smaller size
  EarlyTimeouts    \* whether a transfer may time out while it is coming

ASSUME FastbootAssumption ==
  /\ ChunkLen \in Nat \ {0}
  /\ FileLens \subseteq Nat
  /\ Surpluses \subseteq Int
  /\ MaxCalls \in Nat
  /\ Refuses \in BOOLEAN
  /\ EarlyTimeouts \in BOOLEAN

VARIABLES
  pc,              \* where the program stands
  call,            \* the number of the last call
  kind,            \* which call each is
  source_len,      \* HandleDataSending's parameter
  source_file,     \* what is left to read of the file
  length,          \* _Write's local variable
  status,          \* how each call ended
  file,            \* what each call was given to download
  out,             \* the transfer the bootloader has not yet taken
  inp,             \* responses the host has not yet read
  awaited,         \* units the bootloader waits for, 0 outside a data phase
  buffer,          \* what it has downloaded
  flashed,         \* what it has flashed for each call
  okayed           \* the calls it has carried out

hostVars == <<pc, call, kind, source_len, source_file, length, status, file>>
bootVars == <<awaited, buffer, flashed, okayed>>
vars == <<hostVars, out, inp, bootVars>>

Calls == 1..MaxCalls
Kinds == {"download", "flash_from_file", "flash", "erase"}
Statuses == {"none", "returned", "refused", "failed", "mismatch", "invalid", "timeout"}

Unit == Nat \X Nat
File(n, len) == [i \in 1..len |-> <<n, i>>]
Command(name, n, len) == [type |-> name, call |-> n, len |-> len, data |-> << <<0, 0>> >>]
DataTransfer(data) == [type |-> "data", call |-> 0, len |-> 0, data |-> data]
Response(header, size) == [header |-> header, size |-> size]
Headers == {"INFO", "OKAY", "DATA", "FAIL", "BLEH"}

SmallerOf(a, b) == IF a < b THEN a ELSE b
Ends(how) == pc' = "idle" /\ status' = [status EXCEPT ![call] = how]

-----------------------------------------------------------------------------
(* SendCommand; Flash and Erase stand for every _SimpleCommand (getvar,    *)
(* oem, continue and reboot differ in their text only).                    *)
SendCommand(c) == out = <<>> /\ out' = <<c>>

Begin(k, label) ==
  /\ pc = "idle"
  /\ call < MaxCalls
  /\ call' = call + 1
  /\ kind' = [kind EXCEPT ![call + 1] = k]
  /\ pc' = label

SimpleCommand(k) ==
  /\ Begin(k, "simple")
  /\ SendCommand(Command(k, call + 1, 0))
  /\ UNCHANGED <<source_len, source_file, length, status, file, inp, bootVars>>

(* Download sends len + extra units and counts len.  The two differ: for a *)
(* file-like object, the caller gives source_len, or the characters of the *)
(* text are counted and its bytes are sent; for a file name, which is what *)
(* FlashFromFile gives it, the bytes on disk are counted and characters    *)
(* are read, which are no more.  Flash follows once it has returned.       *)
Download(k, len, extra) ==
  /\ len + extra >= 0
  /\ len = 0 => extra = 0
  /\ k = "flash_from_file" => extra <= 0
  /\ Begin(k, "accept_data")
  /\ SendCommand(Command("download", call + 1, len))
  /\ source_len' = len
  /\ source_file' = File(call + 1, len + extra)
  /\ file' = [file EXCEPT ![call + 1] = File(call + 1, len + extra)]
  /\ UNCHANGED <<length, status, inp, bootVars>>

SendFlash ==
  /\ pc = "send_flash"
  /\ SendCommand(Command("flash", call, 0))
  /\ pc' = "simple"
  /\ UNCHANGED <<call, kind, source_len, source_file, length, status, file, inp, bootVars>>

-----------------------------------------------------------------------------
(* _AcceptResponses: INFO goes to the callback; the header that is not     *)
(* expected, FAIL and an unknown header raise.                             *)
Accepting == pc \in {"accept_data", "accept_okay", "simple"} /\ inp # <<>>
Expected == IF pc = "accept_data" THEN "DATA" ELSE "OKAY"
Header == Head(inp).header

(* Mutant of AcceptInfo: INFO is a last response.                          *)
AcceptInfoLast ==
  /\ Accepting
  /\ Header = "INFO"
  /\ inp' = Tail(inp)
  /\ Ends("returned")
  /\ UNCHANGED <<call, kind, source_len, source_file, length, file, out, bootVars>>

AcceptInfo ==
  /\ Accepting
  /\ Header = "INFO"
  /\ inp' = Tail(inp)
  /\ UNCHANGED <<hostVars, out, bootVars>>

(* Mutant of Reject: FAIL after the data is no error.                      *)
RejectNotFail ==
  /\ Accepting
  /\ Header \notin {"INFO", Expected}
  /\ inp' = Tail(inp)
  /\ IF pc = "accept_okay" /\ kind[call] = "flash_from_file" /\ Header = "FAIL"
       THEN pc' = "send_flash" /\ UNCHANGED status
       ELSE Ends("failed")
  /\ UNCHANGED <<call, kind, source_len, source_file, length, file, out, bootVars>>

Reject ==
  /\ Accepting
  /\ Header \notin {"INFO", Expected}
  /\ inp' = Tail(inp)
  /\ Ends(CASE Header = "FAIL" -> "failed"
            [] Header \in {"OKAY", "DATA"} -> "mismatch"
            [] OTHER -> "invalid")
  /\ UNCHANGED <<call, kind, source_len, source_file, length, file, out, bootVars>>

(* Mutant of AcceptData: the accepted size is not compared.                *)
AcceptDataAnySize ==
  /\ Accepting
  /\ pc = "accept_data" /\ Header = "DATA"
  /\ inp' = Tail(inp)
  /\ length' = Head(inp).size
  /\ pc' = IF Head(inp).size = 0 THEN "accept_okay" ELSE "write"
  /\ UNCHANGED <<call, kind, source_len, source_file, status, file, out, bootVars>>

(* HandleDataSending up to _Write: the accepted size must be the one asked *)
(* for.  The bootloader is left waiting for the data it has accepted.      *)
AcceptData ==
  /\ Accepting
  /\ pc = "accept_data" /\ Header = "DATA"
  /\ inp' = Tail(inp)
  /\ IF Head(inp).size # source_len
       THEN Ends("refused") /\ UNCHANGED length
       ELSE /\ length' = Head(inp).size
            /\ pc' = IF Head(inp).size = 0 THEN "accept_okay" ELSE "write"
            /\ UNCHANGED status
  /\ UNCHANGED <<call, kind, source_len, source_file, file, out, bootVars>>

(* _Write: chunks are read and written until length is 0.  At the end of   *)
(* the file read() returns nothing, and nothing is written.                *)
WriteChunk ==
  LET n == SmallerOf(ChunkLen, Len(source_file)) IN
    /\ pc = "write"
    /\ out = <<>>
    /\ out' = << DataTransfer(SubSeq(source_file, 1, n)) >>
    /\ source_file' = SubSeq(source_file, n + 1, Len(source_file))
    /\ length' = length - n
    /\ pc' = IF length' = 0 THEN "accept_okay" ELSE "write"
    /\ UNCHANGED <<call, kind, source_len, status, file, inp, bootVars>>

(* The last response of a download, or of a simple command.                *)
AcceptOkay ==
  /\ Accepting
  /\ pc # "accept_data" /\ Header = "OKAY"
  /\ inp' = Tail(inp)
  /\ IF pc = "accept_okay" /\ kind[call] = "flash_from_file"
       THEN pc' = "send_flash" /\ UNCHANGED status
       ELSE Ends("returned")
  /\ UNCHANGED <<call, kind, source_len, source_file, length, file, out, bootVars>>

-----------------------------------------------------------------------------
(* A read or a write times out, except the read of Flash, whose timeout_ms *)
(* of 0 is no timeout at all.                                              *)
IsFlash == pc = "simple" /\ kind[call] \in {"flash", "flash_from_file"}
Silent == out = <<>> /\ inp = <<>>

(* Mutant of ReadTimeout: no command has a timeout.                        *)
ReadTimeoutNever ==
  /\ pc = "accept_data"
  /\ EarlyTimeouts
  /\ inp = <<>>
  /\ Ends("timeout")
  /\ UNCHANGED <<call, kind, source_len, source_file, length, file, out, inp, bootVars>>

ReadTimeout ==
  /\ pc \in {"accept_data", "accept_okay", "simple"}
  /\ ~IsFlash
  /\ inp = <<>>
  /\ EarlyTimeouts \/ Silent
  /\ Ends("timeout")
  /\ UNCHANGED <<call, kind, source_len, source_file, length, file, out, inp, bootVars>>

WriteTimeout ==
  /\ EarlyTimeouts
  /\ pc = "write"
  /\ Ends("timeout")
  /\ UNCHANGED <<call, kind, source_len, source_file, length, file, out, inp, bootVars>>

Host ==
  \/ \E k \in {"flash", "erase"} : SimpleCommand(k)
  \/ \E k \in {"download", "flash_from_file"}, len \in FileLens, extra \in Surpluses :
       Download(k, len, extra)
  \/ SendFlash
  \/ AcceptInfo
  \/ Reject
  \/ AcceptData
  \/ WriteChunk
  \/ AcceptOkay
  \/ ReadTimeout
  \/ WriteTimeout

-----------------------------------------------------------------------------
(* The bootloader.  It may send INFO before the last response, and answers *)
(* what is no command, or one it cannot carry out, with FAIL.              *)
Transfer == Head(out)
Takes == out # <<>> /\ out' = <<>>
Infos == {<<>>, <<Response("INFO", 0)>>}
Answers(header, size) ==
  \E info \in Infos : inp' = inp \o info \o <<Response(header, size)>>
Fails == \E header \in {"FAIL", "BLEH"} : Answers(header, 0)

BootData ==
  /\ Takes
  /\ awaited > 0
  /\ LET taken == SmallerOf(awaited, Len(Transfer.data)) IN
       /\ awaited' = awaited - taken
       /\ \/ /\ buffer' = buffer \o SubSeq(Transfer.data, 1, taken)
             /\ IF taken = awaited THEN Answers("OKAY", 0) ELSE UNCHANGED inp
          \/ taken = awaited /\ Answers("FAIL", 0) /\ buffer' = <<>>
  /\ UNCHANGED <<hostVars, flashed, okayed>>

BootDownload ==
  /\ Takes
  /\ awaited = 0
  /\ Transfer.type = "download"
  /\ \/ \E size \in (IF Refuses THEN 1..Transfer.len ELSE {}) \cup {Transfer.len} :
          /\ IF size = 0
               THEN \E info \in Infos :
                      inp' = inp \o info \o <<Response("DATA", 0), Response("OKAY", 0)>>
               ELSE Answers("DATA", size)
          /\ awaited' = size
          /\ buffer' = <<>>
     \/ Fails /\ UNCHANGED <<awaited, buffer>>
  /\ UNCHANGED <<hostVars, flashed, okayed>>

BootSimple ==
  /\ Takes
  /\ awaited = 0
  /\ Transfer.type \in {"flash", "erase"}
  /\ \/ /\ Answers("OKAY", 0)
        /\ okayed' = okayed \cup {Transfer.call}
        /\ flashed' = IF Transfer.type = "flash"
                        THEN [flashed EXCEPT ![Transfer.call] = buffer] ELSE flashed
     \/ Fails /\ UNCHANGED <<flashed, okayed>>
     \/ Answers("DATA", 0) /\ UNCHANGED <<flashed, okayed>>
  /\ UNCHANGED <<hostVars, awaited, buffer>>

(* Data outside a data phase: an empty transfer is not noticed.            *)
BootStray ==
  /\ Takes
  /\ awaited = 0
  /\ Transfer.type = "data"
  /\ IF Transfer.data = <<>> THEN UNCHANGED inp ELSE Fails
  /\ UNCHANGED <<hostVars, bootVars>>

Boot ==
  \/ BootData
  \/ BootDownload
  \/ BootSimple
  \/ BootStray

Init ==
  /\ pc = "idle"
  /\ call = 0
  /\ kind = [n \in Calls |-> "none"]
  /\ source_len = 0
  /\ source_file = <<>>
  /\ length = 0
  /\ status = [n \in Calls |-> "none"]
  /\ file = [n \in Calls |-> <<>>]
  /\ out = <<>>
  /\ inp = <<>>
  /\ awaited = 0
  /\ buffer = <<>>
  /\ flashed = [n \in Calls |-> <<>>]
  /\ okayed = {}

Next == Host \/ Boot
Spec == Init /\ [][Next]_vars

(* The program goes on, and the bootloader takes what it is sent.          *)
FairSpec == Spec /\ WF_vars(Host) /\ WF_vars(Boot)

-----------------------------------------------------------------------------
(* Type correctness of the host and of the bootloader; above all, _Write   *)
(* never counts below 0, but for data longer than its count.               *)
TypeOK ==
  /\ pc \in {"idle", "accept_data", "write", "accept_okay", "send_flash", "simple"}
  /\ call \in 0..MaxCalls
  /\ kind \in [Calls -> Kinds \cup {"none"}]
  /\ source_len \in Nat
  /\ source_file \in Seq(Unit)
  /\ length \in Int
  /\ pc = "write" /\ length < 0 => source_len < Len(file[call])
  /\ status \in [Calls -> Statuses]
  /\ file \in [Calls -> Seq(Unit)]
  /\ \A i \in 1..Len(inp) : inp[i].header \in Headers
  /\ awaited \in Nat
  /\ buffer \in Seq(Unit)
  /\ flashed \in [Calls -> Seq(Unit)]
  /\ okayed \subseteq Calls

(* How the calls before the n-th ended.                                    *)
NoneBefore(n, ends) == \A m \in 1..(n - 1) : status[m] \notin ends

(* "Flashes a partition from the file on disk" (the docstring of           *)
(* FlashFromFile): when it returns, the partition holds that file, whole   *)
(* and in order, even when the bootloader is still in the data phase of a  *)
(* call before it.  Only the late DATA of a download that timed out may be *)
(* taken for its own.                                                      *)
FlashedIsFile ==
  \A n \in Calls :
    kind[n] = "flash_from_file" /\ status[n] = "returned" /\ NoneBefore(n, {"timeout"})
      => flashed[n] = file[n]

(* Flash is only sent once the whole file is written, even when answers    *)
(* come late or the bootloader asks for less (FlashFromFile, _Write).      *)
WrittenBeforeFlash == pc = "send_flash" => source_file = <<>> /\ length = 0

(* A simple command that returns was carried out by the bootloader: the    *)
(* OKAY it took is not that of an earlier call (_AcceptResponses reading   *)
(* up to a last response, never past it and never less), if no call before *)
(* it timed out or left the bootloader waiting for data, in which case the *)
(* bootloader may say OKAY to a command it has taken for a file.           *)
OkayIsOwn ==
  \A n \in Calls :
    kind[n] # "download" /\ status[n] = "returned" /\ NoneBefore(n, {"timeout", "refused"})
      => n \in okayed

(* A call returns or raises, with two exceptions: Flash, which has no      *)
(* timeout, may wait for a bootloader that has taken its command for the   *)
(* data of a download which HandleDataSending has given up; and _Write     *)
(* writes empty chunks forever once the data has ended and its count has   *)
(* not come out at 0, be the data shorter than the count or longer.        *)
SwallowedFlash == IsFlash /\ Silent /\ awaited > 0
DataEnded == pc = "write" /\ source_file = <<>>
CallEnds == pc # "idle" ~> (pc = "idle" \/ SwallowedFlash \/ DataEnded)
=============================================================================
