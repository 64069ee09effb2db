--------------------------- MODULE FastbootProofs ---------------------------
(***************************************************************************)
(* Proofs about adb/fastboot.py, for files and chunks of any length, any   *)
(* number of calls and whatever the bootloader answers: Flash is only sent *)
(* when the whole file has been; what is flashed is the file that the call *)
(* was given; and the OKAY that a call takes is its own.                   *)
(***************************************************************************)
EXTENDS Fastboot, TLAPS, SequenceTheorems

-----------------------------------------------------------------------------
HostType ==
  /\ call \in 0..MaxCalls
  /\ kind \in [Calls -> Kinds \cup {"none"}]
  /\ source_len \in Nat
  /\ source_file \in Seq(Unit)
  /\ length \in Int

(* What is left to write of a file on disk is no more than what is left to *)
(* count: the command asked for at least its length, and only that answer  *)
(* is taken.                                                               *)
Counted ==
  kind[call] = "flash_from_file" =>
    /\ pc = "accept_data" => Len(source_file) <= source_len
    /\ pc = "write" => Len(source_file) <= length
    /\ pc \in {"accept_okay", "send_flash"} => source_file = <<>> /\ length = 0

FlashInv ==
  /\ HostType
  /\ Counted
  /\ pc = "send_flash" => kind[call] = "flash_from_file"

-----------------------------------------------------------------------------
(* The pieces a file is read in.                                           *)
LEMMA FileLen ==
  ASSUME NEW n \in Nat, NEW len \in Nat
  PROVE  File(n, len) \in Seq(Unit) /\ Len(File(n, len)) = len
BY DEF File, Unit

LEMMA RestOfFile ==
  ASSUME NEW s \in Seq(Unit), NEW n \in Nat, n <= Len(s)
  PROVE  /\ SubSeq(s, n + 1, Len(s)) \in Seq(Unit)
         /\ Len(SubSeq(s, n + 1, Len(s))) = Len(s) - n
OBVIOUS

LEMMA EmptyFile ==
  ASSUME NEW s \in Seq(Unit)
  PROVE  Len(s) \in Nat /\ (Len(s) = 0 => s = <<>>)
OBVIOUS

LEMMA FlashInvInit == Init => FlashInv
<1> SUFFICES ASSUME Init PROVE FlashInv OBVIOUS
<1> USE FastbootAssumption DEF Init
<1>1. <<>> \in Seq(Unit) OBVIOUS
<1>2. kind \in [Calls -> Kinds \cup {"none"}] OBVIOUS
<1>3. HostType BY <1>1, <1>2 DEF HostType
<1> QED BY <1>3 DEF FlashInv, Counted

(* A call that begins is the one its kind is noted for.                    *)
LEMMA BeginCall ==
  ASSUME HostType, NEW k \in Kinds, NEW label, Begin(k, label)
  PROVE  /\ call' \in 0..MaxCalls /\ call + 1 \in Nat
         /\ kind' \in [Calls -> Kinds \cup {"none"}]
         /\ kind'[call'] = k
<1> USE FastbootAssumption
<1>1. call + 1 \in Calls /\ call' = call + 1 /\ call' \in 0..MaxCalls /\ call + 1 \in Nat
  BY DEF Begin, HostType, Calls
<1> QED BY <1>1 DEF Begin, HostType

LEMMA FlashInvStep == FlashInv /\ [Next]_vars => FlashInv'
<1> SUFFICES ASSUME FlashInv, [Next]_vars PROVE FlashInv' OBVIOUS
<1> USE FastbootAssumption
<1>1. ASSUME NEW k \in {"flash", "erase"}, SimpleCommand(k) PROVE FlashInv'
  <2>1. Begin(k, "simple") /\ k \in Kinds /\ UNCHANGED <<source_len, source_file, length>>
    BY <1>1 DEF SimpleCommand, Kinds
  <2>2. HostType' BY <2>1, BeginCall DEF FlashInv, HostType
  <2> QED BY <2>1, <2>2 DEF FlashInv, Counted, Begin
<1>2. ASSUME NEW k \in {"download", "flash_from_file"}, NEW len \in FileLens,
             NEW extra \in Surpluses, Download(k, len, extra)
      PROVE  FlashInv'
  <2>1. /\ Begin(k, "accept_data") /\ k \in Kinds /\ len \in Nat /\ len + extra \in Nat
        /\ source_len' = len /\ source_file' = File(call + 1, len + extra)
        /\ k = "flash_from_file" => len + extra <= len
        /\ UNCHANGED length
    BY <1>2 DEF Download, Kinds
  <2>2. /\ call' \in 0..MaxCalls /\ call + 1 \in Nat
        /\ kind' \in [Calls -> Kinds \cup {"none"}]
        /\ kind'[call'] = k
    BY <2>1, BeginCall DEF FlashInv
  <2>3. source_file' \in Seq(Unit) /\ Len(source_file') = len + extra
    BY <2>1, <2>2, FileLen
  <2>4. HostType' BY <2>1, <2>2, <2>3 DEF FlashInv, HostType
  <2>5. pc' = "accept_data" BY <2>1 DEF Begin
  <2> QED BY <2>1, <2>2, <2>3, <2>4, <2>5 DEF FlashInv, Counted
<1>3. CASE SendFlash
  BY <1>3 DEF SendFlash, FlashInv, HostType, Counted
<1>4. CASE AcceptInfo
  BY <1>4 DEF AcceptInfo, hostVars, FlashInv, HostType, Counted
<1>5. CASE Reject
  BY <1>5 DEF Reject, Ends, FlashInv, HostType, Counted
<1>6. CASE AcceptData
  <2>1. pc = "accept_data" /\ UNCHANGED <<call, kind, source_len, source_file>>
    BY <1>6 DEF AcceptData
  <2>2. CASE Head(inp).size # source_len
    BY <1>6, <2>1, <2>2 DEF AcceptData, Ends, FlashInv, HostType, Counted
  <2>3. CASE Head(inp).size = source_len
    <3>1. /\ length' = source_len
          /\ pc' = IF source_len = 0 THEN "accept_okay" ELSE "write"
      BY <1>6, <2>3 DEF AcceptData
    <3>2. HostType' BY <2>1, <3>1 DEF FlashInv, HostType
    <3>3. source_len = 0 /\ kind[call] = "flash_from_file" => source_file = <<>>
      BY <2>1, EmptyFile DEF FlashInv, HostType, Counted
    <3> QED BY <2>1, <3>1, <3>2, <3>3 DEF FlashInv, Counted
  <2> QED BY <2>2, <2>3
<1>7. CASE WriteChunk
  <2> DEFINE n == SmallerOf(ChunkLen, Len(source_file))
  <2>1. /\ pc = "write" /\ length' = length - n
        /\ source_file' = SubSeq(source_file, n + 1, Len(source_file))
        /\ pc' = IF length' = 0 THEN "accept_okay" ELSE "write"
        /\ UNCHANGED <<call, kind, source_len>>
    BY <1>7 DEF WriteChunk
  <2>2. source_file \in Seq(Unit) /\ length \in Int /\ Len(source_file) \in Nat
    BY EmptyFile DEF FlashInv, HostType
  <2>3. n \in Nat /\ n <= Len(source_file) BY <2>2 DEF SmallerOf
  <2> HIDE DEF n
  <2>4. source_file' \in Seq(Unit) /\ Len(source_file') = Len(source_file) - n
    BY <2>1, <2>2, <2>3, RestOfFile
  <2>5. HostType' BY <2>1, <2>2, <2>3, <2>4 DEF FlashInv, HostType
  <2>6. kind[call] = "flash_from_file" => Len(source_file') <= length'
    BY <2>1, <2>2, <2>3, <2>4 DEF FlashInv, Counted
  <2>7. Len(source_file') <= 0 => source_file' = <<>> BY <2>4, EmptyFile
  <2> QED BY <2>1, <2>5, <2>6, <2>7 DEF FlashInv, Counted
<1>8. CASE AcceptOkay
  BY <1>8 DEF AcceptOkay, Accepting, Ends, FlashInv, HostType, Counted
<1>9. CASE ReadTimeout \/ WriteTimeout
  BY <1>9 DEF ReadTimeout, WriteTimeout, Ends, FlashInv, HostType, Counted
<1>10. CASE Boot
  BY <1>10 DEF Boot, BootData, BootDownload, BootSimple, BootStray, hostVars,
               FlashInv, HostType, Counted
<1>11. CASE UNCHANGED vars
  BY <1>11 DEF vars, hostVars, FlashInv, HostType, Counted
<1> QED BY <1>1, <1>2, <1>3, <1>4, <1>5, <1>6, <1>7, <1>8, <1>9, <1>10, <1>11 DEF Next, Host

(* Flash is only sent once the whole file is written, for every file and   *)
(* every bootloader.                                                       *)
THEOREM AlwaysWrittenBeforeFlash == Spec => []WrittenBeforeFlash
<1>1. FlashInv => WrittenBeforeFlash BY DEF FlashInv, Counted, WrittenBeforeFlash
<1> QED BY FlashInvInit, FlashInvStep, <1>1, PTL DEF Spec

-----------------------------------------------------------------------------
(* The transfer to the bootloader and its answers.                         *)
Transfers == [type : {"download", "flash", "erase", "data"}, call : 0..MaxCalls,
              len : Nat, data : Seq(Unit)]
Responses == [header : Headers, size : Nat]
Answered(header, size) ==
  inp \in {<<Response(header, size)>>, <<Response("INFO", 0), Response(header, size)>>}
AnsweredEmpty ==
  inp \in {<<Response("DATA", 0), Response("OKAY", 0)>>,
           <<Response("INFO", 0), Response("DATA", 0), Response("OKAY", 0)>>}
Pending == IF out = <<>> THEN <<>> ELSE Transfer.data
Sending(type) == out # <<>> /\ Transfer.type = type

(* Types, and what the host counts whatever the bootloader answers.        *)
FastbootType ==
  /\ TypeOK
  /\ inp \in Seq(Responses)
  /\ out # <<>> => out = <<Transfer>> /\ Transfer \in Transfers
  /\ Sending("flash") \/ Sending("erase") => Transfer.call \in Calls
  /\ pc # "idle" => call \in Calls /\ status[call] = "none"
  /\ \A n \in Calls : n > call => status[n] = "none"
  /\ pc \in {"accept_data", "write", "accept_okay"} => kind[call] \in {"download", "flash_from_file"}
  /\ pc \in {"send_flash", "simple"} => kind[call] # "download"
  /\ pc = "accept_data" => Len(file[call]) = Len(source_file)
  /\ pc = "write" => length # 0 /\ Len(file[call]) - Len(source_file) = source_len - length

(* Until a call times out, each phase of a call leaves the bootloader and  *)
(* the two pipes in a state that the next phase knows.                     *)
Clean == NoneBefore(call + 1, {"timeout"})
Refused == ~NoneBefore(call + 1, {"refused"})
FromFile == kind[call] = "flash_from_file"

IdlePhase ==
  pc = "idle" => out = <<>> /\ inp = <<>> /\ (awaited > 0 => Refused)
AskPhase ==
  pc = "accept_data" =>
    /\ FromFile => file[call] = source_file
    /\ \/ out = <<Command("download", call, source_len)>> /\ inp = <<>>
       \/ out = <<>> /\ inp = <<>>
       \/ out = <<>> /\ awaited > 0 /\ Answered("DATA", awaited) /\ buffer = <<>>
       \/ out = <<>> /\ awaited = 0 /\ source_len = 0 /\ AnsweredEmpty /\ buffer = <<>>
       \/ out = <<>> /\ awaited = 0 /\ \E h \in {"OKAY", "FAIL", "BLEH"} : Answered(h, 0)
WritePhase ==
  pc = "write" /\ length > 0 =>
    /\ inp = <<>>
    /\ out # <<>> => Transfer.type = "data"
    /\ awaited = length + Len(Pending)
    /\ FromFile => file[call] = (buffer \o Pending) \o source_file
OkayPhase ==
  pc = "accept_okay" =>
    \/ /\ Sending("data") /\ inp = <<>>
       /\ awaited = Len(Pending) /\ awaited > 0
       /\ FromFile => file[call] = buffer \o Pending
    \/ /\ out = <<>> /\ awaited = 0
       /\ \E h \in {"OKAY", "FAIL"} :
            Answered(h, 0) /\ (h = "OKAY" /\ FromFile => file[call] = buffer)
FlashPhase ==
  pc = "send_flash" => out = <<>> /\ inp = <<>> /\ awaited = 0 /\ file[call] = buffer
SimplePhase ==
  pc = "simple" =>
    \/ /\ \E name \in {"flash", "erase"} :
            out = <<Command(name, call, 0)>> /\ (FromFile => name = "flash")
       /\ inp = <<>>
       /\ FromFile => awaited = 0 /\ file[call] = buffer
       /\ awaited > 0 => Refused
    \/ out = <<>> /\ inp = <<>>
    \/ /\ out = <<>> /\ awaited = 0
       /\ \E h \in Headers \ {"INFO"} :
            /\ Answered(h, 0)
            /\ h = "OKAY" => /\ FromFile => flashed[call] = file[call]
                             /\ call \in okayed \/ Refused
Phases ==
  Clean => IdlePhase /\ AskPhase /\ WritePhase /\ OkayPhase /\ FlashPhase /\ SimplePhase

(* A command still on its way after its call has returned was overtaken by *)
(* the late answer of a call that timed out.                               *)
Overtaken ==
  Sending("flash") \/ Sending("erase") =>
    (status[Transfer.call] = "returned" => ~NoneBefore(Transfer.call, {"timeout"}))

FastbootInv ==
  /\ FastbootType
  /\ FlashInv
  /\ Phases
  /\ Overtaken
  /\ FlashedIsFile
  /\ OkayIsOwn

-----------------------------------------------------------------------------
(* The answers of the bootloader, and how the host takes them.             *)
LEMMA ResponseType ==
  ASSUME NEW h \in Headers, NEW size \in Nat
  PROVE  /\ Response(h, size) \in Responses
         /\ Response(h, size).header = h /\ Response(h, size).size = size
BY DEF Response, Responses

LEMMA HeadersOf ==
  ASSUME NEW s \in Seq(Responses)
  PROVE  /\ \A i \in 1..Len(s) : s[i].header \in Headers
         /\ s # <<>> => /\ Head(s) \in Responses /\ Head(s).header \in Headers
                        /\ Head(s).size \in Nat /\ Tail(s) \in Seq(Responses)
<1>1. \A i \in 1..Len(s) : s[i] \in Responses
  BY ElementOfSeq
<1>2. s # <<>> => Head(s) \in Responses /\ Tail(s) \in Seq(Responses)
  BY HeadTailProperties
<1> QED BY <1>1, <1>2 DEF Responses

LEMMA Pair ==
  ASSUME NEW S, NEW a \in S, NEW b \in S
  PROVE  /\ <<a>> \in Seq(S) /\ <<a, b>> \in Seq(S)
         /\ <<a>> # <<>> /\ Head(<<a>>) = a /\ Tail(<<a>>) = <<>>
         /\ <<a, b>> # <<>> /\ Head(<<a, b>>) = a /\ Tail(<<a, b>>) = <<b>>
         /\ (<<>> \o <<>>) \o <<a>> = <<a>>
         /\ (<<>> \o <<a>>) \o <<b>> = <<a, b>>
<1>1. /\ <<a>> \in Seq(S) /\ <<b>> \in Seq(S) /\ <<a, b>> \in Seq(S) /\ <<>> \in Seq(S)
      /\ <<a>> # <<>> /\ Head(<<a>>) = a /\ Tail(<<a>>) = <<>>
      /\ <<a, b>> # <<>> /\ Head(<<a, b>>) = a /\ Tail(<<a, b>>) = <<b>>
  OBVIOUS
<1>2. <<>> \o <<>> = <<>> /\ <<>> \o <<a>> = <<a>>
  BY <1>1, ConcatEmptySeq
<1>3. Append(<<a>>, b) = <<a, b>>
  <2>1. /\ Append(<<a>>, b) \in Seq(S) /\ Len(Append(<<a>>, b)) = 2
        /\ Append(<<a>>, b)[1] = a /\ Append(<<a>>, b)[2] = b
    OBVIOUS
  <2>2. Len(<<a, b>>) = 2 /\ <<a, b>>[1] = a /\ <<a, b>>[2] = b
    OBVIOUS
  <2>3. \A i \in 1..2 : Append(<<a>>, b)[i] = <<a, b>>[i]
    BY <2>1, <2>2
  <2> QED BY <1>1, <2>1, <2>2, <2>3, SeqEqual
<1>4. <<a>> \o <<b>> = <<a, b>>
  BY <1>1, <1>3, AppendIsConcat
<1> QED BY <1>1, <1>2, <1>4

LEMMA AnswersType ==
  ASSUME inp \in Seq(Responses), NEW h \in Headers, NEW size \in Nat, Answers(h, size)
  PROVE  /\ inp' \in Seq(Responses)
         /\ inp = <<>> => Answered(h, size)'
<1>1. Response(h, size) \in Responses /\ Response("INFO", 0) \in Responses
  BY ResponseType DEF Headers
<1>2. PICK info \in Infos : inp' = (inp \o info) \o <<Response(h, size)>>
  BY DEF Answers
<1>3. info \in Seq(Responses) /\ <<Response(h, size)>> \in Seq(Responses)
  <2>1. <<>> \in Seq(Responses) /\ \A r \in Responses : <<r>> \in Seq(Responses)
    OBVIOUS
  <2>2. info = <<>> \/ info = <<Response("INFO", 0)>>
    BY <1>2 DEF Infos
  <2> QED BY <1>1, <2>1, <2>2
<1>4. inp \o info \in Seq(Responses)
  BY <1>3, ConcatProperties
<1>5. inp' \in Seq(Responses)
  BY <1>2, <1>3, <1>4, ConcatProperties
<1>6. ASSUME inp = <<>> PROVE Answered(h, size)'
  <2>1. CASE info = <<>>
    BY <1>1, <1>2, <1>6, <2>1, Pair DEF Answered
  <2>2. CASE info = <<Response("INFO", 0)>>
    BY <1>1, <1>2, <1>6, <2>2, Pair DEF Answered
  <2> QED BY <1>2, <2>1, <2>2 DEF Infos
<1> QED BY <1>5, <1>6

LEMMA HeadAnswered ==
  ASSUME NEW h \in Headers \ {"INFO"}, NEW size \in Nat, Answered(h, size)
  PROVE  /\ inp # <<>>
         /\ Header = "INFO" => Tail(inp) = <<Response(h, size)>>
         /\ Header # "INFO" => Header = h /\ Head(inp).size = size /\ Tail(inp) = <<>>
<1>1. /\ Response(h, size) \in Responses /\ Response("INFO", 0) \in Responses
      /\ Response(h, size).header = h /\ Response(h, size).size = size
      /\ Response("INFO", 0).header = "INFO"
  BY ResponseType DEF Headers
<1>2. CASE inp = <<Response(h, size)>>
  BY <1>1, <1>2, Pair DEF Header
<1>3. CASE inp = <<Response("INFO", 0), Response(h, size)>>
  BY <1>1, <1>3, Pair DEF Header
<1> QED BY <1>2, <1>3 DEF Answered

LEMMA HeadAnsweredEmpty ==
  ASSUME AnsweredEmpty
  PROVE  /\ inp # <<>>
         /\ Header = "INFO" => Tail(inp) = <<Response("DATA", 0), Response("OKAY", 0)>>
         /\ Header # "INFO" => /\ Header = "DATA" /\ Head(inp).size = 0
                               /\ Tail(inp) = <<Response("OKAY", 0)>>
<1> DEFINE i == Response("INFO", 0)
           d == Response("DATA", 0)
           o == Response("OKAY", 0)
<1>1. /\ i.header = "INFO" /\ d.header = "DATA" /\ d.size = 0
  BY DEF Response
<1> HIDE DEF i, d, o
<1>2. /\ <<d, o>> # <<>> /\ Head(<<d, o>>) = d /\ Tail(<<d, o>>) = <<o>>
      /\ <<i, d, o>> # <<>> /\ Head(<<i, d, o>>) = i /\ Tail(<<i, d, o>>) = <<d, o>>
  OBVIOUS
<1>3. inp = <<d, o>> \/ inp = <<i, d, o>>
  BY DEF AnsweredEmpty, i, d, o
<1>4. CASE inp = <<d, o>>
  BY <1>1, <1>2, <1>4 DEF Header, d, o
<1>5. CASE inp = <<i, d, o>>
  BY <1>1, <1>2, <1>5 DEF Header, d, o
<1> QED BY <1>3, <1>4, <1>5

-----------------------------------------------------------------------------
(* A call that ends.                                                       *)
LEMMA EndsStatus ==
  ASSUME FastbootType, pc # "idle", NEW how \in Statuses, Ends(how), call' = call
  PROVE  /\ pc' = "idle" /\ call \in Calls /\ status[call] = "none"
         /\ status' \in [Calls -> Statuses] /\ status'[call] = how
         /\ \A n \in Calls : n # call => status'[n] = status[n]
         /\ Clean' <=> Clean /\ how # "timeout"
         /\ Refused' <=> Refused \/ how = "refused"
<1>1. /\ pc' = "idle" /\ call \in Calls /\ status[call] = "none"
      /\ status' = [status EXCEPT ![call] = how] /\ status \in [Calls -> Statuses]
      /\ call \in Int /\ Calls = 1..MaxCalls /\ MaxCalls \in Nat
  BY FastbootAssumption DEF FastbootType, TypeOK, Ends, Calls
<1>2. /\ status' \in [Calls -> Statuses] /\ status'[call] = how
      /\ \A n \in Calls : n # call => status'[n] = status[n]
  BY <1>1
<1>3. \A m \in 1..(call + 1 - 1) : m \in Calls /\ (m = call \/ m # call)
  BY <1>1
<1>4. call \in 1..(call + 1 - 1)
  BY <1>1
<1>5. Clean' <=> Clean /\ how # "timeout"
  BY <1>1, <1>2, <1>3, <1>4 DEF Clean, NoneBefore
<1>6. Refused' <=> Refused \/ how = "refused"
  BY <1>1, <1>2, <1>3, <1>4 DEF Refused, NoneBefore
<1> QED BY <1>1, <1>2, <1>5, <1>6

LEMMA EndedKeeps ==
  ASSUME FastbootInv, pc # "idle", NEW how \in Statuses, Ends(how),
         UNCHANGED <<call, kind, source_len, source_file, length, file, out, bootVars>>,
         inp' \in Seq(Responses),
         Clean /\ how # "timeout" =>
           /\ out = <<>> /\ inp' = <<>>
           /\ awaited > 0 => Refused \/ how = "refused",
         Clean /\ how = "returned" =>
           /\ FromFile => flashed[call] = file[call]
           /\ kind[call] # "download" => call \in okayed \/ Refused
  PROVE  FastbootType' /\ Phases' /\ Overtaken' /\ FlashedIsFile' /\ OkayIsOwn'
<1>0. FastbootType /\ Overtaken /\ FlashedIsFile /\ OkayIsOwn
  BY DEF FastbootInv
<1>1. /\ pc' = "idle" /\ call \in Calls /\ status[call] = "none"
      /\ status' \in [Calls -> Statuses] /\ status'[call] = how
      /\ \A n \in Calls : n # call => status'[n] = status[n]
      /\ Clean' <=> Clean /\ how # "timeout"
      /\ Refused' <=> Refused \/ how = "refused"
  BY <1>0, EndsStatus
<1>2. UNCHANGED <<awaited, buffer, flashed, okayed>>
  BY DEF bootVars
<1>3. call \in Int /\ Calls = 1..MaxCalls /\ MaxCalls \in Nat
  BY <1>1, FastbootAssumption DEF Calls
<1>4. FastbootType'
  <2>1. TypeOK'
    <3>1. \A i \in 1..Len(inp') : inp'[i].header \in Headers
      BY HeadersOf
    <3> QED BY <1>0, <1>1, <1>2, <3>1 DEF FastbootType, TypeOK
  <2>2. \A c : Sending(c)' <=> Sending(c)
    BY DEF Sending, Transfer
  <2>3. \A n \in Calls : n > call => status'[n] = "none"
    BY <1>0, <1>1, <1>3 DEF FastbootType
  <2> QED BY <1>0, <1>1, <1>2, <2>1, <2>2, <2>3 DEF FastbootType, Transfer
<1>5. Phases'
  BY <1>1, <1>2 DEF Phases, IdlePhase, AskPhase, WritePhase, OkayPhase, FlashPhase, SimplePhase
<1>6. ASSUME NEW n \in Calls, NEW ends, "none" \notin ends, NoneBefore(n, ends)'
      PROVE  NoneBefore(n, ends)
  <2>1. \A m \in 1..(n - 1) : m \in Calls
    BY <1>3
  <2> QED BY <1>1, <1>6, <2>1 DEF NoneBefore
<1>7. FlashedIsFile'
  <2>1. ASSUME NEW n \in Calls, kind[n] = "flash_from_file", status'[n] = "returned",
               NoneBefore(n, {"timeout"})'
        PROVE  flashed[n] = file[n]
    <3>1. NoneBefore(n, {"timeout"})
      BY <1>6, <2>1
    <3>2. CASE n # call
      BY <1>0, <1>1, <2>1, <3>1, <3>2 DEF FlashedIsFile
    <3>3. CASE n = call
      <4>1. Clean
        <5>1. \A m \in 1..(call + 1 - 1) : m \in 1..(call - 1) \/ m = call
          BY <1>3
        <5> QED BY <1>1, <3>1, <3>3, <5>1 DEF Clean, NoneBefore
      <4> QED BY <1>1, <2>1, <3>3, <4>1 DEF FromFile
    <3> QED BY <3>2, <3>3
  <2> QED BY <1>2, <2>1 DEF FlashedIsFile
<1>8. OkayIsOwn'
  <2>1. ASSUME NEW n \in Calls, kind[n] # "download", status'[n] = "returned",
               NoneBefore(n, {"timeout", "refused"})'
        PROVE  n \in okayed
    <3>1. NoneBefore(n, {"timeout", "refused"})
      BY <1>6, <2>1
    <3>2. CASE n # call
      BY <1>0, <1>1, <2>1, <3>1, <3>2 DEF OkayIsOwn
    <3>3. CASE n = call
      <4>1. Clean /\ ~Refused
        <5>1. \A m \in 1..(call + 1 - 1) : m \in 1..(call - 1) \/ m = call
          BY <1>3
        <5> QED BY <1>1, <3>1, <3>3, <5>1, SMTT(40) DEF Clean, Refused, NoneBefore
      <4> QED BY <1>1, <2>1, <3>3, <4>1
    <3> QED BY <3>2, <3>3
  <2> QED BY <1>2, <2>1 DEF OkayIsOwn
<1>9. Overtaken'
  <2>1. Transfer' = Transfer /\ \A c : Sending(c)' <=> Sending(c)
    BY DEF Sending, Transfer
  <2>2. SUFFICES ASSUME Sending("flash") \/ Sending("erase"), status'[Transfer.call] = "returned",
                        NoneBefore(Transfer.call, {"timeout"})'
                 PROVE  FALSE
    BY <2>1 DEF Overtaken
  <2>3. Transfer.call \in Calls
    BY <1>0, <2>2 DEF FastbootType
  <2>4. NoneBefore(Transfer.call, {"timeout"})
    <3>1. PICK n \in Calls : n = Transfer.call
      BY <2>3
    <3>2. NoneBefore(n, {"timeout"})'
      BY <2>1, <2>2, <3>1 DEF NoneBefore
    <3>3. NoneBefore(n, {"timeout"})
      BY <1>6, <3>2
    <3> QED BY <3>1, <3>3
  <2>5. CASE Transfer.call # call
    BY <1>0, <1>1, <2>2, <2>3, <2>4, <2>5 DEF Overtaken
  <2>6. CASE Transfer.call = call
    <3>1. Clean
      <4>1. \A m \in 1..(call + 1 - 1) : m \in 1..(call - 1) \/ m = call
        BY <1>3
      <4> QED BY <1>1, <2>4, <2>6, <4>1 DEF Clean, NoneBefore
    <3> QED BY <1>1, <2>2, <2>6, <3>1 DEF Sending
  <2> QED BY <2>5, <2>6
<1> QED BY <1>4, <1>5, <1>7, <1>8, <1>9

LEMMA InpTail ==
  ASSUME FastbootType, inp # <<>>
  PROVE  Head(inp).size \in Nat /\ Header \in Headers /\ Tail(inp) \in Seq(Responses)
BY HeadersOf DEF FastbootType, Header

LEMMA RejectKeeps ==
  ASSUME FastbootInv, Reject
  PROVE  FastbootType' /\ Phases' /\ Overtaken' /\ FlashedIsFile' /\ OkayIsOwn'
<1>1. /\ pc \in {"accept_data", "accept_okay", "simple"} /\ inp # <<>>
      /\ Header \notin {"INFO", Expected} /\ inp' = Tail(inp)
      /\ UNCHANGED <<call, kind, source_len, source_file, length, file, out, bootVars>>
  BY DEF Reject, Accepting
<1>2. PICK how \in {"failed", "mismatch", "invalid"} : Ends(how)
  <2>1. Ends("failed") \/ Ends("mismatch") \/ Ends("invalid")
    BY DEF Reject
  <2> QED BY <2>1
<1>3. inp' \in Seq(Responses)
  BY <1>1, InpTail DEF FastbootInv
<1>4. Clean => out = <<>> /\ inp' = <<>> /\ awaited = 0
  <2> SUFFICES ASSUME Clean PROVE out = <<>> /\ inp' = <<>> /\ awaited = 0
    OBVIOUS
  <2>1. AskPhase /\ OkayPhase /\ SimplePhase
    BY DEF FastbootInv, Phases
  <2>2. CASE pc = "accept_data"
    <3>1. Expected = "DATA"
      BY <2>2 DEF Expected
    <3>2. \/ out = <<>> /\ awaited > 0 /\ Answered("DATA", awaited)
          \/ out = <<>> /\ AnsweredEmpty
          \/ out = <<>> /\ awaited = 0 /\ \E h \in {"OKAY", "FAIL", "BLEH"} : Answered(h, 0)
      BY <1>1, <2>1, <2>2 DEF AskPhase
    <3>3. ~AnsweredEmpty
      BY <1>1, <3>1, HeadAnsweredEmpty
    <3>4. ~Answered("DATA", awaited)
      <4>1. awaited \in Nat
        BY DEF FastbootInv, FastbootType, TypeOK
      <4> QED BY <1>1, <3>1, <4>1, HeadAnswered DEF Headers
    <3> QED BY <1>1, <3>2, <3>3, <3>4, HeadAnswered DEF Headers
  <2>3. CASE pc = "accept_okay"
    <3>1. out = <<>> /\ awaited = 0 /\ \E h \in {"OKAY", "FAIL"} : Answered(h, 0)
      BY <1>1, <2>1, <2>3 DEF OkayPhase
    <3> QED BY <1>1, <3>1, HeadAnswered DEF Headers
  <2>4. CASE pc = "simple"
    <3>1. out = <<>> /\ awaited = 0 /\ \E h \in Headers \ {"INFO"} : Answered(h, 0)
      BY <1>1, <2>1, <2>4 DEF SimplePhase
    <3> QED BY <1>1, <3>1, HeadAnswered
  <2> QED BY <1>1, <2>2, <2>3, <2>4
<1>5. how \in Statuses /\ how # "returned" /\ how # "timeout" /\ pc # "idle"
  BY <1>1, <1>2 DEF Statuses
<1> QED BY <1>1, <1>2, <1>3, <1>4, <1>5, EndedKeeps

LEMMA TimeoutKeeps ==
  ASSUME FastbootInv, ReadTimeout \/ WriteTimeout
  PROVE  FastbootType' /\ Phases' /\ Overtaken' /\ FlashedIsFile' /\ OkayIsOwn'
<1>1. /\ pc # "idle" /\ Ends("timeout") /\ inp' = inp /\ "timeout" \in Statuses
      /\ UNCHANGED <<call, kind, source_len, source_file, length, file, out, bootVars>>
  BY DEF ReadTimeout, WriteTimeout, Statuses
<1>2. inp' \in Seq(Responses)
  BY <1>1 DEF FastbootInv, FastbootType
<1> QED BY <1>1, <1>2, EndedKeeps

-----------------------------------------------------------------------------
(* A call that goes on.                                                    *)
LEMMA CallsKept ==
  ASSUME FastbootInv, UNCHANGED <<status, flashed, okayed>>,
         \A n \in Calls : status[n] # "none" => kind'[n] = kind[n] /\ file'[n] = file[n]
  PROVE  FlashedIsFile' /\ OkayIsOwn'
<1>1. \A n, ends : NoneBefore(n, ends)' <=> NoneBefore(n, ends)
  BY DEF NoneBefore
<1> QED BY <1>1 DEF FastbootInv, FlashedIsFile, OkayIsOwn

LEMMA SameCall ==
  ASSUME UNCHANGED <<call, status, kind>>
  PROVE  (Clean' <=> Clean) /\ (Refused' <=> Refused) /\ (FromFile' <=> FromFile)
BY DEF Clean, Refused, NoneBefore, FromFile

LEMMA OvertakenKept ==
  ASSUME FastbootInv, status' = status, out' = out \/ out' = <<>>
  PROVE  Overtaken'
<1>1. \A n, ends : NoneBefore(n, ends)' <=> NoneBefore(n, ends)
  BY DEF NoneBefore
<1>2. CASE out' = <<>>
  BY <1>2 DEF Overtaken, Sending
<1>3. CASE out' = out
  <2>1. Transfer' = Transfer /\ \A c : Sending(c)' <=> Sending(c)
    BY <1>3 DEF Transfer, Sending
  <2>2. NoneBefore(Transfer.call, {"timeout"})' <=> NoneBefore(Transfer.call, {"timeout"})
    BY <2>1 DEF NoneBefore
  <2> QED BY <2>1, <2>2 DEF FastbootInv, Overtaken
<1> QED BY <1>2, <1>3

LEMMA AcceptInfoKeeps ==
  ASSUME FastbootInv, AcceptInfo
  PROVE  FastbootType' /\ Phases' /\ Overtaken' /\ FlashedIsFile' /\ OkayIsOwn'
<1>0. FastbootType
  BY DEF FastbootInv
<1>1. /\ pc \in {"accept_data", "accept_okay", "simple"} /\ inp # <<>> /\ Header = "INFO"
      /\ inp' = Tail(inp)
      /\ UNCHANGED <<pc, call, kind, source_len, source_file, length, status, file, out,
                     awaited, buffer, flashed, okayed>>
  BY DEF AcceptInfo, Accepting, hostVars, bootVars
<1>2. inp' \in Seq(Responses)
  BY <1>0, <1>1, InpTail
<1>3. Transfer' = Transfer /\ (\A c : Sending(c)' <=> Sending(c))
  BY <1>1 DEF Transfer, Sending
<1>4. FastbootType'
  <2>1. \A i \in 1..Len(inp') : inp'[i].header \in Headers
    BY <1>2, HeadersOf
  <2>2. TypeOK'
    BY <1>0, <1>1, <2>1 DEF FastbootType, TypeOK
  <2> QED BY <1>0, <1>1, <1>2, <1>3, <2>2 DEF FastbootType
<1>5. Overtaken' /\ FlashedIsFile' /\ OkayIsOwn'
  BY <1>1, CallsKept, OvertakenKept
<1>6. (Clean' <=> Clean) /\ (Refused' <=> Refused) /\ (FromFile' <=> FromFile)
  BY <1>1, SameCall
<1>a. awaited \in Nat
  BY <1>0 DEF FastbootType, TypeOK
<1>b. ASSUME NEW h \in Headers \ {"INFO"}, NEW size \in Nat, Answered(h, size)
      PROVE  Answered(h, size)'
  BY <1>1, <1>b, HeadAnswered DEF Answered
<1>7. Phases'
  <2> SUFFICES ASSUME Clean PROVE AskPhase' /\ OkayPhase' /\ SimplePhase'
    BY <1>1, <1>6 DEF Phases, IdlePhase, WritePhase, FlashPhase
  <2>0. AskPhase /\ OkayPhase /\ SimplePhase
    BY DEF FastbootInv, Phases
  <2>1. AskPhase'
    <3> SUFFICES ASSUME pc = "accept_data" PROVE AskPhase'
      BY <1>1 DEF AskPhase
    <3>1. Answered("DATA", awaited) => Answered("DATA", awaited)'
      <4>1. PICK size \in Nat : size = awaited
        BY <1>a
      <4>2. Answered("DATA", size) => Answered("DATA", size)'
        BY <1>b DEF Headers
      <4>3. Answered("DATA", awaited) => Answered("DATA", size)
        BY <4>1
      <4>4. Answered("DATA", size)' => Answered("DATA", awaited)'
        BY <1>1, <4>1 DEF Answered
      <4> QED BY <4>2, <4>3, <4>4
    <3>2. AnsweredEmpty => AnsweredEmpty'
      BY <1>1, HeadAnsweredEmpty DEF AnsweredEmpty
    <3>3. \A h \in {"OKAY", "FAIL", "BLEH"} : Answered(h, 0) => Answered(h, 0)'
      BY <1>b DEF Headers
    <3> QED BY <1>1, <1>6, <2>0, <3>1, <3>2, <3>3 DEF AskPhase
  <2>2. OkayPhase'
    <3>1. \A h \in {"OKAY", "FAIL"} : Answered(h, 0) => Answered(h, 0)'
      BY <1>b DEF Headers
    <3> QED BY <1>1, <1>6, <2>0, <3>1 DEF OkayPhase
  <2>3. SimplePhase'
    <3>1. \A h \in Headers \ {"INFO"} : Answered(h, 0) => Answered(h, 0)'
      BY <1>b
    <3> QED BY <1>1, <1>6, <2>0, <3>1 DEF SimplePhase
  <2> QED BY <2>1, <2>2, <2>3
<1> QED BY <1>4, <1>5, <1>7

LEMMA AcceptDataKeeps ==
  ASSUME FastbootInv, FlashInv', AcceptData
  PROVE  FastbootType' /\ Phases' /\ Overtaken' /\ FlashedIsFile' /\ OkayIsOwn'
<1>0. FastbootType
  BY DEF FastbootInv
<1>1. /\ pc = "accept_data" /\ inp # <<>> /\ Header = "DATA" /\ inp' = Tail(inp)
      /\ UNCHANGED <<call, kind, source_len, source_file, file, out, bootVars>>
  BY DEF AcceptData, Accepting
<1>2. inp' \in Seq(Responses)
  BY <1>0, <1>1, InpTail
<1>3. awaited \in Nat /\ source_len \in Nat
  BY <1>0 DEF FastbootType, TypeOK
<1>4. Clean => /\ out = <<>> /\ (FromFile => file[call] = source_file) /\ buffer = <<>>
               /\ \/ /\ awaited > 0 /\ Head(inp).size = awaited /\ inp' = <<>>
                  \/ /\ awaited = 0 /\ source_len = 0 /\ Head(inp).size = 0
                     /\ inp' = <<Response("OKAY", 0)>>
  <2> SUFFICES ASSUME Clean PROVE
                 /\ out = <<>> /\ (FromFile => file[call] = source_file) /\ buffer = <<>>
                 /\ \/ /\ awaited > 0 /\ Head(inp).size = awaited /\ inp' = <<>>
                    \/ /\ awaited = 0 /\ source_len = 0 /\ Head(inp).size = 0
                       /\ inp' = <<Response("OKAY", 0)>>
    OBVIOUS
  <2>1. /\ FromFile => file[call] = source_file
        /\ \/ out = <<>> /\ awaited > 0 /\ Answered("DATA", awaited) /\ buffer = <<>>
           \/ out = <<>> /\ awaited = 0 /\ source_len = 0 /\ AnsweredEmpty /\ buffer = <<>>
           \/ \E h \in {"OKAY", "FAIL", "BLEH"} : Answered(h, 0)
    BY <1>1 DEF FastbootInv, Phases, AskPhase
  <2>2. ~ \E h \in {"OKAY", "FAIL", "BLEH"} : Answered(h, 0)
    BY <1>1, HeadAnswered DEF Headers
  <2>3. Answered("DATA", awaited) => Head(inp).size = awaited /\ inp' = <<>>
    BY <1>1, <1>3, HeadAnswered DEF Headers
  <2>4. AnsweredEmpty => Head(inp).size = 0 /\ inp' = <<Response("OKAY", 0)>>
    BY <1>1, HeadAnsweredEmpty
  <2> QED BY <2>1, <2>2, <2>3, <2>4
<1>5. CASE Head(inp).size # source_len
  <2>1. Ends("refused") /\ length' = length
    BY <1>1, <1>5 DEF AcceptData
  <2>2. Clean => out = <<>> /\ inp' = <<>>
    BY <1>4, <1>5
  <2>3. "refused" \in Statuses /\ pc # "idle" /\ "refused" # "returned"
    BY <1>1 DEF Statuses
  <2> QED BY <1>1, <1>2, <2>1, <2>2, <2>3, EndedKeeps
<1>6. CASE Head(inp).size = source_len
  <2>1. /\ length' = source_len /\ status' = status
        /\ pc' = IF source_len = 0 THEN "accept_okay" ELSE "write"
        /\ UNCHANGED <<awaited, buffer, flashed, okayed>>
    BY <1>1, <1>6 DEF AcceptData, bootVars
  <2>2. Transfer' = Transfer /\ (\A c : Sending(c)' <=> Sending(c))
    BY <1>1 DEF Transfer, Sending
  <2>3. FastbootType'
    <3>1. \A i \in 1..Len(inp') : inp'[i].header \in Headers
      BY <1>2, HeadersOf
    <3>2. TypeOK'
      BY <1>0, <1>1, <1>3, <2>1, <3>1 DEF FastbootType, TypeOK
    <3>3. pc' = "write" => length' # 0 /\ Len(file'[call']) - Len(source_file') = source_len' - length'
      <4>1. call \in Calls
        BY <1>0, <1>1 DEF FastbootType
      <4>2. Len(source_file) \in Nat
        BY <1>0 DEF FastbootType, TypeOK
      <4>3. Len(file[call]) = Len(source_file)
        BY <1>0, <1>1 DEF FastbootType
      <4> QED BY <1>1, <1>3, <2>1, <4>2, <4>3
    <3> QED BY <1>0, <1>1, <1>2, <2>1, <2>2, <3>2, <3>3 DEF FastbootType
  <2>4. Overtaken' /\ FlashedIsFile' /\ OkayIsOwn'
    BY <1>1, <2>1, CallsKept, OvertakenKept
  <2>5. (Clean' <=> Clean) /\ (FromFile' <=> FromFile)
    BY <1>1, <2>1, SameCall
  <2>6. Phases'
    <3> SUFFICES ASSUME Clean PROVE WritePhase' /\ OkayPhase'
      BY <2>1, <2>5 DEF Phases, IdlePhase, AskPhase, FlashPhase, SimplePhase
    <3>1. CASE source_len # 0
      <4>1. pc' = "write" /\ inp' = <<>> /\ awaited = source_len /\ buffer = <<>> /\ out' = <<>>
        BY <1>1, <1>4, <1>6, <2>1, <3>1
      <4>2. awaited' = length' + Len(Pending') /\ Pending' = <<>>
        BY <1>3, <2>1, <4>1 DEF Pending
      <4>3. FromFile => file'[call'] = (buffer' \o Pending') \o source_file'
        <5>1. source_file \in Seq(Unit) /\ <<>> \in Seq(Unit)
          BY <1>0 DEF FastbootType, TypeOK
        <5>2. (<<>> \o <<>>) \o source_file = source_file
          BY <5>1, ConcatEmptySeq
        <5> QED BY <1>1, <1>4, <2>1, <4>1, <4>2, <5>2
      <4> QED BY <2>5, <4>1, <4>2, <4>3 DEF WritePhase, OkayPhase
    <3>2. CASE source_len = 0
      <4>1. /\ pc' = "accept_okay" /\ awaited = 0 /\ out' = <<>> /\ buffer = <<>>
            /\ inp' = <<Response("OKAY", 0)>>
        BY <1>1, <1>3, <1>4, <1>6, <2>1, <3>2
      <4>2. Answered("OKAY", 0)'
        BY <4>1 DEF Answered
      <4>3. FromFile => file[call] = <<>>
        BY <1>1, <1>4, <2>5, <4>1 DEF FlashInv, Counted, FromFile
      <4> QED BY <1>1, <2>1, <2>5, <4>1, <4>2, <4>3 DEF WritePhase, OkayPhase
    <3> QED BY <3>1, <3>2
  <2> QED BY <2>3, <2>4, <2>6
<1> QED BY <1>5, <1>6

LEMMA AcceptOkayKeeps ==
  ASSUME FastbootInv, AcceptOkay
  PROVE  FastbootType' /\ Phases' /\ Overtaken' /\ FlashedIsFile' /\ OkayIsOwn'
<1>0. FastbootType
  BY DEF FastbootInv
<1>1. /\ pc \in {"accept_okay", "simple"} /\ inp # <<>> /\ Header = "OKAY" /\ inp' = Tail(inp)
      /\ UNCHANGED <<call, kind, source_len, source_file, length, file, out, bootVars>>
  BY DEF AcceptOkay, Accepting
<1>2. inp' \in Seq(Responses)
  BY <1>0, <1>1, InpTail
<1>3. Clean =>
        /\ out = <<>> /\ inp' = <<>> /\ awaited = 0
        /\ pc = "accept_okay" /\ FromFile => file[call] = buffer
        /\ pc = "simple" => /\ FromFile => flashed[call] = file[call]
                            /\ call \in okayed \/ Refused
  <2>1. CASE pc = "accept_okay"
    <3> SUFFICES ASSUME Clean
                 PROVE  /\ out = <<>> /\ inp' = <<>> /\ awaited = 0
                        /\ FromFile => file[call] = buffer
      BY <2>1
    <3>1. /\ out = <<>> /\ awaited = 0
          /\ \E h \in {"OKAY", "FAIL"} : Answered(h, 0) /\ (h = "OKAY" /\ FromFile => file[call] = buffer)
      BY <1>1, <2>1 DEF FastbootInv, Phases, OkayPhase
    <3> QED BY <1>1, <3>1, HeadAnswered DEF Headers
  <2>2. CASE pc = "simple"
    <3> SUFFICES ASSUME Clean
                 PROVE  /\ out = <<>> /\ inp' = <<>> /\ awaited = 0
                        /\ FromFile => flashed[call] = file[call]
                        /\ call \in okayed \/ Refused
      BY <2>2
    <3>1. /\ out = <<>> /\ awaited = 0
          /\ \E h \in Headers \ {"INFO"} :
               /\ Answered(h, 0)
               /\ h = "OKAY" => /\ FromFile => flashed[call] = file[call]
                                /\ call \in okayed \/ Refused
      BY <1>1, <2>2 DEF FastbootInv, Phases, SimplePhase
    <3> QED BY <1>1, <3>1, HeadAnswered
  <2> QED BY <1>1, <2>1, <2>2
<1>4. CASE pc = "accept_okay" /\ FromFile
  <2>1. /\ pc' = "send_flash" /\ status' = status
        /\ UNCHANGED <<awaited, buffer, flashed, okayed>>
    BY <1>1, <1>4 DEF AcceptOkay, FromFile, bootVars
  <2>2. Transfer' = Transfer /\ (\A c : Sending(c)' <=> Sending(c))
    BY <1>1 DEF Transfer, Sending
  <2>3. FastbootType'
    <3>1. \A i \in 1..Len(inp') : inp'[i].header \in Headers
      BY <1>2, HeadersOf
    <3>2. TypeOK'
      BY <1>0, <1>1, <2>1, <3>1 DEF FastbootType, TypeOK
    <3> QED BY <1>0, <1>1, <1>2, <1>4, <2>1, <2>2, <3>2 DEF FastbootType, FromFile
  <2>4. Overtaken' /\ FlashedIsFile' /\ OkayIsOwn'
    BY <1>1, <2>1, CallsKept, OvertakenKept
  <2>5. (Clean' <=> Clean) /\ (FromFile' <=> FromFile)
    BY <1>1, <2>1, SameCall
  <2>6. Phases'
    BY <1>1, <1>3, <1>4, <2>1, <2>5
       DEF Phases, IdlePhase, AskPhase, WritePhase, OkayPhase, FlashPhase, SimplePhase
  <2> QED BY <2>3, <2>4, <2>6
<1>5. CASE ~(pc = "accept_okay" /\ FromFile)
  <2>1. Ends("returned") /\ "returned" \in Statuses /\ pc # "idle"
    BY <1>1, <1>5 DEF AcceptOkay, FromFile, Statuses
  <2>2. pc = "accept_okay" => kind[call] = "download"
    BY <1>0, <1>5 DEF FastbootType, FromFile
  <2>3. Clean => out = <<>> /\ inp' = <<>> /\ awaited = 0
    BY <1>3
  <2>4. awaited = 0 => ~(awaited > 0)
    OBVIOUS
  <2>5. Clean => /\ FromFile => flashed[call] = file[call]
                 /\ kind[call] # "download" => call \in okayed \/ Refused
    BY <1>1, <1>3, <1>5, <2>2
  <2> QED BY <1>1, <1>2, <2>1, <2>3, <2>4, <2>5, EndedKeeps
<1> QED BY <1>4, <1>5

-----------------------------------------------------------------------------
(* A transfer that is put on the pipe.                                     *)
LEMMA CommandType ==
  ASSUME NEW name \in {"download", "flash", "erase"}, NEW n \in 0..MaxCalls, NEW len \in Nat
  PROVE  /\ Command(name, n, len) \in Transfers
         /\ Command(name, n, len).type = name /\ Command(name, n, len).call = n
         /\ Command(name, n, len).len = len /\ Len(Command(name, n, len).data) = 1
<1>1. <<0, 0>> \in Unit
  BY DEF Unit
<1>2. << <<0, 0>> >> \in Seq(Unit) /\ Len(<< <<0, 0>> >>) = 1
  BY <1>1
<1> QED BY <1>2 DEF Command, Transfers

LEMMA DataType ==
  ASSUME NEW data \in Seq(Unit)
  PROVE  /\ DataTransfer(data) \in Transfers
         /\ DataTransfer(data).type = "data" /\ DataTransfer(data).data = data
BY FastbootAssumption DEF DataTransfer, Transfers

LEMMA Put ==
  ASSUME NEW t \in Transfers, out' = <<t>>
  PROVE  /\ out' # <<>> /\ Transfer' = t /\ out' = <<Transfer'>> /\ Pending' = t.data
         /\ \A name : Sending(name)' <=> t.type = name
<1>1. <<t>> # <<>> /\ Head(<<t>>) = t
  OBVIOUS
<1> QED BY <1>1 DEF Transfer, Pending, Sending

LEMMA Piece ==
  ASSUME NEW s \in Seq(Unit), NEW n \in Nat, n <= Len(s)
  PROVE  /\ SubSeq(s, 1, n) \in Seq(Unit) /\ Len(SubSeq(s, 1, n)) = n
         /\ SubSeq(s, 1, n) \o SubSeq(s, n + 1, Len(s)) = s
<1>1. SubSeq(s, 1, n) \in Seq(Unit) /\ Len(SubSeq(s, 1, n)) = n
  OBVIOUS
<1>2. Len(s) \in Nat
  OBVIOUS
<1>3. 1 \in 1..Len(s) + 1 /\ n \in 1 - 1..Len(s) /\ Len(s) \in n..Len(s)
  BY <1>2
<1>4. SubSeq(s, 1, n) \o SubSeq(s, n + 1, Len(s)) = SubSeq(s, 1, Len(s))
  BY <1>3, ConcatAdjacentSubSeq
<1> QED BY <1>1, <1>4, SubSeqFull

LEMMA WriteChunkKeeps ==
  ASSUME FastbootInv, FlashInv', WriteChunk
  PROVE  FastbootType' /\ Phases' /\ Overtaken' /\ FlashedIsFile' /\ OkayIsOwn'
<1> DEFINE n == SmallerOf(ChunkLen, Len(source_file))
           data == SubSeq(source_file, 1, n)
<1>0. FastbootType
  BY DEF FastbootInv
<1>1. /\ pc = "write" /\ out = <<>> /\ out' = <<DataTransfer(data)>>
      /\ source_file' = SubSeq(source_file, n + 1, Len(source_file))
      /\ length' = length - n
      /\ pc' = IF length' = 0 THEN "accept_okay" ELSE "write"
      /\ UNCHANGED <<call, kind, source_len, status, file, inp, awaited, buffer, flashed, okayed>>
  BY DEF WriteChunk, bootVars
<1>2. /\ source_file \in Seq(Unit) /\ length \in Int /\ Len(source_file) \in Nat
      /\ source_len \in Nat /\ awaited \in Nat /\ buffer \in Seq(Unit)
  BY <1>0, EmptyFile DEF FastbootType, TypeOK
<1>3. n \in Nat /\ n <= Len(source_file)
  BY <1>2, FastbootAssumption DEF SmallerOf
<1> HIDE DEF n
<1>4. /\ data \in Seq(Unit) /\ Len(data) = n /\ source_file' \in Seq(Unit)
      /\ Len(source_file') = Len(source_file) - n /\ data \o source_file' = source_file
  <2>1. data \in Seq(Unit) /\ Len(data) = n
        /\ data \o SubSeq(source_file, n + 1, Len(source_file)) = source_file
    BY <1>2, <1>3, Piece
  <2>2. source_file' \in Seq(Unit) /\ Len(source_file') = Len(source_file) - n
    BY <1>1, <1>2, <1>3, RestOfFile
  <2> QED BY <1>1, <2>1, <2>2
<1> HIDE DEF data
<1>5. /\ Transfer' = DataTransfer(data) /\ Transfer'.type = "data" /\ Pending' = data
      /\ Transfer' \in Transfers /\ out' # <<>> /\ out' = <<Transfer'>>
      /\ \A name : Sending(name)' <=> name = "data"
  BY <1>1, <1>4, DataType, Put, SMTT(30)
<1>6. FastbootType'
  <2>1. call \in Calls /\ Len(file[call]) - Len(source_file) = source_len - length
    BY <1>0, <1>1 DEF FastbootType
  <2>2. Len(file[call]) \in Nat
    BY <1>0, <2>1, EmptyFile DEF FastbootType, TypeOK
  <2>3. length' \in Int /\ Len(file[call]) - Len(source_file') = source_len - length'
        /\ (length' < 0 => source_len < Len(file[call]))
    <3>1. length' = length - n /\ Len(source_file') = Len(source_file) - n
      BY <1>1, <1>4
    <3> QED BY <1>2, <1>3, <2>1, <2>2, <3>1
  <2>4. TypeOK'
    BY <1>0, <1>1, <1>4, <2>3 DEF FastbootType, TypeOK
  <2>5. inp' \in Seq(Responses) /\ (~Sending("flash"))' /\ (~Sending("erase"))'
    BY <1>0, <1>1, <1>5 DEF FastbootType
  <2>6. /\ call' \in Calls /\ status'[call'] = "none"
        /\ \A m \in Calls : m > call' => status'[m] = "none"
        /\ kind'[call'] \in {"download", "flash_from_file"}
    BY <1>0, <1>1 DEF FastbootType
  <2>7. pc' = "write" => length' # 0
    BY <1>1
  <2>8. pc' \in {"write", "accept_okay"}
    BY <1>1
  <2> QED BY <1>1, <1>5, <2>3, <2>4, <2>5, <2>6, <2>7, <2>8 DEF FastbootType
<1>7. Overtaken' /\ FlashedIsFile' /\ OkayIsOwn'
  <2>1. Overtaken'
    BY <1>5 DEF Overtaken
  <2> QED BY <1>1, <2>1, CallsKept
<1>8. (Clean' <=> Clean) /\ (FromFile' <=> FromFile)
  BY <1>1, SameCall
<1>9. Phases'
  <2> SUFFICES ASSUME Clean PROVE WritePhase' /\ OkayPhase'
    BY <1>1, <1>8 DEF Phases, IdlePhase, AskPhase, FlashPhase, SimplePhase
  <2>1. length > 0 => /\ inp = <<>> /\ awaited = length
                      /\ FromFile => file[call] = buffer \o source_file
    <3> SUFFICES ASSUME length > 0
                 PROVE  /\ inp = <<>> /\ awaited = length
                        /\ FromFile => file[call] = buffer \o source_file
      OBVIOUS
    <3>1. /\ inp = <<>> /\ awaited = length + Len(Pending)
          /\ FromFile => file[call] = (buffer \o Pending) \o source_file
      BY <1>1 DEF FastbootInv, Phases, WritePhase
    <3>2. Pending = <<>> /\ Len(Pending) = 0
      BY <1>1 DEF Pending
    <3>3. buffer \o <<>> = buffer
      BY <1>2, ConcatEmptySeq
    <3> QED BY <1>2, <3>1, <3>2, <3>3
  <2>2. buffer \o source_file = (buffer \o data) \o source_file'
    <3>1. (buffer \o data) \o source_file' = buffer \o (data \o source_file')
      <4>1. buffer \in Seq(Unit) /\ data \in Seq(Unit) /\ source_file' \in Seq(Unit)
        BY <1>2, <1>4
      <4> QED BY <4>1, ConcatAssociative
    <3> QED BY <1>4, <3>1
  <2>3. length # 0
    BY <1>0, <1>1 DEF FastbootType
  <2>4. WritePhase'
    <3> SUFFICES ASSUME length' > 0 PROVE WritePhase'
      BY DEF WritePhase
    <3>1. length > 0 /\ awaited' = length' + Len(Pending')
      <4>1. length > 0
        BY <1>1, <1>2, <1>3
      <4>2. awaited' = length /\ Len(Pending') = n
        BY <1>1, <1>4, <1>5, <2>1, <4>1
      <4> QED BY <1>1, <1>2, <1>3, <4>1, <4>2
    <3> QED BY <1>1, <1>5, <1>8, <2>1, <2>2, <3>1 DEF WritePhase
  <2>5. OkayPhase'
    <3> SUFFICES ASSUME length' = 0 PROVE OkayPhase'
      BY <1>1 DEF OkayPhase
    <3>1. length > 0 /\ length = n
      BY <1>1, <1>2, <1>3, <2>3
    <3>2. awaited' = Len(Pending') /\ awaited' > 0 /\ inp' = <<>>
      BY <1>1, <1>4, <1>5, <2>1, <3>1
    <3>3. FromFile => file'[call'] = buffer' \o Pending'
      <4>1. FromFile => source_file' = <<>>
        BY <1>1, <1>8 DEF FlashInv, Counted, FromFile
      <4>2. buffer \o data \in Seq(Unit)
        BY <1>2, <1>4, ConcatProperties
      <4>3. (buffer \o data) \o <<>> = buffer \o data
        BY <4>2, ConcatEmptySeq
      <4> QED BY <1>1, <1>5, <2>1, <2>2, <3>1, <4>1, <4>3
    <3> QED BY <1>5, <1>8, <3>2, <3>3 DEF OkayPhase
  <2> QED BY <2>4, <2>5
<1> QED BY <1>6, <1>7, <1>9

LEMMA SendFlashKeeps ==
  ASSUME FastbootInv, SendFlash
  PROVE  FastbootType' /\ Phases' /\ Overtaken' /\ FlashedIsFile' /\ OkayIsOwn'
<1> DEFINE c == Command("flash", call, 0)
<1>0. FastbootType
  BY DEF FastbootInv
<1>1. /\ pc = "send_flash" /\ out = <<>> /\ out' = <<c>> /\ pc' = "simple"
      /\ UNCHANGED <<call, kind, source_len, source_file, length, status, file, inp,
                     awaited, buffer, flashed, okayed>>
  BY DEF SendFlash, SendCommand, bootVars
<1>2. call \in 0..MaxCalls /\ call \in Calls /\ status[call] = "none" /\ kind[call] # "download"
  BY <1>0, <1>1 DEF FastbootType, TypeOK
<1>3. c \in Transfers /\ c.type = "flash" /\ c.call = call
  BY <1>2, CommandType
<1>4. /\ Transfer' = c /\ out' # <<>> /\ out' = <<Transfer'>>
      /\ \A name : Sending(name)' <=> name = "flash"
  <2> HIDE DEF c
  <2> QED BY <1>1, <1>3, Put
<1> HIDE DEF c
<1>5. FastbootType'
  <2>1. TypeOK'
    BY <1>0, <1>1 DEF FastbootType, TypeOK
  <2>2. Transfer'.call = call' /\ Transfer' \in Transfers
    BY <1>1, <1>3, <1>4
  <2>3. inp' \in Seq(Responses) /\ \A n \in Calls : n > call' => status'[n] = "none"
    BY <1>0, <1>1 DEF FastbootType
  <2> QED BY <1>1, <1>2, <1>4, <2>1, <2>2, <2>3 DEF FastbootType
<1>6. Overtaken' /\ FlashedIsFile' /\ OkayIsOwn'
  <2>1. status'[Transfer'.call] = "none"
    BY <1>1, <1>2, <1>3, <1>4
  <2>2. Overtaken'
    BY <2>1 DEF Overtaken
  <2> QED BY <1>1, <2>2, CallsKept
<1>7. (Clean' <=> Clean) /\ (Refused' <=> Refused) /\ (FromFile' <=> FromFile)
  BY <1>1, SameCall
<1>8. Phases'
  <2> SUFFICES ASSUME Clean PROVE SimplePhase'
    BY <1>1, <1>7 DEF Phases, IdlePhase, AskPhase, WritePhase, OkayPhase, FlashPhase
  <2>1. inp = <<>> /\ awaited = 0 /\ file[call] = buffer
    BY <1>1 DEF FastbootInv, Phases, FlashPhase
  <2>2. ~(awaited' > 0)
    BY <1>1, <2>1
  <2>3. out' = <<Command("flash", call', 0)>>
    BY <1>1 DEF c
  <2> QED BY <1>1, <2>1, <2>2, <2>3 DEF SimplePhase
<1> QED BY <1>5, <1>6, <1>8

-----------------------------------------------------------------------------
(* A call that begins.                                                     *)
LEMMA NextCall ==
  ASSUME call \in Nat, call' = call + 1, status' = status
  PROVE  (Clean' => Clean) /\ (Refused => Refused')
<1>1. \A m \in 1..(call + 1 - 1) : m \in 1..(call' + 1 - 1)
  OBVIOUS
<1> QED BY <1>1 DEF Clean, Refused, NoneBefore

LEMMA BegunKeeps ==
  ASSUME FastbootInv, NEW k \in Kinds, NEW label, Begin(k, label),
         NEW name \in {"download", "flash", "erase"}, NEW len \in Nat,
         SendCommand(Command(name, call + 1, len)),
         UNCHANGED <<status, inp, bootVars>>,
         \A n \in Calls : n # call + 1 => file'[n] = file[n]
  PROVE  /\ pc' = label /\ call' \in Calls /\ status'[call'] = "none" /\ kind'[call'] = k
         /\ kind' \in [Calls -> Kinds \cup {"none"}]
         /\ \A n \in Calls : n > call' => status'[n] = "none"
         /\ out' = <<Command(name, call', len)>> /\ out' = <<Transfer'>> /\ out' # <<>>
         /\ Transfer' \in Transfers /\ Transfer'.type = name /\ Transfer'.call = call'
         /\ inp' \in Seq(Responses)
         /\ \A type : Sending(type)' <=> type = name
         /\ Overtaken' /\ FlashedIsFile' /\ OkayIsOwn'
         /\ Clean' => inp' = <<>> /\ (awaited' > 0 => Refused')
<1>0. FastbootType /\ FlashInv
  BY DEF FastbootInv
<1>1. /\ pc = "idle" /\ call < MaxCalls /\ call' = call + 1 /\ pc' = label
      /\ kind' = [kind EXCEPT ![call + 1] = k]
      /\ out = <<>> /\ out' = <<Command(name, call', len)>>
      /\ UNCHANGED <<awaited, buffer, flashed, okayed>>
  BY DEF Begin, SendCommand, bootVars
<1>2. /\ call \in 0..MaxCalls /\ MaxCalls \in Nat /\ Calls = 1..MaxCalls
      /\ kind \in [Calls -> Kinds \cup {"none"}]
  BY <1>0, FastbootAssumption DEF FastbootType, TypeOK, Calls
<1>3. /\ call' \in Calls /\ call' > call /\ call' \in 0..MaxCalls
      /\ \A n \in Calls : n > call' => n > call
  BY <1>1, <1>2
<1>4. /\ status'[call'] = "none" /\ \A n \in Calls : n > call' => status'[n] = "none"
  BY <1>0, <1>3 DEF FastbootType
<1>5. /\ kind' \in [Calls -> Kinds \cup {"none"}] /\ kind'[call'] = k
      /\ \A n \in Calls : n # call' => kind'[n] = kind[n]
  BY <1>1, <1>2, <1>3
<1>6. /\ out' = <<Transfer'>> /\ out' # <<>> /\ Transfer' \in Transfers
      /\ Transfer'.type = name /\ Transfer'.call = call'
      /\ \A type : Sending(type)' <=> type = name
  <2>1. PICK c \in 0..MaxCalls : c = call'
    BY <1>3
  <2>2. /\ Command(name, c, len) \in Transfers /\ Command(name, c, len).type = name
        /\ Command(name, c, len).call = c
    BY CommandType
  <2>3. PICK t \in Transfers : t = Command(name, c, len)
    BY <2>2
  <2>4. out' = <<t>> /\ t.type = name /\ t.call = call'
    BY <1>1, <2>1, <2>2, <2>3
  <2> QED BY <2>4, Put
<1>7. FlashedIsFile' /\ OkayIsOwn'
  <2>1. \A n \in Calls : status[n] # "none" => kind'[n] = kind[n] /\ file'[n] = file[n]
    BY <1>1, <1>4, <1>5
  <2> QED BY <1>1, <2>1, CallsKept
<1>8. Overtaken'
  BY <1>4, <1>6 DEF Overtaken
<1>9. ASSUME Clean' PROVE inp' = <<>> /\ (awaited' > 0 => Refused')
  <2>3. Clean /\ (Refused => Refused')
    <3>1. call \in Nat /\ call' = call + 1 /\ status' = status
      BY <1>1, <1>2
    <3> QED BY <1>9, <3>1, NextCall
  <2>4. inp = <<>> /\ (awaited > 0 => Refused)
    BY <1>1, <1>9, <2>3 DEF FastbootInv, Phases, IdlePhase
  <2> QED BY <1>1, <2>3, <2>4
<1>10. inp' \in Seq(Responses)
  BY <1>0 DEF FastbootType
<1> QED BY <1>1, <1>3, <1>4, <1>5, <1>6, <1>7, <1>8, <1>9, <1>10

LEMMA SimpleCommandKeeps ==
  ASSUME FastbootInv, NEW k \in {"flash", "erase"}, SimpleCommand(k)
  PROVE  FastbootType' /\ Phases' /\ Overtaken' /\ FlashedIsFile' /\ OkayIsOwn'
<1>0. FastbootType
  BY DEF FastbootInv
<1>1. /\ k \in Kinds /\ k \in {"download", "flash", "erase"} /\ Begin(k, "simple") /\ 0 \in Nat
      /\ SendCommand(Command(k, call + 1, 0))
      /\ UNCHANGED <<source_len, source_file, length, status, file, inp, bootVars>>
  BY DEF SimpleCommand, Kinds
<1>2. /\ pc' = "simple" /\ call' \in Calls /\ status'[call'] = "none" /\ kind'[call'] = k
      /\ kind' \in [Calls -> Kinds \cup {"none"}]
      /\ \A n \in Calls : n > call' => status'[n] = "none"
      /\ out' = <<Command(k, call', 0)>> /\ out' = <<Transfer'>> /\ out' # <<>>
      /\ Transfer' \in Transfers /\ Transfer'.type = k /\ Transfer'.call = call'
      /\ inp' \in Seq(Responses)
      /\ \A type : Sending(type)' <=> type = k
      /\ Overtaken' /\ FlashedIsFile' /\ OkayIsOwn'
      /\ Clean' => inp' = <<>> /\ (awaited' > 0 => Refused')
  BY <1>1, BegunKeeps
<1>3. FastbootType'
  <2>1. call' \in 0..MaxCalls
    BY <1>2, FastbootAssumption DEF Calls
  <2>2. TypeOK'
    BY <1>0, <1>1, <1>2, <2>1 DEF FastbootType, TypeOK, bootVars
  <2> QED BY <1>2, <2>2 DEF FastbootType
<1>4. Phases'
  <2> SUFFICES ASSUME Clean' PROVE SimplePhase'
    BY <1>2 DEF Phases, IdlePhase, AskPhase, WritePhase, OkayPhase, FlashPhase
  <2>1. ~FromFile'
    BY <1>2 DEF FromFile
  <2> QED BY <1>2, <2>1 DEF SimplePhase
<1> QED BY <1>2, <1>3, <1>4

LEMMA DownloadKeeps ==
  ASSUME FastbootInv, NEW k \in {"download", "flash_from_file"}, NEW len \in FileLens,
         NEW extra \in Surpluses, Download(k, len, extra)
  PROVE  FastbootType' /\ Phases' /\ Overtaken' /\ FlashedIsFile' /\ OkayIsOwn'
<1> DEFINE f == File(call + 1, len + extra)
<1>0. FastbootType
  BY DEF FastbootInv
<1>1. /\ k \in Kinds /\ len \in Nat /\ len + extra \in Nat /\ Begin(k, "accept_data")
      /\ "download" \in {"download", "flash", "erase"}
      /\ SendCommand(Command("download", call + 1, len))
      /\ source_len' = len /\ source_file' = f /\ file' = [file EXCEPT ![call + 1] = f]
      /\ UNCHANGED <<length, status, inp, bootVars>>
  BY FastbootAssumption DEF Download, Kinds
<1>2. call' = call + 1 /\ call + 1 \in Nat /\ file \in [Calls -> Seq(Unit)]
  BY <1>0, <1>1 DEF FastbootType, TypeOK, Begin
<1>3. f \in Seq(Unit)
  BY <1>1, <1>2, FileLen
<1> HIDE DEF f
<1>4. \A n \in Calls : n # call + 1 => file'[n] = file[n]
  BY <1>1, <1>2
<1>5. /\ pc' = "accept_data" /\ call' \in Calls /\ status'[call'] = "none" /\ kind'[call'] = k
      /\ kind' \in [Calls -> Kinds \cup {"none"}]
      /\ \A n \in Calls : n > call' => status'[n] = "none"
      /\ out' = <<Command("download", call', len)>> /\ out' = <<Transfer'>> /\ out' # <<>>
      /\ Transfer' \in Transfers /\ Transfer'.type = "download" /\ Transfer'.call = call'
      /\ inp' \in Seq(Responses)
      /\ \A type : Sending(type)' <=> type = "download"
      /\ Overtaken' /\ FlashedIsFile' /\ OkayIsOwn'
      /\ Clean' => inp' = <<>> /\ (awaited' > 0 => Refused')
  BY <1>1, <1>4, BegunKeeps
<1>6. file' \in [Calls -> Seq(Unit)] /\ file'[call'] = source_file'
  BY <1>1, <1>2, <1>3, <1>5
<1>7. FastbootType'
  <2>1. call' \in 0..MaxCalls
    BY <1>5, FastbootAssumption DEF Calls
  <2>2. TypeOK'
    BY <1>0, <1>1, <1>3, <1>5, <1>6, <2>1 DEF FastbootType, TypeOK, bootVars
  <2> QED BY <1>5, <1>6, <2>2 DEF FastbootType
<1>8. Phases'
  <2> SUFFICES ASSUME Clean' PROVE AskPhase'
    BY <1>5 DEF Phases, IdlePhase, SimplePhase, WritePhase, OkayPhase, FlashPhase
  <2> QED BY <1>1, <1>5, <1>6 DEF AskPhase
<1> QED BY <1>5, <1>7, <1>8

-----------------------------------------------------------------------------
(* The bootloader takes a transfer.                                        *)
LEMMA Sent ==
  ASSUME NEW t, out = <<t>>
  PROVE  /\ out # <<>> /\ Transfer = t /\ Pending = t.data
         /\ \A name : Sending(name) <=> t.type = name
<1>1. <<t>> # <<>> /\ Head(<<t>>) = t
  OBVIOUS
<1> QED BY <1>1 DEF Transfer, Pending, Sending

LEMMA AnswersEmptyType ==
  ASSUME inp \in Seq(Responses), NEW info \in Infos,
         inp' = inp \o info \o <<Response("DATA", 0), Response("OKAY", 0)>>
  PROVE  /\ inp' \in Seq(Responses)
         /\ inp = <<>> => AnsweredEmpty'
<1> DEFINE i == Response("INFO", 0)
           d == Response("DATA", 0)
           o == Response("OKAY", 0)
<1>1. i \in Responses /\ d \in Responses /\ o \in Responses
  BY ResponseType DEF Headers
<1>2. info = <<>> \/ info = <<i>>
  BY DEF Infos
<1>3. inp' = (inp \o info) \o <<d, o>>
  OBVIOUS
<1> HIDE DEF i, d, o
<1>4. /\ <<>> \in Seq(Responses) /\ <<i>> \in Seq(Responses) /\ <<d, o>> \in Seq(Responses)
      /\ Len(<<i>>) = 1 /\ <<i>>[1] = i
      /\ Len(<<d, o>>) = 2 /\ <<d, o>>[1] = d /\ <<d, o>>[2] = o
      /\ <<i, d, o>> \in Seq(Responses) /\ Len(<<i, d, o>>) = 3
      /\ <<i, d, o>>[1] = i /\ <<i, d, o>>[2] = d /\ <<i, d, o>>[3] = o
  BY <1>1
<1>5. info \in Seq(Responses)
  BY <1>2, <1>4
<1>6. inp \o info \in Seq(Responses)
  BY <1>5, ConcatProperties
<1>7. inp' \in Seq(Responses)
  BY <1>3, <1>4, <1>6, ConcatProperties
<1>8. <<>> \o <<>> = <<>> /\ <<>> \o <<i>> = <<i>> /\ <<>> \o <<d, o>> = <<d, o>>
  BY <1>4, ConcatEmptySeq
<1>9. <<i>> \o <<d, o>> = <<i, d, o>>
  <2>1. /\ <<i>> \o <<d, o>> \in Seq(Responses) /\ Len(<<i>> \o <<d, o>>) = Len(<<i>>) + Len(<<d, o>>)
        /\ \A j \in 1..Len(<<i>>) + Len(<<d, o>>) :
             (<<i>> \o <<d, o>>)[j] = IF j <= Len(<<i>>) THEN <<i>>[j] ELSE <<d, o>>[j - Len(<<i>>)]
    BY <1>4, ConcatProperties
  <2>2. \A j \in 1..3 : (<<i>> \o <<d, o>>)[j] = <<i, d, o>>[j]
    BY <1>4, <2>1
  <2>3. Len(<<i>> \o <<d, o>>) = 3
    BY <1>4, <2>1
  <2> QED BY <1>4, <2>1, <2>2, <2>3, SeqEqual
<1>10. inp = <<>> => inp' = <<d, o>> \/ inp' = <<i, d, o>>
  BY <1>2, <1>3, <1>8, <1>9
<1> QED BY <1>7, <1>10 DEF AnsweredEmpty, i, d, o

LEMMA BootType ==
  ASSUME FastbootInv, UNCHANGED hostVars, Takes, inp' \in Seq(Responses), awaited' \in Nat,
         buffer' \in Seq(Unit), flashed' \in [Calls -> Seq(Unit)], okayed' \subseteq Calls
  PROVE  /\ FastbootType' /\ Overtaken' /\ Pending' = <<>>
         /\ (Clean' <=> Clean) /\ (Refused' <=> Refused) /\ (FromFile' <=> FromFile)
         /\ out # <<>> /\ out' = <<>>
         /\ UNCHANGED <<pc, call, kind, source_len, source_file, length, status, file>>
<1>0. FastbootType
  BY DEF FastbootInv
<1>1. /\ UNCHANGED <<pc, call, kind, source_len, source_file, length, status, file>>
      /\ out # <<>> /\ out' = <<>>
  BY DEF hostVars, Takes
<1>2. FastbootType'
  <2>1. \A i \in 1..Len(inp') : inp'[i].header \in Headers
    BY HeadersOf
  <2>2. TypeOK'
    BY <1>0, <1>1, <2>1 DEF FastbootType, TypeOK
  <2>3. \A name : (~Sending(name))'
    BY <1>1 DEF Sending
  <2> QED BY <1>0, <1>1, <2>2, <2>3 DEF FastbootType
<1>3. Overtaken' /\ Pending' = <<>>
  BY <1>1, OvertakenKept DEF Pending
<1> QED BY <1>1, <1>2, <1>3, SameCall

(* What is on its way while a call waits, until a call times out.          *)
LEMMA OnItsWay ==
  ASSUME FastbootInv, Clean, out # <<>>, pc # "write" \/ length > 0
  PROVE  \/ /\ pc = "accept_data" /\ inp = <<>> /\ (FromFile => file[call] = source_file)
            /\ Transfer.type = "download" /\ Transfer.len = source_len /\ Len(Pending) = 1
         \/ /\ pc \in {"write", "accept_okay"} /\ inp = <<>> /\ Transfer.type = "data"
            /\ awaited > 0
         \/ /\ pc = "simple" /\ inp = <<>> /\ Transfer.type \in {"flash", "erase"}
            /\ Transfer.call = call /\ Len(Pending) = 1
            /\ FromFile => Transfer.type = "flash" /\ awaited = 0 /\ file[call] = buffer
            /\ awaited > 0 => Refused
<1>0. FastbootType
  BY DEF FastbootInv
<1>1. call \in 0..MaxCalls /\ source_len \in Nat /\ length \in Int /\ awaited \in Nat
  BY <1>0 DEF FastbootType, TypeOK
<1>2. pc \in {"accept_data", "write", "accept_okay", "simple"}
  BY <1>0 DEF FastbootInv, FastbootType, TypeOK, Phases, IdlePhase, FlashPhase
<1>3. CASE pc = "accept_data"
  <2>1. /\ out = <<Command("download", call, source_len)>> /\ inp = <<>>
        /\ FromFile => file[call] = source_file
    BY <1>3 DEF FastbootInv, Phases, AskPhase
  <2>2. /\ Command("download", call, source_len).type = "download"
        /\ Command("download", call, source_len).len = source_len
        /\ Len(Command("download", call, source_len).data) = 1
    BY <1>1, CommandType
  <2>3. Transfer = Command("download", call, source_len)
        /\ Pending = Command("download", call, source_len).data
    BY <2>1, Sent
  <2> QED BY <1>3, <2>1, <2>2, <2>3
<1>4. CASE pc = "write"
  <2>1. /\ inp = <<>> /\ Transfer.type = "data" /\ awaited = length + Len(Pending)
    BY <1>4 DEF FastbootInv, Phases, WritePhase
  <2>2. Transfer.data \in Seq(Unit)
    BY <1>0 DEF FastbootType, Transfers
  <2>3. Len(Pending) \in Nat
    BY <2>2, EmptyFile DEF Pending
  <2>4. awaited > 0
    BY <1>1, <1>4, <2>1, <2>3
  <2> QED BY <1>4, <2>1, <2>4
<1>5. CASE pc = "accept_okay"
  BY <1>5 DEF FastbootInv, Phases, OkayPhase, Sending
<1>6. CASE pc = "simple"
  <2>1. PICK name \in {"flash", "erase"} :
          out = <<Command(name, call, 0)>> /\ (FromFile => name = "flash")
    BY <1>6 DEF FastbootInv, Phases, SimplePhase
  <2>2. /\ inp = <<>> /\ (FromFile => awaited = 0 /\ file[call] = buffer)
        /\ awaited > 0 => Refused
    BY <1>6 DEF FastbootInv, Phases, SimplePhase
  <2>3. /\ Command(name, call, 0).type = name /\ Command(name, call, 0).call = call
        /\ Len(Command(name, call, 0).data) = 1
    BY <1>1, CommandType
  <2>4. Transfer = Command(name, call, 0) /\ Pending = Command(name, call, 0).data
    BY <2>1, Sent
  <2> QED BY <1>6, <2>1, <2>2, <2>3, <2>4
<1> QED BY <1>2, <1>3, <1>4, <1>5, <1>6

LEMMA BootDataKeeps ==
  ASSUME FastbootInv, BootData
  PROVE  FastbootType' /\ Phases' /\ Overtaken' /\ FlashedIsFile' /\ OkayIsOwn'
<1> DEFINE taken == SmallerOf(awaited, Len(Transfer.data))
           piece == SubSeq(Transfer.data, 1, taken)
<1>0. FastbootType
  BY DEF FastbootInv
<1>1. /\ Takes /\ awaited > 0 /\ awaited' = awaited - taken
      /\ UNCHANGED hostVars /\ UNCHANGED <<flashed, okayed>>
      /\ \/ /\ buffer' = buffer \o piece
            /\ IF taken = awaited THEN Answers("OKAY", 0) ELSE UNCHANGED inp
         \/ taken = awaited /\ Answers("FAIL", 0) /\ buffer' = <<>>
  BY DEF BootData
<1>2. /\ awaited \in Nat /\ buffer \in Seq(Unit) /\ inp \in Seq(Responses)
      /\ flashed \in [Calls -> Seq(Unit)] /\ okayed \subseteq Calls
  BY <1>0 DEF FastbootType, TypeOK
<1>3. out # <<>> /\ Transfer.data \in Seq(Unit) /\ Len(Transfer.data) \in Nat
  <2>1. out # <<>>
    BY <1>1 DEF Takes
  <2>2. Transfer.data \in Seq(Unit)
    BY <1>0, <2>1 DEF FastbootType, Transfers
  <2> QED BY <2>1, <2>2, EmptyFile
<1>4. /\ Pending = Transfer.data /\ taken \in Nat /\ taken <= awaited
      /\ taken <= Len(Transfer.data)
      /\ taken # awaited => taken = Len(Transfer.data)
  BY <1>2, <1>3 DEF Pending, SmallerOf
<1> HIDE DEF taken
<1>5. piece \in Seq(Unit) /\ (taken = Len(Transfer.data) => piece = Transfer.data)
  <2>1. piece \in Seq(Unit)
    BY <1>3, <1>4, Piece
  <2>2. SubSeq(Transfer.data, 1, Len(Transfer.data)) = Transfer.data
    BY <1>3, SubSeqFull
  <2> QED BY <2>1, <2>2
<1> HIDE DEF piece
<1>6. /\ inp' \in Seq(Responses)
      /\ inp = <<>> => \/ taken = awaited /\ Answered("OKAY", 0)' /\ buffer' = buffer \o piece
                       \/ taken = awaited /\ Answered("FAIL", 0)'
                       \/ taken # awaited /\ inp' = <<>> /\ buffer' = buffer \o piece
  <2>1. CASE taken = awaited /\ Answers("OKAY", 0) /\ buffer' = buffer \o piece
    BY <1>2, <2>1, AnswersType DEF Headers
  <2>2. CASE taken = awaited /\ Answers("FAIL", 0)
    BY <1>2, <2>2, AnswersType DEF Headers
  <2>3. CASE taken # awaited /\ inp' = inp /\ buffer' = buffer \o piece
    BY <1>2, <2>3
  <2> QED BY <1>1, <2>1, <2>2, <2>3
<1>7. awaited' \in Nat /\ buffer' \in Seq(Unit)
  <2>1. buffer \o piece \in Seq(Unit) /\ <<>> \in Seq(Unit)
    BY <1>2, <1>5, ConcatProperties
  <2>2. awaited' \in Nat
    BY <1>1, <1>2, <1>4
  <2> QED BY <1>1, <2>1, <2>2
<1>8. /\ FastbootType' /\ Overtaken' /\ Pending' = <<>>
      /\ (Clean' <=> Clean) /\ (Refused' <=> Refused) /\ (FromFile' <=> FromFile)
      /\ out # <<>> /\ out' = <<>>
      /\ UNCHANGED <<pc, call, kind, source_len, source_file, length, status, file>>
  <2>1. flashed' \in [Calls -> Seq(Unit)] /\ okayed' \subseteq Calls
    BY <1>1, <1>2
  <2> QED BY <1>1, <1>6, <1>7, <2>1, BootType
<1>9. FlashedIsFile' /\ OkayIsOwn'
  <2>1. UNCHANGED <<status, flashed, okayed>> /\ \A n \in Calls : kind'[n] = kind[n] /\ file'[n] = file[n]
    BY <1>1, <1>8
  <2> QED BY <2>1, CallsKept
<1>10. Phases'
  <2> SUFFICES ASSUME Clean
               PROVE  /\ IdlePhase' /\ AskPhase' /\ WritePhase'
                      /\ OkayPhase' /\ FlashPhase' /\ SimplePhase'
    BY <1>8 DEF Phases
  <2>1. CASE pc = "write" /\ ~(length > 0)
    BY <1>8, <2>1 DEF IdlePhase, AskPhase, WritePhase, OkayPhase, FlashPhase, SimplePhase
  <2>2. CASE /\ pc = "accept_data" /\ inp = <<>> /\ (FromFile => file[call] = source_file)
             /\ Transfer.type = "download" /\ Transfer.len = source_len /\ Len(Pending) = 1
    <3>1. /\ awaited' = 0 /\ \E h \in {"OKAY", "FAIL"} : Answered(h, 0)'
          \/ inp' = <<>>
      BY <1>1, <1>2, <1>6, <2>2
    <3>2. AskPhase'
      BY <1>8, <2>2, <3>1 DEF AskPhase
    <3> QED BY <1>8, <2>2, <3>2
            DEF IdlePhase, WritePhase, OkayPhase, FlashPhase, SimplePhase
  <2>3. CASE pc \in {"write", "accept_okay"} /\ inp = <<>> /\ Transfer.type = "data" /\ (pc = "write" => length > 0)
    <3>1. CASE pc = "write"
      <4>1. /\ awaited = length + Len(Pending) /\ length > 0
            /\ FromFile => file[call] = (buffer \o Pending) \o source_file
        BY <2>3, <3>1 DEF FastbootInv, Phases, WritePhase
      <4>2. length \in Int
        BY <1>0 DEF FastbootType, TypeOK
      <4>3. taken # awaited
        BY <1>2, <1>3, <1>4, <4>1, <4>2
      <4>4. /\ taken = Len(Pending) /\ awaited' = length /\ inp' = <<>>
            /\ buffer' = buffer \o Pending
        <5>1. taken = Len(Transfer.data) /\ inp' = <<>> /\ buffer' = buffer \o piece
          BY <1>4, <1>6, <2>3, <4>3
        <5>2. piece = Pending /\ taken = Len(Pending)
          BY <1>4, <1>5, <5>1
        <5> QED BY <1>1, <1>3, <1>4, <4>1, <4>2, <5>1, <5>2
      <4>5. awaited' = length' + Len(Pending')
        BY <1>8, <4>2, <4>4
      <4>6. FromFile' => file'[call'] = (buffer' \o Pending') \o source_file'
        <5>1. buffer' \o <<>> = buffer'
          BY <1>7, ConcatEmptySeq
        <5> QED BY <1>8, <4>1, <4>4, <5>1
      <4> QED BY <1>8, <3>1, <4>4, <4>5, <4>6
              DEF IdlePhase, AskPhase, WritePhase, OkayPhase, FlashPhase, SimplePhase
    <3>2. CASE pc = "accept_okay"
      <4>1. /\ awaited = Len(Pending) /\ (FromFile => file[call] = buffer \o Pending)
        BY <1>3, <3>2 DEF FastbootInv, Phases, OkayPhase
      <4>2. taken = awaited /\ awaited' = 0 /\ piece = Pending
        BY <1>1, <1>2, <1>3, <1>4, <1>5, <4>1
      <4>3. \/ Answered("OKAY", 0)' /\ (FromFile' => file'[call'] = buffer')
            \/ Answered("FAIL", 0)'
        BY <1>6, <1>8, <2>3, <4>1, <4>2
      <4>4. OkayPhase'
        BY <1>8, <4>2, <4>3 DEF OkayPhase
      <4> QED BY <1>8, <3>2, <4>4
              DEF IdlePhase, AskPhase, WritePhase, FlashPhase, SimplePhase
    <3> QED BY <2>3, <3>1, <3>2
  <2>4. CASE /\ pc = "simple" /\ inp = <<>> /\ Len(Pending) = 1
             /\ FromFile => awaited = 0
             /\ awaited > 0 => Refused
    <3>1. ~FromFile /\ Refused
      BY <1>1, <2>4
    <3>2. \/ awaited' = 0 /\ \E h \in {"OKAY", "FAIL"} : Answered(h, 0)'
          \/ inp' = <<>>
      BY <1>1, <1>2, <1>6, <2>4
    <3>3. SimplePhase'
      BY <1>8, <3>1, <3>2 DEF SimplePhase, Headers
    <3> QED BY <1>8, <2>4, <3>3
            DEF IdlePhase, AskPhase, WritePhase, OkayPhase, FlashPhase
  <2> QED
    <3>1. pc = "write" => length > 0 \/ ~(length > 0)
      OBVIOUS
    <3> QED BY <1>3, <2>1, <2>2, <2>3, <2>4, OnItsWay
<1> QED BY <1>8, <1>9, <1>10

LEMMA BootDownloadKeeps ==
  ASSUME FastbootInv, BootDownload
  PROVE  FastbootType' /\ Phases' /\ Overtaken' /\ FlashedIsFile' /\ OkayIsOwn'
<1>0. FastbootType
  BY DEF FastbootInv
<1>1. /\ Takes /\ awaited = 0 /\ Transfer.type = "download" /\ out # <<>>
      /\ UNCHANGED hostVars /\ UNCHANGED <<flashed, okayed>>
  BY DEF BootDownload, Takes
<1>2. /\ inp \in Seq(Responses) /\ buffer \in Seq(Unit) /\ <<>> \in Seq(Unit)
      /\ flashed' \in [Calls -> Seq(Unit)] /\ okayed' \subseteq Calls
      /\ Transfer.len \in Nat
  BY <1>0, <1>1 DEF FastbootType, TypeOK, Transfers
<1>3. /\ inp' \in Seq(Responses) /\ awaited' \in Nat /\ buffer' \in Seq(Unit)
      /\ inp = <<>> =>
           \/ awaited' > 0 /\ Answered("DATA", awaited)' /\ buffer' = <<>>
           \/ awaited' = 0 /\ Transfer.len = 0 /\ AnsweredEmpty' /\ buffer' = <<>>
           \/ awaited' = 0 /\ \E h \in {"FAIL", "BLEH"} : Answered(h, 0)'
  <2>1. ASSUME NEW size \in (IF Refuses THEN 1..Transfer.len ELSE {}) \cup {Transfer.len},
               IF size = 0
                 THEN \E info \in Infos :
                        inp' = inp \o info \o <<Response("DATA", 0), Response("OKAY", 0)>>
                 ELSE Answers("DATA", size),
               awaited' = size, buffer' = <<>>
        PROVE  /\ inp' \in Seq(Responses) /\ awaited' \in Nat /\ buffer' \in Seq(Unit)
               /\ inp = <<>> =>
                    \/ awaited' > 0 /\ Answered("DATA", awaited)' /\ buffer' = <<>>
                    \/ awaited' = 0 /\ Transfer.len = 0 /\ AnsweredEmpty' /\ buffer' = <<>>
    <3>1. size \in Nat /\ (size = 0 => Transfer.len = 0)
      BY <1>2
    <3>2. CASE size = 0
      <4>1. PICK info \in Infos :
              inp' = inp \o info \o <<Response("DATA", 0), Response("OKAY", 0)>>
        BY <2>1, <3>2
      <4>2. inp' \in Seq(Responses) /\ (inp = <<>> => AnsweredEmpty')
        BY <1>2, <4>1, AnswersEmptyType
      <4> QED BY <1>2, <2>1, <3>1, <3>2, <4>2
    <3>3. CASE size # 0
      <4>1. Answers("DATA", size) /\ "DATA" \in Headers
        BY <2>1, <3>3 DEF Headers
      <4>2. inp' \in Seq(Responses) /\ (inp = <<>> => Answered("DATA", size)')
        BY <1>2, <3>1, <4>1, AnswersType
      <4>3. Answered("DATA", size)' => Answered("DATA", awaited)'
        BY <2>1 DEF Answered
      <4> QED BY <1>2, <2>1, <3>1, <3>3, <4>2, <4>3
    <3> QED BY <3>2, <3>3
  <2>2. ASSUME Fails, UNCHANGED <<awaited, buffer>>
        PROVE  /\ inp' \in Seq(Responses) /\ awaited' \in Nat /\ buffer' \in Seq(Unit)
               /\ inp = <<>> => awaited' = 0 /\ \E h \in {"FAIL", "BLEH"} : Answered(h, 0)'
    <3>1. PICK h \in {"FAIL", "BLEH"} : Answers(h, 0)
      BY <2>2 DEF Fails
    <3>2. inp' \in Seq(Responses) /\ (inp = <<>> => Answered(h, 0)')
      BY <1>2, <3>1, AnswersType DEF Headers
    <3> QED BY <1>1, <1>2, <2>2, <3>2
  <2> QED BY <2>1, <2>2 DEF BootDownload
<1>4. /\ FastbootType' /\ Overtaken' /\ Pending' = <<>>
      /\ (Clean' <=> Clean) /\ (Refused' <=> Refused) /\ (FromFile' <=> FromFile)
      /\ out # <<>> /\ out' = <<>>
      /\ UNCHANGED <<pc, call, kind, source_len, source_file, length, status, file>>
  BY <1>1, <1>2, <1>3, BootType
<1>5. FlashedIsFile' /\ OkayIsOwn'
  <2>1. UNCHANGED <<status, flashed, okayed>> /\ \A n \in Calls : kind'[n] = kind[n] /\ file'[n] = file[n]
    BY <1>1, <1>4
  <2> QED BY <2>1, CallsKept
<1>6. Phases'
  <2> SUFFICES ASSUME Clean, pc # "write" \/ length > 0 PROVE Phases'
    BY <1>4 DEF Phases, IdlePhase, AskPhase, WritePhase, OkayPhase, FlashPhase, SimplePhase
  <2>1. /\ pc = "accept_data" /\ inp = <<>> /\ (FromFile => file[call] = source_file)
        /\ Transfer.len = source_len
    BY <1>1, OnItsWay
  <2>2. AskPhase'
    BY <1>3, <1>4, <2>1 DEF AskPhase
  <2> QED BY <1>4, <2>1, <2>2 DEF Phases, IdlePhase, WritePhase, OkayPhase, FlashPhase, SimplePhase
<1> QED BY <1>4, <1>5, <1>6

LEMMA BootSimpleKeeps ==
  ASSUME FastbootInv, BootSimple
  PROVE  FastbootType' /\ Phases' /\ Overtaken' /\ FlashedIsFile' /\ OkayIsOwn'
<1> DEFINE carried == /\ okayed' = okayed \cup {Transfer.call}
                      /\ flashed' = IF Transfer.type = "flash"
                                      THEN [flashed EXCEPT ![Transfer.call] = buffer] ELSE flashed
<1>0. FastbootType
  BY DEF FastbootInv
<1>1. /\ Takes /\ awaited = 0 /\ Transfer.type \in {"flash", "erase"} /\ out # <<>>
      /\ UNCHANGED hostVars /\ UNCHANGED <<awaited, buffer>>
  BY DEF BootSimple, Takes
<1>2. /\ inp \in Seq(Responses) /\ buffer \in Seq(Unit) /\ awaited \in Nat
      /\ flashed \in [Calls -> Seq(Unit)] /\ okayed \subseteq Calls
      /\ Transfer.call \in Calls
  BY <1>0, <1>1 DEF FastbootType, TypeOK, Sending
<1>3. PICK h \in Headers \ {"INFO"} :
        /\ Answers(h, 0)
        /\ \/ h = "OKAY" /\ carried
           \/ h # "OKAY" /\ UNCHANGED <<flashed, okayed>>
  <2>1. CASE Answers("OKAY", 0) /\ carried
    BY <2>1 DEF Headers
  <2>2. CASE Fails /\ UNCHANGED <<flashed, okayed>>
    BY <2>2 DEF Fails, Headers
  <2>3. CASE Answers("DATA", 0) /\ UNCHANGED <<flashed, okayed>>
    BY <2>3 DEF Headers
  <2> QED BY <2>1, <2>2, <2>3 DEF BootSimple
<1>4. inp' \in Seq(Responses) /\ (inp = <<>> => Answered(h, 0)')
  BY <1>2, <1>3, AnswersType
<1>5. /\ flashed' \in [Calls -> Seq(Unit)] /\ okayed' \subseteq Calls
      /\ okayed \subseteq okayed'
      /\ \A n \in Calls : n # Transfer.call => flashed'[n] = flashed[n]
      /\ h = "OKAY" => /\ Transfer.call \in okayed'
                       /\ Transfer.type = "flash" => flashed'[Transfer.call] = buffer
  <2>1. CASE carried
    BY <1>2, <1>3, <2>1
  <2>2. CASE h # "OKAY" /\ UNCHANGED <<flashed, okayed>>
    BY <1>2, <2>2
  <2> QED BY <1>3, <2>1, <2>2
<1>6. /\ FastbootType' /\ Overtaken' /\ Pending' = <<>>
      /\ (Clean' <=> Clean) /\ (Refused' <=> Refused) /\ (FromFile' <=> FromFile)
      /\ out # <<>> /\ out' = <<>>
      /\ UNCHANGED <<pc, call, kind, source_len, source_file, length, status, file>>
  BY <1>1, <1>2, <1>4, <1>5, BootType
<1>7. \A n, ends : NoneBefore(n, ends)' <=> NoneBefore(n, ends)
  BY <1>6 DEF NoneBefore
<1>8. FlashedIsFile'
  <2> SUFFICES ASSUME NEW n \in Calls, kind[n] = "flash_from_file", status[n] = "returned",
                      NoneBefore(n, {"timeout"})
               PROVE  flashed'[n] = file[n]
    BY <1>6, <1>7 DEF FlashedIsFile
  <2>1. n # Transfer.call
    BY <1>1 DEF FastbootInv, Overtaken, Sending
  <2> QED BY <1>5, <2>1 DEF FastbootInv, FlashedIsFile
<1>9. OkayIsOwn'
  BY <1>5, <1>6, <1>7 DEF FastbootInv, OkayIsOwn
<1>10. Phases'
  <2> SUFFICES ASSUME Clean, pc # "write" \/ length > 0 PROVE Phases'
    BY <1>6 DEF Phases, IdlePhase, AskPhase, WritePhase, OkayPhase, FlashPhase, SimplePhase
  <2>1. /\ pc = "simple" /\ inp = <<>> /\ Transfer.call = call
        /\ FromFile => Transfer.type = "flash" /\ file[call] = buffer
    BY <1>1, OnItsWay
  <2>2. h = "OKAY" => call \in okayed' /\ (FromFile => flashed'[call] = file[call])
    BY <1>5, <2>1
  <2>3. SimplePhase'
    BY <1>1, <1>4, <1>6, <2>1, <2>2 DEF SimplePhase
  <2> QED BY <1>6, <2>1, <2>3 DEF Phases, IdlePhase, AskPhase, WritePhase, OkayPhase, FlashPhase
<1> QED BY <1>6, <1>8, <1>9, <1>10

LEMMA BootStrayKeeps ==
  ASSUME FastbootInv, BootStray
  PROVE  FastbootType' /\ Phases' /\ Overtaken' /\ FlashedIsFile' /\ OkayIsOwn'
<1>0. FastbootType
  BY DEF FastbootInv
<1>1. /\ Takes /\ awaited = 0 /\ Transfer.type = "data" /\ out # <<>>
      /\ UNCHANGED hostVars /\ UNCHANGED <<awaited, buffer, flashed, okayed>>
      /\ inp' = inp \/ Fails
  BY DEF BootStray, Takes, bootVars
<1>2. /\ inp \in Seq(Responses) /\ buffer' \in Seq(Unit) /\ awaited' \in Nat
      /\ flashed' \in [Calls -> Seq(Unit)] /\ okayed' \subseteq Calls
  BY <1>0, <1>1 DEF FastbootType, TypeOK
<1>3. inp' \in Seq(Responses)
  <2>1. CASE inp' = inp
    BY <1>2, <2>1
  <2>2. CASE Fails
    <3>1. PICK h \in {"FAIL", "BLEH"} : Answers(h, 0)
      BY <2>2 DEF Fails
    <3> QED BY <1>2, <3>1, AnswersType DEF Headers
  <2> QED BY <1>1, <2>1, <2>2
<1>4. /\ FastbootType' /\ Overtaken'
      /\ (Clean' <=> Clean)
      /\ UNCHANGED <<pc, call, kind, source_len, source_file, length, status, file>>
  BY <1>1, <1>2, <1>3, BootType
<1>5. FlashedIsFile' /\ OkayIsOwn'
  <2>1. UNCHANGED <<status, flashed, okayed>> /\ \A n \in Calls : kind'[n] = kind[n] /\ file'[n] = file[n]
    BY <1>1, <1>4
  <2> QED BY <2>1, CallsKept
<1>6. Clean => pc = "write" /\ ~(length > 0)
  <2>1. ~(awaited > 0)
    BY <1>1
  <2> QED BY <1>1, <2>1, OnItsWay
<1>7. Phases'
  BY <1>4, <1>6 DEF Phases, IdlePhase, AskPhase, WritePhase, OkayPhase, FlashPhase, SimplePhase
<1> QED BY <1>4, <1>5, <1>7

-----------------------------------------------------------------------------
LEMMA StutterKeeps ==
  ASSUME FastbootInv, UNCHANGED vars
  PROVE  FastbootType' /\ Phases' /\ Overtaken' /\ FlashedIsFile' /\ OkayIsOwn'
<1>1. /\ UNCHANGED <<pc, call, kind, source_len, source_file, length, status, file>>
      /\ UNCHANGED <<out, inp, awaited, buffer, flashed, okayed>>
  BY DEF vars, hostVars, bootVars
<1>2. Transfer' = Transfer /\ Pending' = Pending /\ (\A name : Sending(name)' <=> Sending(name))
  BY <1>1 DEF Transfer, Pending, Sending
<1>3. FastbootType'
  BY <1>1, <1>2 DEF FastbootInv, FastbootType, TypeOK
<1>4. Overtaken' /\ FlashedIsFile' /\ OkayIsOwn'
  BY <1>1, CallsKept, OvertakenKept
<1>5. (Clean' <=> Clean) /\ (Refused' <=> Refused) /\ (FromFile' <=> FromFile)
  BY <1>1, SameCall
<1>6. AnsweredEmpty' <=> AnsweredEmpty
  BY <1>1 DEF AnsweredEmpty
<1>7. \A h, size : Answered(h, size)' <=> Answered(h, size)
  BY <1>1 DEF Answered
<1>8. Answered("DATA", awaited)' <=> Answered("DATA", awaited)
  BY <1>1 DEF Answered
<1>9. Phases'
  <2> SUFFICES ASSUME Clean
               PROVE  /\ IdlePhase' /\ AskPhase' /\ WritePhase'
                      /\ OkayPhase' /\ FlashPhase' /\ SimplePhase'
    BY <1>5 DEF Phases
  <2>1. IdlePhase /\ AskPhase /\ WritePhase /\ OkayPhase /\ FlashPhase /\ SimplePhase
    BY DEF FastbootInv, Phases
  <2>2. IdlePhase' /\ WritePhase' /\ FlashPhase'
    BY <1>1, <1>2, <1>5, <2>1 DEF IdlePhase, WritePhase, FlashPhase
  <2>3. AskPhase'
    BY <1>1, <1>5, <1>6, <1>7, <1>8, <2>1 DEF AskPhase
  <2>4. OkayPhase'
    BY <1>1, <1>2, <1>5, <1>7, <2>1 DEF OkayPhase
  <2>5. SimplePhase'
    BY <1>1, <1>2, <1>5, <1>7, <2>1 DEF SimplePhase
  <2> QED BY <2>2, <2>3, <2>4, <2>5
<1> QED BY <1>3, <1>4, <1>9

LEMMA FastbootInvInit == Init => FastbootInv
<1> SUFFICES ASSUME Init PROVE FastbootInv
  OBVIOUS
<1>1. /\ pc = "idle" /\ call = 0 /\ source_len = 0 /\ source_file = <<>> /\ length = 0
      /\ out = <<>> /\ inp = <<>> /\ awaited = 0 /\ buffer = <<>> /\ okayed = {}
      /\ kind = [n \in Calls |-> "none"] /\ status = [n \in Calls |-> "none"]
      /\ file = [n \in Calls |-> <<>>] /\ flashed = [n \in Calls |-> <<>>]
  BY DEF Init
<1>2. <<>> \in Seq(Unit) /\ <<>> \in Seq(Responses) /\ Len(<<>>) = 0 /\ MaxCalls \in Nat
  BY FastbootAssumption
<1>3. TypeOK
  <2>1. "none" \in Statuses /\ \A i \in 1..Len(inp) : FALSE
    BY <1>1, <1>2 DEF Statuses
  <2> QED BY <1>1, <1>2, <2>1 DEF TypeOK
<1>4. FastbootType
  BY <1>1, <1>2, <1>3 DEF FastbootType, Sending
<1>5. Phases
  BY <1>1 DEF Phases, IdlePhase, AskPhase, WritePhase, OkayPhase, FlashPhase, SimplePhase
<1>6. Overtaken /\ FlashedIsFile /\ OkayIsOwn
  BY <1>1 DEF Overtaken, Sending, FlashedIsFile, OkayIsOwn
<1> QED BY <1>4, <1>5, <1>6, FlashInvInit DEF FastbootInv

LEMMA FastbootInvStep == FastbootInv /\ [Next]_vars => FastbootInv'
<1> SUFFICES ASSUME FastbootInv, [Next]_vars PROVE FastbootInv'
  OBVIOUS
<1>1. FlashInv'
  BY FlashInvStep DEF FastbootInv
<1> SUFFICES FastbootType' /\ Phases' /\ Overtaken' /\ FlashedIsFile' /\ OkayIsOwn'
  BY <1>1 DEF FastbootInv
<1>2. ASSUME NEW k \in {"flash", "erase"}, SimpleCommand(k)
      PROVE  FastbootType' /\ Phases' /\ Overtaken' /\ FlashedIsFile' /\ OkayIsOwn'
  BY <1>2, SimpleCommandKeeps
<1>3. ASSUME NEW k \in {"download", "flash_from_file"}, NEW len \in FileLens,
             NEW extra \in Surpluses, Download(k, len, extra)
      PROVE  FastbootType' /\ Phases' /\ Overtaken' /\ FlashedIsFile' /\ OkayIsOwn'
  BY <1>3, DownloadKeeps
<1>4. CASE SendFlash
  BY <1>4, SendFlashKeeps
<1>5. CASE AcceptInfo
  BY <1>5, AcceptInfoKeeps
<1>6. CASE Reject
  BY <1>6, RejectKeeps
<1>7. CASE AcceptData
  BY <1>1, <1>7, AcceptDataKeeps
<1>8. CASE WriteChunk
  BY <1>1, <1>8, WriteChunkKeeps
<1>9. CASE AcceptOkay
  BY <1>9, AcceptOkayKeeps
<1>10. CASE ReadTimeout \/ WriteTimeout
  BY <1>10, TimeoutKeeps
<1>11. CASE BootData
  BY <1>11, BootDataKeeps
<1>12. CASE BootDownload
  BY <1>12, BootDownloadKeeps
<1>13. CASE BootSimple
  BY <1>13, BootSimpleKeeps
<1>14. CASE BootStray
  BY <1>14, BootStrayKeeps
<1>15. CASE UNCHANGED vars
  BY <1>15, StutterKeeps
<1> QED BY <1>2, <1>3, <1>4, <1>5, <1>6, <1>7, <1>8, <1>9, <1>10, <1>11, <1>12, <1>13,
           <1>14, <1>15 DEF Next, Host, Boot

(* Every variable of the host and of the bootloader keeps its type, and    *)
(* _Write never counts below 0 but for a text longer than its characters.  *)
THEOREM FastbootTypeCorrect == Spec => []TypeOK
<1>1. FastbootInv => TypeOK
  BY DEF FastbootInv, FastbootType
<1> QED BY FastbootInvInit, FastbootInvStep, <1>1, PTL DEF Spec

(* When FlashFromFile returns, the partition holds its file, whole and in  *)
(* order, unless a call before it timed out: for every file, every size of *)
(* chunk and every answer of the bootloader.                               *)
THEOREM FlashedAlwaysFile == Spec => []FlashedIsFile
<1>1. FastbootInv => FlashedIsFile
  BY DEF FastbootInv
<1> QED BY FastbootInvInit, FastbootInvStep, <1>1, PTL DEF Spec

(* A simple command that returns was carried out by the bootloader, unless *)
(* a call before it timed out or left the bootloader waiting for data.     *)
THEOREM OkayAlwaysOwn == Spec => []OkayIsOwn
<1>1. FastbootInv => OkayIsOwn
  BY DEF FastbootInv
<1> QED BY FastbootInvInit, FastbootInvStep, <1>1, PTL DEF Spec
=============================================================================
