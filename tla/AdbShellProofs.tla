--------------------------- MODULE AdbShellProofs ---------------------------
(***************************************************************************)
(* Theorems of AdbShell, for any number of calls, threads and ids, any     *)
(* queue capacity and any traffic left by an earlier process; then of      *)
(* DeviceSession, where pushes run beside the calls.                       *)
(***************************************************************************)
EXTENDS DeviceSession, AdbProtocolProofs

LEMMA CommandType == \A c \in Shells : Command(c) \in Data
BY ShellAssumption DEF Command, Data

(* TypeOK is not inductive: it also needs the ids of calls in progress to  *)
(* be ids that have a queue.                                               *)
CallIds ==
  \A c \in Shells :
    /\ pc[c] = "store" => loaded[c] + 2 \in LocalIds
    /\ pc[c] = "return" => base_id \in LocalIds
    /\ pc[c] \in {"open", "open_data", "await", "connected", "closed", "returned"}
         => local_id[c] \in LocalIds
    /\ task[c] # "none" => local_id[c] \in LocalIds

ShellTypeOK == TypeOK /\ CallIds

LEMMA ShellInitType ==
  ASSUME Init
  PROVE  ShellTypeOK
<1>1. TypeOK
  BY AuthInitType, NoDataType DEF Init, TypeOK, Pc, NoChunk
<1>2. CallIds
  BY DEF Init, CallIds
<1>3. QED
  BY <1>1, <1>2 DEF ShellTypeOK

LEMMA ShellStutterType ==
  ASSUME ShellTypeOK, UNCHANGED shellVars
  PROVE  AuthTypeOK' => ShellTypeOK'
BY DEF ShellTypeOK, TypeOK, CallIds, shellVars, callVars, taskVars

LEMMA AuthUnchangedType ==
  ASSUME AuthTypeOK, UNCHANGED AuthVars
  PROVE  AuthTypeOK'
BY DEF AuthTypeOK, ProtocolTypeOK, DaemonTypeOK, AuthVars, protocolVars,
       daemonVars, authVars

LEMMA UserUnchangedType ==
  ASSUME AuthTypeOK, UNCHANGED <<daemonVars, authVars>>, ProtocolTypeOK'
  PROVE  AuthTypeOK'
BY DEF AuthTypeOK, DaemonTypeOK, daemonVars, authVars

LEMMA ShellStepType ==
  ASSUME ShellTypeOK, NEW c \in Shells, Call(c) \/ Task(c) \/ Output(c) \/ Close(c)
  PROVE  ShellTypeOK'
<1> USE DEF ShellTypeOK, TypeOK, callVars, taskVars
<1>a. LocalIds \subseteq Nat \ {0} /\ LocalIds \subseteq Keys
  BY ProtocolAssumption DEF Keys
<1>1. CASE CallShell(c)
  <2>1. AuthTypeOK'
    BY <1>1, AuthUnchangedType DEF CallShell
  <2>2. QED
    BY <1>1, <2>1 DEF CallShell, CallIds, Pc
<1>2. CASE StoreId(c)
  <2>1. AuthTypeOK'
    BY <1>2, AuthUnchangedType DEF StoreId
  <2>2. base_id' \in LocalIds
    BY <1>2 DEF StoreId, CallIds
  <2>3. QED
    BY <1>2, <2>1, <2>2 DEF StoreId, CallIds, Pc
<1>3. CASE ReturnId(c)
  <2>1. AuthTypeOK'
    BY <1>3, AuthUnchangedType DEF ReturnId
  <2>2. base_id \in LocalIds
    BY <1>3 DEF ReturnId, CallIds
  <2>3. QED
    BY <1>3, <2>1, <2>2 DEF ReturnId, CallIds, Pc
<1>b. ASSUME local_id[c] \in LocalIds
      PROVE  OpenMsg(c) \in Message /\ OpenMsg(c).arg0 = local_id[c]
  BY <1>a, <1>b, MsgType, CommandType DEF OpenMsg, Commands, Msg
<1>4. CASE SendOpen(c)
  <2>1. local_id[c] \in LocalIds
    BY <1>4 DEF SendOpen, CallIds
  <2>2. ProtocolTypeOK'
    BY <1>4, <2>1, <1>b, PutHeaderType DEF SendOpen, AuthTypeOK
  <2>3. AuthTypeOK'
    BY <1>4, <2>2, UserUnchangedType DEF SendOpen
  <2>4. QED
    BY <1>4, <2>1, <2>3 DEF SendOpen, CallIds, Pc
<1>5. CASE SendOpenPayload(c)
  <2>1. local_id[c] \in LocalIds
    BY <1>5 DEF SendOpenPayload, CallIds
  <2>2. ProtocolTypeOK'
    BY <1>5, <2>1, <1>b, PutPayloadType DEF SendOpenPayload, AuthTypeOK
  <2>3. AuthTypeOK'
    BY <1>5, <2>2, UserUnchangedType DEF SendOpenPayload
  <2>4. QED
    BY <1>5, <2>1, <2>3 DEF SendOpenPayload, CallIds, Pc
<1>6. CASE OpenAnswer(c)
  <2>1. local_id[c] \in LocalIds
    BY <1>6 DEF OpenAnswer, CallIds
  <2>2. ProtocolTypeOK' /\ Response(local_id[c]) \in Message
    BY <1>6, <2>1, <1>a, TakeType DEF OpenAnswer, AuthTypeOK
  <2>3. AuthTypeOK'
    BY <1>6, <2>2, UserUnchangedType DEF OpenAnswer
  <2>4. Response(local_id[c]).arg0 \in Nat
    BY <2>2 DEF Message
  <2>5. QED
    BY <1>6, <2>1, <2>3, <2>4, ZenonT(40) DEF OpenAnswer, CallIds, Pc
<1>7. CASE ReturnOutput(c)
  <2>1. AuthTypeOK'
    BY <1>7, AuthUnchangedType DEF ReturnOutput
  <2>2. QED
    BY <1>7, <2>1 DEF ReturnOutput, CallIds, Pc
<1>8. CASE TaskReceive(c)
  <2>1. local_id[c] \in LocalIds
    BY <1>8 DEF TaskReceive, CallIds
  <2>2. ProtocolTypeOK' /\ Response(local_id[c]) \in Message
    BY <1>8, <2>1, <1>a, TakeType DEF TaskReceive, AuthTypeOK
  <2>3. AuthTypeOK'
    BY <1>8, <2>2, UserUnchangedType DEF TaskReceive
  <2>4. Response(local_id[c]).data \in Data
    BY <2>2 DEF Message
  <2>5. QED
    BY <1>8, <2>1, <2>3, <2>4 DEF TaskReceive, CallIds
<1>9. CASE TaskPut(c)
  <2>1. AuthTypeOK'
    BY <1>9, AuthUnchangedType DEF TaskPut
  <2>2. QED
    BY <1>9, <2>1, NoDataType DEF TaskPut, CallIds, NoChunk
<1>10. CASE Output(c)
  <2>1. AuthTypeOK'
    BY <1>10, AuthUnchangedType DEF Output
  <2>2. queue[c] \in Seq(Data) /\ Head(queue[c]) \in Data /\ Tail(queue[c]) \in Seq(Data)
    BY <1>10, HeadTailProperties DEF Output
  <2>3. QED
    BY <1>10, <2>1, <2>2 DEF Output, CallIds
<1>11. CASE Close(c)
  <2>1. local_id[c] \in LocalIds /\ remote_id[c] \in Nat
    BY <1>11 DEF Close, CallIds
  <2>2. Msg("CLSE", local_id[c], remote_id[c], NoData) \in Message
    BY <2>1, <1>a, MsgType, NoDataType DEF Commands
  <2>3. Msg("CLSE", local_id[c], remote_id[c], NoData).cmd = "CLSE"
    BY DEF Msg
  <2>4. ProtocolTypeOK'
    BY <1>11, <2>2, <2>3, PutHeaderType DEF Close, AuthTypeOK
  <2>5. AuthTypeOK'
    BY <1>11, <2>4, UserUnchangedType DEF Close
  <2>6. QED
    BY <1>11, <2>1, <2>5 DEF Close, CallIds, Pc
<1>12. QED
  BY <1>1, <1>2, <1>3, <1>4, <1>5, <1>6, <1>7, <1>8, <1>9, <1>10, <1>11
     DEF Call, Task

LEMMA ShellTypeStep == ShellTypeOK /\ [Next]_vars => ShellTypeOK'
<1>1. ASSUME ShellTypeOK, AuthNext, UNCHANGED shellVars
      PROVE  ShellTypeOK'
  BY <1>1, AuthNextType, ShellStutterType DEF ShellTypeOK, TypeOK
<1>2. ASSUME ShellTypeOK, UNCHANGED vars
      PROVE  ShellTypeOK'
  BY <1>2, AuthUnchangedType, ShellStutterType DEF vars, ShellTypeOK, TypeOK
<1>3. QED
  BY <1>1, <1>2, ShellStepType DEF Next, Use

(* Type correctness of shells over the multiplexer: every id in use has a  *)
(* queue, every response a task holds is data (libadb/device.py shell,     *)
(* libadb/connection.py main_loop).                                        *)
THEOREM ShellTypeCorrect == Spec => []TypeOK
<1>1. Spec => []ShellTypeOK
  BY ShellInitType, ShellTypeStep, PTL DEF Spec
<1>2. ShellTypeOK => TypeOK
  BY DEF ShellTypeOK
<1>3. QED
  BY <1>1, <1>2, PTL

-----------------------------------------------------------------------------
(* Frames of an earlier process: a call only opens a stream, and so a      *)
(* queue, once the device is connected, and then nothing stale is left.    *)

CallsConnected == \A c \in Shells : pc[c] # "idle" => auth_pc = "done"
TasksConnected == \A c \in Shells : task[c] # "none" => auth_pc = "done"
ShellStaleInv == StaleInv /\ CallsConnected /\ TasksConnected

LEMMA ShellStaleStep ==
  ASSUME ShellTypeOK, ShellStaleInv, NEW c \in Shells,
         Call(c) \/ Task(c) \/ Output(c) \/ Close(c)
  PROVE  ShellStaleInv'
<1>a. AuthTypeOK /\ LocalIds \subseteq Keys \ {Default} /\ LocalIds \subseteq Nat
  BY ProtocolAssumption DEF ShellTypeOK, TypeOK, Keys, Default
<1>b. auth_pc' = auth_pc
  BY DEF Call, CallShell, StoreId, ReturnId, SendOpen, SendOpenPayload, OpenAnswer,
         ReturnOutput, Task, TaskReceive, TaskPut, Output, Close, AuthVars, authVars
<1>c. CallsConnected' /\ TasksConnected'
  BY <1>b DEF ShellStaleInv, CallsConnected, TasksConnected, ShellTypeOK, TypeOK,
     Call, CallShell, StoreId, ReturnId, SendOpen, SendOpenPayload, OpenAnswer,
     ReturnOutput, Task, TaskReceive, TaskPut, Output, Close, callVars, taskVars
<1>d. AnswerTaken' <=> AnswerTaken
  BY <1>b DEF AnswerTaken
<1>1. CASE UNCHANGED AuthVars
  BY <1>1, <1>c, StaleUnchanged DEF ShellStaleInv
<1>2. CASE SendOpen(c) \/ SendOpenPayload(c)
  <2>1. auth_pc = "done" /\ local_id[c] \in LocalIds
    BY <1>2 DEF SendOpen, SendOpenPayload, ShellStaleInv, CallsConnected, ShellTypeOK, CallIds
  <2>2. OpenMsg(c) \in Message /\ OpenMsg(c).cmd = "OPEN"
    BY <1>a, <2>1, MsgType, CommandType DEF OpenMsg, Commands, Msg
  <2>3. Payload(OpenMsg(c)) \in Message /\ Payload(OpenMsg(c)).cmd = "DATA"
    BY <2>2, PayloadType DEF Payload, Message
  <2>4. CASE SendOpen(c)
    BY <1>a, <1>b, <1>c, <1>d, <2>1, <2>2, <2>4, StalePut
       DEF SendOpen, PutHeader, daemonVars, ShellStaleInv
  <2>5. CASE SendOpenPayload(c)
    BY <1>a, <1>b, <1>c, <1>d, <2>1, <2>3, <2>5, StalePut
       DEF SendOpenPayload, PutPayload, daemonVars, ShellStaleInv
  <2>6. QED
    BY <1>2, <2>4, <2>5
<1>3. CASE OpenAnswer(c) \/ TaskReceive(c)
  <2>1. local_id[c] \in LocalIds
    BY <1>3 DEF OpenAnswer, TaskReceive, ShellTypeOK, CallIds
  <2>2. Take(local_id[c]) /\ UNCHANGED stream
    BY <1>3 DEF OpenAnswer, TaskReceive, daemonVars
  <2>3. QED
    BY <1>a, <1>b, <1>c, <1>d, <2>1, <2>2, StaleTake DEF ShellStaleInv
<1>4. CASE Close(c)
  <2>1. auth_pc = "done" /\ local_id[c] \in LocalIds /\ remote_id[c] \in Nat
    BY <1>4 DEF Close, ShellStaleInv, CallsConnected, ShellTypeOK, TypeOK, CallIds
  <2>2. Msg("CLSE", local_id[c], remote_id[c], NoData) \in Message
    BY <1>a, <2>1, MsgType, NoDataType DEF Commands
  <2>3. Msg("CLSE", local_id[c], remote_id[c], NoData).cmd = "CLSE"
    BY DEF Msg
  <2>4. QED
    BY <1>4, <1>a, <1>b, <1>c, <1>d, <2>1, <2>2, <2>3, StalePut
       DEF Close, PutHeader, daemonVars, ShellStaleInv
<1>5. QED
  BY <1>1, <1>2, <1>3, <1>4 DEF Call, CallShell, StoreId, ReturnId, ReturnOutput, Task,
     TaskPut, Output

LEMMA ShellStaleInit ==
  ASSUME Init
  PROVE  ShellStaleInv
BY StaleInit DEF Init, ShellStaleInv, CallsConnected, TasksConnected

LEMMA ShellStaleNext ==
  ASSUME ShellTypeOK, ShellStaleInv, [Next]_vars
  PROVE  ShellStaleInv'
<1>1. CASE AuthNext /\ UNCHANGED shellVars
  <2>1. CallsConnected' /\ TasksConnected'
    BY <1>1, AuthKeepsDone
       DEF ShellStaleInv, CallsConnected, TasksConnected, shellVars, callVars, taskVars
  <2>2. QED
    BY <1>1, <2>1, StaleStep DEF ShellStaleInv, ShellTypeOK, TypeOK
<1>2. CASE UNCHANGED vars
  BY <1>2, StaleUnchanged DEF ShellStaleInv, CallsConnected, TasksConnected, vars,
     AuthVars, authVars, shellVars, callVars, taskVars
<1>3. QED
  BY <1>1, <1>2, ShellStaleStep DEF Next, Use

(* A shell never sees a frame of an earlier host process, although every   *)
(* process gives out the same ids from 12 on (libadb/device.py new_id and  *)
(* shell, libadb/protocol.py receive_loop).                                *)
THEOREM ShellNeverStale == Spec => []StaleNeverDelivered
<1> DEFINE I == ShellTypeOK /\ ShellStaleInv
<1>1. Init => I
  BY ShellInitType, ShellStaleInit
<1>2. I /\ [Next]_vars => I'
  BY ShellTypeStep, ShellStaleNext
<1>3. I => StaleNeverDelivered
  BY DEF ShellStaleInv, StaleInv, QueuesClean, StaleNeverDelivered
<1>4. QED
  BY <1>1, <1>2, <1>3, PTL DEF Spec

-----------------------------------------------------------------------------
(* Ids of calls made by one thread.  Between two loads of base_id no other *)
(* call runs, so every call returns an id above all earlier ones.          *)

OneCaller == \A c, d \in Shells : Thread[c] = Thread[d]

LocalIdsDistinct ==
  \A c, d \in Shells : c # d /\ local_id[c] # 0 => local_id[c] # local_id[d]

IdsGrow ==
  /\ \A c, d \in Shells : c # d /\ pc[c] \in InCall => pc[d] \notin InCall
  /\ \A c \in Shells : local_id[c] <= base_id
  /\ \A c \in Shells : pc[c] \in {"idle", "store", "return"} => local_id[c] = 0
  /\ \A c \in Shells : pc[c] = "store" => loaded[c] = base_id
  /\ \A c, d \in Shells : pc[c] = "return" => local_id[d] < base_id
  /\ LocalIdsDistinct

LEMMA IdsGrowStep ==
  ASSUME OneCaller, ShellTypeOK, IdsGrow, NEW c \in Shells, Call(c)
  PROVE  IdsGrow'
<1>b. /\ pc \in [Shells -> Pc]
      /\ local_id \in [Shells -> LocalIds \cup {0}]
      /\ loaded \in [Shells -> LocalIds \cup {0, 10}]
      /\ base_id \in LocalIds \cup {10}
  BY DEF ShellTypeOK, TypeOK
<1>c. LocalIds \subseteq Nat
  BY ProtocolAssumption
<1>a. base_id \in Nat /\ \A d \in Shells : local_id[d] \in Nat /\ loaded[d] \in Nat
  <2>1. base_id \in Nat
    BY <1>b, <1>c
  <2>2. ASSUME NEW d \in Shells PROVE local_id[d] \in Nat /\ loaded[d] \in Nat
    <3>1. local_id[d] \in LocalIds \cup {0} /\ loaded[d] \in LocalIds \cup {0, 10}
      BY <1>b
    <3>2. \A x : x \in LocalIds \cup {0, 10} => x \in Nat
      BY <1>c
    <3>3. local_id[d] \in LocalIds \cup {0, 10}
      BY <3>1
    <3>4. QED
      BY <3>1, <3>2, <3>3
  <2>3. QED
    BY <2>1, <2>2
<1>1. CASE CallShell(c)
  <2>1. \A d \in Shells \ {c} : pc[d] \notin InCall
    BY <1>1 DEF CallShell, ThreadFree, OneCaller
  <2>2. QED
    BY <1>1, <1>a, <1>b, <2>1 DEF CallShell, IdsGrow, InCall, LocalIdsDistinct
<1>2. CASE StoreId(c)
  <2>1. base_id' = base_id + 2 /\ local_id' = local_id
    BY <1>2 DEF StoreId, IdsGrow
  <2>2. QED
    BY <1>2, <1>a, <1>b, <2>1 DEF StoreId, IdsGrow, InCall, LocalIdsDistinct
<1>3. CASE ReturnId(c)
  <2>1. \A d \in Shells : local_id[d] < base_id
    BY <1>3 DEF ReturnId, IdsGrow
  <2>2. local_id'[c] = base_id /\ base_id' = base_id
        /\ \A d \in Shells \ {c} : local_id'[d] = local_id[d]
    BY <1>3, <1>b DEF ReturnId
  <2>3. QED
    BY <1>3, <1>a, <1>b, <2>1, <2>2 DEF ReturnId, IdsGrow, InCall, LocalIdsDistinct
<1>4. CASE UNCHANGED <<base_id, loaded, local_id>> /\ pc[c] \notin {"idle", "store", "return"}
  <2>1. /\ \A d \in Shells \ {c} : pc'[d] = pc[d]
        /\ pc'[c] \notin {"idle", "store", "return"}
        /\ pc'[c] \in InCall => pc[c] \in InCall
    BY <1>4, <1>b DEF Call, CallShell, StoreId, ReturnId, SendOpen, SendOpenPayload,
       OpenAnswer, ReturnOutput, InCall
  <2>2. QED
    BY <1>4, <2>1 DEF IdsGrow, LocalIdsDistinct
<1>5. QED
  BY <1>1, <1>2, <1>3, <1>4 DEF Call, SendOpen, SendOpenPayload, OpenAnswer, ReturnOutput

(* Calls made by one thread never share a local id (new_id); two threads   *)
(* may, since "+= 2" and the return are three separate accesses.           *)
THEOREM OneCallerIdsDistinct == OneCaller => (Spec => []LocalIdsDistinct)
<1> SUFFICES ASSUME OneCaller PROVE Spec => []LocalIdsDistinct
  OBVIOUS
<1> DEFINE I == ShellTypeOK /\ IdsGrow
<1>1. Init => I
  BY ShellInitType DEF Init, IdsGrow, InCall, LocalIdsDistinct
<1>2. I /\ [Next]_vars => I'
  <2>1. ASSUME I, UNCHANGED callVars PROVE IdsGrow'
    BY <2>1 DEF IdsGrow, LocalIdsDistinct, callVars
  <2>2. ASSUME I, NEW c \in Shells, Close(c) PROVE IdsGrow'
    BY <2>2 DEF Close, IdsGrow, InCall, LocalIdsDistinct, ShellTypeOK, TypeOK
  <2>3. ASSUME I, NEW c \in Shells, Call(c) PROVE IdsGrow'
    BY <2>3, IdsGrowStep
  <2>4. QED
    BY <2>1, <2>2, <2>3, ShellTypeStep
       DEF Next, Use, vars, shellVars, Task, TaskReceive, TaskPut, Output
<1>3. I => LocalIdsDistinct
  BY DEF IdsGrow
<1>4. QED
  BY <1>1, <1>2, <1>3, PTL DEF Spec

-----------------------------------------------------------------------------
(* The output of a call.  What a call has taken from its stream (the OKAY, *)
(* the chunks it has got, CLSE), followed by what is still on its way, is  *)
(* all that adbd has said, in order.                                       *)
Taken(c) ==
  IF remote_id[c] = 0 THEN 0
  ELSE Len(Got(c)) + 1 + (IF task[c] = "ended" THEN 1 ELSE 0)

(* Stream r is, or may become, the stream of call c.                       *)
Mine(c, r) ==
  /\ stream[r].st # "none"
  /\ stream[r].peer = local_id[c]
  /\ pc[c] # "refused"
  /\ remote_id[c] \in {0, r}

CallsInOrder ==
  \A c \in Shells, r \in RemoteIds : Mine(c, r) => InOrder(r, Said, Taken(c)) /\ Numbered(r)

CallState(c) ==
  /\ pc[c] \in {"idle", "store", "return"} => local_id[c] = 0
  /\ remote_id[c] = 0 =>
       /\ task[c] = "none" /\ queue[c] = <<>> /\ result[c] = <<>>
       /\ pc[c] \notin {"connected", "closed", "returned"}
  /\ remote_id[c] # 0 =>
       /\ remote_id[c] \in RemoteIds
       /\ stream[remote_id[c]].st # "none"
       /\ stream[remote_id[c]].peer = local_id[c]
       /\ pc[c] \in {"connected", "closed", "returned"}
       /\ task[c] # "none"
CallStates == \A c \in Shells : CallState(c)
OrderInv == WireInv /\ CallStates /\ CallsInOrder

(* Where there are only calls, no queue but theirs is ever opened, and     *)
(* nothing is written to a service.                                        *)
OpenedByCall == \A k \in opened : \E c \in Shells : local_id[c] = k
OnlyCalls == NoHostWrites /\ OpenedByCall

LEMMA GotType ==
  ASSUME TypeOK, NEW c \in Shells
  PROVE  Got(c) \in Seq(Data) /\ Taken(c) \in Nat
<1>1. /\ result[c] \in Seq(Data) /\ queue[c] \in Seq(Data) /\ hand[c] \in Data
  BY DEF TypeOK
<1>2. (IF task[c] = "put" THEN <<hand[c]>> ELSE <<>>) \in Seq(Data)
  BY <1>1
<1>3. result[c] \o queue[c] \in Seq(Data)
  BY <1>1, ConcatProperties
<1>4. Got(c) \in Seq(Data)
  BY <1>2, <1>3, ConcatProperties DEF Got
<1> QED BY <1>4, LenProperties DEF Taken

LEMMA Regrouped ==
  ASSUME NEW s \in Seq(Data), NEW t \in Seq(Data), NEW u \in Seq(Data)
  PROVE  (s \o t) \o u = s \o (t \o u)
BY ConcatAssociative

(* What passes from the task to the queue, or from it to output(), is not  *)
(* got again.                                                              *)
LEMMA GotStays ==
  ASSUME TypeOK, NEW c \in Shells, TaskPut(c) \/ Output(c)
  PROVE  \A d \in Shells : Got(d)' = Got(d)
<1>1. /\ result \in [Shells -> Seq(Data)] /\ queue \in [Shells -> Seq(Data)]
      /\ hand \in [Shells -> Data] /\ task \in [Shells -> {"none", "receive", "put", "ended"}]
  BY DEF TypeOK
<1>2. result[c] \in Seq(Data) /\ queue[c] \in Seq(Data) /\ hand[c] \in Data
  BY <1>1
<1>3. result[c] \o queue[c] \in Seq(Data)
  BY <1>2, ConcatProperties
<1>4. \A d \in Shells \ {c} : Got(d)' = Got(d)
  BY <1>1 DEF TaskPut, Output, taskVars, Got
<1>5. CASE TaskPut(c)
  <2>1. /\ result'[c] = result[c] /\ queue'[c] = Append(queue[c], hand[c])
        /\ task'[c] = "receive" /\ task[c] = "put"
    BY <1>1, <1>5 DEF TaskPut
  <2>2. queue'[c] = queue[c] \o <<hand[c]>> /\ <<hand[c]>> \in Seq(Data)
    BY <1>2, <2>1, AppendIsConcat
  <2>3. result[c] \o (queue[c] \o <<hand[c]>>) = (result[c] \o queue[c]) \o <<hand[c]>>
    BY <1>2, <2>2, Regrouped
  <2>4. (result[c] \o queue[c]) \o <<hand[c]>> \in Seq(Data)
    BY <1>3, <2>2, ConcatProperties
  <2>5. (result'[c] \o queue'[c]) \o <<>> = result'[c] \o queue'[c]
    BY <2>1, <2>2, <2>3, <2>4, ConcatEmptySeq
  <2>6. Got(c) = (result[c] \o queue[c]) \o <<hand[c]>>
    BY <2>1 DEF Got
  <2>7. Got(c)' = (result'[c] \o queue'[c]) \o <<>>
    BY <2>1 DEF Got
  <2> QED BY <1>4, <2>1, <2>2, <2>3, <2>5, <2>6, <2>7
<1>6. CASE Output(c)
  <2>1. /\ queue[c] # <<>> /\ result'[c] = Append(result[c], Head(queue[c]))
        /\ queue'[c] = Tail(queue[c]) /\ task' = task /\ hand' = hand
    BY <1>1, <1>6 DEF Output, taskVars
  <2>2. PICK h \in Data, t \in Seq(Data) : h = Head(queue[c]) /\ t = Tail(queue[c])
    BY <1>2, <2>1, HeadTailProperties
  <2>3. queue[c] = <<h>> \o t /\ <<h>> \in Seq(Data)
    <3>1. /\ Len(queue[c]) \in Nat \ {0} /\ h = queue[c][1] /\ Len(t) = Len(queue[c]) - 1
          /\ \A i \in 1..Len(t) : t[i] = queue[c][i + 1]
      BY <1>2, <2>1, <2>2, HeadTailProperties, EmptySeq
    <3>2. /\ <<h>> \in Seq(Data) /\ Len(<<h>>) = 1 /\ <<h>>[1] = h
      OBVIOUS
    <3>3. /\ <<h>> \o t \in Seq(Data) /\ Len(<<h>> \o t) = 1 + Len(t)
          /\ \A i \in 1..1 + Len(t) : (<<h>> \o t)[i] = IF i <= 1 THEN <<h>>[i] ELSE t[i - 1]
      BY <3>2, ConcatProperties
    <3>4. Len(<<h>> \o t) = Len(queue[c])
      BY <3>1, <3>3
    <3>5. ASSUME NEW i \in 1..Len(queue[c]) PROVE queue[c][i] = (<<h>> \o t)[i]
      <4>1. CASE i = 1
        BY <3>1, <3>2, <3>3, <4>1
      <4>2. CASE i # 1
        <5>1. i - 1 \in 1..Len(t) /\ (i - 1) + 1 = i /\ ~(i <= 1) /\ i \in 1..1 + Len(t)
          BY <3>1, <4>2
        <5>2. t[i - 1] = queue[c][(i - 1) + 1]
          BY <3>1, <5>1
        <5> QED BY <3>3, <5>1, <5>2
      <4> QED BY <4>1, <4>2
    <3>6. queue[c] = <<h>> \o t
      BY <1>2, <3>3, <3>4, <3>5, SeqEqual
    <3> QED BY <3>2, <3>6
  <2>4. result'[c] = result[c] \o <<h>>
    BY <1>2, <2>1, <2>2, AppendIsConcat
  <2>5. (result[c] \o <<h>>) \o t = result[c] \o (<<h>> \o t)
    BY <1>2, <2>2, <2>3, Regrouped, ZenonT(40)
  <2>6. result'[c] \o queue'[c] = result[c] \o queue[c]
    BY <2>1, <2>2, <2>3, <2>4, <2>5
  <2> QED BY <1>4, <2>1, <2>6 DEF Got
<1> QED BY <1>5, <1>6

LEMMA OrderInit ==
  ASSUME Init
  PROVE  OrderInv /\ OnlyCalls
<1>1. AuthInit /\ WireInv
  BY WireInit DEF Init
<1>2. send_queue = <<>> /\ usb_out = <<>> /\ opened = {}
  BY <1>1 DEF AuthInit, ProtocolInit
<1>3. NoHostWrites /\ OpenedByCall
  BY <1>2 DEF NoHostWrites, OutCmds, Cmds, OpenedByCall
<1>4. CallStates
  BY DEF Init, CallStates, CallState
<1>5. CallsInOrder
  <2> SUFFICES ASSUME NEW r \in RemoteIds, stream[r].st # "none", stream[r].peer = 0 PROVE FALSE
    BY DEF CallsInOrder, Mine, Init
  <2>1. stream[r].peer \in opened
    BY <1>1 DEF WireInv, PeersOpened
  <2> QED BY <1>2, <2>1
<1> QED BY <1>1, <1>3, <1>4, <1>5 DEF OrderInv, OnlyCalls

(* The multiplexer, adbd and authenticate() run on while calls stand.      *)
LEMMA OrderAuthStep ==
  ASSUME ShellTypeOK, OrderInv, AuthNext, UNCHANGED shellVars,
         \A c \in Shells, r \in RemoteIds :
           Mine(c, r) \/ stream[r].st = "none" =>
             ~(FrameReady /\ Frame.cmd = "WRTE" /\ Frame.arg1 = r)
  PROVE  OrderInv'
<1>a. /\ AuthTypeOK /\ WireInv /\ TypeOK
      /\ UNCHANGED <<pc, local_id, remote_id, task, queue, result, hand>>
  BY DEF ShellTypeOK, TypeOK, OrderInv, shellVars, callVars, taskVars
<1>1. WireInv'
  BY <1>a, WireStep
<1>2. ASSUME NEW r \in RemoteIds, stream[r].st # "none"
      PROVE  stream'[r].st # "none" /\ stream'[r].peer = stream[r].peer
  <2>1. CASE Daemon
    BY <1>a, <1>2, <2>1, StreamGrows DEF StreamIds
  <2>2. CASE stream' = stream
    BY <1>2, <2>2
  <2> QED BY <2>1, <2>2 DEF AuthNext, Authenticate, SendConnect, FirstAnswer, SendSignature,
             SecondAnswer, OfferKey, daemonVars
<1>3. CallStates'
  BY <1>a, <1>2 DEF OrderInv, CallStates, CallState
<1>4. ASSUME NEW c \in Shells, NEW r \in RemoteIds, Mine(c, r)'
      PROVE  InOrder(r, Said, Taken(c))' /\ Numbered(r)'
  <2>1. Taken(c)' = Taken(c) /\ Taken(c) \in Nat
    BY <1>a, GotType DEF Taken, Got
  <2>2. PICK lo \in Nat : lo = Taken(c)
    BY <2>1
  <2>3. CASE stream[r].st = "none"
    <3>1. remote_id[c] = 0
      BY <1>4, <1>a, <2>3 DEF Mine, OrderInv, CallStates, CallState
    <3>2. lo = First(Said)
      BY <2>2, <3>1 DEF Taken, First, Said
    <3>3. InOrder(r, Said, lo)'
      BY <1>a, <1>4, <2>3, <3>2, OrderStep DEF Mine, Said
    <3>4. Numbered(r)
      <4>1. \A m \in Frames : FrameOk(m)
        BY <1>a, FramesType
      <4> QED BY <2>3, <4>1 DEF FrameOk, OfStream, Said, Numbered
    <3> QED BY <1>a, <2>1, <2>2, <3>3, <3>4, NumberedStep
  <2>4. CASE stream[r].st # "none"
    <3>1. Mine(c, r)
      BY <1>4, <1>a, <1>2, <2>4 DEF Mine
    <3>2. InOrder(r, Said, lo) /\ Numbered(r)
      BY <2>2, <3>1 DEF OrderInv, CallsInOrder
    <3>3. InOrder(r, Said, lo)'
      BY <1>a, <1>4, <2>4, <3>1, <3>2, OrderStep DEF Mine, Said
    <3> QED BY <1>a, <2>1, <2>2, <3>2, <3>3, NumberedStep
  <2> QED BY <2>3, <2>4
<1> QED BY <1>1, <1>3, <1>4 DEF OrderInv, CallsInOrder

LEMMA OnlyCallsAuthStep ==
  ASSUME AuthTypeOK, OnlyCalls, AuthNext, UNCHANGED shellVars
  PROVE  OnlyCalls' /\ ~(FrameReady /\ Frame.cmd = "WRTE")
<1>1. NoHostWrites' /\ ~(FrameReady /\ Frame.cmd = "WRTE")
  BY HostWritesNothing DEF OnlyCalls
<1>2. opened' = opened
  BY DEF AuthNext, HostThreads, ReceiveLoop, SendLoop, WriteError, ReceiveFrame, AckWrite,
     Deliver, Discard, ChecksumError, Daemon, DevPacket, DevConnect, DevSignature, DevPublicKey,
     DevOpen, DevAck, DevCloseRequest, DevHostWrite, DevIgnore, DevGarbled, DevStreamWrite,
     DevStreamEnd, DevReads, DevWrites, Authenticate, SendConnect, FirstAnswer, SendSignature,
     SecondAnswer, OfferKey, PutHeader, PutPayload, Take, Msg
<1> QED BY <1>1, <1>2 DEF OnlyCalls, OpenedByCall, shellVars, callVars

(* What a call takes from its queue.                                       *)
LEMMA CallTakes ==
  ASSUME ShellTypeOK, ShellStaleInv, OrderInv, NEW c \in Shells,
         OpenAnswer(c) \/ TaskReceive(c)
  PROVE  /\ local_id[c] \in LocalIds /\ Take(local_id[c]) /\ stream' = stream
         /\ Response(local_id[c]) \in Message /\ FrameOk(Response(local_id[c]))
         /\ Response(local_id[c]).arg1 = local_id[c]
         /\ ~IsHandshake(Response(local_id[c]))
         /\ Response(local_id[c]).arg0 \notin StaleIds
         /\ \A k \in LocalIds \ {local_id[c]} : receive_queue'[k] = receive_queue[k]
<1>1. local_id[c] \in LocalIds /\ Take(local_id[c]) /\ stream' = stream
  BY DEF OpenAnswer, TaskReceive, ShellTypeOK, CallIds, daemonVars
<1>2. AuthTypeOK /\ WireInv
  BY DEF ShellTypeOK, TypeOK, OrderInv
<1>3. PICK k \in LocalIds : k = local_id[c]
  BY <1>1
<1>4. /\ Response(k) \in Message /\ FrameOk(Response(k))
      /\ Response(k).arg1 = k /\ ~IsHandshake(Response(k))
      /\ \A l \in Keys \ {k} : receive_queue'[l] = receive_queue[l]
  BY <1>1, <1>2, <1>3, TakenFacts
<1>5. Response(k).arg0 \notin StaleIds
  <2>1. receive_queue[k] # <<>> /\ receive_queue[k] \in Seq(Message)
    BY <1>1, <1>2, <1>3 DEF Take, AuthTypeOK, ProtocolTypeOK, Keys
  <2>2. 1 \in 1..Len(receive_queue[k])
    <3>1. Len(receive_queue[k]) \in Nat \ {0}
      BY <2>1, EmptySeq
    <3> QED BY <3>1
  <2>3. Response(k) = receive_queue[k][1]
    BY <2>1, HeadTailProperties DEF Response
  <2> QED BY <2>2, <2>3 DEF ShellStaleInv, StaleInv, QueuesClean
<1> QED BY <1>1, <1>3, <1>4, <1>5 DEF Keys

(* The OKAY that makes a connection comes from a stream of this session,   *)
(* opened for this call.                                                   *)
LEMMA AnswerIsMine ==
  ASSUME ShellTypeOK, ShellStaleInv, OrderInv, NEW c \in Shells, OpenAnswer(c),
         NEW r, r = Response(local_id[c]).arg0, Response(local_id[c]).cmd = "OKAY"
  PROVE  /\ r \in RemoteIds /\ stream[r].st # "none" /\ stream[r].peer = local_id[c]
         /\ Mine(c, r) /\ remote_id[c] = 0 /\ Taken(c) = 0
<1>1. PICK m \in Message : /\ m = Response(local_id[c]) /\ FrameOk(m)
                           /\ m.arg1 = local_id[c] /\ m.arg0 \notin StaleIds
  BY CallTakes
<1>2. r \in RemoteIds
  BY <1>1 DEF FrameOk, Shaped, StreamIds
<1>3. stream[r].st # "none" /\ stream[r].peer = local_id[c]
  BY <1>1, <1>2 DEF FrameOk, OfStream, Said
<1>4. pc[c] = "await" /\ remote_id[c] = 0
  BY DEF OpenAnswer, OrderInv, CallStates, CallState
<1> QED BY <1>2, <1>3, <1>4 DEF Mine, Taken

(* What a step of a call is to the multiplexer: nothing, a take from the   *)
(* queue of its own id, or a put.                                          *)
ShellPuts(c, m) ==
  /\ Puts(m)
  /\ local_id[c] \in LocalIds
  /\ m.cmd \in {"OPEN", "DATA", "CLSE"}
  /\ m.cmd = "OPEN" => m.arg0 = local_id[c]
  /\ opened' = IF m.cmd = "OPEN" THEN opened \cup {local_id[c]} ELSE opened
  /\ pc[c] # "idle"
  /\ UNCHANGED <<receive_queue, rx_pc, rx_msg, usb_out, usb_in, dev_up, daemonVars, authVars>>

LEMMA ShellDoes ==
  ASSUME ShellTypeOK, NEW c \in Shells, Call(c) \/ Task(c) \/ Output(c) \/ Close(c)
  PROVE  \/ UNCHANGED AuthVars
         \/ /\ local_id[c] \in LocalIds /\ Take(local_id[c])
            /\ UNCHANGED <<daemonVars, authVars>>
         \/ \E m \in Message : ShellPuts(c, m)
<1>1. CASE SendOpen(c) \/ SendOpenPayload(c)
  <2>1. local_id[c] \in LocalIds /\ local_id[c] \in Nat
    BY <1>1, ProtocolAssumption DEF SendOpen, SendOpenPayload, ShellTypeOK, CallIds
  <2>2. PICK m \in Message : m = OpenMsg(c) /\ m.cmd = "OPEN" /\ m.arg0 = local_id[c]
    <3>1. Msg("OPEN", local_id[c], 0, Command(c)) \in Message
      BY <2>1, MsgType, CommandType DEF Commands
    <3> QED BY <3>1 DEF OpenMsg, Msg
  <2>3. PICK p \in Message : p = Payload(m) /\ p.cmd = "DATA"
    BY PayloadType DEF Payload, Message
  <2>4. ShellPuts(c, m) \/ ShellPuts(c, p)
    BY <1>1, <2>1, <2>2, <2>3 DEF SendOpen, SendOpenPayload, PutHeader, PutPayload, ShellPuts, Puts
  <2> QED BY <2>4
<1>2. CASE OpenAnswer(c) \/ TaskReceive(c)
  BY <1>2 DEF OpenAnswer, TaskReceive, ShellTypeOK, CallIds
<1>3. CASE Close(c)
  <2>1. local_id[c] \in LocalIds /\ local_id[c] \in Nat /\ remote_id[c] \in Nat
    BY <1>3, ProtocolAssumption DEF Close, ShellTypeOK, TypeOK, CallIds
  <2>2. PICK m \in Message : m = Msg("CLSE", local_id[c], remote_id[c], NoData) /\ m.cmd = "CLSE"
    <3>1. Msg("CLSE", local_id[c], remote_id[c], NoData) \in Message
      BY <2>1, MsgType, NoDataType DEF Commands
    <3> QED BY <3>1 DEF Msg
  <2>3. ShellPuts(c, m)
    BY <1>3, <2>1, <2>2 DEF Close, PutHeader, ShellPuts, Puts
  <2> QED BY <2>3
<1> QED
  BY <1>1, <1>2, <1>3 DEF Call, CallShell, StoreId, ReturnId, ReturnOutput, Task, TaskPut, Output

LEMMA ShellWire ==
  ASSUME ShellTypeOK, WireInv, NEW c \in Shells, Call(c) \/ Task(c) \/ Output(c) \/ Close(c)
  PROVE  WireInv'
<1>0. AuthTypeOK /\ LocalIds \subseteq Keys
  BY DEF ShellTypeOK, TypeOK, Keys
<1>1. ASSUME Take(local_id[c]), local_id[c] \in LocalIds, UNCHANGED daemonVars
      PROVE  WireInv'
  <2>1. PICK k \in Keys : k = local_id[c]
    BY <1>0, <1>1
  <2> QED BY <1>0, <1>1, <2>1, WireTake DEF daemonVars
<1>2. ASSUME NEW m \in Message, ShellPuts(c, m) PROVE WireInv'
  BY <1>0, <1>2, WirePut DEF ShellPuts, Puts, daemonVars
<1> QED BY <1>1, <1>2, ShellDoes, WireUnchanged

LEMMA ShellOpened ==
  ASSUME ShellTypeOK, OrderInv, OnlyCalls, NEW c \in Shells,
         Call(c) \/ Task(c) \/ Output(c) \/ Close(c)
  PROVE  OnlyCalls'
<1>a. AuthTypeOK /\ NoHostWrites /\ OpenedByCall /\ opened \subseteq LocalIds /\ 0 \notin LocalIds
  BY ProtocolAssumption DEF ShellTypeOK, TypeOK, OnlyCalls, AuthTypeOK, ProtocolTypeOK
<1>b. \A d \in Shells : local_id[d] # 0 => local_id'[d] = local_id[d]
  BY DEF OrderInv, CallStates, CallState, ShellTypeOK, TypeOK, Call, CallShell, StoreId, ReturnId,
     SendOpen, SendOpenPayload, OpenAnswer, ReturnOutput, Task, TaskReceive, TaskPut, Output, Close,
     callVars
<1>1. CASE UNCHANGED <<send_queue, usb_out, opened>>
  BY <1>1, <1>a, <1>b DEF NoHostWrites, OutCmds, OpenedByCall, OnlyCalls
<1>2. ASSUME NEW m \in Message, ShellPuts(c, m) PROVE OnlyCalls'
  <2>1. NoHostWrites'
    BY <1>a, <1>2, OnlinePut DEF NoHostWrites, ShellPuts, Puts
  <2>2. opened' \subseteq opened \cup {local_id[c]} /\ local_id[c] \in LocalIds
    BY <1>2 DEF ShellPuts
  <2>3. OpenedByCall'
    BY <1>a, <1>b, <2>2 DEF OpenedByCall
  <2> QED BY <2>1, <2>3 DEF OnlyCalls
<1> QED BY <1>1, <1>2, ShellDoes DEF AuthVars, protocolVars, Take

LEMMA ShellCallStates ==
  ASSUME ShellTypeOK, ShellStaleInv, OrderInv, NEW c \in Shells,
         Call(c) \/ Task(c) \/ Output(c) \/ Close(c)
  PROVE  CallStates'
<1>a. /\ pc \in [Shells -> Pc] /\ local_id \in [Shells -> LocalIds \cup {0}]
      /\ remote_id \in [Shells -> Nat] /\ task \in [Shells -> {"none", "receive", "put", "ended"}]
      /\ queue \in [Shells -> Seq(Data)] /\ result \in [Shells -> Seq(Data)]
  BY DEF ShellTypeOK, TypeOK
<1>b. stream' = stream
  BY DEF Call, CallShell, StoreId, ReturnId, SendOpen, SendOpenPayload, OpenAnswer, ReturnOutput,
     Task, TaskReceive, TaskPut, Output, Close, AuthVars, daemonVars
<1>1. ASSUME NEW d \in Shells \ {c} PROVE CallState(d)'
  <2>1. /\ pc'[d] = pc[d] /\ local_id'[d] = local_id[d] /\ remote_id'[d] = remote_id[d]
        /\ task'[d] = task[d] /\ queue'[d] = queue[d] /\ result'[d] = result[d]
    BY <1>a DEF Call, CallShell, StoreId, ReturnId, SendOpen, SendOpenPayload, OpenAnswer,
       ReturnOutput, Task, TaskReceive, TaskPut, Output, Close, callVars, taskVars
  <2>2. CallState(d)
    BY DEF OrderInv, CallStates
  <2> QED BY <1>b, <2>1, <2>2 DEF CallState
<1>2. CallState(c)'
  <2>0. CallState(c)
    BY DEF OrderInv, CallStates
  <2>1. CASE CallShell(c) \/ StoreId(c) \/ ReturnId(c) \/ SendOpen(c) \/ SendOpenPayload(c)
    BY <1>a, <1>b, <2>0, <2>1 DEF CallShell, StoreId, ReturnId, SendOpen, SendOpenPayload,
       CallState, taskVars
  <2>2. CASE OpenAnswer(c) /\ Response(local_id[c]).cmd = "OKAY"
    <3>1. PICK r : r = Response(local_id[c]).arg0
      OBVIOUS
    <3>2. r \in RemoteIds /\ stream[r].st # "none" /\ stream[r].peer = local_id[c]
      BY <2>2, <3>1, AnswerIsMine
    <3>3. r # 0
      BY <3>2, ProtocolAssumption
    <3>4. /\ pc'[c] = "connected" /\ remote_id'[c] = r /\ task'[c] = "receive"
          /\ local_id' = local_id
      BY <1>a, <2>2, <3>1 DEF OpenAnswer
    <3> QED BY <1>b, <3>2, <3>3, <3>4 DEF CallState
  <2>3. CASE OpenAnswer(c) /\ Response(local_id[c]).cmd # "OKAY"
    BY <1>a, <1>b, <2>0, <2>3 DEF OpenAnswer, CallState
  <2>4. CASE TaskReceive(c) \/ TaskPut(c)
    BY <1>a, <1>b, <2>0, <2>4 DEF TaskReceive, TaskPut, CallState, callVars
  <2>5. CASE Output(c) \/ ReturnOutput(c) \/ Close(c)
    BY <1>a, <1>b, <2>0, <2>5 DEF Output, ReturnOutput, Close, CallState, callVars, taskVars
  <2> QED BY <2>1, <2>2, <2>3, <2>4, <2>5 DEF Call, Task
<1> QED BY <1>1, <1>2 DEF CallStates

(* A step that takes nothing from a queue and gives no id.                 *)
LEMMA OrderQuiet ==
  ASSUME OrderInv, TypeOK,
         UNCHANGED <<stream, receive_queue, rx_pc, rx_msg, usb_in, local_id, remote_id>>,
         \A d \in Shells : /\ Got(d)' = Got(d)
                           /\ task'[d] = "ended" <=> task[d] = "ended"
                           /\ pc'[d] = "refused" <=> pc[d] = "refused"
  PROVE  CallsInOrder'
<1> SUFFICES ASSUME NEW c \in Shells, NEW r \in RemoteIds, Mine(c, r)'
             PROVE  InOrder(r, Said, Taken(c))' /\ Numbered(r)'
  BY DEF CallsInOrder
<1>1. Taken(c)' = Taken(c) /\ Mine(c, r)
  BY DEF Taken, Mine
<1>2. PICK lo : lo = Taken(c)
  OBVIOUS
<1>3. InOrder(r, Said, lo) /\ Numbered(r)
  BY <1>1, <1>2 DEF OrderInv, CallsInOrder
<1>4. InOrder(r, Said, lo)' /\ Numbered(r)'
  BY <1>3, OrderKept, FramesSays, NumberedKept DEF TypeOK
<1> QED BY <1>1, <1>2, <1>4

(* What the task, or shell(), takes from its own stream is the next thing  *)
(* adbd has said there.                                                    *)
LEMMA TakesNext ==
  ASSUME ShellTypeOK, ShellStaleInv, OrderInv, NEW c \in Shells,
         OpenAnswer(c) \/ TaskReceive(c), NEW r \in RemoteIds, Mine(c, r)
  PROVE  IF OfStream(Response(local_id[c]), r, Said)
           THEN /\ Number(Response(local_id[c]), End(r)) = Taken(c) + 1
                /\ \A n \in Nat : n = Taken(c) + 1 => InOrder(r, Said, n)'
           ELSE \A n \in Nat : n = Taken(c) => InOrder(r, Said, n)'
<1>1. /\ AuthTypeOK /\ WireInv /\ TypeOK /\ stream[r].st # "none" /\ stream[r].peer = local_id[c]
      /\ InOrder(r, Said, Taken(c))
  BY DEF ShellTypeOK, TypeOK, OrderInv, CallsInOrder, Mine
<1>2. Take(local_id[c]) /\ stream' = stream
  BY CallTakes
<1>3. PICK lo \in Nat : lo = Taken(c)
  BY <1>1, GotType
<1>4. PICK k : k = local_id[c]
  OBVIOUS
<1>5. InOrder(r, Said, lo) /\ k = stream[r].peer /\ Take(k)
  BY <1>1, <1>2, <1>3, <1>4
<1>6. IF OfStream(Response(k), r, Said)
        THEN Number(Response(k), End(r)) = lo + 1 /\ InOrder(r, Said, lo + 1)'
        ELSE InOrder(r, Said, lo)'
  BY <1>1, <1>2, <1>5, OrderTake
<1> QED BY <1>3, <1>4, <1>6

LEMMA TakesChunk ==
  ASSUME ShellTypeOK, ShellStaleInv, OrderInv, NEW c \in Shells,
         OpenAnswer(c) \/ TaskReceive(c), NEW r, Numbered(r)
  PROVE  /\ Numbered(r)'
         /\ OfStream(Response(local_id[c]), r, {"WRTE"}) => Chunk(Response(local_id[c]), r)
<1>1. Take(local_id[c]) /\ stream' = stream /\ local_id[c] \in LocalIds /\ AuthTypeOK
  BY CallTakes DEF ShellTypeOK, TypeOK
<1>2. PICK k \in Keys : k = local_id[c] /\ k \in LocalIds
  BY <1>1 DEF Keys
<1>3. Frames' \subseteq Frames /\ Response(k) \in Frames
  BY <1>1, <1>2, FramesTake
<1> QED BY <1>1, <1>2, <1>3, NumberedKept DEF Numbered

(* What main_loop makes of it: the next chunk, or the end.                 *)
LEMMA TaskTakes ==
  ASSUME ShellTypeOK, ShellStaleInv, OrderInv, NEW c \in Shells, TaskReceive(c)
  PROVE  LET r == remote_id[c] IN
    /\ r \in RemoteIds /\ Mine(c, r) /\ Taken(c) = Len(Got(c)) + 1
    /\ IF ~Expected(Response(local_id[c]), local_id[c], r)
         THEN ~OfStream(Response(local_id[c]), r, Said) /\ UNCHANGED <<task, hand>>
         ELSE /\ OfStream(Response(local_id[c]), r, Said)
              /\ \/ /\ Response(local_id[c]).cmd = "WRTE"
                    /\ Len(Got(c)) < stream[r].sent
                    /\ task' = [task EXCEPT ![c] = "put"]
                    /\ hand' = [hand EXCEPT ![c] = <<r, Len(Got(c)) + 1>>]
                 \/ /\ Response(local_id[c]).cmd = "CLSE"
                    /\ Len(Got(c)) = stream[r].sent /\ stream[r].st = "closed"
                    /\ task' = [task EXCEPT ![c] = "ended"]
                    /\ hand' = hand
<1>0. PICK r : r = remote_id[c]
  OBVIOUS
<1>1. /\ task[c] = "receive" /\ r \in RemoteIds /\ r # 0
      /\ stream[r].st # "none" /\ stream[r].peer = local_id[c]
      /\ pc[c] \in {"connected", "closed", "returned"}
  <2>1. task[c] = "receive" /\ CallState(c)
    BY DEF TaskReceive, OrderInv, CallStates
  <2> QED BY <1>0, <2>1 DEF CallState
<1>2. Mine(c, r) /\ Taken(c) = Len(Got(c)) + 1 /\ Len(Got(c)) \in Nat
  <2>1. Got(c) \in Seq(Data)
    BY GotType DEF ShellTypeOK
  <2>2. Len(Got(c)) \in Nat
    BY <2>1, LenProperties
  <2> QED BY <1>0, <1>1, <2>2 DEF Mine, Taken
<1>3. PICK m \in Message : /\ m = Response(local_id[c]) /\ FrameOk(m)
                           /\ m.arg1 = local_id[c] /\ ~IsHandshake(m)
  BY CallTakes
<1>4. m.arg0 = r => m.cmd \in Said /\ OfStream(m, r, Said)
  BY <1>1, <1>3 DEF FrameOk, Shaped, HandshakeCmds, IsHandshake, OfStream
<1>5. CASE m.arg0 # r
  BY <1>0, <1>1, <1>2, <1>3, <1>5 DEF TaskReceive, Expected, OfStream
<1>6. CASE m.arg0 = r
  <2>1. Number(m, End(r)) = Len(Got(c)) + 2
    BY <1>1, <1>2, <1>3, <1>4, <1>6, TakesNext
  <2>2. stream[r].sent \in Nat
    BY <1>1, StreamFacts DEF ShellTypeOK, TypeOK, StreamIds
  <2>3. Expected(m, local_id[c], r)
    BY <1>3, <1>6 DEF Expected
  <2>4. CASE m.cmd = "WRTE"
    <3>1. m.data[1] = r /\ m.data[2] \in 1..stream[r].sent /\ m.data \in Data
      <4>1. Numbered(r)
        BY <1>1, <1>2 DEF OrderInv, CallsInOrder
      <4>2. Chunk(m, r)
        BY <1>3, <1>6, <2>4, <4>1, TakesChunk DEF OfStream
      <4> QED BY <1>3, <4>2 DEF Chunk, Message
    <3>2. m.data[2] + 1 = Len(Got(c)) + 2 /\ m.data[2] \in Nat
      BY <2>1, <2>2, <2>4, <3>1 DEF Number
    <3>3. m.data[2] = Len(Got(c)) + 1
      BY <1>2, <3>2
    <3>4. m.data = <<r, Len(Got(c)) + 1>>
      BY <3>1, <3>3 DEF Data
    <3>5. Len(Got(c)) < stream[r].sent
      BY <1>2, <2>2, <3>1, <3>3
    <3>6. task' = [task EXCEPT ![c] = "put"] /\ hand' = [hand EXCEPT ![c] = m.data]
      BY <1>0, <1>3, <2>3, <2>4 DEF TaskReceive
    <3> QED BY <1>0, <1>1, <1>2, <1>3, <1>4, <1>6, <2>3, <2>4, <3>4, <3>5, <3>6
  <2>5. CASE m.cmd = "CLSE"
    <3>1. stream[r].st = "closed"
      BY <1>1, <1>3, <1>4, <1>6, <2>5 DEF FrameOk
    <3>2. Len(Got(c)) = stream[r].sent
      BY <1>2, <2>1, <2>2, <2>5 DEF Number, End
    <3>3. task' = [task EXCEPT ![c] = "ended"] /\ hand' = hand
      BY <1>0, <1>3, <2>3, <2>5 DEF TaskReceive
    <3> QED BY <1>0, <1>1, <1>2, <1>3, <1>4, <1>6, <2>3, <2>5, <3>1, <3>2, <3>3
  <2>6. m.cmd # "OKAY"
    BY <1>2, <2>1 DEF Number
  <2> QED BY <1>4, <1>6, <2>4, <2>5, <2>6 DEF Said
<1> QED BY <1>5, <1>6

LEMMA GotReceives ==
  ASSUME ShellTypeOK, NEW c \in Shells, TaskReceive(c)
  PROVE  /\ \A d \in Shells \ {c} : Got(d)' = Got(d)
         /\ task' = task /\ hand' = hand => Got(c)' = Got(c)
         /\ task' = [task EXCEPT ![c] = "ended"] => Got(c)' = Got(c)
         /\ \A x \in Data : task' = [task EXCEPT ![c] = "put"] /\ hand' = [hand EXCEPT ![c] = x]
              => Got(c)' = Append(Got(c), x)
<1>1. /\ task \in [Shells -> {"none", "receive", "put", "ended"}] /\ hand \in [Shells -> Data]
      /\ result[c] \in Seq(Data) /\ queue[c] \in Seq(Data) /\ task[c] = "receive"
      /\ result' = result /\ queue' = queue
  BY DEF ShellTypeOK, TypeOK, TaskReceive
<1>2. result[c] \o queue[c] \in Seq(Data)
  BY <1>1, ConcatProperties
<1>3. Got(c) = result[c] \o queue[c]
  <2>1. Got(c) = (result[c] \o queue[c]) \o <<>>
    BY <1>1 DEF Got
  <2> QED BY <1>2, <2>1, ConcatEmptySeq
<1>4. \A d \in Shells \ {c} : Got(d)' = Got(d)
  <2>1. \A d \in Shells \ {c} : task'[d] = task[d] /\ hand'[d] = hand[d]
    BY <1>1 DEF TaskReceive
  <2> QED BY <1>1, <2>1 DEF Got
<1>5. task' = task /\ hand' = hand => Got(c)' = Got(c)
  BY <1>1 DEF Got
<1>6. ASSUME task' = [task EXCEPT ![c] = "ended"] PROVE Got(c)' = Got(c)
  BY <1>1, <1>6 DEF Got
<1>7. ASSUME NEW x \in Data, task' = [task EXCEPT ![c] = "put"], hand' = [hand EXCEPT ![c] = x]
      PROVE  Got(c)' = Append(Got(c), x)
  <2>1. Got(c)' = (result[c] \o queue[c]) \o <<x>>
    BY <1>1, <1>7 DEF Got
  <2>2. Append(result[c] \o queue[c], x) = (result[c] \o queue[c]) \o <<x>>
    BY <1>2, <1>7, AppendIsConcat
  <2> QED BY <1>3, <2>1, <2>2
<1> QED BY <1>4, <1>5, <1>6, <1>7

LEMMA TakerOnly ==
  ASSUME ShellTypeOK, ShellStaleInv, OrderInv, LocalIdsDistinct, NEW c \in Shells,
         OpenAnswer(c) \/ TaskReceive(c),
         NEW d \in Shells \ {c}, NEW r \in RemoteIds, Mine(d, r)', Got(d)' = Got(d)
  PROVE  InOrder(r, Said, Taken(d))' /\ Numbered(r)'
<1>1. /\ stream' = stream /\ local_id' = local_id /\ UNCHANGED <<rx_pc, rx_msg, usb_in>>
      /\ remote_id'[d] = remote_id[d] /\ task'[d] = task[d] /\ pc'[d] = pc[d]
  BY DEF OpenAnswer, TaskReceive, Take, daemonVars, callVars, ShellTypeOK, TypeOK
<1>2. Mine(d, r) /\ Taken(d)' = Taken(d)
  BY <1>1 DEF Mine, Taken
<1>3. PICK lo : lo = Taken(d)
  OBVIOUS
<1>4. InOrder(r, Said, lo) /\ stream[r].peer = local_id[d]
  BY <1>2, <1>3 DEF OrderInv, CallsInOrder, Mine
<1>5. stream[r].peer \in LocalIds /\ stream[r].peer # local_id[c]
  <2>1. stream[r].peer \in LocalIds
    BY <1>2 DEF Mine, OrderInv, WireInv, PeersOpened, ShellTypeOK, TypeOK, AuthTypeOK, ProtocolTypeOK
  <2>2. stream[r].peer # 0
    BY <2>1, ProtocolAssumption
  <2> QED BY <1>4, <2>1, <2>2 DEF LocalIdsDistinct
<1>6. receive_queue'[stream[r].peer] = receive_queue[stream[r].peer]
  BY <1>5, CallTakes
<1>7. InOrder(r, Said, lo)'
  BY <1>1, <1>4, <1>6, OrderKept
<1>8. Numbered(r)'
  BY <1>2, TakesChunk DEF OrderInv, CallsInOrder
<1> QED BY <1>2, <1>3, <1>7, <1>8

(* An id that a call is about to return has no queue yet.                  *)
LEMMA ShellOrder ==
  ASSUME ShellTypeOK, ShellStaleInv, OrderInv, LocalIdsDistinct,
         NEW c \in Shells, Call(c) \/ Task(c) \/ Output(c) \/ Close(c),
         ReturnId(c) => base_id \notin opened
  PROVE  CallsInOrder'
<1>a. /\ TypeOK /\ pc \in [Shells -> Pc] /\ local_id \in [Shells -> LocalIds \cup {0}]
      /\ remote_id \in [Shells -> Nat] /\ task \in [Shells -> {"none", "receive", "put", "ended"}]
  BY DEF ShellTypeOK, TypeOK
<1>1. CASE CallShell(c) \/ StoreId(c) \/ SendOpen(c) \/ SendOpenPayload(c) \/ ReturnOutput(c) \/ Close(c)
  <2>1. /\ UNCHANGED <<stream, receive_queue, rx_pc, rx_msg, usb_in, local_id, remote_id>>
        /\ UNCHANGED <<task, hand, queue, result>>
    BY <1>1 DEF CallShell, StoreId, SendOpen, SendOpenPayload, ReturnOutput, Close, AuthVars,
       protocolVars, daemonVars, PutHeader, PutPayload, taskVars
  <2>2. \A d \in Shells : pc'[d] = "refused" <=> pc[d] = "refused"
    BY <1>1, <1>a DEF CallShell, StoreId, SendOpen, SendOpenPayload, ReturnOutput, Close
  <2>3. \A d \in Shells : Got(d)' = Got(d)
    BY <2>1 DEF Got
  <2> QED BY <1>a, <2>1, <2>2, <2>3, OrderQuiet
<1>2. CASE TaskPut(c) \/ Output(c)
  <2>1. /\ UNCHANGED <<stream, receive_queue, rx_pc, rx_msg, usb_in, local_id, remote_id, pc>>
        /\ \A d \in Shells : task'[d] = "ended" <=> task[d] = "ended"
    BY <1>2, <1>a DEF TaskPut, Output, AuthVars, protocolVars, daemonVars, callVars, taskVars
  <2>2. \A d \in Shells : Got(d)' = Got(d)
    BY <1>2, <1>a, GotStays
  <2> QED BY <1>a, <2>1, <2>2, OrderQuiet
<1>3. CASE ReturnId(c)
  <2>1. /\ UNCHANGED <<stream, receive_queue, rx_pc, rx_msg, usb_in, remote_id>>
        /\ UNCHANGED <<task, hand, queue, result>>
        /\ local_id[c] = 0 /\ \A d \in Shells \ {c} : local_id'[d] = local_id[d] /\ pc'[d] = pc[d]
    BY <1>3, <1>a DEF ReturnId, AuthVars, protocolVars, daemonVars, taskVars, OrderInv,
       CallStates, CallState
  <2> SUFFICES ASSUME NEW d \in Shells, NEW r \in RemoteIds, Mine(d, r)'
               PROVE  InOrder(r, Said, Taken(d))' /\ Numbered(r)'
    BY DEF CallsInOrder
  <2>2. CASE d # c
    <3>1. Mine(d, r) /\ Taken(d)' = Taken(d)
      BY <2>1, <2>2 DEF Mine, Taken, Got
    <3>2. PICK lo : lo = Taken(d)
      OBVIOUS
    <3>3. InOrder(r, Said, lo) /\ Numbered(r)
      BY <3>1, <3>2 DEF OrderInv, CallsInOrder
    <3>4. InOrder(r, Said, lo)' /\ Numbered(r)'
      BY <1>a, <2>1, <3>3, OrderKept, FramesSays, NumberedKept DEF TypeOK
    <3> QED BY <3>1, <3>2, <3>4
  <2>3. CASE d = c
    <3>1. stream[r].peer \in opened /\ stream[r].peer = local_id'[c]
      BY <2>1, <2>3 DEF Mine, OrderInv, WireInv, PeersOpened
    <3>2. local_id'[c] = base_id
      BY <1>3, <1>a DEF ReturnId
    <3> QED BY <1>3, <3>1, <3>2
  <2> QED BY <2>2, <2>3
<1>4. CASE OpenAnswer(c)
  <2>0. /\ UNCHANGED <<stream, local_id, hand, queue, result>>
        /\ \A d \in Shells \ {c} : remote_id'[d] = remote_id[d] /\ task'[d] = task[d]
    BY <1>4, <1>a DEF OpenAnswer, daemonVars
  <2>1. \A d \in Shells \ {c} : Got(d)' = Got(d)
    BY <2>0 DEF Got
  <2>2. ASSUME NEW r \in RemoteIds, Mine(c, r)' PROVE InOrder(r, Said, Taken(c))' /\ Numbered(r)'
    <3>1. /\ Response(local_id[c]).cmd = "OKAY" /\ Response(local_id[c]).arg0 = remote_id'[c]
          /\ task'[c] = "receive" /\ remote_id'[c] \in {0, r}
      BY <1>4, <1>a, <2>2 DEF OpenAnswer, Mine
    <3>2. PICK q : q = remote_id'[c]
      OBVIOUS
    <3>3. q \in RemoteIds /\ Mine(c, q) /\ remote_id[c] = 0 /\ Taken(c) = 0
      BY <1>4, <3>1, <3>2, AnswerIsMine
    <3>4. q = r /\ r # 0
      BY <3>1, <3>2, <3>3, ProtocolAssumption
    <3>5. OfStream(Response(local_id[c]), r, Said)
      BY <3>1, <3>2, <3>4 DEF OfStream, Said
    <3>6. InOrder(r, Said, 1)'
      BY <1>4, <3>3, <3>4, <3>5, TakesNext
    <3>7. Taken(c)' = 1
      <4>1. queue[c] = <<>> /\ result[c] = <<>>
        BY <3>3 DEF OrderInv, CallStates, CallState
      <4>2. Got(c)' = (<<>> \o <<>>) \o <<>>
        BY <2>0, <3>1, <4>1 DEF Got
      <4>3. Len((<<>> \o <<>>) \o <<>>) = 0
        OBVIOUS
      <4> QED BY <3>1, <3>2, <3>4, <4>2, <4>3 DEF Taken
    <3>8. Numbered(r)'
      BY <1>4, <3>3, <3>4, TakesChunk DEF OrderInv, CallsInOrder
    <3> QED BY <3>6, <3>7, <3>8
  <2> QED BY <1>4, <2>1, <2>2, TakerOnly DEF CallsInOrder
<1>5. CASE TaskReceive(c)
  <2>1. \A d \in Shells \ {c} : Got(d)' = Got(d)
    BY <1>5, GotReceives
  <2>2. ASSUME NEW r \in RemoteIds, Mine(c, r)' PROVE InOrder(r, Said, Taken(c))' /\ Numbered(r)'
    <3>0. /\ remote_id' = remote_id /\ task[c] = "receive" /\ local_id' = local_id
          /\ remote_id[c] \in {0, r}
      BY <1>5, <2>2 DEF TaskReceive, callVars, Mine
    <3>1. /\ remote_id[c] \in RemoteIds /\ Mine(c, remote_id[c])
          /\ Taken(c) = Len(Got(c)) + 1
      BY <1>5, TaskTakes
    <3>2. r = remote_id[c] /\ r # 0 /\ Mine(c, r)
      BY <3>0, <3>1, ProtocolAssumption
    <3>3. Got(c) \in Seq(Data) /\ Len(Got(c)) \in Nat
      BY <1>a, GotType, LenProperties
    <3>4. IF OfStream(Response(local_id[c]), r, Said)
            THEN \A n \in Nat : n = Taken(c) + 1 => InOrder(r, Said, n)'
            ELSE \A n \in Nat : n = Taken(c) => InOrder(r, Said, n)'
      BY <1>5, <3>2, TakesNext
    <3>9. Numbered(r)'
      BY <1>5, <3>2, TakesChunk DEF OrderInv, CallsInOrder
    <3>5. CASE ~Expected(Response(local_id[c]), local_id[c], r)
      <4>1. ~OfStream(Response(local_id[c]), r, Said) /\ task' = task /\ hand' = hand
        BY <1>5, <3>2, <3>5, TaskTakes
      <4>2. Got(c)' = Got(c)
        BY <1>5, <4>1, GotReceives
      <4>3. Taken(c)' = Taken(c) /\ Taken(c) \in Nat
        BY <3>0, <3>1, <3>3, <4>1, <4>2 DEF Taken
      <4> QED BY <3>4, <3>9, <4>1, <4>3
    <3>6. CASE /\ OfStream(Response(local_id[c]), r, Said)
               /\ task' = [task EXCEPT ![c] = "put"]
               /\ hand' = [hand EXCEPT ![c] = <<r, Len(Got(c)) + 1>>]
      <4>1. <<r, Len(Got(c)) + 1>> \in Data
        BY <3>3, ProtocolAssumption DEF Data
      <4>2. Got(c)' = Append(Got(c), <<r, Len(Got(c)) + 1>>)
        BY <1>5, <3>6, <4>1, GotReceives
      <4>3. Len(Got(c)') = Len(Got(c)) + 1
        BY <3>3, <4>1, <4>2, AppendProperties
      <4>4. task'[c] = "put"
        BY <1>a, <3>6
      <4>5. Taken(c)' = Len(Got(c)') + 1
        BY <3>0, <3>2, <3>3, <4>3, <4>4 DEF Taken
      <4> QED BY <3>1, <3>3, <3>4, <3>6, <3>9, <4>3, <4>5
    <3>7. CASE /\ OfStream(Response(local_id[c]), r, Said)
               /\ task' = [task EXCEPT ![c] = "ended"]
      <4>1. Got(c)' = Got(c)
        BY <1>5, <3>7, GotReceives
      <4>2. task'[c] = "ended"
        BY <1>a, <3>7
      <4>3. Taken(c)' = Taken(c) + 1
        BY <3>0, <3>1, <3>2, <3>3, <4>1, <4>2 DEF Taken
      <4> QED BY <3>1, <3>3, <3>4, <3>7, <3>9, <4>3
    <3>8. \/ ~Expected(Response(local_id[c]), local_id[c], r)
          \/ /\ OfStream(Response(local_id[c]), r, Said)
             /\ task' = [task EXCEPT ![c] = "put"]
             /\ hand' = [hand EXCEPT ![c] = <<r, Len(Got(c)) + 1>>]
          \/ /\ OfStream(Response(local_id[c]), r, Said)
             /\ task' = [task EXCEPT ![c] = "ended"]
      BY <1>5, <3>2, TaskTakes
    <3> QED BY <3>5, <3>6, <3>7, <3>8
  <2> QED BY <1>5, <2>1, <2>2, TakerOnly DEF CallsInOrder
<1> QED BY <1>1, <1>2, <1>3, <1>4, <1>5 DEF Call, Task

LEMMA OrderUnchanged ==
  ASSUME ShellTypeOK, OrderInv, UNCHANGED <<AuthVars, shellVars>>
  PROVE  OrderInv'
<1>1. WireInv'
  BY WireUnchanged DEF OrderInv
<1>2. CallsInOrder'
  <2>1. \A d \in Shells : Got(d)' = Got(d)
    BY DEF shellVars, taskVars, Got
  <2> QED BY <2>1, OrderQuiet DEF AuthVars, protocolVars, daemonVars, shellVars, callVars,
             taskVars, ShellTypeOK
<1> QED BY <1>1, <1>2 DEF OrderInv, CallStates, CallState,
           AuthVars, daemonVars, shellVars, callVars, taskVars

ShellOrderInv == ShellTypeOK /\ ShellStaleInv /\ OrderInv /\ OnlyCalls

LEMMA ShellOrderStep ==
  ASSUME ShellOrderInv, LocalIdsDistinct, LocalIdsDistinct', ShellStaleInv', [Next]_vars
  PROVE  ShellOrderInv'
<1>1. ShellTypeOK'
  BY ShellTypeStep DEF ShellOrderInv
<1>2. OrderInv' /\ OnlyCalls'
  <2>1. CASE AuthNext /\ UNCHANGED shellVars
    <3>1. OnlyCalls' /\ ~(FrameReady /\ Frame.cmd = "WRTE")
      BY <2>1, OnlyCallsAuthStep DEF ShellOrderInv, ShellTypeOK, TypeOK
    <3> QED BY <2>1, <3>1, OrderAuthStep DEF ShellOrderInv
  <2>2. ASSUME NEW c \in Shells, Call(c) \/ Task(c) \/ Output(c) \/ Close(c)
        PROVE  OrderInv' /\ OnlyCalls'
    <3>1. WireInv' /\ OnlyCalls'
      BY <2>2, ShellWire, ShellOpened DEF ShellOrderInv, OrderInv
    <3>2. CallStates'
      BY <2>2, ShellCallStates DEF ShellOrderInv
    <3>3. ReturnId(c) => base_id \notin opened
      <4> SUFFICES ASSUME ReturnId(c), base_id \in opened PROVE FALSE
        OBVIOUS
      <4>1. PICK e \in Shells : local_id[e] = base_id
        BY DEF ShellOrderInv, OnlyCalls, OpenedByCall
      <4>2. /\ local_id' = [local_id EXCEPT ![c] = base_id] /\ local_id[c] = 0
            /\ local_id \in [Shells -> LocalIds \cup {0}] /\ opened \subseteq LocalIds
        BY DEF ReturnId, ShellOrderInv, OrderInv, CallStates, CallState, ShellTypeOK, TypeOK,
           AuthTypeOK, ProtocolTypeOK
      <4>3. base_id # 0
        BY <4>2, ProtocolAssumption
      <4>4. e # c /\ local_id'[e] = local_id'[c] /\ local_id'[e] # 0
        BY <4>1, <4>2, <4>3
      <4> QED BY <4>4 DEF LocalIdsDistinct
    <3>4. CallsInOrder'
      BY <2>2, <3>3, ShellOrder DEF ShellOrderInv
    <3> QED BY <3>1, <3>2, <3>4 DEF OrderInv
  <2>3. CASE UNCHANGED vars
    <3>1. OrderInv'
      BY <2>3, OrderUnchanged DEF ShellOrderInv, vars
    <3>2. OnlyCalls'
      BY <2>3 DEF ShellOrderInv, OnlyCalls, NoHostWrites, OutCmds, OpenedByCall, vars, AuthVars,
         protocolVars, shellVars, callVars
    <3> QED BY <3>1, <3>2
  <2> QED BY <2>1, <2>2, <2>3 DEF Next, Use
<1> QED BY <1>1, <1>2 DEF ShellOrderInv

-----------------------------------------------------------------------------
(* Every step of the calls is a step of ReliableOutput, or none.           *)
LEMMA ReliableInit ==
  ASSUME Init
  PROVE  Reliable!Init
<1>1. ShellTypeOK
  BY ShellInitType
<1>2. [r \in StreamIds |-> stream[r].sent] \in [StreamIds -> Nat]
  BY <1>1, StreamFacts DEF ShellTypeOK, TypeOK
<1>3. \A c \in Shells : Got(c) = <<>>
  <2>1. (<<>> \o <<>>) \o <<>> = <<>>
    OBVIOUS
  <2> QED BY <2>1 DEF Init, Got
<1>4. {c \in Shells : task[c] = "ended"} = {}
  BY DEF Init
<1> QED BY <1>2, <1>3, <1>4 DEF Init, Reliable!Init

LEMMA ReliableDaemon ==
  ASSUME AuthTypeOK, WireInv, Daemon, UNCHANGED shellVars
  PROVE  Reliable!Next
<1>0. stream \in [StreamIds -> Stream]
  BY DEF AuthTypeOK, DaemonTypeOK
<1>1. /\ remote_id' = remote_id /\ task' = task
      /\ [c \in Shells |-> Got(c)]' = [c \in Shells |-> Got(c)]
  BY DEF shellVars, callVars, taskVars, Got
<1>2. ASSUME NEW r \in StreamIds, DevStreamWrite(r)
      PROVE  Reliable!Next
  <2>1. /\ stream[r].st = "ready"
        /\ stream' = [stream EXCEPT ![r].st = "waitack", ![r].sent = @ + 1]
    BY <1>2 DEF DevStreamWrite
  <2>2. \A q \in StreamIds :
          /\ stream'[q].sent = IF q = r THEN stream[r].sent + 1 ELSE stream[q].sent
          /\ stream'[q].st = "closed" <=> stream[q].st = "closed"
    BY <1>0, <2>1 DEF Stream
  <2>3. [q \in StreamIds |-> stream'[q].sent]
          = [[q \in StreamIds |-> stream[q].sent] EXCEPT ![r] = @ + 1]
    BY <2>2
  <2>4. {q \in StreamIds : stream'[q].st = "closed"} = {q \in StreamIds : stream[q].st = "closed"}
    BY <2>2
  <2>5. r \notin {q \in StreamIds : stream[q].st = "closed"}
    BY <2>1
  <2>6. Reliable!Write(r)
    BY <1>1, <2>3, <2>4, <2>5 DEF Reliable!Write
  <2> QED BY <2>6 DEF Reliable!Next
<1>3. ASSUME \A r \in StreamIds : /\ stream'[r].sent = stream[r].sent
                                  /\ stream[r].st = "closed" => stream'[r].st = "closed"
      PROVE  Reliable!Next
  <2>1. [r \in StreamIds |-> stream'[r].sent] = [r \in StreamIds |-> stream[r].sent]
    BY <1>3
  <2>2. PICK S : S = {r \in StreamIds : stream'[r].st = "closed"}
    OBVIOUS
  <2>3. S \in SUBSET StreamIds /\ S = {r \in StreamIds : stream[r].st = "closed"} \cup S
    BY <1>3, <2>2
  <2>4. Reliable!End(S)
    BY <1>1, <2>1, <2>2, <2>3 DEF Reliable!End
  <2> QED BY <2>3, <2>4 DEF Reliable!Next
<1> QED BY <1>2, <1>3, DaemonSteady

LEMMA ReliableShell ==
  ASSUME ShellOrderInv, LocalIdsDistinct, NEW c \in Shells,
         Call(c) \/ Task(c) \/ Output(c) \/ Close(c)
  PROVE  [Reliable!Next]_Reliable!outputVars
<1>a. /\ ShellTypeOK /\ ShellStaleInv /\ OrderInv /\ TypeOK /\ remote_id \in [Shells -> Nat]
      /\ task \in [Shells -> {"none", "receive", "put", "ended"}]
  BY DEF ShellOrderInv, ShellTypeOK, TypeOK
<1>b. stream' = stream
  BY DEF Call, CallShell, StoreId, ReturnId, SendOpen, SendOpenPayload, OpenAnswer, ReturnOutput,
     Task, TaskReceive, TaskPut, Output, Close, AuthVars, daemonVars
<1>c. /\ [r \in StreamIds |-> stream[r].sent]' = [r \in StreamIds |-> stream[r].sent]
      /\ {r \in StreamIds : stream[r].st = "closed"}' = {r \in StreamIds : stream[r].st = "closed"}
  BY <1>b
<1>1. ASSUME remote_id' = remote_id, \A d \in Shells : Got(d)' = Got(d),
             \A d \in Shells : task'[d] = "ended" <=> task[d] = "ended"
      PROVE  UNCHANGED Reliable!outputVars
  <2>1. [d \in Shells |-> Got(d)]' = [d \in Shells |-> Got(d)]
    BY <1>1
  <2>2. {d \in Shells : task[d] = "ended"}' = {d \in Shells : task[d] = "ended"}
    BY <1>1
  <2> QED BY <1>1, <1>c, <2>1, <2>2 DEF Reliable!outputVars
<1>2. CASE TaskPut(c) \/ Output(c)
  <2>1. remote_id' = remote_id /\ \A d \in Shells : task'[d] = "ended" <=> task[d] = "ended"
    BY <1>2, <1>a DEF TaskPut, Output, callVars, taskVars
  <2>2. \A d \in Shells : Got(d)' = Got(d)
    BY <1>2, <1>a, GotStays
  <2> QED BY <1>1, <2>1, <2>2
<1>3. CASE \/ CallShell(c) \/ StoreId(c) \/ ReturnId(c) \/ SendOpen(c) \/ SendOpenPayload(c)
           \/ ReturnOutput(c) \/ Close(c)
           \/ (OpenAnswer(c) /\ Response(local_id[c]).cmd # "OKAY")
  <2>1. UNCHANGED <<remote_id, task, hand, queue, result>>
    BY <1>3 DEF CallShell, StoreId, ReturnId, SendOpen, SendOpenPayload, ReturnOutput, Close,
       OpenAnswer, taskVars
  <2>2. \A d \in Shells : Got(d)' = Got(d)
    BY <2>1 DEF Got
  <2> QED BY <1>1, <2>1, <2>2
<1>4. CASE OpenAnswer(c) /\ Response(local_id[c]).cmd = "OKAY"
  <2>1. PICK r : r = Response(local_id[c]).arg0
    OBVIOUS
  <2>2. /\ r \in RemoteIds /\ stream[r].st # "none" /\ stream[r].peer = local_id[c]
        /\ remote_id[c] = 0
    BY <1>4, <1>a, <2>1, AnswerIsMine
  <2>3. /\ remote_id' = [remote_id EXCEPT ![c] = r] /\ task' = [task EXCEPT ![c] = "receive"]
        /\ UNCHANGED <<hand, queue, result>>
    BY <1>4, <2>1 DEF OpenAnswer
  <2>4. task[c] = "none"
    BY <1>a, <2>2 DEF OrderInv, CallStates, CallState
  <2>5. \A d \in Shells : /\ Got(d)' = Got(d)
                          /\ task'[d] = "ended" <=> task[d] = "ended"
    BY <1>a, <2>3, <2>4 DEF Got
  <2>6. ASSUME NEW d \in Shells PROVE remote_id[d] # r
    <3>1. SUFFICES ASSUME remote_id[d] = r PROVE FALSE
      OBVIOUS
    <3>2. r # 0 /\ local_id[c] \in LocalIds
      BY <1>4, <1>a, <2>2, ProtocolAssumption DEF OpenAnswer, ShellTypeOK, CallIds
    <3>3. local_id[d] = local_id[c] /\ d # c /\ local_id[c] # 0
      BY <1>a, <2>2, <3>1, <3>2, ProtocolAssumption DEF OrderInv, CallStates, CallState
    <3> QED BY <3>3 DEF LocalIdsDistinct
  <2>7. /\ [d \in Shells |-> Got(d)]' = [d \in Shells |-> Got(d)]
        /\ {d \in Shells : task[d] = "ended"}' = {d \in Shells : task[d] = "ended"}
    BY <2>5
  <2>8. Reliable!Connect(c, r)
    BY <1>c, <2>2, <2>3, <2>6, <2>7 DEF Reliable!Connect
  <2> QED BY <2>2, <2>8 DEF Reliable!Next, StreamIds
<1>5. CASE TaskReceive(c)
  <2>1. PICK r : r = remote_id[c]
    OBVIOUS
  <2>2. /\ r \in RemoteIds /\ r \in StreamIds /\ r # 0 /\ remote_id' = remote_id
        /\ task[c] = "receive" /\ Len(Got(c)) \in Nat /\ Got(c) \in Seq(Data)
    <3>1. r \in RemoteIds /\ remote_id' = remote_id /\ task[c] = "receive"
      BY <1>5, <1>a, <2>1, TaskTakes DEF TaskReceive, callVars
    <3>2. Got(c) \in Seq(Data)
      BY <1>a, GotType
    <3> QED BY <3>1, <3>2, LenProperties, ProtocolAssumption DEF StreamIds
  <2>3. \/ task' = task /\ hand' = hand
        \/ /\ Len(Got(c)) < stream[r].sent
           /\ task' = [task EXCEPT ![c] = "put"]
           /\ hand' = [hand EXCEPT ![c] = <<r, Len(Got(c)) + 1>>]
        \/ /\ Len(Got(c)) = stream[r].sent /\ stream[r].st = "closed"
           /\ task' = [task EXCEPT ![c] = "ended"]
    BY <1>5, <1>a, <2>1, TaskTakes
  <2>4. \A d \in Shells \ {c} : Got(d)' = Got(d)
    BY <1>5, <1>a, GotReceives
  <2>5. CASE task' = task /\ hand' = hand
    <3>1. Got(c)' = Got(c)
      BY <1>5, <1>a, <2>5, GotReceives
    <3> QED BY <1>1, <2>2, <2>4, <2>5, <3>1
  <2>6. CASE /\ Len(Got(c)) < stream[r].sent
             /\ task' = [task EXCEPT ![c] = "put"]
             /\ hand' = [hand EXCEPT ![c] = <<r, Len(Got(c)) + 1>>]
    <3>1. <<r, Len(Got(c)) + 1>> \in Data
      BY <2>2, ProtocolAssumption DEF Data
    <3>2. Got(c)' = Append(Got(c), <<r, Len(Got(c)) + 1>>)
      BY <1>5, <1>a, <2>6, <3>1, GotReceives
    <3>3. [d \in Shells |-> Got(d)]'
            = [[d \in Shells |-> Got(d)] EXCEPT ![c] = Append(@, <<r, Len(@) + 1>>)]
      BY <2>4, <3>2
    <3>4. {d \in Shells : task[d] = "ended"}' = {d \in Shells : task[d] = "ended"}
      BY <1>a, <2>2, <2>6
    <3>5. c \notin {d \in Shells : task[d] = "ended"}
      BY <2>2
    <3>6. Reliable!Read(c)
      BY <1>c, <2>1, <2>2, <2>6, <3>3, <3>4, <3>5 DEF Reliable!Read
    <3> QED BY <3>6 DEF Reliable!Next
  <2>7. CASE /\ Len(Got(c)) = stream[r].sent /\ stream[r].st = "closed"
             /\ task' = [task EXCEPT ![c] = "ended"]
    <3>1. Got(c)' = Got(c)
      BY <1>5, <1>a, <2>7, GotReceives
    <3>2. [d \in Shells |-> Got(d)]' = [d \in Shells |-> Got(d)]
      BY <2>4, <3>1
    <3>3. {d \in Shells : task[d] = "ended"}' = {d \in Shells : task[d] = "ended"} \cup {c}
      BY <1>a, <2>7
    <3>4. Reliable!Finish(c)
      BY <1>c, <2>1, <2>2, <2>7, <3>2, <3>3 DEF Reliable!Finish
    <3> QED BY <3>4 DEF Reliable!Next
  <2> QED BY <2>3, <2>5, <2>6, <2>7
<1> QED BY <1>2, <1>3, <1>4, <1>5 DEF Call, Task

LEMMA ReliableStep ==
  ASSUME ShellOrderInv, LocalIdsDistinct, [Next]_vars
  PROVE  [Reliable!Next]_Reliable!outputVars
<1>1. ASSUME stream' = stream, UNCHANGED shellVars
      PROVE  UNCHANGED Reliable!outputVars
  <2>1. /\ UNCHANGED <<remote_id, task, hand, queue, result>>
        /\ [d \in Shells |-> Got(d)]' = [d \in Shells |-> Got(d)]
    BY <1>1 DEF shellVars, callVars, taskVars, Got
  <2> QED BY <1>1, <2>1 DEF Reliable!outputVars
<1>2. CASE AuthNext /\ UNCHANGED shellVars
  <2>1. CASE Daemon
    BY <1>2, <2>1, ReliableDaemon DEF ShellOrderInv, ShellTypeOK, TypeOK, OrderInv
  <2>2. CASE ~Daemon
    <3>1. stream' = stream
      BY <1>2, <2>2 DEF AuthNext, Authenticate, SendConnect, FirstAnswer, SendSignature,
         SecondAnswer, OfferKey, daemonVars
    <3> QED BY <1>1, <1>2, <3>1
  <2> QED BY <2>1, <2>2
<1>3. CASE UNCHANGED vars
  BY <1>1, <1>3 DEF vars, AuthVars, daemonVars
<1>4. ASSUME NEW c \in Shells, Call(c) \/ Task(c) \/ Output(c) \/ Close(c)
      PROVE  [Reliable!Next]_Reliable!outputVars
  BY <1>4, ReliableShell
<1> QED BY <1>2, <1>3, <1>4 DEF Next, Use

(* As long as no two calls share an id, the output of every call is        *)
(* reliable: read in the order written, nothing left out or read twice,    *)
(* and ended only after all of it was read, whatever the size of the       *)
(* queues, the traffic of an earlier process, lost writes and a receive    *)
(* thread that dies (libadb/protocol.py, libadb/connection.py main_loop).  *)
THEOREM ShellReliable == Spec /\ []LocalIdsDistinct => OutputIsReliable
<1>1. Init => ShellOrderInv /\ Reliable!Init
  BY ShellInitType, ShellStaleInit, OrderInit, ReliableInit DEF ShellOrderInv
<1>2. /\ ShellOrderInv /\ LocalIdsDistinct /\ LocalIdsDistinct' /\ [Next]_vars
        => ShellOrderInv'
  <2>1. ShellOrderInv /\ [Next]_vars => ShellStaleInv'
    BY ShellStaleNext DEF ShellOrderInv
  <2> QED BY <2>1, ShellOrderStep
<1>3. ShellOrderInv /\ LocalIdsDistinct /\ [Next]_vars => [Reliable!Next]_Reliable!outputVars
  BY ReliableStep
<1> QED BY <1>1, <1>2, <1>3, PTL DEF Spec, OutputIsReliable, Reliable!Spec

(* In particular when one thread makes all the calls (new_id).             *)
THEOREM OneCallerReliable == OneCaller => (Spec => OutputIsReliable)
BY OneCallerIdsDistinct, ShellReliable, PTL

-----------------------------------------------------------------------------
(* Every OPEN on the way to adbd, and every stream it has opened, is for   *)
(* the command of a call with that id.                                     *)
AskedBy(id, service) == \E c \in Shells : local_id[c] = id /\ service = Command(c)
AllAsked(S) == \A m \in S : m.cmd = "OPEN" => AskedBy(m.arg0, m.data)
CommandInv ==
  /\ AllAsked(Inside(send_queue))
  /\ AllAsked(Inside(usb_out))
  /\ \A r \in RemoteIds : stream[r].st # "none" => AskedBy(stream[r].peer, stream[r].service)

LEMMA CommandInit ==
  ASSUME Init
  PROVE  CommandInv
<1>1. \A r \in RemoteIds : r \in StreamIds /\ r \notin StaleIds
  BY ProtocolAssumption DEF StreamIds
<1>2. send_queue = <<>> /\ usb_out = <<>> /\ \A r \in RemoteIds : stream[r].st = "none"
  BY <1>1 DEF Init, AuthInit, ProtocolInit, DaemonInit, NoStream
<1>3. Inside(<<>>) = {}
  BY DEF Inside
<1> QED BY <1>2, <1>3 DEF CommandInv, AllAsked

(* The threads and adbd pass OPENs on and make none.                       *)
LEMMA OpensStay ==
  ASSUME AuthTypeOK, AuthNext
  PROVE  \A m \in Inside(send_queue') \cup Inside(usb_out') :
           m.cmd = "OPEN" => m \in Inside(send_queue) \cup Inside(usb_out)
<1>1. /\ send_queue \in Seq(Message) /\ usb_out \in Seq(Message) /\ rx_msg \in Message
      /\ auth_token \in Data
  BY DEF AuthTypeOK, ProtocolTypeOK
<1>2. ASSUME NEW n \in Message, n.cmd # "OPEN", Puts(n), usb_out' = usb_out
      PROVE  \A m \in Inside(send_queue') \cup Inside(usb_out') :
               m.cmd = "OPEN" => m \in Inside(send_queue) \cup Inside(usb_out)
  <2>1. Inside(send_queue') = Inside(send_queue) \cup {n}
    BY <1>1, <1>2, InsideAppend DEF Puts
  <2> QED BY <1>2, <2>1
<1>3. CASE SendLoop \/ WriteError
  <2>1. /\ send_queue # <<>> /\ send_queue' = Tail(send_queue)
        /\ usb_out' = usb_out \/ usb_out' = Append(usb_out, Head(send_queue))
    BY <1>3 DEF SendLoop, WriteError
  <2>2. /\ Inside(send_queue') \subseteq Inside(send_queue) /\ Head(send_queue) \in Inside(send_queue)
        /\ Head(send_queue) \in Message
    BY <1>1, <2>1, InsideTail
  <2>3. Inside(usb_out') \subseteq Inside(usb_out) \cup {Head(send_queue)}
    BY <1>1, <2>1, <2>2, InsideAppend
  <2> QED BY <2>2, <2>3
<1>4. CASE AckWrite
  <2>1. /\ Msg("OKAY", rx_msg.arg1, rx_msg.arg0, NoData) \in Message
        /\ Msg("OKAY", rx_msg.arg1, rx_msg.arg0, NoData).cmd # "OPEN"
    BY <1>1, NoDataType DEF Msg, Message, Commands
  <2> QED BY <1>2, <1>4, <2>1 DEF AckWrite, Puts
<1>5. CASE Daemon
  <2>1. /\ send_queue' = send_queue
        /\ usb_out' = usb_out \/ \E said : DevReads(said)
    BY <1>5 DEF Daemon, DevPacket, DevConnect, DevSignature, DevPublicKey, DevOpen, DevAck,
       DevCloseRequest, DevHostWrite, DevIgnore, DevGarbled, DevStreamWrite, DevStreamEnd,
       DevWrites, DevReads
  <2>2. ASSUME NEW said, DevReads(said) PROVE Inside(usb_out') \subseteq Inside(usb_out)
    <3>1. /\ usb_out # <<>> /\ Tail(usb_out) \in Seq(Message)
          /\ Inside(Tail(usb_out)) \subseteq Inside(usb_out)
      BY <1>1, <2>2, InsideTail DEF DevReads, FrameReady
    <3>2. CASE HasPayload(Frame)
      <4>1. Len(usb_out) > 1 /\ usb_out' = Tail(Tail(usb_out))
        BY <2>2, <3>2 DEF DevReads, FrameReady
      <4>2. Tail(usb_out) # <<>>
        BY <1>1, <4>1, TwoTails
      <4> QED BY <3>1, <4>1, <4>2, InsideTail
    <3> QED BY <2>2, <3>1, <3>2 DEF DevReads
  <2> QED BY <2>1, <2>2
<1>6. CASE Authenticate
  <2>1. /\ Msg("CNXN", 1, 0, NoData) \in Message
        /\ Msg("AUTH", 2, 0, auth_token) \in Message
        /\ Msg("AUTH", 3, 0, NoData) \in Message
        /\ Msg("CNXN", 1, 0, NoData).cmd = "CNXN"
        /\ Msg("AUTH", 2, 0, auth_token).cmd = "AUTH"
        /\ Msg("AUTH", 3, 0, NoData).cmd = "AUTH"
    BY <1>1, NoDataType DEF Msg, Message, Commands
  <2>2. \/ Take(Default)
        \/ \E m \in Message : m.cmd \in {"CNXN", "AUTH"} /\ (PutHeader(m) \/ PutPayload(m))
    BY <1>6, <2>1 DEF Authenticate, SendConnect, FirstAnswer, SendSignature, SecondAnswer, OfferKey
  <2>3. ASSUME NEW m \in Message, m.cmd \in {"CNXN", "AUTH"}, PutHeader(m) \/ PutPayload(m)
        PROVE  \E n \in Message : n.cmd # "OPEN" /\ Puts(n) /\ usb_out' = usb_out
    <3>1. PICK n \in Message : n = Payload(m) /\ n.cmd = "DATA"
      BY PayloadType DEF Payload, Message
    <3> QED BY <2>3, <3>1 DEF PutHeader, PutPayload, Puts
  <2> QED BY <1>2, <2>2, <2>3 DEF Take
<1>7. CASE UNCHANGED <<send_queue, usb_out>>
  BY <1>7
<1> QED BY <1>3, <1>4, <1>5, <1>6, <1>7 DEF AuthNext, HostThreads, ReceiveLoop, ReceiveFrame,
           ChecksumError, Deliver, Discard

LEMMA CommandAuthStep ==
  ASSUME ShellTypeOK, CommandInv, AuthNext, UNCHANGED shellVars
  PROVE  CommandInv'
<1>1. /\ local_id' = local_id /\ AuthTypeOK
      /\ send_queue \in Seq(Message) /\ usb_out \in Seq(Message)
  BY DEF shellVars, callVars, ShellTypeOK, TypeOK, AuthTypeOK, ProtocolTypeOK
<1>2. \A a, d : AskedBy(a, d)' <=> AskedBy(a, d)
  BY <1>1 DEF AskedBy, Command
<1>3. AllAsked(Inside(send_queue))' /\ AllAsked(Inside(usb_out))'
  <2>1. \A m \in Inside(send_queue') \cup Inside(usb_out') :
          m.cmd = "OPEN" => m \in Inside(send_queue) \cup Inside(usb_out)
    BY <1>1, OpensStay
  <2>2. \A m \in Inside(send_queue) \cup Inside(usb_out) :
          m.cmd = "OPEN" => AskedBy(m.arg0, m.data)
    BY DEF CommandInv, AllAsked
  <2>3. \A m \in Inside(send_queue') \cup Inside(usb_out') :
          m.cmd = "OPEN" => AskedBy(m.arg0, m.data)'
    BY <1>2, <2>1, <2>2
  <2> QED BY <2>3 DEF AllAsked, Inside
<1>4. ASSUME NEW r \in RemoteIds, stream'[r].st # "none"
      PROVE  AskedBy(stream'[r].peer, stream'[r].service)
  <2>1. CASE stream[r].st # "none"
    BY <1>1, <2>1, StreamStays DEF CommandInv
  <2>2. CASE stream[r].st = "none"
    <3>1. Daemon
      <4>1. stream' # stream
        BY <1>4, <2>2
      <4> QED BY <4>1 DEF AuthNext, Authenticate, SendConnect, FirstAnswer, SendSignature,
                 SecondAnswer, OfferKey, daemonVars
    <3>2. Ignores(r) \/ Opens(r)
      BY <1>1, <2>2, <3>1, DaemonStream DEF Writes, Ends, Hears, IsOpen, StreamIds
    <3>3. Frame.cmd = "OPEN" /\ usb_out # <<>> /\ stream'[r] = NewStream("ready", Frame.arg0, Frame.data, 0)
      BY <1>4, <2>2, <3>2 DEF Ignores, Kept, Opens, FrameReady
    <3>4. Frame \in Inside(usb_out)
      BY <1>1, <3>3, InsideTail DEF Frame
    <3>5. AskedBy(Frame.arg0, Frame.data)
      BY <3>3, <3>4 DEF CommandInv, AllAsked
    <3> QED BY <3>3, <3>5 DEF NewStream
  <2> QED BY <2>1, <2>2
<1>5. \A r \in RemoteIds : (stream[r].st # "none" => AskedBy(stream[r].peer, stream[r].service))'
  BY <1>2, <1>4
<1> QED BY <1>3, <1>5 DEF CommandInv

(* A call gets its id once, and puts one OPEN, for its own command.        *)
LEMMA CommandShellStep ==
  ASSUME ShellTypeOK, OrderInv, CommandInv, NEW c \in Shells,
         Call(c) \/ Task(c) \/ Output(c) \/ Close(c)
  PROVE  CommandInv'
<1>1. /\ AuthTypeOK /\ WireInv /\ 0 \notin LocalIds
      /\ send_queue \in Seq(Message) /\ usb_out \in Seq(Message) /\ opened \subseteq LocalIds
  BY ProtocolAssumption DEF ShellTypeOK, TypeOK, OrderInv, AuthTypeOK, ProtocolTypeOK
<1>2. \A d \in Shells : local_id[d] # 0 => local_id'[d] = local_id[d]
  BY DEF OrderInv, CallStates, CallState, ShellTypeOK, TypeOK, Call, CallShell, StoreId, ReturnId,
     SendOpen, SendOpenPayload, OpenAnswer, ReturnOutput, Task, TaskReceive, TaskPut, Output, Close,
     callVars
<1>3. \A a \in LocalIds : \A d : AskedBy(a, d) => AskedBy(a, d)'
  BY <1>1, <1>2 DEF AskedBy, Command
<1>4. /\ stream' = stream /\ usb_out' = usb_out
      /\ \/ send_queue' = send_queue
         \/ \E m \in Message : /\ Puts(m)
                               /\ m.cmd = "OPEN" => m = OpenMsg(c) /\ local_id' = local_id
                                                    /\ local_id[c] \in LocalIds
  <2>1. CASE SendOpen(c) \/ SendOpenPayload(c)
    <3>1. local_id[c] \in LocalIds /\ local_id' = local_id
      BY <2>1 DEF SendOpen, SendOpenPayload, ShellTypeOK, CallIds
    <3>2. OpenMsg(c) \in Message
      BY <3>1, MsgType, CommandType, ProtocolAssumption DEF OpenMsg, Commands
    <3>3. Payload(OpenMsg(c)) \in Message /\ Payload(OpenMsg(c)).cmd = "DATA"
      BY <3>2, PayloadType DEF Payload, Message
    <3> QED BY <2>1, <3>1, <3>2, <3>3 DEF SendOpen, SendOpenPayload, PutHeader, PutPayload, Puts, daemonVars
  <2>2. CASE Close(c)
    <3>1. local_id[c] \in LocalIds /\ local_id[c] \in Nat /\ remote_id[c] \in Nat
      BY <2>2, ProtocolAssumption DEF Close, ShellTypeOK, TypeOK, CallIds
    <3>2. /\ Msg("CLSE", local_id[c], remote_id[c], NoData) \in Message
          /\ Msg("CLSE", local_id[c], remote_id[c], NoData).cmd = "CLSE"
      BY <3>1, MsgType, NoDataType DEF Commands, Msg
    <3> QED BY <2>2, <3>2 DEF Close, PutHeader, Puts, daemonVars
  <2>3. CASE ~(SendOpen(c) \/ SendOpenPayload(c) \/ Close(c))
    BY <2>3 DEF Call, CallShell, StoreId, ReturnId, OpenAnswer, ReturnOutput, Task, TaskReceive,
       TaskPut, Output, AuthVars, protocolVars, daemonVars, Take
  <2> QED BY <2>1, <2>2, <2>3
<1>5. /\ \A m \in Inside(send_queue) \cup Inside(usb_out) :
           m.cmd = "OPEN" => m.arg0 \in LocalIds /\ AskedBy(m.arg0, m.data)
      /\ \A r \in RemoteIds : stream[r].st # "none" =>
           stream[r].peer \in LocalIds /\ AskedBy(stream[r].peer, stream[r].service)
  BY <1>1 DEF WireInv, PeersOpened, OpensOpened, Inside, CommandInv, AllAsked
<1>6. /\ \A m \in Inside(send_queue) \cup Inside(usb_out) :
           m.cmd = "OPEN" => AskedBy(m.arg0, m.data)'
      /\ \A r \in RemoteIds : (stream[r].st # "none" => AskedBy(stream[r].peer, stream[r].service))'
  BY <1>3, <1>4, <1>5
<1>7. AllAsked(Inside(usb_out))'
  BY <1>4, <1>6 DEF AllAsked, Inside
<1>8. AllAsked(Inside(send_queue))'
  <2>1. CASE send_queue' = send_queue
    BY <1>6, <2>1 DEF AllAsked, Inside
  <2>2. ASSUME NEW m \in Message, Puts(m),
               m.cmd = "OPEN" => m = OpenMsg(c) /\ local_id' = local_id /\ local_id[c] \in LocalIds
        PROVE  AllAsked(Inside(send_queue))'
    <3>1. Inside(send_queue') = Inside(send_queue) \cup {m}
      BY <1>1, <2>2, InsideAppend DEF Puts
    <3>2. m.cmd = "OPEN" => AskedBy(m.arg0, m.data)'
      BY <2>2 DEF OpenMsg, Msg, AskedBy, Command
    <3>3. \A n \in Inside(send_queue') : n.cmd = "OPEN" => AskedBy(n.arg0, n.data)'
      BY <1>6, <3>1, <3>2
    <3> QED BY <3>3 DEF AllAsked, Inside
  <2> QED BY <1>4, <2>1, <2>2
<1> QED BY <1>6, <1>7, <1>8 DEF CommandInv

LEMMA CommandStep ==
  ASSUME ShellTypeOK, OrderInv, CommandInv, [Next]_vars
  PROVE  CommandInv'
<1>1. ASSUME UNCHANGED vars PROVE CommandInv'
  <2>1. UNCHANGED <<send_queue, usb_out, stream, local_id>>
    BY <1>1 DEF vars, shellVars, callVars, AuthVars, daemonVars, protocolVars
  <2> QED BY <2>1 DEF CommandInv, AllAsked, AskedBy, Inside, Command
<1> QED BY <1>1, CommandAuthStep, CommandShellStep DEF Next, Use

LEMMA OwnedWhenDistinct ==
  ASSUME ShellTypeOK, OrderInv, CommandInv, LocalIdsDistinct
  PROVE  OwnCommand
<1> SUFFICES ASSUME NEW c \in Shells, remote_id[c] # 0
             PROVE  stream[remote_id[c]].service = Command(c)
  BY DEF OwnCommand
<1>1. /\ remote_id[c] \in RemoteIds /\ stream[remote_id[c]].st # "none"
      /\ stream[remote_id[c]].peer = local_id[c] /\ pc[c] \in {"connected", "closed", "returned"}
  BY DEF OrderInv, CallStates, CallState
<1>2. PICK d \in Shells : local_id[d] = local_id[c] /\ stream[remote_id[c]].service = Command(d)
  BY <1>1 DEF CommandInv, AskedBy
<1>3. local_id[c] # 0
  BY <1>1, ProtocolAssumption DEF ShellTypeOK, TypeOK, CallIds
<1> QED BY <1>2, <1>3 DEF LocalIdsDistinct

(* As long as no two calls share an id, the connection that shell()        *)
(* returns is to the stream that adbd has opened for its own command,      *)
(* whatever is lost and however calls overlap (shell, receive_loop).       *)
THEOREM OwnCommandByIds == Spec /\ []LocalIdsDistinct => []OwnCommand
<1> DEFINE I == ShellOrderInv /\ CommandInv
<1>1. Init => I
  BY ShellInitType, ShellStaleInit, OrderInit, CommandInit DEF ShellOrderInv
<1>2. I /\ LocalIdsDistinct /\ LocalIdsDistinct' /\ [Next]_vars => I'
  <2>1. ShellOrderInv /\ [Next]_vars => ShellStaleInv'
    BY ShellStaleNext DEF ShellOrderInv
  <2> QED BY <2>1, ShellOrderStep, CommandStep DEF ShellOrderInv
<1>3. I /\ LocalIdsDistinct => OwnCommand
  BY OwnedWhenDistinct DEF ShellOrderInv
<1> QED BY <1>1, <1>2, <1>3, PTL DEF Spec

(* In particular when one thread makes all the calls (new_id).             *)
THEOREM OneCallerOwnCommand == OneCaller => (Spec => []OwnCommand)
BY OneCallerIdsDistinct, OwnCommandByIds, PTL

-----------------------------------------------------------------------------
(* Flow control: what the calls put is never an OKAY.                      *)
ShellFlowInv == ShellTypeOK /\ ShellStaleInv /\ WireInv /\ FlowInv

LEMMA ShellFlowStep ==
  ASSUME ShellFlowInv, ~WireFails, [Next]_vars
  PROVE  ShellFlowInv'
<1>0. AuthTypeOK /\ StaleInv /\ WireInv /\ FlowInv /\ ShellTypeOK' /\ ShellStaleInv'
  BY ShellTypeStep, ShellStaleNext DEF ShellFlowInv, ShellTypeOK, TypeOK, ShellStaleInv
<1>1. CASE AuthNext
  BY <1>0, <1>1, WireStep, FlowAuthStep DEF ShellFlowInv
<1>2. CASE UNCHANGED AuthVars
  <2>1. Pipe' = Pipe
    BY <1>2 DEF AuthVars, protocolVars, Pipe
  <2>2. FlowInv'
    BY <1>0, <1>2, <2>1, FlowUser DEF AuthVars, protocolVars, daemonVars, authVars
  <2> QED BY <1>0, <1>2, <2>2, WireUnchanged DEF ShellFlowInv
<1>3. ASSUME NEW c \in Shells, Call(c) \/ Task(c) \/ Output(c) \/ Close(c), ~UNCHANGED AuthVars
      PROVE  ShellFlowInv'
  <2>1. WireInv'
    BY <1>3, ShellWire DEF ShellFlowInv
  <2>2. CASE Take(local_id[c]) /\ UNCHANGED <<daemonVars, authVars>>
    <3>1. Pipe' = Pipe
      BY <2>2 DEF Take, Pipe
    <3>2. FlowInv'
      BY <1>0, <2>2, <3>1, FlowUser DEF Take, daemonVars, authVars
    <3> QED BY <1>0, <2>1, <3>2 DEF ShellFlowInv
  <2>3. ASSUME NEW m \in Message, ShellPuts(c, m) PROVE ShellFlowInv'
    <3>1. /\ Pipe' = Append(Pipe, m) /\ m.cmd # "OKAY" /\ ~IsHandshake(m)
          /\ UNCHANGED <<usb_in, rx_pc, rx_msg, stream, dev_auth, auth_pc>>
      BY <1>0, <2>3, PipePut DEF ShellPuts, IsHandshake, daemonVars, authVars
    <3>2. auth_pc = "done"
      BY <2>3 DEF ShellPuts, ShellFlowInv, ShellStaleInv, CallsConnected
    <3>3. FlowInv'
      BY <1>0, <3>1, <3>2, FlowUser
    <3> QED BY <1>0, <2>1, <3>3 DEF ShellFlowInv
  <2> QED BY <1>3, <2>2, <2>3, ShellDoes DEF ShellFlowInv
<1> QED BY <1>1, <1>2, <1>3 DEF Next, Use, vars

LEMMA UnreadCount ==
  ASSUME AuthTypeOK, NEW r
  PROVE  /\ None(usb_in, WritesOf(r)) => Cardinality(UnreadWrites(r)) = 0
         /\ Once(usb_in, WritesOf(r)) => Cardinality(UnreadWrites(r)) = 1
         /\ None(Pipe, AcksOf(r)) => Cardinality(UnreadAcks(r)) = 0
         /\ Once(Pipe, AcksOf(r)) => Cardinality(UnreadAcks(r)) = 1
<1>0. usb_in \in Seq(Message) /\ Pipe \in Seq(Message)
  BY PipeType DEF AuthTypeOK, ProtocolTypeOK
<1>1. /\ UnreadWrites(r) = {i \in 1..Len(usb_in) : usb_in[i] \in WritesOf(r)}
      /\ UnreadAcks(r) = {i \in 1..Len(Pipe) : Pipe[i] \in AcksOf(r)}
  BY <1>0, ElementOfSeq DEF UnreadWrites, UnreadAcks, WritesOf, AcksOf
<1>2. ASSUME NEW s, NEW S
      PROVE  /\ None(s, S) => Cardinality({i \in 1..Len(s) : s[i] \in S}) = 0
             /\ Once(s, S) => Cardinality({i \in 1..Len(s) : s[i] \in S}) = 1
  <2>1. ASSUME None(s, S) PROVE {i \in 1..Len(s) : s[i] \in S} = {}
    BY <2>1 DEF None
  <2>2. ASSUME Once(s, S) PROVE \E i \in 1..Len(s) : {j \in 1..Len(s) : s[j] \in S} = {i}
    BY <2>2 DEF Once
  <2> QED BY <2>1, <2>2, FS_EmptySet, FS_Singleton
<1> QED BY <1>1, <1>2

(* adbd never has two WRTEs of a stream unanswered, and none is left       *)
(* without its one OKAY: _atom_receive acknowledges every WRTE it reads,   *)
(* once, to the stream it came from, whether or not anyone on the host     *)
(* reads that stream (libadb/protocol.py), for any number of calls and     *)
(* threads, whether or not their ids differ.                               *)
THEOREM FlowControlled == OneStaleWrite => (Spec => []OneWriteUnderWay)
<1> SUFFICES ASSUME OneStaleWrite PROVE Spec => []OneWriteUnderWay
  OBVIOUS
<1>1. CASE WireFails
  <2>1. OneWriteUnderWay
    BY <1>1 DEF OneWriteUnderWay
  <2> QED BY <2>1, PTL
<1>2. CASE ~WireFails
  <2>1. Init => ShellFlowInv
    BY ShellInitType, ShellStaleInit, WireInit, FlowInit DEF Init, ShellFlowInv
  <2>2. ShellFlowInv /\ [Next]_vars => ShellFlowInv'
    BY <1>2, ShellFlowStep
  <2>3. ShellFlowInv => OneWriteUnderWay
    <3> SUFFICES ASSUME ShellFlowInv, NEW r \in StreamIds
                 PROVE  /\ stream[r].st = "waitack" => UnderWay(r) = 1
                        /\ stream[r].st = "closed" => UnderWay(r) <= 1
                        /\ stream[r].st \in {"none", "ready"} => UnderWay(r) = 0
      BY DEF OneWriteUnderWay
    <3>1. AuthTypeOK /\ Flow(r)
      BY DEF ShellFlowInv, ShellTypeOK, TypeOK, FlowInv
    <3>2. (Quiet(r) => UnderWay(r) = 0) /\ (OnItsWay(r) => UnderWay(r) = 1)
      BY <3>1, UnreadCount DEF Quiet, OnItsWay, UnderWay
    <3> QED BY <3>1, <3>2 DEF Flow
  <2> QED BY <2>1, <2>2, <2>3, PTL DEF Spec
<1> QED BY <1>1, <1>2

-----------------------------------------------------------------------------
(* A session: pushes beside the calls.  Where a push stands tells which of *)
(* its ids it has, which record is next and whether the answer to DONE has *)
(* been read.                                                              *)
PushState(p) ==
  /\ ppc[p] = "idle" <=> pid[p] = 0
  /\ prid[p] = 0 <=> ppc[p] \in {"idle", "open", "open_data", "await", "refused"}
  /\ prid[p] # 0 =>
       /\ prid[p] \in RemoteIds
       /\ stream[prid[p]].st # "none"
       /\ stream[prid[p]].peer = pid[p]
  /\ prid[p] = 0 => record[p] = SendRecord
  /\ ppc[p] \in {"send", "send_data", "await_okay"} =>
       record[p] <= Quit(p) /\ (record[p] = Quit(p) => reply[p] # NoData)
  /\ ppc[p] = "await_reply" => record[p] = Quit(p)
  /\ ppc[p] \in {"await_close", "close", "ended"} => record[p] = Quit(p) + 1 /\ reply[p] # NoData
  /\ ppc[p] \in {"close", "ended"} => stream[prid[p]].st = "closed"
  /\ ppc[p] # "idle" => auth_pc = "done"
PushStates == \A p \in Pushes : PushState(p)

(* The sync service says nothing but OKAY and FAIL to a push.              *)
Replies == {ReplyOkay, ReplyFail}
RepliesOnly ==
  \A m \in Frames, p \in Pushes :
    m.cmd = "WRTE" /\ m.arg0 \in RemoteIds /\ m.arg1 = pid[p] => m.data \in Replies

(* Calls and pushes take their ids from one counter.                       *)
SessionIds ==
  /\ IdsGrow
  /\ \A p \in Pushes : pid[p] <= base_id
  /\ \A c \in Shells, p \in Pushes : pc[c] = "return" => pid[p] < base_id
  /\ \A p, q \in Pushes : p # q /\ pid[p] # 0 => pid[p] # pid[q]
  /\ \A p \in Pushes, c \in Shells : pid[p] # 0 => pid[p] # local_id[c]
  /\ \A k \in opened : (\E c \in Shells : local_id[c] = k) \/ (\E p \in Pushes : pid[p] = k)

SessionBase ==
  /\ ShellTypeOK /\ ShellStaleInv /\ WireInv
  /\ PushTypeOK /\ PushStates /\ SessionIds /\ RepliesOnly

LEMMA SessionInitBase ==
  ASSUME SessionInit
  PROVE  SessionBase
<1>1. ShellTypeOK /\ ShellStaleInv /\ WireInv /\ Init /\ AuthInit
  BY ShellInitType, ShellStaleInit, WireInit DEF Init, SessionInit
<1>2. \A p \in Pushes : FileChunks[p] \in Nat
  BY PushAssumption
<1>3. PushTypeOK
  BY <1>2 DEF SessionInit, PushInit, PushTypeOK, PPc, SendRecord, Quit
<1>4. PushStates
  BY DEF SessionInit, PushInit, PushStates, PushState
<1>5. SessionIds
  <2>1. opened = {} /\ base_id = 10 /\ \A p \in Pushes : pid[p] = 0
    BY <1>1 DEF AuthInit, ProtocolInit, Init, SessionInit, PushInit
  <2>2. IdsGrow
    BY <1>1 DEF Init, IdsGrow, InCall, LocalIdsDistinct
  <2>3. \A c \in Shells : pc[c] = "idle"
    BY <1>1 DEF Init
  <2> QED BY <2>1, <2>2, <2>3 DEF SessionIds
<1>6. RepliesOnly
  <2> SUFFICES ASSUME NEW m \in Frames, NEW p \in Pushes, m.cmd = "WRTE", m.arg0 \in RemoteIds
               PROVE  FALSE
    BY DEF RepliesOnly
  <2>1. FrameOk(m)
    BY <1>1, FramesType DEF ShellTypeOK, TypeOK
  <2>2. stream[m.arg0].st # "none"
    BY <2>1 DEF FrameOk, OfStream, Said
  <2>3. m.arg0 \in StreamIds /\ m.arg0 \notin StaleIds
    BY ProtocolAssumption DEF StreamIds
  <2> QED BY <1>1, <2>2, <2>3 DEF AuthInit, DaemonInit, NoStream
<1> QED BY <1>1, <1>3, <1>4, <1>5, <1>6 DEF SessionBase

-----------------------------------------------------------------------------
(* What a push does to the multiplexer: nothing, a put, or a take from the *)
(* queue of its own id.                                                    *)
PushPuts(p, m) ==
  /\ Puts(m)
  /\ m.cmd \in {"OPEN", "WRTE", "DATA", "CLSE"}
  /\ m.cmd \in {"OPEN", "WRTE"} => m.arg0 = pid[p]
  /\ opened' = IF m.cmd \in {"OPEN", "WRTE"} THEN opened \cup {pid[p]} ELSE opened
  /\ UNCHANGED <<receive_queue, rx_pc, rx_msg, usb_out, usb_in, dev_up, daemonVars, authVars>>

(* What a push takes comes from a stream of this session.                  *)
LEMMA TakesOwn ==
  ASSUME AuthTypeOK, StaleInv, WireInv, NEW k \in LocalIds, Take(k)
  PROVE  /\ Response(k) \in Message /\ Response(k) \in Frames /\ Frames' \subseteq Frames
         /\ FrameOk(Response(k)) /\ Response(k).arg1 = k
         /\ Response(k).arg0 \notin StaleIds
         /\ Response(k).arg0 \in RemoteIds => OfStream(Response(k), Response(k).arg0, Said)
         /\ \A l \in Keys \ {k} : receive_queue'[l] = receive_queue[l]
<1>1. /\ Response(k) \in Message /\ FrameOk(Response(k))
      /\ Response(k).arg1 = k /\ ~IsHandshake(Response(k))
      /\ \A l \in Keys \ {k} : receive_queue'[l] = receive_queue[l]
  BY TakenFacts
<1>2. Response(k) \in Frames /\ Frames' \subseteq Frames
  BY FramesTake DEF Keys
<1>3. Response(k).arg0 \notin StaleIds
  <2>1. receive_queue[k] # <<>> /\ receive_queue[k] \in Seq(Message)
    BY DEF Take, AuthTypeOK, ProtocolTypeOK, Keys
  <2>2. 1 \in 1..Len(receive_queue[k])
    <3>1. Len(receive_queue[k]) \in Nat \ {0}
      BY <2>1, EmptySeq
    <3> QED BY <3>1
  <2>3. Response(k) = receive_queue[k][1]
    BY <2>1, HeadTailProperties DEF Response
  <2> QED BY <2>2, <2>3 DEF StaleInv, QueuesClean
<1>4. Response(k).arg0 \in RemoteIds => OfStream(Response(k), Response(k).arg0, Said)
  BY <1>1 DEF FrameOk, Shaped, HandshakeCmds, IsHandshake, OfStream
<1> QED BY <1>1, <1>2, <1>3, <1>4

LEMMA PushMessages ==
  ASSUME PushTypeOK, NEW p \in Pushes, pid[p] \in LocalIds
  PROVE  /\ PushOpenMsg(p) \in Message /\ PushOpenMsg(p).cmd = "OPEN"
         /\ PushOpenMsg(p).arg0 = pid[p]
         /\ RecordMsg(p) \in Message /\ RecordMsg(p).cmd = "WRTE" /\ RecordMsg(p).arg0 = pid[p]
         /\ RecordMsg(p).arg1 = prid[p] /\ RecordMsg(p).data = <<p, record[p]>>
         /\ Msg("CLSE", pid[p], prid[p], NoData) \in Message
         /\ Msg("CLSE", pid[p], prid[p], NoData).cmd = "CLSE"
         /\ Payload(PushOpenMsg(p)) \in Message /\ Payload(PushOpenMsg(p)).cmd = "DATA"
         /\ Payload(RecordMsg(p)) \in Message /\ Payload(RecordMsg(p)).cmd = "DATA"
<1>1. pid[p] \in Nat /\ prid[p] \in Nat /\ <<p, record[p]>> \in Data
  <2>1. LocalIds \subseteq Nat /\ StreamIds \cup {0} \subseteq Nat /\ Pushes \subseteq Nat
    BY ProtocolAssumption, StreamIdType, PushAssumption
  <2>2. prid[p] \in StreamIds \cup {0} /\ record[p] \in Nat
    BY DEF PushTypeOK
  <2> QED BY <2>1, <2>2 DEF Data
<1>2. PushOpenMsg(p) \in Message /\ RecordMsg(p) \in Message
      /\ Msg("CLSE", pid[p], prid[p], NoData) \in Message
  BY <1>1, MsgType, NoDataType DEF PushOpenMsg, RecordMsg, Commands
<1>3. ASSUME NEW m \in Message PROVE Payload(m) \in Message /\ Payload(m).cmd = "DATA"
  BY PayloadType DEF Payload, Message
<1> QED BY <1>2, <1>3 DEF PushOpenMsg, RecordMsg, Msg

LEMMA PushDoes ==
  ASSUME PushTypeOK, PushStates, NEW p \in Pushes, Push(p)
  PROVE  /\ stream' = stream
         /\ \/ UNCHANGED AuthVars /\ auth_pc = "done"
            \/ /\ pid[p] \in LocalIds /\ auth_pc = "done"
               /\ UNCHANGED <<daemonVars, authVars>>
               /\ Take(pid[p]) \/ \E m \in Message : PushPuts(p, m)
<1>0. pid[p] \in LocalIds \cup {0} /\ PushState(p)
  BY DEF PushTypeOK, PushStates
<1>1. CASE CallPush(p)
  BY <1>1 DEF CallPush, AuthVars, daemonVars
<1>2. ASSUME ~CallPush(p) PROVE pid[p] \in LocalIds /\ auth_pc = "done"
                                /\ UNCHANGED <<daemonVars, authVars>> /\ stream' = stream
  <2>1. ppc[p] # "idle"
    BY <1>2 DEF Push, SendPushOpen, SendPushOpenPayload, PushOpenAnswer, SendHeader, SendPayload,
       TakeOkay, TakeReply, TakeClose, SendClose, Advance
  <2>2. UNCHANGED <<daemonVars, authVars>>
    BY <1>2 DEF Push, SendPushOpen, SendPushOpenPayload, PushOpenAnswer, SendHeader, SendPayload,
       TakeOkay, TakeReply, TakeClose, SendClose, HostOnly
  <2> QED BY <1>0, <2>1, <2>2 DEF PushState, daemonVars
<1>3. CASE PushOpenAnswer(p) \/ TakeOkay(p) \/ TakeReply(p) \/ TakeClose(p)
  <2>1. Take(pid[p])
    BY <1>3 DEF PushOpenAnswer, TakeOkay, TakeReply, TakeClose
  <2>2. ~CallPush(p) \/ CallPush(p)
    OBVIOUS
  <2> QED BY <1>1, <1>2, <2>1
<1>4. CASE ~CallPush(p) /\ (SendPushOpen(p) \/ SendHeader(p) \/ SendPushOpenPayload(p) \/ SendPayload(p) \/ SendClose(p))
  <2>1. \E m \in Message : PushPuts(p, m)
    BY <1>2, <1>4, PushMessages DEF SendPushOpen, SendHeader, SendPushOpenPayload, SendPayload,
       SendClose, PutHeader, PutPayload, PushPuts, Puts, HostOnly
  <2> QED BY <1>2, <1>4, <2>1
<1> QED BY <1>1, <1>3, <1>4 DEF Push

-----------------------------------------------------------------------------
(* A step of a push keeps what every user of the multiplexer keeps.        *)
LEMMA PushMoves ==
  ASSUME PushTypeOK, NEW p \in Pushes, Push(p), NEW q \in Pushes \ {p}
  PROVE  /\ ppc'[q] = ppc[q] /\ pid'[q] = pid[q] /\ prid'[q] = prid[q]
         /\ record'[q] = record[q] /\ reply'[q] = reply[q]
BY DEF PushTypeOK, Push, CallPush, SendPushOpen, SendPushOpenPayload, PushOpenAnswer, SendHeader,
   SendPayload, TakeOkay, TakeReply, TakeClose, SendClose, Advance

LEMMA PushConnected ==
  ASSUME AuthTypeOK, StaleInv, WireInv, PushTypeOK, PushStates, NEW p \in Pushes, Push(p)
  PROVE  /\ AuthTypeOK' /\ StaleInv' /\ WireInv' /\ auth_pc = "done" /\ auth_pc' = "done"
         /\ Frames' \subseteq Frames /\ opened \subseteq opened'
         /\ \/ opened' = opened
            \/ pid[p] \in LocalIds /\ opened' = opened \cup {pid[p]}
<1>a. LocalIds \subseteq Keys \ {Default}
  BY ProtocolAssumption DEF Keys, Default
<1>1. CASE UNCHANGED AuthVars /\ auth_pc = "done"
  <2>1. UNCHANGED <<usb_in, rx_msg, receive_queue, opened, auth_pc>>
    BY <1>1 DEF AuthVars, protocolVars, authVars
  <2>2. Frames' = Frames
    BY <2>1 DEF Frames, InQueues
  <2> QED BY <1>1, <2>1, <2>2, AuthUnchangedType, StaleUnchanged, WireUnchanged
<1>2. CASE /\ pid[p] \in LocalIds /\ auth_pc = "done" /\ Take(pid[p])
           /\ UNCHANGED <<daemonVars, authVars>>
  <2>1. pid[p] \in Keys /\ pid[p] # Default /\ UNCHANGED <<stream, auth_pc>>
    BY <1>2, <1>a DEF daemonVars, authVars
  <2>2. ProtocolTypeOK'
    BY <1>2, <2>1, TakeType DEF AuthTypeOK
  <2>3. StaleInv'
    BY <1>2, <2>1, StaleTake DEF AnswerTaken
  <2>4. opened' = opened
    BY <1>2 DEF Take
  <2> QED BY <1>2, <2>1, <2>2, <2>3, <2>4, UserUnchangedType, WireTake, FramesTake
<1>3. ASSUME pid[p] \in LocalIds, auth_pc = "done", NEW m \in Message, PushPuts(p, m)
      PROVE  /\ AuthTypeOK' /\ StaleInv' /\ WireInv' /\ auth_pc' = "done"
             /\ Frames' \subseteq Frames /\ opened \subseteq opened'
             /\ \/ opened' = opened
                \/ opened' = opened \cup {pid[p]}
  <2>1. /\ send_queue' = Append(send_queue, m) /\ UNCHANGED <<stream, auth_pc>>
        /\ UNCHANGED <<receive_queue, rx_pc, rx_msg, usb_out, usb_in, dev_up>>
        /\ opened \subseteq opened'
        /\ m.cmd = "OPEN" => m.arg0 \in opened'
        /\ opened' = opened \/ opened' = opened \cup {pid[p]}
    BY <1>3 DEF PushPuts, Puts, daemonVars, authVars
  <2>2. ProtocolTypeOK'
    BY <1>3, <2>1 DEF AuthTypeOK, ProtocolTypeOK
  <2>3. AuthTypeOK'
    BY <1>3, <2>2, UserUnchangedType DEF PushPuts
  <2>4. StaleInv'
    BY <1>3, <2>1, StalePut DEF AnswerTaken, PushPuts
  <2>5. WireInv'
    BY <2>1, WirePut
  <2>6. Frames' = Frames
    BY <2>1 DEF Frames, InQueues
  <2> QED BY <1>3, <2>1, <2>3, <2>4, <2>5, <2>6
<1> QED BY <1>1, <1>2, <1>3, PushDoes

(* The calls of shell() stand while a push runs, except that it may take   *)
(* the next id, which no call is about to do then.                         *)
LEMMA PushKeepsCalls ==
  ASSUME ShellTypeOK, ShellStaleInv, PushTypeOK, PushStates, NEW p \in Pushes, PushStep(p),
         AuthTypeOK', StaleInv', auth_pc' = "done"
  PROVE  /\ ShellTypeOK' /\ ShellStaleInv'
         /\ \/ base_id' = base_id /\ UNCHANGED pid
            \/ /\ CallPush(p) /\ base_id' = base_id + 2 /\ base_id' \in LocalIds
               /\ \A c \in Shells : pc[c] \notin InCall
               /\ pid' = [pid EXCEPT ![p] = base_id']
         /\ UNCHANGED shellOnlyVars
<1>0. UNCHANGED <<loaded, pc, local_id, remote_id, task, hand, queue, result>>
  BY DEF PushStep, shellOnlyVars, taskVars
<1>1. CASE CallPush(p)
  <2>1. \A c \in Shells : pc[c] \notin InCall
    BY <1>1 DEF PushStep, Starts, CallPush, Advance, InShell
  <2>2. base_id' = base_id + 2 /\ base_id' \in LocalIds /\ pid' = [pid EXCEPT ![p] = base_id']
    BY <1>1 DEF CallPush
  <2>3. ShellTypeOK'
    BY <1>0, <2>1, <2>2 DEF ShellTypeOK, TypeOK, CallIds, InCall
  <2>4. ShellStaleInv'
    BY <1>0 DEF ShellStaleInv, CallsConnected, TasksConnected
  <2> QED BY <1>1, <2>1, <2>2, <2>3, <2>4 DEF PushStep
<1>2. CASE ~CallPush(p)
  <2>1. base_id' = base_id /\ UNCHANGED pid
    BY <1>2 DEF PushStep, Push, SendPushOpen, SendPushOpenPayload, PushOpenAnswer, SendHeader,
       SendPayload, TakeOkay, TakeReply, TakeClose, SendClose
  <2>2. ShellTypeOK'
    BY <1>0, <2>1 DEF ShellTypeOK, TypeOK, CallIds
  <2>3. ShellStaleInv'
    BY <1>0 DEF ShellStaleInv, CallsConnected, TasksConnected
  <2> QED BY <2>1, <2>2, <2>3 DEF PushStep
<1> QED BY <1>1, <1>2

(* Where a push stands after its step.                                     *)
LEMMA PushStateStep ==
  ASSUME AuthTypeOK, StaleInv, WireInv, PushTypeOK, PushStates, RepliesOnly,
         NEW p \in Pushes, Push(p)
  PROVE  PushTypeOK' /\ PushStates'
<1>a. /\ ppc \in [Pushes -> PPc] /\ pid \in [Pushes -> LocalIds \cup {0}]
      /\ prid \in [Pushes -> StreamIds \cup {0}] /\ record \in [Pushes -> Nat]
      /\ reply \in [Pushes -> {NoData, ReplyOkay, ReplyFail}]
      /\ \A q \in Pushes : record[q] \in 1..Quit(q) + 1
  BY DEF PushTypeOK
<1>b. FileChunks[p] \in Nat /\ Done(p) \in Nat /\ Quit(p) = Done(p) + 1 /\ Done(p) > 1
  BY PushAssumption DEF Done, Quit
<1>c. stream' = stream /\ auth_pc' = "done"
  BY PushDoes, PushConnected
<1>d. PushState(p) /\ \A q \in Pushes : PushState(q)
  BY DEF PushStates
<1>e. 0 \notin LocalIds /\ RemoteIds \subseteq StreamIds /\ 0 \notin RemoteIds
  BY ProtocolAssumption DEF StreamIds
<1>f. NoData \notin Replies /\ Replies \subseteq {NoData, ReplyOkay, ReplyFail}
  BY DEF Replies, NoData, ReplyOkay, ReplyFail
<1>g. ASSUME Take(pid[p]), pid[p] \in LocalIds
      PROVE  LET m == Response(pid[p]) IN
        /\ m.arg1 = pid[p]
        /\ m.cmd = "OKAY" => m.arg0 \in RemoteIds /\ stream[m.arg0].st # "none"
                             /\ stream[m.arg0].peer = pid[p]
        /\ m.arg0 \in RemoteIds /\ m.cmd = "WRTE" => m.data \in Replies
        /\ m.arg0 \in RemoteIds /\ m.cmd = "CLSE" => stream[m.arg0].st = "closed"
  <2> DEFINE m == Response(pid[p])
  <2>1. /\ m \in Frames /\ FrameOk(m) /\ m.arg1 = pid[p] /\ m.arg0 \notin StaleIds
        /\ m.arg0 \in RemoteIds => OfStream(m, m.arg0, Said)
    BY <1>g, TakesOwn
  <2>2. m.cmd = "OKAY" => m.arg0 \in RemoteIds
    BY <2>1 DEF FrameOk, Shaped, StreamIds
  <2>3. m.arg0 \in RemoteIds => /\ stream[m.arg0].st # "none" /\ stream[m.arg0].peer = pid[p]
                                /\ m.cmd = "CLSE" => stream[m.arg0].st = "closed"
    BY <2>1 DEF FrameOk
  <2>4. m.arg0 \in RemoteIds /\ m.cmd = "WRTE" => m.data \in Replies
    BY <2>1 DEF RepliesOnly
  <2> QED BY <2>1, <2>2, <2>3, <2>4
<1>h. /\ ppc[p] \in PPc /\ pid[p] \in LocalIds \cup {0} /\ prid[p] \in StreamIds \cup {0}
      /\ record[p] \in 1..Quit(p) + 1 /\ reply[p] \in {NoData, ReplyOkay, ReplyFail}
  BY <1>a
<1>i. ASSUME ppc' \in [Pushes -> PPc], pid' \in [Pushes -> LocalIds \cup {0}],
             prid' \in [Pushes -> StreamIds \cup {0}], record' \in [Pushes -> Nat],
             record'[p] \in 1..Quit(p) + 1,
             reply' \in [Pushes -> {NoData, ReplyOkay, ReplyFail}], PushState(p)'
      PROVE  PushTypeOK' /\ PushStates'
  <2>1. ASSUME NEW q \in Pushes \ {p} PROVE record'[q] \in 1..Quit(q) + 1 /\ PushState(q)'
    <3>1. /\ ppc'[q] = ppc[q] /\ pid'[q] = pid[q] /\ prid'[q] = prid[q]
          /\ record'[q] = record[q] /\ reply'[q] = reply[q]
      BY PushMoves
    <3>2. PushState(q)
      BY <1>d
    <3> QED BY <3>1, <3>2, <1>a, <1>c DEF PushState
  <2> QED BY <1>i, <2>1 DEF PushTypeOK, PushStates, Quit
<1>1. CASE CallPush(p)
  <2>1. prid[p] = 0 /\ record[p] = SendRecord
    BY <1>1, <1>d DEF CallPush, Advance, PushState
  <2>2. /\ ppc' = [ppc EXCEPT ![p] = "open"] /\ pid' = [pid EXCEPT ![p] = base_id + 2]
        /\ base_id + 2 \in LocalIds /\ UNCHANGED <<prid, record, reply>>
    BY <1>1 DEF CallPush, Advance
  <2>3. PushState(p)'
    BY <2>1, <2>2, <1>a, <1>c, <1>e DEF PushState
  <2> QED BY <2>2, <2>3, <1>a, <1>h, <1>i DEF PPc, InPushCall
<1>2. CASE SendPushOpen(p) \/ SendPushOpenPayload(p)
  <2>1. UNCHANGED <<pid, prid, record, reply>>
    BY <1>2 DEF SendPushOpen, SendPushOpenPayload
  <2>2. PICK s \in {"open_data", "await"} :
          ppc[p] \in {"open", "open_data"} /\ ppc' = [ppc EXCEPT ![p] = s]
    BY <1>2 DEF SendPushOpen, SendPushOpenPayload, Advance
  <2>3. PushState(p)'
    BY <2>1, <2>2, <1>a, <1>c, <1>d, <1>e DEF PushState
  <2> QED BY <2>1, <2>2, <2>3, <1>a, <1>h, <1>i DEF PPc, InPushCall
<1>3. CASE PushOpenAnswer(p)
  <2>1. ppc[p] = "await" /\ Take(pid[p]) /\ pid[p] \in LocalIds /\ UNCHANGED <<pid, record, reply>>
    BY <1>3, <1>d, <1>h DEF PushOpenAnswer, Advance, PushState
  <2>2. CASE Response(pid[p]).cmd = "OKAY"
    <3>1. PICK r \in RemoteIds : r = Response(pid[p]).arg0 /\ stream[r].st # "none"
                                 /\ stream[r].peer = pid[p]
      BY <2>1, <2>2, <1>g
    <3>2. ppc' = [ppc EXCEPT ![p] = "send"] /\ prid' = [prid EXCEPT ![p] = r]
      BY <1>3, <2>2, <3>1 DEF PushOpenAnswer, Advance
    <3>3. PushState(p)'
      BY <2>1, <3>1, <3>2, <1>a, <1>b, <1>c, <1>d, <1>e DEF PushState, SendRecord
    <3> QED BY <2>1, <3>2, <3>3, <1>a, <1>e, <1>h, <1>i DEF PPc, InPushTask
  <2>3. CASE Response(pid[p]).cmd # "OKAY"
    <3>1. ppc' = [ppc EXCEPT ![p] = "refused"] /\ prid' = prid
      BY <1>3, <2>3 DEF PushOpenAnswer, Advance
    <3>2. PushState(p)'
      BY <2>1, <3>1, <1>a, <1>c, <1>d DEF PushState
    <3> QED BY <2>1, <3>1, <3>2, <1>a, <1>h, <1>i DEF PPc
  <2> QED BY <2>2, <2>3
<1>4. CASE SendHeader(p) \/ SendPayload(p)
  <2>1. UNCHANGED <<pid, prid, record, reply>>
    BY <1>4 DEF SendHeader, SendPayload
  <2>2. PICK s \in {"send_data", "await_okay"} :
          ppc[p] \in {"send", "send_data"} /\ ppc' = [ppc EXCEPT ![p] = s]
    BY <1>4 DEF SendHeader, SendPayload, Advance
  <2>3. PushState(p)'
    BY <2>1, <2>2, <1>a, <1>c, <1>d DEF PushState
  <2> QED BY <2>1, <2>2, <2>3, <1>a, <1>h, <1>i DEF PPc, InPushTask
<1>5. CASE TakeOkay(p)
  <2>1. /\ ppc[p] = "await_okay" /\ Take(pid[p]) /\ pid[p] \in LocalIds
        /\ UNCHANGED <<pid, prid, reply>> /\ prid[p] \in RemoteIds
        /\ record[p] <= Quit(p) /\ (record[p] = Quit(p) => reply[p] # NoData)
    BY <1>5, <1>d, <1>h DEF TakeOkay, PushState
  <2>2. CASE UNCHANGED <<ppc, record>>
    BY <2>1, <2>2, <1>a, <1>c, <1>d, <1>h, <1>i DEF PushState
  <2>3. CASE Awaited(p) /\ Response(pid[p]).cmd = "OKAY"
    <3>1. ppc' = [ppc EXCEPT ![p] = AfterOkay(p)] /\ record' = [record EXCEPT ![p] = @ + 1]
      BY <1>5, <2>3 DEF TakeOkay, Advance
    <3>2. record'[p] = record[p] + 1 /\ record'[p] \in 1..Quit(p) + 1 /\ record' \in [Pushes -> Nat]
      BY <3>1, <2>1, <1>a, <1>b, <1>h
    <3>3. /\ record[p] = Done(p) => AfterOkay(p) = "await_reply"
          /\ record[p] = Quit(p) => AfterOkay(p) = "await_close"
          /\ record[p] # Done(p) /\ record[p] # Quit(p) => AfterOkay(p) = "send"
      BY <1>b DEF AfterOkay
    <3>4. ppc'[p] = AfterOkay(p) /\ ppc' \in [Pushes -> PPc]
      BY <3>1, <3>3, <1>a DEF PPc, InPushTask
    <3>5. PushState(p)'
      BY <2>1, <3>2, <3>3, <3>4, <1>b, <1>c, <1>d, <1>h DEF PushState
    <3> QED BY <2>1, <3>2, <3>4, <3>5, <1>a, <1>i
  <2>4. CASE ppc' = [ppc EXCEPT ![p] = "raised"] /\ record' = record
    <3>1. PushState(p)'
      BY <2>1, <2>4, <1>a, <1>c, <1>d DEF PushState
    <3> QED BY <2>1, <2>4, <3>1, <1>a, <1>h, <1>i DEF PPc
  <2> QED BY <1>5, <2>2, <2>3, <2>4 DEF TakeOkay, Advance
<1>6. CASE TakeReply(p)
  <2>1. /\ ppc[p] = "await_reply" /\ Take(pid[p]) /\ pid[p] \in LocalIds
        /\ UNCHANGED <<pid, prid, record>> /\ prid[p] \in RemoteIds /\ record[p] = Quit(p)
    BY <1>6, <1>d, <1>h DEF TakeReply, PushState
  <2>2. CASE UNCHANGED <<ppc, reply>>
    BY <2>1, <2>2, <1>a, <1>c, <1>d, <1>h, <1>i DEF PushState
  <2>3. CASE Awaited(p) /\ Response(pid[p]).cmd = "WRTE"
    <3>1. PICK d \in Replies : d = Response(pid[p]).data
      BY <2>1, <2>3, <1>g DEF Awaited, Expected
    <3>2. ppc' = [ppc EXCEPT ![p] = "send"] /\ reply' = [reply EXCEPT ![p] = d]
      BY <1>6, <2>3, <3>1 DEF TakeReply, Advance
    <3>3. reply'[p] # NoData /\ reply' \in [Pushes -> {NoData, ReplyOkay, ReplyFail}]
      BY <3>2, <1>a, <1>f
    <3>4. PushState(p)'
      BY <2>1, <3>2, <3>3, <1>a, <1>b, <1>c, <1>d DEF PushState
    <3> QED BY <2>1, <3>2, <3>3, <3>4, <1>a, <1>h, <1>i DEF PPc, InPushTask
  <2>4. CASE ppc' = [ppc EXCEPT ![p] = "raised"] /\ reply' = reply
    <3>1. PushState(p)'
      BY <2>1, <2>4, <1>a, <1>c, <1>d DEF PushState
    <3> QED BY <2>1, <2>4, <3>1, <1>a, <1>h, <1>i DEF PPc
  <2> QED BY <1>6, <2>2, <2>3, <2>4 DEF TakeReply, Advance
<1>7. CASE TakeClose(p)
  <2>1. /\ ppc[p] = "await_close" /\ Take(pid[p]) /\ pid[p] \in LocalIds
        /\ UNCHANGED <<pid, prid, record, reply>> /\ prid[p] \in RemoteIds
    BY <1>7, <1>d, <1>h DEF TakeClose, PushState
  <2>2. CASE UNCHANGED ppc
    BY <2>1, <2>2, <1>a, <1>c, <1>d, <1>h, <1>i DEF PushState
  <2>3. CASE Awaited(p) /\ Response(pid[p]).cmd = "CLSE" /\ ppc' = [ppc EXCEPT ![p] = "close"]
    <3>1. stream[prid[p]].st = "closed"
      BY <2>1, <2>3, <1>g DEF Awaited, Expected
    <3>2. PushState(p)'
      BY <2>1, <2>3, <3>1, <1>a, <1>c, <1>d DEF PushState
    <3> QED BY <2>1, <2>3, <3>2, <1>a, <1>h, <1>i DEF PPc, InPushTask
  <2> QED BY <1>7, <2>2, <2>3 DEF TakeClose, Advance
<1>8. CASE SendClose(p)
  <2>1. /\ ppc[p] = "close" /\ ppc' = [ppc EXCEPT ![p] = "ended"]
        /\ UNCHANGED <<pid, prid, record, reply>>
    BY <1>8 DEF SendClose, Advance
  <2>2. PushState(p)'
    BY <2>1, <1>a, <1>c, <1>d DEF PushState
  <2> QED BY <2>1, <2>2, <1>a, <1>h, <1>i DEF PPc
<1> QED BY <1>1, <1>2, <1>3, <1>4, <1>5, <1>6, <1>7, <1>8 DEF Push

-----------------------------------------------------------------------------
(* An answer of the sync service is one WRTE of its stream.                *)
SyncWrites(q, m) ==
  /\ m.cmd = "WRTE" /\ m.arg0 = q /\ m.arg1 = stream[q].peer /\ m.data \in Replies
  /\ Says(m) /\ stream[q].st = "ready"
  /\ stream'[q] = [stream[q] EXCEPT !.st = "waitack", !.sent = 1]
  /\ \A r \in StreamIds \ {q} : stream'[r] = stream[r]
  /\ UNCHANGED <<send_queue, usb_out, receive_queue, opened, rx_pc, rx_msg, dev_up, dev_auth>>
  /\ Frames' = Frames \cup {m}

LEMMA SyncSays ==
  ASSUME AuthTypeOK, StaleInv, WireInv, NEW q \in StreamIds, NEW d \in Replies,
         SyncReply(q, d), UNCHANGED authVars
  PROVE  /\ \E m \in Message : SyncWrites(q, m)
         /\ AuthTypeOK' /\ StaleInv' /\ WireInv'
<1>m. PICK m : m = Msg("WRTE", q, stream[q].peer, d)
  OBVIOUS
<1>a. /\ stream \in [StreamIds -> Stream] /\ stream[q] \in Stream /\ stream[q].peer \in Nat
      /\ q \in Nat /\ q \in RemoteIds \cup StaleIds
  BY StreamFacts, StreamIdType DEF AuthTypeOK, DaemonTypeOK, StreamIds
<1>b. d \in Data
  BY DEF Replies, ReplyOkay, ReplyFail, Data
<1>1. m \in Message /\ m.cmd = "WRTE" /\ m.arg0 = q /\ m.arg1 = stream[q].peer /\ m.data = d
  <2>1. m \in Message
    BY <1>a, <1>b, <1>m, MsgType DEF Commands
  <2> QED BY <1>m, <2>1 DEF Msg
<1>2. /\ stream[q].st = "ready" /\ Says(m)
      /\ stream' = [stream EXCEPT ![q].st = "waitack", ![q].sent = 1]
      /\ UNCHANGED <<send_queue, usb_out, receive_queue, opened, rx_pc, rx_msg, dev_up, dev_auth,
                     dev_token, auth_pc, auth_token>>
  BY <1>m DEF SyncReply, DevWrites, Says, authVars
<1>3. /\ stream'[q] = [stream[q] EXCEPT !.st = "waitack", !.sent = 1]
      /\ \A r \in StreamIds \ {q} : stream'[r] = stream[r]
  BY <1>a, <1>2
<1>4. stream' \in [StreamIds -> Stream]
  <2>1. [stream[q] EXCEPT !.st = "waitack", !.sent = 1] \in Stream
    BY <1>a DEF Stream
  <2> QED BY <1>a, <1>2, <2>1
<1>5. AuthTypeOK'
  <2>1. ProtocolTypeOK'
    BY <1>1, <1>2 DEF AuthTypeOK, ProtocolTypeOK, Says
  <2> QED BY <1>2, <1>4, <2>1 DEF AuthTypeOK, DaemonTypeOK
<1>6. Frames' = Frames \cup {m}
  BY <1>1, <1>2, FramesSays
<1>7. StaleInv'
  <2>1. SignedAfterAnswer'
    BY <1>2 DEF StaleInv, SignedAfterAnswer, AnswerTaken
  <2>2. FromStale(m) => ~AnswerSent
    BY <1>1, <1>2 DEF StaleInv, OldStreamsDropped, FromStale, IsOpen
  <2>3. ~IsHandshake(m)
    BY <1>1 DEF IsHandshake
  <2>4. \A r \in StaleIds : IsOpen(r)' => IsOpen(r)
    BY <1>2, <1>3, <1>a DEF IsOpen, StreamIds
  <2> QED BY <1>1, <1>2, <2>1, <2>2, <2>3, <2>4, StaleSend DEF Says
<1>8. WireInv'
  <2>1. \A r \in RemoteIds : r \in StreamIds
    BY DEF StreamIds
  <2>2. /\ stream'[q].st = "waitack" /\ stream'[q].peer = stream[q].peer
    BY <1>a, <1>3 DEF Stream
  <2>3. ASSUME NEW x, FrameOk(x) PROVE FrameOk(x)'
    <3>1. \A r \in RemoteIds : /\ stream'[r].peer = stream[r].peer
                              /\ (stream[r].st # "none" => stream'[r].st # "none")
                              /\ (stream[r].st = "closed" => stream'[r].st = "closed")
      BY <2>1, <2>2, <1>2, <1>3
    <3>2. Shaped(x)'
      BY <2>3 DEF FrameOk, Shaped, IsHandshake
    <3> QED BY <2>3, <3>1, <3>2 DEF FrameOk, OfStream, Said
  <2>4. FrameOk(m)'
    BY <1>1, <2>2 DEF FrameOk, Shaped, OfStream, Said, IsHandshake
  <2>5. FramesOk'
    <3>1. AllOk(usb_in)'
      <4>1. usb_in' = Append(usb_in, m) /\ usb_in \in Seq(Message)
        BY <1>2 DEF Says, AuthTypeOK, ProtocolTypeOK
      <4>2. ASSUME NEW i \in 1..Len(usb_in') PROVE FrameOk(usb_in[i])'
        <5>1. PICK x : x = usb_in'[i]
          OBVIOUS
        <5>2. x = m \/ (i \in 1..Len(usb_in) /\ x = usb_in[i])
          BY <1>1, <4>1, <5>1
        <5>3. FrameOk(x) \/ x = m
          BY <5>2 DEF WireInv, FramesOk, AllOk
        <5>4. FrameOk(x)'
          BY <2>3, <2>4, <5>3
        <5> QED BY <5>1, <5>4 DEF FrameOk
      <4> QED BY <4>2 DEF AllOk
    <3>2. FrameOk(rx_msg)'
      BY <1>2, <2>3 DEF WireInv, FramesOk
    <3>3. \A k \in LocalIds : AllOk(receive_queue[k])'
      BY <1>2, <2>3 DEF WireInv, FramesOk, AllOk
    <3> QED BY <3>1, <3>2, <3>3 DEF FramesOk
  <2>6. PeersOpened' /\ UnusedEmpty'
    <3>1. ASSUME NEW r \in RemoteIds
          PROVE  /\ (stream'[r].st = "none") <=> (stream[r].st = "none")
                 /\ stream'[r].peer = stream[r].peer
                 /\ (stream[r].st = "none") => (stream'[r] = stream[r])
      BY <1>2, <1>3, <2>1, <2>2
    <3>2. PeersOpened'
      <4>1. OpensOpened(send_queue)' /\ OpensOpened(usb_out)'
        BY <1>2 DEF WireInv, PeersOpened, OpensOpened
      <4>2. \A r \in RemoteIds : stream'[r].st # "none" => stream'[r].peer \in opened'
        <5>1. \A r \in RemoteIds : stream[r].st # "none" => stream[r].peer \in opened
          BY DEF WireInv, PeersOpened
        <5>2. opened' = opened
          BY <1>2
        <5> QED BY <3>1, <5>1, <5>2
      <4> QED BY <4>1, <4>2 DEF PeersOpened
    <3>3. UnusedEmpty'
      BY <3>1 DEF WireInv, UnusedEmpty
    <3> QED BY <3>2, <3>3
  <2>7. Routed' /\ HandEmpty'
    BY <1>2 DEF WireInv, Routed, RoutedTo, HandEmpty
  <2> QED BY <2>5, <2>6, <2>7 DEF WireInv
<1>9. SyncWrites(q, m)
  BY <1>1, <1>2, <1>3, <1>6 DEF SyncWrites
<1> QED BY <1>1, <1>5, <1>7, <1>8, <1>9

(* The multiplexer opens no queue by itself, and adbd's only WRTEs are     *)
(* those of its services.                                                  *)
LEMMA OpenedStays ==
  ASSUME AuthNext
  PROVE  opened' = opened
BY DEF AuthNext, HostThreads, ReceiveLoop, SendLoop, WriteError, ReceiveFrame, AckWrite,
   Deliver, Discard, ChecksumError, Daemon, DevPacket, DevConnect, DevSignature, DevPublicKey,
   DevOpen, DevAck, DevCloseRequest, DevHostWrite, DevIgnore, DevGarbled, DevStreamWrite,
   DevStreamEnd, DevReads, DevWrites, Authenticate, SendConnect, FirstAnswer, SendSignature,
   SecondAnswer, OfferKey, PutHeader, PutPayload, Take, Msg

(* What adbd does but for the answers of the sync service.                 *)
Serves ==
  \/ Connection
  \/ \E r \in StreamIds :
       (DevStreamEnd(r) \/ (~IsSync(r) /\ DevStreamWrite(r))) /\ UNCHANGED authVars

LEMMA SessionSteps ==
  ASSUME SessionNext
  PROVE  \/ Serves /\ AuthNext /\ UNCHANGED <<shellVars, pushVars>>
         \/ \E r \in StreamIds, d \in Replies :
              IsSync(r) /\ SyncReply(r, d) /\ UNCHANGED <<authVars, shellVars, pushVars>>
         \/ \E p \in Pushes : PushStep(p)
         \/ \E c \in Shells : ShellStep(c)
<1>1. CASE Connection /\ UNCHANGED <<shellVars, pushVars>>
  <2>1. AuthNext
    BY <1>1 DEF Connection, AuthNext, Daemon
  <2> QED BY <1>1, <2>1 DEF Serves
<1>2. ASSUME NEW r \in StreamIds, DeviceService(r) /\ UNCHANGED <<authVars, shellVars, pushVars>>
      PROVE  \/ Serves /\ AuthNext /\ UNCHANGED <<shellVars, pushVars>>
             \/ \E q \in StreamIds, d \in Replies :
                  IsSync(q) /\ SyncReply(q, d) /\ UNCHANGED <<authVars, shellVars, pushVars>>
  <2>1. CASE DevStreamEnd(r) \/ (~IsSync(r) /\ DevStreamWrite(r))
    <3>1. AuthNext
      BY <1>2, <2>1 DEF AuthNext, Daemon
    <3> QED BY <1>2, <2>1, <3>1 DEF Serves
  <2>2. CASE IsSync(r) /\ (SyncReply(r, ReplyOkay) \/ SyncReply(r, ReplyFail))
    BY <1>2, <2>2 DEF Replies
  <2> QED BY <1>2, <2>1, <2>2 DEF DeviceService, SyncService, SyncOkay, SyncFail, SyncQuit
<1> QED BY <1>1, <1>2 DEF SessionNext

(* A WRTE is only ever added by a service.                                 *)
LEMMA PacketSays ==
  ASSUME AuthTypeOK, DevPacket \/ \E r \in StreamIds : DevStreamEnd(r)
  PROVE  /\ UNCHANGED <<receive_queue, rx_msg>>
         /\ usb_in' = usb_in \/ \E m \in Message : Says(m) /\ m.cmd # "WRTE"
<1>0. UNCHANGED <<receive_queue, rx_msg>>
  BY DEF DevPacket, DevConnect, DevSignature, DevPublicKey, DevOpen, DevAck,
     DevCloseRequest, DevHostWrite, DevIgnore, DevGarbled, DevStreamEnd, DevWrites, DevReads
<1>2. ASSUME NEW cmd \in Commands \ {"WRTE"}, NEW a0 \in Nat, NEW a1 \in Nat, NEW d \in Data
      PROVE  Msg(cmd, a0, a1, d) \in Message /\ Msg(cmd, a0, a1, d).cmd # "WRTE"
  BY <1>2, MsgType DEF Msg
<1>3. CASE DevConnect \/ DevSignature \/ DevPublicKey
  <2>1. Connected \in Message /\ Connected.cmd # "WRTE"
    BY HandshakeIsOther DEF Connected, Msg
  <2>2. Challenge(dev_token + 1) \in Message /\ Challenge(dev_token + 1).cmd # "WRTE"
    <3>1. dev_token + 1 \in Nat
      BY DEF AuthTypeOK, DaemonTypeOK
    <3> QED BY <3>1, HandshakeIsOther DEF Challenge, Msg
  <2>3. DevReads(<<>>) \/ DevReads(<<Connected>>) \/ DevReads(<<Challenge(dev_token + 1)>>)
    BY <1>3 DEF DevConnect, DevSignature, DevPublicKey
  <2>4. /\ DevReads(<<>>) => usb_in' = usb_in
        /\ DevReads(<<Connected>>) => Says(Connected)
        /\ DevReads(<<Challenge(dev_token + 1)>>) => Says(Challenge(dev_token + 1))
    BY <2>1, <2>2, ReadsSays
  <2> QED BY <1>0, <2>1, <2>2, <2>3, <2>4
<1>4. CASE DevOpen \/ DevAck \/ DevCloseRequest \/ DevHostWrite \/ DevIgnore
  <2>0. Frame \in Message
    BY <1>4, FrameType DEF AuthTypeOK, DevOpen, DevAck, DevCloseRequest, DevHostWrite, DevIgnore, Receives
  <2>1. Frame.arg0 \in Nat /\ NoData \in Data /\ RemoteIds \subseteq Nat /\ StreamIds \subseteq Nat
    BY <2>0, ProtocolAssumption, StreamIdType, NoDataType DEF Message
  <2>2. \/ DevReads(<<>>)
        \/ \E cmd \in {"OKAY", "CLSE"}, a0 \in Nat : DevReads(<<Msg(cmd, a0, Frame.arg0, NoData)>>)
    <3>1. CASE DevOpen
      BY <3>1, <2>1 DEF DevOpen
    <3>2. CASE DevAck \/ DevIgnore
      BY <3>2 DEF DevAck, DevIgnore
    <3>3. CASE DevCloseRequest \/ DevHostWrite
      BY <3>3, <2>1 DEF DevCloseRequest, DevHostWrite, Addressed
    <3> QED BY <1>4, <3>1, <3>2, <3>3
  <2>3. ASSUME NEW cmd \in {"OKAY", "CLSE"}, NEW a0 \in Nat, DevReads(<<Msg(cmd, a0, Frame.arg0, NoData)>>)
        PROVE  \E m \in Message : Says(m) /\ m.cmd # "WRTE"
    <3>1. PICK m : m = Msg(cmd, a0, Frame.arg0, NoData)
      OBVIOUS
    <3>2. m \in Message /\ m.cmd # "WRTE"
      BY <1>2, <2>1, <3>1 DEF Commands
    <3> QED BY <2>3, <3>1, <3>2, ReadsSays
  <2>4. DevReads(<<>>) => usb_in' = usb_in
    BY ReadsSays
  <2> QED BY <1>0, <2>2, <2>3, <2>4
<1>5. CASE DevGarbled
  BY <1>5 DEF DevGarbled
<1>6. ASSUME NEW r \in StreamIds, DevStreamEnd(r)
      PROVE  \E m \in Message : Says(m) /\ m.cmd # "WRTE"
  <2>1. stream[r].peer \in Nat /\ r \in Nat /\ NoData \in Data
    BY StreamFacts, NoDataType
  <2> QED BY <1>2, <1>6, <2>1 DEF DevStreamEnd, DevWrites, Says, Commands
<1> QED BY <1>0, <1>3, <1>4, <1>5, <1>6 DEF DevPacket

LEMMA RepliesServed ==
  ASSUME AuthTypeOK, WireInv, PushTypeOK, RepliesOnly, Serves, UNCHANGED pid
  PROVE  RepliesOnly'
<1>1. ASSUME NEW n, Frames' \subseteq Frames \cup {n},
             n.cmd # "WRTE" \/ n.arg0 \notin RemoteIds \/ \A p \in Pushes : n.arg1 # pid[p]
      PROVE  RepliesOnly'
  BY <1>1 DEF RepliesOnly
<1>2. CASE HostThreads \/ Authenticate
  <2>1. Frames' \subseteq Frames \cup {NoMsg}
    BY <1>2, FramesHostThreads, FramesAuthenticate
  <2>2. NoMsg.cmd # "WRTE"
    BY DEF NoMsg, Msg
  <2> QED BY <1>1, <2>1, <2>2
<1>3. CASE DevPacket \/ \E r \in StreamIds : DevStreamEnd(r)
  <2>1. CASE usb_in' = usb_in
    BY <1>1, <1>3, <2>1, PacketSays, FramesSays DEF RepliesOnly
  <2>2. ASSUME NEW m \in Message, Says(m), m.cmd # "WRTE" PROVE RepliesOnly'
    BY <1>1, <1>3, <2>2, PacketSays, FramesSays
  <2> QED BY <1>3, <2>1, <2>2, PacketSays
<1>4. ASSUME NEW r \in StreamIds, ~IsSync(r), DevStreamWrite(r)
      PROVE  RepliesOnly'
  <2>1. PICK m : m = Msg("WRTE", r, stream[r].peer, <<r, stream[r].sent + 1>>)
    OBVIOUS
  <2>2. m \in Message /\ m.arg1 = stream[r].peer
    <3>1. stream[r].peer \in Nat /\ r \in Nat /\ <<r, stream[r].sent + 1>> \in Data
      BY StreamFacts DEF Data
    <3>2. Msg("WRTE", r, stream[r].peer, <<r, stream[r].sent + 1>>) \in Message
      BY <3>1, MsgType DEF Commands
    <3> QED BY <2>1, <3>2 DEF Msg
  <2>3. Says(m) /\ UNCHANGED <<receive_queue, rx_msg>>
    BY <1>4, <2>1 DEF DevStreamWrite, DevWrites, Says
  <2>4. Frames' = Frames \cup {m} /\ \A p \in Pushes : m.arg1 # pid[p]
    BY <1>4, <2>2, <2>3, FramesSays DEF IsSync
  <2> QED BY <1>1, <2>4
<1> QED BY <1>2, <1>3, <1>4 DEF Serves, Connection

-----------------------------------------------------------------------------
(* SessionBase is inductive, when one thread makes the calls of shell().   *)
LEMMA StreamsStand ==
  ASSUME AuthTypeOK, AuthNext, NEW r \in StreamIds, stream[r].st # "none"
  PROVE  /\ stream'[r].st # "none" /\ stream'[r].peer = stream[r].peer
         /\ stream[r].st = "closed" => stream'[r].st = "closed"
<1>1. CASE Daemon
  BY <1>1, StreamGrows
<1>2. CASE UNCHANGED stream
  BY <1>2
<1>3. CASE Authenticate
  BY <1>3, PipeAuthenticate
<1> QED BY <1>1, <1>2, <1>3 DEF AuthNext, daemonVars

LEMMA PushesStand ==
  ASSUME PushTypeOK, PushStates, UNCHANGED pushVars, auth_pc = "done" => auth_pc' = "done",
         \A r \in StreamIds : stream[r].st # "none" =>
           /\ stream'[r].st # "none" /\ stream'[r].peer = stream[r].peer
           /\ stream[r].st = "closed" => stream'[r].st = "closed"
  PROVE  PushTypeOK' /\ PushStates'
<1>1. UNCHANGED <<ppc, pid, prid, record, reply>>
  BY DEF pushVars
<1>2. PushTypeOK'
  BY <1>1 DEF PushTypeOK, Quit
<1>3. ASSUME NEW p \in Pushes PROVE PushState(p)'
  <2>1. PushState(p) /\ prid[p] \in StreamIds \cup {0}
    BY DEF PushStates, PushTypeOK
  <2>2. CASE prid[p] = 0
    BY <1>1, <2>1, <2>2 DEF PushState, Quit
  <2>3. CASE prid[p] \in StreamIds /\ prid[p] # 0
    <3>1. /\ stream[prid[p]].st # "none" /\ stream'[prid[p]].st # "none"
          /\ stream'[prid[p]].peer = stream[prid[p]].peer
          /\ stream[prid[p]].st = "closed" => stream'[prid[p]].st = "closed"
      BY <2>1, <2>3 DEF PushState
    <3> QED BY <1>1, <2>1, <2>3, <3>1 DEF PushState, Quit
  <2> QED BY <2>1, <2>2, <2>3
<1> QED BY <1>2, <1>3 DEF PushStates

LEMMA IdsStand ==
  ASSUME SessionIds, UNCHANGED <<base_id, loaded, pc, local_id, pid, opened>>
  PROVE  SessionIds'
BY DEF SessionIds, IdsGrow, LocalIdsDistinct

LEMMA ServesBase ==
  ASSUME SessionBase, Serves, AuthNext, UNCHANGED <<shellVars, pushVars>>
  PROVE  SessionBase'
<1>1. AuthTypeOK /\ AuthTypeOK' /\ ShellTypeOK /\ StaleInv /\ WireInv
  BY AuthNextType DEF SessionBase, ShellTypeOK, TypeOK, ShellStaleInv
<1>2. ShellTypeOK' /\ WireInv' /\ StaleInv'
  BY <1>1, ShellStutterType, WireStep, StaleStep
<1>3. auth_pc = "done" => auth_pc' = "done"
  BY AuthKeepsDone
<1>4. ShellStaleInv'
  BY <1>2, <1>3 DEF SessionBase, ShellStaleInv, CallsConnected, TasksConnected, shellVars,
     callVars, taskVars
<1>5. PushTypeOK' /\ PushStates'
  BY <1>1, <1>3, PushesStand, StreamsStand DEF SessionBase
<1>6. SessionIds'
  BY OpenedStays, IdsStand DEF SessionBase, shellVars, callVars, pushVars
<1>7. RepliesOnly'
  BY <1>1, RepliesServed DEF SessionBase, pushVars
<1> QED BY <1>2, <1>4, <1>5, <1>6, <1>7 DEF SessionBase

LEMMA SyncBase ==
  ASSUME SessionBase, NEW q \in StreamIds, NEW d \in Replies, SyncReply(q, d),
         UNCHANGED <<authVars, shellVars, pushVars>>
  PROVE  SessionBase'
<1>0. AuthTypeOK /\ StaleInv /\ WireInv
  BY DEF SessionBase, ShellTypeOK, TypeOK, ShellStaleInv
<1>1. AuthTypeOK' /\ StaleInv' /\ WireInv' /\ \E m \in Message : SyncWrites(q, m)
  BY <1>0, SyncSays
<1>2. PICK m \in Message : SyncWrites(q, m)
  BY <1>1
<1>3. UNCHANGED auth_pc
  BY DEF authVars
<1>4. ShellTypeOK' /\ ShellStaleInv'
  BY <1>1, <1>3, ShellStutterType DEF SessionBase, ShellStaleInv, CallsConnected, TasksConnected,
     shellVars, callVars, taskVars
<1>5. PushTypeOK' /\ PushStates'
  <2>1. stream'[q].st = "waitack" /\ stream'[q].peer = stream[q].peer
    BY <1>0, <1>2, StreamFacts DEF Stream, SyncWrites
  <2>2. \A r \in StreamIds : stream[r].st # "none" =>
           /\ stream'[r].st # "none" /\ stream'[r].peer = stream[r].peer
           /\ (stream[r].st = "closed" => stream'[r].st = "closed")
    BY <1>2, <2>1 DEF SyncWrites
  <2> QED BY <1>3, <2>2, PushesStand DEF SessionBase
<1>6. SessionIds'
  BY <1>2, IdsStand DEF SyncWrites, SessionBase, shellVars, callVars, pushVars
<1>7. RepliesOnly'
  BY <1>2 DEF SyncWrites, SessionBase, RepliesOnly, pushVars
<1> QED BY <1>1, <1>4, <1>5, <1>6, <1>7 DEF SessionBase

LEMMA PushIds ==
  ASSUME SessionBase, NEW p \in Pushes, PushStep(p)
  PROVE  /\ SessionIds'
         /\ CallPush(p) => /\ base_id + 2 \notin opened /\ \A q \in Pushes : pid[q] # base_id + 2
                           /\ \A c \in Shells : local_id[c] # base_id + 2
<1>0. AuthTypeOK /\ StaleInv /\ WireInv /\ PushTypeOK /\ PushStates /\ PushState(p)
  BY DEF SessionBase, ShellTypeOK, TypeOK, ShellStaleInv, PushStates
<1>1. /\ UNCHANGED <<loaded, pc, local_id>>
      /\ \/ base_id' = base_id /\ UNCHANGED pid
         \/ /\ CallPush(p) /\ base_id' = base_id + 2
            /\ \A c \in Shells : pc[c] \notin InCall
            /\ pid' = [pid EXCEPT ![p] = base_id']
      /\ \/ opened' = opened
         \/ pid[p] \in LocalIds /\ opened' = opened \cup {pid[p]}
  BY <1>0, PushKeepsCalls, PushConnected DEF SessionBase, PushStep, shellOnlyVars, ShellStaleInv
<1>2. /\ base_id \in LocalIds \cup {10} /\ opened \subseteq LocalIds /\ 0 \notin LocalIds
      /\ LocalIds \subseteq Nat /\ local_id \in [Shells -> LocalIds \cup {0}]
      /\ pid \in [Pushes -> LocalIds \cup {0}]
  BY ProtocolAssumption DEF SessionBase, ShellTypeOK, TypeOK, PushTypeOK, AuthTypeOK, ProtocolTypeOK
<1>3. /\ base_id \in Nat /\ \A c \in Shells : local_id[c] \in Nat
      /\ \A q \in Pushes : pid[q] \in Nat
  <2>1. LocalIds \cup {0, 10} \subseteq Nat
    BY <1>2
  <2> QED BY <1>2, <2>1
<1>4. ASSUME CallPush(p) PROVE pid[p] = 0 /\ opened' = opened
  BY <1>0, <1>4 DEF CallPush, Advance, PushState, AuthVars, protocolVars
<1>5. SessionIds
  BY DEF SessionBase
<1>6. /\ \A c \in Shells : local_id[c] < base_id + 2
      /\ \A q \in Pushes : pid[q] < base_id + 2
      /\ \A k \in opened : k \in Nat /\ k < base_id + 2
  <2>1. /\ \A c \in Shells : local_id[c] < base_id + 2
        /\ \A q \in Pushes : pid[q] < base_id + 2
    BY <1>3, <1>5 DEF SessionIds, IdsGrow
  <2> QED BY <1>2, <1>5, <2>1 DEF SessionIds
<1>9. CallPush(p) => /\ base_id + 2 \notin opened /\ \A q \in Pushes : pid[q] # base_id + 2
                     /\ \A c \in Shells : local_id[c] # base_id + 2
  BY <1>3, <1>6
<1>7. CASE base_id' = base_id /\ UNCHANGED pid
  <2>1. IdsGrow'
    BY <1>1, <1>5, <1>7 DEF SessionIds, IdsGrow, LocalIdsDistinct
  <2>2. \A k \in opened' : (\E c \in Shells : local_id'[c] = k) \/ (\E a \in Pushes : pid'[a] = k)
    BY <1>1, <1>5, <1>7 DEF SessionIds
  <2>3. /\ \A a \in Pushes : pid'[a] <= base_id'
        /\ \A c \in Shells, a \in Pushes : pc'[c] = "return" => pid'[a] < base_id'
        /\ \A a, b \in Pushes : a # b /\ pid'[a] # 0 => pid'[a] # pid'[b]
        /\ \A a \in Pushes, c \in Shells : pid'[a] # 0 => pid'[a] # local_id'[c]
    BY <1>1, <1>5, <1>7 DEF SessionIds
  <2> QED BY <1>7, <1>9, <2>1, <2>2, <2>3 DEF SessionIds
<1>8. CASE /\ CallPush(p) /\ base_id' = base_id + 2
           /\ \A c \in Shells : pc[c] \notin InCall
           /\ pid' = [pid EXCEPT ![p] = base_id']
  <2>1. pid'[p] = base_id + 2 /\ \A q \in Pushes \ {p} : pid'[q] = pid[q]
    BY <1>2, <1>8
  <2>2. pid[p] = 0 /\ opened' = opened
    BY <1>4, <1>8
  <2>3. IdsGrow'
    <3>1. \A c \in Shells : pc[c] # "store" /\ pc[c] # "return"
      BY <1>8 DEF InCall
    <3>2. \A c \in Shells : local_id[c] <= base_id + 2
      BY <1>3, <1>6
    <3> QED BY <1>1, <1>5, <1>8, <3>1, <3>2 DEF SessionIds, IdsGrow, LocalIdsDistinct
  <2>4. \A q \in Pushes : pid'[q] <= base_id'
    BY <1>3, <1>6, <1>8, <2>1
  <2>5. \A c \in Shells : pc[c] # "return"
    BY <1>8 DEF InCall
  <2>6. \A a, b \in Pushes : a # b /\ pid'[a] # 0 => pid'[a] # pid'[b]
    <3>1. \A a \in Pushes \ {p} : pid'[a] # base_id + 2
      BY <1>3, <1>6, <2>1
    <3>2. \A a, b \in Pushes : a # b /\ pid[a] # 0 => pid[a] # pid[b]
      BY <1>5 DEF SessionIds
    <3> QED BY <2>1, <3>1, <3>2
  <2>7. \A a \in Pushes, c \in Shells : pid'[a] # 0 => pid'[a] # local_id'[c]
    <3>1. \A c \in Shells : local_id[c] # base_id + 2
      BY <1>3, <1>6
    <3>2. \A a \in Pushes, c \in Shells : pid[a] # 0 => pid[a] # local_id[c]
      BY <1>5 DEF SessionIds
    <3> QED BY <1>1, <2>1, <3>1, <3>2
  <2>8. ASSUME NEW k \in opened' PROVE (\E c \in Shells : local_id'[c] = k) \/ (\E a \in Pushes : pid'[a] = k)
    <3>1. k \in opened /\ k # 0
      BY <1>2, <2>2, <2>8
    <3>2. (\E c \in Shells : local_id[c] = k) \/ (\E a \in Pushes : pid[a] = k)
      BY <1>5, <3>1 DEF SessionIds
    <3> QED BY <1>1, <2>1, <2>2, <3>1, <3>2
  <2>9. \A k \in opened' : (\E c \in Shells : local_id'[c] = k) \/ (\E a \in Pushes : pid'[a] = k)
    BY <2>8
  <2>10. \A c \in Shells, a \in Pushes : pc'[c] = "return" => pid'[a] < base_id'
    BY <1>1, <2>5
  <2> QED BY <1>9, <2>3, <2>4, <2>6, <2>7, <2>9, <2>10 DEF SessionIds
<1> QED BY <1>1, <1>7, <1>8, <1>9

LEMMA PushBase ==
  ASSUME SessionBase, NEW p \in Pushes, PushStep(p)
  PROVE  SessionBase'
<1>0. AuthTypeOK /\ StaleInv /\ WireInv /\ Push(p)
  BY DEF SessionBase, ShellTypeOK, TypeOK, ShellStaleInv, PushStep
<1>1. AuthTypeOK' /\ StaleInv' /\ WireInv' /\ auth_pc' = "done" /\ Frames' \subseteq Frames
  BY <1>0, PushConnected DEF SessionBase
<1>2. ShellTypeOK' /\ ShellStaleInv'
  BY <1>1, PushKeepsCalls DEF SessionBase
<1>3. PushTypeOK' /\ PushStates'
  BY <1>0, PushStateStep DEF SessionBase
<1>4. RepliesOnly'
  <2> SUFFICES ASSUME NEW m \in Frames, NEW q \in Pushes, m.cmd = "WRTE", m.arg0 \in RemoteIds,
                      m.arg1 = pid'[q]
               PROVE  m.data \in Replies
    BY <1>1 DEF RepliesOnly
  <2>1. CASE m.arg1 = pid[q]
    BY <2>1 DEF SessionBase, RepliesOnly
  <2>2. CASE m.arg1 # pid[q]
    <3>1. CallPush(p) /\ pid' = [pid EXCEPT ![p] = base_id'] /\ base_id' = base_id + 2
      BY <1>1, <2>2, PushKeepsCalls DEF SessionBase
    <3>2. m.arg1 = base_id + 2
      BY <2>2, <3>1 DEF SessionBase, PushTypeOK
    <3>3. stream[m.arg0].st # "none" /\ m.arg1 = stream[m.arg0].peer
      BY <1>0, FramesType DEF FrameOk, OfStream, Said
    <3>4. m.arg1 \in opened
      BY <1>0, <3>3 DEF WireInv, PeersOpened
    <3> QED BY <3>1, <3>2, <3>4, PushIds
  <2> QED BY <2>1, <2>2
<1> QED BY <1>1, <1>2, <1>3, <1>4, PushIds DEF SessionBase

LEMMA ShellConnected ==
  ASSUME ShellTypeOK, NEW c \in Shells, Call(c) \/ Task(c) \/ Output(c) \/ Close(c)
  PROVE  /\ Frames' \subseteq Frames /\ UNCHANGED <<stream, auth_pc>>
         /\ \/ opened' = opened
            \/ local_id[c] \in LocalIds /\ opened' = opened \cup {local_id[c]}
<1>0. AuthTypeOK /\ LocalIds \subseteq Keys
  BY DEF ShellTypeOK, TypeOK, Keys
<1>1. CASE UNCHANGED AuthVars
  <2>1. UNCHANGED <<usb_in, rx_msg, receive_queue, opened, auth_pc, stream>>
    BY <1>1 DEF AuthVars, protocolVars, authVars, daemonVars
  <2> QED BY <2>1 DEF Frames, InQueues
<1>2. CASE local_id[c] \in LocalIds /\ Take(local_id[c]) /\ UNCHANGED <<daemonVars, authVars>>
  <2>1. opened' = opened /\ UNCHANGED <<stream, auth_pc>>
    BY <1>2 DEF Take, daemonVars, authVars
  <2> QED BY <1>0, <1>2, <2>1, FramesTake
<1>3. ASSUME NEW m \in Message, ShellPuts(c, m)
      PROVE  /\ Frames' \subseteq Frames /\ UNCHANGED <<stream, auth_pc>>
             /\ \/ opened' = opened
                \/ local_id[c] \in LocalIds /\ opened' = opened \cup {local_id[c]}
  <2>1. UNCHANGED <<usb_in, rx_msg, receive_queue, auth_pc, stream>>
    BY <1>3 DEF ShellPuts, daemonVars, authVars
  <2> QED BY <1>3, <2>1 DEF Frames, InQueues, ShellPuts
<1> QED BY <1>1, <1>2, <1>3, ShellDoes

LEMMA ShellIds ==
  ASSUME OneCaller, SessionBase, NEW c \in Shells, Call(c) \/ Task(c) \/ Output(c) \/ Close(c),
         UNCHANGED pushVars
  PROVE  /\ SessionIds'
         /\ ReturnId(c) => base_id \notin opened /\ \A p \in Pushes : pid[p] # base_id
<1>0. ShellTypeOK /\ SessionIds /\ IdsGrow /\ UNCHANGED pid
  BY DEF SessionBase, SessionIds, pushVars
<1>1. /\ base_id \in LocalIds \cup {10} /\ opened \subseteq LocalIds /\ 0 \notin LocalIds
      /\ LocalIds \subseteq Nat /\ local_id \in [Shells -> LocalIds \cup {0}]
      /\ pid \in [Pushes -> LocalIds \cup {0}] /\ pc \in [Shells -> Pc]
  BY ProtocolAssumption DEF SessionBase, ShellTypeOK, TypeOK, PushTypeOK, AuthTypeOK, ProtocolTypeOK
<1>2. /\ base_id \in Nat /\ \A d \in Shells : local_id[d] \in Nat
      /\ \A q \in Pushes : pid[q] \in Nat
  <2>1. LocalIds \cup {0, 10} \subseteq Nat
    BY <1>1
  <2> QED BY <1>1, <2>1
<1>3. IdsGrow'
  <2>1. CASE Call(c)
    BY <1>0, <2>1, IdsGrowStep
  <2>2. CASE Task(c) \/ Output(c) \/ Close(c)
    <3>1. UNCHANGED <<base_id, loaded, local_id>>
      BY <2>2 DEF Task, TaskReceive, TaskPut, Output, Close, callVars
    <3>2. pc' = pc \/ (pc[c] = "connected" /\ pc' = [pc EXCEPT ![c] = "closed"])
      BY <2>2 DEF Task, TaskReceive, TaskPut, Output, Close, callVars
    <3> QED BY <1>0, <1>1, <3>1, <3>2 DEF IdsGrow, InCall, LocalIdsDistinct
  <2> QED BY <2>1, <2>2
<1>4. /\ base_id' = base_id \/ (base_id' = base_id + 2 /\ pc[c] = "store")
      /\ \A d \in Shells : local_id'[d] = local_id[d] \/ (ReturnId(c) /\ d = c /\ local_id'[d] = base_id)
      /\ \A d \in Shells : pc'[d] = "return" =>
           pc[d] = "return" \/ (base_id' = base_id + 2 /\ d = c /\ pc[c] = "store")
      /\ ReturnId(c) => pc[c] = "return" /\ local_id[c] = 0 /\ UNCHANGED <<base_id, opened>>
  <2>1. CASE StoreId(c)
    BY <1>0, <1>1, <2>1 DEF StoreId, IdsGrow, ReturnId
  <2>2. CASE ReturnId(c)
    BY <1>0, <1>1, <2>2 DEF ReturnId, IdsGrow, AuthVars, protocolVars
  <2>3. CASE ~StoreId(c) /\ ~ReturnId(c)
    BY <1>0, <1>1, <2>3 DEF Call, CallShell, SendOpen, SendOpenPayload, OpenAnswer, ReturnOutput,
       Task, TaskReceive, TaskPut, Output, Close, callVars
  <2> QED BY <2>1, <2>2, <2>3
<1>5. \A p \in Pushes : pid[p] <= base_id'
  BY <1>0, <1>2, <1>4 DEF SessionIds
<1>6. \A d \in Shells, p \in Pushes : pc'[d] = "return" => pid[p] < base_id'
  <2> SUFFICES ASSUME NEW d \in Shells, NEW p \in Pushes, pc'[d] = "return" PROVE pid[p] < base_id'
    OBVIOUS
  <2>1. CASE base_id' = base_id + 2
    BY <1>0, <1>2, <2>1 DEF SessionIds
  <2>2. CASE base_id' = base_id
    <3>1. base_id' # base_id + 2
      BY <1>2, <2>2
    <3> QED BY <1>0, <1>4, <2>2, <3>1 DEF SessionIds
  <2> QED BY <1>4, <2>1, <2>2
<1>7. \A p \in Pushes, d \in Shells : pid[p] # 0 => pid[p] # local_id'[d]
  <2>1. ReturnId(c) => \A p \in Pushes : pid[p] < base_id
    BY <1>0, <1>4 DEF SessionIds
  <2> QED BY <1>0, <1>2, <1>4, <2>1 DEF SessionIds
<1>8. \A k \in opened' : (\E d \in Shells : local_id'[d] = k) \/ (\E p \in Pushes : pid[p] = k)
  <2>1. opened' = opened \/ (local_id[c] \in LocalIds /\ opened' = opened \cup {local_id[c]})
    BY <1>0, ShellConnected
  <2>2. \A d \in Shells : local_id[d] # 0 => local_id'[d] = local_id[d]
    BY <1>4
  <2>3. \A k \in opened : (\E d \in Shells : local_id[d] = k) \/ (\E p \in Pushes : pid[p] = k)
    BY <1>0 DEF SessionIds
  <2>4. ASSUME NEW k \in opened'
        PROVE  (\E d \in Shells : local_id'[d] = k) \/ (\E p \in Pushes : pid[p] = k)
    <3>1. k # 0 /\ (k \in opened \/ (local_id[c] \in LocalIds /\ k = local_id[c]))
      BY <1>1, <2>1, <2>4
    <3> QED BY <2>2, <2>3, <3>1
  <2> QED BY <2>4
<1>9. ReturnId(c) => base_id \notin opened /\ \A p \in Pushes : pid[p] # base_id
  <2> SUFFICES ASSUME ReturnId(c) PROVE base_id \notin opened /\ \A p \in Pushes : pid[p] # base_id
    OBVIOUS
  <2>1. \A p \in Pushes : pid[p] < base_id
    BY <1>0, <1>4 DEF SessionIds
  <2>2. \A d \in Shells : local_id[d] < base_id
    BY <1>0, <1>4 DEF IdsGrow
  <2>3. \A p \in Pushes : pid[p] # base_id
    BY <1>2, <2>1
  <2>4. \A d \in Shells : local_id[d] # base_id
    BY <1>2, <2>2
  <2> QED BY <1>0, <2>3, <2>4 DEF SessionIds
<1> QED BY <1>0, <1>3, <1>5, <1>6, <1>7, <1>8, <1>9 DEF SessionIds

LEMMA ShellBase ==
  ASSUME OneCaller, SessionBase, NEW c \in Shells, Call(c) \/ Task(c) \/ Output(c) \/ Close(c),
         UNCHANGED pushVars
  PROVE  SessionBase'
<1>1. ShellTypeOK' /\ ShellStaleInv' /\ WireInv'
  BY ShellStepType, ShellStaleStep, ShellWire DEF SessionBase
<1>2. Frames' \subseteq Frames /\ UNCHANGED <<stream, auth_pc>>
  BY ShellConnected DEF SessionBase
<1>3. PushTypeOK' /\ PushStates'
  BY <1>2, PushesStand DEF SessionBase
<1>4. RepliesOnly'
  BY <1>2 DEF SessionBase, RepliesOnly, pushVars
<1> QED BY <1>1, <1>3, <1>4, ShellIds DEF SessionBase

LEMMA SessionBaseStep ==
  ASSUME OneCaller, SessionBase, [SessionNext]_sessionVars
  PROVE  SessionBase'
<1>1. CASE UNCHANGED sessionVars
  <2>1. UNCHANGED <<AuthVars, shellVars, pushVars>>
    BY <1>1 DEF sessionVars, shellOnlyVars, shellVars, callVars, pushVars
  <2>2. /\ UNCHANGED <<usb_in, rx_msg, receive_queue, opened, auth_pc, stream>>
        /\ UNCHANGED <<base_id, loaded, pc, local_id, pid>> /\ UNCHANGED shellVars
    BY <2>1 DEF AuthVars, protocolVars, authVars, daemonVars, shellVars, callVars, pushVars
  <2>3. ShellTypeOK'
    BY <2>1, <2>2, AuthUnchangedType, ShellStutterType DEF SessionBase, ShellTypeOK, TypeOK
  <2>4. ShellStaleInv' /\ WireInv'
    BY <2>1, <2>2, StaleUnchanged, WireUnchanged DEF SessionBase, ShellStaleInv, CallsConnected,
       TasksConnected, shellVars, callVars, taskVars
  <2>5. PushTypeOK' /\ PushStates'
    BY <2>1, <2>2, PushesStand DEF SessionBase
  <2>6. SessionIds' /\ RepliesOnly'
    BY <2>2, IdsStand DEF SessionBase, RepliesOnly, Frames, InQueues
  <2> QED BY <2>3, <2>4, <2>5, <2>6 DEF SessionBase
<1>2. CASE SessionNext
  BY <1>2, SessionSteps, ServesBase, SyncBase, PushBase, ShellBase DEF ShellStep, Use
<1> QED BY <1>1, <1>2

-----------------------------------------------------------------------------
(* A push and its service take turns.  What the push asks, OPEN or WRTE,   *)
(* is answered by one OKAY, and it asks again only when it has taken that: *)
(* of both together at most one is under way.                              *)
Few(s, S) == None(s, S) \/ Once(s, S)
Asks(k) == {m \in Message : m.cmd \in {"OPEN", "WRTE"} /\ m.arg0 = k}
Okays(k) == {m \in Message : m.cmd = "OKAY" /\ m.arg0 \in RemoteIds /\ m.arg1 = k}

NoAnswer(k) ==
  None(usb_in, Okays(k)) /\ rx_msg \notin Okays(k) /\ None(receive_queue[k], Okays(k))
OneAnswer(k) ==
  \/ Few(usb_in, Okays(k)) /\ rx_msg \notin Okays(k) /\ None(receive_queue[k], Okays(k))
  \/ None(usb_in, Okays(k)) /\ None(receive_queue[k], Okays(k))
  \/ None(usb_in, Okays(k)) /\ rx_msg \notin Okays(k) /\ Few(receive_queue[k], Okays(k))

Silence(k) == None(Pipe, Asks(k)) /\ NoAnswer(k)
Turn(k) ==
  \/ Few(Pipe, Asks(k)) /\ NoAnswer(k)
  \/ None(Pipe, Asks(k)) /\ OneAnswer(k)

(* Where a push stands when nothing of it is under way, and where a record *)
(* may be.                                                                 *)
Resting == {"open", "send", "await_reply", "await_close", "close", "ended"}
Asking == {"send_data", "await_okay", "raised"}

(* The records that the service has received: all that were sent, or all   *)
(* but the last, which is then not answered.                               *)
GotRecords(p) ==
  LET got == stream[prid[p]].got IN
    /\ got = [i \in 1..Len(got) |-> <<p, i>>]
    /\ Len(got) \in {record[p] - 1, record[p]}
    /\ ppc[p] \notin Asking \/ ~None(Pipe, Asks(pid[p])) => Len(got) = record[p] - 1
    /\ ~NoAnswer(pid[p]) => Len(got) = record[p]

PushTurn(p) ==
  pid[p] # 0 =>
    /\ Turn(pid[p])
    /\ ppc[p] \in Resting => Silence(pid[p])
    /\ prid[p] # 0 => GotRecords(p)
    /\ prid[p] = 0 =>
         \A r \in RemoteIds :
           stream[r].st # "none" /\ stream[r].peer = pid[p] => stream[r].got = <<>>

WritesAreRecords ==
  \A m \in Inside(Pipe) : m.cmd = "WRTE" =>
    \E p \in Pushes : m = RecordMsg(p) /\ ppc[p] \in Asking

(* An OPEN that adbd has not read is not answered.                         *)
OpensUnanswered ==
  \A m \in Inside(Pipe), p \in Pushes : m.cmd = "OPEN" /\ m.arg0 = pid[p] => prid[p] = 0

PushTurns == WritesAreRecords /\ OpensUnanswered /\ \A p \in Pushes : PushTurn(p)

-----------------------------------------------------------------------------
(* How often a sequence holds a message of S when something is added to it *)
(* or taken from it.                                                       *)
LEMMA FewAppend ==
  ASSUME NEW s \in Seq(Message), NEW m \in Message, NEW S
  PROVE  /\ m \notin S => /\ None(s, S) => None(Append(s, m), S)
                          /\ Few(s, S) => Few(Append(s, m), S)
         /\ None(s, S) => Few(Append(s, m), S)
BY OnceAppend DEF Few

LEMMA FewTail ==
  ASSUME NEW s \in Seq(Message), s # <<>>, NEW S
  PROVE  /\ None(s, S) => None(Tail(s), S) /\ Head(s) \notin S
         /\ Few(s, S) => Few(Tail(s), S)
         /\ Few(s, S) /\ Head(s) \in S => None(Tail(s), S)
BY OnceTail DEF Few

\* The first element of t is taken out of s \o t.
LEMMA FewDropped ==
  ASSUME NEW s \in Seq(Message), NEW t \in Seq(Message), t # <<>>, NEW S
  PROVE  /\ None(s \o t, S) => None(s \o Tail(t), S)
         /\ Few(s \o t, S) => Few(s \o Tail(t), S)
         /\ Inside(s \o Tail(t)) \subseteq Inside(s \o t)
<1> DEFINE a == s \o t
           b == s \o Tail(t)
           f(i) == IF i <= Len(s) THEN i ELSE i + 1
<1>1. Tail(t) \in Seq(Message) /\ Len(Tail(t)) = Len(t) - 1 /\ Len(s) \in Nat /\ Len(t) \in Nat \ {0}
  BY EmptySeq, HeadTailProperties
<1>2. Len(a) = Len(s) + Len(t) /\ Len(b) = Len(s) + Len(t) - 1
  BY <1>1
<1>3. ASSUME NEW i \in 1..Len(b) PROVE f(i) \in 1..Len(a) /\ b[i] = a[f(i)]
  <2>1. CASE i <= Len(s)
    BY <1>1, <1>2, <2>1
  <2>2. CASE i > Len(s)
    <3>0. i - Len(s) \in 1..Len(t) - 1 /\ i = Len(s) + (i - Len(s))
      <4>1. i \in Int /\ i <= Len(b) /\ Len(s) \in Nat /\ Len(t) \in Nat /\ Len(b) = Len(s) + Len(t) - 1
        BY <1>1, <1>2
      <4> QED BY <2>2, <4>1
    <3>1. PICK j \in 1..Len(t) - 1 : i = Len(s) + j
      BY <3>0
    <3>2. b[i] = Tail(t)[j] /\ a[f(i)] = t[j + 1]
      BY <1>1, <1>2, <2>2, <3>1
    <3>3. Tail(t)[j] = t[j + 1]
      BY <1>1, <3>1, HeadTailProperties
    <3> QED BY <1>1, <1>2, <2>2, <3>1, <3>2, <3>3
  <2> QED BY <1>1, <1>2, <2>1, <2>2
<1>4. \A i, j \in 1..Len(b) : f(i) = f(j) => i = j
  BY <1>1, <1>2
<1> HIDE DEF a, b, f
<1>5. None(a, S) => None(b, S)
  BY <1>3 DEF None
<1>6. Inside(b) \subseteq Inside(a)
  BY <1>3 DEF Inside
<1>7. ASSUME Once(a, S), ~None(b, S) PROVE Once(b, S)
  <2>1. PICK i \in 1..Len(b) : b[i] \in S
    BY <1>7 DEF None
  <2>2. ASSUME NEW j \in 1..Len(b), b[j] \in S PROVE j = i
    <3>1. f(i) = f(j)
      BY <1>3, <1>7, <2>1, <2>2 DEF Once
    <3> QED BY <1>4, <3>1
  <2> QED BY <2>1, <2>2 DEF Once
<1>8. Few(a, S) => Few(b, S)
  BY <1>5, <1>7 DEF Few
<1> QED BY <1>5, <1>6, <1>8 DEF a, b

(* What is on its way to adbd: the threads add OKAYs to it and may lose    *)
(* some of it, and adbd reads it.                                          *)
LEMMA FewHostThreads ==
  ASSUME AuthTypeOK, HostThreads, NEW S, \A m \in S : m.cmd # "OKAY"
  PROVE  /\ None(Pipe, S) => None(Pipe', S)
         /\ Few(Pipe, S) => Few(Pipe', S)
         /\ \A m \in Inside(Pipe') : m \in Inside(Pipe) \/ m.cmd = "OKAY"
<1>0. usb_out \in Seq(Message) /\ send_queue \in Seq(Message) /\ rx_msg \in Message /\ Pipe \in Seq(Message)
  BY PipeType DEF AuthTypeOK, ProtocolTypeOK
<1>1. CASE Pipe' = Pipe
  BY <1>1
<1>2. ASSUME NEW m \in Message, m.cmd = "OKAY", Pipe' = Append(Pipe, m)
      PROVE  /\ None(Pipe, S) => None(Pipe', S)
             /\ Few(Pipe, S) => Few(Pipe', S)
             /\ \A n \in Inside(Pipe') : n \in Inside(Pipe) \/ n.cmd = "OKAY"
  <2>1. m \notin S
    BY <1>2
  <2> QED BY <1>0, <1>2, <2>1, FewAppend, InsideAppend
<1>3. CASE WriteError
  <2>1. send_queue # <<>> /\ Pipe' = usb_out \o Tail(send_queue)
    BY <1>3 DEF WriteError, Pipe
  <2> QED BY <1>0, <2>1, FewDropped DEF Pipe
<1>4. CASE SendLoop
  <2>1. /\ send_queue # <<>> /\ send_queue' = Tail(send_queue)
        /\ usb_out' = Append(usb_out, Head(send_queue))
    BY <1>4 DEF SendLoop
  <2> QED BY <1>0, <1>1, <2>1, HeadMoves DEF Pipe
<1>5. CASE AckWrite
  <2>1. PICK m \in Message : m = Msg("OKAY", rx_msg.arg1, rx_msg.arg0, NoData)
    BY <1>0, NoDataType DEF Msg, Message, Commands
  <2>2. Puts(m) /\ usb_out' = usb_out /\ m.cmd = "OKAY"
    BY <1>5, <2>1 DEF AckWrite, Puts, Msg
  <2> QED BY <1>2, <2>2, PipePut
<1>6. CASE UNCHANGED <<usb_out, send_queue>>
  BY <1>1, <1>6 DEF Pipe
<1> QED BY <1>3, <1>4, <1>5, <1>6 DEF HostThreads, ReceiveLoop, ReceiveFrame, Deliver, Discard,
           ChecksumError

LEMMA FewRead ==
  ASSUME AuthTypeOK, DaemonRead, NEW S, \A m \in S : m.cmd # "DATA"
  PROVE  /\ Inside(Pipe') \subseteq Inside(Pipe) /\ Frame \in Inside(Pipe) /\ Frame \in Message
         /\ None(Pipe, S) => None(Pipe', S) /\ Frame \notin S
         /\ Few(Pipe, S) => Few(Pipe', S)
         /\ Few(Pipe, S) /\ Frame \in S => None(Pipe', S)
<1>1. /\ Pipe \in Seq(Message) /\ Pipe # <<>> /\ Head(Pipe) = Frame
      /\ \/ Pipe' = Tail(Pipe)
         \/ Tail(Pipe) # <<>> /\ Head(Tail(Pipe)).cmd = "DATA" /\ Pipe' = Tail(Tail(Pipe))
  BY PipeType DEF DaemonRead
<1>2. PICK t \in Seq(Message) : t = Tail(Pipe)
  BY <1>1, HeadTailProperties
<1>3. /\ Inside(Pipe') \subseteq Inside(Pipe) /\ Frame \in Inside(Pipe) /\ Frame \in Message
  BY ReadRemains
<1>4. /\ None(Pipe, S) => None(t, S) /\ Frame \notin S
      /\ Few(Pipe, S) => Few(t, S)
      /\ Few(Pipe, S) /\ Frame \in S => None(t, S)
  BY <1>1, <1>2, FewTail
<1>5. /\ None(t, S) => None(Pipe', S)
      /\ Few(t, S) => Few(Pipe', S)
  <2>1. CASE Pipe' = t
    BY <2>1
  <2>2. CASE t # <<>> /\ Pipe' = Tail(t)
    BY <1>2, <2>2, FewTail
  <2> QED BY <1>1, <1>2, <2>1, <2>2
<1> QED BY <1>3, <1>4, <1>5

-----------------------------------------------------------------------------
(* The answer to a push on its way through the receive thread.             *)
LEMMA OkaysFacts ==
  ASSUME NEW k
  PROVE  /\ Okays(k) \subseteq Message /\ \A m \in Okays(k) : m.cmd = "OKAY" /\ m.arg1 = k
         /\ Asks(k) \subseteq Message /\ \A m \in Asks(k) : m.cmd # "OKAY" /\ m.cmd # "DATA" /\ m.arg0 = k
         /\ NoMsg \notin Okays(k)
BY DEF Okays, Asks, NoMsg, Msg

LEMMA AnswerHostThreads ==
  ASSUME AuthTypeOK, WireInv, HostThreads, NEW k \in LocalIds
  PROVE  /\ NoAnswer(k) => NoAnswer(k)'
         /\ OneAnswer(k) => OneAnswer(k)'
<1>0. /\ usb_in \in Seq(Message) /\ rx_msg \in Message /\ receive_queue[k] \in Seq(Message)
      /\ k \in Keys /\ k # Default /\ receive_queue \in [Keys -> Seq(Message)]
  BY ProtocolAssumption DEF AuthTypeOK, ProtocolTypeOK, Keys, Default
<1> DEFINE S == Okays(k)
<1>1. CASE UNCHANGED <<usb_in, rx_msg, receive_queue>>
  BY <1>1 DEF NoAnswer, OneAnswer
<1>2. CASE ReceiveFrame \/ ChecksumError
  <2>1. /\ usb_in # <<>> /\ usb_in' = Tail(usb_in) /\ rx_msg' \in {rx_msg, Head(usb_in)}
        /\ receive_queue' = receive_queue /\ rx_msg = NoMsg
    BY <1>2 DEF ReceiveFrame, ChecksumError, WireInv, HandEmpty
  <2>2. rx_msg \notin S
    BY <2>1, OkaysFacts
  <2>3. /\ None(usb_in, S) => None(usb_in', S) /\ Head(usb_in) \notin S
        /\ Few(usb_in, S) => Few(usb_in', S)
        /\ Few(usb_in, S) /\ Head(usb_in) \in S => None(usb_in', S)
    BY <1>0, <2>1, FewTail
  <2> QED BY <2>1, <2>2, <2>3 DEF NoAnswer, OneAnswer
<1>3. CASE Deliver
  <2>1. /\ receive_queue' = [receive_queue EXCEPT ![KeyOf(rx_msg)] = Append(@, rx_msg)]
        /\ rx_msg' = NoMsg /\ usb_in' = usb_in
    BY <1>3 DEF Deliver
  <2>2. receive_queue'[k] = receive_queue[k] \/ receive_queue'[k] = Append(receive_queue[k], rx_msg)
    BY <1>0, <2>1
  <2>3. rx_msg' \notin S
    BY <2>1, OkaysFacts
  <2>4. rx_msg \in S => rx_msg.arg1 = k /\ rx_msg.cmd = "OKAY"
    BY OkaysFacts
  <2>5. /\ rx_msg \notin S /\ None(receive_queue[k], S) => None(receive_queue'[k], S)
        /\ rx_msg \notin S /\ Few(receive_queue[k], S) => Few(receive_queue'[k], S)
        /\ None(receive_queue[k], S) => Few(receive_queue'[k], S)
    <3>1. CASE receive_queue'[k] = receive_queue[k]
      BY <3>1 DEF Few
    <3>2. CASE receive_queue'[k] = Append(receive_queue[k], rx_msg)
      BY <1>0, <3>2, FewAppend
    <3> QED BY <2>2, <3>1, <3>2
  <2> QED BY <2>1, <2>3, <2>5 DEF NoAnswer, OneAnswer
<1>4. CASE Discard
  <2>1. rx_msg' = NoMsg /\ UNCHANGED <<usb_in, receive_queue>>
    BY <1>4 DEF Discard
  <2>2. rx_msg' \notin S
    BY <2>1, OkaysFacts
  <2> QED BY <2>1, <2>2 DEF NoAnswer, OneAnswer, Few
<1> QED BY <1>1, <1>2, <1>3, <1>4 DEF HostThreads, SendLoop, WriteError, ReceiveLoop, AckWrite

LEMMA AnswerTake ==
  ASSUME AuthTypeOK, NEW j \in Keys, Take(j), NEW k \in LocalIds
  PROVE  /\ NoAnswer(k) => NoAnswer(k)'
         /\ OneAnswer(k) => OneAnswer(k)'
         /\ j = k /\ Response(j) \in Okays(k) => ~NoAnswer(k) /\ (OneAnswer(k) => NoAnswer(k)')
<1>0. /\ receive_queue[k] \in Seq(Message) /\ k \in Keys /\ receive_queue \in [Keys -> Seq(Message)]
  BY DEF AuthTypeOK, ProtocolTypeOK, Keys
<1> DEFINE S == Okays(k)
<1>1. /\ UNCHANGED <<usb_in, rx_msg>>
      /\ j # k => receive_queue'[k] = receive_queue[k]
      /\ j = k => receive_queue[k] # <<>> /\ receive_queue'[k] = Tail(receive_queue[k])
    BY <1>0 DEF Take
<1>2. CASE j # k
  BY <1>1, <1>2 DEF NoAnswer, OneAnswer
<1>3. CASE j = k
  <2>1. /\ None(receive_queue[k], S) => None(receive_queue'[k], S) /\ Response(k) \notin S
        /\ Few(receive_queue[k], S) => Few(receive_queue'[k], S)
        /\ Few(receive_queue[k], S) /\ Response(k) \in S => None(receive_queue'[k], S)
    BY <1>0, <1>1, <1>3, FewTail DEF Response
  <2> QED BY <1>1, <1>3, <2>1 DEF NoAnswer, OneAnswer
<1> QED BY <1>2, <1>3

LEMMA AnswerSaid ==
  ASSUME AuthTypeOK, UNCHANGED <<receive_queue, rx_msg>>, NEW m \in Message, Says(m), NEW k
  PROVE  /\ m \notin Okays(k) /\ NoAnswer(k) => NoAnswer(k)'
         /\ m \notin Okays(k) /\ OneAnswer(k) => OneAnswer(k)'
         /\ NoAnswer(k) => OneAnswer(k)'
<1>1. usb_in \in Seq(Message) /\ usb_in' = Append(usb_in, m)
  BY DEF AuthTypeOK, ProtocolTypeOK, Says
<1>2. /\ m \notin Okays(k) => /\ None(usb_in, Okays(k)) => None(usb_in', Okays(k))
                              /\ Few(usb_in, Okays(k)) => Few(usb_in', Okays(k))
      /\ None(usb_in, Okays(k)) => Few(usb_in', Okays(k))
  BY <1>1, FewAppend
<1> QED BY <1>2 DEF NoAnswer, OneAnswer

(* adbd says OKAY when it reads an OPEN, or a WRTE that its service gets.  *)
LEMMA DaemonAnswers ==
  ASSUME AuthTypeOK, Daemon, NEW k
  PROVE  /\ UNCHANGED <<receive_queue, rx_msg>>
         /\ \/ /\ Pipe' = Pipe \/ DaemonRead
               /\ usb_in' = usb_in \/ \E m \in Message : Says(m) /\ m \notin Okays(k)
            \/ /\ DaemonRead /\ Frame \in Asks(k)
               /\ Frame.cmd = "WRTE" => Heard(Frame.arg1)
               /\ \E m \in Message : Says(m)
<1> DEFINE Other == \E m \in Message : Says(m) /\ m \notin Okays(k)
<1>0. UNCHANGED <<receive_queue, rx_msg>>
  BY DEF Daemon, DevPacket, DevConnect, DevSignature, DevPublicKey, DevOpen, DevAck,
     DevCloseRequest, DevHostWrite, DevIgnore, DevGarbled, DevStreamWrite, DevStreamEnd,
     DevWrites, DevReads
<1>1. /\ DevReads(<<>>) => DaemonRead /\ usb_in' = usb_in
      /\ \A m \in Message : DevReads(<<m>>) => DaemonRead /\ Says(m)
  BY ReadsSays, PipeReads
<1>2. ASSUME NEW cmd \in Commands, NEW a0 \in Nat, NEW a1 \in Nat, NEW d \in Data
      PROVE  /\ Msg(cmd, a0, a1, d) \in Message
             /\ Msg(cmd, a0, a1, d) \in Okays(k) => cmd = "OKAY" /\ a1 = k
  BY MsgType DEF Okays, Msg
<1>3. CASE DevConnect \/ DevSignature \/ DevPublicKey
  <2>1. Connected \in Message /\ Connected \notin Okays(k)
    BY HandshakeIsOther DEF Connected, Msg, Okays
  <2>2. Challenge(dev_token + 1) \in Message /\ Challenge(dev_token + 1) \notin Okays(k)
    <3>1. dev_token + 1 \in Nat
      BY DEF AuthTypeOK, DaemonTypeOK
    <3> QED BY <3>1, HandshakeIsOther DEF Challenge, Msg, Okays
  <2>3. DevReads(<<>>) \/ DevReads(<<Connected>>) \/ DevReads(<<Challenge(dev_token + 1)>>)
    BY <1>3 DEF DevConnect, DevSignature, DevPublicKey
  <2>4. /\ DevReads(<<Connected>>) => DaemonRead /\ Says(Connected)
        /\ DevReads(<<Challenge(dev_token + 1)>>) => DaemonRead /\ Says(Challenge(dev_token + 1))
    BY <1>1, <2>1, <2>2
  <2> QED BY <1>0, <1>1, <2>1, <2>2, <2>3, <2>4
<1>4. CASE DevOpen \/ DevHostWrite \/ DevCloseRequest \/ DevAck \/ DevIgnore
  <2>0. Frame \in Message
    BY <1>4, FrameType DEF AuthTypeOK, DevOpen, DevAck, DevCloseRequest, DevHostWrite, DevIgnore, Receives
  <2>1. Frame.arg0 \in Nat /\ NoData \in Data /\ RemoteIds \subseteq Nat /\ StreamIds \subseteq Nat
        /\ "OKAY" \in Commands /\ "CLSE" \in Commands
    BY <2>0, ProtocolAssumption, StreamIdType, NoDataType DEF Message, Commands
  <2>2. ASSUME NEW a0 \in Nat, DevReads(<<Msg("CLSE", a0, Frame.arg0, NoData)>>)
        PROVE  DaemonRead /\ Other
    <3>1. PICK m \in Message : m = Msg("CLSE", a0, Frame.arg0, NoData) /\ m \notin Okays(k)
      BY <1>2, <2>1
    <3> QED BY <1>1, <2>2, <3>1
  <2>3. ASSUME NEW a0 \in Nat, DevReads(<<Msg("OKAY", a0, Frame.arg0, NoData)>>)
        PROVE  DaemonRead /\ (Other \/ (Frame.arg0 = k /\ \E m \in Message : Says(m)))
    <3>1. PICK m \in Message : m = Msg("OKAY", a0, Frame.arg0, NoData)
                               /\ (m \in Okays(k) => Frame.arg0 = k)
      BY <1>2, <2>1
    <3> QED BY <1>1, <2>3, <3>1
  <2>4. CASE DevOpen
    <3>1. Frame.cmd = "OPEN"
      BY <2>4 DEF DevOpen, Receives
    <3>2. \/ \E r \in RemoteIds : DevReads(<<Msg("OKAY", r, Frame.arg0, NoData)>>)
          \/ DevReads(<<Msg("CLSE", 0, Frame.arg0, NoData)>>)
      BY <2>4 DEF DevOpen
    <3>3. DaemonRead /\ (Other \/ (Frame.arg0 = k /\ \E m \in Message : Says(m)))
      BY <2>1, <2>2, <2>3, <3>2
    <3> QED BY <1>0, <2>0, <3>1, <3>3 DEF Asks
  <2>5. CASE DevHostWrite
    <3>1. Frame.cmd = "WRTE" /\ dev_auth = "online"
      BY <2>5 DEF DevHostWrite, Receives
    <3>2. CASE Addressed /\ IsOpen(Frame.arg1)
      <4>1. DevReads(<<Msg("OKAY", Frame.arg1, Frame.arg0, NoData)>>) /\ Frame.arg1 \in Nat
        BY <2>1, <2>5, <3>2 DEF DevHostWrite, Addressed
      <4>2. DaemonRead /\ (Other \/ (Frame.arg0 = k /\ \E m \in Message : Says(m)))
        BY <2>3, <4>1
      <4>3. Heard(Frame.arg1)
        BY <3>1, <3>2 DEF Heard, Addressed
      <4> QED BY <1>0, <2>0, <3>1, <4>2, <4>3 DEF Asks
    <3>3. CASE ~(Addressed /\ IsOpen(Frame.arg1))
      BY <1>0, <1>1, <2>5, <3>3 DEF DevHostWrite
    <3> QED BY <3>2, <3>3
  <2>6. CASE DevAck \/ DevIgnore
    BY <1>0, <1>1, <2>6 DEF DevAck, DevIgnore
  <2>7. CASE DevCloseRequest
    <3>1. DevReads(<<>>) \/ \E a0 \in Nat : DevReads(<<Msg("CLSE", a0, Frame.arg0, NoData)>>)
      BY <2>1, <2>7 DEF DevCloseRequest, Addressed
    <3> QED BY <1>0, <1>1, <2>2, <3>1
  <2> QED BY <1>4, <2>4, <2>5, <2>6, <2>7
<1>5. CASE DevGarbled
  BY <1>0, <1>5 DEF DevGarbled, Pipe
<1>6. ASSUME NEW r \in StreamIds, DevStreamEnd(r) \/ DevStreamWrite(r)
      PROVE  Pipe' = Pipe /\ Other
  <2>1. /\ stream[r].peer \in Nat /\ r \in Nat /\ NoData \in Data
        /\ <<r, stream[r].sent + 1>> \in Data
    BY StreamFacts, NoDataType DEF Data
  <2>2. Pipe' = Pipe
    BY <1>6 DEF DevStreamEnd, DevStreamWrite, DevWrites, Pipe
  <2>3. \/ Says(Msg("CLSE", r, stream[r].peer, NoData))
        \/ Says(Msg("WRTE", r, stream[r].peer, <<r, stream[r].sent + 1>>))
    BY <1>6 DEF DevStreamEnd, DevStreamWrite, DevWrites, Says
  <2>4. /\ Msg("CLSE", r, stream[r].peer, NoData) \in Message \ Okays(k)
        /\ Msg("WRTE", r, stream[r].peer, <<r, stream[r].sent + 1>>) \in Message \ Okays(k)
    BY <1>2, <2>1 DEF Commands
  <2> QED BY <2>2, <2>3, <2>4
<1> QED BY <1>0, <1>3, <1>4, <1>5, <1>6 DEF Daemon, DevPacket

-----------------------------------------------------------------------------
(* A step in which the push does not ask or rest anew, and what is under   *)
(* way of it at most goes on its way or is lost.                           *)
LEMMA TurnStands ==
  ASSUME NEW p \in Pushes, PushTurn(p), NEW k, k = pid[p],
         pid'[p] = pid[p], prid'[p] = prid[p], record'[p] = record[p],
         ppc'[p] \in Resting => ppc[p] \in Resting, ppc'[p] \notin Asking => ppc[p] \notin Asking,
         None(Pipe, Asks(k)) => None(Pipe, Asks(k))',
         Few(Pipe, Asks(k)) => Few(Pipe, Asks(k))',
         NoAnswer(k) => NoAnswer(k)', OneAnswer(k) => OneAnswer(k)',
         prid[p] # 0 => stream'[prid[p]].got = stream[prid[p]].got,
         prid[p] = 0 => \A r \in RemoteIds :
           stream'[r].st # "none" /\ stream'[r].peer = k =>
             \/ stream'[r].got = <<>>
             \/ stream[r].st # "none" /\ stream[r].peer = k /\ stream'[r].got = stream[r].got
  PROVE  PushTurn(p)'
<1> SUFFICES ASSUME k # 0 PROVE PushTurn(p)'
  BY DEF PushTurn
<1>1. Turn(k)'
  BY DEF PushTurn, Turn
<1>2. ppc'[p] \in Resting => Silence(k)'
  BY DEF PushTurn, Silence
<1>3. ASSUME prid[p] # 0 PROVE GotRecords(p)'
  <2>1. GotRecords(p)
    BY <1>3 DEF PushTurn
  <2>2. /\ ~None(Pipe, Asks(k))' => ~None(Pipe, Asks(k))
        /\ ~NoAnswer(k)' => ~NoAnswer(k)
    OBVIOUS
  <2>3. pid[p]' = k
    OBVIOUS
  <2>4. /\ (~None(Pipe, Asks(pid[p])))' => ~None(Pipe, Asks(pid[p]))
        /\ (~NoAnswer(pid[p]))' => ~NoAnswer(pid[p])
    BY <2>2, <2>3 DEF None, NoAnswer, Asks, Okays
  <2> QED BY <1>3, <2>1, <2>4 DEF GotRecords
<1>4. ASSUME prid[p] = 0
      PROVE  \A r \in RemoteIds :
               stream'[r].st # "none" /\ stream'[r].peer = pid'[p] => stream'[r].got = <<>>
  BY <1>4 DEF PushTurn
<1>5. Turn(pid[p])' /\ (ppc'[p] \in Resting => Silence(pid[p])')
  <2>1. pid'[p] = k
    OBVIOUS
  <2>2. (Turn(pid[p])' <=> Turn(k)') /\ (Silence(pid[p])' <=> Silence(k)')
    BY <2>1 DEF Turn, Silence, NoAnswer, OneAnswer
  <2> QED BY <1>1, <1>2, <2>2
<1> QED BY <1>3, <1>4, <1>5 DEF PushTurn

LEMMA RecordsStand ==
  ASSUME WritesAreRecords, OpensUnanswered, UNCHANGED pushVars,
         \A m \in Inside(Pipe)' :
           \/ m \in Inside(Pipe)
           \/ m.cmd \notin {"WRTE", "OPEN"}
           \/ m.cmd = "OPEN" /\ \A p \in Pushes : m.arg0 # pid[p]
  PROVE  WritesAreRecords' /\ OpensUnanswered'
<1>1. UNCHANGED <<ppc, pid, prid, record>>
  BY DEF pushVars
<1>2. \A p \in Pushes : RecordMsg(p)' = RecordMsg(p)
  BY <1>1 DEF RecordMsg
<1>3. WritesAreRecords'
  BY <1>1, <1>2 DEF WritesAreRecords
<1> QED BY <1>1, <1>3 DEF OpensUnanswered

(* A WRTE with the id of a push is the record it sends.                    *)
LEMMA RecordIsOwn ==
  ASSUME SessionBase, WritesAreRecords, NEW m \in Inside(Pipe), m.cmd = "WRTE",
         NEW p \in Pushes, m.arg0 = pid[p]
  PROVE  /\ ppc[p] \in Asking /\ prid[p] # 0 /\ m.arg1 = prid[p] /\ m.data = <<p, record[p]>>
<1>1. PICK q \in Pushes : m = RecordMsg(q) /\ ppc[q] \in Asking
  BY DEF WritesAreRecords
<1>2. m.arg0 = pid[q] /\ m.arg1 = prid[q] /\ m.data = <<q, record[q]>>
  BY <1>1 DEF RecordMsg, Msg
<1>3. PushState(q) /\ pid[q] # 0
  BY <1>1 DEF SessionBase, PushStates, PushState, Asking
<1>4. q = p
  BY <1>2, <1>3 DEF SessionBase, SessionIds
<1>5. prid[p] # 0 \/ ppc[p] = "raised"
  BY <1>1, <1>3, <1>4 DEF PushState, Asking
<1> QED BY <1>1, <1>2, <1>3, <1>4 DEF PushState, Asking

LEMMA TurnDaemon ==
  ASSUME SessionBase, PushTurns, Daemon, UNCHANGED pushVars, NEW p \in Pushes
  PROVE  PushTurn(p)'
<1>1. PushTurn(p) /\ WritesAreRecords /\ OpensUnanswered /\ PushState(p) /\ WireInv /\ AuthTypeOK
  BY DEF PushTurns, SessionBase, PushStates, ShellTypeOK, TypeOK
<1>2. /\ ppc'[p] = ppc[p] /\ pid'[p] = pid[p] /\ prid'[p] = prid[p] /\ record'[p] = record[p]
      /\ UNCHANGED <<ppc, pid, prid, record>>
  BY DEF pushVars
<1> SUFFICES ASSUME pid[p] # 0 PROVE PushTurn(p)'
  BY <1>2 DEF PushTurn
<1>3. PICK k \in LocalIds : k = pid[p]
  BY DEF SessionBase, PushTypeOK
<1>4. /\ Turn(k) /\ (ppc[p] \in Resting => Silence(k)) /\ (prid[p] # 0 => GotRecords(p))
      /\ prid[p] = 0 => \A r \in RemoteIds :
           stream[r].st # "none" /\ stream[r].peer = k => stream[r].got = <<>>
  BY <1>1, <1>3 DEF PushTurn
<1>5. prid[p] # 0 => /\ prid[p] \in RemoteIds /\ stream[prid[p]].st # "none"
                     /\ stream[prid[p]].peer = k
  BY <1>1, <1>3 DEF PushState
<1>6. \A r \in RemoteIds : stream[r].st # "none" =>
        stream'[r].st # "none" /\ stream'[r].peer = stream[r].peer
  BY <1>1, StreamGrows DEF StreamIds
<1>7. \A r \in RemoteIds : stream[r].st = "none" => stream[r].got = <<>> /\ ~IsOpen(r)
  BY <1>1 DEF WireInv, UnusedEmpty, IsOpen
<1>8. \A m \in Asks(k) : m.cmd # "DATA" /\ m.cmd # "OKAY"
  BY OkaysFacts
\* Nothing that the push asks is read.
<1>9. ASSUME Pipe' = Pipe \/ DaemonRead, Pipe' = Pipe \/ Frame \notin Asks(k),
             usb_in' = usb_in \/ \E m \in Message : Says(m) /\ m \notin Okays(k),
             \A r \in RemoteIds : stream[r].st # "none" /\ stream[r].peer = k =>
               stream'[r].got = stream[r].got,
             \A r \in RemoteIds : stream[r].st = "none" => stream'[r].got = <<>>
      PROVE  PushTurn(p)'
  <2>1. /\ None(Pipe, Asks(k)) => None(Pipe', Asks(k))
        /\ Few(Pipe, Asks(k)) => Few(Pipe', Asks(k))
    BY <1>1, <1>8, <1>9, FewRead
  <2>2. (NoAnswer(k) => NoAnswer(k)') /\ (OneAnswer(k) => OneAnswer(k)')
    <3>1. UNCHANGED <<receive_queue, rx_msg>>
      BY <1>1, DaemonAnswers
    <3>2. CASE usb_in' = usb_in
      BY <3>1, <3>2 DEF NoAnswer, OneAnswer
    <3>3. CASE \E m \in Message : Says(m) /\ m \notin Okays(k)
      BY <1>1, <3>1, <3>3, AnswerSaid
    <3> QED BY <1>9, <3>2, <3>3
  <2>3. prid[p] # 0 => stream'[prid[p]].got = stream[prid[p]].got
    BY <1>5, <1>9
  <2>4. \A r \in RemoteIds : stream'[r].st # "none" /\ stream'[r].peer = k =>
             \/ stream'[r].got = <<>>
             \/ stream[r].st # "none" /\ stream[r].peer = k /\ stream'[r].got = stream[r].got
    BY <1>6, <1>9
  <2> QED BY <1>1, <1>2, <1>3, <2>1, <2>2, <2>3, <2>4, TurnStands
<1>10. CASE /\ Pipe' = Pipe
            /\ \A r \in RemoteIds : stream'[r].got = stream[r].got
  <2>1. Frame \in Asks(k) => ~DaemonRead
    <3> SUFFICES ASSUME Frame \in Asks(k), DaemonRead PROVE FALSE
      OBVIOUS
    <3>1. ~None(Pipe, Asks(k)) /\ (Few(Pipe, Asks(k)) => None(Pipe', Asks(k)))
      BY <1>1, <1>8, FewRead
    <3> QED BY <1>4, <1>10, <3>1 DEF Turn
  <2>2. usb_in' = usb_in \/ \E m \in Message : Says(m) /\ m \notin Okays(k)
    BY <1>1, <2>1, DaemonAnswers
  <2> QED BY <1>7, <1>9, <1>10, <2>2
<1>11. CASE /\ DaemonRead
            /\ \A r \in RemoteIds : /\ Heard(r) => stream'[r].got = Append(stream[r].got, Frame.data)
                                    /\ ~Heard(r) => stream'[r].got = stream[r].got
  <2>0. Frame \in Message /\ Frame \in Inside(Pipe)
    BY <1>1, <1>11, ReadRemains
  <2>1. \A r \in RemoteIds : stream[r].st = "none" => stream'[r].got = <<>>
    BY <1>7, <1>11 DEF Heard
  <2>2. CASE Frame \notin Asks(k)
    <3>1. \A r \in RemoteIds : stream[r].peer = k => ~Heard(r)
      BY <2>0, <2>2 DEF Heard, Asks
    <3>2. usb_in' = usb_in \/ \E m \in Message : Says(m) /\ m \notin Okays(k)
      BY <1>1, <2>2, DaemonAnswers
    <3> QED BY <1>9, <1>11, <2>1, <2>2, <3>1, <3>2
  <2>3. CASE Frame \in Asks(k)
    <3>1. ~None(Pipe, Asks(k)) /\ (Few(Pipe, Asks(k)) => None(Pipe, Asks(k))')
      BY <1>1, <1>8, <1>11, <2>3, FewRead
    <3>2. NoAnswer(k) /\ Few(Pipe, Asks(k)) /\ None(Pipe, Asks(k))' /\ ppc[p] \notin Resting
      BY <1>4, <3>1 DEF Turn, Silence
    <3>3. /\ NoAnswer(k)' \/ OneAnswer(k)'
          /\ NoAnswer(k)' \/ (Frame.cmd = "WRTE" => Heard(Frame.arg1))
      <4>1. UNCHANGED <<receive_queue, rx_msg>>
        BY <1>1, DaemonAnswers
      <4>2. usb_in' = usb_in => NoAnswer(k)'
        BY <3>2, <4>1 DEF NoAnswer
      <4>3. \A m \in Message : Says(m) => OneAnswer(k)' /\ (m \notin Okays(k) => NoAnswer(k)')
        BY <1>1, <3>2, <4>1, AnswerSaid
      <4> QED BY <1>1, <4>2, <4>3, DaemonAnswers
    <3>4. Turn(k)'
      BY <3>2, <3>3 DEF Turn, Few
    <3>5. Turn(pid[p])' /\ ppc'[p] \notin Resting
      BY <1>2, <1>3, <3>2, <3>4 DEF Turn, NoAnswer, OneAnswer
    <3>6. ASSUME prid[p] # 0 PROVE GotRecords(p)'
      <4>1. Frame.cmd = "WRTE" /\ Frame.arg0 = pid[p]
        BY <1>1, <1>3, <2>0, <2>3, <3>6 DEF OpensUnanswered, Asks
      <4>2. ppc[p] \in Asking /\ Frame.arg1 = prid[p] /\ Frame.data = <<p, record[p]>>
        BY <1>1, <2>0, <4>1, RecordIsOwn
      <4>3. PICK r \in RemoteIds : r = prid[p]
        BY <1>5, <3>6
      <4>4. PICK g : g = stream[r].got
        OBVIOUS
      <4>5. g \in Seq(Data) /\ record[p] \in Nat
        BY <1>1, <4>4, StreamFacts DEF SessionBase, PushTypeOK, Stream, StreamIds
      <4>6. GotRecords(p)
        BY <1>4, <3>6
      <4>7. g = [i \in 1..Len(g) |-> <<p, i>>] /\ Len(g) = record[p] - 1
        BY <1>3, <3>1, <4>3, <4>4, <4>6 DEF GotRecords
      <4>8. CASE Heard(r)
        <5>1. stream'[r].got = Append(g, <<p, record[p]>>)
          BY <1>11, <4>2, <4>4, <4>8
        <5>2. PICK h : h = Append(g, <<p, record[p]>>)
          OBVIOUS
        <5>3. Len(h) = record[p] /\ h = [i \in 1..record[p] |-> <<p, i>>]
          <6>0. p \in Nat
            BY PushAssumption
          <6>1. \A i \in 1..Len(g) : g[i] = <<p, i>>
            BY <4>7
          <6>2. <<p, record[p]>> \in Data /\ record[p] = Len(g) + 1 /\ Len(g) \in Nat
            BY <4>5, <4>7, <6>0 DEF Data
          <6>3. /\ h \in Seq(Data) /\ Len(h) = Len(g) + 1 /\ h[Len(g) + 1] = <<p, record[p]>>
                /\ \A i \in 1..Len(g) : h[i] = g[i]
            BY <4>5, <5>2, <6>2, AppendProperties
          <6>4. \A i \in 1..record[p] : h[i] = <<p, i>>
            <7> SUFFICES ASSUME NEW i \in 1..record[p] PROVE h[i] = <<p, i>>
              OBVIOUS
            <7>1. i \in 1..Len(g) \/ i = record[p]
              BY <6>2
            <7> QED BY <6>1, <6>2, <6>3, <7>1
          <6>5. h = [i \in 1..Len(h) |-> h[i]]
            BY <6>3, LenProperties
          <6> QED BY <6>2, <6>3, <6>4, <6>5
        <5>4. None(Pipe, Asks(pid[p]))'
          BY <1>2, <1>3, <3>2
        <5>5. stream'[prid'[p]].got = h /\ record'[p] = record[p] /\ ppc'[p] \in Asking
          BY <1>2, <4>2, <4>3, <5>1, <5>2
        <5> QED BY <4>5, <5>3, <5>4, <5>5 DEF GotRecords
      <4>9. CASE ~Heard(r)
        <5>1. NoAnswer(k)'
          BY <3>3, <4>1, <4>2, <4>3, <4>9
        <5>2. NoAnswer(pid[p])'
          BY <1>2, <1>3, <5>1 DEF NoAnswer
        <5>3. stream'[prid'[p]].got = g /\ record'[p] = record[p]
          BY <1>2, <1>11, <4>3, <4>4, <4>9
        <5> QED BY <4>7, <5>2, <5>3 DEF GotRecords
      <4> QED BY <4>8, <4>9
    <3>7. ASSUME prid[p] = 0, NEW r \in RemoteIds, stream'[r].st # "none", stream'[r].peer = pid'[p]
          PROVE  stream'[r].got = <<>>
      <4>1. Frame.cmd # "WRTE"
        BY <1>1, <1>3, <2>0, <2>3, <3>7, RecordIsOwn DEF Asks
      <4>2. stream'[r].got = stream[r].got
        BY <1>11, <4>1 DEF Heard
      <4> QED BY <1>2, <1>3, <1>4, <1>6, <2>1, <3>7, <4>2
    <3> QED BY <1>2, <3>5, <3>6, <3>7 DEF PushTurn
  <2> QED BY <2>2, <2>3
<1> QED BY <1>1, <1>10, <1>11, DaemonReads

LEMMA TurnsServe ==
  ASSUME SessionBase, PushTurns, AuthNext, UNCHANGED pushVars
  PROVE  PushTurns'
<1>1. WritesAreRecords /\ OpensUnanswered /\ WireInv /\ AuthTypeOK
  BY DEF PushTurns, SessionBase, ShellTypeOK, TypeOK
<1>2. UNCHANGED <<ppc, pid, prid, record>>
  BY DEF pushVars
<1>3. CASE HostThreads /\ UNCHANGED <<daemonVars, authVars>>
  <2>1. WritesAreRecords' /\ OpensUnanswered'
    <3>1. PICK S : S = Asks(0)
      OBVIOUS
    <3>2. \A m \in Inside(Pipe') : m \in Inside(Pipe) \/ m.cmd = "OKAY"
      BY <1>1, <1>3, <3>1, FewHostThreads, OkaysFacts
    <3> QED BY <1>1, <3>2, RecordsStand
  <2>2. ASSUME NEW p \in Pushes PROVE PushTurn(p)'
    <3>1. CASE pid[p] = 0
      BY <1>2, <3>1 DEF PushTurn
    <3>2. CASE pid[p] # 0
      <4>1. PICK k \in LocalIds : k = pid[p]
        BY <3>2 DEF SessionBase, PushTypeOK
      <4>2. \A m \in Asks(k) : m.cmd # "OKAY"
        BY OkaysFacts
      <4>3. /\ None(Pipe, Asks(k)) => None(Pipe', Asks(k))
            /\ Few(Pipe, Asks(k)) => Few(Pipe', Asks(k))
        BY <1>1, <1>3, <4>2, FewHostThreads
      <4>4. (NoAnswer(k) => NoAnswer(k)') /\ (OneAnswer(k) => OneAnswer(k)')
        BY <1>1, <1>3, AnswerHostThreads
      <4>5. stream' = stream /\ PushTurn(p)
        BY <1>3 DEF daemonVars, PushTurns
      <4>6. prid[p] = 0 => \A r \in RemoteIds :
              stream'[r].st # "none" /\ stream'[r].peer = k => stream'[r].got = <<>>
        BY <3>2, <4>1, <4>5 DEF PushTurn
      <4> QED BY <1>2, <4>1, <4>3, <4>4, <4>5, <4>6, TurnStands
    <3> QED BY <3>1, <3>2
  <2> QED BY <2>1, <2>2 DEF PushTurns
<1>4. CASE Daemon
  <2>1. \A m \in Inside(Pipe)' : m \in Inside(Pipe)
    BY <1>1, <1>4, DaemonReads, ReadRemains
  <2>2. WritesAreRecords' /\ OpensUnanswered'
    BY <1>1, <2>1, RecordsStand
  <2> QED BY <1>4, <2>2, TurnDaemon DEF PushTurns
<1>5. CASE Authenticate
  <2>1. /\ auth_pc # "done"
        /\ Pipe' = Pipe \/ \E m \in Message : /\ m.cmd \in {"CNXN", "AUTH", "DATA"}
                                              /\ Pipe' = Append(Pipe, m)
    BY <1>1, <1>5, PipeAuthenticate
  <2>2. \A m \in Inside(Pipe)' : m \in Inside(Pipe) \/ m.cmd \notin {"WRTE", "OPEN"}
    <3>1. CASE Pipe' = Pipe
      BY <3>1
    <3>2. ASSUME NEW n \in Message, n.cmd \in {"CNXN", "AUTH", "DATA"}, Pipe' = Append(Pipe, n)
          PROVE  \A m \in Inside(Pipe') : m \in Inside(Pipe) \/ m.cmd \notin {"WRTE", "OPEN"}
      BY <1>1, <3>2, PipeType, InsideAppend
    <3> QED BY <2>1, <3>1, <3>2
  <2>3. WritesAreRecords' /\ OpensUnanswered'
    BY <1>1, <2>2, RecordsStand
  <2>4. \A p \in Pushes : pid'[p] = 0
    BY <1>2, <2>1 DEF SessionBase, PushStates, PushState
  <2> QED BY <2>3, <2>4 DEF PushTurns, PushTurn
<1> QED BY <1>3, <1>4, <1>5 DEF AuthNext

LEMMA TurnsSync ==
  ASSUME SessionBase, PushTurns, NEW q \in StreamIds, NEW m \in Message, SyncWrites(q, m),
         UNCHANGED pushVars
  PROVE  PushTurns'
<1>1. WritesAreRecords /\ OpensUnanswered /\ WireInv /\ AuthTypeOK
  BY DEF PushTurns, SessionBase, ShellTypeOK, TypeOK
<1>2. UNCHANGED <<ppc, pid, prid, record>>
  BY DEF pushVars
<1>3. /\ Pipe' = Pipe /\ UNCHANGED <<receive_queue, rx_msg>> /\ Says(m) /\ m.cmd = "WRTE"
  BY DEF SyncWrites, Pipe
<1>4. \A r \in RemoteIds : /\ stream'[r].got = stream[r].got /\ stream'[r].peer = stream[r].peer
                           /\ (stream'[r].st # "none" => stream[r].st # "none")
  <2>1. /\ stream'[q].got = stream[q].got /\ stream'[q].peer = stream[q].peer
        /\ stream[q].st # "none"
    BY <1>1, StreamFacts DEF SyncWrites, Stream
  <2> QED BY <2>1 DEF SyncWrites, StreamIds
<1>5. WritesAreRecords' /\ OpensUnanswered'
  BY <1>1, <1>3, RecordsStand
<1>6. ASSUME NEW p \in Pushes PROVE PushTurn(p)'
  <2>1. CASE pid[p] = 0
    BY <1>2, <2>1 DEF PushTurn
  <2>2. CASE pid[p] # 0
    <3>1. PICK k \in LocalIds : k = pid[p]
      BY <2>2 DEF SessionBase, PushTypeOK
    <3>2. m \notin Okays(k)
      BY <1>3, OkaysFacts
    <3>3. (NoAnswer(k) => NoAnswer(k)') /\ (OneAnswer(k) => OneAnswer(k)')
      BY <1>1, <1>3, <3>2, AnswerSaid
    <3>4. PushTurn(p) /\ (prid[p] # 0 => prid[p] \in RemoteIds)
      BY DEF PushTurns, SessionBase, PushStates, PushState
    <3>5. prid[p] = 0 => \A r \in RemoteIds :
            stream'[r].st # "none" /\ stream'[r].peer = k => stream'[r].got = <<>>
      BY <1>4, <2>2, <3>1, <3>4 DEF PushTurn
    <3>6. prid[p] # 0 => stream'[prid[p]].got = stream[prid[p]].got
      BY <1>4, <3>4
    <3> QED BY <1>2, <1>3, <3>1, <3>3, <3>4, <3>5, <3>6, TurnStands
  <2> QED BY <2>1, <2>2
<1> QED BY <1>5, <1>6 DEF PushTurns

-----------------------------------------------------------------------------
(* What a user of the multiplexer does to the turns: another id than k is  *)
(* not asked for, and nothing is answered.                                 *)
UserStep(j) ==
  /\ stream' = stream
  /\ \/ Pipe' = Pipe /\ UNCHANGED <<usb_in, rx_msg, receive_queue>>
     \/ Pipe' = Pipe /\ Take(j)
     \/ /\ UNCHANGED <<usb_in, rx_msg, receive_queue>>
        /\ \E m \in Message : /\ Pipe' = Append(Pipe, m)
                              /\ m.cmd \in {"OPEN", "WRTE"} => m.arg0 = j

LEMMA TurnsUser ==
  ASSUME AuthTypeOK, NEW j \in Keys, UserStep(j), NEW k \in LocalIds
  PROVE  /\ NoAnswer(k) => NoAnswer(k)'
         /\ OneAnswer(k) => OneAnswer(k)'
         /\ None(Pipe, Asks(k)) => Few(Pipe', Asks(k))
         /\ j # k \/ Take(j) \/ Pipe' = Pipe =>
              /\ None(Pipe, Asks(k)) => None(Pipe', Asks(k))
              /\ Few(Pipe, Asks(k)) => Few(Pipe', Asks(k))
<1>1. Pipe \in Seq(Message)
  BY PipeType
<1>2. ASSUME UNCHANGED <<usb_in, rx_msg, receive_queue>>
      PROVE  (NoAnswer(k) => NoAnswer(k)') /\ (OneAnswer(k) => OneAnswer(k)')
  BY <1>2 DEF NoAnswer, OneAnswer
<1>3. Take(j) => (NoAnswer(k) => NoAnswer(k)') /\ (OneAnswer(k) => OneAnswer(k)')
  BY AnswerTake
<1>4. Take(j) => Pipe' = Pipe
  BY DEF Take, Pipe
<1>5. ASSUME NEW m \in Message, Pipe' = Append(Pipe, m), m.cmd \in {"OPEN", "WRTE"} => m.arg0 = j
      PROVE  /\ None(Pipe, Asks(k)) => Few(Pipe', Asks(k))
             /\ j # k => /\ None(Pipe, Asks(k)) => None(Pipe', Asks(k))
                         /\ Few(Pipe, Asks(k)) => Few(Pipe', Asks(k))
  <2>1. j # k => m \notin Asks(k)
    BY <1>5 DEF Asks
  <2> QED BY <1>1, <1>5, <2>1, FewAppend
<1>6. CASE Pipe' = Pipe
  BY <1>2, <1>3, <1>6 DEF UserStep, Few
<1>7. CASE Pipe' # Pipe
  <2>1. PICK m \in Message : /\ Pipe' = Append(Pipe, m) /\ UNCHANGED <<usb_in, rx_msg, receive_queue>>
                             /\ m.cmd \in {"OPEN", "WRTE"} => m.arg0 = j
    BY <1>7 DEF UserStep
  <2> QED BY <1>2, <1>4, <1>5, <1>7, <2>1
<1> QED BY <1>6, <1>7

LEMMA TurnOfOther ==
  ASSUME SessionBase, PushTurns, NEW j \in Keys, UserStep(j), NEW q \in Pushes, pid[q] # j,
         ppc'[q] = ppc[q], pid'[q] = pid[q], prid'[q] = prid[q], record'[q] = record[q]
  PROVE  PushTurn(q)'
<1>0. AuthTypeOK /\ PushTurn(q)
  BY DEF SessionBase, ShellTypeOK, TypeOK, PushTurns
<1>1. CASE pid[q] = 0
  BY <1>1 DEF PushTurn
<1>2. CASE pid[q] # 0
  <2>1. PICK k \in LocalIds : k = pid[q]
    BY <1>2 DEF SessionBase, PushTypeOK
  <2>2. /\ None(Pipe, Asks(k)) => None(Pipe', Asks(k))
        /\ Few(Pipe, Asks(k)) => Few(Pipe', Asks(k))
        /\ NoAnswer(k) => NoAnswer(k)'
        /\ OneAnswer(k) => OneAnswer(k)'
    BY <1>0, <2>1, TurnsUser
  <2>3. stream' = stream
    BY DEF UserStep
  <2>4. prid[q] = 0 => \A r \in RemoteIds :
          stream'[r].st # "none" /\ stream'[r].peer = k => stream'[r].got = <<>>
    BY <1>0, <1>2, <2>1, <2>3 DEF PushTurn
  <2> QED BY <1>0, <2>1, <2>2, <2>3, <2>4, TurnStands
<1> QED BY <1>1, <1>2

(* Nothing was ever sent to or from an id that has no queue.               *)
LEMMA NothingUnopened ==
  ASSUME AuthTypeOK, WireInv, WritesAreRecords, NEW k \in LocalIds, k \notin opened,
         \A q \in Pushes : pid[q] # k
  PROVE  /\ Silence(k)
         /\ \A r \in RemoteIds : stream[r].st # "none" => stream[r].peer # k
<1>1. \A r \in RemoteIds : stream[r].st # "none" => stream[r].peer # k
  BY DEF WireInv, PeersOpened
<1>2. NoAnswer(k)
  <2>1. \A m \in Frames : m \notin Okays(k)
    <3> SUFFICES ASSUME NEW m \in Frames, m \in Okays(k) PROVE FALSE
      OBVIOUS
    <3>1. m.cmd = "OKAY" /\ m.arg0 \in RemoteIds /\ m.arg1 = k /\ FrameOk(m)
      BY FramesType DEF Okays
    <3>2. stream[m.arg0].st # "none" /\ m.arg1 = stream[m.arg0].peer
      BY <3>1 DEF FrameOk, OfStream, Said
    <3> QED BY <1>1, <3>1, <3>2
  <2>2. /\ \A i \in 1..Len(usb_in) : usb_in[i] \in Frames
        /\ rx_msg \in Frames
        /\ \A i \in 1..Len(receive_queue[k]) : receive_queue[k][i] \in Frames
    BY DEF Frames, InQueues, Inside
  <2> QED BY <2>1, <2>2 DEF NoAnswer, None
<1>3. None(Pipe, Asks(k))
  <2>1. \A m \in Inside(Pipe) : m.cmd = "OPEN" => m.arg0 \in opened
    <3>1. OpensOpened(send_queue) /\ OpensOpened(usb_out)
      BY DEF WireInv, PeersOpened
    <3>2. usb_out \in Seq(Message) /\ send_queue \in Seq(Message)
      BY PipeType
    <3>3. \A i \in 1..Len(usb_out) + Len(send_queue) :
            \/ i \in 1..Len(usb_out) /\ Pipe[i] = usb_out[i]
            \/ i - Len(usb_out) \in 1..Len(send_queue) /\ Pipe[i] = send_queue[i - Len(usb_out)]
      BY <3>2 DEF Pipe
    <3>4. Len(Pipe) = Len(usb_out) + Len(send_queue)
      BY <3>2 DEF Pipe
    <3>5. \A i \in 1..Len(Pipe) : Pipe[i].cmd = "OPEN" => Pipe[i].arg0 \in opened
      BY <3>1, <3>3, <3>4 DEF OpensOpened
    <3> QED BY <3>5 DEF Inside
  <2>2. \A m \in Inside(Pipe) : m.cmd = "WRTE" => m.arg0 # k
    BY DEF WritesAreRecords, RecordMsg, Msg
  <2>3. \A i \in 1..Len(Pipe) : Pipe[i] \in Inside(Pipe)
    BY DEF Inside
  <2> QED BY <2>1, <2>2, <2>3 DEF None, Asks
<1> QED BY <1>1, <1>2, <1>3 DEF Silence

(* What is under way stays, but for what the push p itself has sent.       *)
LEMMA RecordsPush ==
  ASSUME SessionBase, WritesAreRecords, OpensUnanswered, NEW p \in Pushes, Push(p),
         \A m \in Inside(Pipe') : m.cmd = "WRTE" =>
           \/ /\ m \in Inside(Pipe)
              /\ m.arg0 = pid[p] => ppc'[p] \in Asking /\ RecordMsg(p)' = RecordMsg(p)
           \/ m = RecordMsg(p)' /\ ppc'[p] \in Asking,
         \A m \in Inside(Pipe') : m.cmd = "OPEN" =>
           /\ m \in Inside(Pipe) \/ (m.arg0 = pid[p] /\ pid[p] # 0)
           /\ m.arg0 = pid'[p] => prid'[p] = 0
  PROVE  WritesAreRecords' /\ OpensUnanswered'
<1>1. \A q \in Pushes \ {p} :
        ppc'[q] = ppc[q] /\ pid'[q] = pid[q] /\ prid'[q] = prid[q] /\ record'[q] = record[q]
  BY PushMoves DEF SessionBase
<1>2. \A q \in Pushes \ {p} : RecordMsg(q)' = RecordMsg(q)
  BY <1>1 DEF RecordMsg
<1>3. ASSUME NEW m \in Inside(Pipe'), m.cmd = "WRTE"
      PROVE  \E q \in Pushes : m = RecordMsg(q)' /\ ppc'[q] \in Asking
  <2>1. CASE m \in Inside(Pipe)
    <3>1. PICK q \in Pushes : m = RecordMsg(q) /\ ppc[q] \in Asking
      BY <1>3, <2>1 DEF WritesAreRecords
    <3>2. CASE q = p
      <4>1. m.arg0 = pid[p]
        BY <3>1, <3>2 DEF RecordMsg, Msg
      <4> QED BY <1>3, <3>1, <3>2, <4>1
    <3> QED BY <1>1, <1>2, <3>1, <3>2
  <2> QED BY <1>3, <2>1
<1>4. ASSUME NEW m \in Inside(Pipe'), NEW q \in Pushes, m.cmd = "OPEN", m.arg0 = pid'[q]
      PROVE  prid'[q] = 0
  <2>1. CASE q = p
    BY <1>4, <2>1
  <2>2. CASE q # p
    <3>1. pid'[q] = pid[q] /\ prid'[q] = prid[q]
      BY <1>1, <2>2
    <3>2. CASE m \in Inside(Pipe)
      BY <1>4, <3>1, <3>2 DEF OpensUnanswered
    <3>3. CASE m.arg0 = pid[p] /\ pid[p] # 0
      BY <1>4, <2>2, <3>1, <3>3 DEF SessionBase, SessionIds
    <3> QED BY <1>4, <3>2, <3>3
  <2> QED BY <2>1, <2>2
<1>5. WritesAreRecords'
  BY <1>3 DEF WritesAreRecords
<1> QED BY <1>4, <1>5 DEF OpensUnanswered

(* A push that takes what it need not answer, or sends what is no asking.  *)
LEMMA PushGoesOn ==
  ASSUME SessionBase, PushTurns, NEW p \in Pushes, Push(p), pid[p] # 0,
         NEW j \in Keys, UserStep(j), j # pid[p] \/ Take(j),
         UNCHANGED <<pid, prid, record>>,
         ppc'[p] \in Resting => ppc[p] \in Resting, ppc'[p] \notin Asking => ppc[p] \notin Asking,
         \A m \in Inside(Pipe') : m.cmd \in {"OPEN", "WRTE"} => m \in Inside(Pipe)
  PROVE  PushTurn(p)' /\ WritesAreRecords' /\ OpensUnanswered'
<1>0. AuthTypeOK /\ PushTurn(p) /\ WritesAreRecords /\ OpensUnanswered
  BY DEF SessionBase, ShellTypeOK, TypeOK, PushTurns
<1>1. PICK k \in LocalIds : k = pid[p]
  BY DEF SessionBase, PushTypeOK
<1>2. /\ None(Pipe, Asks(k)) => None(Pipe', Asks(k))
      /\ Few(Pipe, Asks(k)) => Few(Pipe', Asks(k))
      /\ NoAnswer(k) => NoAnswer(k)'
      /\ OneAnswer(k) => OneAnswer(k)'
  BY <1>0, <1>1, TurnsUser
<1>3. stream' = stream
  BY DEF UserStep
<1>4. prid[p] = 0 => \A r \in RemoteIds :
        stream'[r].st # "none" /\ stream'[r].peer = k => stream'[r].got = <<>>
  BY <1>0, <1>1, <1>3 DEF PushTurn
<1>5. PushTurn(p)'
  BY <1>0, <1>1, <1>2, <1>3, <1>4, TurnStands
<1>6. RecordMsg(p)' = RecordMsg(p)
  BY DEF RecordMsg
<1>7. \A m \in Inside(Pipe') : m.cmd = "WRTE" =>
        m \in Inside(Pipe) /\ (m.arg0 = pid[p] => ppc'[p] \in Asking)
  <2>1. \A m \in Inside(Pipe) : m.cmd = "WRTE" /\ m.arg0 = pid[p] => ppc[p] \in Asking
    BY <1>0, RecordIsOwn
  <2> QED BY <2>1
<1>8. \A m \in Inside(Pipe') : m.cmd = "OPEN" =>
        m \in Inside(Pipe) /\ (m.arg0 = pid'[p] => prid'[p] = 0)
  BY <1>0 DEF OpensUnanswered
<1>9. WritesAreRecords' /\ OpensUnanswered'
  BY <1>0, <1>6, <1>7, <1>8, RecordsPush
<1> QED BY <1>5, <1>9

LEMMA PushUser ==
  ASSUME SessionBase, NEW p \in Pushes, Push(p)
  PROVE  /\ CallPush(p) => UNCHANGED AuthVars
         /\ ~CallPush(p) => pid[p] \in LocalIds /\ UserStep(pid[p])
<1>1. /\ stream' = stream
      /\ \/ UNCHANGED AuthVars
         \/ /\ pid[p] \in LocalIds
            /\ Take(pid[p]) \/ \E m \in Message : PushPuts(p, m)
  BY PushDoes DEF SessionBase
<1>2. CallPush(p) => UNCHANGED AuthVars
  BY DEF CallPush
<1>3. ASSUME ~CallPush(p) PROVE pid[p] \in LocalIds
  <2>1. ppc[p] # "idle"
    BY <1>3 DEF Push, SendPushOpen, SendPushOpenPayload, PushOpenAnswer, SendHeader, SendPayload,
       TakeOkay, TakeReply, TakeClose, SendClose, Advance
  <2>2. PushState(p) /\ pid[p] \in LocalIds \cup {0}
    BY DEF SessionBase, PushStates, PushTypeOK
  <2> QED BY <2>1, <2>2 DEF PushState
<1>4. UNCHANGED AuthVars => UserStep(pid[p])
  BY DEF UserStep, AuthVars, protocolVars, daemonVars, Pipe
<1>5. Take(pid[p]) => UserStep(pid[p])
  BY <1>1 DEF UserStep, Take, Pipe
<1>6. ASSUME NEW m \in Message, PushPuts(p, m) PROVE UserStep(pid[p])
  <2>1. Pipe' = Append(Pipe, m)
    BY <1>6, PipePut DEF PushPuts, SessionBase, ShellTypeOK, TypeOK
  <2> QED BY <1>1, <1>6, <2>1 DEF UserStep, PushPuts
<1> QED BY <1>1, <1>2, <1>3, <1>4, <1>5, <1>6

(* A packet that is no OPEN and no WRTE is added, or nothing.              *)
LEMMA PipeUnasked ==
  ASSUME AuthTypeOK
  PROVE  /\ \A j \in Keys : Take(j) => Pipe' = Pipe
         /\ \A m \in Message : PutHeader(m) \/ (m.cmd = "DATA" /\ Puts(m) /\ usb_out' = usb_out) =>
              Inside(Pipe') = Inside(Pipe) \cup {m} /\ Pipe' = Append(Pipe, m)
<1>1. \A j \in Keys : Take(j) => Pipe' = Pipe
  BY DEF Take, Pipe
<1>2. ASSUME NEW m \in Message, Puts(m), usb_out' = usb_out
      PROVE  Inside(Pipe') = Inside(Pipe) \cup {m} /\ Pipe' = Append(Pipe, m)
  <2>1. Pipe' = Append(Pipe, m)
    BY <1>2, PipePut
  <2> QED BY <2>1, PipeType, InsideAppend
<1> QED BY <1>1, <1>2 DEF PutHeader, Puts

LEMMA TurnTakes ==
  ASSUME SessionBase, PushTurns, NEW p \in Pushes,
         (PushOpenAnswer(p) /\ Response(pid[p]).cmd # "OKAY")
           \/ (TakeOkay(p) /\ ~(Awaited(p) /\ Response(pid[p]).cmd = "OKAY"))
           \/ TakeReply(p) \/ TakeClose(p)
  PROVE  PushTurn(p)' /\ WritesAreRecords' /\ OpensUnanswered'
<1>0. AuthTypeOK /\ Push(p) /\ ~CallPush(p)
  BY DEF SessionBase, ShellTypeOK, TypeOK, Push, PushOpenAnswer, TakeOkay, TakeReply, TakeClose,
     CallPush, Advance
<1>1. pid[p] \in LocalIds /\ UserStep(pid[p])
  BY <1>0, PushUser
<1>2. Take(pid[p]) /\ pid[p] \in Keys /\ pid[p] # 0
  BY <1>1, ProtocolAssumption DEF PushOpenAnswer, TakeOkay, TakeReply, TakeClose, Keys
<1>3. \A m \in Inside(Pipe') : m \in Inside(Pipe)
  BY <1>0, <1>2, PipeUnasked
<1>4. UNCHANGED <<pid, prid, record>>
  BY DEF PushOpenAnswer, TakeOkay, TakeReply, TakeClose
<1>5. /\ ppc'[p] \in Resting => ppc[p] \in Resting
      /\ ppc'[p] \notin Asking => ppc[p] \notin Asking
  <2>1. ppc \in [Pushes -> PPc]
    BY DEF SessionBase, PushTypeOK
  <2>2. CASE PushOpenAnswer(p) /\ Response(pid[p]).cmd # "OKAY"
    <3>1. ppc[p] = "await" /\ ppc'[p] = "refused"
      BY <2>1, <2>2 DEF PushOpenAnswer, Advance
    <3> QED BY <3>1 DEF Resting, Asking
  <2>3. CASE TakeOkay(p) /\ ~(Awaited(p) /\ Response(pid[p]).cmd = "OKAY")
    <3>1. ppc[p] = "await_okay" /\ (ppc'[p] = "await_okay" \/ ppc'[p] = "raised")
      BY <2>1, <2>3 DEF TakeOkay, Advance
    <3> QED BY <3>1 DEF Resting, Asking
  <2>4. CASE TakeReply(p)
    <3>1. ppc[p] = "await_reply" /\ (ppc'[p] \in {"await_reply", "send", "raised"})
      BY <2>1, <2>4 DEF TakeReply, Advance
    <3> QED BY <3>1 DEF Resting, Asking
  <2>5. CASE TakeClose(p)
    <3>1. ppc[p] = "await_close" /\ (ppc'[p] \in {"await_close", "close"})
      BY <2>1, <2>5 DEF TakeClose, Advance
    <3> QED BY <3>1 DEF Resting, Asking
  <2> QED BY <2>2, <2>3, <2>4, <2>5
<1> QED BY <1>0, <1>1, <1>2, <1>3, <1>4, <1>5, PushGoesOn

LEMMA TurnAdds ==
  ASSUME SessionBase, PushTurns, NEW p \in Pushes,
         SendPushOpenPayload(p) \/ SendPayload(p) \/ SendClose(p)
  PROVE  PushTurn(p)' /\ WritesAreRecords' /\ OpensUnanswered'
<1>0. AuthTypeOK /\ Push(p) /\ ~CallPush(p)
  BY DEF SessionBase, ShellTypeOK, TypeOK, Push, SendPushOpenPayload, SendPayload, SendClose,
     CallPush, Advance
<1>1. pid[p] \in LocalIds /\ pid[p] # 0
  BY <1>0, PushUser, ProtocolAssumption
<1>2. PICK m \in Message : m.cmd \in {"DATA", "CLSE"} /\ PushPuts(p, m)
  <2>1. /\ SendPushOpenPayload(p) => PushPuts(p, Payload(PushOpenMsg(p)))
        /\ SendPayload(p) => PushPuts(p, Payload(RecordMsg(p)))
        /\ SendClose(p) => PushPuts(p, Msg("CLSE", pid[p], prid[p], NoData))
    BY <1>1, PushMessages DEF SendPushOpenPayload, SendPayload, SendClose, PutHeader, PutPayload,
       PushPuts, Puts, HostOnly, SessionBase
  <2> QED BY <1>1, <2>1, PushMessages DEF SessionBase
<1>3. Pipe' = Append(Pipe, m) /\ Inside(Pipe') = Inside(Pipe) \cup {m}
  BY <1>0, <1>2, PipePut, PipeType, InsideAppend DEF PushPuts
<1>4. UserStep(Default)
  BY <1>2, <1>3 DEF UserStep, PushPuts, daemonVars
<1>5. UNCHANGED <<pid, prid, record>>
  BY DEF SendPushOpenPayload, SendPayload, SendClose
<1>6. /\ ppc'[p] \in Resting => ppc[p] \in Resting
      /\ ppc'[p] \notin Asking => ppc[p] \notin Asking
  <2>1. ppc \in [Pushes -> PPc]
    BY DEF SessionBase, PushTypeOK
  <2>2. \/ ppc[p] = "open_data" /\ ppc'[p] = "await"
        \/ ppc[p] = "send_data" /\ ppc'[p] = "await_okay"
        \/ ppc[p] = "close" /\ ppc'[p] = "ended"
    BY <2>1 DEF SendPushOpenPayload, SendPayload, SendClose, Advance
  <2> QED BY <2>2 DEF Resting, Asking
<1>7. \A n \in Inside(Pipe') : n.cmd \in {"OPEN", "WRTE"} => n \in Inside(Pipe)
  BY <1>2, <1>3
<1>8. Default \in Keys /\ Default # pid[p]
  BY <1>1 DEF Keys, Default
<1> QED BY <1>0, <1>1, <1>4, <1>5, <1>6, <1>7, <1>8, PushGoesOn

LEMMA TurnCalls ==
  ASSUME SessionBase, PushTurns, NEW p \in Pushes, PushStep(p), CallPush(p)
  PROVE  PushTurn(p)' /\ WritesAreRecords' /\ OpensUnanswered'
<1>0. AuthTypeOK /\ WireInv /\ Push(p) /\ PushState(p) /\ WritesAreRecords /\ OpensUnanswered
  BY DEF SessionBase, ShellTypeOK, TypeOK, Push, PushTurns, PushStates, PushStep
<1>1. PICK k \in LocalIds : k = base_id + 2
  BY DEF CallPush
<1>2. k \notin opened /\ \A q \in Pushes : pid[q] # k
  BY <1>1, PushIds
<1>3. /\ Silence(k)
      /\ \A r \in RemoteIds : stream[r].st # "none" => stream[r].peer # k
  BY <1>0, <1>2, NothingUnopened
<1>4. UNCHANGED AuthVars /\ Pipe' = Pipe /\ stream' = stream
      /\ UNCHANGED <<usb_in, rx_msg, receive_queue>>
  BY DEF CallPush, AuthVars, protocolVars, daemonVars, Pipe
<1>5. pid'[p] = k /\ pid[p] = 0 /\ prid[p] = 0 /\ prid' = prid /\ ppc[p] = "idle"
  BY <1>0, <1>1 DEF SessionBase, PushTypeOK, CallPush, Advance, PushState
<1>6. Silence(pid[p])' /\ Turn(pid[p])'
  BY <1>3, <1>4, <1>5 DEF Silence, Turn, NoAnswer, Few
<1>7. PushTurn(p)'
  BY <1>3, <1>4, <1>5, <1>6 DEF PushTurn
<1>8. \A m \in Inside(Pipe) : m.cmd = "WRTE" => m.arg0 # pid[p]
  BY <1>0, <1>5, RecordIsOwn
<1>9. \A m \in Inside(Pipe') : m.cmd = "WRTE" => m \in Inside(Pipe) /\ m.arg0 # pid[p]
  BY <1>4, <1>8
<1>10. \A m \in Inside(Pipe') : m.cmd = "OPEN" => m \in Inside(Pipe) /\ prid'[p] = 0
  BY <1>4, <1>5
<1> QED BY <1>0, <1>7, <1>9, <1>10, RecordsPush

LEMMA TurnAsks ==
  ASSUME SessionBase, PushTurns, NEW p \in Pushes, SendPushOpen(p) \/ SendHeader(p)
  PROVE  PushTurn(p)' /\ WritesAreRecords' /\ OpensUnanswered'
<1>0. AuthTypeOK /\ Push(p) /\ ~CallPush(p) /\ PushState(p) /\ PushTurn(p)
      /\ WritesAreRecords /\ OpensUnanswered /\ ppc \in [Pushes -> PPc]
  BY DEF SessionBase, ShellTypeOK, TypeOK, Push, SendPushOpen, SendHeader, CallPush, Advance,
     PushStates, PushTurns, PushTypeOK
<1>1. pid[p] \in LocalIds /\ pid[p] # 0 /\ UserStep(pid[p])
  BY <1>0, PushUser, ProtocolAssumption
<1>2. PICK k \in LocalIds : k = pid[p]
  BY <1>1
<1>3. UNCHANGED <<pid, prid, record>> /\ stream' = stream /\ ppc[p] \in Resting
  BY <1>1 DEF SendPushOpen, SendHeader, Advance, Resting, UserStep
<1>4. Silence(k) /\ (prid[p] # 0 => GotRecords(p))
      /\ (prid[p] = 0 => \A r \in RemoteIds :
            stream[r].st # "none" /\ stream[r].peer = k => stream[r].got = <<>>)
  BY <1>0, <1>1, <1>2, <1>3 DEF PushTurn
<1>5. Few(Pipe', Asks(k)) /\ NoAnswer(k)'
  BY <1>0, <1>1, <1>2, <1>4, TurnsUser DEF Silence, Keys
<1>6. Turn(pid[p])'
  <2>1. pid'[p] = k
    BY <1>2, <1>3
  <2> QED BY <1>5, <2>1 DEF Turn, NoAnswer
<1>7. NoAnswer(pid[p])'
  <2>1. pid'[p] = k
    BY <1>2, <1>3
  <2> QED BY <1>5, <2>1 DEF NoAnswer
<1>8. \A m \in Inside(Pipe) : m.cmd = "WRTE" => m.arg0 # pid[p]
  <2>1. ppc[p] \notin Asking
    BY <1>3 DEF Resting, Asking
  <2> QED BY <1>0, <2>1, RecordIsOwn
<1>9. CASE SendPushOpen(p)
  <2>1. ppc[p] = "open" /\ ppc'[p] = "open_data" /\ PutHeader(PushOpenMsg(p))
    BY <1>0, <1>9 DEF SendPushOpen, Advance
  <2>2. prid[p] = 0
    BY <1>0, <2>1 DEF PushState
  <2>3. Inside(Pipe') = Inside(Pipe) \cup {PushOpenMsg(p)}
    BY <1>0, <1>1, <2>1, PushMessages, PipeUnasked DEF SessionBase
  <2>4. \A m \in Inside(Pipe') : m.cmd = "WRTE" => m \in Inside(Pipe) /\ m.arg0 # pid[p]
    BY <1>8, <2>3 DEF PushOpenMsg, Msg
  <2>5. \A m \in Inside(Pipe') : m.cmd = "OPEN" =>
          (m \in Inside(Pipe) \/ (m.arg0 = pid[p] /\ pid[p] # 0)) /\ prid'[p] = 0
    BY <1>1, <1>3, <2>2, <2>3 DEF PushOpenMsg, Msg
  <2>6. WritesAreRecords' /\ OpensUnanswered'
    BY <1>0, <2>4, <2>5, RecordsPush
  <2>7. PushTurn(p)'
    BY <1>2, <1>3, <1>4, <1>6, <2>1, <2>2 DEF PushTurn, Resting
  <2> QED BY <2>6, <2>7
<1>10. CASE SendHeader(p)
  <2>1. ppc[p] = "send" /\ ppc'[p] = "send_data" /\ PutHeader(RecordMsg(p))
    BY <1>0, <1>10 DEF SendHeader, Advance
  <2>2. prid[p] # 0 /\ GotRecords(p)
    BY <1>0, <1>4, <2>1 DEF PushState
  <2>3. Inside(Pipe') = Inside(Pipe) \cup {RecordMsg(p)}
    BY <1>0, <1>1, <2>1, PushMessages, PipeUnasked DEF SessionBase
  <2>4. RecordMsg(p)' = RecordMsg(p) /\ RecordMsg(p).cmd = "WRTE" /\ ppc'[p] \in Asking
    BY <1>3, <2>1 DEF RecordMsg, Msg, Asking
  <2>5. \A m \in Inside(Pipe') : m.cmd = "WRTE" =>
          \/ m \in Inside(Pipe) /\ m.arg0 # pid[p]
          \/ m = RecordMsg(p)' /\ ppc'[p] \in Asking
    BY <1>8, <2>3, <2>4
  <2>6. \A m \in Inside(Pipe') : m.cmd = "OPEN" => m \in Inside(Pipe) /\ m.arg0 # pid'[p]
    <3>1. \A m \in Inside(Pipe') : m.cmd = "OPEN" => m \in Inside(Pipe)
      BY <2>3, <2>4
    <3> QED BY <1>0, <1>3, <2>2, <3>1 DEF OpensUnanswered
  <2>7. WritesAreRecords' /\ OpensUnanswered'
    BY <1>0, <2>5, <2>6, RecordsPush
  <2>8. GotRecords(p)'
    <3>1. stream[prid[p]].got = [i \in 1..Len(stream[prid[p]].got) |-> <<p, i>>]
          /\ Len(stream[prid[p]].got) \in {record[p] - 1, record[p]}
      BY <2>2 DEF GotRecords
    <3>2. ppc[p] \notin Asking
      BY <2>1 DEF Asking
    <3>3. Len(stream[prid[p]].got) = record[p] - 1
      BY <2>2, <3>2 DEF GotRecords
    <3> QED BY <1>3, <1>7, <3>1, <3>3 DEF GotRecords
  <2>9. PushTurn(p)'
    BY <1>3, <1>6, <2>1, <2>2, <2>8 DEF PushTurn, Resting
  <2> QED BY <2>7, <2>9
<1> QED BY <1>9, <1>10

(* The OKAY that a push waits for ends its turn.                           *)
LEMMA TurnAnswered ==
  ASSUME SessionBase, PushTurns, NEW p \in Pushes,
         (PushOpenAnswer(p) /\ Response(pid[p]).cmd = "OKAY")
           \/ (TakeOkay(p) /\ Awaited(p) /\ Response(pid[p]).cmd = "OKAY")
  PROVE  PushTurn(p)' /\ WritesAreRecords' /\ OpensUnanswered'
<1>0. AuthTypeOK /\ StaleInv /\ WireInv /\ Push(p) /\ ~CallPush(p) /\ PushState(p) /\ PushTurn(p)
      /\ WritesAreRecords /\ OpensUnanswered /\ PushTypeOK
  BY DEF SessionBase, ShellTypeOK, TypeOK, Push, PushOpenAnswer, TakeOkay, CallPush, Advance,
     PushStates, PushTurns, ShellStaleInv
<1>1. pid[p] \in LocalIds /\ pid[p] # 0 /\ UserStep(pid[p]) /\ Take(pid[p])
  BY <1>0, PushUser, ProtocolAssumption DEF PushOpenAnswer, TakeOkay
<1>2. PICK k \in LocalIds : k = pid[p] /\ k # 0
  BY <1>1
<1>3. PICK m \in Message : m = Response(k)
  BY <1>0, <1>1, <1>2, TakesOwn
<1>4. m \in Okays(k) /\ m.arg0 \in RemoteIds
  <2>1. FrameOk(m) /\ m.arg1 = k /\ m.arg0 \notin StaleIds
    BY <1>0, <1>1, <1>2, <1>3, TakesOwn
  <2>2. m.cmd = "OKAY"
    BY <1>2, <1>3
  <2> QED BY <1>3, <2>1, <2>2 DEF Okays, FrameOk, Shaped, StreamIds
<1>5. stream[m.arg0].st # "none" /\ stream[m.arg0].peer = k
  <2>1. FrameOk(m) /\ m.arg1 = k /\ m.cmd = "OKAY"
    BY <1>0, <1>1, <1>2, <1>3, TakesOwn
  <2> QED BY <1>4, <2>1 DEF FrameOk, OfStream, Said
<1>6. Turn(k) /\ (prid[p] # 0 => GotRecords(p))
      /\ (prid[p] = 0 => \A r \in RemoteIds :
            stream[r].st # "none" /\ stream[r].peer = k => stream[r].got = <<>>)
  BY <1>0, <1>2 DEF PushTurn
<1>7. ~NoAnswer(k) /\ (OneAnswer(k) => NoAnswer(k)')
  BY <1>0, <1>1, <1>2, <1>3, <1>4, AnswerTake DEF Keys
<1>8. Silence(k)' /\ Pipe' = Pipe /\ None(Pipe, Asks(k)) /\ stream' = stream
  <2>1. Pipe' = Pipe /\ stream' = stream
    BY <1>0, <1>1, PipeUnasked DEF UserStep, Keys
  <2> QED BY <1>6, <1>7, <2>1 DEF Turn, Silence
<1>9. pid' = pid
  BY DEF PushOpenAnswer, TakeOkay
<1>10. Silence(pid[p])' /\ Turn(pid[p])' /\ NoAnswer(pid[p])' /\ None(Pipe, Asks(pid[p]))'
  <2>1. pid'[p] = k
    BY <1>2, <1>9
  <2> QED BY <1>8, <2>1 DEF Silence, Turn, NoAnswer, Few
<1>11. \A n \in Inside(Pipe') : n.cmd \in {"OPEN", "WRTE"} => n \in Inside(Pipe) /\ n.arg0 # pid[p]
  <2>1. Pipe \in Seq(Message)
    BY <1>0, PipeType
  <2> QED BY <1>2, <1>8, <2>1 DEF None, Inside, Asks
<1>12. WritesAreRecords' /\ OpensUnanswered'
  BY <1>0, <1>9, <1>11, RecordsPush
<1>13. CASE PushOpenAnswer(p)
  <2>1. /\ ppc[p] = "await" /\ ppc'[p] = "send" /\ prid'[p] = m.arg0 /\ record'[p] = record[p]
    BY <1>0, <1>2, <1>3, <1>4, <1>13 DEF PushOpenAnswer, Advance, PushTypeOK, Okays
  <2>2. prid[p] = 0 /\ record[p] = 1
    BY <1>0, <2>1 DEF PushState, SendRecord
  <2>3. stream[m.arg0].got = <<>> /\ m.arg0 # 0
    BY <1>4, <1>5, <1>6, <2>2, ProtocolAssumption
  <2>4. stream'[prid'[p]].got = <<>>
    BY <1>8, <2>1, <2>3
  <2>5. <<>> = [i \in 1..0 |-> <<p, i>>] /\ Len(<<>>) = 0
    OBVIOUS
  <2>6. ppc'[p] \notin Asking
    BY <2>1 DEF Asking
  <2>7. GotRecords(p)'
    BY <1>10, <2>1, <2>2, <2>4, <2>5, <2>6 DEF GotRecords
  <2> QED BY <1>10, <1>12, <2>1, <2>3, <2>7 DEF PushTurn
<1>14. CASE TakeOkay(p)
  <2>0. Awaited(p) /\ Response(pid[p]).cmd = "OKAY"
    BY <1>14 DEF TakeOkay, PushOpenAnswer, Advance
  <2>1. /\ ppc[p] = "await_okay" /\ ppc'[p] = AfterOkay(p) /\ prid'[p] = prid[p]
        /\ record'[p] = record[p] + 1
    BY <1>0, <1>14, <2>0 DEF TakeOkay, Advance, PushTypeOK
  <2>2. prid[p] # 0 /\ GotRecords(p)
    BY <1>0, <1>6, <2>1 DEF PushState
  <2>3. Len(stream[prid[p]].got) = record[p] /\ record[p] \in Nat
        /\ stream[prid[p]].got = [i \in 1..Len(stream[prid[p]].got) |-> <<p, i>>]
    BY <1>0, <1>2, <1>7, <2>2 DEF GotRecords, PushTypeOK
  <2>4. AfterOkay(p) \notin Asking
    BY DEF AfterOkay, Asking
  <2>5. GotRecords(p)'
    BY <1>8, <1>10, <2>1, <2>3, <2>4 DEF GotRecords
  <2> QED BY <1>10, <1>12, <2>1, <2>2, <2>5 DEF PushTurn
<1> QED BY <1>13, <1>14

LEMMA TurnsPush ==
  ASSUME SessionBase, PushTurns, NEW p \in Pushes, PushStep(p)
  PROVE  PushTurns'
<1>1. Push(p)
  BY DEF PushStep
<1>2. PushTurn(p)' /\ WritesAreRecords' /\ OpensUnanswered'
  BY <1>1, TurnTakes, TurnAdds, TurnCalls, TurnAsks, TurnAnswered DEF Push
<1>3. ASSUME NEW q \in Pushes \ {p} PROVE PushTurn(q)'
  <2>1. ppc'[q] = ppc[q] /\ pid'[q] = pid[q] /\ prid'[q] = prid[q] /\ record'[q] = record[q]
    BY <1>1, PushMoves DEF SessionBase
  <2>2. CASE ~CallPush(p)
    <3>1. pid[p] \in LocalIds /\ UserStep(pid[p]) /\ pid[p] \in Keys
      BY <1>1, <2>2, PushUser DEF Keys
    <3>2. pid[q] # pid[p]
      BY <3>1, ProtocolAssumption DEF SessionBase, SessionIds
    <3> QED BY <2>1, <3>1, <3>2, TurnOfOther
  <2>3. CASE CallPush(p)
    <3>1. UNCHANGED AuthVars
      BY <2>3 DEF CallPush
    <3>2. stream' = stream /\ Pipe' = Pipe /\ UNCHANGED <<usb_in, rx_msg, receive_queue>>
      BY <3>1 DEF AuthVars, protocolVars, daemonVars, Pipe
    <3>3. PICK j \in Keys : j # pid[q]
      <4>1. CASE pid[q] = 0
        <5>1. base_id + 2 \in LocalIds /\ 0 \notin LocalIds
          BY <2>3, ProtocolAssumption DEF CallPush
        <5> QED BY <4>1, <5>1 DEF Keys
      <4>2. CASE pid[q] # 0
        BY <4>2 DEF Keys, Default
      <4> QED BY <4>1, <4>2
    <3>4. UserStep(j)
      BY <3>2 DEF UserStep
    <3> QED BY <2>1, <3>3, <3>4, TurnOfOther
  <2> QED BY <2>2, <2>3
<1> QED BY <1>2, <1>3 DEF PushTurns

(* The calls of shell() ask with ids of their own.                         *)
LEMMA TurnsShell ==
  ASSUME SessionBase, PushTurns, NEW c \in Shells, Call(c) \/ Task(c) \/ Output(c) \/ Close(c),
         UNCHANGED pushVars
  PROVE  PushTurns'
<1>0. AuthTypeOK /\ ShellTypeOK /\ WritesAreRecords /\ OpensUnanswered /\ stream' = stream
  BY ShellConnected DEF SessionBase, ShellTypeOK, TypeOK, PushTurns
<1>1. UNCHANGED <<ppc, pid, prid, record>>
  BY DEF pushVars
<1>2. PICK j \in Keys : j = local_id[c]
  BY <1>0 DEF ShellTypeOK, TypeOK, Keys, Default
<1>3. UserStep(j) /\ \A m \in Inside(Pipe') :
        m \in Inside(Pipe) \/ m.cmd \notin {"OPEN", "WRTE"}
          \/ (m.cmd = "OPEN" /\ m.arg0 = j /\ j # 0)
  <2>1. CASE UNCHANGED AuthVars
    <3>1. Pipe' = Pipe
      BY <2>1 DEF AuthVars, protocolVars, Pipe
    <3> QED BY <2>1, <3>1 DEF UserStep, AuthVars, protocolVars, daemonVars
  <2>2. CASE Take(local_id[c])
    <3>1. Pipe' = Pipe
      BY <2>2 DEF Take, Pipe
    <3> QED BY <1>0, <1>2, <2>2, <3>1 DEF UserStep
  <2>3. ASSUME NEW n \in Message, ShellPuts(c, n)
        PROVE  UserStep(j) /\ \A m \in Inside(Pipe') :
                 m \in Inside(Pipe) \/ m.cmd \notin {"OPEN", "WRTE"}
                   \/ (m.cmd = "OPEN" /\ m.arg0 = j /\ j # 0)
    <3>1. Pipe' = Append(Pipe, n) /\ Inside(Pipe') = Inside(Pipe) \cup {n}
      BY <1>0, <2>3, PipePut, PipeType, InsideAppend DEF ShellPuts
    <3>2. /\ n.cmd \in {"OPEN", "DATA", "CLSE"} /\ (n.cmd = "OPEN" => n.arg0 = j)
          /\ UNCHANGED <<receive_queue, rx_msg, usb_in>> /\ j # 0
      BY <1>2, <2>3, ProtocolAssumption DEF ShellPuts
    <3> QED BY <1>0, <3>1, <3>2 DEF UserStep
  <2> QED BY <1>0, <2>1, <2>2, <2>3, ShellDoes
<1>4. j # 0 => \A p \in Pushes : pid[p] # j
  BY <1>2 DEF SessionBase, SessionIds
<1>5. WritesAreRecords' /\ OpensUnanswered'
  BY <1>0, <1>3, <1>4, RecordsStand
<1>6. ASSUME NEW p \in Pushes PROVE PushTurn(p)'
  <2>1. CASE pid[p] = 0
    BY <1>1, <2>1 DEF PushTurn
  <2>2. CASE pid[p] # 0
    <3>1. pid[p] # j
      BY <1>4, <2>2
    <3> QED BY <1>1, <1>3, <3>1, TurnOfOther
  <2> QED BY <2>1, <2>2
<1> QED BY <1>5, <1>6 DEF PushTurns

LEMMA TurnsInit ==
  ASSUME SessionInit
  PROVE  PushTurns
<1>1. Inside(Pipe) = {}
  <2>1. Pipe = <<>>
    BY DEF SessionInit, Init, AuthInit, ProtocolInit, Pipe
  <2> QED BY <2>1 DEF Inside
<1>2. \A p \in Pushes : pid[p] = 0
  BY DEF SessionInit, PushInit
<1> QED BY <1>1, <1>2 DEF PushTurns, WritesAreRecords, OpensUnanswered, PushTurn

LEMMA TurnsUnchanged ==
  ASSUME PushTurns, UNCHANGED sessionVars
  PROVE  PushTurns'
<1>1. /\ UNCHANGED <<send_queue, receive_queue, rx_msg, usb_out, usb_in, stream>>
      /\ UNCHANGED <<ppc, pid, prid, record>>
  BY DEF sessionVars, AuthVars, protocolVars, daemonVars, pushVars
<1>2. Pipe' = Pipe
  BY <1>1 DEF Pipe
<1>3. WritesAreRecords' /\ OpensUnanswered'
  BY <1>1, <1>2 DEF PushTurns, WritesAreRecords, OpensUnanswered, RecordMsg
<1>4. ASSUME NEW p \in Pushes PROVE PushTurn(p)'
  <2>1. PushTurn(p)
    BY DEF PushTurns
  <2> QED BY <1>1, <1>2, <2>1 DEF PushTurn, Turn, Silence, NoAnswer, OneAnswer, GotRecords
<1> QED BY <1>3, <1>4 DEF PushTurns

LEMMA TurnsStep ==
  ASSUME SessionBase, PushTurns, [SessionNext]_sessionVars
  PROVE  PushTurns'
<1>1. CASE AuthNext /\ UNCHANGED <<shellVars, pushVars>>
  BY <1>1, TurnsServe
<1>2. ASSUME NEW r \in StreamIds, NEW d \in Replies, SyncReply(r, d),
             UNCHANGED <<authVars, shellVars, pushVars>>
      PROVE  PushTurns'
  <2>1. PICK m \in Message : SyncWrites(r, m)
    BY <1>2, SyncSays DEF SessionBase, ShellTypeOK, TypeOK, ShellStaleInv
  <2> QED BY <1>2, <2>1, TurnsSync
<1>3. ASSUME NEW p \in Pushes, PushStep(p) PROVE PushTurns'
  BY <1>3, TurnsPush
<1>4. ASSUME NEW c \in Shells, ShellStep(c) PROVE PushTurns'
  BY <1>4, TurnsShell DEF ShellStep, Use
<1>5. CASE UNCHANGED sessionVars
  BY <1>5, TurnsUnchanged
<1> QED BY <1>1, <1>2, <1>3, <1>4, <1>5, SessionSteps

(* The sync service of a push gets the records of its file, of no other,   *)
(* in order and none twice: send() answers the OKAY of one record before   *)
(* it sends the next, whatever the shells, the other pushes and a broken   *)
(* wire do meanwhile, as long as one thread makes the calls of shell()     *)
(* (libadb/connection.py, PushConnection.send).                            *)
THEOREM SessionRecordsInOrder == OneCaller => (SessionSpec => []RecordsInOrder)
<1> DEFINE Inv == SessionBase /\ PushTurns
<1>1. SessionInit => Inv
  BY SessionInitBase, TurnsInit
<1>2. OneCaller /\ Inv /\ [SessionNext]_sessionVars => Inv'
  BY SessionBaseStep, TurnsStep
<1>3. Inv => RecordsInOrder
  <2> SUFFICES ASSUME Inv, NEW p \in Pushes, prid[p] # 0
               PROVE  /\ Len(Received(p)) <= record[p]
                      /\ Received(p) = [k \in 1..Len(Received(p)) |-> <<p, k>>]
    BY DEF RecordsInOrder
  <2>1. PushState(p) /\ PushTurn(p) /\ record[p] \in Nat
    BY DEF SessionBase, PushStates, PushTurns, PushTypeOK
  <2>2. pid[p] # 0
    BY <2>1 DEF PushState
  <2>3. GotRecords(p)
    BY <2>1, <2>2 DEF PushTurn
  <2> QED BY <2>1, <2>3 DEF GotRecords, Received
<1>4. CASE OneCaller
  <2>1. Inv /\ [SessionNext]_sessionVars => Inv'
    BY <1>2, <1>4
  <2> HIDE DEF Inv
  <2>2. SessionSpec => []RecordsInOrder
    BY <1>1, <1>3, <2>1, PTL DEF SessionSpec
  <2> QED BY <2>2
<1> QED BY <1>4

(* A push that has ended has the answer of the service to DONE, the        *)
(* service has received every record up to QUIT, and its stream is closed  *)
(* (libadb/connection.py, PushConnection.main_loop; adb.py push).          *)
THEOREM SessionEndedMeansFinished == OneCaller => (SessionSpec => []EndedMeansFinished)
<1> DEFINE Inv == SessionBase /\ PushTurns
<1>1. SessionInit => Inv
  BY SessionInitBase, TurnsInit
<1>2. OneCaller /\ Inv /\ [SessionNext]_sessionVars => Inv'
  BY SessionBaseStep, TurnsStep
<1>3. Inv => EndedMeansFinished
  <2> SUFFICES ASSUME Inv, NEW p \in Pushes, ppc[p] = "ended"
               PROVE  /\ reply[p] # NoData /\ Len(Received(p)) = Quit(p)
                      /\ stream[prid[p]].st = "closed"
    BY DEF EndedMeansFinished
  <2>1. /\ PushState(p) /\ PushTurn(p) /\ record[p] \in Nat /\ Quit(p) \in Nat
    BY PushAssumption DEF SessionBase, PushStates, PushTurns, PushTypeOK, Quit
  <2>2. /\ pid[p] # 0 /\ prid[p] # 0 /\ record[p] = Quit(p) + 1 /\ reply[p] # NoData
        /\ stream[prid[p]].st = "closed"
    BY <2>1 DEF PushState
  <2>3. GotRecords(p)
    BY <2>1, <2>2 DEF PushTurn
  <2>4. ppc[p] \notin Asking
    BY DEF Asking
  <2>5. Len(stream[prid[p]].got) = record[p] - 1
    BY <2>3, <2>4 DEF GotRecords
  <2> QED BY <2>1, <2>2, <2>5 DEF Received
<1>4. CASE OneCaller
  <2>1. Inv /\ [SessionNext]_sessionVars => Inv'
    BY <1>2, <1>4
  <2> HIDE DEF Inv
  <2>2. SessionSpec => []EndedMeansFinished
    BY <1>1, <1>3, <2>1, PTL DEF SessionSpec
  <2> QED BY <2>2
<1> QED BY <1>4

-----------------------------------------------------------------------------
(* What a call has got is what its service has written first; all of it    *)
(* once its task has ended, and then in result when the call has returned. *)
OutputState(c) ==
  /\ remote_id[c] # 0 => Got(c) = Chunks(remote_id[c], Len(Got(c)))
  /\ task[c] = "ended" =>
       stream[remote_id[c]].st = "closed" /\ Len(Got(c)) = stream[remote_id[c]].sent
  /\ pc[c] = "returned" => task[c] = "ended" /\ queue[c] = <<>>
OutputStates == \A c \in Shells : OutputState(c)

SessionOrder == CallStates /\ CallsInOrder /\ OutputStates

(* An answer of the sync service is on its way to a push.                  *)
LEMMA OrderSaid ==
  ASSUME AuthTypeOK, NEW r \in RemoteIds, NEW S, NEW lo \in Nat, InOrder(r, S, lo),
         NEW m \in Message, ~OfStream(m, r, S), Says(m),
         UNCHANGED <<rx_pc, rx_msg, receive_queue>>, stream'[r] = stream[r]
  PROVE  InOrder(r, S, lo)'
<1>1. End(r)' = End(r) /\ End(r) \in Nat /\ usb_in \in Seq(Message) /\ usb_in' = Append(usb_in, m)
  BY StreamFacts DEF End, AuthTypeOK, ProtocolTypeOK, Says, StreamIds
<1>2. ASSUME NEW b \in Nat, NEW c \in Nat, Run(usb_in, r, S, End(r), b, c)
      PROVE  Run(usb_in', r, S, End(r), b, c)
  <2>1. Run(<<m>>, r, S, End(r), c, c)
    BY <1>1, RunOne
  <2> QED BY <1>1, <1>2, <2>1, RunAppend
<1>3. PICK a, b, c \in Nat :
        /\ Run(receive_queue[stream[r].peer], r, S, End(r), lo, a)
        /\ rx_pc # "dead" =>
             /\ Run(<<rx_msg>>, r, S, End(r), a, b)
             /\ Run(usb_in, r, S, End(r), b, c)
             /\ \/ c = stream[r].sent + 1
                \/ c = stream[r].sent + 2 /\ stream[r].st = "closed"
  BY DEF InOrder
<1>4. rx_pc # "dead" => Run(usb_in', r, S, End(r), b, c)
  BY <1>2, <1>3
<1>5. /\ Run(receive_queue'[stream'[r].peer], r, S, End(r)', lo, a)
      /\ rx_pc' # "dead" =>
           /\ Run(<<rx_msg'>>, r, S, End(r)', a, b)
           /\ Run(usb_in', r, S, End(r)', b, c)
           /\ \/ c = stream'[r].sent + 1
              \/ c = stream'[r].sent + 2 /\ stream'[r].st = "closed"
  BY <1>1, <1>3, <1>4
<1> QED BY <1>5 DEF InOrder

(* A closed stream is written no more.                                     *)
LEMMA ClosedStands ==
  ASSUME AuthTypeOK, AuthNext, NEW r \in StreamIds, stream[r].st = "closed"
  PROVE  stream'[r].st = "closed" /\ stream'[r].sent = stream[r].sent
<1>1. CASE Daemon
  <2>1. Ignores(r)
    BY <1>1, DaemonStream DEF Opens, Writes, Ends, Hears, IsOpen
  <2> QED BY <2>1 DEF Ignores, Kept
<1>2. CASE stream' = stream
  BY <1>2
<1>3. CASE Authenticate
  BY <1>2, <1>3, PipeAuthenticate
<1> QED BY <1>1, <1>2, <1>3 DEF AuthNext, daemonVars

(* The streams of the calls are not those of the pushes.                   *)
LEMMA OrderServes ==
  ASSUME SessionBase, PushTurns, SessionOrder, AuthNext, UNCHANGED <<shellVars, pushVars>>
  PROVE  SessionOrder'
<1>0. /\ ShellTypeOK /\ AuthTypeOK /\ OrderInv /\ WritesAreRecords
  BY DEF SessionBase, ShellTypeOK, TypeOK, SessionOrder, OrderInv, PushTurns
<1>1. ASSUME NEW c \in Shells, NEW r \in RemoteIds, Mine(c, r) \/ stream[r].st = "none",
             FrameReady, Frame.cmd = "WRTE", Frame.arg1 = r
      PROVE  FALSE
  <2>1. Frame \in Inside(Pipe)
    <3>1. /\ usb_out \in Seq(Message) /\ send_queue \in Seq(Message) /\ usb_out # <<>>
      BY <1>0, <1>1, PipeType DEF FrameReady
    <3>2. Pipe[1] = Frame /\ 1 \in 1..Len(Pipe)
      BY <3>1 DEF Pipe, Frame
    <3> QED BY <3>2 DEF Inside
  <2>2. PICK p \in Pushes : Frame = RecordMsg(p) /\ ppc[p] \in Asking
    BY <1>0, <1>1, <2>1 DEF WritesAreRecords
  <2>3. PushState(p) /\ prid[p] = r /\ r # 0 /\ 0 \notin LocalIds
    BY <1>1, <2>2, ProtocolAssumption DEF RecordMsg, Msg, SessionBase, PushStates
  <2>4. stream[r].st # "none" /\ stream[r].peer = pid[p] /\ pid[p] # 0
    BY <2>2, <2>3 DEF PushState, Asking
  <2>5. pid[p] # local_id[c]
    BY <2>4 DEF SessionBase, SessionIds
  <2> QED BY <1>1, <2>4, <2>5 DEF Mine
<1>2. OrderInv'
  BY <1>0, <1>1, OrderAuthStep
<1>3. ASSUME NEW c \in Shells PROVE OutputState(c)'
  <2>1. UNCHANGED <<pc, remote_id, task, queue, hand, result>>
    BY DEF shellVars, callVars, taskVars
  <2>2. OutputState(c) /\ CallState(c)
    BY DEF SessionOrder, OutputStates, CallStates
  <2>3. Got(c)' = Got(c)
    BY <2>1 DEF Got
  <2>4. task[c] = "ended" => remote_id[c] \in RemoteIds
    BY <2>2 DEF CallState
  <2>5. task[c] = "ended" => stream'[remote_id[c]].st = "closed"
                             /\ stream'[remote_id[c]].sent = stream[remote_id[c]].sent
    BY <1>0, <2>2, <2>4, ClosedStands DEF OutputState, StreamIds
  <2> QED BY <2>1, <2>2, <2>3, <2>5 DEF OutputState, Chunks
<1> QED BY <1>2, <1>3 DEF SessionOrder, OutputStates, OrderInv

LEMMA OrderSync ==
  ASSUME SessionBase, SessionOrder, NEW q \in StreamIds, NEW m \in Message, SyncWrites(q, m),
         IsSync(q), UNCHANGED <<shellVars, pushVars>>
  PROVE  SessionOrder'
<1>0. AuthTypeOK /\ WireInv /\ TypeOK
  BY DEF SessionBase, ShellTypeOK, TypeOK
<1>1. UNCHANGED <<pc, local_id, remote_id, task, queue, hand, result>>
  BY DEF shellVars, callVars, taskVars
<1>2. \A c \in Shells : Got(c)' = Got(c) /\ Taken(c)' = Taken(c)
  BY <1>1 DEF Got, Taken
<1>3. \A r \in StreamIds : /\ stream'[r].st # "none" <=> stream[r].st # "none"
                           /\ stream'[r].peer = stream[r].peer
                           /\ r # q => stream'[r] = stream[r]
  <2>1. stream'[q].st = "waitack" /\ stream[q].st = "ready" /\ stream'[q].peer = stream[q].peer
    BY <1>0, StreamFacts DEF SyncWrites, Stream
  <2> QED BY <2>1 DEF SyncWrites
<1>4. CallStates'
  <2>1. ASSUME NEW c \in Shells PROVE CallState(c)'
    <3>1. CallState(c)
      BY DEF SessionOrder, CallStates
    <3> QED BY <1>1, <1>3, <3>1 DEF CallState, StreamIds
  <2> QED BY <2>1 DEF CallStates
<1>5. ASSUME NEW c \in Shells, NEW r \in RemoteIds, Mine(c, r)'
      PROVE  InOrder(r, Said, Taken(c))' /\ Numbered(r)'
  <2>1. Mine(c, r)
    BY <1>1, <1>3, <1>5 DEF Mine, StreamIds
  <2>2. PICK lo \in Nat : lo = Taken(c)
    BY <1>0, GotType
  <2>3. InOrder(r, Said, lo) /\ Numbered(r)
    BY <2>1, <2>2 DEF SessionOrder, CallsInOrder
  <2>4. q # r
    <3> SUFFICES ASSUME q = r PROVE FALSE
      OBVIOUS
    <3>1. PICK p \in Pushes : pid[p] = stream[r].peer
      BY DEF IsSync
    <3>2. stream[r].peer \in opened /\ opened \subseteq LocalIds /\ 0 \notin LocalIds
      BY <1>0, <2>1, ProtocolAssumption DEF WireInv, PeersOpened, Mine, AuthTypeOK, ProtocolTypeOK
    <3>3. stream[r].peer = local_id[c]
      BY <2>1 DEF Mine
    <3> QED BY <3>1, <3>2, <3>3 DEF SessionBase, SessionIds
  <2>5. ~OfStream(m, r, Said)
    BY <2>4 DEF SyncWrites, OfStream
  <2>6. InOrder(r, Said, lo)'
    BY <1>0, <1>3, <2>3, <2>4, <2>5, OrderSaid DEF SyncWrites, StreamIds
  <2>7. Numbered(r)'
    <3>1. Frames' = Frames \cup {m} /\ stream'[r] = stream[r]
      BY <1>3, <2>4 DEF SyncWrites, StreamIds
    <3>2. ~OfStream(m, r, {"WRTE"})
      BY <2>5 DEF OfStream, Said
    <3> QED BY <2>3, <3>1, <3>2 DEF Numbered, Chunk
  <2> QED BY <1>2, <2>2, <2>6, <2>7
<1>6. ASSUME NEW c \in Shells PROVE OutputState(c)'
  <2>1. OutputState(c) /\ CallState(c)
    BY DEF SessionOrder, OutputStates, CallStates
  <2>2. task[c] = "ended" => remote_id[c] \in StreamIds /\ remote_id[c] # q
    BY <2>1 DEF CallState, OutputState, SyncWrites, StreamIds
  <2>3. task[c] = "ended" => stream'[remote_id[c]] = stream[remote_id[c]]
    BY <1>3, <2>2
  <2> QED BY <1>1, <1>2, <2>1, <2>3 DEF OutputState, Chunks
<1> QED BY <1>4, <1>5, <1>6 DEF SessionOrder, CallsInOrder, OutputStates

LEMMA OrderPush ==
  ASSUME SessionBase, SessionOrder, NEW p \in Pushes, PushStep(p)
  PROVE  SessionOrder'
<1>0. AuthTypeOK /\ WireInv /\ TypeOK /\ StaleInv /\ PushTypeOK /\ PushStates /\ Push(p)
  BY DEF SessionBase, ShellTypeOK, TypeOK, ShellStaleInv, PushStep
<1>1. UNCHANGED <<pc, local_id, remote_id, task, queue, hand, result>> /\ stream' = stream
  BY <1>0, PushDoes DEF PushStep, shellOnlyVars, taskVars
<1>2. \A c \in Shells : Got(c)' = Got(c) /\ Taken(c)' = Taken(c)
  BY <1>1 DEF Got, Taken
<1>3. CallStates'
  BY <1>1 DEF SessionOrder, CallStates, CallState
<1>4. OutputStates'
  <2>1. ASSUME NEW c \in Shells PROVE OutputState(c)'
    <3>1. OutputState(c)
      BY DEF SessionOrder, OutputStates
    <3> QED BY <1>1, <1>2, <3>1 DEF OutputState, Chunks
  <2> QED BY <2>1 DEF OutputStates
<1>5. Frames' \subseteq Frames \cup {NoMsg}
  BY <1>0, PushConnected
<1>6. /\ UNCHANGED <<rx_pc, rx_msg, usb_in>>
      /\ \A l \in LocalIds : l # pid[p] => receive_queue'[l] = receive_queue[l]
  <2>1. CASE UNCHANGED AuthVars
    BY <2>1 DEF AuthVars, protocolVars
  <2>2. CASE pid[p] \in LocalIds /\ Take(pid[p])
    BY <1>0, <2>2 DEF Take, AuthTypeOK, ProtocolTypeOK
  <2>3. CASE \E m \in Message : PushPuts(p, m)
    BY <2>3 DEF PushPuts
  <2> QED BY <1>0, <2>1, <2>2, <2>3, PushDoes
<1>7. ASSUME NEW c \in Shells, NEW r \in RemoteIds, Mine(c, r)'
      PROVE  InOrder(r, Said, Taken(c))' /\ Numbered(r)'
  <2>1. Mine(c, r) /\ stream'[r] = stream[r]
    BY <1>1, <1>7 DEF Mine
  <2>2. PICK lo \in Nat : lo = Taken(c)
    BY <1>0, GotType
  <2>3. InOrder(r, Said, lo) /\ Numbered(r)
    BY <2>1, <2>2 DEF SessionOrder, CallsInOrder
  <2>4. /\ stream[r].peer \in LocalIds /\ stream[r].peer # 0 /\ stream[r].peer = local_id[c]
    BY <1>0, <2>1, ProtocolAssumption DEF WireInv, PeersOpened, Mine, AuthTypeOK, ProtocolTypeOK
  <2>5. stream[r].peer # pid[p]
    BY <2>4 DEF SessionBase, SessionIds
  <2>6. InOrder(r, Said, lo)'
    BY <1>6, <2>1, <2>3, <2>4, <2>5, OrderKept
  <2>7. Numbered(r)'
    BY <1>5, <2>1, <2>3, NumberedKept
  <2> QED BY <1>2, <2>2, <2>6, <2>7
<1> QED BY <1>3, <1>4, <1>7 DEF SessionOrder, CallsInOrder

(* What a call does to its own output, and to no other.                    *)
LEMMA OutputTask ==
  ASSUME ShellTypeOK, ShellStaleInv, OrderInv, OutputStates, NEW c \in Shells, TaskReceive(c)
  PROVE  OutputState(c)'
<1> DEFINE r == remote_id[c]
<1>0. /\ stream' = stream /\ UNCHANGED <<remote_id, pc, queue>> /\ task[c] = "receive"
      /\ OutputState(c) /\ CallState(c)
  BY DEF TaskReceive, daemonVars, callVars, OutputStates, OrderInv, CallStates
<1>1. /\ Got(c) \in Seq(Data) /\ Len(Got(c)) \in Nat /\ r # 0
  BY <1>0, GotType DEF ShellTypeOK, CallState
<1>2. Got(c) = Chunks(r, Len(Got(c))) /\ pc[c] # "returned"
  BY <1>0, <1>1 DEF OutputState
<1>3. task \in [Shells -> {"none", "receive", "put", "ended"}]
  BY DEF ShellTypeOK, TypeOK
<1>4. CASE UNCHANGED <<task, hand>>
  <2>1. Got(c)' = Got(c)
    BY <1>4, GotReceives
  <2> QED BY <1>0, <1>2, <1>4, <2>1 DEF OutputState, Chunks
<1>5. CASE /\ Len(Got(c)) = stream[r].sent /\ stream[r].st = "closed"
           /\ task' = [task EXCEPT ![c] = "ended"]
  <2>1. Got(c)' = Got(c)
    BY <1>5, GotReceives
  <2> QED BY <1>0, <1>2, <1>5, <2>1 DEF OutputState, Chunks
<1>6. CASE /\ task' = [task EXCEPT ![c] = "put"]
           /\ hand' = [hand EXCEPT ![c] = <<r, Len(Got(c)) + 1>>]
  <2>1. PICK x \in Data : x = <<r, Len(Got(c)) + 1>>
    <3>1. r \in Nat
      BY DEF ShellTypeOK, TypeOK
    <3>2. Len(Got(c)) + 1 \in Nat
      BY <1>1
    <3>3. <<r, Len(Got(c)) + 1>> \in Nat \X Nat
      BY <3>1, <3>2
    <3> QED BY <3>3 DEF Data
  <2>2. Got(c)' = Append(Got(c), x)
    BY <1>6, <2>1, GotReceives
  <2>3. task'[c] = "put"
    BY <1>3, <1>6
  <2>4. PICK g \in Seq(Data) : g = Got(c)
    BY <1>1
  <2>5. PICK h : h = Append(g, x)
    OBVIOUS
  <2>6. h = Chunks(r, Len(h))
    <3>1. /\ h \in Seq(Data) /\ Len(h) = Len(g) + 1 /\ h[Len(g) + 1] = x
          /\ \A i \in 1..Len(g) : h[i] = g[i]
      BY <2>5, AppendProperties
    <3>2. \A i \in 1..Len(g) : g[i] = <<r, i>>
      BY <1>2, <2>4 DEF Chunks
    <3>3. \A i \in 1..Len(h) : h[i] = <<r, i>>
      <4> SUFFICES ASSUME NEW i \in 1..Len(h) PROVE h[i] = <<r, i>>
        OBVIOUS
      <4>1. i \in 1..Len(g) \/ i = Len(g) + 1
        BY <1>1, <2>4, <3>1
      <4> QED BY <2>1, <2>4, <3>1, <3>2, <4>1
    <3>4. h = [i \in 1..Len(h) |-> h[i]]
      BY <3>1, LenProperties
    <3> QED BY <3>3, <3>4 DEF Chunks
  <2>7. Got(c)' = h
    BY <2>2, <2>4, <2>5
  <2> QED BY <1>0, <1>2, <2>3, <2>6, <2>7 DEF OutputState, Chunks
<1> QED BY <1>4, <1>5, <1>6, TaskTakes

LEMMA OutputCalls ==
  ASSUME ShellTypeOK, ShellStaleInv, OrderInv, OutputStates,
         NEW c \in Shells, Call(c) \/ Task(c) \/ Output(c) \/ Close(c)
  PROVE  OutputStates'
<1>0. /\ stream' = stream /\ TypeOK
      /\ \A d \in Shells : OutputState(d) /\ CallState(d)
  BY ShellConnected DEF OutputStates, OrderInv, CallStates, ShellTypeOK
<1>1. /\ pc \in [Shells -> Pc] /\ remote_id \in [Shells -> Nat]
      /\ task \in [Shells -> {"none", "receive", "put", "ended"}]
      /\ queue \in [Shells -> Seq(Data)] /\ result \in [Shells -> Seq(Data)]
      /\ hand \in [Shells -> Data]
  BY <1>0 DEF TypeOK
<1>2. ASSUME NEW d \in Shells, Got(d)' = Got(d), remote_id'[d] = remote_id[d],
             task'[d] = "ended" <=> task[d] = "ended",
             pc'[d] = "returned" => pc[d] = "returned" /\ queue'[d] = queue[d]
      PROVE  OutputState(d)'
  BY <1>0, <1>2 DEF OutputState, Chunks
<1>3. CASE TaskReceive(c)
  <2>1. OutputState(c)'
    BY <1>3, OutputTask
  <2>2. ASSUME NEW d \in Shells \ {c} PROVE OutputState(d)'
    <3>1. Got(d)' = Got(d)
      BY <1>3, GotReceives
    <3>2. UNCHANGED <<remote_id, pc, queue>> /\ task'[d] = task[d]
      BY <1>1, <1>3 DEF TaskReceive, callVars
    <3> QED BY <1>2, <3>1, <3>2
  <2> QED BY <2>1, <2>2 DEF OutputStates
<1>4. CASE TaskPut(c) \/ Output(c)
  <2>1. UNCHANGED <<remote_id, pc>> /\ \A d \in Shells \ {c} : task'[d] = task[d] /\ queue'[d] = queue[d]
    BY <1>1, <1>4 DEF TaskPut, Output, callVars, taskVars
  <2>2. task'[c] = "ended" <=> task[c] = "ended"
    BY <1>1, <1>4 DEF TaskPut, Output, taskVars
  <2>3. pc[c] # "returned"
    BY <1>0, <1>4 DEF TaskPut, Output, OutputState
  <2> QED BY <1>0, <1>2, <1>4, <2>1, <2>2, <2>3, GotStays DEF OutputStates
<1>5. CASE OpenAnswer(c)
  <2>1. /\ pc[c] = "await" /\ UNCHANGED <<hand, queue, result>>
        /\ pc'[c] \in {"connected", "refused"}
        /\ \A d \in Shells \ {c} : pc'[d] = pc[d] /\ remote_id'[d] = remote_id[d] /\ task'[d] = task[d]
        /\ \/ task'[c] = "receive"
           \/ task'[c] = task[c] /\ remote_id'[c] = remote_id[c]
    BY <1>1, <1>5 DEF OpenAnswer
  <2>2. remote_id[c] = 0 /\ task[c] = "none" /\ queue[c] = <<>> /\ result[c] = <<>>
    BY <1>0, <2>1 DEF CallState
  <2>3. Got(c) = <<>> /\ Got(c)' = <<>>
    BY <2>1, <2>2 DEF Got
  <2>4. \A x : Chunks(x, 0) = <<>>
    BY DEF Chunks
  <2>5. OutputState(c)'
    <3>1. Got(c)' = Chunks(remote_id'[c], Len(Got(c)'))
      BY <2>3, <2>4
    <3>2. task'[c] # "ended" /\ pc'[c] # "returned"
      BY <2>1, <2>2
    <3> QED BY <3>1, <3>2 DEF OutputState, Chunks
  <2>6. ASSUME NEW d \in Shells \ {c} PROVE OutputState(d)'
    <3>1. Got(d)' = Got(d)
      BY <2>1 DEF Got
    <3> QED BY <1>2, <2>1, <3>1
  <2> QED BY <2>5, <2>6 DEF OutputStates
<1>6. CASE ReturnOutput(c)
  <2>1. /\ UNCHANGED <<remote_id, task, hand, queue, result>> /\ task[c] = "ended" /\ queue[c] = <<>>
        /\ pc' = [pc EXCEPT ![c] = "returned"]
    BY <1>6 DEF ReturnOutput, taskVars
  <2>2. ASSUME NEW d \in Shells PROVE OutputState(d)'
    <3>1. Got(d)' = Got(d)
      BY <2>1 DEF Got
    <3>2. pc'[d] = "returned" => task[d] = "ended" /\ queue[d] = <<>>
      BY <1>0, <1>1, <2>1 DEF OutputState
    <3> QED BY <1>0, <2>1, <3>1, <3>2 DEF OutputState, Chunks
  <2> QED BY <2>2 DEF OutputStates
<1>7. CASE CallShell(c) \/ StoreId(c) \/ ReturnId(c) \/ SendOpen(c) \/ SendOpenPayload(c) \/ Close(c)
  <2>1. /\ UNCHANGED <<remote_id, task, hand, queue, result>>
        /\ \E s \in {"store", "return", "open", "open_data", "await", "closed"} :
             pc' = [pc EXCEPT ![c] = s]
    BY <1>7 DEF CallShell, StoreId, ReturnId, SendOpen, SendOpenPayload, Close, taskVars
  <2>2. ASSUME NEW d \in Shells PROVE OutputState(d)'
    <3>1. Got(d)' = Got(d)
      BY <2>1 DEF Got
    <3>2. pc'[d] = "returned" => pc[d] = "returned"
      BY <1>1, <2>1
    <3> QED BY <1>2, <2>1, <3>1, <3>2
  <2> QED BY <2>2 DEF OutputStates
<1> QED BY <1>3, <1>4, <1>5, <1>6, <1>7 DEF Call, Task

LEMMA OrderShell ==
  ASSUME OneCaller, SessionBase, SessionOrder, NEW c \in Shells, ShellStep(c)
  PROVE  SessionOrder'
<1>0. /\ Call(c) \/ Task(c) \/ Output(c) \/ Close(c)
      /\ UNCHANGED pushVars
      /\ ShellTypeOK /\ ShellStaleInv /\ WireInv /\ OrderInv /\ LocalIdsDistinct /\ OutputStates
  BY DEF ShellStep, Use, SessionBase, SessionOrder, OrderInv, SessionIds, IdsGrow
<1>1. ReturnId(c) => base_id \notin opened
  BY <1>0, ShellIds
<1> QED BY <1>0, <1>1, ShellCallStates, ShellOrder, OutputCalls DEF SessionOrder

LEMMA SessionOrderInit ==
  ASSUME SessionInit
  PROVE  SessionOrder
<1>1. CallStates /\ CallsInOrder
  BY OrderInit DEF SessionInit, OrderInv
<1>2. \A c \in Shells : remote_id[c] = 0 /\ task[c] = "none" /\ pc[c] = "idle"
  BY DEF SessionInit, Init
<1> QED BY <1>1, <1>2 DEF SessionOrder, OutputStates, OutputState

LEMMA SessionOrderStep ==
  ASSUME OneCaller, SessionBase, PushTurns, SessionOrder, [SessionNext]_sessionVars
  PROVE  SessionOrder'
<1>1. CASE AuthNext /\ UNCHANGED <<shellVars, pushVars>>
  BY <1>1, OrderServes
<1>2. ASSUME NEW r \in StreamIds, NEW d \in Replies, IsSync(r), SyncReply(r, d),
             UNCHANGED <<authVars, shellVars, pushVars>>
      PROVE  SessionOrder'
  <2>1. PICK m \in Message : SyncWrites(r, m)
    BY <1>2, SyncSays DEF SessionBase, ShellTypeOK, TypeOK, ShellStaleInv
  <2> QED BY <1>2, <2>1, OrderSync
<1>3. ASSUME NEW p \in Pushes, PushStep(p) PROVE SessionOrder'
  BY <1>3, OrderPush
<1>4. ASSUME NEW c \in Shells, ShellStep(c) PROVE SessionOrder'
  BY <1>4, OrderShell
<1>5. CASE UNCHANGED sessionVars
  <2>1. UNCHANGED <<AuthVars, shellVars>> /\ OrderInv /\ ShellTypeOK
    BY <1>5 DEF sessionVars, SessionBase, SessionOrder, OrderInv
  <2>2. OrderInv'
    BY <2>1, OrderUnchanged
  <2>3. OutputStates'
    BY <2>1 DEF SessionOrder, OutputStates, OutputState, Got, Chunks, AuthVars, shellVars,
       callVars, taskVars, daemonVars
  <2> QED BY <2>2, <2>3 DEF SessionOrder, OrderInv
<1> QED BY <1>1, <1>2, <1>3, <1>4, <1>5, SessionSteps

(* What a blocking shell() returns is what its service has written, from   *)
(* first to last and nothing else, while files are pushed over the same    *)
(* multiplexer: it waits for the task of its connection, which ends only   *)
(* when it has put all chunks and CLSE has come, and no push has its id    *)
(* (libadb/adb.py shell, libadb/connection.py wait and output).            *)
THEOREM SessionShellOutputWhole == OneCaller => (SessionSpec => []ShellOutputWhole)
<1> DEFINE Inv == SessionBase /\ PushTurns /\ SessionOrder
<1>1. SessionInit => Inv
  BY SessionInitBase, TurnsInit, SessionOrderInit
<1>2. OneCaller /\ Inv /\ [SessionNext]_sessionVars => Inv'
  BY SessionBaseStep, TurnsStep, SessionOrderStep
<1>3. Inv => ShellOutputWhole
  <2> SUFFICES ASSUME Inv, NEW c \in Shells, pc[c] = "returned"
               PROVE  result[c] = Chunks(remote_id[c], stream[remote_id[c]].sent)
    BY DEF ShellOutputWhole
  <2>1. OutputState(c) /\ CallState(c) /\ result[c] \in Seq(Data)
    BY DEF SessionOrder, OutputStates, CallStates, SessionBase, ShellTypeOK, TypeOK
  <2>2. remote_id[c] # 0 /\ task[c] = "ended" /\ queue[c] = <<>>
    BY <2>1 DEF CallState, OutputState
  <2>3. Got(c) = result[c]
    BY <2>1, <2>2 DEF Got
  <2> QED BY <2>1, <2>2, <2>3 DEF OutputState
<1>4. CASE OneCaller
  <2>1. Inv /\ [SessionNext]_sessionVars => Inv'
    BY <1>2, <1>4
  <2> HIDE DEF Inv
  <2>2. SessionSpec => []ShellOutputWhole
    BY <1>1, <1>3, <2>1, PTL DEF SessionSpec
  <2> QED BY <2>2
<1> QED BY <1>4
=============================================================================
