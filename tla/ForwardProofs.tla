---------------------------- MODULE ForwardProofs ----------------------------
(***************************************************************************)
(* Theorems of ForwardServer, for any number of forwarded ports, clients   *)
(* and ids, any queue capacity and any traffic left by an earlier process. *)
(***************************************************************************)
EXTENDS ForwardServer, AdbProtocolProofs

(* TypeOK is not inductive: that _remote_id is an id of adbd follows from  *)
(* what is in the queues, and that an id with a queue is used from where   *)
(* the worker stands.                                                      *)
WorkerState(w) ==
  /\ fpc[w] = "idle" => wid[w] = 0
  /\ fpc[w] # "idle" => wid[w] \in LocalIds /\ auth_pc = "done"
  /\ fpc[w] \in {"idle", "open", "open_data", "await"} => rid[w] = 0
  /\ fpc[w] \in {"write", "write_data", "out"} => rid[w] # 0
  /\ rid[w] = 0 => out[w] = <<>>
  /\ rid[w] # 0 =>
       /\ rid[w] \in RemoteIds
       /\ stream[rid[w]].st # "none"
       /\ stream[rid[w]].peer = wid[w]
WorkerStates == \A w \in Workers : WorkerState(w)

WorkerTypeOK ==
  /\ base \in [Servers -> LocalIds \cup {11}]
  /\ fpc \in [Workers -> FPc]
  /\ wid \in [Workers -> LocalIds \cup {0}]
  /\ rid \in [Workers -> StreamIds \cup {0}]
  /\ sent \in [Workers -> 0..ClientChunks]
  /\ eof \in [Workers -> BOOLEAN]
  /\ chunk \in [Workers -> Data]
  /\ out \in [Workers -> Seq(Data)]

ForwardInv == AuthTypeOK /\ StaleInv /\ WireInv /\ WorkerTypeOK /\ WorkerStates

LEMMA ForwardInit ==
  ASSUME Init
  PROVE  ForwardInv
<1>1. AuthTypeOK /\ StaleInv /\ WireInv
  BY AuthInitType, StaleInit, WireInit DEF Init
<1>2. WorkerTypeOK
  <2>1. 0 \in 0..ClientChunks /\ <<>> \in Seq(Data)
    BY ForwardAssumption
  <2> QED BY <2>1, NoDataType DEF Init, WorkerTypeOK, FPc
<1>3. WorkerStates
  BY DEF Init, WorkerStates, WorkerState
<1> QED BY <1>1, <1>2, <1>3 DEF ForwardInv

LEMMA ForwardAuthStep ==
  ASSUME ForwardInv, AuthNext, UNCHANGED forwardVars
  PROVE  ForwardInv'
<1>1. AuthTypeOK' /\ StaleInv' /\ WireInv'
  BY AuthNextType, StaleStep, WireStep DEF ForwardInv
<1>2. UNCHANGED <<base, fpc, wid, rid, chunk, sent, eof, out>>
  BY DEF forwardVars, workerVars, clientVars
<1>3. WorkerTypeOK'
  BY <1>2 DEF ForwardInv, WorkerTypeOK
<1>4. WorkerStates'
  <2> SUFFICES ASSUME NEW w \in Workers PROVE WorkerState(w)'
    BY DEF WorkerStates
  <2>1. WorkerState(w) /\ AuthTypeOK
    BY DEF ForwardInv, WorkerStates
  <2>2. rid[w] # 0 => stream'[rid[w]].st # "none" /\ stream'[rid[w]].peer = stream[rid[w]].peer
    BY <2>1, StreamStays DEF WorkerState
  <2>3. auth_pc = "done" => auth_pc' = "done"
    BY AuthKeepsDone
  <2> QED BY <1>2, <2>1, <2>2, <2>3 DEF WorkerState
<1> QED BY <1>1, <1>3, <1>4 DEF ForwardInv

LEMMA ForwardUnchanged ==
  ASSUME ForwardInv, UNCHANGED vars
  PROVE  ForwardInv'
<1>1. UNCHANGED AuthVars /\ UNCHANGED <<base, fpc, wid, rid, chunk, sent, eof, out, stream, auth_pc>>
  BY DEF vars, forwardVars, workerVars, clientVars, AuthVars, daemonVars, authVars
<1>2. AuthTypeOK'
  BY <1>1 DEF ForwardInv, AuthTypeOK, ProtocolTypeOK, DaemonTypeOK, AuthVars, protocolVars,
              daemonVars, authVars
<1>3. StaleInv' /\ WireInv'
  BY <1>1, StaleUnchanged, WireUnchanged DEF ForwardInv
<1>4. WorkerTypeOK' /\ WorkerStates'
  BY <1>1 DEF ForwardInv, WorkerTypeOK, WorkerStates, WorkerState
<1> QED BY <1>2, <1>3, <1>4 DEF ForwardInv

-----------------------------------------------------------------------------
(* What a worker does to the multiplexer: nothing, one put, or one take of *)
(* its own queue.                                                          *)
WorkerPuts(w) ==
  \E m \in Message :
    /\ Puts(m)
    /\ m.cmd \in {"OPEN", "WRTE", "DATA"}
    /\ m.cmd \in {"OPEN", "WRTE"} => m.arg0 = wid[w]
    /\ opened' = IF m.cmd \in {"OPEN", "WRTE"} THEN opened \cup {wid[w]} ELSE opened
    /\ UNCHANGED <<receive_queue, rx_pc, rx_msg, usb_out, usb_in, dev_up>>

LEMMA WorkerMessages ==
  ASSUME ForwardInv, NEW w \in Workers, wid[w] \in LocalIds
  PROVE  /\ OpenMsg(w) \in Message /\ WriteMsg(w) \in Message
         /\ OpenMsg(w).cmd = "OPEN" /\ OpenMsg(w).arg0 = wid[w]
         /\ OpenMsg(w).data = <<Server[w], 0>>
         /\ WriteMsg(w).cmd = "WRTE" /\ WriteMsg(w).arg0 = wid[w]
         /\ WriteMsg(w).arg1 = rid[w] /\ WriteMsg(w).data = chunk[w]
         /\ \A m \in Message : Payload(m) \in Message /\ Payload(m).cmd = "DATA"
                               /\ Payload(m).data = m.data
<1>1. wid[w] \in Nat /\ rid[w] \in Nat /\ chunk[w] \in Data /\ <<Server[w], 0>> \in Data
  <2>1. Server[w] \in Nat
    BY ForwardAssumption
  <2>2. rid[w] \in StreamIds \cup {0} /\ chunk[w] \in Data
    BY DEF ForwardInv, WorkerTypeOK
  <2>3. wid[w] \in Nat /\ rid[w] \in Nat
    <3>1. LocalIds \subseteq Nat /\ StreamIds \cup {0} \subseteq Nat
      BY ProtocolAssumption, StreamIdType
    <3> QED BY <2>2, <3>1
  <2>4. <<Server[w], 0>> \in Data
    BY <2>1 DEF Data
  <2> QED BY <2>2, <2>3, <2>4
<1>2. OpenMsg(w) \in Message /\ WriteMsg(w) \in Message
  BY <1>1, MsgType DEF OpenMsg, WriteMsg, Commands
<1>3. ASSUME NEW m \in Message PROVE Payload(m) \in Message /\ Payload(m).cmd = "DATA"
                                      /\ Payload(m).data = m.data
  BY PayloadType DEF Payload, Message
<1> QED BY <1>2, <1>3 DEF OpenMsg, WriteMsg, Msg

LEMMA WorkerDoes ==
  ASSUME ForwardInv, NEW w \in Workers, Accept(w) \/ Worker(w)
  PROVE  /\ UNCHANGED <<stream, dev_auth, dev_token, auth_pc, auth_token>>
         /\ auth_pc = "done"
         /\ \/ UNCHANGED AuthVars
            \/ wid[w] \in LocalIds /\ WorkerPuts(w)
            \/ wid[w] \in LocalIds /\ Take(wid[w]) /\ (OpenAnswer(w) \/ Receive(w))
<1>1. WorkerState(w)
  BY DEF ForwardInv, WorkerStates
<1>2. CASE Accept(w) \/ SelectTimeout(w) \/ RecvData(w) \/ RecvEof(w) \/ RecvError(w) \/ ReceiveNoQueue(w)
           \/ SendOut(w) \/ DropOut(w) \/ SendError(w)
  <2>1. UNCHANGED AuthVars /\ (auth_pc = "done" \/ fpc[w] # "idle")
    BY <1>2 DEF Accept, SelectTimeout, RecvData, RecvEof, RecvError, ReceiveNoQueue, SendOut, DropOut, SendError, Step, At
  <2> QED BY <1>1, <2>1 DEF AuthVars, daemonVars, authVars, WorkerState
<1>3. CASE OpenAnswer(w) \/ Receive(w)
  BY <1>1, <1>3 DEF OpenAnswer, Receive, Step, At, WorkerState, daemonVars, authVars
<1>4. CASE SendOpen(w) \/ SendOpenPayload(w) \/ SendWrite(w) \/ SendWritePayload(w)
  <2>1. fpc[w] # "idle" /\ UNCHANGED <<stream, dev_auth, dev_token, auth_pc, auth_token>>
    BY <1>4 DEF SendOpen, SendOpenPayload, SendWrite, SendWritePayload, Step, At, daemonVars, authVars
  <2>2. wid[w] \in LocalIds /\ auth_pc = "done"
    BY <1>1, <2>1 DEF WorkerState
  <2>3. ASSUME NEW m \in Message, m.cmd \in {"OPEN", "WRTE"}, m.arg0 = wid[w], PutHeader(m)
        PROVE  WorkerPuts(w)
    BY <2>3 DEF PutHeader, WorkerPuts, Puts
  <2>4. ASSUME NEW m \in Message, PutPayload(m)
        PROVE  WorkerPuts(w)
    <3>1. PICK n \in Message : n = Payload(m) /\ n.cmd = "DATA"
      BY <2>2, WorkerMessages
    <3> QED BY <2>4, <3>1 DEF PutPayload, WorkerPuts, Puts
  <2>5. WorkerPuts(w)
    BY <1>4, <2>2, <2>3, <2>4, WorkerMessages
       DEF SendOpen, SendOpenPayload, SendWrite, SendWritePayload
  <2> QED BY <2>1, <2>2, <2>5
<1> QED BY <1>2, <1>3, <1>4 DEF Worker

LEMMA WorkerPutsKeeps ==
  ASSUME ForwardInv, NEW w \in Workers, wid[w] \in LocalIds, WorkerPuts(w), auth_pc = "done",
         UNCHANGED <<stream, dev_auth, dev_token, auth_pc, auth_token>>
  PROVE  AuthTypeOK' /\ StaleInv' /\ WireInv'
<1>1. PICK m \in Message :
        /\ Puts(m) /\ m.cmd \in {"OPEN", "WRTE", "DATA"}
        /\ m.cmd \in {"OPEN", "WRTE"} => m.arg0 = wid[w]
        /\ opened' = IF m.cmd \in {"OPEN", "WRTE"} THEN opened \cup {wid[w]} ELSE opened
        /\ UNCHANGED <<receive_queue, rx_pc, rx_msg, usb_out, usb_in, dev_up>>
  BY DEF WorkerPuts
<1>2. AuthTypeOK'
  BY <1>1 DEF Puts, ForwardInv, AuthTypeOK, ProtocolTypeOK, DaemonTypeOK
<1>3. StaleInv'
  BY <1>1, StalePut DEF Puts, ForwardInv, AnswerTaken
<1>4. WireInv'
  BY <1>1, WirePut DEF Puts, ForwardInv
<1> QED BY <1>2, <1>3, <1>4

LEMMA WorkerTakesKeeps ==
  ASSUME ForwardInv, NEW w \in Workers, wid[w] \in LocalIds, Take(wid[w]), auth_pc = "done",
         UNCHANGED <<stream, dev_auth, dev_token, auth_pc, auth_token>>
  PROVE  AuthTypeOK' /\ StaleInv' /\ WireInv'
<1>1. wid[w] \in Keys /\ wid[w] # Default
  BY ProtocolAssumption DEF Keys, Default
<1>2. AuthTypeOK'
  BY <1>1, TakeType DEF ForwardInv, AuthTypeOK, DaemonTypeOK
<1>3. StaleInv'
  BY <1>1, StaleTake DEF ForwardInv, AnswerTaken
<1>4. WireInv'
  BY <1>1, WireTake DEF ForwardInv
<1> QED BY <1>2, <1>3, <1>4

(* The answer to an OPEN, or any response, is from a stream of this        *)
(* process that was opened under this id.                                  *)
LEMMA ResponseIsOurs ==
  ASSUME ForwardInv, NEW w \in Workers, NEW k \in LocalIds, k = wid[w], Take(k)
  PROVE  /\ Response(k) \in Message /\ FrameOk(Response(k)) /\ Response(k).arg1 = k
         /\ Response(k).arg0 \in RemoteIds \cup {0}
         /\ Response(k).cmd = "OKAY" => Response(k).arg0 # 0
         /\ Response(k).arg0 # 0 =>
              /\ Response(k).arg0 \in RemoteIds
              /\ stream[Response(k).arg0].st # "none"
              /\ stream[Response(k).arg0].peer = k
<1>1. /\ Response(k) \in Message /\ FrameOk(Response(k))
      /\ Response(k).arg1 = k /\ ~IsHandshake(Response(k))
  BY TakenFacts DEF ForwardInv
<1>2. PICK m \in Message : m = Response(k)
  BY <1>1
<1>3. m.arg0 \notin StaleIds
  <2>1. receive_queue[k] \in Seq(Message) /\ receive_queue[k] # <<>>
    BY DEF Take, ForwardInv, AuthTypeOK, ProtocolTypeOK, Keys
  <2>2. Len(receive_queue[k]) \in Nat \ {0} /\ m = receive_queue[k][1]
    BY <1>2, <2>1, EmptySeq, HeadTailProperties DEF Response
  <2>3. 1 \in 1..Len(receive_queue[k])
    BY <2>2
  <2> QED BY <2>2, <2>3 DEF ForwardInv, StaleInv, QueuesClean
<1>4. m.arg0 \in RemoteIds \cup {0} /\ (m.cmd = "OKAY" => m.arg0 # 0)
  BY <1>1, <1>2, <1>3, ProtocolAssumption DEF FrameOk, Shaped, StreamIds
<1>5. m.arg0 \in RemoteIds => OfStream(m, m.arg0, Said)
  BY <1>1, <1>2 DEF FrameOk, Shaped, OfStream, IsHandshake, HandshakeCmds
<1>6. m.arg0 # 0 => m.arg0 \in RemoteIds /\ stream[m.arg0].st # "none" /\ stream[m.arg0].peer = k
  BY <1>1, <1>2, <1>4, <1>5 DEF FrameOk
<1> QED BY <1>1, <1>2, <1>4, <1>6

LEMMA WorkerStep ==
  ASSUME ForwardInv, NEW w \in Workers, Accept(w) \/ Worker(w)
  PROVE  ForwardInv'
<1>1. AuthTypeOK' /\ StaleInv' /\ WireInv'
  <2>1. CASE UNCHANGED AuthVars
    <3>1. AuthTypeOK'
      BY <2>1 DEF ForwardInv, AuthTypeOK, ProtocolTypeOK, DaemonTypeOK, AuthVars, protocolVars,
                  daemonVars, authVars
    <3> QED BY <2>1, <3>1, StaleUnchanged, WireUnchanged DEF ForwardInv
  <2> QED BY <2>1, WorkerDoes, WorkerPutsKeeps, WorkerTakesKeeps
<1>2. stream' = stream /\ auth_pc' = auth_pc /\ auth_pc = "done"
  BY WorkerDoes
<1>3. /\ WorkerTypeOK /\ WorkerStates /\ WorkerState(w)
      /\ w \in Nat /\ Server[w] \in Servers /\ ClientChunks \in Nat /\ NoData \in Data
  BY ForwardAssumption, NoDataType DEF ForwardInv, WorkerStates
<1>4. ASSUME wid' = wid, rid' = rid, out' = out, NEW to \in FPc \ {"idle"},
             fpc[w] # "idle", fpc' = [fpc EXCEPT ![w] = to],
             to \in {"open", "open_data", "await"} => rid[w] = 0,
             to \in {"write", "write_data", "out"} => rid[w] # 0
      PROVE  WorkerStates'
  BY <1>2, <1>3, <1>4 DEF WorkerTypeOK, WorkerStates, WorkerState
<1>5. CASE Accept(w)
  <2>1. WorkerTypeOK'
    BY <1>3, <1>5 DEF Accept, Step, At, WorkerTypeOK, FPc, clientVars
  <2>2. WorkerStates'
    BY <1>2, <1>3, <1>5 DEF Accept, Step, At, WorkerTypeOK, WorkerStates, WorkerState
  <2> QED BY <1>1, <2>1, <2>2 DEF ForwardInv
<1>6. CASE SelectTimeout(w) \/ RecvEof(w) \/ RecvError(w) \/ ReceiveNoQueue(w)
  <2>1. WorkerTypeOK'
    BY <1>3, <1>6 DEF SelectTimeout, RecvEof, RecvError, ReceiveNoQueue, Step, At, WorkerTypeOK, FPc, clientVars
  <2>2. WorkerStates'
    BY <1>2, <1>3, <1>4, <1>6 DEF SelectTimeout, RecvEof, RecvError, ReceiveNoQueue, Step, At, FPc
  <2> QED BY <1>1, <2>1, <2>2 DEF ForwardInv
<1>7. CASE RecvData(w)
  <2>1. sent[w] + 1 \in 0..ClientChunks /\ <<w, sent[w] + 1>> \in Data
    BY <1>3, <1>7 DEF RecvData, WorkerTypeOK, Data
  <2>2. WorkerTypeOK'
    BY <1>3, <1>7, <2>1 DEF RecvData, Step, At, WorkerTypeOK, FPc
  <2>3. WorkerStates'
    BY <1>2, <1>3, <1>4, <1>7 DEF RecvData, Step, At, FPc
  <2> QED BY <1>1, <2>2, <2>3 DEF ForwardInv
<1>8. CASE SendOpen(w) \/ SendOpenPayload(w) \/ SendWrite(w) \/ SendWritePayload(w)
  <2>1. WorkerTypeOK'
    BY <1>3, <1>8, SMTT(30) DEF SendOpen, SendOpenPayload, SendWrite, SendWritePayload, Step, At,
       WorkerTypeOK, FPc, clientVars
  <2>2. WorkerStates'
    BY <1>2, <1>3, <1>4, <1>8 DEF SendOpen, SendOpenPayload, SendWrite, SendWritePayload, Step, At,
       FPc, WorkerState
  <2> QED BY <1>1, <2>1, <2>2 DEF ForwardInv
<1>9. CASE OpenAnswer(w)
  <2>1. fpc[w] = "await" /\ Take(wid[w]) /\ wid[w] \in LocalIds
    BY <1>3, <1>9 DEF OpenAnswer, Step, At, WorkerState
  <2>2. PICK k \in LocalIds, m \in Message : k = wid[w] /\ m = Response(k)
    BY <2>1, ResponseIsOurs
  <2>3. /\ m.arg0 \in RemoteIds \cup {0} /\ (m.cmd = "OKAY" => m.arg0 # 0)
        /\ m.arg0 # 0 => /\ m.arg0 \in RemoteIds /\ stream[m.arg0].st # "none"
                         /\ stream[m.arg0].peer = k
    BY <2>1, <2>2, ResponseIsOurs
  <2>4. /\ rid' = [rid EXCEPT ![w] = m.arg0] /\ UNCHANGED <<base, wid, chunk, sent, eof, out>>
        /\ fpc' = [fpc EXCEPT ![w] = IF m.cmd = "OKAY" THEN "write" ELSE "dead"]
    BY <1>9, <2>2 DEF OpenAnswer, Step, clientVars
  <2>5. WorkerTypeOK'
    BY <1>3, <2>3, <2>4 DEF WorkerTypeOK, FPc, StreamIds
  <2>6. ASSUME NEW v \in Workers \ {w} PROVE WorkerState(v)'
    BY <1>2, <1>3, <2>4 DEF WorkerStates, WorkerState, WorkerTypeOK
  <2>7. WorkerState(w)'
    <3>1. rid'[w] = m.arg0 /\ fpc'[w] = IF m.cmd = "OKAY" THEN "write" ELSE "dead"
      BY <1>3, <2>4 DEF WorkerTypeOK
    <3>2. rid[w] = 0 /\ out[w] = <<>>
      BY <1>3, <2>1 DEF WorkerState
    <3> QED BY <1>2, <2>1, <2>2, <2>3, <2>4, <3>1, <3>2 DEF WorkerState
  <2> QED BY <1>1, <2>5, <2>6, <2>7 DEF ForwardInv, WorkerStates
<1>10. CASE Receive(w)
  <2>1. fpc[w] = "receive" /\ Take(wid[w]) /\ wid[w] \in LocalIds
    BY <1>3, <1>10 DEF Receive, Step, At, WorkerState
  <2>2. PICK k \in LocalIds, m \in Message : k = wid[w] /\ m = Response(k)
    BY <2>1, ResponseIsOurs
  <2>3. /\ UNCHANGED <<base, wid, rid, sent, eof, out>> /\ m.data \in Data
        /\ \/ UNCHANGED <<fpc, chunk>>
           \/ /\ rid[w] # 0 /\ fpc' = [fpc EXCEPT ![w] = "out"]
              /\ chunk' = [chunk EXCEPT ![w] = m.data]
           \/ fpc' = [fpc EXCEPT ![w] = "select"] /\ chunk' = chunk
    BY <1>10, <2>2 DEF Receive, Step, clientVars, Message
  <2>4. WorkerTypeOK'
    BY <1>3, <2>3 DEF WorkerTypeOK, FPc
  <2>5. WorkerStates'
    <3>1. CASE UNCHANGED <<fpc, chunk>>
      BY <1>2, <1>3, <2>3, <3>1 DEF WorkerStates, WorkerState
    <3> QED BY <1>4, <2>1, <2>3, <3>1 DEF FPc
  <2> QED BY <1>1, <2>4, <2>5 DEF ForwardInv
<1>11. CASE SendOut(w) \/ DropOut(w) \/ SendError(w)
  <2>1. rid[w] # 0 /\ fpc[w] = "out"
    BY <1>3, <1>11 DEF SendOut, DropOut, SendError, Step, At, WorkerState
  <2>2. WorkerTypeOK'
    <3>1. out[w] \in Seq(Data) /\ chunk[w] \in Data
      BY <1>3 DEF WorkerTypeOK
    <3>2. Append(out[w], chunk[w]) \in Seq(Data)
      BY <3>1
    <3>3. /\ UNCHANGED <<base, wid, rid, sent, eof>> /\ chunk' = [chunk EXCEPT ![w] = NoData]
          /\ fpc' = [fpc EXCEPT ![w] = "select"] \/ fpc' = [fpc EXCEPT ![w] = "dead"]
          /\ out' = out \/ out' = [out EXCEPT ![w] = Append(out[w], chunk[w])]
      BY <1>11 DEF SendOut, DropOut, SendError, Step, clientVars
    <3> QED BY <1>3, <3>2, <3>3 DEF WorkerTypeOK, FPc
  <2>3. WorkerStates'
    BY <1>2, <1>3, <1>11, <2>1 DEF SendOut, DropOut, SendError, Step, At, WorkerTypeOK, WorkerStates, WorkerState
  <2> QED BY <1>1, <2>2, <2>3 DEF ForwardInv
<1> QED BY <1>5, <1>6, <1>7, <1>8, <1>9, <1>10, <1>11 DEF Worker

LEMMA ForwardStep == ForwardInv /\ [Next]_vars => ForwardInv'
BY ForwardAuthStep, ForwardUnchanged, WorkerStep DEF Next

(* Type correctness of the forward servers and their workers: what a       *)
(* worker takes for its remote id is an id of adbd, or 0 for a refusal     *)
(* (libadb/forward_server.py, Worker.run and create_connection).           *)
THEOREM ForwardTypeCorrect == Spec => []TypeOK
<1>1. Spec => []ForwardInv
  BY ForwardInit, ForwardStep, PTL DEF Spec
<1>2. ForwardInv => TypeOK
  BY DEF ForwardInv, WorkerTypeOK, TypeOK
<1> QED BY <1>1, <1>2, PTL

(* No worker meets a frame of an earlier host process either, although     *)
(* every server gives out the same ids from 13 on                          *)
(* (libadb/forward_server.py, ProxyServer.new_id).                         *)
THEOREM ForwardNeverStale == Spec => []NoStaleAfterConnect
<1>1. Spec => []ForwardInv
  BY ForwardInit, ForwardStep, PTL DEF Spec
<1>2. ForwardInv => NoStaleAfterConnect
  <2> SUFFICES ASSUME ForwardInv, auth_pc = "done" PROVE NoStaleAfterConnect
    BY DEF NoStaleAfterConnect
  <2>1. Answered /\ AnswerHeld /\ StaleInv
    BY DEF ForwardInv, Answered, AnswerHeld, AnswerTaken
  <2> QED BY <2>1 DEF StaleInv, PipeClean, HandClean, QueuesClean, Holding, NoStaleAfterConnect,
             FromStale
<1> QED BY <1>1, <1>2, PTL

-----------------------------------------------------------------------------
(* What a client has been given.  The invariant numbers the chunks of a    *)
(* stream: those from the lo-th on are still on their way, in order, and   *)
(* what a worker of this stream has given its client comes before them.    *)
Chunks == {"WRTE", "CLSE"}
GivenBefore(w, lo) ==
  /\ \A i \in 1..Len(out[w]) : out[w][i][2] < lo
  /\ fpc[w] = "out" => chunk[w][2] < lo
StreamInOrder(r) ==
  \E lo \in Nat : /\ InOrder(r, Chunks, lo)
                  /\ \A w \in Workers : rid[w] = r => GivenBefore(w, lo)
HeldIsNext ==
  \A w \in Workers : fpc[w] = "out" =>
    /\ chunk[w][1] = rid[w]
    /\ \A i \in 1..Len(out[w]) : out[w][i][2] < chunk[w][2]
AllNumbered == \A r \in RemoteIds : Numbered(r)
OutputInv ==
  /\ AllNumbered
  /\ \A r \in RemoteIds : stream[r].st # "none" => StreamInOrder(r)
  /\ HeldIsNext
  /\ OutputInOrder

LEMMA OutputInit ==
  ASSUME Init
  PROVE  OutputInv
<1>1. \A r \in RemoteIds : stream[r].st = "none"
  <2>1. \A r \in RemoteIds : r \in StreamIds /\ r \notin StaleIds
    BY ProtocolAssumption DEF StreamIds
  <2> QED BY <2>1 DEF Init, AuthInit, DaemonInit, NoStream
<1>2. HeldIsNext /\ OutputInOrder
  BY DEF Init, HeldIsNext, OutputInOrder
<1>3. AllNumbered
  BY NumberedInit DEF Init, AllNumbered
<1> QED BY <1>1, <1>2, <1>3 DEF OutputInv

(* The multiplexer and adbd run on while the workers stand.                *)
LEMMA OutputAuthStep ==
  ASSUME ForwardInv, OutputInv, AuthNext, UNCHANGED forwardVars
  PROVE  OutputInv'
<1>1. UNCHANGED <<fpc, rid, chunk, out>> /\ AuthTypeOK /\ WireInv /\ WorkerStates
  BY DEF forwardVars, workerVars, clientVars, ForwardInv
<1>2. HeldIsNext' /\ OutputInOrder'
  BY <1>1 DEF OutputInv, HeldIsNext, OutputInOrder
<1>3. ASSUME NEW r \in RemoteIds, stream'[r].st # "none" PROVE StreamInOrder(r)'
  <2>1. \E lo \in Nat : /\ IF stream[r].st = "none" THEN lo = First(Chunks) ELSE InOrder(r, Chunks, lo)
                        /\ \A w \in Workers : rid[w] = r => GivenBefore(w, lo)
    <3>1. CASE stream[r].st = "none"
      <4>1. First(Chunks) = 1 /\ 1 \in Nat
        BY DEF First, Chunks
      <4>2. \A w \in Workers : rid[w] # r
        <5>1. \A w \in Workers : rid[w] # 0 => stream[rid[w]].st # "none"
          BY <1>1 DEF WorkerStates, WorkerState
        <5> QED BY <3>1, <5>1, ProtocolAssumption
      <4> QED BY <3>1, <4>1, <4>2
    <3>2. CASE stream[r].st # "none"
      BY <3>2 DEF OutputInv, StreamInOrder
    <3> QED BY <3>1, <3>2
  <2>2. PICK lo \in Nat : /\ IF stream[r].st = "none" THEN lo = First(Chunks)
                             ELSE InOrder(r, Chunks, lo)
                          /\ \A w \in Workers : rid[w] = r => GivenBefore(w, lo)
    BY <2>1
  <2>3. InOrder(r, Chunks, lo)'
    <3>1. {"WRTE", "CLSE"} \subseteq Chunks /\ Chunks \subseteq Said /\ "OKAY" \notin Chunks
      BY DEF Chunks, Said
    <3> QED BY <1>1, <1>3, <2>2, <3>1, OrderStep
  <2>4. \A w \in Workers : rid'[w] = r => GivenBefore(w, lo)'
    BY <1>1, <2>2 DEF GivenBefore
  <2> QED BY <2>3, <2>4 DEF StreamInOrder
<1>4. AllNumbered'
  BY <1>1, NumberedStep DEF OutputInv, AllNumbered
<1> QED BY <1>2, <1>3, <1>4 DEF OutputInv

(* What a worker takes of a stream is the next of it.                      *)
LEMMA TakenIsNext ==
  ASSUME ForwardInv, NEW w \in Workers, OpenAnswer(w) \/ Receive(w), wid[w] \in LocalIds,
         Take(wid[w]), stream' = stream,
         NEW r \in RemoteIds, stream[r].st # "none", NEW lo \in Nat, InOrder(r, Chunks, lo)
  PROVE  IF OfStream(Response(wid[w]), r, Chunks)
           THEN Number(Response(wid[w]), End(r)) = lo + 1 /\ InOrder(r, Chunks, lo + 1)'
           ELSE InOrder(r, Chunks, lo)'
<1>1. PICK k \in LocalIds : k = wid[w]
  OBVIOUS
<1>2. AuthTypeOK /\ WireInv
  BY DEF ForwardInv
<1>3. CASE stream[r].peer = k
  BY <1>1, <1>2, <1>3, OrderTake
<1>4. CASE stream[r].peer # k
  <2>1. UNCHANGED <<rx_pc, rx_msg, usb_in>>
    BY DEF Take
  <2>2. receive_queue'[stream[r].peer] = receive_queue[stream[r].peer]
    <3>1. stream[r].peer \in opened /\ opened \subseteq LocalIds
      BY <1>2 DEF WireInv, PeersOpened, AuthTypeOK, ProtocolTypeOK
    <3>2. stream[r].peer \in Keys
      BY <3>1 DEF Keys
    <3> QED BY <1>1, <1>2, <1>4, <3>2, TakenFacts
  <2>3. ~OfStream(Response(wid[w]), r, Chunks)
    <3>1. FrameOk(Response(k)) /\ Response(k).arg1 = k
      BY <1>1, <1>2, TakenFacts
    <3> QED BY <1>1, <1>4, <3>1 DEF FrameOk, OfStream, Chunks, Said
  <2> QED BY <2>1, <2>2, <2>3, OrderKept
<1> QED BY <1>3, <1>4

LEMMA WorkerLeavesOrder ==
  ASSUME ForwardInv, NEW w \in Workers, Accept(w) \/ Worker(w),
         NEW r \in RemoteIds, stream[r].st # "none", NEW lo \in Nat, InOrder(r, Chunks, lo)
  PROVE  InOrder(r, Chunks, lo)' \/ InOrder(r, Chunks, lo + 1)'
<1>1. stream' = stream
  BY WorkerDoes
<1>2. CASE UNCHANGED AuthVars \/ WorkerPuts(w)
  <2>1. UNCHANGED <<receive_queue, rx_pc, rx_msg, usb_in>>
    BY <1>2 DEF AuthVars, protocolVars, WorkerPuts
  <2> QED BY <1>1, <2>1, OrderKept
<1> QED BY <1>1, <1>2, WorkerDoes, TakenIsNext

LEMMA WorkerKeepsNumbers ==
  ASSUME ForwardInv, AllNumbered, NEW w \in Workers, Accept(w) \/ Worker(w)
  PROVE  AllNumbered'
<1>1. stream' = stream /\ AuthTypeOK
  BY WorkerDoes DEF ForwardInv
<1>2. Frames' \subseteq Frames
  <2>1. CASE UNCHANGED AuthVars \/ WorkerPuts(w)
    <3>1. UNCHANGED <<receive_queue, rx_msg, usb_in>>
      BY <2>1 DEF AuthVars, protocolVars, WorkerPuts
    <3> QED BY <1>1, <3>1, FramesSays
  <2>2. ASSUME Take(wid[w]), wid[w] \in LocalIds PROVE Frames' \subseteq Frames
    <3>1. PICK k \in Keys : k = wid[w]
      BY <2>2 DEF Keys
    <3> QED BY <1>1, <2>2, <3>1, FramesTake
  <2> QED BY <2>1, <2>2, WorkerDoes
<1> QED BY <1>1, <1>2, NumberedKept DEF AllNumbered

(* A chunk that a worker takes for its client is of its own stream.        *)
LEMMA ReceivesOwn ==
  ASSUME ForwardInv, AllNumbered, NEW w \in Workers, Receive(w), fpc'[w] = "out"
  PROVE  /\ wid[w] \in LocalIds /\ rid[w] \in RemoteIds /\ fpc[w] = "receive"
         /\ Take(wid[w]) /\ OfStream(Response(wid[w]), rid[w], Chunks)
         /\ Response(wid[w]).cmd = "WRTE"
         /\ chunk'[w] = Response(wid[w]).data
         /\ chunk'[w] \in Data /\ chunk'[w][1] = rid[w]
<1>1. /\ fpc[w] = "receive" /\ Take(wid[w]) /\ wid[w] \in LocalIds
      /\ fpc \in [Workers -> FPc] /\ chunk \in [Workers -> Data] /\ WorkerState(w)
  BY DEF Receive, At, ForwardInv, WorkerTypeOK, WorkerStates, WorkerState
<1>2. PICK k \in LocalIds, m \in Message :
        k = wid[w] /\ m = Response(k) /\ FrameOk(m) /\ m.data \in Data
  <2>1. Response(wid[w]) \in Message /\ FrameOk(Response(wid[w]))
    BY <1>1, ResponseIsOurs
  <2> QED BY <1>1, <2>1 DEF Message
<1>3. /\ rid[w] # 0 /\ Expected(m, wid[w], rid[w]) /\ m.cmd = "WRTE"
      /\ chunk' = [chunk EXCEPT ![w] = m.data]
  BY <1>1, <1>2 DEF Receive, Step
<1>4. rid[w] \in RemoteIds /\ OfStream(m, rid[w], Chunks) /\ OfStream(m, rid[w], Said)
  BY <1>1, <1>3 DEF WorkerState, Expected, OfStream, Chunks, Said
<1>5. m.data[1] = rid[w]
  <2>1. m \in Frames
    BY <1>1, <1>2, FramesTake DEF ForwardInv, Keys
  <2>2. OfStream(m, rid[w], {"WRTE"}) /\ Numbered(rid[w])
    BY <1>3, <1>4 DEF AllNumbered, OfStream
  <2> QED BY <2>1, <2>2 DEF Numbered, Chunk
<1> QED BY <1>1, <1>2, <1>3, <1>4, <1>5

LEMMA GivenLater ==
  ASSUME WorkerTypeOK, NEW w \in Workers, NEW lo \in Nat, GivenBefore(w, lo)
  PROVE  GivenBefore(w, lo + 1)
<1>1. chunk[w] \in Data /\ \A i \in 1..Len(out[w]) : out[w][i] \in Data
  <2>1. out[w] \in Seq(Data)
    BY DEF WorkerTypeOK
  <2> QED BY <2>1, ElementOfSeq DEF WorkerTypeOK
<1>2. chunk[w][2] \in Nat /\ \A i \in 1..Len(out[w]) : out[w][i][2] \in Nat
  BY <1>1 DEF Data
<1> QED BY <1>2 DEF GivenBefore

LEMMA OutputWorkerStep ==
  ASSUME ForwardInv, OutputInv, NEW w \in Workers, Accept(w) \/ Worker(w)
  PROVE  OutputInv'
<1>1. /\ WorkerTypeOK /\ WorkerState(w) /\ stream' = stream /\ WorkerStates
      /\ HeldIsNext /\ OutputInOrder /\ AllNumbered
      /\ \A r \in RemoteIds : stream[r].st # "none" => StreamInOrder(r)
  BY WorkerDoes DEF ForwardInv, WorkerStates, OutputInv
<1>0. AllNumbered'
  BY <1>1, WorkerKeepsNumbers
<1>2. /\ fpc \in [Workers -> FPc] /\ rid \in [Workers -> StreamIds \cup {0}]
      /\ chunk \in [Workers -> Data] /\ out \in [Workers -> Seq(Data)]
  BY <1>1 DEF WorkerTypeOK
<1>3. \A v \in Workers \ {w} :
        fpc'[v] = fpc[v] /\ rid'[v] = rid[v] /\ chunk'[v] = chunk[v] /\ out'[v] = out[v]
  BY <1>2 DEF Accept, Worker, SelectTimeout, RecvData, RecvEof, SendOpen, SendOpenPayload,
     OpenAnswer, SendWrite, SendWritePayload, RecvError, ReceiveNoQueue, Receive, SendOut, DropOut, SendError, Step
<1>4. ASSUME NEW r \in RemoteIds, stream[r].st # "none",
             \A lo \in Nat : rid'[w] = r /\ InOrder(r, Chunks, lo)
                /\ (\A v \in Workers : rid[v] = r => GivenBefore(v, lo)) =>
                \E hi \in {lo, lo + 1} : InOrder(r, Chunks, hi)' /\ GivenBefore(w, hi)'
      PROVE  StreamInOrder(r)'
  <2>1. PICK lo \in Nat : /\ InOrder(r, Chunks, lo)
                          /\ \A v \in Workers : rid[v] = r => GivenBefore(v, lo)
    BY <1>1, <1>4 DEF StreamInOrder
  <2>2. ASSUME NEW hi \in {lo, lo + 1}, NEW v \in Workers \ {w}, rid'[v] = r
        PROVE  GivenBefore(v, hi)'
    <3>1. GivenBefore(v, hi)
      BY <1>1, <1>3, <2>1, <2>2, GivenLater
    <3> QED BY <1>3, <3>1 DEF GivenBefore
  <2>3. \E hi \in {lo, lo + 1} : InOrder(r, Chunks, hi)' /\ (rid'[w] = r => GivenBefore(w, hi)')
    BY <1>4, <2>1, WorkerLeavesOrder
  <2>4. PICK hi \in {lo, lo + 1} :
          InOrder(r, Chunks, hi)' /\ (rid'[w] = r => GivenBefore(w, hi)')
    BY <2>3
  <2>5. hi \in Nat /\ \A v \in Workers : rid'[v] = r => GivenBefore(v, hi)'
    BY <2>2, <2>4
  <2> QED BY <2>4, <2>5 DEF StreamInOrder
<1>5. CASE Receive(w) /\ fpc'[w] = "out"
  <2>1. /\ wid[w] \in LocalIds /\ rid[w] \in RemoteIds /\ fpc[w] = "receive"
        /\ Take(wid[w]) /\ OfStream(Response(wid[w]), rid[w], Chunks)
        /\ Response(wid[w]).cmd = "WRTE"
        /\ chunk'[w] = Response(wid[w]).data
        /\ chunk'[w] \in Data /\ chunk'[w][1] = rid[w]
        /\ rid' = rid /\ out' = out
    BY <1>1, <1>5, ReceivesOwn DEF Receive, clientVars
  <2>2. rid[w] # 0 /\ stream[rid[w]].st # "none"
    BY <1>1, <2>1, ProtocolAssumption DEF WorkerState
  <2>3. ASSUME NEW lo \in Nat, InOrder(rid[w], Chunks, lo)
        PROVE  chunk'[w][2] = lo /\ InOrder(rid[w], Chunks, lo + 1)'
    <3>1. PICK r \in RemoteIds : r = rid[w]
      BY <2>1
    <3>2. Number(Response(wid[w]), End(r)) = lo + 1 /\ InOrder(r, Chunks, lo + 1)'
      BY <1>1, <1>5, <2>1, <2>2, <2>3, <3>1, TakenIsNext
    <3>3. Number(Response(wid[w]), End(r)) = chunk'[w][2] + 1 /\ chunk'[w][2] \in Nat
      BY <2>1 DEF Number, Data
    <3>4. \A x, y \in Nat : x + 1 = y + 1 => x = y
      OBVIOUS
    <3>5. chunk'[w][2] = lo
      BY <3>2, <3>3, <3>4
    <3> QED BY <2>1, <3>1, <3>2, <3>5
  <2>4. PICK lo \in Nat : InOrder(rid[w], Chunks, lo) /\ GivenBefore(w, lo)
    BY <1>1, <2>1, <2>2 DEF StreamInOrder
  <2>5. HeldIsNext'
    <3>1. \A i \in 1..Len(out[w]) : out[w][i][2] < chunk'[w][2]
      BY <2>3, <2>4 DEF GivenBefore
    <3>2. \A v \in Workers \ {w} : fpc[v] = "out" =>
            chunk[v][1] = rid[v] /\ \A i \in 1..Len(out[v]) : out[v][i][2] < chunk[v][2]
      BY <1>1 DEF HeldIsNext
    <3> QED BY <1>3, <2>1, <3>1, <3>2 DEF HeldIsNext
  <2>6. OutputInOrder'
    BY <1>1, <2>1 DEF OutputInOrder
  <2>7. ASSUME NEW r \in RemoteIds, stream'[r].st # "none" PROVE StreamInOrder(r)'
    <3>1. ASSUME NEW n \in Nat, rid'[w] = r, InOrder(r, Chunks, n), GivenBefore(w, n)
          PROVE  InOrder(r, Chunks, n + 1)' /\ GivenBefore(w, n + 1)'
      <4>1. chunk'[w][2] = n /\ InOrder(r, Chunks, n + 1)'
        BY <2>1, <2>3, <3>1
      <4>2. GivenBefore(w, n + 1)
        BY <1>1, <3>1, GivenLater
      <4>3. \A i \in 1..Len(out'[w]) : out'[w][i][2] < n + 1
        BY <2>1, <4>2 DEF GivenBefore
      <4> QED BY <4>1, <4>3 DEF GivenBefore
    <3>2. rid'[w] = rid[w]
      BY <2>1
    <3> QED BY <1>1, <1>4, <2>7, <3>1, <3>2
  <2> QED BY <1>0, <2>5, <2>6, <2>7 DEF OutputInv
<1>6. ASSUME fpc'[w] # "out", rid'[w] = 0 \/ out'[w] = <<>> \/
               (rid'[w] = rid[w] /\ (out'[w] = out[w] \/
                  (fpc[w] = "out" /\ out'[w] = Append(out[w], chunk[w])))),
             rid'[w] = 0 => out'[w] = <<>>
      PROVE  OutputInv'
  <2>1. HeldIsNext'
    BY <1>1, <1>3, <1>6 DEF HeldIsNext
  <2>2. /\ out[w] \in Seq(Data) /\ chunk[w] \in Data /\ Len(out[w]) \in Nat
        /\ Len(Append(out[w], chunk[w])) = Len(out[w]) + 1
        /\ \A i \in 1..Len(out[w]) : Append(out[w], chunk[w])[i] = out[w][i]
        /\ Append(out[w], chunk[w])[Len(out[w]) + 1] = chunk[w]
    BY <1>2, AppendProperties, LenProperties
  <2>3. \A i \in 1..Len(out[w]) + 1 : i \in 1..Len(out[w]) \/ i = Len(out[w]) + 1
    BY <2>2
  <2>4. OutputInOrder'
    <3> SUFFICES ASSUME NEW v \in Workers, NEW i \in 1..Len(out'[v])
                 PROVE  /\ out'[v][i][1] = rid'[v]
                        /\ i > 1 => out'[v][i - 1][2] < out'[v][i][2]
      BY DEF OutputInOrder
    <3>1. CASE v # w \/ (out'[v] = out[v] /\ rid'[v] = rid[v])
      BY <1>1, <1>3, <3>1 DEF OutputInOrder
    <3>2. CASE out'[v] = <<>>
      BY <3>2
    <3>3. CASE v = w /\ rid'[w] = rid[w] /\ fpc[w] = "out" /\ out'[w] = Append(out[w], chunk[w])
      <4>1. chunk[w][1] = rid[w] /\ \A j \in 1..Len(out[w]) : out[w][j][2] < chunk[w][2]
        BY <1>1, <3>3 DEF HeldIsNext
      <4>2. CASE i \in 1..Len(out[w])
        <5>1. i > 1 => i - 1 \in 1..Len(out[w])
          BY <2>2, <4>2
        <5> QED BY <1>1, <2>2, <3>3, <4>2, <5>1 DEF OutputInOrder
      <4>3. CASE i = Len(out[w]) + 1
        <5>1. i > 1 => i - 1 \in 1..Len(out[w])
          BY <2>2, <4>3
        <5> QED BY <2>2, <3>3, <4>1, <4>3, <5>1
      <4> QED BY <2>2, <2>3, <3>3, <4>2, <4>3
    <3> QED BY <1>6, <3>1, <3>2, <3>3
  <2>5. ASSUME NEW r \in RemoteIds, stream'[r].st # "none" PROVE StreamInOrder(r)'
    <3>1. ASSUME NEW n \in Nat, rid'[w] = r, InOrder(r, Chunks, n),
                 \A v \in Workers : rid[v] = r => GivenBefore(v, n)
          PROVE  \E hi \in {n, n + 1} : InOrder(r, Chunks, hi)' /\ GivenBefore(w, hi)'
      <4>1. \A i \in 1..Len(out'[w]) : out'[w][i][2] < n
        <5>1. CASE out'[w] = <<>>
          BY <5>1
        <5>2. CASE out'[w] # <<>>
          <6>1. GivenBefore(w, n)
            BY <1>6, <3>1, <5>2
          <6> QED BY <1>6, <2>2, <2>3, <5>2, <6>1 DEF GivenBefore
        <5> QED BY <5>1, <5>2
      <4>2. GivenBefore(w, n)'
        BY <1>6, <4>1 DEF GivenBefore
      <4>3. \A i \in 1..Len(out'[w]) : out'[w][i][2] \in Nat
        <5>1. \A i \in 1..Len(out'[w]) : out'[w][i] \in Data
          <6>1. out'[w] = <<>> \/ out'[w] = out[w] \/ out'[w] = Append(out[w], chunk[w])
            BY <1>6
          <6>2. <<>> \in Seq(Data) /\ Append(out[w], chunk[w]) \in Seq(Data)
            BY <2>2
          <6>3. out'[w] \in Seq(Data)
            BY <2>2, <6>1, <6>2
          <6> QED BY <6>3, ElementOfSeq
        <5> QED BY <5>1 DEF Data
      <4>4. GivenBefore(w, n + 1)'
        BY <1>6, <4>1, <4>3 DEF GivenBefore
      <4> QED BY <1>1, <2>5, <3>1, <4>2, <4>4, WorkerLeavesOrder
    <3> QED BY <1>1, <1>4, <2>5, <3>1
  <2> QED BY <1>0, <2>1, <2>4, <2>5 DEF OutputInv
<1>7. CASE OpenAnswer(w)
  <2>1. fpc'[w] # "out" /\ out' = out /\ out[w] = <<>>
    BY <1>1, <1>2, <1>7 DEF OpenAnswer, Step, At, WorkerState
  <2> QED BY <1>6, <2>1
<1>8. CASE SendOut(w) \/ SendError(w)
  <2>1. /\ fpc'[w] # "out" /\ fpc[w] = "out" /\ rid' = rid /\ rid[w] # 0
        /\ out'[w] = Append(out[w], chunk[w]) \/ out' = out
    BY <1>1, <1>2, <1>8 DEF SendOut, SendError, Step, At, WorkerState
  <2> QED BY <1>6, <2>1
<1>9. CASE Receive(w) /\ fpc'[w] # "out"
  <2>1. rid' = rid /\ out' = out
    BY <1>9 DEF Receive, clientVars
  <2> QED BY <1>1, <1>6, <1>9, <2>1 DEF WorkerState
<1>10. CASE Accept(w) \/ SelectTimeout(w) \/ RecvData(w) \/ RecvEof(w) \/ SendOpen(w)
            \/ SendOpenPayload(w) \/ SendWrite(w) \/ SendWritePayload(w)
            \/ RecvError(w) \/ ReceiveNoQueue(w) \/ DropOut(w)
  <2>1. fpc'[w] # "out" /\ rid' = rid /\ out' = out
    BY <1>2, <1>10 DEF Accept, SelectTimeout, RecvData, RecvEof, SendOpen, SendOpenPayload,
       SendWrite, SendWritePayload, RecvError, ReceiveNoQueue, DropOut, Step, clientVars
  <2> QED BY <1>1, <1>6, <2>1 DEF WorkerState
<1> QED BY <1>5, <1>7, <1>8, <1>9, <1>10 DEF Worker

(* What a client is given is of its own stream and in order, whatever the  *)
(* wire loses and however the workers share ids and queues                 *)
(* (libadb/forward_server.py Worker.run, libadb/protocol.py receive_loop). *)
THEOREM ForwardOutputInOrder == Spec => []OutputInOrder
<1> DEFINE I == ForwardInv /\ OutputInv
<1>1. Init => I
  BY ForwardInit, OutputInit
<1>2. I /\ [Next]_vars => I'
  <2>1. ASSUME I, UNCHANGED vars PROVE OutputInv'
    <3>1. UNCHANGED <<fpc, rid, chunk, out, stream, receive_queue, rx_pc, rx_msg, usb_in>>
      BY <2>1 DEF vars, forwardVars, workerVars, clientVars, AuthVars, daemonVars, protocolVars
    <3>2. \A r, lo : InOrder(r, Chunks, lo) => InOrder(r, Chunks, lo)'
      BY <3>1, OrderKept
    <3>3. \A w \in Workers, lo \in Nat : GivenBefore(w, lo)' <=> GivenBefore(w, lo)
      BY <3>1 DEF GivenBefore
    <3>4. AllNumbered'
      BY <2>1, <3>1 DEF OutputInv, AllNumbered, Numbered, Frames, InQueues, Chunk
    <3> QED BY <2>1, <3>1, <3>2, <3>3, <3>4 DEF OutputInv, StreamInOrder, HeldIsNext, OutputInOrder
  <2> QED BY <2>1, ForwardStep, OutputAuthStep, OutputWorkerStep DEF Next
<1>3. I => OutputInOrder
  BY DEF OutputInv
<1> QED BY <1>1, <1>2, <1>3, PTL DEF Spec

-----------------------------------------------------------------------------
(* Ids of workers.  Every server counts from 11, so that two servers give  *)
(* out the same ids; one server gives out each id once.                    *)
WorkerIdsDistinct == \A v, w \in Workers : v # w /\ wid[v] # 0 => wid[v] # wid[w]
OneServer == \A v, w \in Workers : Server[v] = Server[w]

IdsBelowBase ==
  \A v, w \in Workers : Server[v] = Server[w] =>
    /\ wid[v] <= base[Server[w]]
    /\ v # w /\ wid[v] # 0 => wid[v] # wid[w]

LEMMA IdsStep ==
  ASSUME ForwardInv, IdsBelowBase, [Next]_vars
  PROVE  IdsBelowBase'
<1>1. /\ wid \in [Workers -> Nat] /\ base \in [Servers -> Nat]
      /\ \A v \in Workers : Server[v] \in Servers
  <2>1. LocalIds \cup {0} \subseteq Nat /\ LocalIds \cup {11} \subseteq Nat
    BY ProtocolAssumption
  <2> QED BY <2>1, ForwardAssumption DEF ForwardInv, WorkerTypeOK
<1>2. CASE UNCHANGED <<wid, base>>
  BY <1>2 DEF IdsBelowBase
<1>3. ASSUME NEW w \in Workers, Accept(w) PROVE IdsBelowBase'
  <2>1. /\ base' = [base EXCEPT ![Server[w]] = @ + 2]
        /\ wid' = [wid EXCEPT ![w] = base[Server[w]] + 2]
    BY <1>3 DEF Accept
  <2>2. \A v \in Workers : Server[v] = Server[w] => wid[v] <= base[Server[w]]
    BY DEF IdsBelowBase
  <2>3. ASSUME NEW v \in Workers, NEW u \in Workers, Server[v] = Server[u]
        PROVE  wid'[v] <= base'[Server[u]] /\ (v # u /\ wid'[v] # 0 => wid'[v] # wid'[u])
    <3>1. /\ wid[v] \in Nat /\ wid[u] \in Nat /\ base[Server[u]] \in Nat /\ base[Server[w]] \in Nat
          /\ wid[v] <= base[Server[u]] /\ wid[u] <= base[Server[u]]
          /\ v # u /\ wid[v] # 0 => wid[v] # wid[u]
      BY <1>1, <2>3 DEF IdsBelowBase
    <3>2. base'[Server[u]] = IF Server[u] = Server[w] THEN base[Server[u]] + 2 ELSE base[Server[u]]
      BY <1>1, <2>1
    <3>3. /\ wid'[v] = IF v = w THEN base[Server[w]] + 2 ELSE wid[v]
          /\ wid'[u] = IF u = w THEN base[Server[w]] + 2 ELSE wid[u]
      BY <1>1, <2>1
    <3> QED BY <2>3, <3>1, <3>2, <3>3
  <2> QED BY <2>3 DEF IdsBelowBase
<1> QED BY <1>2, <1>3 DEF Next, Worker, SelectTimeout, RecvData, RecvEof, SendOpen, SendOpenPayload,
           OpenAnswer, SendWrite, SendWritePayload, RecvError, ReceiveNoQueue, Receive, SendOut, DropOut, SendError,
           vars, forwardVars, workerVars

LEMMA IdsInit ==
  ASSUME Init
  PROVE  IdsBelowBase
<1>1. \A w \in Workers : Server[w] \in Servers
  BY ForwardAssumption
<1> QED BY <1>1 DEF Init, IdsBelowBase

(* One server never gives two of its workers the same id                   *)
(* (libadb/forward_server.py, ProxyServer.new_id).                         *)
THEOREM OneServerIdsDistinct == OneServer => (Spec => []WorkerIdsDistinct)
<1> SUFFICES ASSUME OneServer PROVE Spec => []WorkerIdsDistinct
  OBVIOUS
<1> DEFINE I == ForwardInv /\ IdsBelowBase
<1>1. Init => I
  BY ForwardInit, IdsInit
<1>2. I /\ [Next]_vars => I'
  BY ForwardStep, IdsStep
<1>3. I => WorkerIdsDistinct
  BY DEF IdsBelowBase, WorkerIdsDistinct, OneServer
<1> QED BY <1>1, <1>2, <1>3, PTL DEF Spec

-----------------------------------------------------------------------------
(* Every OPEN on the way to adbd, and every stream it has opened, is for   *)
(* the port of a worker with that id.                                      *)
AskedBy(id, service) == \E w \in Workers : wid[w] = id /\ service = <<Server[w], 0>>
AllAsked(s) == \A i \in 1..Len(s) : s[i].cmd = "OPEN" => AskedBy(s[i].arg0, s[i].data)
ServiceInv ==
  /\ AllAsked(send_queue)
  /\ AllAsked(usb_out)
  /\ \A r \in RemoteIds : stream[r].st # "none" => AskedBy(stream[r].peer, stream[r].service)

LEMMA AskedAppend ==
  ASSUME NEW s \in Seq(Message), NEW m \in Message, AllAsked(s),
         m.cmd = "OPEN" => AskedBy(m.arg0, m.data)
  PROVE  AllAsked(Append(s, m))
<1>1. /\ Len(s) \in Nat /\ Len(Append(s, m)) = Len(s) + 1
      /\ \A i \in 1..Len(s) : Append(s, m)[i] = s[i]
      /\ Append(s, m)[Len(s) + 1] = m
  BY AppendProperties, LenProperties
<1>2. \A i \in 1..Len(s) + 1 : i \in 1..Len(s) \/ i = Len(s) + 1
  BY <1>1
<1> QED BY <1>1, <1>2 DEF AllAsked

LEMMA AskedTail ==
  ASSUME NEW s \in Seq(Message), s # <<>>, AllAsked(s)
  PROVE  /\ AllAsked(Tail(s)) /\ Tail(s) \in Seq(Message) /\ Head(s) \in Message
         /\ Head(s).cmd = "OPEN" => AskedBy(Head(s).arg0, Head(s).data)
<1>1. /\ Len(s) \in Nat \ {0} /\ Len(Tail(s)) = Len(s) - 1 /\ Head(s) = s[1]
      /\ \A i \in 1..Len(Tail(s)) : Tail(s)[i] = s[i + 1]
      /\ Tail(s) \in Seq(Message) /\ Head(s) \in Message
  BY HeadTailProperties, LenProperties, EmptySeq
<1>2. 1 \in 1..Len(s) /\ \A i \in 1..Len(s) - 1 : i + 1 \in 1..Len(s)
  BY <1>1
<1> QED BY <1>1, <1>2 DEF AllAsked

LEMMA ServiceInit ==
  ASSUME Init
  PROVE  ServiceInv
<1>1. \A r \in RemoteIds : r \in StreamIds /\ r \notin StaleIds
  BY ProtocolAssumption DEF StreamIds
<1>2. send_queue = <<>> /\ usb_out = <<>> /\ \A r \in RemoteIds : stream[r].st = "none"
  BY <1>1 DEF Init, AuthInit, ProtocolInit, DaemonInit, NoStream
<1> QED BY <1>2 DEF ServiceInv, AllAsked

LEMMA ServiceAuthStep ==
  ASSUME ForwardInv, ServiceInv, AuthNext, UNCHANGED forwardVars
  PROVE  ServiceInv'
<1>1. /\ wid' = wid /\ AuthTypeOK
      /\ send_queue \in Seq(Message) /\ usb_out \in Seq(Message) /\ rx_msg \in Message
      /\ auth_token \in Data
  BY DEF forwardVars, workerVars, ForwardInv, AuthTypeOK, ProtocolTypeOK
<1>2. /\ \A a, d : AskedBy(a, d)' <=> AskedBy(a, d)
      /\ \A s : AllAsked(s)' <=> AllAsked(s)
  BY <1>1 DEF AskedBy, AllAsked
<1>3. AllAsked(send_queue) /\ AllAsked(usb_out)
  BY DEF ServiceInv
<1>4. AllAsked(send_queue') /\ AllAsked(usb_out')
  <2>1. CASE SendLoop \/ WriteError
    <3>1. /\ send_queue # <<>> /\ send_queue' = Tail(send_queue)
          /\ usb_out' = usb_out \/ usb_out' = Append(usb_out, Head(send_queue))
      BY <2>1 DEF SendLoop, WriteError
    <3>2. /\ AllAsked(Tail(send_queue)) /\ Head(send_queue) \in Message
          /\ Head(send_queue).cmd = "OPEN" => AskedBy(Head(send_queue).arg0, Head(send_queue).data)
      BY <1>1, <1>3, <3>1, AskedTail
    <3>3. AllAsked(Append(usb_out, Head(send_queue)))
      BY <1>1, <1>3, <3>2, AskedAppend
    <3> QED BY <1>3, <3>1, <3>2, <3>3
  <2>2. ASSUME NEW m \in Message, m.cmd # "OPEN", Puts(m), usb_out' = usb_out
        PROVE  AllAsked(send_queue') /\ AllAsked(usb_out')
    BY <1>1, <1>3, <2>2, AskedAppend DEF Puts
  <2>3. CASE AckWrite
    <3>1. /\ Msg("OKAY", rx_msg.arg1, rx_msg.arg0, NoData) \in Message
          /\ Msg("OKAY", rx_msg.arg1, rx_msg.arg0, NoData).cmd # "OPEN"
      BY <1>1, NoDataType DEF Msg, Message, Commands
    <3> QED BY <2>2, <2>3, <3>1 DEF AckWrite, Puts
  <2>4. CASE Daemon
    <3>1. /\ send_queue' = send_queue
          /\ usb_out' = usb_out \/ \E reply : DevReads(reply)
      BY <2>4 DEF Daemon, DevPacket, DevConnect, DevSignature, DevPublicKey, DevOpen, DevAck,
         DevCloseRequest, DevHostWrite, DevIgnore, DevGarbled, DevStreamWrite, DevStreamEnd,
         DevWrites, DevReads
    <3>2. ASSUME NEW reply, DevReads(reply) PROVE AllAsked(usb_out')
      <4>1. usb_out # <<>> /\ Tail(usb_out) \in Seq(Message) /\ AllAsked(Tail(usb_out))
        BY <1>1, <1>3, <3>2, AskedTail DEF DevReads, FrameReady
      <4>2. CASE HasPayload(Frame)
        <5>1. Len(usb_out) > 1 /\ usb_out' = Tail(Tail(usb_out))
          BY <3>2, <4>2 DEF DevReads, FrameReady
        <5>2. Tail(usb_out) # <<>>
          BY <1>1, <5>1, TwoTails
        <5> QED BY <4>1, <5>1, <5>2, AskedTail
      <4> QED BY <3>2, <4>1, <4>2 DEF DevReads
    <3> QED BY <1>3, <3>1, <3>2
  <2>5. CASE Authenticate
    <3>1. /\ Msg("CNXN", 1, 0, NoData) \in Message
          /\ Msg("AUTH", 2, 0, auth_token) \in Message
          /\ Msg("AUTH", 3, 0, NoData) \in Message
          /\ Msg("CNXN", 1, 0, NoData).cmd = "CNXN"
          /\ Msg("AUTH", 2, 0, auth_token).cmd = "AUTH"
          /\ Msg("AUTH", 3, 0, NoData).cmd = "AUTH"
      BY <1>1, NoDataType DEF Msg, Message, Commands
    <3>2. ASSUME NEW m \in Message, m.cmd \in {"CNXN", "AUTH"}, PutHeader(m) \/ PutPayload(m)
          PROVE  AllAsked(send_queue') /\ AllAsked(usb_out')
      <4>1. PICK n \in Message : n = Payload(m) /\ n.cmd = "DATA"
        BY PayloadType DEF Payload, Message
      <4> QED BY <2>2, <3>2, <4>1 DEF PutHeader, PutPayload, Puts
    <3>3. \/ Take(Default)
          \/ \E m \in Message : m.cmd \in {"CNXN", "AUTH"} /\ (PutHeader(m) \/ PutPayload(m))
      BY <2>5, <3>1 DEF Authenticate, SendConnect, FirstAnswer, SendSignature, SecondAnswer, OfferKey
    <3> QED BY <1>3, <3>2, <3>3 DEF Take
  <2>6. CASE UNCHANGED <<send_queue, usb_out>>
    BY <1>3, <2>6
  <2> QED BY <2>1, <2>3, <2>4, <2>5, <2>6 DEF AuthNext, HostThreads, ReceiveLoop, ReceiveFrame,
             ChecksumError, Deliver, Discard
<1>5. ASSUME NEW r \in RemoteIds, stream'[r].st # "none"
      PROVE  AskedBy(stream'[r].peer, stream'[r].service)
  <2>1. CASE stream[r].st # "none"
    BY <1>1, <2>1, StreamStays DEF ServiceInv
  <2>2. CASE stream[r].st = "none"
    <3>1. Daemon
      <4>1. stream' # stream
        BY <1>5, <2>2
      <4> QED BY <4>1 DEF AuthNext, Authenticate, SendConnect, FirstAnswer, SendSignature,
                 SecondAnswer, OfferKey, daemonVars
    <3>2. r \in StreamIds
      BY DEF StreamIds
    <3>3. Ignores(r) \/ Opens(r)
      BY <1>1, <2>2, <3>1, <3>2, DaemonStream DEF Writes, Ends, Hears, IsOpen
    <3>4. Opens(r)
      BY <1>5, <2>2, <3>3 DEF Ignores, Kept
    <3>5. Frame.cmd = "OPEN" /\ usb_out # <<>> /\ stream'[r] = NewStream("ready", Frame.arg0, Frame.data, 0)
      BY <3>4 DEF Opens, FrameReady
    <3>6. AskedBy(Frame.arg0, Frame.data)
      BY <1>1, <1>3, <3>5, AskedTail DEF Frame
    <3> QED BY <3>5, <3>6 DEF NewStream
  <2> QED BY <2>1, <2>2
<1> QED BY <1>2, <1>4, <1>5 DEF ServiceInv

LEMMA ServiceWorkerStep ==
  ASSUME ForwardInv, ServiceInv, NEW w \in Workers, Accept(w) \/ Worker(w)
  PROVE  ServiceInv'
<1>1. /\ WorkerTypeOK /\ WorkerStates /\ AuthTypeOK /\ WireInv /\ stream' = stream
      /\ send_queue \in Seq(Message) /\ usb_out \in Seq(Message)
  BY WorkerDoes DEF ForwardInv, AuthTypeOK, ProtocolTypeOK
(* A worker gets its id once, and no OPEN has the id 0.                    *)
<1>2. \A v \in Workers : wid[v] # 0 => wid'[v] = wid[v]
  <2>1. \A v \in Workers : wid[v] # 0 => fpc[v] # "idle"
    BY <1>1 DEF WorkerStates, WorkerState
  <2> QED BY <1>1, <2>1 DEF WorkerTypeOK, Accept, Worker, SelectTimeout, RecvData, RecvEof, SendOpen,
             SendOpenPayload, OpenAnswer, SendWrite, SendWritePayload, RecvError, ReceiveNoQueue, Receive,
             SendOut, DropOut, SendError, Step, At
<1> DEFINE Asked(a, d) == \E v \in Workers : wid'[v] = a /\ d = <<Server[v], 0>>
<1>3. \A a \in LocalIds : \A d : AskedBy(a, d) => Asked(a, d)
  <2>1. 0 \notin LocalIds
    BY ProtocolAssumption
  <2> QED BY <1>2, <2>1 DEF AskedBy
<1>4. /\ OpensOpened(send_queue) /\ OpensOpened(usb_out) /\ opened \subseteq LocalIds
      /\ \A r \in RemoteIds : stream[r].st # "none" => stream[r].peer \in opened
  BY <1>1 DEF WireInv, PeersOpened, AuthTypeOK, ProtocolTypeOK
<1>5. AllAsked(send_queue) /\ AllAsked(usb_out)
  BY DEF ServiceInv
<1>6. \A r \in RemoteIds : stream'[r].st # "none" => Asked(stream'[r].peer, stream'[r].service)
  BY <1>1, <1>3, <1>4 DEF ServiceInv
<1>7. /\ \A i \in 1..Len(usb_out) : usb_out[i].cmd = "OPEN" =>
           Asked(usb_out[i].arg0, usb_out[i].data)
      /\ \A i \in 1..Len(send_queue) : send_queue[i].cmd = "OPEN" =>
           Asked(send_queue[i].arg0, send_queue[i].data)
  BY <1>3, <1>4, <1>5 DEF AllAsked, OpensOpened
<1>8. CASE UNCHANGED <<send_queue, usb_out>>
  BY <1>6, <1>7, <1>8 DEF ServiceInv, AllAsked, AskedBy
<1>9. ASSUME NEW m \in Message, Puts(m), usb_out' = usb_out,
             m.cmd = "OPEN" => Asked(m.arg0, m.data)
      PROVE  ServiceInv'
  <2>1. /\ Len(send_queue) \in Nat /\ Len(send_queue') = Len(send_queue) + 1
        /\ \A i \in 1..Len(send_queue) : send_queue'[i] = send_queue[i]
        /\ send_queue'[Len(send_queue) + 1] = m
    BY <1>1, <1>9, AppendProperties, LenProperties DEF Puts
  <2>2. \A i \in 1..Len(send_queue) + 1 : i \in 1..Len(send_queue) \/ i = Len(send_queue) + 1
    BY <2>1
  <2>3. AllAsked(send_queue)'
    BY <1>7, <1>9, <2>1, <2>2 DEF AllAsked, AskedBy
  <2>4. AllAsked(usb_out)'
    BY <1>7, <1>9 DEF AllAsked, AskedBy
  <2> QED BY <1>6, <2>3, <2>4 DEF ServiceInv, AskedBy
<1>10. CASE SendOpen(w) \/ SendOpenPayload(w) \/ SendWrite(w) \/ SendWritePayload(w)
  <2>1. wid' = wid /\ wid[w] \in LocalIds
    BY <1>1, <1>10 DEF SendOpen, SendOpenPayload, SendWrite, SendWritePayload, Step, At, WorkerStates,
       WorkerState
  <2>2. /\ OpenMsg(w) \in Message /\ WriteMsg(w) \in Message
        /\ OpenMsg(w).arg0 = wid[w] /\ OpenMsg(w).data = <<Server[w], 0>>
        /\ WriteMsg(w).cmd = "WRTE"
        /\ \A m \in Message : Payload(m) \in Message /\ Payload(m).cmd = "DATA"
    BY <2>1, WorkerMessages
  <2>3. Asked(OpenMsg(w).arg0, OpenMsg(w).data)
    BY <2>1, <2>2
  <2>4. \E m \in Message : Puts(m) /\ usb_out' = usb_out /\ (m.cmd # "OPEN" \/ m = OpenMsg(w))
    BY <1>10, <2>2 DEF SendOpen, SendOpenPayload, SendWrite, SendWritePayload, PutHeader, PutPayload, Puts
  <2>5. PICK m \in Message : Puts(m) /\ usb_out' = usb_out /\ (m.cmd # "OPEN" \/ m = OpenMsg(w))
    BY <2>4
  <2> QED BY <1>9, <2>2, <2>3, <2>5
<1>11. CASE ~(SendOpen(w) \/ SendOpenPayload(w) \/ SendWrite(w) \/ SendWritePayload(w))
  <2>1. UNCHANGED <<send_queue, usb_out>>
    BY <1>11 DEF Accept, Worker, SelectTimeout, RecvData, RecvEof, OpenAnswer, RecvError, ReceiveNoQueue, Receive,
       SendOut, DropOut, SendError, AuthVars, protocolVars, Take
  <2> QED BY <1>8, <2>1
<1> QED BY <1>10, <1>11

LEMMA ServiceStep ==
  ASSUME ForwardInv, ServiceInv, [Next]_vars
  PROVE  ServiceInv'
<1>1. ASSUME UNCHANGED vars PROVE ServiceInv'
  <2>1. UNCHANGED <<send_queue, usb_out, stream, wid>>
    BY <1>1 DEF vars, forwardVars, workerVars, AuthVars, daemonVars, protocolVars
  <2> QED BY <2>1 DEF ServiceInv, AllAsked, AskedBy
<1> QED BY <1>1, ServiceAuthStep, ServiceWorkerStep DEF Next

LEMMA OwnedWhenDistinct ==
  ASSUME ForwardInv, ServiceInv, WorkerIdsDistinct
  PROVE  OwnStream
<1> SUFFICES ASSUME NEW w \in Workers, HasStream(w)
             PROVE  /\ stream[rid[w]].service = <<Server[w], 0>>
                    /\ \A v \in Workers \ {w} : rid[v] # rid[w]
  BY DEF OwnStream
<1>1. /\ rid[w] \in RemoteIds /\ stream[rid[w]].st # "none" /\ stream[rid[w]].peer = wid[w]
      /\ wid[w] # 0 /\ rid[w] # 0
      /\ \A v \in Workers : rid[v] = rid[w] => stream[rid[w]].peer = wid[v]
  <2>1. 0 \notin LocalIds
    BY ProtocolAssumption
  <2> QED BY <2>1 DEF HasStream, ForwardInv, WorkerStates, WorkerState
<1>2. PICK v \in Workers : wid[v] = wid[w] /\ stream[rid[w]].service = <<Server[v], 0>>
  BY <1>1 DEF ServiceInv, AskedBy
<1>3. v = w
  BY <1>1, <1>2 DEF WorkerIdsDistinct
<1>4. \A u \in Workers \ {w} : rid[u] # rid[w]
  BY <1>1 DEF WorkerIdsDistinct
<1> QED BY <1>2, <1>3, <1>4

(* While no two workers share an id, every client is connected to the port *)
(* it asked for, on a stream of its own (Worker.create_connection): what   *)
(* the finding of forward_ports shows is all that can break it.            *)
THEOREM OwnStreamByIds == Spec /\ []WorkerIdsDistinct => []OwnStream
<1> DEFINE I == ForwardInv /\ ServiceInv
<1>1. Init => I
  BY ForwardInit, ServiceInit
<1>2. I /\ [Next]_vars => I'
  BY ForwardStep, ServiceStep
<1>3. I /\ WorkerIdsDistinct => OwnStream
  BY OwnedWhenDistinct
<1> QED BY <1>1, <1>2, <1>3, PTL DEF Spec

(* With one forwarded port, every client is connected to it, on a stream   *)
(* of its own, however many clients there are (libadb/forward_server.py).  *)
THEOREM OneServerOwnStream == OneServer => (Spec => []OwnStream)
<1> SUFFICES ASSUME OneServer PROVE Spec => []OwnStream
  OBVIOUS
<1>1. Spec => []WorkerIdsDistinct
  BY OneServerIdsDistinct
<1> QED BY <1>1, OwnStreamByIds, PTL

-----------------------------------------------------------------------------
(* From the worker to the service.                                         *)
(* What a step of a worker puts on its way to adbd.                        *)
LEMMA WorkerPipe ==
  ASSUME ForwardInv, NEW w \in Workers, Accept(w) \/ Worker(w)
  PROVE  \/ Pipe' = Pipe /\ ~SendOpen(w) /\ ~SendWrite(w)
         \/ SendOpen(w) /\ wid[w] \in LocalIds /\ Pipe' = Append(Pipe, OpenMsg(w))
         \/ SendWrite(w) /\ wid[w] \in LocalIds /\ rid[w] # 0 /\ Pipe' = Append(Pipe, WriteMsg(w))
         \/ /\ SendOpenPayload(w) \/ SendWritePayload(w)
            /\ \E m \in Message : m.cmd = "DATA" /\ Pipe' = Append(Pipe, m)
<1>0. WorkerState(w) /\ AuthTypeOK
  BY DEF ForwardInv, WorkerStates
<1>1. CASE SendOpen(w) \/ SendWrite(w)
  <2>1. wid[w] \in LocalIds /\ (SendWrite(w) => rid[w] # 0)
    BY <1>0, <1>1 DEF SendOpen, SendWrite, Step, At, WorkerState
  <2>2. OpenMsg(w) \in Message /\ WriteMsg(w) \in Message
    BY <2>1, WorkerMessages
  <2>3. ASSUME NEW m \in Message, PutHeader(m) PROVE Pipe' = Append(Pipe, m)
    BY <1>0, <2>3, PipePut DEF PutHeader, Puts
  <2> QED BY <1>1, <2>1, <2>2, <2>3 DEF SendOpen, SendWrite
<1>2. CASE SendOpenPayload(w) \/ SendWritePayload(w)
  <2>1. wid[w] \in LocalIds
    BY <1>0, <1>2 DEF SendOpenPayload, SendWritePayload, Step, At, WorkerState
  <2>3. PICK n \in Message : PutPayload(n)
    BY <1>2, <2>1, WorkerMessages DEF SendOpenPayload, SendWritePayload
  <2>4. PICK m \in Message : m = Payload(n) /\ m.cmd = "DATA"
    BY <2>1, WorkerMessages
  <2>5. Pipe' = Append(Pipe, m)
    BY <1>0, <2>3, <2>4, PipePut DEF PutPayload, Puts
  <2> QED BY <1>2, <2>4, <2>5
<1>3. CASE ~(SendOpen(w) \/ SendWrite(w) \/ SendOpenPayload(w) \/ SendWritePayload(w))
  <2>1. UNCHANGED <<send_queue, usb_out>>
    BY <1>3 DEF Accept, Worker, SelectTimeout, RecvData, RecvEof, OpenAnswer, RecvError, ReceiveNoQueue, Receive,
       SendOut, DropOut, SendError, AuthVars, protocolVars, Take
  <2> QED BY <1>3, <2>1 DEF Pipe
<1> QED BY <1>1, <1>2, <1>3

LEMMA HandshakeWorkerStep ==
  ASSUME ForwardInv, HandshakeFirst, NEW w \in Workers, Accept(w) \/ Worker(w)
  PROVE  HandshakeFirst'
<1>1. UNCHANGED <<stream, dev_auth, auth_pc>> /\ auth_pc = "done" /\ AuthTypeOK
  BY WorkerDoes DEF ForwardInv
<1>2. CASE Pipe' = Pipe
  BY <1>1, <1>2, HandshakeStays
<1>3. ASSUME NEW m \in Message, m.cmd \in {"OPEN", "WRTE", "DATA"}, Pipe' = Append(Pipe, m)
      PROVE  HandshakeFirst'
  BY <1>1, <1>3, HandshakeAppends DEF IsHandshake
<1>4. wid[w] \in LocalIds => /\ OpenMsg(w) \in Message /\ OpenMsg(w).cmd = "OPEN"
                             /\ WriteMsg(w) \in Message /\ WriteMsg(w).cmd = "WRTE"
  BY WorkerMessages
<1> QED BY <1>2, <1>3, <1>4, WorkerPipe

(* Every WRTE was written by the worker whose ids it has.  The chunks a    *)
(* worker has received and the service has not are on their way, in order, *)
(* but for the one the worker still holds.                                 *)
Wrote(m) == \E w \in Workers : m.arg0 = wid[w] /\ m.arg1 = rid[w] /\ rid[w] # 0 /\ m.data[1] = w
AllWrote == \A m \in Inside(Pipe) : m.cmd = "WRTE" => Wrote(m)
UnheardEmpty == \A r \in RemoteIds : (\A w \in Workers : rid[w] # r) => stream[r].got = <<>>
Pending == {"open", "open_data", "await", "write"}
SaidTo(w) == IF fpc[w] \in Pending THEN sent[w] ELSE sent[w] + 1
OnTheWay(w, lo) == Run(Pipe, wid[w], {"WRTE"}, 0, lo, SaidTo(w))
WriteOrder(w) ==
  \E lo \in Nat :
    /\ OnTheWay(w, lo)
    /\ rid[w] = 0 => lo = 1
    /\ rid[w] # 0 /\ IsOpen(rid[w]) => lo = Len(stream[rid[w]].got) + 1
GotInOrder(w) ==
  rid[w] # 0 =>
    LET got == stream[rid[w]].got IN
      Len(got) <= sent[w] /\ got = [i \in 1..Len(got) |-> <<w, i>>]
WorkerWrites(w) ==
  /\ fpc[w] = "idle" => sent[w] = 0
  /\ fpc[w] \in Pending => chunk[w] = <<w, sent[w]>>
  /\ fpc[w] \notin {"idle", "dead"} =>
       /\ rid[w] = 0 => SaidTo(w) = 1
       /\ WriteOrder(w)
       /\ GotInOrder(w)
InputInv ==
  HandshakeFirst /\ AllWrote /\ UnheardEmpty /\ \A w \in Workers : WorkerWrites(w)

LEMMA InputInit ==
  ASSUME Init
  PROVE  InputInv
<1>1. send_queue = <<>> /\ usb_out = <<>> /\ Pipe = <<>>
  <2>1. send_queue = <<>> /\ usb_out = <<>>
    BY DEF Init, AuthInit, ProtocolInit
  <2> QED BY <2>1 DEF Pipe
<1>2. Inside(Pipe) = {} /\ NoneAfterOpen(Pipe) /\ AllWrote
  BY <1>1 DEF Inside, NoneAfterOpen, AllWrote
<1>3. \A r \in RemoteIds : stream[r].st = "none" /\ stream[r].got = <<>>
  <2>1. \A r \in RemoteIds : r \in StreamIds /\ r \notin StaleIds
    BY ProtocolAssumption DEF StreamIds
  <2> QED BY <2>1 DEF Init, AuthInit, DaemonInit, NoStream
<1>4. HandshakeFirst /\ UnheardEmpty
  BY <1>2, <1>3 DEF HandshakeFirst, Used, UnheardEmpty
<1>5. \A w \in Workers : WorkerWrites(w)
  BY DEF Init, WorkerWrites, Pending
<1> QED BY <1>2, <1>4, <1>5 DEF InputInv

LEMMA WorkerIdsStay ==
  ASSUME ForwardInv, NEW w \in Workers, Accept(w) \/ Worker(w), NEW v \in Workers
  PROVE  /\ wid[v] # 0 => wid'[v] = wid[v]
         /\ rid[v] # 0 => rid'[v] = rid[v]
         /\ v # w => /\ wid'[v] = wid[v] /\ rid'[v] = rid[v] /\ fpc'[v] = fpc[v]
                     /\ sent'[v] = sent[v] /\ chunk'[v] = chunk[v]
<1>1. WorkerTypeOK /\ WorkerState(v)
  BY DEF ForwardInv, WorkerStates
<1>2. fpc[v] = "idle" => wid[v] = 0
  BY <1>1 DEF WorkerState
<1>3. fpc[v] = "await" => rid[v] = 0
  BY <1>1 DEF WorkerState
<1> QED BY <1>1, <1>2, <1>3 DEF WorkerTypeOK, Accept, Worker, SelectTimeout, RecvData, RecvEof, SendOpen,
           SendOpenPayload, OpenAnswer, SendWrite, SendWritePayload, RecvError, ReceiveNoQueue, Receive,
           SendOut, DropOut, SendError, Step, At, clientVars

LEMMA WrittenOnce ==
  ASSUME ForwardInv, AllWrote, WorkerIdsDistinct, NEW w \in Workers, NEW m \in Inside(Pipe),
         m.cmd = "WRTE", m.arg0 = wid[w]
  PROVE  /\ m.arg1 = rid[w] /\ rid[w] # 0 /\ m.data[1] = w
         /\ rid[w] \in RemoteIds /\ stream[rid[w]].st # "none" /\ stream[rid[w]].peer = wid[w]
<1>1. PICK v \in Workers : m.arg0 = wid[v] /\ m.arg1 = rid[v] /\ rid[v] # 0 /\ m.data[1] = v
  BY DEF AllWrote, Wrote
<1>2. wid[v] # 0
  <2>1. 0 \notin LocalIds
    BY ProtocolAssumption
  <2> QED BY <1>1, <2>1 DEF ForwardInv, WorkerStates, WorkerState
<1>3. v = w
  BY <1>1, <1>2 DEF WorkerIdsDistinct
<1> QED BY <1>1, <1>3 DEF ForwardInv, WorkerStates, WorkerState

(* The daemon reads the first WRTE of each worker first.                   *)
LEMMA ReadRun ==
  ASSUME AuthTypeOK, DaemonRead, NEW id, NEW lo \in Nat, NEW hi \in Nat,
         Run(Pipe, id, {"WRTE"}, 0, lo, hi)
  PROVE  IF Frame.cmd = "WRTE" /\ Frame.arg0 = id
           THEN /\ Frame.data[2] = lo
                /\ Run(Pipe', id, {"WRTE"}, 0, lo + 1, hi)
           ELSE Run(Pipe', id, {"WRTE"}, 0, lo, hi)
<1>1. /\ Pipe \in Seq(Message) /\ Pipe # <<>> /\ Head(Pipe) = Frame
      /\ \/ Pipe' = Tail(Pipe)
         \/ Tail(Pipe) # <<>> /\ Head(Tail(Pipe)).cmd = "DATA" /\ Pipe' = Tail(Tail(Pipe))
      /\ Frame \in Message /\ Tail(Pipe) \in Seq(Message)
  BY PipeType, InsideTail DEF DaemonRead
<1>2. PICK mid \in Nat : /\ Run(<<Frame>>, id, {"WRTE"}, 0, lo, mid)
                         /\ Run(Tail(Pipe), id, {"WRTE"}, 0, mid, hi)
  BY <1>1, RunHead
<1>3. Run(Pipe', id, {"WRTE"}, 0, mid, hi)
  <2>1. CASE Pipe' = Tail(Pipe)
    BY <1>2, <2>1
  <2>2. CASE Tail(Pipe) # <<>> /\ Head(Tail(Pipe)).cmd = "DATA" /\ Pipe' = Tail(Tail(Pipe))
    <3>1. Head(Tail(Pipe)) \in Message /\ Head(Tail(Pipe)).cmd = "DATA"
      BY <1>1, <2>2, HeadTailProperties
    <3>2. PICK d \in Message, last \in Nat :
            /\ d.cmd = "DATA"
            /\ Run(<<d>>, id, {"WRTE"}, 0, mid, last)
            /\ Run(Tail(Tail(Pipe)), id, {"WRTE"}, 0, last, hi)
      BY <1>1, <1>2, <2>2, <3>1, RunHead
    <3>3. Run(<<d>>, id, {"WRTE"}, 0, mid, last) /\ d.cmd = "DATA"
      BY <3>2
    <3>4. ~OfStream(d, id, {"WRTE"})
      BY <3>3 DEF OfStream
    <3>5. IF OfStream(d, id, {"WRTE"}) THEN Number(d, 0) = mid + 1 /\ last = mid + 1 ELSE last = mid
      BY <3>3, RunOne
    <3>6. last = mid
      BY <3>4, <3>5
    <3> QED BY <2>2, <3>2, <3>6
  <2> QED BY <1>1, <2>1, <2>2
<1>4. IF OfStream(Frame, id, {"WRTE"}) THEN Number(Frame, 0) = lo + 1 /\ mid = lo + 1 ELSE mid = lo
  BY <1>1, <1>2, RunOne
<1>5. OfStream(Frame, id, {"WRTE"}) <=> Frame.cmd = "WRTE" /\ Frame.arg0 = id
  BY DEF OfStream
<1>6. Frame.data[2] \in Nat
  BY <1>1 DEF Message, Data
<1>7. Frame.cmd = "WRTE" => Number(Frame, 0) = Frame.data[2] + 1
  BY DEF Number
<1> QED BY <1>3, <1>4, <1>5, <1>6, <1>7

(* A message of nobody else's stream leaves the run as it is.              *)
LEMMA OtherPut ==
  ASSUME AuthTypeOK, NEW m \in Message, Pipe' = Append(Pipe, m), NEW id, NEW lo \in Nat, NEW hi \in Nat,
         Run(Pipe, id, {"WRTE"}, 0, lo, hi), m.cmd # "WRTE" \/ m.arg0 # id
  PROVE  Run(Pipe', id, {"WRTE"}, 0, lo, hi)
<1>1. Pipe \in Seq(Message) /\ ~OfStream(m, id, {"WRTE"})
  BY PipeType DEF OfStream
<1>2. Run(<<m>>, id, {"WRTE"}, 0, hi, hi)
  BY <1>1, RunOne
<1> QED BY <1>1, <1>2, RunAppend

LEMMA WroteAppends ==
  ASSUME AuthTypeOK, NEW m \in Message, AllWrote, Pipe' = Append(Pipe, m), m.cmd = "WRTE" => Wrote(m)
  PROVE  \A n \in Inside(Pipe') : n.cmd = "WRTE" => Wrote(n)
<1>1. Inside(Pipe') = Inside(Pipe) \cup {m}
  BY PipeType, InsideAppend
<1> QED BY <1>1 DEF AllWrote

LEMMA InputAuthStep ==
  ASSUME ForwardInv, InputInv, WorkerIdsDistinct, ~WireFails, AuthNext, UNCHANGED forwardVars
  PROVE  InputInv'
<1>0. /\ AuthTypeOK /\ WireInv /\ HandshakeFirst /\ AllWrote /\ UnheardEmpty
      /\ UNCHANGED <<fpc, wid, rid, sent, chunk>>
      /\ \A w \in Workers : WorkerWrites(w)
  BY DEF ForwardInv, InputInv, forwardVars, workerVars, clientVars
<1>1. HandshakeFirst'
  BY <1>0, HandshakeAuthStep
<1>2. \A m : Wrote(m)' <=> Wrote(m)
  BY <1>0 DEF Wrote
<1>3. \A w \in Workers : SaidTo(w)' = SaidTo(w)
  BY <1>0 DEF SaidTo
<1>4. ASSUME NEW w \in Workers, rid[w] # 0
      PROVE  /\ rid[w] \in RemoteIds /\ rid[w] \in StreamIds
             /\ stream[rid[w]].peer = wid[w] /\ Used
             /\ stream[rid[w]].got \in Seq(Data)
             /\ IsOpen(rid[w])' => IsOpen(rid[w])
  <2>1. /\ rid[w] \in RemoteIds /\ stream[rid[w]].peer = wid[w] /\ stream[rid[w]].st # "none"
        /\ rid[w] \in StreamIds /\ rid'[w] = rid[w]
    BY <1>0, <1>4 DEF ForwardInv, WorkerStates, WorkerState, StreamIds
  <2>2. PICK r \in RemoteIds : r = rid[w]
    BY <2>1
  <2>3. stream[r] \in Stream /\ (stream[r].st = "closed" => stream'[r].st = "closed")
    BY <1>0, <2>1, <2>2, StreamFacts, StreamStays
  <2>4. IsOpen(r)' => IsOpen(r)
    BY <2>1, <2>2, <2>3 DEF IsOpen, Stream
  <2> QED BY <2>1, <2>2, <2>3, <2>4 DEF Used, Stream, IsOpen
<1>5. ASSUME NEW w \in Workers, fpc[w] \notin {"idle", "dead"}
      PROVE  SaidTo(w) \in Nat /\ sent[w] \in Nat /\ SaidTo(w) <= sent[w] + 1
             /\ WriteOrder(w) /\ GotInOrder(w) /\ (rid[w] = 0 => SaidTo(w) = 1)
  <2>1. sent[w] \in Nat
    BY ForwardAssumption DEF ForwardInv, WorkerTypeOK
  <2> QED BY <1>0, <1>5, <2>1 DEF SaidTo, WorkerWrites
(* What keeps the streams, or lets them close, and adds no WRTE.           *)
<1>6. ASSUME Pipe' = Pipe \/ \E m \in Message : m.cmd # "WRTE" /\ Pipe' = Append(Pipe, m),
             \A r \in RemoteIds : stream'[r].got = stream[r].got
      PROVE  InputInv'
  <2>1. AllWrote'
    <3>1. ASSUME NEW m \in Message, m.cmd # "WRTE", Pipe' = Append(Pipe, m)
          PROVE  \A n \in Inside(Pipe') : n.cmd = "WRTE" => Wrote(n)
      BY <1>0, <3>1, WroteAppends
    <3>2. \A n \in Inside(Pipe') : n.cmd = "WRTE" => Wrote(n)
      BY <1>0, <1>6, <3>1 DEF AllWrote
    <3> QED BY <1>2, <3>2 DEF AllWrote
  <2>2. UnheardEmpty'
    BY <1>0, <1>6 DEF UnheardEmpty
  <2>3. ASSUME NEW w \in Workers, fpc[w] \notin {"idle", "dead"}
        PROVE  WriteOrder(w)' /\ GotInOrder(w)'
    <3>1. PICK lo \in Nat : /\ OnTheWay(w, lo) /\ (rid[w] = 0 => lo = 1)
                            /\ rid[w] # 0 /\ IsOpen(rid[w]) => lo = Len(stream[rid[w]].got) + 1
      BY <1>5, <2>3 DEF WriteOrder
    <3>2. Run(Pipe', wid[w], {"WRTE"}, 0, lo, SaidTo(w))
      <4>1. CASE Pipe' = Pipe
        BY <3>1, <4>1 DEF OnTheWay
      <4>2. ASSUME NEW m \in Message, m.cmd # "WRTE", Pipe' = Append(Pipe, m)
            PROVE  Run(Pipe', wid[w], {"WRTE"}, 0, lo, SaidTo(w))
        BY <1>0, <1>5, <2>3, <3>1, <4>2, OtherPut DEF OnTheWay
      <4> QED BY <1>6, <4>1, <4>2
    <3>3. OnTheWay(w, lo)'
      BY <1>0, <1>3, <3>2 DEF OnTheWay
    <3>4. WriteOrder(w)'
      BY <1>0, <1>4, <1>6, <3>1, <3>3 DEF WriteOrder, IsOpen
    <3>5. GotInOrder(w)'
      BY <1>0, <1>4, <1>5, <1>6, <2>3 DEF GotInOrder
    <3> QED BY <3>4, <3>5
  <2>4. \A w \in Workers : WorkerWrites(w)'
    BY <1>0, <1>3, <2>3 DEF WorkerWrites
  <2> QED BY <1>1, <2>1, <2>2, <2>4 DEF InputInv
<1>7. CASE HostThreads /\ UNCHANGED <<daemonVars, authVars>>
  <2>1. stream' = stream
    BY <1>7 DEF daemonVars
  <2> QED BY <1>0, <1>6, <1>7, <2>1, PipeHostThreads
<1>8. CASE Authenticate
  BY <1>0, <1>6, <1>8, PipeAuthenticate
<1>9. CASE DaemonRead /\ \A r \in RemoteIds :
             /\ Heard(r) => stream'[r].got = Append(stream[r].got, Frame.data)
             /\ ~Heard(r) => stream'[r].got = stream[r].got
  <2>1. Inside(Pipe') \subseteq Inside(Pipe) /\ Frame \in Inside(Pipe) /\ Frame \in Message
    BY <1>0, <1>9, ReadRemains
  <2>2. AllWrote'
    BY <1>0, <1>2, <2>1 DEF AllWrote
  <2>3. UnheardEmpty'
    <3> SUFFICES ASSUME NEW r \in RemoteIds, \A w \in Workers : rid[w] # r
                 PROVE  stream'[r].got = <<>>
      BY <1>0 DEF UnheardEmpty
    <3>1. ~Heard(r)
      BY <1>0, <2>1 DEF Heard, AllWrote, Wrote
    <3> QED BY <1>0, <1>9, <3>1 DEF UnheardEmpty
  <2>4. ASSUME NEW w \in Workers, fpc[w] \notin {"idle", "dead"}
        PROVE  WriteOrder(w)' /\ GotInOrder(w)'
    <3>0. SaidTo(w) \in Nat /\ sent[w] \in Nat /\ SaidTo(w) <= sent[w] + 1 /\ GotInOrder(w)
      BY <1>5, <2>4
    <3>1. PICK lo \in Nat : /\ OnTheWay(w, lo) /\ (rid[w] = 0 => lo = 1)
                            /\ rid[w] # 0 /\ IsOpen(rid[w]) => lo = Len(stream[rid[w]].got) + 1
      BY <1>5, <2>4 DEF WriteOrder
    <3>2. IF Frame.cmd = "WRTE" /\ Frame.arg0 = wid[w]
            THEN Frame.data[2] = lo /\ Run(Pipe', wid[w], {"WRTE"}, 0, lo + 1, SaidTo(w))
            ELSE Run(Pipe', wid[w], {"WRTE"}, 0, lo, SaidTo(w))
      BY <1>0, <1>9, <3>0, <3>1, ReadRun DEF OnTheWay
    <3>3. CASE ~(Frame.cmd = "WRTE" /\ Frame.arg0 = wid[w])
      <4>1. rid[w] # 0 => stream'[rid[w]].got = stream[rid[w]].got
        BY <1>4, <1>9, <3>3 DEF Heard
      <4>2. OnTheWay(w, lo)'
        BY <1>0, <1>3, <3>2, <3>3 DEF OnTheWay
      <4>3. WriteOrder(w)'
        BY <1>0, <1>4, <3>1, <4>1, <4>2 DEF WriteOrder, IsOpen
      <4>4. GotInOrder(w)'
        BY <1>0, <3>0, <4>1 DEF GotInOrder
      <4> QED BY <4>3, <4>4
    <3>4. CASE Frame.cmd = "WRTE" /\ Frame.arg0 = wid[w]
      <4>1. Frame.arg1 = rid[w] /\ rid[w] # 0 /\ Frame.data[1] = w
        BY <1>0, <2>1, <3>4, WrittenOnce
      <4>2. PICK r \in RemoteIds, got \in Seq(Data) : /\ r = rid[w] /\ got = stream[r].got
                                                      /\ stream[r].peer = wid[w]
        BY <1>4, <4>1
      <4>3. dev_auth = "online"
        BY <1>0, <1>4, <4>1 DEF HandshakeFirst
      <4>4. OnTheWay(w, lo + 1)' /\ Frame.data[2] = lo /\ lo + 1 <= SaidTo(w) /\ lo + 1 \in Nat
        BY <1>0, <1>3, <3>2, <3>4 DEF OnTheWay, Run
      <4>5. CASE ~IsOpen(r)
        <5>1. stream'[r].got = got /\ ~IsOpen(r)'
          BY <1>0, <1>4, <1>9, <4>1, <4>2, <4>5 DEF Heard, IsOpen
        <5>2. WriteOrder(w)'
          BY <1>0, <4>1, <4>2, <4>4, <5>1 DEF WriteOrder, IsOpen
        <5>3. GotInOrder(w)'
          BY <1>0, <3>0, <4>2, <5>1 DEF GotInOrder
        <5> QED BY <5>2, <5>3
      <4>6. CASE IsOpen(r)
        <5>1. Heard(r) /\ stream'[r].got = Append(got, Frame.data)
          BY <1>9, <3>4, <4>1, <4>2, <4>3, <4>6 DEF Heard
        <5>2. Frame.data = <<w, lo>> /\ Frame.data \in Data
          <6>1. Frame.data \in Data
            BY <2>1 DEF Message
          <6> QED BY <4>1, <4>4, <6>1 DEF Data
        <5>3. lo = Len(got) + 1 /\ Len(got) \in Nat /\ got = [i \in 1..Len(got) |-> <<w, i>>]
          BY <3>0, <3>1, <4>1, <4>2, <4>6, LenProperties DEF GotInOrder
        <5>4. /\ Append(got, Frame.data) \in Seq(Data) /\ Len(Append(got, Frame.data)) = lo
              /\ \A i \in 1..Len(got) : Append(got, Frame.data)[i] = got[i]
              /\ Append(got, Frame.data)[lo] = <<w, lo>>
          BY <5>2, <5>3, AppendProperties
        <5>5. Append(got, Frame.data) = [i \in 1..lo |-> <<w, i>>]
          <6>1. \A i \in 1..lo : Append(got, Frame.data)[i] = <<w, i>>
            <7>1. \A i \in 1..lo : i \in 1..Len(got) \/ i = lo
              BY <5>3
            <7>2. \A i \in 1..Len(got) : got[i] = <<w, i>>
              BY <5>3
            <7> QED BY <5>4, <7>1, <7>2
          <6>2. Append(got, Frame.data) \in [1..lo -> Data]
            BY <5>4, LenProperties
          <6> QED BY <6>1, <6>2
        <5>6. GotInOrder(w)'
          <6>1. lo <= sent[w]
            BY <3>0, <4>4
          <6> QED BY <1>0, <4>2, <5>1, <5>4, <5>5, <6>1 DEF GotInOrder
        <5>7. WriteOrder(w)'
          BY <1>0, <4>1, <4>2, <4>4, <5>1, <5>4 DEF WriteOrder
        <5> QED BY <5>6, <5>7
      <4> QED BY <4>5, <4>6
    <3> QED BY <3>3, <3>4
  <2>5. \A w \in Workers : WorkerWrites(w)'
    BY <1>0, <1>3, <2>4 DEF WorkerWrites
  <2> QED BY <1>1, <2>2, <2>3, <2>5 DEF InputInv
<1>10. CASE Daemon
  BY <1>0, <1>6, <1>9, <1>10, DaemonReads
<1> QED BY <1>7, <1>8, <1>10 DEF AuthNext

(* The runs of the workers after a step of worker w.                       *)
LEMMA WorkerRun ==
  ASSUME ForwardInv, WorkerIdsDistinct, NEW w \in Workers, Accept(w) \/ Worker(w),
         NEW v \in Workers, wid[v] # 0, NEW lo \in Nat, NEW hi \in Nat,
         Run(Pipe, wid[v], {"WRTE"}, 0, lo, hi)
  PROVE  IF SendWrite(w) /\ v = w
           THEN hi = chunk[w][2] => Run(Pipe', wid[v], {"WRTE"}, 0, lo, hi + 1)
           ELSE Run(Pipe', wid[v], {"WRTE"}, 0, lo, hi)
<1>0. AuthTypeOK
  BY DEF ForwardInv
<1>1. CASE Pipe' = Pipe /\ ~SendWrite(w)
  BY <1>1
<1>2. ASSUME NEW m \in Message, Pipe' = Append(Pipe, m), m.cmd # "WRTE" \/ m.arg0 # wid[v]
      PROVE  Run(Pipe', wid[v], {"WRTE"}, 0, lo, hi)
  BY <1>0, <1>2, OtherPut
<1>3. wid[w] \in LocalIds =>
        /\ OpenMsg(w) \in Message /\ OpenMsg(w).cmd = "OPEN"
        /\ WriteMsg(w) \in Message /\ WriteMsg(w).cmd = "WRTE"
        /\ WriteMsg(w).arg0 = wid[w] /\ WriteMsg(w).data = chunk[w]
  BY WorkerMessages
<1>4. SendOpen(w) \/ SendOpenPayload(w) \/ SendWritePayload(w) => ~SendWrite(w)
  BY DEF SendOpen, SendOpenPayload, SendWritePayload, SendWrite, Step, At
<1>5. CASE SendWrite(w) /\ wid[w] \in LocalIds /\ Pipe' = Append(Pipe, WriteMsg(w))
  <2>1. CASE v # w
    <3>1. wid[v] # wid[w]
      BY <2>1 DEF WorkerIdsDistinct
    <3> QED BY <1>2, <1>3, <1>5, <2>1, <3>1
  <2>2. ASSUME v = w, hi = chunk[w][2] PROVE Run(Pipe', wid[v], {"WRTE"}, 0, lo, hi + 1)
    <3>1. PICK m \in Message : /\ m = WriteMsg(w) /\ m.cmd = "WRTE" /\ m.arg0 = wid[v]
                               /\ m.data[2] = hi
      BY <1>3, <1>5, <2>2
    <3>2. OfStream(m, wid[v], {"WRTE"}) /\ Number(m, 0) = hi + 1
      BY <3>1 DEF OfStream, Number
    <3>3. Run(<<m>>, wid[v], {"WRTE"}, 0, hi, hi + 1)
      BY <3>2, RunOne
    <3>4. Pipe \in Seq(Message) /\ Pipe' = Append(Pipe, m) /\ hi + 1 \in Nat
      BY <1>0, <1>5, <3>1, PipeType
    <3> QED BY <3>3, <3>4, RunAppend
  <2> QED BY <1>5, <2>1, <2>2
<1> QED BY <1>1, <1>2, <1>3, <1>4, <1>5, WorkerPipe

LEMMA WroteWorkerStep ==
  ASSUME ForwardInv, InputInv, NEW w \in Workers, Accept(w) \/ Worker(w)
  PROVE  AllWrote'
<1>0. AuthTypeOK /\ AllWrote /\ WorkerWrites(w)
  BY DEF ForwardInv, InputInv
<1>1. \A m : Wrote(m) => Wrote(m)'
  <2> SUFFICES ASSUME NEW m, Wrote(m) PROVE Wrote(m)'
    OBVIOUS
  <2>1. PICK v \in Workers : m.arg0 = wid[v] /\ m.arg1 = rid[v] /\ rid[v] # 0 /\ m.data[1] = v
    BY DEF Wrote
  <2>2. wid[v] # 0
    <3>1. 0 \notin LocalIds
      BY ProtocolAssumption
    <3> QED BY <2>1, <3>1 DEF ForwardInv, WorkerStates, WorkerState
  <2> QED BY <2>1, <2>2, WorkerIdsStay DEF Wrote
<1>2. ASSUME NEW m \in Message, Pipe' = Append(Pipe, m), m.cmd = "WRTE" => Wrote(m)
      PROVE  AllWrote'
  BY <1>0, <1>1, <1>2, WroteAppends DEF AllWrote
<1>3. CASE Pipe' = Pipe
  BY <1>0, <1>1, <1>3 DEF AllWrote
<1>4. CASE SendOpen(w) /\ wid[w] \in LocalIds /\ Pipe' = Append(Pipe, OpenMsg(w))
  BY <1>2, <1>4, WorkerMessages
<1>5. CASE SendWrite(w) /\ wid[w] \in LocalIds /\ rid[w] # 0 /\ Pipe' = Append(Pipe, WriteMsg(w))
  <2>1. chunk[w] = <<w, sent[w]>>
    BY <1>0, <1>5 DEF SendWrite, Step, At, WorkerWrites, Pending
  <2>2. /\ WriteMsg(w) \in Message /\ WriteMsg(w).arg0 = wid[w]
        /\ WriteMsg(w).arg1 = rid[w] /\ WriteMsg(w).data = <<w, sent[w]>>
    BY <1>5, <2>1, WorkerMessages
  <2>3. Wrote(WriteMsg(w))
    BY <1>5, <2>2 DEF Wrote
  <2> QED BY <1>2, <1>5, <2>2, <2>3
<1>6. CASE \E m \in Message : m.cmd = "DATA" /\ Pipe' = Append(Pipe, m)
  BY <1>2, <1>6
<1> QED BY <1>3, <1>4, <1>5, <1>6, WorkerPipe

LEMMA InputWorkerStep ==
  ASSUME ForwardInv, InputInv, WorkerIdsDistinct, WorkerIdsDistinct',
         NEW w \in Workers, Accept(w) \/ Worker(w)
  PROVE  InputInv'
<1>0. /\ AuthTypeOK /\ WorkerTypeOK /\ WorkerStates /\ AllWrote /\ UnheardEmpty /\ stream' = stream
      /\ \A v \in Workers : WorkerWrites(v)
  BY WorkerDoes DEF ForwardInv, InputInv
<1>1. HandshakeFirst' /\ AllWrote'
  BY HandshakeWorkerStep, WroteWorkerStep DEF InputInv
<1>2. 0 \notin RemoteIds
  BY ProtocolAssumption
<1>3. UnheardEmpty'
  BY <1>0, <1>2, WorkerIdsStay DEF UnheardEmpty
<1>4. ASSUME NEW v \in Workers, fpc[v] \notin {"idle", "dead"}
      PROVE  /\ SaidTo(v) \in Nat /\ sent[v] \in Nat /\ wid[v] # 0 /\ wid'[v] = wid[v]
             /\ WriteOrder(v) /\ GotInOrder(v) /\ (rid[v] = 0 => SaidTo(v) = 1)
  <2>1. sent[v] \in Nat
    BY <1>0, ForwardAssumption DEF WorkerTypeOK
  <2>2. wid[v] # 0
    <3>1. 0 \notin LocalIds
      BY ProtocolAssumption
    <3> QED BY <1>0, <1>4, <3>1 DEF WorkerStates, WorkerState
  <2> QED BY <1>0, <1>4, <2>1, <2>2, WorkerIdsStay DEF SaidTo, WorkerWrites
<1>5. ASSUME NEW v \in Workers, fpc[v] \notin {"idle", "dead"}, rid'[v] = rid[v],
             sent'[v] \in Nat, sent[v] <= sent'[v], NEW hi \in Nat, SaidTo(v)' = hi,
             rid[v] = 0 => hi = 1,
             \A lo \in Nat : OnTheWay(v, lo) => Run(Pipe', wid[v], {"WRTE"}, 0, lo, hi)
      PROVE  WriteOrder(v)' /\ GotInOrder(v)' /\ (rid'[v] = 0 => SaidTo(v)' = 1)
  <2>1. PICK lo \in Nat : /\ OnTheWay(v, lo) /\ (rid[v] = 0 => lo = 1)
                          /\ rid[v] # 0 /\ IsOpen(rid[v]) => lo = Len(stream[rid[v]].got) + 1
    BY <1>4, <1>5 DEF WriteOrder
  <2>2. OnTheWay(v, lo)'
    BY <1>4, <1>5, <2>1 DEF OnTheWay
  <2>3. WriteOrder(v)'
    BY <1>0, <1>5, <2>1, <2>2 DEF WriteOrder, IsOpen
  <2>4. GotInOrder(v)'
    <3>1. CASE rid[v] = 0
      BY <1>5, <3>1 DEF GotInOrder
    <3>2. CASE rid[v] # 0
      <4>1. stream[rid[v]].got \in Seq(Data)
        <5>1. rid[v] \in StreamIds
          BY <1>0, <3>2 DEF WorkerStates, WorkerState, StreamIds
        <5> QED BY <1>0, <5>1, StreamFacts DEF Stream
      <4>2. Len(stream[rid[v]].got) \in Nat
        BY <4>1, LenProperties
      <4>3. PICK got \in Seq(Data), n \in Nat : got = stream[rid[v]].got /\ n = Len(got)
        BY <4>1, <4>2
      <4>4. n <= sent[v] /\ got = [i \in 1..n |-> <<v, i>>]
        BY <1>4, <1>5, <3>2, <4>3 DEF GotInOrder
      <4>5. n <= sent'[v]
        BY <1>4, <1>5, <4>4
      <4>6. stream'[rid'[v]].got = got
        BY <1>0, <1>5, <4>3
      <4> QED BY <4>3, <4>4, <4>5, <4>6 DEF GotInOrder
    <3> QED BY <3>1, <3>2
  <2> QED BY <1>5, <2>3, <2>4
<1>6. ASSUME NEW v \in Workers \ {w} PROVE WorkerWrites(v)'
  <2>1. /\ wid'[v] = wid[v] /\ rid'[v] = rid[v] /\ fpc'[v] = fpc[v]
        /\ sent'[v] = sent[v] /\ chunk'[v] = chunk[v]
    BY <1>6, WorkerIdsStay
  <2>2. SaidTo(v)' = SaidTo(v)
    BY <2>1 DEF SaidTo
  <2>3. CASE fpc[v] \in {"idle", "dead"}
    BY <1>0, <2>1, <2>3 DEF WorkerWrites
  <2>4. CASE fpc[v] \notin {"idle", "dead"}
    <3>1. \A lo \in Nat : OnTheWay(v, lo) => Run(Pipe', wid[v], {"WRTE"}, 0, lo, SaidTo(v))
      BY <1>4, <1>6, <2>4, WorkerRun DEF OnTheWay
    <3>2. sent[v] <= sent'[v] /\ sent'[v] \in Nat
      BY <1>4, <2>1, <2>4
    <3>3. WriteOrder(v)' /\ GotInOrder(v)' /\ (rid'[v] = 0 => SaidTo(v)' = 1)
      BY <1>4, <1>5, <2>1, <2>2, <2>4, <3>1, <3>2
    <3> QED BY <1>0, <2>1, <3>3 DEF WorkerWrites
  <2> QED BY <2>3, <2>4
<1>7. ASSUME Accept(w)
      PROVE  WorkerWrites(w)'
  <2>1. /\ fpc[w] = "idle" /\ fpc'[w] = "select" /\ rid'[w] = rid[w] /\ sent'[w] = sent[w]
        /\ Pipe' = Pipe /\ wid'[w] # 0
    <3>1. base[Server[w]] + 2 \in LocalIds /\ 0 \notin LocalIds
      BY <1>7, ProtocolAssumption DEF Accept
    <3> QED BY <1>0, <1>7, <3>1
            DEF Accept, Step, At, WorkerTypeOK, clientVars, AuthVars, protocolVars, Pipe
  <2>2. rid[w] = 0 /\ sent[w] = 0
    BY <1>0, <2>1 DEF WorkerStates, WorkerState, WorkerWrites
  <2>3. SaidTo(w)' = 1
    BY <2>1, <2>2 DEF SaidTo, Pending
  <2>4. \A i \in 1..Len(Pipe) : ~OfStream(Pipe[i], wid'[w], {"WRTE"})
    <3> SUFFICES ASSUME NEW i \in 1..Len(Pipe), Pipe[i].cmd = "WRTE", Pipe[i].arg0 = wid'[w]
                 PROVE  FALSE
      BY DEF OfStream
    <3>1. Pipe[i] \in Inside(Pipe)
      BY DEF Inside
    <3>2. PICK u \in Workers : wid'[w] = wid[u] /\ rid[u] # 0
      BY <1>0, <3>1 DEF AllWrote, Wrote
    <3>3. wid'[u] = wid'[w] /\ u # w
      BY <2>1, <2>2, <3>2, WorkerIdsStay
    <3> QED BY <2>1, <3>3 DEF WorkerIdsDistinct
  <2>5. Run(Pipe, wid'[w], {"WRTE"}, 0, 1, 1)
    BY <1>0, <2>4, PipeType, RunEmpty
  <2>6. WriteOrder(w)'
    BY <2>1, <2>2, <2>3, <2>5 DEF WriteOrder, OnTheWay
  <2> QED BY <2>1, <2>2, <2>3, <2>6 DEF WorkerWrites, Pending, GotInOrder
<1>8. ASSUME Worker(w), ~SendWrite(w), rid' = rid, fpc[w] \notin {"idle", "dead"}, fpc'[w] # "idle",
             fpc'[w] \in Pending => chunk'[w] = <<w, sent'[w]>>,
             sent'[w] \in Nat, sent[w] <= sent'[w],
             fpc'[w] # "dead" => SaidTo(w)' = SaidTo(w)
      PROVE  WorkerWrites(w)'
  <2>1. \A lo \in Nat : OnTheWay(w, lo) => Run(Pipe', wid[w], {"WRTE"}, 0, lo, SaidTo(w))
    BY <1>4, <1>8, WorkerRun DEF OnTheWay
  <2>2. fpc'[w] # "dead" =>
          WriteOrder(w)' /\ GotInOrder(w)' /\ (rid'[w] = 0 => SaidTo(w)' = 1)
    BY <1>4, <1>5, <1>8, <2>1
  <2> QED BY <1>8, <2>2 DEF WorkerWrites
<1>9. ASSUME \/ SelectTimeout(w) \/ RecvEof(w) \/ RecvError(w) \/ ReceiveNoQueue(w)
             \/ Receive(w) \/ SendOut(w) \/ DropOut(w) \/ SendError(w)
      PROVE  WorkerWrites(w)'
  <2>1. /\ rid' = rid /\ sent' = sent /\ Worker(w)
        /\ fpc[w] \in {"select", "receive", "out"}
        /\ fpc'[w] \in {"receive", "dead", "out", "select"}
    BY <1>0, <1>9 DEF Worker, SelectTimeout, RecvEof, RecvError, ReceiveNoQueue, Receive,
       SendOut, DropOut, SendError, Step, At, WorkerTypeOK, clientVars
  <2>2. ~SendWrite(w) /\ sent[w] <= sent'[w] /\ sent'[w] \in Nat
    BY <1>4, <2>1 DEF SendWrite, Step, At
  <2>3. SaidTo(w)' = SaidTo(w)
    BY <2>1 DEF SaidTo, Pending
  <2> QED BY <1>8, <2>1, <2>2, <2>3 DEF Pending
<1>10. ASSUME RecvData(w)
       PROVE  WorkerWrites(w)'
  <2>1. /\ rid' = rid /\ Worker(w) /\ fpc[w] = "select" /\ fpc'[w] \in {"open", "write"}
        /\ sent'[w] = sent[w] + 1 /\ chunk'[w] = <<w, sent[w] + 1>>
    BY <1>0, <1>10 DEF Worker, RecvData, Step, At, WorkerTypeOK
  <2>2. ~SendWrite(w) /\ sent[w] <= sent'[w] /\ sent'[w] \in Nat
    BY <1>4, <2>1 DEF SendWrite, Step, At
  <2>3. SaidTo(w)' = SaidTo(w)
    BY <2>1 DEF SaidTo, Pending
  <2> QED BY <1>8, <2>1, <2>2, <2>3
<1>11. ASSUME SendOpen(w) \/ SendOpenPayload(w)
       PROVE  WorkerWrites(w)'
  <2>1. /\ rid' = rid /\ Worker(w) /\ fpc[w] \in {"open", "open_data"}
        /\ fpc'[w] \in {"open_data", "await"} /\ sent' = sent /\ chunk' = chunk
    BY <1>0, <1>11 DEF Worker, SendOpen, SendOpenPayload, Step, At, WorkerTypeOK, clientVars
  <2>2. ~SendWrite(w) /\ sent[w] <= sent'[w] /\ sent'[w] \in Nat
    BY <1>4, <2>1 DEF SendWrite, Step, At
  <2>3. SaidTo(w)' = SaidTo(w) /\ chunk[w] = <<w, sent[w]>>
    BY <1>0, <2>1 DEF SaidTo, Pending, WorkerWrites
  <2> QED BY <1>8, <2>1, <2>2, <2>3
<1>12. ASSUME SendWritePayload(w)
       PROVE  WorkerWrites(w)'
  <2>1. /\ rid' = rid /\ Worker(w) /\ fpc[w] = "write_data" /\ fpc'[w] = "receive" /\ sent' = sent
    BY <1>0, <1>12 DEF Worker, SendWritePayload, Step, At, WorkerTypeOK, clientVars
  <2>2. ~SendWrite(w) /\ sent[w] <= sent'[w] /\ sent'[w] \in Nat
    BY <1>4, <2>1 DEF SendWrite, Step, At
  <2>3. SaidTo(w)' = SaidTo(w)
    BY <2>1 DEF SaidTo, Pending
  <2> QED BY <1>8, <2>1, <2>2, <2>3 DEF Pending
<1>13. ASSUME SendWrite(w)
       PROVE  WorkerWrites(w)'
  <2>1. /\ rid' = rid /\ fpc[w] = "write" /\ fpc'[w] = "write_data" /\ sent' = sent
    BY <1>0, <1>13 DEF SendWrite, Step, At, WorkerTypeOK, clientVars
  <2>2. /\ SaidTo(w) = sent[w] /\ SaidTo(w)' = sent[w] + 1 /\ chunk[w] = <<w, sent[w]>>
        /\ sent[w] \in Nat /\ rid[w] # 0
    BY <1>0, <1>4, <2>1 DEF SaidTo, Pending, WorkerWrites, WorkerStates, WorkerState
  <2>3. \A lo \in Nat : OnTheWay(w, lo) => Run(Pipe', wid[w], {"WRTE"}, 0, lo, sent[w] + 1)
    <3>1. wid[w] # 0 /\ chunk[w][2] = sent[w]
      BY <1>4, <2>1, <2>2
    <3> QED BY <1>13, <2>2, <3>1, WorkerRun DEF OnTheWay
  <2>4. WriteOrder(w)' /\ GotInOrder(w)' /\ (rid'[w] = 0 => SaidTo(w)' = 1)
    <3>1. sent[w] + 1 \in Nat /\ sent'[w] \in Nat /\ sent[w] <= sent'[w]
      BY <2>1, <2>2
    <3> QED BY <1>5, <2>1, <2>2, <2>3, <3>1
  <2> QED BY <2>1, <2>4 DEF WorkerWrites, Pending
<1>14. ASSUME OpenAnswer(w)
       PROVE  WorkerWrites(w)'
  <2>1. /\ fpc[w] = "await" /\ fpc'[w] \in {"write", "dead"} /\ Worker(w)
        /\ sent' = sent /\ chunk' = chunk /\ rid[w] = 0
    BY <1>0, <1>14 DEF Worker, OpenAnswer, Step, At, WorkerTypeOK, WorkerStates, WorkerState, clientVars
  <2>2. ForwardInv'
    BY WorkerStep
  <2>3. ~SendWrite(w) /\ sent'[w] \in Nat /\ SaidTo(w) = 1 /\ wid[w] # 0 /\ wid'[w] = wid[w]
        /\ chunk[w] = <<w, sent[w]>>
    BY <1>0, <1>4, <2>1 DEF SendWrite, Step, At, WorkerWrites, Pending
  <2>4. fpc'[w] = "write" => WriteOrder(w)' /\ GotInOrder(w)'
    <3> SUFFICES ASSUME fpc'[w] = "write" PROVE WriteOrder(w)' /\ GotInOrder(w)'
      OBVIOUS
    <3>1. PICK r \in RemoteIds : r = rid'[w] /\ stream[r].peer = wid[w] /\ r # 0
      BY <1>0, <2>2, <2>3 DEF ForwardInv, WorkerStates, WorkerState
    <3>2. stream[r].got = <<>>
      <4>1. \A v \in Workers : rid[v] # r
        <5> SUFFICES ASSUME NEW v \in Workers, rid[v] = r PROVE FALSE
          OBVIOUS
        <5>1. wid[v] = wid[w] /\ v # w
          BY <1>0, <2>1, <3>1 DEF WorkerStates, WorkerState
        <5> QED BY <2>3, <5>1 DEF WorkerIdsDistinct
      <4> QED BY <1>0, <4>1 DEF UnheardEmpty
    <3>3. OnTheWay(w, 1)
      BY <1>4, <2>1 DEF WriteOrder
    <3>4. Run(Pipe', wid[w], {"WRTE"}, 0, 1, 1)
      BY <2>1, <2>3, <3>3, WorkerRun DEF OnTheWay
    <3>5. SaidTo(w)' = 1 /\ OnTheWay(w, 1)'
      BY <2>1, <2>3, <3>4 DEF SaidTo, Pending, OnTheWay
    <3>6. Len(<<>>) = 0 /\ 1 = Len(<<>>) + 1 /\ 0 <= sent'[w]
      BY <2>3
    <3>7. WriteOrder(w)'
      BY <1>0, <3>1, <3>2, <3>5, <3>6 DEF WriteOrder
    <3>8. GotInOrder(w)'
      BY <1>0, <3>1, <3>2, <3>6 DEF GotInOrder
    <3> QED BY <3>7, <3>8
  <2>5. rid'[w] = 0 => fpc'[w] = "dead"
    BY <2>1, <2>2 DEF ForwardInv, WorkerStates, WorkerState
  <2> QED BY <2>1, <2>3, <2>4, <2>5 DEF WorkerWrites
<1>15. WorkerWrites(w)'
  BY <1>7, <1>9, <1>10, <1>11, <1>12, <1>13, <1>14 DEF Worker
<1> QED BY <1>1, <1>3, <1>6, <1>15 DEF InputInv

LEMMA InputStep ==
  ASSUME ForwardInv, InputInv, WorkerIdsDistinct, WorkerIdsDistinct', ~WireFails, [Next]_vars
  PROVE  InputInv'
<1>1. ASSUME UNCHANGED vars PROVE InputInv'
  <2>1. UNCHANGED <<send_queue, usb_out, stream, dev_auth, auth_pc, fpc, wid, rid, sent, chunk>>
    BY <1>1 DEF vars, forwardVars, workerVars, clientVars, AuthVars, daemonVars, protocolVars, authVars
  <2>2. Pipe' = Pipe
    BY <2>1 DEF Pipe
  <2>3. HandshakeFirst' /\ AllWrote' /\ UnheardEmpty'
    BY <2>1, <2>2 DEF InputInv, HandshakeFirst, Used, AllWrote, Wrote, UnheardEmpty
  <2>4. \A w \in Workers : WorkerWrites(w)'
    BY <2>1, <2>2 DEF InputInv, WorkerWrites, WriteOrder, GotInOrder, OnTheWay, SaidTo, IsOpen
  <2> QED BY <2>3, <2>4 DEF InputInv
<1> QED BY <1>1, InputAuthStep, InputWorkerStep DEF Next

LEMMA InputGiven ==
  ASSUME ForwardInv, InputInv
  PROVE  InputInOrder
<1> SUFFICES ASSUME NEW w \in Workers, HasStream(w)
             PROVE  LET got == stream[rid[w]].got IN
                      Len(got) <= sent[w] /\ got = [i \in 1..Len(got) |-> <<w, i>>]
  BY DEF InputInOrder
<1>1. fpc[w] \notin {"idle", "dead"} /\ rid[w] # 0
  BY DEF HasStream, ForwardInv, WorkerStates, WorkerState
<1> QED BY <1>1 DEF InputInv, WorkerWrites, GotInOrder

(* Where no write fails, and no two workers share an id, a service gets    *)
(* what its client has sent, in order and each chunk once, however the     *)
(* puts of the workers and of the receive thread are mixed (Worker.run).   *)
THEOREM InputInOrderByIds ==
  ~WireFails => (Spec /\ []WorkerIdsDistinct => []InputInOrder)
<1> SUFFICES ASSUME ~WireFails PROVE Spec /\ []WorkerIdsDistinct => []InputInOrder
  OBVIOUS
<1> DEFINE I == ForwardInv /\ InputInv
<1>1. Init => I
  BY ForwardInit, InputInit
<1>2. I /\ WorkerIdsDistinct /\ WorkerIdsDistinct' /\ [Next]_vars => I'
  BY ForwardStep, InputStep
<1>3. I => InputInOrder
  BY InputGiven
<1> QED BY <1>1, <1>2, <1>3, PTL DEF Spec

(* With one forwarded port that holds for any number of its clients.       *)
THEOREM OneServerInputInOrder ==
  OneServer /\ ~WireFails => (Spec => []InputInOrder)
<1> SUFFICES ASSUME OneServer, ~WireFails PROVE Spec => []InputInOrder
  OBVIOUS
<1>1. Spec => []WorkerIdsDistinct
  BY OneServerIdsDistinct
<1>2. Spec /\ []WorkerIdsDistinct => []InputInOrder
  BY InputInOrderByIds
<1> QED BY <1>1, <1>2, PTL
=============================================================================
