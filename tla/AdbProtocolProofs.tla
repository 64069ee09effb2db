------------------------- MODULE AdbProtocolProofs -------------------------
(***************************************************************************)
(* Proofs about the layers every user of the multiplexer shares: the       *)
(* protocol object, the daemon, the handshake, and the way of a stream     *)
(* through them: what adbd says on one stream (OKAY to the OPEN, the       *)
(* WRTEs, CLSE) passes the USB pipe, the receive thread and the queue of   *)
(* the stream's id in the order in which it was said, and nothing of it is *)
(* left out or said twice.  The lemmas say what one step of a layer        *)
(* preserves and are cited by the modules of the users: shells and         *)
(* forwarders.                                                             *)
(***************************************************************************)
EXTENDS AdbAuth, FiniteSetTheorems, SequenceTheorems, TLAPS

-----------------------------------------------------------------------------
(* Messages.                                                               *)

LEMMA MsgType ==
  ASSUME NEW cmd \in Commands, NEW a0 \in Nat, NEW a1 \in Nat, NEW d \in Data
  PROVE  Msg(cmd, a0, a1, d) \in Message
BY DEF Msg, Message

LEMMA PayloadType ==
  ASSUME NEW m \in Message
  PROVE  Payload(m) \in Message
BY DEF Payload, Message, Commands

LEMMA NoDataType == NoData \in Data /\ NoMsg \in Message
BY MsgType DEF NoData, NoMsg, Data, Commands

-----------------------------------------------------------------------------
(* The steps of the protocol object keep its types.                        *)

LEMMA PutHeaderType ==
  ASSUME NEW m \in Message, ProtocolTypeOK, PutHeader(m),
         m.cmd \in {"WRTE", "OPEN"} => m.arg0 \in LocalIds
  PROVE  ProtocolTypeOK'
BY DEF ProtocolTypeOK, PutHeader

LEMMA PutPayloadType ==
  ASSUME NEW m \in Message, ProtocolTypeOK, PutPayload(m)
  PROVE  ProtocolTypeOK'
BY PayloadType DEF ProtocolTypeOK, PutPayload

LEMMA TakeType ==
  ASSUME NEW k \in Keys, ProtocolTypeOK, Take(k)
  PROVE  ProtocolTypeOK' /\ Response(k) \in Message
BY DEF ProtocolTypeOK, Take, Response

LEMMA HostThreadsType ==
  ASSUME ProtocolTypeOK, HostThreads
  PROVE  ProtocolTypeOK'
<1>1. CASE SendLoop
  BY <1>1 DEF ProtocolTypeOK, SendLoop
<1>2. CASE WriteError
  BY <1>2 DEF ProtocolTypeOK, WriteError
<1>3. CASE ReceiveFrame
  BY <1>3 DEF ProtocolTypeOK, ReceiveFrame
<1>4. CASE ChecksumError
  BY <1>4 DEF ProtocolTypeOK, ChecksumError
<1>5. CASE AckWrite
  <2>1. Msg("OKAY", rx_msg.arg1, rx_msg.arg0, NoData) \in Message
    BY NoDataType DEF ProtocolTypeOK, Msg, Message, Commands
  <2>2. QED
    BY <1>5, <2>1 DEF ProtocolTypeOK, AckWrite
<1>6. CASE Deliver
  <2>1. KeyOf(rx_msg) \in Keys
    BY <1>6 DEF ProtocolTypeOK, Deliver, HasQueue, KeyOf, Keys
  <2>2. QED
    BY <1>6, <2>1, NoDataType DEF ProtocolTypeOK, Deliver
<1>7. CASE Discard
  BY <1>7, NoDataType DEF ProtocolTypeOK, Discard
<1>8. QED
  BY <1>1, <1>2, <1>3, <1>4, <1>5, <1>6, <1>7 DEF HostThreads, ReceiveLoop

LEMMA FrameType ==
  ASSUME ProtocolTypeOK, FrameReady
  PROVE  Frame \in Message
BY DEF ProtocolTypeOK, FrameReady, Frame

\* What is left of a sequence after its first two elements is a sequence.
LEMMA TwoTails ==
  ASSUME NEW S, NEW s \in Seq(S), Len(s) > 1
  PROVE  Tail(Tail(s)) \in Seq(S)
<1>1. /\ Len(s) \in Nat
      /\ s # <<>>
  BY LenProperties, EmptySeq
<1>2. /\ Tail(s) \in Seq(S)
      /\ Len(Tail(s)) = Len(s) - 1
  BY <1>1, HeadTailProperties
<1>3. Len(Tail(s)) # 0
  BY <1>1, <1>2
<1>4. Tail(s) # <<>>
  BY <1>2, <1>3, EmptySeq
<1>5. QED
  BY <1>2, <1>4, HeadTailProperties

LEMMA DevReadsType ==
  ASSUME NEW reply \in Seq(Message), ProtocolTypeOK, DevReads(reply)
  PROVE  ProtocolTypeOK'
<1>1. usb_out' \in Seq(Message)
  <2>1. CASE HasPayload(Frame)
    <3>1. usb_out \in Seq(Message) /\ Len(usb_out) > 1
      BY <2>1 DEF ProtocolTypeOK, DevReads, FrameReady
    <3>2. Tail(Tail(usb_out)) \in Seq(Message)
      BY <3>1, TwoTails
    <3>3. QED
      BY <2>1, <3>2 DEF DevReads
  <2>2. CASE ~HasPayload(Frame)
    BY <2>2 DEF ProtocolTypeOK, DevReads, FrameReady
  <2>3. QED
    BY <2>1, <2>2
<1>2. usb_in' \in Seq(Message)
  BY DEF ProtocolTypeOK, DevReads
<1>3. QED
  BY <1>1, <1>2 DEF ProtocolTypeOK, DevReads

LEMMA DevWritesType ==
  ASSUME NEW m \in Message, ProtocolTypeOK, DevWrites(m)
  PROVE  ProtocolTypeOK'
BY DEF ProtocolTypeOK, DevWrites

-----------------------------------------------------------------------------
(* The steps of the daemon keep its types and those of the protocol.       *)

LEMMA StreamIdType == StreamIds \subseteq Nat \ {0}
BY ProtocolAssumption DEF StreamIds

LEMMA AnswerType ==
  /\ <<>> \in Seq(Message)
  /\ \A m \in Message : <<m>> \in Seq(Message)
OBVIOUS

LEMMA StreamUpdateType ==
  ASSUME DaemonTypeOK, NEW r \in StreamIds
  PROVE  /\ stream[r] \in Stream
         /\ \A s \in {"none", "ready", "waitack", "closed"} :
              [stream EXCEPT ![r].st = s] \in [StreamIds -> Stream]
         /\ \A s \in {"none", "ready", "waitack", "closed"} :
              [stream EXCEPT ![r].st = s, ![r].sent = @ + 1] \in [StreamIds -> Stream]
         /\ \A d \in Data :
              [stream EXCEPT ![r].got = Append(@, d)] \in [StreamIds -> Stream]
         /\ \A p \in Nat : \A d \in Data :
              [stream EXCEPT ![r] = NewStream("ready", p, d, 0)] \in [StreamIds -> Stream]
<1>1. stream \in [StreamIds -> Stream] /\ stream[r] \in Stream
  BY DEF DaemonTypeOK
<1>2. /\ stream[r].st \in {"none", "ready", "waitack", "closed"}
      /\ stream[r].peer \in Nat
      /\ stream[r].service \in Data
      /\ stream[r].sent \in Nat
      /\ stream[r].got \in Seq(Data)
  BY <1>1 DEF Stream
<1>3. ASSUME NEW s \in {"none", "ready", "waitack", "closed"}
      PROVE  /\ [stream[r] EXCEPT !.st = s] \in Stream
             /\ [stream[r] EXCEPT !.st = s, !.sent = @ + 1] \in Stream
  <2>1. stream[r].sent + 1 \in Nat
    BY <1>2
  <2>2. [stream[r] EXCEPT !.st = s] \in Stream
    BY <1>1, <1>2 DEF Stream
  <2>3. [stream[r] EXCEPT !.st = s, !.sent = @ + 1]
          = [[stream[r] EXCEPT !.st = s] EXCEPT !.sent = stream[r].sent + 1]
    BY <1>1 DEF Stream
  <2>4. QED
    BY <2>1, <2>2, <2>3 DEF Stream
<1>4. ASSUME NEW d \in Data
      PROVE  [stream[r] EXCEPT !.got = Append(@, d)] \in Stream
  <2>1. Append(stream[r].got, d) \in Seq(Data)
    BY <1>2
  <2>2. QED
    BY <1>1, <1>2, <2>1 DEF Stream
<1>5. ASSUME NEW p \in Nat, NEW d \in Data
      PROVE  NewStream("ready", p, d, 0) \in Stream
  BY DEF NewStream, Stream
<1>6. ASSUME NEW s \in {"none", "ready", "waitack", "closed"}
      PROVE  /\ [stream EXCEPT ![r].st = s] \in [StreamIds -> Stream]
             /\ [stream EXCEPT ![r].st = s, ![r].sent = @ + 1] \in [StreamIds -> Stream]
  <2>1. [stream EXCEPT ![r].st = s] = [stream EXCEPT ![r] = [stream[r] EXCEPT !.st = s]]
    BY <1>1
  <2>2. [stream EXCEPT ![r].st = s, ![r].sent = @ + 1]
          = [stream EXCEPT ![r] = [stream[r] EXCEPT !.st = s, !.sent = @ + 1]]
    BY <1>1, <1>2 DEF Stream
  <2>3. QED
    BY <1>1, <1>3, <2>1, <2>2
<1>7. ASSUME NEW d \in Data
      PROVE  [stream EXCEPT ![r].got = Append(@, d)] \in [StreamIds -> Stream]
  BY <1>1, <1>4
<1>8. QED
  BY <1>1, <1>5, <1>6, <1>7

LEMMA DaemonType ==
  ASSUME ProtocolTypeOK, DaemonTypeOK, Daemon
  PROVE  ProtocolTypeOK' /\ DaemonTypeOK'
<1> USE NoDataType, AnswerType, StreamIdType
<1>a. ASSUME FrameReady
      PROVE  /\ Frame \in Message
             /\ Frame.arg0 \in Nat /\ Frame.arg1 \in Nat /\ Frame.data \in Data
  BY <1>a, FrameType DEF Message
<1>b. \A n \in Nat : Challenge(n) \in Message
  BY MsgType DEF Challenge, Data, Commands
<1>c. Connected \in Message
  BY MsgType DEF Connected, Commands
<1>d. \A cmd \in {"OKAY", "CLSE"} : \A a0, a1 \in Nat : Msg(cmd, a0, a1, NoData) \in Message
  BY MsgType DEF Commands
<1>1. CASE DevConnect
  <2>0. dev_token + 1 \in Nat
    BY DEF DaemonTypeOK
  <2>1. ProtocolTypeOK'
    BY <1>1, <2>0, <1>b, <1>c, DevReadsType DEF DevConnect
  <2>2. stream' \in [StreamIds -> Stream]
    <3>1. \A r \in StreamIds : [stream[r] EXCEPT !.st = "closed"] \in Stream
      BY DEF DaemonTypeOK, Stream
    <3>2. stream \in [StreamIds -> Stream]
      BY DEF DaemonTypeOK
    <3>3. stream' = [r \in StreamIds |->
                       IF IsOpen(r) THEN [stream[r] EXCEPT !.st = "closed"] ELSE stream[r]]
      BY <1>1 DEF DevConnect
    <3>4. \A n \in Nat : n > 1 => n - 1 # 0
      OBVIOUS
    <3>5. QED
      BY <3>1, <3>2, <3>3, <3>4
  <2>3. QED
    BY <1>1, <2>1, <2>2 DEF DevConnect, DaemonTypeOK
<1>2. CASE DevSignature
  <2>1. dev_token + 1 \in Nat
    BY DEF DaemonTypeOK
  <2>2. ProtocolTypeOK'
    BY <1>2, <2>1, <1>b, <1>c, DevReadsType DEF DevSignature
  <2>3. QED
    BY <1>2, <2>1, <2>2 DEF DevSignature, DaemonTypeOK
<1>3. CASE DevPublicKey
  BY <1>3, <1>c, DevReadsType DEF DevPublicKey, DaemonTypeOK
<1>4. CASE DevOpen
  <2>0. FrameReady
    BY <1>4 DEF DevOpen, Receives
  <2>1. CASE /\ DevReads(<<Msg("CLSE", 0, Frame.arg0, NoData)>>)
             /\ UNCHANGED stream
    BY <1>4, <2>0, <2>1, <1>a, <1>d, DevReadsType DEF DevOpen, DaemonTypeOK
  <2>2. ASSUME NEW r \in RemoteIds,
               stream' = [stream EXCEPT ![r] = NewStream("ready", Frame.arg0, Frame.data, 0)],
               DevReads(<<Msg("OKAY", r, Frame.arg0, NoData)>>)
        PROVE  ProtocolTypeOK' /\ DaemonTypeOK'
    <3>1. r \in StreamIds /\ r \in Nat
      BY DEF StreamIds
    <3>2. ProtocolTypeOK'
      BY <2>0, <2>2, <3>1, <1>a, <1>d, DevReadsType
    <3>3. stream' \in [StreamIds -> Stream]
      BY <2>0, <2>2, <3>1, <1>a, StreamUpdateType
    <3>4. QED
      BY <1>4, <3>2, <3>3 DEF DevOpen, DaemonTypeOK
  <2>3. QED
    BY <1>4, <2>1, <2>2 DEF DevOpen
<1>5. CASE DevAck
  <2>1. ProtocolTypeOK'
    BY <1>5, DevReadsType DEF DevAck
  <2>2. stream' \in [StreamIds -> Stream]
    BY <1>5, StreamUpdateType DEF DevAck, Addressed, DaemonTypeOK
  <2>3. QED
    BY <1>5, <2>1, <2>2 DEF DevAck, DaemonTypeOK
<1>6. CASE DevCloseRequest
  <2>1. ProtocolTypeOK'
    <3>1. FrameReady /\ <<Msg("CLSE", Frame.arg1, Frame.arg0, NoData)>> \in Seq(Message)
      BY <1>6, <1>a, <1>d DEF DevCloseRequest, Receives
    <3>2. QED
      BY <1>6, <3>1, DevReadsType DEF DevCloseRequest
  <2>2. stream' \in [StreamIds -> Stream]
    <3>1. CASE Addressed /\ IsOpen(Frame.arg1)
      <4>1. Frame.arg1 \in StreamIds
        BY <3>1 DEF Addressed
      <4>2. stream' = [stream EXCEPT ![Frame.arg1].st = "closed"]
        BY <1>6, <3>1 DEF DevCloseRequest
      <4>3. QED
        BY <4>1, <4>2, StreamUpdateType DEF Receives
    <3>2. CASE ~(Addressed /\ IsOpen(Frame.arg1))
      BY <1>6, <3>2 DEF DevCloseRequest, DaemonTypeOK
    <3>3. QED
      BY <3>1, <3>2
  <2>3. QED
    BY <1>6, <2>1, <2>2 DEF DevCloseRequest, DaemonTypeOK
<1>7. CASE DevHostWrite
  <2>1. ProtocolTypeOK'
    <3>1. FrameReady /\ <<Msg("OKAY", Frame.arg1, Frame.arg0, NoData)>> \in Seq(Message)
      BY <1>7, <1>a, <1>d DEF DevHostWrite, Receives
    <3>2. QED
      BY <1>7, <3>1, DevReadsType DEF DevHostWrite
  <2>2. stream' \in [StreamIds -> Stream]
    <3>0. Frame.data \in Data
      BY <1>7, <1>a DEF DevHostWrite, Receives
    <3>1. CASE Addressed /\ IsOpen(Frame.arg1)
      <4>1. Frame.arg1 \in StreamIds
        BY <3>1 DEF Addressed
      <4>2. stream' = [stream EXCEPT ![Frame.arg1].got = Append(@, Frame.data)]
        BY <1>7, <3>1 DEF DevHostWrite
      <4>3. QED
        BY <3>0, <4>1, <4>2, StreamUpdateType DEF Receives
    <3>2. CASE ~(Addressed /\ IsOpen(Frame.arg1))
      BY <1>7, <3>2 DEF DevHostWrite, DaemonTypeOK
    <3>3. QED
      BY <3>1, <3>2
  <2>3. QED
    BY <1>7, <2>1, <2>2 DEF DevHostWrite, DaemonTypeOK
<1>8. CASE DevIgnore
  BY <1>8, DevReadsType DEF DevIgnore, DaemonTypeOK, daemonVars
<1>9. CASE DevGarbled /\ UNCHANGED daemonVars
  BY <1>9 DEF DevGarbled, ProtocolTypeOK, DaemonTypeOK, daemonVars
<1>10. ASSUME NEW r \in StreamIds, DevStreamWrite(r)
       PROVE  ProtocolTypeOK' /\ DaemonTypeOK'
  <2>1. /\ stream[r].peer \in Nat /\ stream[r].sent + 1 \in Nat /\ r \in Nat
    BY DEF DaemonTypeOK, Stream
  <2>2. Msg("WRTE", r, stream[r].peer, <<r, stream[r].sent + 1>>) \in Message
    BY <2>1, MsgType DEF Commands, Data
  <2>3. ProtocolTypeOK'
    BY <1>10, <2>2, DevWritesType DEF DevStreamWrite
  <2>4. QED
    BY <1>10, <2>3, StreamUpdateType DEF DevStreamWrite, DaemonTypeOK
<1>11. ASSUME NEW r \in StreamIds, DevStreamEnd(r)
       PROVE  ProtocolTypeOK' /\ DaemonTypeOK'
  <2>1. stream[r].peer \in Nat /\ r \in Nat
    BY DEF DaemonTypeOK, Stream
  <2>2. ProtocolTypeOK'
    BY <1>11, <2>1, <1>d, DevWritesType DEF DevStreamEnd
  <2>3. QED
    BY <1>11, <2>2, StreamUpdateType DEF DevStreamEnd, DaemonTypeOK
<1>12. QED
  BY <1>1, <1>2, <1>3, <1>4, <1>5, <1>6, <1>7, <1>8, <1>9, <1>10, <1>11
     DEF Daemon, DevPacket

-----------------------------------------------------------------------------
(* The steps of authenticate() keep its types, and open no stream.         *)

LEMMA AuthenticateType ==
  ASSUME AuthTypeOK, Authenticate
  PROVE  AuthTypeOK'
<1> USE NoDataType
<1>a. /\ Msg("CNXN", 1, 0, NoData) \in Message
      /\ Msg("AUTH", 2, 0, auth_token) \in Message
      /\ Msg("AUTH", 3, 0, NoData) \in Message
  BY MsgType DEF AuthTypeOK, Commands
<1>b. /\ Msg("CNXN", 1, 0, NoData).cmd = "CNXN"
      /\ Msg("AUTH", 2, 0, auth_token).cmd = "AUTH"
      /\ Msg("AUTH", 3, 0, NoData).cmd = "AUTH"
  BY DEF Msg
<1>1. ASSUME UNCHANGED daemonVars
      PROVE  DaemonTypeOK'
  BY <1>1 DEF AuthTypeOK, DaemonTypeOK, daemonVars
<1>2. Default \in Keys
  BY DEF Keys
<1>3. CASE SendConnect
  <2>1. ProtocolTypeOK'
    BY <1>3, <1>a, <1>b, PutHeaderType, PutPayloadType DEF SendConnect, AuthTypeOK
  <2>2. QED
    BY <1>3, <1>1, <2>1 DEF SendConnect, AuthTypeOK, AuthPc, Goto
<1>4. CASE FirstAnswer
  <2>1. ProtocolTypeOK' /\ Response(Default) \in Message
    BY <1>2, <1>4, TakeType DEF FirstAnswer, AuthTypeOK
  <2>2. Response(Default).data \in Data
    BY <2>1 DEF Message
  <2>3. QED
    BY <1>4, <1>1, <2>1, <2>2 DEF FirstAnswer, AuthTypeOK, AuthPc
<1>5. CASE SendSignature
  <2>1. ProtocolTypeOK'
    BY <1>5, <1>a, <1>b, PutHeaderType, PutPayloadType DEF SendSignature, AuthTypeOK
  <2>2. QED
    BY <1>5, <1>1, <2>1 DEF SendSignature, AuthTypeOK, AuthPc, Goto
<1>6. CASE SecondAnswer
  <2>1. ProtocolTypeOK'
    BY <1>2, <1>6, TakeType DEF SecondAnswer, AuthTypeOK
  <2>2. QED
    BY <1>6, <1>1, <2>1 DEF SecondAnswer, AuthTypeOK, AuthPc
<1>7. CASE OfferKey
  <2>1. ProtocolTypeOK'
    BY <1>7, <1>a, <1>b, PutHeaderType, PutPayloadType DEF OfferKey, AuthTypeOK
  <2>2. QED
    BY <1>7, <1>1, <2>1 DEF OfferKey, AuthTypeOK, AuthPc, Goto
<1>8. QED
  BY <1>3, <1>4, <1>5, <1>6, <1>7 DEF Authenticate

LEMMA AuthNextType ==
  ASSUME AuthTypeOK, AuthNext
  PROVE  AuthTypeOK'
<1>1. CASE HostThreads /\ UNCHANGED <<daemonVars, authVars>>
  BY <1>1, HostThreadsType DEF AuthTypeOK, DaemonTypeOK, daemonVars, authVars
<1>2. CASE Daemon /\ UNCHANGED authVars
  BY <1>2, DaemonType DEF AuthTypeOK, authVars
<1>3. CASE Authenticate
  BY <1>3, AuthenticateType
<1>4. QED
  BY <1>1, <1>2, <1>3 DEF AuthNext

LEMMA AuthInitType ==
  ASSUME AuthInit
  PROVE  AuthTypeOK
<1>1. ProtocolTypeOK
  <2>1. usb_in \in Seq(Message)
    BY DaemonAssumption DEF AuthInit, DaemonInit
  <2>2. QED
    BY <2>1, NoDataType, AnswerType DEF AuthInit, ProtocolInit, ProtocolTypeOK
<1>2. ASSUME NEW w \in Message
      PROVE  StaleStream(w) \in Stream
  BY NoDataType DEF StaleStream, NewStream, Stream, Message, Data
<1>3. ASSUME NEW r \in StreamIds, UnreadWrites(r) # {}
      PROVE  usb_in[CHOOSE i \in UnreadWrites(r) : TRUE] \in Message
  <2>1. (CHOOSE i \in UnreadWrites(r) : TRUE) \in UnreadWrites(r)
    BY <1>3
  <2>2. QED
    BY <2>1, <1>1 DEF UnreadWrites, ProtocolTypeOK
<1>4. NoStream \in Stream
  BY NoDataType DEF NoStream, Stream
<1>5. stream \in [StreamIds -> Stream]
  BY <1>2, <1>3, <1>4 DEF AuthInit, DaemonInit
<1>6. dev_token \in Nat
  <2>1. IsFiniteSet(1..Len(usb_in))
    BY <1>1, FS_Interval DEF ProtocolTypeOK
  <2>2. IsFiniteSet(StaleTokens)
    BY <2>1, FS_Subset DEF StaleTokens
  <2>3. QED
    BY <2>2, FS_CardinalityType DEF AuthInit, DaemonInit
<1>7. dev_auth \in {"offline", "challenged", "online"}
  BY DEF AuthInit, DaemonInit
<1>8. QED
  BY <1>1, <1>5, <1>6, <1>7, NoDataType DEF AuthInit, AuthTypeOK, DaemonTypeOK, AuthPc

(* Type correctness of a device that is being connected, for any number of *)
(* ids, any queue capacity, any contents of the pipe at the start.         *)
THEOREM AuthTypeCorrect == AuthSpec => []AuthTypeOK
<1>1. AuthTypeOK /\ [AuthNext]_AuthVars => AuthTypeOK'
  <2>1. ASSUME AuthTypeOK, UNCHANGED AuthVars PROVE AuthTypeOK'
    BY <2>1 DEF AuthTypeOK, ProtocolTypeOK, DaemonTypeOK, AuthVars, protocolVars,
                daemonVars, authVars
  <2>2. QED
    BY <2>1, AuthNextType
<1>2. QED
  BY <1>1, AuthInitType, PTL DEF AuthSpec

-----------------------------------------------------------------------------
(* Frames of an earlier process.  A reply to the handshake is a barrier:   *)
(* adbd has dropped all old streams before it sends one, the pipe and the  *)
(* receive thread keep the order, and no queue for a stream exists before  *)
(* authenticate() has taken one.  The invariant follows the first reply    *)
(* from adbd to the "default" queue.                                       *)

Holding == rx_pc \in {"ack", "deliver"}
AnswerTaken == auth_pc \notin {"connect", "connect_data", "await_first"}
Answered == AnswerTaken \/ receive_queue[Default] # <<>>
AnswerHeld == Answered \/ (Holding /\ IsHandshake(rx_msg))
AnswerSent == AnswerHeld \/ \E i \in 1..Len(usb_in) : IsHandshake(usb_in[i])

OldStreamsDropped == AnswerSent => \A r \in StaleIds : ~IsOpen(r)
NoStaleBehindAnswer ==
  \A i, j \in 1..Len(usb_in) : i < j /\ IsHandshake(usb_in[i]) => ~FromStale(usb_in[j])
PipeClean == AnswerHeld => \A i \in 1..Len(usb_in) : ~FromStale(usb_in[i])
HandClean == Answered /\ Holding => ~FromStale(rx_msg)
QueuesAfterAnswer == opened # {} => auth_pc = "done"
QueuesClean ==
  \A k \in LocalIds : \A i \in 1..Len(receive_queue[k]) :
    receive_queue[k][i].arg0 \notin StaleIds
SignedAfterAnswer ==
  /\ \A i \in 1..Len(send_queue) : send_queue[i].cmd = "AUTH" => AnswerTaken
  /\ \A i \in 1..Len(usb_out) : usb_out[i].cmd = "AUTH" => AnswerTaken

StaleInv ==
  /\ OldStreamsDropped
  /\ NoStaleBehindAnswer
  /\ PipeClean
  /\ HandClean
  /\ QueuesAfterAnswer
  /\ QueuesClean
  /\ SignedAfterAnswer

LEMMA StaleInit ==
  ASSUME AuthInit
  PROVE  StaleInv
<1>a. usb_in \in StaleTraffic /\ usb_in \in Seq(Message)
  BY DaemonAssumption DEF AuthInit, DaemonInit
<1>b. /\ rx_pc = "read" /\ opened = {} /\ auth_pc = "connect"
      /\ send_queue = <<>> /\ usb_out = <<>>
      /\ receive_queue = [k \in Keys |-> <<>>]
  BY DEF AuthInit, ProtocolInit
<1>c. ~AnswerHeld /\ ~Answered
  BY <1>b DEF AnswerHeld, Answered, AnswerTaken, Holding, Keys
<1>1. OldStreamsDropped
  <2>1. SUFFICES ASSUME AnswerSent, NEW r \in StaleIds
                 PROVE  ~IsOpen(r)
    BY DEF OldStreamsDropped
  <2>2. StaleHandshake # {}
    BY <2>1, <1>c DEF AnswerSent, StaleHandshake
  <2>3. \A w : StaleStream(w).st = "closed"
    BY <2>2 DEF StaleStream, NewStream
  <2>4. NoStream.st = "none"
    BY DEF NoStream
  <2>5. QED
    BY <2>3, <2>4 DEF AuthInit, DaemonInit, IsOpen, StreamIds
<1>2. NoStaleBehindAnswer
  <2>1. SUFFICES ASSUME NEW i \in 1..Len(usb_in), NEW j \in 1..Len(usb_in),
                        i < j, IsHandshake(usb_in[i]), FromStale(usb_in[j])
                 PROVE  FALSE
    BY DEF NoStaleBehindAnswer
  <2>2. \A n \in 1..j : ~IsHandshake(usb_in[n])
    BY <2>1, <1>a, DaemonAssumption DEF FromStale
  <2>3. i \in 1..j
    BY <2>1, <1>a, LenProperties
  <2>4. QED
    BY <2>1, <2>2, <2>3
<1>3. QueuesClean
  BY <1>b, EmptySeq DEF QueuesClean, Keys
<1>4. SignedAfterAnswer
  BY <1>b, EmptySeq DEF SignedAfterAnswer
<1>5. QED
  BY <1>b, <1>c, <1>1, <1>2, <1>3, <1>4
     DEF StaleInv, PipeClean, HandClean, QueuesAfterAnswer

(* A frame sent by the daemon keeps the invariant if it is not from an old *)
(* stream once a reply is on its way, and is no reply while one is open.   *)
LEMMA StaleSend ==
  ASSUME AuthTypeOK, StaleInv, NEW m \in Message,
         usb_in' = Append(usb_in, m),
         UNCHANGED <<receive_queue, opened, rx_pc, rx_msg, auth_pc>>,
         SignedAfterAnswer',
         FromStale(m) => ~AnswerSent,
         IsHandshake(m) => \A r \in StaleIds : ~IsOpen(r)',
         \A r \in StaleIds : IsOpen(r)' => IsOpen(r)
  PROVE  StaleInv'
<1>a. /\ Len(usb_in') = Len(usb_in) + 1 /\ Len(usb_in) \in Nat
      /\ \A i \in 1..Len(usb_in) : usb_in'[i] = usb_in[i]
      /\ usb_in'[Len(usb_in) + 1] = m
  BY AppendProperties, LenProperties DEF AuthTypeOK, ProtocolTypeOK
<1>b. (AnswerHeld' <=> AnswerHeld) /\ (Answered' <=> Answered) /\ (Holding' <=> Holding)
  BY DEF AnswerHeld, Answered, AnswerTaken, Holding
<1>c. AnswerSent' => AnswerSent \/ IsHandshake(m)
  BY <1>a, <1>b DEF AnswerSent
<1>1. OldStreamsDropped'
  BY <1>c DEF StaleInv, OldStreamsDropped
<1>2. NoStaleBehindAnswer'
  <2>1. SUFFICES ASSUME NEW i \in 1..Len(usb_in'), NEW j \in 1..Len(usb_in'),
                        i < j, IsHandshake(usb_in'[i])
                 PROVE  ~FromStale(usb_in'[j])
    BY DEF NoStaleBehindAnswer
  <2>2. i \in 1..Len(usb_in) /\ IsHandshake(usb_in[i])
    BY <2>1, <1>a
  <2>3. CASE j \in 1..Len(usb_in)
    BY <2>1, <2>2, <2>3, <1>a DEF StaleInv, NoStaleBehindAnswer
  <2>4. CASE j = Len(usb_in) + 1
    BY <2>2, <2>4, <1>a DEF AnswerSent
  <2>5. QED
    BY <2>3, <2>4, <1>a
<1>3. PipeClean'
  <2>1. SUFFICES ASSUME AnswerHeld, NEW i \in 1..Len(usb_in')
                 PROVE  ~FromStale(usb_in'[i])
    BY <1>b DEF PipeClean
  <2>2. CASE i \in 1..Len(usb_in)
    BY <2>1, <2>2, <1>a DEF StaleInv, PipeClean
  <2>3. CASE i = Len(usb_in) + 1
    BY <2>1, <2>3, <1>a DEF AnswerSent
  <2>4. QED
    BY <2>2, <2>3, <1>a
<1>4. HandClean' /\ QueuesAfterAnswer' /\ QueuesClean'
  BY <1>b DEF StaleInv, HandClean, QueuesAfterAnswer, QueuesClean
<1>5. QED
  BY <1>1, <1>2, <1>3, <1>4 DEF StaleInv

(* A step that leaves the way from the daemon to the queues alone.         *)
LEMMA StaleFrameless ==
  ASSUME StaleInv, UNCHANGED <<receive_queue, opened, rx_pc, rx_msg, usb_in, auth_pc>>,
         SignedAfterAnswer',
         \A r \in StaleIds : IsOpen(r)' => IsOpen(r)
  PROVE  StaleInv'
<1>1. (AnswerSent' <=> AnswerSent) /\ (AnswerHeld' <=> AnswerHeld)
      /\ (Answered' <=> Answered) /\ (Holding' <=> Holding)
  BY DEF AnswerSent, AnswerHeld, Answered, AnswerTaken, Holding
<1>2. QED
  BY <1>1 DEF StaleInv, OldStreamsDropped, NoStaleBehindAnswer, PipeClean, HandClean,
              QueuesAfterAnswer, QueuesClean

(* The receive thread moves the barrier from the pipe to its hands and to  *)
(* the queue "default"; a stream's frame gets a queue only after it.       *)
LEMMA StaleHostThreads ==
  ASSUME AuthTypeOK, StaleInv, HostThreads, UNCHANGED <<daemonVars, authVars>>
  PROVE  StaleInv'
<1> USE DEF StaleInv
<1>a. \A r \in StreamIds : IsOpen(r)' <=> IsOpen(r)
  BY DEF IsOpen, daemonVars
<1>b. auth_pc' = auth_pc /\ (AnswerTaken' <=> AnswerTaken)
  BY DEF authVars, AnswerTaken
<1>c. send_queue \in Seq(Message) /\ usb_out \in Seq(Message) /\ usb_in \in Seq(Message)
  BY DEF AuthTypeOK, ProtocolTypeOK
<1>d. \A r \in StaleIds : IsOpen(r)' => IsOpen(r)
  BY <1>a DEF StreamIds
<1>1. CASE SendLoop
  <2>1. SignedAfterAnswer'
    <3>1. /\ \A i \in 1..Len(Tail(send_queue)) : Tail(send_queue)[i] = send_queue[i + 1]
          /\ Len(Tail(send_queue)) = Len(send_queue) - 1
          /\ Len(send_queue) \in Nat /\ Head(send_queue) = send_queue[1]
          /\ Len(send_queue) > 0
      BY <1>1, <1>c, HeadTailProperties, LenProperties, EmptySeq DEF SendLoop
    <3>2. /\ Len(usb_out') = Len(usb_out) + 1
          /\ \A i \in 1..Len(usb_out) : usb_out'[i] = usb_out[i]
          /\ usb_out'[Len(usb_out) + 1] = send_queue[1]
          /\ Len(usb_out) \in Nat
      BY <1>1, <1>c, <3>1, AppendProperties, LenProperties DEF SendLoop
    <3>3. \A i \in 1..Len(send_queue') : send_queue'[i].cmd = "AUTH" => AnswerTaken'
      <4>1. send_queue' = Tail(send_queue)
        BY <1>1 DEF SendLoop
      <4>2. QED
        BY <4>1, <1>b, <3>1 DEF SignedAfterAnswer
    <3>4. \A i \in 1..Len(usb_out') : usb_out'[i].cmd = "AUTH" => AnswerTaken'
      BY <1>b, <3>1, <3>2 DEF SignedAfterAnswer
    <3>5. QED
      BY <3>3, <3>4 DEF SignedAfterAnswer
  <2>2. QED
    BY <1>1, <1>d, <1>b, <2>1, StaleFrameless DEF SendLoop
<1>2. CASE WriteError
  <2>1. SignedAfterAnswer'
    <3>1. /\ \A i \in 1..Len(Tail(send_queue)) : Tail(send_queue)[i] = send_queue[i + 1]
          /\ Len(Tail(send_queue)) = Len(send_queue) - 1
          /\ Len(send_queue) \in Nat
      BY <1>2, <1>c, HeadTailProperties, LenProperties DEF WriteError
    <3>2. send_queue' = Tail(send_queue) /\ usb_out' = usb_out
      BY <1>2 DEF WriteError
    <3>3. QED
      BY <1>b, <3>1, <3>2 DEF SignedAfterAnswer
  <2>2. QED
    BY <1>2, <1>d, <1>b, <2>1, StaleFrameless DEF WriteError
<1>e. ASSUME usb_in # <<>>, usb_in' = Tail(usb_in)
      PROVE  /\ \A i \in 1..Len(usb_in') : i + 1 \in 1..Len(usb_in) /\ usb_in'[i] = usb_in[i + 1]
             /\ 1 \in 1..Len(usb_in) /\ Head(usb_in) = usb_in[1]
             /\ Len(usb_in') \in Nat
  BY <1>c, <1>e, HeadTailProperties, LenProperties, EmptySeq
<1>3. CASE ReceiveFrame
  <2>1. /\ \A i \in 1..Len(usb_in') : i + 1 \in 1..Len(usb_in) /\ usb_in'[i] = usb_in[i + 1]
        /\ 1 \in 1..Len(usb_in) /\ rx_msg' = usb_in[1]
        /\ Len(usb_in') \in Nat
    BY <1>3, <1>e DEF ReceiveFrame
  <2>2. (Answered' <=> Answered) /\ ~Holding /\ Holding'
    BY <1>3, <1>b DEF ReceiveFrame, Answered, Holding
  <2>3. AnswerSent' => AnswerSent
    BY <2>1, <2>2 DEF AnswerSent, AnswerHeld
  <2>4. OldStreamsDropped'
    BY <2>3, <1>d DEF OldStreamsDropped
  <2>5. NoStaleBehindAnswer'
    BY <2>1 DEF NoStaleBehindAnswer
  <2>6. PipeClean'
    <3>1. CASE Answered
      BY <2>1, <3>1 DEF PipeClean, AnswerHeld
    <3>2. CASE IsHandshake(usb_in[1])
      BY <2>1, <3>2 DEF PipeClean, NoStaleBehindAnswer
    <3>3. QED
      BY <2>1, <2>2, <3>1, <3>2 DEF PipeClean, AnswerHeld
  <2>7. HandClean'
    BY <2>1, <2>2 DEF HandClean, PipeClean, AnswerHeld
  <2>8. QED
    BY <1>3, <1>b, <2>4, <2>5, <2>6, <2>7
       DEF ReceiveFrame, QueuesAfterAnswer, QueuesClean, SignedAfterAnswer
<1>4. CASE ChecksumError
  <2>1. \A i \in 1..Len(usb_in') : i + 1 \in 1..Len(usb_in) /\ usb_in'[i] = usb_in[i + 1]
    BY <1>4, <1>e DEF ChecksumError
  <2>2. (Answered' <=> Answered) /\ ~Holding'
    BY <1>4, <1>b DEF ChecksumError, Answered, Holding
  <2>3. (AnswerHeld' => AnswerHeld) /\ (AnswerSent' => AnswerSent)
    BY <2>1, <2>2 DEF AnswerSent, AnswerHeld
  <2>4. Len(usb_in') \in Nat
    BY <1>4, <1>e DEF ChecksumError
  <2>5. OldStreamsDropped' /\ PipeClean'
    BY <2>1, <2>3, <1>d DEF OldStreamsDropped, PipeClean
  <2>6. NoStaleBehindAnswer'
    BY <2>1, <2>4 DEF NoStaleBehindAnswer
  <2>7. HandClean'
    BY <2>2 DEF HandClean
  <2>8. QED
    BY <1>4, <1>b, <2>5, <2>6, <2>7
       DEF ChecksumError, QueuesAfterAnswer, QueuesClean, SignedAfterAnswer
<1>5. CASE AckWrite
  <2>1. (Answered' <=> Answered) /\ Holding /\ Holding'
    BY <1>5, <1>b DEF AckWrite, Answered, Holding
  <2>2. (AnswerHeld' <=> AnswerHeld) /\ (AnswerSent' <=> AnswerSent)
    BY <1>5, <2>1 DEF AckWrite, AnswerSent, AnswerHeld
  <2>3. SignedAfterAnswer'
    <3>1. Msg("OKAY", rx_msg.arg1, rx_msg.arg0, NoData).cmd = "OKAY"
      BY DEF Msg
    <3>2. Msg("OKAY", rx_msg.arg1, rx_msg.arg0, NoData) \in Message
      BY NoDataType DEF AuthTypeOK, ProtocolTypeOK, Msg, Message, Commands
    <3>3. /\ Len(send_queue') = Len(send_queue) + 1
          /\ \A i \in 1..Len(send_queue) : send_queue'[i] = send_queue[i]
          /\ send_queue'[Len(send_queue) + 1].cmd = "OKAY"
          /\ Len(send_queue) \in Nat
      BY <1>5, <1>c, <3>1, <3>2, AppendProperties, LenProperties DEF AckWrite
    <3>4. QED
      BY <1>5, <1>b, <3>3 DEF AckWrite, SignedAfterAnswer
  <2>4. QED
    BY <1>5, <1>b, <1>d, <2>1, <2>2, <2>3
       DEF AckWrite, OldStreamsDropped, NoStaleBehindAnswer, PipeClean, HandClean,
           QueuesAfterAnswer, QueuesClean
<1>6. CASE Deliver
  <2>0. rx_msg \in Message /\ KeyOf(rx_msg) \in Keys /\ Holding /\ ~Holding'
    BY <1>6 DEF AuthTypeOK, ProtocolTypeOK, Deliver, HasQueue, KeyOf, Keys, Holding
  <2>1. CASE IsHandshake(rx_msg)
    <3>1. AnswerHeld
      BY <2>0, <2>1 DEF AnswerHeld
    <3>2. AnswerSent /\ usb_in' = usb_in
      BY <1>6, <3>1 DEF AnswerSent, Deliver
    <3>3. \A k \in LocalIds : receive_queue'[k] = receive_queue[k]
      BY <1>6, <2>1, ProtocolAssumption
         DEF Deliver, KeyOf, Default, AuthTypeOK, ProtocolTypeOK, Keys
    <3>4. OldStreamsDropped'
      BY <3>2, <1>d DEF OldStreamsDropped
    <3>5. NoStaleBehindAnswer' /\ PipeClean'
      BY <3>1, <3>2 DEF NoStaleBehindAnswer, PipeClean
    <3>6. HandClean'
      BY <2>0 DEF HandClean
    <3>7. QED
      BY <1>6, <1>b, <3>3, <3>4, <3>5, <3>6
         DEF Deliver, QueuesAfterAnswer, QueuesClean, SignedAfterAnswer
  <2>2. CASE ~IsHandshake(rx_msg)
    <3>1. rx_msg.arg1 \in opened /\ auth_pc = "done" /\ Answered
      BY <1>6, <2>2 DEF Deliver, HasQueue, QueuesAfterAnswer, Answered, AnswerTaken
    <3>2. rx_msg.arg0 \notin StaleIds
      BY <2>0, <2>2, <3>1 DEF HandClean, FromStale
    <3>3. rx_msg.arg1 \in LocalIds
      BY <3>1 DEF AuthTypeOK, ProtocolTypeOK
    <3>4. QueuesClean'
      <4>1. SUFFICES ASSUME NEW k \in LocalIds, NEW i \in 1..Len(receive_queue'[k])
                     PROVE  receive_queue'[k][i].arg0 \notin StaleIds
        BY DEF QueuesClean
      <4>2. CASE k = rx_msg.arg1
        <5>1. receive_queue'[k] = Append(receive_queue[k], rx_msg)
          BY <1>6, <2>2, <4>2 DEF Deliver, KeyOf, AuthTypeOK, ProtocolTypeOK, Keys
        <5>2. receive_queue[k] \in Seq(Message)
          BY DEF AuthTypeOK, ProtocolTypeOK, Keys
        <5>3. /\ Len(receive_queue'[k]) = Len(receive_queue[k]) + 1
              /\ Len(receive_queue[k]) \in Nat
              /\ \A n \in 1..Len(receive_queue[k]) : receive_queue'[k][n] = receive_queue[k][n]
              /\ receive_queue'[k][Len(receive_queue[k]) + 1] = rx_msg
          BY <2>0, <5>1, <5>2, AppendProperties, LenProperties
        <5>4. QED
          BY <3>2, <5>3 DEF QueuesClean
      <4>3. CASE k # rx_msg.arg1
        <5>1. receive_queue'[k] = receive_queue[k]
          BY <1>6, <2>2, <4>3 DEF Deliver, KeyOf, AuthTypeOK, ProtocolTypeOK, Keys
        <5>2. QED
          BY <5>1 DEF QueuesClean
      <4>4. QED
        BY <4>2, <4>3
    <3>5. AnswerHeld /\ AnswerSent /\ usb_in' = usb_in
      BY <1>6, <3>1 DEF AnswerHeld, AnswerSent, Deliver
    <3>6. QED
      BY <1>6, <1>b, <1>d, <2>0, <3>4, <3>5
         DEF Deliver, OldStreamsDropped, NoStaleBehindAnswer, PipeClean, HandClean,
             QueuesAfterAnswer, SignedAfterAnswer
  <2>3. QED
    BY <2>1, <2>2
<1>7. CASE Discard
  <2>1. (Answered' <=> Answered) /\ ~Holding'
    BY <1>7, <1>b DEF Discard, Answered, Holding
  <2>2. (AnswerHeld' => AnswerHeld) /\ (AnswerSent' => AnswerSent)
    BY <1>7, <2>1 DEF Discard, AnswerSent, AnswerHeld
  <2>3. QED
    BY <1>7, <1>b, <1>d, <2>1, <2>2
       DEF Discard, OldStreamsDropped, NoStaleBehindAnswer, PipeClean, HandClean,
           QueuesAfterAnswer, QueuesClean, SignedAfterAnswer
<1>8. QED
  BY <1>1, <1>2, <1>3, <1>4, <1>5, <1>6, <1>7 DEF HostThreads, ReceiveLoop

(* adbd reading a packet only shortens what it has to read.                *)
LEMMA DevReadsSigned ==
  ASSUME AuthTypeOK, SignedAfterAnswer, NEW reply, DevReads(reply), UNCHANGED auth_pc
  PROVE  SignedAfterAnswer'
<1>1. usb_out \in Seq(Message) /\ usb_out # <<>>
  BY DEF AuthTypeOK, ProtocolTypeOK, DevReads, FrameReady
<1>2. /\ Tail(usb_out) \in Seq(Message)
      /\ Len(Tail(usb_out)) = Len(usb_out) - 1 /\ Len(usb_out) \in Nat
      /\ \A i \in 1..Len(Tail(usb_out)) : Tail(usb_out)[i] = usb_out[i + 1]
  BY <1>1, HeadTailProperties, LenProperties
<1>3. CASE HasPayload(Frame)
  <2>1. Len(usb_out) > 1 /\ usb_out' = Tail(Tail(usb_out))
    BY <1>3 DEF DevReads, FrameReady
  <2>2. ASSUME Tail(usb_out) = <<>> PROVE FALSE
    <3>1. Len(Tail(usb_out)) = 0
      BY <2>2, EmptySeq
    <3>2. Len(Tail(usb_out)) = Len(usb_out) - 1 /\ Len(usb_out) \in Nat
      BY <1>2
    <3>3. Len(usb_out) > 1
      BY <2>1
    <3>4. \A n \in Nat : n > 1 => n - 1 # 0
      OBVIOUS
    <3>5. QED
      BY <3>1, <3>2, <3>3, <3>4
  <2>3. /\ Len(usb_out') = Len(Tail(usb_out)) - 1
        /\ \A i \in 1..Len(usb_out') : usb_out'[i] = Tail(usb_out)[i + 1]
    BY <1>2, <2>1, <2>2, HeadTailProperties
  <2>4. \A i \in 1..Len(usb_out') :
          /\ i + 1 \in 1..Len(Tail(usb_out))
          /\ i + 2 \in 1..Len(usb_out)
          /\ usb_out'[i] = usb_out[i + 2]
    BY <1>2, <2>1, <2>3
  <2>5. QED
    BY <2>4 DEF DevReads, SignedAfterAnswer, AnswerTaken
<1>4. CASE ~HasPayload(Frame)
  BY <1>2, <1>4 DEF DevReads, SignedAfterAnswer, AnswerTaken
<1>5. QED
  BY <1>3, <1>4

LEMMA FrameIsSigned ==
  ASSUME AuthTypeOK, StaleInv, Receives("AUTH")
  PROVE  AnswerSent
<1>1. /\ usb_out \in Seq(Message) /\ usb_out # <<>>
      /\ Head(usb_out) = usb_out[1] /\ 1 \in 1..Len(usb_out)
  BY LenProperties, EmptySeq DEF AuthTypeOK, ProtocolTypeOK, Receives, FrameReady
<1>2. QED
  BY <1>1 DEF Receives, Frame, StaleInv, SignedAfterAnswer, AnswerSent, AnswerHeld, Answered

LEMMA StaleDaemon ==
  ASSUME AuthTypeOK, StaleInv, Daemon, UNCHANGED authVars
  PROVE  StaleInv'
<1>a. auth_pc' = auth_pc
  BY DEF authVars
<1>b. /\ \A n \in Nat : Challenge(n) \in Message
      /\ Connected \in Message
      /\ \A cmd \in {"OKAY", "CLSE"} : \A a0, a1 \in Nat : Msg(cmd, a0, a1, NoData) \in Message
  BY MsgType, NoDataType DEF Challenge, Connected, Commands, Data
<1>c. \A cmd, a0, a1, d :
        /\ cmd \notin {"AUTH", "CNXN"} => ~IsHandshake(Msg(cmd, a0, a1, d))
        /\ a0 \notin StaleIds => ~FromStale(Msg(cmd, a0, a1, d))
  BY DEF IsHandshake, FromStale, Msg
<1>d. /\ ~FromStale(Connected) /\ \A n \in Nat : ~FromStale(Challenge(n))
  BY DEF FromStale, IsHandshake, Connected, Challenge, Msg
<1>e. ASSUME NEW m \in Message, DevReads(<<m>>)
      PROVE  /\ usb_in' = Append(usb_in, m)
             /\ UNCHANGED <<receive_queue, opened, rx_pc, rx_msg>>
             /\ SignedAfterAnswer'
  <2>1. usb_in \o <<m>> = Append(usb_in, m)
    BY DEF AuthTypeOK, ProtocolTypeOK
  <2>2. QED
    BY <1>a, <1>e, <2>1, DevReadsSigned DEF DevReads, StaleInv
<1>f. ASSUME DevReads(<<>>)
      PROVE  /\ UNCHANGED <<usb_in, receive_queue, opened, rx_pc, rx_msg>>
             /\ SignedAfterAnswer'
  <2>1. usb_in \o <<>> = usb_in
    BY ConcatEmptySeq DEF AuthTypeOK, ProtocolTypeOK
  <2>2. QED
    BY <1>a, <1>f, <2>1, DevReadsSigned DEF DevReads, StaleInv
<1>g. ASSUME FrameReady
      PROVE  Frame.arg0 \in Nat /\ Frame.arg1 \in Nat
  BY <1>g, FrameType DEF AuthTypeOK, Message
<1>h. ASSUME UNCHANGED stream
      PROVE  \A r \in StaleIds : IsOpen(r)' => IsOpen(r)
  BY <1>h DEF IsOpen
<1>i. 0 \notin StaleIds /\ StaleIds \subseteq StreamIds
      /\ \A r \in RemoteIds : r \notin StaleIds /\ r \in StreamIds /\ r \in Nat
  BY ProtocolAssumption DEF StreamIds
<1>j. stream \in [StreamIds -> Stream]
  BY DEF AuthTypeOK, DaemonTypeOK
<1>1. CASE DevConnect
  <2>1. \A r \in StaleIds : ~IsOpen(r)'
    BY <1>1, <1>i, <1>j DEF DevConnect, IsOpen, Stream
  <2>2. dev_token + 1 \in Nat
    BY DEF AuthTypeOK, DaemonTypeOK
  <2>3. CASE DevReads(<<Challenge(dev_token + 1)>>)
    BY <1>a, <1>b, <1>d, <1>e, <2>1, <2>2, <2>3, StaleSend
  <2>4. CASE DevReads(<<Connected>>)
    BY <1>a, <1>b, <1>d, <1>e, <2>1, <2>4, StaleSend
  <2>5. QED
    BY <1>1, <2>3, <2>4 DEF DevConnect
<1>2. CASE DevSignature
  <2>1. \A r \in StaleIds : ~IsOpen(r) /\ ~IsOpen(r)'
    BY <1>2, FrameIsSigned DEF DevSignature, StaleInv, OldStreamsDropped, IsOpen
  <2>2. dev_token + 1 \in Nat
    BY DEF AuthTypeOK, DaemonTypeOK
  <2>3. CASE DevReads(<<Challenge(dev_token + 1)>>)
    BY <1>a, <1>b, <1>d, <1>e, <2>1, <2>2, <2>3, StaleSend
  <2>4. CASE DevReads(<<Connected>>)
    BY <1>a, <1>b, <1>d, <1>e, <2>1, <2>4, StaleSend
  <2>5. QED
    BY <1>2, <2>3, <2>4 DEF DevSignature
<1>3. CASE DevPublicKey
  <2>1. \A r \in StaleIds : ~IsOpen(r) /\ ~IsOpen(r)'
    BY <1>3, FrameIsSigned DEF DevPublicKey, StaleInv, OldStreamsDropped, IsOpen
  <2>2. CASE DevReads(<<Connected>>)
    BY <1>a, <1>b, <1>d, <1>e, <2>1, <2>2, StaleSend
  <2>3. CASE DevReads(<<>>)
    BY <1>a, <1>f, <2>1, <2>3, StaleFrameless
  <2>4. QED
    BY <1>3, <2>2, <2>3 DEF DevPublicKey
<1>4. CASE DevOpen
  <2>0. Frame.arg0 \in Nat
    BY <1>4, <1>g DEF DevOpen, Receives
  <2>1. CASE DevReads(<<Msg("CLSE", 0, Frame.arg0, NoData)>>) /\ UNCHANGED stream
    <3>1. Msg("CLSE", 0, Frame.arg0, NoData) \in Message
      BY <2>0, <1>b
    <3>2. QED
      BY <1>a, <1>c, <1>e, <1>h, <1>i, <2>1, <3>1, StaleSend
  <2>2. ASSUME NEW r \in RemoteIds,
               stream' = [stream EXCEPT ![r] = NewStream("ready", Frame.arg0, Frame.data, 0)],
               DevReads(<<Msg("OKAY", r, Frame.arg0, NoData)>>)
        PROVE  StaleInv'
    <3>1. Msg("OKAY", r, Frame.arg0, NoData) \in Message
      BY <2>0, <1>b, <1>i
    <3>2. \A q \in StaleIds : IsOpen(q)' => IsOpen(q)
      BY <2>2, <1>i, <1>j DEF IsOpen
    <3>3. QED
      BY <1>a, <1>c, <1>e, <1>i, <2>2, <3>1, <3>2, StaleSend
  <2>3. QED
    BY <1>4, <2>1, <2>2 DEF DevOpen
<1>5. CASE DevAck
  <2>1. \A q \in StaleIds : IsOpen(q)' => IsOpen(q)
    BY <1>5, <1>i, <1>j DEF DevAck, Addressed, IsOpen, Stream
  <2>2. QED
    BY <1>a, <1>5, <1>f, <2>1, StaleFrameless DEF DevAck
<1>6. CASE DevCloseRequest
  <2>0. Frame.arg0 \in Nat /\ Frame.arg1 \in Nat
    BY <1>6, <1>g DEF DevCloseRequest, Receives
  <2>1. CASE Addressed /\ IsOpen(Frame.arg1)
    <3>1. /\ DevReads(<<Msg("CLSE", Frame.arg1, Frame.arg0, NoData)>>)
          /\ stream' = [stream EXCEPT ![Frame.arg1].st = "closed"]
      BY <1>6, <2>1 DEF DevCloseRequest
    <3>2. Msg("CLSE", Frame.arg1, Frame.arg0, NoData) \in Message
      BY <2>0, <1>b
    <3>3. \A q \in StaleIds : IsOpen(q)' => IsOpen(q)
      BY <2>1, <3>1, <1>i, <1>j DEF Addressed, IsOpen, Stream
    <3>4. FromStale(Msg("CLSE", Frame.arg1, Frame.arg0, NoData)) => ~AnswerSent
      BY <2>1, <1>c DEF StaleInv, OldStreamsDropped
    <3>5. QED
      BY <1>a, <1>c, <1>e, <3>1, <3>2, <3>3, <3>4, StaleSend
  <2>2. CASE ~(Addressed /\ IsOpen(Frame.arg1))
    BY <1>a, <1>6, <1>f, <1>h, <2>2, StaleFrameless DEF DevCloseRequest
  <2>3. QED
    BY <2>1, <2>2
<1>7. CASE DevHostWrite
  <2>0. Frame.arg0 \in Nat /\ Frame.arg1 \in Nat
    BY <1>7, <1>g DEF DevHostWrite, Receives
  <2>1. CASE Addressed /\ IsOpen(Frame.arg1)
    <3>1. /\ DevReads(<<Msg("OKAY", Frame.arg1, Frame.arg0, NoData)>>)
          /\ stream' = [stream EXCEPT ![Frame.arg1].got = Append(@, Frame.data)]
      BY <1>7, <2>1 DEF DevHostWrite
    <3>2. Msg("OKAY", Frame.arg1, Frame.arg0, NoData) \in Message
      BY <2>0, <1>b
    <3>3. \A q \in StaleIds : IsOpen(q)' => IsOpen(q)
      BY <2>1, <3>1, <1>i, <1>j DEF Addressed, IsOpen, Stream
    <3>4. FromStale(Msg("OKAY", Frame.arg1, Frame.arg0, NoData)) => ~AnswerSent
      BY <2>1, <1>c DEF StaleInv, OldStreamsDropped
    <3>5. QED
      BY <1>a, <1>c, <1>e, <3>1, <3>2, <3>3, <3>4, StaleSend
  <2>2. CASE ~(Addressed /\ IsOpen(Frame.arg1))
    BY <1>a, <1>7, <1>f, <1>h, <2>2, StaleFrameless DEF DevHostWrite
  <2>3. QED
    BY <2>1, <2>2
<1>8. CASE DevIgnore
  BY <1>a, <1>8, <1>f, <1>h, StaleFrameless DEF DevIgnore, daemonVars
<1>9. CASE DevGarbled /\ UNCHANGED daemonVars
  <2>1. SignedAfterAnswer'
    BY <1>a, <1>9 DEF DevGarbled, StaleInv, SignedAfterAnswer, AnswerTaken
  <2>2. QED
    BY <1>a, <1>9, <1>h, <2>1, StaleFrameless DEF DevGarbled, daemonVars
<1>k. ASSUME NEW m \in Message, DevWrites(m)
      PROVE  /\ usb_in' = Append(usb_in, m)
             /\ UNCHANGED <<receive_queue, opened, rx_pc, rx_msg>>
             /\ SignedAfterAnswer'
  BY <1>a, <1>k DEF DevWrites, StaleInv, SignedAfterAnswer, AnswerTaken
<1>l. ASSUME NEW r \in StreamIds, IsOpen(r), NEW cmd, NEW d
      PROVE  FromStale(Msg(cmd, r, stream[r].peer, d)) => ~AnswerSent
  BY <1>l, <1>c DEF StaleInv, OldStreamsDropped
<1>10. ASSUME NEW r \in StreamIds, DevStreamWrite(r)
       PROVE  StaleInv'
  <2>1. IsOpen(r) /\ stream[r].peer \in Nat /\ stream[r].sent + 1 \in Nat /\ r \in Nat
    BY <1>10, <1>j, StreamIdType DEF DevStreamWrite, IsOpen, Stream
  <2>2. Msg("WRTE", r, stream[r].peer, <<r, stream[r].sent + 1>>) \in Message
    BY <2>1, MsgType DEF Commands, Data
  <2>3. \A q \in StaleIds : IsOpen(q)' => IsOpen(q)
    BY <1>10, <1>i, <1>j, <2>1 DEF DevStreamWrite, IsOpen, Stream
  <2>4. QED
    BY <1>a, <1>c, <1>k, <1>l, <1>10, <2>1, <2>2, <2>3, StaleSend DEF DevStreamWrite
<1>11. ASSUME NEW r \in StreamIds, DevStreamEnd(r)
       PROVE  StaleInv'
  <2>1. IsOpen(r) /\ stream[r].peer \in Nat /\ r \in Nat
    BY <1>11, <1>j, StreamIdType DEF DevStreamEnd, Stream
  <2>2. Msg("CLSE", r, stream[r].peer, NoData) \in Message
    BY <2>1, <1>b
  <2>3. \A q \in StaleIds : IsOpen(q)' => IsOpen(q)
    BY <1>11, <1>i, <1>j, <2>1 DEF DevStreamEnd, IsOpen, Stream
  <2>4. QED
    BY <1>a, <1>c, <1>k, <1>l, <1>11, <2>1, <2>2, <2>3, StaleSend DEF DevStreamEnd
<1>12. QED
  BY <1>1, <1>2, <1>3, <1>4, <1>5, <1>6, <1>7, <1>8, <1>9, <1>10, <1>11
     DEF Daemon, DevPacket

(* A caller of send only adds to send_queue, and opens a queue for a       *)
(* stream only when the device is connected.                               *)
LEMMA StalePut ==
  ASSUME AuthTypeOK, StaleInv, NEW m \in Message,
         send_queue' = Append(send_queue, m),
         UNCHANGED <<receive_queue, rx_pc, rx_msg, usb_out, usb_in, stream>>,
         AnswerTaken' <=> AnswerTaken,
         m.cmd = "AUTH" => AnswerTaken,
         opened' # {} => auth_pc' = "done"
  PROVE  StaleInv'
<1>1. (AnswerSent' <=> AnswerSent) /\ (AnswerHeld' <=> AnswerHeld)
      /\ (Answered' <=> Answered) /\ (Holding' <=> Holding)
  BY DEF AnswerSent, AnswerHeld, Answered, Holding
<1>2. /\ Len(send_queue') = Len(send_queue) + 1
      /\ \A i \in 1..Len(send_queue) : send_queue'[i] = send_queue[i]
      /\ send_queue'[Len(send_queue) + 1] = m
      /\ Len(send_queue) \in Nat
  BY AppendProperties, LenProperties DEF AuthTypeOK, ProtocolTypeOK
<1>3. SignedAfterAnswer'
  BY <1>2 DEF StaleInv, SignedAfterAnswer
<1>4. \A r \in StaleIds : IsOpen(r)' <=> IsOpen(r)
  BY DEF IsOpen
<1>5. QED
  BY <1>1, <1>3, <1>4 DEF StaleInv, OldStreamsDropped, NoStaleBehindAnswer, PipeClean,
                          HandClean, QueuesAfterAnswer, QueuesClean

(* authenticate() takes a reply: from then on AnswerTaken holds the        *)
(* barrier that the queue "default" held before.                           *)
LEMMA StaleTake ==
  ASSUME AuthTypeOK, StaleInv, NEW k \in Keys, Take(k), UNCHANGED stream,
         k = Default => AnswerTaken',
         k # Default => UNCHANGED auth_pc,
         auth_pc = "done" => auth_pc' = "done",
         AnswerTaken => AnswerTaken'
  PROVE  StaleInv'
<1>a. /\ receive_queue[k] \in Seq(Message) /\ receive_queue[k] # <<>>
      /\ receive_queue'[k] = Tail(receive_queue[k])
      /\ \A q \in Keys \ {k} : receive_queue'[q] = receive_queue[q]
  BY DEF Take, AuthTypeOK, ProtocolTypeOK
<1>b. Default \in Keys /\ LocalIds \subseteq Keys
  BY DEF Keys
<1>c. Answered' <=> Answered
  <2>1. CASE k = Default
    BY <1>a, <2>1 DEF Answered
  <2>2. CASE k # Default
    BY <1>a, <1>b, <2>2 DEF Answered, AnswerTaken
  <2>3. QED
    BY <2>1, <2>2
<1>1. (AnswerSent' <=> AnswerSent) /\ (AnswerHeld' <=> AnswerHeld) /\ (Holding' <=> Holding)
  BY <1>c DEF AnswerSent, AnswerHeld, Holding, Take
<1>2. QueuesClean'
  <2>1. /\ Len(Tail(receive_queue[k])) = Len(receive_queue[k]) - 1
        /\ Len(receive_queue[k]) \in Nat
        /\ \A i \in 1..Len(Tail(receive_queue[k])) :
             Tail(receive_queue[k])[i] = receive_queue[k][i + 1]
    BY <1>a, HeadTailProperties, LenProperties
  <2>2. SUFFICES ASSUME NEW q \in LocalIds, NEW i \in 1..Len(receive_queue'[q])
                 PROVE  receive_queue'[q][i].arg0 \notin StaleIds
    BY DEF QueuesClean
  <2>3. CASE q = k
    <3>0. receive_queue'[q] = Tail(receive_queue[k])
      BY <1>a, <2>3
    <3>1. /\ i + 1 \in 1..Len(receive_queue[k])
          /\ receive_queue'[q][i] = receive_queue[k][i + 1]
      BY <2>1, <2>2, <3>0
    <3>2. QED
      BY <3>1, <2>3 DEF StaleInv, QueuesClean
  <2>4. CASE q # k
    BY <1>a, <1>b, <2>2, <2>4 DEF StaleInv, QueuesClean
  <2>5. QED
    BY <2>3, <2>4
<1>3. SignedAfterAnswer' /\ QueuesAfterAnswer'
  BY DEF StaleInv, SignedAfterAnswer, QueuesAfterAnswer, Take
<1>4. \A r \in StaleIds : IsOpen(r)' <=> IsOpen(r)
  BY DEF IsOpen
<1>5. QED
  BY <1>c, <1>1, <1>2, <1>3, <1>4
     DEF Take, StaleInv, OldStreamsDropped, NoStaleBehindAnswer, PipeClean, HandClean

LEMMA StaleAuthenticate ==
  ASSUME AuthTypeOK, StaleInv, Authenticate
  PROVE  StaleInv'
<1>a. /\ Msg("CNXN", 1, 0, NoData) \in Message
      /\ Msg("AUTH", 2, 0, auth_token) \in Message
      /\ Msg("AUTH", 3, 0, NoData) \in Message
  BY MsgType, NoDataType DEF AuthTypeOK, Commands
<1>b. /\ Msg("CNXN", 1, 0, NoData).cmd = "CNXN"
      /\ Msg("AUTH", 2, 0, auth_token).cmd = "AUTH"
      /\ Msg("AUTH", 3, 0, NoData).cmd = "AUTH"
      /\ \A m : Payload(m) \in Message => Payload(m).cmd # "AUTH"
  BY DEF Msg, Payload, Message
<1>c. /\ Payload(Msg("CNXN", 1, 0, NoData)) \in Message
      /\ Payload(Msg("AUTH", 2, 0, auth_token)) \in Message
      /\ Payload(Msg("AUTH", 3, 0, NoData)) \in Message
  BY <1>a, PayloadType
<1>d. \A m : Payload(m) = [m EXCEPT !.cmd = "DATA"]
  BY DEF Payload
<1>e. ASSUME NEW m \in Message PROVE Payload(m).cmd = "DATA"
  BY DEF Payload, Message
<1>f. opened # {} => auth_pc = "done"
  BY DEF StaleInv, QueuesAfterAnswer
<1>g. Default \in Keys
  BY DEF Keys
<1>1. CASE SendConnect
  <2>1. (AnswerTaken' <=> AnswerTaken) /\ opened = {}
    BY <1>1, <1>f DEF SendConnect, Goto, AnswerTaken
  <2>2. CASE PutHeader(Msg("CNXN", 1, 0, NoData))
    BY <1>1, <1>a, <1>b, <2>1, <2>2, StalePut DEF SendConnect, PutHeader, daemonVars
  <2>3. CASE PutPayload(Msg("CNXN", 1, 0, NoData))
    BY <1>1, <1>a, <1>c, <1>e, <2>1, <2>3, StalePut DEF SendConnect, PutPayload, daemonVars
  <2>4. QED
    BY <1>1, <2>2, <2>3 DEF SendConnect
<1>2. CASE FirstAnswer
  BY <1>2, <1>g, StaleTake DEF FirstAnswer, AnswerTaken, daemonVars
<1>3. CASE SendSignature
  <2>1. AnswerTaken' /\ AnswerTaken /\ opened = {}
    BY <1>3, <1>f DEF SendSignature, Goto, AnswerTaken
  <2>2. CASE PutHeader(Msg("AUTH", 2, 0, auth_token))
    BY <1>3, <1>a, <1>b, <2>1, <2>2, StalePut DEF SendSignature, PutHeader, daemonVars
  <2>3. CASE PutPayload(Msg("AUTH", 2, 0, auth_token))
    BY <1>3, <1>a, <1>c, <1>e, <2>1, <2>3, StalePut DEF SendSignature, PutPayload, daemonVars
  <2>4. QED
    BY <1>3, <2>2, <2>3 DEF SendSignature
<1>4. CASE SecondAnswer
  BY <1>4, <1>g, StaleTake DEF SecondAnswer, AnswerTaken, daemonVars
<1>5. CASE OfferKey
  <2>1. AnswerTaken' /\ AnswerTaken /\ opened = {}
    BY <1>5, <1>f DEF OfferKey, Goto, AnswerTaken
  <2>2. CASE PutHeader(Msg("AUTH", 3, 0, NoData))
    BY <1>5, <1>a, <1>b, <2>1, <2>2, StalePut DEF OfferKey, PutHeader, daemonVars
  <2>3. CASE PutPayload(Msg("AUTH", 3, 0, NoData))
    BY <1>5, <1>a, <1>c, <1>e, <2>1, <2>3, StalePut DEF OfferKey, PutPayload, daemonVars
  <2>4. QED
    BY <1>5, <2>2, <2>3 DEF OfferKey
<1>6. QED
  BY <1>1, <1>2, <1>3, <1>4, <1>5 DEF Authenticate

LEMMA StaleUnchanged ==
  ASSUME StaleInv, UNCHANGED AuthVars
  PROVE  StaleInv'
BY DEF AuthVars, protocolVars, daemonVars, authVars, StaleInv, OldStreamsDropped,
       NoStaleBehindAnswer, PipeClean, HandClean, QueuesAfterAnswer, QueuesClean,
       SignedAfterAnswer, AnswerSent, AnswerHeld, Answered, AnswerTaken, Holding, IsOpen

LEMMA StaleStep ==
  ASSUME AuthTypeOK, StaleInv, AuthNext
  PROVE  StaleInv'
BY StaleHostThreads, StaleDaemon, StaleAuthenticate DEF AuthNext

(* While the device is being connected no stream is opened, so nothing but *)
(* the answers has a queue.                                                *)
NothingOpened == opened = {} /\ \A k \in LocalIds : receive_queue[k] = <<>>

LEMMA NothingOpenedStep ==
  ASSUME AuthTypeOK, NothingOpened, AuthNext
  PROVE  NothingOpened'
<1>a. \A k \in LocalIds : k # Default /\ k \in Keys
  BY ProtocolAssumption DEF Default, Keys
<1>1. CASE HostThreads
  BY <1>1, <1>a DEF NothingOpened, HostThreads, ReceiveLoop, SendLoop, WriteError,
     ReceiveFrame, ChecksumError, AckWrite, Deliver, Discard, HasQueue, KeyOf,
     AuthTypeOK, ProtocolTypeOK
<1>2. CASE Daemon
  BY <1>2 DEF NothingOpened, Daemon, DevPacket, DevConnect, DevSignature, DevPublicKey,
     DevOpen, DevAck, DevCloseRequest, DevHostWrite, DevIgnore, DevGarbled,
     DevStreamWrite, DevStreamEnd, DevReads, DevWrites
<1>3. CASE Authenticate
  BY <1>3, <1>a DEF NothingOpened, Authenticate, SendConnect, FirstAnswer, SendSignature,
     SecondAnswer, OfferKey, PutHeader, PutPayload, Take, Msg, AuthTypeOK, ProtocolTypeOK
<1>4. QED
  BY <1>1, <1>2, <1>3 DEF AuthNext

(* Whatever an earlier process left in the pipe, nothing of it is left in  *)
(* the pipe, in the receive thread or in a queue when authenticate() has   *)
(* returned (libadb/device.py, with libadb/protocol.py receive_loop).      *)
THEOREM StaleGoneAfterConnect == AuthSpec => []NoStaleAfterConnect
<1> DEFINE I == AuthTypeOK /\ StaleInv /\ NothingOpened
<1>1. AuthInit => I
  <2>1. AuthInit => NothingOpened
    BY DEF AuthInit, ProtocolInit, NothingOpened, Keys
  <2>2. QED
    BY <2>1, AuthInitType, StaleInit
<1>2. I /\ [AuthNext]_AuthVars => I'
  <2>1. ASSUME I, UNCHANGED AuthVars PROVE I'
    <3>1. AuthTypeOK'
      BY <2>1 DEF AuthTypeOK, ProtocolTypeOK, DaemonTypeOK, AuthVars, protocolVars,
                  daemonVars, authVars
    <3>2. NothingOpened'
      BY <2>1 DEF NothingOpened, AuthVars, protocolVars
    <3>3. QED
      BY <2>1, <3>1, <3>2, StaleUnchanged
  <2>2. QED
    BY <2>1, AuthNextType, StaleStep, NothingOpenedStep
<1>3. I => NoStaleAfterConnect
  <2>1. SUFFICES ASSUME I, auth_pc = "done"
                 PROVE  NoStaleAfterConnect
    BY DEF NoStaleAfterConnect
  <2>2. Answered /\ AnswerHeld
    BY <2>1 DEF Answered, AnswerHeld, AnswerTaken
  <2>3. rx_pc \in {"ack", "deliver"} => ~FromStale(rx_msg)
    BY <2>1, <2>2 DEF HandClean, StaleInv, Holding
  <2>4. \A k \in LocalIds : \A i \in 1..Len(receive_queue[k]) : ~FromStale(receive_queue[k][i])
    BY <2>1 DEF NothingOpened
  <2>5. QED
    BY <2>1, <2>2, <2>3, <2>4 DEF NoStaleAfterConnect, StaleInv, PipeClean
<1>4. QED
  BY <1>1, <1>2, <1>3, PTL DEF AuthSpec

-----------------------------------------------------------------------------
(* A host that has connected is served.  The CNXN that authenticate()      *)
(* takes for success is the last word of the handshake: when adbd says it, *)
(* nothing of the handshake is on the way to it that could make it ask for *)
(* a signature again.                                                      *)
Cmds(s) == {s[i].cmd : i \in 1..Len(s)}
OutCmds == Cmds(usb_out) \cup Cmds(send_queue)
BackCmds == Cmds(usb_in) \cup {rx_msg.cmd} \cup Cmds(receive_queue[Default])
HandshakeCmds == {"AUTH", "CNXN"}

(* In a sequence, then in what is on the way to adbd: nothing of the       *)
(* handshake follows an AUTH.                                              *)
AuthLast(s) ==
  \A i, j \in 1..Len(s) : i < j /\ s[i].cmd = "AUTH" => s[j].cmd \notin HandshakeCmds
AuthIsLast ==
  /\ AuthLast(usb_out)
  /\ AuthLast(send_queue)
  /\ "AUTH" \in Cmds(usb_out) => Cmds(send_queue) \cap HandshakeCmds = {}

(* The host may still come to believe that it is connected.                *)
Hopeful == auth_pc \notin {"offer_key", "offer_key_data", "failed"}

DefaultClean == Cmds(receive_queue[Default]) \subseteq HandshakeCmds
NoAuthAsked ==
  ~AuthRequired =>
    /\ "AUTH" \notin OutCmds \cup BackCmds
    /\ auth_pc \in {"connect", "connect_data", "await_first", "done"}
NotYetSigned ==
  AuthRequired /\ auth_pc \in {"connect", "connect_data", "await_first", "sign"} =>
    "AUTH" \notin OutCmds /\ "CNXN" \notin BackCmds
SignedOnce == AuthRequired /\ Hopeful => AuthIsLast
ServedWhenTold ==
  Hopeful /\ ("CNXN" \in BackCmds \/ auth_pc = "done") =>
    /\ dev_auth = "online"
    /\ AuthRequired => OutCmds \cap HandshakeCmds = {}

OnlineInv ==
  /\ DefaultClean
  /\ NoAuthAsked
  /\ NotYetSigned
  /\ SignedOnce
  /\ ServedWhenTold

LEMMA CmdsAppend ==
  ASSUME NEW s \in Seq(Message), NEW m \in Message
  PROVE  /\ Cmds(Append(s, m)) = Cmds(s) \cup {m.cmd}
         /\ AuthLast(s) /\ (m.cmd \in HandshakeCmds => "AUTH" \notin Cmds(s))
              => AuthLast(Append(s, m))
<1>1. /\ Len(s) \in Nat /\ Len(Append(s, m)) = Len(s) + 1
      /\ \A i \in 1..Len(s) : Append(s, m)[i] = s[i]
      /\ Append(s, m)[Len(s) + 1] = m
  BY AppendProperties, LenProperties
<1>2. \A i \in 1..Len(s) + 1 : i \in 1..Len(s) \/ i = Len(s) + 1
  BY <1>1
<1>3. 1..Len(s) \subseteq 1..Len(s) + 1 /\ Len(s) + 1 \in 1..Len(s) + 1
  BY <1>1
<1>4. Cmds(Append(s, m)) = Cmds(s) \cup {m.cmd}
  <2>1. Cmds(Append(s, m)) \subseteq Cmds(s) \cup {m.cmd}
    BY <1>1, <1>2 DEF Cmds
  <2>2. Cmds(s) \cup {m.cmd} \subseteq Cmds(Append(s, m))
    BY <1>1, <1>3 DEF Cmds
  <2> QED BY <2>1, <2>2
<1>5. ASSUME AuthLast(s), m.cmd \in HandshakeCmds => "AUTH" \notin Cmds(s)
      PROVE  AuthLast(Append(s, m))
  <2> SUFFICES ASSUME NEW i \in 1..Len(s) + 1, NEW j \in 1..Len(s) + 1, i < j,
                      Append(s, m)[i].cmd = "AUTH"
               PROVE  Append(s, m)[j].cmd \notin HandshakeCmds
    BY <1>1 DEF AuthLast
  <2>1. i \in 1..Len(s) /\ s[i].cmd = "AUTH"
    BY <1>1
  <2>2. CASE j \in 1..Len(s)
    BY <1>1, <1>5, <2>1, <2>2 DEF AuthLast
  <2>3. CASE j = Len(s) + 1
    BY <1>1, <1>5, <2>1, <2>3 DEF Cmds
  <2> QED BY <1>2, <2>2, <2>3
<1> QED BY <1>4, <1>5

LEMMA CmdsTail ==
  ASSUME NEW s \in Seq(Message), s # <<>>
  PROVE  /\ Tail(s) \in Seq(Message) /\ Head(s) \in Message
         /\ Cmds(Tail(s)) \subseteq Cmds(s) /\ Head(s).cmd \in Cmds(s)
         /\ AuthLast(s) => AuthLast(Tail(s))
         /\ AuthLast(s) /\ Head(s).cmd = "AUTH" => Cmds(Tail(s)) \cap HandshakeCmds = {}
<1>1. /\ Len(s) \in Nat \ {0} /\ Head(s) = s[1] /\ Len(Tail(s)) = Len(s) - 1
      /\ \A i \in 1..Len(Tail(s)) : Tail(s)[i] = s[i + 1]
      /\ Tail(s) \in Seq(Message) /\ Head(s) \in Message
  BY HeadTailProperties, LenProperties, EmptySeq
<1>2. 1 \in 1..Len(s) /\ \A i \in 1..Len(Tail(s)) : i + 1 \in 1..Len(s) /\ 1 < i + 1
  BY <1>1
<1>3. Cmds(Tail(s)) \subseteq Cmds(s) /\ Head(s).cmd \in Cmds(s)
  BY <1>1, <1>2 DEF Cmds
<1>4. AuthLast(s) => AuthLast(Tail(s))
  <2>1. \A i, j \in 1..Len(Tail(s)) : i < j => i + 1 < j + 1
    BY <1>1
  <2> QED BY <1>1, <1>2, <2>1 DEF AuthLast
<1>5. AuthLast(s) /\ Head(s).cmd = "AUTH" => Cmds(Tail(s)) \cap HandshakeCmds = {}
  <2> SUFFICES ASSUME AuthLast(s), Head(s).cmd = "AUTH", NEW i \in 1..Len(Tail(s))
               PROVE  Tail(s)[i].cmd \notin HandshakeCmds
    BY DEF Cmds
  <2> QED BY <1>1, <1>2 DEF AuthLast
<1> QED BY <1>1, <1>3, <1>4, <1>5

LEMMA CmdsReply ==
  ASSUME NEW s \in Seq(Message), NEW m \in Message
  PROVE  /\ Cmds(s \o <<m>>) = Cmds(s) \cup {m.cmd}
         /\ Cmds(s \o <<>>) = Cmds(s)
         /\ Cmds(<<>>) = {}
<1>1. s \o <<m>> = Append(s, m) /\ s \o <<>> = s
  BY AppendIsConcat, ConcatEmptySeq
<1>2. Cmds(<<>>) = {}
  BY DEF Cmds
<1> QED BY <1>1, <1>2, CmdsAppend

(* Every step that neither says nor hears a word of the handshake.         *)
StreamCmds == {"OPEN", "OKAY", "CLSE", "WRTE", "DATA"}

LEMMA OnlineKept ==
  ASSUME OnlineInv, UNCHANGED <<auth_pc, dev_auth>>, DefaultClean',
         OutCmds' \subseteq OutCmds \cup StreamCmds,
         BackCmds' \subseteq BackCmds \cup StreamCmds,
         AuthIsLast => AuthIsLast'
  PROVE  OnlineInv'
<1>1. NoAuthAsked'
  BY DEF OnlineInv, NoAuthAsked, StreamCmds
<1>2. NotYetSigned'
  BY DEF OnlineInv, NotYetSigned, StreamCmds
<1>3. SignedOnce'
  BY DEF OnlineInv, SignedOnce, Hopeful
<1>4. ServedWhenTold'
  <2>1. "CNXN" \in BackCmds' => "CNXN" \in BackCmds
    BY DEF StreamCmds
  <2>2. OutCmds \cap HandshakeCmds = {} => OutCmds' \cap HandshakeCmds = {}
    BY DEF StreamCmds, HandshakeCmds
  <2> QED BY <2>1, <2>2 DEF OnlineInv, ServedWhenTold, Hopeful
<1> QED BY <1>1, <1>2, <1>3, <1>4 DEF OnlineInv

LEMMA OnlinePut ==
  ASSUME AuthTypeOK, NEW m \in Message, send_queue' = Append(send_queue, m), usb_out' = usb_out
  PROVE  /\ OutCmds' = OutCmds \cup {m.cmd}
         /\ AuthIsLast /\ (m.cmd \in HandshakeCmds => "AUTH" \notin OutCmds) => AuthIsLast'
<1>1. send_queue \in Seq(Message)
  BY DEF AuthTypeOK, ProtocolTypeOK
<1>2. /\ Cmds(send_queue') = Cmds(send_queue) \cup {m.cmd}
      /\ AuthLast(send_queue) /\ (m.cmd \in HandshakeCmds => "AUTH" \notin Cmds(send_queue))
           => AuthLast(send_queue')
  BY <1>1, CmdsAppend
<1> QED BY <1>2 DEF OutCmds, AuthIsLast

LEMMA OnlineHostThreads ==
  ASSUME AuthTypeOK, OnlineInv, HostThreads, UNCHANGED <<auth_pc, dev_auth>>
  PROVE  OnlineInv'
<1>0. /\ send_queue \in Seq(Message) /\ usb_out \in Seq(Message) /\ usb_in \in Seq(Message)
      /\ receive_queue \in [Keys -> Seq(Message)] /\ rx_msg \in Message
      /\ opened \subseteq LocalIds /\ Default \in Keys /\ Default \notin LocalIds
  BY ProtocolAssumption DEF AuthTypeOK, ProtocolTypeOK, Keys, Default
<1>1. CASE SendLoop
  <2>1. /\ send_queue # <<>> /\ send_queue' = Tail(send_queue)
        /\ usb_out' = Append(usb_out, Head(send_queue))
        /\ UNCHANGED <<receive_queue, rx_msg, usb_in>>
    BY <1>1 DEF SendLoop
  <2>2. /\ Head(send_queue) \in Message
        /\ Cmds(send_queue') \subseteq Cmds(send_queue) /\ Head(send_queue).cmd \in Cmds(send_queue)
        /\ AuthLast(send_queue) => AuthLast(send_queue')
        /\ AuthLast(send_queue) /\ Head(send_queue).cmd = "AUTH"
             => Cmds(send_queue') \cap HandshakeCmds = {}
    BY <1>0, <2>1, CmdsTail
  <2>3. /\ Cmds(usb_out') = Cmds(usb_out) \cup {Head(send_queue).cmd}
        /\ AuthLast(usb_out) /\ (Head(send_queue).cmd \in HandshakeCmds => "AUTH" \notin Cmds(usb_out))
             => AuthLast(usb_out')
    BY <1>0, <2>1, <2>2, CmdsAppend
  <2>4. AuthIsLast => AuthIsLast'
    BY <2>2, <2>3 DEF AuthIsLast
  <2>5. OutCmds' \subseteq OutCmds /\ BackCmds' = BackCmds /\ DefaultClean'
    BY <2>1, <2>2, <2>3 DEF OutCmds, BackCmds, OnlineInv, DefaultClean
  <2> QED BY <2>4, <2>5, OnlineKept
<1>2. CASE WriteError
  <2>1. /\ send_queue # <<>> /\ send_queue' = Tail(send_queue)
        /\ UNCHANGED <<receive_queue, rx_msg, usb_in, usb_out>>
    BY <1>2 DEF WriteError
  <2>2. /\ Cmds(send_queue') \subseteq Cmds(send_queue)
        /\ AuthLast(send_queue) => AuthLast(send_queue')
    BY <1>0, <2>1, CmdsTail
  <2>3. AuthIsLast => AuthIsLast'
    BY <2>1, <2>2 DEF AuthIsLast
  <2>4. OutCmds' \subseteq OutCmds /\ BackCmds' = BackCmds /\ DefaultClean'
    BY <2>1, <2>2 DEF OutCmds, BackCmds, OnlineInv, DefaultClean
  <2> QED BY <2>3, <2>4, OnlineKept
<1>3. CASE ReceiveFrame \/ ChecksumError
  <2>1. /\ usb_in # <<>> /\ usb_in' = Tail(usb_in) /\ (rx_msg' = Head(usb_in) \/ rx_msg' = rx_msg)
        /\ UNCHANGED <<receive_queue, send_queue, usb_out>>
    BY <1>3 DEF ReceiveFrame, ChecksumError
  <2>2. Cmds(usb_in') \subseteq Cmds(usb_in) /\ Head(usb_in).cmd \in Cmds(usb_in)
    BY <1>0, <2>1, CmdsTail
  <2>3. OutCmds' = OutCmds /\ BackCmds' \subseteq BackCmds /\ DefaultClean' /\ (AuthIsLast => AuthIsLast')
    BY <2>1, <2>2 DEF OutCmds, BackCmds, OnlineInv, DefaultClean, AuthIsLast
  <2> QED BY <2>3, OnlineKept
<1>4. CASE AckWrite
  <2> DEFINE m == Msg("OKAY", rx_msg.arg1, rx_msg.arg0, NoData)
  <2>1. m \in Message /\ m.cmd = "OKAY"
    BY <1>0, NoDataType DEF Msg, Message, Commands
  <2>2. /\ send_queue' = Append(send_queue, m)
        /\ UNCHANGED <<receive_queue, rx_msg, usb_in, usb_out>>
    BY <1>4 DEF AckWrite
  <2> HIDE DEF m
  <2>3. OutCmds' = OutCmds \cup {"OKAY"} /\ (AuthIsLast => AuthIsLast')
    BY <2>1, <2>2, OnlinePut DEF HandshakeCmds
  <2>4. BackCmds' = BackCmds /\ DefaultClean'
    BY <2>2 DEF BackCmds, OnlineInv, DefaultClean
  <2> QED BY <2>3, <2>4, OnlineKept DEF StreamCmds
<1>5. CASE Deliver \/ Discard
  <2>1. rx_msg' = NoMsg /\ NoMsg.cmd = "DATA" /\ UNCHANGED <<send_queue, usb_in, usb_out>>
    BY <1>5 DEF Deliver, Discard, NoMsg, Msg
  <2>2. /\ Cmds(receive_queue'[Default]) \subseteq Cmds(receive_queue[Default]) \cup {rx_msg.cmd}
        /\ DefaultClean'
    <3>1. CASE Deliver /\ KeyOf(rx_msg) = Default
      <4>1. receive_queue'[Default] = Append(receive_queue[Default], rx_msg)
        BY <1>0, <3>1 DEF Deliver
      <4>2. IsHandshake(rx_msg)
        BY <1>0, <3>1 DEF Deliver, HasQueue, KeyOf
      <4>3. Cmds(receive_queue'[Default]) = Cmds(receive_queue[Default]) \cup {rx_msg.cmd}
        BY <1>0, <4>1, CmdsAppend
      <4> QED BY <4>2, <4>3 DEF OnlineInv, DefaultClean, IsHandshake, HandshakeCmds
    <3>2. CASE ~(Deliver /\ KeyOf(rx_msg) = Default)
      <4>1. receive_queue'[Default] = receive_queue[Default]
        BY <1>0, <1>5, <3>2 DEF Deliver, Discard
      <4> QED BY <4>1 DEF OnlineInv, DefaultClean
    <3> QED BY <3>1, <3>2
  <2>3. OutCmds' = OutCmds /\ (AuthIsLast => AuthIsLast')
    BY <2>1 DEF OutCmds, AuthIsLast
  <2>4. BackCmds' \subseteq BackCmds \cup StreamCmds
    BY <2>1, <2>2 DEF BackCmds, StreamCmds
  <2> QED BY <2>2, <2>3, <2>4, OnlineKept
<1> QED BY <1>1, <1>2, <1>3, <1>4, <1>5 DEF HostThreads, ReceiveLoop

LEMMA OnlineDevReads ==
  ASSUME AuthTypeOK, NEW reply \in Seq(Message), DevReads(reply)
  PROVE  /\ OutCmds' \subseteq OutCmds /\ Frame.cmd \in OutCmds
         /\ AuthIsLast => AuthIsLast'
         /\ AuthIsLast /\ Frame.cmd = "AUTH" => OutCmds' \cap HandshakeCmds = {}
         /\ reply = <<>> => BackCmds' = BackCmds
         /\ \A m \in Message : reply = <<m>> => BackCmds' = BackCmds \cup {m.cmd}
         /\ DefaultClean => DefaultClean'
<1>0. /\ usb_out \in Seq(Message) /\ usb_in \in Seq(Message) /\ usb_out # <<>>
      /\ usb_out' = IF HasPayload(Frame) THEN Tail(Tail(usb_out)) ELSE Tail(usb_out)
      /\ HasPayload(Frame) => Len(usb_out) > 1
      /\ usb_in' = usb_in \o reply
      /\ UNCHANGED <<send_queue, receive_queue, rx_msg>>
  BY DEF AuthTypeOK, ProtocolTypeOK, DevReads, FrameReady
<1>1. /\ Tail(usb_out) \in Seq(Message)
      /\ Cmds(Tail(usb_out)) \subseteq Cmds(usb_out) /\ Head(usb_out).cmd \in Cmds(usb_out)
      /\ AuthLast(usb_out) => AuthLast(Tail(usb_out))
      /\ AuthLast(usb_out) /\ Head(usb_out).cmd = "AUTH"
           => Cmds(Tail(usb_out)) \cap HandshakeCmds = {}
  BY <1>0, CmdsTail
<1>2. /\ Cmds(usb_out') \subseteq Cmds(Tail(usb_out))
      /\ AuthLast(usb_out) => AuthLast(usb_out')
  <2>1. CASE HasPayload(Frame)
    <3>1. Tail(usb_out) # <<>>
      <4>1. Len(usb_out) \in Nat /\ Len(Tail(usb_out)) = Len(usb_out) - 1
        BY <1>0, HeadTailProperties, LenProperties
      <4>2. Len(Tail(usb_out)) # 0
        <5>1. Len(usb_out) > 1
          BY <1>0, <2>1
        <5>2. \A n \in Nat : n > 1 => n - 1 # 0
          OBVIOUS
        <5> QED BY <4>1, <5>1, <5>2, Zenon
      <4> QED BY <1>1, <4>2, EmptySeq
    <3>2. /\ Cmds(Tail(Tail(usb_out))) \subseteq Cmds(Tail(usb_out))
          /\ AuthLast(Tail(usb_out)) => AuthLast(Tail(Tail(usb_out)))
      BY <1>1, <3>1, CmdsTail
    <3> QED BY <1>0, <1>1, <2>1, <3>2
  <2>2. CASE ~HasPayload(Frame)
    BY <1>0, <1>1, <2>2
  <2> QED BY <2>1, <2>2
<1>3. OutCmds' \subseteq OutCmds /\ Frame.cmd \in OutCmds
  BY <1>0, <1>1, <1>2 DEF OutCmds, Frame
<1>4. AuthIsLast => AuthIsLast'
  BY <1>0, <1>1, <1>2 DEF AuthIsLast
<1>5. AuthIsLast /\ Frame.cmd = "AUTH" => OutCmds' \cap HandshakeCmds = {}
  BY <1>0, <1>1, <1>2 DEF AuthIsLast, OutCmds, Frame
<1>6. /\ reply = <<>> => Cmds(usb_in') = Cmds(usb_in)
      /\ \A m \in Message : reply = <<m>> => Cmds(usb_in') = Cmds(usb_in) \cup {m.cmd}
  <2>1. usb_in \in Seq(Message) /\ usb_in' = usb_in \o reply
    BY <1>0
  <2>2. ASSUME reply = <<>> PROVE Cmds(usb_in') = Cmds(usb_in)
    <3>1. Cmds(usb_in \o <<>>) = Cmds(usb_in)
      BY <2>1, NoDataType, CmdsReply
    <3> QED BY <2>1, <2>2, <3>1
  <2>3. ASSUME NEW m \in Message, reply = <<m>> PROVE Cmds(usb_in') = Cmds(usb_in) \cup {m.cmd}
    <3>1. Cmds(usb_in \o <<m>>) = Cmds(usb_in) \cup {m.cmd}
      BY <2>1, CmdsReply
    <3> QED BY <2>1, <2>3, <3>1
  <2> QED BY <2>2, <2>3
<1>7. DefaultClean => DefaultClean'
  BY <1>0 DEF DefaultClean
<1> QED BY <1>0, <1>3, <1>4, <1>5, <1>6, <1>7 DEF BackCmds

(* What adbd says of a stream.                                             *)
LEMMA OnlineStreamReply ==
  ASSUME AuthTypeOK, OnlineInv, NEW reply \in Seq(Message), DevReads(reply),
         reply = <<>> \/ \E m \in Message : reply = <<m>> /\ m.cmd \in StreamCmds,
         UNCHANGED <<auth_pc, dev_auth>>
  PROVE  OnlineInv'
<1>1. /\ OutCmds' \subseteq OutCmds
      /\ AuthIsLast => AuthIsLast'
      /\ reply = <<>> => BackCmds' = BackCmds
      /\ \A m \in Message : reply = <<m>> => BackCmds' = BackCmds \cup {m.cmd}
      /\ DefaultClean => DefaultClean'
  BY OnlineDevReads
<1>2. BackCmds' \subseteq BackCmds \cup StreamCmds
  BY <1>1
<1> QED BY <1>1, <1>2, OnlineKept DEF OnlineInv

(* adbd accepts: then no word of the handshake is on the way to it.        *)
LEMMA OnlineAccept ==
  ASSUME AuthTypeOK, OnlineInv, DevReads(<<Connected>>), UNCHANGED auth_pc, dev_auth' = "online",
         AuthRequired => Frame.cmd = "AUTH"
  PROVE  OnlineInv'
<1>0. Connected \in Message /\ Connected.cmd = "CNXN" /\ <<Connected>> \in Seq(Message)
  <2>1. Connected \in Message
    BY MsgType, NoDataType DEF Connected, Commands
  <2> QED BY <2>1, AnswerType DEF Connected, Msg
<1>1. /\ OutCmds' \subseteq OutCmds /\ Frame.cmd \in OutCmds
      /\ AuthIsLast => AuthIsLast'
      /\ AuthIsLast /\ Frame.cmd = "AUTH" => OutCmds' \cap HandshakeCmds = {}
      /\ BackCmds' = BackCmds \cup {"CNXN"}
      /\ DefaultClean => DefaultClean'
  BY <1>0, OnlineDevReads
<1>2. DefaultClean' /\ NoAuthAsked'
  BY <1>1 DEF OnlineInv, NoAuthAsked
<1>3. NotYetSigned'
  BY <1>1 DEF OnlineInv, NotYetSigned
<1>4. SignedOnce' /\ ServedWhenTold'
  BY <1>1 DEF OnlineInv, SignedOnce, ServedWhenTold, Hopeful
<1> QED BY <1>2, <1>3, <1>4 DEF OnlineInv

(* adbd asks for a signature, of a host that has not been told that it is  *)
(* connected.                                                              *)
LEMMA OnlineChallenge ==
  ASSUME AuthTypeOK, OnlineInv, NEW n \in Nat, DevReads(<<Challenge(n)>>), UNCHANGED auth_pc,
         AuthRequired, Frame.cmd \in HandshakeCmds
  PROVE  OnlineInv'
<1>0. /\ Challenge(n) \in Message /\ Challenge(n).cmd = "AUTH"
      /\ <<Challenge(n)>> \in Seq(Message)
  <2>1. Challenge(n) \in Message
    BY MsgType DEF Challenge, Data, Commands
  <2> QED BY <2>1, AnswerType DEF Challenge, Msg
<1>1. /\ OutCmds' \subseteq OutCmds /\ Frame.cmd \in OutCmds
      /\ AuthIsLast => AuthIsLast'
      /\ BackCmds' = BackCmds \cup {"AUTH"}
      /\ DefaultClean => DefaultClean'
  BY <1>0, OnlineDevReads
<1>2. Hopeful => "CNXN" \notin BackCmds /\ auth_pc # "done"
  BY <1>1 DEF OnlineInv, ServedWhenTold
<1>3. DefaultClean' /\ NoAuthAsked'
  BY <1>1 DEF OnlineInv, NoAuthAsked
<1>4. NotYetSigned'
  BY <1>1 DEF OnlineInv, NotYetSigned
<1>5. SignedOnce' /\ ServedWhenTold'
  BY <1>1, <1>2 DEF OnlineInv, SignedOnce, ServedWhenTold, Hopeful
<1> QED BY <1>3, <1>4, <1>5 DEF OnlineInv

LEMMA OnlineDaemon ==
  ASSUME AuthTypeOK, OnlineInv, Daemon, UNCHANGED auth_pc
  PROVE  OnlineInv'
<1>a. ASSUME FrameReady
      PROVE  Frame \in Message /\ Frame.arg0 \in Nat /\ Frame.arg1 \in Nat
  BY <1>a, FrameType DEF Message, AuthTypeOK
<1>b. \A cmd \in {"OKAY", "CLSE", "WRTE"} : \A a0, a1 \in Nat : \A d \in Data :
        /\ Msg(cmd, a0, a1, d) \in Message /\ Msg(cmd, a0, a1, d).cmd \in StreamCmds
        /\ <<Msg(cmd, a0, a1, d)>> \in Seq(Message)
  <2> TAKE cmd \in {"OKAY", "CLSE", "WRTE"}
  <2> TAKE a0, a1 \in Nat
  <2> TAKE d \in Data
  <2>1. Msg(cmd, a0, a1, d) \in Message
    BY MsgType DEF Commands
  <2> QED BY <2>1, AnswerType DEF Msg, StreamCmds
<1>c. \A r \in StreamIds : r \in Nat /\ stream[r].peer \in Nat /\ stream[r].sent \in Nat
  BY StreamIdType DEF AuthTypeOK, DaemonTypeOK, Stream
<1>d. <<>> \in Seq(Message) /\ dev_token + 1 \in Nat /\ NoData \in Data /\ 0 \in Nat
  BY AnswerType, NoDataType DEF AuthTypeOK, DaemonTypeOK
<1>1. CASE DevConnect
  <2>1. Frame.cmd = "CNXN"
    BY <1>1 DEF DevConnect, Receives
  <2>2. CASE AuthRequired
    BY <1>1, <1>d, <2>1, <2>2, OnlineChallenge DEF DevConnect, HandshakeCmds
  <2>3. CASE ~AuthRequired
    BY <1>1, <2>3, OnlineAccept DEF DevConnect
  <2> QED BY <2>2, <2>3
<1>2. CASE DevSignature \/ DevPublicKey
  <2>0. Frame.cmd = "AUTH" /\ FrameReady
    BY <1>2 DEF DevSignature, DevPublicKey, Receives
  <2>1. AuthRequired
    <3>1. usb_out \in Seq(Message) /\ usb_out # <<>>
      BY <2>0 DEF AuthTypeOK, ProtocolTypeOK, FrameReady
    <3>2. Frame.cmd \in OutCmds
      BY <3>1, CmdsTail DEF Frame, OutCmds
    <3> QED BY <2>0, <3>2 DEF OnlineInv, NoAuthAsked
  <2>2. CASE DevReads(<<Connected>>) /\ dev_auth' = "online"
    BY <2>0, <2>2, OnlineAccept
  <2>3. CASE DevReads(<<Challenge(dev_token + 1)>>)
    BY <1>d, <2>0, <2>1, <2>3, OnlineChallenge DEF HandshakeCmds
  <2>4. CASE DevReads(<<>>) /\ dev_auth' = dev_auth
    BY <1>d, <2>4, OnlineStreamReply
  <2> QED BY <1>2, <2>2, <2>3, <2>4 DEF DevSignature, DevPublicKey
<1>3. CASE DevOpen
  <2>0. Frame.arg0 \in Nat /\ dev_auth' = dev_auth
    BY <1>3, <1>a DEF DevOpen, Receives
  <2>1. CASE DevReads(<<Msg("CLSE", 0, Frame.arg0, NoData)>>)
    BY <1>b, <1>d, <2>0, <2>1, OnlineStreamReply
  <2>2. ASSUME NEW r \in RemoteIds, DevReads(<<Msg("OKAY", r, Frame.arg0, NoData)>>)
        PROVE  OnlineInv'
    <3>1. r \in Nat
      BY <1>c DEF StreamIds
    <3> QED BY <1>b, <1>d, <2>0, <2>2, <3>1, OnlineStreamReply
  <2> QED BY <1>3, <2>1, <2>2 DEF DevOpen
<1>4. CASE DevAck \/ DevIgnore
  <2>1. DevReads(<<>>) /\ dev_auth' = dev_auth
    BY <1>4 DEF DevAck, DevIgnore, daemonVars
  <2> QED BY <1>d, <2>1, OnlineStreamReply
<1>5. CASE DevCloseRequest \/ DevHostWrite
  <2>0. Frame.arg0 \in Nat /\ Frame.arg1 \in Nat /\ dev_auth' = dev_auth
    BY <1>5, <1>a DEF DevCloseRequest, DevHostWrite, Receives
  <2>1. CASE DevReads(<<Msg("CLSE", Frame.arg1, Frame.arg0, NoData)>>)
    BY <1>b, <1>d, <2>0, <2>1, OnlineStreamReply
  <2>2. CASE DevReads(<<Msg("OKAY", Frame.arg1, Frame.arg0, NoData)>>)
    BY <1>b, <1>d, <2>0, <2>2, OnlineStreamReply
  <2>3. CASE DevReads(<<>>)
    BY <1>d, <2>0, <2>3, OnlineStreamReply
  <2> QED BY <1>5, <2>1, <2>2, <2>3 DEF DevCloseRequest, DevHostWrite
<1>6. CASE DevGarbled /\ UNCHANGED daemonVars
  <2>1. UNCHANGED <<send_queue, receive_queue, rx_msg, usb_out, usb_in, dev_auth>>
    BY <1>6 DEF DevGarbled, daemonVars
  <2>2. OutCmds' = OutCmds /\ BackCmds' = BackCmds /\ (AuthIsLast => AuthIsLast') /\ DefaultClean'
    BY <2>1 DEF OutCmds, BackCmds, AuthIsLast, DefaultClean, OnlineInv
  <2> QED BY <2>1, <2>2, OnlineKept
<1>7. ASSUME NEW r \in StreamIds, DevStreamWrite(r) \/ DevStreamEnd(r)
      PROVE  OnlineInv'
  <2>1. PICK m \in Message : DevWrites(m) /\ m.cmd \in StreamCmds
    <3>1. <<r, stream[r].sent + 1>> \in Data
      BY <1>c DEF Data
    <3>2. CASE DevStreamWrite(r)
      BY <1>b, <1>c, <3>1, <3>2 DEF DevStreamWrite
    <3>3. CASE DevStreamEnd(r)
      BY <1>b, <1>c, <1>d, <3>3 DEF DevStreamEnd
    <3> QED BY <1>7, <3>2, <3>3
  <2>2. /\ usb_in \in Seq(Message) /\ usb_in' = Append(usb_in, m)
        /\ UNCHANGED <<send_queue, receive_queue, rx_msg, usb_out>>
    BY <2>1 DEF DevWrites, AuthTypeOK, ProtocolTypeOK
  <2>3. Cmds(usb_in') = Cmds(usb_in) \cup {m.cmd}
    BY <2>2, CmdsAppend
  <2>4. /\ OutCmds' = OutCmds /\ BackCmds' \subseteq BackCmds \cup StreamCmds
        /\ AuthIsLast => AuthIsLast'
        /\ DefaultClean'
    BY <2>1, <2>2, <2>3 DEF OutCmds, BackCmds, AuthIsLast, DefaultClean, OnlineInv
  <2>5. dev_auth' = dev_auth
    BY <1>7 DEF DevStreamWrite, DevStreamEnd
  <2> QED BY <2>4, <2>5, OnlineKept
<1> QED BY <1>1, <1>2, <1>3, <1>4, <1>5, <1>6, <1>7 DEF Daemon, DevPacket

LEMMA OnlineSend ==
  ASSUME AuthTypeOK, OnlineInv, NEW m \in Message, send_queue' = Append(send_queue, m),
         UNCHANGED <<receive_queue, rx_msg, usb_out, usb_in, dev_auth>>
  PROVE  /\ OutCmds' = OutCmds \cup {m.cmd} /\ BackCmds' = BackCmds /\ DefaultClean'
         /\ AuthIsLast /\ (m.cmd \in HandshakeCmds => "AUTH" \notin OutCmds) => AuthIsLast'
BY OnlinePut DEF BackCmds, DefaultClean, OnlineInv

LEMMA OnlineTake ==
  ASSUME AuthTypeOK, OnlineInv, Take(Default)
  PROVE  /\ OutCmds' = OutCmds /\ BackCmds' \subseteq BackCmds /\ DefaultClean'
         /\ Response(Default).cmd \in BackCmds \cap HandshakeCmds
         /\ AuthIsLast => AuthIsLast'
<1>1. /\ Default \in Keys /\ receive_queue \in [Keys -> Seq(Message)]
      /\ receive_queue[Default] # <<>> /\ receive_queue'[Default] = Tail(receive_queue[Default])
      /\ UNCHANGED <<send_queue, rx_msg, usb_out, usb_in>>
  BY DEF AuthTypeOK, ProtocolTypeOK, Keys, Take
<1>2. receive_queue[Default] \in Seq(Message)
  BY <1>1
<1>3. /\ Cmds(receive_queue'[Default]) \subseteq Cmds(receive_queue[Default])
      /\ Response(Default).cmd \in Cmds(receive_queue[Default])
  BY <1>1, <1>2, CmdsTail DEF Response
<1> QED BY <1>1, <1>3 DEF OutCmds, BackCmds, DefaultClean, OnlineInv, AuthIsLast

LEMMA OnlineAuthenticate ==
  ASSUME AuthTypeOK, OnlineInv, Authenticate
  PROVE  OnlineInv'
<1>a. /\ Msg("CNXN", 1, 0, NoData) \in Message
      /\ Msg("AUTH", 2, 0, auth_token) \in Message
      /\ Msg("AUTH", 3, 0, NoData) \in Message
  BY MsgType, NoDataType DEF AuthTypeOK, Commands
<1>b. /\ Msg("CNXN", 1, 0, NoData).cmd = "CNXN"
      /\ Msg("AUTH", 2, 0, auth_token).cmd = "AUTH"
      /\ Msg("AUTH", 3, 0, NoData).cmd = "AUTH"
  BY DEF Msg
<1>c. \A m \in Message : Payload(m) \in Message /\ Payload(m).cmd = "DATA"
  BY PayloadType DEF Payload, Message
<1>d. ASSUME NEW m \in Message, PutPayload(m), UNCHANGED dev_auth
      PROVE  /\ OutCmds' \subseteq OutCmds \cup {"DATA"} /\ BackCmds' = BackCmds /\ DefaultClean'
             /\ AuthIsLast => AuthIsLast'
  <2>1. PICK p \in Message : p = Payload(m) /\ p.cmd = "DATA"
    BY <1>c
  <2>2. /\ send_queue' = Append(send_queue, p)
        /\ UNCHANGED <<receive_queue, rx_msg, usb_out, usb_in, dev_auth>>
    BY <1>d, <2>1 DEF PutPayload
  <2> QED BY <2>1, <2>2, OnlineSend DEF HandshakeCmds
<1>e. ASSUME NEW m \in Message, PutHeader(m), UNCHANGED dev_auth
      PROVE  /\ OutCmds' = OutCmds \cup {m.cmd} /\ BackCmds' = BackCmds /\ DefaultClean'
             /\ AuthIsLast /\ (m.cmd \in HandshakeCmds => "AUTH" \notin OutCmds) => AuthIsLast'
  BY <1>e, OnlineSend DEF PutHeader
<1>1. CASE SendConnect
  <2>1. /\ auth_pc \in {"connect", "connect_data"} /\ auth_pc' \in {"connect_data", "await_first"}
        /\ dev_auth' = dev_auth
    BY <1>1 DEF SendConnect, Goto, daemonVars
  <2>2. /\ OutCmds' \subseteq OutCmds \cup {"CNXN", "DATA"} /\ BackCmds' = BackCmds /\ DefaultClean'
        /\ AuthIsLast /\ "AUTH" \notin OutCmds => AuthIsLast'
    <3>1. CASE PutHeader(Msg("CNXN", 1, 0, NoData))
      BY <1>a, <1>b, <1>e, <2>1, <3>1
    <3>2. CASE PutPayload(Msg("CNXN", 1, 0, NoData))
      BY <1>a, <1>d, <2>1, <3>2
    <3> QED BY <1>1, <3>1, <3>2 DEF SendConnect
  <2>3. "AUTH" \notin OutCmds /\ (AuthRequired => "CNXN" \notin BackCmds)
    BY <2>1 DEF OnlineInv, NoAuthAsked, NotYetSigned
  <2>4. NoAuthAsked' /\ NotYetSigned'
    BY <2>1, <2>2, <2>3 DEF OnlineInv, NoAuthAsked, NotYetSigned
  <2>5. SignedOnce' /\ ServedWhenTold'
    BY <2>1, <2>2, <2>3 DEF OnlineInv, SignedOnce, ServedWhenTold, Hopeful
  <2> QED BY <2>2, <2>4, <2>5 DEF OnlineInv
<1>2. CASE FirstAnswer
  <2>1. /\ OutCmds' = OutCmds /\ BackCmds' \subseteq BackCmds /\ DefaultClean'
        /\ Response(Default).cmd \in BackCmds \cap HandshakeCmds
        /\ AuthIsLast => AuthIsLast'
    BY <1>2, OnlineTake DEF FirstAnswer
  <2>2. auth_pc = "await_first" /\ dev_auth' = dev_auth
    BY <1>2 DEF FirstAnswer, daemonVars
  <2>3. CASE AuthRequired
    <3>1. "CNXN" \notin BackCmds /\ "AUTH" \notin OutCmds
      BY <2>2, <2>3 DEF OnlineInv, NotYetSigned
    <3>2. auth_pc' = "sign"
      BY <1>2, <2>1, <3>1 DEF FirstAnswer, HandshakeCmds
    <3> QED BY <2>1, <2>2, <2>3, <3>1, <3>2
            DEF OnlineInv, NoAuthAsked, NotYetSigned, SignedOnce, ServedWhenTold, Hopeful
  <2>4. CASE ~AuthRequired
    <3>1. "AUTH" \notin BackCmds \cup OutCmds
      BY <2>4 DEF OnlineInv, NoAuthAsked
    <3>2. auth_pc' = "done" /\ "CNXN" \in BackCmds
      BY <1>2, <2>1, <3>1 DEF FirstAnswer, HandshakeCmds
    <3> QED BY <2>1, <2>2, <2>4, <3>1, <3>2
            DEF OnlineInv, NoAuthAsked, NotYetSigned, SignedOnce, ServedWhenTold, Hopeful
  <2> QED BY <2>3, <2>4
<1>3. CASE SendSignature
  <2>1. /\ auth_pc \in {"sign", "sign_data"} /\ auth_pc' \in {"sign_data", "await_second"}
        /\ dev_auth' = dev_auth /\ AuthRequired
    BY <1>3 DEF SendSignature, Goto, daemonVars, OnlineInv, NoAuthAsked
  <2>2. CASE auth_pc = "sign"
    <3>1. PutHeader(Msg("AUTH", 2, 0, auth_token))
      BY <1>3, <2>2 DEF SendSignature, Goto
    <3>2. "CNXN" \notin BackCmds /\ "AUTH" \notin OutCmds /\ AuthIsLast
      BY <2>1, <2>2 DEF OnlineInv, NotYetSigned, SignedOnce, Hopeful
    <3>3. BackCmds' = BackCmds /\ DefaultClean' /\ AuthIsLast'
      BY <1>a, <1>e, <2>1, <3>1, <3>2
    <3> QED BY <2>1, <3>2, <3>3
            DEF OnlineInv, NoAuthAsked, NotYetSigned, SignedOnce, ServedWhenTold, Hopeful
  <2>3. CASE auth_pc = "sign_data"
    <3>1. PutPayload(Msg("AUTH", 2, 0, auth_token)) /\ auth_pc' = "await_second"
      BY <1>3, <2>3 DEF SendSignature, Goto
    <3>2. /\ OutCmds' \subseteq OutCmds \cup {"DATA"} /\ BackCmds' = BackCmds /\ DefaultClean'
          /\ AuthIsLast => AuthIsLast'
      BY <1>a, <1>d, <2>1, <3>1
    <3> QED BY <2>1, <2>3, <3>1, <3>2
            DEF OnlineInv, NoAuthAsked, NotYetSigned, SignedOnce, ServedWhenTold, Hopeful,
                HandshakeCmds
  <2> QED BY <2>1, <2>2, <2>3
<1>4. CASE SecondAnswer
  <2>1. /\ OutCmds' = OutCmds /\ BackCmds' \subseteq BackCmds /\ DefaultClean'
        /\ Response(Default).cmd \in BackCmds \cap HandshakeCmds
        /\ AuthIsLast => AuthIsLast'
    BY <1>4, OnlineTake DEF SecondAnswer
  <2>2. auth_pc = "await_second" /\ dev_auth' = dev_auth /\ AuthRequired
    BY <1>4 DEF SecondAnswer, daemonVars, OnlineInv, NoAuthAsked
  <2>3. \/ auth_pc' = "done" /\ "CNXN" \in BackCmds
        \/ auth_pc' = "offer_key"
    BY <1>4, <2>1 DEF SecondAnswer
  <2> QED BY <2>1, <2>2, <2>3
          DEF OnlineInv, NoAuthAsked, NotYetSigned, SignedOnce, ServedWhenTold, Hopeful
<1>5. CASE OfferKey
  <2>1. /\ auth_pc \in {"offer_key", "offer_key_data"} /\ auth_pc' \in {"offer_key_data", "failed"}
        /\ dev_auth' = dev_auth /\ AuthRequired
    BY <1>5 DEF OfferKey, Goto, daemonVars, OnlineInv, NoAuthAsked
  <2>2. DefaultClean'
    BY <1>5, <1>a, <1>d, <1>e, <2>1 DEF OfferKey
  <2> QED BY <2>1, <2>2
          DEF OnlineInv, NoAuthAsked, NotYetSigned, SignedOnce, ServedWhenTold, Hopeful
<1> QED BY <1>1, <1>2, <1>3, <1>4, <1>5 DEF Authenticate

LEMMA OnlineStep ==
  ASSUME AuthTypeOK, OnlineInv, [AuthNext]_AuthVars
  PROVE  OnlineInv'
<1>1. CASE HostThreads /\ UNCHANGED <<daemonVars, authVars>>
  BY <1>1, OnlineHostThreads DEF daemonVars, authVars
<1>2. CASE Daemon /\ UNCHANGED authVars
  BY <1>2, OnlineDaemon DEF authVars
<1>3. CASE Authenticate
  BY <1>3, OnlineAuthenticate
<1>4. CASE UNCHANGED AuthVars
  BY <1>4 DEF AuthVars, protocolVars, daemonVars, authVars, OnlineInv, DefaultClean, NoAuthAsked,
     NotYetSigned, SignedOnce, ServedWhenTold, Hopeful, OutCmds, BackCmds, AuthIsLast
<1> QED BY <1>1, <1>2, <1>3, <1>4 DEF AuthNext

(* What an earlier process may have left unread of its handshake: the      *)
(* token of a device that asks for a signature, or the CNXN of one that    *)
(* does not.                                                               *)
UnreadAnswers ==
  \A s \in StaleTraffic : \A i \in 1..Len(s) :
    /\ s[i].cmd = "AUTH" => AuthRequired
    /\ s[i].cmd = "CNXN" => ~AuthRequired

LEMMA OnlineInit ==
  ASSUME AuthInit, UnreadAnswers
  PROVE  OnlineInv
<1>1. /\ usb_in \in StaleTraffic /\ send_queue = <<>> /\ usb_out = <<>>
      /\ rx_msg.cmd = "DATA" /\ receive_queue[Default] = <<>> /\ auth_pc = "connect"
  BY DEF AuthInit, ProtocolInit, DaemonInit, NoMsg, Msg, Keys
<1>2. Cmds(<<>>) = {} /\ AuthLast(<<>>)
  BY DEF Cmds, AuthLast
<1>3. OutCmds = {} /\ BackCmds = Cmds(usb_in) \cup {"DATA"} /\ AuthIsLast
  BY <1>1, <1>2 DEF OutCmds, BackCmds, AuthIsLast
<1>4. ("AUTH" \in BackCmds => AuthRequired) /\ ("CNXN" \in BackCmds => ~AuthRequired)
  BY <1>1, <1>3 DEF UnreadAnswers, Cmds
<1>5. "CNXN" \in BackCmds => dev_auth = "online"
  <2> SUFFICES ASSUME "CNXN" \in BackCmds PROVE dev_auth = "online"
    OBVIOUS
  <2>1. usb_in \in Seq(Message)
    BY <1>1, DaemonAssumption
  <2>2. usb_in # <<>> /\ Len(usb_in) \in 1..Len(usb_in)
    <3>1. usb_in # <<>>
      BY <1>2, <1>3
    <3> QED BY <2>1, <3>1, LenProperties, EmptySeq
  <2>3. usb_in[Len(usb_in)].cmd # "AUTH"
    BY <1>1, <1>4, <2>2 DEF UnreadAnswers
  <2> QED BY <2>2, <2>3 DEF AuthInit, DaemonInit
<1>6. DefaultClean /\ NoAuthAsked /\ NotYetSigned
  BY <1>1, <1>2, <1>3, <1>4 DEF DefaultClean, NoAuthAsked, NotYetSigned
<1>7. SignedOnce /\ ServedWhenTold
  BY <1>1, <1>3, <1>5 DEF SignedOnce, ServedWhenTold
<1> QED BY <1>6, <1>7 DEF OnlineInv

(* authenticate() returns only to a host that adbd serves, whatever writes *)
(* and payloads are lost, unless an earlier process left a CNXN unread on  *)
(* a device that asks for a signature (libadb/device.py: any answer that   *)
(* is no AUTH is taken for success).                                       *)
THEOREM ServedAfterConnect ==
  ASSUME UnreadAnswers
  PROVE  AuthSpec => []ConnectedMeansOnline
<1> DEFINE I == AuthTypeOK /\ OnlineInv
<1>1. AuthInit => I
  BY AuthInitType, OnlineInit
<1>2. I /\ [AuthNext]_AuthVars => I'
  <2>1. ASSUME AuthTypeOK, UNCHANGED AuthVars PROVE AuthTypeOK'
    BY <2>1 DEF AuthTypeOK, ProtocolTypeOK, DaemonTypeOK, AuthVars, protocolVars,
                daemonVars, authVars
  <2> QED BY <2>1, AuthNextType, OnlineStep
<1>3. I => ConnectedMeansOnline
  BY DEF OnlineInv, ServedWhenTold, ConnectedMeansOnline, Hopeful
<1> QED BY <1>1, <1>2, <1>3, PTL DEF AuthSpec

-----------------------------------------------------------------------------
(* What adbd says on stream r is numbered: 1 is its answer to OPEN, n + 1  *)
(* its n-th WRTE, and end, greater than these, its CLSE.  S is the set of  *)
(* the commands that are looked at.                                        *)
OfStream(m, r, S) == m.cmd \in S /\ m.arg0 = r
Number(m, end) ==
  IF m.cmd = "OKAY" THEN 1 ELSE IF m.cmd = "WRTE" THEN m.data[2] + 1 ELSE end

(* The sequence s holds lo + 1 .. hi of stream r, in this order.           *)
Run(s, r, S, end, lo, hi) ==
  /\ lo <= hi
  /\ \A i \in 1..Len(s) : OfStream(s[i], r, S) =>
       lo < Number(s[i], end) /\ Number(s[i], end) <= hi
  /\ \A i, j \in 1..Len(s) : i < j /\ OfStream(s[i], r, S) /\ OfStream(s[j], r, S) =>
       Number(s[i], end) < Number(s[j], end)
  /\ \A n \in lo+1..hi : \E i \in 1..Len(s) : OfStream(s[i], r, S) /\ Number(s[i], end) = n

LEMMA RunEmpty ==
  ASSUME NEW s \in Seq(Message), NEW r, NEW S, NEW end, NEW lo \in Nat,
         \A i \in 1..Len(s) : ~OfStream(s[i], r, S)
  PROVE  Run(s, r, S, end, lo, lo)
<1>1. lo <= lo /\ lo+1..lo = {}
  OBVIOUS
<1> QED BY <1>1 DEF Run

LEMMA NumberType ==
  ASSUME NEW m \in Message, NEW end \in Nat
  PROVE  Number(m, end) \in Nat
<1>1. m.data[2] \in Nat
  BY DEF Message, Data
<1> QED BY <1>1 DEF Number

LEMMA RunOne ==
  ASSUME NEW m \in Message, NEW r, NEW S, NEW end \in Nat, NEW lo \in Nat, NEW hi \in Nat
  PROVE  Run(<<m>>, r, S, end, lo, hi) <=>
           IF OfStream(m, r, S) THEN Number(m, end) = lo + 1 /\ hi = lo + 1 ELSE hi = lo
<1> DEFINE s == <<m>>
<1>1. Len(s) = 1 /\ s[1] = m /\ 1..Len(s) = {1}
  OBVIOUS
<1>2. Number(m, end) \in Nat
  BY NumberType
<1> HIDE DEF s
<1>3. CASE OfStream(m, r, S)
  <2>1. ASSUME Run(s, r, S, end, lo, hi) PROVE Number(m, end) = lo + 1 /\ hi = lo + 1
    <3>1. lo < Number(m, end) /\ Number(m, end) <= hi
      BY <1>1, <1>3, <2>1 DEF Run
    <3>2. \A n \in lo+1..hi : Number(m, end) = n
      BY <1>1, <2>1 DEF Run
    <3>3. lo + 1 \in lo+1..hi /\ hi \in lo+1..hi
      BY <1>2, <3>1
    <3> QED BY <3>2, <3>3
  <2>2. ASSUME Number(m, end) = lo + 1, hi = lo + 1 PROVE Run(s, r, S, end, lo, hi)
    <3>1. lo+1..hi = {lo + 1} /\ lo <= hi /\ lo < lo + 1
      BY <2>2
    <3> QED BY <1>1, <1>3, <2>2, <3>1 DEF Run
  <2> QED BY <1>3, <2>1, <2>2 DEF s
<1>4. CASE ~OfStream(m, r, S)
  <2>1. ASSUME Run(s, r, S, end, lo, hi) PROVE hi = lo
    <3>1. lo <= hi /\ \A n \in lo+1..hi : FALSE
      BY <1>1, <1>4, <2>1 DEF Run
    <3>2. hi # lo => lo + 1 \in lo+1..hi
      BY <3>1
    <3> QED BY <3>1, <3>2
  <2>2. ASSUME hi = lo PROVE Run(s, r, S, end, lo, hi)
    <3>1. lo <= hi /\ lo+1..hi = {}
      BY <2>2
    <3> QED BY <1>1, <1>4, <3>1 DEF Run
  <2> QED BY <1>4, <2>1, <2>2 DEF s
<1> QED BY <1>3, <1>4

LEMMA RunAppend ==
  ASSUME NEW s \in Seq(Message), NEW m \in Message, NEW r, NEW S, NEW end \in Nat,
         NEW lo \in Nat, NEW mid \in Nat, NEW hi \in Nat,
         Run(s, r, S, end, lo, mid), Run(<<m>>, r, S, end, mid, hi)
  PROVE  Run(Append(s, m), r, S, end, lo, hi)
<1> DEFINE t == Append(s, m)
<1>1. /\ Len(s) \in Nat /\ Len(t) = Len(s) + 1
      /\ \A i \in 1..Len(s) : t[i] = s[i] /\ i \in 1..Len(t)
      /\ t[Len(s) + 1] = m /\ Len(s) + 1 \in 1..Len(t)
      /\ \A i \in 1..Len(t) : i \in 1..Len(s) \/ i = Len(s) + 1
  BY AppendProperties, LenProperties
<1>2. IF OfStream(m, r, S) THEN Number(m, end) = mid + 1 /\ hi = mid + 1 ELSE hi = mid
  BY RunOne
<1>3. lo <= mid /\ lo <= hi /\ mid <= hi
  BY <1>2 DEF Run
<1>4. \A i \in 1..Len(s) : Number(s[i], end) \in Nat
  BY NumberType, ElementOfSeq
<1> HIDE DEF t
<1>5. ASSUME NEW i \in 1..Len(t), OfStream(t[i], r, S)
      PROVE  lo < Number(t[i], end) /\ Number(t[i], end) <= hi
  <2>1. CASE i \in 1..Len(s)
    <3>1. lo < Number(s[i], end) /\ Number(s[i], end) <= mid
      BY <1>1, <1>5, <2>1 DEF Run
    <3> QED BY <1>1, <1>3, <1>4, <2>1, <3>1
  <2>2. CASE i = Len(s) + 1
    BY <1>1, <1>2, <1>3, <1>5, <2>2
  <2> QED BY <1>1, <2>1, <2>2
<1>6. ASSUME NEW i \in 1..Len(t), NEW j \in 1..Len(t), i < j,
             OfStream(t[i], r, S), OfStream(t[j], r, S)
      PROVE  Number(t[i], end) < Number(t[j], end)
  <2>1. i \in 1..Len(s)
    BY <1>1, <1>6
  <2>2. CASE j \in 1..Len(s)
    BY <1>1, <1>6, <2>1, <2>2 DEF Run
  <2>3. CASE j = Len(s) + 1
    <3>1. Number(s[i], end) <= mid
      BY <1>1, <1>6, <2>1 DEF Run
    <3>2. Number(t[j], end) = mid + 1
      BY <1>1, <1>2, <1>6, <2>3
    <3> QED BY <1>1, <1>4, <2>1, <3>1, <3>2
  <2> QED BY <1>1, <2>2, <2>3
<1>7. ASSUME NEW n \in lo+1..hi
      PROVE  \E i \in 1..Len(t) : OfStream(t[i], r, S) /\ Number(t[i], end) = n
  <2>1. CASE n <= mid
    <3>1. n \in lo+1..mid
      BY <2>1
    <3>2. PICK i \in 1..Len(s) : OfStream(s[i], r, S) /\ Number(s[i], end) = n
      BY <3>1 DEF Run
    <3> QED BY <1>1, <3>2
  <2>2. CASE ~(n <= mid)
    <3>1. hi # mid /\ n = mid + 1
      BY <1>2, <2>2
    <3> QED BY <1>1, <1>2, <3>1
  <2> QED BY <2>1, <2>2
<1>8. Run(t, r, S, end, lo, hi)
  BY <1>3, <1>5, <1>6, <1>7 DEF Run
<1> QED BY <1>8 DEF t

LEMMA RunHead ==
  ASSUME NEW s \in Seq(Message), s # <<>>, NEW r, NEW S, NEW end \in Nat,
         NEW lo \in Nat, NEW hi \in Nat, Run(s, r, S, end, lo, hi)
  PROVE  \E mid \in Nat :
           Run(<<Head(s)>>, r, S, end, lo, mid) /\ Run(Tail(s), r, S, end, mid, hi)
<1> DEFINE t == Tail(s)
           m == Head(s)
<1>1. /\ Len(s) \in Nat /\ Len(t) \in Nat /\ Len(t) = Len(s) - 1 /\ m = s[1] /\ m \in Message
      /\ t \in Seq(Message) /\ 1 \in 1..Len(s)
      /\ \A i \in 1..Len(t) : t[i] = s[i + 1] /\ i + 1 \in 1..Len(s)
      /\ \A i \in 1..Len(s) : i = 1 \/ (i - 1 \in 1..Len(t) /\ t[i - 1] = s[i])
  <2>1. /\ Len(s) \in Nat \ {0} /\ Len(t) = Len(s) - 1 /\ m = s[1] /\ m \in Message
        /\ t \in Seq(Message) /\ \A i \in 1..Len(t) : t[i] = s[i + 1]
    BY HeadTailProperties, LenProperties, EmptySeq
  <2>2. \A i \in 1..Len(s) : i = 1 \/ (i - 1 \in 1..Len(t) /\ (i - 1) + 1 = i)
    BY <2>1
  <2>3. 1 \in 1..Len(s) /\ Len(t) \in Nat /\ \A i \in 1..Len(t) : i + 1 \in 1..Len(s)
    BY <2>1
  <2>4. ASSUME NEW i \in 1..Len(s), i # 1 PROVE i - 1 \in 1..Len(t) /\ t[i - 1] = s[i]
    <3>1. i - 1 \in 1..Len(t) /\ (i - 1) + 1 = i
      BY <2>2, <2>4
    <3>2. t[i - 1] = s[(i - 1) + 1]
      BY <2>1, <3>1
    <3> QED BY <3>1, <3>2
  <2> HIDE DEF t, m
  <2> QED BY <2>1, <2>3, <2>4
<1>2. /\ \A i \in 1..Len(s) : Number(s[i], end) \in Nat
      /\ lo <= hi
  BY NumberType, ElementOfSeq DEF Run
<1> HIDE DEF t, m
<1>3. CASE ~OfStream(m, r, S)
  <2>1. Run(<<m>>, r, S, end, lo, lo)
    BY <1>1, <1>3, RunOne
  <2>2. Run(t, r, S, end, lo, hi)
    <3>1. \A n \in lo+1..hi : \E i \in 1..Len(t) : OfStream(t[i], r, S) /\ Number(t[i], end) = n
      <4> TAKE n \in lo+1..hi
      <4>1. PICK i \in 1..Len(s) : OfStream(s[i], r, S) /\ Number(s[i], end) = n
        BY DEF Run
      <4> QED BY <1>1, <1>3, <4>1
    <3>2. \A i \in 1..Len(t) : OfStream(t[i], r, S) =>
            lo < Number(t[i], end) /\ Number(t[i], end) <= hi
      BY <1>1 DEF Run
    <3>3. \A i, j \in 1..Len(t) : i < j /\ OfStream(t[i], r, S) /\ OfStream(t[j], r, S) =>
            Number(t[i], end) < Number(t[j], end)
      <4>1. \A i, j \in 1..Len(t) : i < j => i + 1 < j + 1
        BY <1>1
      <4> QED BY <1>1, <4>1 DEF Run
    <3> QED BY <1>2, <3>1, <3>2, <3>3 DEF Run
  <2> QED BY <2>1, <2>2 DEF t, m
<1>4. CASE OfStream(m, r, S)
  <2>1. lo < Number(m, end) /\ Number(m, end) <= hi /\ Number(m, end) \in Nat
    BY <1>1, <1>2, <1>4 DEF Run
  <2>2. \A i \in 1..Len(t) : OfStream(t[i], r, S) => Number(m, end) < Number(t[i], end)
    <3>1. \A i \in 1..Len(t) : 1 < i + 1
      BY <1>1
    <3> QED BY <1>1, <1>4, <3>1 DEF Run
  <2>3. Number(m, end) = lo + 1
    <3>1. lo + 1 \in lo+1..hi
      BY <2>1
    <3>2. PICK i \in 1..Len(s) : OfStream(s[i], r, S) /\ Number(s[i], end) = lo + 1
      BY <3>1 DEF Run
    <3>3. CASE i = 1
      BY <1>1, <3>2, <3>3
    <3>4. CASE i # 1
      <4>1. Number(m, end) < lo + 1
        BY <1>1, <2>2, <3>2, <3>4
      <4> QED BY <2>1, <4>1
    <3> QED BY <3>3, <3>4
  <2>4. Run(<<m>>, r, S, end, lo, lo + 1)
    BY <1>1, <1>4, <2>3, RunOne
  <2>5. Run(t, r, S, end, lo + 1, hi)
    <3>1. \A n \in lo+1+1..hi : \E i \in 1..Len(t) : OfStream(t[i], r, S) /\ Number(t[i], end) = n
      <4> TAKE n \in lo+1+1..hi
      <4>0. n \in lo+1..hi /\ n # lo + 1
        OBVIOUS
      <4>1. PICK i \in 1..Len(s) : OfStream(s[i], r, S) /\ Number(s[i], end) = n
        BY <4>0 DEF Run
      <4> QED BY <1>1, <2>3, <4>0, <4>1
    <3>2. \A i \in 1..Len(t) : OfStream(t[i], r, S) =>
            lo + 1 < Number(t[i], end) /\ Number(t[i], end) <= hi
      BY <1>1, <2>2, <2>3 DEF Run
    <3>3. \A i, j \in 1..Len(t) : i < j /\ OfStream(t[i], r, S) /\ OfStream(t[j], r, S) =>
            Number(t[i], end) < Number(t[j], end)
      <4>1. \A i, j \in 1..Len(t) : i < j => i + 1 < j + 1
        BY <1>1
      <4> QED BY <1>1, <4>1 DEF Run
    <3>4. lo + 1 <= hi
      BY <2>1
    <3> QED BY <3>1, <3>2, <3>3, <3>4 DEF Run
  <2> QED BY <2>4, <2>5 DEF t, m
<1> QED BY <1>3, <1>4

(* A later end only moves the number of CLSE.                              *)
LEMMA RunEnd ==
  ASSUME NEW s, NEW r, NEW S, NEW end, NEW end2, NEW lo, NEW hi,
         Run(s, r, S, end, lo, hi),
         S \subseteq {"OKAY", "WRTE", "CLSE"},
         end2 # end => \A i \in 1..Len(s) : ~OfStream(s[i], r, {"CLSE"})
  PROVE  Run(s, r, S, end2, lo, hi)
<1>1. \A i \in 1..Len(s) : OfStream(s[i], r, S) => Number(s[i], end2) = Number(s[i], end)
  BY DEF OfStream, Number
<1> QED BY <1>1 DEF Run

-----------------------------------------------------------------------------
(* What one step of adbd is to one of its streams.                         *)
Said == {"OKAY", "WRTE", "CLSE"}
Says(m) == usb_in' = Append(usb_in, m)
SaysOther(r) ==
  \/ usb_in' = usb_in
  \/ \E m \in Message : Says(m) /\ ~OfStream(m, r, Said)

(* The stream stays, or ends without a word (a CNXN), or may write again.  *)
Kept(r) ==
  /\ stream'[r].peer = stream[r].peer
  /\ stream'[r].service = stream[r].service
  /\ stream'[r].sent = stream[r].sent
  /\ stream'[r].got = stream[r].got
  /\ stream'[r].st = "none" <=> stream[r].st = "none"
  /\ stream[r].st = "closed" => stream'[r].st = "closed"

Ignores(r) == SaysOther(r) /\ Kept(r)
Opens(r) ==
  /\ r \in RemoteIds /\ stream[r].st = "none"
  /\ FrameReady /\ Frame.cmd = "OPEN"
  /\ stream'[r] = NewStream("ready", Frame.arg0, Frame.data, 0)
  /\ Says(Msg("OKAY", r, Frame.arg0, NoData))
Writes(r) ==
  /\ stream[r].st = "ready"
  /\ stream'[r] = [stream[r] EXCEPT !.st = "waitack", !.sent = @ + 1]
  /\ Says(Msg("WRTE", r, stream[r].peer, <<r, stream[r].sent + 1>>))
Ends(r) ==
  /\ IsOpen(r)
  /\ stream'[r] = [stream[r] EXCEPT !.st = "closed"]
  /\ Says(Msg("CLSE", r, stream[r].peer, NoData))
Hears(r) ==
  /\ IsOpen(r)
  /\ FrameReady /\ Frame.cmd = "WRTE" /\ Frame.arg1 = r /\ Frame.arg0 = stream[r].peer
  /\ stream'[r] = [stream[r] EXCEPT !.got = Append(@, Frame.data)]
  /\ Says(Msg("OKAY", r, stream[r].peer, NoData))

LEMMA ReadsSays ==
  ASSUME AuthTypeOK
  PROVE  /\ DevReads(<<>>) => usb_in' = usb_in
         /\ \A m \in Message : DevReads(<<m>>) => Says(m)
<1>1. usb_in \in Seq(Message)
  BY DEF AuthTypeOK, ProtocolTypeOK
<1>2. usb_in \o <<>> = usb_in
  BY <1>1, ConcatEmptySeq
<1>3. \A m \in Message : usb_in \o <<m>> = Append(usb_in, m)
  BY <1>1, AppendIsConcat
<1> QED BY <1>2, <1>3 DEF DevReads, Says

LEMMA HandshakeIsOther ==
  /\ Connected \in Message /\ \A r : ~OfStream(Connected, r, Said)
  /\ \A n \in Nat : Challenge(n) \in Message /\ \A r : ~OfStream(Challenge(n), r, Said)
<1>1. Connected \in Message
  BY MsgType, NoDataType DEF Connected, Commands
<1>2. \A n \in Nat : Challenge(n) \in Message
  BY MsgType DEF Challenge, Data, Commands
<1> QED BY <1>1, <1>2 DEF OfStream, Said, Connected, Challenge, Msg

LEMMA DaemonStream ==
  ASSUME AuthTypeOK, Daemon, NEW r \in StreamIds
  PROVE  Ignores(r) \/ Opens(r) \/ Writes(r) \/ Ends(r) \/ Hears(r)
<1>a. ASSUME FrameReady
      PROVE  Frame \in Message /\ Frame.arg0 \in Nat /\ Frame.arg1 \in Nat /\ Frame.data \in Data
  BY <1>a, FrameType DEF Message, AuthTypeOK
<1>b. \A cmd \in Said : \A a0, a1 \in Nat : \A d \in Data :
        /\ Msg(cmd, a0, a1, d) \in Message
        /\ a0 # r => ~OfStream(Msg(cmd, a0, a1, d), r, Said)
  <2> TAKE cmd \in Said
  <2> TAKE a0, a1 \in Nat
  <2> TAKE d \in Data
  <2>1. Msg(cmd, a0, a1, d) \in Message
    BY MsgType DEF Said, Commands
  <2> QED BY <2>1 DEF OfStream, Msg
<1>c. /\ stream \in [StreamIds -> Stream] /\ dev_token + 1 \in Nat /\ r \in Nat \ {0}
      /\ NoData \in Data
      /\ \A q \in StreamIds : stream[q] \in Stream /\ q \in Nat
                              /\ stream[q].peer \in Nat /\ stream[q].sent \in Nat
  <2>1. stream \in [StreamIds -> Stream] /\ dev_token + 1 \in Nat
    BY DEF AuthTypeOK, DaemonTypeOK
  <2>2. \A q \in StreamIds : stream[q] \in Stream
    BY <2>1
  <2>3. \A q \in StreamIds : stream[q].peer \in Nat /\ stream[q].sent \in Nat
    BY <2>2 DEF Stream
  <2> QED BY <2>1, <2>2, <2>3, StreamIdType, NoDataType
<1>d. stream'[r] = stream[r] => Kept(r)
  BY DEF Kept
<1>1. CASE DevConnect
  <2>1. Kept(r)
    <3>1. stream'[r] = IF IsOpen(r) THEN [stream[r] EXCEPT !.st = "closed"] ELSE stream[r]
      BY <1>1 DEF DevConnect
    <3>2. stream[r] \in Stream
      BY <1>c
    <3> QED BY <3>1, <3>2 DEF Kept, IsOpen, Stream
  <2>2. SaysOther(r)
    BY <1>1, <1>c, ReadsSays, HandshakeIsOther DEF DevConnect, SaysOther
  <2> QED BY <2>1, <2>2 DEF Ignores
<1>2. CASE DevSignature \/ DevPublicKey
  <2>1. stream' = stream
    BY <1>2 DEF DevSignature, DevPublicKey
  <2>2. SaysOther(r)
    BY <1>2, <1>c, ReadsSays, HandshakeIsOther DEF DevSignature, DevPublicKey, SaysOther
  <2> QED BY <1>d, <2>1, <2>2 DEF Ignores
<1>3. CASE DevOpen
  <2>0. FrameReady /\ Frame.cmd = "OPEN"
    BY <1>3 DEF DevOpen, Receives
  <2>1. CASE /\ DevReads(<<Msg("CLSE", 0, Frame.arg0, NoData)>>)
             /\ UNCHANGED stream
    <3>1. Says(Msg("CLSE", 0, Frame.arg0, NoData))
      BY <1>a, <1>b, <1>c, <2>0, <2>1, ReadsSays DEF Said
    <3>2. SaysOther(r)
      BY <1>a, <1>b, <1>c, <2>0, <3>1 DEF Said, SaysOther
    <3> QED BY <1>d, <2>1, <3>2 DEF Ignores
  <2>2. ASSUME NEW q \in RemoteIds, NextRemoteId(q),
               stream' = [stream EXCEPT ![q] = NewStream("ready", Frame.arg0, Frame.data, 0)],
               DevReads(<<Msg("OKAY", q, Frame.arg0, NoData)>>)
        PROVE  Ignores(r) \/ Opens(r)
    <3>0. q \in StreamIds /\ q \in Nat
      BY <1>c DEF StreamIds
    <3>1. Msg("OKAY", q, Frame.arg0, NoData) \in Message /\ Says(Msg("OKAY", q, Frame.arg0, NoData))
      BY <1>a, <1>b, <1>c, <2>0, <2>2, <3>0, ReadsSays DEF Said
    <3>2. CASE q = r
      <4>1. stream'[r] = NewStream("ready", Frame.arg0, Frame.data, 0)
        BY <1>c, <2>2, <3>2
      <4> QED BY <2>0, <2>2, <3>1, <3>2, <4>1 DEF Opens, NextRemoteId
    <3>3. CASE q # r
      <4>1. stream'[r] = stream[r]
        BY <1>c, <2>2, <3>3
      <4>2. ~OfStream(Msg("OKAY", q, Frame.arg0, NoData), r, Said)
        BY <3>3 DEF OfStream, Msg
      <4>3. SaysOther(r)
        BY <3>1, <4>2 DEF SaysOther
      <4> QED BY <1>d, <4>1, <4>3 DEF Ignores
    <3> QED BY <3>2, <3>3
  <2> QED BY <1>3, <2>1, <2>2 DEF DevOpen
<1>4. CASE DevAck
  <2>1. SaysOther(r)
    BY <1>4, ReadsSays DEF DevAck, SaysOther
  <2>2. Kept(r)
    <3>1. stream'[r] = stream[r] \/ (stream[r].st = "waitack" /\ stream'[r] = [stream[r] EXCEPT !.st = "ready"])
      BY <1>4, <1>c DEF DevAck, Addressed
    <3>2. stream[r] \in Stream
      BY <1>c
    <3> QED BY <3>1, <3>2 DEF Kept, Stream
  <2> QED BY <2>1, <2>2 DEF Ignores
<1>5. CASE DevCloseRequest
  <2>0. FrameReady
    BY <1>5 DEF DevCloseRequest, Receives
  <2>1. CASE Addressed /\ IsOpen(Frame.arg1)
    <3>1. /\ Frame.arg1 \in StreamIds /\ stream[Frame.arg1].peer = Frame.arg0
          /\ stream' = [stream EXCEPT ![Frame.arg1].st = "closed"]
          /\ DevReads(<<Msg("CLSE", Frame.arg1, Frame.arg0, NoData)>>)
      BY <1>5, <2>1 DEF DevCloseRequest, Addressed
    <3>2. /\ Msg("CLSE", Frame.arg1, Frame.arg0, NoData) \in Message
          /\ Says(Msg("CLSE", Frame.arg1, Frame.arg0, NoData))
      BY <1>a, <1>b, <1>c, <2>0, <3>1, ReadsSays DEF Said
    <3>3. CASE Frame.arg1 = r
      <4>1. stream'[r] = [stream[r] EXCEPT !.st = "closed"]
        BY <1>c, <3>1, <3>3
      <4> QED BY <2>1, <3>1, <3>2, <3>3, <4>1 DEF Ends
    <3>4. CASE Frame.arg1 # r
      <4>1. stream'[r] = stream[r]
        BY <1>c, <3>1, <3>4
      <4>2. ~OfStream(Msg("CLSE", Frame.arg1, Frame.arg0, NoData), r, Said)
        BY <3>4 DEF OfStream, Msg
      <4>3. SaysOther(r)
        BY <3>2, <4>2 DEF SaysOther
      <4> QED BY <1>d, <4>1, <4>3 DEF Ignores
    <3> QED BY <3>3, <3>4
  <2>2. CASE ~(Addressed /\ IsOpen(Frame.arg1))
    <3>1. DevReads(<<>>) /\ stream' = stream
      BY <1>5, <2>2 DEF DevCloseRequest
    <3> QED BY <1>d, <3>1, ReadsSays DEF Ignores, SaysOther
  <2> QED BY <2>1, <2>2
<1>6. CASE DevHostWrite
  <2>0. FrameReady /\ Frame.cmd = "WRTE"
    BY <1>6 DEF DevHostWrite, Receives
  <2>1. CASE Addressed /\ IsOpen(Frame.arg1)
    <3>1. /\ Frame.arg1 \in StreamIds /\ stream[Frame.arg1].peer = Frame.arg0
          /\ stream' = [stream EXCEPT ![Frame.arg1].got = Append(@, Frame.data)]
          /\ DevReads(<<Msg("OKAY", Frame.arg1, Frame.arg0, NoData)>>)
      BY <1>6, <2>1 DEF DevHostWrite, Addressed
    <3>2. /\ Msg("OKAY", Frame.arg1, Frame.arg0, NoData) \in Message
          /\ Says(Msg("OKAY", Frame.arg1, Frame.arg0, NoData))
      BY <1>a, <1>b, <1>c, <2>0, <3>1, ReadsSays DEF Said
    <3>3. CASE Frame.arg1 = r
      <4>1. stream'[r] = [stream[r] EXCEPT !.got = Append(@, Frame.data)]
        BY <1>c, <3>1, <3>3
      <4> QED BY <2>0, <2>1, <3>1, <3>2, <3>3, <4>1 DEF Hears
    <3>4. CASE Frame.arg1 # r
      <4>1. stream'[r] = stream[r]
        BY <1>c, <3>1, <3>4
      <4>2. ~OfStream(Msg("OKAY", Frame.arg1, Frame.arg0, NoData), r, Said)
        BY <3>4 DEF OfStream, Msg
      <4>3. SaysOther(r)
        BY <3>2, <4>2 DEF SaysOther
      <4> QED BY <1>d, <4>1, <4>3 DEF Ignores
    <3> QED BY <3>3, <3>4
  <2>2. CASE ~(Addressed /\ IsOpen(Frame.arg1))
    <3>1. DevReads(<<>>) /\ stream' = stream
      BY <1>6, <2>2 DEF DevHostWrite
    <3> QED BY <1>d, <3>1, ReadsSays DEF Ignores, SaysOther
  <2> QED BY <2>1, <2>2
<1>7. CASE DevIgnore \/ (DevGarbled /\ UNCHANGED daemonVars)
  <2>1. stream' = stream /\ usb_in' = usb_in
    BY <1>7, ReadsSays DEF DevIgnore, DevGarbled, daemonVars
  <2> QED BY <1>d, <2>1 DEF Ignores, SaysOther
<1>8. ASSUME NEW q \in StreamIds, DevStreamWrite(q)
      PROVE  Ignores(r) \/ Writes(r)
  <2>1. /\ Says(Msg("WRTE", q, stream[q].peer, <<q, stream[q].sent + 1>>))
        /\ stream[q].st = "ready"
        /\ stream' = [stream EXCEPT ![q].st = "waitack", ![q].sent = @ + 1]
    BY <1>8 DEF DevStreamWrite, DevWrites, Says
  <2>2. Msg("WRTE", q, stream[q].peer, <<q, stream[q].sent + 1>>) \in Message
    <3>1. <<q, stream[q].sent + 1>> \in Data /\ q \in Nat /\ stream[q].peer \in Nat
      BY <1>c DEF Data
    <3> QED BY <1>b, <3>1 DEF Said
  <2>3. CASE q = r
    <3>1. stream[r] \in Stream /\ stream' = [stream EXCEPT ![r].st = "waitack", ![r].sent = @ + 1]
      BY <1>c, <2>1, <2>3
    <3>2. stream'[r] = [stream[r] EXCEPT !.st = "waitack", !.sent = @ + 1]
      BY <1>c, <3>1 DEF Stream
    <3> QED BY <2>1, <2>3, <3>2 DEF Writes
  <2>4. CASE q # r
    <3>1. stream'[r] = stream[r]
      BY <1>c, <2>1, <2>4
    <3>2. ~OfStream(Msg("WRTE", q, stream[q].peer, <<q, stream[q].sent + 1>>), r, Said)
      BY <2>4 DEF OfStream, Msg
    <3>3. SaysOther(r)
      BY <2>1, <2>2, <3>2 DEF SaysOther
    <3> QED BY <1>d, <3>1, <3>3 DEF Ignores
  <2> QED BY <2>3, <2>4
<1>9. ASSUME NEW q \in StreamIds, DevStreamEnd(q)
      PROVE  Ignores(r) \/ Ends(r)
  <2>1. /\ Says(Msg("CLSE", q, stream[q].peer, NoData)) /\ IsOpen(q)
        /\ stream' = [stream EXCEPT ![q].st = "closed"]
    BY <1>9 DEF DevStreamEnd, DevWrites, Says
  <2>2. Msg("CLSE", q, stream[q].peer, NoData) \in Message
    BY <1>b, <1>c DEF Said
  <2>3. CASE q = r
    <3>1. stream'[r] = [stream[r] EXCEPT !.st = "closed"]
      BY <1>c, <2>1, <2>3
    <3> QED BY <2>1, <2>3, <3>1 DEF Ends
  <2>4. CASE q # r
    <3>1. stream'[r] = stream[r]
      BY <1>c, <2>1, <2>4
    <3>2. ~OfStream(Msg("CLSE", q, stream[q].peer, NoData), r, Said)
      BY <2>4 DEF OfStream, Msg
    <3>3. SaysOther(r)
      BY <2>1, <2>2, <3>2 DEF SaysOther
    <3> QED BY <1>d, <3>1, <3>3 DEF Ignores
  <2> QED BY <2>3, <2>4
<1> QED
  BY <1>1, <1>2, <1>3, <1>4, <1>5, <1>6, <1>7, <1>8, <1>9 DEF Daemon, DevPacket

-----------------------------------------------------------------------------
(* What is on the way from adbd belongs to streams it knows.               *)
End(r) == stream[r].sent + 2
Shaped(m) ==
  /\ IsHandshake(m) \/ m.arg0 \in StreamIds \cup {0}
  /\ m.cmd = "OKAY" => m.arg0 \in StreamIds
  /\ m.arg0 \in RemoteIds => m.cmd \in Said \cup HandshakeCmds
FrameOk(m) ==
  /\ Shaped(m)
  /\ \A r \in RemoteIds : OfStream(m, r, Said) =>
       /\ stream[r].st # "none"
       /\ m.arg1 = stream[r].peer
       /\ m.cmd = "CLSE" => stream[r].st = "closed"
AllOk(s) == \A i \in 1..Len(s) : FrameOk(s[i])
FramesOk ==
  /\ AllOk(usb_in)
  /\ FrameOk(rx_msg)
  /\ \A k \in LocalIds : AllOk(receive_queue[k])

(* A queue holds what is addressed to its id.                              *)
RoutedTo(s, k) == \A i \in 1..Len(s) : s[i].arg1 = k /\ ~IsHandshake(s[i])
Routed == \A k \in LocalIds : RoutedTo(receive_queue[k], k)

(* The id of a stream has a queue, from before its OPEN on.                *)
OpensOpened(s) == \A i \in 1..Len(s) : s[i].cmd = "OPEN" => s[i].arg0 \in opened
PeersOpened ==
  /\ OpensOpened(send_queue)
  /\ OpensOpened(usb_out)
  /\ \A r \in RemoteIds : stream[r].st # "none" => stream[r].peer \in opened
HandEmpty == rx_pc \in {"read", "dead"} => rx_msg = NoMsg
UnusedEmpty ==
  \A r \in RemoteIds : stream[r].st = "none" => stream[r].sent = 0 /\ stream[r].got = <<>>
WireInv == FramesOk /\ Routed /\ PeersOpened /\ HandEmpty /\ UnusedEmpty

(* What adbd has said on stream r from the lo-th on is on its way, in      *)
(* order: first in the queue of the stream's id, then in the hands of the  *)
(* receive thread, then in the pipe.  A dead thread reads no more.         *)
InOrder(r, S, lo) ==
  \E a, b, c \in Nat :
    /\ Run(receive_queue[stream[r].peer], r, S, End(r), lo, a)
    /\ rx_pc # "dead" =>
         /\ Run(<<rx_msg>>, r, S, End(r), a, b)
         /\ Run(usb_in, r, S, End(r), b, c)
         /\ \/ c = stream[r].sent + 1
            \/ c = stream[r].sent + 2 /\ stream[r].st = "closed"

LEMMA AllOkAppend ==
  ASSUME NEW s \in Seq(Message), NEW m \in Message, AllOk(s), FrameOk(m)
  PROVE  AllOk(Append(s, m))
<1>1. /\ Len(s) \in Nat /\ Len(Append(s, m)) = Len(s) + 1
      /\ \A i \in 1..Len(s) : Append(s, m)[i] = s[i]
      /\ Append(s, m)[Len(s) + 1] = m
  BY AppendProperties, LenProperties
<1>2. \A i \in 1..Len(s) + 1 : i \in 1..Len(s) \/ i = Len(s) + 1
  BY <1>1
<1> QED BY <1>1, <1>2 DEF AllOk

LEMMA AllOkTail ==
  ASSUME NEW s \in Seq(Message), s # <<>>, AllOk(s)
  PROVE  AllOk(Tail(s)) /\ FrameOk(Head(s))
<1>1. /\ Len(s) \in Nat \ {0} /\ Len(Tail(s)) = Len(s) - 1 /\ Head(s) = s[1]
      /\ \A i \in 1..Len(Tail(s)) : Tail(s)[i] = s[i + 1]
  BY HeadTailProperties, LenProperties, EmptySeq
<1>2. 1 \in 1..Len(s) /\ \A i \in 1..Len(s) - 1 : i + 1 \in 1..Len(s)
  BY <1>1
<1> QED BY <1>1, <1>2 DEF AllOk

LEMMA OpensAppend ==
  ASSUME NEW s \in Seq(Message), NEW m \in Message, OpensOpened(s),
         m.cmd = "OPEN" => m.arg0 \in opened
  PROVE  OpensOpened(Append(s, m))
<1>1. /\ Len(s) \in Nat /\ Len(Append(s, m)) = Len(s) + 1
      /\ \A i \in 1..Len(s) : Append(s, m)[i] = s[i]
      /\ Append(s, m)[Len(s) + 1] = m
  BY AppendProperties, LenProperties
<1>2. \A i \in 1..Len(s) + 1 : i \in 1..Len(s) \/ i = Len(s) + 1
  BY <1>1
<1> QED BY <1>1, <1>2 DEF OpensOpened

LEMMA OpensTail ==
  ASSUME NEW s \in Seq(Message), s # <<>>, OpensOpened(s)
  PROVE  OpensOpened(Tail(s)) /\ (Head(s).cmd = "OPEN" => Head(s).arg0 \in opened)
<1>1. /\ Len(s) \in Nat \ {0} /\ Len(Tail(s)) = Len(s) - 1 /\ Head(s) = s[1]
      /\ \A i \in 1..Len(Tail(s)) : Tail(s)[i] = s[i + 1]
  BY HeadTailProperties, LenProperties, EmptySeq
<1>2. 1 \in 1..Len(s) /\ \A i \in 1..Len(s) - 1 : i + 1 \in 1..Len(s)
  BY <1>1
<1> QED BY <1>1, <1>2 DEF OpensOpened

LEMMA RoutedAppend ==
  ASSUME NEW s \in Seq(Message), NEW m \in Message, NEW k, RoutedTo(s, k),
         m.arg1 = k, ~IsHandshake(m)
  PROVE  RoutedTo(Append(s, m), k)
<1>1. /\ Len(s) \in Nat /\ Len(Append(s, m)) = Len(s) + 1
      /\ \A i \in 1..Len(s) : Append(s, m)[i] = s[i]
      /\ Append(s, m)[Len(s) + 1] = m
  BY AppendProperties, LenProperties
<1>2. \A i \in 1..Len(s) + 1 : i \in 1..Len(s) \/ i = Len(s) + 1
  BY <1>1
<1> QED BY <1>1, <1>2 DEF RoutedTo

LEMMA RoutedTail ==
  ASSUME NEW s \in Seq(Message), s # <<>>, NEW k, RoutedTo(s, k)
  PROVE  RoutedTo(Tail(s), k) /\ Head(s).arg1 = k /\ ~IsHandshake(Head(s))
<1>1. /\ Len(s) \in Nat \ {0} /\ Len(Tail(s)) = Len(s) - 1 /\ Head(s) = s[1]
      /\ \A i \in 1..Len(Tail(s)) : Tail(s)[i] = s[i + 1]
  BY HeadTailProperties, LenProperties, EmptySeq
<1>2. 1 \in 1..Len(s) /\ \A i \in 1..Len(s) - 1 : i + 1 \in 1..Len(s)
  BY <1>1
<1> QED BY <1>1, <1>2 DEF RoutedTo

LEMMA NoMsgOk == FrameOk(NoMsg) /\ \A r, S : S \subseteq Said => ~OfStream(NoMsg, r, S)
<1>1. 0 \notin RemoteIds
  BY ProtocolAssumption
<1> QED BY <1>1 DEF FrameOk, Shaped, IsHandshake, OfStream, NoMsg, Msg, Said

(* The pipe from adbd loses its first frame, or gets one, or stays.        *)
LEMMA WireHostThreads ==
  ASSUME AuthTypeOK, WireInv, HostThreads, UNCHANGED stream
  PROVE  WireInv'
<1>0. /\ send_queue \in Seq(Message) /\ usb_out \in Seq(Message) /\ usb_in \in Seq(Message)
      /\ receive_queue \in [Keys -> Seq(Message)] /\ rx_msg \in Message
      /\ opened \subseteq LocalIds /\ LocalIds \subseteq Keys
      /\ stream' = stream /\ rx_pc \in {"read", "ack", "deliver", "dead"}
  BY DEF AuthTypeOK, ProtocolTypeOK, Keys
<1>1. \A m : FrameOk(m)' <=> FrameOk(m)
  BY <1>0 DEF FrameOk
<1>2. \A s : AllOk(s)' <=> AllOk(s)
  BY <1>1 DEF AllOk
<1>3. opened' = opened /\ UnusedEmpty'
  BY <1>0 DEF HostThreads, ReceiveLoop, SendLoop, WriteError, ReceiveFrame, AckWrite, Deliver,
     Discard, ChecksumError, WireInv, UnusedEmpty
<1>4. \A s : OpensOpened(s)' <=> OpensOpened(s)
  BY <1>3 DEF OpensOpened
<1>5. /\ OpensOpened(send_queue) /\ OpensOpened(usb_out) /\ AllOk(usb_in) /\ FrameOk(rx_msg)
      /\ \A k \in LocalIds : AllOk(receive_queue[k])
      /\ \A r \in RemoteIds : stream[r].st # "none" => stream[r].peer \in opened
  BY DEF WireInv, PeersOpened, FramesOk
<1>6. \A r \in RemoteIds : stream'[r].st # "none" => stream'[r].peer \in opened'
  BY <1>0, <1>3, <1>5
<1>r. Routed'
  <2> SUFFICES ASSUME NEW k \in LocalIds PROVE RoutedTo(receive_queue'[k], k)
    BY DEF Routed
  <2>1. RoutedTo(receive_queue[k], k) /\ receive_queue[k] \in Seq(Message) /\ k # Default
    BY <1>0, ProtocolAssumption DEF WireInv, Routed, Default
  <2>2. \/ receive_queue'[k] = receive_queue[k]
        \/ /\ receive_queue'[k] = Append(receive_queue[k], rx_msg)
           /\ KeyOf(rx_msg) = k
    BY <1>0 DEF HostThreads, ReceiveLoop, SendLoop, WriteError, ReceiveFrame, AckWrite, Deliver,
       Discard, ChecksumError
  <2>3. KeyOf(rx_msg) = k => rx_msg.arg1 = k /\ ~IsHandshake(rx_msg)
    BY <2>1 DEF KeyOf
  <2> QED BY <1>0, <2>1, <2>2, <2>3, RoutedAppend
<1>7. CASE SendLoop \/ WriteError
  <2>1. /\ send_queue # <<>> /\ send_queue' = Tail(send_queue)
        /\ UNCHANGED <<receive_queue, rx_pc, rx_msg, usb_in>>
        /\ usb_out' = usb_out \/ usb_out' = Append(usb_out, Head(send_queue))
    BY <1>7 DEF SendLoop, WriteError
  <2>2. /\ OpensOpened(Tail(send_queue)) /\ Head(send_queue) \in Message
        /\ Head(send_queue).cmd = "OPEN" => Head(send_queue).arg0 \in opened
    BY <1>0, <1>5, <2>1, OpensTail, HeadTailProperties
  <2>3. OpensOpened(Append(usb_out, Head(send_queue)))
    BY <1>0, <1>5, <2>2, OpensAppend
  <2>4. PeersOpened'
    BY <1>4, <1>5, <1>6, <2>1, <2>2, <2>3 DEF PeersOpened
  <2>5. FramesOk' /\ HandEmpty'
    BY <1>1, <1>2, <1>5, <2>1 DEF FramesOk, HandEmpty, WireInv
  <2> QED BY <1>r, <1>3, <2>4, <2>5 DEF WireInv
<1>8. CASE ReceiveFrame \/ ChecksumError
  <2>1. /\ usb_in # <<>> /\ usb_in' = Tail(usb_in) /\ rx_pc = "read"
        /\ UNCHANGED <<receive_queue, send_queue, usb_out>>
        /\ (rx_msg' = Head(usb_in) /\ rx_pc' \in {"ack", "deliver"}) \/ rx_msg' = rx_msg
    BY <1>8 DEF ReceiveFrame, ChecksumError
  <2>2. AllOk(Tail(usb_in)) /\ FrameOk(Head(usb_in))
    BY <1>0, <1>5, <2>1, AllOkTail
  <2>3. FramesOk'
    BY <1>1, <1>2, <1>5, <2>1, <2>2 DEF FramesOk
  <2>4. HandEmpty'
    BY <2>1 DEF HandEmpty, WireInv
  <2>5. PeersOpened'
    BY <1>4, <1>5, <1>6, <2>1 DEF PeersOpened
  <2> QED BY <1>r, <1>3, <2>3, <2>4, <2>5 DEF WireInv
<1>9. CASE AckWrite
  <2>1. /\ send_queue' = Append(send_queue, Msg("OKAY", rx_msg.arg1, rx_msg.arg0, NoData))
        /\ rx_pc' = "deliver" /\ UNCHANGED <<receive_queue, rx_msg, usb_in, usb_out>>
    BY <1>9 DEF AckWrite
  <2>2. /\ Msg("OKAY", rx_msg.arg1, rx_msg.arg0, NoData) \in Message
        /\ Msg("OKAY", rx_msg.arg1, rx_msg.arg0, NoData).cmd # "OPEN"
    BY <1>0, NoDataType DEF Msg, Message, Commands
  <2>3. OpensOpened(send_queue')
    BY <1>0, <1>5, <2>1, <2>2, OpensAppend
  <2>4. PeersOpened'
    BY <1>4, <1>5, <1>6, <2>1, <2>3 DEF PeersOpened
  <2>5. FramesOk' /\ HandEmpty'
    BY <1>1, <1>2, <1>5, <2>1 DEF FramesOk, HandEmpty
  <2> QED BY <1>r, <1>3, <2>4, <2>5 DEF WireInv
<1>10. CASE Deliver \/ Discard
  <2>1. /\ rx_pc' = "read" /\ rx_msg' = NoMsg /\ UNCHANGED <<send_queue, usb_in, usb_out>>
        /\ \/ receive_queue' = receive_queue
           \/ receive_queue' = [receive_queue EXCEPT ![KeyOf(rx_msg)] = Append(@, rx_msg)]
    BY <1>10 DEF Deliver, Discard
  <2>2. ASSUME NEW k \in LocalIds PROVE AllOk(receive_queue'[k])
    <3>1. AllOk(Append(receive_queue[k], rx_msg))
      BY <1>0, <1>5, AllOkAppend
    <3>2. receive_queue'[k] = receive_queue[k] \/ receive_queue'[k] = Append(receive_queue[k], rx_msg)
      BY <1>0, <2>1
    <3> QED BY <1>5, <3>1, <3>2
  <2>3. FramesOk'
    BY <1>1, <1>2, <1>5, <2>1, <2>2, NoMsgOk DEF FramesOk
  <2>4. PeersOpened' /\ HandEmpty'
    BY <1>4, <1>5, <1>6, <2>1 DEF PeersOpened, HandEmpty
  <2> QED BY <1>r, <1>3, <2>3, <2>4 DEF WireInv
<1> QED BY <1>7, <1>8, <1>9, <1>10 DEF HostThreads, ReceiveLoop

LEMMA DaemonOpens ==
  ASSUME AuthTypeOK, Daemon, OpensOpened(usb_out)
  PROVE  /\ OpensOpened(usb_out')
         /\ FrameReady /\ Frame.cmd = "OPEN" => Frame.arg0 \in opened
<1>0. usb_out \in Seq(Message)
  BY DEF AuthTypeOK, ProtocolTypeOK
<1>1. usb_out # <<>> => OpensOpened(Tail(usb_out)) /\ Tail(usb_out) \in Seq(Message)
  BY <1>0, OpensTail, HeadTailProperties
<1>2. usb_out' = usb_out \/ \E reply : DevReads(reply)
  BY DEF Daemon, DevPacket, DevConnect, DevSignature, DevPublicKey, DevOpen, DevAck,
     DevCloseRequest, DevHostWrite, DevIgnore, DevGarbled, DevStreamWrite, DevStreamEnd, DevWrites
<1>3. ASSUME NEW reply, DevReads(reply) PROVE OpensOpened(usb_out')
  <2>1. /\ usb_out # <<>>
        /\ usb_out' = IF HasPayload(Frame) THEN Tail(Tail(usb_out)) ELSE Tail(usb_out)
        /\ HasPayload(Frame) => Len(usb_out) > 1
    BY <1>3 DEF DevReads, FrameReady
  <2>2. CASE HasPayload(Frame)
    <3>1. Tail(usb_out) # <<>>
      <4>1. Len(usb_out) \in Nat /\ Len(Tail(usb_out)) = Len(usb_out) - 1 /\ Len(usb_out) > 1
        BY <1>0, <2>1, <2>2, HeadTailProperties, LenProperties
      <4>2. \A n \in Nat : n > 1 => n - 1 # 0
        OBVIOUS
      <4>3. Len(Tail(usb_out)) # 0
        BY <4>1, <4>2, Zenon
      <4> QED BY <1>1, <2>1, <4>3, EmptySeq
    <3>2. OpensOpened(Tail(Tail(usb_out)))
      BY <1>1, <2>1, <3>1, OpensTail
    <3> QED BY <2>1, <2>2, <3>2
  <2> QED BY <1>1, <2>1, <2>2
<1>4. FrameReady /\ Frame.cmd = "OPEN" => Frame.arg0 \in opened
  BY <1>0, OpensTail DEF FrameReady, Frame
<1> QED BY <1>2, <1>3, <1>4

LEMMA StreamFacts ==
  ASSUME AuthTypeOK, NEW r \in StreamIds
  PROVE  /\ stream[r] \in Stream /\ r \in Nat \ {0}
         /\ stream[r].peer \in Nat /\ stream[r].sent \in Nat
         /\ stream[r].st \in {"none", "ready", "waitack", "closed"}
         /\ IsOpen(r) <=> stream[r].st \in {"ready", "waitack"}
         /\ End(r) \in Nat
<1>1. stream[r] \in Stream /\ r \in Nat \ {0}
  BY StreamIdType DEF AuthTypeOK, DaemonTypeOK
<1> QED BY <1>1 DEF Stream, IsOpen, End

(* What becomes of the record of a stream.                                 *)
LEMMA StreamGrows ==
  ASSUME AuthTypeOK, Daemon, NEW r \in StreamIds, stream[r].st # "none"
  PROVE  /\ stream'[r].st # "none" /\ stream'[r].peer = stream[r].peer
         /\ stream'[r].service = stream[r].service
         /\ stream'[r].sent \in {stream[r].sent, stream[r].sent + 1}
         /\ stream[r].st = "closed" => stream'[r].st = "closed"
<1>1. stream[r] \in Stream
  BY StreamFacts
<1>2. Ignores(r) \/ Writes(r) \/ Ends(r) \/ Hears(r)
  BY DaemonStream DEF Opens
<1> QED BY <1>1, <1>2 DEF Ignores, Kept, Writes, Ends, Hears, IsOpen, Stream

(* A stream that adbd has opened keeps its host and its service.           *)
LEMMA StreamStays ==
  ASSUME AuthTypeOK, AuthNext, NEW r \in RemoteIds, stream[r].st # "none"
  PROVE  /\ stream'[r].st # "none" /\ stream'[r].peer = stream[r].peer
         /\ stream'[r].service = stream[r].service
         /\ stream[r].st = "closed" => stream'[r].st = "closed"
<1>1. CASE Daemon
  BY <1>1, StreamGrows DEF StreamIds
<1>2. CASE stream' = stream
  BY <1>2
<1> QED BY <1>1, <1>2 DEF AuthNext, Authenticate, SendConnect, FirstAnswer, SendSignature,
           SecondAnswer, OfferKey, daemonVars

LEMMA DaemonShapes ==
  ASSUME AuthTypeOK, Daemon, NEW m \in Message, Says(m)
  PROVE  Shaped(m)
<1>0. usb_in \in Seq(Message) /\ RemoteIds \subseteq StreamIds
  BY DEF AuthTypeOK, ProtocolTypeOK, StreamIds
<1>1. Len(usb_in) \in Nat /\ usb_in'[Len(usb_in) + 1] = m /\ Len(usb_in') = Len(usb_in) + 1
  BY <1>0, AppendProperties, LenProperties DEF Says
<1>2. DevReads(<<>>) => FALSE
  BY <1>1, ReadsSays
<1>3. \A n : DevReads(<<n>>) \/ DevWrites(n) => m = n
  <2>1. \A n : DevReads(<<n>>) \/ DevWrites(n) => usb_in' = Append(usb_in, n)
    BY <1>0 DEF DevReads, DevWrites
  <2>2. \A n : usb_in' = Append(usb_in, n) => usb_in'[Len(usb_in) + 1] = n
    BY <1>0
  <2> QED BY <1>1, <2>1, <2>2
<1>4. usb_in' # usb_in
  BY <1>1
<1>5. ASSUME NEW n, NEW cmd, NEW a0, NEW a1, NEW d,
             n = Msg(cmd, a0, a1, d), cmd \in {"CLSE", "WRTE"} \cup HandshakeCmds
      PROVE  a0 \in StreamIds \cup {0} => Shaped(n)
  BY <1>5 DEF Shaped, Msg, Said, HandshakeCmds
<1>6. ASSUME NEW n, NEW a0 \in StreamIds, NEW a1, n = Msg("OKAY", a0, a1, NoData)
      PROVE  Shaped(n)
  BY <1>6 DEF Shaped, Msg, Said
<1>7. Shaped(Connected) /\ \A n : Shaped(Challenge(n))
  BY DEF Connected, Challenge, HandshakeCmds, IsHandshake, Shaped, Msg
<1>8. CASE DevConnect \/ DevSignature \/ DevPublicKey
  BY <1>2, <1>3, <1>7, <1>8 DEF DevConnect, DevSignature, DevPublicKey
<1>9. CASE DevOpen
  BY <1>0, <1>3, <1>5, <1>6, <1>9 DEF DevOpen
<1>10. CASE DevHostWrite
  BY <1>2, <1>3, <1>6, <1>10 DEF DevHostWrite, Addressed
<1>11. CASE DevCloseRequest
  BY <1>2, <1>3, <1>5, <1>11 DEF DevCloseRequest, Addressed
<1>12. CASE DevAck \/ DevIgnore \/ (DevGarbled /\ UNCHANGED daemonVars)
  BY <1>2, <1>4, <1>12 DEF DevAck, DevIgnore, DevGarbled
<1>13. CASE \E r \in StreamIds : DevStreamWrite(r) \/ DevStreamEnd(r)
  BY <1>3, <1>5, <1>13 DEF DevStreamWrite, DevStreamEnd
<1> QED BY <1>8, <1>9, <1>10, <1>11, <1>12, <1>13 DEF Daemon, DevPacket

LEMMA WireDaemon ==
  ASSUME AuthTypeOK, WireInv, Daemon
  PROVE  WireInv'
<1>0. /\ usb_in \in Seq(Message) /\ receive_queue \in [Keys -> Seq(Message)]
      /\ UNCHANGED <<send_queue, receive_queue, opened, rx_pc, rx_msg>>
      /\ RemoteIds \subseteq StreamIds
  BY DEF AuthTypeOK, ProtocolTypeOK, Daemon, DevPacket, DevConnect, DevSignature, DevPublicKey,
     DevOpen, DevAck, DevCloseRequest, DevHostWrite, DevIgnore, DevGarbled, DevStreamWrite,
     DevStreamEnd, DevWrites, DevReads, StreamIds
<1>1. /\ OpensOpened(send_queue) /\ OpensOpened(usb_out) /\ AllOk(usb_in) /\ FrameOk(rx_msg)
      /\ \A k \in LocalIds : AllOk(receive_queue[k])
      /\ \A r \in RemoteIds : stream[r].st # "none" => stream[r].peer \in opened
      /\ UnusedEmpty /\ HandEmpty
  BY DEF WireInv, PeersOpened, FramesOk
<1>2. ASSUME NEW r \in RemoteIds PROVE r \in StreamIds /\ stream[r].sent \in Nat
  BY <1>0, StreamFacts
<1>3. ASSUME NEW m, FrameOk(m) PROVE FrameOk(m)'
  <2> SUFFICES ASSUME NEW r \in RemoteIds, OfStream(m, r, Said)
               PROVE  /\ stream'[r].st # "none"
                      /\ m.arg1 = stream'[r].peer
                      /\ m.cmd = "CLSE" => stream'[r].st = "closed"
    BY <1>3 DEF FrameOk
  <2>1. /\ stream[r].st # "none" /\ m.arg1 = stream[r].peer
        /\ m.cmd = "CLSE" => stream[r].st = "closed"
    BY <1>3 DEF FrameOk
  <2>2. /\ stream'[r].st # "none" /\ stream'[r].peer = stream[r].peer
        /\ stream'[r].sent \in {stream[r].sent, stream[r].sent + 1}
        /\ stream[r].st = "closed" => stream'[r].st = "closed"
    BY <1>2, <2>1, StreamGrows
  <2> QED BY <1>2, <2>1, <2>2
<1>4. \A s : AllOk(s) => AllOk(s)'
  BY <1>3 DEF AllOk
<1>5. ASSUME NEW m \in Message, Says(m) PROVE FrameOk(m)'
  <2> SUFFICES ASSUME NEW r \in RemoteIds, OfStream(m, r, Said)
               PROVE  /\ stream'[r].st # "none"
                      /\ m.arg1 = stream'[r].peer
                      /\ m.cmd = "CLSE" => stream'[r].st = "closed"
    BY <1>5, DaemonShapes DEF FrameOk
  <2>0. stream[r] \in Stream /\ stream[r].sent \in Nat /\ r \in StreamIds
    BY <1>2, StreamFacts
  <2>1. Len(usb_in) \in Nat /\ usb_in'[Len(usb_in) + 1] = m /\ Len(usb_in') = Len(usb_in) + 1
    BY <1>0, <1>5, AppendProperties, LenProperties DEF Says
  <2>2. \A n : Says(n) => n = m
    BY <1>0, <2>1 DEF Says
  <2>3. ~SaysOther(r)
    <3>1. usb_in' # usb_in
      BY <2>1
    <3> QED BY <2>2, <3>1 DEF SaysOther
  <2>4. Opens(r) \/ Writes(r) \/ Ends(r) \/ Hears(r)
    BY <2>0, <2>3, DaemonStream DEF Ignores
  <2>5. CASE Opens(r)
    <3>1. m = Msg("OKAY", r, Frame.arg0, NoData)
      BY <2>2, <2>5 DEF Opens
    <3> QED BY <2>5, <3>1 DEF Opens, Msg, NewStream
  <2>6. CASE Writes(r)
    <3>1. m = Msg("WRTE", r, stream[r].peer, <<r, stream[r].sent + 1>>)
      BY <2>2, <2>6 DEF Writes
    <3>2. stream'[r].st = "waitack" /\ stream'[r].peer = stream[r].peer
      BY <2>0, <2>6 DEF Writes, Stream
    <3> QED BY <3>1, <3>2 DEF Msg
  <2>7. CASE Ends(r)
    <3>1. m = Msg("CLSE", r, stream[r].peer, NoData)
      BY <2>2, <2>7 DEF Ends
    <3>2. stream'[r].st = "closed" /\ stream'[r].peer = stream[r].peer
      BY <2>0, <2>7 DEF Ends, Stream
    <3> QED BY <3>1, <3>2 DEF Msg
  <2>8. CASE Hears(r)
    <3>1. m = Msg("OKAY", r, stream[r].peer, NoData)
      BY <2>2, <2>8 DEF Hears
    <3>2. stream'[r].st = stream[r].st /\ stream'[r].peer = stream[r].peer
      BY <2>0, <2>8 DEF Hears, Stream
    <3> QED BY <2>8, <3>1, <3>2 DEF Msg, Hears, IsOpen
  <2> QED BY <2>4, <2>5, <2>6, <2>7, <2>8
<1>6. AllOk(usb_in)'
  <2>1. usb_in' = usb_in \/ \E m \in Message : Says(m)
    <3>1. \/ \E reply : DevReads(reply) /\ (reply = <<>> \/ \E m : reply = <<m>>)
          \/ \E m : DevWrites(m)
          \/ usb_in' = usb_in
      BY DEF Daemon, DevPacket, DevConnect, DevSignature, DevPublicKey,
         DevOpen, DevAck, DevCloseRequest, DevHostWrite, DevIgnore, DevGarbled, DevStreamWrite,
         DevStreamEnd
    <3>2. usb_in' = usb_in \/ \E m : Says(m)
      <4>1. usb_in \o <<>> = usb_in
        BY <1>0, ConcatEmptySeq
      <4>2. \A m : usb_in \o <<m>> = Append(usb_in, m)
        BY <1>0
      <4> QED BY <3>1, <4>1, <4>2 DEF DevReads, DevWrites, Says
    <3>3. usb_in' \in Seq(Message)
      BY DaemonType DEF AuthTypeOK, ProtocolTypeOK
    <3>4. \A m : Says(m) => m \in Message
      <4> SUFFICES ASSUME NEW m, Says(m) PROVE m \in Message
        OBVIOUS
      <4>1. Len(usb_in') = Len(usb_in) + 1 /\ usb_in'[Len(usb_in) + 1] = m /\ Len(usb_in) \in Nat
        BY <1>0 DEF Says
      <4>2. Len(usb_in) + 1 \in 1..Len(usb_in')
        BY <4>1
      <4> QED BY <3>3, <4>1, <4>2, ElementOfSeq
    <3> QED BY <3>2, <3>4
  <2>2. CASE usb_in' = usb_in
    BY <1>1, <1>4, <2>2
  <2>3. ASSUME NEW m \in Message, Says(m) PROVE AllOk(usb_in)'
    <3>1. /\ Len(usb_in) \in Nat /\ Len(usb_in') = Len(usb_in) + 1
          /\ \A i \in 1..Len(usb_in) : usb_in'[i] = usb_in[i]
          /\ usb_in'[Len(usb_in) + 1] = m
      BY <1>0, <2>3, AppendProperties, LenProperties DEF Says
    <3>2. \A i \in 1..Len(usb_in') : i \in 1..Len(usb_in) \/ i = Len(usb_in) + 1
      BY <3>1
    <3>3. FrameOk(m)'
      BY <1>5, <2>3
    <3>4. \A i \in 1..Len(usb_in) : FrameOk(usb_in[i])
      BY <1>1 DEF AllOk
    <3>5. ASSUME NEW i \in 1..Len(usb_in') PROVE FrameOk(usb_in[i])'
      <4>1. CASE i \in 1..Len(usb_in)
        <5>1. PICK n : n = usb_in[i]
          OBVIOUS
        <5>2. FrameOk(n)'
          BY <1>3, <3>4, <4>1, <5>1
        <5>3. usb_in'[i] = n
          BY <3>1, <4>1, <5>1
        <5> QED BY <5>2, <5>3
      <4>2. CASE i = Len(usb_in) + 1
        BY <3>1, <3>3, <4>2
      <4> QED BY <3>2, <4>1, <4>2
    <3> QED BY <3>5 DEF AllOk
  <2> QED BY <2>1, <2>2, <2>3
<1>7. FramesOk' /\ HandEmpty'
  <2>1. FrameOk(rx_msg)'
    <3>1. PICK n : n = rx_msg
      OBVIOUS
    <3> QED BY <1>0, <1>1, <1>3, <3>1
  <2>2. ASSUME NEW k \in LocalIds PROVE AllOk(receive_queue[k])'
    <3>1. PICK s : s = receive_queue[k]
      OBVIOUS
    <3> QED BY <1>0, <1>1, <1>4, <3>1
  <2> QED BY <1>0, <1>1, <1>6, <2>1, <2>2 DEF FramesOk, HandEmpty
<1>8. ASSUME NEW r \in RemoteIds
      PROVE  /\ stream'[r].st # "none" => stream'[r].peer \in opened
             /\ stream'[r].st = "none" => stream'[r].sent = 0 /\ stream'[r].got = <<>>
  <2>1. CASE stream[r].st # "none"
    BY <1>1, <1>2, <2>1, StreamGrows
  <2>2. CASE stream[r].st = "none"
    <3>1. Ignores(r) \/ Opens(r)
      BY <1>2, <2>2, DaemonStream DEF Writes, Ends, Hears, IsOpen
    <3>2. CASE Ignores(r)
      BY <1>1, <2>2, <3>2 DEF Ignores, Kept, UnusedEmpty
    <3>3. CASE Opens(r)
      <4>1. Frame.arg0 \in opened /\ stream'[r].st = "ready" /\ stream'[r].peer = Frame.arg0
        BY <1>1, <3>3, DaemonOpens DEF Opens, NewStream
      <4> QED BY <4>1
    <3> QED BY <3>1, <3>2, <3>3
  <2> QED BY <2>1, <2>2
<1>9. PeersOpened' /\ UnusedEmpty'
  <2>1. \A s : OpensOpened(s)' <=> OpensOpened(s)
    BY <1>0 DEF OpensOpened
  <2>2. OpensOpened(usb_out')
    BY <1>1, DaemonOpens
  <2> QED BY <1>0, <1>1, <1>8, <2>1, <2>2 DEF PeersOpened, UnusedEmpty
<1>10. Routed'
  BY <1>0 DEF WireInv, Routed
<1> QED BY <1>7, <1>9, <1>10 DEF WireInv

LEMMA WirePut ==
  ASSUME AuthTypeOK, WireInv, NEW m \in Message, send_queue' = Append(send_queue, m),
         opened \subseteq opened', m.cmd = "OPEN" => m.arg0 \in opened',
         UNCHANGED <<receive_queue, rx_pc, rx_msg, usb_out, usb_in, stream>>
  PROVE  WireInv'
<1>0. send_queue \in Seq(Message)
  BY DEF AuthTypeOK, ProtocolTypeOK
<1>1. OpensOpened(send_queue) /\ OpensOpened(usb_out)
  BY DEF WireInv, PeersOpened
<1>2. /\ Len(send_queue) \in Nat /\ Len(send_queue') = Len(send_queue) + 1
      /\ \A i \in 1..Len(send_queue) : send_queue'[i] = send_queue[i]
      /\ send_queue'[Len(send_queue) + 1] = m
  BY <1>0, AppendProperties, LenProperties
<1>3. \A i \in 1..Len(send_queue) + 1 : i \in 1..Len(send_queue) \/ i = Len(send_queue) + 1
  BY <1>2
<1>4. OpensOpened(send_queue)' /\ OpensOpened(usb_out)'
  BY <1>1, <1>2, <1>3 DEF OpensOpened
<1>5. \A r \in RemoteIds : stream'[r].st # "none" => stream'[r].peer \in opened'
  BY DEF WireInv, PeersOpened
<1>6. \A n : FrameOk(n)' <=> FrameOk(n)
  BY DEF FrameOk
<1>7. \A s : AllOk(s)' <=> AllOk(s)
  BY <1>6 DEF AllOk
<1>8. FramesOk' /\ Routed' /\ HandEmpty' /\ UnusedEmpty'
  BY <1>6, <1>7 DEF WireInv, FramesOk, Routed, HandEmpty, UnusedEmpty
<1> QED BY <1>4, <1>5, <1>8 DEF WireInv, PeersOpened

LEMMA WireTake ==
  ASSUME AuthTypeOK, WireInv, NEW k \in Keys, Take(k), UNCHANGED stream
  PROVE  WireInv'
<1>0. receive_queue \in [Keys -> Seq(Message)] /\ LocalIds \subseteq Keys
  BY DEF AuthTypeOK, ProtocolTypeOK, Keys
<1>1. /\ receive_queue[k] # <<>> /\ receive_queue' = [receive_queue EXCEPT ![k] = Tail(@)]
      /\ UNCHANGED <<send_queue, opened, rx_pc, rx_msg, usb_out, usb_in>>
  BY DEF Take
<1>2. \A n : FrameOk(n)' <=> FrameOk(n)
  BY DEF FrameOk
<1>3. \A s : (AllOk(s)' <=> AllOk(s)) /\ (OpensOpened(s)' <=> OpensOpened(s))
  BY <1>1, <1>2 DEF AllOk, OpensOpened
<1>4. ASSUME NEW l \in LocalIds PROVE AllOk(receive_queue'[l])
  <2>0. AllOk(receive_queue[l])
    BY DEF WireInv, FramesOk
  <2>1. CASE l = k
    <3>1. AllOk(Tail(receive_queue[l]))
      BY <1>0, <1>1, <2>0, <2>1, AllOkTail
    <3> QED BY <1>0, <1>1, <2>1, <3>1
  <2>2. CASE l # k
    BY <1>0, <1>1, <2>0, <2>2
  <2> QED BY <2>1, <2>2
<1>5. FramesOk'
  BY <1>1, <1>2, <1>3, <1>4 DEF WireInv, FramesOk
<1>6. PeersOpened' /\ HandEmpty' /\ UnusedEmpty'
  BY <1>1, <1>3 DEF WireInv, PeersOpened, HandEmpty, UnusedEmpty
<1>7. Routed'
  <2> SUFFICES ASSUME NEW l \in LocalIds PROVE RoutedTo(receive_queue'[l], l)
    BY DEF Routed
  <2>1. RoutedTo(receive_queue[l], l) /\ receive_queue[l] \in Seq(Message)
    BY <1>0 DEF WireInv, Routed
  <2> QED BY <1>0, <1>1, <2>1, RoutedTail
<1> QED BY <1>5, <1>6, <1>7 DEF WireInv

LEMMA WireUnchanged ==
  ASSUME WireInv, UNCHANGED AuthVars
  PROVE  WireInv'
<1>1. \A n : FrameOk(n)' <=> FrameOk(n)
  BY DEF FrameOk, AuthVars, daemonVars
<1>2. \A s : (AllOk(s)' <=> AllOk(s)) /\ (OpensOpened(s)' <=> OpensOpened(s))
  BY <1>1 DEF AllOk, OpensOpened, AuthVars, protocolVars
<1> QED BY <1>1, <1>2 DEF WireInv, FramesOk, Routed, PeersOpened, HandEmpty, UnusedEmpty,
           AuthVars, protocolVars, daemonVars

LEMMA WireInit ==
  ASSUME AuthInit
  PROVE  WireInv
<1>a. usb_in \in StaleTraffic /\ usb_in \in Seq(Message)
  BY DaemonAssumption DEF AuthInit, DaemonInit
<1>b. /\ rx_pc = "read" /\ opened = {} /\ send_queue = <<>> /\ usb_out = <<>> /\ rx_msg = NoMsg
      /\ receive_queue = [k \in Keys |-> <<>>] /\ LocalIds \subseteq Keys
  BY DEF AuthInit, ProtocolInit, Keys
<1>1. ASSUME NEW i \in 1..Len(usb_in) PROVE FrameOk(usb_in[i])
  <2>1. IsHandshake(usb_in[i]) \/ usb_in[i].arg0 \in StaleIds
    BY <1>a, DaemonAssumption
  <2>2. \A r \in RemoteIds : ~OfStream(usb_in[i], r, Said)
    BY <2>1, ProtocolAssumption DEF OfStream, Said, IsHandshake
  <2>3. Shaped(usb_in[i])
    BY <2>1, ProtocolAssumption DEF Shaped, StreamIds, HandshakeCmds, IsHandshake
  <2> QED BY <2>2, <2>3 DEF FrameOk
<1>2. \A r \in RemoteIds : stream[r] = NoStream
  <2>1. \A r \in RemoteIds : r \in StreamIds /\ r \notin StaleIds
    BY ProtocolAssumption DEF StreamIds
  <2> QED BY <2>1 DEF AuthInit, DaemonInit
<1>3. \A k \in LocalIds : AllOk(receive_queue[k])
  BY <1>b, EmptySeq DEF AllOk
<1>4. OpensOpened(<<>>)
  BY EmptySeq DEF OpensOpened
<1>5. FramesOk
  BY <1>1, <1>3, <1>b, NoMsgOk DEF FramesOk, AllOk
<1>6. PeersOpened /\ HandEmpty /\ UnusedEmpty
  BY <1>2, <1>4, <1>b DEF PeersOpened, HandEmpty, UnusedEmpty, NoStream
<1>7. Routed
  BY <1>b, EmptySeq DEF Routed, RoutedTo
<1> QED BY <1>5, <1>6, <1>7 DEF WireInv

(* authenticate() says nothing of a stream.                                *)
LEMMA WireAuthenticate ==
  ASSUME AuthTypeOK, WireInv, Authenticate
  PROVE  WireInv'
<1>1. stream' = stream
  BY DEF Authenticate, SendConnect, FirstAnswer, SendSignature, SecondAnswer, OfferKey, daemonVars
<1>2. CASE Take(Default)
  BY <1>1, <1>2, WireTake DEF Keys
<1>3. \/ Take(Default)
      \/ \E m \in Message : m.cmd \in HandshakeCmds /\ (PutHeader(m) \/ PutPayload(m))
  <2>1. /\ Msg("CNXN", 1, 0, NoData) \in Message
        /\ Msg("AUTH", 2, 0, auth_token) \in Message
        /\ Msg("AUTH", 3, 0, NoData) \in Message
    BY NoDataType, MsgType DEF Commands, AuthTypeOK
  <2>2. /\ Msg("CNXN", 1, 0, NoData).cmd \in HandshakeCmds
        /\ Msg("AUTH", 2, 0, auth_token).cmd \in HandshakeCmds
        /\ Msg("AUTH", 3, 0, NoData).cmd \in HandshakeCmds
    BY DEF Msg, HandshakeCmds
  <2> QED BY <2>1, <2>2 DEF Authenticate, SendConnect, FirstAnswer, SendSignature, SecondAnswer, OfferKey
<1>4. ASSUME NEW m \in Message, m.cmd \in HandshakeCmds, PutHeader(m) \/ PutPayload(m)
      PROVE  WireInv'
  <2>1. \E n \in Message : send_queue' = Append(send_queue, n) /\ n.cmd # "OPEN"
    <3>1. Payload(m) \in Message /\ Payload(m).cmd = "DATA"
      BY PayloadType DEF Payload, Message
    <3>2. CASE PutHeader(m)
      BY <1>4, <3>2 DEF PutHeader, HandshakeCmds
    <3>3. CASE PutPayload(m)
      BY <3>1, <3>3 DEF PutPayload
    <3> QED BY <1>4, <3>2, <3>3
  <2>2. /\ opened \subseteq opened'
        /\ UNCHANGED <<receive_queue, rx_pc, rx_msg, usb_out, usb_in>>
    BY <1>4 DEF PutHeader, PutPayload
  <2> QED BY <1>1, <2>1, <2>2, WirePut
<1> QED BY <1>2, <1>3, <1>4

LEMMA WireStep ==
  ASSUME AuthTypeOK, WireInv, AuthNext
  PROVE  WireInv'
BY WireHostThreads, WireDaemon, WireAuthenticate DEF AuthNext, daemonVars

-----------------------------------------------------------------------------
(* The way of one stream.                                                  *)
LEMMA OrderHostThreads ==
  ASSUME AuthTypeOK, WireInv, HostThreads, UNCHANGED stream,
         NEW r \in RemoteIds, stream[r].st # "none",
         NEW S, S \subseteq Said, NEW lo \in Nat, InOrder(r, S, lo)
  PROVE  InOrder(r, S, lo)'
<1>0. /\ usb_in \in Seq(Message) /\ receive_queue \in [Keys -> Seq(Message)] /\ rx_msg \in Message
      /\ opened \subseteq LocalIds /\ LocalIds \subseteq Keys
      /\ r \in StreamIds
  BY DEF AuthTypeOK, ProtocolTypeOK, Keys, StreamIds
<1>1. stream[r].peer \in opened /\ stream[r].peer \in LocalIds /\ End(r) \in Nat
  BY <1>0, StreamFacts DEF WireInv, PeersOpened
<1>2. PICK k, end \in Nat : k = stream[r].peer /\ end = End(r)
  BY <1>1, ProtocolAssumption
<1>3. k \in LocalIds /\ k \in opened /\ stream'[r].peer = k /\ End(r)' = end
      /\ receive_queue[k] \in Seq(Message)
  BY <1>0, <1>1, <1>2 DEF End
<1>4. PICK a \in Nat, b \in Nat, c \in Nat :
        /\ Run(receive_queue[k], r, S, end, lo, a)
        /\ rx_pc # "dead" =>
             /\ Run(<<rx_msg>>, r, S, end, a, b)
             /\ Run(usb_in, r, S, end, b, c)
             /\ c = stream[r].sent + 1 \/ (c = stream[r].sent + 2 /\ stream[r].st = "closed")
  BY <1>2 DEF InOrder
<1>5. ASSUME NEW x \in Nat, NEW y \in Nat, NEW z \in Nat,
             Run(receive_queue'[k], r, S, end, lo, x),
             rx_pc' # "dead" =>
               /\ Run(<<rx_msg'>>, r, S, end, x, y)
               /\ Run(usb_in', r, S, end, y, z)
               /\ z = c /\ rx_pc # "dead"
      PROVE  InOrder(r, S, lo)'
  <2>1. stream' = stream
    OBVIOUS
  <2> QED BY <1>3, <1>4, <1>5, <2>1 DEF InOrder
<1>6. OfStream(rx_msg, r, S) => KeyOf(rx_msg) = k /\ HasQueue(rx_msg)
  <2>1. ASSUME OfStream(rx_msg, r, S) PROVE rx_msg.arg1 = k /\ ~IsHandshake(rx_msg)
    BY <1>2, <2>1 DEF WireInv, FramesOk, FrameOk, OfStream, Said, IsHandshake
  <2> QED BY <1>3, <2>1 DEF KeyOf, HasQueue
<1>7. CASE SendLoop \/ WriteError \/ AckWrite
  <2>1. UNCHANGED <<receive_queue, rx_msg, usb_in>> /\ (rx_pc' = rx_pc \/ rx_pc = "ack")
    BY <1>7 DEF SendLoop, WriteError, AckWrite
  <2>2. rx_pc' # "dead" => rx_pc # "dead"
    BY <2>1
  <2> QED BY <1>4, <1>5, <2>1, <2>2
<1>8. CASE ReceiveFrame
  <2>1. /\ rx_pc = "read" /\ rx_msg = NoMsg /\ usb_in # <<>> /\ rx_msg' = Head(usb_in)
        /\ usb_in' = Tail(usb_in) /\ receive_queue' = receive_queue
    BY <1>8 DEF ReceiveFrame, WireInv, HandEmpty
  <2>2. ~OfStream(rx_msg, r, S)
    BY <2>1, NoMsgOk
  <2>3. b = a
    BY <1>0, <1>4, <2>1, <2>2, RunOne
  <2>4. PICK d \in Nat : Run(<<Head(usb_in)>>, r, S, end, b, d) /\ Run(Tail(usb_in), r, S, end, d, c)
    <3>1. Run(usb_in, r, S, end, b, c)
      BY <1>4, <2>1
    <3> QED BY <1>0, <2>1, <3>1, RunHead
  <2>5. Run(<<rx_msg'>>, r, S, end, a, d) /\ Run(usb_in', r, S, end, d, c)
    BY <2>1, <2>3, <2>4
  <2> QED BY <1>4, <1>5, <2>1, <2>5
<1>9. CASE ChecksumError
  <2>1. receive_queue' = receive_queue /\ rx_pc' = "dead"
    BY <1>9 DEF ChecksumError
  <2> QED BY <1>4, <1>5, <2>1
<1>10. CASE Deliver \/ Discard
  <2>1. /\ rx_pc = "deliver" /\ rx_msg' = NoMsg /\ usb_in' = usb_in /\ rx_pc' = "read"
        /\ \/ receive_queue' = [receive_queue EXCEPT ![KeyOf(rx_msg)] = Append(@, rx_msg)]
           \/ receive_queue' = receive_queue /\ ~HasQueue(rx_msg)
    BY <1>10 DEF Deliver, Discard
  <2>2. Run(<<rx_msg>>, r, S, end, a, b)
    BY <1>4, <2>1
  <2>3. Run(receive_queue'[k], r, S, end, lo, b)
    <3>1. CASE receive_queue'[k] = Append(receive_queue[k], rx_msg)
      <4>1. Run(Append(receive_queue[k], rx_msg), r, S, end, lo, b)
        BY <1>0, <1>3, <1>4, <2>2, RunAppend
      <4> QED BY <3>1, <4>1
    <3>2. CASE receive_queue'[k] = receive_queue[k] /\ ~OfStream(rx_msg, r, S)
      <4>1. b = a
        BY <1>0, <2>2, <3>2, RunOne
      <4> QED BY <1>4, <3>2, <4>1
    <3> QED BY <1>0, <1>3, <1>6, <2>1, <3>1, <3>2
  <2>4. Run(<<rx_msg'>>, r, S, end, b, b)
    BY <2>1, NoMsgOk, NoDataType, RunOne
  <2>5. Run(usb_in', r, S, end, b, c)
    BY <1>4, <2>1
  <2> QED BY <1>5, <2>1, <2>3, <2>4, <2>5
<1> QED BY <1>7, <1>8, <1>9, <1>10 DEF HostThreads, ReceiveLoop

(* The number before the first one of S.                                   *)
First(S) == IF "OKAY" \in S THEN 0 ELSE 1

LEMMA OrderDaemon ==
  ASSUME AuthTypeOK, WireInv, Daemon, NEW r \in RemoteIds,
         NEW S, {"WRTE", "CLSE"} \subseteq S, S \subseteq Said, NEW lo \in Nat,
         "OKAY" \in S => ~(FrameReady /\ Frame.cmd = "WRTE" /\ Frame.arg1 = r),
         IF stream[r].st = "none" THEN lo = First(S) ELSE InOrder(r, S, lo)
  PROVE  stream'[r].st # "none" => InOrder(r, S, lo)'
<1>0. /\ usb_in \in Seq(Message) /\ receive_queue \in [Keys -> Seq(Message)] /\ rx_msg \in Message
      /\ opened \subseteq LocalIds /\ LocalIds \subseteq Keys /\ LocalIds \subseteq Nat
      /\ r \in StreamIds /\ r \in Nat
      /\ UNCHANGED <<receive_queue, opened, rx_pc, rx_msg>>
  <2>1. /\ usb_in \in Seq(Message) /\ receive_queue \in [Keys -> Seq(Message)] /\ rx_msg \in Message
        /\ opened \subseteq LocalIds /\ LocalIds \subseteq Keys /\ LocalIds \subseteq Nat
        /\ r \in StreamIds /\ r \in Nat
    BY ProtocolAssumption DEF AuthTypeOK, ProtocolTypeOK, Keys, StreamIds
  <2>2. UNCHANGED <<receive_queue, opened, rx_pc, rx_msg>>
    BY DEF Daemon, DevPacket, DevConnect, DevSignature, DevPublicKey, DevOpen, DevAck,
       DevCloseRequest, DevHostWrite, DevIgnore, DevGarbled, DevStreamWrite, DevStreamEnd,
       DevWrites, DevReads
  <2> QED BY <2>1, <2>2
<1>1. /\ stream[r] \in Stream /\ stream[r].sent \in Nat /\ End(r) \in Nat
      /\ stream[r].st # "none" => stream[r].peer \in opened
  BY <1>0, StreamFacts DEF WireInv, PeersOpened
<1>2. /\ AllOk(usb_in) /\ FrameOk(rx_msg)
      /\ \A k \in LocalIds : AllOk(receive_queue[k])
  BY DEF WireInv, FramesOk
<1>3. Len(<<rx_msg>>) = 1 /\ <<rx_msg>>[1] = rx_msg /\ <<rx_msg>> \in Seq(Message)
  BY <1>0
<1>4. AllOk(<<rx_msg>>)
  BY <1>2, <1>3 DEF AllOk
<1>5. ASSUME NEW k \in LocalIds, NEW end \in Nat, NEW x \in Nat, NEW y \in Nat, NEW z \in Nat,
             NEW u \in Nat, NEW m \in Message,
             stream'[r].peer = k, End(r)' = end,
             usb_in' = usb_in \/ Says(m),
             Run(receive_queue[k], r, S, end, lo, x),
             rx_pc # "dead" =>
               /\ Run(<<rx_msg>>, r, S, end, x, y)
               /\ Run(usb_in, r, S, end, y, z)
               /\ IF usb_in' = usb_in THEN u = z ELSE Run(<<m>>, r, S, end, z, u)
               /\ u = stream'[r].sent + 1 \/ (u = stream'[r].sent + 2 /\ stream'[r].st = "closed")
      PROVE  InOrder(r, S, lo)'
  <2>1. rx_pc # "dead" => Run(usb_in', r, S, end, y, u)
    <3>1. CASE usb_in' = usb_in
      BY <1>5, <3>1
    <3>2. CASE usb_in' # usb_in /\ rx_pc # "dead"
      <4>1. Run(Append(usb_in, m), r, S, end, y, u)
        BY <1>0, <1>5, <3>2, RunAppend
      <4> QED BY <1>5, <3>2, <4>1 DEF Says
    <3> QED BY <3>1, <3>2
  <2> QED BY <1>0, <1>5, <2>1 DEF InOrder
<1>6. CASE Ignores(r) \/ Hears(r)
  <2> SUFFICES ASSUME stream'[r].st # "none" PROVE InOrder(r, S, lo)'
    OBVIOUS
  <2>1. /\ stream[r].st # "none" /\ stream'[r].peer = stream[r].peer /\ stream'[r].sent = stream[r].sent
        /\ stream[r].st = "closed" => stream'[r].st = "closed"
    BY <1>1, <1>6 DEF Ignores, Hears, Kept, IsOpen, Stream
  <2>2. usb_in' = usb_in \/ \E m \in Message : Says(m) /\ ~OfStream(m, r, S)
    <3>1. CASE Ignores(r)
      BY <3>1 DEF Ignores, SaysOther, OfStream
    <3>2. CASE Hears(r)
      <4>1. Msg("OKAY", r, stream[r].peer, NoData) \in Message
        BY <1>0, <1>1, <2>1, MsgType, NoDataType DEF Commands
      <4>2. ~OfStream(Msg("OKAY", r, stream[r].peer, NoData), r, S)
        BY <3>2 DEF OfStream, Msg, Hears
      <4> QED BY <3>2, <4>1, <4>2 DEF Hears
    <3> QED BY <1>6, <3>1, <3>2
  <2>3. PICK m \in Message : usb_in' = usb_in \/ (Says(m) /\ ~OfStream(m, r, S))
    BY <2>2, NoDataType
  <2>4. PICK k \in LocalIds, end \in Nat : k = stream[r].peer /\ end = End(r)
    BY <1>0, <1>1, <2>1
  <2>5. PICK x \in Nat, y \in Nat, z \in Nat :
        /\ Run(receive_queue[k], r, S, end, lo, x)
        /\ rx_pc # "dead" =>
             /\ Run(<<rx_msg>>, r, S, end, x, y)
             /\ Run(usb_in, r, S, end, y, z)
             /\ z = stream[r].sent + 1 \/ (z = stream[r].sent + 2 /\ stream[r].st = "closed")
    BY <2>1, <2>4 DEF InOrder
  <2>6. ~OfStream(m, r, S) => Run(<<m>>, r, S, end, z, z)
    BY RunOne
  <2>7. End(r)' = end /\ stream'[r].peer = k
    BY <2>1, <2>4 DEF End
  <2> QED BY <1>5, <2>1, <2>3, <2>5, <2>6, <2>7
<1>7. CASE Opens(r)
  <2>1. /\ stream[r].st = "none" /\ Frame.arg0 \in opened
        /\ stream'[r].sent = 0 /\ stream'[r].peer = Frame.arg0 /\ End(r)' = 2
        /\ Says(Msg("OKAY", r, Frame.arg0, NoData))
    BY <1>7, DaemonOpens DEF Opens, NewStream, WireInv, PeersOpened, End
  <2>2. \A n : FrameOk(n) => ~OfStream(n, r, S)
    BY <2>1 DEF FrameOk, OfStream
  <2>3. PICK k \in LocalIds, m \in Message : k = Frame.arg0 /\ m = Msg("OKAY", r, k, NoData)
    BY <1>0, <2>1, MsgType, NoDataType DEF Commands
  <2>4. receive_queue[k] \in Seq(Message) /\ AllOk(receive_queue[k])
    BY <1>0, <1>2
  <2>5. /\ Run(receive_queue[k], r, S, 2, lo, lo)
        /\ Run(<<rx_msg>>, r, S, 2, lo, lo)
        /\ Run(usb_in, r, S, 2, lo, lo)
    BY <1>0, <1>2, <1>3, <1>4, <2>2, <2>4, RunEmpty DEF AllOk
  <2>6. m.cmd = "OKAY" /\ m.arg0 = r
    BY <2>3 DEF Msg
  <2>7. lo = First(S) /\ Run(<<m>>, r, S, 2, lo, 1)
    <3>1. OfStream(m, r, S) <=> "OKAY" \in S
      BY <2>6 DEF OfStream
    <3>2. Number(m, 2) = 1
      BY <2>6 DEF Number
    <3>3. lo = IF "OKAY" \in S THEN 0 ELSE 1
      BY <2>1 DEF First
    <3>4. IF OfStream(m, r, S) THEN Number(m, 2) = lo + 1 /\ 1 = lo + 1 ELSE 1 = lo
      BY <3>1, <3>2, <3>3
    <3>5. Run(<<m>>, r, S, 2, lo, 1)
      BY <3>4, RunOne
    <3> QED BY <2>1, <3>5
  <2>8. Says(m) /\ usb_in' # usb_in
    <3>1. Says(m)
      BY <2>1, <2>3
    <3>2. Len(usb_in') = Len(usb_in) + 1 /\ Len(usb_in) \in Nat
      BY <1>0, <3>1 DEF Says
    <3> QED BY <3>1, <3>2
  <2> QED BY <1>5, <2>1, <2>3, <2>5, <2>7, <2>8
<1>8. CASE Writes(r) \/ Ends(r)
  <2>1. stream[r].st \in {"ready", "waitack"} /\ stream'[r].peer = stream[r].peer
    BY <1>1, <1>8 DEF Writes, Ends, IsOpen, Stream
  <2>2. PICK k \in LocalIds, end \in Nat, end2 \in Nat :
          k = stream[r].peer /\ end = End(r) /\ end2 = End(r)'
    <3>1. stream'[r].sent \in Nat
      <4>1. Writes(r) => stream'[r].sent = stream[r].sent + 1
        BY <1>1 DEF Writes, Stream
      <4>2. Ends(r) => stream'[r].sent = stream[r].sent
        BY <1>1 DEF Ends, Stream
      <4> QED BY <1>1, <1>8, <4>1, <4>2
    <3>2. End(r)' \in Nat
      BY <3>1 DEF End
    <3> QED BY <1>0, <1>1, <2>1, <3>2
  <2>3. PICK x \in Nat, y \in Nat, z \in Nat :
        /\ Run(receive_queue[k], r, S, end, lo, x)
        /\ rx_pc # "dead" =>
             /\ Run(<<rx_msg>>, r, S, end, x, y)
             /\ Run(usb_in, r, S, end, y, z)
             /\ z = stream[r].sent + 1
    BY <2>1, <2>2 DEF InOrder
  <2>4. \A n : FrameOk(n) => ~OfStream(n, r, {"CLSE"})
    BY <2>1 DEF FrameOk, OfStream, Said
  <2>5. /\ Run(receive_queue[k], r, S, end2, lo, x)
        /\ rx_pc # "dead" =>
             /\ Run(<<rx_msg>>, r, S, end2, x, y)
             /\ Run(usb_in, r, S, end2, y, z)
    <3>1. Run(receive_queue[k], r, S, end2, lo, x)
      <4>1. \A i \in 1..Len(receive_queue[k]) : ~OfStream(receive_queue[k][i], r, {"CLSE"})
        BY <1>2, <2>4 DEF AllOk
      <4> QED BY <2>3, <4>1, RunEnd DEF Said
    <3>2. rx_pc # "dead" => Run(<<rx_msg>>, r, S, end2, x, y)
      <4>1. \A i \in 1..Len(<<rx_msg>>) : ~OfStream(<<rx_msg>>[i], r, {"CLSE"})
        BY <1>4, <2>4 DEF AllOk
      <4> QED BY <2>3, <4>1, RunEnd DEF Said
    <3>3. rx_pc # "dead" => Run(usb_in, r, S, end2, y, z)
      <4>1. \A i \in 1..Len(usb_in) : ~OfStream(usb_in[i], r, {"CLSE"})
        BY <1>2, <2>4 DEF AllOk
      <4> QED BY <2>3, <4>1, RunEnd DEF Said
    <3> QED BY <3>1, <3>2, <3>3
  <2>6. PICK m \in Message :
          /\ Says(m) /\ OfStream(m, r, S) /\ Number(m, end2) = stream[r].sent + 2
          /\ \/ stream[r].sent + 2 = stream'[r].sent + 1
             \/ stream[r].sent + 2 = stream'[r].sent + 2 /\ stream'[r].st = "closed"
    <3>1. CASE Writes(r)
      <4>1. PICK m : m = Msg("WRTE", r, stream[r].peer, <<r, stream[r].sent + 1>>)
        OBVIOUS
      <4>2. <<r, stream[r].sent + 1>> \in Data /\ stream[r].peer \in Nat
        BY <1>0, <1>1, <2>2 DEF Data
      <4>3. m \in Message
        BY <1>0, <4>1, <4>2, MsgType DEF Commands
      <4>4. m.cmd = "WRTE" /\ m.arg0 = r /\ m.data = <<r, stream[r].sent + 1>>
        BY <4>1 DEF Msg
      <4>5. OfStream(m, r, S) /\ Number(m, end2) = stream[r].sent + 2
        <5>1. m.data[2] = stream[r].sent + 1
          BY <4>4
        <5> QED BY <1>1, <4>4, <5>1 DEF OfStream, Number
      <4>6. stream'[r].sent = stream[r].sent + 1
        BY <1>1, <3>1 DEF Writes, Stream
      <4>7. Says(m)
        BY <3>1, <4>1 DEF Writes
      <4> QED BY <1>1, <4>3, <4>5, <4>6, <4>7
    <3>2. CASE Ends(r)
      <4>1. PICK m : m = Msg("CLSE", r, stream[r].peer, NoData)
        OBVIOUS
      <4>2. m \in Message
        BY <1>0, <2>2, <4>1, MsgType, NoDataType DEF Commands
      <4>3. m.cmd = "CLSE" /\ m.arg0 = r
        BY <4>1 DEF Msg
      <4>4. stream'[r].sent = stream[r].sent /\ stream'[r].st = "closed"
        BY <1>1, <3>2 DEF Ends, Stream
      <4>5. OfStream(m, r, S) /\ Number(m, end2) = stream[r].sent + 2
        BY <2>2, <4>3, <4>4 DEF OfStream, Number, End
      <4>6. Says(m)
        BY <3>2, <4>1 DEF Ends
      <4> QED BY <4>2, <4>4, <4>5, <4>6
    <3> QED BY <1>8, <3>1, <3>2
  <2>7. usb_in' # usb_in
    <3>1. Len(usb_in') = Len(usb_in) + 1 /\ Len(usb_in) \in Nat
      BY <1>0, <2>6 DEF Says
    <3> QED BY <3>1
  <2>8. PICK u \in Nat : u = stream[r].sent + 2
    BY <1>1
  <2>9. rx_pc # "dead" => Run(<<m>>, r, S, end2, z, u)
    <3>1. rx_pc # "dead" => Number(m, end2) = z + 1 /\ u = z + 1
      BY <1>1, <2>3, <2>6, <2>8
    <3> QED BY <2>6, <3>1, RunOne
  <2>10. u = stream'[r].sent + 1 \/ (u = stream'[r].sent + 2 /\ stream'[r].st = "closed")
    BY <2>6, <2>8
  <2>11. stream'[r].peer = k /\ End(r)' = end2
    BY <2>1, <2>2
  <2> QED BY <1>5, <2>5, <2>6, <2>7, <2>9, <2>10, <2>11
<1> QED BY <1>0, <1>6, <1>7, <1>8, DaemonStream

LEMMA OrderKept ==
  ASSUME NEW r, NEW S, NEW lo, InOrder(r, S, lo),
         UNCHANGED <<rx_pc, rx_msg, usb_in>>, stream'[r] = stream[r],
         receive_queue'[stream[r].peer] = receive_queue[stream[r].peer]
  PROVE  InOrder(r, S, lo)'
<1>1. End(r)' = End(r)
  BY DEF End
<1> QED BY <1>1 DEF InOrder

(* What a user of the stream's id takes is the next of the stream, if it   *)
(* is of the stream at all.                                                *)
LEMMA OrderTake ==
  ASSUME AuthTypeOK, WireInv, NEW r \in RemoteIds, stream[r].st # "none",
         NEW S, NEW lo \in Nat, InOrder(r, S, lo),
         NEW k, k = stream[r].peer, Take(k), UNCHANGED stream
  PROVE  /\ Response(k) \in Message /\ FrameOk(Response(k))
         /\ IF OfStream(Response(k), r, S)
              THEN Number(Response(k), End(r)) = lo + 1 /\ InOrder(r, S, lo + 1)'
              ELSE InOrder(r, S, lo)'
<1>0. /\ receive_queue \in [Keys -> Seq(Message)] /\ opened \subseteq LocalIds
      /\ LocalIds \subseteq Keys /\ r \in StreamIds
  BY DEF AuthTypeOK, ProtocolTypeOK, Keys, StreamIds
<1>1. /\ k \in LocalIds /\ End(r) \in Nat
      /\ receive_queue[k] \in Seq(Message) /\ AllOk(receive_queue[k])
  BY <1>0, StreamFacts DEF WireInv, PeersOpened, FramesOk
<1>2. PICK s \in Seq(Message), end \in Nat : s = receive_queue[k] /\ end = End(r)
  BY <1>1
<1>3. /\ s # <<>> /\ receive_queue'[k] = Tail(s) /\ Response(k) = Head(s)
      /\ UNCHANGED <<rx_pc, rx_msg, usb_in>> /\ stream'[r].peer = k /\ End(r)' = end
  BY <1>0, <1>1, <1>2 DEF Take, Response, End
<1>4. Head(s) \in Message /\ FrameOk(Head(s))
  BY <1>1, <1>2, <1>3, AllOkTail, HeadTailProperties
<1>5. PICK a \in Nat, b \in Nat, c \in Nat :
        /\ Run(s, r, S, end, lo, a)
        /\ rx_pc # "dead" =>
             /\ Run(<<rx_msg>>, r, S, end, a, b)
             /\ Run(usb_in, r, S, end, b, c)
             /\ c = stream[r].sent + 1 \/ (c = stream[r].sent + 2 /\ stream[r].st = "closed")
  BY <1>2 DEF InOrder
<1>6. PICK mid \in Nat : Run(<<Head(s)>>, r, S, end, lo, mid) /\ Run(Tail(s), r, S, end, mid, a)
  BY <1>3, <1>5, RunHead
<1>7. InOrder(r, S, mid)'
  <2>1. Run(receive_queue'[k], r, S, end, mid, a)
    BY <1>3, <1>6
  <2> QED BY <1>3, <1>5, <2>1 DEF InOrder
<1>8. IF OfStream(Head(s), r, S) THEN Number(Head(s), end) = lo + 1 /\ mid = lo + 1 ELSE mid = lo
  <2>1. Run(<<Head(s)>>, r, S, end, lo, mid) <=>
          IF OfStream(Head(s), r, S) THEN Number(Head(s), end) = lo + 1 /\ mid = lo + 1
          ELSE mid = lo
    BY <1>4, RunOne
  <2> QED BY <1>6, <2>1
<1> QED BY <1>2, <1>3, <1>4, <1>7, <1>8

LEMMA OrderAuthenticate ==
  ASSUME AuthTypeOK, WireInv, Authenticate,
         NEW r \in RemoteIds, stream[r].st # "none", NEW S, NEW lo, InOrder(r, S, lo)
  PROVE  InOrder(r, S, lo)'
<1>1. stream' = stream /\ UNCHANGED <<rx_pc, rx_msg, usb_in>>
  BY DEF Authenticate, SendConnect, FirstAnswer, SendSignature, SecondAnswer, OfferKey, daemonVars,
     PutHeader, PutPayload, Take
<1>2. receive_queue' = receive_queue
      \/ receive_queue' = [receive_queue EXCEPT ![Default] = Tail(@)]
  BY DEF Authenticate, SendConnect, FirstAnswer, SendSignature, SecondAnswer, OfferKey,
     PutHeader, PutPayload, Take
<1>3. /\ stream[r].peer \in LocalIds /\ stream[r].peer # Default
      /\ receive_queue \in [Keys -> Seq(Message)] /\ LocalIds \subseteq Keys
  BY ProtocolAssumption DEF WireInv, PeersOpened, AuthTypeOK, ProtocolTypeOK, Default, Keys
<1>4. receive_queue'[stream[r].peer] = receive_queue[stream[r].peer]
  BY <1>2, <1>3
<1> QED BY <1>1, <1>4, OrderKept

LEMMA OrderStep ==
  ASSUME AuthTypeOK, WireInv, AuthNext, NEW r \in RemoteIds,
         NEW S, {"WRTE", "CLSE"} \subseteq S, S \subseteq Said, NEW lo \in Nat,
         "OKAY" \in S => ~(FrameReady /\ Frame.cmd = "WRTE" /\ Frame.arg1 = r),
         IF stream[r].st = "none" THEN lo = First(S) ELSE InOrder(r, S, lo)
  PROVE  stream'[r].st # "none" => InOrder(r, S, lo)'
<1>1. CASE HostThreads /\ UNCHANGED <<daemonVars, authVars>>
  BY <1>1, OrderHostThreads DEF daemonVars
<1>2. CASE Daemon /\ UNCHANGED authVars
  BY <1>2, OrderDaemon
<1>3. CASE Authenticate
  <2>1. stream' = stream
    BY <1>3 DEF Authenticate, SendConnect, FirstAnswer, SendSignature, SecondAnswer, OfferKey,
       daemonVars
  <2> QED BY <1>3, <2>1, OrderAuthenticate
<1> QED BY <1>1, <1>2, <1>3 DEF AuthNext

LEMMA TakenFacts ==
  ASSUME AuthTypeOK, WireInv, NEW k \in LocalIds, Take(k)
  PROVE  /\ Response(k) \in Message /\ FrameOk(Response(k))
         /\ Response(k).arg1 = k /\ ~IsHandshake(Response(k))
         /\ \A l \in Keys \ {k} : receive_queue'[l] = receive_queue[l]
<1>1. /\ receive_queue \in [Keys -> Seq(Message)] /\ k \in Keys /\ receive_queue[k] # <<>>
      /\ AllOk(receive_queue[k]) /\ RoutedTo(receive_queue[k], k)
  BY DEF AuthTypeOK, ProtocolTypeOK, Keys, Take, WireInv, FramesOk, Routed
<1>2. receive_queue[k] \in Seq(Message)
  BY <1>1
<1>3. /\ Response(k) \in Message /\ FrameOk(Response(k))
      /\ Response(k).arg1 = k /\ ~IsHandshake(Response(k))
  BY <1>1, <1>2, AllOkTail, RoutedTail, HeadTailProperties DEF Response
<1> QED BY <1>1, <1>3 DEF Take

(* What a user of the host sends, when it never writes on a stream.        *)
NoHostWrites == "WRTE" \notin OutCmds

LEMMA HostWritesNothing ==
  ASSUME AuthTypeOK, NoHostWrites, AuthNext
  PROVE  NoHostWrites' /\ ~(FrameReady /\ Frame.cmd = "WRTE")
<1>0. /\ send_queue \in Seq(Message) /\ usb_out \in Seq(Message)
      /\ rx_msg.arg0 \in Nat /\ rx_msg.arg1 \in Nat /\ auth_token \in Data
      /\ "WRTE" \notin Cmds(usb_out) /\ "WRTE" \notin Cmds(send_queue)
  <2>1. rx_msg \in Message
    BY DEF AuthTypeOK, ProtocolTypeOK
  <2> QED BY <2>1 DEF AuthTypeOK, ProtocolTypeOK, NoHostWrites, OutCmds, Message
<1>1. ~(FrameReady /\ Frame.cmd = "WRTE")
  BY <1>0, CmdsTail DEF FrameReady, Frame
<1>2. ASSUME NEW m \in Message, m.cmd # "WRTE", send_queue' = Append(send_queue, m),
             usb_out' = usb_out
      PROVE  NoHostWrites'
  BY <1>2, OnlinePut DEF NoHostWrites
<1>3. CASE SendLoop \/ WriteError
  <2>1. /\ send_queue # <<>> /\ send_queue' = Tail(send_queue)
        /\ usb_out' = usb_out \/ usb_out' = Append(usb_out, Head(send_queue))
    BY <1>3 DEF SendLoop, WriteError
  <2>2. /\ Head(send_queue) \in Message /\ Head(send_queue).cmd # "WRTE"
        /\ "WRTE" \notin Cmds(Tail(send_queue))
    BY <1>0, <2>1, CmdsTail
  <2>3. "WRTE" \notin Cmds(Append(usb_out, Head(send_queue)))
    BY <1>0, <2>2, CmdsAppend
  <2> QED BY <1>0, <1>1, <2>1, <2>2, <2>3 DEF NoHostWrites, OutCmds
<1>4. CASE AckWrite
  <2>1. Msg("OKAY", rx_msg.arg1, rx_msg.arg0, NoData) \in Message
    BY <1>0, MsgType, NoDataType DEF Commands
  <2>2. Msg("OKAY", rx_msg.arg1, rx_msg.arg0, NoData).cmd # "WRTE"
    BY DEF Msg
  <2> QED BY <1>1, <1>2, <1>4, <2>1, <2>2 DEF AckWrite
<1>5. CASE UNCHANGED <<send_queue, usb_out>>
  BY <1>1, <1>5 DEF NoHostWrites, OutCmds
<1>6. CASE Daemon
  <2>1. /\ send_queue' = send_queue
        /\ usb_out' = usb_out \/ \E reply : DevReads(reply)
    BY <1>6 DEF Daemon, DevPacket, DevConnect, DevSignature, DevPublicKey, DevOpen, DevAck,
       DevCloseRequest, DevHostWrite, DevIgnore, DevGarbled, DevStreamWrite, DevStreamEnd,
       DevWrites, DevReads
  <2>2. ASSUME NEW reply, DevReads(reply) PROVE "WRTE" \notin Cmds(usb_out')
    <3>1. /\ usb_out # <<>> /\ Tail(usb_out) \in Seq(Message) /\ "WRTE" \notin Cmds(Tail(usb_out))
      BY <1>0, <2>2, CmdsTail DEF DevReads, FrameReady
    <3>2. CASE HasPayload(Frame)
      <4>1. Len(usb_out) > 1 /\ usb_out' = Tail(Tail(usb_out))
        BY <2>2, <3>2 DEF DevReads, FrameReady
      <4>2. Tail(usb_out) # <<>>
        BY <1>0, <4>1, TwoTails
      <4> QED BY <3>1, <4>1, <4>2, CmdsTail
    <3>3. CASE ~HasPayload(Frame)
      BY <2>2, <3>1, <3>3 DEF DevReads
    <3> QED BY <3>2, <3>3
  <2> QED BY <1>0, <1>1, <2>1, <2>2 DEF NoHostWrites, OutCmds
<1>7. CASE Authenticate
  <2>1. /\ Msg("CNXN", 1, 0, NoData) \in Message
        /\ Msg("AUTH", 2, 0, auth_token) \in Message
        /\ Msg("AUTH", 3, 0, NoData) \in Message
    BY <1>0, MsgType, NoDataType DEF Commands
  <2>2. ASSUME NEW m \in Message, m.cmd \in {"CNXN", "AUTH"}, PutHeader(m) \/ PutPayload(m)
        PROVE  NoHostWrites'
    <3>1. Payload(m) \in Message /\ Payload(m).cmd = "DATA"
      BY PayloadType DEF Payload, Message
    <3>2. CASE PutHeader(m)
      BY <1>2, <2>2, <3>2 DEF PutHeader
    <3>3. CASE PutPayload(m)
      <4>1. PICK p \in Message : p = Payload(m)
        BY <3>1
      <4> QED BY <1>2, <3>1, <3>3, <4>1 DEF PutPayload
    <3> QED BY <2>2, <3>2, <3>3
  <2>3. /\ Msg("CNXN", 1, 0, NoData).cmd = "CNXN"
        /\ Msg("AUTH", 2, 0, auth_token).cmd = "AUTH"
        /\ Msg("AUTH", 3, 0, NoData).cmd = "AUTH"
    BY DEF Msg
  <2>4. \/ Take(Default)
        \/ \E m \in Message : m.cmd \in {"CNXN", "AUTH"} /\ (PutHeader(m) \/ PutPayload(m))
    BY <1>7, <2>1, <2>3 DEF Authenticate, SendConnect, FirstAnswer, SendSignature, SecondAnswer,
       OfferKey
  <2> QED BY <1>1, <1>5, <2>2, <2>4 DEF Take
<1>8. CASE ReceiveFrame \/ ChecksumError \/ Deliver \/ Discard
  BY <1>5, <1>8 DEF ReceiveFrame, ChecksumError, Deliver, Discard
<1> QED BY <1>1, <1>3, <1>4, <1>6, <1>7, <1>8 DEF AuthNext, HostThreads, ReceiveLoop

(* Only a WRTE of adbd is a new chunk, and a stream stays closed.          *)
LEMMA DaemonSteady ==
  ASSUME AuthTypeOK, WireInv, Daemon
  PROVE  \/ \E r \in StreamIds : DevStreamWrite(r)
         \/ \A r \in StreamIds : /\ stream'[r].sent = stream[r].sent
                                 /\ stream[r].st = "closed" => stream'[r].st = "closed"
<1>0. stream \in [StreamIds -> Stream]
  BY DEF AuthTypeOK, DaemonTypeOK
<1>1. CASE DevConnect
  BY <1>0, <1>1 DEF DevConnect, Stream, IsOpen
<1>2. CASE DevOpen
  <2>1. CASE stream' = stream
    BY <2>1
  <2>2. ASSUME NEW q \in RemoteIds, stream[q].st = "none",
               stream' = [stream EXCEPT ![q] = NewStream("ready", Frame.arg0, Frame.data, 0)]
        PROVE  \A r \in StreamIds : /\ stream'[r].sent = stream[r].sent
                                    /\ stream[r].st = "closed" => stream'[r].st = "closed"
    <3>1. stream[q].sent = 0 /\ NewStream("ready", Frame.arg0, Frame.data, 0).sent = 0
      BY <2>2 DEF WireInv, UnusedEmpty, NewStream
    <3> QED BY <1>0, <2>2, <3>1
  <2> QED BY <1>2, <2>1, <2>2 DEF DevOpen, NextRemoteId
<1>3. ASSUME NEW q \in StreamIds, NEW t \in Stream, stream' = [stream EXCEPT ![q] = t],
             t.sent = stream[q].sent, stream[q].st # "closed"
      PROVE  \A r \in StreamIds : /\ stream'[r].sent = stream[r].sent
                                  /\ stream[r].st = "closed" => stream'[r].st = "closed"
  BY <1>0, <1>3
<1>6. CASE DevAck \/ DevCloseRequest \/ DevHostWrite
  <2>1. CASE stream' = stream
    BY <2>1
  <2>2. CASE stream' # stream
    <3>1. /\ Frame.arg1 \in StreamIds /\ stream[Frame.arg1].st \in {"ready", "waitack"}
          /\ \/ stream' = [stream EXCEPT ![Frame.arg1].st = "ready"]
             \/ stream' = [stream EXCEPT ![Frame.arg1].st = "closed"]
             \/ stream' = [stream EXCEPT ![Frame.arg1].got = Append(@, Frame.data)]
      BY <1>6, <2>2 DEF DevAck, DevCloseRequest, DevHostWrite, Addressed, IsOpen
    <3>2. PICK q \in StreamIds : q = Frame.arg1
      BY <3>1
    <3>3. stream[q] \in Stream /\ Frame.data \in Data
      <4>1. Frame \in Message
        BY <1>6, FrameType DEF DevAck, DevCloseRequest, DevHostWrite, Receives, AuthTypeOK
      <4> QED BY <1>0, <4>1 DEF Message
    <3>4. CASE stream' = [stream EXCEPT ![q].got = Append(@, Frame.data)]
      <4>1. Append(stream[q].got, Frame.data) \in Seq(Data)
        BY <3>3 DEF Stream
      <4>2. [stream[q] EXCEPT !.got = Append(@, Frame.data)] \in Stream
        BY <3>3, <4>1 DEF Stream
      <4>3. [stream[q] EXCEPT !.got = Append(@, Frame.data)].sent = stream[q].sent
        BY <3>3 DEF Stream
      <4>4. stream' = [stream EXCEPT ![q] = [stream[q] EXCEPT !.got = Append(@, Frame.data)]]
        BY <1>0, <3>4
      <4> QED BY <1>3, <3>1, <3>2, <4>2, <4>3, <4>4
    <3>5. ASSUME NEW st \in {"ready", "closed"}, stream' = [stream EXCEPT ![q].st = st]
          PROVE  \A r \in StreamIds : /\ stream'[r].sent = stream[r].sent
                                      /\ stream[r].st = "closed" => stream'[r].st = "closed"
      <4>1. /\ [stream[q] EXCEPT !.st = st] \in Stream
            /\ [stream[q] EXCEPT !.st = st].sent = stream[q].sent
        BY <3>3 DEF Stream
      <4>2. stream' = [stream EXCEPT ![q] = [stream[q] EXCEPT !.st = st]]
        BY <1>0, <3>5
      <4> QED BY <1>3, <3>1, <3>2, <4>1, <4>2
    <3> QED BY <3>1, <3>2, <3>4, <3>5
  <2> QED BY <2>1, <2>2
<1>4. CASE DevSignature \/ DevPublicKey \/ DevIgnore \/ (DevGarbled /\ UNCHANGED daemonVars)
  BY <1>4 DEF DevSignature, DevPublicKey, DevIgnore, daemonVars
<1>5. ASSUME NEW r \in StreamIds, DevStreamEnd(r)
      PROVE  \A q \in StreamIds : /\ stream'[q].sent = stream[q].sent
                                  /\ stream[q].st = "closed" => stream'[q].st = "closed"
  BY <1>0, <1>5 DEF DevStreamEnd, Stream
<1> QED BY <1>1, <1>2, <1>4, <1>5, <1>6 DEF Daemon, DevPacket
LEMMA AuthKeepsDone ==
  ASSUME AuthNext, auth_pc = "done"
  PROVE  auth_pc' = "done"
BY DEF AuthNext, authVars, Authenticate, SendConnect, FirstAnswer, SendSignature,
       SecondAnswer, OfferKey, Goto

-----------------------------------------------------------------------------
(* What the host has put and adbd has not read is one sequence, Pipe: the  *)
(* pipe, then send_queue.                                                  *)
Puts(m) == send_queue' = Append(send_queue, m)
Inside(s) == {s[i] : i \in 1..Len(s)}

LEMMA InsideAppend ==
  ASSUME NEW s \in Seq(Message), NEW m \in Message
  PROVE  Inside(Append(s, m)) = Inside(s) \cup {m}
<1>1. /\ Len(s) \in Nat /\ Len(Append(s, m)) = Len(s) + 1
      /\ \A i \in 1..Len(s) : Append(s, m)[i] = s[i] /\ i \in 1..Len(s) + 1
      /\ Append(s, m)[Len(s) + 1] = m
  BY AppendProperties, LenProperties
<1>2. /\ \A i \in 1..Len(s) + 1 : i \in 1..Len(s) \/ i = Len(s) + 1
      /\ Len(s) + 1 \in 1..Len(s) + 1
  BY <1>1
<1> QED BY <1>1, <1>2 DEF Inside

LEMMA InsideTail ==
  ASSUME NEW s \in Seq(Message), s # <<>>
  PROVE  /\ Inside(Tail(s)) \subseteq Inside(s) /\ Head(s) \in Inside(s)
         /\ Tail(s) \in Seq(Message) /\ Head(s) \in Message
<1>1. /\ Len(s) \in Nat \ {0} /\ Len(Tail(s)) = Len(s) - 1 /\ Head(s) = s[1]
      /\ \A i \in 1..Len(Tail(s)) : Tail(s)[i] = s[i + 1]
      /\ Tail(s) \in Seq(Message) /\ Head(s) \in Message
  BY HeadTailProperties, LenProperties, EmptySeq
<1>2. 1 \in 1..Len(s) /\ \A i \in 1..Len(s) - 1 : i + 1 \in 1..Len(s)
  BY <1>1
<1> QED BY <1>1, <1>2 DEF Inside

LEMMA TailOfBoth ==
  ASSUME NEW s \in Seq(Message), NEW t \in Seq(Message), s # <<>>
  PROVE  s \o t # <<>> /\ Head(s \o t) = Head(s) /\ Tail(s \o t) = Tail(s) \o t
<1>1. /\ Len(s) \in Nat \ {0} /\ Len(t) \in Nat /\ Head(s) = s[1]
      /\ Tail(s) \in Seq(Message) /\ Len(Tail(s)) = Len(s) - 1
      /\ \A i \in 1..Len(Tail(s)) : Tail(s)[i] = s[i + 1]
  BY HeadTailProperties, LenProperties, EmptySeq
<1>2. /\ s \o t \in Seq(Message) /\ Len(s \o t) = Len(s) + Len(t)
      /\ \A i \in 1..Len(s) + Len(t) : (s \o t)[i] = IF i <= Len(s) THEN s[i] ELSE t[i - Len(s)]
  BY ConcatProperties
<1>3. s \o t # <<>>
  BY <1>1, <1>2, EmptySeq
<1>4. Head(s \o t) = Head(s)
  <2>1. 1 \in 1..Len(s) + Len(t) /\ 1 <= Len(s)
    BY <1>1
  <2>2. (s \o t)[1] = s[1]
    BY <1>2, <2>1
  <2> QED BY <1>1, <1>2, <1>3, <2>2, HeadTailProperties
<1>5. /\ Tail(s \o t) \in Seq(Message) /\ Len(Tail(s \o t)) = Len(s) + Len(t) - 1
      /\ \A i \in 1..Len(s) + Len(t) - 1 : Tail(s \o t)[i] = (s \o t)[i + 1]
  BY <1>2, <1>3, HeadTailProperties
<1>6. /\ Tail(s) \o t \in Seq(Message) /\ Len(Tail(s) \o t) = Len(s) - 1 + Len(t)
      /\ \A i \in 1..Len(s) - 1 + Len(t) :
           (Tail(s) \o t)[i] = IF i <= Len(s) - 1 THEN Tail(s)[i] ELSE t[i - (Len(s) - 1)]
  BY <1>1, ConcatProperties
<1>7. \A i \in 1..Len(Tail(s \o t)) : Tail(s \o t)[i] = (Tail(s) \o t)[i]
  <2> TAKE i \in 1..Len(Tail(s \o t))
  <2>1. i \in 1..Len(s) + Len(t) - 1 /\ i \in 1..Len(s) - 1 + Len(t) /\ i + 1 \in 1..Len(s) + Len(t)
    BY <1>1, <1>5
  <2>2. Tail(s \o t)[i] = IF i + 1 <= Len(s) THEN s[i + 1] ELSE t[i + 1 - Len(s)]
    BY <1>2, <1>5, <2>1
  <2>3. CASE i <= Len(s) - 1
    BY <1>1, <1>6, <2>1, <2>2, <2>3
  <2>4. CASE ~(i <= Len(s) - 1)
    <3>1. i + 1 - Len(s) = i - (Len(s) - 1) /\ ~(i + 1 <= Len(s))
      BY <1>1, <2>1, <2>4
    <3> QED BY <1>6, <2>1, <2>2, <2>4, <3>1
  <2> QED BY <2>3, <2>4
<1>8. Len(Tail(s \o t)) = Len(Tail(s) \o t)
  BY <1>1, <1>5, <1>6
<1>9. Tail(s \o t) = Tail(s) \o t
  BY <1>5, <1>6, <1>7, <1>8, SeqEqual
<1> QED BY <1>3, <1>4, <1>9

LEMMA HeadMoves ==
  ASSUME NEW s \in Seq(Message), NEW t \in Seq(Message), t # <<>>
  PROVE  Append(s, Head(t)) \o Tail(t) = s \o t
<1>1. Head(t) \in Message /\ Tail(t) \in Seq(Message) /\ t = Append(<<>>, Head(t)) \o Tail(t)
  <2>1. /\ Head(t) \in Message /\ Tail(t) \in Seq(Message) /\ <<Head(t)>> \in Seq(Message)
        /\ Len(t) \in Nat \ {0} /\ Len(Tail(t)) = Len(t) - 1 /\ Head(t) = t[1]
        /\ \A i \in 1..Len(Tail(t)) : Tail(t)[i] = t[i + 1]
    BY HeadTailProperties, LenProperties, EmptySeq
  <2>2. /\ <<Head(t)>> \o Tail(t) \in Seq(Message)
        /\ Len(<<Head(t)>> \o Tail(t)) = 1 + (Len(t) - 1)
        /\ \A i \in 1..1 + (Len(t) - 1) :
             (<<Head(t)>> \o Tail(t))[i] = IF i <= 1 THEN Head(t) ELSE Tail(t)[i - 1]
    BY <2>1, ConcatProperties
  <2>3. \A i \in 1..Len(t) : t[i] = (<<Head(t)>> \o Tail(t))[i]
    <3> TAKE i \in 1..Len(t)
    <3>1. i \in 1..1 + (Len(t) - 1) /\ (i = 1 \/ (~(i <= 1) /\ i - 1 \in 1..Len(t) - 1 /\ (i - 1) + 1 = i))
      BY <2>1
    <3> QED BY <2>1, <2>2, <3>1
  <2>4. Len(t) = Len(<<Head(t)>> \o Tail(t))
    BY <2>1, <2>2
  <2>5. t = <<Head(t)>> \o Tail(t)
    BY <2>2, <2>3, <2>4, SeqEqual
  <2>6. Append(<<>>, Head(t)) = <<Head(t)>>
    OBVIOUS
  <2> QED BY <2>1, <2>5, <2>6
<1>2. Append(<<>>, Head(t)) = <<Head(t)>> /\ <<Head(t)>> \in Seq(Message)
  BY <1>1
<1>3. Append(s, Head(t)) = s \o <<Head(t)>>
  BY <1>1, AppendIsConcat
<1> QED BY <1>1, <1>2, <1>3, ConcatAssociative

LEMMA AppendMoves ==
  ASSUME NEW s \in Seq(Message), NEW t \in Seq(Message), NEW m \in Message
  PROVE  s \o Append(t, m) = Append(s \o t, m)
<1>1. s \o t \in Seq(Message) /\ <<m>> \in Seq(Message)
  BY ConcatProperties
<1>2. Append(t, m) = t \o <<m>> /\ Append(s \o t, m) = (s \o t) \o <<m>>
  BY <1>1, AppendIsConcat
<1> QED BY <1>1, <1>2, ConcatAssociative

LEMMA PipeType ==
  ASSUME AuthTypeOK
  PROVE  /\ usb_out \in Seq(Message) /\ send_queue \in Seq(Message) /\ Pipe \in Seq(Message)
         /\ Inside(Pipe) \subseteq Message
<1>1. usb_out \in Seq(Message) /\ send_queue \in Seq(Message) /\ Pipe \in Seq(Message)
  BY ConcatProperties DEF AuthTypeOK, ProtocolTypeOK, Pipe
<1> QED BY <1>1, ElementOfSeq DEF Inside

LEMMA PipePut ==
  ASSUME AuthTypeOK, NEW m \in Message, Puts(m), usb_out' = usb_out
  PROVE  Pipe' = Append(Pipe, m)
BY PipeType, AppendMoves DEF Puts, Pipe

(* No write is lost: the send loop leaves the sequence as it is.           *)
LEMMA PipeHostThreads ==
  ASSUME AuthTypeOK, ~WireFails, HostThreads
  PROVE  Pipe' = Pipe \/ \E m \in Message : m.cmd = "OKAY" /\ Pipe' = Append(Pipe, m)
<1>0. usb_out \in Seq(Message) /\ send_queue \in Seq(Message) /\ rx_msg \in Message
  BY DEF AuthTypeOK, ProtocolTypeOK
<1>1. CASE SendLoop
  <2>1. /\ send_queue # <<>> /\ send_queue' = Tail(send_queue)
        /\ usb_out' = Append(usb_out, Head(send_queue))
    BY <1>1 DEF SendLoop
  <2> QED BY <1>0, <2>1, HeadMoves DEF Pipe
<1>2. CASE AckWrite
  <2>1. PICK m \in Message : m = Msg("OKAY", rx_msg.arg1, rx_msg.arg0, NoData)
    BY <1>0, NoDataType DEF Msg, Message, Commands
  <2>2. Puts(m) /\ usb_out' = usb_out /\ m.cmd = "OKAY"
    BY <1>2, <2>1 DEF AckWrite, Puts, Msg
  <2> QED BY <2>2, PipePut
<1>3. CASE UNCHANGED <<usb_out, send_queue>>
  BY <1>3 DEF Pipe
<1> QED BY <1>1, <1>2, <1>3 DEF HostThreads, WriteError, ReceiveLoop, ReceiveFrame, Deliver, Discard,
           ChecksumError

LEMMA PipeAuthenticate ==
  ASSUME AuthTypeOK, Authenticate
  PROVE  /\ auth_pc # "done" /\ UNCHANGED <<stream, dev_auth>>
         /\ Pipe' = Pipe \/ \E m \in Message : /\ m.cmd \in {"CNXN", "AUTH", "DATA"}
                                               /\ Pipe' = Append(Pipe, m)
<1>0. auth_token \in Data
  BY DEF AuthTypeOK
<1>1. /\ Msg("CNXN", 1, 0, NoData) \in Message
      /\ Msg("AUTH", 2, 0, auth_token) \in Message
      /\ Msg("AUTH", 3, 0, NoData) \in Message
      /\ Msg("CNXN", 1, 0, NoData).cmd = "CNXN"
      /\ Msg("AUTH", 2, 0, auth_token).cmd = "AUTH"
      /\ Msg("AUTH", 3, 0, NoData).cmd = "AUTH"
  BY <1>0, NoDataType DEF Msg, Message, Commands
<1>2. /\ auth_pc # "done" /\ UNCHANGED <<stream, dev_auth>>
      /\ \/ Take(Default)
         \/ \E m \in Message : m.cmd \in {"CNXN", "AUTH"} /\ (PutHeader(m) \/ PutPayload(m))
  BY <1>1 DEF Authenticate, SendConnect, FirstAnswer, SendSignature, SecondAnswer, OfferKey, Goto, daemonVars
<1>3. CASE Take(Default)
  BY <1>2, <1>3 DEF Take, Pipe
<1>4. ASSUME NEW m \in Message, m.cmd \in {"CNXN", "AUTH"}, PutHeader(m) \/ PutPayload(m)
      PROVE  \E n \in Message : n.cmd \in {"CNXN", "AUTH", "DATA"} /\ Pipe' = Append(Pipe, n)
  <2>1. PICK n \in Message : n = Payload(m) /\ n.cmd = "DATA"
    BY PayloadType DEF Payload, Message
  <2>2. \E l \in {m, n} : Puts(l) /\ usb_out' = usb_out
    BY <1>4, <2>1 DEF PutHeader, PutPayload, Puts
  <2> QED BY <1>4, <2>1, <2>2, PipePut
<1> QED BY <1>2, <1>3, <1>4

(* What adbd has read is gone from the sequence, and a service gets what   *)
(* is written to its stream while that is open.                            *)
Heard(r) ==
  /\ Frame.cmd = "WRTE" /\ dev_auth = "online"
  /\ Frame.arg1 = r /\ Frame.arg0 = stream[r].peer /\ IsOpen(r)
DaemonRead ==
  /\ FrameReady /\ Pipe # <<>> /\ Head(Pipe) = Frame
  /\ \/ Pipe' = Tail(Pipe)
     \/ Tail(Pipe) # <<>> /\ Head(Tail(Pipe)).cmd = "DATA" /\ Pipe' = Tail(Tail(Pipe))

LEMMA PipeReads ==
  ASSUME AuthTypeOK, NEW reply, DevReads(reply)
  PROVE  DaemonRead
<1>0. usb_out \in Seq(Message) /\ send_queue \in Seq(Message)
  BY PipeType
<1>1. /\ usb_out # <<>> /\ FrameReady /\ send_queue' = send_queue
      /\ usb_out' = IF HasPayload(Frame) THEN Tail(Tail(usb_out)) ELSE Tail(usb_out)
      /\ HasPayload(Frame) => Len(usb_out) > 1 /\ usb_out[2] = Payload(Frame)
  BY DEF DevReads, FrameReady
<1>2. /\ Pipe # <<>> /\ Head(Pipe) = Frame /\ Tail(Pipe) = Tail(usb_out) \o send_queue
      /\ Tail(usb_out) \in Seq(Message)
  BY <1>0, <1>1, TailOfBoth, HeadTailProperties DEF Pipe, Frame
<1>3. CASE ~HasPayload(Frame)
  <2>1. Pipe' = Tail(Pipe)
    BY <1>1, <1>2, <1>3 DEF Pipe
  <2> QED BY <1>1, <1>2, <2>1 DEF DaemonRead
<1>4. CASE HasPayload(Frame)
  <2>1. Tail(usb_out) # <<>> /\ Head(Tail(usb_out)) = usb_out[2]
    <3>1. /\ Len(usb_out) \in Nat /\ Len(Tail(usb_out)) = Len(usb_out) - 1 /\ Len(usb_out) > 1
          /\ \A i \in 1..Len(Tail(usb_out)) : Tail(usb_out)[i] = usb_out[i + 1]
      BY <1>0, <1>1, <1>4, HeadTailProperties, LenProperties
    <3>2. 1 \in 1..Len(Tail(usb_out)) /\ Len(Tail(usb_out)) # 0 /\ 1 + 1 = 2
      BY <3>1
    <3>3. Tail(usb_out) # <<>>
      BY <1>2, <3>2, EmptySeq
    <3>4. Head(Tail(usb_out)) = Tail(usb_out)[1]
      BY <1>2, <3>3
    <3> QED BY <3>1, <3>2, <3>3, <3>4
  <2>2. usb_out[2].cmd = "DATA"
    <3>1. Payload(Frame).cmd = "DATA"
      BY <1>0, <1>1, HeadTailProperties DEF Frame, Payload, Message
    <3> QED BY <1>1, <1>4, <3>1
  <2>3. /\ Tail(Pipe) # <<>> /\ Head(Tail(Pipe)) = usb_out[2]
        /\ Tail(Tail(Pipe)) = Tail(Tail(usb_out)) \o send_queue
    BY <1>0, <1>2, <2>1, TailOfBoth, ZenonT(60)
  <2>4. Pipe' = Tail(Tail(Pipe))
    BY <1>1, <1>4, <2>3 DEF Pipe
  <2> QED BY <1>1, <1>2, <2>2, <2>3, <2>4 DEF DaemonRead
<1> QED BY <1>3, <1>4

LEMMA DaemonReads ==
  ASSUME AuthTypeOK, WireInv, Daemon
  PROVE  \/ /\ Pipe' = Pipe
            /\ dev_auth' = dev_auth
            /\ \A r \in RemoteIds : /\ stream'[r].got = stream[r].got
                                    /\ stream[r].st = "none" => stream'[r].st = "none"
         \/ /\ DaemonRead
            /\ ~IsHandshake(Frame) => dev_auth' = dev_auth
            /\ \A r \in RemoteIds :
                 /\ Heard(r) => stream'[r].got = Append(stream[r].got, Frame.data)
                 /\ ~Heard(r) => stream'[r].got = stream[r].got
                 /\ stream[r].st = "none" /\ stream'[r].st # "none" =>
                      Frame.cmd = "OPEN" /\ dev_auth = "online"
<1>0. /\ stream \in [StreamIds -> Stream] /\ RemoteIds \subseteq StreamIds
      /\ \A r \in RemoteIds : stream[r].st = "none" => stream[r].got = <<>>
  BY DEF AuthTypeOK, DaemonTypeOK, StreamIds, WireInv, UnusedEmpty
<1>1. \A r \in RemoteIds : stream[r] \in Stream
  BY <1>0
<1> DEFINE Grows ==
      \A r \in RemoteIds :
        /\ Heard(r) => stream'[r].got = Append(stream[r].got, Frame.data)
        /\ ~Heard(r) => stream'[r].got = stream[r].got
        /\ stream[r].st = "none" /\ stream'[r].st # "none" => Frame.cmd = "OPEN" /\ dev_auth = "online"
<1>2. CASE DevConnect
  <2>1. DaemonRead /\ IsHandshake(Frame)
    BY <1>2, PipeReads DEF DevConnect, Receives, IsHandshake
  <2>2. ASSUME NEW r \in RemoteIds
        PROVE  ~Heard(r) /\ stream'[r].got = stream[r].got
               /\ (stream[r].st = "none" => stream'[r].st = "none")
    <3>1. stream'[r] = IF IsOpen(r) THEN [stream[r] EXCEPT !.st = "closed"] ELSE stream[r]
      BY <1>0, <1>2 DEF DevConnect
    <3>2. ~Heard(r)
      BY <1>2 DEF DevConnect, Receives, Heard
    <3> QED BY <1>1, <3>1, <3>2 DEF IsOpen, Stream
  <2> QED BY <2>1, <2>2
<1>3. CASE DevSignature \/ DevPublicKey
  <2>1. DaemonRead /\ IsHandshake(Frame) /\ stream' = stream /\ \A r : ~Heard(r)
    BY <1>3, PipeReads DEF DevSignature, DevPublicKey, Receives, IsHandshake, Heard
  <2> QED BY <2>1
<1>4. CASE DevOpen
  <2>1. DaemonRead /\ dev_auth' = dev_auth /\ Frame.cmd = "OPEN" /\ dev_auth = "online"
        /\ \A r : ~Heard(r)
    BY <1>4, PipeReads DEF DevOpen, Receives, Heard
  <2>2. \A r \in RemoteIds : stream'[r].got = stream[r].got
    <3>1. CASE stream' = stream
      BY <3>1
    <3>2. ASSUME NEW q \in RemoteIds, stream[q].st = "none",
                 stream' = [stream EXCEPT ![q] = NewStream("ready", Frame.arg0, Frame.data, 0)]
          PROVE  \A r \in RemoteIds : stream'[r].got = stream[r].got
      BY <1>0, <3>2 DEF NewStream
    <3> QED BY <1>4, <3>1, <3>2 DEF DevOpen, NextRemoteId
  <2> QED BY <2>1, <2>2
<1>5. CASE DevAck
  <2>1. DaemonRead /\ dev_auth' = dev_auth /\ \A r : ~Heard(r)
    BY <1>5, PipeReads DEF DevAck, Receives, Heard
  <2>2. \A r \in RemoteIds : stream'[r].got = stream[r].got
                             /\ (stream[r].st = "none" => stream'[r].st = "none")
    <3>1. \/ stream' = stream
          \/ /\ stream[Frame.arg1].st # "none"
             /\ stream' = [stream EXCEPT ![Frame.arg1].st = "ready"]
      BY <1>5 DEF DevAck
    <3>2. ASSUME NEW r \in RemoteIds
          PROVE  \/ stream'[r] = stream[r]
                 \/ stream[r].st # "none" /\ stream'[r] = [stream[r] EXCEPT !.st = "ready"]
      <4>1. CASE Frame.arg1 = r
        BY <1>0, <3>1, <4>1
      <4>2. CASE Frame.arg1 # r
        BY <1>0, <3>1, <4>2
      <4> QED BY <4>1, <4>2
    <3> QED BY <1>1, <3>2 DEF Stream
  <2> QED BY <2>1, <2>2
<1>6. CASE DevCloseRequest
  <2>1. DaemonRead /\ dev_auth' = dev_auth /\ \A r : ~Heard(r)
    BY <1>6, PipeReads DEF DevCloseRequest, Receives, Heard
  <2>2. \A r \in RemoteIds : stream'[r].got = stream[r].got
                             /\ (stream[r].st = "none" => stream'[r].st = "none")
    <3>1. \/ stream' = stream
          \/ /\ stream[Frame.arg1].st # "none"
             /\ stream' = [stream EXCEPT ![Frame.arg1].st = "closed"]
      BY <1>6 DEF DevCloseRequest, IsOpen
    <3>2. ASSUME NEW r \in RemoteIds
          PROVE  \/ stream'[r] = stream[r]
                 \/ stream[r].st # "none" /\ stream'[r] = [stream[r] EXCEPT !.st = "closed"]
      <4>1. CASE Frame.arg1 = r
        BY <1>0, <3>1, <4>1
      <4>2. CASE Frame.arg1 # r
        BY <1>0, <3>1, <4>2
      <4> QED BY <4>1, <4>2
    <3> QED BY <1>1, <3>2 DEF Stream
  <2> QED BY <2>1, <2>2
<1>7. CASE DevHostWrite
  <2>1. DaemonRead /\ dev_auth' = dev_auth /\ dev_auth = "online" /\ Frame.cmd = "WRTE"
    BY <1>7, PipeReads DEF DevHostWrite, Receives
  <2>2. CASE Addressed /\ IsOpen(Frame.arg1)
    <3>1. stream' = [stream EXCEPT ![Frame.arg1].got = Append(@, Frame.data)]
          /\ Frame.arg0 = stream[Frame.arg1].peer /\ Frame.arg1 \in StreamIds
      BY <1>7, <2>2 DEF DevHostWrite, Addressed
    <3>2. ASSUME NEW r \in RemoteIds
          PROVE  /\ Heard(r) => stream'[r].got = Append(stream[r].got, Frame.data)
                 /\ ~Heard(r) => stream'[r].got = stream[r].got
                 /\ stream'[r].st = stream[r].st
      <4>1. CASE Frame.arg1 = r
        <5>1. stream'[r] = [stream[r] EXCEPT !.got = Append(@, Frame.data)]
          BY <1>0, <3>1, <4>1
        <5> QED BY <1>1, <2>1, <2>2, <3>1, <4>1, <5>1 DEF Heard, Stream
      <4>2. CASE Frame.arg1 # r
        BY <1>0, <3>1, <4>2 DEF Heard
      <4> QED BY <4>1, <4>2
    <3> QED BY <2>1, <3>2
  <2>3. CASE ~(Addressed /\ IsOpen(Frame.arg1))
    <3>1. stream' = stream
      BY <1>7, <2>3 DEF DevHostWrite
    <3>2. \A r \in RemoteIds : ~Heard(r)
      BY <1>0, <2>3 DEF Heard, Addressed
    <3> QED BY <2>1, <3>1, <3>2
  <2> QED BY <2>2, <2>3
<1>8. CASE DevIgnore
  <2>1. DaemonRead /\ UNCHANGED <<stream, dev_auth>> /\ \A r : ~Heard(r)
    BY <1>8, PipeReads DEF DevIgnore, daemonVars, Heard
  <2> QED BY <2>1
<1>9. CASE DevGarbled /\ UNCHANGED daemonVars
  BY <1>9 DEF DevGarbled, daemonVars, Pipe
<1>10. ASSUME NEW q \in StreamIds, DevStreamWrite(q) \/ DevStreamEnd(q)
       PROVE  /\ Pipe' = Pipe /\ dev_auth' = dev_auth
              /\ \A r \in RemoteIds : /\ stream'[r].got = stream[r].got
                                      /\ stream[r].st = "none" => stream'[r].st = "none"
  <2>1. /\ Pipe' = Pipe /\ dev_auth' = dev_auth /\ stream[q].st # "none"
        /\ \/ stream' = [stream EXCEPT ![q].st = "waitack", ![q].sent = @ + 1]
           \/ stream' = [stream EXCEPT ![q].st = "closed"]
    BY <1>10 DEF DevStreamWrite, DevStreamEnd, DevWrites, Pipe, IsOpen
  <2>2. \A r \in RemoteIds : r # q => stream'[r] = stream[r]
    BY <1>0, <2>1
  <2>3. q \in RemoteIds => stream'[q].got = stream[q].got
    BY <1>0, <1>1, <2>1 DEF Stream
  <2> QED BY <2>1, <2>2, <2>3
<1> QED BY <1>2, <1>3, <1>4, <1>5, <1>6, <1>7, <1>8, <1>9, <1>10 DEF Daemon, DevPacket

(* A handshake packet on its way is ahead of every OPEN: once adbd has     *)
(* opened a stream of this process, it serves it until it is closed.       *)
Used == \E r \in RemoteIds : stream[r].st # "none"
NoneAfterOpen(s) ==
  \A i, j \in 1..Len(s) : i < j /\ s[i].cmd = "OPEN" => ~IsHandshake(s[j])
HandshakeFirst ==
  /\ NoneAfterOpen(Pipe)
  /\ auth_pc # "done" => ~Used /\ \A m \in Inside(Pipe) : m.cmd # "OPEN"
  /\ Used => dev_auth = "online" /\ \A m \in Inside(Pipe) : ~IsHandshake(m)

LEMMA NoneAppend ==
  ASSUME NEW s \in Seq(Message), NEW m \in Message, NoneAfterOpen(s),
         ~IsHandshake(m) \/ \A n \in Inside(s) : n.cmd # "OPEN"
  PROVE  NoneAfterOpen(Append(s, m))
<1>1. /\ Len(s) \in Nat /\ Len(Append(s, m)) = Len(s) + 1
      /\ \A i \in 1..Len(s) : Append(s, m)[i] = s[i]
      /\ Append(s, m)[Len(s) + 1] = m
  BY AppendProperties, LenProperties
<1>2. ASSUME NEW i \in 1..Len(s) + 1, NEW j \in 1..Len(s) + 1, i < j
      PROVE  i \in 1..Len(s) /\ (j \in 1..Len(s) \/ j = Len(s) + 1)
  BY <1>1, <1>2
<1>3. \A i \in 1..Len(s) : s[i] \in Inside(s)
  BY DEF Inside
<1> QED BY <1>1, <1>2, <1>3 DEF NoneAfterOpen

LEMMA NoneTail ==
  ASSUME NEW s \in Seq(Message), s # <<>>, NoneAfterOpen(s)
  PROVE  /\ NoneAfterOpen(Tail(s))
         /\ Head(s).cmd = "OPEN" => \A n \in Inside(Tail(s)) : ~IsHandshake(n)
<1>1. /\ Len(s) \in Nat \ {0} /\ Len(Tail(s)) = Len(s) - 1 /\ Head(s) = s[1]
      /\ \A i \in 1..Len(Tail(s)) : Tail(s)[i] = s[i + 1]
  BY HeadTailProperties, LenProperties, EmptySeq
<1>2. /\ 1 \in 1..Len(s)
      /\ \A i \in 1..Len(s) - 1 : i + 1 \in 1..Len(s) /\ 1 < i + 1
      /\ \A i, j \in 1..Len(s) - 1 : i < j => i + 1 < j + 1
  BY <1>1
<1> QED BY <1>1, <1>2 DEF NoneAfterOpen, Inside

LEMMA ReadRemains ==
  ASSUME AuthTypeOK, DaemonRead
  PROVE  /\ Inside(Pipe') \subseteq Inside(Pipe) /\ Frame \in Inside(Pipe) /\ Frame \in Message
         /\ NoneAfterOpen(Pipe) =>
              /\ NoneAfterOpen(Pipe')
              /\ Frame.cmd = "OPEN" => \A m \in Inside(Pipe') : ~IsHandshake(m)
<1>1. /\ Pipe \in Seq(Message) /\ Pipe # <<>> /\ Head(Pipe) = Frame
      /\ Pipe' = Tail(Pipe) \/ (Tail(Pipe) # <<>> /\ Pipe' = Tail(Tail(Pipe)))
  BY PipeType DEF DaemonRead
<1>2. /\ Inside(Tail(Pipe)) \subseteq Inside(Pipe) /\ Frame \in Inside(Pipe)
      /\ Tail(Pipe) \in Seq(Message) /\ Frame \in Message
  BY <1>1, InsideTail
<1>3. Tail(Pipe) # <<>> => Inside(Tail(Tail(Pipe))) \subseteq Inside(Tail(Pipe))
  BY <1>2, InsideTail
<1>4. ASSUME NoneAfterOpen(Pipe)
      PROVE  /\ NoneAfterOpen(Tail(Pipe))
             /\ Frame.cmd = "OPEN" => \A n \in Inside(Tail(Pipe)) : ~IsHandshake(n)
             /\ Tail(Pipe) # <<>> => NoneAfterOpen(Tail(Tail(Pipe)))
  <2>1. NoneAfterOpen(Tail(Pipe))
    BY <1>1, <1>4, NoneTail
  <2>2. Frame.cmd = "OPEN" => \A n \in Inside(Tail(Pipe)) : ~IsHandshake(n)
    BY <1>1, <1>4, NoneTail
  <2>3. Tail(Pipe) # <<>> => NoneAfterOpen(Tail(Tail(Pipe)))
    BY <1>2, <2>1, NoneTail
  <2> QED BY <2>1, <2>2, <2>3
<1> QED BY <1>1, <1>2, <1>3, <1>4

LEMMA HandshakeAppends ==
  ASSUME AuthTypeOK, HandshakeFirst, NEW m \in Message, Pipe' = Append(Pipe, m),
         UNCHANGED <<stream, dev_auth>>,
         auth_pc' # "done" => auth_pc # "done",
         IsHandshake(m) => auth_pc # "done",
         m.cmd = "OPEN" => auth_pc = "done"
  PROVE  HandshakeFirst'
<1>1. Pipe \in Seq(Message) /\ Inside(Pipe') = Inside(Pipe) \cup {m} /\ (Used' <=> Used)
  BY PipeType, InsideAppend DEF Used
<1>2. NoneAfterOpen(Pipe')
  BY <1>1, NoneAppend DEF HandshakeFirst
<1>3. auth_pc' # "done" => ~Used' /\ \A n \in Inside(Pipe') : n.cmd # "OPEN"
  BY <1>1 DEF HandshakeFirst
<1>4. Used' => dev_auth' = "online" /\ \A n \in Inside(Pipe') : ~IsHandshake(n)
  BY <1>1 DEF HandshakeFirst
<1> QED BY <1>2, <1>3, <1>4 DEF HandshakeFirst

LEMMA HandshakeStays ==
  ASSUME HandshakeFirst, Pipe' = Pipe, dev_auth' = dev_auth,
         \A r \in RemoteIds : stream[r].st = "none" => stream'[r].st = "none",
         auth_pc' # "done" => auth_pc # "done"
  PROVE  HandshakeFirst'
<1>1. Used' => Used
  BY DEF Used
<1> QED BY <1>1 DEF HandshakeFirst

LEMMA HandshakeAuthStep ==
  ASSUME AuthTypeOK, WireInv, HandshakeFirst, ~WireFails, AuthNext
  PROVE  HandshakeFirst'
<1>0. AuthTypeOK /\ WireInv /\ (auth_pc' # "done" => auth_pc # "done")
  BY AuthKeepsDone
<1>1. CASE HostThreads /\ UNCHANGED <<daemonVars, authVars>>
  <2>1. UNCHANGED <<stream, dev_auth, auth_pc>>
    BY <1>1 DEF daemonVars, authVars
  <2>2. CASE Pipe' = Pipe
    BY <1>0, <2>1, <2>2, HandshakeStays
  <2>3. ASSUME NEW m \in Message, m.cmd = "OKAY", Pipe' = Append(Pipe, m)
        PROVE  HandshakeFirst'
    BY <1>0, <2>1, <2>3, HandshakeAppends DEF IsHandshake
  <2> QED BY <1>0, <1>1, <2>2, <2>3, PipeHostThreads
<1>2. CASE Authenticate
  <2>1. auth_pc # "done" /\ UNCHANGED <<stream, dev_auth>>
    BY <1>0, <1>2, PipeAuthenticate
  <2>2. CASE Pipe' = Pipe
    BY <1>0, <2>1, <2>2, HandshakeStays
  <2>3. ASSUME NEW m \in Message, m.cmd \in {"CNXN", "AUTH", "DATA"}, Pipe' = Append(Pipe, m)
        PROVE  HandshakeFirst'
    BY <1>0, <2>1, <2>3, HandshakeAppends
  <2> QED BY <1>0, <1>2, <2>2, <2>3, PipeAuthenticate
<1>3. CASE Daemon /\ UNCHANGED authVars
  <2>0. auth_pc' = auth_pc
    BY <1>3 DEF authVars
  <2>1. CASE /\ Pipe' = Pipe /\ dev_auth' = dev_auth
             /\ \A r \in RemoteIds : stream[r].st = "none" => stream'[r].st = "none"
    BY <1>0, <2>1, HandshakeStays
  <2>2. CASE /\ DaemonRead /\ (~IsHandshake(Frame) => dev_auth' = dev_auth)
             /\ \A r \in RemoteIds : stream[r].st = "none" /\ stream'[r].st # "none" =>
                  Frame.cmd = "OPEN" /\ dev_auth = "online"
    <3>1. /\ Inside(Pipe') \subseteq Inside(Pipe) /\ Frame \in Inside(Pipe)
          /\ NoneAfterOpen(Pipe')
          /\ Frame.cmd = "OPEN" => \A m \in Inside(Pipe') : ~IsHandshake(m)
      BY <1>0, <2>2, ReadRemains DEF HandshakeFirst
    <3>2. Used' => Used \/ (Frame.cmd = "OPEN" /\ dev_auth = "online")
      BY <2>2 DEF Used
    <3>3. auth_pc' # "done" => ~Used' /\ \A m \in Inside(Pipe') : m.cmd # "OPEN"
      BY <2>0, <3>1, <3>2 DEF HandshakeFirst
    <3>4. Used' => dev_auth' = "online" /\ \A m \in Inside(Pipe') : ~IsHandshake(m)
      BY <2>2, <3>1, <3>2 DEF HandshakeFirst, IsHandshake
    <3> QED BY <3>1, <3>3, <3>4 DEF HandshakeFirst
  <2> QED BY <1>0, <1>3, <2>1, <2>2, DaemonReads
<1> QED BY <1>1, <1>2, <1>3 DEF AuthNext

-----------------------------------------------------------------------------
(* The frames on their way from adbd, wherever they are.                   *)
InQueues == UNION {Inside(receive_queue[k]) : k \in LocalIds}
Frames == Inside(usb_in) \cup {rx_msg} \cup InQueues

LEMMA FramesType ==
  ASSUME AuthTypeOK
  PROVE  /\ Frames \subseteq Message
         /\ WireInv => \A m \in Frames : FrameOk(m)
<1>1. /\ usb_in \in Seq(Message) /\ rx_msg \in Message /\ LocalIds \subseteq Keys
      /\ \A k \in LocalIds : receive_queue[k] \in Seq(Message)
  BY DEF AuthTypeOK, ProtocolTypeOK, Keys
<1>2. \A s \in Seq(Message) : Inside(s) \subseteq Message
  BY ElementOfSeq DEF Inside
<1>3. Frames \subseteq Message
  BY <1>1, <1>2 DEF Frames, InQueues
<1>4. \A s : AllOk(s) => \A m \in Inside(s) : FrameOk(m)
  BY DEF AllOk, Inside
<1>5. WireInv => AllOk(usb_in) /\ FrameOk(rx_msg) /\ \A k \in LocalIds : AllOk(receive_queue[k])
  BY DEF WireInv, FramesOk
<1>6. WireInv => \A m \in Frames : FrameOk(m)
  <2> SUFFICES ASSUME WireInv, NEW m \in Frames PROVE FrameOk(m)
    OBVIOUS
  <2>1. CASE m \in Inside(usb_in)
    BY <1>4, <1>5, <2>1
  <2>2. CASE m = rx_msg
    BY <1>5, <2>2
  <2>3. CASE m \in InQueues
    <3>1. PICK k \in LocalIds : m \in Inside(receive_queue[k])
      BY <2>3 DEF InQueues
    <3> QED BY <1>4, <1>5, <3>1
  <2> QED BY <2>1, <2>2, <2>3 DEF Frames
<1> QED BY <1>3, <1>6

LEMMA FramesSays ==
  ASSUME AuthTypeOK, UNCHANGED <<receive_queue, rx_msg>>
  PROVE  /\ usb_in' = usb_in => Frames' = Frames
         /\ \A m \in Message : Says(m) => Frames' = Frames \cup {m}
<1>1. usb_in \in Seq(Message) /\ InQueues' = InQueues
  BY DEF AuthTypeOK, ProtocolTypeOK, InQueues
<1>2. \A m \in Message : Says(m) => Inside(usb_in') = Inside(usb_in) \cup {m}
  BY <1>1, InsideAppend DEF Says
<1> QED BY <1>1, <1>2 DEF Frames

LEMMA FramesTake ==
  ASSUME AuthTypeOK, NEW k \in Keys, Take(k)
  PROVE  /\ Frames' \subseteq Frames
         /\ k \in LocalIds => Response(k) \in Frames
<1>1. /\ receive_queue \in [Keys -> Seq(Message)] /\ LocalIds \subseteq Keys
      /\ receive_queue[k] # <<>> /\ receive_queue' = [receive_queue EXCEPT ![k] = Tail(@)]
      /\ UNCHANGED <<rx_msg, usb_in>>
  BY DEF AuthTypeOK, ProtocolTypeOK, Keys, Take
<1>2. Inside(Tail(receive_queue[k])) \subseteq Inside(receive_queue[k])
      /\ Response(k) \in Inside(receive_queue[k])
  BY <1>1, InsideTail DEF Response
<1>3. \A l \in LocalIds : Inside(receive_queue'[l]) \subseteq Inside(receive_queue[l])
  <2> TAKE l \in LocalIds
  <2>1. CASE l = k
    BY <1>1, <1>2, <2>1
  <2>2. CASE l # k
    BY <1>1, <2>2
  <2> QED BY <2>1, <2>2
<1>4. InQueues' \subseteq InQueues
  BY <1>3 DEF InQueues
<1> QED BY <1>1, <1>2, <1>4 DEF Frames, InQueues

LEMMA FramesHostThreads ==
  ASSUME AuthTypeOK, HostThreads
  PROVE  Frames' \subseteq Frames \cup {NoMsg}
<1>1. /\ usb_in \in Seq(Message) /\ receive_queue \in [Keys -> Seq(Message)]
      /\ rx_msg \in Message /\ LocalIds \subseteq Keys
  BY DEF AuthTypeOK, ProtocolTypeOK, Keys
<1>2. CASE SendLoop \/ WriteError \/ AckWrite
  <2>1. UNCHANGED <<usb_in, rx_msg, receive_queue>>
    BY <1>2 DEF SendLoop, WriteError, AckWrite
  <2> QED BY <2>1 DEF Frames, InQueues
<1>3. CASE ReceiveFrame \/ ChecksumError
  <2>1. /\ usb_in # <<>> /\ usb_in' = Tail(usb_in) /\ receive_queue' = receive_queue
        /\ rx_msg' \in {rx_msg, Head(usb_in)}
    BY <1>3 DEF ReceiveFrame, ChecksumError
  <2>2. Inside(usb_in') \subseteq Inside(usb_in) /\ Head(usb_in) \in Inside(usb_in)
    BY <1>1, <2>1, InsideTail
  <2> QED BY <2>1, <2>2 DEF Frames, InQueues
<1>4. CASE Deliver \/ Discard
  <2>1. /\ usb_in' = usb_in /\ rx_msg' = NoMsg
        /\ \/ receive_queue' = receive_queue
           \/ receive_queue' = [receive_queue EXCEPT ![KeyOf(rx_msg)] = Append(@, rx_msg)]
    BY <1>4 DEF Deliver, Discard
  <2>2. \A l \in LocalIds : receive_queue'[l] = receive_queue[l]
                            \/ receive_queue'[l] = Append(receive_queue[l], rx_msg)
    BY <1>1, <2>1
  <2>3. \A l \in LocalIds : Inside(receive_queue'[l]) \subseteq Inside(receive_queue[l]) \cup {rx_msg}
    <3> TAKE l \in LocalIds
    <3>1. receive_queue[l] \in Seq(Message)
      BY <1>1
    <3> QED BY <1>1, <2>2, <3>1, InsideAppend
  <2>4. InQueues' \subseteq InQueues \cup {rx_msg}
    BY <2>3 DEF InQueues
  <2> QED BY <2>1, <2>4 DEF Frames
<1> QED BY <1>2, <1>3, <1>4 DEF HostThreads, ReceiveLoop

LEMMA FramesAuthenticate ==
  ASSUME AuthTypeOK, Authenticate
  PROVE  Frames' \subseteq Frames
<1>1. Take(Default) \/ UNCHANGED <<usb_in, rx_msg, receive_queue>>
  BY DEF Authenticate, SendConnect, FirstAnswer, SendSignature, SecondAnswer, OfferKey,
     PutHeader, PutPayload
<1>2. CASE Take(Default)
  BY <1>2, FramesTake DEF Keys
<1>3. CASE UNCHANGED <<usb_in, rx_msg, receive_queue>>
  BY <1>3 DEF Frames, InQueues
<1> QED BY <1>1, <1>2, <1>3

(* A WRTE of stream r is one of the chunks that its service has written.   *)
Chunk(m, r) == m.data[1] = r /\ m.data[2] \in 1..stream[r].sent
Numbered(r) == \A m \in Frames : OfStream(m, r, {"WRTE"}) => Chunk(m, r)

LEMMA NumberedKept ==
  ASSUME NEW r, Numbered(r), Frames' \subseteq Frames \cup {NoMsg}, stream'[r] = stream[r]
  PROVE  Numbered(r)'
<1>1. ~OfStream(NoMsg, r, {"WRTE"})
  BY DEF NoMsg, Msg, OfStream
<1> QED BY <1>1 DEF Numbered, Chunk

LEMMA NumberedDaemon ==
  ASSUME AuthTypeOK, WireInv, Daemon, NEW r \in RemoteIds, Numbered(r)
  PROVE  Numbered(r)'
<1>0. /\ r \in StreamIds /\ stream[r] \in Stream /\ stream[r].sent \in Nat /\ stream[r].peer \in Nat
      /\ r \in Nat
  BY StreamFacts DEF StreamIds
<1>1. UNCHANGED <<receive_queue, rx_msg>>
  BY DEF Daemon, DevPacket, DevConnect, DevSignature, DevPublicKey, DevOpen, DevAck,
     DevCloseRequest, DevHostWrite, DevIgnore, DevGarbled, DevStreamWrite, DevStreamEnd,
     DevWrites, DevReads
<1>2. ASSUME NEW m, Frames' \subseteq Frames \cup {m}, ~OfStream(m, r, {"WRTE"}),
             stream'[r].sent = stream[r].sent \/ stream[r].st = "none"
      PROVE  Numbered(r)'
  <2> SUFFICES ASSUME NEW n \in Frames, OfStream(n, r, {"WRTE"}) PROVE Chunk(n, r)'
    BY <1>2 DEF Numbered
  <2>1. FrameOk(n)
    BY FramesType
  <2>2. stream[r].st # "none"
    BY <2>1 DEF FrameOk, OfStream, Said
  <2> QED BY <1>2, <2>2 DEF Numbered, Chunk
<1>3. CASE Ignores(r)
  <2>1. stream'[r].sent = stream[r].sent
    BY <1>3 DEF Ignores, Kept
  <2>2. CASE usb_in' = usb_in
    BY <1>1, <1>2, <2>1, <2>2, FramesSays, NoMsgOk DEF NoMsg, Msg, OfStream
  <2>3. ASSUME NEW m \in Message, Says(m), ~OfStream(m, r, Said) PROVE Numbered(r)'
    BY <1>1, <1>2, <2>1, <2>3, FramesSays DEF OfStream, Said
  <2> QED BY <1>3, <2>2, <2>3 DEF Ignores, SaysOther
<1>4. CASE Opens(r) \/ Ends(r) \/ Hears(r)
  <2>1. \E a1 \in Nat, cmd \in {"OKAY", "CLSE"} : Says(Msg(cmd, r, a1, NoData))
    <3>1. Opens(r) => Frame.arg0 \in Nat
      BY FrameType DEF Opens, AuthTypeOK, Message
    <3> QED BY <1>0, <1>4, <3>1 DEF Opens, Ends, Hears
  <2>2. PICK a1 \in Nat, cmd \in {"OKAY", "CLSE"} : Says(Msg(cmd, r, a1, NoData))
    BY <2>1
  <2>3. PICK m : m = Msg(cmd, r, a1, NoData)
    OBVIOUS
  <2>4. m \in Message /\ ~OfStream(m, r, {"WRTE"})
    <3>1. Msg(cmd, r, a1, NoData) \in Message
      BY <1>0, MsgType, NoDataType DEF Commands
    <3> QED BY <2>3, <3>1 DEF OfStream, Msg
  <2>5. stream'[r].sent = stream[r].sent \/ stream[r].st = "none"
    BY <1>0, <1>4 DEF Opens, Ends, Hears, Stream
  <2> QED BY <1>1, <1>2, <2>2, <2>3, <2>4, <2>5, FramesSays
<1>5. CASE Writes(r)
  <2>1. PICK m : m = Msg("WRTE", r, stream[r].peer, <<r, stream[r].sent + 1>>)
    OBVIOUS
  <2>2. m \in Message /\ m.data = <<r, stream[r].sent + 1>>
    <3>1. <<r, stream[r].sent + 1>> \in Data
      BY <1>0 DEF Data
    <3>2. Msg("WRTE", r, stream[r].peer, <<r, stream[r].sent + 1>>) \in Message
      BY <1>0, <3>1, MsgType DEF Commands
    <3> QED BY <2>1, <3>2 DEF Msg
  <2>3. Frames' = Frames \cup {m}
    BY <1>1, <1>5, <2>1, <2>2, FramesSays DEF Writes
  <2>4. stream'[r].sent = stream[r].sent + 1
    BY <1>0, <1>5 DEF Writes, Stream
  <2>5. Chunk(m, r)'
    BY <1>0, <2>2, <2>4 DEF Chunk
  <2>6. \A n : Chunk(n, r) => Chunk(n, r)'
    BY <1>0, <2>4 DEF Chunk
  <2> QED BY <2>3, <2>5, <2>6 DEF Numbered
<1> QED BY <1>0, <1>3, <1>4, <1>5, DaemonStream

LEMMA NumberedStep ==
  ASSUME AuthTypeOK, WireInv, AuthNext, NEW r \in RemoteIds, Numbered(r)
  PROVE  Numbered(r)'
<1>1. CASE HostThreads /\ UNCHANGED <<daemonVars, authVars>>
  BY <1>1, FramesHostThreads, NumberedKept DEF daemonVars
<1>2. CASE Daemon
  BY <1>2, NumberedDaemon
<1>3. CASE Authenticate
  <2>1. stream' = stream
    BY <1>3 DEF Authenticate, SendConnect, FirstAnswer, SendSignature, SecondAnswer, OfferKey,
       daemonVars
  <2> QED BY <1>3, <2>1, FramesAuthenticate, NumberedKept
<1> QED BY <1>1, <1>2, <1>3 DEF AuthNext

LEMMA NumberedInit ==
  ASSUME AuthInit
  PROVE  \A r \in RemoteIds : Numbered(r)
<1>1. usb_in \in StaleTraffic
  BY DEF AuthInit, DaemonInit
<1>2. \A i \in 1..Len(usb_in) : IsHandshake(usb_in[i]) \/ usb_in[i].arg0 \in StaleIds
  BY <1>1, DaemonAssumption
<1>3. \A r \in RemoteIds : \A m \in Inside(usb_in) : ~OfStream(m, r, {"WRTE"})
  BY <1>2, ProtocolAssumption DEF OfStream, Inside, IsHandshake
<1>4. \A r : ~OfStream(NoMsg, r, {"WRTE"})
  BY DEF NoMsg, Msg, OfStream
<1>5. rx_msg = NoMsg /\ InQueues = {}
  <2>1. rx_msg = NoMsg /\ \A k \in LocalIds : receive_queue[k] = <<>>
    BY DEF AuthInit, ProtocolInit, Keys
  <2>2. Inside(<<>>) = {}
    BY EmptySeq DEF Inside
  <2> QED BY <2>1, <2>2 DEF InQueues
<1> QED BY <1>3, <1>4, <1>5 DEF Numbered, Frames

-----------------------------------------------------------------------------
(* Flow control.  None and Once say how often a sequence holds a message   *)
(* of the set S.                                                           *)
None(s, S) == \A i \in 1..Len(s) : s[i] \notin S
Once(s, S) ==
  \E i \in 1..Len(s) : s[i] \in S /\ \A j \in 1..Len(s) : s[j] \in S => j = i

LEMMA OnceAppend ==
  ASSUME NEW s \in Seq(Message), NEW m \in Message, NEW S
  PROVE  /\ m \notin S => (None(s, S) => None(Append(s, m), S))
                          /\ (Once(s, S) => Once(Append(s, m), S))
         /\ m \in S => (None(s, S) => Once(Append(s, m), S))
<1>1. /\ Len(s) \in Nat /\ Len(Append(s, m)) = Len(s) + 1
      /\ \A i \in 1..Len(s) : Append(s, m)[i] = s[i]
      /\ Append(s, m)[Len(s) + 1] = m
  BY AppendProperties, LenProperties
<1>2. /\ \A i \in 1..Len(s) + 1 : i \in 1..Len(s) \/ i = Len(s) + 1
      /\ \A i \in 1..Len(s) : i \in 1..Len(s) + 1
      /\ Len(s) + 1 \in 1..Len(s) + 1
  BY <1>1
<1> QED BY <1>1, <1>2 DEF None, Once

LEMMA OnceTail ==
  ASSUME NEW s \in Seq(Message), s # <<>>, NEW S
  PROVE  /\ Head(s) \notin S => (None(s, S) => None(Tail(s), S))
                                /\ (Once(s, S) => Once(Tail(s), S))
         /\ Head(s) \in S => ~None(s, S) /\ (Once(s, S) => None(Tail(s), S))
<1>1. /\ Len(s) \in Nat \ {0} /\ Len(Tail(s)) = Len(s) - 1 /\ Head(s) = s[1]
      /\ \A i \in 1..Len(Tail(s)) : Tail(s)[i] = s[i + 1]
  BY HeadTailProperties, LenProperties, EmptySeq
<1>2. /\ 1 \in 1..Len(s)
      /\ \A i \in 1..Len(s) - 1 : i + 1 \in 1..Len(s) /\ i + 1 # 1
      /\ \A i \in 1..Len(s) : i # 1 => i - 1 \in 1..Len(s) - 1 /\ (i - 1) + 1 = i
      /\ \A i, j \in 1..Len(s) - 1 : i + 1 = j + 1 => i = j
  BY <1>1
<1>3. ASSUME Head(s) \notin S, Once(s, S) PROVE Once(Tail(s), S)
  <2>1. PICK i \in 1..Len(s) : s[i] \in S /\ \A j \in 1..Len(s) : s[j] \in S => j = i
    BY <1>3 DEF Once
  <2>2. i # 1 /\ i - 1 \in 1..Len(Tail(s)) /\ Tail(s)[i - 1] = s[i]
    BY <1>1, <1>2, <1>3, <2>1
  <2>3. \A j \in 1..Len(Tail(s)) : Tail(s)[j] \in S => j = i - 1
    BY <1>1, <1>2, <2>1, <2>2
  <2> QED BY <2>1, <2>2, <2>3 DEF Once
<1> QED BY <1>1, <1>2, <1>3 DEF None, Once

(* The WRTEs of stream r, the OKAYs they are answered with, and where one  *)
(* of them is under way.                                                   *)
WritesOf(r) == {m \in Message : m.cmd = "WRTE" /\ m.arg0 = r}
AcksOf(r) == {m \in Message : m.cmd = "OKAY" /\ m.arg1 = r}

Quiet(r) == None(usb_in, WritesOf(r)) /\ ~HeldWrite(r) /\ None(Pipe, AcksOf(r))
OnItsWay(r) ==
  \/ Once(usb_in, WritesOf(r)) /\ ~HeldWrite(r) /\ None(Pipe, AcksOf(r))
  \/ None(usb_in, WritesOf(r)) /\ HeldWrite(r) /\ None(Pipe, AcksOf(r))
  \/ None(usb_in, WritesOf(r)) /\ ~HeldWrite(r) /\ Once(Pipe, AcksOf(r))

(* Both ids of it are those of the stream, so that adbd knows the OKAY.    *)
ToPeer(r) ==
  /\ \A m \in Inside(usb_in) \cap WritesOf(r) : m.arg1 = stream[r].peer
  /\ HeldWrite(r) => rx_msg.arg1 = stream[r].peer
  /\ \A m \in Inside(Pipe) \cap AcksOf(r) : m.arg0 = stream[r].peer

Flow(r) ==
  /\ Quiet(r) \/ OnItsWay(r)
  /\ stream[r].st = "waitack" => OnItsWay(r)
  /\ stream[r].st \in {"none", "ready"} => Quiet(r)
  /\ ToPeer(r)

(* adbd only reads the OKAY while it serves streams: a stream of an        *)
(* earlier process is dropped before anything else of its state changes.   *)
Reset == \A r \in StaleIds : ~IsOpen(r)
StaleServed == ~Reset => dev_auth = "online"

FlowInv == HandshakeFirst /\ StaleServed /\ \A r \in StreamIds : Flow(r)

LEMMA OnceNotNone ==
  ASSUME NEW s, NEW S, Once(s, S)
  PROVE  ~None(s, S)
BY DEF Once, None

LEMMA FlowPipe ==
  ASSUME AuthTypeOK, NEW r, UNCHANGED <<usb_in, rx_pc, rx_msg>>, stream'[r] = stream[r],
         Flow(r),
         Pipe' = Pipe \/ \E m \in Message : m.cmd # "OKAY" /\ Pipe' = Append(Pipe, m)
  PROVE  Flow(r)'
<1>0. Pipe \in Seq(Message) /\ UNCHANGED <<HeldWrite(r)>>
  BY PipeType DEF HeldWrite
<1>1. CASE Pipe' = Pipe
  BY <1>0, <1>1 DEF Flow, Quiet, OnItsWay, ToPeer
<1>2. ASSUME NEW m \in Message, m.cmd # "OKAY", Pipe' = Append(Pipe, m)
      PROVE  Flow(r)'
  <2>1. /\ m \notin AcksOf(r)
        /\ None(Pipe, AcksOf(r)) => None(Pipe', AcksOf(r))
        /\ Once(Pipe, AcksOf(r)) => Once(Pipe', AcksOf(r))
        /\ Inside(Pipe') = Inside(Pipe) \cup {m}
    BY <1>0, <1>2, OnceAppend, InsideAppend DEF AcksOf
  <2>2. Quiet(r) => Quiet(r)'
    BY <1>0, <1>2, <2>1 DEF Quiet
  <2>3. OnItsWay(r) => OnItsWay(r)'
    BY <1>0, <1>2, <2>1 DEF OnItsWay
  <2>4. ToPeer(r)'
    BY <1>0, <1>2, <2>1 DEF Flow, ToPeer
  <2> QED BY <2>2, <2>3, <2>4 DEF Flow
<1> QED BY <1>1, <1>2

(* The receive thread takes a WRTE from the pipe, and answers it once.     *)
LEMMA FlowHostThreads ==
  ASSUME AuthTypeOK, ~WireFails, HostThreads, UNCHANGED stream, NEW r \in StreamIds,
         Flow(r)
  PROVE  Flow(r)'
<1>0. /\ usb_in \in Seq(Message) /\ Pipe \in Seq(Message) /\ rx_msg \in Message /\ stream' = stream
  BY PipeType DEF AuthTypeOK, ProtocolTypeOK
<1>1. CASE SendLoop
  <2>1. Pipe' = Pipe /\ UNCHANGED <<usb_in, rx_pc, rx_msg>>
    <3>1. /\ send_queue # <<>> /\ send_queue' = Tail(send_queue)
          /\ usb_out' = Append(usb_out, Head(send_queue))
      BY <1>1 DEF SendLoop
    <3>2. usb_out \in Seq(Message) /\ send_queue \in Seq(Message)
      BY PipeType
    <3> QED BY <1>1, <3>1, <3>2, HeadMoves DEF Pipe, SendLoop
  <2> QED BY <1>0, <2>1, FlowPipe
<1>2. CASE ReceiveFrame
  <2>1. PICK m \in Message : m = Head(usb_in)
    BY <1>0, <1>2, HeadTailProperties DEF ReceiveFrame
  <2>2. /\ usb_in # <<>> /\ usb_in' = Tail(usb_in) /\ rx_msg' = m /\ Pipe' = Pipe
        /\ ~HeldWrite(r)
        /\ HeldWrite(r)' <=> m \in WritesOf(r)
    BY <1>2, <2>1 DEF ReceiveFrame, HeldWrite, Pipe, WritesOf
  <2>3. /\ Inside(usb_in') \subseteq Inside(usb_in) /\ m \in Inside(usb_in)
    BY <1>0, <2>1, <2>2, InsideTail
  <2>4. ToPeer(r)'
    BY <1>0, <2>2, <2>3 DEF Flow, ToPeer
  <2>5. CASE m \in WritesOf(r)
    <3>1. ~None(usb_in, WritesOf(r)) /\ (Once(usb_in, WritesOf(r)) => None(usb_in', WritesOf(r)))
      BY <1>0, <2>1, <2>2, <2>5, OnceTail
    <3>2. OnItsWay(r)' /\ ~Quiet(r)
      BY <2>2, <2>5, <3>1 DEF Flow, Quiet, OnItsWay
    <3> QED BY <1>0, <2>4, <3>2 DEF Flow
  <2>6. CASE m \notin WritesOf(r)
    <3>1. /\ None(usb_in, WritesOf(r)) => None(usb_in', WritesOf(r))
          /\ Once(usb_in, WritesOf(r)) => Once(usb_in', WritesOf(r))
      BY <1>0, <2>1, <2>2, <2>6, OnceTail
    <3>2. (Quiet(r) => Quiet(r)') /\ (OnItsWay(r) => OnItsWay(r)')
      BY <2>2, <2>6, <3>1 DEF Quiet, OnItsWay
    <3> QED BY <1>0, <2>4, <3>2 DEF Flow
  <2> QED BY <2>5, <2>6
<1>3. CASE AckWrite
  <2>0. PICK m \in Message : m = Msg("OKAY", rx_msg.arg1, rx_msg.arg0, NoData)
    BY <1>0, NoDataType DEF Msg, Message, Commands
  <2>1. /\ Pipe' = Append(Pipe, m) /\ usb_in' = usb_in /\ ~HeldWrite(r)'
        /\ HeldWrite(r) <=> m \in AcksOf(r)
        /\ m.arg0 = rx_msg.arg1
    <3>1. Puts(m) /\ usb_out' = usb_out
      BY <1>3, <2>0 DEF AckWrite, Puts
    <3>2. Pipe' = Append(Pipe, m)
      BY <3>1, PipePut
    <3> QED BY <1>3, <2>0, <3>2 DEF AckWrite, HeldWrite, AcksOf, Msg
  <2>2. Inside(Pipe') = Inside(Pipe) \cup {m}
    BY <1>0, <2>1, InsideAppend
  <2>3. ToPeer(r)'
    <3>1. m \in AcksOf(r) => m.arg0 = stream[r].peer
      BY <2>1 DEF Flow, ToPeer
    <3> QED BY <1>0, <2>1, <2>2, <3>1 DEF Flow, ToPeer
  <2>4. CASE m \in AcksOf(r)
    <3>1. None(Pipe, AcksOf(r)) => Once(Pipe', AcksOf(r))
      BY <1>0, <2>1, <2>4, OnceAppend
    <3>2. OnItsWay(r)' /\ ~Quiet(r)
      BY <2>1, <2>4, <3>1 DEF Flow, Quiet, OnItsWay
    <3> QED BY <1>0, <2>3, <3>2 DEF Flow
  <2>5. CASE m \notin AcksOf(r)
    <3>1. /\ None(Pipe, AcksOf(r)) => None(Pipe', AcksOf(r))
          /\ Once(Pipe, AcksOf(r)) => Once(Pipe', AcksOf(r))
      BY <1>0, <2>1, <2>5, OnceAppend
    <3>2. (Quiet(r) => Quiet(r)') /\ (OnItsWay(r) => OnItsWay(r)')
      BY <2>1, <2>5, <3>1 DEF Quiet, OnItsWay
    <3> QED BY <1>0, <2>3, <3>2 DEF Flow
  <2> QED BY <2>4, <2>5
<1>4. CASE Deliver \/ Discard
  <2>1. ~HeldWrite(r) /\ ~HeldWrite(r)' /\ usb_in' = usb_in /\ Pipe' = Pipe
    BY <1>4 DEF Deliver, Discard, HeldWrite, Pipe
  <2> QED BY <1>0, <2>1 DEF Flow, Quiet, OnItsWay, ToPeer
<1> QED BY <1>1, <1>2, <1>3, <1>4 DEF HostThreads, ReceiveLoop, WriteError, ChecksumError

(* What a step of adbd is to the flow of stream r: it writes, it hears an  *)
(* OKAY of r, or neither.                                                  *)
AckRead(r) == DaemonRead /\ Frame.cmd = "OKAY" /\ Frame.arg1 = r
Unblocks(r) ==
  /\ AckRead(r)
  /\ stream'[r].peer = stream[r].peer
  /\ stream'[r].st =
       IF dev_auth = "online" /\ Frame.arg0 = stream[r].peer /\ stream[r].st = "waitack"
         THEN "ready" ELSE stream[r].st
Elsewhere(r) ==
  /\ Pipe' = Pipe \/ (DaemonRead /\ ~AckRead(r))
  /\ \/ stream'[r].st = stream[r].st
     \/ stream'[r].st = "closed" /\ stream[r].st # "none"
     \/ stream'[r].st = "ready" /\ stream[r].st = "none"
  /\ stream[r].st # "none" => stream'[r].peer = stream[r].peer
WritesNot(r) ==
  \/ usb_in' = usb_in
  \/ \E m \in Message : Says(m) /\ m \notin WritesOf(r)

LEMMA DaemonFlow ==
  ASSUME AuthTypeOK, Daemon, NEW r \in StreamIds
  PROVE  \/ Writes(r) /\ Pipe' = Pipe
         \/ WritesNot(r) /\ (Unblocks(r) \/ Elsewhere(r))
<1>0. /\ stream \in [StreamIds -> Stream] /\ stream[r] \in Stream
      /\ \A q \in StreamIds : stream[q].peer \in Nat /\ q \in Nat
  <2>1. stream \in [StreamIds -> Stream]
    BY DEF AuthTypeOK, DaemonTypeOK
  <2>2. \A q \in StreamIds : stream[q].peer \in Nat
    BY <2>1 DEF Stream
  <2> QED BY <2>1, <2>2, StreamIdType
<1>1. WritesNot(r) \/ Writes(r)
  <2>1. CASE SaysOther(r)
    BY <2>1 DEF SaysOther, OfStream, Said, WritesNot, WritesOf
  <2>2. ASSUME NEW cmd \in {"OKAY", "CLSE"}, NEW a \in Nat, Says(Msg(cmd, r, a, NoData))
        PROVE  WritesNot(r)
    <3>1. Msg(cmd, r, a, NoData) \in Message
      BY <1>0, MsgType, NoDataType DEF Commands
    <3>2. Msg(cmd, r, a, NoData) \notin WritesOf(r)
      BY DEF WritesOf, Msg
    <3> QED BY <2>2, <3>1, <3>2 DEF WritesNot
  <2>3. Opens(r) => Frame.arg0 \in Nat
    BY FrameType DEF Opens, AuthTypeOK, Message
  <2> QED BY <1>0, <2>1, <2>2, <2>3, DaemonStream DEF Ignores, Opens, Ends, Hears
<1>2. Writes(r) => ~Unblocks(r) /\ ~Elsewhere(r)
  BY <1>0 DEF Writes, Unblocks, Elsewhere, Stream
<1>3. ASSUME NEW reply, DevReads(reply), Frame.cmd # "OKAY" PROVE DaemonRead /\ ~AckRead(r)
  BY <1>3, PipeReads DEF AckRead
<1>4. ASSUME DaemonRead, ~AckRead(r), stream' = stream PROVE Elsewhere(r)
  BY <1>4 DEF Elsewhere
<1>5. ASSUME NEW q \in StreamIds, NEW t \in Stream, stream' = [stream EXCEPT ![q] = t],
             Pipe' = Pipe \/ (DaemonRead /\ ~AckRead(r)),
             \/ t.st = stream[q].st /\ t.peer = stream[q].peer
             \/ t.st = "closed" /\ stream[q].st # "none" /\ t.peer = stream[q].peer
             \/ t.st = "ready" /\ stream[q].st = "none"
      PROVE  Elsewhere(r)
  <2>1. CASE q = r
    <3>1. stream'[r] = t
      BY <1>0, <1>5, <2>1
    <3> QED BY <1>5, <2>1, <3>1 DEF Elsewhere
  <2>2. CASE q # r
    <3>1. stream'[r] = stream[r]
      BY <1>0, <1>5, <2>2
    <3> QED BY <1>5, <3>1 DEF Elsewhere
  <2> QED BY <2>1, <2>2
<1>6. CASE DevConnect
  <2>1. stream'[r] = IF IsOpen(r) THEN [stream[r] EXCEPT !.st = "closed"] ELSE stream[r]
    BY <1>6 DEF DevConnect
  <2>2. DaemonRead /\ ~AckRead(r)
    BY <1>6, <1>3 DEF DevConnect, Receives
  <2>3. Elsewhere(r)
    BY <1>0, <2>1, <2>2 DEF Elsewhere, IsOpen, Stream
  <2> QED BY <1>1, <1>2, <2>3
<1>7. CASE DevSignature \/ DevPublicKey
  <2>1. DaemonRead /\ ~AckRead(r) /\ stream' = stream
    BY <1>7, <1>3 DEF DevSignature, DevPublicKey, Receives
  <2> QED BY <1>1, <1>2, <1>4, <2>1
<1>8. CASE DevOpen
  <2>1. DaemonRead /\ ~AckRead(r) /\ FrameReady
    BY <1>8, <1>3 DEF DevOpen, Receives
  <2>2. CASE stream' = stream
    BY <1>1, <1>2, <1>4, <2>1, <2>2
  <2>3. ASSUME NEW q \in RemoteIds, stream[q].st = "none",
               stream' = [stream EXCEPT ![q] = NewStream("ready", Frame.arg0, Frame.data, 0)]
        PROVE  Elsewhere(r)
    <3>1. PICK t : t = NewStream("ready", Frame.arg0, Frame.data, 0)
      OBVIOUS
    <3>2. Frame.arg0 \in Nat /\ Frame.data \in Data
      BY <2>1, FrameType DEF AuthTypeOK, Message
    <3>3. t \in Stream /\ t.st = "ready"
      BY <3>1, <3>2 DEF NewStream, Stream
    <3>4. q \in StreamIds
      BY DEF StreamIds
    <3> QED BY <1>5, <2>1, <2>3, <3>1, <3>3, <3>4
  <2> QED BY <1>1, <1>2, <1>8, <2>2, <2>3 DEF DevOpen, NextRemoteId
<1>9. CASE DevAck
  <2>1. /\ DaemonRead /\ Frame.cmd = "OKAY" /\ dev_auth = "online"
        /\ stream' = IF Addressed /\ stream[Frame.arg1].st = "waitack"
                       THEN [stream EXCEPT ![Frame.arg1].st = "ready"] ELSE stream
    BY <1>9, PipeReads DEF DevAck, Receives
  <2>2. CASE Frame.arg1 = r
    <3>1. stream'[r] = IF stream[r].peer = Frame.arg0 /\ stream[r].st = "waitack"
                         THEN [stream[r] EXCEPT !.st = "ready"] ELSE stream[r]
      BY <1>0, <2>1, <2>2 DEF Addressed
    <3>2. Unblocks(r)
      BY <1>0, <2>1, <2>2, <3>1 DEF Unblocks, AckRead, Stream
    <3> QED BY <1>1, <1>2, <3>2
  <2>3. CASE Frame.arg1 # r
    <3>1. stream'[r] = stream[r]
      BY <1>0, <2>1, <2>3 DEF Addressed
    <3>2. Elsewhere(r)
      BY <2>1, <2>3, <3>1 DEF Elsewhere, AckRead
    <3> QED BY <1>1, <1>2, <3>2
  <2> QED BY <2>2, <2>3
<1>10. CASE DevCloseRequest \/ DevHostWrite
  <2>1. DaemonRead /\ ~AckRead(r) /\ FrameReady
    BY <1>10, <1>3 DEF DevCloseRequest, DevHostWrite, Receives
  <2>2. CASE stream' = stream
    BY <1>1, <1>2, <1>4, <2>1, <2>2
  <2>3. CASE stream' # stream
    <3>1. /\ Frame.arg1 \in StreamIds /\ IsOpen(Frame.arg1)
          /\ \/ stream' = [stream EXCEPT ![Frame.arg1].st = "closed"]
             \/ stream' = [stream EXCEPT ![Frame.arg1].got = Append(@, Frame.data)]
      BY <1>10, <2>3 DEF DevCloseRequest, DevHostWrite, Addressed
    <3>2. PICK q \in StreamIds : q = Frame.arg1
      BY <3>1
    <3>3. stream[q] \in Stream /\ stream[q].st # "none" /\ Frame.data \in Data
      BY <1>0, <2>1, <3>1, <3>2, FrameType DEF AuthTypeOK, Message, IsOpen
    <3>4. CASE stream' = [stream EXCEPT ![q].st = "closed"]
      <4>1. PICK t : t = [stream[q] EXCEPT !.st = "closed"]
        OBVIOUS
      <4>2. t \in Stream /\ t.st = "closed" /\ t.peer = stream[q].peer
        BY <3>3, <4>1 DEF Stream
      <4>3. stream' = [stream EXCEPT ![q] = t]
        BY <1>0, <3>4, <4>1
      <4>4. Elsewhere(r)
        BY <1>5, <2>1, <3>3, <4>2, <4>3
      <4> QED BY <1>1, <1>2, <4>4
    <3>5. CASE stream' = [stream EXCEPT ![q].got = Append(@, Frame.data)]
      <4>1. PICK t : t = [stream[q] EXCEPT !.got = Append(@, Frame.data)]
        OBVIOUS
      <4>2. Append(stream[q].got, Frame.data) \in Seq(Data)
        BY <3>3 DEF Stream
      <4>3. t \in Stream /\ t.st = stream[q].st /\ t.peer = stream[q].peer
        BY <3>3, <4>1, <4>2 DEF Stream
      <4>4. stream' = [stream EXCEPT ![q] = t]
        BY <1>0, <3>5, <4>1
      <4>5. Elsewhere(r)
        BY <1>5, <2>1, <4>3, <4>4
      <4> QED BY <1>1, <1>2, <4>5
    <3> QED BY <3>1, <3>2, <3>4, <3>5
  <2> QED BY <2>2, <2>3
<1>11. CASE DevGarbled /\ UNCHANGED daemonVars
  <2>1. Elsewhere(r)
    BY <1>11 DEF DevGarbled, daemonVars, Pipe, Elsewhere
  <2> QED BY <1>1, <1>2, <2>1
<1>12. CASE DevIgnore
  <2>1. DaemonRead /\ stream' = stream /\ dev_auth # "online"
    BY <1>12, PipeReads DEF DevIgnore, daemonVars
  <2>2. Unblocks(r) \/ Elsewhere(r)
    BY <2>1 DEF Unblocks, Elsewhere, AckRead
  <2> QED BY <1>1, <1>2, <2>2
<1>13. ASSUME NEW q \in StreamIds, DevStreamWrite(q) \/ DevStreamEnd(q), q # r
       PROVE  WritesNot(r) /\ Elsewhere(r)
  <2>1. Pipe' = Pipe /\ stream'[r] = stream[r]
    BY <1>0, <1>13 DEF DevStreamWrite, DevStreamEnd, DevWrites, Pipe
  <2>2. Elsewhere(r)
    BY <2>1 DEF Elsewhere
  <2> QED BY <1>1, <1>2, <2>2
<1>14. CASE DevStreamWrite(r)
  BY <1>0, <1>14 DEF DevStreamWrite, DevWrites, Writes, Says, Pipe, Stream
<1>15. CASE DevStreamEnd(r)
  <2>1. Pipe' = Pipe /\ stream'[r] = [stream[r] EXCEPT !.st = "closed"] /\ stream[r].st # "none"
    BY <1>0, <1>15 DEF DevStreamEnd, DevWrites, Pipe, IsOpen
  <2>2. Elsewhere(r)
    BY <1>0, <2>1 DEF Elsewhere, Stream
  <2> QED BY <1>1, <1>2, <2>2
<1> QED BY <1>6, <1>7, <1>8, <1>9, <1>10, <1>11, <1>12, <1>13, <1>14, <1>15 DEF Daemon, DevPacket

(* Reading the pipe: an OKAY that is read is gone, another packet leaves   *)
(* those of r where they are.                                              *)
LEMMA AcksRead ==
  ASSUME AuthTypeOK, NEW r, DaemonRead
  PROVE  /\ AckRead(r) => /\ ~None(Pipe, AcksOf(r))
                          /\ Once(Pipe, AcksOf(r)) => None(Pipe', AcksOf(r))
                          /\ Frame \in Inside(Pipe) \cap AcksOf(r)
         /\ ~AckRead(r) => /\ None(Pipe, AcksOf(r)) => None(Pipe', AcksOf(r))
                           /\ Once(Pipe, AcksOf(r)) => Once(Pipe', AcksOf(r))
         /\ Inside(Pipe') \subseteq Inside(Pipe)
<1>1. /\ Pipe \in Seq(Message) /\ Pipe # <<>> /\ Head(Pipe) = Frame
      /\ \/ Pipe' = Tail(Pipe)
         \/ Tail(Pipe) # <<>> /\ Head(Tail(Pipe)).cmd = "DATA" /\ Pipe' = Tail(Tail(Pipe))
  BY PipeType DEF DaemonRead
<1>2. PICK t \in Seq(Message) : t = Tail(Pipe)
  BY <1>1, HeadTailProperties
<1>3. /\ Inside(Pipe') \subseteq Inside(Pipe) /\ Frame \in Inside(Pipe) /\ Frame \in Message
  BY ReadRemains
<1>4. AckRead(r) <=> Head(Pipe) \in AcksOf(r)
  BY <1>1, <1>3 DEF AckRead, AcksOf
<1>5. /\ AckRead(r) => /\ ~None(Pipe, AcksOf(r))
                       /\ Once(Pipe, AcksOf(r)) => None(t, AcksOf(r))
      /\ ~AckRead(r) => /\ None(Pipe, AcksOf(r)) => None(t, AcksOf(r))
                        /\ Once(Pipe, AcksOf(r)) => Once(t, AcksOf(r))
  BY <1>1, <1>2, <1>4, OnceTail
<1>6. /\ None(t, AcksOf(r)) => None(Pipe', AcksOf(r))
      /\ Once(t, AcksOf(r)) => Once(Pipe', AcksOf(r))
  <2>1. CASE Pipe' = t
    BY <2>1
  <2>2. CASE t # <<>> /\ Head(t).cmd = "DATA" /\ Pipe' = Tail(t)
    <3>1. Head(t) \notin AcksOf(r)
      BY <2>2 DEF AcksOf
    <3> QED BY <2>2, <3>1, OnceTail
  <2> QED BY <1>1, <1>2, <2>1, <2>2
<1> QED BY <1>1, <1>3, <1>4, <1>5, <1>6

LEMMA FlowDaemon ==
  ASSUME AuthTypeOK, HandshakeFirst, StaleServed, Daemon, NEW r \in StreamIds, Flow(r)
  PROVE  Flow(r)'
<1>0. /\ usb_in \in Seq(Message) /\ stream[r] \in Stream
  BY DEF AuthTypeOK, ProtocolTypeOK, DaemonTypeOK
<1>1. UNCHANGED <<rx_pc, rx_msg>> /\ (HeldWrite(r)' <=> HeldWrite(r))
  BY DEF Daemon, DevPacket, DevConnect, DevSignature, DevPublicKey, DevOpen, DevAck,
     DevCloseRequest, DevHostWrite, DevIgnore, DevGarbled, DevStreamWrite, DevStreamEnd,
     DevReads, DevWrites, HeldWrite
<1>2. CASE Writes(r) /\ Pipe' = Pipe
  <2>1. PICK m : m = Msg("WRTE", r, stream[r].peer, <<r, stream[r].sent + 1>>)
    OBVIOUS
  <2>2. m \in Message
    <3>1. r \in Nat /\ stream[r].peer \in Nat /\ <<r, stream[r].sent + 1>> \in Data
      BY <1>0, StreamIdType DEF Stream, Data
    <3> QED BY <2>1, <3>1, MsgType DEF Commands
  <2>3. /\ m \in WritesOf(r) /\ m.arg1 = stream[r].peer /\ usb_in' = Append(usb_in, m)
        /\ Quiet(r) /\ stream'[r].st = "waitack" /\ stream'[r].peer = stream[r].peer
    BY <1>0, <1>2, <2>1, <2>2 DEF Writes, Says, WritesOf, Msg, Flow, Stream
  <2>4. Once(usb_in', WritesOf(r)) /\ Inside(usb_in') = Inside(usb_in) \cup {m}
    BY <1>0, <2>2, <2>3, OnceAppend, InsideAppend DEF Quiet
  <2>5. OnItsWay(r)'
    BY <1>1, <1>2, <2>3, <2>4 DEF Quiet, OnItsWay
  <2>6. ToPeer(r)'
    BY <1>1, <1>2, <2>3, <2>4 DEF Flow, ToPeer
  <2> QED BY <2>3, <2>5, <2>6 DEF Flow
<1>3. CASE WritesNot(r)
  <2>1. /\ None(usb_in, WritesOf(r)) => None(usb_in', WritesOf(r))
        /\ Once(usb_in, WritesOf(r)) => Once(usb_in', WritesOf(r))
        /\ Inside(usb_in') \cap WritesOf(r) \subseteq Inside(usb_in)
    <3>1. ASSUME NEW m \in Message, Says(m), m \notin WritesOf(r)
          PROVE  /\ None(usb_in, WritesOf(r)) => None(usb_in', WritesOf(r))
                 /\ Once(usb_in, WritesOf(r)) => Once(usb_in', WritesOf(r))
                 /\ Inside(usb_in') \cap WritesOf(r) \subseteq Inside(usb_in)
      BY <1>0, <3>1, OnceAppend, InsideAppend DEF Says
    <3> QED BY <1>3, <3>1 DEF WritesNot
  <2>2. CASE Elsewhere(r)
    <3>1. /\ None(Pipe, AcksOf(r)) => None(Pipe', AcksOf(r))
          /\ Once(Pipe, AcksOf(r)) => Once(Pipe', AcksOf(r))
          /\ Inside(Pipe') \subseteq Inside(Pipe)
      BY <2>2, AcksRead DEF Elsewhere
    <3>2. Quiet(r) => Quiet(r)'
      BY <1>1, <2>1, <3>1 DEF Quiet
    <3>3. OnItsWay(r) => OnItsWay(r)'
      BY <1>1, <2>1, <3>1 DEF OnItsWay
    <3>4. ToPeer(r)'
      <4>1. CASE stream[r].st # "none"
        BY <1>1, <2>1, <2>2, <3>1, <4>1 DEF Flow, ToPeer, Elsewhere
      <4>2. CASE stream[r].st = "none"
        <5>1. Quiet(r)'
          BY <3>2, <4>2 DEF Flow
        <5> QED BY <5>1 DEF Quiet, ToPeer, None, Inside
      <4> QED BY <4>1, <4>2
    <3> QED BY <2>2, <3>2, <3>3, <3>4 DEF Flow, Elsewhere
  <2>3. CASE Unblocks(r)
    <3>1. AckRead(r) /\ DaemonRead
      BY <2>3 DEF Unblocks, AckRead
    <3>2. /\ ~None(Pipe, AcksOf(r)) /\ (Once(Pipe, AcksOf(r)) => None(Pipe', AcksOf(r)))
          /\ Frame \in Inside(Pipe) \cap AcksOf(r) /\ Inside(Pipe') \subseteq Inside(Pipe)
      BY <3>1, AcksRead
    <3>3. Quiet(r)'
      BY <1>1, <2>1, <3>2 DEF Flow, Quiet, OnItsWay
    <3>4. ToPeer(r)'
      BY <1>1, <2>1, <2>3, <3>2 DEF Flow, ToPeer, Unblocks
    <3>5. IsOpen(r) => dev_auth = "online"
      <4>1. CASE r \in RemoteIds
        BY <4>1 DEF HandshakeFirst, Used, IsOpen
      <4>2. CASE r \in StaleIds
        BY <4>2 DEF StaleServed, Reset
      <4> QED BY <4>1, <4>2 DEF StreamIds
    <3>6. stream'[r].st # "waitack"
      BY <2>3, <3>2, <3>5 DEF Unblocks, Flow, ToPeer, IsOpen
    <3> QED BY <3>3, <3>4, <3>6 DEF Flow
  <2> QED BY <1>2, <2>2, <2>3, DaemonFlow
<1> QED BY <1>2, <1>3, DaemonFlow

LEMMA ServedDaemon ==
  ASSUME AuthTypeOK, StaleInv, StaleServed, Daemon
  PROVE  StaleServed'
<1>0. stream \in [StreamIds -> Stream] /\ StaleIds \subseteq StreamIds
  BY DEF AuthTypeOK, DaemonTypeOK, StreamIds
<1>1. CASE Reset
  <2>1. ASSUME NEW r \in StaleIds PROVE ~IsOpen(r)'
    <3>1. r \in StreamIds /\ r \notin RemoteIds /\ ~IsOpen(r) /\ stream[r] \in Stream
      BY <1>0, <1>1, ProtocolAssumption DEF Reset
    <3>2. Ignores(r)
      BY <3>1, DaemonStream DEF Opens, Writes, Ends, Hears, IsOpen
    <3> QED BY <3>1, <3>2 DEF Ignores, Kept, IsOpen, Stream
  <2> QED BY <2>1 DEF StaleServed, Reset
<1>2. CASE DevConnect
  <2>1. \A r \in StaleIds : ~IsOpen(r)'
    BY <1>0, <1>2 DEF DevConnect, IsOpen, Stream
  <2> QED BY <2>1 DEF StaleServed, Reset
<1>3. CASE DevSignature \/ DevPublicKey
  <2>1. AnswerSent
    BY <1>3, FrameIsSigned DEF DevSignature, DevPublicKey
  <2>2. Reset
    BY <2>1 DEF StaleInv, OldStreamsDropped, Reset
  <2> QED BY <1>1, <2>2
<1>4. CASE dev_auth' = dev_auth /\ ~Reset
  BY <1>4 DEF StaleServed
<1> QED BY <1>1, <1>2, <1>3, <1>4 DEF Daemon, DevPacket, DevOpen, DevAck, DevCloseRequest, DevHostWrite,
           DevIgnore, daemonVars, DevStreamWrite, DevStreamEnd

LEMMA FlowAuthStep ==
  ASSUME AuthTypeOK, StaleInv, WireInv, FlowInv, ~WireFails, AuthNext
  PROVE  FlowInv'
<1>1. HandshakeFirst'
  BY HandshakeAuthStep DEF FlowInv
<1>2. CASE Daemon
  <2>1. StaleServed'
    BY <1>2, ServedDaemon DEF FlowInv
  <2>2. \A r \in StreamIds : Flow(r)'
    BY <1>2, FlowDaemon DEF FlowInv
  <2> QED BY <1>1, <2>1, <2>2 DEF FlowInv
<1>3. CASE HostThreads /\ UNCHANGED <<daemonVars, authVars>>
  <2>1. StaleServed' /\ stream' = stream
    BY <1>3 DEF FlowInv, StaleServed, Reset, IsOpen, daemonVars
  <2>2. \A r \in StreamIds : Flow(r)'
    BY <1>3, <2>1, FlowHostThreads DEF FlowInv
  <2> QED BY <1>1, <2>1, <2>2 DEF FlowInv
<1>4. CASE Authenticate
  <2>1. /\ UNCHANGED <<stream, dev_auth>>
        /\ Pipe' = Pipe \/ \E m \in Message : m.cmd # "OKAY" /\ Pipe' = Append(Pipe, m)
    BY <1>4, PipeAuthenticate
  <2>2. UNCHANGED <<usb_in, rx_pc, rx_msg>>
    BY <1>4 DEF Authenticate, SendConnect, FirstAnswer, SendSignature, SecondAnswer, OfferKey,
       PutHeader, PutPayload, Take
  <2>3. StaleServed'
    BY <2>1 DEF FlowInv, StaleServed, Reset, IsOpen
  <2>4. \A r \in StreamIds : Flow(r)'
    BY <2>1, <2>2, FlowPipe DEF FlowInv
  <2> QED BY <1>1, <2>3, <2>4 DEF FlowInv
<1> QED BY <1>2, <1>3, <1>4 DEF AuthNext

(* What a user of the host does: it puts a packet other than an OKAY, or   *)
(* nothing, once the handshake is over.                                    *)
LEMMA FlowUser ==
  ASSUME AuthTypeOK, FlowInv,
         UNCHANGED <<usb_in, rx_pc, rx_msg, stream, dev_auth, auth_pc>>,
         \/ Pipe' = Pipe
         \/ /\ auth_pc = "done"
            /\ \E m \in Message : m.cmd # "OKAY" /\ ~IsHandshake(m) /\ Pipe' = Append(Pipe, m)
  PROVE  FlowInv'
<1>1. HandshakeFirst'
  <2>1. CASE Pipe' = Pipe
    BY <2>1, HandshakeStays DEF FlowInv
  <2>2. ASSUME auth_pc = "done", NEW m \in Message, ~IsHandshake(m), Pipe' = Append(Pipe, m)
        PROVE  HandshakeFirst'
    BY <2>2, HandshakeAppends DEF FlowInv
  <2> QED BY <2>1, <2>2
<1>2. StaleServed'
  BY DEF FlowInv, StaleServed, Reset, IsOpen
<1>3. \A r \in StreamIds : Flow(r)'
  BY FlowPipe DEF FlowInv
<1> QED BY <1>1, <1>2, <1>3 DEF FlowInv

(* adbd's flow control in an earlier session: of a stream of it, at most   *)
(* one WRTE is unread.                                                     *)
OneStaleWrite ==
  \A s \in StaleTraffic : \A r \in StaleIds :
    None(s, WritesOf(r)) \/ Once(s, WritesOf(r))

LEMMA FlowInit ==
  ASSUME AuthInit, OneStaleWrite
  PROVE  FlowInv
<1>0. /\ usb_in \in StaleTraffic /\ usb_in \in Seq(Message) /\ rx_pc = "read" /\ Pipe = <<>>
      /\ Len(Pipe) = 0 /\ AuthTypeOK
      /\ stream = [r \in StreamIds |->
           IF r \in StaleIds /\ UnreadWrites(r) # {}
             THEN StaleStream(usb_in[CHOOSE i \in UnreadWrites(r) : TRUE])
             ELSE NoStream]
  BY AuthInitType, DaemonAssumption DEF AuthInit, ProtocolInit, DaemonInit, Pipe
<1>1. \A i \in 1..Len(usb_in) : usb_in[i] \in Message
  BY <1>0, ElementOfSeq
<1>2. \A r \in RemoteIds : stream[r] = NoStream /\ r \notin StaleIds /\ None(usb_in, WritesOf(r))
  <2> TAKE r \in RemoteIds
  <2>1. r \notin StaleIds /\ r \in StreamIds
    BY ProtocolAssumption DEF StreamIds
  <2>2. \A i \in 1..Len(usb_in) : IsHandshake(usb_in[i]) \/ usb_in[i].arg0 \in StaleIds
    BY <1>0, DaemonAssumption
  <2> QED BY <1>0, <2>1, <2>2 DEF None, WritesOf, IsHandshake
<1>3. HandshakeFirst
  <2>1. \A i \in 1..Len(Pipe) : FALSE
    BY <1>0
  <2>2. NoneAfterOpen(Pipe) /\ \A m \in Inside(Pipe) : FALSE
    BY <2>1 DEF NoneAfterOpen, Inside
  <2>3. ~Used
    BY <1>2 DEF Used, NoStream
  <2> QED BY <2>2, <2>3 DEF HandshakeFirst
<1>4. StaleServed
  <2>1. CASE usb_in = <<>>
    <3>1. \A r \in StreamIds : UnreadWrites(r) = {}
      BY <2>1 DEF UnreadWrites
    <3> QED BY <1>0, <3>1 DEF StaleServed, Reset, IsOpen, NoStream, StreamIds
  <2>2. CASE usb_in # <<>> /\ usb_in[Len(usb_in)].cmd = "AUTH"
    <3>1. Len(usb_in) \in 1..Len(usb_in)
      BY <1>0, <2>2, EmptySeq, LenProperties
    <3>2. StaleHandshake # {}
      BY <2>2, <3>1 DEF StaleHandshake, IsHandshake
    <3>3. \A r \in StaleIds : stream[r].st \in {"none", "closed"}
      BY <1>0, <3>2 DEF StaleStream, NewStream, NoStream, StreamIds
    <3> QED BY <3>3 DEF StaleServed, Reset, IsOpen
  <2>3. CASE usb_in # <<>> /\ usb_in[Len(usb_in)].cmd # "AUTH"
    BY <2>3 DEF AuthInit, DaemonInit, StaleServed
  <2> QED BY <2>1, <2>2, <2>3
<1>5. ASSUME NEW r \in StreamIds PROVE Flow(r)
  <2>1. ~HeldWrite(r) /\ None(Pipe, AcksOf(r)) /\ \A m \in Inside(Pipe) : FALSE
    BY <1>0 DEF HeldWrite, None, Inside
  <2>2. CASE None(usb_in, WritesOf(r))
    <3>1. UnreadWrites(r) = {}
      BY <1>1, <2>2 DEF UnreadWrites, None, WritesOf
    <3>2. stream[r].st = "none"
      BY <1>0, <3>1 DEF NoStream
    <3> QED BY <2>1, <2>2, <3>2 DEF Flow, Quiet, ToPeer, None, Inside
  <2>3. CASE ~None(usb_in, WritesOf(r))
    <3>1. r \in StaleIds /\ Once(usb_in, WritesOf(r))
      BY <1>0, <1>2, <2>3 DEF OneStaleWrite, StreamIds
    <3>2. PICK i \in 1..Len(usb_in) :
            usb_in[i] \in WritesOf(r) /\ \A j \in 1..Len(usb_in) : usb_in[j] \in WritesOf(r) => j = i
      BY <3>1 DEF Once
    <3>3. UnreadWrites(r) = {i}
      BY <1>1, <3>2 DEF UnreadWrites, WritesOf
    <3>4. (CHOOSE j \in UnreadWrites(r) : TRUE) = i
      BY <3>3
    <3>5. stream[r].peer = usb_in[i].arg1 /\ stream[r].st \in {"waitack", "closed"}
      BY <1>0, <3>1, <3>3, <3>4 DEF StaleStream, NewStream
    <3>6. ToPeer(r)
      BY <2>1, <3>2, <3>5 DEF ToPeer, Inside
    <3>7. OnItsWay(r)
      BY <2>1, <3>1 DEF OnItsWay
    <3> QED BY <3>5, <3>6, <3>7 DEF Flow
  <2> QED BY <2>2, <2>3
<1> QED BY <1>3, <1>4, <1>5 DEF FlowInv
=============================================================================
