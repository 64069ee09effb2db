---------------------------- MODULE AdbProtocol ----------------------------
(***************************************************************************)
(* The multiplexer of libadb/protocol.py: one ADBProtocol object per USB   *)
(* device, its two daemon threads (send_loop, receive_loop), its bounded   *)
(* queues, the USB pipe in both directions, and the packet reader of the   *)
(* daemon (adbd) at the far end, which is not part of the repository.      *)
(*                                                                         *)
(* ADBProtocol.send is not atomic: it puts the 24-byte header and the      *)
(* payload into send_queue with two calls.  It is therefore two operators  *)
(* here, PutHeader and PutPayload, and a caller needs a step for each.     *)
(***************************************************************************)
EXTENDS Naturals, Sequences

CONSTANTS
  LocalIds,        \* stream ids the host may give out
  RemoteIds,       \* stream ids adbd may give out in this session
  StaleIds,        \* adbd's ids for streams of an earlier host process
  QueueCap,        \* capacity of every Queue: 10000 in the code
  WireFails        \* whether USB writes may fail and payloads be corrupted

ASSUME ProtocolAssumption ==
  /\ LocalIds \subseteq Nat \ {0}
  /\ RemoteIds \subseteq Nat \ {0}
  /\ StaleIds \subseteq Nat \ {0}
  /\ RemoteIds \cap StaleIds = {}
  /\ QueueCap \in Nat \ {0}
  /\ WireFails \in BOOLEAN

VARIABLES
  send_queue,      \* self.send_queue
  receive_queue,   \* self.receive_queue: the queue of every key
  opened,          \* the keys of self.receive_queue other than "default"
  rx_pc,           \* what the receive_loop thread does next
  rx_msg,          \* the frame it holds
  usb_out,         \* transfers written by the host, not yet read by adbd
  usb_in,          \* frames written by adbd, not yet read by the host
  dev_up           \* FALSE once adbd has seen a broken packet stream

protocolVars == <<send_queue, receive_queue, opened, rx_pc, rx_msg,
                  usb_out, usb_in, dev_up>>

-----------------------------------------------------------------------------
(* Messages.  A payload is a pair <<source, number>>, so that two payloads *)
(* are told apart; Payload(m) is the transfer that follows the header m.   *)

Default == 0       \* the key "default"; no stream has the id 0
StreamIds == RemoteIds \cup StaleIds
Keys == {Default} \cup LocalIds

Data == Nat \X Nat
NoData == <<0, 0>>
Commands == {"CNXN", "AUTH", "OPEN", "OKAY", "CLSE", "WRTE", "DATA"}
Message == [cmd : Commands, arg0 : Nat, arg1 : Nat, data : Data]

Msg(cmd, arg0, arg1, data) ==
  [cmd |-> cmd, arg0 |-> arg0, arg1 |-> arg1, data |-> data]

HasPayload(m) == m.cmd \in {"WRTE", "OPEN", "CNXN", "AUTH"}
(* Mutant of IsHandshake: CNXN is not routed to "default".                  *)
IsHandshakeAuthOnly(m) == m.cmd = "AUTH"
IsHandshake(m) == m.cmd \in {"AUTH", "CNXN"}
Payload(m) == [m EXCEPT !.cmd = "DATA"]
NoMsg == Msg("DATA", 0, 0, NoData)

-----------------------------------------------------------------------------
(* ADBProtocol.send, called from any thread.                               *)

PutHeader(m) ==
  /\ Len(send_queue) < QueueCap
  /\ send_queue' = Append(send_queue, m)
  /\ opened' = IF m.cmd \in {"WRTE", "OPEN"} THEN opened \cup {m.arg0} ELSE opened
  /\ UNCHANGED <<receive_queue, rx_pc, rx_msg, usb_out, usb_in, dev_up>>

PutPayload(m) ==
  /\ Len(send_queue) < QueueCap
  /\ send_queue' = Append(send_queue, Payload(m))
  /\ UNCHANGED <<receive_queue, opened, rx_pc, rx_msg, usb_out, usb_in, dev_up>>

(* ADBProtocol.receive takes the head of one queue, whatever it is; a      *)
(* response that is not expected is dropped and the caller asks again.     *)
(* The timeout parameter is not used.                                      *)
Response(key) == Head(receive_queue[key])

Take(key) ==
  /\ receive_queue[key] # <<>>
  /\ receive_queue' = [receive_queue EXCEPT ![key] = Tail(@)]
  /\ UNCHANGED <<send_queue, opened, rx_pc, rx_msg, usb_out, usb_in, dev_up>>

Expected(m, local_id, remote_id) == m.arg1 = local_id /\ m.arg0 = remote_id

-----------------------------------------------------------------------------
(* The send_loop thread: get, then USBHandle.write, which swallows every   *)
(* error, so that a transfer can be lost without anybody knowing.          *)

SendLoop ==
  /\ send_queue # <<>>
  /\ send_queue' = Tail(send_queue)
  /\ usb_out' = Append(usb_out, Head(send_queue))
  /\ UNCHANGED <<receive_queue, opened, rx_pc, rx_msg, usb_in, dev_up>>

WriteError ==
  /\ WireFails
  /\ send_queue # <<>>
  /\ send_queue' = Tail(send_queue)
  /\ UNCHANGED <<receive_queue, opened, rx_pc, rx_msg, usb_out, usb_in, dev_up>>

-----------------------------------------------------------------------------
(* The receive_loop thread.  _atom_receive acknowledges a WRTE itself,     *)
(* before the frame reaches the queue of its stream.                       *)

ReceiveFrame ==
  /\ rx_pc = "read"
  /\ usb_in # <<>>
  /\ rx_msg' = Head(usb_in)
  /\ usb_in' = Tail(usb_in)
  /\ rx_pc' = IF Head(usb_in).cmd = "WRTE" THEN "ack" ELSE "deliver"
  /\ UNCHANGED <<send_queue, receive_queue, opened, usb_out, dev_up>>

(* A wrong checksum raises in the thread, which ends: nothing is read      *)
(* from this device any more.                                              *)
ChecksumError ==
  /\ WireFails
  /\ rx_pc = "read"
  /\ usb_in # <<>>
  /\ HasPayload(Head(usb_in))
  /\ usb_in' = Tail(usb_in)
  /\ rx_pc' = "dead"
  /\ UNCHANGED <<send_queue, receive_queue, opened, rx_msg, usb_out, dev_up>>

(* Mutant of AckWrite: the two ids are not swapped in the answer.          *)
AckWriteSameIds ==
  /\ rx_pc = "ack"
  /\ Len(send_queue) < QueueCap
  /\ send_queue' = Append(send_queue, Msg("OKAY", rx_msg.arg0, rx_msg.arg1, NoData))
  /\ rx_pc' = "deliver"
  /\ UNCHANGED <<receive_queue, opened, rx_msg, usb_out, usb_in, dev_up>>

AckWrite ==
  /\ rx_pc = "ack"
  /\ Len(send_queue) < QueueCap
  /\ send_queue' = Append(send_queue, Msg("OKAY", rx_msg.arg1, rx_msg.arg0, NoData))
  /\ rx_pc' = "deliver"
  /\ UNCHANGED <<receive_queue, opened, rx_msg, usb_out, usb_in, dev_up>>

KeyOf(m) == IF IsHandshake(m) THEN Default ELSE m.arg1
(* Mutant of HasQueue: a queue is made for whatever id arrives.            *)
HasQueueAlways(m) == m.cmd \in Commands
HasQueue(m) == IsHandshake(m) \/ m.arg1 \in opened

(* put(block=True): the thread, and with it every stream, waits while the  *)
(* queue of this one stream is full.                                       *)
Deliver ==
  /\ rx_pc = "deliver"
  /\ HasQueue(rx_msg)
  /\ Len(receive_queue[KeyOf(rx_msg)]) < QueueCap
  /\ receive_queue' = [receive_queue EXCEPT ![KeyOf(rx_msg)] = Append(@, rx_msg)]
  /\ rx_pc' = "read"
  /\ rx_msg' = NoMsg
  /\ UNCHANGED <<send_queue, opened, usb_out, usb_in, dev_up>>

Discard ==
  /\ rx_pc = "deliver"
  /\ ~HasQueue(rx_msg)
  /\ rx_pc' = "read"
  /\ rx_msg' = NoMsg
  /\ UNCHANGED <<send_queue, receive_queue, opened, usb_out, usb_in, dev_up>>

ReceiveLoop ==
  \/ ReceiveFrame
  \/ AckWrite
  \/ Deliver
  \/ Discard

HostThreads ==
  \/ SendLoop
  \/ WriteError
  \/ ReceiveLoop
  \/ ChecksumError

-----------------------------------------------------------------------------
(* The packet reader of adbd: it reads a header, then exactly the payload  *)
(* the header announces.  DevReads(h, reply) hands the packet h to the     *)
(* daemon, which answers with the frames reply.                            *)

Frame == Head(usb_out)
FrameReady ==
  /\ usb_out # <<>>
  /\ Frame.cmd # "DATA"
  /\ HasPayload(Frame) => Len(usb_out) > 1 /\ usb_out[2] = Payload(Frame)

DevReads(reply) ==
  /\ dev_up
  /\ FrameReady
  /\ usb_out' = IF HasPayload(Frame) THEN Tail(Tail(usb_out)) ELSE Tail(usb_out)
  /\ usb_in' = usb_in \o reply
  /\ UNCHANGED <<send_queue, receive_queue, opened, rx_pc, rx_msg, dev_up>>

DevWrites(m) ==
  /\ dev_up
  /\ usb_in' = Append(usb_in, m)
  /\ UNCHANGED <<send_queue, receive_queue, opened, rx_pc, rx_msg, usb_out, dev_up>>

(* Anything else where a header, or its payload, should be: the transport  *)
(* is closed.                                                              *)
DevGarbled ==
  /\ dev_up
  /\ usb_out # <<>>
  /\ \/ Frame.cmd = "DATA"
     \/ HasPayload(Frame) /\ Len(usb_out) > 1 /\ usb_out[2] # Payload(Frame)
  /\ dev_up' = FALSE
  /\ UNCHANGED <<send_queue, receive_queue, opened, rx_pc, rx_msg, usb_out, usb_in>>

(* All that is on its way to adbd, in the order in which it will come.     *)
Pipe == usb_out \o send_queue

-----------------------------------------------------------------------------
ProtocolInit ==
  /\ send_queue = <<>>
  /\ receive_queue = [k \in Keys |-> <<>>]
  /\ opened = {}
  /\ rx_pc = "read"
  /\ rx_msg = NoMsg
  /\ usb_out = <<>>
  /\ dev_up = TRUE

ProtocolTypeOK ==
  /\ send_queue \in Seq(Message)
  /\ receive_queue \in [Keys -> Seq(Message)]
  /\ opened \subseteq LocalIds
  /\ rx_pc \in {"read", "ack", "deliver", "dead"}
  /\ rx_msg \in Message
  /\ usb_out \in Seq(Message)
  /\ usb_in \in Seq(Message)
  /\ dev_up \in BOOLEAN
=============================================================================
