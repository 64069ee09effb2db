----------------------------- MODULE AdbMessage -----------------------------
(***************************************************************************)
(* The packet layer of adb/adb_protocol.py (AdbMessage and _AdbConnection) *)
(* on a single host thread, where every stream has the local id 1, and the *)
(* daemon, which is external and also that of MyAdb.                       *)
(*                                                                         *)
(* A packet with data is two USB transfers, its header and its payload.    *)
(* Reading an unexpected packet takes the header only, so that its payload *)
(* is taken for the next header.                                           *)
(***************************************************************************)
EXTENDS Naturals, Sequences

CONSTANTS
  RemoteIds,       \* ids adbd may give to streams
  MaxChunks,       \* bound: WRTE packets adbd sends on one stream
  ExtraClose       \* whether adbd answers CLSE on a stream it has closed

ASSUME MessageAssumption ==
  /\ RemoteIds \subseteq Nat \ {0}
  /\ MaxChunks \in Nat
  /\ ExtraClose \in BOOLEAN

VARIABLES
  out,             \* packets written by the host, not yet read by adbd
  inp,             \* transfers written by adbd, not yet read by the host
  stream           \* adbd's record of each stream

wireVars == <<out, inp, stream>>

-----------------------------------------------------------------------------
LocalId == 1
Data == Nat \X Nat
NoData == <<0, 0>>
Packet == [cmd : {"OPEN", "OKAY", "CLSE", "WRTE"}, arg0 : Nat, arg1 : Nat, data : Data]
Transfer == [kind : {"header", "payload"}, packet : Packet]

Pkt(cmd, arg0, arg1, data) ==
  [cmd |-> cmd, arg0 |-> arg0, arg1 |-> arg1, data |-> data]

Header(p) == [kind |-> "header", packet |-> p]
Transfers(p) ==
  IF p.data = NoData THEN <<Header(p)>>
  ELSE <<Header(p), [kind |-> "payload", packet |-> p]>>

-----------------------------------------------------------------------------
(* AdbMessage.Send; nobody else writes to the device meanwhile.            *)
Send(p) == out' = Append(out, p)

(* AdbMessage.Read(expected) takes transfers until one is the header of an *)
(* expected packet, and then its payload.  Reads(expected) holds in the    *)
(* step that returns Incoming, Skips in one that goes round the loop, and  *)
(* Misreads in one that unpacks a payload, which raises, or skips it when  *)
(* it is as long as a header.                                              *)
Incoming == Head(inp).packet
IsHeader == inp # <<>> /\ Head(inp).kind = "header"

Reads(expected) ==
  /\ IsHeader
  /\ Incoming.cmd \in expected
  /\ inp' = SubSeq(inp, Len(Transfers(Incoming)) + 1, Len(inp))

Skips(expected) ==
  /\ IsHeader
  /\ Incoming.cmd \notin expected
  /\ inp' = Tail(inp)

Misreads ==
  /\ inp # <<>>
  /\ Head(inp).kind = "payload"
  /\ inp' = Tail(inp)

(* The header of an expected packet, whose payload does not come in time.  *)
HalfReads(expected) ==
  /\ IsHeader
  /\ Incoming.cmd \in expected /\ Incoming.data # NoData
  /\ inp' = Tail(inp)

(* _AdbConnection.ReadUntil raises when the ids are not those of the       *)
(* connection (0 stands for any), before it acknowledges a WRTE.           *)
(* Mutant of Matches: the remote id is not compared.                       *)
MatchesLocal(remote) == remote \in Nat /\ Incoming.arg1 \in {0, LocalId}
Matches(remote) == Incoming.arg1 \in {0, LocalId} /\ Incoming.arg0 \in {0, remote}

Okay(remote) == Pkt("OKAY", LocalId, remote, NoData)
Close(remote) == Pkt("CLSE", LocalId, remote, NoData)

(* Mutant of AckIfWrite: a WRTE is acknowledged twice.                     *)
AckIfWriteTwice(remote) ==
  IF Incoming.cmd = "WRTE" THEN out' = out \o <<Okay(remote), Okay(remote)>>
  ELSE UNCHANGED out

AckIfWrite(remote) ==
  IF Incoming.cmd = "WRTE" THEN Send(Okay(remote)) ELSE UNCHANGED out

-----------------------------------------------------------------------------
(* adbd.  DevTakes(reply) reads one packet and writes the packets reply.   *)
Stream == [st : {"none", "ready", "waitack", "closed"},
           peer : Nat, service : Data, sent : Nat, got : Seq(Data)]
NoStream == [st |-> "none", peer |-> 0, service |-> NoData, sent |-> 0, got |-> <<>>]
IsOpen(r) == stream[r].st \in {"ready", "waitack"}

Frame == Head(out)
Receives(cmd) == out # <<>> /\ Frame.cmd = cmd
DevWrites(p) == inp' = inp \o Transfers(p)

NextRemoteId(r) ==
  /\ r \in RemoteIds
  /\ stream[r].st = "none"
  /\ \A q \in RemoteIds : stream[q].st = "none" => r <= q

DevOpen ==
  /\ Receives("OPEN")
  /\ out' = Tail(out)
  /\ \/ \E r \in RemoteIds :
          /\ NextRemoteId(r)
          /\ stream' = [stream EXCEPT ![r] =
               [st |-> "ready", peer |-> Frame.arg0, service |-> Frame.data,
                sent |-> 0, got |-> <<>>]]
          /\ DevWrites(Pkt("OKAY", r, Frame.arg0, NoData))
     \/ /\ DevWrites(Pkt("CLSE", 0, Frame.arg0, NoData))
        /\ UNCHANGED stream

DevAck ==
  /\ Receives("OKAY")
  /\ out' = Tail(out)
  /\ stream' = IF stream[Frame.arg1].st = "waitack"
                 THEN [stream EXCEPT ![Frame.arg1].st = "ready"] ELSE stream
  /\ UNCHANGED inp

DevHostWrite ==
  /\ Receives("WRTE")
  /\ out' = Tail(out)
  /\ IF IsOpen(Frame.arg1)
       THEN /\ stream' = [stream EXCEPT ![Frame.arg1].got = Append(@, Frame.data)]
            /\ DevWrites(Pkt("OKAY", Frame.arg1, Frame.arg0, NoData))
       ELSE UNCHANGED <<stream, inp>>

(* A host's CLSE ends the stream; "some devices" answer once more when it  *)
(* has ended already (the comment in Open).                                *)
DevCloseRequest ==
  /\ Receives("CLSE")
  /\ out' = Tail(out)
  /\ stream' = IF IsOpen(Frame.arg1)
                 THEN [stream EXCEPT ![Frame.arg1].st = "closed"] ELSE stream
  /\ IF IsOpen(Frame.arg1) \/ ExtraClose
       THEN DevWrites(Pkt("CLSE", Frame.arg1, Frame.arg0, NoData))
       ELSE UNCHANGED inp

DevStreamWrite(r) ==
  /\ stream[r].st = "ready"
  /\ stream[r].sent < MaxChunks
  /\ DevWrites(Pkt("WRTE", r, stream[r].peer, <<r, stream[r].sent + 1>>))
  /\ stream' = [stream EXCEPT ![r].st = "waitack", ![r].sent = @ + 1]
  /\ UNCHANGED out

DevStreamEnd(r) ==
  /\ IsOpen(r)
  /\ DevWrites(Pkt("CLSE", r, stream[r].peer, NoData))
  /\ stream' = [stream EXCEPT ![r].st = "closed"]
  /\ UNCHANGED out

DevPacket ==
  \/ DevOpen
  \/ DevAck
  \/ DevHostWrite
  \/ DevCloseRequest

(* Nothing is under way, and nothing will be until the host sends.         *)
Quiet == out = <<>> /\ inp = <<>> /\ \A r \in RemoteIds : ~IsOpen(r)

-----------------------------------------------------------------------------
(* FindAndOpen flushes the pipe (adb/common.py), and the CNXN that follows *)
(* ends every stream of an earlier host.                                   *)
WireInit ==
  /\ out = <<>>
  /\ inp = <<>>
  /\ stream = [r \in RemoteIds |-> NoStream]

WireTypeOK ==
  /\ out \in Seq(Packet)
  /\ inp \in Seq(Transfer)
  /\ stream \in [RemoteIds -> Stream]
=============================================================================
