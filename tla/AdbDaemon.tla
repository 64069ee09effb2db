----------------------------- MODULE AdbDaemon -----------------------------
(***************************************************************************)
(* adbd, the program at the device's end of the USB pipe.  It is external: *)
(* the repository only shows it through what libadb sends to it and        *)
(* expects of it (device.py, connection.py) and the protocol notes in      *)
(* adb/adb_protocol.py.  Streams are keyed by the id adbd gives them.      *)
(*                                                                         *)
(* An earlier host process may have died with streams open, frames unread  *)
(* or a handshake half done: StaleTraffic holds the contents the USB pipe  *)
(* may have when this process starts (handle.py leaves flush commented     *)
(* out).                                                                   *)
(***************************************************************************)
EXTENDS AdbProtocol, FiniteSets

CONSTANTS
  MaxChunks,       \* bound: WRTE packets adbd sends on one stream
  AuthRequired,    \* whether adbd asks for a signature
  KeyTrusted,      \* whether adbd knows the host's key
  StaleTraffic     \* the possible initial contents of usb_in

VARIABLES
  stream,          \* adbd's record of each stream
  dev_auth,        \* "offline", "challenged" or "online"
  dev_token        \* number of the last AUTH token adbd has made

daemonVars == <<stream, dev_auth, dev_token>>

Stream == [st : {"none", "ready", "waitack", "closed"},
           peer : Nat, service : Data, sent : Nat, got : Seq(Data)]
NoStream ==
  [st |-> "none", peer |-> 0, service |-> NoData, sent |-> 0, got |-> <<>>]
NewStream(st, peer, service, sent) ==
  [st |-> st, peer |-> peer, service |-> service, sent |-> sent, got |-> <<>>]
IsOpen(r) == stream[r].st \in {"ready", "waitack"}

(* What an earlier process can have left: frames of its streams, then      *)
(* replies to its handshake, since adbd drops all streams at a CNXN.       *)
ASSUME DaemonAssumption ==
  /\ MaxChunks \in Nat
  /\ AuthRequired \in BOOLEAN
  /\ KeyTrusted \in BOOLEAN
  /\ StaleTraffic \subseteq Seq(Message)
  /\ \A s \in StaleTraffic : \A i \in 1..Len(s) :
        \/ IsHandshake(s[i])
        \/ /\ s[i].arg0 \in StaleIds
           /\ \A j \in 1..i : ~IsHandshake(s[j])

-----------------------------------------------------------------------------
Receives(cmd) == FrameReady /\ Frame.cmd = cmd

Connected == Msg("CNXN", 1, 0, NoData)
Challenge(n) == Msg("AUTH", 1, 0, <<0, n>>)

DevConnect ==
  /\ Receives("CNXN")
  /\ stream' = [r \in StreamIds |->
                  IF IsOpen(r) THEN [stream[r] EXCEPT !.st = "closed"] ELSE stream[r]]
  /\ IF AuthRequired
       THEN /\ DevReads(<<Challenge(dev_token + 1)>>)
            /\ dev_token' = dev_token + 1
            /\ dev_auth' = "challenged"
       ELSE /\ DevReads(<<Connected>>)
            /\ dev_auth' = "online"
            /\ UNCHANGED dev_token

(* AUTH with a signature: accepted if it signs the last token with a key   *)
(* adbd knows, otherwise a new token is sent.                              *)
GoodSignature(m) == KeyTrusted /\ m.data = <<0, dev_token>>

DevSignature ==
  /\ Receives("AUTH")
  /\ Frame.arg0 = 2
  /\ IF GoodSignature(Frame)
       THEN /\ DevReads(<<Connected>>)
            /\ dev_auth' = "online"
            /\ UNCHANGED dev_token
       ELSE /\ DevReads(<<Challenge(dev_token + 1)>>)
            /\ dev_token' = dev_token + 1
            /\ dev_auth' = "challenged"
  /\ UNCHANGED stream

(* AUTH with a public key: the user of the device may accept it.           *)
DevPublicKey ==
  /\ Receives("AUTH")
  /\ Frame.arg0 = 3
  /\ \/ DevReads(<<Connected>>) /\ dev_auth' = "online"
     \/ DevReads(<<>>) /\ UNCHANGED dev_auth
  /\ UNCHANGED <<stream, dev_token>>

(* OPEN: the next unused id, or CLSE with 0 when the service is refused.   *)
NextRemoteId(r) ==
  /\ r \in RemoteIds
  /\ stream[r].st = "none"
  /\ \A q \in RemoteIds : stream[q].st = "none" => r <= q

DevOpen ==
  /\ Receives("OPEN")
  /\ dev_auth = "online"
  /\ \/ \E r \in RemoteIds :
          /\ NextRemoteId(r)
          /\ stream' = [stream EXCEPT ![r] =
                         NewStream("ready", Frame.arg0, Frame.data, 0)]
          /\ DevReads(<<Msg("OKAY", r, Frame.arg0, NoData)>>)
     \/ /\ DevReads(<<Msg("CLSE", 0, Frame.arg0, NoData)>>)
        /\ UNCHANGED stream
  /\ UNCHANGED <<dev_auth, dev_token>>

(* OKAY lets the stream send its next WRTE; CLSE ends it and is answered.  *)
Addressed == Frame.arg1 \in StreamIds /\ stream[Frame.arg1].peer = Frame.arg0

DevAck ==
  /\ Receives("OKAY")
  /\ dev_auth = "online"
  /\ DevReads(<<>>)
  /\ stream' = IF Addressed /\ stream[Frame.arg1].st = "waitack"
                 THEN [stream EXCEPT ![Frame.arg1].st = "ready"] ELSE stream
  /\ UNCHANGED <<dev_auth, dev_token>>

DevCloseRequest ==
  /\ Receives("CLSE")
  /\ dev_auth = "online"
  /\ IF Addressed /\ IsOpen(Frame.arg1)
       THEN /\ stream' = [stream EXCEPT ![Frame.arg1].st = "closed"]
            /\ DevReads(<<Msg("CLSE", Frame.arg1, Frame.arg0, NoData)>>)
       ELSE /\ DevReads(<<>>)
            /\ UNCHANGED stream
  /\ UNCHANGED <<dev_auth, dev_token>>

(* WRTE from the host: adbd hands the data to the service and says OKAY.   *)
DevHostWrite ==
  /\ Receives("WRTE")
  /\ dev_auth = "online"
  /\ IF Addressed /\ IsOpen(Frame.arg1)
       THEN /\ stream' = [stream EXCEPT ![Frame.arg1].got = Append(@, Frame.data)]
            /\ DevReads(<<Msg("OKAY", Frame.arg1, Frame.arg0, NoData)>>)
       ELSE /\ DevReads(<<>>)
            /\ UNCHANGED stream
  /\ UNCHANGED <<dev_auth, dev_token>>

(* A packet of a stream while the connection is not authenticated.         *)
DevIgnore ==
  /\ FrameReady
  /\ Frame.cmd \in {"OPEN", "OKAY", "CLSE", "WRTE"}
  /\ dev_auth # "online"
  /\ DevReads(<<>>)
  /\ UNCHANGED daemonVars

(* A service writes: one WRTE, then nothing until its OKAY.  It may end at *)
(* any time, also right after a WRTE.                                      *)
DevStreamWrite(r) ==
  /\ stream[r].st = "ready"
  /\ stream[r].sent < MaxChunks
  /\ DevWrites(Msg("WRTE", r, stream[r].peer, <<r, stream[r].sent + 1>>))
  /\ stream' = [stream EXCEPT ![r].st = "waitack", ![r].sent = @ + 1]
  /\ UNCHANGED <<dev_auth, dev_token>>

DevStreamEnd(r) ==
  /\ IsOpen(r)
  /\ DevWrites(Msg("CLSE", r, stream[r].peer, NoData))
  /\ stream' = [stream EXCEPT ![r].st = "closed"]
  /\ UNCHANGED <<dev_auth, dev_token>>

DevPacket ==
  \/ DevConnect
  \/ DevSignature
  \/ DevPublicKey
  \/ DevOpen
  \/ DevAck
  \/ DevCloseRequest
  \/ DevHostWrite
  \/ DevIgnore
  \/ DevGarbled /\ UNCHANGED daemonVars

Daemon ==
  \/ DevPacket
  \/ \E r \in StreamIds : DevStreamWrite(r) \/ DevStreamEnd(r)

-----------------------------------------------------------------------------
(* Where a WRTE of stream r, and the OKAY it is answered with, can be.     *)
UnreadWrites(r) == {i \in 1..Len(usb_in) : usb_in[i].cmd = "WRTE" /\ usb_in[i].arg0 = r}
HeldWrite(r) == rx_pc = "ack" /\ rx_msg.arg0 = r
UnreadAcks(r) == {i \in 1..Len(Pipe) : Pipe[i].cmd = "OKAY" /\ Pipe[i].arg1 = r}

(* An earlier process left open the streams with an unread WRTE, unless    *)
(* its successor already began a handshake.                                *)
StaleHandshake == {i \in 1..Len(usb_in) : IsHandshake(usb_in[i])}
StaleTokens == {i \in 1..Len(usb_in) : usb_in[i].cmd = "AUTH"}

StaleStream(w) ==
  NewStream(IF StaleHandshake = {} THEN "waitack" ELSE "closed", w.arg1, NoData, w.data[2])

DaemonInit ==
  /\ usb_in \in StaleTraffic
  /\ stream = [r \in StreamIds |->
       IF r \in StaleIds /\ UnreadWrites(r) # {}
         THEN StaleStream(usb_in[CHOOSE i \in UnreadWrites(r) : TRUE])
         ELSE NoStream]
  /\ dev_auth \in IF usb_in = <<>> THEN {"offline", "online"}
                  ELSE IF usb_in[Len(usb_in)].cmd = "AUTH" THEN {"challenged"}
                  ELSE {"online"}
  /\ dev_token = Cardinality(StaleTokens)

DaemonTypeOK ==
  /\ stream \in [StreamIds -> Stream]
  /\ dev_auth \in {"offline", "challenged", "online"}
  /\ dev_token \in Nat
=============================================================================
