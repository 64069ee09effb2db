--------------------------- MODULE ForwardServer ---------------------------
(***************************************************************************)
(* TCP forwarding (libadb/forward_server.py): AndroidDevice.forward starts *)
(* a ProxyServer thread per forwarded port, which starts a Worker thread   *)
(* per accepted client.  All workers share the device's multiplexer.       *)
(*                                                                         *)
(* Each member of Workers is one client connection with its Worker;        *)
(* Server[w] is the server (and so the remote port) it connects to.  The   *)
(* clients are external: they may send at any time or shut their side of   *)
(* the connection down, and they may or may not read.                      *)
(***************************************************************************)
EXTENDS AdbAuth

CONSTANTS
  Workers,         \* client connections, numbered
  Servers,         \* forwarded ports, numbered
  Server,          \* the server each connection is made to
  ClientChunks     \* bound: chunks a client sends

ASSUME ForwardAssumption ==
  /\ Workers \subseteq Nat
  /\ Servers \subseteq Nat
  /\ Server \in [Workers -> Servers]
  /\ ClientChunks \in Nat

VARIABLES
  base,            \* ProxyServer._base
  fpc,             \* where Worker.run stands
  wid,             \* Worker._local_id
  rid,             \* Worker._remote_id, 0 for its initial -1
  sent,            \* how many chunks have been received from the client
  eof,             \* whether the client has shut its side down
  chunk,           \* the data the worker holds
  out              \* what the client has been given

workerVars == <<base, fpc, wid, rid, chunk>>
clientVars == <<sent, eof>>
forwardVars == <<workerVars, clientVars, out>>
vars == <<AuthVars, forwardVars>>

FPc == {"idle", "select", "open", "open_data", "await", "write", "write_data",
        "receive", "out", "dead"}
At(w, label) == fpc[w] = label
Step(w, from, to) == At(w, from) /\ fpc' = [fpc EXCEPT ![w] = to]

-----------------------------------------------------------------------------
(* Mutant of Accept: every worker of a server gets its first id.           *)
AcceptSameId(w) ==
  /\ auth_pc = "done"
  /\ Step(w, "idle", "select")
  /\ wid' = [wid EXCEPT ![w] = base[Server[w]] + 2]
  /\ UNCHANGED <<AuthVars, base, rid, chunk, clientVars, out>>

(* ProxyServer.run: accept, new_id (every server counts from 11), start.   *)
Accept(w) ==
  /\ auth_pc = "done"
  /\ Step(w, "idle", "select")
  /\ base[Server[w]] + 2 \in LocalIds
  /\ base' = [base EXCEPT ![Server[w]] = @ + 2]
  /\ wid' = [wid EXCEPT ![w] = base[Server[w]] + 2]
  /\ UNCHANGED <<AuthVars, rid, chunk, clientVars, out>>

(* Worker.run, the input half: select for 0.1 s, recv, and on the first    *)
(* data create_connection.  After recv the data is sent with WRTE.         *)
SelectTimeout(w) ==
  /\ Step(w, "select", "receive")
  /\ ~eof[w]
  /\ UNCHANGED <<AuthVars, base, wid, rid, chunk, clientVars, out>>

RecvData(w) ==
  /\ ~eof[w]
  /\ sent[w] < ClientChunks
  /\ sent' = [sent EXCEPT ![w] = @ + 1]
  /\ chunk' = [chunk EXCEPT ![w] = <<w, sent[w] + 1>>]
  /\ Step(w, "select", IF rid[w] = 0 THEN "open" ELSE "write")
  /\ UNCHANGED <<AuthVars, base, wid, rid, eof, out>>

(* Mutant of RecvEof: the empty data of a closed socket is sent too.       *)
RecvEofSent(w) ==
  /\ Step(w, "select", "write")
  /\ eof' = [eof EXCEPT ![w] = TRUE]
  /\ UNCHANGED <<AuthVars, base, wid, rid, chunk, sent, out>>

(* A closed socket is readable, and recv returns no data.                  *)
RecvEof(w) ==
  /\ Step(w, "select", "receive")
  /\ eof' = [eof EXCEPT ![w] = TRUE]
  /\ UNCHANGED <<AuthVars, base, wid, rid, chunk, sent, out>>

(* recv raises when the client has reset the connection: the exception     *)
(* ends the thread.  Nobody takes the worker's queue out of receive_queue. *)
RecvError(w) ==
  /\ Step(w, "select", "dead")
  /\ UNCHANGED <<AuthVars, base, wid, rid, chunk, clientVars, out>>

(* create_connection: _clear_cache clears a list nothing is ever put in,   *)
(* then OPEN, then the first response with this local id, whatever it is.  *)
OpenMsg(w) == Msg("OPEN", wid[w], 0, <<Server[w], 0>>)

SendOpen(w) ==
  /\ Step(w, "open", "open_data")
  /\ PutHeader(OpenMsg(w))
  /\ UNCHANGED <<daemonVars, authVars, base, wid, rid, chunk, clientVars, out>>

SendOpenPayload(w) ==
  /\ Step(w, "open_data", "await")
  /\ PutPayload(OpenMsg(w))
  /\ UNCHANGED <<daemonVars, authVars, base, wid, rid, chunk, clientVars, out>>

OpenAnswer(w) ==
  /\ Take(wid[w])
  /\ rid' = [rid EXCEPT ![w] = Response(wid[w]).arg0]
  /\ Step(w, "await", IF Response(wid[w]).cmd = "OKAY" THEN "write" ELSE "dead")
  /\ UNCHANGED <<daemonVars, authVars, base, wid, chunk, clientVars, out>>

WriteMsg(w) == Msg("WRTE", wid[w], rid[w], chunk[w])

SendWrite(w) ==
  /\ Step(w, "write", "write_data")
  /\ PutHeader(WriteMsg(w))
  /\ UNCHANGED <<daemonVars, authVars, base, wid, rid, chunk, clientVars, out>>

SendWritePayload(w) ==
  /\ Step(w, "write_data", "receive")
  /\ PutPayload(WriteMsg(w))
  /\ chunk' = [chunk EXCEPT ![w] = NoData]
  /\ UNCHANGED <<daemonVars, authVars, base, wid, rid, clientVars, out>>

(* The output half: a response is waited for without end.  While no OPEN   *)
(* has made the queue, receive_queue.get(local_id) is None and its get     *)
(* raises AttributeError, which ends the thread.                           *)
ReceiveNoQueue(w) ==
  /\ Step(w, "receive", "dead")
  /\ wid[w] \notin opened
  /\ UNCHANGED <<AuthVars, base, wid, rid, chunk, clientVars, out>>

(* Mutant of Receive: every response is data for the client.               *)
ReceiveAnyCommand(w) ==
  /\ Step(w, "receive", "out")
  /\ wid[w] \in opened
  /\ Take(wid[w])
  /\ chunk' = [chunk EXCEPT ![w] = Response(wid[w]).data]
  /\ UNCHANGED <<daemonVars, authVars, base, wid, rid, clientVars, out>>

Receive(w) ==
  /\ At(w, "receive")
  /\ wid[w] \in opened
  /\ Take(wid[w])
  /\ LET m == Response(wid[w]) IN
       IF rid[w] = 0 \/ ~Expected(m, wid[w], rid[w])
         THEN UNCHANGED <<fpc, chunk>>
         ELSE IF m.cmd = "WRTE"
           THEN Step(w, "receive", "out") /\ chunk' = [chunk EXCEPT ![w] = m.data]
           ELSE Step(w, "receive", "select") /\ UNCHANGED chunk
  /\ UNCHANGED <<daemonVars, authVars, base, wid, rid, clientVars, out>>

(* The client's socket takes the data, or is not writable within 0.1 s,    *)
(* and then the data is dropped.                                           *)
SendOut(w) ==
  /\ Step(w, "out", "select")
  /\ chunk' = [chunk EXCEPT ![w] = NoData]
  /\ out' = [out EXCEPT ![w] = Append(@, chunk[w])]
  /\ UNCHANGED <<AuthVars, base, wid, rid, clientVars>>

DropOut(w) ==
  /\ Step(w, "out", "select")
  /\ chunk' = [chunk EXCEPT ![w] = NoData]
  /\ UNCHANGED <<AuthVars, base, wid, rid, clientVars, out>>

(* sendall raises, and ends the thread, when the client has gone; it may   *)
(* have had the data by then.                                              *)
SendError(w) ==
  /\ Step(w, "out", "dead")
  /\ chunk' = [chunk EXCEPT ![w] = NoData]
  /\ out' \in {out, [out EXCEPT ![w] = Append(@, chunk[w])]}
  /\ UNCHANGED <<AuthVars, base, wid, rid, clientVars>>

Worker(w) ==
  \/ SelectTimeout(w)
  \/ RecvData(w)
  \/ RecvEof(w)
  \/ RecvError(w)
  \/ SendOpen(w)
  \/ SendOpenPayload(w)
  \/ OpenAnswer(w)
  \/ SendWrite(w)
  \/ SendWritePayload(w)
  \/ ReceiveNoQueue(w)
  \/ Receive(w)
  \/ SendOut(w)
  \/ DropOut(w)
  \/ SendError(w)

-----------------------------------------------------------------------------
Init ==
  /\ AuthInit
  /\ base = [s \in Servers |-> 11]
  /\ fpc = [w \in Workers |-> "idle"]
  /\ wid = [w \in Workers |-> 0]
  /\ rid = [w \in Workers |-> 0]
  /\ sent = [w \in Workers |-> 0]
  /\ eof = [w \in Workers |-> FALSE]
  /\ chunk = [w \in Workers |-> NoData]
  /\ out = [w \in Workers |-> <<>>]

Next ==
  \/ AuthNext /\ UNCHANGED forwardVars
  \/ \E w \in Workers : Accept(w) \/ Worker(w)

Spec == Init /\ [][Next]_vars

(* Every thread that can run does run, and adbd reads its packets.         *)
Fairness ==
  /\ WF_vars(SendLoop /\ UNCHANGED <<daemonVars, authVars, forwardVars>>)
  /\ WF_vars(ReceiveLoop /\ UNCHANGED <<daemonVars, authVars, forwardVars>>)
  /\ WF_vars(DevPacket /\ UNCHANGED <<authVars, forwardVars>>)
  /\ WF_vars(Authenticate /\ UNCHANGED forwardVars)
  /\ \A w \in Workers : WF_vars(Worker(w))

FairSpec == Spec /\ Fairness

-----------------------------------------------------------------------------
(* Type correctness of the servers, their workers and what they use.       *)
TypeOK ==
  /\ AuthTypeOK
  /\ base \in [Servers -> LocalIds \cup {11}]
  /\ fpc \in [Workers -> FPc]
  /\ wid \in [Workers -> LocalIds \cup {0}]
  /\ rid \in [Workers -> StreamIds \cup {0}]
  /\ sent \in [Workers -> 0..ClientChunks]
  /\ eof \in [Workers -> BOOLEAN]
  /\ chunk \in [Workers -> Data]
  /\ out \in [Workers -> Seq(Data)]

HasStream(w) == rid[w] # 0 /\ fpc[w] # "dead"

(* A client is connected to the port it asked for: the stream a worker     *)
(* writes to was opened for its server's port and by this worker's id      *)
(* (create_connection taking the answer to its own OPEN).                  *)
OwnStream ==
  \A w \in Workers : HasStream(w) =>
    /\ stream[rid[w]].service = <<Server[w], 0>>
    /\ \A v \in Workers \ {w} : rid[v] # rid[w]

(* What the service has received is a prefix of what the client has sent:  *)
(* other workers, and the acknowledgements of the receive thread, may      *)
(* break the packet stream but never put other data into this one.         *)
InputInOrder ==
  \A w \in Workers : HasStream(w) =>
    LET got == stream[rid[w]].got IN
      /\ Len(got) <= sent[w]
      /\ got = [i \in 1..Len(got) |-> <<w, i>>]

(* What a client is given comes from its own stream and in order, though   *)
(* pieces may be missing (DropOut).                                        *)
OutputInOrder ==
  \A w \in Workers : \A i \in 1..Len(out[w]) :
    /\ out[w][i][1] = rid[w]
    /\ i > 1 => out[w][i - 1][2] < out[w][i][2]

(* "Clear the responses of local_id, they have expired" (protocol.py, the  *)
(* docstring of _clear_cache, which create_connection calls first): what   *)
(* create_connection takes as the answer to its OPEN is that answer.       *)
NoExpiredAnswer ==
  \A w \in Workers : HasStream(w) => stream[rid[w]].service = <<Server[w], 0>>
=============================================================================
