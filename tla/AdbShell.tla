----------------------------- MODULE AdbShell ------------------------------
(***************************************************************************)
(* Shell commands over the multiplexer: AndroidDevice.shell and new_id     *)
(* (libadb/device.py), BasicConnection and its task (libadb/connection.py) *)
(* and adb.shell (libadb/adb.py).                                          *)
(*                                                                         *)
(* Each member of Shells is one call of adb.shell.  Thread[c] is the user  *)
(* thread that makes the call c; a thread makes one call after another.    *)
(* A Blocking call (block=True) lasts until the output is returned, any    *)
(* other until the connection object is returned, and the connection is    *)
(* then used, and may be closed, while other calls run.                    *)
(***************************************************************************)
EXTENDS AdbAuth

CONSTANTS
  Shells,          \* the calls of shell(), numbered
  Thread,          \* the user thread of each call
  Blocking         \* the calls with adb.shell's parameter block

ASSUME ShellAssumption ==
  /\ Shells \subseteq Nat
  /\ DOMAIN Thread = Shells
  /\ Blocking \subseteq Shells

VARIABLES
  base_id,         \* self._base_id
  loaded,          \* the value a thread has loaded in "+= 2"
  pc,              \* where the call stands
  local_id,        \* its local_id, 0 before
  remote_id,       \* its remote_id, 0 before
  task,            \* the main_loop thread of the connection
  hand,            \* the response the task is about to put
  queue,           \* BasicConnection.queue
  result           \* what output() has returned so far, chunk by chunk

callVars == <<base_id, loaded, pc, local_id, remote_id>>
taskVars == <<task, hand>>
shellVars == <<callVars, taskVars, queue, result>>
vars == <<AuthVars, shellVars>>

NoChunk == NoData

Pc == {"idle", "store", "return", "open", "open_data", "await", "refused",
       "connected", "closed", "returned"}
InCall == {"store", "return", "open", "open_data", "await"}

(* The user thread of c is not inside another call, so that it can make    *)
(* this one, or use the connection this one has returned.                  *)
ThreadFree(c) ==
  \A d \in Shells \ {c} : Thread[d] = Thread[c] =>
    /\ pc[d] \notin InCall
    /\ d \in Blocking => pc[d] # "connected"

-----------------------------------------------------------------------------
(* new_id: "self._base_id += 2" loads and stores, "return self._base_id"   *)
(* loads again; another thread may run between any two of them.            *)
(* Bound: ids are given out as long as LocalIds has them.                  *)

CallShell(c) ==
  /\ pc[c] = "idle"
  /\ auth_pc = "done"
  /\ ThreadFree(c)
  /\ base_id + 2 \in LocalIds
  /\ loaded' = [loaded EXCEPT ![c] = base_id]
  /\ pc' = [pc EXCEPT ![c] = "store"]
  /\ UNCHANGED <<AuthVars, base_id, local_id, remote_id, taskVars, queue, result>>

StoreId(c) ==
  /\ pc[c] = "store"
  /\ base_id' = loaded[c] + 2
  /\ pc' = [pc EXCEPT ![c] = "return"]
  /\ UNCHANGED <<AuthVars, loaded, local_id, remote_id, taskVars, queue, result>>

ReturnId(c) ==
  /\ pc[c] = "return"
  /\ local_id' = [local_id EXCEPT ![c] = base_id]
  /\ pc' = [pc EXCEPT ![c] = "open"]
  /\ UNCHANGED <<AuthVars, base_id, loaded, remote_id, taskVars, queue, result>>

(* shell: send OPEN with the command of this call, then take the first     *)
(* response of this id, whatever it is; OKAY makes a connection and starts *)
(* its task.                                                               *)
Command(c) == <<c, 0>>
OpenMsg(c) == Msg("OPEN", local_id[c], 0, Command(c))

SendOpen(c) ==
  /\ pc[c] = "open"
  /\ PutHeader(OpenMsg(c))
  /\ pc' = [pc EXCEPT ![c] = "open_data"]
  /\ UNCHANGED <<daemonVars, authVars, base_id, loaded, local_id, remote_id,
                 taskVars, queue, result>>

SendOpenPayload(c) ==
  /\ pc[c] = "open_data"
  /\ PutPayload(OpenMsg(c))
  /\ pc' = [pc EXCEPT ![c] = "await"]
  /\ UNCHANGED <<daemonVars, authVars, base_id, loaded, local_id, remote_id,
                 taskVars, queue, result>>

OpenAnswer(c) ==
  /\ pc[c] = "await"
  /\ Take(local_id[c])
  /\ IF Response(local_id[c]).cmd = "OKAY"
       THEN /\ pc' = [pc EXCEPT ![c] = "connected"]
            /\ remote_id' = [remote_id EXCEPT ![c] = Response(local_id[c]).arg0]
            /\ task' = [task EXCEPT ![c] = "receive"]
       ELSE /\ pc' = [pc EXCEPT ![c] = "refused"]
            /\ UNCHANGED <<remote_id, task>>
  /\ UNCHANGED <<daemonVars, authVars, base_id, loaded, local_id, hand, queue, result>>

-----------------------------------------------------------------------------
(* Mutant of TaskReceive: CLSE is an output like another.                  *)
TaskReceiveNoClose(c) ==
  /\ task[c] = "receive"
  /\ Take(local_id[c])
  /\ task' = [task EXCEPT ![c] = "put"]
  /\ hand' = [hand EXCEPT ![c] = Response(local_id[c]).data]
  /\ UNCHANGED <<daemonVars, authVars, callVars, queue, result>>

(* BasicConnection.main_loop: an unexpected response is dropped, CLSE ends *)
(* the thread (and is not answered), anything else is put into the queue.  *)
TaskReceive(c) ==
  /\ task[c] = "receive"
  /\ Take(local_id[c])
  /\ LET m == Response(local_id[c]) IN
       IF ~Expected(m, local_id[c], remote_id[c])
         THEN UNCHANGED <<task, hand>>
         ELSE IF m.cmd = "CLSE"
           THEN task' = [task EXCEPT ![c] = "ended"] /\ UNCHANGED hand
           ELSE /\ task' = [task EXCEPT ![c] = "put"]
                /\ hand' = [hand EXCEPT ![c] = m.data]
  /\ UNCHANGED <<daemonVars, authVars, callVars, queue, result>>

(* Mutant of TaskPut: put(data, block=False) with Full ignored.            *)
TaskPutOrDrop(c) ==
  /\ task[c] = "put"
  /\ queue' = IF Len(queue[c]) < QueueCap
       THEN [queue EXCEPT ![c] = Append(@, hand[c])] ELSE queue
  /\ hand' = [hand EXCEPT ![c] = NoChunk]
  /\ task' = [task EXCEPT ![c] = "receive"]
  /\ UNCHANGED <<AuthVars, callVars, result>>

TaskPut(c) ==
  /\ task[c] = "put"
  /\ Len(queue[c]) < QueueCap
  /\ queue' = [queue EXCEPT ![c] = Append(@, hand[c])]
  /\ hand' = [hand EXCEPT ![c] = NoChunk]
  /\ task' = [task EXCEPT ![c] = "receive"]
  /\ UNCHANGED <<AuthVars, callVars, result>>

-----------------------------------------------------------------------------
(* output(): one get(block=False) of its loop.  adb.shell(block=True) only *)
(* calls it after wait(), when the task has ended.                         *)
Output(c) ==
  /\ pc[c] \in {"connected", "closed"}
  /\ ThreadFree(c)
  /\ c \in Blocking => task[c] = "ended"
  /\ queue[c] # <<>>
  /\ queue' = [queue EXCEPT ![c] = Tail(@)]
  /\ result' = [result EXCEPT ![c] = Append(@, Head(queue[c]))]
  /\ UNCHANGED <<AuthVars, callVars, taskVars>>

(* Mutant of ReturnOutput: adb.shell does not wait() first.                *)
ReturnOutputNoWait(c) ==
  /\ c \in Blocking
  /\ pc[c] = "connected"
  /\ queue[c] = <<>>
  /\ pc' = [pc EXCEPT ![c] = "returned"]
  /\ UNCHANGED <<AuthVars, base_id, loaded, local_id, remote_id, taskVars, queue, result>>

ReturnOutput(c) ==
  /\ c \in Blocking
  /\ pc[c] = "connected"
  /\ task[c] = "ended"
  /\ queue[c] = <<>>
  /\ pc' = [pc EXCEPT ![c] = "returned"]
  /\ UNCHANGED <<AuthVars, base_id, loaded, local_id, remote_id, taskVars, queue, result>>

(* close(), only reachable with the connection object (block=False).       *)
Close(c) ==
  /\ c \notin Blocking
  /\ pc[c] = "connected"
  /\ ThreadFree(c)
  /\ PutHeader(Msg("CLSE", local_id[c], remote_id[c], NoData))
  /\ pc' = [pc EXCEPT ![c] = "closed"]
  /\ UNCHANGED <<daemonVars, authVars, base_id, loaded, local_id, remote_id,
                 taskVars, queue, result>>

Call(c) ==
  \/ CallShell(c)
  \/ StoreId(c)
  \/ ReturnId(c)
  \/ SendOpen(c)
  \/ SendOpenPayload(c)
  \/ OpenAnswer(c)
  \/ ReturnOutput(c)

Task(c) == TaskReceive(c) \/ TaskPut(c)

(* What the user thread does: the call, and then with its connection.      *)
Use(c) == Call(c) \/ Output(c) \/ Close(c)

-----------------------------------------------------------------------------
Init ==
  /\ AuthInit
  /\ base_id = 10
  /\ loaded = [c \in Shells |-> 0]
  /\ pc = [c \in Shells |-> "idle"]
  /\ local_id = [c \in Shells |-> 0]
  /\ remote_id = [c \in Shells |-> 0]
  /\ task = [c \in Shells |-> "none"]
  /\ hand = [c \in Shells |-> NoChunk]
  /\ queue = [c \in Shells |-> <<>>]
  /\ result = [c \in Shells |-> <<>>]

Next ==
  \/ AuthNext /\ UNCHANGED shellVars
  \/ \E c \in Shells : Use(c) \/ Task(c)

Spec == Init /\ [][Next]_vars

(* Type correctness of the calls, their connections and what they use.     *)
TypeOK ==
  /\ AuthTypeOK
  /\ base_id \in LocalIds \cup {10}
  /\ loaded \in [Shells -> LocalIds \cup {0, 10}]
  /\ pc \in [Shells -> Pc]
  /\ local_id \in [Shells -> LocalIds \cup {0}]
  /\ remote_id \in [Shells -> Nat]
  /\ task \in [Shells -> {"none", "receive", "put", "ended"}]
  /\ hand \in [Shells -> Data]
  /\ queue \in [Shells -> Seq(Data)]
  /\ result \in [Shells -> Seq(Data)]

-----------------------------------------------------------------------------
(* Everything the host has taken from the queue of c, in order: what       *)
(* output() returned, what it will return, what the task is about to put.  *)
Got(c) == result[c] \o queue[c] \o (IF task[c] = "put" THEN <<hand[c]>> ELSE <<>>)
Chunks(r, n) == [i \in 1..n |-> <<r, i>>]

(* The connection that shell() returns is to the stream that adbd has      *)
(* opened for its own command, although it takes the first response that   *)
(* carries its id, whatever it answers, and the _clear_cache it calls      *)
(* before clears nothing.  It holds as long as no two calls get one id     *)
(* from new_id, which two threads may.                                     *)
OwnCommand ==
  \A c \in Shells : remote_id[c] # 0 => stream[remote_id[c]].service = Command(c)

(* Frames of an earlier host process never reach a shell, though new_id    *)
(* starts from 12 in every process (shell() takes the first response that  *)
(* carries its id, and main_loop only filters later ones).                 *)
StaleNeverDelivered ==
  \A k \in LocalIds : \A i \in 1..Len(receive_queue[k]) :
    receive_queue[k][i].arg0 \notin StaleIds

(* Flow control: while adbd waits for the OKAY of a WRTE there is exactly  *)
(* one such WRTE or OKAY under way, and none otherwise (_atom_receive      *)
(* acknowledges every WRTE it reads, once).                                *)
UnderWay(r) ==
  Cardinality(UnreadWrites(r)) + (IF HeldWrite(r) THEN 1 ELSE 0) + Cardinality(UnreadAcks(r))
OneWriteUnderWay ==
  ~WireFails => \A r \in StreamIds :
    /\ stream[r].st = "waitack" => UnderWay(r) = 1
    /\ stream[r].st = "closed" => UnderWay(r) <= 1
    /\ stream[r].st \in {"none", "ready"} => UnderWay(r) = 0

(* "Nothing else may be read in between, for example a WRTE is followed by *)
(* its data" (the comment of _atom_receive): every header with a payload   *)
(* is followed by its payload on the way to the device.                    *)
FramesContiguous ==
  \A i \in 1..Len(Pipe) :
    /\ HasPayload(Pipe[i]) /\ i < Len(Pipe) => Pipe[i + 1] = Payload(Pipe[i])
    /\ Pipe[i].cmd = "DATA" => i > 1 /\ Pipe[i] = Payload(Pipe[i - 1])

(* A blocking call does not end when its service writes more than the      *)
(* queue of its connection holds: wait() then waits for a task that waits  *)
(* for room in a queue nobody reads until wait() returns.                  *)
Stuck(c) == task[c] = "put" /\ Len(queue[c]) = QueueCap /\ Len(Got(c)) > QueueCap

(* The calls implement ReliableOutput: what is got is what the task has    *)
(* taken, and a reader is told the end when its task has ended (main_loop  *)
(* having seen CLSE), so that wait() followed by output() returns all of   *)
(* what the service wrote.                                                 *)
Reliable == INSTANCE ReliableOutput WITH
  Readers <- Shells,
  Streams <- StreamIds,
  written <- [r \in StreamIds |-> stream[r].sent],
  ended <- {r \in StreamIds : stream[r].st = "closed"},
  source <- remote_id,
  got <- [c \in Shells |-> Got(c)],
  complete <- {c \in Shells : task[c] = "ended"}

OutputIsReliable == Reliable!Spec
=============================================================================
