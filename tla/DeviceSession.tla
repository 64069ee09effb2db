--------------------------- MODULE DeviceSession ---------------------------
(***************************************************************************)
(* One program that uses a device through libadb/adb.py: it pushes files   *)
(* with push(), each of which goes on in the thread of its PushConnection, *)
(* and runs commands with shell() meanwhile.  The calls of AdbShell and    *)
(* the pushes of PushSession are made by one thread, over one multiplexer, *)
(* one daemon and one counter of ids.                                      *)
(***************************************************************************)
EXTENDS PushSession

shellOnlyVars == <<loaded, pc, local_id, remote_id, taskVars, queue, result>>
sessionVars == <<AuthVars, shellVars, pushVars>>

-----------------------------------------------------------------------------
(* The thread makes one call at a time: it is in a blocking shell() until  *)
(* wait() and output() have returned, in a blocking push() until the file  *)
(* is pushed, and in any other until it has a connection object.           *)
InShell == \E c \in Shells : pc[c] \in InCall \/ (c \in Blocking /\ pc[c] = "connected")
InPush == \E p \in Pushes : PushUnderWay(p)

Starts(p) == ppc[p] = "idle"
PushStep(p) == (InShell => ~Starts(p)) /\ Push(p) /\ UNCHANGED shellOnlyVars
ShellStep(c) ==
  /\ Task(c) \/ (~InPush /\ Use(c))
  /\ UNCHANGED pushVars

(* adbd runs the sync service on the streams that pushes have opened, and  *)
(* a shell on the others.                                                  *)
IsSync(r) == \E p \in Pushes : pid[p] = stream[r].peer

DeviceService(r) ==
  IF IsSync(r) THEN SyncService(r) \/ DevStreamEnd(r)
               ELSE DevStreamWrite(r) \/ DevStreamEnd(r)

Connection ==
  \/ HostThreads /\ UNCHANGED <<daemonVars, authVars>>
  \/ DevPacket /\ UNCHANGED authVars
  \/ Authenticate

SessionInit == Init /\ PushInit

SessionNext ==
  \/ Connection /\ UNCHANGED <<shellVars, pushVars>>
  \/ \E r \in StreamIds : DeviceService(r) /\ UNCHANGED <<authVars, shellVars, pushVars>>
  \/ \E p \in Pushes : PushStep(p)
  \/ \E c \in Shells : ShellStep(c)

SessionSpec == SessionInit /\ [][SessionNext]_sessionVars

(* Every thread that can run does run (Queue.put and Queue.get wake their  *)
(* waiters), adbd reads its packets, a shell ends some day, and the sync   *)
(* service answers each record and ends after QUIT.  A program need not    *)
(* call anything, nor read the output of a connection it holds.            *)
SessionFairness ==
  /\ WF_sessionVars(SendLoop /\ UNCHANGED <<daemonVars, authVars, shellVars, pushVars>>)
  /\ WF_sessionVars(ReceiveLoop /\ UNCHANGED <<daemonVars, authVars, shellVars, pushVars>>)
  /\ WF_sessionVars(DevPacket /\ UNCHANGED <<authVars, shellVars, pushVars>>)
  /\ WF_sessionVars(Authenticate /\ UNCHANGED <<shellVars, pushVars>>)
  /\ \A r \in StreamIds :
       WF_sessionVars(/\ IF IsSync(r) THEN SyncOkay(r) \/ SyncQuit(r) ELSE DevStreamEnd(r)
                      /\ UNCHANGED <<authVars, shellVars, pushVars>>)
  /\ \A p \in Pushes : WF_sessionVars(~Starts(p) /\ PushStep(p))
  /\ \A c \in Shells :
       /\ WF_sessionVars(/\ pc[c] # "idle" /\ (Call(c) \/ (c \in Blocking /\ Output(c)))
                         /\ ShellStep(c))
       /\ WF_sessionVars(Task(c) /\ UNCHANGED pushVars)

FairSessionSpec == SessionSpec /\ SessionFairness

-----------------------------------------------------------------------------
(* The one way in which the two may stop each other: a shell whose output  *)
(* is larger than the queue of its connection fills that, then its receive *)
(* queue, and the receive thread waits (connection.py, main_loop; wait).   *)
Clogged == \E c \in Shells : Stuck(c)

(* Every call comes to an end although another is under way: a shell()     *)
(* that has taken its id returns or is refused, and the thread of a push   *)
(* ends or raises, unless a shell is clogged or the packet stream was      *)
(* broken.  (receive and wait have no timeout: nothing else ends a call.)  *)
Working == InShell \/ \E p \in Pushes : ppc[p] \in InPushCall \cup InPushTask
CallsEnd == Working ~> (~Working \/ Clogged \/ ~dev_up)

(* What shell() returns is what its service wrote, all of it and nothing   *)
(* of a push (wait() before output(), and one counter for all ids).        *)
ShellOutputWhole ==
  \A c \in Shells : pc[c] = "returned" =>
    result[c] = Chunks(remote_id[c], stream[remote_id[c]].sent)
=============================================================================
