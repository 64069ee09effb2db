---------------------------- MODULE UsbPrograms ----------------------------
(***************************************************************************)
(* Programs that share a USB bus: one opens devices with UsbHandle from    *)
(* several threads, another has a DevicePool, and devices are unplugged    *)
(* and plugged in again meanwhile.                                         *)
(***************************************************************************)
EXTENDS UsbHandle, DevicePool

vars == <<busVars, handleVars, poolVars>>

Init == BusInit /\ HandleInit /\ PoolInit

Next ==
  \/ \E h \in Handles : (Thread(h) \/ Program(h)) /\ UNCHANGED poolVars
  \/ RefreshDevices /\ UNCHANGED handleVars
  \/ \E p \in Ports :
       /\ Unplug(p) \/ PlugIn(p)
       /\ Disturbs(p)
       /\ UNCHANGED <<pc, port, born, ptr, obj, cache, lock, error, late, poolVars>>

Spec == Init /\ [][Next]_vars

(* A thread in a call goes on, once the lock it may wait for is free.      *)
FairSpec ==
  /\ Spec
  /\ \A h \in Handles : WF_vars(Thread(h) /\ UNCHANGED poolVars)

-----------------------------------------------------------------------------
(* Type correctness of the bus, the handles and the pool.                  *)
TypeOK == BusTypeOK /\ HandleTypeOK /\ PoolTypeOK

(* "Make sure we close any previous handle open to this usb device" (the   *)
(* comment in Open): the next Open can find the handle that has to be      *)
(* closed, in the cache, whichever way the threads are interleaved.  Only  *)
(* a handle that registers when its device has been unplugged, and another *)
(* opened in its place, hides the one that has the interface.              *)
OpenIsCached ==
  \A h \in Handles : \A p \in Ports :
    claim[p] = h /\ pc[h] # "register" =>
      \/ cache[p] = h
      \/ \E g \in late : port[g] = p /\ born[g] < born[h]

(* FindAndOpen raises only when there is a reason: another program has the *)
(* interface, there is no device, or another call of the program or the    *)
(* unplugging of the device came in between.  A handle that is still open, *)
(* was dropped, or whose owner got an exception is no reason (Close,       *)
(* Lookup, and the weak references of the cache), until a handle has       *)
(* registered when its device had been unplugged: it hides the one that    *)
(* has the interface.                                                      *)
OpenAloneSucceeds ==
  \A h \in Handles :
    pc[h] = "failed" /\ alone[h] =>
      error[h] \in {"not found", "pool"} \/ late # {}

(* FindAndOpen, a transfer and Close return or raise, though another       *)
(* thread closes the handle under them: no thread keeps the lock and the   *)
(* flush is not deceived by a closed handle.                               *)
CallsEnd == \A h \in Handles : InCall(h) ~> ~InCall(h)
=============================================================================
