----------------------------- MODULE UsbHandle -----------------------------
(***************************************************************************)
(* UsbHandle of adb/common.py: FindAndOpen, the cache of handles by port,  *)
(* the calls that use a handle, and Close.                                 *)
(*                                                                         *)
(* Every object is made by one FindAndOpen and belongs to the thread that  *)
(* called it; a thread closes the object of another when Open finds it in  *)
(* the cache.  The cache holds weak references, so that the entry of an    *)
(* object goes with the object.                                            *)
(***************************************************************************)
EXTENDS UsbBus

CONSTANT Matched     \* the ports whose devices the callers of Find ask for

ASSUME MatchedAssumption == Matched \subseteq Ports /\ Matched # {}

VARIABLES
  pc,              \* where the thread of each object stands
  port,            \* the port of its device
  born,            \* and which device at that port it is
  ptr,             \* whether self._handle is not None
  obj,             \* the object whose Close() the thread is in
  cache,           \* _HANDLE_CACHE
  lock,            \* who has _HANDLE_CACHE_LOCK
  error,           \* why FindAndOpen raised
  alone,           \* whether it overlapped no other call and no unplugging
  late             \* objects registered after their device was unplugged

handleVars == <<pc, port, born, ptr, obj, cache, lock, error, alone, late>>

Pc == {"idle", "lookup", "release", "libclose", "clear", "claim", "register",
       "flush", "flush_read", "open", "done", "failed"}
Errors == {"none", "not found", "busy", "pool", "io", "attribute"}
InCall(h) == pc[h] \notin {"idle", "open", "done", "failed"}

(* Two calls of FindAndOpen or Close that overlap are neither of them      *)
(* alone.                                                                  *)
Begins(h) ==
  alone' = [g \in Handles |-> IF g = h THEN \A f \in Handles : ~InCall(f)
                                       ELSE alone[g] /\ ~InCall(g)]
Goto(h, to) == pc' = [pc EXCEPT ![h] = to]
At(h, label) == pc[h] = label
Raise(h, what) == Goto(h, "failed") /\ error' = [error EXCEPT ![h] = what]

-----------------------------------------------------------------------------
(* Find yields an object for a device on the bus, or raises.               *)
FindAndOpen(h) ==
  /\ At(h, "idle")
  /\ Begins(h)
  /\ \/ \E p \in Matched :
          /\ present[p]
          /\ port' = [port EXCEPT ![h] = p]
          /\ born' = [born EXCEPT ![h] = plugs[p]]
          /\ Goto(h, "lookup")
          /\ UNCHANGED error
     \/ /\ \A p \in Matched : ~present[p]
        /\ Raise(h, "not found")
        /\ UNCHANGED <<port, born>>
  /\ UNCHANGED <<busVars, ptr, obj, cache, lock, late>>

(* Open, under the lock: an old handle for the port is closed, unless its  *)
(* _handle is None already.                                                *)
Lookup(h) ==
  /\ At(h, "lookup")
  /\ lock = Nobody
  /\ LET old == cache[port[h]] IN
       IF old # Nobody /\ ptr[old]
         THEN /\ Goto(h, "release")
              /\ lock' = h
              /\ obj' = [obj EXCEPT ![h] = old]
         ELSE Goto(h, "claim") /\ UNCHANGED <<lock, obj>>
  /\ UNCHANGED <<busVars, port, born, ptr, cache, error, alone, late>>

(* Close, called by Open on an old handle or by the owner of an object     *)
(* (AdbCommands.Close).  self._handle is loaded anew for each call: when   *)
(* another thread has set it to None meanwhile, AttributeError is raised,  *)
(* which only USBError is caught to prevent.                               *)
Close(h) ==
  /\ At(h, "open")
  /\ Begins(h)
  /\ IF ptr[h] THEN Goto(h, "release") /\ obj' = [obj EXCEPT ![h] = h]
               ELSE Goto(h, "done") /\ UNCHANGED obj
  /\ UNCHANGED <<busVars, port, born, ptr, cache, lock, error, late>>

Opening(h) == obj[h] # h

LeaveClose(h, next) ==
  /\ ptr' = [ptr EXCEPT ![obj[h]] = FALSE]
  /\ obj' = [obj EXCEPT ![h] = Nobody]
  /\ lock' = IF Opening(h) THEN Nobody ELSE lock
  /\ IF ~Opening(h) THEN Goto(h, "done") /\ UNCHANGED error
     ELSE IF next = "raise" THEN Raise(h, "attribute")
     ELSE Goto(h, next) /\ UNCHANGED error

CloseRaises(h) ==
  /\ pc[h] \in {"release", "libclose"}
  /\ ~ptr[obj[h]]
  /\ LeaveClose(h, "raise")
  /\ UNCHANGED <<busVars, port, born, cache, alone, late>>

(* releaseInterface raises USBError, which is caught, when the interface   *)
(* is not claimed by this handle any more: then close() is left out.       *)
(* Mutant of Release: it is always left out, and nothing is released.      *)
ReleaseNothing(h) ==
  /\ At(h, "release")
  /\ ptr[obj[h]]
  /\ Goto(h, "clear")
  /\ UNCHANGED <<busVars, port, born, ptr, obj, cache, lock, error, alone, late>>

Release(h) ==
  /\ At(h, "release")
  /\ ptr[obj[h]]
  /\ Goto(h, IF claim[port[obj[h]]] = obj[h] THEN "libclose" ELSE "clear")
  /\ Releases(port[obj[h]], obj[h])
  /\ UNCHANGED <<replugs, plugs, present, pipe, port, born, ptr, obj, cache, lock, error, alone, late>>

LibClose(h) ==
  /\ At(h, "libclose")
  /\ ptr[obj[h]]
  /\ Goto(h, "clear")
  /\ UNCHANGED <<busVars, port, born, ptr, obj, cache, lock, error, alone, late>>

Clear(h) ==
  /\ At(h, "clear")
  /\ LeaveClose(h, "claim")
  /\ UNCHANGED <<busVars, port, born, cache, alone, late>>

-----------------------------------------------------------------------------
(* Open, outside the lock: open, claimInterface and self._handle = handle. *)
Claim(h) ==
  /\ At(h, "claim")
  /\ \/ /\ Claims(port[h], born[h], h)
        /\ Goto(h, "register")
        /\ ptr' = [ptr EXCEPT ![h] = TRUE]
        /\ UNCHANGED error
     \/ /\ ~(Usable(port[h], born[h]) /\ claim[port[h]] = Nobody)
        /\ Raise(h, CASE ~Usable(port[h], born[h]) -> "io"
                      [] claim[port[h]] = Pool -> "pool"
                      [] OTHER -> "busy")
        /\ UNCHANGED <<claim, ptr>>
  /\ UNCHANGED <<replugs, plugs, present, pipe, port, born, obj, cache, lock, alone, late>>

(* Mutant of Register: a handle that is in the cache stays there.          *)
RegisterFirst(h) ==
  /\ At(h, "register")
  /\ lock = Nobody
  /\ cache' = IF cache[port[h]] = Nobody THEN [cache EXCEPT ![port[h]] = h] ELSE cache
  /\ Goto(h, "flush")
  /\ late' = IF Usable(port[h], born[h]) THEN late ELSE late \cup {h}
  /\ UNCHANGED <<busVars, port, born, ptr, obj, lock, error, alone>>

Register(h) ==
  /\ At(h, "register")
  /\ lock = Nobody
  /\ cache' = [cache EXCEPT ![port[h]] = h]
  /\ Goto(h, "flush")
  /\ late' = IF Usable(port[h], born[h]) THEN late ELSE late \cup {h}
  /\ UNCHANGED <<busVars, port, born, ptr, obj, lock, error, alone>>

(* FlushBuffers: BulkRead until it times out.  When self._handle is None   *)
(* the ReadFailedError has no usb_error, and its .value raises             *)
(* AttributeError, as does a handle set to None after the check.           *)
FlushCheck(h) ==
  /\ At(h, "flush")
  /\ IF ptr[h] THEN Goto(h, "flush_read") /\ UNCHANGED error ELSE Raise(h, "attribute")
  /\ UNCHANGED <<busVars, port, born, ptr, obj, cache, lock, alone, late>>

(* Mutant of FlushRead: every error is taken for more to be read.          *)
FlushReadAgain(h) ==
  /\ At(h, "flush_read")
  /\ pipe' = [pipe EXCEPT ![port[h]] = IF @ > 0 THEN @ - 1 ELSE 0]
  /\ IF ptr[h] /\ claim[port[h]] = h /\ pipe[port[h]] = 0
       THEN Goto(h, "open") ELSE pc' = [pc EXCEPT ![h] = "flush_read"]
  /\ UNCHANGED <<replugs, plugs, present, claim, port, born, ptr, obj, cache, lock, error, alone, late>>

FlushRead(h) ==
  /\ At(h, "flush_read")
  /\ IF ~ptr[h] THEN Raise(h, "attribute") /\ UNCHANGED pipe
     ELSE IF claim[port[h]] # h THEN Raise(h, "io") /\ UNCHANGED pipe
     ELSE IF pipe[port[h]] > 0
       THEN Goto(h, "flush") /\ pipe' = [pipe EXCEPT ![port[h]] = @ - 1] /\ UNCHANGED error
       ELSE Goto(h, "open") /\ UNCHANGED <<pipe, error>>
  /\ UNCHANGED <<replugs, plugs, present, claim, port, born, ptr, obj, cache, lock, alone, late>>

-----------------------------------------------------------------------------
(* BulkRead and BulkWrite on an open handle; the device may write while it *)
(* is talked to.  When the handle is closed before the check of            *)
(* self._handle, after it or during the transfer, an exception is the      *)
(* caller's (a UsbError, AttributeError or USBError), who still has the    *)
(* object: nothing changes.                                                *)
Use(h) ==
  /\ At(h, "open")
  /\ claim[port[h]] = h
  /\ \E n \in 0..MaxPackets : pipe' = [pipe EXCEPT ![port[h]] = n]
  /\ UNCHANGED <<replugs, plugs, present, claim, handleVars>>

(* The last reference to an object goes when its owner drops it and no     *)
(* Open has it in hand: its cache entry disappears, and libusb closes its  *)
(* device handle.                                                          *)
Collect(h) ==
  /\ pc[h] \in {"open", "done", "failed"}
  /\ \/ ptr[h]
     \/ \E p \in Ports : cache[p] = h
  /\ \A g \in Handles : obj[g] # h
  /\ Goto(h, IF At(h, "open") THEN "done" ELSE pc[h])
  /\ Releases(port[h], h)
  /\ ptr' = [ptr EXCEPT ![h] = FALSE]
  /\ cache' = [p \in Ports |-> IF cache[p] = h THEN Nobody ELSE cache[p]]
  /\ UNCHANGED <<replugs, plugs, present, pipe, port, born, obj, lock, error, alone, late>>

(* A device is unplugged while calls are under way: none of them is alone. *)
Disturbs(p) ==
  alone' = [h \in Handles |-> alone[h] /\ ~(InCall(h) /\ port[h] = p)]

-----------------------------------------------------------------------------
Thread(h) ==
  \/ Lookup(h)
  \/ Release(h)
  \/ LibClose(h)
  \/ CloseRaises(h)
  \/ Clear(h)
  \/ Claim(h)
  \/ Register(h)
  \/ FlushCheck(h)
  \/ FlushRead(h)

Program(h) ==
  \/ FindAndOpen(h)
  \/ Use(h)
  \/ Close(h)
  \/ Collect(h)

HandleInit ==
  /\ pc = [h \in Handles |-> "idle"]
  /\ port = [h \in Handles |-> CHOOSE p \in Matched : TRUE]
  /\ born = [h \in Handles |-> 0]
  /\ ptr = [h \in Handles |-> FALSE]
  /\ obj = [h \in Handles |-> Nobody]
  /\ cache = [p \in Ports |-> Nobody]
  /\ lock = Nobody
  /\ error = [h \in Handles |-> "none"]
  /\ alone = [h \in Handles |-> FALSE]
  /\ late = {}

HandleTypeOK ==
  /\ pc \in [Handles -> Pc]
  /\ port \in [Handles -> Ports]
  /\ born \in [Handles -> Nat]
  /\ ptr \in [Handles -> BOOLEAN]
  /\ obj \in [Handles -> Handles \cup {Nobody}]
  /\ cache \in [Ports -> Handles \cup {Nobody}]
  /\ lock \in Handles \cup {Nobody}
  /\ error \in [Handles -> Errors]
  /\ alone \in [Handles -> BOOLEAN]
  /\ late \subseteq Handles
=============================================================================
