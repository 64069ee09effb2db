-------------------------- MODULE OpenDeviceProofs --------------------------
(***************************************************************************)
(* Proofs about how a program comes by a device.  FindAndOpen and a pool,  *)
(* on a bus they share: that an open handle is in the cache, where the     *)
(* next Open closes it, and what a DevicePool has claimed, for any number  *)
(* of ports, of threads and of devices plugged in.  And the handshake of   *)
(* adb/ that ConnectDevice makes next, for any number of keys and of       *)
(* attempts: that it returns only to a host adbd serves, and that the      *)
(* public key is only offered when no key works.                           *)
(***************************************************************************)
EXTENDS UsbPrograms, AdbConnect, TLAPS


-----------------------------------------------------------------------------
(* A handle object is Fresh until Open has claimed its interface; Closing  *)
(* is the time its thread spends in a Close, of its own object or of the   *)
(* one that Open has found.                                                *)
Closing(h) == pc[h] \in {"release", "libclose", "clear"}
Fresh(h) == pc[h] \in {"idle", "lookup", "claim"} \/ (Closing(h) /\ obj[h] # h)
Registered(h) == ~Fresh(h) /\ pc[h] # "register"

(* An interface is claimed by a handle of the device that is there.        *)
ClaimIsOfDevice ==
  \A h \in Handles : \A p \in Ports : claim[p] = h =>
    port[h] = p /\ Usable(p, born[h]) /\ ~Fresh(h)

(* What is in the cache, in the hands of a Close, or late, has registered. *)
OnlyRegistered ==
  \A h \in Handles :
    /\ \A p \in Ports : cache[p] = h => Registered(h)
    /\ \A g \in Handles : obj[g] = h => Registered(h)
    /\ h \in late => Registered(h)

ClosingHasObject == \A h \in Handles : Closing(h) => obj[h] \in Handles

(* Nothing but unplugging takes an interface from a handle before it has   *)
(* registered.                                                             *)
RegisteringHasClaim ==
  \A h \in Handles :
    pc[h] = "register" /\ Usable(port[h], born[h]) => claim[port[h]] = h

BornBefore == \A h \in Handles : born[h] <= plugs[port[h]]

HandleInv ==
  /\ BusTypeOK /\ HandleTypeOK
  /\ ClaimIsOfDevice
  /\ OnlyRegistered
  /\ ClosingHasObject
  /\ RegisteringHasClaim
  /\ BornBefore
  /\ OpenIsCached

(* The pool: what a refresh has done with the devices it has looked at,    *)
(* and what is claimed while one of them is being connected.               *)
Connecting(p) == pool_pc = "connect" /\ p = current
ListedBefore ==
  \A p \in Ports :
    /\ listed[p] <= plugs[p] /\ pooled[p] <= plugs[p]
    /\ p \in todo \/ Connecting(p) => listed[p] # 0
ConnectingHasPort == pool_pc = "connect" => current \in Ports
RefreshSoFar ==
  pool_pc # "idle" =>
    \A p \in Ports :
      listed[p] # 0 /\ Usable(p, listed[p]) /\ p \notin todo /\ ~Connecting(p) => Live(p)
ClaimsSoFar ==
  ~raised => \A p \in Ports :
    /\ claim[p] = Pool <=> Live(p) \/ (Connecting(p) /\ Usable(p, listed[p]))
    /\ Connecting(p) => ~Live(p)
NothingPooledYet == ~made /\ ~raised /\ pool_pc = "idle" => pooled = NoDevice

PoolInv ==
  /\ BusTypeOK /\ PoolTypeOK
  /\ ListedBefore
  /\ ConnectingHasPort
  /\ RefreshSoFar
  /\ ClaimsSoFar
  /\ NothingPooledYet
-----------------------------------------------------------------------------
HandleStep(h) == Thread(h) \/ Program(h)
BusStep ==
  \E p \in Ports :
    /\ Unplug(p) \/ PlugIn(p)
    /\ Disturbs(p)
    /\ UNCHANGED <<pc, port, born, ptr, obj, cache, lock, error, late>>

(* alone holds truth values.                                               *)
LEMMA BeginsType ==
  ASSUME HandleTypeOK, NEW h \in Handles, Begins(h)
  PROVE  alone' \in [Handles -> BOOLEAN]
<1>1. \A g \in Handles :
        (IF g = h THEN \A f \in Handles : ~InCall(f)
                  ELSE alone[g] /\ ~InCall(g)) \in BOOLEAN
  BY Zenon
<1>2. QED
  BY <1>1, Zenon DEF Begins

LEMMA DisturbsType ==
  ASSUME HandleTypeOK, NEW p \in Ports, Disturbs(p)
  PROVE  alone' \in [Handles -> BOOLEAN]
<1>1. \A h \in Handles : (alone[h] /\ ~(InCall(h) /\ port[h] = p)) \in BOOLEAN
  BY Zenon
<1>2. QED
  BY <1>1, Zenon DEF Disturbs

(* Each step of a thread of a UsbHandle keeps the types of the bus and of  *)
(* the handles.                                                            *)
LEMMA HandleStepType ==
  ASSUME BusTypeOK, HandleTypeOK, NEW h \in Handles, HandleStep(h)
  PROVE  BusTypeOK' /\ HandleTypeOK'
<1> USE BusAssumption, MatchedAssumption DEF BusTypeOK, HandleTypeOK, busVars, handleVars
<1>1. CASE Lookup(h)
  BY <1>1 DEF Lookup, Goto, At, Pc
<1>2. CASE Release(h)
  BY <1>2 DEF Release, Goto, At, Pc, Releases
<1>3. CASE LibClose(h)
  BY <1>3 DEF LibClose, Goto, At, Pc
<1>4. CASE CloseRaises(h)
  BY <1>4 DEF CloseRaises, LeaveClose, Goto, At, Raise, Opening, Pc, Errors
<1>5. CASE Clear(h)
  BY <1>5 DEF Clear, LeaveClose, Goto, At, Raise, Opening, Pc, Errors
<1>6. CASE Claim(h)
  <2>1. (CASE ~Usable(port[h], born[h]) -> "io"
           [] claim[port[h]] = Pool -> "pool"
           [] OTHER -> "busy") \in Errors
    BY DEF Errors
  <2>2. error' \in [Handles -> Errors]
    BY <1>6, <2>1 DEF Claim, Raise
  <2>3. pc' \in [Handles -> Pc] /\ ptr' \in [Handles -> BOOLEAN]
    BY <1>6 DEF Claim, Goto, Raise, Pc
  <2>4. claim' \in [Ports -> Handles \cup {Pool, Nobody}]
    BY <1>6 DEF Claim, Claims
  <2>5. QED
    BY <1>6, <2>2, <2>3, <2>4 DEF Claim
<1>7. CASE Register(h)
  BY <1>7 DEF Register, Goto, At, Usable, Pc
<1>8. CASE FlushCheck(h)
  BY <1>8 DEF FlushCheck, Goto, At, Raise, Pc, Errors
<1>9. CASE FlushRead(h)
  <2>1. pipe' \in [Ports -> 0..MaxPackets]
    <3>1. port[h] \in Ports /\ pipe[port[h]] \in 0..MaxPackets
      OBVIOUS
    <3>2. pipe[port[h]] > 0 => pipe[port[h]] - 1 \in 0..MaxPackets
      BY <3>1
    <3>3. QED
      BY <1>9, <3>1, <3>2 DEF FlushRead
  <2>2. pc' \in [Handles -> Pc] /\ error' \in [Handles -> Errors]
    BY <1>9, ZenonT(40) DEF FlushRead, Goto, Raise, Pc, Errors
  <2>3. QED
    BY <1>9, <2>1, <2>2 DEF FlushRead
<1>10. CASE FindAndOpen(h)
  <2>1. alone' \in [Handles -> BOOLEAN]
    BY <1>10, BeginsType DEF FindAndOpen
  <2>2. pc' \in [Handles -> Pc] /\ error' \in [Handles -> Errors]
    BY <1>10, ZenonT(40) DEF FindAndOpen, Goto, Raise, Pc, Errors
  <2>3. port' \in [Handles -> Ports] /\ born' \in [Handles -> Nat]
    <3>1. \A p \in Matched : p \in Ports /\ plugs[p] \in Nat
      OBVIOUS
    <3>2. \/ UNCHANGED <<port, born>>
          \/ \E p \in Matched :
               port' = [port EXCEPT ![h] = p] /\ born' = [born EXCEPT ![h] = plugs[p]]
      BY <1>10 DEF FindAndOpen
    <3>3. QED
      BY <3>1, <3>2
  <2>4. QED
    BY <1>10, <2>1, <2>2, <2>3 DEF FindAndOpen
<1>11. CASE Use(h)
  BY <1>11 DEF Use, At
<1>12. CASE Close(h)
  <2>1. alone' \in [Handles -> BOOLEAN]
    BY <1>12, BeginsType DEF Close
  <2>2. pc' \in [Handles -> Pc] /\ obj' \in [Handles -> Handles \cup {Nobody}]
    BY <1>12 DEF Close, Goto, Pc
  <2>3. QED
    BY <1>12, <2>1, <2>2 DEF Close
<1>13. CASE Collect(h)
  BY <1>13 DEF Collect, Goto, At, Releases, Pc
<1>14. QED
  BY <1>1, <1>2, <1>3, <1>4, <1>5, <1>6, <1>7, <1>8, <1>9, <1>10, <1>11, <1>12, <1>13 DEF HandleStep, Thread, Program
(* The same holds of what happens on the bus, and of the pool.             *)
LEMMA BusStepType ==
  ASSUME BusTypeOK, HandleTypeOK, BusStep
  PROVE  BusTypeOK' /\ HandleTypeOK'
<1> USE BusAssumption DEF BusTypeOK, HandleTypeOK
<1>1. PICK p \in Ports :
        /\ Unplug(p) \/ PlugIn(p)
        /\ Disturbs(p)
        /\ UNCHANGED <<pc, port, born, ptr, obj, cache, lock, error, late>>
  BY DEF BusStep
<1>2. HandleTypeOK'
  BY <1>1, DisturbsType
<1>3. CASE Unplug(p)
  BY <1>2, <1>3 DEF Unplug
<1>4. CASE PlugIn(p)
  BY <1>2, <1>4 DEF PlugIn
<1>5. QED
  BY <1>1, <1>3, <1>4

LEMMA PoolStepType ==
  ASSUME BusTypeOK, PoolTypeOK, RefreshDevices
  PROVE  BusTypeOK' /\ PoolTypeOK'
<1> USE BusAssumption DEF BusTypeOK, PoolTypeOK, busVars
<1>1. CASE NewPool
  BY <1>1 DEF NewPool, Enumerate, NoDevice
<1>2. CASE Refresh
  BY <1>2 DEF Refresh, Enumerate
<1>3. CASE ClaimNext
  <2>1. PICK p \in todo :
          IF Usable(p, listed[p]) /\ claim[p] = Nobody
            THEN /\ Claims(p, listed[p], Pool)
                 /\ current' = p
                 /\ pool_pc' = "connect"
                 /\ todo' = todo \ {p}
                 /\ UNCHANGED <<listed, raised>>
            ELSE Leave /\ raised' = TRUE /\ UNCHANGED claim
    BY <1>3 DEF ClaimNext
  <2>2. claim' \in [Ports -> Handles \cup {Pool, Nobody}]
    BY <2>1 DEF Claims
  <2>3. PoolTypeOK'
    <3>1. listed' \in [Ports -> Nat] /\ todo' \subseteq Ports
      BY <2>1 DEF Leave, NoDevice
    <3>2. current' \in Ports \cup {Nobody} /\ raised' \in BOOLEAN
      BY <2>1 DEF Leave
    <3>3. pool_pc' \in {"idle", "scan", "connect"}
      BY <2>1 DEF Leave
    <3>4. QED
      BY <1>3, <3>1, <3>2, <3>3 DEF ClaimNext
  <2>4. QED
    BY <1>3, <2>2, <2>3 DEF ClaimNext
<1>4. CASE Connect
  <2>1. pooled' \in [Ports -> Nat]
    <3>1. CASE pooled' = [pooled EXCEPT ![current] = listed[current]]
      <4>1. \A p \in Ports : pooled'[p] \in Nat
        BY <3>1
      <4>2. QED
        BY <3>1, <4>1
    <3>2. QED
      BY <1>4, <3>1 DEF Connect
  <2>2. listed' \in [Ports -> Nat] /\ todo' \subseteq Ports
    BY <1>4 DEF Connect, Leave, NoDevice
  <2>3. current' \in Ports \cup {Nobody} /\ raised' \in BOOLEAN
    BY <1>4 DEF Connect, Leave
  <2>4. pool_pc' \in {"idle", "scan", "connect"}
    BY <1>4 DEF Connect, Leave
  <2>5. QED
    BY <1>4, <2>1, <2>2, <2>3, <2>4 DEF Connect
<1>5. CASE EndRefresh
  BY <1>5 DEF EndRefresh, Leave, NoDevice
<1>6. QED
  BY <1>1, <1>2, <1>3, <1>4, <1>5 DEF RefreshDevices

(* The initial states are of the types.                                    *)
LEMMA InitType == Init => TypeOK
<1> SUFFICES ASSUME Init PROVE TypeOK
  OBVIOUS
<1> USE BusAssumption, MatchedAssumption
<1>1. BusTypeOK
  BY DEF Init, BusInit, BusTypeOK
<1>2. HandleTypeOK
  <2>1. (CHOOSE p \in Matched : TRUE) \in Ports
    OBVIOUS
  <2>2. QED
    BY <2>1 DEF Init, HandleInit, HandleTypeOK, Pc, Errors
<1>3. PoolTypeOK
  BY DEF Init, PoolInit, PoolTypeOK, NoDevice
<1>4. QED
  BY <1>1, <1>2, <1>3 DEF TypeOK
-----------------------------------------------------------------------------
(* A step of the thread of h changes only what is known of h, and the      *)
(* device of h only while it is idle; a handle that has registered stays   *)
(* so, and none is Fresh again.                                            *)
LEMMA OwnSteps ==
  ASSUME HandleTypeOK, NEW h \in Handles, HandleStep(h)
  PROVE  /\ plugs' = plugs /\ present' = present
         /\ \A g \in Handles : g # h =>
              /\ pc'[g] = pc[g] /\ obj'[g] = obj[g]
              /\ port'[g] = port[g] /\ born'[g] = born[g]
         /\ pc[h] # "idle" => port' = port /\ born' = born
<1> USE DEF HandleTypeOK, busVars, handleVars
<1>1. CASE Lookup(h)
  BY <1>1 DEF Lookup, Goto, At, Raise, LeaveClose
<1>2. CASE Release(h)
  BY <1>2 DEF Release, Goto, At, Raise, LeaveClose
<1>3. CASE LibClose(h)
  BY <1>3 DEF LibClose, Goto, At, Raise, LeaveClose
<1>4. CASE CloseRaises(h)
  BY <1>4 DEF CloseRaises, Goto, At, Raise, LeaveClose
<1>5. CASE Clear(h)
  BY <1>5 DEF Clear, Goto, At, Raise, LeaveClose
<1>6. CASE Claim(h)
  BY <1>6 DEF Claim, Goto, At, Raise, LeaveClose
<1>7. CASE Register(h)
  BY <1>7 DEF Register, Goto, At, Raise, LeaveClose
<1>8. CASE FlushCheck(h)
  BY <1>8 DEF FlushCheck, Goto, At, Raise, LeaveClose
<1>9. CASE FlushRead(h)
  BY <1>9 DEF FlushRead, Goto, At, Raise, LeaveClose
<1>10. CASE FindAndOpen(h)
  BY <1>10 DEF FindAndOpen, Goto, At, Raise, LeaveClose
<1>11. CASE Use(h)
  BY <1>11 DEF Use, Goto, At, Raise, LeaveClose
<1>12. CASE Close(h)
  BY <1>12 DEF Close, Goto, At, Raise, LeaveClose
<1>13. CASE Collect(h)
  BY <1>13 DEF Collect, Goto, At, Raise, LeaveClose
<1>14. QED
  BY <1>1, <1>2, <1>3, <1>4, <1>5, <1>6, <1>7, <1>8, <1>9, <1>10, <1>11, <1>12, <1>13 DEF HandleStep, Thread, Program

LEMMA OwnState ==
  ASSUME HandleTypeOK, NEW h \in Handles, HandleStep(h)
  PROVE  /\ Fresh(h)' => Fresh(h)
         /\ Registered(h) => Registered(h)'
<1> USE DEF HandleTypeOK, busVars, handleVars, Fresh, Registered, Closing
<1>1. CASE Lookup(h)
  BY <1>1 DEF Lookup, Goto, At, Raise, LeaveClose, Opening
<1>2. CASE Release(h)
  BY <1>2 DEF Release, Goto, At, Raise, LeaveClose, Opening
<1>3. CASE LibClose(h)
  BY <1>3 DEF LibClose, Goto, At, Raise, LeaveClose, Opening
<1>4. CASE CloseRaises(h)
  BY <1>4 DEF CloseRaises, Goto, At, Raise, LeaveClose, Opening
<1>5. CASE Clear(h)
  BY <1>5 DEF Clear, Goto, At, Raise, LeaveClose, Opening
<1>6. CASE Claim(h)
  BY <1>6 DEF Claim, Goto, At, Raise, LeaveClose, Opening
<1>7. CASE Register(h)
  BY <1>7 DEF Register, Goto, At, Raise, LeaveClose, Opening
<1>8. CASE FlushCheck(h)
  BY <1>8 DEF FlushCheck, Goto, At, Raise, LeaveClose, Opening
<1>9. CASE FlushRead(h)
  BY <1>9 DEF FlushRead, Goto, At, Raise, LeaveClose, Opening
<1>10. CASE FindAndOpen(h)
  BY <1>10 DEF FindAndOpen, Goto, At, Raise, LeaveClose, Opening
<1>11. CASE Use(h)
  BY <1>11 DEF Use, Goto, At, Raise, LeaveClose, Opening
<1>12. CASE Close(h)
  BY <1>12 DEF Close, Goto, At, Raise, LeaveClose, Opening
<1>13. CASE Collect(h)
  BY <1>13 DEF Collect, Goto, At, Raise, LeaveClose, Opening
<1>14. QED
  BY <1>1, <1>2, <1>3, <1>4, <1>5, <1>6, <1>7, <1>8, <1>9, <1>10, <1>11, <1>12, <1>13 DEF HandleStep, Thread, Program

LEMMA StateStays ==
  ASSUME HandleTypeOK, NEW h \in Handles, HandleStep(h), NEW g \in Handles
  PROVE  /\ Fresh(g)' => Fresh(g)
         /\ Registered(g) => Registered(g)'
         /\ ~Fresh(g) => port'[g] = port[g] /\ born'[g] = born[g]
<1>1. CASE g = h
  BY <1>1, OwnState, OwnSteps DEF Fresh
<1>2. CASE g # h
  BY <1>2, OwnSteps DEF Fresh, Registered, Closing
<1>3. QED
  BY <1>1, <1>2

(* An interface changes hands only when a thread claims it, which was      *)
(* nobody's before, or when it is released for a handle that has           *)
(* registered.                                                             *)
LEMMA ClaimChanges ==
  ASSUME BusTypeOK, HandleTypeOK, OnlyRegistered, ClosingHasObject,
         NEW h \in Handles, HandleStep(h), NEW p \in Ports
  PROVE  \/ claim'[p] = claim[p]
         \/ claim'[p] = Nobody /\ claim[p] \in Handles /\ Registered(claim[p])
         \/ Claim(h) /\ p = port[h] /\ Usable(p, born[h]) /\ claim[p] = Nobody
              /\ claim'[p] = h /\ pc'[h] = "register"
<1> USE DEF BusTypeOK, HandleTypeOK, busVars, handleVars
<1>1. CASE Lookup(h)
  BY <1>1 DEF Lookup
<1>2. CASE Release(h)
  <2>1. obj[h] \in Handles /\ Registered(obj[h])
    BY <1>2 DEF Release, At, ClosingHasObject, OnlyRegistered, Closing
  <2>2. QED
    BY <1>2, <2>1 DEF Release, Releases
<1>3. CASE LibClose(h)
  BY <1>3 DEF LibClose
<1>4. CASE CloseRaises(h)
  BY <1>4 DEF CloseRaises
<1>5. CASE Clear(h)
  BY <1>5 DEF Clear
<1>6. CASE Claim(h)
  BY <1>6 DEF Claim, Claims, Goto, Usable
<1>7. CASE Register(h)
  BY <1>7 DEF Register
<1>8. CASE FlushCheck(h)
  BY <1>8 DEF FlushCheck
<1>9. CASE FlushRead(h)
  BY <1>9 DEF FlushRead
<1>10. CASE FindAndOpen(h)
  BY <1>10 DEF FindAndOpen
<1>11. CASE Use(h)
  BY <1>11 DEF Use
<1>12. CASE Close(h)
  BY <1>12 DEF Close
<1>13. CASE Collect(h)
  <2>1. Registered(h)
    BY <1>13 DEF Collect, Registered, Fresh, Closing
  <2>2. QED
    BY <1>13, <2>1 DEF Collect, Releases
<1>14. QED
  BY <1>1, <1>2, <1>3, <1>4, <1>5, <1>6, <1>7, <1>8, <1>9, <1>10, <1>11, <1>12, <1>13 DEF HandleStep, Thread, Program
(* What a step may put into the cache, into the hands of a Close, and      *)
(* among the late.                                                         *)
LEMMA CacheChanges ==
  ASSUME BusTypeOK, HandleTypeOK, OnlyRegistered, NEW h \in Handles, HandleStep(h)
  PROVE  /\ \A p \in Ports : cache'[p] = cache[p] \/ cache'[p] = Nobody
              \/ (Register(h) /\ p = port[h] /\ cache'[p] = h)
         /\ \A g \in Handles : obj'[g] = obj[g] \/ obj'[g] = Nobody
              \/ obj'[g] = cache[port[g]] \/ (obj'[g] = h /\ Close(h))
         /\ late' = late \/ (Register(h) /\ late' = late \cup {h}
                              /\ ~Usable(port[h], born[h]))
         /\ Closing(h)' => obj'[h] \in Handles \/ (Closing(h) /\ obj'[h] = obj[h])
<1> USE DEF BusTypeOK, HandleTypeOK, busVars, handleVars, Closing
<1>1. CASE Lookup(h)
  BY <1>1 DEF Lookup, Goto, At, Raise, LeaveClose
<1>2. CASE Release(h)
  BY <1>2 DEF Release, Goto, At, Raise, LeaveClose
<1>3. CASE LibClose(h)
  BY <1>3 DEF LibClose, Goto, At, Raise, LeaveClose
<1>4. CASE CloseRaises(h)
  BY <1>4 DEF CloseRaises, Goto, At, Raise, LeaveClose
<1>5. CASE Clear(h)
  BY <1>5 DEF Clear, Goto, At, Raise, LeaveClose
<1>6. CASE Claim(h)
  BY <1>6 DEF Claim, Goto, At, Raise, LeaveClose
<1>7. CASE Register(h)
  BY <1>7 DEF Register, Goto, At, Raise, LeaveClose
<1>8. CASE FlushCheck(h)
  BY <1>8 DEF FlushCheck, Goto, At, Raise, LeaveClose
<1>9. CASE FlushRead(h)
  BY <1>9 DEF FlushRead, Goto, At, Raise, LeaveClose
<1>10. CASE FindAndOpen(h)
  BY <1>10, ZenonT(40) DEF FindAndOpen, Goto, At, Raise, LeaveClose
<1>11. CASE Use(h)
  BY <1>11 DEF Use, Goto, At, Raise, LeaveClose
<1>12. CASE Close(h)
  BY <1>12 DEF Close, Goto, At, Raise, LeaveClose
<1>13. CASE Collect(h)
  BY <1>13 DEF Collect, Goto, At, Raise, LeaveClose
<1>14. QED
  BY <1>1, <1>2, <1>3, <1>4, <1>5, <1>6, <1>7, <1>8, <1>9, <1>10, <1>11, <1>12, <1>13 DEF HandleStep, Thread, Program

(* OnlyRegistered is kept: Register and Close make registered what they    *)
(* put there.                                                              *)
LEMMA OnlyRegisteredStep ==
  ASSUME BusTypeOK, HandleTypeOK, OnlyRegistered, NEW h \in Handles, HandleStep(h)
  PROVE  OnlyRegistered'
<1> USE BusAssumption
<1>1. Register(h) => Registered(h)'
  BY DEF Register, Registered, Fresh, Closing, HandleTypeOK, Goto
<1>2. Close(h) /\ obj'[h] = h => Registered(h)'
  BY DEF Close, Registered, Fresh, HandleTypeOK, Goto
<1>3. SUFFICES ASSUME NEW g \in Handles
               PROVE  /\ \A p \in Ports : cache'[p] = g => Registered(g)'
                      /\ \A t \in Handles : obj'[t] = g => Registered(g)'
                      /\ g \in late' => Registered(g)'
  BY DEF OnlyRegistered, Registered, Fresh, Closing
<1>4. Registered(g) => Registered(g)'
  BY StateStays
<1>5. ASSUME NEW p \in Ports, cache'[p] = g PROVE Registered(g)'
  BY <1>1, <1>4, <1>5, CacheChanges DEF OnlyRegistered
<1>6. ASSUME NEW t \in Handles, obj'[t] = g PROVE Registered(g)'
  <2>1. CASE obj'[t] = obj[t] \/ obj'[t] = cache[port[t]]
    BY <1>4, <1>6, <2>1 DEF OnlyRegistered, HandleTypeOK
  <2>2. CASE obj'[t] = h /\ Close(h)
    <3>1. CASE t = h
      BY <1>2, <1>6, <2>2, <3>1
    <3>2. CASE t # h
      BY <1>4, <1>6, <3>2, OwnSteps DEF OnlyRegistered
    <3>3. QED
      BY <3>1, <3>2
  <2>3. QED
    BY <1>6, <2>1, <2>2, CacheChanges
<1>7. g \in late' => Registered(g)'
  BY <1>1, <1>4, CacheChanges DEF OnlyRegistered
<1>8. QED
  BY <1>5, <1>6, <1>7
LEMMA ClosingStep ==
  ASSUME BusTypeOK, HandleTypeOK, OnlyRegistered, ClosingHasObject,
         NEW h \in Handles, HandleStep(h)
  PROVE  ClosingHasObject'
<1> SUFFICES ASSUME NEW g \in Handles, Closing(g)' PROVE obj'[g] \in Handles
  BY DEF ClosingHasObject, Closing
<1>1. CASE g = h
  BY <1>1, CacheChanges DEF ClosingHasObject
<1>2. CASE g # h
  BY <1>2, OwnSteps DEF ClosingHasObject, Closing
<1>3. QED
  BY <1>1, <1>2

(* An interface stays with a handle of the device that is there.           *)
LEMMA ClaimStep ==
  ASSUME BusTypeOK, HandleTypeOK, ClaimIsOfDevice, OnlyRegistered, ClosingHasObject,
         NEW h \in Handles, HandleStep(h)
  PROVE  ClaimIsOfDevice'
<1> USE BusAssumption
<1> SUFFICES ASSUME NEW g \in Handles, NEW p \in Ports, claim'[p] = g
             PROVE  port'[g] = p /\ Usable(p, born'[g]) /\ ~Fresh(g)'
  BY OwnSteps DEF ClaimIsOfDevice, Usable
<1>1. CASE claim[p] = g
  <2>1. port[g] = p /\ Usable(p, born[g]) /\ ~Fresh(g)
    BY <1>1 DEF ClaimIsOfDevice
  <2>2. ~Fresh(g)' /\ port'[g] = port[g] /\ born'[g] = born[g]
    BY <2>1, StateStays
  <2>3. QED
    BY <2>1, <2>2, OwnSteps DEF Usable
<1>2. CASE claim[p] # g
  <2>1. /\ Claim(h) /\ p = port[h] /\ Usable(p, born[h])
        /\ claim'[p] = h /\ pc'[h] = "register"
    BY <1>2, ClaimChanges
  <2>2. g = h /\ ~Fresh(g)'
    BY <2>1 DEF Fresh, Closing
  <2>3. port' = port /\ born' = born
    BY <2>1 DEF Claim
  <2>4. QED
    BY <2>1, <2>2, <2>3, OwnSteps DEF Usable
<1>3. QED
  BY <1>1, <1>2

(* A thread that has claimed an interface has it when it registers.        *)
LEMMA RegisteringStep ==
  ASSUME BusTypeOK, HandleTypeOK, OnlyRegistered, ClosingHasObject, RegisteringHasClaim,
         NEW h \in Handles, HandleStep(h)
  PROVE  RegisteringHasClaim'
<1> USE BusAssumption
<1> SUFFICES ASSUME NEW g \in Handles, pc'[g] = "register", Usable(port'[g], born'[g])
             PROVE  claim'[port'[g]] = g
  BY OwnSteps DEF RegisteringHasClaim, Usable
<1>1. CASE pc[g] = "register"
  <2>1. port'[g] = port[g] /\ born'[g] = born[g] /\ port[g] \in Ports
    BY <1>1, StateStays DEF Fresh, Closing, HandleTypeOK
  <2>2. claim[port[g]] = g
    BY <1>1, <2>1, OwnSteps DEF RegisteringHasClaim, Usable
  <2>3. ~Registered(g)
    BY <1>1 DEF Registered
  <2>4. claim'[port[g]] = g
    BY <2>1, <2>2, <2>3, ClaimChanges
  <2>5. QED
    BY <2>1, <2>4
<1>2. CASE pc[g] # "register"
  <2>1. g = h
    BY <1>2, OwnSteps
  <2>2. Claim(h)
    BY <1>2, <2>1, ZenonT(40) DEF HandleStep, Thread, Program, Lookup, Release, LibClose, CloseRaises,
      Clear, Register, FlushCheck, FlushRead, FindAndOpen, Use, Close, Collect,
      Goto, At, Raise, LeaveClose, HandleTypeOK, handleVars
  <2>3. claim'[port[h]] = h /\ port' = port
    BY <2>1, <2>2 DEF Claim, Claims, Goto, Raise, HandleTypeOK, BusTypeOK
  <2>4. QED
    BY <2>1, <2>3
<1>3. QED
  BY <1>1, <1>2

LEMMA BornStep ==
  ASSUME BusTypeOK, HandleTypeOK, BornBefore, NEW h \in Handles, HandleStep(h)
  PROVE  BornBefore'
<1> USE MatchedAssumption DEF BusTypeOK, HandleTypeOK
<1>1. CASE pc[h] # "idle"
  BY <1>1, OwnSteps DEF BornBefore
<1>2. CASE FindAndOpen(h)
  <2>1. CASE UNCHANGED <<port, born>>
    BY <1>2, <2>1 DEF FindAndOpen, BornBefore, busVars
  <2>2. CASE \E p \in Matched :
          port' = [port EXCEPT ![h] = p] /\ born' = [born EXCEPT ![h] = plugs[p]]
    <3>1. PICK p \in Matched :
            port' = [port EXCEPT ![h] = p] /\ born' = [born EXCEPT ![h] = plugs[p]]
      BY <2>2
    <3>2. p \in Ports /\ plugs[p] \in Nat /\ plugs' = plugs
      BY <1>2 DEF FindAndOpen, busVars
    <3>3. ASSUME NEW g \in Handles PROVE born'[g] <= plugs'[port'[g]]
      <4>1. CASE g = h
        BY <3>1, <3>2, <4>1
      <4>2. CASE g # h
        BY <3>1, <3>2, <4>2 DEF BornBefore
      <4>3. QED
        BY <4>1, <4>2
    <3>4. QED
      BY <3>3 DEF BornBefore
  <2>3. QED
    BY <1>2, <2>1, <2>2 DEF FindAndOpen
<1>3. CASE pc[h] = "idle" /\ ~FindAndOpen(h)
  BY <1>3 DEF HandleStep, Thread, Program, At, Lookup, Release, LibClose, CloseRaises, Clear,
    Claim, Register, FlushCheck, FlushRead, Use, Close, Collect
<1>4. QED
  BY <1>1, <1>2, <1>3
(* OpenIsCached is kept.  Register replaces the entry of another handle,   *)
(* which has the interface, only for a handle whose device has been        *)
(* unplugged since, and then it is late and of an earlier device.          *)
LEMMA CachedStep ==
  ASSUME HandleInv, NEW h \in Handles, HandleStep(h)
  PROVE  OpenIsCached'
<1> USE BusAssumption DEF HandleInv
<1> SUFFICES ASSUME NEW g \in Handles, NEW p \in Ports, claim'[p] = g, pc'[g] # "register"
             PROVE  \/ cache'[p] = g
                    \/ \E k \in late' : port'[k] = p /\ born'[k] < born'[g]
  BY DEF OpenIsCached
<1>1. claim[p] = g
  BY ClaimChanges
<1>2. port[g] = p /\ Usable(p, born[g]) /\ ~Fresh(g)
  BY <1>1 DEF ClaimIsOfDevice
<1>3. born'[g] = born[g]
  BY <1>2, StateStays
<1>4. CASE \E k \in late : port[k] = p /\ born[k] < born[g]
  <2>1. PICK k \in late : port[k] = p /\ born[k] < born[g]
    BY <1>4
  <2>2. k \in Handles /\ ~Fresh(k)
    BY <2>1 DEF OnlyRegistered, Registered, HandleTypeOK
  <2>3. port'[k] = p /\ born'[k] < born'[g] /\ k \in late'
    BY <1>3, <2>1, <2>2, StateStays, CacheChanges
  <2>4. QED
    BY <2>3
<1>5. CASE pc[g] = "register"
  <2>1. g = h
    BY <1>5, OwnSteps
  <2>2. Register(h)
    BY <1>5, <2>1 DEF HandleStep, Thread, Program, At, Lookup, Release, LibClose,
      CloseRaises, Clear, Claim, FlushCheck, FlushRead, FindAndOpen, Use, Close, Collect
  <2>3. QED
    BY <1>2, <2>1, <2>2 DEF Register, HandleTypeOK
<1>6. CASE pc[g] # "register" /\ cache[p] = g
  <2>1. CASE cache'[p] = g
    BY <2>1
  <2>2. CASE Register(h) /\ p = port[h] /\ cache'[p] = h /\ h # g
    <3>1. pc[h] = "register"
      BY <2>2 DEF Register, At
    <3>2. ~Usable(p, born[h])
      BY <1>1, <2>2, <3>1 DEF RegisteringHasClaim
    <3>3. born[h] < born[g]
      <4>1. born[h] <= plugs[p]
        BY <2>2 DEF BornBefore
      <4>2. plugs[p] # born[h] /\ plugs[p] = born[g]
        BY <1>2, <3>2 DEF Usable
      <4>3. plugs[p] \in Nat /\ born[h] \in Nat
        BY DEF BusTypeOK, HandleTypeOK
      <4>4. QED
        BY <4>1, <4>2, <4>3
    <3>4. h \in late' /\ port'[h] = p /\ born'[h] = born[h]
      BY <2>2, <3>2 DEF Register
    <3>5. QED
      BY <1>3, <3>3, <3>4
  <2>3. CASE cache'[p] = Nobody
    <3>1. Collect(h)
      BY <1>6, <2>3 DEF HandleStep, Thread, Program, Lookup, Release, LibClose, CloseRaises, Clear,
        Claim, Register, FlushCheck, FlushRead, FindAndOpen, Use, Close, HandleTypeOK, handleVars
    <3>2. g = h
      BY <1>6, <2>3, <3>1 DEF Collect, HandleTypeOK
    <3>3. claim'[p] # g
      BY <1>2, <3>1, <3>2 DEF Collect, Releases, BusTypeOK
    <3>4. QED
      BY <3>3
  <2>4. QED
    BY <1>6, <2>1, <2>2, <2>3, CacheChanges
<1>7. QED
  BY <1>1, <1>4, <1>5, <1>6 DEF OpenIsCached
-----------------------------------------------------------------------------
(* Unplugging a device takes its interface from whoever has it, and the    *)
(* next one to be plugged in is another.                                   *)
LEMMA BusStepInv ==
  ASSUME HandleInv, BusStep
  PROVE  HandleInv'
<1> USE BusAssumption DEF HandleInv
<1>1. BusTypeOK' /\ HandleTypeOK'
  BY BusStepType
<1>2. PICK p \in Ports : Unplug(p) \/ PlugIn(p)
  BY DEF BusStep
<1>3. UNCHANGED <<pc, port, born, ptr, obj, cache, lock, error, late>>
  BY DEF BusStep
<1>4. ASSUME NEW q \in Ports, claim'[q] \in Handles
      PROVE  claim'[q] = claim[q] /\ present'[q] = present[q] /\ plugs'[q] = plugs[q]
  <2>1. CASE Unplug(p)
    <3>1. q # p
      BY <1>4, <2>1 DEF Unplug, BusTypeOK
    <3>2. QED
      BY <2>1, <3>1 DEF Unplug, BusTypeOK
  <2>2. CASE PlugIn(p)
    <3>1. claim' = claim /\ ~present[p]
      BY <2>2 DEF PlugIn
    <3>2. q # p
      BY <1>4, <3>1 DEF ClaimIsOfDevice, Usable
    <3>3. QED
      BY <2>2, <3>1, <3>2 DEF PlugIn, BusTypeOK
  <2>3. QED
    BY <1>2, <2>1, <2>2
<1>5. ClaimIsOfDevice'
  BY <1>3, <1>4 DEF ClaimIsOfDevice, Usable, Fresh, Closing
<1>6. OnlyRegistered' /\ ClosingHasObject'
  BY <1>3 DEF OnlyRegistered, ClosingHasObject, Registered, Fresh, Closing
<1>7. BornBefore'
  <2>1. ASSUME NEW q \in Ports PROVE plugs[q] <= plugs'[q] /\ plugs[q] \in Nat /\ plugs'[q] \in Nat
    BY <1>1, <1>2 DEF Unplug, PlugIn, BusTypeOK
  <2>2. QED
    BY <1>3, <2>1 DEF BornBefore, HandleTypeOK
<1>8. OpenIsCached'
  BY <1>3, <1>4 DEF OpenIsCached
<1>9. RegisteringHasClaim'
  <2>1. SUFFICES ASSUME NEW h \in Handles, pc[h] = "register", Usable(port[h], born[h])'
                 PROVE  claim'[port[h]] = h
    BY <1>3 DEF RegisteringHasClaim
  <2>2. Usable(port[h], born[h]) /\ claim'[port[h]] = claim[port[h]]
    <3>1. CASE Unplug(p)
      BY <1>3, <2>1, <3>1 DEF Unplug, Usable, BusTypeOK, HandleTypeOK
    <3>2. CASE PlugIn(p)
      <4>1. p # port[h]
        BY <1>3, <2>1, <3>2 DEF PlugIn, Usable, BornBefore, BusTypeOK, HandleTypeOK
      <4>2. QED
        BY <1>3, <2>1, <3>2, <4>1 DEF PlugIn, Usable, BusTypeOK, HandleTypeOK
    <3>3. QED
      BY <1>2, <3>1, <3>2
  <2>3. QED
    BY <2>1, <2>2 DEF RegisteringHasClaim
<1>10. QED
  BY <1>1, <1>5, <1>6, <1>7, <1>8, <1>9
(* The pool claims only what is nobody's.                                  *)
LEMMA PoolStepHandleInv ==
  ASSUME HandleInv, PoolTypeOK, RefreshDevices, UNCHANGED handleVars
  PROVE  HandleInv'
<1> USE BusAssumption DEF HandleInv, handleVars
<1>1. BusTypeOK' /\ HandleTypeOK'
  BY PoolStepType DEF HandleTypeOK
<1>2. plugs' = plugs /\ present' = present
  BY DEF RefreshDevices, NewPool, Refresh, ClaimNext, Connect, EndRefresh, busVars
<1>3. ASSUME NEW p \in Ports
      PROVE  claim'[p] = claim[p] \/ (claim[p] = Nobody /\ claim'[p] = Pool)
  <2>1. CASE ClaimNext
    BY <2>1 DEF ClaimNext, Claims, BusTypeOK, PoolTypeOK
  <2>2. CASE ~ClaimNext
    BY <2>2 DEF RefreshDevices, NewPool, Refresh, Connect, EndRefresh, busVars
  <2>3. QED
    BY <2>1, <2>2
<1>4. ClaimIsOfDevice'
  BY <1>2, <1>3 DEF ClaimIsOfDevice, Usable, Fresh, Closing
<1>5. OnlyRegistered' /\ ClosingHasObject'
  BY DEF OnlyRegistered, ClosingHasObject, Registered, Fresh, Closing
<1>6. BornBefore'
  BY <1>2 DEF BornBefore
<1>7. OpenIsCached'
  BY <1>3 DEF OpenIsCached
<1>8. RegisteringHasClaim'
  BY <1>2, <1>3 DEF RegisteringHasClaim, Usable, HandleTypeOK
<1>9. QED
  BY <1>1, <1>4, <1>5, <1>6, <1>7, <1>8

LEMMA InitHandleInv == Init => HandleInv
<1> SUFFICES ASSUME Init PROVE HandleInv
  OBVIOUS
<1> USE BusAssumption, MatchedAssumption DEF Init, BusInit, HandleInit
<1>1. BusTypeOK /\ HandleTypeOK
  BY InitType DEF TypeOK
<1>2. ClaimIsOfDevice /\ OpenIsCached
  BY DEF ClaimIsOfDevice, OpenIsCached
<1>3. OnlyRegistered /\ ClosingHasObject /\ RegisteringHasClaim
  BY DEF OnlyRegistered, ClosingHasObject, RegisteringHasClaim, Closing
<1>4. BornBefore
  BY <1>1 DEF BornBefore, HandleTypeOK
<1>5. QED
  BY <1>1, <1>2, <1>3, <1>4 DEF HandleInv

LEMMA HandleStepInv ==
  ASSUME HandleInv, NEW h \in Handles, HandleStep(h)
  PROVE  HandleInv'
BY HandleStepType, ClaimStep, OnlyRegisteredStep, ClosingStep, RegisteringStep, BornStep,
   CachedStep DEF HandleInv

LEMMA NextHandleInv ==
  ASSUME HandleInv, PoolTypeOK, [Next]_vars
  PROVE  HandleInv' /\ PoolTypeOK'
<1> USE DEF poolVars
<1>1. ASSUME NEW h \in Handles, HandleStep(h), UNCHANGED poolVars
      PROVE  HandleInv' /\ PoolTypeOK'
  BY <1>1, HandleStepInv DEF PoolTypeOK
<1>2. CASE RefreshDevices /\ UNCHANGED handleVars
  BY <1>2, PoolStepHandleInv, PoolStepType DEF HandleInv
<1>3. CASE BusStep /\ UNCHANGED poolVars
  BY <1>3, BusStepInv DEF PoolTypeOK
<1>4. CASE UNCHANGED vars
  <2>1. PoolTypeOK'
    BY <1>4 DEF vars, PoolTypeOK
  <2>2. BusTypeOK' /\ HandleTypeOK'
    BY <1>4 DEF HandleInv, vars, busVars, handleVars, BusTypeOK, HandleTypeOK
  <2>3. ClaimIsOfDevice' /\ OnlyRegistered' /\ ClosingHasObject' /\ RegisteringHasClaim'
    BY <1>4 DEF HandleInv, vars, busVars, handleVars, ClaimIsOfDevice, OnlyRegistered,
      ClosingHasObject, RegisteringHasClaim, Registered, Fresh, Closing, Usable
  <2>4. BornBefore' /\ OpenIsCached'
    BY <1>4 DEF HandleInv, vars, busVars, handleVars, BornBefore, OpenIsCached
  <2>5. QED
    BY <2>1, <2>2, <2>3, <2>4 DEF HandleInv
<1>5. QED
  BY <1>1, <1>2, <1>3, <1>4 DEF Next, HandleStep, BusStep

-----------------------------------------------------------------------------
(* Type correctness of the bus, the handles and the pool.                  *)
THEOREM UsbTypeCorrect == Spec => []TypeOK
<1>1. Init => HandleInv /\ PoolTypeOK
  BY InitHandleInv, InitType DEF TypeOK
<1>2. HandleInv /\ PoolTypeOK /\ [Next]_vars => (HandleInv /\ PoolTypeOK)'
  BY NextHandleInv
<1>3. HandleInv /\ PoolTypeOK => TypeOK
  BY DEF HandleInv, TypeOK
<1>4. QED
  BY <1>1, <1>2, <1>3, PTL DEF Spec

(* "Make sure we close any previous handle open to this usb device": in    *)
(* every interleaving, whoever has the interface of a device is in the     *)
(* cache, where the next Open finds and closes it, but for a handle that   *)
(* registered late.                                                        *)
THEOREM OpenAlwaysCached == Spec => []OpenIsCached
<1>1. Init => HandleInv /\ PoolTypeOK
  BY InitHandleInv, InitType DEF TypeOK
<1>2. HandleInv /\ PoolTypeOK /\ [Next]_vars => (HandleInv /\ PoolTypeOK)'
  BY NextHandleInv
<1>3. HandleInv => OpenIsCached
  BY DEF HandleInv
<1>4. QED
  BY <1>1, <1>2, <1>3, PTL DEF Spec
-----------------------------------------------------------------------------
(* The pool.  A program that uses adb/ leaves it what it has claimed.      *)
LEMMA HandleStepPoolInv ==
  ASSUME HandleInv, PoolInv, NEW h \in Handles, HandleStep(h), UNCHANGED poolVars
  PROVE  PoolInv'
<1> USE BusAssumption DEF PoolInv, poolVars
<1>1. BusTypeOK' /\ PoolTypeOK'
  BY HandleStepType DEF HandleInv, PoolTypeOK
<1>2. plugs' = plugs /\ present' = present
  BY OwnSteps DEF HandleInv
<1>3. ASSUME NEW p \in Ports PROVE claim'[p] = Pool <=> claim[p] = Pool
  BY ClaimChanges DEF HandleInv
<1>4. ListedBefore' /\ ConnectingHasPort' /\ NothingPooledYet'
  BY <1>2 DEF ListedBefore, ConnectingHasPort, NothingPooledYet, Connecting
<1>5. RefreshSoFar'
  BY <1>2 DEF RefreshSoFar, Live, Usable, Connecting
<1>6. ClaimsSoFar'
  BY <1>2, <1>3 DEF ClaimsSoFar, Live, Usable, Connecting
<1>7. QED
  BY <1>1, <1>4, <1>5, <1>6

(* Unplugging takes the claim of the pool with the device.                 *)
LEMMA BusStepPoolInv ==
  ASSUME HandleInv, PoolInv, BusStep, UNCHANGED poolVars
  PROVE  PoolInv'
<1> USE BusAssumption DEF PoolInv, poolVars
<1>1. BusTypeOK' /\ PoolTypeOK'
  BY BusStepType DEF HandleInv, PoolTypeOK
<1>2. PICK p \in Ports : Unplug(p) \/ PlugIn(p)
  BY DEF BusStep
<1>3. /\ \A q \in Ports : q # p =>
           claim'[q] = claim[q] /\ present'[q] = present[q] /\ plugs'[q] = plugs[q]
      /\ plugs[p] \in Nat /\ plugs'[p] \in {plugs[p], plugs[p] + 1}
      /\ present'[p] => ~present[p] /\ plugs'[p] = plugs[p] + 1 /\ claim'[p] = claim[p]
      /\ ~present'[p] => claim'[p] = Nobody
  <2>1. CASE Unplug(p)
    BY <2>1 DEF Unplug, BusTypeOK
  <2>2. CASE PlugIn(p)
    BY <2>2 DEF PlugIn, BusTypeOK
  <2>3. QED
    BY <1>2, <2>1, <2>2
<1>4. ~Usable(p, listed[p])' /\ ~Live(p)'
  BY <1>3 DEF ListedBefore, Usable, Live, PoolTypeOK
<1>5. \A q \in Ports : q # p =>
        (Usable(q, listed[q])' <=> Usable(q, listed[q])) /\ (Live(q)' <=> Live(q))
  BY <1>3 DEF Usable, Live
<1>6. ListedBefore'
  BY <1>3 DEF ListedBefore, Connecting, PoolTypeOK
<1>7. ConnectingHasPort' /\ NothingPooledYet'
  BY DEF ConnectingHasPort, NothingPooledYet
<1>8. RefreshSoFar'
  BY <1>4, <1>5 DEF RefreshSoFar, Connecting
<1>9. ClaimsSoFar'
  <2>1. SUFFICES ASSUME ~raised, NEW q \in Ports
                 PROVE  /\ claim'[q] = Pool <=> Live(q)' \/ (Connecting(q) /\ Usable(q, listed[q])')
                        /\ Connecting(q) => ~Live(q)'
    BY DEF ClaimsSoFar, Connecting
  <2>2. CASE q # p
    BY <1>3, <1>5, <2>1, <2>2 DEF ClaimsSoFar
  <2>3. CASE q = p
    <3>1. claim'[p] # Pool
      <4>1. CASE present'[p]
        BY <1>3, <2>1, <4>1 DEF ClaimsSoFar, Live, Usable
      <4>2. CASE ~present'[p]
        BY <1>3, <4>2
      <4>3. QED
        BY <4>1, <4>2
    <3>2. QED
      BY <1>4, <2>3, <3>1
  <2>4. QED
    BY <2>2, <2>3
<1>10. QED
  BY <1>1, <1>6, <1>7, <1>8, <1>9

(* A refresh looks at one device after the other.                          *)
LEMMA PoolStepPoolInv ==
  ASSUME PoolInv, RefreshDevices
  PROVE  PoolInv'
<1> USE BusAssumption DEF PoolInv, BusTypeOK, PoolTypeOK
<1>1. BusTypeOK' /\ PoolTypeOK'
  BY PoolStepType
<1>2. plugs' = plugs /\ present' = present
  BY DEF RefreshDevices, NewPool, Refresh, ClaimNext, Connect, EndRefresh, busVars
<1>3. ASSUME NEW p \in Ports PROVE plugs[p] \in Nat \ {0}
  OBVIOUS
<1>4. CASE NewPool \/ Refresh
  <2>1. pool_pc = "idle" /\ pool_pc' = "scan" /\ claim' = claim /\ current' = current /\ raised' = raised
    BY <1>4 DEF NewPool, Refresh, Enumerate, busVars
  <2>2. \A p \in Ports :
          listed'[p] = (IF p \in todo' THEN plugs[p] ELSE 0) /\ (p \in todo' <=> present[p])
    BY <1>4 DEF NewPool, Refresh, Enumerate
  <2>3. pooled' = pooled \/ (pooled' = NoDevice /\ ~made /\ (~raised => pooled = NoDevice))
    BY <1>4, <2>1 DEF NewPool, Refresh, NothingPooledYet
  <2>4. ListedBefore'
    BY <1>2, <1>3, <2>1, <2>2, <2>3 DEF ListedBefore, Connecting, NoDevice
  <2>5. ConnectingHasPort' /\ NothingPooledYet'
    BY <2>1 DEF ConnectingHasPort, NothingPooledYet
  <2>6. RefreshSoFar'
    BY <1>2, <2>2 DEF RefreshSoFar, Usable
  <2>7. ClaimsSoFar'
    BY <1>2, <2>1, <2>3 DEF ClaimsSoFar, Connecting, Live, Usable
  <2>8. QED
    BY <1>1, <2>4, <2>5, <2>6, <2>7
<1>5. CASE ClaimNext
  <2>1. PICK p \in todo :
          IF Usable(p, listed[p]) /\ claim[p] = Nobody
            THEN /\ Claims(p, listed[p], Pool)
                 /\ current' = p
                 /\ pool_pc' = "connect"
                 /\ todo' = todo \ {p}
                 /\ UNCHANGED <<listed, raised>>
            ELSE Leave /\ raised' = TRUE /\ UNCHANGED claim
    BY <1>5 DEF ClaimNext
  <2>2. pool_pc = "scan" /\ pooled' = pooled /\ made' = made
    BY <1>5 DEF ClaimNext
  <2>3. CASE Usable(p, listed[p]) /\ claim[p] = Nobody
    <3>1. claim' = [claim EXCEPT ![p] = Pool] /\ listed' = listed /\ raised' = raised
          /\ current' = p /\ pool_pc' = "connect" /\ todo' = todo \ {p}
      BY <2>1, <2>3 DEF Claims
    <3>2. ListedBefore'
      BY <1>2, <2>2, <3>1 DEF ListedBefore, Connecting
    <3>3. ConnectingHasPort' /\ NothingPooledYet'
      BY <3>1 DEF ConnectingHasPort, NothingPooledYet
    <3>4. RefreshSoFar'
      BY <1>2, <2>2, <3>1 DEF RefreshSoFar, Connecting, Live, Usable
    <3>5. ClaimsSoFar'
      BY <1>2, <2>2, <2>3, <3>1 DEF ClaimsSoFar, Connecting, Live, Usable
    <3>6. QED
      BY <1>1, <3>2, <3>3, <3>4, <3>5
  <2>4. CASE ~(Usable(p, listed[p]) /\ claim[p] = Nobody)
    <3>1. Leave /\ raised' = TRUE
      BY <2>1, <2>4
    <3>2. ListedBefore'
      BY <1>2, <1>3, <2>2, <3>1 DEF ListedBefore, Connecting, Leave, NoDevice
    <3>3. QED
      BY <1>1, <3>1, <3>2 DEF Leave, ConnectingHasPort, NothingPooledYet, RefreshSoFar, ClaimsSoFar
  <2>5. QED
    BY <2>3, <2>4
<1>6. CASE Connect
  <2>1. pool_pc = "connect" /\ current \in Ports /\ claim' = claim /\ made' = made
    BY <1>6 DEF Connect, busVars, ConnectingHasPort
  <2>2. CASE /\ pool_pc' = "scan"
             /\ pooled' = [pooled EXCEPT ![current] = listed[current]]
             /\ current' = Nobody
             /\ UNCHANGED <<todo, listed, raised>>
    <3>1. listed[current] # 0 /\ listed[current] <= plugs[current]
      BY <2>1 DEF ListedBefore, Connecting
    <3>2. ListedBefore'
      BY <1>2, <2>1, <2>2, <3>1 DEF ListedBefore, Connecting
    <3>3. ConnectingHasPort' /\ NothingPooledYet'
      BY <2>2 DEF ConnectingHasPort, NothingPooledYet
    <3>4. RefreshSoFar'
      BY <1>2, <2>1, <2>2, <3>1 DEF RefreshSoFar, Connecting, Live, Usable
    <3>5. ClaimsSoFar'
      BY <1>2, <2>1, <2>2, <3>1 DEF ClaimsSoFar, Connecting, Live, Usable
    <3>6. QED
      BY <1>1, <3>2, <3>3, <3>4, <3>5
  <2>3. CASE Leave /\ raised' = TRUE /\ UNCHANGED pooled
    <3>1. ListedBefore'
      BY <1>2, <1>3, <2>3 DEF ListedBefore, Connecting, Leave, NoDevice
    <3>2. QED
      BY <1>1, <2>3, <3>1 DEF Leave, ConnectingHasPort, NothingPooledYet, RefreshSoFar, ClaimsSoFar
  <2>4. QED
    BY <1>6, <2>2, <2>3 DEF Connect
<1>7. CASE EndRefresh
  <2>1. /\ Leave /\ pool_pc = "scan" /\ made' = TRUE
        /\ claim' = claim /\ pooled' = pooled /\ raised' = raised
    BY <1>7 DEF EndRefresh, busVars
  <2>2. ListedBefore'
    BY <1>2, <1>3, <2>1 DEF ListedBefore, Connecting, Leave, NoDevice
  <2>3. ClaimsSoFar'
    BY <1>2, <2>1 DEF ClaimsSoFar, Connecting, Leave, Live, Usable
  <2>4. QED
    BY <1>1, <2>1, <2>2, <2>3 DEF Leave, ConnectingHasPort, NothingPooledYet, RefreshSoFar
<1>8. QED
  BY <1>4, <1>5, <1>6, <1>7 DEF RefreshDevices

LEMMA InitPoolInv == Init => PoolInv
<1> SUFFICES ASSUME Init PROVE PoolInv
  OBVIOUS
<1> USE BusAssumption DEF Init, BusInit, PoolInit, NoDevice
<1>1. BusTypeOK /\ PoolTypeOK
  BY InitType DEF TypeOK
<1>2. ListedBefore
  <2>1. \A p \in Ports : listed[p] <= plugs[p] /\ pooled[p] <= plugs[p]
    <3> TAKE p \in Ports
    <3>1. listed[p] = 0 /\ pooled[p] = 0 /\ plugs[p] = 1
      OBVIOUS
    <3>2. QED
      BY ONLY <3>1, SMT
  <2>2. \A p \in Ports : ~(p \in todo \/ Connecting(p))
    BY DEF Connecting
  <2>3. QED
    BY <2>1, <2>2, Zenon DEF ListedBefore
<1>3. ConnectingHasPort /\ RefreshSoFar /\ NothingPooledYet
  BY DEF ConnectingHasPort, RefreshSoFar, NothingPooledYet
<1>4. ClaimsSoFar
  BY DEF ClaimsSoFar, Connecting, Live
<1>5. QED
  BY <1>1, <1>2, <1>3, <1>4 DEF PoolInv

LEMMA NextPoolInv ==
  ASSUME HandleInv, PoolInv, [Next]_vars
  PROVE  PoolInv'
<1>1. ASSUME NEW h \in Handles, HandleStep(h), UNCHANGED poolVars
      PROVE  PoolInv'
  BY <1>1, HandleStepPoolInv
<1>2. CASE RefreshDevices /\ UNCHANGED handleVars
  BY <1>2, PoolStepPoolInv
<1>3. CASE BusStep /\ UNCHANGED poolVars
  BY <1>3, BusStepPoolInv
<1>4. CASE UNCHANGED vars
  <2>1. BusTypeOK' /\ PoolTypeOK'
    BY <1>4 DEF PoolInv, vars, busVars, poolVars, BusTypeOK, PoolTypeOK
  <2>2. ListedBefore' /\ ConnectingHasPort' /\ NothingPooledYet'
    BY <1>4 DEF PoolInv, vars, busVars, poolVars, ListedBefore, ConnectingHasPort,
      NothingPooledYet, Connecting
  <2>3. RefreshSoFar' /\ ClaimsSoFar'
    BY <1>4 DEF PoolInv, vars, busVars, poolVars, RefreshSoFar, ClaimsSoFar, Connecting,
      Live, Usable
  <2>4. QED
    BY <2>1, <2>2, <2>3 DEF PoolInv
<1>5. QED
  BY <1>1, <1>2, <1>3, <1>4 DEF Next, HandleStep, BusStep

(* refresh_devices stops at the first device it cannot claim or connect:   *)
(* one that returns has put every device it listed and that is still there *)
(* into the dict, whatever other programs and the user do meanwhile.       *)
THEOREM RefreshAlwaysComplete == Spec => []RefreshIsComplete
<1>1. Init => HandleInv /\ PoolTypeOK /\ PoolInv
  BY InitHandleInv, InitPoolInv, InitType DEF TypeOK
<1>2. HandleInv /\ PoolTypeOK /\ PoolInv /\ [Next]_vars
        => (HandleInv /\ PoolTypeOK /\ PoolInv)'
  BY NextHandleInv, NextPoolInv
<1>3. PoolInv => RefreshIsComplete
  BY DEF PoolInv, RefreshSoFar, RefreshIsComplete, Connecting
<1>4. QED
  BY <1>1, <1>2, <1>3, PTL DEF Spec

(* Until a refresh raises, the pool has claimed the devices it can give to *)
(* a caller and no others.                                                 *)
THEOREM ClaimsAlwaysPooled == Spec => []ClaimsArePooled
<1>1. Init => HandleInv /\ PoolTypeOK /\ PoolInv
  BY InitHandleInv, InitPoolInv, InitType DEF TypeOK
<1>2. HandleInv /\ PoolTypeOK /\ PoolInv /\ [Next]_vars
        => (HandleInv /\ PoolTypeOK /\ PoolInv)'
  BY NextHandleInv, NextPoolInv
<1>3. PoolInv => ClaimsArePooled
  BY DEF PoolInv, ClaimsSoFar, ClaimsArePooled, Connecting
<1>4. QED
  BY <1>1, <1>2, <1>3, PTL DEF Spec

-----------------------------------------------------------------------------
(* A call that is alone.  What Open does in it may rely on: no other       *)
(* thread is in a call, the device is there, its interface is nobody's or  *)
(* the pool's once the old handle is closed, and stays that of the new one *)
(* once it is claimed.                                                     *)
Alone(h) == alone[h] /\ InCall(h)
OnlyCall == \A h \in Handles : Alone(h) => \A g \in Handles \ {h} : ~InCall(g)
OnlyClosing == \A h \in Handles : ~Closing(h) => obj[h] = Nobody
ClaimHasPointer == \A h \in Handles : \A p \in Ports : claim[p] = h => ptr[h]
ReleasedFirst ==
  \A h \in Handles : pc[h] \in {"libclose", "clear"} => claim[port[obj[h]]] # obj[h]

Undisturbed(h) ==
  /\ Usable(port[h], born[h])
  /\ pc[h] = "release" => claim[port[h]] \in {Nobody, Pool, obj[h]}
  /\ pc[h] \in {"libclose", "clear", "claim"} => claim[port[h]] \in {Nobody, Pool}
  /\ Closing(h) => ptr[obj[h]]
  /\ pc[h] \in {"register", "flush", "flush_read"} => claim[port[h]] = h
NoRival == late = {} => \A h \in Handles : Alone(h) /\ obj[h] # h => Undisturbed(h)

AloneInv ==
  /\ OnlyCall
  /\ OnlyClosing
  /\ ClaimHasPointer
  /\ ReleasedFirst
  /\ NoRival
  /\ OpenAloneSucceeds

(* A step begins a call, or goes on with one.                              *)
LEMMA CallStep ==
  ASSUME HandleTypeOK, NEW h \in Handles, HandleStep(h)
  PROVE  \/ Begins(h) /\ (FindAndOpen(h) \/ Close(h))
         \/ alone' = alone /\ (InCall(h)' => InCall(h))
<1> USE DEF HandleTypeOK, InCall, handleVars
<1>1. CASE FindAndOpen(h) \/ Close(h)
  BY <1>1 DEF FindAndOpen, Close
<1>2. CASE Lookup(h) \/ Release(h) \/ LibClose(h)
  BY <1>2 DEF Lookup, Release, LibClose, At
<1>3. CASE CloseRaises(h) \/ Clear(h) \/ Claim(h) \/ Register(h)
  BY <1>3 DEF CloseRaises, Clear, Claim, Register, At
<1>4. CASE FlushCheck(h) \/ FlushRead(h) \/ Use(h)
  BY <1>4 DEF FlushCheck, FlushRead, Use, At
<1>5. CASE Collect(h)
  BY <1>5 DEF Collect, At, Goto
<1>6. QED
  BY <1>1, <1>2, <1>3, <1>4, <1>5 DEF HandleStep, Thread, Program

(* While a call is alone, the other threads are outside of any.            *)
LEMMA OnlyCallStep ==
  ASSUME HandleTypeOK, OnlyCall, NEW h \in Handles, HandleStep(h)
  PROVE  /\ OnlyCall'
         /\ \A g \in Handles : g # h /\ Alone(g)' => Alone(g) /\ (Use(h) \/ Collect(h))
         /\ \A g \in Handles : alone'[g] /\ (g # h \/ ~(FindAndOpen(h) \/ Close(h))) => alone[g]
<1>1. \A g \in Handles : g # h => (InCall(g)' <=> InCall(g))
  BY OwnSteps DEF InCall
<1>2. CASE Begins(h) /\ (FindAndOpen(h) \/ Close(h))
  <2>1. \A g \in Handles : alone'[g] =
          (IF g = h THEN \A f \in Handles : ~InCall(f) ELSE alone[g] /\ ~InCall(g))
    BY <1>2, Zenon DEF Begins
  <2>2. \A g \in Handles : g # h => ~Alone(g)'
    BY <1>1, <2>1, Zenon DEF Alone
  <2>3. alone'[h] => \A f \in Handles : ~InCall(f)
    BY <2>1, Zenon
  <2>4. OnlyCall'
    BY <1>1, <2>2, <2>3, Zenon DEF OnlyCall, Alone
  <2>5. \A g \in Handles : alone'[g] /\ g # h => alone[g]
    BY <2>1, Zenon
  <2>6. QED
    BY <1>2, <2>2, <2>4, <2>5, Zenon
<1>3. CASE alone' = alone /\ (InCall(h)' => InCall(h))
  <2>1. \A g \in Handles : InCall(g)' => InCall(g)
    BY <1>1, <1>3, Zenon
  <2>2. \A g \in Handles : Alone(g)' => Alone(g)
    BY <1>3, <2>1, Zenon DEF Alone
  <2>3. OnlyCall'
    BY <2>1, <2>2, Zenon DEF OnlyCall
  <2>4. ASSUME NEW g \in Handles, g # h, Alone(g)' PROVE Use(h) \/ Collect(h)
    <3>1. ~InCall(h)
      BY <2>2, <2>4, Zenon DEF OnlyCall
    <3>2. ~FindAndOpen(h) /\ ~Close(h)
      <4>1. FindAndOpen(h) \/ Close(h) => Begins(h)
        BY DEF FindAndOpen, Close
      <4>2. Begins(h) => alone'[g] = (alone[g] /\ ~InCall(g))
        BY <2>4, Zenon DEF Begins
      <4>3. QED
        BY <2>2, <2>4, <4>1, <4>2, Zenon DEF Alone
    <3>3. ~Thread(h)
      BY <3>1 DEF InCall, Thread, Lookup, Release, LibClose, CloseRaises, Clear, Claim, Register,
         FlushCheck, FlushRead, At
    <3>4. QED
      BY <3>2, <3>3 DEF HandleStep, Program
  <2>5. QED
    BY <1>3, <2>2, <2>3, <2>4, Zenon
<1>4. QED
  BY <1>2, <1>3, CallStep

-----------------------------------------------------------------------------
(* A handle loses self._handle only after its claim.                       *)
LEMMA PointerStays ==
  ASSUME HandleInv, ReleasedFirst, NEW h \in Handles, HandleStep(h),
         NEW g \in Handles, ptr[g]
  PROVE  ptr'[g] \/ \A p \in Ports : claim'[p] # g
<1> USE DEF HandleInv, BusTypeOK, HandleTypeOK
<1>1. CASE Clear(h)
  <2>1. /\ obj[h] \in Handles /\ claim[port[obj[h]]] # obj[h] /\ claim' = claim
        /\ ptr' = [ptr EXCEPT ![obj[h]] = FALSE]
    BY <1>1 DEF Clear, LeaveClose, At, ReleasedFirst, ClosingHasObject, Closing, busVars
  <2>2. g = obj[h] => \A p \in Ports : claim'[p] # g
    BY <2>1 DEF ClaimIsOfDevice
  <2>3. QED
    BY <2>1, <2>2
<1>2. CASE CloseRaises(h)
  BY <1>2 DEF CloseRaises, LeaveClose
<1>3. CASE Collect(h)
  <2>1. g = h => \A p \in Ports : claim'[p] # g
    BY <1>3, BusAssumption DEF Collect, Releases, ClaimIsOfDevice
  <2>2. QED
    BY <1>3, <2>1 DEF Collect
<1>4. CASE Claim(h)
  BY <1>4 DEF Claim
<1>5. CASE Lookup(h) \/ Release(h) \/ LibClose(h) \/ Register(h) \/ FlushCheck(h) \/ FlushRead(h)
           \/ FindAndOpen(h) \/ Use(h) \/ Close(h)
  BY <1>5 DEF Lookup, Release, LibClose, Register, FlushCheck, FlushRead, FindAndOpen, Use, Close,
     handleVars
<1>6. QED
  BY <1>1, <1>2, <1>3, <1>4, <1>5 DEF HandleStep, Thread, Program

LEMMA ClaimHasPointerStep ==
  ASSUME HandleInv, ReleasedFirst, ClaimHasPointer, NEW h \in Handles, HandleStep(h)
  PROVE  ClaimHasPointer'
<1> SUFFICES ASSUME NEW g \in Handles, NEW p \in Ports, claim'[p] = g PROVE ptr'[g]
  BY DEF ClaimHasPointer
<1>1. CASE claim[p] = g
  BY <1>1, PointerStays DEF ClaimHasPointer
<1>2. CASE claim[p] # g
  <2>1. g = h /\ Claim(h) /\ pc'[h] = "register"
    BY <1>2, ClaimChanges, BusAssumption DEF HandleInv
  <2>2. ptr' = [ptr EXCEPT ![h] = TRUE]
    BY <2>1 DEF Claim, Raise, Goto, HandleInv, HandleTypeOK
  <2>3. QED
    BY <2>1, <2>2 DEF HandleInv, HandleTypeOK
<1>3. QED
  BY <1>1, <1>2

LEMMA OnlyClosingStep ==
  ASSUME HandleInv, OnlyClosing, NEW h \in Handles, HandleStep(h)
  PROVE  OnlyClosing'
<1> USE DEF HandleInv, HandleTypeOK, OnlyClosing, Closing, handleVars
<1> SUFFICES ~Closing(h)' => obj'[h] = Nobody
  BY OwnSteps
<1>1. CASE Lookup(h) \/ Release(h) \/ LibClose(h)
  BY <1>1 DEF Lookup, Release, LibClose, Goto, At
<1>2. CASE CloseRaises(h) \/ Clear(h)
  BY <1>2 DEF CloseRaises, Clear, LeaveClose
<1>3. CASE Claim(h) \/ Register(h) \/ FlushCheck(h) \/ FlushRead(h) \/ FindAndOpen(h) \/ Use(h)
  BY <1>3 DEF Claim, Register, FlushCheck, FlushRead, FindAndOpen, Use, At
<1>4. CASE Close(h) \/ Collect(h)
  BY <1>4 DEF Close, Collect, Goto, At
<1>5. QED
  BY <1>1, <1>2, <1>3, <1>4 DEF HandleStep, Thread, Program

LEMMA ReleasedFirstStep ==
  ASSUME HandleInv, ReleasedFirst, NEW h \in Handles, HandleStep(h)
  PROVE  ReleasedFirst'
<1> USE DEF HandleInv
<1> SUFFICES ASSUME NEW g \in Handles, pc'[g] \in {"libclose", "clear"}
             PROVE  claim'[port'[obj'[g]]] # obj'[g]
  BY DEF ReleasedFirst
<1>1. CASE pc[g] \in {"libclose", "clear"} /\ obj'[g] = obj[g]
  <2>1. obj[g] \in Handles /\ claim[port[obj[g]]] # obj[g] /\ Registered(obj[g])
    BY <1>1 DEF ReleasedFirst, ClosingHasObject, Closing, OnlyRegistered
  <2>2. port'[obj[g]] = port[obj[g]] /\ port[obj[g]] \in Ports
    BY <2>1, StateStays DEF Registered, HandleTypeOK
  <2>3. Claim(h) => obj[g] # h
    BY <2>1 DEF Claim, At, Registered, Fresh
  <2>4. QED
    BY <1>1, <2>1, <2>2, <2>3, ClaimChanges, BusAssumption
<1>2. CASE ~(pc[g] \in {"libclose", "clear"} /\ obj'[g] = obj[g])
  <2>1. g = h
    BY <1>2, OwnSteps
  <2>2. Release(h)
    <3>1. ~(Lookup(h) \/ LibClose(h) \/ Clear(h) \/ Claim(h) \/ Register(h))
      BY <1>2, <2>1 DEF Lookup, LibClose, Clear, LeaveClose, Claim, Register, Goto, At, Raise,
         HandleTypeOK
    <3>2. ~(CloseRaises(h) \/ FlushCheck(h) \/ Use(h) \/ Close(h))
      BY <1>2, <2>1 DEF CloseRaises, LeaveClose, FlushCheck, Use, Close, Goto, At, Raise,
         HandleTypeOK, handleVars
    <3>3. ~(FlushRead(h) \/ FindAndOpen(h) \/ Collect(h))
      BY <1>2, <2>1, ZenonT(30) DEF FlushRead, FindAndOpen, Collect, Goto, At, Raise, HandleTypeOK
    <3>4. QED
      BY <3>1, <3>2, <3>3 DEF HandleStep, Thread, Program
  <2>3. obj[h] \in Handles
    BY <2>2 DEF Release, At, ClosingHasObject, Closing
  <2>4. QED
    BY <2>1, <2>2, <2>3, BusAssumption DEF Release, Releases, BusTypeOK, HandleTypeOK
<1>3. QED
  BY <1>1, <1>2

-----------------------------------------------------------------------------
LEMMA LateGrows ==
  ASSUME BusTypeOK, HandleTypeOK, OnlyRegistered, NEW h \in Handles, HandleStep(h), late' = {}
  PROVE  late = {} /\ (Register(h) => Usable(port[h], born[h]))
<1>1. late = {}
  BY CacheChanges
<1>2. Register(h) /\ ~Usable(port[h], born[h]) => h \in late'
  BY DEF Register
<1>3. QED
  BY <1>1, <1>2

(* What others do to a call that is alone: drop a handle.                  *)
LEMMA OthersRivalStep ==
  ASSUME HandleInv, AloneInv, NEW h \in Handles, NEW g \in Handles, g # h,
         Use(h) \/ Collect(h), Undisturbed(g), Alone(g)
  PROVE  Undisturbed(g)'
<1> USE BusAssumption DEF HandleInv, BusTypeOK, HandleTypeOK
<1>1. CASE Use(h)
  BY <1>1 DEF Use, Undisturbed, Usable, Closing, handleVars
<1>2. CASE Collect(h)
  <2>1. /\ pc'[g] = pc[g] /\ obj' = obj /\ port' = port /\ born' = born
        /\ plugs' = plugs /\ present' = present
    BY <1>2 DEF Collect, Goto
  <2>2. obj[g] # h
    BY <1>2 DEF Collect
  <2>3. Closing(g) => ptr'[obj[g]] = ptr[obj[g]]
    BY <1>2, <2>2 DEF Collect, ClosingHasObject
  <2>4. claim'[port[g]] = claim[port[g]] \/ (claim[port[g]] = h /\ claim'[port[g]] = Nobody)
    BY <1>2 DEF Collect, Releases
  <2>5. QED
    BY <2>1, <2>2, <2>3, <2>4 DEF Undisturbed, Usable, Closing
<1>3. QED
  BY <1>1, <1>2

(* Open finds in the cache the only handle its device can have: no other   *)
(* thread is about to register one.                                        *)
LEMMA LookupFinds ==
  ASSUME HandleInv, AloneInv, late = {}, NEW h \in Handles, Alone(h), Lookup(h)
  PROVE  /\ claim[port[h]] \in {Nobody, Pool, cache[port[h]]}
         /\ claim[port[h]] = cache[port[h]] /\ cache[port[h]] # Nobody => ptr[cache[port[h]]]
<1> USE DEF HandleInv, AloneInv
<1>1. port[h] \in Ports /\ claim[port[h]] \in Handles \cup {Pool, Nobody}
  BY DEF BusTypeOK, HandleTypeOK
<1>2. ASSUME NEW g \in Handles, claim[port[h]] = g
      PROVE  cache[port[h]] = g /\ ptr[g]
  <2>1. pc[g] # "register"
    BY DEF OnlyCall, InCall, Lookup, At
  <2>2. QED
    BY <1>1, <1>2, <2>1 DEF OpenIsCached, ClaimHasPointer
<1>3. cache[port[h]] \in Handles \cup {Nobody}
  BY <1>1 DEF HandleTypeOK
<1>4. QED
  BY <1>1, <1>2, <1>3

(* What Open does in a call that is alone.                                 *)
LEMMA OwnRivalStep ==
  ASSUME HandleInv, AloneInv, NEW h \in Handles, HandleStep(h), late' = {},
         Alone(h)', obj'[h] # h
  PROVE  Undisturbed(h)'
<1> USE BusAssumption DEF HandleInv, BusTypeOK, HandleTypeOK
<1>1. late = {} /\ (Register(h) => Usable(port[h], born[h]))
  BY LateGrows
<1>2. FindAndOpen(h) \/ (~FindAndOpen(h) /\ ~Close(h) /\ Alone(h))
  <2>1. Close(h) => obj'[h] = h \/ pc'[h] = "done"
    BY DEF Close, Goto
  <2>2. ~Close(h)
    BY <2>1 DEF Alone, InCall
  <2>3. ~FindAndOpen(h) => Alone(h)
    BY <2>2, CallStep, Zenon DEF Alone
  <2>4. QED
    BY <2>2, <2>3
<1>3. CASE FindAndOpen(h)
  <2>1. PICK p \in Matched : /\ present[p]
                             /\ port' = [port EXCEPT ![h] = p]
                             /\ born' = [born EXCEPT ![h] = plugs[p]]
                             /\ pc' = [pc EXCEPT ![h] = "lookup"]
    BY <1>3 DEF FindAndOpen, Goto, Raise, Alone, InCall
  <2>2. p \in Ports /\ plugs[p] \in Nat
    BY MatchedAssumption
  <2>3. port'[h] = p /\ born'[h] = plugs[p] /\ pc'[h] = "lookup"
    BY <2>1, <2>2
  <2>4. UNCHANGED busVars
    BY <1>3 DEF FindAndOpen
  <2>5. QED
    BY <2>1, <2>2, <2>3, <2>4 DEF Undisturbed, Usable, Closing, busVars
<1>4. CASE Lookup(h) /\ Alone(h)
  <2>1. Undisturbed(h)
    BY <1>1, <1>4 DEF AloneInv, NoRival, OnlyClosing, Closing, Lookup, At
  <2>2. LET old == cache[port[h]] IN
          /\ claim[port[h]] \in {Nobody, Pool, old}
          /\ claim[port[h]] = old /\ old # Nobody => ptr[old]
    BY <1>1, <1>4, LookupFinds
  <2>3. QED
    BY <1>4, <2>1, <2>2 DEF Lookup, Undisturbed, Usable, Closing, Goto, busVars
<1>5. CASE Alone(h) /\ obj[h] # h /\ (Release(h) \/ LibClose(h) \/ Clear(h) \/ CloseRaises(h))
  <2>1. Undisturbed(h) /\ Closing(h) /\ obj[h] \in Handles
    BY <1>1, <1>5
       DEF AloneInv, NoRival, Release, LibClose, Clear, CloseRaises, At, Closing, ClosingHasObject
  <2>2. CASE Release(h)
    <3>1. claim'[port[h]] \in {Nobody, Pool}
      BY <2>1, <2>2 DEF Release, Releases, Undisturbed, At, ClaimIsOfDevice
    <3>2. pc'[h] \in {"libclose", "clear"}
      BY <2>2 DEF Release, Goto
    <3>3. UNCHANGED <<obj, port, born, ptr, present, plugs>>
      BY <2>2 DEF Release
    <3>4. QED
      BY <2>1, <3>1, <3>2, <3>3 DEF Undisturbed, Usable, Closing
  <2>3. CASE LibClose(h)
    BY <2>1, <2>3 DEF LibClose, Undisturbed, Usable, Closing, Goto, At, busVars
  <2>4. CASE Clear(h)
    <3>1. pc'[h] = "claim"
      BY <1>5, <2>4 DEF Clear, LeaveClose, Opening, Goto
    <3>2. UNCHANGED <<port, born, busVars>> /\ pc[h] = "clear"
      BY <2>4 DEF Clear, At
    <3>3. QED
      BY <2>1, <3>1, <3>2 DEF Undisturbed, Usable, Closing, busVars
  <2>5. CASE CloseRaises(h)
    BY <2>1, <2>5 DEF CloseRaises, Undisturbed
  <2>6. QED
    BY <1>5, <2>2, <2>3, <2>4, <2>5
<1>6. CASE Alone(h) /\ (Claim(h) \/ Register(h) \/ FlushCheck(h) \/ FlushRead(h))
  <2>1. ~Closing(h) /\ obj[h] # h
    BY <1>6 DEF Claim, Register, FlushCheck, FlushRead, At, Closing, AloneInv, OnlyClosing
  <2>2. Undisturbed(h)
    BY <1>1, <1>6, <2>1 DEF AloneInv, NoRival
  <2>3. CASE Claim(h)
    BY <2>2, <2>3
       DEF Claim, Claims, Undisturbed, Usable, Closing, Goto, Raise, Alone, InCall
  <2>4. CASE Register(h)
    BY <2>2, <2>4 DEF Register, Undisturbed, Usable, Closing, Goto, At, busVars
  <2>5. CASE FlushCheck(h)
    BY <2>2, <2>5
       DEF FlushCheck, Undisturbed, Usable, Closing, Goto, Raise, At, Alone, InCall, busVars
  <2>6. CASE FlushRead(h)
    <3>1. UNCHANGED <<plugs, present, claim, port, born, obj, ptr>> /\ pc[h] = "flush_read"
      BY <2>6 DEF FlushRead, At
    <3>2. pc'[h] = "flush"
      BY <2>6 DEF FlushRead, Goto, Raise, Alone, InCall
    <3>3. QED
      BY <2>2, <3>1, <3>2 DEF Undisturbed, Usable, Closing
  <2>7. QED
    BY <1>6, <2>3, <2>4, <2>5, <2>6
<1>7. CASE Alone(h) /\ (Use(h) \/ Collect(h))
  BY <1>7 DEF Alone, InCall, Use, Collect, At
<1>8. CASE Alone(h) /\ obj[h] = h /\ (Release(h) \/ LibClose(h) \/ Clear(h) \/ CloseRaises(h))
  <2>1. (Release(h) \/ LibClose(h)) => obj' = obj
    BY DEF Release, LibClose
  <2>2. (Clear(h) \/ CloseRaises(h)) => pc'[h] = "done"
    BY <1>8 DEF Clear, CloseRaises, LeaveClose, Opening, Goto
  <2>3. QED
    BY <1>8, <2>1, <2>2 DEF Alone, InCall
<1>9. QED
  BY <1>2, <1>3, <1>4, <1>5, <1>6, <1>7, <1>8 DEF HandleStep, Thread, Program

LEMMA NoRivalStep ==
  ASSUME HandleInv, AloneInv, NEW h \in Handles, HandleStep(h)
  PROVE  NoRival'
<1> SUFFICES ASSUME late' = {}, NEW g \in Handles, Alone(g)', obj'[g] # g
             PROVE  Undisturbed(g)'
  BY DEF NoRival
<1>1. CASE g = h
  BY <1>1, OwnRivalStep
<1>2. CASE g # h
  <2>1. Alone(g) /\ (Use(h) \/ Collect(h)) /\ obj[g] # g
    BY <1>2, OnlyCallStep, OwnSteps DEF HandleInv, AloneInv
  <2>2. Undisturbed(g)
    BY <2>1, LateGrows DEF HandleInv, AloneInv, NoRival
  <2>3. QED
    BY <1>2, <2>1, <2>2, OthersRivalStep
<1>3. QED
  BY <1>1, <1>2

(* A call that raises says why, or was not alone.                          *)
LEMMA SucceedsStep ==
  ASSUME HandleInv, AloneInv, NEW h \in Handles, HandleStep(h)
  PROVE  OpenAloneSucceeds'
<1> USE BusAssumption DEF HandleInv, BusTypeOK, HandleTypeOK, AloneInv
<1> SUFFICES ASSUME NEW g \in Handles, pc'[g] = "failed", alone'[g], late' = {}
             PROVE  error'[g] \in {"not found", "pool"}
  BY DEF OpenAloneSucceeds
<1>1. late = {}
  BY LateGrows
<1>2. CASE pc[g] = "failed"
  <2>1. alone[g]
    BY <1>2, OnlyCallStep DEF FindAndOpen, Close, At
  <2>2. error'[g] = error[g]
    <3>1. CASE g = h
      BY <1>2, <3>1 DEF HandleStep, Thread, Program, Lookup, Release, LibClose, CloseRaises, Clear,
         Claim, Register, FlushCheck, FlushRead, FindAndOpen, Use, Close, Collect, At
    <3>2. CASE g # h
      BY <3>2, ZenonT(40) DEF HandleStep, Thread, Program, Lookup, Release, LibClose, CloseRaises,
         Clear, LeaveClose, Claim, Register, FlushCheck, FlushRead, FindAndOpen, Use, Close, Collect,
         Raise, handleVars
    <3>3. QED
      BY <3>1, <3>2
  <2>3. QED
    BY <1>1, <1>2, <2>1, <2>2 DEF OpenAloneSucceeds
<1>3. CASE pc[g] # "failed"
  <2>1. g = h
    BY <1>3, OwnSteps
  <2>2. CASE FindAndOpen(h)
    BY <2>1, <2>2 DEF FindAndOpen, Goto, Raise
  <2>3. CASE ~FindAndOpen(h)
    <3>1. ~Close(h)
      BY <2>1 DEF Close, Goto, At
    <3>2. alone[h]
      BY <2>1, <2>3, <3>1, OnlyCallStep
    <3>3. CloseRaises(h) \/ Claim(h) \/ FlushCheck(h) \/ FlushRead(h)
      <4>1. ~(Lookup(h) \/ Release(h) \/ LibClose(h) \/ Register(h))
        BY <2>1, <1>3 DEF Lookup, Release, LibClose, Register, Goto, At
      <4>2. ~(Clear(h) \/ Use(h) \/ Collect(h))
        BY <2>1, <1>3 DEF Clear, LeaveClose, Use, Collect, Goto, At, handleVars
      <4>3. QED
        BY <2>3, <3>1, <4>1, <4>2 DEF HandleStep, Thread, Program
    <3>4. obj[h] # h
      <4>1. CloseRaises(h) /\ obj[h] = h => pc'[h] = "done"
        BY DEF CloseRaises, LeaveClose, Opening, Goto
      <4>2. ~CloseRaises(h) => obj[h] = Nobody
        BY <3>3 DEF Claim, FlushCheck, FlushRead, At, OnlyClosing, Closing
      <4>3. QED
        BY <2>1, <4>1, <4>2
    <3>5. Undisturbed(h)
      <4>1. InCall(h)
        BY <3>3 DEF CloseRaises, Claim, FlushCheck, FlushRead, At, InCall
      <4>2. Alone(h)
        BY <3>2, <4>1, Zenon DEF Alone
      <4>3. QED
        BY <1>1, <3>4, <4>2 DEF NoRival
    <3>6. ~CloseRaises(h)
      BY <3>5 DEF CloseRaises, Undisturbed, Closing
    <3>7. CASE Claim(h)
      <4>1. Usable(port[h], born[h]) /\ claim[port[h]] \in {Nobody, Pool}
        BY <3>5, <3>7 DEF Claim, At, Undisturbed
      <4>2. claim[port[h]] # Nobody
        BY <2>1, <3>7, <4>1 DEF Claim, Goto
      <4>3. error' = [error EXCEPT ![h] =
              CASE ~Usable(port[h], born[h]) -> "io"
                [] claim[port[h]] = Pool -> "pool"
                [] OTHER -> "busy"]
        BY <3>7, <4>2 DEF Claim, Claims, Raise
      <4>4. QED
        BY <2>1, <4>1, <4>2, <4>3
    <3>8. CASE FlushCheck(h) \/ FlushRead(h)
      <4>1. claim[port[h]] = h /\ ptr[h]
        BY <3>5, <3>8 DEF FlushCheck, FlushRead, At, Undisturbed, ClaimHasPointer
      <4>2. FlushCheck(h) => pc'[h] # "failed"
        BY <4>1 DEF FlushCheck, Goto
      <4>3. FlushRead(h) => pc'[h] # "failed"
        BY <4>1 DEF FlushRead, Goto
      <4>4. QED
        BY <2>1, <3>8, <4>2, <4>3
    <3>9. QED
      BY <3>3, <3>6, <3>7, <3>8
  <2>4. QED
    BY <2>2, <2>3
<1>4. QED
  BY <1>2, <1>3

-----------------------------------------------------------------------------
(* The user and the pool: an unplugged device leaves no call of its own    *)
(* alone, and the pool claims only what is nobody's.                       *)
LEMMA BusStepAlone ==
  ASSUME HandleInv, AloneInv, BusStep
  PROVE  AloneInv'
<1> USE BusAssumption DEF HandleInv, BusTypeOK, HandleTypeOK, AloneInv
<1>1. PICK p \in Ports : Disturbs(p) /\ (Unplug(p) \/ PlugIn(p))
  BY DEF BusStep
<1>2. UNCHANGED <<pc, port, born, ptr, obj, late, error>>
  BY DEF BusStep
<1>3. /\ \A q \in Ports : q # p =>
           claim'[q] = claim[q] /\ present'[q] = present[q] /\ plugs'[q] = plugs[q]
      /\ claim'[p] \in {claim[p], Nobody}
  BY <1>1 DEF Unplug, PlugIn
<1>4. \A h \in Handles : alone'[h] => alone[h] /\ ~(InCall(h) /\ port[h] = p)
  BY <1>1, Zenon DEF Disturbs
<1>5. \A h \in Handles : Alone(h)' => Alone(h) /\ port[h] # p
  BY <1>2, <1>4, Zenon DEF Alone, InCall
<1>6. OnlyCall'
  BY <1>2, <1>5 DEF OnlyCall, InCall
<1>7. OnlyClosing'
  BY <1>2 DEF OnlyClosing, Closing
<1>8. ClaimHasPointer'
  BY <1>2, <1>3 DEF ClaimHasPointer
<1>9. ReleasedFirst'
  BY <1>2, <1>3 DEF ReleasedFirst, ClosingHasObject, Closing
<1>10. NoRival'
  <2> SUFFICES ASSUME late = {}, NEW h \in Handles, Alone(h)', obj[h] # h
               PROVE  Undisturbed(h)'
    BY <1>2 DEF NoRival
  <2>1. Undisturbed(h) /\ port[h] # p
    BY <1>5 DEF NoRival
  <2>2. QED
    BY <1>2, <1>3, <2>1 DEF Undisturbed, Usable, Closing
<1>11. OpenAloneSucceeds'
  BY <1>2, <1>4 DEF OpenAloneSucceeds
<1>12. QED
  BY <1>6, <1>7, <1>8, <1>9, <1>10, <1>11

LEMMA PoolStepAlone ==
  ASSUME HandleInv, AloneInv, PoolTypeOK, RefreshDevices, UNCHANGED handleVars
  PROVE  AloneInv'
<1> USE BusAssumption DEF HandleInv, BusTypeOK, HandleTypeOK, AloneInv
<1>1. UNCHANGED <<pc, port, born, ptr, obj, late, error, alone>>
  BY DEF handleVars
<1>2. plugs' = plugs /\ present' = present
  BY DEF RefreshDevices, NewPool, Refresh, ClaimNext, Connect, EndRefresh, busVars
<1>3. ASSUME NEW p \in Ports
      PROVE  claim'[p] = claim[p] \/ (claim[p] = Nobody /\ claim'[p] = Pool)
  <2>1. CASE ClaimNext
    BY <2>1 DEF ClaimNext, Claims, PoolTypeOK
  <2>2. CASE ~ClaimNext
    BY <2>2 DEF RefreshDevices, NewPool, Refresh, Connect, EndRefresh, busVars
  <2>3. QED
    BY <2>1, <2>2
<1>4. OnlyCall' /\ OnlyClosing' /\ OpenAloneSucceeds'
  BY <1>1 DEF OnlyCall, OnlyClosing, OpenAloneSucceeds, Alone, InCall, Closing
<1>5. ClaimHasPointer'
  BY <1>1, <1>3 DEF ClaimHasPointer
<1>6. ReleasedFirst'
  BY <1>1, <1>3 DEF ReleasedFirst, ClosingHasObject, Closing
<1>7. NoRival'
  <2> SUFFICES ASSUME late = {}, NEW h \in Handles, Alone(h), obj[h] # h
               PROVE  Undisturbed(h)'
    BY <1>1 DEF NoRival, Alone, InCall
  <2>1. Undisturbed(h) /\ port[h] \in Ports
    BY DEF NoRival
  <2>2. QED
    BY <1>1, <1>2, <1>3, <2>1 DEF Undisturbed, Usable, Closing
<1>8. QED
  BY <1>4, <1>5, <1>6, <1>7

LEMMA InitAlone == Init => AloneInv
<1> SUFFICES ASSUME Init PROVE AloneInv
  OBVIOUS
<1> USE BusAssumption, MatchedAssumption DEF Init, BusInit, HandleInit
<1>1. OnlyCall /\ OnlyClosing /\ ReleasedFirst
  BY DEF OnlyCall, OnlyClosing, ReleasedFirst, Alone, InCall, Closing
<1>2. ClaimHasPointer
  BY DEF ClaimHasPointer
<1>3. NoRival /\ OpenAloneSucceeds
  BY DEF NoRival, OpenAloneSucceeds, Alone, InCall
<1>4. QED
  BY <1>1, <1>2, <1>3 DEF AloneInv

LEMMA NextAlone ==
  ASSUME HandleInv, PoolTypeOK, AloneInv, [Next]_vars
  PROVE  AloneInv'
<1>1. ASSUME NEW h \in Handles, HandleStep(h) PROVE AloneInv'
  BY <1>1, OnlyCallStep, OnlyClosingStep, ClaimHasPointerStep, ReleasedFirstStep, NoRivalStep,
     SucceedsStep DEF AloneInv, HandleInv
<1>2. CASE RefreshDevices /\ UNCHANGED handleVars
  BY <1>2, PoolStepAlone
<1>3. CASE BusStep
  BY <1>3, BusStepAlone
<1>4. CASE UNCHANGED vars
  <2>1. OnlyCall' /\ OnlyClosing' /\ ClaimHasPointer' /\ ReleasedFirst'
    BY <1>4 DEF AloneInv, vars, busVars, handleVars, OnlyCall, OnlyClosing, ClaimHasPointer,
       ReleasedFirst, Alone, InCall, Closing
  <2>2. NoRival' /\ OpenAloneSucceeds'
    BY <1>4 DEF AloneInv, vars, busVars, handleVars, NoRival, OpenAloneSucceeds, Undisturbed,
       Usable, Alone, InCall, Closing
  <2>3. QED
    BY <2>1, <2>2 DEF AloneInv
<1>5. QED
  BY <1>1, <1>2, <1>3, <1>4 DEF Next, HandleStep, BusStep

(* FindAndOpen raises only when another program has the interface, there   *)
(* is no device, or another call or the unplugging of the device came in   *)
(* between; once a handle has registered late, for other reasons too.  A   *)
(* handle that is open, was dropped or whose owner got an exception never  *)
(* prevents it (Lookup, Close, and the weak references of the cache).      *)
THEOREM AloneAlwaysOpens == Spec => []OpenAloneSucceeds
<1>1. Init => HandleInv /\ PoolTypeOK /\ AloneInv
  BY InitHandleInv, InitAlone, InitType DEF TypeOK
<1>2. HandleInv /\ PoolTypeOK /\ AloneInv /\ [Next]_vars
        => (HandleInv /\ PoolTypeOK /\ AloneInv)'
  BY NextHandleInv, NextAlone
<1>3. AloneInv => OpenAloneSucceeds
  BY DEF AloneInv
<1>4. QED
  BY <1>1, <1>2, <1>3, PTL DEF Spec


-----------------------------------------------------------------------------
(* Packets the user's dialog leaves behind are the only ones that may be   *)
(* on their way to adbd when the host does not wait for an answer, nor has *)
(* given up before it came.                                                *)
AllPublic(s) == \A i \in 1..Len(s) : s[i].what = "public"
NoConnect(s) == \A i \in 1..Len(s) : s[i].cmd # "CNXN"

(* The host waits for the answer to its last packet, and either that       *)
(* packet is on its way or one answer is.                                  *)
Awaits(what) ==
  \/ /\ inp = <<>>
     /\ Len(out) >= 1
     /\ out[Len(out)].what = what
     /\ \A i \in 1..(Len(out) - 1) : out[i].what = "public"
  \/ Len(inp) = 1 /\ AllPublic(out)

(* Until a key is accepted late or a retry overtakes a request, requests   *)
(* and answers keep in step.                                               *)
Apart == {"idle", "flush"}
InTime == accepted # "late" /\ ~overtaken
InStep ==
  /\ stage \notin Apart \cup {"await_first", "await_key"} => AllPublic(out)
  /\ stage \in {"connect", "sign", "offer"} => inp = <<>>
  /\ stage = "await_first" => Awaits("none")
  /\ stage = "await_key" => Awaits("signature")
  /\ stage \in {"await_first", "await_key", "await_accept"} => online \/ NoConnect(inp)
  /\ stage = "connected" => online

(* Tokens are those adbd has made, and a key is only offered by a host     *)
(* that has one.                                                           *)
TokensMade ==
  /\ \A i \in 1..Len(inp) : inp[i].token <= dev_token
  /\ dialog => NumKeys # 0
  /\ stage \in {"sign", "await_key", "offer", "await_accept"} => NumKeys # 0
  /\ \A i \in 1..Len(out) : out[i].what = "public" => NumKeys # 0

(* The keys are tried in their order, each with the last token, and those  *)
(* before the current one are not known to adbd.                           *)
Trying ==
  /\ accepted = "no"
  /\ ~dialog
  /\ stage \notin {"offer", "await_accept"}
  /\ \A i \in 1..Len(out) : out[i].what # "public"
  /\ stage \in {"await_first", "await_key"} /\ inp # <<>> /\ Head(inp).cmd = "AUTH" =>
       Head(inp).token = dev_token
  /\ stage = "sign" => token = dev_token
  /\ stage = "await_key" /\ inp = <<>> =>
       token = dev_token /\ Head(out).key = key /\ Head(out).token = token
  /\ stage \in {"sign", "await_key"} => \A k \in known : key <= k
  /\ stage = "await_key" /\ inp # <<>> /\ Head(inp).cmd = "AUTH" => key \notin known

NoKeyWorks == known \subseteq (IF accepted = "no" THEN {} ELSE {1})
KeysInOrder == Trying \/ NoKeyWorks

ConnectInv ==
  /\ ConnectTypeOK
  /\ TokensMade
  /\ InTime => InStep
  /\ ~overtaken => KeysInOrder

-----------------------------------------------------------------------------
(* What a queue of packets holds after one is added or taken.              *)
LEMMA AppendItems ==
  ASSUME NEW S, NEW s \in Seq(S), NEW e \in S
  PROVE  /\ Append(s, e) \in Seq(S)
         /\ Append(s, e) # <<>>
         /\ Len(s) \in Nat
         /\ Len(Append(s, e)) = Len(s) + 1
         /\ Append(s, e)[Len(s) + 1] = e
         /\ \A i \in 1..Len(s) : Append(s, e)[i] = s[i]
OBVIOUS

LEMMA TailItems ==
  ASSUME NEW S, NEW s \in Seq(S), s # <<>>
  PROVE  /\ Tail(s) \in Seq(S)
         /\ Len(Tail(s)) = Len(s) - 1
         /\ Len(s) \in Nat /\ Len(s) >= 1
         /\ Head(s) = s[1] /\ Head(s) \in S
         /\ \A i \in 1..Len(Tail(s)) : Tail(s)[i] = s[i + 1]
OBVIOUS

LEMMA Items ==
  ASSUME NEW S, NEW s \in Seq(S)
  PROVE  /\ Len(s) \in Nat
         /\ s = <<>> <=> Len(s) = 0
         /\ \A i \in 1..Len(s) : s[i] \in S
OBVIOUS

LEMMA AppendCases ==
  ASSUME NEW S, NEW s \in Seq(S), NEW e \in S
  PROVE  \A i \in 1..Len(Append(s, e)) :
           \/ i = Len(s) + 1 /\ Append(s, e)[i] = e
           \/ i \in 1..Len(s) /\ Append(s, e)[i] = s[i]
<1> SUFFICES ASSUME NEW i \in 1..Len(Append(s, e))
             PROVE  \/ i = Len(s) + 1 /\ Append(s, e)[i] = e
                    \/ i \in 1..Len(s) /\ Append(s, e)[i] = s[i]
  OBVIOUS
<1>1. Len(s) \in Nat /\ Len(Append(s, e)) = Len(s) + 1 BY AppendItems
<1>2. CASE i = Len(s) + 1 BY <1>2, AppendItems
<1>3. CASE i # Len(s) + 1
  <2>1. i \in 1..Len(s) BY <1>1, <1>3
  <2> QED BY <2>1, AppendItems
<1> QED BY <1>2, <1>3

LEMMA AppendedPacket ==
  ASSUME NEW s \in Seq(Packet), NEW p \in Packet, NEW t, t = Append(s, p)
  PROVE  /\ \A i \in 1..Len(t) :
                \/ i = Len(s) + 1 /\ t[i] = p
                \/ i \in 1..Len(s) /\ t[i] = s[i]
         /\ Len(t) = Len(s) + 1 /\ t[Len(t)] = p /\ Len(s) \in Nat
         /\ \A i \in 1..(Len(t) - 1) : i \in 1..Len(s) /\ t[i] = s[i]
<1>1. \A i \in 1..Len(t) :
          \/ i = Len(s) + 1 /\ t[i] = p
          \/ i \in 1..Len(s) /\ t[i] = s[i]
  <2>1. \A i \in 1..Len(Append(s, p)) :
          \/ i = Len(s) + 1 /\ Append(s, p)[i] = p
          \/ i \in 1..Len(s) /\ Append(s, p)[i] = s[i]
    BY AppendCases
  <2> QED BY <2>1
<1>2. Len(t) = Len(s) + 1 /\ t[Len(s) + 1] = p /\ Len(s) \in Nat
  BY AppendItems, Zenon
<1>3. ASSUME NEW i \in 1..(Len(t) - 1) PROVE i \in 1..Len(s) /\ i \in 1..Len(t) /\ i # Len(s) + 1
  BY <1>2
<1> QED BY <1>1, <1>2, <1>3

(* Packets are well formed.                                                *)
LEMMA PktType ==
  ASSUME NEW c \in {"CNXN", "AUTH"}, NEW k \in Nat, NEW t \in Nat,
         NEW w \in {"none", "token", "signature", "public"}
  PROVE  /\ Pkt(c, w, k, t) \in Packet
         /\ Pkt(c, w, k, t).cmd = c /\ Pkt(c, w, k, t).what = w
         /\ Pkt(c, w, k, t).key = k /\ Pkt(c, w, k, t).token = t
BY DEF Pkt, Packet

LEMMA InitInv == ConnectInit => ConnectInv
<1> SUFFICES ASSUME ConnectInit PROVE ConnectInv OBVIOUS
<1> USE ConnectAssumption DEF ConnectInit
<1>1. ConnectTypeOK
  <2>1. <<>> \in Seq(Packet) OBVIOUS
  <2>2. 0 \in 0..MaxAttempts /\ 0 \in 0..NumKeys /\ 0 \in 0..0 /\ 0 \in Nat OBVIOUS
  <2>3. overtaken \in BOOLEAN OBVIOUS
  <2> QED BY <2>1, <2>2, <2>3, Zenon DEF ConnectTypeOK, Stages, Accepts
<1>2. TokensMade BY DEF TokensMade
<1>3. InStep BY DEF InStep, AllPublic
<1>4. KeysInOrder BY DEF KeysInOrder, Trying
<1> QED BY <1>1, <1>2, <1>3, <1>4 DEF ConnectInv

-----------------------------------------------------------------------------
(* The token of an answer is one adbd has made.                            *)
LEMMA HeadToken ==
  ASSUME ConnectTypeOK, TokensMade, inp # <<>>
  PROVE  Tail(inp) \in Seq(Packet) /\ Head(inp) \in Packet /\ Head(inp).token \in 0..dev_token
<1>1. inp \in Seq(Packet) /\ dev_token \in Nat BY DEF ConnectTypeOK
<1>2. Head(inp) = inp[1] /\ Head(inp) \in Packet /\ 1 \in 1..Len(inp) /\ Tail(inp) \in Seq(Packet)
  BY <1>1, TailItems
<1>3. Head(inp).token \in Nat BY <1>2 DEF Packet
<1>4. Head(inp).token <= dev_token BY <1>2 DEF TokensMade
<1> QED BY <1>1, <1>2, <1>3, <1>4

(* Type correctness: one step for each action.                             *)
LEMMA TypeStep == ConnectTypeOK /\ TokensMade /\ ConnectNext => ConnectTypeOK'
<1> SUFFICES ASSUME ConnectTypeOK, TokensMade, ConnectNext PROVE ConnectTypeOK' OBVIOUS
<1> USE ConnectAssumption
<1>1. out \in Seq(Packet) /\ inp \in Seq(Packet) /\ key \in Nat /\ token \in Nat
      /\ dev_token \in Nat
  BY DEF ConnectTypeOK
<1>2. CASE ConnectDevice
  BY <1>2 DEF ConnectDevice, Move, ConnectTypeOK, devVars, Stages
<1>3. CASE FlushBuffers
  <2>1. overtaken' \in BOOLEAN BY <1>3 DEF FlushBuffers, ConnectTypeOK
  <2> QED BY <1>1, <1>3, <2>1, TailItems DEF FlushBuffers, Move, ConnectTypeOK, devVars, Stages
<1>4. CASE SendConnect
  <2>1. out' \in Seq(Packet)
    BY <1>1, <1>4, PktType, AppendItems DEF SendConnect
  <2> QED BY <1>4, <2>1 DEF SendConnect, Move, ConnectTypeOK, devVars, Stages
<1>5. CASE FirstAnswer
  <2>1. inp' \in Seq(Packet) /\ Answer.token \in 0..dev_token
    BY <1>1, <1>5, HeadToken DEF FirstAnswer, TakeAnswer, Answer
  <2> QED BY <1>5, <2>1 DEF FirstAnswer, ConnectTypeOK, devVars, Stages
<1>6. CASE SendSignature
  <2>1. out' \in Seq(Packet)
    BY <1>1, <1>6, PktType, AppendItems DEF SendSignature
  <2> QED BY <1>6, <2>1 DEF SendSignature, Move, ConnectTypeOK, devVars, Stages
<1>7. CASE KeyAnswer
  <2>1. inp' \in Seq(Packet) /\ Answer.token \in 0..dev_token
    BY <1>1, <1>7, HeadToken DEF KeyAnswer, TakeAnswer, Answer
  <2> QED BY <1>7, <2>1 DEF KeyAnswer, ConnectTypeOK, devVars, Stages
<1>8. CASE OfferKey
  <2>1. out' \in Seq(Packet)
    BY <1>1, <1>8, PktType, AppendItems DEF OfferKey
  <2> QED BY <1>8, <2>1 DEF OfferKey, Move, ConnectTypeOK, devVars, Stages
<1>9. CASE AcceptAnswer
  BY <1>1, <1>9, TailItems DEF AcceptAnswer, TakeAnswer, ConnectTypeOK, devVars, Stages
<1>10. CASE ReadTimeout
  BY <1>10 DEF ReadTimeout, ConnectTypeOK, devVars, Stages
<1>11. ASSUME NEW w, Receives(w) PROVE out' \in Seq(Packet)
  BY <1>1, <1>11, TailItems DEF Receives
<1>12. ASSUME Challenge PROVE inp' \in Seq(Packet) /\ dev_token' \in Nat
                              /\ dev_token' >= dev_token
  BY <1>1, <1>12, PktType, AppendItems DEF Challenge
<1>13. ASSUME Welcome PROVE inp' \in Seq(Packet)
  BY <1>1, <1>13, PktType, AppendItems DEF Welcome
<1>14. CASE DevConnect
  <2>1. out' \in Seq(Packet) BY <1>11, <1>14 DEF DevConnect
  <2>2. inp' \in Seq(Packet) /\ dev_token' \in Nat /\ dev_token' >= dev_token
    BY <1>12, <1>14 DEF DevConnect
  <2>3. token' \in 0..dev_token' BY <1>1, <1>14, <2>2 DEF DevConnect, hostVars, ConnectTypeOK
  <2> QED BY <1>14, <2>1, <2>2, <2>3 DEF DevConnect, ConnectTypeOK, hostVars
<1>15. CASE DevSignature
  <2>1. out' \in Seq(Packet) BY <1>11, <1>15 DEF DevSignature
  <2>2. inp' \in Seq(Packet) /\ dev_token' \in Nat /\ dev_token' >= dev_token
    <3>1. CASE Welcome /\ UNCHANGED dev_token BY <1>1, <1>13, <3>1
    <3>2. CASE Challenge BY <1>12, <3>2
    <3> QED BY <1>15, <3>1, <3>2 DEF DevSignature
  <2>3. online' \in BOOLEAN
    BY <1>15 DEF DevSignature, Welcome, ConnectTypeOK
  <2>4. token' \in 0..dev_token' BY <1>1, <1>15, <2>2 DEF DevSignature, hostVars, ConnectTypeOK
  <2> QED BY <1>15, <2>1, <2>2, <2>3, <2>4 DEF DevSignature, ConnectTypeOK, hostVars
<1>16. CASE DevPublicKey
  BY <1>11, <1>16 DEF DevPublicKey, ConnectTypeOK, hostVars
<1>17. CASE UserAccepts
  <2>1. NumKeys # 0
    BY <1>17 DEF UserAccepts, TokensMade
  <2>2. 1 \in 1..NumKeys
    BY <2>1
  <2>3. inp' \in Seq(Packet) BY <1>13, <1>17 DEF UserAccepts
  <2> QED BY <1>17, <2>2, <2>3 DEF UserAccepts, ConnectTypeOK, hostVars, Accepts, Welcome
<1> QED BY <1>2, <1>3, <1>4, <1>5, <1>6, <1>7, <1>8, <1>9, <1>10, <1>14, <1>15, <1>16, <1>17
        DEF ConnectNext, Host, DevPacket

-----------------------------------------------------------------------------
(* Requests and answers keep in step.                                      *)
LEMMA TokensStep == ConnectTypeOK /\ TokensMade /\ ConnectNext => TokensMade'
<1> SUFFICES ASSUME ConnectTypeOK, TokensMade, ConnectNext PROVE TokensMade' OBVIOUS
<1> USE ConnectAssumption
<1>1. out \in Seq(Packet) /\ inp \in Seq(Packet) /\ dev_token \in Nat /\ key \in Nat /\ token \in Nat
  BY DEF ConnectTypeOK
<1>2. ASSUME UNCHANGED <<inp, dev_token>>
      PROVE  \A i \in 1..Len(inp') : inp'[i].token <= dev_token'
  BY <1>2 DEF TokensMade
<1>3. ASSUME inp # <<>>, inp' = Tail(inp), UNCHANGED dev_token
      PROVE  \A i \in 1..Len(inp') : inp'[i].token <= dev_token'
  <2>1. \A i \in 1..Len(inp') : i + 1 \in 1..Len(inp) /\ inp'[i] = inp[i + 1]
    BY <1>1, <1>3, TailItems
  <2> QED BY <1>3, <2>1 DEF TokensMade
<1>4. ASSUME Challenge PROVE \A i \in 1..Len(inp') : inp'[i].token <= dev_token'
  <2> DEFINE p == Pkt("AUTH", "token", 0, dev_token + 1)
  <2>1. p \in Packet /\ p.token = dev_token + 1 BY <1>1, PktType
  <2>2. /\ inp' = Append(inp, p) /\ dev_token' = dev_token + 1
    BY <1>4 DEF Challenge
  <2> HIDE DEF p
  <2>3. \A i \in 1..Len(inp') :
            \/ i = Len(inp) + 1 /\ inp'[i] = p
            \/ i \in 1..Len(inp) /\ inp'[i] = inp[i]
    BY <1>1, <2>1, <2>2, AppendedPacket
  <2>4. \A i \in 1..Len(inp) : inp[i].token \in Nat
    <3>1. \A i \in 1..Len(inp) : inp[i] \in Packet BY <1>1, Items
    <3> QED BY <3>1 DEF Packet
  <2> QED BY <1>1, <2>1, <2>2, <2>3, <2>4 DEF TokensMade
<1>5. ASSUME Welcome, UNCHANGED dev_token
      PROVE  \A i \in 1..Len(inp') : inp'[i].token <= dev_token'
  <2> DEFINE p == Pkt("CNXN", "none", 0, 0)
  <2>1. p \in Packet /\ p.token = 0 BY PktType
  <2>2. inp' = Append(inp, p) BY <1>5 DEF Welcome
  <2> HIDE DEF p
  <2>3. \A i \in 1..Len(inp') :
            \/ inp'[i] = p
            \/ i \in 1..Len(inp) /\ inp'[i] = inp[i]
    BY <1>1, <2>1, <2>2, AppendedPacket
  <2> QED BY <1>1, <1>5, <2>1, <2>3 DEF TokensMade
<1>6. ASSUME NEW w, Receives(w)
      PROVE  /\ w = "public" => \E i \in 1..Len(out) : out[i].what = "public"
             /\ \A i \in 1..Len(out') : i + 1 \in 1..Len(out) /\ out'[i] = out[i + 1]
  BY <1>1, <1>6, TailItems DEF Receives
<1>7. ASSUME NEW p \in Packet, out' = Append(out, p)
      PROVE  \A i \in 1..Len(out') :
                 \/ i = Len(out) + 1 /\ out'[i] = p
                 \/ i \in 1..Len(out) /\ out'[i] = out[i]
  BY <1>1, <1>7, AppendedPacket
<1>8. (\A i \in 1..Len(inp') : inp'[i].token <= dev_token')
  <2>1. CASE ConnectDevice \/ SendConnect \/ SendSignature \/ OfferKey \/ ReadTimeout \/ DevPublicKey
    BY <1>2, <2>1 DEF ConnectDevice, SendConnect, SendSignature, OfferKey, ReadTimeout,
                      DevPublicKey, devVars
  <2>2. CASE FlushBuffers
    BY <1>2, <1>3, <2>2 DEF FlushBuffers, devVars
  <2>3. CASE FirstAnswer \/ KeyAnswer \/ AcceptAnswer
    BY <1>3, <2>3 DEF FirstAnswer, KeyAnswer, AcceptAnswer, TakeAnswer, devVars
  <2>4. CASE DevConnect BY <1>4, <2>4 DEF DevConnect
  <2>5. CASE DevSignature BY <1>4, <1>5, <2>5 DEF DevSignature
  <2>6. CASE UserAccepts BY <1>5, <2>6 DEF UserAccepts
  <2> QED BY <2>1, <2>2, <2>3, <2>4, <2>5, <2>6 DEF ConnectNext, Host, DevPacket
<1>9. NumKeys # 0 => TokensMade' BY <1>8 DEF TokensMade
<1>10. CASE NumKeys = 0
  <2>1. ~dialog /\ stage \notin {"sign", "await_key", "offer", "await_accept"}
        /\ \A i \in 1..Len(out) : out[i].what # "public"
    BY <1>10 DEF TokensMade
  <2>2. /\ ~dialog'
        /\ stage' \notin {"sign", "await_key", "offer", "await_accept"}
        /\ \A i \in 1..Len(out') : out'[i].what # "public"
    <3>1. CASE ConnectDevice \/ FlushBuffers \/ FirstAnswer \/ ReadTimeout
      BY <1>10, <2>1, <3>1 DEF ConnectDevice, FlushBuffers, FirstAnswer, ReadTimeout, Move, devVars
    <3>2. CASE SendConnect
      <4> DEFINE p == Pkt("CNXN", "none", 0, 0)
      <4>1. p \in Packet /\ p.what = "none" BY PktType
      <4>2. out' = Append(out, p) BY <3>2 DEF SendConnect
      <4>3. \A i \in 1..Len(out') : out'[i].what # "public"
        BY <1>7, <2>1, <4>1, <4>2
      <4> QED BY <2>1, <3>2, <4>3 DEF SendConnect, Move, devVars
    <3>3. CASE SendSignature \/ KeyAnswer \/ OfferKey \/ AcceptAnswer
      BY <2>1, <3>3 DEF SendSignature, KeyAnswer, OfferKey, AcceptAnswer, Move
    <3>4. CASE DevConnect
      <4>1. \A i \in 1..Len(out') : out'[i].what # "public" BY <1>6, <2>1, <3>4 DEF DevConnect
      <4> QED BY <2>1, <3>4, <4>1 DEF DevConnect, hostVars
    <3>5. CASE DevSignature
      <4>1. \A i \in 1..Len(out') : out'[i].what # "public" BY <1>6, <2>1, <3>5 DEF DevSignature
      <4> QED BY <2>1, <3>5, <4>1 DEF DevSignature, hostVars
    <3>6. CASE DevPublicKey BY <1>6, <2>1, <3>6 DEF DevPublicKey
    <3>7. CASE UserAccepts BY <2>1, <3>7 DEF UserAccepts
    <3> QED BY <3>1, <3>2, <3>3, <3>4, <3>5, <3>6, <3>7 DEF ConnectNext, Host, DevPacket
  <2> QED BY <1>8, <2>2 DEF TokensMade
<1> QED BY <1>9, <1>10

-----------------------------------------------------------------------------
(* What a packet added or read does to the two pipes.                      *)
LEMMA Added ==
  ASSUME ConnectTypeOK, NEW p \in Packet, out' = Append(out, p)
  PROVE  /\ AllPublic(out) /\ p.what = "public" => AllPublic(out')
         /\ AllPublic(out) /\ inp' = <<>> => Awaits(p.what)'
<1>1. out \in Seq(Packet) BY DEF ConnectTypeOK
<1>2. /\ \A i \in 1..Len(out') :
             \/ i = Len(out) + 1 /\ out'[i] = p
             \/ i \in 1..Len(out) /\ out'[i] = out[i]
      /\ Len(out') = Len(out) + 1 /\ out'[Len(out')] = p /\ Len(out) \in Nat
      /\ \A i \in 1..(Len(out') - 1) : i \in 1..Len(out) /\ out'[i] = out[i]
  BY <1>1, AppendedPacket
<1> QED BY <1>2 DEF AllPublic, Awaits

LEMMA Removed ==
  ASSUME ConnectTypeOK, NEW w, Receives(w)
  PROVE  /\ AllPublic(out) => w = "public" /\ AllPublic(out')
         /\ Awaits("none") /\ w = "none" => inp = <<>> /\ AllPublic(out')
         /\ Awaits("signature") /\ w = "signature" => inp = <<>> /\ AllPublic(out')
         /\ Awaits("none") => w \in {"none", "public"}
         /\ Awaits("signature") => w \in {"signature", "public"}
         /\ Awaits("none") /\ w = "public" /\ inp' = inp => Awaits("none")'
         /\ Awaits("signature") /\ w = "public" /\ inp' = inp => Awaits("signature")'
<1> DEFINE n == Len(out)
<1>1. out \in Seq(Packet) /\ inp \in Seq(Packet) BY DEF ConnectTypeOK
<1>2. /\ n \in Nat /\ n >= 1 /\ Len(out') = n - 1 /\ out[1].what = w
      /\ \A i \in 1..Len(out') : out'[i] = out[i + 1]
  BY <1>1, TailItems DEF Receives
<1>3. AllPublic(out) => w = "public" /\ AllPublic(out')
  BY <1>2 DEF AllPublic
<1>4. ASSUME NEW r \in {"none", "signature"}, Awaits(r)
      PROVE  /\ w \in {r, "public"}
             /\ w = r => inp = <<>> /\ AllPublic(out')
             /\ w = "public" /\ inp' = inp => Awaits(r)'
  <2>1. CASE Len(inp) = 1 /\ AllPublic(out)
    BY <1>3, <1>4, <2>1 DEF Awaits
  <2>2. CASE inp = <<>> /\ out[n].what = r /\ \A i \in 1..(n - 1) : out[i].what = "public"
    <3>1. CASE n = 1
      BY <1>2, <1>4, <2>2, <3>1 DEF AllPublic
    <3>2. CASE n # 1
      <4>1. 1 \in 1..(n - 1) BY <1>2, <3>2
      <4>2. w = "public" BY <1>2, <2>2, <4>1
      <4>3. Len(out') >= 1 /\ out'[Len(out')].what = r
        BY <1>2, <2>2, <3>2
      <4>4. \A i \in 1..(Len(out') - 1) : out'[i].what = "public"
        BY <1>2, <2>2
      <4> QED BY <1>4, <2>2, <4>2, <4>3, <4>4 DEF Awaits
    <3> QED BY <3>1, <3>2
  <2> QED BY <1>4, <2>1, <2>2 DEF Awaits
<1> QED BY <1>3, <1>4

LEMMA Answered ==
  ASSUME ConnectTypeOK, NEW p \in Packet, inp = <<>>, inp' = Append(inp, p)
  PROVE  /\ Len(inp') = 1
         /\ inp' # <<>> /\ Head(inp') = p
         /\ AllPublic(out') => Awaits("none")' /\ Awaits("signature")'
         /\ p.cmd # "CNXN" => NoConnect(inp')
<1>1. inp' = <<p>> OBVIOUS
<1> QED BY <1>1 DEF AllPublic, Awaits, NoConnect

LEMMA Taken ==
  ASSUME ConnectTypeOK, TakeAnswer
  PROVE  /\ Answer.cmd \in {"CNXN", "AUTH"}
         /\ NoConnect(inp) => Answer.cmd # "CNXN"
         /\ Awaits("none") \/ Awaits("signature") => inp' = <<>> /\ AllPublic(out)
<1>1. inp \in Seq(Packet) /\ inp # <<>> /\ inp' = Tail(inp) BY DEF ConnectTypeOK, TakeAnswer
<1>2. Len(inp) \in Nat /\ Len(inp) >= 1 /\ Head(inp) = inp[1] /\ Head(inp) \in Packet
      /\ Tail(inp) \in Seq(Packet) /\ Len(Tail(inp)) = Len(inp) - 1
  BY <1>1, TailItems
<1>3. Len(inp) = 1 => inp' = <<>> BY <1>1, <1>2
<1> QED BY <1>1, <1>2, <1>3 DEF Awaits, NoConnect, Answer, Packet

(* A retry overtakes a request when its flush ends, and only then.         *)
LEMMA OvertakenStays ==
  ASSUME ConnectNext, ~overtaken'
  PROVE  ~overtaken
BY DEF ConnectNext, Host, DevPacket, ConnectDevice, FlushBuffers, SendConnect, FirstAnswer,
       SendSignature, KeyAnswer, OfferKey, AcceptAnswer, ReadTimeout, DevConnect,
       DevSignature, DevPublicKey, UserAccepts

LEMMA InStepStep ==
  ASSUME ConnectTypeOK, InTime => InStep, ConnectNext, InTime'
  PROVE  InStep'
<1> USE ConnectAssumption
<1>1. InTime /\ InStep
  <2>1. UNCHANGED accepted \/ UserAccepts
    BY DEF ConnectNext, Host, DevPacket, ConnectDevice, FlushBuffers, SendConnect, FirstAnswer,
           SendSignature, KeyAnswer, OfferKey, AcceptAnswer, ReadTimeout, DevConnect,
           DevSignature, DevPublicKey, devVars
  <2>2. accepted # "late" BY <2>1 DEF UserAccepts, InTime
  <2>3. ~overtaken BY OvertakenStays DEF InTime
  <2> QED BY <2>2, <2>3 DEF InTime
<1>2. CASE ConnectDevice
  BY <1>2 DEF InStep, Apart, ConnectDevice, Move
<1>3. CASE FlushBuffers
  <2>1. CASE inp # <<>> BY <1>3, <2>1 DEF InStep, Apart, FlushBuffers
  <2>2. CASE inp = <<>>
    <3>1. stage' = "connect" /\ UNCHANGED <<inp, out>> /\ overtaken' = (overtaken \/ Unanswered)
      BY <1>3, <2>2 DEF FlushBuffers, Move
    <3>2. ~Unanswered BY <3>1 DEF InTime
    <3>3. AllPublic(out) BY <3>2 DEF Unanswered, AllPublic, ConnectTypeOK
    <3>4. AllPublic(out') BY <3>1, <3>3 DEF AllPublic
    <3> QED BY <2>2, <3>1, <3>4 DEF InStep, Apart
  <2> QED BY <2>1, <2>2
<1>4. CASE SendConnect
  <2> DEFINE p == Pkt("CNXN", "none", 0, 0)
  <2>1. p \in Packet /\ p.what = "none" BY PktType
  <2>2. out' = Append(out, p) BY <1>4 DEF SendConnect
  <2>3. stage = "connect" /\ stage' = "await_first" /\ inp = <<>> /\ inp' = <<>> /\ AllPublic(out)
    BY <1>1, <1>4 DEF SendConnect, Move, InStep, Apart
  <2> HIDE DEF p
  <2>4. Awaits("none")' BY <2>1, <2>2, <2>3, Added
  <2>5. NoConnect(inp') BY <2>3 DEF NoConnect
  <2> QED BY <2>3, <2>4, <2>5 DEF InStep, Apart
<1>5. CASE FirstAnswer
  <2>1. stage = "await_first" /\ TakeAnswer /\ Awaits("none") /\ (online \/ NoConnect(inp))
        /\ UNCHANGED <<out, online>>
    BY <1>1, <1>5 DEF FirstAnswer, InStep, devVars
  <2>2. inp' = <<>> /\ AllPublic(out) BY <2>1, Taken
  <2>3. Answer.cmd = "CNXN" => online BY <2>1, Taken
  <2>4. AllPublic(out') BY <2>1, <2>2 DEF AllPublic
  <2> QED BY <1>5, <2>1, <2>2, <2>3, <2>4 DEF InStep, FirstAnswer
<1>6. CASE SendSignature
  <2> DEFINE p == Pkt("AUTH", "signature", key, token)
  <2>1. p \in Packet /\ p.what = "signature" BY PktType DEF ConnectTypeOK
  <2>2. out' = Append(out, p) BY <1>6 DEF SendSignature
  <2>3. stage = "sign" /\ stage' = "await_key" /\ inp = <<>> /\ inp' = <<>> /\ AllPublic(out)
    BY <1>1, <1>6 DEF SendSignature, Move, InStep, Apart
  <2> HIDE DEF p
  <2>4. Awaits("signature")' BY <2>1, <2>2, <2>3, Added
  <2>5. NoConnect(inp') BY <2>3 DEF NoConnect
  <2> QED BY <2>3, <2>4, <2>5 DEF InStep, Apart
<1>7. CASE KeyAnswer
  <2>1. stage = "await_key" /\ TakeAnswer /\ Awaits("signature") /\ (online \/ NoConnect(inp))
        /\ UNCHANGED <<out, online>>
    BY <1>1, <1>7 DEF KeyAnswer, InStep, devVars
  <2>2. inp' = <<>> /\ AllPublic(out) BY <2>1, Taken
  <2>3. Answer.cmd = "CNXN" => online BY <2>1, Taken
  <2>4. AllPublic(out') BY <2>1, <2>2 DEF AllPublic
  <2> QED BY <1>7, <2>1, <2>2, <2>3, <2>4 DEF InStep, KeyAnswer
<1>8. CASE OfferKey
  <2> DEFINE p == Pkt("AUTH", "public", 1, 0)
  <2>1. p \in Packet /\ p.what = "public" BY PktType
  <2>2. out' = Append(out, p) BY <1>8 DEF OfferKey
  <2>3. stage = "offer" /\ stage' = "await_accept" /\ inp = <<>> /\ inp' = <<>> /\ AllPublic(out)
    BY <1>1, <1>8 DEF OfferKey, Move, InStep, Apart
  <2> HIDE DEF p
  <2>4. AllPublic(out') BY <2>1, <2>2, <2>3, Added
  <2>5. NoConnect(inp') BY <2>3 DEF NoConnect
  <2> QED BY <2>3, <2>4, <2>5 DEF InStep, Apart
<1>9. CASE AcceptAnswer
  <2>1. stage = "await_accept" /\ TakeAnswer /\ (online \/ NoConnect(inp)) /\ AllPublic(out)
        /\ UNCHANGED <<out, online>>
    BY <1>1, <1>9 DEF AcceptAnswer, InStep, Apart, devVars
  <2>2. Answer.cmd = "CNXN" => online BY <2>1, Taken
  <2>3. AllPublic(out') BY <2>1 DEF AllPublic
  <2> QED BY <1>9, <2>1, <2>2, <2>3 DEF InStep, AcceptAnswer
<1>10. CASE ReadTimeout
  BY <1>10 DEF InStep, Apart, ReadTimeout
<1>11. CASE DevConnect
  <2>1. Receives("none") /\ Challenge /\ UNCHANGED stage BY <1>11 DEF DevConnect, hostVars
  <2> SUFFICES ASSUME stage \notin Apart PROVE InStep'
    BY <2>1 DEF InStep, Apart
  <2>2. stage = "await_first" /\ Awaits("none")
    BY <1>1, <2>1, Removed DEF InStep, Apart
  <2>3. inp = <<>> /\ AllPublic(out') BY <2>1, <2>2, Removed
  <2> DEFINE p == Pkt("AUTH", "token", 0, dev_token + 1)
  <2>4. p \in Packet /\ p.cmd = "AUTH" BY PktType DEF ConnectTypeOK
  <2>5. inp' = Append(inp, p) BY <2>1 DEF Challenge
  <2> HIDE DEF p
  <2>6. Awaits("none")' /\ NoConnect(inp') BY <2>3, <2>4, <2>5, Answered
  <2> QED BY <2>1, <2>2, <2>6 DEF InStep, Apart
<1>12. CASE DevSignature
  <2>1. Receives("signature") /\ UNCHANGED stage BY <1>12 DEF DevSignature, hostVars
  <2> SUFFICES ASSUME stage \notin Apart PROVE InStep'
    BY <2>1 DEF InStep, Apart
  <2>2. stage = "await_key" /\ Awaits("signature")
    BY <1>1, <2>1, Removed DEF InStep, Apart
  <2>3. inp = <<>> /\ AllPublic(out') BY <2>1, <2>2, Removed
  <2>4. CASE Welcome
    <3> DEFINE p == Pkt("CNXN", "none", 0, 0)
    <3>1. p \in Packet BY PktType
    <3>2. inp' = Append(inp, p) /\ online' BY <2>4 DEF Welcome
    <3> HIDE DEF p
    <3>3. Awaits("signature")' BY <2>3, <3>1, <3>2, Answered
    <3> QED BY <2>1, <2>2, <3>2, <3>3 DEF InStep, Apart
  <2>5. CASE Challenge
    <3> DEFINE p == Pkt("AUTH", "token", 0, dev_token + 1)
    <3>1. p \in Packet /\ p.cmd = "AUTH" BY PktType DEF ConnectTypeOK
    <3>2. inp' = Append(inp, p) BY <2>5 DEF Challenge
    <3> HIDE DEF p
    <3>3. Awaits("signature")' /\ NoConnect(inp') BY <2>3, <3>1, <3>2, Answered
    <3> QED BY <2>1, <2>2, <3>3 DEF InStep, Apart
  <2> QED BY <1>12, <2>4, <2>5 DEF DevSignature
<1>13. CASE DevPublicKey
  <2>1. Receives("public") /\ UNCHANGED <<stage, inp, online>>
    BY <1>13 DEF DevPublicKey, hostVars
  <2>2. stage = "await_first" => Awaits("none")' BY <1>1, <2>1, Removed DEF InStep, Apart
  <2>3. stage = "await_key" => Awaits("signature")' BY <1>1, <2>1, Removed DEF InStep, Apart
  <2>4. stage \notin Apart \cup {"await_first", "await_key"} => AllPublic(out')
    BY <1>1, <2>1, Removed DEF InStep, Apart
  <2>5. NoConnect(inp) => NoConnect(inp') BY <2>1 DEF NoConnect
  <2> QED BY <1>1, <2>1, <2>2, <2>3, <2>4, <2>5 DEF InStep, Apart
<1>14. CASE UserAccepts
  <2>1. stage \in {"await_accept", "idle", "flush"} /\ UNCHANGED <<stage, out>>
    BY <1>14 DEF UserAccepts, hostVars, InTime
  <2>2. online' BY <1>14 DEF UserAccepts, Welcome
  <2>3. stage = "await_accept" => AllPublic(out') BY <1>1, <2>1 DEF InStep, Apart, AllPublic
  <2> QED BY <2>1, <2>2, <2>3 DEF InStep, Apart
<1> QED BY <1>2, <1>3, <1>4, <1>5, <1>6, <1>7, <1>8, <1>9, <1>10, <1>11, <1>12, <1>13, <1>14
        DEF ConnectNext, Host, DevPacket

-----------------------------------------------------------------------------
(* The keys are tried in their order, as long as no dialog has been shown. *)
LEMMA TryingStep ==
  ASSUME ConnectTypeOK, InStep, Trying, Host \/ DevPacket
  PROVE  Trying' \/ NoKeyWorks'
<1> USE ConnectAssumption
<1>1. /\ accepted = "no" /\ ~dialog
      /\ \A i \in 1..Len(out) : out[i].what # "public"
      /\ \A k \in known : k \in 1..NumKeys
      /\ out \in Seq(Packet) /\ dev_token \in Nat /\ key \in Nat /\ token \in Nat /\ NumKeys \in Nat
  BY DEF Trying, ConnectTypeOK
<1>2. ASSUME NEW w, Receives(w)
      PROVE  /\ w # "public"
             /\ \A i \in 1..Len(out') : out'[i].what # "public"
  <2>1. /\ out[1].what = w /\ 1 \in 1..Len(out)
        /\ \A i \in 1..Len(out') : i + 1 \in 1..Len(out) /\ out'[i] = out[i + 1]
    BY <1>1, <1>2, TailItems DEF Receives
  <2> QED BY <1>1, <2>1
<1>3. ASSUME NEW p \in Packet, out' = Append(out, p), p.what # "public"
      PROVE  \A i \in 1..Len(out') : out'[i].what # "public"
  <2>1. \A i \in 1..Len(out') :
            \/ i = Len(out) + 1 /\ out'[i] = p
            \/ i \in 1..Len(out) /\ out'[i] = out[i]
    BY <1>1, <1>3, AppendedPacket
  <2> QED BY <1>1, <1>3, <2>1
<1>4. CASE ConnectDevice
  BY <1>4 DEF Trying, ConnectDevice, Move, devVars
<1>5. CASE FlushBuffers
  BY <1>5 DEF Trying, FlushBuffers, Move, devVars
<1>6. CASE SendConnect
  <2> DEFINE p == Pkt("CNXN", "none", 0, 0)
  <2>1. p \in Packet /\ p.what # "public" BY PktType
  <2>2. out' = Append(out, p) /\ stage' = "await_first" /\ inp' = <<>>
        /\ accepted' = "no" /\ ~dialog'
    BY <1>1, <1>6 DEF SendConnect, Move, InStep, Apart, devVars
  <2> HIDE DEF p
  <2>3. \A i \in 1..Len(out') : out'[i].what # "public" BY <1>3, <2>1, <2>2
  <2> QED BY <2>2, <2>3 DEF Trying
<1>7. CASE FirstAnswer
  <2>1. /\ stage = "await_first" /\ TakeAnswer /\ inp # <<>> /\ Answer.cmd \in {"CNXN", "AUTH"}
        /\ UNCHANGED <<out, dev_token, accepted, dialog, known>>
    BY <1>7, Taken DEF FirstAnswer, TakeAnswer, devVars
  <2>2. Answer.cmd = "AUTH" => Answer.token = dev_token BY <2>1 DEF Trying, Answer
  <2>3. \A k \in known : 1 <= k BY <1>1
  <2> QED BY <1>1, <1>7, <2>1, <2>2, <2>3 DEF Trying, FirstAnswer
<1>8. CASE SendSignature
  <2> DEFINE p == Pkt("AUTH", "signature", key, token)
  <2>1. p \in Packet /\ p.what # "public" /\ p.key = key /\ p.token = token
    BY <1>1, PktType
  <2>2. /\ out' = Append(out, p) /\ stage = "sign" /\ stage' = "await_key" /\ inp' = <<>>
        /\ AllPublic(out)
        /\ UNCHANGED <<key, token, dev_token, accepted, dialog, known>>
    BY <1>8 DEF SendSignature, Move, InStep, Apart, devVars
  <2> HIDE DEF p
  <2>3. \A i \in 1..Len(out') : out'[i].what # "public" BY <1>3, <2>1, <2>2
  <2>4. out = <<>>
    <3>1. Len(out) = 0 BY <1>1, <2>2, Items DEF AllPublic
    <3> QED BY <1>1, <3>1, Items
  <2>5. Head(out') = p BY <2>2, <2>4
  <2> QED BY <1>1, <2>1, <2>2, <2>3, <2>5 DEF Trying
<1>9. CASE KeyAnswer
  <2>1. /\ stage = "await_key" /\ TakeAnswer /\ inp # <<>> /\ Answer.cmd \in {"CNXN", "AUTH"}
        /\ UNCHANGED <<out, dev_token, accepted, dialog, known>>
    BY <1>9, Taken DEF KeyAnswer, TakeAnswer, devVars
  <2>2. CASE Answer.cmd = "CNXN"
    BY <1>1, <1>9, <2>1, <2>2 DEF Trying, KeyAnswer
  <2>3. CASE Answer.cmd = "AUTH"
    <3>1. Answer.token = dev_token /\ key \notin known /\ \A k \in known : key <= k
      BY <2>1, <2>3 DEF Trying, Answer
    <3>2. \A k \in known : key + 1 <= k BY <1>1, <3>1
    <3>3. token' = Answer.token BY <1>9, <2>3 DEF KeyAnswer
    <3>4. CASE key < NumKeys
      <4>1. stage' = "sign" /\ key' = key + 1 BY <1>9, <2>3, <3>4 DEF KeyAnswer
      <4> QED BY <1>1, <2>1, <3>1, <3>2, <3>3, <4>1 DEF Trying
    <3>5. CASE ~(key < NumKeys)
      <4>1. known = {} BY <1>1, <3>2, <3>5
      <4> QED BY <2>1, <4>1 DEF NoKeyWorks
    <3> QED BY <3>4, <3>5
  <2> QED BY <2>1, <2>2, <2>3
<1>10. CASE OfferKey \/ AcceptAnswer
  BY <1>10 DEF Trying, OfferKey, AcceptAnswer, Move
<1>11. CASE ReadTimeout
  BY <1>11 DEF Trying, ReadTimeout, devVars
<1>12. CASE DevConnect
  <2>1. /\ Receives("none") /\ Challenge /\ dev_token' = dev_token + 1
        /\ UNCHANGED <<stage, accepted, dialog, known>>
    BY <1>12 DEF DevConnect, Challenge, hostVars
  <2>8. CASE stage \in Apart
    <3>1. \A i \in 1..Len(out') : out'[i].what # "public" BY <1>2, <2>1
    <3> QED BY <1>1, <2>1, <2>8, <3>1 DEF Trying, Apart
  <2> SUFFICES ASSUME stage \notin Apart PROVE Trying' BY <2>8
  <2>2. stage = "await_first" /\ Awaits("none") BY <2>1, Removed DEF InStep, Apart
  <2>3. inp = <<>> BY <2>1, <2>2, Removed
  <2> DEFINE p == Pkt("AUTH", "token", 0, dev_token + 1)
  <2>4. p \in Packet /\ p.token = dev_token + 1 BY <1>1, PktType
  <2>5. inp' = Append(inp, p) BY <2>1 DEF Challenge
  <2> HIDE DEF p
  <2>6. Head(inp') = p BY <2>3, <2>4, <2>5, Answered
  <2>7. \A i \in 1..Len(out') : out'[i].what # "public" BY <1>2, <2>1
  <2> QED BY <1>1, <2>1, <2>2, <2>4, <2>6, <2>7 DEF Trying
<1>13. CASE DevSignature
  <2>1. Receives("signature") /\ UNCHANGED <<stage, key, token, accepted, dialog, known>>
    BY <1>13 DEF DevSignature, hostVars
  <2>8. CASE stage \in Apart
    <3>1. \A i \in 1..Len(out') : out'[i].what # "public" BY <1>2, <2>1
    <3> QED BY <1>1, <2>1, <2>8, <3>1 DEF Trying, Apart
  <2> SUFFICES ASSUME stage \notin Apart PROVE Trying' BY <2>8
  <2>2. stage = "await_key" /\ Awaits("signature") BY <2>1, Removed DEF InStep, Apart
  <2>3. inp = <<>> BY <2>1, <2>2, Removed
  <2>4. /\ token = dev_token /\ Head(out).key = key /\ Head(out).token = dev_token
        /\ \A k \in known : key <= k
    BY <2>2, <2>3 DEF Trying
  <2>5. \A i \in 1..Len(out') : out'[i].what # "public" BY <1>2, <2>1
  <2>6. CASE key \in known
    <3> DEFINE p == Pkt("CNXN", "none", 0, 0)
    <3>1. p \in Packet /\ p.cmd = "CNXN" BY PktType
    <3>2. inp' = Append(inp, p) BY <1>13, <2>4, <2>6 DEF DevSignature, Welcome
    <3> HIDE DEF p
    <3>3. inp' # <<>> /\ Head(inp') = p BY <2>3, <3>1, <3>2, Answered
    <3> QED BY <1>1, <2>1, <2>2, <2>4, <2>5, <3>1, <3>3 DEF Trying
  <2>7. CASE key \notin known
    <3> DEFINE p == Pkt("AUTH", "token", 0, dev_token + 1)
    <3>1. p \in Packet /\ p.token = dev_token + 1 BY <1>1, PktType
    <3>2. inp' = Append(inp, p) /\ dev_token' = dev_token + 1
      BY <1>13, <2>4, <2>7 DEF DevSignature, Challenge
    <3> HIDE DEF p
    <3>3. inp' # <<>> /\ Head(inp') = p BY <2>3, <3>1, <3>2, Answered
    <3> QED BY <1>1, <2>1, <2>2, <2>4, <2>5, <2>7, <3>1, <3>2, <3>3 DEF Trying
  <2> QED BY <2>6, <2>7
<1>14. CASE DevPublicKey
  BY <1>2, <1>14 DEF DevPublicKey
<1> QED BY <1>4, <1>5, <1>6, <1>7, <1>8, <1>9, <1>10, <1>11, <1>12, <1>13, <1>14
        DEF Host, DevPacket

LEMMA KeysStep ==
  ASSUME ConnectTypeOK, InTime => InStep, ~overtaken, KeysInOrder, ConnectNext
  PROVE  KeysInOrder'
<1>1. CASE UserAccepts
  <2>1. dialog /\ accepted' # "no" /\ known' = known \cup {1}
    BY <1>1 DEF UserAccepts
  <2>2. NoKeyWorks BY <2>1 DEF KeysInOrder, Trying
  <2> QED BY <2>1, <2>2 DEF NoKeyWorks, KeysInOrder
<1>2. CASE Host \/ DevPacket
  <2>1. UNCHANGED <<accepted, known>>
    BY <1>2 DEF Host, DevPacket, ConnectDevice, FlushBuffers, SendConnect, FirstAnswer,
           SendSignature, KeyAnswer, OfferKey, AcceptAnswer, ReadTimeout, DevConnect,
           DevSignature, DevPublicKey, devVars
  <2>2. NoKeyWorks => NoKeyWorks' BY <2>1 DEF NoKeyWorks
  <2>3. Trying => InTime BY DEF Trying, InTime
  <2>4. Trying => Trying' \/ NoKeyWorks' BY <1>2, <2>3, TryingStep
  <2> QED BY <2>2, <2>4 DEF KeysInOrder
<1> QED BY <1>1, <1>2 DEF ConnectNext

-----------------------------------------------------------------------------
LEMMA ConnectInvHolds == ConnectSpec => []ConnectInv
<1>1. ConnectInv /\ [ConnectNext]_connectVars => ConnectInv'
  <2> SUFFICES ASSUME ConnectInv, [ConnectNext]_connectVars PROVE ConnectInv' OBVIOUS
  <2>1. CASE ConnectNext
    <3>1. ConnectTypeOK' BY <2>1, TypeStep DEF ConnectInv
    <3>2. TokensMade' BY <2>1, TokensStep DEF ConnectInv
    <3>3. InTime' => InStep' BY <2>1, InStepStep DEF ConnectInv
    <3>4. ~overtaken' => KeysInOrder' BY <2>1, OvertakenStays, KeysStep DEF ConnectInv
    <3> QED BY <3>1, <3>2, <3>3, <3>4 DEF ConnectInv
  <2>2. CASE UNCHANGED connectVars
    BY <2>2 DEF ConnectInv, ConnectTypeOK, TokensMade, InStep, InTime, KeysInOrder, Trying,
                NoKeyWorks, Awaits, AllPublic, NoConnect, connectVars, hostVars, devVars
  <2> QED BY <2>1, <2>2
<1> QED BY InitInv, <1>1, PTL DEF ConnectSpec

(* Type correctness: a key is one of rsa_keys, and a token one that adbd   *)
(* has made.                                                               *)
THEOREM ConnectTypeCorrect == ConnectSpec => []ConnectTypeOK
<1>1. ConnectInv => ConnectTypeOK BY DEF ConnectInv
<1> QED BY ConnectInvHolds, <1>1, PTL

(* When Connect returns, adbd serves the host, for any number of keys and  *)
(* attempts and however early a read times out, unless the user accepted a *)
(* key while a retry was under way or a retry overtook adbd's answer to an *)
(* earlier attempt.                                                        *)
THEOREM ConnectReturnsOnline == ConnectSpec => []ConnectedMeansOnline
<1>1. ConnectInv => ConnectedMeansOnline
  BY DEF ConnectInv, InStep, InTime, ConnectedMeansOnline
<1> QED BY ConnectInvHolds, <1>1, PTL

(* The public key is offered to adbd only when it knows none of the keys,  *)
(* unless a retry has overtaken a challenge.                               *)
THEOREM OfferIsLastResort == ConnectSpec => []OfferMeansNoKeyWorks
<1>1. ConnectInv => OfferMeansNoKeyWorks
  BY DEF ConnectInv, KeysInOrder, Trying, NoKeyWorks, OfferMeansNoKeyWorks
<1> QED BY ConnectInvHolds, <1>1, PTL
=============================================================================
