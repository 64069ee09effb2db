----------------------------- MODULE DevicePool -----------------------------
(***************************************************************************)
(* DevicePool of libadb/device_pool.py (PyADB.update_usb_devices of myadb  *)
(* is the same code): every device on the bus is claimed, connected and    *)
(* put into a dict, one after the other, and the first exception ends the  *)
(* refresh.  What has been claimed stays claimed, since the threads of an  *)
(* AndroidDevice that could not be authenticated go on holding its handle. *)
(***************************************************************************)
EXTENDS UsbBus

VARIABLES
  pool_pc,         \* where the thread that refreshes stands
  todo,            \* getDeviceList: the ports not yet looked at
  listed,          \* which device each port had when it was listed
  current,         \* the port whose device is being connected
  pooled,          \* self._usb_devices: which device at a port, 0 for none
  made,            \* whether there is a DevicePool object
  raised           \* whether a refresh of this process has raised

poolVars == <<pool_pc, todo, listed, current, pooled, made, raised>>

NoDevice == [p \in Ports |-> 0]
Enumerate ==
  /\ pool_pc = "idle"
  /\ pool_pc' = "scan"
  /\ todo' = {p \in Ports : present[p]}
  /\ listed' = [p \in Ports |-> IF present[p] THEN plugs[p] ELSE 0]

-----------------------------------------------------------------------------
(* DevicePool(): the dict is empty, then refresh_devices().                *)
NewPool ==
  /\ ~made
  /\ Enumerate
  /\ pooled' = NoDevice
  /\ UNCHANGED <<busVars, current, made, raised>>

Refresh ==
  /\ made
  /\ Enumerate
  /\ UNCHANGED <<busVars, current, pooled, made, raised>>

(* Mutant of ClaimNext: a device that cannot be claimed is passed over.    *)
ClaimNextOrSkip ==
  /\ pool_pc = "scan"
  /\ \E p \in todo :
       /\ todo' = todo \ {p}
       /\ IF Usable(p, listed[p]) /\ claim[p] = Nobody
            THEN Claims(p, listed[p], Pool) /\ pool_pc' = "connect" /\ current' = p
            ELSE UNCHANGED <<claim, pool_pc, current>>
  /\ UNCHANGED <<replugs, plugs, present, pipe, listed, pooled, made, raised>>

Leave == pool_pc' = "idle" /\ todo' = {} /\ listed' = NoDevice /\ current' = Nobody

(* device.open() and claimInterface, whose errors are not caught.          *)
ClaimNext ==
  /\ pool_pc = "scan"
  /\ \E p \in todo :
       /\ IF Usable(p, listed[p]) /\ claim[p] = Nobody
            THEN /\ Claims(p, listed[p], Pool)
                 /\ current' = p
                 /\ pool_pc' = "connect"
                 /\ todo' = todo \ {p}
                 /\ UNCHANGED <<listed, raised>>
            ELSE Leave /\ raised' = TRUE /\ UNCHANGED claim
  /\ UNCHANGED <<replugs, plugs, present, pipe, pooled, made>>

(* Mutant of Connect: the exception is caught, the next device goes on.    *)
ConnectSwallowed ==
  /\ pool_pc = "connect"
  /\ pool_pc' = "scan"
  /\ current' = Nobody
  /\ \/ pooled' = [pooled EXCEPT ![current] = listed[current]]
     \/ UNCHANGED pooled
  /\ UNCHANGED <<busVars, todo, listed, made, raised>>

(* AndroidDevice(...) authenticates: it returns, raises or never returns.  *)
Connect ==
  /\ pool_pc = "connect"
  /\ \/ /\ pool_pc' = "scan"
        /\ pooled' = [pooled EXCEPT ![current] = listed[current]]
        /\ current' = Nobody
        /\ UNCHANGED <<todo, listed, raised>>
     \/ Leave /\ raised' = TRUE /\ UNCHANGED pooled
  /\ UNCHANGED <<busVars, made>>

EndRefresh ==
  /\ pool_pc = "scan"
  /\ todo = {}
  /\ Leave
  /\ made' = TRUE
  /\ UNCHANGED <<busVars, pooled, raised>>

RefreshDevices ==
  \/ NewPool
  \/ Refresh
  \/ ClaimNext
  \/ Connect
  \/ EndRefresh

PoolInit ==
  /\ pool_pc = "idle"
  /\ todo = {}
  /\ listed = NoDevice
  /\ current = Nobody
  /\ pooled = NoDevice
  /\ made = FALSE
  /\ raised = FALSE

PoolTypeOK ==
  /\ pool_pc \in {"idle", "scan", "connect"}
  /\ todo \subseteq Ports
  /\ listed \in [Ports -> Nat]
  /\ current \in Ports \cup {Nobody}
  /\ pooled \in [Ports -> Nat]
  /\ made \in BOOLEAN
  /\ raised \in BOOLEAN

-----------------------------------------------------------------------------
Live(p) == pooled[p] # 0 /\ Usable(p, pooled[p])

(* A refresh that returns has missed nothing: every device that was listed *)
(* is in the dict, or has been unplugged, whatever was plugged in, pooled  *)
(* or opened by others before (refresh_devices: one exception for all).    *)
RefreshIsComplete ==
  pool_pc = "scan" /\ todo = {} =>
    \A p \in Ports : listed[p] # 0 /\ Usable(p, listed[p]) => Live(p)

(* As long as no refresh has raised, the pool has claimed exactly the      *)
(* devices it can give to a caller of get_device: a claim that nobody can  *)
(* use keeps every other program, and the pool itself, from the device.    *)
ClaimsArePooled ==
  ~raised /\ pool_pc # "connect" =>
    \A p \in Ports : claim[p] = Pool <=> Live(p)
=============================================================================
