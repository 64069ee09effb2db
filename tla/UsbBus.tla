------------------------------- MODULE UsbBus -------------------------------
(***************************************************************************)
(* The USB bus as libusb shows it: ports where a device may be plugged in, *)
(* unplugged and plugged in again, and the claim of its interface, which   *)
(* one open device handle of one process has at a time.  It is external.   *)
(***************************************************************************)
EXTENDS Naturals

CONSTANTS
  Ports,           \* port paths
  Handles,         \* the UsbHandle objects of a program that uses adb/
  Pool,            \* the DevicePool of a program that uses libadb/ or myadb/
  Nobody,
  Loose,           \* bound: the ports whose device may be unplugged
  MaxReplugs,      \* bound: devices plugged in anew
  MaxPackets       \* bound: packets in the pipe of a device

ASSUME BusAssumption ==
  /\ Ports # {}
  /\ Pool \notin Handles
  /\ Nobody \notin Handles \cup {Pool}
  /\ Loose \subseteq Ports
  /\ MaxReplugs \in Nat
  /\ MaxPackets \in Nat

VARIABLES
  replugs,         \* how many have been
  plugs,           \* which device was the last to be plugged in at a port
  present,         \* whether the last of them still is
  claim,           \* who has claimed its interface
  pipe             \* packets it has written and nobody has read

busVars == <<replugs, plugs, present, claim, pipe>>

-----------------------------------------------------------------------------
BusInit ==
  /\ replugs = 0
  /\ plugs = [p \in Ports |-> 1]
  /\ present = [p \in Ports |-> TRUE]
  /\ claim = [p \in Ports |-> Nobody]
  /\ pipe \in [Ports -> 0..MaxPackets]

Unplug(p) ==
  /\ p \in Loose
  /\ present[p]
  /\ present' = [present EXCEPT ![p] = FALSE]
  /\ claim' = [claim EXCEPT ![p] = Nobody]
  /\ pipe' = [pipe EXCEPT ![p] = 0]
  /\ UNCHANGED <<replugs, plugs>>

PlugIn(p) ==
  /\ ~present[p]
  /\ replugs < MaxReplugs
  /\ replugs' = replugs + 1
  /\ plugs' = [plugs EXCEPT ![p] = @ + 1]
  /\ present' = [present EXCEPT ![p] = TRUE]
  /\ UNCHANGED <<claim, pipe>>

(* A device handle is opened and its interface claimed: LIBUSB_ERROR_BUSY  *)
(* while another has it, LIBUSB_ERROR_NO_DEVICE if the device that was     *)
(* enumerated as number n is not there any more.                           *)
Usable(p, n) == present[p] /\ plugs[p] = n
Claims(p, n, who) ==
  /\ Usable(p, n)
  /\ claim[p] = Nobody
  /\ claim' = [claim EXCEPT ![p] = who]

Releases(p, who) ==
  claim' = IF claim[p] = who THEN [claim EXCEPT ![p] = Nobody] ELSE claim

BusTypeOK ==
  /\ replugs \in 0..MaxReplugs
  /\ plugs \in [Ports -> Nat \ {0}]
  /\ present \in [Ports -> BOOLEAN]
  /\ claim \in [Ports -> Handles \cup {Pool, Nobody}]
  /\ pipe \in [Ports -> 0..MaxPackets]
=============================================================================
