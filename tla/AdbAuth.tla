------------------------------ MODULE AdbAuth ------------------------------
(***************************************************************************)
(* AndroidDevice.authenticate of libadb/device.py: the constructor of a    *)
(* device runs the CNXN / AUTH handshake over the multiplexer, whose two   *)
(* threads are already running, and so already acknowledge whatever frame  *)
(* the pipe still holds.                                                   *)
(***************************************************************************)
EXTENDS AdbDaemon

VARIABLES
  auth_pc,         \* where authenticate() stands
  auth_token       \* the token it signs

authVars == <<auth_pc, auth_token>>

AuthPc == {"connect", "connect_data", "await_first", "sign", "sign_data",
           "await_second", "offer_key", "offer_key_data", "done", "failed"}

Goto(from, to) == auth_pc = from /\ auth_pc' = to

SendConnect ==
  \/ /\ Goto("connect", "connect_data")
     /\ PutHeader(Msg("CNXN", 1, 0, NoData))
     /\ UNCHANGED <<auth_token, daemonVars>>
  \/ /\ Goto("connect_data", "await_first")
     /\ PutPayload(Msg("CNXN", 1, 0, NoData))
     /\ UNCHANGED <<auth_token, daemonVars>>

(* The first answer: connected, or a token to sign.                        *)
FirstAnswer ==
  /\ auth_pc = "await_first"
  /\ Take(Default)
  /\ IF Response(Default).cmd = "AUTH"
       THEN auth_pc' = "sign" /\ auth_token' = Response(Default).data
       ELSE auth_pc' = "done" /\ UNCHANGED auth_token
  /\ UNCHANGED daemonVars

SendSignature ==
  \/ /\ Goto("sign", "sign_data")
     /\ PutHeader(Msg("AUTH", 2, 0, auth_token))
     /\ UNCHANGED <<auth_token, daemonVars>>
  \/ /\ Goto("sign_data", "await_second")
     /\ PutPayload(Msg("AUTH", 2, 0, auth_token))
     /\ UNCHANGED <<auth_token, daemonVars>>

(* Mutant of SecondAnswer: the command of the answer is not looked at.     *)
SecondAnswerUnchecked ==
  /\ Goto("await_second", "done")
  /\ Take(Default)
  /\ UNCHANGED <<auth_token, daemonVars>>

(* The second answer: connected, or "none of the keys worked".             *)
SecondAnswer ==
  /\ auth_pc = "await_second"
  /\ Take(Default)
  /\ auth_pc' = IF Response(Default).cmd = "CNXN" THEN "done" ELSE "offer_key"
  /\ UNCHANGED <<auth_token, daemonVars>>

(* After the public key, receive([CNXN], timeout=5000) passes the list as  *)
(* local_id, and looking up a list in a dict raises TypeError: the         *)
(* constructor fails whatever the user of the device answers.              *)
OfferKey ==
  \/ /\ Goto("offer_key", "offer_key_data")
     /\ PutHeader(Msg("AUTH", 3, 0, NoData))
     /\ UNCHANGED <<auth_token, daemonVars>>
  \/ /\ Goto("offer_key_data", "failed")
     /\ PutPayload(Msg("AUTH", 3, 0, NoData))
     /\ UNCHANGED <<auth_token, daemonVars>>

Authenticate ==
  \/ SendConnect
  \/ FirstAnswer
  \/ SendSignature
  \/ SecondAnswer
  \/ OfferKey

AuthVars == <<protocolVars, daemonVars, authVars>>

AuthInit ==
  /\ ProtocolInit
  /\ DaemonInit
  /\ auth_pc = "connect"
  /\ auth_token = NoData

AuthNext ==
  \/ HostThreads /\ UNCHANGED <<daemonVars, authVars>>
  \/ Daemon /\ UNCHANGED authVars
  \/ Authenticate

AuthSpec == AuthInit /\ [][AuthNext]_AuthVars

(* Type correctness of the multiplexer, of adbd and of authenticate().     *)
AuthTypeOK ==
  /\ ProtocolTypeOK
  /\ DaemonTypeOK
  /\ auth_pc \in AuthPc
  /\ auth_token \in Data

-----------------------------------------------------------------------------
(* A host that believes it is connected talks to a daemon that serves its  *)
(* streams (device.py, authenticate returning normally): otherwise every   *)
(* OPEN it sends is dropped and shell() waits forever, since receive has   *)
(* no timeout.                                                             *)
ConnectedMeansOnline == auth_pc = "done" /\ dev_up => dev_auth = "online"

(* No frame of an earlier host process is left in the pipe, in the hands   *)
(* of the receive thread or in a queue once authenticate() has returned,   *)
(* so that shell() can start from id 12 again.                             *)
FromStale(m) == m.arg0 \in StaleIds /\ ~IsHandshake(m)
NoStaleAfterConnect ==
  auth_pc = "done" =>
    /\ \A i \in 1..Len(usb_in) : ~FromStale(usb_in[i])
    /\ \A k \in LocalIds : \A i \in 1..Len(receive_queue[k]) : ~FromStale(receive_queue[k][i])
    /\ rx_pc \in {"ack", "deliver"} => ~FromStale(rx_msg)

(* authenticate() returns or raises: it never waits for an answer that     *)
(* does not come, unless the packet stream was broken.                     *)
AuthenticateEnds == <>(auth_pc \in {"done", "failed"} \/ ~dev_up)
=============================================================================
