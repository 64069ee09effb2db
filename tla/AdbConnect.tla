----------------------------- MODULE AdbConnect -----------------------------
(***************************************************************************)
(* AdbMessage.Connect of adb/adb_protocol.py, called by ConnectDevice of   *)
(* adb/adb_commands.py after FindAndOpen has flushed the pipe.  A program  *)
(* whose attempt has raised may make another on a new handle.              *)
(*                                                                         *)
(* Keys are numbered in the order of rsa_keys.  adbd and the user of the   *)
(* device are external; adbd always asks for a signature, and the AUTH it  *)
(* sends is always AUTH_TOKEN, so that InvalidResponseError does not       *)
(* occur.                                                                  *)
(***************************************************************************)
EXTENDS Naturals, Sequences

CONSTANTS
  NumKeys,         \* Len(rsa_keys)
  MaxAttempts      \* bound: calls of ConnectDevice

ASSUME ConnectAssumption ==
  /\ NumKeys \in Nat
  /\ MaxAttempts \in Nat

VARIABLES
  stage,           \* where the program stands
  attempt,         \* the number of the last attempt
  key,             \* rsa_key
  token,           \* banner, when it is a token
  out,             \* packets adbd has not yet read
  inp,             \* packets the host has not yet read
  online,          \* whether adbd serves this host
  dev_token,       \* the last token adbd has made
  dialog,          \* whether the user is asked to accept a key
  accepted,        \* whether, and when, the user has
  known,           \* the keys adbd knows
  overtaken        \* history: a retry has overtaken what it sent before

hostVars == <<stage, attempt, key, token>>
devVars == <<online, dev_token, dialog, accepted, known>>
connectVars == <<hostVars, out, inp, devVars, overtaken>>

Stages == {"idle", "flush", "connect", "await_first", "sign", "await_key",
           "offer", "await_accept", "connected"}
Packet == [cmd : {"CNXN", "AUTH"}, what : {"none", "token", "signature", "public"},
           key : Nat, token : Nat]
Pkt(cmd, what, k, t) == [cmd |-> cmd, what |-> what, key |-> k, token |-> t]

Move(from, to) == stage = from /\ stage' = to
Unanswered == \E i \in DOMAIN out : out[i].what # "public"
Answer == Head(inp)
TakeAnswer == inp # <<>> /\ inp' = Tail(inp)

-----------------------------------------------------------------------------
ConnectDevice ==
  /\ attempt < MaxAttempts
  /\ Move("idle", "flush")
  /\ attempt' = attempt + 1
  /\ UNCHANGED <<key, token, out, inp, devVars, overtaken>>

(* Mutant of FlushBuffers: nothing is read (as in libadb/handle.py).       *)
FlushNothing ==
  /\ Move("flush", "connect")
  /\ overtaken' = (overtaken \/ Unanswered)
  /\ UNCHANGED <<attempt, key, token, out, inp, devVars>>

(* FlushBuffers reads until a read of 10 ms times out, which may be before *)
(* adbd has answered what an earlier attempt sent.                         *)
FlushBuffers ==
  /\ IF inp # <<>>
       THEN inp' = Tail(inp) /\ stage = "flush" /\ UNCHANGED <<stage, overtaken>>
       ELSE Move("flush", "connect") /\ UNCHANGED inp
              /\ overtaken' = (overtaken \/ Unanswered)
  /\ UNCHANGED <<attempt, key, token, out, devVars>>

SendConnect ==
  /\ Move("connect", "await_first")
  /\ out' = Append(out, Pkt("CNXN", "none", 0, 0))
  /\ UNCHANGED <<attempt, key, token, inp, devVars, overtaken>>

(* Mutant of FirstAnswer: the first key is left out.                       *)
FirstAnswerSecondKey ==
  /\ stage = "await_first"
  /\ TakeAnswer
  /\ IF Answer.cmd = "CNXN"
       THEN stage' = "connected" /\ UNCHANGED <<key, token>>
       ELSE stage' = "sign" /\ key' = 2 /\ token' = Answer.token
  /\ UNCHANGED <<attempt, out, devVars, overtaken>>

FirstAnswer ==
  /\ stage = "await_first"
  /\ TakeAnswer
  /\ IF Answer.cmd = "CNXN"
       THEN stage' = "connected" /\ UNCHANGED <<key, token>>
       ELSE IF NumKeys = 0
         THEN stage' = "idle" /\ UNCHANGED <<key, token>>
         ELSE stage' = "sign" /\ key' = 1 /\ token' = Answer.token
  /\ UNCHANGED <<attempt, out, devVars, overtaken>>

SendSignature ==
  /\ Move("sign", "await_key")
  /\ out' = Append(out, Pkt("AUTH", "signature", key, token))
  /\ UNCHANGED <<attempt, key, token, inp, devVars, overtaken>>

(* Mutant of KeyAnswer: the first token is signed again.                   *)
KeyAnswerSameToken ==
  /\ stage = "await_key"
  /\ TakeAnswer
  /\ IF Answer.cmd = "CNXN"
       THEN stage' = "connected" /\ UNCHANGED key
       ELSE IF key < NumKeys
         THEN stage' = "sign" /\ key' = key + 1
         ELSE stage' = "offer" /\ UNCHANGED key
  /\ UNCHANGED <<attempt, token, out, devVars, overtaken>>

(* Each key signs the token that came with the refusal of the one before.  *)
KeyAnswer ==
  /\ stage = "await_key"
  /\ TakeAnswer
  /\ IF Answer.cmd = "CNXN"
       THEN stage' = "connected" /\ UNCHANGED <<key, token>>
       ELSE /\ token' = Answer.token
            /\ IF key < NumKeys
                 THEN stage' = "sign" /\ key' = key + 1
                 ELSE stage' = "offer" /\ UNCHANGED key
  /\ UNCHANGED <<attempt, out, devVars, overtaken>>

OfferKey ==
  /\ Move("offer", "await_accept")
  /\ out' = Append(out, Pkt("AUTH", "public", 1, 0))
  /\ UNCHANGED <<attempt, key, token, inp, devVars, overtaken>>

(* Only CNXN is expected: of an AUTH the header is skipped, and its        *)
(* payload cannot be unpacked.                                             *)
AcceptAnswer ==
  /\ stage = "await_accept"
  /\ TakeAnswer
  /\ stage' = IF Answer.cmd = "CNXN" THEN "connected" ELSE "idle"
  /\ UNCHANGED <<attempt, key, token, out, devVars, overtaken>>

(* The read after the public key has a timeout of 100 ms, the others       *)
(* default_timeout_ms of the handle, which the program chooses: each may   *)
(* pass before adbd, or the user, has answered.                            *)
ReadTimeout ==
  /\ stage \in {"await_first", "await_key", "await_accept"}
  /\ inp = <<>>
  /\ stage' = "idle"
  /\ UNCHANGED <<attempt, key, token, out, inp, devVars, overtaken>>

Host ==
  \/ ConnectDevice
  \/ FlushBuffers
  \/ SendConnect
  \/ FirstAnswer
  \/ SendSignature
  \/ KeyAnswer
  \/ OfferKey
  \/ AcceptAnswer
  \/ ReadTimeout

-----------------------------------------------------------------------------
Receives(what) == out # <<>> /\ Head(out).what = what /\ out' = Tail(out)
Challenge ==
  /\ dev_token' = dev_token + 1
  /\ inp' = Append(inp, Pkt("AUTH", "token", 0, dev_token + 1))
Welcome ==
  /\ online' = TRUE
  /\ inp' = Append(inp, Pkt("CNXN", "none", 0, 0))

DevConnect ==
  /\ Receives("none")
  /\ online' = FALSE
  /\ Challenge
  /\ UNCHANGED <<hostVars, dialog, accepted, known, overtaken>>

DevSignature ==
  /\ Receives("signature")
  /\ IF Head(out).key \in known /\ Head(out).token = dev_token
       THEN Welcome /\ UNCHANGED dev_token
       ELSE Challenge /\ UNCHANGED online
  /\ UNCHANGED <<hostVars, dialog, accepted, known, overtaken>>

DevPublicKey ==
  /\ Receives("public")
  /\ dialog' = TRUE
  /\ UNCHANGED <<hostVars, inp, online, dev_token, accepted, known, overtaken>>

(* The user accepts at any time: while the program waits for it or has     *)
(* given up, or late, when a retry has flushed the pipe and begun.         *)
Accepts == {"no", "in time", "late"}
UserAccepts ==
  /\ dialog
  /\ dialog' = FALSE
  /\ accepted' = IF accepted # "late" /\ stage \in {"await_accept", "idle", "flush"}
                   THEN "in time" ELSE "late"
  /\ known' = known \cup {1}
  /\ Welcome
  /\ UNCHANGED <<hostVars, out, dev_token, overtaken>>

DevPacket ==
  \/ DevConnect
  \/ DevSignature
  \/ DevPublicKey

ConnectInit ==
  /\ stage = "idle"
  /\ attempt = 0
  /\ key = 0
  /\ token = 0
  /\ out = <<>>
  /\ inp = <<>>
  /\ online \in BOOLEAN
  /\ dev_token = 0
  /\ dialog = FALSE
  /\ accepted = "no"
  /\ known \in SUBSET (1..NumKeys)
  /\ overtaken = FALSE

ConnectNext == Host \/ DevPacket \/ UserAccepts
ConnectSpec == ConnectInit /\ [][ConnectNext]_connectVars

(* The program goes on, and adbd reads its packets; the user does what     *)
(* they like.                                                              *)
FairConnectSpec == ConnectSpec /\ WF_connectVars(Host) /\ WF_connectVars(DevPacket)

-----------------------------------------------------------------------------
(* Type correctness of the handshake.                                      *)
ConnectTypeOK ==
  /\ stage \in Stages
  /\ attempt \in 0..MaxAttempts
  /\ key \in 0..NumKeys
  /\ token \in 0..dev_token
  /\ out \in Seq(Packet)
  /\ inp \in Seq(Packet)
  /\ online \in BOOLEAN
  /\ dev_token \in Nat
  /\ dialog \in BOOLEAN
  /\ accepted \in Accepts
  /\ known \subseteq 1..NumKeys
  /\ overtaken \in BOOLEAN

(* "Accept auth key on device, then retry" (the message of Connect's       *)
(* DeviceAuthError): when Connect returns, adbd serves the host, in a      *)
(* first attempt or in a later one, although nothing in a CNXN says what   *)
(* it answers.  It may be that of a key accepted after the flush of a      *)
(* retry, or, when a read has timed out early, adbd's answer to an earlier *)
(* attempt that came after the flush: only after one of the two may        *)
(* Connect return to a program that adbd does not serve.                   *)
ConnectedMeansOnline ==
  stage = "connected" /\ ~online => accepted = "late" \/ overtaken

(* "None of the keys worked, so send a public key" (the comment in         *)
(* Connect): the dialog is only shown when adbd knows none of the keys,    *)
(* unless a retry has overtaken a challenge to an earlier attempt, since   *)
(* each signature is then of a token that adbd has replaced.               *)
OfferMeansNoKeyWorks ==
  (stage \in {"offer", "await_accept"} \/ dialog) /\ ~overtaken =>
    known \subseteq (IF accepted = "no" THEN {} ELSE {1})

(* Once the user has accepted, a further attempt connects, unless a read   *)
(* times out while adbd has yet to answer.                                 *)
TimedOutEarly == stage = "idle" /\ Unanswered
RetryConnects ==
  (accepted # "no" /\ stage = "idle" /\ attempt < MaxAttempts) ~>
    (stage = "connected" \/ TimedOutEarly \/ overtaken)
=============================================================================
