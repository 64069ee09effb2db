-------------------------- MODULE MCDeviceSession --------------------------
(* An instance of DeviceSession: an empty file is pushed (SEND, DONE and   *)
(* QUIT, no DATA record) beside one shell command.                         *)
EXTENDS DeviceSession

ShortFile == [p \in Pushes |-> 0]
OneThread == [c \in Shells |-> 1]
NoStaleFrames == { <<>> }
=============================================================================
