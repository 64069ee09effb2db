----------------------------- MODULE MCAdbShell -----------------------------
(* The instances of AdbShell that TLC checks: two calls from one user      *)
(* thread, with at most one frame of an earlier process (of its stream 12) *)
(* in the pipe.                                                            *)
EXTENDS AdbShell

OneThread == [c \in Shells |-> 1]

NoStaleFrames == { <<>> }
StaleFrames ==
  { <<>>, << Msg("OKAY", 3, 12, NoData) >>, << Msg("WRTE", 3, 12, <<3, 1>>) >> }
=============================================================================
