-------------------------- MODULE MCForwardServer --------------------------
(* Instances of ForwardServer: two clients of one forwarded port, one      *)
(* client of each of two forwarded ports, or one client behind a wire that *)
(* loses writes and payloads, where an earlier process may have left its   *)
(* frames (adbd's id 3, host id 13) or the token of its handshake.         *)
EXTENDS ForwardServer

OnePort == [w \in Workers |-> 1]
TwoPorts == [w \in Workers |-> w]
NoStaleFrames == { <<>> }
StaleTraffics ==
  { <<>>,
    << Challenge(1) >>,
    << Msg("WRTE", 3, 13, <<3, 1>>) >>,
    << Msg("OKAY", 3, 13, NoData) >>,
    << Msg("OKAY", 3, 13, NoData), Msg("WRTE", 3, 13, <<3, 1>>) >>,
    << Msg("WRTE", 3, 13, <<3, 1>>), Msg("CLSE", 3, 13, NoData) >> }
=============================================================================
