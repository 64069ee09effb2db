---------------------------- MODULE MCFastboot ----------------------------
(* The instance of Fastboot that TLC checks: data that is one unit shorter *)
(* than its count, as long, or one unit longer.                            *)
EXTENDS Fastboot

FileSurpluses == {-1, 0, 1}
=============================================================================
