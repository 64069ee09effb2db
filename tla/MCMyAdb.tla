------------------------------ MODULE MCMyAdb ------------------------------
(***************************************************************************)
(* MyAdb with interactive shells whose prompt looks like one at once or    *)
(* after some output, or never, and output that looks like a prompt.       *)
(***************************************************************************)
EXTENDS MyAdb

SomePrompts == {<<5, 3>>, <<6, 2>>, <<8, 2>>, <<8, 3>>}
=============================================================================
