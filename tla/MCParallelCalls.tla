-------------------------- MODULE MCParallelCalls --------------------------
(* Three tasks, with every limit the clamps treat differently: negative,   *)
(* zero, one, between one and the number of tasks, and above it.           *)
EXTENDS ParallelCalls

MCLimitArgs == {-1, 0, 1, 2, 3, 7}
=============================================================================
