----------------------------- MODULE MCExecutor ------------------------------
(***************************************************************************)
(* Three actions, an approval of two time units and a permit of one, so    *)
(* that each of them expires, and the clock is set back, during a call.    *)
(***************************************************************************)
EXTENDS ExecutorInv

TestCount == 3
TestApprovalTTL == 2
TestPermitTTL == 1
TestMaxWall == 2

=============================================================================
