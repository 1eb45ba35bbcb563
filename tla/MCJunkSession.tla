---------------------------- MODULE MCJunkSession ----------------------------
(***************************************************************************)
(* Small sessions: a mailbox of two events and three bytes is full after   *)
(* one candidate, and a change queue of one directory overflows.           *)
(***************************************************************************)
EXTENDS JunkSessionInv, TLC

CONSTANTS d1, d2

=============================================================================
