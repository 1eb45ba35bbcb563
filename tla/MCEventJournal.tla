---------------------------- MODULE MCEventJournal ----------------------------
(* Two writers and a reader, two operations, two databases.                 *)
EXTENDS EventJournalInv, TLC

CONSTANTS w1, w2, r1

Symmetry == Permutations(Writers)
=============================================================================
