--------------------------- MODULE MCDetailRescan ---------------------------
(***************************************************************************)
(* A root with a directory, and a directory in that.                       *)
(***************************************************************************)
EXTENDS DetailRescanInv, TLC

CONSTANTS root, sub, leaf

TestWay == [d \in Dirs |-> IF d = root THEN <<root>> ELSE IF d = sub THEN <<root, sub>> ELSE <<root, sub, leaf>>]

=============================================================================
