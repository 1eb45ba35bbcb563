---------------------------- MODULE MCAuditStore ----------------------------
(* Instances of AuditStore for TLC.                                        *)
EXTENDS AuditStoreInv, TLC

CONSTANTS s1, s2, s3, p1, p2

\* Two stores opened by one process and one by a second; or one process only.
ThreeStores == s1 :> p1 @@ s2 :> p1 @@ s3 :> p2
OneProcess == [s \in Stores |-> p1]

\* Authorizations, actions and paths are interchangeable.
Symmetry == Permutations(Auths) \cup Permutations(Actions) \cup Permutations(Paths)
=============================================================================
