---------------------------- MODULE MCCacheStore -----------------------------
(***************************************************************************)
(* Two processes that write and load; four ids, so that with a cap of two  *)
(* generations there is an eviction, an orphan and a fresh one.            *)
(***************************************************************************)
EXTENDS CacheRegister, TLC

Symmetry == Permutations(Procs) \cup Permutations(Ids)

=============================================================================
