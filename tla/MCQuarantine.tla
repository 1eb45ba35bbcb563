---------------------------- MODULE MCQuarantine ----------------------------
(***************************************************************************)
(* A directory that holds a directory with a file, and a file beside it.   *)
(***************************************************************************)
EXTENDS QuarantineInv, TLC

CONSTANTS root, a, s, g, b, p1, p2

TestParent == a :> root @@ s :> a @@ g :> s @@ b :> root
TestAbove == {<<a, a>>, <<s, s>>, <<g, g>>, <<b, b>>, <<a, s>>, <<a, g>>, <<s, g>>}

\* Nothing tells one process from another.
Interchangeable == Permutations(Processes)

\* Bound: a second plan and run are explored when both plans hold the same one
\* object, a retry of what the first left behind, and at most one change was made.
IsRetry(c) == Len(c) <= 1 /\ \A i \in DOMAIN c : c[i].path = digests[1][1].path

RetriesOfOne ==
    pc # "idle" /\ (Run = 2 \/ (Run = 1 /\ ~Busy)) =>
        changes <= 1 /\ Len(digests[1]) = 1 /\ IsRetry(captures)

=============================================================================
