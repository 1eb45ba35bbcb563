------------------------ MODULE MCPermanentDirectory ------------------------
(***************************************************************************)
(* The tree of the tests of permanent_delete_command.rs: a directory with a *)
(* file and a nested directory that holds another file.                    *)
(***************************************************************************)
EXTENDS PermanentDirectoryInv

\* Postorder: 1 = a, 2 = nested/b, 3 = nested, 4 = the root.
TestSize == 4
TestDirectories == {3, 4}
TestAncestors == [i \in 1 .. 4 |-> CASE i \in {1, 3} -> {4}
                                     [] i = 2 -> {3, 4}
                                     [] i = 4 -> {}]

=============================================================================
