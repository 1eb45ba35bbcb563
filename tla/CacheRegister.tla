---------------------------- MODULE CacheRegister ----------------------------
(***************************************************************************)
(* CacheStore with the history PreviewRegister asks for, and the statement *)
(* that the files implement the register.                                  *)
(***************************************************************************)
EXTENDS CacheStore

VARIABLE seen  \* history: what the register held since a load began

\* The generation a reader of the disk would find now.
Value == IF pointer \in Ids /\ files[pointer] = "complete" THEN pointer ELSE Empty

Register == INSTANCE PreviewRegister WITH value <- Value, hurt <- damages > 0

Observe ==
    seen' = [p \in Procs |-> IF task'[p] = "load" THEN seen[p] \cup {Value'} ELSE {}]

RegisterInit == Init /\ seen = [p \in Procs |-> {}]
RegisterSpec == RegisterInit /\ [][Next /\ Observe]_<<vars, seen>>

\* Evictions, crashes, failed writes and copies to quarantine/ leave the
\* register alone; a write sets it with the rename of current.json; a load
\* returns a whole generation that was current while it ran, and misses one
\* only if it was replaced or damaged meanwhile.
ImplementsRegister == Register!Spec

=============================================================================
