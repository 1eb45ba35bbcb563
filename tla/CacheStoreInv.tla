---------------------------- MODULE CacheStoreInv ----------------------------
(***************************************************************************)
(* The inductive invariants of CacheStore and of its refinement.           *)
(***************************************************************************)
EXTENDS CacheRegister

Evicting == {"baseline", "repair"}
BeforeFile == {"repair", "admitted", "written"}
AfterFile == {"pointer", "pointer_written"}

\* The sessions are where the lock is.
LockInv == \A p \in Procs : pc[p] \in SessionPCs <=> lock = p

\* What a process is doing says where it can be, and what its target is.
TaskInv ==
    \A p \in Procs :
        /\ task[p] = "none" <=> pc[p] = "idle"
        /\ pc[p] \in {"read_pointer", "read_generation"} => task[p] = "load"
        /\ pc[p] \in AfterFile => task[p] = "write"
        /\ pc[p] = "read_generation" => target[p] \in Ids
        /\ task[p] = "load" /\ pc[p] # "read_pointer" =>
               target[p] \in Ids \cup {Malformed}
        /\ task[p] = "write" /\ pc[p] \in BeforeFile \cup AfterFile => target[p] \in Ids

\* Only the holder of the lock has a temporary that is not an orphan.
TempInv == \A p \in Procs : pc[p] \in WithTemp => temps > 0

NoiseInv == noise <= unknown

\* A plan spares the current generation.
VictimInv == \A p \in Procs : pc[p] \in Evicting => pointer \notin victims[p]

\* What is about to be committed is there.
CommitInv == \A p \in Procs : pc[p] \in AfterFile => files[target[p]] # "absent"

IInv ==
    /\ TypeOK
    /\ LockInv
    /\ TaskInv
    /\ TempInv
    /\ NoiseInv
    /\ VictimInv
    /\ CommitInv
    /\ CurrentIsPresent

-----------------------------------------------------------------------------
(* For the refinement.                                                     *)

\* The id of a generation that is not yet written is known to its writer only.
FreshInv ==
    \A p \in Procs :
        task[p] = "write" /\ pc[p] \in BeforeFile =>
            /\ files[target[p]] = "absent"
            /\ \A q \in Procs : q # p => target[q] # target[p]

DamageInv == \A g \in Ids : files[g] = "damaged" => damages > 0

MayMiss(p) == Empty \in seen[p] \/ \E v, w \in seen[p] : v # w

\* A load has seen the value there is, and either the generation it is about
\* to read or a reason to miss it.
SeenInv ==
    /\ seen \in [Procs -> SUBSET (Ids \cup {Empty})]
    /\ \A p \in Procs :
        /\ task[p] # "load" => seen[p] = {}
        /\ task[p] = "load" => Value \in seen[p]
        /\ pc[p] = "read_generation" =>
               \/ target[p] \in seen[p]
               \/ Empty \in seen[p] /\ files[target[p]] # "complete"
        /\ task[p] = "load" /\ pc[p] \in {"enter"} \cup SessionPCs => MayMiss(p)

RInv == IInv /\ FreshInv /\ DamageInv /\ SeenInv

-----------------------------------------------------------------------------
(* For the limits of the store.                                            *)

\* Files that are counted can be counted, and generations are within their cap.
CountInv ==
    /\ IsFiniteSet(Present) /\ IsFiniteSet(evidence)
    /\ Cardinality(Present) <= GENERATION_CAP

\* What the pointer still needs once the generation is written, and what both
\* need together.
ThePointer == [generations |-> 0, bytes |-> 1, entries |-> 1]
RestOfWrite == [generations |-> 1, bytes |-> 1, entries |-> 1]

\* A session that was admitted has room for all it has still to create, beside
\* what other programs added since its inventory.
Room(p) ==
    /\ pc[p] \in Evicting => victims[p] \subseteq Present
    /\ pc[p] = "baseline" => Fits(noise, Nothing, Cardinality(victims[p]))
    /\ pc[p] = "repair" => Fits(noise, More(p), Cardinality(victims[p]))
    /\ pc[p] = "admitted" => Fits(noise, More(p), 0)
    /\ pc[p] = "written" /\ task[p] = "write" => Fits(noise, RestOfWrite, 0)
    /\ pc[p] = "pointer" => Fits(noise, ThePointer, 0)

RoomInv == \A p \in Procs : Room(p)

QInv == IInv /\ CountInv /\ RoomInv

=============================================================================
