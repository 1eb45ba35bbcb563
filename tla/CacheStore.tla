------------------------------ MODULE CacheStore ------------------------------
(***************************************************************************)
(* The preview cache: AtomicGenerationStore and GenerationWriteSession     *)
(* (crates/sweepx-cache/src/lib.rs, generation_state.rs) over the private  *)
(* directory of native/unix.rs.                                            *)
(*                                                                         *)
(* Processes write generations and load the current one.  A writer, and a  *)
(* loader that found damage and copies it to quarantine/, runs a session   *)
(* under the cooperative lock; a loader reads without it.  Every step can  *)
(* fail and every process can die; other programs add unknown files and    *)
(* damage bytes.  The lock of the state directory, taken before the lock   *)
(* of preview-cache/ and released after it, is one lock with it.           *)
(*                                                                         *)
(* Every file is one byte long.                                            *)
(***************************************************************************)
EXTENDS Integers, FiniteSets

CONSTANTS
    Procs,
    Ids,            \* generation ids
    Empty,          \* no pointer, no id
    Malformed,      \* a current.json that is not a pointer
    Nobody,
    GENERATION_CAP,
    ENTRY_CAP,
    BYTE_CAP,       \* STATE_DIRECTORY_BYTE_CAP
    MaxForeign,     \* files other programs add
    MaxDamage       \* files other programs damage

ASSUME CacheStoreAssumption ==
    /\ {Empty, Malformed} \cap Ids = {}
    /\ Empty # Malformed
    /\ Nobody \notin Procs
    /\ GENERATION_CAP \in Nat /\ ENTRY_CAP \in Nat /\ BYTE_CAP \in Nat
    /\ MaxForeign \in Nat /\ MaxDamage \in Nat

VARIABLES
    files,       \* generations/<id>.json
    pointer,     \* current.json
    temps,       \* .sweepx-<pid>-<n>.tmp files, whoever left them
    cabinet,     \* the directory quarantine/ exists
    evidence,    \* its files: ids, and Malformed for current.json
    unknown,     \* files no code of the store knows
    damages,
    lock,        \* holder of .lock
    pc,
    task,        \* what the process is doing
    target,      \* the id it writes or reads, or the name it quarantines
    victims,     \* generations its plan still has to evict
    touched,     \* victims whose metadata changed since the inventory
    noise,       \* unknown files added since the inventory
    answer       \* what its last call returned

disk == <<files, pointer, temps, cabinet, evidence>>
others == <<unknown, damages>>
inventory == <<touched, noise>>
call == <<task, target, answer>>
vars == <<files, pointer, temps, cabinet, evidence, unknown, damages, lock, pc,
          task, target, victims, touched, noise, answer>>

SessionPCs == {"open", "baseline", "ready", "repair", "admitted", "written",
               "pointer", "pointer_written"}
UnlockedPCs == {"read_pointer", "read_generation", "enter"}
WithTemp == {"written", "pointer_written"}

TypeOK ==
    /\ files \in [Ids -> {"absent", "complete", "damaged"}]
    /\ pointer \in Ids \cup {Empty, Malformed}
    /\ temps \in Nat
    /\ cabinet \in BOOLEAN
    /\ evidence \subseteq Ids \cup {Malformed}
    /\ unknown \in 0 .. MaxForeign
    /\ damages \in 0 .. MaxDamage
    /\ lock \in Procs \cup {Nobody}
    /\ pc \in [Procs -> {"idle"} \cup UnlockedPCs \cup SessionPCs]
    /\ task \in [Procs -> {"none", "write", "load"}]
    /\ target \in [Procs -> Ids \cup {Empty, Malformed}]
    /\ victims \in [Procs -> SUBSET Ids]
    /\ touched \subseteq Ids
    /\ noise \in 0 .. MaxForeign
    /\ answer \in [Procs -> [kind : {"none", "written", "hit", "miss", "error"},
                             id : Ids \cup {Empty}]]

Init ==
    /\ files = [g \in Ids |-> "absent"]
    /\ pointer = Empty
    /\ temps = 0
    /\ cabinet = FALSE
    /\ evidence = {}
    /\ unknown = 0
    /\ damages = 0
    /\ lock = Nobody
    /\ pc = [p \in Procs |-> "idle"]
    /\ task = [p \in Procs |-> "none"]
    /\ target = [p \in Procs |-> Empty]
    /\ victims = [p \in Procs |-> {}]
    /\ touched = {}
    /\ noise = 0
    /\ answer = [p \in Procs |-> [kind |-> "none", id |-> Empty]]

-----------------------------------------------------------------------------
(* The inventory and the plan of an eviction.                              *)

Present == {g \in Ids : files[g] # "absent"}
One(b) == IF b THEN 1 ELSE 0

Bytes ==
    One(pointer # Empty) + Cardinality(Present) + Cardinality(evidence)
      + temps + unknown

\* With .lock and the directories.
Entries == 2 + One(cabinet) + Bytes

\* The scan gives up at the first entry too many.
Counted == Entries <= ENTRY_CAP

Nothing == [generations |-> 0, bytes |-> 0, entries |-> 0]

\* Whether there is room for more once n victims are gone, by an inventory that
\* does not have the files that came late.
Fits(late, more, n) ==
    /\ Cardinality(Present) - n + more.generations <= GENERATION_CAP
    /\ Bytes - late - n + more.bytes <= BYTE_CAP
    /\ Entries - late - n + more.entries <= ENTRY_CAP

\* A pointer that cannot be read pins every generation.
Eligible == IF pointer = Malformed THEN {} ELSE Present \ {pointer}

\* Mutant: takes what there is, and leaves the refusal to the check at the end.
PlansWithoutPlanning(late, more) ==
    {V \in SUBSET Eligible : V = Eligible \/ Fits(late, more, Cardinality(V))}

\* prune takes victims by access time, which can be any order, until the rest
\* fits; there is no plan if all of them do not suffice.
Plans(late, more) ==
    {V \in SUBSET Eligible :
        /\ Fits(late, more, Cardinality(V))
        /\ V = {} \/ ~Fits(late, more, Cardinality(V) - 1)}

\* Mutant: the room for the pointer is forgotten.
MoreOfOneFile(p) ==
    IF task[p] = "write" THEN [generations |-> 1, bytes |-> 1, entries |-> 1]
    ELSE [generations |-> 0, bytes |-> 1, entries |-> 1 + One(~cabinet)]

\* A generation and the temporary of current.json; a copy and its directory.
More(p) ==
    IF task[p] = "write" THEN [generations |-> 1, bytes |-> 2, entries |-> 2]
    ELSE [generations |-> 0, bytes |-> 1, entries |-> 1 + One(~cabinet)]

-----------------------------------------------------------------------------
(* Calls.                                                                  *)

Reply(kind, g) == [kind |-> kind, id |-> g]

Goto(p, label) == pc' = [pc EXCEPT ![p] = label]

Start(p, what, label) ==
    /\ pc[p] = "idle"
    /\ Goto(p, label)
    /\ task' = [task EXCEPT ![p] = what]
    /\ answer' = [answer EXCEPT ![p] = Reply("none", Empty)]
    /\ UNCHANGED <<disk, others, inventory, lock, victims, target>>

Return(p, reply) ==
    /\ Goto(p, "idle")
    /\ task' = [task EXCEPT ![p] = "none"]
    /\ target' = [target EXCEPT ![p] = Empty]
    /\ victims' = [victims EXCEPT ![p] = {}]
    /\ answer' = [answer EXCEPT ![p] = reply]

\* A session that is dropped releases the lock.
Close(p, reply) ==
    /\ Return(p, reply)
    /\ lock' = IF lock = p THEN Nobody ELSE lock
    /\ IF lock = p THEN touched' = {} /\ noise' = 0 ELSE UNCHANGED inventory

StartWrite(p) == Start(p, "write", "enter")

StartLoad(p) == Start(p, "load", "read_pointer")

ReadPointer(p) ==
    /\ pc[p] = "read_pointer"
    /\ \/ /\ pointer = Empty
          /\ Return(p, Reply("miss", Empty))
       \/ /\ pointer # Empty
          /\ Goto(p, IF pointer = Malformed THEN "enter" ELSE "read_generation")
          /\ target' = [target EXCEPT ![p] = pointer]
          /\ UNCHANGED <<task, victims, answer>>
    /\ UNCHANGED <<disk, others, inventory, lock>>

\* Mutant: a generation that is gone is taken for the one the pointer names.
ReadGenerationUnchecked(p) ==
    /\ pc[p] = "read_generation"
    /\ Return(p, IF files[target[p]] = "absent" THEN Reply("miss", Empty)
                 ELSE Reply("hit", target[p]))
    /\ UNCHANGED <<disk, others, inventory, lock>>

\* The checksum tells damaged bytes.  Reading may advance the access time that
\* is part of a victim's metadata.
ReadGeneration(p) ==
    /\ pc[p] = "read_generation"
    /\ \/ /\ files[target[p]] = "absent"
          /\ Return(p, Reply("miss", Empty))
          /\ UNCHANGED touched
       \/ /\ files[target[p]] = "complete"
          /\ Return(p, Reply("hit", target[p]))
          /\ touched' \in {touched, touched \cup {target[p]}}
       \/ /\ files[target[p]] = "damaged"
          /\ Goto(p, "enter")
          /\ touched' \in {touched, touched \cup {target[p]}}
          /\ UNCHANGED <<call, victims>>
    /\ UNCHANGED <<disk, others, noise, lock>>

-----------------------------------------------------------------------------
(* Sessions.  Whatever cannot go on ends in Fail: a lock that is held, an  *)
(* admission without a plan, a victim that changed.                        *)

\* begin_write, and open_retained for a copy to quarantine/.
Lock(p) ==
    /\ pc[p] = "enter"
    /\ lock = Nobody
    /\ lock' = p
    /\ Goto(p, "open")
    /\ UNCHANGED <<disk, others, inventory, victims, call>>

\* Evicts first, if the plan says so.
Follow(p, plans, evict, next) ==
    \E V \in plans :
        /\ victims' = [victims EXCEPT ![p] = V]
        /\ Goto(p, IF V = {} THEN next ELSE evict)

TakeInventory ==
    /\ Counted
    /\ touched' = {}
    /\ noise' = 0

\* The inventory, and the eviction that brings the store back into its limits.
Baseline(p) ==
    /\ pc[p] = "open"
    /\ TakeInventory
    /\ Follow(p, Plans(0, Nothing), "baseline", "ready")
    /\ UNCHANGED <<disk, others, lock, call>>

\* One removal of prune, of a generation that is as it was.
Evict(p) ==
    /\ pc[p] \in {"baseline", "repair"}
    /\ \E g \in victims[p] \ touched :
        /\ files' = [files EXCEPT ![g] = "absent"]
        /\ victims' = [victims EXCEPT ![p] = @ \ {g}]
    /\ UNCHANGED <<pointer, temps, cabinet, evidence, others, inventory, lock,
                   pc, call>>

\* The inventory after the removals, and what it admits.
Recheck(p) ==
    /\ pc[p] \in {"baseline", "repair"}
    /\ victims[p] = {}
    /\ TakeInventory
    /\ \/ /\ pc[p] = "baseline"
          /\ Fits(0, Nothing, 0)
          /\ Goto(p, "ready")
       \/ /\ pc[p] = "repair"
          /\ Fits(0, More(p), 0)
          /\ Goto(p, "admitted")
    /\ UNCHANGED <<disk, others, lock, victims, call>>

\* Ids hold a timestamp and do not come back: an id that no file and no call
\* holds any longer stands for a new one.
Fresh(g) ==
    /\ files[g] = "absent"
    /\ pointer # g
    /\ g \notin evidence
    /\ \A q \in Procs : target[q] # g

\* reserve.  A copy is admitted by the inventory the session began with.
Reserve(p) ==
    /\ pc[p] = "ready"
    /\ \/ /\ task[p] = "write"
          /\ \E g \in Ids : Fresh(g) /\ target' = [target EXCEPT ![p] = g]
          /\ TakeInventory
          /\ Follow(p, Plans(0, More(p)), "repair", "admitted")
       \/ /\ task[p] = "load"
          /\ Follow(p, Plans(noise, More(p)), "repair", "admitted")
          /\ UNCHANGED <<target, inventory>>
    /\ UNCHANGED <<disk, others, lock, task, answer>>

MakeCabinet(p) ==
    /\ pc[p] = "admitted"
    /\ task[p] = "load"
    /\ ~cabinet
    /\ cabinet' = TRUE
    /\ UNCHANGED <<files, pointer, temps, evidence, others, inventory, lock, pc,
                   victims, call>>

\* publish creates, fills and flushes a temporary, and renames it.
CreateTemp(p) ==
    /\ \/ pc[p] = "admitted" /\ (task[p] = "load" => cabinet) /\ Goto(p, "written")
       \/ pc[p] = "pointer" /\ Goto(p, "pointer_written")
    /\ temps' = temps + 1
    /\ UNCHANGED <<files, pointer, cabinet, evidence, others, inventory, lock,
                   victims, call>>

RenameGeneration(p) ==
    /\ pc[p] = "written"
    /\ task[p] = "write"
    /\ files' = [files EXCEPT ![target[p]] = "complete"]
    /\ temps' = temps - 1
    /\ Goto(p, "pointer")
    /\ UNCHANGED <<pointer, cabinet, evidence, others, inventory, lock, victims, call>>

RenamePointer(p) ==
    /\ pc[p] = "pointer_written"
    /\ pointer' = target[p]
    /\ temps' = temps - 1
    /\ Close(p, Reply("written", target[p]))
    /\ UNCHANGED <<files, cabinet, evidence, others>>

\* A damaged generation is a miss, a damaged pointer an error.
RenameCopy(p) ==
    /\ pc[p] = "written"
    /\ task[p] = "load"
    /\ evidence' = evidence \cup {target[p]}
    /\ temps' = temps - 1
    /\ Close(p, Reply(IF target[p] = Malformed THEN "error" ELSE "miss", Empty))
    /\ UNCHANGED <<files, pointer, cabinet, others>>

\* Any step may return an error.  A temporary of this call is unlinked, and
\* nobody asks whether that worked.
Fail(p) ==
    /\ pc[p] # "idle"
    /\ temps' \in {temps} \cup (IF pc[p] \in WithTemp THEN {temps - 1} ELSE {})
    /\ Close(p, Reply("error", Empty))
    /\ UNCHANGED <<files, pointer, cabinet, evidence, others>>

\* The process dies; the kernel releases its lock.
Crash(p) ==
    /\ pc[p] # "idle"
    /\ Close(p, Reply("none", Empty))
    /\ UNCHANGED <<disk, others>>

-----------------------------------------------------------------------------
(* Other programs.                                                         *)

Foreign ==
    /\ unknown < MaxForeign
    /\ unknown' = unknown + 1
    /\ noise' = IF lock = Nobody THEN noise ELSE noise + 1
    /\ UNCHANGED <<disk, damages, lock, victims, touched, pc, call>>

Damage ==
    /\ damages < MaxDamage
    /\ damages' = damages + 1
    /\ \/ /\ \E g \in Ids : /\ files[g] = "complete"
                            /\ files' = [files EXCEPT ![g] = "damaged"]
                            /\ touched' = touched \cup {g}
          /\ UNCHANGED pointer
       \/ /\ pointer \in Ids
          /\ pointer' = Malformed
          /\ UNCHANGED <<files, touched>>
    /\ UNCHANGED <<temps, cabinet, evidence, unknown, noise, lock, victims, pc, call>>

Step(p) ==
    \/ StartWrite(p) \/ StartLoad(p) \/ ReadPointer(p) \/ ReadGeneration(p)
    \/ Lock(p) \/ Baseline(p) \/ Evict(p) \/ Recheck(p) \/ Reserve(p)
    \/ MakeCabinet(p) \/ CreateTemp(p) \/ RenameGeneration(p)
    \/ RenamePointer(p) \/ RenameCopy(p) \/ Fail(p) \/ Crash(p)

Next == Foreign \/ Damage \/ \E p \in Procs : Step(p)

Spec == Init /\ [][Next]_vars

-----------------------------------------------------------------------------
(* Properties.                                                             *)

\* A pointer in place always names a generation that is there: no eviction,
\* crash, failed publication or quarantine takes the current one away, and
\* none is committed before its file is.
CurrentIsPresent == pointer \in Ids => files[pointer] # "absent"

\* prune plans the whole repair before it deletes anything: while a session
\* evicts, what it still means to evict makes room for what it was asked to
\* admit, and the current generation is not among it.
EvictionRepairsQuota ==
    \A p \in Procs :
        pc[p] \in {"baseline", "repair"} =>
            /\ pointer \notin victims[p]
            /\ IF pc[p] = "baseline"
               THEN Fits(noise, Nothing, Cardinality(victims[p]))
               ELSE Fits(noise, More(p), Cardinality(victims[p]))

\* No step of the store that adds a file or directory takes it past its limits,
\* the files of other programs that came after the inventory apart, and it
\* never keeps more than GENERATION_CAP generations.
GrowthWithinQuota ==
    [][/\ Entries' - unknown' > Entries - unknown =>
              Entries' <= ENTRY_CAP + noise' /\ Bytes' <= BYTE_CAP + noise'
       /\ Cardinality(Present') <= GENERATION_CAP]_vars

=============================================================================
