--------------------------- MODULE CacheStore_proofs ---------------------------
(***************************************************************************)
(* CacheStore keeps a present current generation and its limits, for any   *)
(* processes, ids and limits, and its files implement PreviewRegister.     *)
(* One lemma per action, one step per conjunct of the invariant.           *)
(***************************************************************************)
EXTENDS CacheStoreInv, FiniteSetTheorems, TLAPS

\* An eviction plan names only generations that are not the current one.
LEMMA PlansSpareCurrent ==
    ASSUME TypeOK, NEW late, NEW more, NEW V \in Plans(late, more)
    PROVE  V \subseteq Ids /\ pointer \notin V
BY DEF Plans, Eligible, Present, TypeOK

\* The initial state satisfies the invariant: no file, no pointer, no session.
LEMMA InitInvariant == Init => IInv
<1>. SUFFICES ASSUME Init PROVE IInv
  OBVIOUS
<1>1. TypeOK
  <2>1. pointer \in Ids \cup {Empty, Malformed} /\ lock \in Procs \cup {Nobody}
    BY DEF Init
  <2>2. answer \in [Procs -> [kind : {"none", "written", "hit", "miss", "error"},
                             id : Ids \cup {Empty}]]
    BY DEF Init
  <2>3. unknown \in 0 .. MaxForeign /\ damages \in 0 .. MaxDamage /\ noise \in 0 .. MaxForeign
    BY CacheStoreAssumption DEF Init
  <2>4. /\ pc \in [Procs -> {"idle"} \cup UnlockedPCs \cup SessionPCs]
        /\ task \in [Procs -> {"none", "write", "load"}]
        /\ target \in [Procs -> Ids \cup {Empty, Malformed}]
        /\ victims \in [Procs -> SUBSET Ids]
    BY DEF Init
  <2>. QED BY <2>1, <2>2, <2>3, <2>4 DEF Init, TypeOK
<1>2. LockInv
  BY CacheStoreAssumption DEF Init, LockInv, SessionPCs
<1>3. TaskInv
  BY DEF Init, TaskInv, AfterFile
<1>4. TempInv /\ NoiseInv
  BY DEF Init, TempInv, NoiseInv, WithTemp
<1>5. VictimInv /\ CommitInv /\ CurrentIsPresent
  BY CacheStoreAssumption DEF Init, VictimInv, CommitInv, CurrentIsPresent,
      Evicting, AfterFile
<1>. QED BY <1>1, <1>2, <1>3, <1>4, <1>5 DEF IInv

\* A write begins: no session, no file.
LEMMA StartWriteKeeps ==
    ASSUME IInv, NEW p \in Procs, StartWrite(p)
    PROVE  IInv'
<1>. USE DEF IInv, SessionPCs, UnlockedPCs, WithTemp, Evicting, BeforeFile, AfterFile
<1>1. TypeOK'
  BY CacheStoreAssumption DEF TypeOK, StartWrite, Start, Goto, Reply, disk,
      others, inventory, call
<1>2. LockInv'
  BY CacheStoreAssumption DEF TypeOK, LockInv, StartWrite, Start, Goto,
      Reply, disk, others, inventory, call
<1>3. TaskInv'
  BY CacheStoreAssumption DEF TypeOK, TaskInv, StartWrite, Start, Goto,
      Reply, disk, others, inventory, call
<1>4. TempInv'
  BY DEF TypeOK, LockInv, TempInv, StartWrite, Start, Goto, Reply, disk,
      others, inventory, call
<1>5. NoiseInv'
  BY DEF TypeOK, NoiseInv, StartWrite, Start, Goto, Reply, disk, others,
      inventory, call
<1>6. VictimInv'
  BY CacheStoreAssumption DEF TypeOK, LockInv, VictimInv, StartWrite, Start,
      Goto, Reply, disk, others, inventory, call
<1>7. CommitInv'
  BY DEF TypeOK, CommitInv, StartWrite, Start, Goto, Reply, disk, others,
      inventory, call
<1>8. CurrentIsPresent'
  BY CacheStoreAssumption DEF CurrentIsPresent, StartWrite, Start, Goto,
      Reply, disk, others, inventory, call
<1>. QED BY <1>1, <1>2, <1>3, <1>4, <1>5, <1>6, <1>7, <1>8

\* A load begins.
LEMMA StartLoadKeeps ==
    ASSUME IInv, NEW p \in Procs, StartLoad(p)
    PROVE  IInv'
<1>. USE DEF IInv, SessionPCs, UnlockedPCs, WithTemp, Evicting, BeforeFile, AfterFile
<1>1. TypeOK'
  BY CacheStoreAssumption DEF TypeOK, StartLoad, Start, Goto, Reply, disk,
      others, inventory, call
<1>2. LockInv'
  BY CacheStoreAssumption DEF TypeOK, LockInv, StartLoad, Start, Goto,
      Reply, disk, others, inventory, call
<1>3. TaskInv'
  BY CacheStoreAssumption DEF TypeOK, TaskInv, StartLoad, Start, Goto,
      Reply, disk, others, inventory, call
<1>4. TempInv'
  BY DEF TypeOK, LockInv, TempInv, StartLoad, Start, Goto, Reply, disk,
      others, inventory, call
<1>5. NoiseInv'
  BY DEF TypeOK, NoiseInv, StartLoad, Start, Goto, Reply, disk, others,
      inventory, call
<1>6. VictimInv'
  BY CacheStoreAssumption DEF TypeOK, LockInv, VictimInv, StartLoad, Start,
      Goto, Reply, disk, others, inventory, call
<1>7. CommitInv'
  BY DEF TypeOK, CommitInv, StartLoad, Start, Goto, Reply, disk, others,
      inventory, call
<1>8. CurrentIsPresent'
  BY CacheStoreAssumption DEF CurrentIsPresent, StartLoad, Start, Goto,
      Reply, disk, others, inventory, call
<1>. QED BY <1>1, <1>2, <1>3, <1>4, <1>5, <1>6, <1>7, <1>8

\* A load reads current.json.
LEMMA ReadPointerKeeps ==
    ASSUME IInv, NEW p \in Procs, ReadPointer(p)
    PROVE  IInv'
<1>. USE DEF IInv, SessionPCs, UnlockedPCs, WithTemp, Evicting, BeforeFile, AfterFile
<1>1. TypeOK'
  <2>1. CASE pointer = Empty
    <3>1. answer' \in [Procs -> [kind : {"none", "written", "hit", "miss", "error"},
                                id : Ids \cup {Empty}]]
      BY <2>1 DEF TypeOK, ReadPointer, Return, Reply
    <3>2. /\ pc' = [pc EXCEPT ![p] = "idle"]
          /\ task' = [task EXCEPT ![p] = "none"]
          /\ target' = [target EXCEPT ![p] = Empty]
          /\ victims' = [victims EXCEPT ![p] = {}]
      BY <2>1 DEF ReadPointer, Return, Goto
    <3>. QED BY <3>1, <3>2 DEF TypeOK, ReadPointer, disk, others, inventory
  <2>2. CASE pointer # Empty
    <3>1. /\ target' = [target EXCEPT ![p] = pointer] /\ pointer \in Ids \cup {Malformed}
          /\ UNCHANGED <<disk, others, inventory, lock, task, victims, answer>>
      BY <2>2 DEF TypeOK, ReadPointer
    <3>2. \E to \in {"enter", "read_generation"} : pc' = [pc EXCEPT ![p] = to]
      BY <2>2 DEF ReadPointer, Goto
    <3>. QED BY <3>1, <3>2 DEF TypeOK, disk, others, inventory
  <2>. QED BY <2>1, <2>2
<1>2. LockInv'
  BY CacheStoreAssumption DEF TypeOK, LockInv, ReadPointer, Return, Goto,
      Reply, disk, others, inventory, call
<1>3. TaskInv'
  BY CacheStoreAssumption DEF TypeOK, TaskInv, ReadPointer, Return, Goto,
      Reply, disk, others, inventory, call
<1>4. TempInv'
  BY DEF TypeOK, LockInv, TempInv, ReadPointer, Return, Goto, Reply, disk,
      others, inventory, call
<1>5. NoiseInv'
  BY DEF TypeOK, NoiseInv, ReadPointer, Return, Goto, Reply, disk, others,
      inventory, call
<1>6. VictimInv'
  BY CacheStoreAssumption DEF TypeOK, LockInv, VictimInv, ReadPointer,
      Return, Goto, Reply, disk, others, inventory, call
<1>7. CommitInv'
  BY DEF TypeOK, CommitInv, ReadPointer, Return, Goto, Reply, disk, others,
      inventory, call
<1>8. CurrentIsPresent'
  BY CacheStoreAssumption DEF CurrentIsPresent, ReadPointer, Return, Goto,
      Reply, disk, others, inventory, call
<1>. QED BY <1>1, <1>2, <1>3, <1>4, <1>5, <1>6, <1>7, <1>8

\* A load reads its generation.
LEMMA ReadGenerationKeeps ==
    ASSUME IInv, NEW p \in Procs, ReadGeneration(p)
    PROVE  IInv'
<1>. USE DEF IInv, SessionPCs, UnlockedPCs, WithTemp, Evicting, BeforeFile, AfterFile
<1>1. TypeOK'
  <2>1. touched' \subseteq Ids /\ target[p] \in Ids
    BY DEF TypeOK, TaskInv, ReadGeneration
  <2>2. CASE files[target[p]] = "damaged"
    BY <2>1, <2>2 DEF TypeOK, ReadGeneration, Goto, disk, others, call
  <2>3. CASE files[target[p]] # "damaged"
    <3>1. PICK kind \in {"hit", "miss"}, g \in Ids \cup {Empty} :
              Return(p, Reply(kind, g))
      BY <2>1, <2>3 DEF ReadGeneration
    <3>2. answer' \in [Procs -> [kind : {"none", "written", "hit", "miss", "error"},
                                id : Ids \cup {Empty}]]
      BY <3>1 DEF TypeOK, Return, Reply
    <3>. QED BY <2>1, <3>1, <3>2 DEF TypeOK, ReadGeneration, Return, Goto, disk, others
  <2>. QED BY <2>2, <2>3
<1>2. LockInv'
  BY CacheStoreAssumption DEF TypeOK, LockInv, ReadGeneration, Return, Goto,
      Reply, disk, others, inventory, call
<1>3. TaskInv'
  BY CacheStoreAssumption DEF TypeOK, TaskInv, ReadGeneration, Return, Goto,
      Reply, disk, others, inventory, call
<1>4. TempInv'
  BY DEF TypeOK, LockInv, TempInv, ReadGeneration, Return, Goto, Reply,
      disk, others, inventory, call
<1>5. NoiseInv'
  BY DEF TypeOK, NoiseInv, ReadGeneration, Return, Goto, Reply, disk,
      others, inventory, call
<1>6. VictimInv'
  BY CacheStoreAssumption DEF TypeOK, LockInv, VictimInv, ReadGeneration,
      Return, Goto, Reply, disk, others, inventory, call
<1>7. CommitInv'
  BY DEF TypeOK, CommitInv, ReadGeneration, Return, Goto, Reply, disk,
      others, inventory, call
<1>8. CurrentIsPresent'
  BY CacheStoreAssumption DEF CurrentIsPresent, ReadGeneration, Return,
      Goto, Reply, disk, others, inventory, call
<1>. QED BY <1>1, <1>2, <1>3, <1>4, <1>5, <1>6, <1>7, <1>8

\* A session takes the lock.
LEMMA LockKeeps ==
    ASSUME IInv, NEW p \in Procs, Lock(p)
    PROVE  IInv'
<1>. USE DEF IInv, SessionPCs, UnlockedPCs, WithTemp, Evicting, BeforeFile, AfterFile
<1>1. TypeOK'
  BY CacheStoreAssumption DEF TypeOK, Lock, Goto, disk, others, inventory,
      call
<1>2. LockInv'
  BY CacheStoreAssumption DEF TypeOK, LockInv, Lock, Goto, disk, others,
      inventory, call
<1>3. TaskInv'
  BY CacheStoreAssumption DEF TypeOK, TaskInv, Lock, Goto, disk, others,
      inventory, call
<1>4. TempInv'
  BY DEF TypeOK, LockInv, TempInv, Lock, Goto, disk, others, inventory, call
<1>5. NoiseInv'
  BY DEF TypeOK, NoiseInv, Lock, Goto, disk, others, inventory, call
<1>6. VictimInv'
  BY CacheStoreAssumption DEF TypeOK, LockInv, VictimInv, Lock, Goto, disk,
      others, inventory, call
<1>7. CommitInv'
  BY DEF TypeOK, CommitInv, Lock, Goto, disk, others, inventory, call
<1>8. CurrentIsPresent'
  BY CacheStoreAssumption DEF CurrentIsPresent, Lock, Goto, disk, others,
      inventory, call
<1>. QED BY <1>1, <1>2, <1>3, <1>4, <1>5, <1>6, <1>7, <1>8

\* A session plans its first eviction.
LEMMA BaselineKeeps ==
    ASSUME IInv, NEW p \in Procs, Baseline(p)
    PROVE  IInv'
<1>. USE DEF IInv, SessionPCs, UnlockedPCs, WithTemp, Evicting, BeforeFile, AfterFile
<1>1. TypeOK'
  BY PlansSpareCurrent, CacheStoreAssumption DEF TypeOK, Baseline, Follow,
      Goto, TakeInventory, disk, others, inventory, call
<1>2. LockInv'
  BY CacheStoreAssumption DEF TypeOK, LockInv, Baseline, Follow, Goto,
      TakeInventory, disk, others, inventory, call
<1>3. TaskInv'
  BY CacheStoreAssumption DEF TypeOK, TaskInv, Baseline, Follow, Goto,
      TakeInventory, disk, others, inventory, call
<1>4. TempInv'
  BY DEF TypeOK, LockInv, TempInv, Baseline, Follow, Goto, TakeInventory,
      disk, others, inventory, call
<1>5. NoiseInv'
  BY DEF TypeOK, NoiseInv, Baseline, Follow, Goto, TakeInventory, disk,
      others, inventory, call
<1>6. VictimInv'
  BY PlansSpareCurrent, CacheStoreAssumption DEF TypeOK, LockInv, VictimInv,
      Baseline, Follow, Goto, TakeInventory, disk, others, inventory, call
<1>7. CommitInv'
  BY DEF TypeOK, CommitInv, Baseline, Follow, Goto, TakeInventory, disk,
      others, inventory, call
<1>8. CurrentIsPresent'
  BY CacheStoreAssumption DEF CurrentIsPresent, Baseline, Follow, Goto,
      TakeInventory, disk, others, inventory, call
<1>. QED BY <1>1, <1>2, <1>3, <1>4, <1>5, <1>6, <1>7, <1>8

\* A session evicts a victim, which is not current.
LEMMA EvictKeeps ==
    ASSUME IInv, NEW p \in Procs, Evict(p)
    PROVE  IInv'
<1>. USE DEF IInv, SessionPCs, UnlockedPCs, WithTemp, Evicting, BeforeFile, AfterFile
<1>1. TypeOK'
  BY CacheStoreAssumption DEF TypeOK, Evict, disk, others, inventory, call
<1>2. LockInv'
  BY CacheStoreAssumption DEF TypeOK, LockInv, Evict, disk, others,
      inventory, call
<1>3. TaskInv'
  BY CacheStoreAssumption DEF TypeOK, TaskInv, Evict, disk, others,
      inventory, call
<1>4. TempInv'
  BY DEF TypeOK, LockInv, TempInv, Evict, disk, others, inventory, call
<1>5. NoiseInv'
  BY DEF TypeOK, NoiseInv, Evict, disk, others, inventory, call
<1>6. VictimInv'
  BY CacheStoreAssumption DEF TypeOK, LockInv, VictimInv, Evict, disk,
      others, inventory, call
<1>7. CommitInv'
  BY DEF TypeOK, CommitInv, LockInv, Evict, disk, others, inventory, call
<1>8. CurrentIsPresent'
  BY CacheStoreAssumption DEF CurrentIsPresent, TypeOK, VictimInv, Evict,
      disk, others, inventory, call
<1>. QED BY <1>1, <1>2, <1>3, <1>4, <1>5, <1>6, <1>7, <1>8

\* A session counts again after its evictions.
LEMMA RecheckKeeps ==
    ASSUME IInv, NEW p \in Procs, Recheck(p)
    PROVE  IInv'
<1>. USE DEF IInv, SessionPCs, UnlockedPCs, WithTemp, Evicting, BeforeFile, AfterFile
<1>1. TypeOK'
  BY CacheStoreAssumption DEF TypeOK, Recheck, Goto, TakeInventory, disk,
      others, inventory, call
<1>2. LockInv'
  BY CacheStoreAssumption DEF TypeOK, LockInv, Recheck, Goto, TakeInventory,
      disk, others, inventory, call
<1>3. TaskInv'
  BY CacheStoreAssumption DEF TypeOK, TaskInv, Recheck, Goto, TakeInventory,
      disk, others, inventory, call
<1>4. TempInv'
  BY DEF TypeOK, LockInv, TempInv, Recheck, Goto, TakeInventory, disk,
      others, inventory, call
<1>5. NoiseInv'
  BY DEF TypeOK, NoiseInv, Recheck, Goto, TakeInventory, disk, others,
      inventory, call
<1>6. VictimInv'
  BY CacheStoreAssumption DEF TypeOK, LockInv, VictimInv, Recheck, Goto,
      TakeInventory, disk, others, inventory, call
<1>7. CommitInv'
  BY DEF TypeOK, CommitInv, Recheck, Goto, TakeInventory, disk, others,
      inventory, call
<1>8. CurrentIsPresent'
  BY CacheStoreAssumption DEF CurrentIsPresent, Recheck, Goto,
      TakeInventory, disk, others, inventory, call
<1>. QED BY <1>1, <1>2, <1>3, <1>4, <1>5, <1>6, <1>7, <1>8

\* A session is admitted or plans an eviction.
LEMMA ReserveKeeps ==
    ASSUME IInv, NEW p \in Procs, Reserve(p)
    PROVE  IInv'
<1>. USE DEF IInv, SessionPCs, UnlockedPCs, WithTemp, Evicting, BeforeFile, AfterFile
<1>1. TypeOK'
  <2>1. CASE task[p] = "write"
    <3>1. PICK V \in Plans(0, More(p)) :
                 /\ victims' = [victims EXCEPT ![p] = V]
                 /\ Goto(p, IF V = {} THEN "admitted" ELSE "repair")
      BY <2>1 DEF Reserve, Follow
    <3>2. V \subseteq Ids
      BY PlansSpareCurrent
    <3>3. PICK g \in Ids : target' = [target EXCEPT ![p] = g]
      BY <2>1 DEF Reserve
    <3>. QED
      BY <2>1, <3>1, <3>2, <3>3, CacheStoreAssumption
      DEF TypeOK, Reserve, Goto, TakeInventory, disk, others
  <2>2. CASE task[p] = "load"
    <3>1. PICK V \in Plans(noise, More(p)) :
                 /\ victims' = [victims EXCEPT ![p] = V]
                 /\ Goto(p, IF V = {} THEN "admitted" ELSE "repair")
      BY <2>2 DEF Reserve, Follow
    <3>2. V \subseteq Ids
      BY PlansSpareCurrent
    <3>. QED
      BY <2>2, <3>1, <3>2 DEF TypeOK, Reserve, Goto, disk, others, inventory
  <2>. QED BY <2>1, <2>2 DEF Reserve
<1>2. LockInv'
  BY CacheStoreAssumption DEF TypeOK, LockInv, Reserve, Follow, Goto,
      TakeInventory, disk, others, inventory, call
<1>3. TaskInv'
  BY CacheStoreAssumption DEF TypeOK, TaskInv, Reserve, Follow, Goto,
      TakeInventory, disk, others, inventory, call
<1>4. TempInv'
  BY DEF TypeOK, LockInv, TempInv, Reserve, Follow, Goto, TakeInventory,
      disk, others, inventory, call
<1>5. NoiseInv'
  BY DEF TypeOK, NoiseInv, Reserve, Follow, Goto, TakeInventory, disk,
      others, inventory, call
<1>6. VictimInv'
  BY PlansSpareCurrent, CacheStoreAssumption DEF TypeOK, LockInv, VictimInv,
      Reserve, Follow, Goto, TakeInventory, disk, others, inventory, call
<1>7. CommitInv'
  BY DEF TypeOK, CommitInv, LockInv, Reserve, Follow, Goto, TakeInventory,
      disk, others, inventory, call
<1>8. CurrentIsPresent'
  BY CacheStoreAssumption DEF CurrentIsPresent, Reserve, Follow, Goto,
      TakeInventory, disk, others, inventory, call
<1>. QED BY <1>1, <1>2, <1>3, <1>4, <1>5, <1>6, <1>7, <1>8

\* quarantine/ is made.
LEMMA MakeCabinetKeeps ==
    ASSUME IInv, NEW p \in Procs, MakeCabinet(p)
    PROVE  IInv'
<1>. USE DEF IInv, SessionPCs, UnlockedPCs, WithTemp, Evicting, BeforeFile, AfterFile
<1>1. TypeOK'
  BY CacheStoreAssumption DEF TypeOK, MakeCabinet, disk, others, inventory,
      call
<1>2. LockInv'
  BY CacheStoreAssumption DEF TypeOK, LockInv, MakeCabinet, disk, others,
      inventory, call
<1>3. TaskInv'
  BY CacheStoreAssumption DEF TypeOK, TaskInv, MakeCabinet, disk, others,
      inventory, call
<1>4. TempInv'
  BY DEF TypeOK, LockInv, TempInv, MakeCabinet, disk, others, inventory,
      call
<1>5. NoiseInv'
  BY DEF TypeOK, NoiseInv, MakeCabinet, disk, others, inventory, call
<1>6. VictimInv'
  BY CacheStoreAssumption DEF TypeOK, LockInv, VictimInv, MakeCabinet, disk,
      others, inventory, call
<1>7. CommitInv'
  BY DEF TypeOK, CommitInv, MakeCabinet, disk, others, inventory, call
<1>8. CurrentIsPresent'
  BY CacheStoreAssumption DEF CurrentIsPresent, MakeCabinet, disk, others,
      inventory, call
<1>. QED BY <1>1, <1>2, <1>3, <1>4, <1>5, <1>6, <1>7, <1>8

\* A temporary is created.
LEMMA CreateTempKeeps ==
    ASSUME IInv, NEW p \in Procs, CreateTemp(p)
    PROVE  IInv'
<1>. USE DEF IInv, SessionPCs, UnlockedPCs, WithTemp, Evicting, BeforeFile, AfterFile
<1>1. TypeOK'
  BY CacheStoreAssumption DEF TypeOK, CreateTemp, Goto, disk, others,
      inventory, call
<1>2. LockInv'
  BY CacheStoreAssumption DEF TypeOK, LockInv, CreateTemp, Goto, disk,
      others, inventory, call
<1>3. TaskInv'
  BY CacheStoreAssumption DEF TypeOK, TaskInv, CreateTemp, Goto, disk,
      others, inventory, call
<1>4. TempInv'
  BY DEF TypeOK, LockInv, TempInv, CreateTemp, Goto, disk, others,
      inventory, call
<1>5. NoiseInv'
  BY DEF TypeOK, NoiseInv, CreateTemp, Goto, disk, others, inventory, call
<1>6. VictimInv'
  BY CacheStoreAssumption DEF TypeOK, LockInv, VictimInv, CreateTemp, Goto,
      disk, others, inventory, call
<1>7. CommitInv'
  BY DEF TypeOK, CommitInv, CreateTemp, Goto, disk, others, inventory, call
<1>8. CurrentIsPresent'
  BY CacheStoreAssumption DEF CurrentIsPresent, CreateTemp, Goto, disk,
      others, inventory, call
<1>. QED BY <1>1, <1>2, <1>3, <1>4, <1>5, <1>6, <1>7, <1>8

\* A generation appears.
LEMMA RenameGenerationKeeps ==
    ASSUME IInv, NEW p \in Procs, RenameGeneration(p)
    PROVE  IInv'
<1>. USE DEF IInv, SessionPCs, UnlockedPCs, WithTemp, Evicting, BeforeFile, AfterFile
<1>1. TypeOK'
  <2>1. files' \in [Ids -> {"absent", "complete", "damaged"}] /\ pc' \in [Procs -> {"idle"} \cup UnlockedPCs \cup SessionPCs]
    BY DEF TypeOK, RenameGeneration, Goto
  <2>2. temps' \in Nat
    BY DEF TypeOK, TempInv, RenameGeneration
  <2>. QED BY <2>1, <2>2 DEF TypeOK, RenameGeneration, others, inventory, call
<1>2. LockInv'
  BY CacheStoreAssumption DEF TypeOK, LockInv, RenameGeneration, Goto, disk,
      others, inventory, call
<1>3. TaskInv'
  BY CacheStoreAssumption DEF TypeOK, TaskInv, RenameGeneration, Goto, disk,
      others, inventory, call
<1>4. TempInv'
  BY DEF TypeOK, LockInv, TempInv, RenameGeneration, Goto, disk, others,
      inventory, call
<1>5. NoiseInv'
  BY DEF TypeOK, NoiseInv, RenameGeneration, Goto, disk, others, inventory,
      call
<1>6. VictimInv'
  BY CacheStoreAssumption DEF TypeOK, LockInv, VictimInv, RenameGeneration,
      Goto, disk, others, inventory, call
<1>7. CommitInv'
  BY DEF TypeOK, CommitInv, TaskInv, RenameGeneration, Goto, disk, others,
      inventory, call
<1>8. CurrentIsPresent'
  BY CacheStoreAssumption DEF CurrentIsPresent, TypeOK, RenameGeneration,
      Goto, disk, others, inventory, call
<1>. QED BY <1>1, <1>2, <1>3, <1>4, <1>5, <1>6, <1>7, <1>8

\* A generation that is there becomes current.
LEMMA RenamePointerKeeps ==
    ASSUME IInv, NEW p \in Procs, RenamePointer(p)
    PROVE  IInv'
<1>. USE DEF IInv, SessionPCs, UnlockedPCs, WithTemp, Evicting, BeforeFile, AfterFile
<1>1. TypeOK'
  BY CacheStoreAssumption DEF TypeOK, TaskInv, TempInv, RenamePointer,
      Close, Return, Goto, Reply, disk, others, inventory, call
<1>2. LockInv'
  BY CacheStoreAssumption DEF TypeOK, LockInv, RenamePointer, Close, Return,
      Goto, Reply, disk, others, inventory, call
<1>3. TaskInv'
  BY CacheStoreAssumption DEF TypeOK, TaskInv, RenamePointer, Close, Return,
      Goto, Reply, disk, others, inventory, call
<1>4. TempInv'
  BY DEF TypeOK, LockInv, TempInv, RenamePointer, Close, Return, Goto,
      Reply, disk, others, inventory, call
<1>5. NoiseInv'
  BY DEF TypeOK, NoiseInv, RenamePointer, Close, Return, Goto, Reply, disk,
      others, inventory, call
<1>6. VictimInv'
  BY CacheStoreAssumption DEF TypeOK, LockInv, VictimInv, RenamePointer,
      Close, Return, Goto, Reply, disk, others, inventory, call
<1>7. CommitInv'
  BY DEF TypeOK, CommitInv, RenamePointer, Close, Return, Goto, Reply, disk,
      others, inventory, call
<1>8. CurrentIsPresent'
  BY CacheStoreAssumption DEF CurrentIsPresent, TypeOK, CommitInv,
      RenamePointer, Close, Return, Goto, Reply, disk, others, inventory,
      call
<1>. QED BY <1>1, <1>2, <1>3, <1>4, <1>5, <1>6, <1>7, <1>8

\* A copy appears in quarantine/.
LEMMA RenameCopyKeeps ==
    ASSUME IInv, NEW p \in Procs, RenameCopy(p)
    PROVE  IInv'
<1>. USE DEF IInv, SessionPCs, UnlockedPCs, WithTemp, Evicting, BeforeFile, AfterFile
<1>1. TypeOK'
  BY CacheStoreAssumption DEF TypeOK, TaskInv, TempInv, RenameCopy, Close,
      Return, Goto, Reply, disk, others, inventory, call
<1>2. LockInv'
  BY CacheStoreAssumption DEF TypeOK, LockInv, RenameCopy, Close, Return,
      Goto, Reply, disk, others, inventory, call
<1>3. TaskInv'
  BY CacheStoreAssumption DEF TypeOK, TaskInv, RenameCopy, Close, Return,
      Goto, Reply, disk, others, inventory, call
<1>4. TempInv'
  BY DEF TypeOK, LockInv, TempInv, RenameCopy, Close, Return, Goto, Reply,
      disk, others, inventory, call
<1>5. NoiseInv'
  BY DEF TypeOK, NoiseInv, RenameCopy, Close, Return, Goto, Reply, disk,
      others, inventory, call
<1>6. VictimInv'
  BY CacheStoreAssumption DEF TypeOK, LockInv, VictimInv, RenameCopy, Close,
      Return, Goto, Reply, disk, others, inventory, call
<1>7. CommitInv'
  BY DEF TypeOK, CommitInv, RenameCopy, Close, Return, Goto, Reply, disk,
      others, inventory, call
<1>8. CurrentIsPresent'
  BY CacheStoreAssumption DEF CurrentIsPresent, RenameCopy, Close, Return,
      Goto, Reply, disk, others, inventory, call
<1>. QED BY <1>1, <1>2, <1>3, <1>4, <1>5, <1>6, <1>7, <1>8

\* A call fails and its session is dropped.
LEMMA FailKeeps ==
    ASSUME IInv, NEW p \in Procs, Fail(p)
    PROVE  IInv'
<1>. USE DEF IInv, SessionPCs, UnlockedPCs, WithTemp, Evicting, BeforeFile, AfterFile
<1>1. TypeOK'
  BY CacheStoreAssumption DEF TypeOK, TempInv, Fail, Close, Return, Goto,
      Reply, disk, others, inventory, call
<1>2. LockInv'
  BY CacheStoreAssumption DEF TypeOK, LockInv, Fail, Close, Return, Goto,
      Reply, disk, others, inventory, call
<1>3. TaskInv'
  BY CacheStoreAssumption DEF TypeOK, TaskInv, Fail, Close, Return, Goto,
      Reply, disk, others, inventory, call
<1>4. TempInv'
  BY DEF TypeOK, LockInv, TempInv, Fail, Close, Return, Goto, Reply, disk,
      others, inventory, call
<1>5. NoiseInv'
  BY DEF TypeOK, NoiseInv, Fail, Close, Return, Goto, Reply, disk, others,
      inventory, call
<1>6. VictimInv'
  BY CacheStoreAssumption DEF TypeOK, LockInv, VictimInv, Fail, Close,
      Return, Goto, Reply, disk, others, inventory, call
<1>7. CommitInv'
  BY DEF TypeOK, CommitInv, Fail, Close, Return, Goto, Reply, disk, others,
      inventory, call
<1>8. CurrentIsPresent'
  BY CacheStoreAssumption DEF CurrentIsPresent, Fail, Close, Return, Goto,
      Reply, disk, others, inventory, call
<1>. QED BY <1>1, <1>2, <1>3, <1>4, <1>5, <1>6, <1>7, <1>8

\* A process dies.
LEMMA CrashKeeps ==
    ASSUME IInv, NEW p \in Procs, Crash(p)
    PROVE  IInv'
<1>. USE DEF IInv, SessionPCs, UnlockedPCs, WithTemp, Evicting, BeforeFile, AfterFile
<1>1. TypeOK'
  BY CacheStoreAssumption DEF TypeOK, Crash, Close, Return, Goto, Reply,
      disk, others, inventory, call
<1>2. LockInv'
  BY CacheStoreAssumption DEF TypeOK, LockInv, Crash, Close, Return, Goto,
      Reply, disk, others, inventory, call
<1>3. TaskInv'
  BY CacheStoreAssumption DEF TypeOK, TaskInv, Crash, Close, Return, Goto,
      Reply, disk, others, inventory, call
<1>4. TempInv'
  BY DEF TypeOK, LockInv, TempInv, Crash, Close, Return, Goto, Reply, disk,
      others, inventory, call
<1>5. NoiseInv'
  BY DEF TypeOK, NoiseInv, Crash, Close, Return, Goto, Reply, disk, others,
      inventory, call
<1>6. VictimInv'
  BY CacheStoreAssumption DEF TypeOK, LockInv, VictimInv, Crash, Close,
      Return, Goto, Reply, disk, others, inventory, call
<1>7. CommitInv'
  BY DEF TypeOK, CommitInv, Crash, Close, Return, Goto, Reply, disk, others,
      inventory, call
<1>8. CurrentIsPresent'
  BY CacheStoreAssumption DEF CurrentIsPresent, Crash, Close, Return, Goto,
      Reply, disk, others, inventory, call
<1>. QED BY <1>1, <1>2, <1>3, <1>4, <1>5, <1>6, <1>7, <1>8

\* An unknown file appears.
LEMMA ForeignKeeps ==
    ASSUME IInv, Foreign
    PROVE  IInv'
<1>. USE DEF IInv, SessionPCs, UnlockedPCs, WithTemp, Evicting, BeforeFile, AfterFile
<1>1. TypeOK'
  BY CacheStoreAssumption DEF TypeOK, NoiseInv, Foreign, disk, others,
      inventory, call
<1>2. LockInv'
  BY CacheStoreAssumption DEF TypeOK, LockInv, Foreign, disk, others,
      inventory, call
<1>3. TaskInv'
  BY CacheStoreAssumption DEF TypeOK, TaskInv, Foreign, disk, others,
      inventory, call
<1>4. TempInv'
  BY DEF TypeOK, LockInv, TempInv, Foreign, disk, others, inventory, call
<1>5. NoiseInv'
  BY DEF TypeOK, NoiseInv, Foreign, disk, others, inventory, call
<1>6. VictimInv'
  BY CacheStoreAssumption DEF TypeOK, LockInv, VictimInv, Foreign, disk,
      others, inventory, call
<1>7. CommitInv'
  BY DEF TypeOK, CommitInv, Foreign, disk, others, inventory, call
<1>8. CurrentIsPresent'
  BY CacheStoreAssumption DEF CurrentIsPresent, Foreign, disk, others,
      inventory, call
<1>. QED BY <1>1, <1>2, <1>3, <1>4, <1>5, <1>6, <1>7, <1>8

\* Bytes are damaged; no file goes away.
LEMMA DamageKeeps ==
    ASSUME IInv, Damage
    PROVE  IInv'
<1>. USE DEF IInv, SessionPCs, UnlockedPCs, WithTemp, Evicting, BeforeFile, AfterFile
<1>1. TypeOK'
  BY CacheStoreAssumption DEF TypeOK, Damage, disk, others, inventory, call
<1>2. LockInv'
  BY CacheStoreAssumption DEF TypeOK, LockInv, Damage, disk, others,
      inventory, call
<1>3. TaskInv'
  BY CacheStoreAssumption DEF TypeOK, TaskInv, Damage, disk, others,
      inventory, call
<1>4. TempInv'
  BY DEF TypeOK, LockInv, TempInv, Damage, disk, others, inventory, call
<1>5. NoiseInv'
  BY DEF TypeOK, NoiseInv, Damage, disk, others, inventory, call
<1>6. VictimInv'
  BY CacheStoreAssumption DEF TypeOK, LockInv, VictimInv, Damage, disk,
      others, inventory, call
<1>7. CommitInv'
  BY DEF TypeOK, CommitInv, TaskInv, Damage, disk, others, inventory, call
<1>8. CurrentIsPresent'
  BY CacheStoreAssumption DEF CurrentIsPresent, TypeOK, Damage, disk,
      others, inventory, call
<1>. QED BY <1>1, <1>2, <1>3, <1>4, <1>5, <1>6, <1>7, <1>8

\* No step leaves the invariant.
LEMMA NextInvariant == IInv /\ [Next]_vars => IInv'
<1>. SUFFICES ASSUME IInv, [Next]_vars PROVE IInv'
  OBVIOUS
<1>1. CASE Foreign
  BY <1>1, ForeignKeeps
<1>2. CASE Damage
  BY <1>2, DamageKeeps
<1>3. ASSUME NEW p \in Procs, Step(p) PROVE IInv'
  BY <1>3, StartWriteKeeps, StartLoadKeeps, ReadPointerKeeps,
      ReadGenerationKeeps, LockKeeps, BaselineKeeps, EvictKeeps,
      RecheckKeeps, ReserveKeeps, MakeCabinetKeeps, CreateTempKeeps,
      RenameGenerationKeeps, RenamePointerKeeps, RenameCopyKeeps, FailKeeps,
      CrashKeeps DEF Step
<1>4. CASE UNCHANGED vars
  BY <1>4 DEF vars, IInv, TypeOK, LockInv, TaskInv, TempInv, NoiseInv,
      VictimInv, CommitInv, CurrentIsPresent
<1>. QED BY <1>1, <1>2, <1>3, <1>4 DEF Next

\* The variables of the cache keep their types; no count goes below zero.
THEOREM TypeCorrect == Spec => []TypeOK
<1>1. IInv => TypeOK
  BY DEF IInv
<1>. QED BY <1>1, InitInvariant, NextInvariant, PTL DEF Spec

\* current.json never names a generation that is gone.
THEOREM CurrentTheorem == Spec => []CurrentIsPresent
<1>1. IInv => CurrentIsPresent
  BY DEF IInv
<1>. QED BY <1>1, InitInvariant, NextInvariant, PTL DEF Spec

-----------------------------------------------------------------------------
(* The register: the files of the cache implement PreviewRegister, every     *)
(* step of CacheRegister is a step of the register or leaves it alone.       *)

Abstract == <<Value, damages > 0, seen, answer>>

\* The register holds an id or nothing.
LEMMA ValueType == Value \in Ids \cup {Empty} /\ (Value # Empty => Value = pointer)
BY DEF Value

-----------------------------------------------------------------------------
(* FreshInv and DamageInv are invariants of the store alone.               *)

\* Nobody learns the id of a generation before its file is there.
LEMMA FreshInvStep ==
    ASSUME IInv, FreshInv, Next
    PROVE  FreshInv'
<1>. USE DEF IInv, SessionPCs, BeforeFile, AfterFile
<1>1. CASE Foreign
  BY <1>1 DEF TypeOK, FreshInv, Foreign, disk, others, inventory, call
<1>2. CASE Damage
  BY <1>2 DEF TypeOK, TaskInv, FreshInv, Damage, disk, others, inventory,
      call
<1>3. ASSUME NEW p \in Procs, Step(p) PROVE FreshInv'
  <2>1. CASE StartWrite(p)
    BY <2>1, CacheStoreAssumption DEF TypeOK, LockInv, TaskInv, FreshInv,
        StartWrite, Start, Goto, Reply, disk, others, inventory, call
  <2>2. CASE StartLoad(p)
    BY <2>2, CacheStoreAssumption DEF TypeOK, LockInv, TaskInv, FreshInv,
        StartLoad, Start, Goto, Reply, disk, others, inventory, call
  <2>3. CASE ReadPointer(p)
    BY <2>3, CacheStoreAssumption DEF TypeOK, LockInv, TaskInv, FreshInv,
        CurrentIsPresent, ReadPointer, Return, Goto, Reply, disk, others,
        inventory, call
  <2>4. CASE ReadGeneration(p)
    BY <2>4, CacheStoreAssumption DEF TypeOK, LockInv, TaskInv, FreshInv,
        ReadGeneration, Return, Goto, Reply, disk, others, inventory, call
  <2>5. CASE Lock(p)
    BY <2>5, CacheStoreAssumption DEF TypeOK, LockInv, TaskInv, FreshInv,
        Lock, Goto, disk, others, inventory, call
  <2>6. CASE Baseline(p)
    BY <2>6, CacheStoreAssumption DEF TypeOK, LockInv, TaskInv, FreshInv,
        Baseline, Follow, Goto, TakeInventory, disk, others, inventory, call
  <2>7. CASE Evict(p)
    BY <2>7, CacheStoreAssumption DEF TypeOK, LockInv, TaskInv, FreshInv,
        VictimInv, Evict, disk, others, inventory, call
  <2>8. CASE Recheck(p)
    BY <2>8, CacheStoreAssumption DEF TypeOK, LockInv, TaskInv, FreshInv,
        Recheck, Goto, TakeInventory, disk, others, inventory, call
  <2>9. CASE Reserve(p)
    BY <2>9, CacheStoreAssumption DEF TypeOK, LockInv, TaskInv, FreshInv,
        Fresh, Reserve, Follow, Goto, TakeInventory, disk, others,
        inventory, call
  <2>10. CASE MakeCabinet(p)
    BY <2>10, CacheStoreAssumption DEF TypeOK, LockInv, TaskInv, FreshInv,
        MakeCabinet, disk, others, inventory, call
  <2>11. CASE CreateTemp(p)
    BY <2>11, CacheStoreAssumption DEF TypeOK, LockInv, TaskInv, FreshInv,
        CreateTemp, Goto, disk, others, inventory, call
  <2>12. CASE RenameGeneration(p)
    BY <2>12, CacheStoreAssumption DEF TypeOK, LockInv, TaskInv, FreshInv,
        RenameGeneration, Goto, disk, others, inventory, call
  <2>13. CASE RenamePointer(p)
    BY <2>13, CacheStoreAssumption DEF TypeOK, LockInv, TaskInv, FreshInv,
        RenamePointer, Close, Return, Goto, Reply, disk, others, inventory,
        call
  <2>14. CASE RenameCopy(p)
    BY <2>14, CacheStoreAssumption DEF TypeOK, LockInv, TaskInv, FreshInv,
        RenameCopy, Close, Return, Goto, Reply, disk, others, inventory,
        call
  <2>15. CASE Fail(p)
    BY <2>15, CacheStoreAssumption DEF TypeOK, LockInv, TaskInv, FreshInv,
        Fail, Close, Return, Goto, Reply, disk, others, inventory, call
  <2>16. CASE Crash(p)
    BY <2>16, CacheStoreAssumption DEF TypeOK, LockInv, TaskInv, FreshInv,
        Crash, Close, Return, Goto, Reply, disk, others, inventory, call
  <2>. QED
    BY <1>3, <2>1, <2>2, <2>3, <2>4, <2>5, <2>6, <2>7, <2>8, <2>9, <2>10,
        <2>11, <2>12, <2>13, <2>14, <2>15, <2>16 DEF Step
<1>. QED BY <1>1, <1>2, <1>3 DEF Next

\* Only damage makes damaged files.
LEMMA DamageInvStep ==
    ASSUME IInv, DamageInv, Next
    PROVE  DamageInv'
<1>. USE DEF IInv, TypeOK, DamageInv
<1>1. CASE Foreign
  BY <1>1 DEF Foreign, disk, others, inventory, call
<1>2. CASE Damage
  BY <1>2 DEF Damage, disk, others, inventory, call
<1>3. ASSUME NEW p \in Procs, Step(p) PROVE DamageInv'
  <2>1. damages' = damages /\ \A g \in Ids : files'[g] = "damaged" => files[g] = "damaged"
    BY <1>3 DEF Step, StartWrite, Start, Goto, Reply, StartLoad,
        ReadPointer, Return, ReadGeneration, Lock, Baseline, Follow,
        TakeInventory, Evict, Recheck, Reserve, MakeCabinet, CreateTemp,
        RenameGeneration, RenamePointer, Close, RenameCopy, Fail, Crash,
        disk, others
  <2>. QED BY <2>1
<1>. QED BY <1>1, <1>2, <1>3 DEF Next

-----------------------------------------------------------------------------
(* What the history does.                                                  *)

\* A step that changes neither the register nor what the processes do.
LEMMA ObserveNothing ==
    ASSUME TypeOK, SeenInv, Observe, task' = task, Value' = Value
    PROVE  seen' = seen
BY DEF Observe, SeenInv, TypeOK

\* A step in which one process begins or ends a call.
LEMMA ObserveCall ==
    ASSUME TypeOK, SeenInv, Observe, NEW p \in Procs, NEW t,
           task' = [task EXCEPT ![p] = t], Value' = Value
    PROVE  seen' = [seen EXCEPT ![p] = IF t = "load" THEN seen[p] \cup {Value} ELSE {}]
BY DEF Observe, SeenInv, TypeOK

\* A step that sets the register.
LEMMA ObserveSet ==
    ASSUME TypeOK, SeenInv, Observe,
           \A q \in Procs : task'[q] = "load" <=> task[q] = "load"
    PROVE  seen' = [q \in Procs |-> IF seen[q] # {} THEN seen[q] \cup {Value'} ELSE {}]
<1>1. \A q \in Procs : task[q] = "load" <=> seen[q] # {}
  BY DEF SeenInv
<1>. QED BY <1>1 DEF Observe, SeenInv, TypeOK

\* What a load has seen, it has seen for good.
LEMMA SeenGrows ==
    ASSUME Observe, NEW q \in Procs, task'[q] = "load"
    PROVE  seen[q] \subseteq seen'[q] /\ (MayMiss(q) => MayMiss(q)')
BY DEF Observe, MayMiss

\* SeenInv follows for a step after which the loads that wait are justified.
LEMMA SeenStep ==
    ASSUME SeenInv, TypeOK, Observe,
           \A q \in Procs : pc'[q] = "read_generation" =>
               \/ target'[q] \in seen'[q]
               \/ Empty \in seen'[q] /\ files'[target'[q]] # "complete",
           \A q \in Procs : task'[q] = "load" /\ pc'[q] \in {"enter"} \cup SessionPCs
               => MayMiss(q)'
    PROVE  SeenInv'
<1>1. seen' \in [Procs -> SUBSET (Ids \cup {Empty})]
  BY ValueType DEF Observe, SeenInv, Value
<1>2. \A q \in Procs : /\ task'[q] # "load" => seen'[q] = {}
                       /\ task'[q] = "load" => Value' \in seen'[q]
  BY DEF Observe
<1>. QED BY <1>1, <1>2 DEF SeenInv

\* A step that moves no load to where it would need a justification.
LEMMA SeenCarries ==
    ASSUME SeenInv, TypeOK, TaskInv, TaskInv', Observe,
           \A q \in Procs : pc'[q] = "read_generation" =>
               /\ pc[q] = "read_generation"
               /\ target'[q] = target[q]
               /\ files'[target[q]] = "complete" => files[target[q]] = "complete",
           \A q \in Procs : task'[q] = "load" /\ pc'[q] \in {"enter"} \cup SessionPCs =>
               task[q] = "load" /\ pc[q] \in {"enter"} \cup SessionPCs
    PROVE  SeenInv'
<1>1. ASSUME NEW q \in Procs, pc'[q] = "read_generation"
      PROVE  \/ target'[q] \in seen'[q]
             \/ Empty \in seen'[q] /\ files'[target'[q]] # "complete"
  <2>1. task'[q] = "load"
    BY <1>1 DEF TaskInv
  <2>2. seen[q] \subseteq seen'[q]
    BY <2>1, SeenGrows
  <2>. QED BY <1>1, <2>2 DEF SeenInv
<1>2. ASSUME NEW q \in Procs, task'[q] = "load", pc'[q] \in {"enter"} \cup SessionPCs
      PROVE  MayMiss(q)'
  <2>1. MayMiss(q)
    BY <1>2 DEF SeenInv
  <2>. QED BY <1>2, <2>1, SeenGrows
<1>. QED BY <1>1, <1>2, SeenStep

\* A load in possession of a reason to miss may miss; it has been loading.
LEMMA LoadMayMiss ==
    ASSUME RInv, NEW p \in Procs, pc[p] = "read_generation",
           files[target[p]] # "complete"
    PROVE  MayMiss(p)
<1>1. task[p] = "load"
  BY DEF RInv, IInv, TaskInv
<1>2. Value \in seen[p] /\ Value # target[p]
  BY <1>1, CacheStoreAssumption DEF RInv, IInv, TaskInv, SeenInv, Value
<1>. QED BY <1>1, <1>2 DEF RInv, SeenInv, MayMiss

-----------------------------------------------------------------------------
(* Steps that leave the register alone.                                    *)

Kept == Value' = Value /\ damages' = damages /\ SeenInv'

\* A step of that kind that answers nothing is a stutter.
LEMMA Stutter ==
    ASSUME RInv, Observe, Kept, UNCHANGED <<task, answer>>
    PROVE  UNCHANGED Abstract
BY ObserveNothing DEF RInv, IInv, Kept, Abstract

\* An unknown file does not touch the register.
LEMMA ForeignKeepsValue ==
    ASSUME RInv, TaskInv', Observe, Foreign
    PROVE  Kept
<1>. USE DEF RInv, IInv, SessionPCs, BeforeFile, AfterFile, Evicting
<1>1. Value' = Value /\ damages' = damages
  BY DEF Value, Foreign, disk, others, inventory, call
<1>2. \A q \in Procs : pc'[q] = "read_generation" =>
          /\ pc[q] = "read_generation"
          /\ target'[q] = target[q]
          /\ files'[target[q]] = "complete" => files[target[q]] = "complete"
  BY DEF TypeOK, TaskInv, Foreign, disk, others, inventory, call
<1>3. \A q \in Procs : task'[q] = "load" /\ pc'[q] \in {"enter"} \cup SessionPCs =>
          task[q] = "load" /\ pc[q] \in {"enter"} \cup SessionPCs
  BY DEF TypeOK, Foreign, disk, others, inventory, call
<1>. HIDE DEF RInv, IInv, SessionPCs, BeforeFile, AfterFile, Evicting
<1>. QED
  BY <1>1, <1>2, <1>3, SeenCarries DEF Kept, RInv, IInv

\* Taking the lock does not touch the register.
LEMMA LockKeepsValue ==
    ASSUME RInv, TaskInv', Observe, NEW p \in Procs, Lock(p)
    PROVE  Kept
<1>. USE DEF RInv, IInv, SessionPCs, BeforeFile, AfterFile, Evicting
<1>1. Value' = Value /\ damages' = damages
  BY DEF Value, Lock, Goto, disk, others, inventory, call
<1>2. \A q \in Procs : pc'[q] = "read_generation" =>
          /\ pc[q] = "read_generation"
          /\ target'[q] = target[q]
          /\ files'[target[q]] = "complete" => files[target[q]] = "complete"
  BY DEF TypeOK, TaskInv, Lock, Goto, disk, others, inventory, call
<1>3. \A q \in Procs : task'[q] = "load" /\ pc'[q] \in {"enter"} \cup SessionPCs =>
          task[q] = "load" /\ pc[q] \in {"enter"} \cup SessionPCs
  BY DEF TypeOK, Lock, Goto, disk, others, inventory, call
<1>. HIDE DEF RInv, IInv, SessionPCs, BeforeFile, AfterFile, Evicting
<1>. QED
  BY <1>1, <1>2, <1>3, SeenCarries DEF Kept, RInv, IInv

\* A plan does not touch the register.
LEMMA BaselineKeepsValue ==
    ASSUME RInv, TaskInv', Observe, NEW p \in Procs, Baseline(p)
    PROVE  Kept
<1>. USE DEF RInv, IInv, SessionPCs, BeforeFile, AfterFile, Evicting
<1>1. Value' = Value /\ damages' = damages
  BY DEF Value, Baseline, Follow, Goto, TakeInventory, disk, others,
      inventory, call
<1>2. \A q \in Procs : pc'[q] = "read_generation" =>
          /\ pc[q] = "read_generation"
          /\ target'[q] = target[q]
          /\ files'[target[q]] = "complete" => files[target[q]] = "complete"
  BY DEF TypeOK, TaskInv, Baseline, Follow, Goto, TakeInventory, disk,
      others, inventory, call
<1>3. \A q \in Procs : task'[q] = "load" /\ pc'[q] \in {"enter"} \cup SessionPCs =>
          task[q] = "load" /\ pc[q] \in {"enter"} \cup SessionPCs
  BY DEF TypeOK, Baseline, Follow, Goto, TakeInventory, disk, others,
      inventory, call
<1>. HIDE DEF RInv, IInv, SessionPCs, BeforeFile, AfterFile, Evicting
<1>. QED
  BY <1>1, <1>2, <1>3, SeenCarries DEF Kept, RInv, IInv

\* An eviction does not touch the register.
LEMMA EvictKeepsValue ==
    ASSUME RInv, TaskInv', Observe, NEW p \in Procs, Evict(p)
    PROVE  Kept
<1>. USE DEF RInv, IInv, SessionPCs, BeforeFile, AfterFile, Evicting
<1>1. Value' = Value /\ damages' = damages
  BY DEF Value, TypeOK, VictimInv, Evict, disk, others, inventory, call
<1>2. \A q \in Procs : pc'[q] = "read_generation" =>
          /\ pc[q] = "read_generation"
          /\ target'[q] = target[q]
          /\ files'[target[q]] = "complete" => files[target[q]] = "complete"
  BY DEF TypeOK, TaskInv, Evict, disk, others, inventory, call
<1>3. \A q \in Procs : task'[q] = "load" /\ pc'[q] \in {"enter"} \cup SessionPCs =>
          task[q] = "load" /\ pc[q] \in {"enter"} \cup SessionPCs
  BY DEF TypeOK, Evict, disk, others, inventory, call
<1>. HIDE DEF RInv, IInv, SessionPCs, BeforeFile, AfterFile, Evicting
<1>. QED
  BY <1>1, <1>2, <1>3, SeenCarries DEF Kept, RInv, IInv

\* A recount does not touch the register.
LEMMA RecheckKeepsValue ==
    ASSUME RInv, TaskInv', Observe, NEW p \in Procs, Recheck(p)
    PROVE  Kept
<1>. USE DEF RInv, IInv, SessionPCs, BeforeFile, AfterFile, Evicting
<1>1. Value' = Value /\ damages' = damages
  BY DEF Value, Recheck, Goto, TakeInventory, disk, others, inventory, call
<1>2. \A q \in Procs : pc'[q] = "read_generation" =>
          /\ pc[q] = "read_generation"
          /\ target'[q] = target[q]
          /\ files'[target[q]] = "complete" => files[target[q]] = "complete"
  BY DEF TypeOK, TaskInv, Recheck, Goto, TakeInventory, disk, others,
      inventory, call
<1>3. \A q \in Procs : task'[q] = "load" /\ pc'[q] \in {"enter"} \cup SessionPCs =>
          task[q] = "load" /\ pc[q] \in {"enter"} \cup SessionPCs
  BY DEF TypeOK, Recheck, Goto, TakeInventory, disk, others, inventory, call
<1>. HIDE DEF RInv, IInv, SessionPCs, BeforeFile, AfterFile, Evicting
<1>. QED
  BY <1>1, <1>2, <1>3, SeenCarries DEF Kept, RInv, IInv

\* An admission does not touch the register.
LEMMA ReserveKeepsValue ==
    ASSUME RInv, TaskInv', Observe, NEW p \in Procs, Reserve(p)
    PROVE  Kept
<1>. USE DEF RInv, IInv, SessionPCs, BeforeFile, AfterFile, Evicting
<1>1. Value' = Value /\ damages' = damages
  BY DEF Value, Reserve, Follow, Goto, TakeInventory, disk, others,
      inventory, call
<1>2. \A q \in Procs : pc'[q] = "read_generation" =>
          /\ pc[q] = "read_generation"
          /\ target'[q] = target[q]
          /\ files'[target[q]] = "complete" => files[target[q]] = "complete"
  BY DEF TypeOK, TaskInv, Reserve, Follow, Goto, TakeInventory, disk,
      others, inventory, call
<1>3. \A q \in Procs : task'[q] = "load" /\ pc'[q] \in {"enter"} \cup SessionPCs =>
          task[q] = "load" /\ pc[q] \in {"enter"} \cup SessionPCs
  BY DEF TypeOK, Reserve, Follow, Goto, TakeInventory, disk, others,
      inventory, call
<1>. HIDE DEF RInv, IInv, SessionPCs, BeforeFile, AfterFile, Evicting
<1>. QED
  BY <1>1, <1>2, <1>3, SeenCarries DEF Kept, RInv, IInv

\* A directory does not touch the register.
LEMMA MakeCabinetKeepsValue ==
    ASSUME RInv, TaskInv', Observe, NEW p \in Procs, MakeCabinet(p)
    PROVE  Kept
<1>. USE DEF RInv, IInv, SessionPCs, BeforeFile, AfterFile, Evicting
<1>1. Value' = Value /\ damages' = damages
  BY DEF Value, MakeCabinet, disk, others, inventory, call
<1>2. \A q \in Procs : pc'[q] = "read_generation" =>
          /\ pc[q] = "read_generation"
          /\ target'[q] = target[q]
          /\ files'[target[q]] = "complete" => files[target[q]] = "complete"
  BY DEF TypeOK, TaskInv, MakeCabinet, disk, others, inventory, call
<1>3. \A q \in Procs : task'[q] = "load" /\ pc'[q] \in {"enter"} \cup SessionPCs =>
          task[q] = "load" /\ pc[q] \in {"enter"} \cup SessionPCs
  BY DEF TypeOK, MakeCabinet, disk, others, inventory, call
<1>. HIDE DEF RInv, IInv, SessionPCs, BeforeFile, AfterFile, Evicting
<1>. QED
  BY <1>1, <1>2, <1>3, SeenCarries DEF Kept, RInv, IInv

\* A temporary does not touch the register.
LEMMA CreateTempKeepsValue ==
    ASSUME RInv, TaskInv', Observe, NEW p \in Procs, CreateTemp(p)
    PROVE  Kept
<1>. USE DEF RInv, IInv, SessionPCs, BeforeFile, AfterFile, Evicting
<1>1. Value' = Value /\ damages' = damages
  BY DEF Value, CreateTemp, Goto, disk, others, inventory, call
<1>2. \A q \in Procs : pc'[q] = "read_generation" =>
          /\ pc[q] = "read_generation"
          /\ target'[q] = target[q]
          /\ files'[target[q]] = "complete" => files[target[q]] = "complete"
  BY DEF TypeOK, TaskInv, CreateTemp, Goto, disk, others, inventory, call
<1>3. \A q \in Procs : task'[q] = "load" /\ pc'[q] \in {"enter"} \cup SessionPCs =>
          task[q] = "load" /\ pc[q] \in {"enter"} \cup SessionPCs
  BY DEF TypeOK, CreateTemp, Goto, disk, others, inventory, call
<1>. HIDE DEF RInv, IInv, SessionPCs, BeforeFile, AfterFile, Evicting
<1>. QED
  BY <1>1, <1>2, <1>3, SeenCarries DEF Kept, RInv, IInv

\* A file that is not current yet does not touch the register.
LEMMA RenameGenerationKeepsValue ==
    ASSUME RInv, TaskInv', Observe, NEW p \in Procs, RenameGeneration(p)
    PROVE  Kept
<1>. USE DEF RInv, IInv, SessionPCs, BeforeFile, AfterFile, Evicting
<1>1. Value' = Value /\ damages' = damages
  BY DEF Value, TypeOK, TaskInv, FreshInv, CurrentIsPresent,
      RenameGeneration, Goto, disk, others, inventory, call
<1>2. \A q \in Procs : pc'[q] = "read_generation" =>
          /\ pc[q] = "read_generation"
          /\ target'[q] = target[q]
          /\ files'[target[q]] = "complete" => files[target[q]] = "complete"
  BY DEF TypeOK, TaskInv, FreshInv, RenameGeneration, Goto, disk, others,
      inventory, call
<1>3. \A q \in Procs : task'[q] = "load" /\ pc'[q] \in {"enter"} \cup SessionPCs =>
          task[q] = "load" /\ pc[q] \in {"enter"} \cup SessionPCs
  BY DEF TypeOK, RenameGeneration, Goto, disk, others, inventory, call
<1>. HIDE DEF RInv, IInv, SessionPCs, BeforeFile, AfterFile, Evicting
<1>. QED
  BY <1>1, <1>2, <1>3, SeenCarries DEF Kept, RInv, IInv

\* The begin of a write does not touch the register.
LEMMA StartWriteKeepsValue ==
    ASSUME RInv, TaskInv', Observe, NEW p \in Procs, StartWrite(p)
    PROVE  Kept
<1>. USE DEF RInv, IInv, SessionPCs, BeforeFile, AfterFile, Evicting
<1>1. Value' = Value /\ damages' = damages
  BY DEF Value, StartWrite, Start, Goto, Reply, disk, others, inventory,
      call
<1>2. \A q \in Procs : pc'[q] = "read_generation" =>
          /\ pc[q] = "read_generation"
          /\ target'[q] = target[q]
          /\ files'[target[q]] = "complete" => files[target[q]] = "complete"
  BY DEF TypeOK, TaskInv, StartWrite, Start, Goto, Reply, disk, others,
      inventory, call
<1>3. \A q \in Procs : task'[q] = "load" /\ pc'[q] \in {"enter"} \cup SessionPCs =>
          task[q] = "load" /\ pc[q] \in {"enter"} \cup SessionPCs
  BY DEF TypeOK, StartWrite, Start, Goto, Reply, disk, others, inventory,
      call
<1>. HIDE DEF RInv, IInv, SessionPCs, BeforeFile, AfterFile, Evicting
<1>. QED
  BY <1>1, <1>2, <1>3, SeenCarries DEF Kept, RInv, IInv

\* The begin of a load does not touch the register.
LEMMA StartLoadKeepsValue ==
    ASSUME RInv, TaskInv', Observe, NEW p \in Procs, StartLoad(p)
    PROVE  Kept
<1>. USE DEF RInv, IInv, SessionPCs, BeforeFile, AfterFile, Evicting
<1>1. Value' = Value /\ damages' = damages
  BY DEF Value, StartLoad, Start, Goto, Reply, disk, others, inventory, call
<1>2. \A q \in Procs : pc'[q] = "read_generation" =>
          /\ pc[q] = "read_generation"
          /\ target'[q] = target[q]
          /\ files'[target[q]] = "complete" => files[target[q]] = "complete"
  BY DEF TypeOK, TaskInv, StartLoad, Start, Goto, Reply, disk, others,
      inventory, call
<1>3. \A q \in Procs : task'[q] = "load" /\ pc'[q] \in {"enter"} \cup SessionPCs =>
          task[q] = "load" /\ pc[q] \in {"enter"} \cup SessionPCs
  BY DEF TypeOK, StartLoad, Start, Goto, Reply, disk, others, inventory,
      call
<1>. HIDE DEF RInv, IInv, SessionPCs, BeforeFile, AfterFile, Evicting
<1>. QED
  BY <1>1, <1>2, <1>3, SeenCarries DEF Kept, RInv, IInv

\* The copy of damaged bytes does not touch the register.
LEMMA RenameCopyKeepsValue ==
    ASSUME RInv, TaskInv', Observe, NEW p \in Procs, RenameCopy(p)
    PROVE  Kept
<1>. USE DEF RInv, IInv, SessionPCs, BeforeFile, AfterFile, Evicting
<1>1. Value' = Value /\ damages' = damages
  BY DEF Value, RenameCopy, Close, Return, Goto, Reply, disk, others,
      inventory, call
<1>2. \A q \in Procs : pc'[q] = "read_generation" =>
          /\ pc[q] = "read_generation"
          /\ target'[q] = target[q]
          /\ files'[target[q]] = "complete" => files[target[q]] = "complete"
  BY DEF TypeOK, TaskInv, RenameCopy, Close, Return, Goto, Reply, disk,
      others, inventory, call
<1>3. \A q \in Procs : task'[q] = "load" /\ pc'[q] \in {"enter"} \cup SessionPCs =>
          task[q] = "load" /\ pc[q] \in {"enter"} \cup SessionPCs
  BY DEF TypeOK, RenameCopy, Close, Return, Goto, Reply, disk, others,
      inventory, call
<1>. HIDE DEF RInv, IInv, SessionPCs, BeforeFile, AfterFile, Evicting
<1>. QED
  BY <1>1, <1>2, <1>3, SeenCarries DEF Kept, RInv, IInv

\* A failure does not touch the register.
LEMMA FailKeepsValue ==
    ASSUME RInv, TaskInv', Observe, NEW p \in Procs, Fail(p)
    PROVE  Kept
<1>. USE DEF RInv, IInv, SessionPCs, BeforeFile, AfterFile, Evicting
<1>1. Value' = Value /\ damages' = damages
  BY DEF Value, Fail, Close, Return, Goto, Reply, disk, others, inventory,
      call
<1>2. \A q \in Procs : pc'[q] = "read_generation" =>
          /\ pc[q] = "read_generation"
          /\ target'[q] = target[q]
          /\ files'[target[q]] = "complete" => files[target[q]] = "complete"
  BY DEF TypeOK, TaskInv, Fail, Close, Return, Goto, Reply, disk, others,
      inventory, call
<1>3. \A q \in Procs : task'[q] = "load" /\ pc'[q] \in {"enter"} \cup SessionPCs =>
          task[q] = "load" /\ pc[q] \in {"enter"} \cup SessionPCs
  BY DEF TypeOK, Fail, Close, Return, Goto, Reply, disk, others, inventory,
      call
<1>. HIDE DEF RInv, IInv, SessionPCs, BeforeFile, AfterFile, Evicting
<1>. QED
  BY <1>1, <1>2, <1>3, SeenCarries DEF Kept, RInv, IInv

\* A crash does not touch the register.
LEMMA CrashKeepsValue ==
    ASSUME RInv, TaskInv', Observe, NEW p \in Procs, Crash(p)
    PROVE  Kept
<1>. USE DEF RInv, IInv, SessionPCs, BeforeFile, AfterFile, Evicting
<1>1. Value' = Value /\ damages' = damages
  BY DEF Value, Crash, Close, Return, Goto, Reply, disk, others, inventory,
      call
<1>2. \A q \in Procs : pc'[q] = "read_generation" =>
          /\ pc[q] = "read_generation"
          /\ target'[q] = target[q]
          /\ files'[target[q]] = "complete" => files[target[q]] = "complete"
  BY DEF TypeOK, TaskInv, Crash, Close, Return, Goto, Reply, disk, others,
      inventory, call
<1>3. \A q \in Procs : task'[q] = "load" /\ pc'[q] \in {"enter"} \cup SessionPCs =>
          task[q] = "load" /\ pc[q] \in {"enter"} \cup SessionPCs
  BY DEF TypeOK, Crash, Close, Return, Goto, Reply, disk, others, inventory,
      call
<1>. HIDE DEF RInv, IInv, SessionPCs, BeforeFile, AfterFile, Evicting
<1>. QED
  BY <1>1, <1>2, <1>3, SeenCarries DEF Kept, RInv, IInv

\* A read pointer justifies what the load does next.
LEMMA ReadPointerKeepsValue ==
    ASSUME RInv, TypeOK', TaskInv', Observe, NEW p \in Procs, ReadPointer(p)
    PROVE  Kept
<1>1. Value' = Value /\ damages' = damages /\ files' = files
  BY DEF Value, ReadPointer, disk, others
<1>2. TypeOK /\ TaskInv /\ SeenInv
  BY DEF RInv, IInv
<1>3. \A q \in Procs : q # p => /\ pc'[q] = pc[q] /\ task'[q] = task[q]
                                /\ target'[q] = target[q]
  BY <1>2 DEF TypeOK, ReadPointer, Return, Goto
<1>4. ASSUME NEW q \in Procs, pc'[q] = "read_generation"
      PROVE  \/ target'[q] \in seen'[q]
             \/ Empty \in seen'[q] /\ files'[target'[q]] # "complete"
  <2>1. task'[q] = "load" /\ target'[q] \in Ids
    BY <1>4 DEF TaskInv
  <2>2. Value' \in seen'[q] /\ seen[q] \subseteq seen'[q]
    BY <2>1 DEF Observe
  <2>3. CASE q = p
    <3>1. target'[p] = pointer
      BY <1>2, <1>4, <2>3 DEF TypeOK, ReadPointer, Return, Goto
    <3>. QED BY <1>1, <2>1, <2>2, <2>3, <3>1 DEF Value
  <2>4. CASE q # p
    BY <1>1, <1>2, <1>3, <1>4, <2>2, <2>4 DEF SeenInv
  <2>. QED BY <2>3, <2>4
<1>5. ASSUME NEW q \in Procs, task'[q] = "load", pc'[q] \in {"enter"} \cup SessionPCs
      PROVE  MayMiss(q)'
  <2>1. CASE q = p
    <3>1. pointer = Malformed
      BY <1>2, <1>5, <2>1 DEF TypeOK, ReadPointer, Return, Goto, SessionPCs
    <3>2. Value' = Empty
      BY <1>1, <3>1, CacheStoreAssumption DEF Value
    <3>. QED BY <1>5, <3>2 DEF Observe, MayMiss
  <2>2. CASE q # p
    <3>1. MayMiss(q)
      BY <1>2, <1>3, <1>5, <2>2 DEF SeenInv
    <3>. QED BY <1>5, <3>1, SeenGrows
  <2>. QED BY <2>1, <2>2
<1>. QED BY <1>1, <1>2, <1>4, <1>5, SeenStep DEF Kept

\* A generation that is read, missed or found damaged.
LEMMA ReadGenerationKeepsValue ==
    ASSUME RInv, TypeOK', TaskInv', Observe, NEW p \in Procs, ReadGeneration(p)
    PROVE  Kept
<1>1. Value' = Value /\ damages' = damages /\ files' = files
  BY DEF Value, ReadGeneration, disk, others
<1>2. TypeOK /\ TaskInv /\ SeenInv
  BY DEF RInv, IInv
<1>3. \A q \in Procs : q # p => /\ pc'[q] = pc[q] /\ task'[q] = task[q]
                                /\ target'[q] = target[q]
  BY <1>2 DEF TypeOK, ReadGeneration, Return, Goto, call
<1>4. ASSUME NEW q \in Procs, pc'[q] = "read_generation"
      PROVE  \/ target'[q] \in seen'[q]
             \/ Empty \in seen'[q] /\ files'[target'[q]] # "complete"
  <2>1. q # p
    BY <1>2, <1>4 DEF TypeOK, ReadGeneration, Return, Goto
  <2>2. task'[q] = "load"
    BY <1>4 DEF TaskInv
  <2>3. seen[q] \subseteq seen'[q]
    BY <2>2, SeenGrows
  <2>. QED BY <1>1, <1>2, <1>3, <1>4, <2>1, <2>3 DEF SeenInv
<1>5. ASSUME NEW q \in Procs, task'[q] = "load", pc'[q] \in {"enter"} \cup SessionPCs
      PROVE  MayMiss(q)'
  <2>1. CASE q = p
    <3>1. pc[p] = "read_generation" /\ files[target[p]] # "complete"
      BY <1>2, <1>5, <2>1 DEF TypeOK, ReadGeneration, Return, Goto, SessionPCs
    <3>2. MayMiss(p)
      BY <3>1, LoadMayMiss
    <3>. QED BY <1>5, <2>1, <3>2, SeenGrows
  <2>2. CASE q # p
    <3>1. MayMiss(q)
      BY <1>2, <1>3, <1>5, <2>2 DEF SeenInv
    <3>. QED BY <1>5, <3>1, SeenGrows
  <2>. QED BY <2>1, <2>2
<1>. QED BY <1>1, <1>2, <1>4, <1>5, SeenStep DEF Kept

-----------------------------------------------------------------------------
(* Every step is one of the register.                                      *)

\* Beginning a call.
LEMMA BeginStep ==
    ASSUME RInv, Observe, Kept, NEW p \in Procs, NEW t,
           task' = [task EXCEPT ![p] = t],
           answer' = [answer EXCEPT ![p] = Reply("none", Empty)],
           task[p] # "load" \/ t # "load"
    PROVE  Register!Begin(p)
<1>1. seen' = [seen EXCEPT ![p] = IF t = "load" THEN seen[p] \cup {Value} ELSE {}]
  BY ObserveCall DEF RInv, IInv, Kept
<1>2. t = "load" => seen[p] = {}
  BY DEF RInv, SeenInv
<1>. QED BY <1>1, <1>2 DEF Kept, Register!Begin, Register!NoAnswer, Reply

\* Ending a call.
LEMMA EndStep ==
    ASSUME RInv, Observe, Kept, NEW p \in Procs,
           task' = [task EXCEPT ![p] = "none"]
    PROVE  seen' = [seen EXCEPT ![p] = {}] /\ UNCHANGED <<Value, damages > 0>>
<1>1. seen' = [seen EXCEPT ![p] = IF "none" = "load" THEN seen[p] \cup {Value} ELSE {}]
  BY ObserveCall DEF RInv, IInv, Kept
<1>. QED BY <1>1 DEF Kept

\* An error may end any call.
LEMMA RefuseStep ==
    ASSUME RInv, Observe, Kept, NEW p \in Procs,
           task' = [task EXCEPT ![p] = "none"],
           answer' = [answer EXCEPT ![p] = Reply("error", Empty)]
    PROVE  Register!Refuse(p)
BY EndStep DEF Register!Refuse, Register!Answer, Reply

\* A miss ends a load that has a reason for it.
LEMMA MissStep ==
    ASSUME RInv, Observe, Kept, NEW p \in Procs, MayMiss(p),
           task' = [task EXCEPT ![p] = "none"],
           answer' = [answer EXCEPT ![p] = Reply("miss", Empty)]
    PROVE  Register!Miss(p)
BY EndStep DEF Register!Miss, Register!Answer, Reply, MayMiss

\* A load reads no pointer, or goes on.
LEMMA ReadPointerStep ==
    ASSUME RInv, Observe, Kept, NEW p \in Procs, ReadPointer(p)
    PROVE  Register!Miss(p) \/ UNCHANGED Abstract
<1>1. CASE pointer = Empty
  <2>1. task[p] = "load"
    BY DEF RInv, IInv, TaskInv, ReadPointer
  <2>2. Value = Empty
    BY <1>1, CacheStoreAssumption DEF Value
  <2>3. MayMiss(p)
    BY <2>1, <2>2 DEF RInv, SeenInv, MayMiss
  <2>. QED BY <1>1, <2>3, MissStep DEF ReadPointer, Return
<1>2. CASE pointer # Empty
  BY <1>2, Stutter DEF ReadPointer
<1>. QED BY <1>1, <1>2

\* A load hits a generation it has seen in the register, misses, or goes on.
LEMMA ReadGenerationStep ==
    ASSUME RInv, Observe, Kept, NEW p \in Procs, ReadGeneration(p)
    PROVE  Register!Hit(p) \/ Register!Miss(p) \/ UNCHANGED Abstract
<1>1. pc[p] = "read_generation" /\ target[p] \in Ids
  BY DEF RInv, IInv, TaskInv, ReadGeneration
<1>2. CASE files[target[p]] = "absent"
  <2>1. MayMiss(p)
    BY <1>1, <1>2, LoadMayMiss
  <2>. QED BY <1>2, <2>1, MissStep DEF ReadGeneration, Return
<1>3. CASE files[target[p]] = "complete"
  <2>1. target[p] \in seen[p] \ {Empty}
    BY <1>1, <1>3, CacheStoreAssumption DEF RInv, SeenInv
  <2>2. answer' = [answer EXCEPT ![p] = Reply("hit", target[p])]
    BY <1>3 DEF ReadGeneration, Return
  <2>3. task' = [task EXCEPT ![p] = "none"]
    BY <1>3 DEF ReadGeneration, Return
  <2>. QED BY <2>1, <2>2, <2>3, EndStep DEF Register!Hit, Register!Of, Reply
<1>4. CASE files[target[p]] = "damaged"
  BY <1>4, Stutter DEF ReadGeneration, call
<1>. QED BY <1>1, <1>2, <1>3, <1>4 DEF ReadGeneration

\* A copy in quarantine/ ends a load with a miss or an error.
LEMMA RenameCopyStep ==
    ASSUME RInv, Observe, Kept, NEW p \in Procs, RenameCopy(p)
    PROVE  Register!Miss(p) \/ Register!Refuse(p)
<1>1. MayMiss(p)
  BY DEF RInv, SeenInv, RenameCopy, SessionPCs
<1>2. CASE target[p] = Malformed
  BY <1>2, RefuseStep DEF RenameCopy, Close, Return
<1>3. CASE target[p] # Malformed
  BY <1>1, <1>3, MissStep DEF RenameCopy, Close, Return
<1>. QED BY <1>2, <1>3

\* The rename of current.json sets the register.
LEMMA RenamePointerStep ==
    ASSUME RInv, TaskInv', Observe, NEW p \in Procs, RenamePointer(p)
    PROVE  SeenInv' /\ \E g \in Ids : Register!Write(p, g)
<1>. USE DEF RInv, IInv
<1>1. target[p] \in Ids /\ task[p] = "write" /\ pc[p] \in AfterFile
  BY DEF TaskInv, RenamePointer, AfterFile
<1>2. pointer' = target[p] /\ files' = files /\ damages' = damages
  BY DEF RenamePointer, others
<1>3. Value' = target[p] \/ (Value' = Empty /\ damages > 0)
  BY <1>1, <1>2 DEF Value, CommitInv, DamageInv, TypeOK
<1>4. \A q \in Procs : pc'[q] # "idle" =>
          pc'[q] = pc[q] /\ task'[q] = task[q] /\ target'[q] = target[q]
  BY DEF TypeOK, RenamePointer, Close, Return, Goto
<1>5. SeenInv'
  BY <1>2, <1>4, SeenCarries DEF SessionPCs
<1>6. seen' = [q \in Procs |-> IF seen[q] # {} THEN seen[q] \cup {Value'} ELSE {}]
  <2>1. \A q \in Procs : task'[q] = "load" <=> task[q] = "load"
    BY <1>1 DEF TypeOK, RenamePointer, Close, Return
  <2>. QED BY <2>1, ObserveSet
<1>7. seen[p] = {}
  BY <1>1 DEF SeenInv
<1>8. answer' = [answer EXCEPT ![p] = Reply("written", target[p])]
  BY DEF RenamePointer, Close, Return
<1>9. Register!Set(Value')
  BY <1>6 DEF Register!Set, Register!Loading
<1>10. Register!Write(p, target[p])
  BY <1>2, <1>3, <1>7, <1>8, <1>9
  DEF Register!Write, Register!Loading, Register!Of, Reply
<1>. QED BY <1>1, <1>5, <1>10

\* Damage empties the register or leaves it alone.
LEMMA DamageStep ==
    ASSUME RInv, TaskInv', Observe, Damage
    PROVE  SeenInv' /\ Register!Damage
<1>. USE DEF RInv, IInv
<1>1. (damages > 0)' = TRUE /\ UNCHANGED <<pc, task, target, answer>>
  BY CacheStoreAssumption DEF TypeOK, Damage, call
<1>2. \A g \in Ids : files'[g] = "complete" => files[g] = "complete"
  BY DEF TypeOK, Damage
<1>3. SeenInv'
  BY <1>1, <1>2, SeenCarries DEF TaskInv
<1>4. Value' = Value \/ Value' = Empty
  BY CacheStoreAssumption DEF TypeOK, Damage, Value
<1>5. CASE Value' = Value
  <2>1. seen' = seen
    BY <1>1, <1>5, ObserveNothing
  <2>. QED BY <1>1, <1>3, <1>5, <2>1 DEF Register!Damage
<1>6. CASE Value' = Empty
  <2>1. seen' = [q \in Procs |-> IF seen[q] # {} THEN seen[q] \cup {Value'} ELSE {}]
    BY <1>1, ObserveSet
  <2>2. Register!Set(Empty)
    BY <1>6, <2>1 DEF Register!Set, Register!Loading
  <2>. QED BY <1>1, <1>3, <2>2 DEF Register!Damage
<1>. QED BY <1>3, <1>4, <1>5, <1>6

\* The register begins empty.
LEMMA RegisterInitially == RegisterInit => RInv /\ Register!Init
<1>. SUFFICES ASSUME RegisterInit PROVE RInv /\ Register!Init
  OBVIOUS
<1>1. IInv
  BY InitInvariant DEF RegisterInit
<1>2. Value = Empty /\ damages = 0
  BY CacheStoreAssumption DEF RegisterInit, Init, Value
<1>3. FreshInv /\ DamageInv
  BY DEF RegisterInit, Init, FreshInv, DamageInv
<1>4. SeenInv
  BY <1>2 DEF RegisterInit, Init, SeenInv
<1>5. Register!Init
  BY <1>2 DEF RegisterInit, Init, Register!Init, Register!NoAnswer
<1>. QED BY <1>1, <1>3, <1>4, <1>5 DEF RInv

\* A step of a process is a step of the register or a stutter.
LEMMA StepSimulates ==
    ASSUME RInv, TypeOK', TaskInv', Observe, NEW p \in Procs, Step(p)
    PROVE  SeenInv' /\ (Register!Next \/ UNCHANGED Abstract)
<1>1. CASE StartWrite(p)
  <2>1. Kept
    BY <1>1, StartWriteKeepsValue
  <2>2. /\ task' = [task EXCEPT ![p] = "write"]
        /\ answer' = [answer EXCEPT ![p] = Reply("none", Empty)]
    BY <1>1 DEF StartWrite, Start
  <2>4. Register!Begin(p)
    BY <2>1, <2>2, BeginStep
  <2>. QED BY <2>1, <2>4 DEF Kept, Register!Next
<1>2. CASE StartLoad(p)
  <2>1. Kept
    BY <1>2, StartLoadKeepsValue
  <2>2. /\ task' = [task EXCEPT ![p] = "load"]
        /\ answer' = [answer EXCEPT ![p] = Reply("none", Empty)]
    BY <1>2 DEF StartLoad, Start
  <2>3. task[p] # "load"
    BY <1>2 DEF RInv, IInv, TaskInv, StartLoad, Start
  <2>4. Register!Begin(p)
    BY <2>1, <2>2, <2>3, BeginStep
  <2>. QED BY <2>1, <2>4 DEF Kept, Register!Next
<1>3. CASE ReadPointer(p)
  <2>1. Kept
    BY <1>3, ReadPointerKeepsValue
  <2>. QED BY <1>3, <2>1, ReadPointerStep DEF Kept, Register!Next
<1>4. CASE ReadGeneration(p)
  <2>1. Kept
    BY <1>4, ReadGenerationKeepsValue
  <2>. QED BY <1>4, <2>1, ReadGenerationStep DEF Kept, Register!Next
<1>5. CASE Lock(p)
  BY <1>5, LockKeepsValue, Stutter DEF Lock, call, Kept
<1>6. CASE Baseline(p)
  BY <1>6, BaselineKeepsValue, Stutter DEF Baseline, call, Kept
<1>7. CASE Evict(p)
  BY <1>7, EvictKeepsValue, Stutter DEF Evict, call, Kept
<1>8. CASE Recheck(p)
  BY <1>8, RecheckKeepsValue, Stutter DEF Recheck, call, Kept
<1>9. CASE Reserve(p)
  BY <1>9, ReserveKeepsValue, Stutter DEF Reserve, call, Kept
<1>10. CASE MakeCabinet(p)
  BY <1>10, MakeCabinetKeepsValue, Stutter DEF MakeCabinet, call, Kept
<1>11. CASE CreateTemp(p)
  BY <1>11, CreateTempKeepsValue, Stutter DEF CreateTemp, call, Kept
<1>12. CASE RenameGeneration(p)
  BY <1>12, RenameGenerationKeepsValue, Stutter DEF RenameGeneration, call,
      Kept
<1>13. CASE RenamePointer(p)
  BY <1>13, RenamePointerStep DEF Register!Next
<1>14. CASE RenameCopy(p)
  <2>1. Kept
    BY <1>14, RenameCopyKeepsValue
  <2>. QED BY <1>14, <2>1, RenameCopyStep DEF Kept, Register!Next
<1>15. CASE Fail(p)
  <2>1. Kept
    BY <1>15, FailKeepsValue
  <2>2. Register!Refuse(p)
    BY <1>15, <2>1, RefuseStep DEF Fail, Close, Return
  <2>. QED BY <2>1, <2>2 DEF Kept, Register!Next
<1>16. CASE Crash(p)
  <2>1. Kept
    BY <1>16, CrashKeepsValue
  <2>2. /\ task' = [task EXCEPT ![p] = "none"]
        /\ answer' = [answer EXCEPT ![p] = Reply("none", Empty)]
    BY <1>16 DEF Crash, Close, Return
  <2>4. Register!Begin(p)
    BY <2>1, <2>2, BeginStep
  <2>. QED BY <2>1, <2>4 DEF Kept, Register!Next
<1>. QED
  BY <1>1, <1>2, <1>3, <1>4, <1>5, <1>6, <1>7, <1>8, <1>9, <1>10, <1>11,
      <1>12, <1>13, <1>14, <1>15, <1>16 DEF Step

\* Every step of the store is a step of the register or a stutter.
LEMMA NextSimulates ==
    RInv /\ [Next /\ Observe]_<<vars, seen>> =>
        RInv' /\ (Register!Next \/ UNCHANGED Abstract)
<1>. SUFFICES ASSUME RInv, [Next /\ Observe]_<<vars, seen>>
              PROVE  RInv' /\ (Register!Next \/ UNCHANGED Abstract)
  OBVIOUS
<1>1. CASE Next /\ Observe
  <2>1. IInv'
    BY <1>1, NextInvariant DEF RInv
  <2>2. FreshInv' /\ DamageInv'
    BY <1>1, FreshInvStep, DamageInvStep DEF RInv
  <2>3. TypeOK' /\ TaskInv'
    BY <2>1 DEF IInv
  <2>4. SeenInv' /\ (Register!Next \/ UNCHANGED Abstract)
    <3>1. CASE Foreign
      BY <1>1, <2>3, <3>1, ForeignKeepsValue, Stutter DEF Foreign, call, Kept
    <3>2. CASE Damage
      BY <1>1, <2>3, <3>2, DamageStep DEF Register!Next
    <3>3. ASSUME NEW p \in Procs, Step(p)
          PROVE  SeenInv' /\ (Register!Next \/ UNCHANGED Abstract)
      BY <1>1, <2>3, <3>3, StepSimulates
    <3>. QED BY <1>1, <3>1, <3>2, <3>3 DEF Next
  <2>. QED BY <2>1, <2>2, <2>4 DEF RInv
<1>2. CASE UNCHANGED <<vars, seen>>
  <2>1. IInv'
    BY <1>2, NextInvariant DEF RInv
  <2>2. Value' = Value
    BY <1>2 DEF vars, Value
  <2>3. FreshInv' /\ DamageInv' /\ SeenInv'
    BY <1>2, <2>2 DEF RInv, vars, FreshInv, DamageInv, SeenInv, MayMiss
  <2>4. UNCHANGED Abstract
    BY <1>2, <2>2 DEF vars, Abstract
  <2>. QED BY <2>1, <2>3, <2>4 DEF RInv
<1>. QED BY <1>1, <1>2

\* The files, the lock, the evictions and the quarantine are an atomic register
\* that may fail: nothing but the rename of current.json and damage changes it.
THEOREM RegisterTheorem == RegisterSpec => ImplementsRegister
<1>1. Register!Next \/ UNCHANGED Abstract
        => [Register!Next]_<<Value, damages > 0, seen, answer>>
  BY DEF Abstract
<1>. QED
  BY <1>1, RegisterInitially, NextSimulates, PTL
  DEF RegisterSpec, ImplementsRegister, Register!Spec

-----------------------------------------------------------------------------
(* The limits of the store: a session that was admitted has room for all it  *)
(* has still to create.                                                      *)

LEMMA SizeTypes ==
    TypeOK /\ CountInv =>
        /\ Cardinality(Present) \in Nat /\ Cardinality(evidence) \in Nat
        /\ temps \in Nat /\ unknown \in Nat /\ noise \in Nat
        /\ Bytes \in Nat /\ Entries = 2 + One(cabinet) + Bytes /\ Entries \in Nat
        /\ Bytes = One(pointer # Empty) + Cardinality(Present) + Cardinality(evidence)
                     + temps + unknown
<1> SUFFICES ASSUME TypeOK, CountInv
             PROVE  /\ Cardinality(Present) \in Nat /\ Cardinality(evidence) \in Nat
                    /\ temps \in Nat /\ unknown \in Nat /\ noise \in Nat
                    /\ Bytes \in Nat /\ Entries = 2 + One(cabinet) + Bytes /\ Entries \in Nat
                    /\ Bytes = One(pointer # Empty) + Cardinality(Present)
                                 + Cardinality(evidence) + temps + unknown
  OBVIOUS
<1>1. Cardinality(Present) \in Nat /\ Cardinality(evidence) \in Nat
  BY FS_CardinalityType DEF CountInv
<1>2. temps \in Nat /\ unknown \in Nat /\ noise \in Nat
  BY CacheStoreAssumption DEF TypeOK
<1>3. One(pointer # Empty) \in Nat /\ One(cabinet) \in Nat
  BY DEF One
<1>4. Bytes = One(pointer # Empty) + Cardinality(Present) + Cardinality(evidence)
                 + temps + unknown
  BY DEF Bytes
<1>5. Bytes \in Nat
  BY <1>1, <1>2, <1>3, <1>4
<1>6. Entries = 2 + One(cabinet) + Bytes
  BY DEF Entries
<1> QED BY <1>1, <1>2, <1>3, <1>4, <1>5, <1>6

\* What the disk would have to change for the limits to be another.
LEMMA SameSizes ==
    ASSUME UNCHANGED <<files, pointer, temps, cabinet, evidence, unknown>>
    PROVE  Present' = Present /\ Bytes' = Bytes /\ Entries' = Entries
<1>1. Present' = Present
  BY DEF Present
<1>2. Bytes' = Bytes
  BY <1>1 DEF Bytes
<1> QED BY <1>1, <1>2 DEF Entries

LEMMA CountStays ==
    ASSUME CountInv, UNCHANGED <<files, evidence>>
    PROVE  CountInv'
BY DEF CountInv, Present

\* A process outside its session needs nothing.
LEMMA NoRoom ==
    ASSUME NEW q \in Procs, pc'[q] \notin SessionPCs
    PROVE  Room(q)'
BY DEF Room, SessionPCs, Evicting

\* While one process has the lock, no other is in a session.
LEMMA OthersRoom ==
    ASSUME IInv, NEW p \in Procs, lock = p, NEW to, pc' = [pc EXCEPT ![p] = to],
           NEW q \in Procs, q # p
    PROVE  Room(q)'
<1>1. pc'[q] = pc[q]
  BY DEF IInv, TypeOK
<1>2. pc[q] \notin SessionPCs
  BY DEF IInv, LockInv
<1> QED BY <1>1, <1>2, NoRoom

\* What others take of the disk is what the inventory will be forgiven.
LEMMA RoomStays ==
    ASSUME NEW q \in Procs, Room(q), NEW d \in Int,
           pc'[q] = pc[q], task'[q] = task[q], victims'[q] = victims[q],
           cabinet' = cabinet, Present' = Present, noise' = noise + d,
           Bytes' = Bytes + d, Entries' = Entries + d,
           Bytes \in Int, Entries \in Int, noise \in Int
    PROVE  Room(q)'
<1>1. ASSUME NEW more, NEW n, Fits(noise, more, n)
      PROVE  /\ Cardinality(Present') - n + more.generations <= GENERATION_CAP
             /\ Bytes' - noise' - n + more.bytes <= BYTE_CAP
             /\ Entries' - noise' - n + more.entries <= ENTRY_CAP
  <2>1. Bytes' - noise' = Bytes - noise /\ Entries' - noise' = Entries - noise
    OBVIOUS
  <2> QED BY <1>1, <2>1 DEF Fits
<1>2. More(q)' = More(q)
  BY DEF More
<1>3. pc'[q] \in Evicting => victims'[q] \subseteq Present'
  BY DEF Room
<1>4. pc'[q] = "baseline" => Fits(noise, Nothing, Cardinality(victims[q]))'
  BY <1>1 DEF Room, Fits, Nothing
<1>5. pc'[q] = "repair" => Fits(noise, More(q), Cardinality(victims[q]))'
  BY <1>1, <1>2 DEF Room, Fits
<1>6. pc'[q] = "admitted" => Fits(noise, More(q), 0)'
  BY <1>1, <1>2 DEF Room, Fits
<1>7. pc'[q] = "written" /\ task'[q] = "write" => Fits(noise, RestOfWrite, 0)'
  BY <1>1 DEF Room, Fits, RestOfWrite
<1>8. pc'[q] = "pointer" => Fits(noise, ThePointer, 0)'
  BY <1>1 DEF Room, Fits, ThePointer
<1> QED BY <1>3, <1>4, <1>5, <1>6, <1>7, <1>8 DEF Room

\* What GrowthWithinQuota says of a step.
Within ==
    Entries' - unknown' > Entries - unknown =>
        Entries' <= ENTRY_CAP + noise' /\ Bytes' <= BYTE_CAP + noise'

\* A step of one process that leaves the disk and the inventory as they are.
LEMMA QuietStep ==
    ASSUME QInv, NEW p \in Procs, NEW to, pc' = [pc EXCEPT ![p] = to],
           UNCHANGED <<files, pointer, temps, cabinet, evidence, unknown, noise>>,
           \A q \in Procs : q # p => task'[q] = task[q] /\ victims'[q] = victims[q],
           Room(p)'
    PROVE  CountInv' /\ RoomInv' /\ Within
<1>1. CountInv'
  BY CountStays DEF QInv
<1>2. Present' = Present /\ Bytes' = Bytes /\ Entries' = Entries
  BY SameSizes
<1>3. Bytes \in Int /\ Entries \in Int /\ noise \in Int /\ unknown \in Int
  BY SizeTypes DEF QInv, IInv
<1>4. ASSUME NEW q \in Procs, q # p PROVE Room(q)'
  <2>1. pc'[q] = pc[q]
    BY <1>4 DEF QInv, IInv, TypeOK
  <2>2. Room(q) /\ task'[q] = task[q] /\ victims'[q] = victims[q]
    BY <1>4 DEF QInv, RoomInv
  <2>3. noise' = noise + 0 /\ Bytes' = Bytes + 0 /\ Entries' = Entries + 0
    BY <1>2, <1>3
  <2> QED BY <1>2, <1>3, <2>1, <2>2, <2>3, RoomStays
<1>5. Within
  BY <1>2, <1>3 DEF Within
<1> QED BY <1>1, <1>4, <1>5 DEF RoomInv

\* Room in the state after a step.
FitsThen(more, n) ==
    /\ Cardinality(Present') - n + more.generations <= GENERATION_CAP
    /\ Bytes' - noise' - n + more.bytes <= BYTE_CAP
    /\ Entries' - noise' - n + more.entries <= ENTRY_CAP

LEMMA RoomThen ==
    ASSUME NEW q \in Procs,
           pc'[q] \in Evicting => victims'[q] \subseteq Present',
           pc'[q] = "baseline" => FitsThen(Nothing, Cardinality(victims'[q])),
           pc'[q] = "repair" => FitsThen(More(q)', Cardinality(victims'[q])),
           pc'[q] = "admitted" => FitsThen(More(q)', 0),
           pc'[q] = "written" /\ task'[q] = "write" => FitsThen(RestOfWrite, 0),
           pc'[q] = "pointer" => FitsThen(ThePointer, 0)
    PROVE  Room(q)'
<1>1. pc'[q] = "baseline" => Fits(noise, Nothing, Cardinality(victims[q]))'
  BY DEF Fits, FitsThen, Nothing
<1>2. pc'[q] = "repair" => Fits(noise, More(q), Cardinality(victims[q]))'
  BY DEF Fits, FitsThen
<1>3. pc'[q] = "admitted" => Fits(noise, More(q), 0)'
  BY DEF Fits, FitsThen
<1>4. pc'[q] = "written" /\ task'[q] = "write" => Fits(noise, RestOfWrite, 0)'
  BY DEF Fits, FitsThen, RestOfWrite
<1>5. pc'[q] = "pointer" => Fits(noise, ThePointer, 0)'
  BY DEF Fits, FitsThen, ThePointer
<1> QED BY <1>1, <1>2, <1>3, <1>4, <1>5 DEF Room

\* A step of the holder of the lock.
LEMMA HolderStep ==
    ASSUME QInv, NEW p \in Procs, lock = p, NEW to, pc' = [pc EXCEPT ![p] = to], Room(p)'
    PROVE  RoomInv'
<1>1. \A q \in Procs : q # p => Room(q)'
  BY OthersRoom DEF QInv
<1> QED BY <1>1 DEF RoomInv

\* A step that changes no file.
LEMMA SameDisk ==
    ASSUME QInv, UNCHANGED <<files, pointer, temps, cabinet, evidence, unknown>>
    PROVE  /\ CountInv' /\ Within
           /\ Present' = Present /\ Bytes' = Bytes /\ Entries' = Entries
<1>1. CountInv'
  BY CountStays DEF QInv
<1>2. Present' = Present /\ Bytes' = Bytes /\ Entries' = Entries
  BY SameSizes
<1>3. Entries \in Nat /\ unknown \in Nat
  BY SizeTypes DEF QInv, IInv
<1>4. Within
  BY <1>2, <1>3 DEF Within
<1> QED BY <1>1, <1>2, <1>4

\* A call begins, reads, or takes the lock.
LEMMA CallQuota ==
    ASSUME QInv, NEW p \in Procs,
           StartWrite(p) \/ StartLoad(p) \/ ReadPointer(p) \/ ReadGeneration(p) \/ Lock(p)
    PROVE  CountInv' /\ RoomInv' /\ Within
<1>1. TypeOK
  BY DEF QInv, IInv
<1>2. /\ UNCHANGED <<files, pointer, temps, cabinet, evidence, unknown, noise>>
      /\ \A q \in Procs : q # p => task'[q] = task[q] /\ victims'[q] = victims[q]
      /\ \E to \in {"enter", "read_pointer", "read_generation", "idle", "open"} :
            pc' = [pc EXCEPT ![p] = to]
  <2>1. CASE StartWrite(p)
    BY <1>1, <2>1 DEF TypeOK, StartWrite, Start, Goto, disk, others, inventory
  <2>2. CASE StartLoad(p)
    BY <1>1, <2>2 DEF TypeOK, StartLoad, Start, Goto, disk, others, inventory
  <2>3. CASE ReadPointer(p)
    BY <1>1, <2>3 DEF TypeOK, ReadPointer, Return, Goto, disk, others, inventory
  <2>4. CASE ReadGeneration(p)
    BY <1>1, <2>4 DEF TypeOK, ReadGeneration, Return, Goto, disk, others, call
  <2>5. CASE Lock(p)
    BY <1>1, <2>5 DEF TypeOK, Lock, Goto, disk, others, inventory, call
  <2> QED BY <2>1, <2>2, <2>3, <2>4, <2>5
<1>3. PICK to \in {"enter", "read_pointer", "read_generation", "idle", "open"} :
         pc' = [pc EXCEPT ![p] = to]
  BY <1>2
<1>4. pc'[p] = to
  BY <1>1, <1>3 DEF TypeOK
<1>5. Room(p)'
  BY <1>4, RoomThen DEF Evicting
<1> QED BY <1>2, <1>3, <1>5, QuietStep

\* A plan fits by what it was made of.
LEMMA PlanFits ==
    ASSUME QInv, NEW late, NEW more, NEW V \in Plans(late, more), noise' = late,
           UNCHANGED <<files, pointer, temps, cabinet, evidence, unknown>>
    PROVE  V \subseteq Present' /\ FitsThen(more, Cardinality(V))
<1>1. V \subseteq Present /\ Fits(late, more, Cardinality(V))
  BY DEF Plans, Eligible
<1>2. Present' = Present /\ Bytes' = Bytes /\ Entries' = Entries
  BY SameSizes
<1> QED BY <1>1, <1>2 DEF Fits, FitsThen

\* Nothing is left to evict.
LEMMA EmptyPlan == Cardinality({}) = 0
BY FS_EmptySet

LEMMA InSession ==
    ASSUME QInv, NEW p \in Procs, pc[p] \in SessionPCs
    PROVE  lock = p
BY DEF QInv, IInv, LockInv

LEMMA BaselineQuota ==
    ASSUME QInv, NEW p \in Procs, Baseline(p)
    PROVE  CountInv' /\ RoomInv' /\ Within
<1>1. /\ UNCHANGED <<files, pointer, temps, cabinet, evidence, unknown>>
      /\ noise' = 0 /\ lock = p
  BY InSession DEF Baseline, TakeInventory, disk, others, SessionPCs
<1>2. PICK V \in Plans(0, Nothing) :
         /\ victims' = [victims EXCEPT ![p] = V]
         /\ pc' = [pc EXCEPT ![p] = IF V = {} THEN "ready" ELSE "baseline"]
  BY DEF Baseline, Follow, Goto
<1>3. victims'[p] = V /\ pc'[p] = IF V = {} THEN "ready" ELSE "baseline"
  BY <1>2 DEF QInv, IInv, TypeOK
<1>4. V \subseteq Present' /\ FitsThen(Nothing, Cardinality(V))
  BY <1>1, PlanFits
<1>5. Room(p)'
  BY <1>3, <1>4, RoomThen DEF Evicting
<1> QED BY <1>1, <1>2, <1>5, HolderStep, SameDisk

LEMMA ReserveQuota ==
    ASSUME QInv, NEW p \in Procs, Reserve(p)
    PROVE  CountInv' /\ RoomInv' /\ Within
<1>1. /\ UNCHANGED <<files, pointer, temps, cabinet, evidence, unknown>>
      /\ lock = p /\ task' = task
  BY InSession DEF Reserve, disk, others, SessionPCs
<1>2. PICK late, V : /\ V \in Plans(late, More(p)) /\ noise' = late
                     /\ victims' = [victims EXCEPT ![p] = V]
                     /\ pc' = [pc EXCEPT ![p] = IF V = {} THEN "admitted" ELSE "repair"]
  <2>1. CASE task[p] = "write"
    BY <2>1 DEF Reserve, TakeInventory, Follow, Goto
  <2>2. CASE task[p] = "load"
    BY <2>2 DEF Reserve, Follow, Goto, inventory
  <2> QED BY <2>1, <2>2 DEF Reserve
<1>3. victims'[p] = V /\ pc'[p] = IF V = {} THEN "admitted" ELSE "repair"
  BY <1>2 DEF QInv, IInv, TypeOK
<1>4. More(p)' = More(p)
  BY <1>1 DEF More
<1>5. PICK more : more = More(p)
  OBVIOUS
<1>6. V \subseteq Present' /\ FitsThen(more, Cardinality(V))
  BY <1>1, <1>2, <1>5, PlanFits
<1>7. CASE V = {}
  <2>1. FitsThen(More(p)', 0)
    BY <1>4, <1>5, <1>6, <1>7, EmptyPlan
  <2>2. Room(p)'
    BY <1>3, <1>7, <2>1, RoomThen DEF Evicting
  <2> QED BY <1>1, <1>2, <2>2, HolderStep, SameDisk
<1>8. CASE V # {}
  <2>1. FitsThen(More(p)', Cardinality(victims'[p]))
    BY <1>3, <1>4, <1>5, <1>6
  <2>2. Room(p)'
    BY <1>3, <1>6, <1>8, <2>1, RoomThen DEF Evicting
  <2> QED BY <1>1, <1>2, <2>2, HolderStep, SameDisk
<1> QED BY <1>7, <1>8

LEMMA RecheckQuota ==
    ASSUME QInv, NEW p \in Procs, Recheck(p)
    PROVE  CountInv' /\ RoomInv' /\ Within
<1>1. /\ UNCHANGED <<files, pointer, temps, cabinet, evidence, unknown, task>>
      /\ noise' = 0 /\ lock = p
  BY InSession DEF Recheck, TakeInventory, disk, others, call, SessionPCs
<1>2. \/ pc' = [pc EXCEPT ![p] = "ready"]
      \/ Fits(0, More(p), 0) /\ pc' = [pc EXCEPT ![p] = "admitted"]
  BY DEF Recheck, Goto
<1>3. CASE pc' = [pc EXCEPT ![p] = "ready"]
  <2>1. pc'[p] = "ready"
    BY <1>3 DEF QInv, IInv, TypeOK
  <2>2. Room(p)'
    BY <2>1, RoomThen DEF Evicting
  <2> QED BY <1>1, <1>3, <2>2, HolderStep, SameDisk
<1>4. CASE Fits(0, More(p), 0) /\ pc' = [pc EXCEPT ![p] = "admitted"]
  <2>1. pc'[p] = "admitted"
    BY <1>4 DEF QInv, IInv, TypeOK
  <2>2. More(p)' = More(p)
    BY <1>1 DEF More
  <2>3. Present' = Present /\ Bytes' = Bytes /\ Entries' = Entries
    BY <1>1, SameSizes
  <2>4. FitsThen(More(p)', 0)
    BY <1>1, <1>4, <2>2, <2>3 DEF Fits, FitsThen
  <2>5. Room(p)'
    BY <2>1, <2>4, RoomThen DEF Evicting
  <2> QED BY <1>1, <1>4, <2>5, HolderStep, SameDisk
<1> QED BY <1>2, <1>3, <1>4

\* A victim goes: one generation less to evict, and one less there.
LEMMA EvictQuota ==
    ASSUME QInv, NEW p \in Procs, Evict(p)
    PROVE  CountInv' /\ RoomInv' /\ Within
<1>1. /\ UNCHANGED <<pointer, temps, cabinet, evidence, unknown, task, noise, pc>>
      /\ lock = p /\ pc[p] \in Evicting
  BY InSession DEF Evict, others, inventory, call, SessionPCs, Evicting
<1>2. PICK g \in victims[p] : /\ files' = [files EXCEPT ![g] = "absent"]
                              /\ victims' = [victims EXCEPT ![p] = @ \ {g}]
  BY DEF Evict
<1>3. TypeOK /\ CountInv /\ Room(p)
  BY DEF QInv, IInv, RoomInv
<1>4. victims[p] \subseteq Present /\ g \in Present /\ g \in Ids
  BY <1>1, <1>2, <1>3 DEF Room, Present
<1>5. victims'[p] = victims[p] \ {g}
  BY <1>2, <1>3 DEF TypeOK
<1>6. Present' = Present \ {g}
  BY <1>2, <1>3, <1>4 DEF Present, TypeOK
<1>7. IsFiniteSet(Present) /\ IsFiniteSet(victims[p])
  BY <1>3, <1>4, FS_Subset DEF CountInv
<1>8. /\ IsFiniteSet(Present') /\ Cardinality(Present') = Cardinality(Present) - 1
      /\ Cardinality(victims'[p]) = Cardinality(victims[p]) - 1
  BY <1>2, <1>4, <1>5, <1>6, <1>7, FS_RemoveElement
<1>9. /\ Cardinality(Present) \in Nat /\ Bytes \in Nat /\ Entries \in Nat
      /\ noise \in Nat /\ unknown \in Nat /\ Cardinality(victims[p]) \in Nat
  BY <1>3, <1>7, SizeTypes, FS_CardinalityType
<1>10. CountInv'
  BY <1>1, <1>3, <1>8, <1>9, CacheStoreAssumption DEF CountInv
<1>11. Bytes' = Bytes - 1
  <2>1. PICK n \in Nat : n = Cardinality(Present)
    BY <1>9
  <2>2. PICK m : m = Cardinality(evidence) + temps + unknown
    OBVIOUS
  <2>3. Cardinality(evidence) \in Nat /\ temps \in Nat /\ One(pointer # Empty) \in Nat
    BY <1>3, SizeTypes DEF One
  <2> QED BY <1>1, <1>8, <1>9, <2>1, <2>3 DEF Bytes
<1>12. Entries' = Entries - 1
  <2>1. One(cabinet) \in Nat
    BY DEF One
  <2> QED BY <1>1, <1>9, <1>11, <2>1 DEF Entries
<1>13. Within
  BY <1>1, <1>9, <1>12 DEF Within
<1>14. victims'[p] \subseteq Present'
  BY <1>4, <1>5, <1>6
<1>15. ASSUME NEW more, Fits(noise, more, Cardinality(victims[p])),
              more.generations \in Nat, more.bytes \in Nat, more.entries \in Nat
       PROVE  FitsThen(more, Cardinality(victims'[p]))
  BY <1>1, <1>8, <1>9, <1>11, <1>12, <1>15 DEF Fits, FitsThen
<1>16. pc[p] = "baseline" => FitsThen(Nothing, Cardinality(victims'[p]))
  BY <1>3, <1>15 DEF Room, Nothing
<1>17. pc[p] = "repair" => FitsThen(More(p)', Cardinality(victims'[p]))
  <2>1. More(p)' = More(p)
    BY <1>1 DEF More
  <2>2. PICK more : more = More(p)
    OBVIOUS
  <2>3. more.generations \in Nat /\ more.bytes \in Nat /\ more.entries \in Nat
    BY <2>2 DEF More, One
  <2> QED BY <1>3, <1>15, <2>1, <2>2, <2>3 DEF Room
<1>18. pc'[p] \in Evicting
  BY <1>1
<1>19. Room(p)'
  BY <1>1, <1>14, <1>16, <1>17, <1>18, RoomThen DEF Evicting
<1>20. pc' = [pc EXCEPT ![p] = pc[p]]
  BY <1>1, <1>3 DEF TypeOK
<1> QED BY <1>1, <1>10, <1>13, <1>19, <1>20, HolderStep

\* quarantine/ is made where it was counted on.
LEMMA MakeCabinetQuota ==
    ASSUME QInv, NEW p \in Procs, MakeCabinet(p)
    PROVE  CountInv' /\ RoomInv' /\ Within
<1>1. /\ UNCHANGED <<files, pointer, temps, evidence, unknown, task, noise, pc>>
      /\ lock = p /\ pc[p] = "admitted" /\ task[p] = "load" /\ ~cabinet /\ cabinet'
  BY InSession DEF MakeCabinet, others, inventory, call, SessionPCs
<1>2. TypeOK /\ CountInv /\ Room(p)
  BY DEF QInv, IInv, RoomInv
<1>3. CountInv'
  BY <1>1, CountStays DEF QInv
<1>4. Present' = Present /\ Bytes' = Bytes
  BY <1>1 DEF Present, Bytes
<1>5. Bytes \in Nat /\ Entries \in Nat /\ noise \in Nat /\ unknown \in Nat
      /\ Cardinality(Present) \in Nat
  BY <1>2, SizeTypes
<1>6. Entries' = Entries + 1
  BY <1>1, <1>4, <1>5 DEF Entries, One
<1>7. Fits(noise, [generations |-> 0, bytes |-> 1, entries |-> 2], 0)
  <2>1. Fits(noise, More(p), 0)
    BY <1>1, <1>2 DEF Room
  <2>2. More(p) = [generations |-> 0, bytes |-> 1, entries |-> 2]
    BY <1>1 DEF More, One
  <2> QED BY <2>1, <2>2
<1>8. /\ Cardinality(Present) <= GENERATION_CAP
      /\ Bytes - noise + 1 <= BYTE_CAP /\ Entries - noise + 2 <= ENTRY_CAP
  BY <1>5, <1>7 DEF Fits
<1>9. More(p)' = [generations |-> 0, bytes |-> 1, entries |-> 1]
  BY <1>1 DEF More, One
<1>10. FitsThen([generations |-> 0, bytes |-> 1, entries |-> 1], 0)
  BY <1>1, <1>4, <1>5, <1>6, <1>8 DEF FitsThen
<1>11. Room(p)'
  BY <1>1, <1>9, <1>10, RoomThen DEF Evicting
<1>12. Within
  BY <1>1, <1>4, <1>5, <1>6, <1>8, CacheStoreAssumption DEF Within
<1>13. pc' = [pc EXCEPT ![p] = "admitted"]
  BY <1>1, <1>2 DEF TypeOK
<1> QED BY <1>1, <1>3, <1>11, <1>12, <1>13, HolderStep

\* A temporary is one of the files that were counted on.
LEMMA CreateTempQuota ==
    ASSUME QInv, NEW p \in Procs, CreateTemp(p)
    PROVE  CountInv' /\ RoomInv' /\ Within
<1>1. /\ UNCHANGED <<files, pointer, cabinet, evidence, unknown, task, noise>>
      /\ lock = p /\ temps' = temps + 1
  BY InSession DEF CreateTemp, others, inventory, call, SessionPCs
<1>2. TypeOK /\ CountInv /\ Room(p) /\ TaskInv
  BY DEF QInv, IInv, RoomInv
<1>3. CountInv'
  BY <1>1, CountStays DEF QInv
<1>4. Bytes \in Nat /\ Entries \in Nat /\ noise \in Nat /\ unknown \in Nat /\ temps \in Nat
      /\ Cardinality(Present) \in Nat /\ Cardinality(evidence) \in Nat
  BY <1>2, SizeTypes
<1>5. Present' = Present /\ Bytes' = Bytes + 1
  <2>1. One(pointer # Empty) \in Nat
    BY DEF One
  <2>2. Present' = Present
    BY <1>1 DEF Present
  <2> QED BY <1>1, <1>4, <2>1, <2>2 DEF Bytes
<1>6. Entries' = Entries + 1
  <2>1. One(cabinet) \in Nat
    BY DEF One
  <2> QED BY <1>1, <1>4, <1>5, <2>1 DEF Entries
<1>7. CASE pc[p] = "admitted"
  <2>1. pc' = [pc EXCEPT ![p] = "written"] /\ (task[p] = "load" => cabinet)
    BY <1>7 DEF CreateTemp, Goto
  <2>2. pc'[p] = "written"
    BY <1>2, <2>1 DEF TypeOK
  <2>3. Fits(noise, More(p), 0)
    BY <1>2, <1>7 DEF Room
  <2>4. CASE task[p] = "write"
    <3>1. More(p) = [generations |-> 1, bytes |-> 2, entries |-> 2]
      BY <2>4 DEF More
    <3>2. /\ Cardinality(Present) + 1 <= GENERATION_CAP
          /\ Bytes - noise + 2 <= BYTE_CAP /\ Entries - noise + 2 <= ENTRY_CAP
      <4>1. Fits(noise, [generations |-> 1, bytes |-> 2, entries |-> 2], 0)
        BY <2>3, <3>1
      <4> QED BY <1>4, <4>1 DEF Fits
    <3>3. FitsThen(RestOfWrite, 0)
      BY <1>1, <1>4, <1>5, <1>6, <3>2 DEF FitsThen, RestOfWrite
    <3>4. Room(p)'
      BY <2>2, <3>3, RoomThen DEF Evicting
    <3>5. Within
      BY <1>1, <1>4, <1>5, <1>6, <3>2, CacheStoreAssumption DEF Within
    <3> QED BY <1>1, <1>3, <2>1, <3>4, <3>5, HolderStep
  <2>5. CASE task[p] # "write"
    <3>1. More(p) = [generations |-> 0, bytes |-> 1, entries |-> 1]
      <4>1. cabinet
        BY <1>2, <1>7, <2>1, <2>5 DEF TaskInv, TypeOK
      <4> QED BY <2>5, <4>1 DEF More, One
    <3>2. /\ Bytes - noise + 1 <= BYTE_CAP /\ Entries - noise + 1 <= ENTRY_CAP
      <4>1. Fits(noise, [generations |-> 0, bytes |-> 1, entries |-> 1], 0)
        BY <2>3, <3>1
      <4> QED BY <1>4, <4>1 DEF Fits
    <3>3. Room(p)'
      BY <1>1, <2>2, <2>5, RoomThen DEF Evicting
    <3>4. Within
      BY <1>1, <1>4, <1>5, <1>6, <3>2, CacheStoreAssumption DEF Within
    <3> QED BY <1>1, <1>3, <2>1, <3>3, <3>4, HolderStep
  <2> QED BY <2>4, <2>5
<1>8. CASE pc[p] # "admitted"
  <2>1. pc[p] = "pointer" /\ pc' = [pc EXCEPT ![p] = "pointer_written"]
    BY <1>8 DEF CreateTemp, Goto
  <2>2. pc'[p] = "pointer_written"
    BY <1>2, <2>1 DEF TypeOK
  <2>3. Bytes - noise + 1 <= BYTE_CAP /\ Entries - noise + 1 <= ENTRY_CAP
    <3>1. Fits(noise, ThePointer, 0)
      BY <1>2, <2>1 DEF Room
    <3> QED BY <1>4, <3>1 DEF Fits, ThePointer
  <2>4. Room(p)'
    BY <2>2, RoomThen DEF Evicting
  <2>5. Within
    BY <1>1, <1>4, <1>5, <1>6, <2>3, CacheStoreAssumption DEF Within
  <2> QED BY <1>1, <1>3, <2>1, <2>4, <2>5, HolderStep
<1> QED BY <1>7, <1>8

\* The generation that was counted on is there; the pointer has still room.
LEMMA RenameGenerationQuota ==
    ASSUME QInv, NEW p \in Procs, RenameGeneration(p)
    PROVE  CountInv' /\ RoomInv' /\ Within
<1>1. /\ UNCHANGED <<pointer, cabinet, evidence, unknown, task, noise>>
      /\ lock = p /\ pc[p] = "written" /\ task[p] = "write"
      /\ files' = [files EXCEPT ![target[p]] = "complete"] /\ temps' = temps - 1
      /\ pc' = [pc EXCEPT ![p] = "pointer"]
  BY InSession DEF RenameGeneration, others, inventory, call, SessionPCs, Goto
<1>2. TypeOK /\ CountInv /\ Room(p) /\ TaskInv
  BY DEF QInv, IInv, RoomInv
<1>3. PICK g \in Ids : g = target[p]
  BY <1>1, <1>2 DEF TaskInv, BeforeFile
<1>4. Present' = Present \cup {g}
  BY <1>1, <1>2, <1>3 DEF Present, TypeOK
<1>5. Bytes \in Nat /\ Entries \in Nat /\ noise \in Nat /\ unknown \in Nat /\ temps \in Nat
      /\ Cardinality(Present) \in Nat /\ Cardinality(evidence) \in Nat
  BY <1>2, SizeTypes
<1>6. IsFiniteSet(Present')
      /\ Cardinality(Present') \in {Cardinality(Present), Cardinality(Present) + 1}
  <2>1. IsFiniteSet(Present)
    BY <1>2 DEF CountInv
  <2> QED BY <1>4, <2>1, FS_AddElement
<1>7. PICK d \in {0, 1} : Cardinality(Present') = Cardinality(Present) + d
  BY <1>5, <1>6
<1>8. Bytes' = Bytes + d - 1
  <2>1. One(pointer # Empty) \in Nat
    BY DEF One
  <2> QED BY <1>1, <1>5, <1>7, <2>1 DEF Bytes
<1>9. Entries' = Entries + d - 1
  <2>1. One(cabinet) \in Nat
    BY DEF One
  <2> QED BY <1>1, <1>5, <1>8, <2>1 DEF Entries
<1>10. /\ Cardinality(Present) + 1 <= GENERATION_CAP
       /\ Bytes - noise + 1 <= BYTE_CAP /\ Entries - noise + 1 <= ENTRY_CAP
  <2>1. Fits(noise, RestOfWrite, 0)
    BY <1>1, <1>2 DEF Room
  <2> QED BY <1>5, <2>1 DEF Fits, RestOfWrite
<1>11. CountInv'
  <2>1. Cardinality(Present') <= GENERATION_CAP
    BY <1>5, <1>7, <1>10, CacheStoreAssumption
  <2> QED BY <1>1, <1>2, <1>6, <2>1 DEF CountInv
<1>12. FitsThen(ThePointer, 0)
  BY <1>1, <1>5, <1>7, <1>8, <1>9, <1>10, CacheStoreAssumption DEF FitsThen, ThePointer
<1>13. pc'[p] = "pointer"
  BY <1>1, <1>2 DEF TypeOK
<1>14. Room(p)'
  BY <1>12, <1>13, RoomThen DEF Evicting
<1>15. Within
  BY <1>1, <1>5, <1>9 DEF Within
<1> QED BY <1>1, <1>11, <1>14, <1>15, HolderStep

\* A session ends: what it leaves is no more than it had.
LEMMA LastStep ==
    ASSUME QInv, NEW p \in Procs, lock = p, pc' = [pc EXCEPT ![p] = "idle"],
           CountInv', unknown' = unknown, unknown \in Nat, Entries \in Nat,
           NEW n \in Nat, Entries' = n, n <= Entries
    PROVE  CountInv' /\ RoomInv' /\ Within
<1>1. pc'[p] = "idle"
  BY DEF QInv, IInv, TypeOK
<1>2. Room(p)'
  BY <1>1, RoomThen DEF Evicting
<1>3. Within
  BY DEF Within
<1> QED BY <1>2, <1>3, HolderStep

LEMMA RenamePointerQuota ==
    ASSUME QInv, NEW p \in Procs, RenamePointer(p)
    PROVE  CountInv' /\ RoomInv' /\ Within
<1>1. /\ UNCHANGED <<files, cabinet, evidence, unknown>> /\ lock = p
      /\ pc[p] = "pointer_written" /\ temps' = temps - 1
      /\ pc' = [pc EXCEPT ![p] = "idle"]
  BY InSession DEF RenamePointer, Close, Return, Goto, others, SessionPCs
<1>2. TypeOK /\ CountInv /\ TempInv
  BY DEF QInv, IInv
<1>3. CountInv'
  BY <1>1, CountStays DEF QInv
<1>4. Bytes \in Nat /\ Entries \in Nat /\ unknown \in Nat /\ temps \in Nat /\ temps > 0
      /\ Cardinality(Present) \in Nat /\ Cardinality(evidence) \in Nat
  BY <1>1, <1>2, SizeTypes DEF TempInv, WithTemp
<1>5. One(pointer # Empty) \in {0, 1} /\ One(pointer' # Empty) \in {0, 1} /\ One(cabinet) \in {0, 1}
  BY DEF One
<1>6. Present' = Present
  BY <1>1 DEF Present
<1>7. Bytes' \in Nat /\ Bytes' <= Bytes
  BY <1>1, <1>4, <1>5, <1>6 DEF Bytes
<1>8. Entries' \in Nat /\ Entries' <= Entries
  BY <1>1, <1>4, <1>5, <1>7 DEF Entries
<1>9. PICK n \in Nat : Entries' = n
  BY <1>8
<1> QED BY <1>1, <1>3, <1>4, <1>8, <1>9, LastStep

LEMMA RenameCopyQuota ==
    ASSUME QInv, NEW p \in Procs, RenameCopy(p)
    PROVE  CountInv' /\ RoomInv' /\ Within
<1>1. /\ UNCHANGED <<files, pointer, cabinet, unknown>> /\ lock = p
      /\ pc[p] = "written" /\ temps' = temps - 1
      /\ evidence' = evidence \cup {target[p]}
      /\ pc' = [pc EXCEPT ![p] = "idle"]
  BY InSession DEF RenameCopy, Close, Return, Goto, others, SessionPCs
<1>2. TypeOK /\ CountInv /\ TempInv
  BY DEF QInv, IInv
<1>3. Bytes \in Nat /\ Entries \in Nat /\ unknown \in Nat /\ temps \in Nat /\ temps > 0
      /\ Cardinality(Present) \in Nat /\ Cardinality(evidence) \in Nat
  BY <1>1, <1>2, SizeTypes DEF TempInv, WithTemp
<1>4. One(pointer # Empty) \in {0, 1} /\ One(cabinet) \in {0, 1}
  BY DEF One
<1>5. Present' = Present
  BY <1>1 DEF Present
<1>6. IsFiniteSet(evidence')
      /\ Cardinality(evidence') \in {Cardinality(evidence), Cardinality(evidence) + 1}
  <2>1. IsFiniteSet(evidence)
    BY <1>2 DEF CountInv
  <2> QED BY <1>1, <2>1, FS_AddElement
<1>7. CountInv'
  BY <1>2, <1>5, <1>6 DEF CountInv
<1>8. Bytes' \in Nat /\ Bytes' <= Bytes
  <2>1. PICK d \in {0, 1} : Cardinality(evidence') = Cardinality(evidence) + d
    BY <1>3, <1>6
  <2> QED BY <1>1, <1>3, <1>4, <1>5, <2>1 DEF Bytes
<1>9. Entries' \in Nat /\ Entries' <= Entries
  BY <1>1, <1>3, <1>4, <1>8 DEF Entries
<1>10. PICK n \in Nat : Entries' = n
  BY <1>9
<1> QED BY <1>1, <1>3, <1>7, <1>9, <1>10, LastStep

\* A failure or a death may leave a temporary, and never makes one.
LEMMA EndQuota ==
    ASSUME QInv, NEW p \in Procs, Fail(p) \/ Crash(p)
    PROVE  CountInv' /\ RoomInv' /\ Within
<1>1. /\ UNCHANGED <<files, pointer, cabinet, evidence, unknown>>
      /\ temps' \in {temps} \cup (IF pc[p] \in WithTemp THEN {temps - 1} ELSE {})
      /\ pc' = [pc EXCEPT ![p] = "idle"]
      /\ task' = [task EXCEPT ![p] = "none"]
      /\ victims' = [victims EXCEPT ![p] = {}]
      /\ lock # p => noise' = noise
  <2>1. CASE Fail(p)
    BY <2>1 DEF Fail, Close, Return, Goto, others, inventory
  <2>2. CASE Crash(p)
    BY <2>2 DEF Crash, Close, Return, Goto, others, disk, inventory
  <2> QED BY <2>1, <2>2
<1>2. TypeOK /\ CountInv /\ TempInv
  BY DEF QInv, IInv
<1>3. CASE lock = p
  <2>1. CountInv'
    BY <1>1, CountStays DEF QInv
  <2>2. Bytes \in Nat /\ Entries \in Nat /\ unknown \in Nat /\ temps \in Nat
        /\ Cardinality(Present) \in Nat /\ Cardinality(evidence) \in Nat
    BY <1>2, SizeTypes
  <2>3. temps' \in Nat /\ temps' <= temps
    BY <1>1, <1>2, <2>2 DEF TempInv
  <2>4. One(pointer # Empty) \in {0, 1} /\ One(cabinet) \in {0, 1}
    BY DEF One
  <2>5. Present' = Present
    BY <1>1 DEF Present
  <2>6. Bytes' \in Nat /\ Bytes' <= Bytes
    BY <1>1, <2>2, <2>3, <2>4, <2>5 DEF Bytes
  <2>7. Entries' \in Nat /\ Entries' <= Entries
    BY <1>1, <2>2, <2>4, <2>6 DEF Entries
  <2>8. PICK n \in Nat : Entries' = n
    BY <2>7
  <2> QED BY <1>1, <1>3, <2>1, <2>2, <2>7, <2>8, LastStep
<1>4. CASE lock # p
  <2>1. pc[p] \notin WithTemp
    BY <1>4, InSession DEF WithTemp, SessionPCs
  <2>2. temps' = temps
    BY <1>1, <2>1
  <2>3. pc'[p] = "idle"
    BY <1>1, <1>2 DEF TypeOK
  <2>4. Room(p)'
    BY <2>3, RoomThen DEF Evicting
  <2>5. \A q \in Procs : q # p => task'[q] = task[q] /\ victims'[q] = victims[q]
    BY <1>1, <1>2 DEF TypeOK
  <2> QED BY <1>1, <1>4, <2>2, <2>4, <2>5, QuietStep
<1> QED BY <1>3, <1>4

\* A file of another program is one the session is forgiven.
LEMMA ForeignQuota ==
    ASSUME QInv, Foreign
    PROVE  CountInv' /\ RoomInv' /\ Within
<1>1. /\ UNCHANGED <<files, pointer, temps, cabinet, evidence, pc, task, victims>>
      /\ unknown' = unknown + 1
      /\ noise' = IF lock = Nobody THEN noise ELSE noise + 1
  BY DEF Foreign, disk, call
<1>2. TypeOK /\ CountInv /\ RoomInv /\ LockInv
  BY DEF QInv, IInv
<1>3. CountInv'
  BY <1>1, CountStays DEF QInv
<1>4. Bytes \in Nat /\ Entries \in Nat /\ noise \in Nat /\ unknown \in Nat /\ temps \in Nat
      /\ Cardinality(Present) \in Nat /\ Cardinality(evidence) \in Nat
  BY <1>2, SizeTypes
<1>5. One(pointer # Empty) \in {0, 1} /\ One(cabinet) \in {0, 1}
  BY DEF One
<1>6. Present' = Present
  BY <1>1 DEF Present
<1>7. Bytes' = Bytes + 1
  BY <1>1, <1>4, <1>5, <1>6 DEF Bytes
<1>8. Entries' = Entries + 1
  BY <1>1, <1>4, <1>5, <1>7 DEF Entries
<1>9. Within
  BY <1>1, <1>4, <1>8 DEF Within
<1>10. ASSUME NEW q \in Procs PROVE Room(q)'
  <2>1. CASE lock = Nobody
    <3>1. pc'[q] \notin SessionPCs
      BY <1>1, <1>2, <2>1, CacheStoreAssumption DEF LockInv
    <3> QED BY <3>1, NoRoom
  <2>2. CASE lock # Nobody
    <3>1. noise' = noise + 1
      BY <1>1, <2>2
    <3>2. Room(q)
      BY <1>2 DEF RoomInv
    <3>3. pc'[q] = pc[q] /\ task'[q] = task[q] /\ victims'[q] = victims[q] /\ cabinet' = cabinet
      BY <1>1
    <3>4. Bytes \in Int /\ Entries \in Int /\ noise \in Int
      BY <1>4
    <3> QED BY <1>6, <1>7, <1>8, <3>1, <3>2, <3>3, <3>4, RoomStays
  <2> QED BY <2>1, <2>2
<1> QED BY <1>3, <1>9, <1>10 DEF RoomInv

\* Damage keeps the number and size of files.
LEMMA DamageQuota ==
    ASSUME QInv, Damage
    PROVE  CountInv' /\ RoomInv' /\ Within
<1>1. /\ UNCHANGED <<temps, cabinet, evidence, unknown, noise, pc, task, victims>>
      /\ \/ /\ \E g \in Ids : files[g] = "complete" /\ files' = [files EXCEPT ![g] = "damaged"]
            /\ UNCHANGED pointer
         \/ pointer \in Ids /\ pointer' = Malformed /\ UNCHANGED files
  BY DEF Damage, call
<1>2. TypeOK /\ CountInv /\ RoomInv
  BY DEF QInv, IInv
<1>3. Present' = Present
  BY <1>1, <1>2 DEF Present, TypeOK
<1>4. One(pointer # Empty)' = One(pointer # Empty)
  BY <1>1, CacheStoreAssumption DEF One
<1>5. Bytes' = Bytes /\ Entries' = Entries
  BY <1>1, <1>3, <1>4 DEF Bytes, Entries
<1>6. Bytes \in Nat /\ Entries \in Nat /\ noise \in Nat /\ unknown \in Nat
  BY <1>2, SizeTypes
<1>7. CountInv'
  BY <1>1, <1>2, <1>3 DEF CountInv
<1>8. Within
  BY <1>1, <1>5, <1>6 DEF Within
<1>9. ASSUME NEW q \in Procs PROVE Room(q)'
  <2>1. Bytes' = Bytes + 0 /\ Entries' = Entries + 0 /\ noise' = noise + 0
    BY <1>1, <1>5, <1>6
  <2>2. Room(q) /\ pc'[q] = pc[q] /\ task'[q] = task[q] /\ victims'[q] = victims[q]
    BY <1>1, <1>2 DEF RoomInv
  <2>3. Bytes \in Int /\ Entries \in Int /\ noise \in Int /\ cabinet' = cabinet
    BY <1>1, <1>6
  <2> QED BY <1>3, <2>1, <2>2, <2>3, RoomStays
<1> QED BY <1>7, <1>8, <1>9 DEF RoomInv

LEMMA QuotaStep == QInv /\ [Next]_vars => QInv' /\ Within
<1> SUFFICES ASSUME QInv, [Next]_vars PROVE QInv' /\ Within
  OBVIOUS
<1>1. IInv'
  BY NextInvariant DEF QInv
<1>2. CASE Foreign
  BY <1>1, <1>2, ForeignQuota DEF QInv
<1>3. CASE Damage
  BY <1>1, <1>3, DamageQuota DEF QInv
<1>4. ASSUME NEW p \in Procs, Step(p) PROVE CountInv' /\ RoomInv' /\ Within
  BY <1>4, CallQuota, BaselineQuota, EvictQuota, RecheckQuota, ReserveQuota,
     MakeCabinetQuota, CreateTempQuota, RenameGenerationQuota, RenamePointerQuota,
     RenameCopyQuota, EndQuota DEF Step
<1>5. CASE UNCHANGED vars
  <2>1. CountInv' /\ Within
    BY <1>5, SameDisk DEF vars
  <2>2. RoomInv'
    BY <1>5 DEF vars, QInv, RoomInv, Room, Fits, Bytes, Entries, Present, More
  <2> QED BY <1>1, <2>1, <2>2 DEF QInv
<1> QED BY <1>1, <1>2, <1>3, <1>4, <1>5 DEF Next, QInv

LEMMA QuotaInit == Init => QInv
<1> SUFFICES ASSUME Init PROVE QInv
  OBVIOUS
<1>1. Present = {} /\ evidence = {}
  BY DEF Init, Present
<1>2. CountInv
  BY <1>1, FS_EmptySet, CacheStoreAssumption DEF CountInv
<1>3. RoomInv
  BY DEF Init, RoomInv, Room, Evicting
<1> QED BY <1>2, <1>3, InitInvariant DEF QInv

\* prune's plan holds until it is carried out: whatever fails, dies or is added
\* between two removals, what is still to be evicted makes the room that was
\* asked for, and is not the current generation.
THEOREM RepairTheorem == Spec => []EvictionRepairsQuota
<1>1. QInv => EvictionRepairsQuota
  BY DEF QInv, IInv, RoomInv, Room, VictimInv, Evicting, EvictionRepairsQuota
<1> QED BY <1>1, QuotaInit, QuotaStep, PTL DEF Spec

\* The store stays in its limits but for what others add while it runs, for any
\* limits, number of processes and orphans of earlier crashes.
THEOREM QuotaTheorem == Spec => GrowthWithinQuota
<1>1. QInv /\ QInv' /\ Within =>
         /\ Entries' - unknown' > Entries - unknown =>
                Entries' <= ENTRY_CAP + noise' /\ Bytes' <= BYTE_CAP + noise'
         /\ Cardinality(Present') <= GENERATION_CAP
  BY DEF QInv, CountInv, Within
<1> QED BY <1>1, QuotaInit, QuotaStep, PTL DEF Spec, GrowthWithinQuota
=============================================================================
