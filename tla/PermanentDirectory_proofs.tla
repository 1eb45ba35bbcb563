---------------------- MODULE PermanentDirectory_proofs ----------------------
(***************************************************************************)
(* Proofs about PermanentDirectory, for a tree of any size and shape and   *)
(* any number of changes by other programs.                                *)
(***************************************************************************)
EXTENDS PermanentDirectoryInv, TLAPS

\* Reserving an attempt opens it and changes nothing else.
LEMMA AttemptEffect ==
    ASSUME TypeOK, Audit!Attempt(Plan, current)
    PROVE  /\ Untried(current)
           /\ phase' = phase
           /\ ledger' \in [{Plan} -> [Actions ->
                  [state : {"untried", "open", "settled"},
                   outcome : Outcomes \cup {NoOutcome}]]]
           /\ ledger'[Plan][current] = Audit!Open
           /\ \A i \in Actions \ {current} : ledger'[Plan][i] = ledger[Plan][i]
BY DEF TypeOK, Audit!Attempt, Audit!Write, Audit!Open, Audit!Untried, Untried,
       Attempted

\* Recording an outcome closes the attempt and changes nothing else.
LEMMA SettleEffect ==
    ASSUME TypeOK, NEW outcome \in Outcomes, Audit!Settle(Plan, current, outcome)
    PROVE  /\ Open(current)
           /\ phase' = phase
           /\ ledger' \in [{Plan} -> [Actions ->
                  [state : {"untried", "open", "settled"},
                   outcome : Outcomes \cup {NoOutcome}]]]
           /\ ledger'[Plan][current] = Audit!Settled(outcome)
           /\ \A i \in Actions \ {current} : ledger'[Plan][i] = ledger[Plan][i]
BY DEF TypeOK, Audit!Settle, Audit!Write, Audit!Open, Audit!Settled, Open,
       Attempted

\* A change of the authorization leaves the ledger alone.
LEMMA PhaseEffect ==
    ASSUME TypeOK
    PROVE  /\ Audit!Register(Plan) =>
                  phase[Plan] = "absent" /\ ledger' = ledger
                  /\ phase' \in [{Plan} -> {"unused"}]
           /\ Audit!Claim(Plan) =>
                  phase[Plan] = "unused" /\ ledger' = ledger
                  /\ phase' \in [{Plan} -> {"claimed"}]
           /\ Audit!Consume(Plan) =>
                  /\ phase[Plan] = "claimed" /\ ledger' = ledger
                  /\ phase' \in [{Plan} -> {"consumed"}]
                  /\ \A i \in Actions : Attempted(i).state # "open"
BY DEF TypeOK, Audit!Register, Audit!Claim, Audit!Consume, Audit!Advance, Attempted

\* Every outcome of an action is one the audit store accepts.
LEMMA OutcomeType == Outcome \in Outcomes
BY DEF Outcome, Outcomes

-----------------------------------------------------------------------------
(* Types.                                                                  *)

AuditType ==
    /\ phase \in [{Plan} -> {"absent", "unused", "claimed", "consumed"}]
    /\ ledger \in [{Plan} -> [Actions ->
            [state : {"untried", "open", "settled"},
             outcome : Outcomes \cup {NoOutcome}]]]

ProgramType ==
    /\ pc \in Steps
    /\ current \in Actions
    /\ walk \subseteq Directories
    /\ call \in [unlink : {"none", "removed", "failed"},
                 sync : {"none", "ok", "failed"},
                 seen : {"none", "matches", "other", "absent", "unreadable"},
                 refused : {"none", "failed_unchanged", "indeterminate"}]
    /\ stopped \in Actions \cup {0}
    /\ result \in Results

TreeType ==
    /\ entry \in [Actions -> Contents]
    /\ extra \subseteq Directories
    /\ marker \subseteq Directories \cup {Above}
    /\ moved \in BOOLEAN
    /\ changes \in 0 .. MaxChanges
    /\ expired \in BOOLEAN
    /\ removed \in [Actions -> {"none", "planned", "modified", "swapped"}]
    /\ raced \subseteq Actions
    /\ guarded \subseteq Directories \cup {Above}

\* TypeOK, by the part of the system that has the variable.
LEMMA TypeByPart == TypeOK <=> AuditType /\ ProgramType /\ TreeType
BY DEF TypeOK, AuditType, ProgramType, TreeType

\* Type correctness holds initially.
LEMMA InitType == Init => TypeOK
<1> SUFFICES ASSUME Init PROVE TypeOK
  OBVIOUS
<1>1. 1 \in Actions
  BY PermanentDirectoryAssumption DEF Actions
<1>2. AuditType
  BY DEF Init, Audit!Init, Audit!Untried, AuditType
<1>3. ProgramType
  BY <1>1, PermanentDirectoryAssumption DEF Init, ProgramType, Steps, Results, NoCall
<1>4. TreeType
  <2>1. moved \in BOOLEAN /\ expired \in BOOLEAN
    BY Zenon DEF Init
  <2>2. changes \in 0 .. MaxChanges
    BY PermanentDirectoryAssumption DEF Init
  <2> QED  BY <2>1, <2>2 DEF Init, TreeType, Contents
<1>5. QED  BY <1>2, <1>3, <1>4, TypeByPart

\* Other programs keep the types of the tree.
LEMMA OthersType == ASSUME TypeOK, Others PROVE TypeOK'
<1> USE PermanentDirectoryAssumption
        DEF TypeOK, Elsewhere, Contents, audit, program, tree, history
<1>1. ASSUME NEW i \in Actions, NEW content \in Contents, ChangeEntry(i, content)
      PROVE  TypeOK'
  <2>1. raced' \subseteq Actions
    BY <1>1 DEF ChangeEntry, Change
  <2> QED  BY <1>1, <2>1 DEF ChangeEntry
<1>2. ASSUME NEW d \in Directories, ChangeExtra(d) PROVE TypeOK'
  <2>1. entry' \in [Actions -> Contents] /\ extra' \subseteq Directories
    BY <1>2 DEF ChangeExtra, Touched
  <2> QED  BY <1>2, <2>1 DEF ChangeExtra
<1>3. ASSUME NEW d \in Directories \cup {Above}, AddMarker(d) PROVE TypeOK'
  <2>1. entry' \in [Actions -> Contents] /\ marker' \subseteq Directories \cup {Above}
    BY <1>3 DEF AddMarker, Touched
  <2> QED  BY <1>3, <2>1 DEF AddMarker
<1>4. CASE MoveParent
  BY <1>4 DEF MoveParent
<1>5. CASE Expire
  BY <1>5 DEF Expire
<1>6. ASSUME NEW i \in Actions, RewriteFile(i) \/ ReplaceEntry(i) \/ RemoveEntry(i)
      PROVE  TypeOK'
  BY <1>1, <1>6 DEF RewriteFile, ReplaceEntry, RemoveEntry
<1>7. ASSUME NEW d \in Directories, MoveDirectoryBack(d) PROVE TypeOK'
  BY <1>1, <1>7 DEF MoveDirectoryBack
<1>8. QED  BY <1>2, <1>3, <1>4, <1>5, <1>6, <1>7 DEF Others

\* Every action of the command keeps the types of its own variables.
LEMMA ProgramStepType ==
    ASSUME TypeOK, Confirm \/ Run \/ Crash PROVE ProgramType'
<1> USE PermanentDirectoryAssumption
        DEF TypeOK, ProgramType, Steps, Results, Goto, Return, Stop, Continue,
            Refuse, NoCall, Actions
<1>1. CASE Confirm \/ Submit \/ Register \/ Claim
  BY <1>1 DEF Confirm, Submit, Register, Claim
<1>2. CASE Reserve \/ Arm \/ CheckAbove \/ CheckBinding \/ Walk
  BY <1>2 DEF Reserve, Arm, CheckAbove, CheckBinding, Walk
<1>3. CASE CheckTarget \/ CheckInside \/ CheckExpiry \/ RecordRefusal
  BY <1>3 DEF CheckTarget, CheckInside, CheckExpiry, RecordRefusal
<1>4. CASE Unlink \/ Sync \/ Postcheck \/ Record
  BY <1>4 DEF Unlink, Sync, Postcheck, Record
<1>5. CASE SkipReserve
  BY <1>5 DEF SkipReserve
<1>6. CASE SkipRecord
  <2>1. ASSUME Continue("skip_reserve") PROVE ProgramType'
    <3>1. current' \in Actions
      BY ONLY TypeOK, PermanentDirectoryAssumption, <2>1
      DEF TypeOK, Continue, Goto, Actions
    <3> QED  BY <2>1, <3>1
  <2>2. Return("post_submit_audit") => ProgramType'
    OBVIOUS
  <2> QED  BY ONLY <1>6, <2>1, <2>2 DEF SkipRecord
<1>7. CASE Consume \/ Crash
  BY <1>7 DEF Consume, Crash
<1>8. QED  BY <1>1, <1>2, <1>3, <1>4, <1>5, <1>6, <1>7 DEF Run, Preflight

\* Every action of the command keeps the types of the audit store.
LEMMA ProgramStepAuditType ==
    ASSUME TypeOK, ActionInv, Confirm \/ Run \/ Crash PROVE AuditType'
<1>1. UNCHANGED audit => AuditType'
  BY DEF TypeOK, AuditType, audit
<1>2. CASE \/ Confirm \/ Submit \/ Arm \/ Unlink \/ Sync \/ Postcheck \/ Crash
           \/ CheckAbove \/ CheckBinding \/ Walk \/ CheckTarget \/ CheckInside
           \/ CheckExpiry
  <2>1. UNCHANGED audit
    BY <1>2 DEF Confirm, Submit, Arm, CheckAbove, CheckBinding, Walk, CheckTarget,
                CheckInside, CheckExpiry, Unlink, Sync, Postcheck, Crash, audit
  <2> QED  BY <1>1, <2>1
<1>3. CASE Reserve \/ SkipReserve
  BY <1>1, <1>3, AttemptEffect DEF Reserve, SkipReserve, MayCommit, AuditType, TypeOK
<1>4. ASSUME Audit!Register(Plan) \/ Audit!Claim(Plan) \/ Audit!Consume(Plan)
      PROVE  AuditType'
  BY <1>4, PhaseEffect DEF AuditType, TypeOK
<1>5. CASE Register \/ Claim \/ Consume
  BY <1>1, <1>4, <1>5 DEF Register, Claim, Consume, MayCommit
<1>6. ASSUME NEW outcome \in Outcomes, Audit!Settle(Plan, current, outcome)
      PROVE  AuditType'
  BY <1>6, SettleEffect DEF AuditType, TypeOK
<1>7. CASE SkipRecord
  BY <1>1, <1>6, <1>7 DEF SkipRecord, MayCommit, Outcomes
<1>8. CASE Record
  BY <1>1, <1>6, <1>8, OutcomeType DEF Record, MayCommit
<1>9. CASE RecordRefusal
  <2>1. call.refused \in Outcomes
    BY <1>9 DEF RecordRefusal, ActionInv, TypeOK, Outcomes
  <2> QED  BY <1>1, <1>6, <1>9, <2>1 DEF RecordRefusal, MayCommit
<1> QED
  BY <1>2, <1>3, <1>5, <1>7, <1>8, <1>9 DEF Run, Preflight

\* Every action of the command keeps the types of the tree and the histories.
LEMMA ProgramStepTreeType ==
    ASSUME TypeOK, Confirm \/ Run \/ Crash PROVE TreeType'
<1>1. UNCHANGED <<tree, expired, history>> => TreeType'
  BY DEF TypeOK, TreeType, tree, history
<1>2. CASE CheckAbove
  BY <1>2 DEF CheckAbove, TypeOK, TreeType, tree
<1>3. CASE Unlink
  <2>1. entry[current] # "absent" \/ removed' = removed
    BY <1>3 DEF Unlink, Removable
  <2>2. removed' \in [Actions -> {"none", "planned", "modified", "swapped"}]
    BY <1>3, <2>1 DEF Unlink, Removable, TypeOK, Contents
  <2> QED  BY <1>3, <2>2 DEF Unlink, TypeOK, TreeType, Contents
<1> QED
  BY <1>1, <1>2, <1>3
     DEF Run, Preflight, Quiet, Confirm, Submit, Register, Claim, Reserve, Arm,
         CheckBinding, Walk, CheckTarget, CheckInside, CheckExpiry, RecordRefusal,
         Sync, Postcheck, Record, SkipReserve, SkipRecord, Consume, Crash

-----------------------------------------------------------------------------
(* The audit store and the removals.                                       *)

\* The invariant of the audit store says nothing about the tree.
LEMMA AuditInvUnchanged ==
    ASSUME AuditInv,
           UNCHANGED <<phase, ledger, removed, pc, current, call, stopped, result>>
    PROVE  AuditInv'
BY DEF AuditInv, LedgerInv, PhaseInv, LoopInv, ActionInv, SkipInv, RemovalsOnRecord,
       ResultMatchesAudit, IntentBeforeRemoval, OutcomesAreTruthful,
       EarlierActionsSucceeded, Untried, Open, Settled, Deleted, Kept, Attempted

\* Before the claim nothing is attempted, so every end is a clean one.
LEMMA BeforeClaimStep ==
    ASSUME TypeOK, AuditInv, Confirm \/ Submit \/ Register \/ Claim
    PROVE  AuditInv'
<1> USE DEF AuditInv, BeforeClaim, BeforeUnlink, AfterUnlink, Skipping, Ended,
            Untried, Open, Settled, Deleted, Kept, Attempted, Audit!Untried,
            Audit!Open, Audit!Settled, Goto, Return, Quiet, history, audit, MayCommit
<1>1. /\ pc \in BeforeClaim
      /\ UNCHANGED <<ledger, removed, stopped, call, current>>
      /\ pc' \in BeforeClaim \cup {"reserve", "done"}
      /\ pc' = "done" => result' \in {"cancelled", "expired", "refused", "audit"}
  BY PhaseEffect DEF Confirm, Submit, Register, Claim
<1>2. pc' \in BeforeClaim \cup {"reserve"} =>
          phase'[Plan] = IF pc' = "claim" THEN "unused"
                         ELSE IF pc' = "reserve" THEN "claimed" ELSE "absent"
  BY PhaseEffect DEF Confirm, Submit, Register, Claim, PhaseInv
<1>4. current = 1 /\ stopped = 0 /\ \A i \in Actions : Untried(i) /\ Kept(i)
  BY <1>1 DEF PhaseInv
<1>5. current' = 1 /\ stopped' = 0 /\ \A i \in Actions : Untried(i)' /\ Kept(i)'
  BY <1>1, <1>4
<1> HIDE DEF AuditInv, Untried, Kept, Attempted, MayCommit, Return, Goto
<1>8. LedgerInv'
  BY <1>5 DEF LedgerInv
<1>9. PhaseInv'
  BY <1>1, <1>2, <1>5 DEF PhaseInv
<1>10. LoopInv'
  BY <1>1, <1>5 DEF LoopInv, Actions
<1>6. ActionInv' /\ SkipInv'
  BY <1>1, <1>5 DEF ActionInv, SkipInv, TypeOK
<1>7. RemovalsOnRecord'
  <2>1. IntentBeforeRemoval' /\ EarlierActionsSucceeded'
    BY <1>5 DEF IntentBeforeRemoval, EarlierActionsSucceeded, Kept
  <2>2. OutcomesAreTruthful'
    BY <1>5, PermanentDirectoryAssumption
       DEF OutcomesAreTruthful, Untried, Kept, Attempted
  <2> QED  BY <2>1, <2>2 DEF RemovalsOnRecord
<1>11. ResultMatchesAudit'
  BY <1>1, <1>5 DEF ResultMatchesAudit, Untried, Kept, Attempted
<1> QED  BY <1>6, <1>7, <1>8, <1>9, <1>10, <1>11 DEF AuditInv

\* A new attempt is open, whatever was removed before.
LEMMA AttemptKeeps ==
    ASSUME TypeOK, LedgerInv, RemovalsOnRecord, Audit!Attempt(Plan, current),
           removed' = removed
    PROVE  LedgerInv' /\ RemovalsOnRecord'
<1> USE DEF Untried, Open, Settled, Attempted, Audit!Open, Audit!Untried, Audit!Settled
<1>1. /\ ledger[Plan][current].state = "untried"
      /\ ledger'[Plan][current] = Audit!Open
      /\ \A i \in Actions \ {current} : ledger'[Plan][i] = ledger[Plan][i]
      /\ current \in Actions
  BY AttemptEffect DEF TypeOK
<1>2. LedgerInv'
  BY <1>1 DEF LedgerInv
<1>3. IntentBeforeRemoval'
  BY <1>1 DEF RemovalsOnRecord, IntentBeforeRemoval
<1>4. OutcomesAreTruthful'
  BY <1>1, PermanentDirectoryAssumption DEF RemovalsOnRecord, OutcomesAreTruthful
<1>5. EarlierActionsSucceeded'
  BY <1>1 DEF RemovalsOnRecord, EarlierActionsSucceeded
<1> QED  BY <1>2, <1>3, <1>4, <1>5 DEF RemovalsOnRecord

\* An outcome that agrees with what was removed keeps the ledger truthful.
LEMMA SettleKeeps ==
    ASSUME TypeOK, LedgerInv, RemovalsOnRecord, NEW outcome \in Outcomes,
           Audit!Settle(Plan, current, outcome), removed' = removed,
           outcome = "succeeded" => ~Kept(current),
           outcome \in {"failed_unchanged", "failed_unknown"} => Kept(current)
    PROVE  LedgerInv' /\ RemovalsOnRecord'
<1> USE DEF Untried, Open, Settled, Attempted, Audit!Open, Audit!Untried, Audit!Settled
<1>1. /\ ledger[Plan][current].state = "open"
      /\ ledger'[Plan][current] = Audit!Settled(outcome)
      /\ \A i \in Actions \ {current} : ledger'[Plan][i] = ledger[Plan][i]
      /\ current \in Actions
  BY SettleEffect DEF TypeOK
<1>2. LedgerInv'
  BY <1>1 DEF LedgerInv
<1>3. IntentBeforeRemoval'
  BY <1>1 DEF RemovalsOnRecord, IntentBeforeRemoval
<1>4. OutcomesAreTruthful'
  BY <1>1 DEF RemovalsOnRecord, OutcomesAreTruthful, Kept
<1>5. EarlierActionsSucceeded'
  BY <1>1 DEF RemovalsOnRecord, EarlierActionsSucceeded
<1> QED  BY <1>2, <1>3, <1>4, <1>5 DEF RemovalsOnRecord

\* The loop is running, and only the current action may have changed.
Running ==
    /\ stopped = 0
    /\ phase[Plan] = "claimed"
    /\ \A i \in Actions : i < current => Deleted(i)
    /\ \A i \in Actions : i > current => Untried(i) /\ Kept(i)

\* An action that fails stops the loop; the later ones are still untouched.
LEMMA StopStep ==
    ASSUME TypeOK, Running, Stop, phase' = phase,
           \A i \in Actions \ {current} :
               ledger'[Plan][i] = ledger[Plan][i] /\ removed'[i] = removed[i],
           LedgerInv', RemovalsOnRecord'
    PROVE  AuditInv'
<1>1. /\ stopped' = current
      /\ current \in Actions
      /\ \/ current = Size /\ pc' = "consume" /\ current' = current
         \/ current # Size /\ pc' = "skip_reserve" /\ current' = current + 1
  BY DEF Stop, TypeOK
<1>2. current \in 1 .. Size /\ stopped' # 0 /\ current' \in Actions
  BY <1>1, PermanentDirectoryAssumption DEF Actions
<1>3. \A i \in Actions : i > current => Untried(i)' /\ Kept(i)'
  BY <1>2 DEF Running, Untried, Kept, Attempted, Actions
<1>4. PhaseInv' /\ LoopInv' /\ ActionInv' /\ ResultMatchesAudit'
  BY <1>1, <1>2 DEF PhaseInv, LoopInv, ActionInv, ResultMatchesAudit, Running,
     BeforeClaim, BeforeUnlink, AfterUnlink, Ended
<1>5. SkipInv'
  BY <1>1, <1>2, <1>3 DEF SkipInv, Skipping, Actions
<1> QED  BY <1>4, <1>5 DEF AuditInv

\* Inside execute_action the loop is running.
LEMMA RunningNow ==
    ASSUME AuditInv, pc \in {"reserve"} \cup BeforeUnlink \cup AfterUnlink
    PROVE  /\ Running /\ LedgerInv /\ RemovalsOnRecord
           /\ pc = "reserve" => Untried(current) /\ Kept(current)
           /\ pc \in BeforeUnlink => Open(current) /\ Kept(current)
           /\ pc \in AfterUnlink => Open(current)
BY DEF AuditInv, PhaseInv, LoopInv, ActionInv, Running, BeforeClaim, BeforeUnlink,
       AfterUnlink, Skipping, Ended

\* Going on to another step of the same action.
LEMMA GotoStep ==
    ASSUME TypeOK, Running, UNCHANGED <<phase, current, stopped, result>>,
           pc' \in BeforeUnlink \cup AfterUnlink,
           \A i \in Actions \ {current} :
               ledger'[Plan][i] = ledger[Plan][i] /\ removed'[i] = removed[i],
           LedgerInv', RemovalsOnRecord', ActionInv'
    PROVE  AuditInv'
<1>1. current \in Actions
  BY DEF TypeOK
<1>2. \A i \in Actions : i < current => Deleted(i)'
  BY <1>1 DEF Running, Deleted, Attempted, Actions
<1>3. \A i \in Actions : i > current => Untried(i)' /\ Kept(i)'
  BY <1>1 DEF Running, Untried, Kept, Attempted, Actions
<1>4. PhaseInv' /\ SkipInv' /\ ResultMatchesAudit'
  BY DEF PhaseInv, SkipInv, ResultMatchesAudit, Running, BeforeClaim,
         BeforeUnlink, AfterUnlink, Ended
<1>5. LoopInv'
  BY <1>2, <1>3 DEF LoopInv, Skipping, BeforeUnlink, AfterUnlink
<1> QED  BY <1>4, <1>5 DEF AuditInv

\* execute_action: an intent is reserved, or the action stops.
LEMMA ReserveStep == ASSUME TypeOK, AuditInv, Reserve PROVE AuditInv'
<1>1. /\ Running /\ LedgerInv /\ RemovalsOnRecord
      /\ Kept(current) /\ removed' = removed /\ current \in Actions
  BY RunningNow DEF Reserve, Quiet, history, TypeOK
<1>2. CASE Audit!Attempt(Plan, current)
  <2>1. LedgerInv' /\ RemovalsOnRecord'
    BY <1>1, <1>2, AttemptKeeps
  <2>2. CASE Goto("arm")
    <3>1. ActionInv'
      BY <1>1, <1>2, <2>2, AttemptEffect
         DEF ActionInv, Goto, Running, Open, Kept, Attempted, BeforeUnlink, AfterUnlink
    <3> QED
      BY <1>1, <1>2, <2>1, <2>2, <3>1, AttemptEffect, GotoStep DEF Goto, BeforeUnlink
  <2>3. CASE Stop
    BY <1>1, <1>2, <2>1, <2>3, AttemptEffect, StopStep
  <2> QED  BY <2>2, <2>3 DEF Reserve
<1>3. CASE UNCHANGED audit /\ Stop
  <2>1. LedgerInv' /\ RemovalsOnRecord'
    BY <1>1, <1>3 DEF audit, LedgerInv, RemovalsOnRecord, IntentBeforeRemoval,
       OutcomesAreTruthful, EarlierActionsSucceeded, Untried, Open, Settled, Attempted
  <2> QED  BY <1>1, <1>3, <2>1, StopStep DEF audit
<1> QED  BY <1>2, <1>3 DEF Reserve, MayCommit

\* Steps that write nothing leave the ledger truthful.
LEMMA LedgerUnchanged ==
    ASSUME UNCHANGED <<phase, ledger, removed>>, LedgerInv, RemovalsOnRecord
    PROVE  LedgerInv' /\ RemovalsOnRecord'
BY DEF LedgerInv, RemovalsOnRecord, IntentBeforeRemoval, OutcomesAreTruthful,
       EarlierActionsSucceeded, Untried, Open, Settled, Attempted

\* execute_action and prepare_action, up to the system call, write nothing.
LEMMA PreflightStep ==
    ASSUME TypeOK, AuditInv,
           Arm \/ CheckAbove \/ CheckBinding \/ Walk \/ CheckTarget
               \/ CheckInside \/ CheckExpiry
    PROVE  AuditInv'
<1>1. /\ UNCHANGED <<phase, ledger, removed>>
      /\ pc \in BeforeUnlink
      /\ \/ Stop
         \/ /\ UNCHANGED <<current, stopped, result>>
            /\ pc' \in BeforeUnlink
            /\ pc' = "refuse" => call'.refused # "none"
  BY DEF Arm, CheckAbove, CheckBinding, Walk, CheckTarget, CheckInside, CheckExpiry,
         Goto, Refuse, NoCall, BeforeUnlink, Quiet, history, audit
<1>2. /\ Running /\ LedgerInv /\ RemovalsOnRecord
      /\ Open(current) /\ Kept(current) /\ current \in Actions
  BY <1>1, RunningNow DEF TypeOK
<1>3. LedgerInv' /\ RemovalsOnRecord'
  BY <1>1, <1>2, LedgerUnchanged
<1>4. CASE Stop
  BY <1>1, <1>2, <1>3, <1>4, StopStep
<1>5. CASE ~Stop
  <2>1. ActionInv'
    BY <1>1, <1>2, <1>5
       DEF ActionInv, Running, Open, Kept, Attempted, BeforeUnlink, AfterUnlink
  <2> QED  BY <1>1, <1>2, <1>3, <1>5, <2>1, GotoStep
<1> QED  BY <1>4, <1>5

\* record_not_submitted: the refused action was kept.
LEMMA RefusalStep == ASSUME TypeOK, AuditInv, RecordRefusal PROVE AuditInv'
<1>1. /\ Running /\ LedgerInv /\ RemovalsOnRecord
      /\ Kept(current) /\ removed' = removed /\ current \in Actions
      /\ call.refused \in {"failed_unchanged", "indeterminate"} /\ Stop
  BY RunningNow
     DEF RecordRefusal, Quiet, history, TypeOK, BeforeUnlink, AuditInv, ActionInv
<1>2. CASE Audit!Settle(Plan, current, call.refused)
  <2>1. LedgerInv' /\ RemovalsOnRecord'
    BY <1>1, <1>2, SettleKeeps DEF Outcomes
  <2> QED  BY <1>1, <1>2, <2>1, SettleEffect, StopStep DEF Outcomes
<1>3. CASE UNCHANGED audit
  BY <1>1, <1>3, LedgerUnchanged, StopStep DEF audit
<1> QED  BY <1>2, <1>3 DEF RecordRefusal, MayCommit

\* unlinkat: everything before this action is on record as deleted.
LEMMA UnlinkStep == ASSUME TypeOK, AuditInv, Unlink PROVE AuditInv'
<1>1. /\ Running /\ LedgerInv /\ RemovalsOnRecord
      /\ Open(current) /\ Kept(current) /\ current \in Actions
      /\ UNCHANGED <<phase, ledger, current, stopped, result>>
      /\ pc' \in {"sync", "postcheck"}
  BY RunningNow DEF Unlink, TypeOK, BeforeUnlink, audit
<1>2. /\ call'.unlink \in {"removed", "failed"}
      /\ pc' = "sync" => call'.unlink = "removed"
      /\ call'.unlink = "failed" <=> removed'[current] = "none"
      /\ \A i \in Actions \ {current} : removed'[i] = removed[i]
  <2>1. CASE Removable(current) /\ pc' = "sync"
    BY <1>1, <2>1 DEF Unlink, Removable, TypeOK, NoCall, Contents
  <2>2. CASE UNCHANGED removed /\ pc' = "postcheck"
    BY <1>1, <2>2 DEF Unlink, NoCall, Kept
  <2> QED  BY <2>1, <2>2 DEF Unlink
<1>3. LedgerInv'
  BY <1>1 DEF LedgerInv, Untried, Open, Settled, Attempted
<1>4. RemovalsOnRecord'
  <2>1. IntentBeforeRemoval' /\ OutcomesAreTruthful'
    BY <1>1, <1>2, PermanentDirectoryAssumption
       DEF RemovalsOnRecord, IntentBeforeRemoval, OutcomesAreTruthful, Open, Attempted,
           Audit!Open
  <2>2. EarlierActionsSucceeded'
    BY <1>1, <1>2
       DEF RemovalsOnRecord, EarlierActionsSucceeded, Running, Deleted, Attempted
  <2> QED  BY <2>1, <2>2 DEF RemovalsOnRecord
<1>5. ActionInv'
  BY <1>1, <1>2
     DEF ActionInv, Running, Open, Kept, Attempted, BeforeUnlink, AfterUnlink
<1> QED  BY <1>1, <1>2, <1>3, <1>4, <1>5, GotoStep DEF AfterUnlink

\* sync_all and metadata_at write nothing; a failure to duplicate the
\* descriptor leaves the intent open.
LEMMA SyncStep == ASSUME TypeOK, AuditInv, Sync \/ Postcheck PROVE AuditInv'
<1>1. /\ UNCHANGED <<phase, ledger, removed>>
      /\ pc \in AfterUnlink
      /\ \/ Stop
         \/ /\ UNCHANGED <<current, stopped, result>>
            /\ pc' \in {"postcheck", "record"}
            /\ call'.unlink = call.unlink
            /\ pc' = "record" => call'.seen # "none"
  BY DEF Sync, Postcheck, AfterUnlink, Quiet, history, audit, TypeOK
<1>2. /\ Running /\ LedgerInv /\ RemovalsOnRecord
      /\ Open(current) /\ current \in Actions
      /\ Kept(current) <=> call.unlink = "failed"
      /\ call.unlink \in {"removed", "failed"}
  BY <1>1, RunningNow DEF TypeOK, AuditInv, ActionInv
<1>3. LedgerInv' /\ RemovalsOnRecord'
  BY <1>1, <1>2, LedgerUnchanged
<1>4. CASE Stop
  BY <1>1, <1>2, <1>3, <1>4, StopStep
<1>5. CASE ~Stop
  <2>1. ActionInv'
    BY <1>1, <1>2, <1>5
       DEF ActionInv, Running, Open, Kept, Attempted, BeforeUnlink, AfterUnlink
  <2> QED  BY <1>1, <1>2, <1>3, <1>5, <2>1, GotoStep DEF AfterUnlink
<1> QED  BY <1>4, <1>5

\* record_outcome: success lets the loop go on, everything else stops it.
LEMMA RecordStep == ASSUME TypeOK, AuditInv, Record PROVE AuditInv'
<1>1. /\ Running /\ LedgerInv /\ RemovalsOnRecord
      /\ removed' = removed /\ current \in Actions
      /\ Kept(current) <=> call.unlink = "failed"
      /\ call.unlink \in {"removed", "failed"}
  BY RunningNow
     DEF Record, Quiet, history, TypeOK, AfterUnlink, AuditInv, ActionInv
<1>2. /\ Outcome = "succeeded" => ~Kept(current)
      /\ Outcome \in {"failed_unchanged", "failed_unknown"} => Kept(current)
  BY <1>1 DEF Outcome
<1>3. CASE Audit!Settle(Plan, current, Outcome)
  <2>1. /\ LedgerInv' /\ RemovalsOnRecord' /\ phase' = phase
        /\ ledger'[Plan][current] = Audit!Settled(Outcome)
        /\ \A i \in Actions \ {current} : ledger'[Plan][i] = ledger[Plan][i]
    BY <1>1, <1>2, <1>3, OutcomeType, SettleKeeps, SettleEffect
  <2>2. CASE Stop
    BY <1>1, <2>1, <2>2, StopStep
  <2>3. CASE Outcome = "succeeded" /\ Continue("reserve")
    <3>1. \A i \in Actions : i <= current => Deleted(i)'
      BY <1>1, <1>2, <2>1, <2>3 DEF Running, Deleted, Kept, Attempted, Actions
    <3>2. \A i \in Actions : i > current => Untried(i)' /\ Kept(i)'
      BY <1>1, <2>1 DEF Running, Untried, Kept, Attempted, Actions
    <3>3. /\ stopped' = 0 /\ phase'[Plan] = "claimed"
          /\ \/ current = Size /\ pc' = "consume" /\ current' = current
             \/ current # Size /\ pc' = "reserve" /\ current' = current + 1
      BY <1>1, <2>1, <2>3 DEF Continue, Goto, Running
    <3>4. PhaseInv' /\ SkipInv' /\ ResultMatchesAudit'
      BY <3>3 DEF PhaseInv, SkipInv, ResultMatchesAudit, BeforeClaim, Ended
    <3>5. LoopInv'
      <4>1. CASE current = Size
        BY <3>1, <3>2, <3>3, <4>1, PermanentDirectoryAssumption
           DEF LoopInv, Skipping, Actions
      <4>2. CASE current # Size
        <5>1. current' = current + 1 /\ pc' = "reserve"
          BY <3>3, <4>2
        <5>2. ASSUME NEW i \in Actions, i < current' PROVE Deleted(i)'
          <6>1. i <= current
            BY <1>1, <5>1, <5>2 DEF Actions
          <6> QED  BY <3>1, <6>1
        <5>3. ASSUME NEW i \in Actions, i > current' PROVE Untried(i)' /\ Kept(i)'
          <6>1. i > current
            BY <1>1, <5>1, <5>3 DEF Actions
          <6> QED  BY <3>2, <6>1
        <5> QED  BY <5>1, <5>2, <5>3 DEF LoopInv, Skipping
      <4> QED  BY <4>1, <4>2
    <3>6. ActionInv'
      <4>1. pc' = "reserve" => Untried(current)' /\ Kept(current)'
        <5>1. CASE current = Size
          BY <3>3, <5>1
        <5>2. CASE current # Size
          <6>1. current + 1 \in Actions /\ current + 1 > current /\ current' = current + 1
            BY <1>1, <3>3, <5>2, PermanentDirectoryAssumption DEF Actions
          <6> QED  BY <3>2, <6>1 DEF Untried, Kept, Attempted
        <5> QED  BY <5>1, <5>2
      <4> QED  BY <3>3, <4>1 DEF ActionInv, BeforeUnlink, AfterUnlink
    <3> QED  BY <2>1, <3>4, <3>5, <3>6 DEF AuditInv
  <2> QED  BY <2>2, <2>3 DEF Record
<1>4. CASE UNCHANGED audit /\ Stop
  BY <1>1, <1>4, LedgerUnchanged, StopStep DEF audit
<1> QED  BY <1>3, <1>4 DEF Record, MayCommit

\* Nothing is left to do: the run returned, or the process died.
LEMMA EndStep ==
    ASSUME TypeOK, LedgerInv', RemovalsOnRecord', SkipInv, ResultMatchesAudit',
           UNCHANGED <<removed, stopped>>, pc' \in Ended
    PROVE  AuditInv'
BY DEF AuditInv, PhaseInv, LoopInv, ActionInv, SkipInv, BeforeClaim, BeforeUnlink,
       AfterUnlink, Skipping, Ended, Kept

\* record_remaining_actions_not_submitted: reserve an intent for an action
\* that is kept.
LEMMA SkipReserveStep == ASSUME TypeOK, AuditInv, SkipReserve PROVE AuditInv'
<1>1. /\ LedgerInv /\ RemovalsOnRecord /\ SkipInv /\ stopped # 0
      /\ phase[Plan] = "claimed" /\ pc = "skip_reserve"
      /\ UNCHANGED <<removed, stopped>> /\ current \in Actions
  BY DEF AuditInv, SkipReserve, Quiet, history, Goto, Return, TypeOK, LoopInv,
         PhaseInv, BeforeClaim, Ended, Skipping
<1>2. CASE Audit!Attempt(Plan, current) /\ Goto("skip_record")
  <2>1. LedgerInv' /\ RemovalsOnRecord'
    BY <1>1, <1>2, AttemptKeeps
  <2>2. SkipInv'
    BY <1>1, <1>2, AttemptEffect
       DEF SkipInv, Goto, Kept, Open, Untried, Attempted, Skipping, Actions
  <2>3. PhaseInv' /\ LoopInv' /\ ActionInv' /\ ResultMatchesAudit'
    BY <1>1, <1>2, AttemptEffect
       DEF PhaseInv, LoopInv, ActionInv, ResultMatchesAudit, Goto, BeforeClaim,
           BeforeUnlink, AfterUnlink, Ended
  <2> QED  BY <2>1, <2>2, <2>3 DEF AuditInv
<1>3. CASE Return("post_submit_audit")
  <2>1. LedgerInv' /\ RemovalsOnRecord'
    BY <1>1, AttemptKeeps, LedgerUnchanged DEF SkipReserve, MayCommit, audit
  <2>2. ResultMatchesAudit'
    BY <1>3 DEF ResultMatchesAudit, Return
  <2> QED  BY <1>1, <1>3, <2>1, <2>2, EndStep DEF Return, Ended
<1> QED  BY <1>2, <1>3 DEF SkipReserve

\* record_remaining_actions_not_submitted: and record that it was not submitted.
LEMMA SkipRecordStep == ASSUME TypeOK, AuditInv, SkipRecord PROVE AuditInv'
<1>1. /\ LedgerInv /\ RemovalsOnRecord /\ SkipInv /\ stopped # 0
      /\ phase[Plan] = "claimed" /\ pc = "skip_record"
      /\ UNCHANGED <<removed, stopped>> /\ current \in Actions
  BY DEF AuditInv, SkipRecord, Quiet, history, Goto, Continue, Return, TypeOK, LoopInv,
         PhaseInv, BeforeClaim, Ended, Skipping
<1>2. Audit!Settle(Plan, current, "indeterminate") => LedgerInv' /\ RemovalsOnRecord'
  BY <1>1, SettleKeeps DEF Outcomes
<1>3. CASE Audit!Settle(Plan, current, "indeterminate") /\ Continue("skip_reserve")
  <2>1. /\ phase' = phase
        /\ \A i \in Actions \ {current} : ledger'[Plan][i] = ledger[Plan][i]
    BY <1>3, SettleEffect DEF Outcomes
  <2>2. \/ pc' = "consume" /\ UNCHANGED <<current, result>>
        \/ /\ pc' = "skip_reserve" /\ current # Size
           /\ current' = current + 1 /\ UNCHANGED result
    BY <1>3 DEF Continue, Goto
  <2>3. SkipInv'
    <3>1. \A i \in Actions : i > stopped' => Kept(i)'
      BY <1>1 DEF SkipInv, Kept
    <3>2. CASE pc' = "consume"
      BY <1>1, <3>1, <3>2 DEF SkipInv, Skipping
    <3>3. CASE pc' = "skip_reserve"
      <4>1. current' = current + 1 /\ current' \in Actions /\ stopped < current'
        BY <1>1, <2>2, <3>3, PermanentDirectoryAssumption
           DEF SkipInv, Skipping, Actions, TypeOK
      <4>2. ASSUME NEW i \in Actions, i > current PROVE Untried(i)'
        BY <1>1, <2>1, <4>2 DEF SkipInv, Skipping, Untried, Attempted, Actions
      <4>3. Untried(current)'
        BY <1>1, <4>1, <4>2 DEF Actions, Untried, Attempted
      <4>4. ASSUME NEW i \in Actions, i > current' PROVE Untried(i)'
        BY <1>1, <4>1, <4>2, <4>4 DEF Actions
      <4> QED  BY <1>1, <3>1, <3>3, <4>1, <4>3, <4>4 DEF SkipInv, Skipping
    <3> QED  BY <2>2, <3>2, <3>3
  <2>4. PhaseInv' /\ LoopInv' /\ ActionInv' /\ ResultMatchesAudit'
    BY <1>1, <2>1, <2>2
       DEF PhaseInv, LoopInv, ActionInv, ResultMatchesAudit, BeforeClaim,
           BeforeUnlink, AfterUnlink, Ended
  <2> QED  BY <1>2, <1>3, <2>3, <2>4 DEF AuditInv
<1>4. CASE Return("post_submit_audit")
  <2>1. LedgerInv' /\ RemovalsOnRecord'
    BY <1>1, <1>2, LedgerUnchanged DEF SkipRecord, MayCommit, audit
  <2>2. ResultMatchesAudit'
    BY <1>4 DEF ResultMatchesAudit, Return
  <2> QED  BY <1>1, <1>4, <2>1, <2>2, EndStep DEF Return, Ended
<1> QED  BY <1>3, <1>4 DEF SkipRecord

\* consume_execution: Ok is only reported when every action is on record as
\* deleted, and the store refuses while an attempt is open.
LEMMA ConsumeStep == ASSUME TypeOK, AuditInv, Consume PROVE AuditInv'
<1>1. /\ LedgerInv /\ RemovalsOnRecord /\ SkipInv /\ pc = "consume"
      /\ UNCHANGED <<removed, stopped, ledger>> /\ pc' = "done"
      /\ stopped = 0 => \A i \in Actions : Deleted(i)
  BY PhaseEffect
     DEF AuditInv, Consume, MayCommit, audit, Quiet, history, Return, LoopInv,
         BeforeClaim, Ended, Skipping
<1>2. LedgerInv' /\ RemovalsOnRecord'
  BY <1>1 DEF LedgerInv, RemovalsOnRecord, IntentBeforeRemoval,
     OutcomesAreTruthful, EarlierActionsSucceeded, Untried, Open, Settled, Attempted
<1>3. ResultMatchesAudit'
  <2>1. CASE result' = "post_submit_audit"
    BY <2>1 DEF ResultMatchesAudit
  <2>2. CASE Audit!Consume(Plan) /\ result' = IF stopped = 0 THEN "ok" ELSE "partial"
    <3>1. /\ phase'[Plan] = "consumed"
          /\ \A i \in Actions : Attempted(i).state # "open"
      BY <2>2, PhaseEffect
    <3> QED  BY <1>1, <2>2, <3>1 DEF ResultMatchesAudit, Deleted, Attempted
  <2> QED  BY <2>1, <2>2 DEF Consume, Return
<1> QED  BY <1>1, <1>2, <1>3, EndStep DEF Ended

\* A crash of the process changes no durable state, whatever the step.
LEMMA CrashStep == ASSUME TypeOK, AuditInv, Crash PROVE AuditInv'
<1>1. /\ UNCHANGED <<phase, ledger, removed, stopped>> /\ pc' = "crashed"
      /\ LedgerInv /\ RemovalsOnRecord /\ SkipInv
  BY DEF Crash, Goto, Quiet, history, audit, AuditInv
<1>2. LedgerInv' /\ RemovalsOnRecord'
  BY <1>1, LedgerUnchanged
<1>3. ResultMatchesAudit'
  BY <1>1 DEF ResultMatchesAudit
<1> QED  BY <1>1, <1>2, <1>3, EndStep DEF Ended

\* Other programs change the tree and the clock only.
LEMMA OthersStep == ASSUME AuditInv, Others PROVE AuditInv'
<1>1. UNCHANGED <<phase, ledger, removed, pc, current, call, stopped, result>>
  BY DEF Others, RewriteFile, ReplaceEntry, RemoveEntry, MoveDirectoryBack,
         ChangeExtra, AddMarker, MoveParent, Expire, ChangeEntry, Elsewhere,
         audit, program, history
<1> QED  BY <1>1, AuditInvUnchanged

-----------------------------------------------------------------------------
(* The preflight.                                                          *)

\* The steps between the start of the preflight and the system call.
InPreflight == {"binding", "walk", "target", "inside", "expiry", "unlink"}

\* Outside the preflight only the markers are remembered.
LEMMA GuardOutside ==
    ASSUME GuardInv, pc' \notin InPreflight, UNCHANGED <<guarded, marker>>
    PROVE  GuardInv'
BY DEF GuardInv, InPreflight

\* Other programs add markers, and a change of a compared name is a race.
LEMMA GuardOthers == ASSUME TypeOK, GuardInv, Others PROVE GuardInv'
<1>1. UNCHANGED <<pc, current, walk, guarded>> /\ marker \subseteq marker'
  BY DEF Others, RewriteFile, ReplaceEntry, RemoveEntry, MoveDirectoryBack,
         ChangeExtra, AddMarker, MoveParent, Expire, ChangeEntry, Elsewhere,
         program, history, tree
<1>2. Checked(current) /\ (Matches(current) \/ current \in raced) =>
          Matches(current)' \/ current \in raced'
  <2> SUFFICES ASSUME Checked(current), Matches(current) \/ current \in raced
               PROVE  Matches(current)' \/ current \in raced'
    OBVIOUS
  <2>1. ASSUME NEW i \in Actions, NEW content \in Contents, ChangeEntry(i, content)
        PROVE  Matches(current)' \/ current \in raced'
    BY <1>1, <2>1 DEF ChangeEntry, Change, Checked, Matches, TypeOK
  <2>2. ASSUME NEW d \in Directories, entry' = Touched(d), UNCHANGED raced
        PROVE  Matches(current)' \/ current \in raced'
    BY <1>1, <2>2 DEF Touched, Matches, TypeOK
  <2>3. ASSUME UNCHANGED <<entry, raced>>
        PROVE  Matches(current)' \/ current \in raced'
    BY <1>1, <2>3 DEF Matches
  <2>4. ASSUME NEW i \in Actions, RewriteFile(i) \/ ReplaceEntry(i) \/ RemoveEntry(i)
        PROVE  Matches(current)' \/ current \in raced'
    BY <2>1, <2>4 DEF RewriteFile, ReplaceEntry, RemoveEntry, Contents
  <2>5. ASSUME NEW d \in Directories,
               MoveDirectoryBack(d) \/ ChangeExtra(d) \/ AddMarker(d)
        PROVE  Matches(current)' \/ current \in raced'
    <3>1. d \in Actions /\ d # Above
      BY PermanentDirectoryAssumption DEF Actions, Above
    <3> QED
      BY <2>1, <2>2, <2>5, <3>1 DEF MoveDirectoryBack, ChangeExtra, AddMarker, Contents
  <2>6. CASE AddMarker(Above) \/ MoveParent \/ Expire
    BY <2>3, <2>6 DEF AddMarker, MoveParent, Expire, history, tree
  <2> QED  BY <2>4, <2>5, <2>6 DEF Others
<1> QED  BY <1>1, <1>2 DEF GuardInv, Checked

\* The command remembers the markers, looks at every directory on its way,
\* and compares the name last.
LEMMA GuardStep == ASSUME TypeOK, GuardInv, Confirm \/ Run \/ Crash PROVE GuardInv'
<1> USE DEF Quiet, tree, history, Goto, Refuse, Return, Stop, Continue
<1>1. CASE CheckAbove
  BY <1>1 DEF CheckAbove, GuardInv
<1>2. CASE CheckBinding
  BY <1>2 DEF CheckBinding, GuardInv
<1>3. CASE Walk
  <2>1. CASE pc' = "refuse"
    BY <1>3, <2>1, GuardOutside DEF Walk, InPreflight
  <2>2. CASE walk = {} /\ Goto("target")
    BY <1>3, <2>2 DEF Walk, GuardInv
  <2>3. ASSUME NEW d \in walk, d \notin marker, walk' = walk \ {d},
               UNCHANGED <<pc, current>>
        PROVE  GuardInv'
    BY <1>3, <2>3 DEF Walk, GuardInv
  <2> QED  BY <1>3, <2>1, <2>2, <2>3 DEF Walk
<1>4. CASE CheckTarget
  BY <1>4 DEF CheckTarget, GuardInv, Matches
<1>5. CASE CheckInside \/ CheckExpiry
  BY <1>5 DEF CheckInside, CheckExpiry, GuardInv, Matches
<1>6. CASE Unlink
  BY <1>6, GuardOutside DEF Unlink, InPreflight
<1>7. CASE Confirm \/ Submit \/ Register \/ Claim \/ Reserve
  BY <1>7, GuardOutside DEF Confirm, Submit, Register, Claim, Reserve, InPreflight
<1>8. CASE Arm \/ RecordRefusal \/ Sync \/ Postcheck \/ Record
  BY <1>8, GuardOutside DEF Arm, RecordRefusal, Sync, Postcheck, Record, InPreflight
<1>9. CASE SkipReserve \/ SkipRecord \/ Consume \/ Crash
  BY <1>9, GuardOutside DEF SkipReserve, SkipRecord, Consume, Crash, InPreflight
<1> QED  BY <1>1, <1>2, <1>3, <1>4, <1>5, <1>6, <1>7, <1>8, <1>9 DEF Run, Preflight

-----------------------------------------------------------------------------
(* The theorems.                                                           *)

\* The state after capture and prepare_audit satisfies the invariant.
LEMMA InitInv == Init => IInv
<1> SUFFICES ASSUME Init PROVE IInv
  OBVIOUS
<1>1. TypeOK
  BY InitType
<1>2. /\ pc = "confirm" /\ current = 1 /\ stopped = 0 /\ guarded = {}
      /\ phase[Plan] = "absent"
      /\ \A i \in Actions : Untried(i) /\ Kept(i)
  BY DEF Init, Audit!Init, Untried, Kept, Attempted
<1>3. LedgerInv /\ PhaseInv /\ LoopInv
  BY <1>2 DEF LedgerInv, PhaseInv, LoopInv, BeforeClaim
<1>4. ActionInv /\ SkipInv /\ ResultMatchesAudit /\ GuardInv
  BY <1>2 DEF ActionInv, SkipInv, ResultMatchesAudit, GuardInv, BeforeUnlink, AfterUnlink
<1>5. IntentBeforeRemoval /\ EarlierActionsSucceeded
  BY <1>2 DEF IntentBeforeRemoval, EarlierActionsSucceeded, Kept
<1>6. OutcomesAreTruthful
  BY <1>2, PermanentDirectoryAssumption
     DEF OutcomesAreTruthful, Untried, Kept, Attempted, Audit!Untried
<1> QED  BY <1>1, <1>3, <1>4, <1>5, <1>6 DEF IInv, AuditInv, RemovalsOnRecord

\* Every step keeps the invariant.
LEMMA NextInv == IInv /\ [Next]_vars => IInv'
<1> SUFFICES ASSUME IInv, [Next]_vars PROVE IInv'
  OBVIOUS
<1> USE DEF IInv
<1>1. CASE Confirm \/ Run \/ Crash
  <2>1. TypeOK'
    <3>1. ActionInv
      BY DEF AuditInv
    <3>2. AuditType' /\ ProgramType' /\ TreeType'
      BY <1>1, <3>1, ProgramStepType, ProgramStepAuditType, ProgramStepTreeType
    <3> QED  BY <3>2 DEF TypeOK, AuditType, ProgramType, TreeType
  <2>2. AuditInv'
    BY <1>1, BeforeClaimStep, ReserveStep, PreflightStep, RefusalStep, UnlinkStep,
       SyncStep, RecordStep, SkipReserveStep, SkipRecordStep, ConsumeStep, CrashStep
       DEF Run, Preflight
  <2>3. GuardInv'
    BY <1>1, GuardStep
  <2> QED  BY <2>1, <2>2, <2>3
<1>2. CASE Others
  BY <1>2, OthersType, OthersStep, GuardOthers
<1>3. CASE UNCHANGED vars
  <2>1. TypeOK' /\ GuardInv'
    BY <1>3 DEF vars, TypeOK, GuardInv, Matches
  <2>2. AuditInv'
    BY <1>3, AuditInvUnchanged DEF vars
  <2> QED  BY <2>1, <2>2
<1> QED  BY <1>1, <1>2, <1>3 DEF Next

\* The inductive invariant holds in every reachable state.
LEMMA Invariant == Spec => []IInv
BY InitInv, NextInv, PTL DEF Spec

\* Every variable keeps its type, for a manifest of any size.
THEOREM TypeCorrect == Spec => []TypeOK
<1>1. IInv => TypeOK
  BY DEF IInv
<1> QED  BY <1>1, Invariant, PTL

\* Nothing is removed without a durable intent, the audit store never calls a
\* removal a failure or a failure a success, and a name is removed only after
\* every manifest entry before it is on record as deleted.
THEOREM RemovalTheorem == Spec => []RemovalsOnRecord
<1>1. IInv => RemovalsOnRecord
  BY DEF IInv, AuditInv
<1> QED  BY <1>1, Invariant, PTL

\* What submit returns agrees with what the audit store holds.
THEOREM ResultTheorem == Spec => []ResultMatchesAudit
<1>1. IInv => ResultMatchesAudit
  BY DEF IInv, AuditInv
<1> QED  BY <1>1, Invariant, PTL

\* Only unlinkat removes a name for this command, and only the current one.
LEMMA OnlyUnlinkRemoves ==
    ASSUME IInv, [Next]_vars, NEW i \in Actions, removed'[i] # removed[i]
    PROVE  /\ i = current /\ pc = "unlink" /\ Removable(i)
<1>1. removed' # removed
  OBVIOUS
<1>2. Unlink
  BY <1>1 DEF Next, Others, RewriteFile, ReplaceEntry, RemoveEntry, MoveDirectoryBack,
     ChangeExtra, AddMarker, MoveParent, Expire, ChangeEntry, Elsewhere, Run, Preflight,
     Confirm, Submit, Register, Claim, Reserve, Arm, CheckAbove, CheckBinding, Walk,
     CheckTarget, CheckInside, CheckExpiry, RecordRefusal, Sync, Postcheck, Record,
     SkipReserve, SkipRecord, Consume, Crash, Quiet, history, vars
<1> QED  BY <1>2 DEF Unlink, IInv, TypeOK

\* What is removed is what the manifest names, or was changed by another
\* program after the comparison.
THEOREM ApprovedTheorem == Spec => OnlyApprovedOrRaced
<1>1. IInv /\ [Next]_vars =>
          [\A i \in Actions :
              removed'[i] # removed[i] => Matches(i) \/ i \in raced]_vars
  BY OnlyUnlinkRemoves DEF IInv, GuardInv
<1> QED  BY <1>1, Invariant, PTL DEF Spec, OnlyApprovedOrRaced

\* A marker that was there before the preflight of an action keeps the
\* action's name.
THEOREM MarkerTheorem == Spec => MarkerStopsRemoval
<1>1. ASSUME IInv, [Next]_vars, NEW i \in Actions, removed'[i] # removed[i]
      PROVE  /\ (Ancestors[i] \cup {Size, Above}) \cap guarded = {}
             /\ Matches(i) => i \notin guarded
  <2>1. i = current /\ pc = "unlink" /\ Removable(i)
    BY <1>1, OnlyUnlinkRemoves
  <2>2. /\ guarded \subseteq marker /\ Above \notin guarded
        /\ (Ancestors[i] \cup {Size}) \cap guarded = {}
    BY <1>1, <2>1 DEF IInv, GuardInv
  <2>3. Matches(i) => i \notin guarded
    <3>1. i \notin Directories => i \notin guarded
      BY <1>1 DEF IInv, TypeOK, Above, Actions
    <3> QED  BY <2>1, <2>2, <3>1 DEF Removable
  <2> QED  BY <2>2, <2>3
<1>2. IInv /\ [Next]_vars =>
          [\A i \in Actions :
              removed'[i] # removed[i] =>
                  /\ (Ancestors[i] \cup {Size, Above}) \cap guarded = {}
                  /\ Matches(i) => i \notin guarded]_vars
  BY <1>1
<1> QED  BY <1>2, Invariant, PTL DEF Spec, MarkerStopsRemoval

=============================================================================
