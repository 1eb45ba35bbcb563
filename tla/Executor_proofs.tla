--------------------------- MODULE Executor_proofs ---------------------------
(***************************************************************************)
(* Proofs about Executor, for a plan of any length, any number of calls    *)
(* and claims, and any time to live of approvals and permits.              *)
(***************************************************************************)
EXTENDS ExecutorInv, TLAPS

LedgerType == [{Plan} -> [Actions ->
                  [state : {"untried", "open", "settled"},
                   outcome : Outcomes \cup {NoOutcome}]]]

\* Reserving an attempt opens it and changes nothing else.
LEMMA AttemptEffect ==
    ASSUME TypeOK, NEW x \in Actions, Audit!Attempt(Plan, x)
    PROVE  /\ Attempted(x) = Audit!Untried
           /\ phase[Plan] = "claimed" /\ phase' = phase
           /\ ledger' \in LedgerType
           /\ ledger'[Plan][x] = Audit!Open
           /\ \A y \in Actions \ {x} : ledger'[Plan][y] = ledger[Plan][y]
BY DEF TypeOK, Audit!Attempt, Audit!Write, Audit!Open, Audit!Untried, Attempted,
       LedgerType

\* Recording an outcome closes the attempt and changes nothing else.
LEMMA SettleEffect ==
    ASSUME TypeOK, NEW x \in Actions, NEW outcome \in Outcomes,
           Audit!Settle(Plan, x, outcome)
    PROVE  /\ Attempted(x) = Audit!Open
           /\ phase[Plan] = "claimed" /\ phase' = phase
           /\ ledger' \in LedgerType
           /\ ledger'[Plan][x] = Audit!Settled(outcome)
           /\ \A y \in Actions \ {x} : ledger'[Plan][y] = ledger[Plan][y]
BY DEF TypeOK, Audit!Settle, Audit!Write, Audit!Open, Audit!Settled, Attempted,
       LedgerType

\* A change of the authorization leaves the ledger alone.
LEMMA PhaseEffect ==
    ASSUME TypeOK
    PROVE  /\ Audit!Register(Plan) =>
                  phase[Plan] = "absent" /\ ledger' = ledger
                  /\ phase' \in [{Plan} -> {"unused"}]
           /\ Audit!Claim(Plan) =>
                  phase[Plan] = "unused" /\ ledger' = ledger
                  /\ phase' \in [{Plan} -> {"claimed"}]
           /\ Audit!Consume(Plan) =>
                  phase[Plan] = "claimed" /\ ledger' = ledger
                  /\ phase' \in [{Plan} -> {"consumed"}]
BY DEF TypeOK, Audit!Register, Audit!Claim, Audit!Consume, Audit!Advance

\* Untried, open and settled entries differ.
LEMMA EntriesDiffer ==
    /\ Audit!Untried # Audit!Open
    /\ \A o \in Outcomes : Audit!Settled(o) # Audit!Open
    /\ \A o \in Outcomes : Audit!Settled(o) # Audit!Untried
BY DEF Audit!Untried, Audit!Open, Audit!Settled

-----------------------------------------------------------------------------
(* Types.                                                                  *)

AuditType ==
    /\ phase \in [{Plan} -> {"absent", "unused", "claimed", "consumed"}]
    /\ ledger \in LedgerType

CallerType ==
    /\ wall \in 0 .. MaxWall
    /\ approval \in [state : {"none", "unused", "claimed"},
                     fence : 0 .. MaxFence, issued : 0 .. MaxWall]
    /\ fences \in 0 .. MaxFence
    /\ claimed \in 0 .. fences

CallType ==
    /\ pc \in {"idle", "next", "permit", "consume_permit", "submit", "finish",
               "finalize"}
    /\ current \in Actions
    /\ permit \in [state : {"none", "issued", "consumed"}, age : 0 .. PermitTTL]
    /\ started \in 0 .. MaxWall
    /\ completed \subseteq Actions
    /\ result \in {"none", "invalid", "cancelled", "uncertain", "partial_audit",
                   "reconcile", "finalization", "completed"}
    /\ reserved \subseteq Actions
    /\ submitted \in [Actions -> Nat]

\* TypeOK, by the part of the system that has the variable.
LEMMA TypeByPart == TypeOK <=> AuditType /\ CallerType /\ CallType
BY DEF TypeOK, AuditType, CallerType, CallType, LedgerType

\* Type correctness holds initially.
LEMMA InitType == Init => TypeOK
<1> SUFFICES ASSUME Init PROVE AuditType /\ CallerType /\ CallType
  BY TypeByPart
<1> USE ExecutorAssumption
<1>1. AuditType
  BY DEF Init, Audit!Init, Audit!Untried, AuditType, LedgerType
<1>2. CallerType
  BY DEF Init, CallerType, NoApproval
<1>3. CallType
  BY DEF Init, CallType, NoPermit, Actions
<1> QED  BY <1>1, <1>2, <1>3

\* The audit store keeps its type whoever calls it.
LEMMA AuditStepType == ASSUME TypeOK, Next PROVE AuditType'
<1> USE DEF Quiet, MayCommit, Return, Reconciliation, audit
<1>1. CASE UNCHANGED audit
  BY <1>1 DEF TypeOK, AuditType, LedgerType
<1>2. CASE Register \/ ClaimExecution \/ Finalize
  BY <1>1, <1>2, PhaseEffect
     DEF Register, ClaimExecution, Finalize, TypeOK, AuditType, LedgerType
<1>3. ASSUME NEW x \in Actions, Reconcile(x) PROVE AuditType'
  BY <1>3, SettleEffect DEF Reconcile, TypeOK, AuditType
<1>4. CASE Reserve \/ ReserveFails
  <2>1. current \in Actions
    BY DEF TypeOK
  <2> QED  BY <1>1, <1>4, <2>1, AttemptEffect
              DEF Reserve, ReserveFails, TypeOK, AuditType
<1>5. CASE Finish
  <2>1. current \in Actions /\ "succeeded" \in Outcomes
    BY DEF TypeOK, Outcomes
  <2> QED  BY <1>1, <1>5, <2>1, SettleEffect DEF Finish, TypeOK, AuditType
<1> QED  BY <1>1, <1>2, <1>3, <1>4, <1>5
            DEF Next, Execute, Caller, Clocks, Bind, ClaimApproval, ClaimRecovery,
                DropClaim, Crash, TickMonotonic, SetWall, Validate, Cancel,
                ReserveExisting, ReserveConflicting, IssuePermit, ConsumePermit, Submit

\* The approval, the claims and the clock keep their types.
LEMMA CallerStepType == ASSUME TypeOK, Next PROVE CallerType'
<1> USE ExecutorAssumption DEF TypeOK, CallerType, Quiet, Return, Reconciliation, memory
<1>1. CASE Execute
  BY <1>1 DEF Execute, Validate, Cancel, Reserve, ReserveExisting, ReserveConflicting,
     ReserveFails, IssuePermit, ConsumePermit, Submit, Finish, Finalize, NoApproval
<1>2. CASE ClaimExecution \/ ClaimRecovery
  <2>1. fences' \in 0 .. MaxFence /\ claimed' \in 0 .. fences'
    BY <1>2 DEF ClaimExecution, ClaimRecovery
  <2> QED  BY <1>2, <2>1 DEF ClaimExecution, ClaimRecovery
<1>3. CASE Bind \/ Register \/ DropClaim \/ Crash
  BY <1>3 DEF Bind, Register, DropClaim, Crash, NoApproval
<1>4. ASSUME NEW fence \in 1 .. MaxFence, ClaimApproval(fence) PROVE CallerType'
  <2>1. fence \in 0 .. MaxFence
    OBVIOUS
  <2>2. approval' \in [state : {"none", "unused", "claimed"},
                      fence : 0 .. MaxFence, issued : 0 .. MaxWall]
    BY <1>4, <2>1 DEF ClaimApproval
  <2> QED  BY <1>4, <2>2 DEF ClaimApproval
<1>5. ASSUME NEW x \in Actions, Reconcile(x) PROVE CallerType'
  BY <1>5 DEF Reconcile
<1>6. CASE Clocks
  BY <1>6 DEF Clocks, TickMonotonic, SetWall
<1> QED  BY <1>1, <1>2, <1>3, <1>4, <1>5, <1>6 DEF Next, Caller

\* The variables of execute keep their types; that it stops after the last
\* action keeps current within the plan.
LEMMA CallStepType == ASSUME TypeOK, Next PROVE CallType'
<1> USE ExecutorAssumption
    DEF TypeOK, CallType, Return, Reconciliation, locals, report, NoPermit
<1>1. CASE Validate
  <2>1. current' \in Actions
    BY <1>1 DEF Validate, Actions
  <2> QED  BY <1>1, <2>1 DEF Validate, Quiet
<1>2. CASE Cancel \/ Reserve \/ ReserveExisting \/ ReserveConflicting \/ ReserveFails
  BY <1>2 DEF Cancel, Reserve, ReserveExisting, ReserveConflicting, ReserveFails, Quiet
<1>3. CASE IssuePermit \/ ConsumePermit
  BY <1>3 DEF IssuePermit, ConsumePermit, Quiet
<1>4. CASE Submit
  BY <1>4 DEF Submit
<1>5. CASE Finish
  <2>1. current' \in Actions
    <3>1. current' = current \/ (current # Count /\ current' = current + 1)
      BY <1>5 DEF Finish
    <3>2. current \in 1 .. Count /\ Count \in Nat
      BY DEF Actions
    <3> QED BY <3>1, <3>2 DEF Actions
  <2> QED  BY <1>5, <2>1 DEF Finish, Quiet
<1>6. CASE Finalize
  BY <1>6 DEF Finalize, Quiet
<1>7. CASE Caller
  <2>1. CASE Crash
    BY <2>1 DEF Crash
  <2>2. CASE ~Crash
    <3>1. UNCHANGED <<pc, current, permit, started, completed, result, reserved, submitted>>
      BY <1>7, <2>2 DEF Caller, Bind, ClaimApproval, Register, ClaimExecution,
         ClaimRecovery, DropClaim, Reconcile
    <3> QED  BY <3>1
  <2> QED  BY <2>1, <2>2
<1>8. CASE Clocks
  BY <1>8 DEF Clocks, TickMonotonic, SetWall
<1> QED  BY <1>1, <1>2, <1>3, <1>4, <1>5, <1>6, <1>7, <1>8 DEF Next, Execute

-----------------------------------------------------------------------------
(* The audit store.                                                        *)

\* What a step may do to an entry of the ledger.
Advances(x) ==
    \/ Attempted(x)' = Attempted(x)
    \/ /\ Attempted(x) = Audit!Untried
       /\ Attempted(x)' = Audit!Open
    \/ /\ Attempted(x) = Audit!Open
       /\ \E o \in Outcomes : Attempted(x)' = Audit!Settled(o)

\* Every step moves entries forward, and only while the plan is claimed.
LEMMA LedgerStep ==
    ASSUME TypeOK, Next
    PROVE  /\ \A x \in Actions : Advances(x)
           /\ phase[Plan] # "claimed" => ledger' = ledger
<1> USE DEF Quiet, MayCommit, Return, Reconciliation, audit, Advances, Attempted
<1>1. CASE UNCHANGED ledger
  BY <1>1
<1>2. CASE Register \/ ClaimExecution \/ Finalize
  BY <1>1, <1>2, PhaseEffect DEF Register, ClaimExecution, Finalize
<1>3. ASSUME NEW x \in Actions, Reconcile(x)
      PROVE  /\ \A y \in Actions : Advances(y)
             /\ phase[Plan] # "claimed" => ledger' = ledger
  <2>1. PICK outcome \in Outcomes : Audit!Settle(Plan, x, outcome)
    BY <1>3 DEF Reconcile
  <2> QED  BY <2>1, SettleEffect
<1>4. CASE Reserve \/ ReserveFails
  <2>1. current \in Actions
    BY DEF TypeOK
  <2>2. CASE Audit!Attempt(Plan, current)
    BY <2>1, <2>2, AttemptEffect
  <2> QED  BY <1>1, <1>4, <2>2 DEF Reserve, ReserveFails
<1>5. CASE Finish
  <2>1. current \in Actions /\ "succeeded" \in Outcomes
    BY DEF TypeOK, Outcomes
  <2>2. CASE Audit!Settle(Plan, current, "succeeded")
    BY <2>1, <2>2, SettleEffect
  <2> QED  BY <1>1, <1>5, <2>2 DEF Finish
<1> QED  BY <1>1, <1>2, <1>3, <1>4, <1>5
            DEF Next, Execute, Caller, Clocks, Bind, ClaimApproval, ClaimRecovery,
                DropClaim, Crash, TickMonotonic, SetWall, Validate, Cancel,
                ReserveExisting, ReserveConflicting, IssuePermit, ConsumePermit, Submit

\* What was attempted stays attempted, and what was settled stays as it is.
LEMMA LedgerKeeps ==
    ASSUME TypeOK, Next, NEW x \in Actions
    PROVE  /\ Attempted(x) # Audit!Untried => Attempted(x)' # Audit!Untried
           /\ \A o \in Outcomes : Attempted(x) = Audit!Settled(o) =>
                                       Attempted(x)' = Audit!Settled(o)
BY LedgerStep, EntriesDiffer DEF Advances

\* The facts about the audit store and the claims.
LEMMA AuditStep == ASSUME IInv, Next PROVE AuditInv'
<1> USE DEF IInv, SafetyInv, AuditInv
<1>1. ASSUME NEW x \in Actions
      PROVE  Attempted(x)' \in {Audit!Untried, Audit!Open}
                                 \cup {Audit!Settled(o) : o \in Outcomes}
  BY <1>1, LedgerStep DEF Advances
<1>2. CASE Execute \/ Clocks
  <2>1. claimed' = claimed /\ fences' = fences
    BY <1>2 DEF Execute, Clocks, Validate, Cancel, Reserve, ReserveExisting,
       ReserveConflicting, ReserveFails, IssuePermit, ConsumePermit, Submit, Finish,
       Finalize, TickMonotonic, SetWall, Quiet, memory
  <2>2. phase'[Plan] \in {"absent", "unused"} => phase' = phase /\ ledger' = ledger
    BY <1>2, LedgerStep, PhaseEffect, AuditStepType
       DEF Execute, Clocks, Validate, Cancel, Reserve, ReserveExisting,
       ReserveConflicting, ReserveFails, IssuePermit, ConsumePermit, Submit, Finish,
       Finalize, TickMonotonic, SetWall, Quiet, audit, MayCommit, Reconciliation,
       Audit!Attempt, Audit!Settle, Audit!Write
  <2> QED  BY <1>1, <2>1, <2>2 DEF Attempted
<1>3. CASE Register \/ ClaimExecution
  <2>1. claimed' = 0 \/ phase'[Plan] = "claimed"
    <3>1. CASE Register
      BY <3>1, PhaseEffect DEF Register, memory
    <3>2. CASE ClaimExecution
      BY <3>2, PhaseEffect DEF ClaimExecution
    <3> QED  BY <1>3, <3>1, <3>2
  <2>2. ledger' = ledger
    BY <1>3, PhaseEffect DEF Register, ClaimExecution
  <2>3. claimed' # 0 => claimed' = fences'
    BY <1>3 DEF Register, ClaimExecution, memory
  <2>4. \A x \in Actions : Attempted(x)' = Attempted(x)
    BY <2>2 DEF Attempted
  <2>5. phase[Plan] \in {"absent", "unused"}
    BY <1>3, PhaseEffect DEF Register, ClaimExecution
  <2>6. phase'[Plan] \in {"absent", "unused"} => claimed' = 0
    BY <2>1
  <2> QED  BY <1>1, <2>3, <2>4, <2>5, <2>6
<1>4. CASE ClaimRecovery
  BY <1>1, <1>4 DEF ClaimRecovery, audit
<1>5. CASE Bind \/ DropClaim \/ Crash \/ \E fence \in 1 .. MaxFence : ClaimApproval(fence)
  <2>1. (claimed' = claimed \/ claimed' = 0) /\ fences' = fences /\ UNCHANGED audit
    BY <1>5 DEF Bind, DropClaim, Crash, ClaimApproval
  <2> QED  BY <1>1, <2>1 DEF audit, Attempted
<1>6. ASSUME NEW x \in Actions, Reconcile(x) PROVE AuditInv'
  <2>1. PICK outcome \in Outcomes : Audit!Settle(Plan, x, outcome)
    BY <1>6 DEF Reconcile
  <2>2. phase[Plan] = "claimed" /\ phase' = phase
    BY <2>1, SettleEffect
  <2> QED  BY <1>1, <1>6, <2>2 DEF Reconcile, memory
<1> QED  BY <1>2, <1>3, <1>4, <1>5, <1>6 DEF Next, Caller

-----------------------------------------------------------------------------
(* A call of execute.                                                      *)

\* Between calls, nothing the caller or a clock does changes what the last call
\* returned; only a crash does, and it ends a call as well.
LEMMA OutsideExecute ==
    ASSUME Caller \/ Clocks, ~Crash
    PROVE  /\ UNCHANGED <<pc, current, report, reserved, submitted>>
           /\ Caller => pc = "idle" /\ UNCHANGED permit
           /\ Clocks => UNCHANGED <<claimed, approval>>
BY DEF Caller, Clocks, Bind, ClaimApproval, Register, ClaimExecution, ClaimRecovery,
   DropClaim, Reconcile, TickMonotonic, SetWall, locals, memory

\* A running call keeps its claim and its authorization.
LEMMA CallStep == ASSUME IInv, Next PROVE CallInv'
<1> USE DEF IInv, SafetyInv, CallInv, Running
<1>1. CASE Validate
  BY <1>1 DEF Validate, MatchesPlan, Quiet
<1>2. CASE Cancel \/ Reserve \/ ReserveExisting \/ ReserveConflicting \/ ReserveFails
  BY <1>2 DEF Cancel, Reserve, ReserveExisting, ReserveConflicting, ReserveFails,
     Quiet, Return
<1>3. CASE IssuePermit \/ ConsumePermit \/ Submit
  BY <1>3 DEF IssuePermit, ConsumePermit, Submit, Quiet, Reconciliation, Return
<1>4. CASE Finish \/ Finalize
  BY <1>4 DEF Finish, Finalize, Quiet, Reconciliation, Return
<1>5. CASE Crash
  BY <1>5 DEF Crash
<1>6. CASE (Caller \/ Clocks) /\ ~Crash
  BY <1>6, OutsideExecute
<1> QED  BY <1>1, <1>2, <1>3, <1>4, <1>5, <1>6 DEF Next, Execute

\* The permit is there when it is needed, and only then.
LEMMA PermitStep == ASSUME IInv, Next PROVE PermitInv'
<1> USE DEF IInv, SafetyInv, PermitInv, Return, Reconciliation, locals
<1>1. CASE Validate \/ Cancel \/ Reserve \/ ReserveExisting \/ ReserveConflicting
           \/ ReserveFails
  BY <1>1 DEF Validate, Cancel, Reserve, ReserveExisting, ReserveConflicting,
     ReserveFails
<1>2. CASE IssuePermit \/ ConsumePermit \/ Submit
  BY <1>2 DEF IssuePermit, ConsumePermit, Submit, TypeOK
<1>3. CASE Finish \/ Finalize
  BY <1>3 DEF Finish, Finalize
<1>4. CASE Crash
  BY <1>4 DEF Crash
<1>5. CASE Caller /\ ~Crash
  BY <1>5, OutsideExecute
<1>6. CASE TickMonotonic
  BY <1>6 DEF TickMonotonic, NoPermit, memory, TypeOK
<1>7. CASE Clocks /\ ~TickMonotonic
  BY <1>7 DEF Clocks, SetWall
<1> QED  BY <1>1, <1>2, <1>3, <1>4, <1>5, <1>6, <1>7 DEF Next, Execute

\* The receipts are those of the actions before the current one.
LEMMA ReceiptStep == ASSUME IInv, Next PROVE ReceiptInv'
<1> USE DEF IInv, SafetyInv, ReceiptInv, Running
<1>1. ASSUME completed' \subseteq completed
      PROVE  \A x \in completed' : Attempted(x)' = Audit!Settled("succeeded")
  BY <1>1, LedgerKeeps DEF TypeOK, Outcomes
<1>2. CASE Validate
  <2>1. \A x \in Actions : ~(x < 1)
    BY ExecutorAssumption DEF Actions
  <2> QED  BY <1>1, <1>2, <2>1 DEF Validate
<1>3. CASE Cancel \/ Reserve \/ ReserveExisting \/ ReserveConflicting \/ ReserveFails
  BY <1>1, <1>3 DEF Cancel, Reserve, ReserveExisting, ReserveConflicting, ReserveFails,
     Return, locals, report
<1>4. CASE IssuePermit \/ ConsumePermit \/ Submit \/ Finalize
  BY <1>1, <1>4 DEF IssuePermit, ConsumePermit, Submit, Finalize, Return,
     Reconciliation, report, locals
<1>5. CASE Finish
  <2>1. current \in Actions /\ "succeeded" \in Outcomes
    BY DEF TypeOK, Outcomes
  <2> DEFINE Recorded == /\ Audit!Settle(Plan, current, "succeeded")
                         /\ completed' = completed \cup {current}
  <2>2. CASE ~Recorded
    BY <1>1, <1>5, <2>2 DEF Finish, Return, Reconciliation
  <2>3. CASE Recorded
    <3>1. ledger'[Plan][current] = Audit!Settled("succeeded")
      BY <2>1, <2>3, SettleEffect
    <3>2. \A x \in completed' : Attempted(x)' = Audit!Settled("succeeded")
      BY <2>1, <2>3, <3>1, LedgerKeeps DEF TypeOK, Attempted
    <3>3. completed = {x \in Actions : x < current}
      BY <1>5 DEF Finish
    <3>4. CASE current = Count
      <4>1. completed' = Actions
        BY <2>3, <3>3, <3>4, ExecutorAssumption DEF Actions
      <4> HIDE DEF Recorded
      <4> QED  BY <1>5, <3>2, <3>4, <4>1 DEF Finish, Return, Reconciliation
    <3>5. CASE current # Count
      <4>1. completed' = {x \in Actions : x < current + 1}
        BY <2>1, <2>3, <3>3, <3>5, ExecutorAssumption DEF Actions
      <4> HIDE DEF Recorded
      <4> QED  BY <1>5, <3>2, <3>3, <3>5, <4>1 DEF Finish, Return, Reconciliation
    <3> QED  BY <3>4, <3>5
  <2> QED  BY <2>2, <2>3
<1>6. CASE Crash
  BY <1>1, <1>6 DEF Crash
<1>7. CASE (Caller \/ Clocks) /\ ~Crash
  BY <1>1, <1>7, OutsideExecute DEF report
<1> QED  BY <1>2, <1>3, <1>4, <1>5, <1>6, <1>7 DEF Next, Execute

\* The intent of the current action is open until finish_submission settles it.
LEMMA IntentStep == ASSUME IInv, Next PROVE IntentInv'
<1> USE DEF IInv, SafetyInv, IntentInv, Running, AfterIntent
<1>1. CASE Validate
  BY <1>1 DEF Validate
<1>2. CASE Cancel \/ ReserveExisting \/ ReserveConflicting \/ ReserveFails
  BY <1>2 DEF Cancel, ReserveExisting, ReserveConflicting, ReserveFails, Return
<1>3. CASE Reserve
  <2>1. current \in Actions
    BY DEF TypeOK
  <2>2. ledger'[Plan][current] = Audit!Open
    BY <1>3, <2>1, AttemptEffect DEF Reserve
  <2> QED  BY <1>3, <2>2 DEF Reserve, locals, report, Attempted
<1>4. CASE IssuePermit \/ ConsumePermit \/ Submit
  BY <1>4 DEF IssuePermit, ConsumePermit, Submit, Return, Reconciliation, report,
     audit, Attempted
<1>5. CASE Finish
  BY <1>5 DEF Finish, Return, Reconciliation
<1>6. CASE Finalize
  BY <1>6 DEF Finalize, Return, Reconciliation
<1>7. CASE Crash
  BY <1>7 DEF Crash
<1>8. CASE Caller /\ ~Crash
  BY <1>8, OutsideExecute
<1>9. CASE Clocks /\ ~Crash
  <2>1. ledger' = ledger
    BY <1>9 DEF Clocks, TickMonotonic, SetWall, audit
  <2> QED  BY <1>9, <2>1, OutsideExecute DEF report, Attempted
<1> QED  BY <1>1, <1>2, <1>3, <1>4, <1>5, <1>6, <1>7, <1>8, <1>9 DEF Next, Execute

\* Only an action that has never been there reaches the adapter.
LEMMA SubmittedStep == ASSUME IInv, Next PROVE SubmittedInv'
<1> USE DEF IInv, SafetyInv, SubmittedInv
<1>1. ASSUME submitted' = submitted
      PROVE  \A x \in Actions :
                submitted'[x] > 0 =>
                    /\ submitted'[x] = 1
                    /\ Attempted(x)' # Audit!Untried
                    /\ \A y \in Actions :
                           y < x => Attempted(y)' = Audit!Settled("succeeded")
  BY <1>1, LedgerKeeps DEF Outcomes
<1>2. CASE Submit /\ submitted' # submitted
  <2>1. /\ current \in Actions /\ pc = "submit" /\ submitted[current] = 0
        /\ submitted' = [submitted EXCEPT ![current] = @ + 1]
        /\ pc' \in {"finish", "idle"} /\ ledger' = ledger
    BY <1>2 DEF Submit, TypeOK, audit
  <2>2. \A y \in Actions : y < current => Attempted(y) = Audit!Settled("succeeded")
    BY <2>1 DEF ReceiptInv, Running
  <2>3. Attempted(current) # Audit!Untried
    BY <2>1, EntriesDiffer DEF IntentInv, AfterIntent
  <2>4. submitted' \in [Actions -> Nat] /\ submitted'[current] = 1
        /\ \A x \in Actions \ {current} : submitted'[x] = submitted[x]
    BY <2>1 DEF TypeOK
  <2>5. \A x \in Actions : Attempted(x)' = Attempted(x)
    BY <2>1 DEF Attempted
  <2>6. \A x \in Actions :
            submitted'[x] > 0 =>
                /\ submitted'[x] = 1
                /\ Attempted(x) # Audit!Untried
                /\ \A y \in Actions : y < x => Attempted(y) = Audit!Settled("succeeded")
    BY <2>2, <2>3, <2>4
  <2> QED  BY <2>1, <2>5, <2>6
<1>3. CASE Submit /\ submitted' = submitted
  <2>1. pc' = "idle"
    BY <1>3 DEF Submit, Reconciliation, Return, TypeOK
  <2> QED  BY <1>1, <1>3, <2>1
<1>4. CASE Reserve
  <2>1. current \in Actions /\ submitted' = submitted /\ current' = current
    BY <1>4 DEF Reserve, Quiet, locals, TypeOK
  <2>2. Attempted(current) = Audit!Untried
    BY <1>4, <2>1, AttemptEffect DEF Reserve
  <2>3. ~(submitted[current] > 0)
    BY <2>1, <2>2
  <2>4. submitted[current] = 0
    BY <2>1, <2>3 DEF TypeOK
  <2> QED  BY <1>1, <2>1, <2>4
<1>5. CASE Validate \/ Cancel \/ ReserveExisting \/ ReserveConflicting \/ ReserveFails
  <2>1. submitted' = submitted /\ pc' \in {"idle", "next"}
    BY <1>5 DEF Validate, Cancel, ReserveExisting, ReserveConflicting, ReserveFails,
       Return, Quiet
  <2> QED  BY <1>1, <2>1
<1>6. CASE Finish \/ Finalize
  <2>1. submitted' = submitted /\ pc' \in {"idle", "next", "finalize"}
    BY <1>6 DEF Finish, Finalize, Return, Reconciliation, Quiet
  <2> QED  BY <1>1, <2>1
<1>7. CASE IssuePermit \/ ConsumePermit
  <2>1. submitted' = submitted
        /\ (pc' = "idle" \/ (pc \in {"permit", "consume_permit"} /\ current' = current))
    BY <1>7 DEF IssuePermit, ConsumePermit, Return, Reconciliation, Quiet
  <2> QED  BY <1>1, <2>1
<1>8. CASE Crash
  BY <1>1, <1>8 DEF Crash
<1>9. CASE (Caller \/ Clocks) /\ ~Crash
  BY <1>1, <1>9, OutsideExecute
<1> QED  BY <1>1, <1>2, <1>3, <1>4, <1>5, <1>6, <1>7, <1>8, <1>9 DEF Next, Execute

\* What the caller is told.
LEMMA ResultStep == ASSUME IInv, Next PROVE ResultInv'
<1> USE DEF IInv, SafetyInv, ResultInv, Running, KnownIntentIsReported, AfterIntent
<1>1. CASE Validate
  BY <1>1 DEF Validate
<1>2. CASE Cancel \/ ReserveExisting \/ ReserveConflicting \/ ReserveFails
  BY <1>2 DEF Cancel, ReserveExisting, ReserveConflicting, ReserveFails, Return,
     IntentInv
<1>3. CASE Reserve \/ IssuePermit \/ ConsumePermit \/ Submit
  BY <1>3 DEF Reserve, IssuePermit, ConsumePermit, Submit, Return, Reconciliation,
     IntentInv, report
<1>4. CASE Finish
  BY <1>4 DEF Finish, Return, Reconciliation, IntentInv
<1>5. CASE Finalize
  <2>1. completed = Actions /\ reserved = completed
    BY <1>5 DEF Finalize, ReceiptInv, IntentInv
  <2>2. CASE Audit!Consume(Plan) /\ result' = "completed"
    BY <1>5, <2>1, <2>2, PhaseEffect DEF Finalize, Return
  <2>3. CASE result' = "finalization"
    BY <1>5, <2>1, <2>3 DEF Finalize, Return
  <2> QED  BY <1>5, <2>2, <2>3 DEF Finalize, Return
<1>6. CASE Crash
  BY <1>6 DEF Crash
<1>7. CASE (Caller \/ Clocks) /\ ~Crash
  <2>1. UNCHANGED <<pc, current, completed, result, reserved>>
    BY <1>7, OutsideExecute DEF report
  <2>2. phase[Plan] = "consumed" => phase' = phase
    BY <1>7, PhaseEffect, SettleEffect
       DEF Caller, Clocks, Bind, ClaimApproval, Register, ClaimExecution, ClaimRecovery,
           DropClaim, Reconcile, TickMonotonic, SetWall, audit, Outcomes
  <2> QED  BY <2>1, <2>2
<1> QED  BY <1>1, <1>2, <1>3, <1>4, <1>5, <1>6, <1>7 DEF Next, Execute

-----------------------------------------------------------------------------
(* The theorems.                                                           *)

\* Before the first call the invariant holds.
LEMMA InitInv == Init => IInv
<1> SUFFICES ASSUME Init PROVE IInv
  OBVIOUS
<1>1. TypeOK
  BY InitType
<1>2. /\ pc = "idle" /\ claimed = 0 /\ result = "none" /\ completed = {}
      /\ reserved = {} /\ permit = NoPermit /\ phase[Plan] = "absent"
      /\ \A x \in Actions : Attempted(x) = Audit!Untried /\ submitted[x] = 0
  BY DEF Init, Audit!Init, Attempted
<1> QED  BY <1>1, <1>2 DEF IInv, SafetyInv, AuditInv, CallInv, ReceiptInv, IntentInv,
            SubmittedInv, PermitInv, ResultInv, Running, AfterIntent,
            KnownIntentIsReported

\* Every step keeps the invariant.
LEMMA NextInv == IInv /\ [Next]_vars => IInv'
<1> SUFFICES ASSUME IInv, [Next]_vars PROVE IInv'
  OBVIOUS
<1>1. CASE Next
  <2>1. TypeOK
    BY DEF IInv
  <2>2. AuditType' /\ CallerType' /\ CallType'
    BY <1>1, <2>1, AuditStepType, CallerStepType, CallStepType
  <2>3. TypeOK'
    BY <2>2 DEF TypeOK, AuditType, CallerType, CallType, LedgerType
  <2>4. SafetyInv'
    BY <1>1, AuditStep, CallStep, ReceiptStep, IntentStep, SubmittedStep, PermitStep,
       ResultStep DEF SafetyInv
  <2> QED  BY <2>3, <2>4 DEF IInv
<1>2. CASE UNCHANGED vars
  BY <1>2 DEF vars, IInv, TypeOK, SafetyInv, AuditInv, CallInv, ReceiptInv, IntentInv,
     SubmittedInv, PermitInv, ResultInv, Running, KnownIntentIsReported, Attempted
<1> QED  BY <1>1, <1>2

\* The invariant holds in every reachable state.
LEMMA Invariant == Spec => []IInv
BY InitInv, NextInv, PTL DEF Spec

\* Every variable keeps its type; the index of the current action never leaves
\* the plan.
THEOREM TypeCorrect == Spec => []TypeOK
<1>1. IInv => TypeOK
  BY DEF IInv
<1> QED  BY <1>1, Invariant, PTL

\* No action reaches the adapter twice, over any number of calls of execute,
\* and actions reach it in the order of the plan, each after the recorded
\* success of all before it.
THEOREM SubmissionTheorem == Spec => []SubmittedOnceInOrder
<1>1. IInv => AtMostOneSubmission
  BY DEF IInv, SafetyInv, SubmittedInv, AtMostOneSubmission, TypeOK
<1>2. IInv => SubmittedInOrder
  <2> SUFFICES ASSUME IInv, NEW x \in Actions, submitted[x] > 0
               PROVE  /\ Attempted(x).state # "untried"
                      /\ \A y \in Actions :
                            y < x => Attempted(y) = Audit!Settled("succeeded")
    BY DEF SubmittedInOrder
  <2>1. Attempted(x) \in {Audit!Open} \cup {Audit!Settled(o) : o \in Outcomes}
    BY DEF IInv, SafetyInv, SubmittedInv, AuditInv
  <2>2. Attempted(x).state # "untried"
    BY <2>1 DEF Audit!Open, Audit!Settled
  <2> QED  BY <2>2 DEF IInv, SafetyInv, SubmittedInv
<1>3. IInv => SubmittedOnceInOrder
  BY <1>1, <1>2 DEF SubmittedOnceInOrder
<1> QED  BY <1>3, Invariant, PTL

\* What a call returns is borne out by the store: a known intent without an
\* outcome is reported for reconciliation, receipts and Completed stand for
\* durable outcomes.
THEOREM ReportTheorem == Spec => []ReportIsTrue
<1>1. IInv => KnownIntentIsReported
  BY DEF IInv, SafetyInv, ResultInv
<1>2. IInv => ReportIsDurable
  BY DEF IInv, SafetyInv, ReceiptInv, ResultInv, ReportIsDurable
<1>3. IInv => ReportIsTrue
  BY <1>1, <1>2 DEF ReportIsTrue
<1> QED  BY <1>3, Invariant, PTL

\* Nothing reaches the adapter without a live claim, an approval claimed under
\* its fence, a consumed permit that is not too old, and an open intent.
THEOREM AuthorityTheorem == Spec => AuthorityAtSubmit
<1>1. ASSUME IInv, [Next]_vars, NEW x \in Actions, submitted'[x] # submitted[x]
      PROVE  /\ approval.state = "claimed" /\ approval.fence = claimed
             /\ claimed # 0
             /\ permit.state = "consumed" /\ permit.age < PermitTTL
             /\ Attempted(x) = Audit!Open
  <2>1. Submit
    BY <1>1, OutsideExecute
       DEF Next, Execute, Crash, Validate, Cancel, Reserve, ReserveExisting,
           ReserveConflicting, ReserveFails, IssuePermit, ConsumePermit, Finish,
           Finalize, Quiet, vars
  <2>2. /\ pc = "submit" /\ x = current
        /\ permit.state = "consumed" /\ permit.age < PermitTTL
    BY <1>1, <2>1 DEF Submit, IInv, TypeOK
  <2> QED  BY <1>1, <2>2 DEF IInv, SafetyInv, CallInv, IntentInv, Running, AfterIntent
<1>2. IInv /\ [Next]_vars =>
          [\A x \in Actions :
              submitted'[x] # submitted[x] =>
                  /\ approval.state = "claimed" /\ approval.fence = claimed
                  /\ claimed # 0
                  /\ permit.state = "consumed" /\ permit.age < PermitTTL
                  /\ Attempted(x) = Audit!Open]_vars
  BY <1>1
<1> QED  BY <1>2, Invariant, PTL DEF Spec, AuthorityAtSubmit

=============================================================================
