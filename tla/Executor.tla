------------------------------ MODULE Executor -------------------------------
(***************************************************************************)
(* SimulatedExecutor::execute (crates/sweepx-executor/src/lib.rs) with the *)
(* authorizations and permits of crates/sweepx-safety, over the audit      *)
(* store as AttemptLedger describes it.                                    *)
(*                                                                         *)
(* One plan, whose actions are executed in canonical order.  The caller    *)
(* may call execute again with whatever authorization it got back, bind a  *)
(* new authorization to the same plan, lose its claim, crash and recover;  *)
(* the audit store, the adapter and the permit checks can fail at any      *)
(* call, and the wall clock can be set.  Trash and Permanent take the same *)
(* steps.                                                                  *)
(***************************************************************************)
EXTENDS Integers, FiniteSets

CONSTANTS
    Count,        \* number of actions of the plan
    Plan,         \* its authorization in the audit store
    NoOutcome,
    ApprovalTTL,  \* wall clock
    PermitTTL,    \* monotonic clock
    MaxWall,      \* latest wall clock time
    MaxFence      \* claims made

Actions == 1 .. Count

ASSUME ExecutorAssumption ==
    /\ Count \in Nat \ {0}
    /\ ApprovalTTL \in Nat \ {0}
    /\ PermitTTL \in Nat \ {0}
    /\ MaxWall \in Nat
    /\ MaxFence \in Nat
    /\ NoOutcome \notin {"succeeded", "indeterminate"}

VARIABLES
    wall,       \* Clock::now
    approval,   \* the ExecutionAuthorization the caller or execute holds
    fences,     \* claims made so far
    claimed,    \* fence of the ClaimedExecution the caller holds, or 0
    phase,      \* AttemptLedger: of the authorization
    ledger,     \* AttemptLedger: of each action
    pc,         \* where execute stands; "idle" between calls
    current,    \* the action it is at
    permit,     \* the permit of that action, with the time since its issue
    started,    \* started_at of the submission
    completed,  \* the receipts of this call
    result,     \* what the last call returned
    reserved,   \* history: actions whose intent this call knows to be durable
    submitted   \* history: how often each action reached the adapter

memory == <<approval, claimed>>
audit == <<phase, ledger>>
locals == <<current, permit, started>>
report == <<completed, result>>
vars == <<wall, approval, fences, claimed, phase, ledger, pc, current, permit,
          started, completed, result, reserved, submitted>>

Outcomes == {"succeeded", "indeterminate"}
NoApproval == [state |-> "none", fence |-> 0, issued |-> 0]
NoPermit == [state |-> "none", age |-> 0]

\* The audit store as the executor may rely on it.
Audit == INSTANCE AttemptLedger WITH Auths <- {Plan}

Attempted(x) == ledger[Plan][x]

TypeOK ==
    /\ wall \in 0 .. MaxWall
    /\ approval \in [state : {"none", "unused", "claimed"},
                     fence : 0 .. MaxFence, issued : 0 .. MaxWall]
    /\ fences \in 0 .. MaxFence
    /\ claimed \in 0 .. fences
    /\ phase \in [{Plan} -> {"absent", "unused", "claimed", "consumed"}]
    /\ ledger \in [{Plan} -> [Actions ->
            [state : {"untried", "open", "settled"},
             outcome : Outcomes \cup {NoOutcome}]]]
    /\ pc \in {"idle", "next", "permit", "consume_permit", "submit", "finish",
               "finalize"}
    /\ current \in Actions
    /\ permit \in [state : {"none", "issued", "consumed"}, age : 0 .. PermitTTL]
    /\ started \in 0 .. MaxWall
    /\ completed \subseteq Actions
    /\ result \in {"none", "invalid", "cancelled", "uncertain", "partial_audit",
                   "reconcile", "finalization", "completed"}
    /\ reserved \subseteq Actions
    /\ submitted \in [Actions -> Nat]

Init ==
    /\ wall \in 0 .. MaxWall
    /\ approval = NoApproval
    /\ fences = 0
    /\ claimed = 0
    /\ Audit!Init
    /\ pc = "idle"
    /\ current = 1
    /\ permit = NoPermit
    /\ started = 0
    /\ completed = {}
    /\ result = "none"
    /\ reserved = {}
    /\ submitted = [x \in Actions |-> 0]

-----------------------------------------------------------------------------
(* The caller.                                                             *)

\* SimulatedAuthorizationRequest::bind_to_plan.
Bind ==
    /\ pc = "idle"
    /\ approval' = [state |-> "unused", fence |-> 0, issued |-> wall]
    /\ UNCHANGED <<wall, fences, claimed, audit, pc, locals, report, reserved,
                   submitted>>

\* ExecutionAuthorization::claim, with any fence the caller passes.
ClaimApproval(fence) ==
    /\ pc = "idle"
    /\ approval.state = "unused"
    /\ approval' = [approval EXCEPT !.state = "claimed", !.fence = fence]
    /\ UNCHANGED <<wall, fences, claimed, audit, pc, locals, report, reserved,
                   submitted>>

\* A call of the audit store returns Ok, or an error before or after its
\* transaction committed.
MayCommit(Transaction) == Transaction \/ UNCHANGED audit

\* AuditStore::register_authorization.
Register ==
    /\ pc = "idle"
    /\ Audit!Register(Plan)
    /\ UNCHANGED <<wall, memory, fences, pc, locals, report, reserved, submitted>>

\* AuditStore::claim_execution.
ClaimExecution ==
    /\ pc = "idle"
    /\ fences < MaxFence
    /\ Audit!Claim(Plan)
    /\ fences' = fences + 1
    /\ claimed' \in {0, fences'}
    /\ UNCHANGED <<wall, approval, pc, locals, report, reserved, submitted>>

\* AuditStore::claim_recovery: a new fence for the same authorization.
ClaimRecovery ==
    /\ pc = "idle"
    /\ claimed = 0
    /\ phase[Plan] = "claimed"
    /\ fences < MaxFence
    /\ fences' = fences + 1
    /\ claimed' = fences'
    /\ UNCHANGED <<wall, approval, audit, pc, locals, report, reserved, submitted>>

\* A recovery records an outcome for an attempt it found.
Reconcile(x) ==
    /\ pc = "idle"
    /\ claimed # 0
    /\ \E outcome \in Outcomes : Audit!Settle(Plan, x, outcome)
    /\ UNCHANGED <<wall, memory, fences, pc, locals, report, reserved, submitted>>

\* The claim is dropped between calls, or the process dies at any time.
DropClaim ==
    /\ pc = "idle"
    /\ claimed' = 0
    /\ UNCHANGED <<wall, approval, fences, audit, pc, locals, report, reserved,
                   submitted>>
Crash ==
    /\ approval' = NoApproval
    /\ claimed' = 0
    /\ pc' = "idle"
    /\ permit' = NoPermit
    /\ completed' = {}
    /\ result' = "none"
    /\ reserved' = {}
    /\ UNCHANGED <<wall, fences, audit, current, started, submitted>>

\* Time passes for the permit; the wall clock shows what it is set to.
TickMonotonic ==
    /\ permit.state # "none"
    /\ permit.age < PermitTTL
    /\ permit' = [permit EXCEPT !.age = @ + 1]
    /\ UNCHANGED <<wall, memory, fences, audit, pc, current, started, report,
                   reserved, submitted>>
SetWall(time) ==
    /\ wall' = time
    /\ UNCHANGED <<memory, fences, audit, pc, locals, report, reserved, submitted>>

-----------------------------------------------------------------------------
(* execute.                                                                *)

\* ExecutionAuthorization::matches_plan.
MatchesPlan == /\ approval.state = "claimed"
               /\ approval.issued <= wall
               /\ wall < approval.issued + ApprovalTTL

Quiet == UNCHANGED <<wall, fences, claimed, submitted>>

\* Return gives the authorization back with the error.
Return(outcome) == /\ pc' = "idle"
                   /\ result' = outcome
                   /\ permit' = NoPermit
                   /\ UNCHANGED <<approval, current, started, completed, reserved>>

\* validate_request; an authorization that is refused here is not given back.
Validate ==
    /\ pc = "idle"
    /\ claimed # 0
    /\ approval.state # "none"
    /\ completed' = {}
    /\ reserved' = {}
    /\ \/ /\ MatchesPlan
          /\ approval.fence = claimed
          /\ pc' = "next"
          /\ current' = 1
          /\ result' = "none"
          /\ UNCHANGED approval
       \/ /\ ~(MatchesPlan /\ approval.fence = claimed)
          /\ result' = "invalid"
          /\ approval' = NoApproval
          /\ UNCHANGED <<pc, current>>
    /\ UNCHANGED <<audit, permit, started>>
    /\ Quiet

\* Mutant: the token is honoured between the intent and the permit as well.
CancelAnywhere ==
    /\ pc \in {"next", "permit"}
    /\ Return("cancelled")
    /\ UNCHANGED audit
    /\ Quiet

\* The check of the cancellation token before every action.
Cancel ==
    /\ pc = "next"
    /\ Return("cancelled")
    /\ UNCHANGED audit
    /\ Quiet

\* reserve_intent_once: Created.
Reserve ==
    /\ pc = "next"
    /\ Audit!Attempt(Plan, current)
    /\ pc' = "permit"
    /\ reserved' = reserved \cup {current}
    /\ UNCHANGED <<approval, locals, report>>
    /\ Quiet

\* Mutant: an intent that is still open is taken up again.
ReserveResumes ==
    /\ pc = "next"
    /\ Attempted(current) = Audit!Open
    /\ pc' = "permit"
    /\ reserved' = reserved \cup {current}
    /\ UNCHANGED <<approval, audit, locals, report>>
    /\ Quiet

\* reserve_intent_once: Existing.
ReserveExisting ==
    /\ pc = "next"
    /\ phase[Plan] = "claimed"
    /\ Attempted(current) # Audit!Untried
    /\ Return("reconcile")
    /\ UNCHANGED audit
    /\ Quiet

\* reserve_intent_once: Conflicting.  An attempt of any other authorization may
\* hold the path of the action.
ReserveConflicting ==
    /\ pc = "next"
    /\ Return("reconcile")
    /\ UNCHANGED audit
    /\ Quiet

\* reserve_intent_once: Err, of which nobody knows whether it committed.
ReserveFails ==
    /\ pc = "next"
    /\ MayCommit(Audit!Attempt(Plan, current))
    /\ Return(IF completed = {} THEN "uncertain" ELSE "partial_audit")
    /\ Quiet

\* reconciliation_error, after the intent: the intent belongs to another process,
\* a permit cannot be issued, consumed or submitted, the adapter or the audit
\* store refuses.
Reconciliation ==
    /\ Return("reconcile")
    /\ UNCHANGED audit

\* verify_simulated_revalidation and PreflightPermit::issue.
IssuePermit ==
    /\ pc = "permit"
    /\ \/ /\ MatchesPlan
          /\ permit' = [state |-> "issued", age |-> 0]
          /\ pc' = "consume_permit"
          /\ UNCHANGED <<approval, current, started, report, reserved, audit>>
       \/ Reconciliation
    /\ Quiet

\* PreflightPermit::consume.
ConsumePermit ==
    /\ pc = "consume_permit"
    /\ \/ /\ permit.state = "issued"
          /\ permit.age < PermitTTL
          /\ permit' = [permit EXCEPT !.state = "consumed"]
          /\ pc' = "submit"
          /\ UNCHANGED <<approval, current, started, report, reserved, audit>>
       \/ Reconciliation
    /\ Quiet

\* Mutant: nobody asks for the time again before the adapter is called.
SubmitUnchecked ==
    /\ pc = "submit"
    /\ permit.state = "consumed"
    /\ started' = wall
    /\ submitted' = [submitted EXCEPT ![current] = @ + 1]
    /\ permit' = NoPermit
    /\ pc' = "finish"
    /\ UNCHANGED <<wall, fences, claimed, approval, audit, current, report,
                   reserved>>

\* execute_trash, execute_permanent: the permit is checked once more, and
\* given to the adapter.  Time that passes in between passes in the adapter.
Submit ==
    /\ pc = "submit"
    /\ \/ /\ permit.state = "consumed"
          /\ permit.age < PermitTTL
          /\ started' = wall
          /\ submitted' = [submitted EXCEPT ![current] = @ + 1]
          /\ permit' = NoPermit
          /\ \/ pc' = "finish" /\ UNCHANGED result
             \/ pc' = "idle" /\ result' = "reconcile"
          /\ UNCHANGED <<approval, current, completed, reserved, audit>>
       \/ Reconciliation /\ UNCHANGED submitted
    /\ UNCHANGED <<wall, fences, claimed>>

\* finish_submission: the clock, the receipt, then record_outcome.
Finish ==
    /\ pc = "finish"
    /\ \/ /\ started <= wall
          /\ Audit!Settle(Plan, current, "succeeded")
          /\ completed' = completed \cup {current}
          /\ IF current = Count
             THEN pc' = "finalize" /\ UNCHANGED current
             ELSE pc' = "next" /\ current' = current + 1
          /\ UNCHANGED <<approval, permit, started, result, reserved>>
       \/ Reconciliation
       \/ /\ started <= wall
          /\ Audit!Settle(Plan, current, "succeeded")
          /\ Return("reconcile")
    /\ Quiet

\* consume_execution, then ExecutionAuthorization::consume.
Finalize ==
    /\ pc = "finalize"
    /\ \/ /\ Audit!Consume(Plan)
          /\ pc' = "idle"
          /\ result' = "completed"
          /\ approval' = NoApproval
          /\ UNCHANGED <<locals, completed, reserved>>
       \/ MayCommit(Audit!Consume(Plan)) /\ Return("finalization")
    /\ Quiet

Execute ==
    \/ Validate \/ Cancel \/ Reserve \/ ReserveExisting \/ ReserveConflicting
    \/ ReserveFails \/ IssuePermit \/ ConsumePermit \/ Submit \/ Finish \/ Finalize

Caller ==
    \/ Bind \/ Register \/ ClaimExecution \/ ClaimRecovery \/ DropClaim \/ Crash
    \/ \E fence \in 1 .. MaxFence : ClaimApproval(fence)
    \/ \E x \in Actions : Reconcile(x)

Clocks == TickMonotonic \/ \E time \in 0 .. MaxWall : SetWall(time)

Next == Execute \/ Caller \/ Clocks

Spec == Init /\ [][Next]_vars

-----------------------------------------------------------------------------
(* What the executor promises.                                             *)

\* However often execute is called, with authorizations that were returned,
\* bound again or claimed again, after cancellations, errors, crashes and
\* recoveries, an action reaches the adapter at most once.
AtMostOneSubmission == \A x \in Actions : submitted[x] <= 1

\* What reached the adapter has a durable intent, and everything before it in
\* canonical order is on record as done, whichever calls did it.
SubmittedInOrder ==
    \A x \in Actions :
        submitted[x] > 0 =>
            /\ Attempted(x).state # "untried"
            /\ \A y \in Actions :
                  y < x => Attempted(y) = Audit!Settled("succeeded")

\* "Once a durable intent is known to exist for the current action, every
\* subsequent failure is conservatively returned as NeedsReconciliation"
\* (the comment of execute), also when the failure comes after the outcome was
\* recorded; and no other return leaves an intent of its own open.
KnownIntentIsReported ==
    pc = "idle" =>
        /\ result \notin {"none", "reconcile"} => reserved = completed
        /\ result = "reconcile" => reserved \ completed \subseteq {current}

\* The receipts a call returns are outcomes that are durable, and Completed
\* means that every action has one and the authorization cannot be used again.
ReportIsDurable ==
    /\ \A x \in completed : Attempted(x) = Audit!Settled("succeeded")
    /\ pc = "idle" /\ result = "completed" =>
          /\ completed = Actions
          /\ phase[Plan] = "consumed"

\* An action reaches the adapter only under an authorization claimed with the
\* fence of the live claim, through a consumed permit that is younger than
\* PERMIT_TTL, with its intent open: a permit cannot be used late or twice.
AuthorityAtSubmit ==
    [][\A x \in Actions :
           submitted'[x] # submitted[x] =>
               /\ approval.state = "claimed" /\ approval.fence = claimed
               /\ claimed # 0
               /\ permit.state = "consumed" /\ permit.age < PermitTTL
               /\ Attempted(x) = Audit!Open]_vars

=============================================================================
