----------------------------- MODULE ExecutorInv ------------------------------
(***************************************************************************)
(* The inductive invariant of Executor: what holds between any two steps   *)
(* of the caller, of execute and of the clocks.                            *)
(***************************************************************************)
EXTENDS Executor

Running == pc # "idle"
AfterIntent == {"permit", "consume_permit", "submit", "finish"}

\* What the audit store holds.  Before it is claimed nothing was attempted, and
\* a claim the caller holds was made under the newest fence.
AuditInv ==
    /\ phase[Plan] \in {"absent", "unused"} =>
           /\ claimed = 0
           /\ \A x \in Actions : Attempted(x) = Audit!Untried
    /\ claimed # 0 => claimed = fences
    /\ \A x \in Actions :
           Attempted(x) \in {Audit!Untried, Audit!Open}
                             \cup {Audit!Settled(o) : o \in Outcomes}

\* A running call holds an authorization claimed with the fence of its claim.
CallInv ==
    Running => /\ claimed # 0
               /\ approval.state = "claimed"
               /\ approval.fence = claimed

\* The receipts of a running call are the actions before the current one; the
\* last one is among them when there is nothing left to do.
ReceiptInv ==
    /\ \A x \in completed : Attempted(x) = Audit!Settled("succeeded")
    /\ Running => completed = IF pc = "finalize" THEN Actions
                              ELSE {x \in Actions : x < current}
    /\ pc = "finalize" => current = Count

\* The intent of the current action is this call's own, and still open.
IntentInv ==
    /\ Running => reserved = completed \cup
                        (IF pc \in AfterIntent THEN {current} ELSE {})
    /\ pc \in AfterIntent => Attempted(current) = Audit!Open

\* An action that reached the adapter was attempted, and once only; it is the
\* current one only when the call is past the adapter.
SubmittedInv ==
    /\ \A x \in Actions :
           submitted[x] > 0 =>
               /\ submitted[x] = 1
               /\ Attempted(x) # Audit!Untried
               /\ \A y \in Actions :
                      y < x => Attempted(y) = Audit!Settled("succeeded")
    /\ pc \in {"permit", "consume_permit", "submit"} => submitted[current] = 0

\* The permit follows the call.
PermitInv ==
    /\ pc = "submit" => permit.state = "consumed"
    /\ pc = "consume_permit" => permit.state = "issued"
    /\ pc \in {"idle", "next", "permit", "finish", "finalize"} => permit = NoPermit

ResultInv ==
    /\ Running => result = "none"
    /\ KnownIntentIsReported
    /\ pc = "idle" /\ result = "completed" =>
           completed = Actions /\ phase[Plan] = "consumed"

SafetyInv ==
    /\ AuditInv
    /\ CallInv
    /\ ReceiptInv
    /\ IntentInv
    /\ SubmittedInv
    /\ PermitInv
    /\ ResultInv

\* Over any number of calls of execute, crashes and recoveries, each action
\* reaches the adapter at most once, and in the order of the plan: all actions
\* before it are on record as succeeded (SimulatedExecutor::execute).
SubmittedOnceInOrder == AtMostOneSubmission /\ SubmittedInOrder

\* What a call returns is what the store bears out, whichever call of the store
\* failed or left its result unknown (finish_submission, SimulatedExecutor::execute):
\* an intent without a recorded outcome is never reported milder than
\* NeedsReconciliation, a receipt stands for a durable outcome, and Completed
\* for a consumed authorization with all of them.
ReportIsTrue == KnownIntentIsReported /\ ReportIsDurable

IInv == TypeOK /\ SafetyInv

=============================================================================
