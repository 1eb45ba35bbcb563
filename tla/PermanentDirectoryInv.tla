------------------------ MODULE PermanentDirectoryInv ------------------------
(***************************************************************************)
(* The inductive invariant of PermanentDirectory: where submit stands says *)
(* what the audit store and the tree hold for every manifest action.       *)
(***************************************************************************)
EXTENDS PermanentDirectory

Untried(i) == Attempted(i) = Audit!Untried
Open(i) == Attempted(i) = Audit!Open
Settled(i) == \E outcome \in Outcomes : Attempted(i) = Audit!Settled(outcome)

\* Action i is over, and it is on record that the command removed its name.
Deleted(i) == /\ removed[i] # "none"
              /\ Attempted(i) = Audit!Settled("succeeded")
Kept(i) == removed[i] = "none"

BeforeClaim == {"confirm", "submit", "register", "claim"}
BeforeUnlink == {"arm", "above", "binding", "walk", "target", "inside",
                 "expiry", "refuse", "unlink"}
AfterUnlink == {"sync", "postcheck", "record"}
Skipping == {"skip_reserve", "skip_record"}
Ended == {"done", "crashed"}

\* An attempt has an outcome exactly when it is settled.
LedgerInv == \A i \in Actions : Untried(i) \/ Open(i) \/ Settled(i)

\* Nothing is attempted before the authorization is claimed, and it stays
\* claimed until consume_execution.
PhaseInv ==
    /\ pc \in BeforeClaim =>
          /\ phase[Plan] = IF pc = "claim" THEN "unused" ELSE "absent"
          /\ current = 1 /\ stopped = 0
          /\ \A i \in Actions : Untried(i) /\ Kept(i)
    /\ pc \notin BeforeClaim \cup Ended => phase[Plan] = "claimed"

\* The loop of submit: everything before the current action is deleted,
\* nothing after it is attempted.
LoopInv ==
    pc \notin BeforeClaim \cup Ended /\ stopped = 0 =>
        /\ pc \notin Skipping
        /\ \A i \in Actions : i < current \/ pc = "consume" => Deleted(i)
        /\ \A i \in Actions : i > current => Untried(i) /\ Kept(i)

\* execute_action: the intent is open from reserve_intent to record_outcome,
\* and what unlinkat returned is what happened.
ActionInv ==
    /\ pc = "reserve" => Untried(current) /\ Kept(current)
    /\ pc \in BeforeUnlink => Open(current) /\ Kept(current)
    /\ pc \in AfterUnlink => Open(current) /\ call.unlink \in {"removed", "failed"}
    /\ pc \in AfterUnlink => (Kept(current) <=> call.unlink = "failed")
    /\ pc = "sync" => call.unlink = "removed"
    /\ pc = "refuse" => call.refused # "none"
    /\ pc = "record" => call.seen # "none"
    /\ pc \in {"reserve"} \cup BeforeUnlink \cup AfterUnlink => stopped = 0

\* record_remaining_actions_not_submitted: the actions after the one that
\* stopped are kept, and those still ahead are not attempted.
SkipInv ==
    stopped # 0 =>
        /\ \A i \in Actions : i > stopped => Kept(i)
        /\ pc \in Skipping \cup {"consume"} \cup Ended
        /\ pc \in Skipping =>
              /\ stopped < current
              /\ IF pc = "skip_reserve" THEN Untried(current) ELSE Open(current)
              /\ \A i \in Actions : i > current => Untried(i)

\* The history variables of the preflight.
GuardInv ==
    /\ guarded \subseteq marker
    /\ pc \in {"binding", "walk", "target", "inside", "expiry", "unlink"} =>
          Above \notin guarded
    /\ pc = "walk" =>
          (Ancestors[current] \cup {Size}) \cap guarded \subseteq walk
    /\ pc \in {"target", "inside", "expiry", "unlink"} =>
          (Ancestors[current] \cup {Size}) \cap guarded = {}
    /\ pc \in {"inside", "expiry", "unlink"} => Matches(current) \/ current \in raced

\* What is removed and what the audit store says of it agree at every step, of
\* every crash and failed audit call: nothing is removed without a durable
\* intent, a removal is never recorded as a failure nor a failure as a success,
\* and a name goes only after all manifest entries before it are on record as
\* deleted (execute_action, submit).
RemovalsOnRecord == IntentBeforeRemoval /\ OutcomesAreTruthful /\ EarlierActionsSucceeded

\* The part about the audit store and the removals.
AuditInv == /\ LedgerInv
            /\ PhaseInv
            /\ LoopInv
            /\ ActionInv
            /\ SkipInv
            /\ RemovalsOnRecord
            /\ ResultMatchesAudit

IInv == TypeOK /\ AuditInv /\ GuardInv

=============================================================================
