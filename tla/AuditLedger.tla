---------------------------- MODULE AuditLedger -----------------------------
(* AuditStore implements AttemptLedger.                                    *)
EXTENDS AuditStore

\* The attempts at action x of authorization a: none or one.
Attempts(a, x) == {i \in DOMAIN intents : intents[i].auth = a /\ intents[i].action = x}

phaseBar == [a \in Auths |-> auths[a].state]

ledgerBar ==
    [a \in Auths |-> [x \in Actions |->
        IF Attempts(a, x) = {} THEN [state |-> "untried", outcome |-> NoOutcome]
        ELSE LET row == intents[CHOOSE i \in Attempts(a, x) : TRUE]
             IN [state |-> IF row.state = "outcome_recorded" THEN "settled" ELSE "open",
                 outcome |-> row.recorded]]]

Ledger == INSTANCE AttemptLedger WITH phase <- phaseBar, ledger <- ledgerBar

\* Across every interleaving of stores, crashes, refused commits and recoveries,
\* callers see at most one attempt per action and one outcome per attempt, and a
\* recovery never reopens what an execution settled or attempts it again.
ImplementsLedger == Ledger!Spec
=============================================================================
