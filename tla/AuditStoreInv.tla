--------------------------- MODULE AuditStoreInv ----------------------------
(***************************************************************************)
(* The inductive invariant of AuditStore, by part.  The properties of      *)
(* AuditStore are not inductive alone: what a claim may write depends on   *)
(* the lock, the lock on the objects in memory, and each row of a table on *)
(* the rows it refers to.                                                  *)
(***************************************************************************)
EXTENDS AuditLedger

\* Fences index the executions; every live object holds the lock.
FencesKnown ==
    /\ lockHolder \in 0..Len(execs)
    /\ \A f \in DOMAIN claims :
          /\ claims[f].state = "none" <=> claims[f].store = NoStore
          /\ claims[f].state # "live" => claims[f].armed = 0

\* An authorization row refers to its latest execution, and to none once consumed.
AuthRowsRefer ==
    \A a \in Auths :
        /\ auths[a].fence \in 0..Len(execs)
        /\ auths[a].exec = IF auths[a].state = "claimed" THEN auths[a].fence ELSE 0
        /\ auths[a].state \in {"claimed", "consumed"} <=> auths[a].fence # 0
        /\ auths[a].fence # 0 => execs[auths[a].fence].auth = a

\* An intent row refers to an execution of its own authorization.
IntentRowsRefer ==
    \A i \in DOMAIN intents :
        /\ intents[i].fence \in DOMAIN execs
        /\ execs[intents[i].fence].auth = intents[i].auth

\* An outcome is present exactly in the recorded state.
OutcomeRowsMatch ==
    \A i \in DOMAIN intents :
        intents[i].state = "outcome_recorded" <=> intents[i].recorded # NoOutcome

\* UNIQUE(authorization_id, action_id).
OneAttemptPerAction ==
    \A i, j \in DOMAIN intents :
        /\ intents[i].auth = intents[j].auth
        /\ intents[i].action = intents[j].action
        => i = j

\* Only a claimed authorization has an attempt that is not settled.
UnsettledIsClaimed ==
    \A i \in DOMAIN intents :
        intents[i].state # "outcome_recorded" => auths[intents[i].auth].state = "claimed"

\* A running observer borrows a claim of its own process, which is not armed.
ObserversBorrow ==
    \A s \in Stores :
        observing[s].claim # 0 =>
            /\ observing[s].claim \in DOMAIN claims
            /\ claims[observing[s].claim].state # "none"
            /\ ProcOf[claims[observing[s].claim].store] = ProcOf[s]
            /\ claims[observing[s].claim].armed = 0
            /\ observing[s].pending \subseteq IntentsOf(execs[observing[s].claim].auth)

IdleObserversEmpty ==
    \A s \in Stores : observing[s].claim = 0 => observing[s] = NoObserver

\* What the tables alone satisfy.
DurableInv ==
    /\ AuthRowsRefer
    /\ ActiveIsCurrent
    /\ IntentRowsRefer
    /\ OutcomeRowsMatch
    /\ OneAttemptPerAction
    /\ UnsettledIsClaimed
    /\ HotPathExclusive

\* What ties the objects in memory to each other and to the tables.
SessionInv ==
    /\ FencesKnown
    /\ LockIsLiveClaim
    /\ LiveClaimIsCurrent
    /\ ArmedIsReserved
    /\ ObserversBorrow
    /\ IdleObserversEmpty

IInv == TypeOK /\ TablesMatchJournal /\ DurableInv /\ SessionInv

\* The claims of all stores and processes agree with the lock and the tables:
\* the lock is held exactly while one claim lives, that claim has the newest
\* fence of its authorization, and no execution is active beside the current
\* one, after any crash, refused commit and recovery (claim_execution,
\* claim_recovery, release_live_claim).
ClaimsAreCurrent == LockIsLiveClaim /\ LiveClaimIsCurrent /\ ActiveIsCurrent

=============================================================================
