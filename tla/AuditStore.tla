----------------------------- MODULE AuditStore -----------------------------
(***************************************************************************)
(* The durable authority of a deletion: crates/sweepx-audit/src/clean.rs.  *)
(* One SQLite file, shared by every open AuditStore, records which         *)
(* authorization was claimed under which fence, which action was attempted *)
(* and how each attempt ended.  A claim holds an exclusive OS lock until   *)
(* it is consumed, dropped, or its process dies.                           *)
(*                                                                         *)
(* A transaction is one action: SQLite makes it atomic.  The call around   *)
(* it may still return an error after the commit (with_connection checks   *)
(* the closed interval), so an action that hands out a capability has a    *)
(* variant in which the capability is lost.                                *)
(***************************************************************************)
EXTENDS Integers, Sequences, FiniteSets

CONSTANTS
    Auths,          \* authorization ids
    Actions,        \* the action ids every authorization binds
    Paths,          \* values of source_path_hash
    Outcomes,       \* outcomes accepted by validate_outcome_shape
    Stores,         \* open AuditStore instances
    Procs,          \* operating-system processes
    ProcOf,         \* the process that opened each store
    NoStore,        \* the value of claims[f].store once the object is gone
    NoOutcome,
    MaxEvents,      \* MAX_EVENTS
    SoftEvents,     \* where check_size_budget(false) starts to refuse
    MaxFence,       \* the largest value of next_fence_epoch
    MaxOrdinal      \* the largest value of next_attempt_ordinal

ASSUME AuditStoreAssumption ==
    /\ ProcOf \in [Stores -> Procs]
    /\ NoStore \notin Stores
    /\ NoOutcome \notin Outcomes
    /\ {MaxEvents, SoftEvents, MaxFence, MaxOrdinal} \subseteq Nat

VARIABLES
    auths,      \* table authorizations
    execs,      \* table executions; a row's index is its fence epoch
    intents,    \* tables intents, outcomes and recoveries, by attempt ordinal
    replay,     \* what replay_projection computes from the journal so far
    events,     \* number of rows of audit_events
    lockHolder, \* fence of the claim that holds the OS lock, or 0
    claims,     \* the ClaimedExecution object made under each fence
    active,     \* SessionCoordinator.active of each store
    observing   \* the classify_recovery call whose observer is running

durable == <<auths, execs, intents, replay, events>>
session == <<lockHolder, claims, active, observing>>
vars == <<auths, execs, intents, replay, events,
          lockHolder, claims, active, observing>>

-----------------------------------------------------------------------------

AuthStates == {"absent", "unused", "claimed", "consumed"}
ExecStates == {"active", "superseded", "consumed"}
ClaimStates == {"none", "live", "released"}
Classified == {"classified_pending", "classified_reserved",
               "classified_indeterminate"}
IntentStates == {"reserved", "outcome_recorded"} \cup Classified

\* `fence` is current_fence_epoch and `exec` current_execution_id; 0 is NULL.
AuthRow == [state : AuthStates, fence : Nat, exec : Nat]
ExecRow == [auth : Auths, kind : {"execution", "recovery"}, state : ExecStates]
\* `recorded` is the row of outcomes and `classed` the row of recoveries.
IntentRow == [auth : Auths, action : Actions, path : Paths, fence : Nat,
              state : IntentStates, recorded : Outcomes \cup {NoOutcome},
              classed : Classified \cup {"none"}]
\* `token` is the attempt whose token the caller can use, `armed` the attempt
\* of the ArmedDurableIntent that borrows the claim; 0 is neither.
ClaimObject == [state : ClaimStates, store : Stores \cup {NoStore},
                tokens : SUBSET Nat, armed : Nat]
Projection == [ok : BOOLEAN, auths : [Auths -> AuthRow],
               execs : Seq(ExecRow), intents : Seq(IntentRow)]

NoObserver == [claim |-> 0, pending |-> {}]
NoClaim == [state |-> "none", store |-> NoStore, tokens |-> {}, armed |-> 0]
AbsentAuth == [state |-> "absent", fence |-> 0, exec |-> 0]

TypeOK ==
    /\ auths \in [Auths -> AuthRow]
    /\ execs \in Seq(ExecRow)
    /\ intents \in Seq(IntentRow)
    /\ replay \in Projection
    /\ events \in Nat
    /\ lockHolder \in Nat
    /\ claims \in Seq(ClaimObject)
    /\ Len(claims) = Len(execs)
    /\ active \in [Stores -> BOOLEAN]
    /\ observing \in [Stores -> [claim : Nat, pending : SUBSET Nat]]

Init ==
    /\ auths = [a \in Auths |-> AbsentAuth]
    /\ execs = <<>>
    /\ intents = <<>>
    /\ replay = [ok |-> TRUE, auths |-> auths, execs |-> <<>>, intents |-> <<>>]
    /\ events = 0
    /\ lockHolder = 0
    /\ claims = <<>>
    /\ active = [s \in Stores |-> FALSE]
    /\ observing = [s \in Stores |-> NoObserver]

-----------------------------------------------------------------------------
(* The journal.  replay_event folds one event into the projection; the     *)
(* event is appended in the transaction that updates the tables.           *)

ReplayRegistered(r, a) ==
    [r EXCEPT !.ok = @ /\ r.auths[a].state = "absent",
              !.auths[a] = [state |-> "unused", fence |-> 0, exec |-> 0]]

\* `previous` is the execution a RecoveryClaimed event supersedes, else 0.
ReplayClaim(r, a, kind, fence, previous) ==
    LET started == [auth |-> a, kind |-> kind, state |-> "active"]
        before  == IF previous \in DOMAIN r.execs
                   THEN [r.execs EXCEPT ![previous].state = "superseded"]
                   ELSE r.execs
    IN [r EXCEPT !.ok = /\ @
                        /\ fence = Len(r.execs) + 1
                        /\ IF previous # 0
                           THEN previous \in DOMAIN r.execs
                           ELSE r.auths[a].state = "unused",
                 !.execs = Append(before, started),
                 !.auths[a] = [state |-> "claimed", fence |-> fence,
                               exec |-> fence]]

ReplayIntent(r, row) ==
    [r EXCEPT !.ok = @ /\ \A i \in DOMAIN r.intents :
                            \/ r.intents[i].auth # row.auth
                            \/ r.intents[i].action # row.action,
              !.intents = Append(@, row)]

ReplayOutcome(r, i, outcome) ==
    [r EXCEPT !.ok = @ /\ i \in DOMAIN r.intents,
              !.intents[i].state = "outcome_recorded",
              !.intents[i].recorded = outcome,
              !.intents[i].classed = "none"]

\* One RecoveryClassification event for every attempt in the domain of `found`.
ReplayClassified(r, found) ==
    [r EXCEPT !.ok = @ /\ DOMAIN found \subseteq DOMAIN r.intents,
              !.intents = [i \in DOMAIN @ |->
                  IF i \in DOMAIN found
                  THEN [@[i] EXCEPT !.state = found[i], !.classed = found[i]]
                  ELSE @[i]]]

ReplayConsumed(r, a, fence) ==
    [r EXCEPT !.ok = /\ @
                     /\ r.auths[a].exec = fence
                     /\ r.auths[a].fence = fence
                     /\ fence \in DOMAIN r.execs,
              !.auths[a].state = "consumed",
              !.auths[a].exec = 0,
              !.execs[fence].state = "consumed"]

\* append_event, `n` times in one transaction; refuses past MAX_EVENTS.
AppendEvents(n, projection) ==
    /\ events + n <= MaxEvents
    /\ events' = events + n
    /\ replay' = projection

\* verify_database: the tables must be what the journal replays to.
Verified ==
    replay = [ok |-> TRUE, auths |-> auths, execs |-> execs, intents |-> intents]

\* check_size_budget(false): the last bytes are kept for terminal records.
WithinSoftBudget == events < SoftEvents

-----------------------------------------------------------------------------
(* Registration and claims.                                                *)

ObserverIdle(s) == observing[s] = NoObserver

\* try_lock_exclusive on the lock file, in short_lock and acquire_lifetime_lock.
LockFree == lockHolder = 0

\* register_authorization_inner, under the short lock.
Register(s, a) ==
    /\ ObserverIdle(s)
    /\ LockFree
    /\ WithinSoftBudget
    /\ Verified
    /\ auths[a].state = "absent"
    /\ auths' = [auths EXCEPT ![a].state = "unused"]
    /\ AppendEvents(1, ReplayRegistered(replay, a))
    /\ UNCHANGED <<execs, intents, session>>

\* Mutant: the interrupted execution keeps its state.
KeepExecution(previous) == execs

\* The execution a recovery takes over from; 0 for a first claim.
SupersedeExecution(previous) ==
    IF previous = 0 THEN execs ELSE [execs EXCEPT ![previous].state = "superseded"]

\* claim_session.  The claim is published only when the call returns Ok; a
\* refusal after the commit drops the lock and leaves the fence durable.
ClaimSession(s, a, kind) ==
    LET fence == Len(execs) + 1
        previous == IF kind = "recovery" THEN auths[a].exec ELSE 0
        started == [auth |-> a, kind |-> kind, state |-> "active"]
    IN /\ ObserverIdle(s)
       /\ ~active[s]
       /\ LockFree
       /\ WithinSoftBudget
       /\ Verified
       /\ fence <= MaxFence
       /\ auths[a].state = IF kind = "recovery" THEN "claimed" ELSE "unused"
       /\ kind = "recovery" =>
            /\ previous \in DOMAIN execs
            /\ execs[previous].state = "active"
       /\ auths' = [auths EXCEPT ![a] = [state |-> "claimed", fence |-> fence,
                                         exec |-> fence]]
       /\ execs' = Append(SupersedeExecution(previous), started)
       /\ AppendEvents(1, ReplayClaim(replay, a, kind, fence, previous))
       /\ \/ /\ lockHolder' = fence
             /\ claims' = Append(claims, [NoClaim EXCEPT !.state = "live",
                                                         !.store = s])
             /\ active' = [active EXCEPT ![s] = TRUE]
          \/ /\ claims' = Append(claims, NoClaim)
             /\ UNCHANGED <<lockHolder, active>>
       /\ UNCHANGED <<intents, observing>>

ClaimExecution(s, a) == ClaimSession(s, a, "execution")
ClaimRecovery(s, a) == ClaimSession(s, a, "recovery")

\* release_live_claim: the lock is dropped if this claim still has it, and the
\* flag of the coordinator is cleared in every case.
ReleaseLiveClaim(f, object) ==
    /\ lockHolder' = IF lockHolder = f THEN 0 ELSE lockHolder
    /\ claims' = [claims EXCEPT ![f] = object]
    /\ active' = [active EXCEPT ![claims[f].store] = FALSE]

\* A shared borrow of the claim excludes arming and dropping it.
Borrowed(f) == \E s \in Stores : observing[s].claim = f

\* Drop for ClaimedExecution.
DropClaim(f) ==
    /\ claims[f].state # "none"
    /\ claims[f].armed = 0
    /\ ~Borrowed(f)
    /\ ReleaseLiveClaim(f, NoClaim)
    /\ UNCHANGED <<durable, observing>>

\* The process exits or is killed: the kernel releases its locks.
Crash(p) ==
    LET lost(f) == claims[f].state # "none" /\ ProcOf[claims[f].store] = p
    IN /\ \E f \in DOMAIN claims : lost(f)
       /\ lockHolder' = IF lockHolder # 0 /\ lost(lockHolder) THEN 0 ELSE lockHolder
       /\ claims' = [f \in DOMAIN claims |-> IF lost(f) THEN NoClaim ELSE claims[f]]
       /\ active' = [s \in Stores |-> active[s] /\ ProcOf[s] # p]
       /\ observing' = [s \in Stores |->
                          IF ProcOf[s] = p THEN NoObserver ELSE observing[s]]
       /\ UNCHANGED durable

-----------------------------------------------------------------------------
(* Operations of a claim.  Any store of the claim's process may be asked.  *)

\* ensure_not_in_observer_phase, lock_mutation and validate_claim_guard, and
\* that no ArmedDurableIntent borrows the claim exclusively.
ClaimUsable(s, f) ==
    /\ ObserverIdle(s)
    /\ claims[f].state = "live"
    /\ ProcOf[claims[f].store] = ProcOf[s]
    /\ lockHolder # 0
    /\ claims[f].armed = 0

\* Mutant: trusts the object in memory.
ClaimLooksLive(f) == claims[f].state = "live"

\* validate_live_claim: the durable rows still name this claim.
LiveClaimValid(f) ==
    /\ auths[execs[f].auth] = [state |-> "claimed", fence |-> f, exec |-> f]
    /\ execs[f].state = "active"

IntentsOf(a) == {i \in DOMAIN intents : intents[i].auth = a}

\* Mutant: classified attempts count as settled.
StillReservedOf(a) == {i \in IntentsOf(a) : intents[i].state = "reserved"}

\* The attempts consume_execution counts and a recovery outcome may settle.
Unresolved(a) == {i \in IntentsOf(a) : intents[i].state # "outcome_recorded"}

\* States in which the source of an attempt may still be acted on.
Hot(i) == intents[i].state \in {"reserved", "classified_indeterminate"}

\* Mutant: forgets attempts classified as indeterminate.
PathNotReserved(a, path) ==
    \A i \in DOMAIN intents :
        ~(/\ intents[i].auth # a
          /\ intents[i].state = "reserved"
          /\ intents[i].path = path)

\* No other authorization has an unsettled attempt on this path.
PathFree(a, path) ==
    \A i \in DOMAIN intents :
        ~(intents[i].auth # a /\ Hot(i) /\ intents[i].path = path)

\* reserve_intent_once, the Created case; Existing and Conflicting change nothing.
ReserveIntent(s, f, x, path) ==
    LET a == execs[f].auth
        row == [auth |-> a, action |-> x, path |-> path, fence |-> f,
                state |-> "reserved", recorded |-> NoOutcome, classed |-> "none"]
    IN /\ ClaimUsable(s, f)
       /\ WithinSoftBudget
       /\ Verified
       /\ LiveClaimValid(f)
       /\ PathFree(a, path)
       /\ \A i \in IntentsOf(a) : intents[i].action # x
       /\ Len(intents) < MaxOrdinal
       /\ intents' = Append(intents, row)
       /\ AppendEvents(1, ReplayIntent(replay, row))
       /\ \/ claims' = [claims EXCEPT ![f].tokens = @ \cup {Len(intents) + 1}]
          \/ UNCHANGED claims
       /\ UNCHANGED <<auths, execs, lockHolder, active, observing>>

\* Mutant: does not ask whether the intent is still reserved.
TokenNamesIntent(f, i) ==
    /\ claims[f].state = "live"
    /\ LiveClaimValid(f)
    /\ i \in IntentsOf(execs[f].auth)
    /\ intents[i].fence = f

\* DurableIntentToken::validate_current_process.
TokenValid(f, i) ==
    /\ claims[f].state = "live"
    /\ Verified
    /\ LiveClaimValid(f)
    /\ i \in IntentsOf(execs[f].auth)
    /\ intents[i].fence = f
    /\ intents[i].state = "reserved"

\* arm_native_intent takes the token by value: an error loses it.
ArmNativeIntent(f, i) ==
    LET s == claims[f].store
    IN /\ ~Borrowed(f)
       /\ claims[f].state = "live"
       /\ claims[f].armed = 0
       /\ i \in claims[f].tokens
       /\ \/ /\ ObserverIdle(s)
             /\ active[s]
             /\ TokenValid(f, i)
             /\ claims' = [claims EXCEPT ![f].tokens = @ \ {i}, ![f].armed = i]
          \/ claims' = [claims EXCEPT ![f].tokens = @ \ {i}]
       /\ UNCHANGED <<durable, lockHolder, active, observing>>

\* into_durable_intent gives the token back; dropping the capability loses it.
Disarm(f) ==
    /\ claims[f].armed # 0
    /\ \/ claims' = [claims EXCEPT ![f].tokens = @ \cup {claims[f].armed},
                                   ![f].armed = 0]
       \/ claims' = [claims EXCEPT ![f].armed = 0]
    /\ UNCHANGED <<durable, lockHolder, active, observing>>

\* Mutant: the row of recoveries is not deleted.
RecordKeepingClass(i, outcome) ==
    intents' = [intents EXCEPT ![i].state = "outcome_recorded",
                               ![i].recorded = outcome]

\* The rows an outcome inserts, deletes and updates.
RecordRow(i, outcome) ==
    intents' = [intents EXCEPT ![i].state = "outcome_recorded",
                               ![i].recorded = outcome,
                               ![i].classed = "none"]

\* record_outcome, by the claim and the token that reserved the intent.
RecordOutcome(s, f, i, outcome) ==
    /\ ClaimUsable(s, f)
    /\ i \in claims[f].tokens
    /\ TokenValid(f, i)
    /\ RecordRow(i, outcome)
    /\ AppendEvents(1, ReplayOutcome(replay, i, outcome))
    /\ UNCHANGED <<auths, execs, session>>

\* record_recovery_outcome, by a claim with a later fence than the intent's.
RecordRecoveryOutcome(s, f, i, outcome) ==
    /\ ClaimUsable(s, f)
    /\ Verified
    /\ LiveClaimValid(f)
    /\ i \in Unresolved(execs[f].auth)
    /\ intents[i].fence < f
    /\ RecordRow(i, outcome)
    /\ AppendEvents(1, ReplayOutcome(replay, i, outcome))
    /\ UNCHANGED <<auths, execs, session>>

\* classify_recovery up to the observer, which runs outside every lock.
ClassifyBegin(s, f) ==
    LET reserved == {i \in IntentsOf(execs[f].auth) : intents[i].state = "reserved"}
    IN /\ ClaimUsable(s, f)
       /\ Verified
       /\ LiveClaimValid(f)
       /\ reserved # {}
       /\ observing' = [observing EXCEPT ![s] = [claim |-> f, pending |-> reserved]]
       /\ UNCHANGED <<durable, lockHolder, claims, active>>

\* classify_recovery reads every state again before it writes.
AllStillReserved(pending) ==
    \A i \in pending : intents[i].state = "reserved"

\* The transaction after the observer: every attempt must still be reserved.
ClassifyCommit(s) ==
    LET f == observing[s].claim
        pending == observing[s].pending
    IN /\ ~ObserverIdle(s)
       /\ claims[f].state = "live"
       /\ Verified
       /\ LiveClaimValid(f)
       /\ AllStillReserved(pending)
       /\ \E found \in [pending -> Classified] :
            /\ intents' = [i \in DOMAIN intents |->
                  IF i \in pending
                  THEN [intents[i] EXCEPT !.state = found[i], !.classed = found[i]]
                  ELSE intents[i]]
            /\ AppendEvents(Cardinality(pending), ReplayClassified(replay, found))
       /\ observing' = [observing EXCEPT ![s] = NoObserver]
       /\ UNCHANGED <<auths, execs, lockHolder, claims, active>>

\* The observer fails, its answer is refused, or the transaction is.
ClassifyAbort(s) ==
    /\ ~ObserverIdle(s)
    /\ observing' = [observing EXCEPT ![s] = NoObserver]
    /\ UNCHANGED <<durable, lockHolder, claims, active>>

\* The transaction of consume_execution when it has something to do.
ConsumeRows(f) ==
    LET a == execs[f].auth
    IN /\ auths[a] = [state |-> "claimed", fence |-> f, exec |-> f]
       /\ Unresolved(a) = {}
       /\ auths' = [auths EXCEPT ![a].state = "consumed", ![a].exec = 0]
       /\ execs' = IF execs[f].state = "active"
                   THEN [execs EXCEPT ![f].state = "consumed"] ELSE execs
       /\ AppendEvents(1, ReplayConsumed(replay, a, f))
       /\ UNCHANGED intents

\* consume_execution.  Refused after the commit, the claim stays live and a
\* second call finds the authorization consumed under its own fence.
ConsumeExecution(s, f) ==
    LET a == execs[f].auth
        release == ReleaseLiveClaim(f, [claims[f] EXCEPT !.state = "released",
                                                         !.tokens = {}])
    IN /\ ClaimUsable(s, f)
       /\ Verified
       /\ \/ ConsumeRows(f) /\ release
          \/ ConsumeRows(f) /\ UNCHANGED <<lockHolder, claims, active>>
          \/ /\ auths[a].state = "consumed"
             /\ auths[a].fence = f
             /\ release
             /\ UNCHANGED durable
       /\ UNCHANGED observing

-----------------------------------------------------------------------------

StoreStep(s) ==
    \/ \E a \in Auths : Register(s, a) \/ ClaimExecution(s, a) \/ ClaimRecovery(s, a)
    \/ ClassifyCommit(s)
    \/ ClassifyAbort(s)

ClaimStep(s, f) ==
    \/ \E x \in Actions, path \in Paths : ReserveIntent(s, f, x, path)
    \/ \E i \in DOMAIN intents, outcome \in Outcomes :
          RecordOutcome(s, f, i, outcome) \/ RecordRecoveryOutcome(s, f, i, outcome)
    \/ ClassifyBegin(s, f)
    \/ ConsumeExecution(s, f)

ObjectStep(f) ==
    \/ DropClaim(f)
    \/ \E i \in DOMAIN intents : ArmNativeIntent(f, i)
    \/ Disarm(f)

Next ==
    \/ \E s \in Stores : StoreStep(s) \/ \E f \in DOMAIN claims : ClaimStep(s, f)
    \/ \E f \in DOMAIN claims : ObjectStep(f)
    \/ \E p \in Procs : Crash(p)

Spec == Init /\ [][Next]_vars

-----------------------------------------------------------------------------
(* Properties.                                                             *)

\* The store never refuses its own history: whatever legal calls, crashes and
\* refused commits came before, verify_database finds the tables equal to the
\* projection it replays, so every later operation can still be admitted.
TablesMatchJournal == Verified

\* The OS lock is held exactly by the one claim whose object is live, so two
\* claims are never live at once and a dead claim never keeps the store locked.
LockIsLiveClaim ==
    \A f \in DOMAIN claims : claims[f].state = "live" <=> lockHolder = f

\* A live claim is the newest word on its authorization: no recovery superseded
\* it while it was held, and only its own consume can have ended it.
LiveClaimIsCurrent ==
    \A f \in DOMAIN claims :
        claims[f].state = "live" =>
            /\ auths[execs[f].auth].fence = f
            /\ auths[execs[f].auth].exec = f \/ auths[execs[f].auth].state = "consumed"

\* Two authorizations never have an unsettled attempt on one source path, though
\* each looked for the other only when it reserved and recovery reclassifies later.
HotPathExclusive ==
    \A i, j \in DOMAIN intents :
        Hot(i) /\ Hot(j) /\ intents[i].path = intents[j].path
            => intents[i].auth = intents[j].auth

\* An authorization is consumed only with a recorded outcome for every attempt,
\* and nothing is attempted under it afterwards, even by a claim left live.
ConsumedIsSettled ==
    \A a \in Auths : auths[a].state = "consumed" =>
        \A i \in IntentsOf(a) : intents[i].state = "outcome_recorded"

\* While a native adapter holds an armed intent, which it rechecks in memory only,
\* the database still has that intent reserved under the same fence.
ArmedIsReserved ==
    \A f \in DOMAIN claims :
        claims[f].armed # 0 =>
            /\ claims[f].armed \in DOMAIN intents
            /\ intents[claims[f].armed].state = "reserved"
            /\ intents[claims[f].armed].fence = f
            /\ auths[execs[f].auth].exec = f

\* An authorization is claimed by exactly one active execution, the current one:
\* what a crash left active is superseded before anything else runs.
ActiveIsCurrent ==
    \A f \in DOMAIN execs :
        execs[f].state = "active" <=>
            auths[execs[f].auth] = [state |-> "claimed", fence |-> f, exec |-> f]

\* A recorded outcome is never replaced, not by a recovery that classified the
\* attempt, not by a second token, not by a retry.
OutcomeIsFinal ==
    [][\A i \in DOMAIN intents :
          intents[i].state = "outcome_recorded" => intents'[i] = intents[i]]_vars

\* Attempts change only under the lock, by the claim that is current for the
\* authorization of every attempt that changes.
OnlyCurrentClaimWrites ==
    [][intents' # intents =>
          /\ lockHolder \in DOMAIN execs
          /\ auths[execs[lockHolder].auth].exec = lockHolder
          /\ \A i \in DOMAIN intents' :
                (i \notin DOMAIN intents \/ intents'[i] # intents[i])
                    => intents'[i].auth = execs[lockHolder].auth]_vars

\* Once an intent is armed it can be rechecked in memory: the flag of the
\* coordinator, which validate_in_memory_current_process tests, is set.
ArmedClaimIsFlagged ==
    \A f \in DOMAIN claims : claims[f].armed # 0 => active[claims[f].store]
=============================================================================
