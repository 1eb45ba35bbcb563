------------------------- MODULE AuditStore_proofs --------------------------
(***************************************************************************)
(* IInv is an invariant of AuditStore, the properties of AuditStore follow *)
(* from it, and the store implements AttemptLedger, for every value of the *)
(* constants.                                                              *)
(***************************************************************************)
EXTENDS AuditStoreInv, SequenceTheorems, FiniteSetTheorems, TLAPS

-----------------------------------------------------------------------------
(* Sequences of rows.                                                      *)

\* A row appended to a table gets the next index; the rows before it stay.
LEMMA AppendRow ==
    ASSUME NEW S, NEW rows \in Seq(S), NEW row \in S
    PROVE  /\ Append(rows, row) \in Seq(S)
           /\ Len(Append(rows, row)) = Len(rows) + 1
           /\ DOMAIN Append(rows, row) = 1..Len(rows) + 1
           /\ \A i \in DOMAIN rows : Append(rows, row)[i] = rows[i]
           /\ Append(rows, row)[Len(rows) + 1] = row
OBVIOUS

\* Replacing a row keeps the table and its indexes.
LEMMA ReplaceRow ==
    ASSUME NEW S, NEW rows \in Seq(S), NEW i \in DOMAIN rows, NEW row \in S
    PROVE  /\ [rows EXCEPT ![i] = row] \in Seq(S)
           /\ Len([rows EXCEPT ![i] = row]) = Len(rows)
           /\ DOMAIN [rows EXCEPT ![i] = row] = DOMAIN rows
BY ExceptSeq

\* A function that gives every index of a table a row is a table as long.
LEMMA MapRows ==
    ASSUME NEW S, NEW rows \in Seq(S), NEW next,
           next = [i \in DOMAIN rows |-> next[i]],
           \A i \in DOMAIN rows : next[i] \in S
    PROVE  next \in Seq(S) /\ Len(next) = Len(rows) /\ DOMAIN next = DOMAIN rows
<1>1. DOMAIN rows = 1..Len(rows) /\ Len(rows) \in Nat
  OBVIOUS
<1>2. next \in [1..Len(rows) -> S]
  BY <1>1
<1> QED
  BY <1>1, <1>2

-----------------------------------------------------------------------------
(* Type correctness.                                                       *)

\* One ClaimedExecution object, or what is left of it, for every execution row.
LEMMA FenceIndexes ==
    ASSUME TypeOK
    PROVE  /\ DOMAIN claims = DOMAIN execs
           /\ DOMAIN execs = 1..Len(execs)
           /\ Len(execs) \in Nat
           /\ 0 \notin DOMAIN execs
           /\ DOMAIN intents = 1..Len(intents)
           /\ Len(intents) \in Nat
           /\ \A f \in DOMAIN execs : execs[f] \in ExecRow /\ claims[f] \in ClaimObject
           /\ \A i \in DOMAIN intents : intents[i] \in IntentRow
<1>1. /\ execs \in Seq(ExecRow)
      /\ claims \in Seq(ClaimObject)
      /\ intents \in Seq(IntentRow)
      /\ Len(claims) = Len(execs)
  BY DEF TypeOK
<1> QED
  BY <1>1

\* A transaction leaves the tables equal to what the longer journal replays to.
LEMMA RegisterReplays ==
    ASSUME TypeOK, AuthRowsRefer, NEW s \in Stores, NEW a \in Auths, Register(s, a)
    PROVE  Verified'
<1>1. auths[a] = [state |-> "absent", fence |-> 0, exec |-> 0]
  BY DEF TypeOK, AuthRow, AuthRowsRefer, Register
<1>2. auths' = [auths EXCEPT ![a] = [state |-> "unused", fence |-> 0, exec |-> 0]]
  <2>1. [auths[a] EXCEPT !.state = "unused"]
          = [state |-> "unused", fence |-> 0, exec |-> 0]
    BY <1>1
  <2> QED
    BY <2>1 DEF Register
<1> QED
  BY <1>1, <1>2 DEF TypeOK, Register, Verified, AppendEvents, ReplayRegistered, session

\* replay_claim repeats what claim_session writes to the tables.
LEMMA ClaimReplays ==
    ASSUME TypeOK, AuthRowsRefer, NEW s \in Stores, NEW a \in Auths,
           NEW kind \in {"execution", "recovery"}, ClaimSession(s, a, kind)
    PROVE  Verified'
<1> DEFINE fence == Len(execs) + 1
           previous == IF kind = "recovery" THEN auths[a].exec ELSE 0
<1>1. kind = "recovery" => previous # 0 /\ previous \in DOMAIN execs
  BY DEF TypeOK, ClaimSession
<1>2. kind = "execution" => auths[a].state = "unused"
  BY DEF ClaimSession
<1>3. replay' = ReplayClaim(replay, a, kind, fence, previous)
  BY DEF ClaimSession, AppendEvents
<1>4. replay = [ok |-> TRUE, auths |-> auths, execs |-> execs, intents |-> intents]
  BY DEF ClaimSession, Verified
<1>5. SupersedeExecution(previous)
        = IF previous \in DOMAIN execs THEN [execs EXCEPT ![previous].state = "superseded"]
          ELSE execs
  <2>1. 0 \notin DOMAIN execs
    BY DEF TypeOK
  <2> QED
    BY <1>1, <2>1 DEF SupersedeExecution
<1>6. replay' = [ok |-> TRUE,
                 auths |-> [auths EXCEPT ![a] = [state |-> "claimed", fence |-> fence,
                                                 exec |-> fence]],
                 execs |-> Append(SupersedeExecution(previous),
                                  [auth |-> a, kind |-> kind, state |-> "active"]),
                 intents |-> intents]
  BY <1>1, <1>2, <1>3, <1>4, <1>5 DEF ReplayClaim
<1> QED
  BY <1>6 DEF ClaimSession, Verified

\* The replay of IntentReserved adds the row reserve_intent_once inserts.
LEMMA ReserveReplays ==
    ASSUME TypeOK, NEW s \in Stores, NEW f \in DOMAIN claims, NEW x \in Actions,
           NEW path \in Paths, ReserveIntent(s, f, x, path)
    PROVE  Verified'
BY DEF TypeOK, ReserveIntent, Verified, AppendEvents, ReplayIntent, IntentsOf

\* The replay of an outcome updates the row both outcome calls update.
LEMMA OutcomeReplays ==
    ASSUME TypeOK, NEW i \in DOMAIN intents, NEW outcome \in Outcomes, Verified,
           RecordRow(i, outcome), AppendEvents(1, ReplayOutcome(replay, i, outcome)),
           UNCHANGED <<auths, execs>>
    PROVE  Verified'
BY DEF TypeOK, Verified, RecordRow, AppendEvents, ReplayOutcome

\* The replay of a classification changes the attempts classify_recovery
\* changes, and no other.
LEMMA ClassifyReplays ==
    ASSUME TypeOK, ObserversBorrow, IdleObserversEmpty, NEW s \in Stores, ClassifyCommit(s)
    PROVE  Verified'
<1>1. observing[s].pending \subseteq DOMAIN intents
  BY DEF TypeOK, ObserversBorrow, IdleObserversEmpty, ObserverIdle, ClassifyCommit, IntentsOf
<1>2. PICK found \in [observing[s].pending -> Classified] :
        /\ intents' = [i \in DOMAIN intents |->
              IF i \in observing[s].pending
              THEN [intents[i] EXCEPT !.state = found[i], !.classed = found[i]]
              ELSE intents[i]]
        /\ replay' = ReplayClassified(replay, found)
  BY DEF ClassifyCommit, AppendEvents
<1>3. replay = [ok |-> TRUE, auths |-> auths, execs |-> execs, intents |-> intents]
  BY DEF ClassifyCommit, Verified
<1>4. replay' = [ok |-> TRUE, auths |-> auths, execs |-> execs, intents |-> intents']
  BY <1>1, <1>2, <1>3 DEF ReplayClassified
<1> QED
  BY <1>4 DEF ClassifyCommit, Verified

\* The replay of AuthorizationConsumed ends the execution consume_execution ends.
LEMMA ConsumeReplays ==
    ASSUME TypeOK, ActiveIsCurrent, NEW f \in DOMAIN claims, Verified, ConsumeRows(f)
    PROVE  Verified'
<1> DEFINE a == execs[f].auth
<1>1. f \in DOMAIN execs /\ a \in Auths
  BY FenceIndexes DEF ExecRow
<1>2. /\ auths[a] = [state |-> "claimed", fence |-> f, exec |-> f]
      /\ execs[f].state = "active"
  BY <1>1 DEF ConsumeRows, ActiveIsCurrent
<1>3. replay' = ReplayConsumed(replay, a, f)
  BY DEF ConsumeRows, AppendEvents
<1>4. replay = [ok |-> TRUE, auths |-> auths, execs |-> execs, intents |-> intents]
  BY DEF Verified
<1>5. replay' = [ok |-> TRUE,
                 auths |-> [auths EXCEPT ![a].state = "consumed", ![a].exec = 0],
                 execs |-> [execs EXCEPT ![f].state = "consumed"],
                 intents |-> intents]
  <2>1. /\ replay.ok
        /\ replay.auths[a].exec = f
        /\ replay.auths[a].fence = f
        /\ f \in DOMAIN replay.execs
    BY <1>1, <1>2, <1>4
  <2>2. /\ replay.auths = auths
        /\ replay.execs = execs
        /\ replay.intents = intents
    BY <1>4
  <2>3. replay' = [ok |-> TRUE,
                   auths |-> [replay.auths EXCEPT ![a].state = "consumed", ![a].exec = 0],
                   execs |-> [replay.execs EXCEPT ![f].state = "consumed"],
                   intents |-> replay.intents]
    BY <1>3, <1>4, <2>1 DEF ReplayConsumed
  <2> QED
    BY <2>2, <2>3
<1> QED
  BY <1>2, <1>5 DEF ConsumeRows, Verified

-----------------------------------------------------------------------------
(* What each transaction and each object operation changes, row by row.    *)

\* Superseding changes the state of at most one execution, never its owner.
LEMMA SupersedeEffect ==
    ASSUME TypeOK, NEW previous, previous # 0 => previous \in DOMAIN execs
    PROVE  LET before == SupersedeExecution(previous)
           IN /\ before \in Seq(ExecRow)
              /\ Len(before) = Len(execs)
              /\ DOMAIN before = DOMAIN execs
              /\ \A f \in DOMAIN execs :
                    /\ before[f].auth = execs[f].auth
                    /\ f # previous => before[f] = execs[f]
                    /\ f = previous => before[f].state = "superseded"
<1>1. execs \in Seq(ExecRow) /\ 0 \notin DOMAIN execs
  BY DEF TypeOK
<1>2. CASE previous = 0
  BY <1>1, <1>2 DEF SupersedeExecution
<1>3. CASE previous # 0
  <2> DEFINE row == [execs[previous] EXCEPT !.state = "superseded"]
  <2>1. previous \in DOMAIN execs /\ execs[previous] \in ExecRow
    BY <1>1, <1>3
  <2>2. /\ row \in ExecRow
        /\ row.auth = execs[previous].auth
        /\ row.state = "superseded"
    BY <2>1 DEF ExecRow, ExecStates
  <2>3. SupersedeExecution(previous) = [execs EXCEPT ![previous] = row]
    BY <1>3 DEF SupersedeExecution
  <2> HIDE DEF row
  <2>4. /\ [execs EXCEPT ![previous] = row] \in Seq(ExecRow)
        /\ Len([execs EXCEPT ![previous] = row]) = Len(execs)
        /\ DOMAIN [execs EXCEPT ![previous] = row] = DOMAIN execs
    BY <1>1, <2>1, <2>2, ReplaceRow
  <2> QED
    BY <2>2, <2>3, <2>4
<1> QED
  BY <1>2, <1>3

\* claim_session adds one active execution and makes it current.
LEMMA ClaimEffect ==
    ASSUME TypeOK, NEW s \in Stores, NEW a \in Auths,
           NEW kind \in {"execution", "recovery"}, ClaimSession(s, a, kind)
    PROVE  LET fence == Len(execs) + 1
               previous == IF kind = "recovery" THEN auths[a].exec ELSE 0
           IN /\ execs' \in Seq(ExecRow)
              /\ Len(execs') = fence
              /\ execs'[fence] = [auth |-> a, kind |-> kind, state |-> "active"]
              /\ \A f \in DOMAIN execs :
                    /\ execs'[f].auth = execs[f].auth
                    /\ f # previous => execs'[f] = execs[f]
                    /\ f = previous => execs'[f].state = "superseded"
              /\ auths' = [auths EXCEPT ![a] = [state |-> "claimed", fence |-> fence,
                                                exec |-> fence]]
<1> DEFINE fence == Len(execs) + 1
           previous == IF kind = "recovery" THEN auths[a].exec ELSE 0
           started == [auth |-> a, kind |-> kind, state |-> "active"]
           before == SupersedeExecution(previous)
<1>1. execs \in Seq(ExecRow) /\ started \in ExecRow
  BY DEF TypeOK, ExecRow, ExecStates
<1>2. previous # 0 => previous \in DOMAIN execs
  BY DEF ClaimSession
<1>3. /\ before \in Seq(ExecRow)
      /\ Len(before) = Len(execs)
      /\ DOMAIN before = DOMAIN execs
      /\ \A f \in DOMAIN execs :
            /\ before[f].auth = execs[f].auth
            /\ f # previous => before[f] = execs[f]
            /\ f = previous => before[f].state = "superseded"
  BY <1>2, SupersedeEffect
<1>4. execs' = Append(before, started)
  BY DEF ClaimSession
<1>5. auths' = [auths EXCEPT ![a] = [state |-> "claimed", fence |-> fence, exec |-> fence]]
  BY DEF ClaimSession
<1> HIDE DEF started, before
<1>6. /\ execs' \in Seq(ExecRow)
      /\ Len(execs') = fence
      /\ execs'[fence] = started
      /\ \A f \in DOMAIN execs : execs'[f] = before[f]
  BY <1>1, <1>3, <1>4, AppendRow
<1> QED
  BY <1>3, <1>5, <1>6 DEF started

\* The object is published, or the caller got an error and the lock is free.
LEMMA PublishEffect ==
    ASSUME TypeOK, NEW s \in Stores, NEW a \in Auths, NEW kind, ClaimSession(s, a, kind),
           NEW object, object = [NoClaim EXCEPT !.state = "live", !.store = s]
    PROVE  /\ claims' \in Seq(ClaimObject)
           /\ Len(claims') = Len(execs) + 1
           /\ \A f \in DOMAIN claims : claims'[f] = claims[f]
           /\ \/ /\ claims'[Len(execs) + 1] = object
                 /\ lockHolder' = Len(execs) + 1
                 /\ active' = [active EXCEPT ![s] = TRUE]
              \/ claims'[Len(execs) + 1] = NoClaim /\ UNCHANGED <<lockHolder, active>>
<1>1. claims \in Seq(ClaimObject) /\ Len(claims) = Len(execs)
  BY DEF TypeOK
<1>2. NoClaim \in ClaimObject /\ object \in ClaimObject
  BY DEF NoClaim, ClaimObject, ClaimStates
<1>3. \/ /\ claims' = Append(claims, object)
         /\ lockHolder' = Len(execs) + 1
         /\ active' = [active EXCEPT ![s] = TRUE]
      \/ claims' = Append(claims, NoClaim) /\ UNCHANGED <<lockHolder, active>>
  BY DEF ClaimSession
<1>4. CASE claims' = Append(claims, object)
  BY <1>1, <1>2, <1>3, <1>4, AppendRow
<1>5. CASE claims' = Append(claims, NoClaim)
  BY <1>1, <1>2, <1>3, <1>5, AppendRow
<1> QED
  BY <1>3, <1>4, <1>5

\* reserve_intent_once adds one reserved attempt under the fence of the claim.
LEMMA ReserveEffect ==
    ASSUME TypeOK, NEW s \in Stores, NEW f \in DOMAIN claims, NEW x \in Actions,
           NEW path \in Paths, ReserveIntent(s, f, x, path)
    PROVE  LET i == Len(intents) + 1
           IN /\ intents' \in Seq(IntentRow)
              /\ Len(intents') = i
              /\ intents'[i] = [auth |-> execs[f].auth, action |-> x, path |-> path,
                                fence |-> f, state |-> "reserved",
                                recorded |-> NoOutcome, classed |-> "none"]
              /\ \A j \in DOMAIN intents : intents'[j] = intents[j]
<1>1. intents \in Seq(IntentRow) /\ f \in Nat /\ execs[f].auth \in Auths
  <2>1. f \in DOMAIN execs /\ f \in Nat /\ execs[f] \in ExecRow
    BY FenceIndexes
  <2> QED
    BY <2>1 DEF TypeOK, ExecRow
<1>2. [auth |-> execs[f].auth, action |-> x, path |-> path, fence |-> f,
       state |-> "reserved", recorded |-> NoOutcome, classed |-> "none"] \in IntentRow
  BY <1>1 DEF IntentRow, IntentStates
<1>3. intents' = Append(intents, [auth |-> execs[f].auth, action |-> x, path |-> path,
                                  fence |-> f, state |-> "reserved",
                                  recorded |-> NoOutcome, classed |-> "none"])
  BY DEF ReserveIntent
<1> QED
  BY <1>1, <1>2, <1>3, AppendRow

\* Recording an outcome changes the row of one attempt.
LEMMA OutcomeEffect ==
    ASSUME TypeOK, NEW i \in DOMAIN intents, NEW outcome \in Outcomes,
           RecordRow(i, outcome)
    PROVE  /\ intents' \in Seq(IntentRow)
           /\ Len(intents') = Len(intents)
           /\ DOMAIN intents' = DOMAIN intents
           /\ intents'[i] = [intents[i] EXCEPT !.state = "outcome_recorded",
                                               !.recorded = outcome,
                                               !.classed = "none"]
           /\ \A j \in DOMAIN intents \ {i} : intents'[j] = intents[j]
<1> DEFINE row == [intents[i] EXCEPT !.state = "outcome_recorded",
                                     !.recorded = outcome, !.classed = "none"]
<1>1. intents \in Seq(IntentRow) /\ intents[i] \in IntentRow
  BY DEF TypeOK
<1>2. row \in IntentRow
  BY <1>1 DEF IntentRow, IntentStates
<1>3. intents' = [intents EXCEPT ![i] = row]
  BY DEF RecordRow
<1> QED
  BY <1>1, <1>2, <1>3, ReplaceRow

\* A classification changes attempts that were reserved, and no other.
LEMMA ClassifyEffect ==
    ASSUME TypeOK, NEW s \in Stores, ClassifyCommit(s)
    PROVE  LET pending == observing[s].pending
           IN /\ intents' \in Seq(IntentRow)
              /\ Len(intents') = Len(intents)
              /\ DOMAIN intents' = DOMAIN intents
              /\ \A i \in DOMAIN intents \ pending : intents'[i] = intents[i]
              /\ \A i \in DOMAIN intents \cap pending : \E state \in Classified :
                    /\ intents[i].state = "reserved"
                    /\ intents'[i] = [intents[i] EXCEPT !.state = state, !.classed = state]
<1> DEFINE pending == observing[s].pending
<1>1. intents \in Seq(IntentRow) /\ \A i \in DOMAIN intents : intents[i] \in IntentRow
  BY DEF TypeOK
<1>2. PICK found \in [pending -> Classified] :
        intents' = [i \in DOMAIN intents |->
              IF i \in pending
              THEN [intents[i] EXCEPT !.state = found[i], !.classed = found[i]]
              ELSE intents[i]]
  BY DEF ClassifyCommit
<1>3. \A i \in DOMAIN intents : intents'[i] \in IntentRow
  <2> SUFFICES ASSUME NEW i \in DOMAIN intents PROVE intents'[i] \in IntentRow
    OBVIOUS
  <2>1. CASE i \in pending
    <3>1. found[i] \in Classified
      BY <2>1
    <3> QED
      BY <1>1, <1>2, <2>1, <3>1 DEF IntentRow, IntentStates
  <2> QED
    BY <1>1, <1>2, <2>1
<1>4. intents' \in Seq(IntentRow) /\ Len(intents') = Len(intents) /\ DOMAIN intents' = DOMAIN intents
  <2>1. intents' = [i \in DOMAIN intents |-> intents'[i]]
    BY <1>2
  <2> QED
    BY <1>1, <1>3, <2>1, MapRows
<1> QED
  BY <1>2, <1>4 DEF ClassifyCommit, AllStillReserved

-----------------------------------------------------------------------------
(* The tables: each transaction preserves DurableInv.                      *)

\* Steps that leave the tables alone keep the facts about them.
LEMMA DurableUnchanged ==
    ASSUME DurableInv, UNCHANGED <<auths, execs, intents>>
    PROVE  DurableInv'
<1>1. AuthRowsRefer' /\ ActiveIsCurrent'
  BY DEF DurableInv, AuthRowsRefer, ActiveIsCurrent
<1>2. IntentRowsRefer' /\ OutcomeRowsMatch' /\ OneAttemptPerAction' /\ UnsettledIsClaimed'
  BY DEF DurableInv, IntentRowsRefer, OutcomeRowsMatch, OneAttemptPerAction, UnsettledIsClaimed
<1>3. HotPathExclusive'
  BY DEF DurableInv, HotPathExclusive, Hot
<1> QED
  BY <1>1, <1>2, <1>3 DEF DurableInv

\* register_authorization keeps the facts about the tables.
LEMMA RegisterDurable ==
    ASSUME TypeOK, DurableInv, NEW s \in Stores, NEW a \in Auths, Register(s, a)
    PROVE  DurableInv'
<1>1. /\ auths[a].state = "absent"
      /\ auths' = [auths EXCEPT ![a].state = "unused"]
      /\ UNCHANGED <<execs, intents>>
  BY DEF Register
<1>2. \A b \in Auths : /\ auths'[b].fence = auths[b].fence
                       /\ auths'[b].exec = auths[b].exec
                       /\ auths'[b].state = IF b = a THEN "unused" ELSE auths[b].state
  BY <1>1 DEF TypeOK, AuthRow
<1>3. AuthRowsRefer'
  BY <1>1, <1>2 DEF DurableInv, AuthRowsRefer
<1>4. ActiveIsCurrent'
  <2> SUFFICES ASSUME NEW f \in DOMAIN execs
               PROVE (execs[f].state = "active" <=>
                        auths'[execs[f].auth] = [state |-> "claimed", fence |-> f, exec |-> f])
    BY <1>1 DEF ActiveIsCurrent
  <2>1. execs[f].auth \in Auths
    BY FenceIndexes DEF ExecRow
  <2>2. CASE execs[f].auth = a
    BY <1>1, <1>2, <2>1, <2>2 DEF DurableInv, ActiveIsCurrent
  <2>3. CASE execs[f].auth # a
    BY <1>1, <2>1, <2>3 DEF DurableInv, ActiveIsCurrent, TypeOK
  <2> QED
    BY <2>2, <2>3
<1>5. IntentRowsRefer' /\ OutcomeRowsMatch' /\ OneAttemptPerAction'
  BY <1>1 DEF DurableInv, IntentRowsRefer, OutcomeRowsMatch, OneAttemptPerAction
<1>6. UnsettledIsClaimed'
  <2> SUFFICES ASSUME NEW i \in DOMAIN intents, intents[i].state # "outcome_recorded"
               PROVE  auths'[intents[i].auth].state = "claimed"
    BY <1>1 DEF UnsettledIsClaimed
  <2>1. intents[i].auth \in Auths /\ auths[intents[i].auth].state = "claimed"
    BY FenceIndexes DEF DurableInv, UnsettledIsClaimed, IntentRow
  <2> QED
    BY <1>1, <1>2, <2>1
<1>7. HotPathExclusive'
  BY <1>1 DEF DurableInv, HotPathExclusive, Hot
<1> QED
  BY <1>3, <1>4, <1>5, <1>6, <1>7 DEF DurableInv

\* claim_session keeps the facts about the tables: the new execution is the
\* only active one of its authorization.
LEMMA ClaimDurable ==
    ASSUME TypeOK, DurableInv, NEW s \in Stores, NEW a \in Auths,
           NEW kind \in {"execution", "recovery"}, ClaimSession(s, a, kind)
    PROVE  DurableInv'
<1> DEFINE fence == Len(execs) + 1
           previous == IF kind = "recovery" THEN auths[a].exec ELSE 0
<1>1. /\ Len(execs') = fence
      /\ execs' \in Seq(ExecRow)
      /\ execs'[fence] = [auth |-> a, kind |-> kind, state |-> "active"]
      /\ \A f \in DOMAIN execs :
            /\ execs'[f].auth = execs[f].auth
            /\ f # previous => execs'[f] = execs[f]
            /\ f = previous => execs'[f].state = "superseded"
  BY ClaimEffect
<1>2. /\ auths' = [auths EXCEPT ![a] = [state |-> "claimed", fence |-> fence, exec |-> fence]]
      /\ intents' = intents
      /\ auths[a].state = IF kind = "recovery" THEN "claimed" ELSE "unused"
  BY DEF ClaimSession
<1>3. /\ Len(execs) \in Nat
      /\ DOMAIN execs = 1..Len(execs)
      /\ DOMAIN execs' = 1..fence
      /\ fence \notin DOMAIN execs
      /\ \A f \in DOMAIN execs : execs[f].auth \in Auths
      /\ \A i \in DOMAIN intents : intents[i] \in IntentRow
  <2>1. /\ Len(execs) \in Nat
        /\ DOMAIN execs = 1..Len(execs)
        /\ \A f \in DOMAIN execs : execs[f] \in ExecRow
        /\ \A i \in DOMAIN intents : intents[i] \in IntentRow
    BY FenceIndexes
  <2>2. DOMAIN execs' = 1..fence
    BY <1>1
  <2> QED
    BY <2>1, <2>2 DEF ExecRow
<1>4. \A b \in Auths \ {a} : auths'[b] = auths[b]
  BY <1>2 DEF TypeOK
<1>5. auths'[a] = [state |-> "claimed", fence |-> fence, exec |-> fence]
  BY <1>2 DEF TypeOK
<1> HIDE DEF fence, previous
<1>6. AuthRowsRefer'
  <2> SUFFICES ASSUME NEW b \in Auths
               PROVE  /\ auths'[b].fence \in 0..Len(execs')
                      /\ auths'[b].exec = IF auths'[b].state = "claimed" THEN auths'[b].fence
                                                                         ELSE 0
                      /\ auths'[b].state \in {"claimed", "consumed"} <=> auths'[b].fence # 0
                      /\ auths'[b].fence # 0 => execs'[auths'[b].fence].auth = b
    BY DEF AuthRowsRefer
  <2>1. CASE b = a
    BY <1>1, <1>3, <1>5, <2>1 DEF fence
  <2>2. CASE b # a
    <3>1. /\ auths[b].fence \in 0..Len(execs)
          /\ auths[b].exec = IF auths[b].state = "claimed" THEN auths[b].fence ELSE 0
          /\ auths[b].state \in {"claimed", "consumed"} <=> auths[b].fence # 0
          /\ auths[b].fence # 0 => execs[auths[b].fence].auth = b
      BY DEF DurableInv, AuthRowsRefer
    <3>2. auths[b].fence # 0 => auths[b].fence \in DOMAIN execs
      BY <1>3, <3>1
    <3>3. auths[b].fence \in 0..Len(execs')
      BY <1>1, <1>3, <3>1 DEF fence
    <3> QED
      BY <1>1, <1>4, <2>2, <3>1, <3>2, <3>3
  <2> QED
    BY <2>1, <2>2
<1>7. ActiveIsCurrent'
  <2> SUFFICES ASSUME NEW f \in DOMAIN execs'
               PROVE (execs'[f].state = "active" <=>
                        auths'[execs'[f].auth] = [state |-> "claimed", fence |-> f, exec |-> f])
    BY DEF ActiveIsCurrent
  <2>1. CASE f = fence
    BY <1>1, <1>5, <2>1
  <2>2. CASE f \in DOMAIN execs /\ execs[f].auth # a
    <3>1. execs[f].state = "active" <=>
             auths[execs[f].auth] = [state |-> "claimed", fence |-> f, exec |-> f]
      BY <2>2 DEF DurableInv, ActiveIsCurrent
    <3>2. f # previous
      <4> SUFFICES ASSUME f = previous PROVE FALSE
        OBVIOUS
      <4>1. previous = auths[a].fence /\ previous # 0
        BY <1>2, <1>3, <2>2 DEF DurableInv, AuthRowsRefer, previous
      <4> QED
        BY <2>2, <4>1 DEF DurableInv, AuthRowsRefer
    <3> QED
      BY <1>1, <1>3, <1>4, <2>2, <3>1, <3>2
  <2>3. CASE f \in DOMAIN execs /\ execs[f].auth = a
    <3>1. auths'[execs'[f].auth] # [state |-> "claimed", fence |-> f, exec |-> f]
      BY <1>1, <1>3, <1>5, <2>3
    <3>2. execs'[f].state # "active"
      <4>1. CASE f = previous
        BY <1>1, <2>3, <4>1
      <4>2. CASE f # previous
        <5>1. execs'[f] = execs[f]
          BY <1>1, <2>3, <4>2
        <5>2. auths[a] # [state |-> "claimed", fence |-> f, exec |-> f]
          BY <1>2, <4>2 DEF previous
        <5> QED
          BY <2>3, <5>1, <5>2 DEF DurableInv, ActiveIsCurrent
      <4> QED
        BY <4>1, <4>2
    <3> QED
      BY <3>1, <3>2
  <2> QED
    BY <1>3, <2>1, <2>2, <2>3 DEF fence
<1>8. IntentRowsRefer'
  BY <1>1, <1>2, <1>3 DEF DurableInv, IntentRowsRefer, fence
<1>9. OutcomeRowsMatch' /\ OneAttemptPerAction'
  BY <1>2 DEF DurableInv, OutcomeRowsMatch, OneAttemptPerAction
<1>10. UnsettledIsClaimed'
  BY <1>2, <1>3, <1>4, <1>5 DEF DurableInv, UnsettledIsClaimed, IntentRow
<1>11. HotPathExclusive'
  BY <1>2 DEF DurableInv, HotPathExclusive, Hot
<1> QED
  BY <1>6, <1>7, <1>8, <1>9, <1>10, <1>11 DEF DurableInv

\* reserve_intent_once keeps the facts about the tables: the path is free.
LEMMA ReserveDurable ==
    ASSUME TypeOK, DurableInv, NEW s \in Stores, NEW f \in DOMAIN claims,
           NEW x \in Actions, NEW path \in Paths, ReserveIntent(s, f, x, path)
    PROVE  DurableInv'
<1> DEFINE new == Len(intents) + 1
           a == execs[f].auth
<1>1. /\ intents' \in Seq(IntentRow)
      /\ Len(intents') = new
      /\ intents'[new] = [auth |-> a, action |-> x, path |-> path,
                          fence |-> f, state |-> "reserved",
                          recorded |-> NoOutcome, classed |-> "none"]
      /\ \A j \in DOMAIN intents : intents'[j] = intents[j]
  BY ReserveEffect
<1>2. /\ UNCHANGED <<auths, execs>>
      /\ auths[a] = [state |-> "claimed", fence |-> f, exec |-> f]
      /\ \A i \in DOMAIN intents : intents[i].auth = a => intents[i].action # x
      /\ PathFree(a, path)
  BY DEF ReserveIntent, LiveClaimValid, IntentsOf
<1>3. /\ DOMAIN intents = 1..Len(intents)
      /\ DOMAIN intents' = 1..new
      /\ Len(intents) \in Nat
      /\ f \in DOMAIN execs
  BY <1>1, FenceIndexes
<1>4. \A i \in DOMAIN intents' : i \in DOMAIN intents \/ i = new
  BY <1>3
<1>5. AuthRowsRefer' /\ ActiveIsCurrent'
  BY <1>2 DEF DurableInv, AuthRowsRefer, ActiveIsCurrent
<1> HIDE DEF new, a
<1>6. IntentRowsRefer'
  BY <1>1, <1>2, <1>3, <1>4 DEF DurableInv, IntentRowsRefer, a
<1>7. OutcomeRowsMatch'
  BY <1>1, <1>4 DEF DurableInv, OutcomeRowsMatch
<1>8. OneAttemptPerAction'
  BY <1>1, <1>2, <1>4 DEF DurableInv, OneAttemptPerAction
<1>9. UnsettledIsClaimed'
  BY <1>1, <1>2, <1>4 DEF DurableInv, UnsettledIsClaimed
<1>10. HotPathExclusive'
  <2> SUFFICES ASSUME NEW i \in DOMAIN intents', NEW j \in DOMAIN intents',
                      Hot(i)', Hot(j)', intents'[i].path = intents'[j].path
               PROVE  intents'[i].auth = intents'[j].auth
    BY DEF HotPathExclusive
  <2>1. CASE i \in DOMAIN intents /\ j \in DOMAIN intents
    BY <1>1, <2>1 DEF DurableInv, HotPathExclusive, Hot
  <2>2. CASE i \in DOMAIN intents /\ j = new
    BY <1>1, <1>2, <2>2 DEF PathFree, Hot
  <2>3. CASE i = new /\ j \in DOMAIN intents
    BY <1>1, <1>2, <2>3 DEF PathFree, Hot
  <2>4. CASE i = new /\ j = new
    BY <2>4
  <2> QED
    BY <1>4, <2>1, <2>2, <2>3, <2>4
<1> QED
  BY <1>5, <1>6, <1>7, <1>8, <1>9, <1>10 DEF DurableInv

\* A rewrite of intents that settles or classifies rows but moves none.
LEMMA RewriteDurable ==
    ASSUME TypeOK, DurableInv, UNCHANGED <<auths, execs>>,
           DOMAIN intents' = DOMAIN intents,
           \A i \in DOMAIN intents :
              \/ intents'[i] = intents[i]
              \/ /\ intents'[i].auth = intents[i].auth
                 /\ intents'[i].action = intents[i].action
                 /\ intents'[i].path = intents[i].path
                 /\ intents'[i].fence = intents[i].fence
                 /\ intents[i].state # "outcome_recorded"
                 /\ intents'[i].state = "outcome_recorded"
                        <=> intents'[i].recorded # NoOutcome
                 /\ Hot(i)' => Hot(i)
    PROVE  DurableInv'
<1>1. AuthRowsRefer' /\ ActiveIsCurrent'
  BY DEF DurableInv, AuthRowsRefer, ActiveIsCurrent
<1>2. IntentRowsRefer'
  BY DEF DurableInv, IntentRowsRefer
<1>3. OutcomeRowsMatch'
  BY DEF DurableInv, OutcomeRowsMatch
<1>4. OneAttemptPerAction'
  BY DEF DurableInv, OneAttemptPerAction
<1>5. UnsettledIsClaimed'
  BY DEF DurableInv, UnsettledIsClaimed
<1>6. HotPathExclusive'
  BY DEF DurableInv, HotPathExclusive, Hot
<1> QED
  BY <1>1, <1>2, <1>3, <1>4, <1>5, <1>6 DEF DurableInv

\* Recording an outcome keeps the facts about the tables.
LEMMA OutcomeDurable ==
    ASSUME TypeOK, DurableInv, NEW i \in DOMAIN intents, NEW outcome \in Outcomes,
           intents[i].state # "outcome_recorded", RecordRow(i, outcome),
           UNCHANGED <<auths, execs>>
    PROVE  DurableInv'
<1>1. /\ DOMAIN intents' = DOMAIN intents
      /\ intents'[i] = [intents[i] EXCEPT !.state = "outcome_recorded",
                                          !.recorded = outcome,
                                          !.classed = "none"]
      /\ \A j \in DOMAIN intents \ {i} : intents'[j] = intents[j]
  BY OutcomeEffect
<1>2. intents[i] \in IntentRow /\ outcome # NoOutcome
  BY FenceIndexes, AuditStoreAssumption
<1>3. /\ intents'[i].auth = intents[i].auth
      /\ intents'[i].action = intents[i].action
      /\ intents'[i].path = intents[i].path
      /\ intents'[i].fence = intents[i].fence
      /\ intents'[i].state = "outcome_recorded"
      /\ intents'[i].recorded # NoOutcome
  BY <1>1, <1>2 DEF IntentRow
<1>4. ~Hot(i)'
  BY <1>3 DEF Hot
<1> QED
  BY <1>1, <1>3, <1>4, RewriteDurable

\* classify_recovery keeps the facts about the tables.
LEMMA ClassifyDurable ==
    ASSUME TypeOK, DurableInv, NEW s \in Stores, ClassifyCommit(s)
    PROVE  DurableInv'
<1> DEFINE pending == observing[s].pending
<1>1. /\ DOMAIN intents' = DOMAIN intents
      /\ \A i \in DOMAIN intents \ pending : intents'[i] = intents[i]
      /\ \A i \in DOMAIN intents \cap pending : \E state \in Classified :
            /\ intents[i].state = "reserved"
            /\ intents'[i] = [intents[i] EXCEPT !.state = state, !.classed = state]
  BY ClassifyEffect
<1>2. UNCHANGED <<auths, execs>>
  BY DEF ClassifyCommit
<1>3. ASSUME NEW i \in DOMAIN intents \cap pending
      PROVE  /\ intents'[i].auth = intents[i].auth
             /\ intents'[i].action = intents[i].action
             /\ intents'[i].path = intents[i].path
             /\ intents'[i].fence = intents[i].fence
             /\ intents[i].state # "outcome_recorded"
             /\ intents'[i].state = "outcome_recorded" <=> intents'[i].recorded # NoOutcome
             /\ Hot(i)' => Hot(i)
  <2>1. PICK state \in Classified :
            /\ intents[i].state = "reserved"
            /\ intents'[i] = [intents[i] EXCEPT !.state = state, !.classed = state]
    BY <1>1
  <2>2. intents[i] \in IntentRow /\ intents[i].recorded = NoOutcome
    BY <2>1, FenceIndexes DEF DurableInv, OutcomeRowsMatch
  <2> QED
    BY <2>1, <2>2 DEF IntentRow, Classified, Hot
<1> QED
  BY <1>1, <1>2, <1>3, RewriteDurable

\* consume_execution keeps the facts about the tables: nothing is unsettled.
LEMMA ConsumeDurable ==
    ASSUME TypeOK, DurableInv, NEW f \in DOMAIN claims, ConsumeRows(f)
    PROVE  DurableInv'
<1> DEFINE a == execs[f].auth
<1>1. /\ f \in DOMAIN execs
      /\ f # 0
      /\ execs \in Seq(ExecRow)
      /\ \A g \in DOMAIN execs : execs[g] \in ExecRow /\ execs[g].auth \in Auths
      /\ \A i \in DOMAIN intents : intents[i].auth \in Auths
  BY FenceIndexes DEF TypeOK, ExecRow, IntentRow
<1>2. /\ auths[a] = [state |-> "claimed", fence |-> f, exec |-> f]
      /\ auths' = [auths EXCEPT ![a].state = "consumed", ![a].exec = 0]
      /\ \A i \in DOMAIN intents : intents[i].auth = a => intents[i].state = "outcome_recorded"
      /\ UNCHANGED intents
  BY DEF ConsumeRows, Unresolved, IntentsOf
<1>3. execs' = [execs EXCEPT ![f].state = "consumed"]
  BY <1>1, <1>2 DEF ConsumeRows, DurableInv, ActiveIsCurrent
<1>4. /\ DOMAIN execs' = DOMAIN execs
      /\ Len(execs') = Len(execs)
      /\ \A g \in DOMAIN execs : /\ execs'[g].auth = execs[g].auth
                                 /\ execs'[g].state = IF g = f THEN "consumed"
                                                               ELSE execs[g].state
  <2>1. [execs[f] EXCEPT !.state = "consumed"] \in ExecRow
    BY <1>1 DEF ExecRow, ExecStates
  <2>2. Len(execs') = Len(execs) /\ DOMAIN execs' = DOMAIN execs
    BY <1>1, <1>3, <2>1, ReplaceRow
  <2> QED
    BY <1>1, <1>3, <2>2 DEF ExecRow
<1>5. \A b \in Auths : IF b = a
                       THEN auths'[b] = [state |-> "consumed", fence |-> f, exec |-> 0]
                       ELSE auths'[b] = auths[b]
  BY <1>1, <1>2 DEF TypeOK
<1> HIDE DEF a
<1>6. AuthRowsRefer'
  <2>1. \A b \in Auths : auths[b].fence # 0 => auths[b].fence \in DOMAIN execs
    BY FenceIndexes DEF DurableInv, AuthRowsRefer
  <2>2. f \in 0..Len(execs) /\ execs'[f].auth = a /\ f # 0
    BY <1>1, <1>4, FenceIndexes DEF a
  <2>3. ASSUME NEW b \in Auths, b # a
        PROVE  /\ auths'[b].fence \in 0..Len(execs')
               /\ auths'[b].exec = IF auths'[b].state = "claimed" THEN auths'[b].fence ELSE 0
               /\ auths'[b].state \in {"claimed", "consumed"} <=> auths'[b].fence # 0
               /\ auths'[b].fence # 0 => execs'[auths'[b].fence].auth = b
    BY <1>4, <1>5, <2>1, <2>3 DEF DurableInv, AuthRowsRefer
  <2>4. /\ auths'[a].fence \in 0..Len(execs')
        /\ auths'[a].exec = IF auths'[a].state = "claimed" THEN auths'[a].fence ELSE 0
        /\ auths'[a].state \in {"claimed", "consumed"} <=> auths'[a].fence # 0
        /\ auths'[a].fence # 0 => execs'[auths'[a].fence].auth = a
    BY <1>1, <1>4, <1>5, <2>2 DEF a
  <2> QED
    BY <2>3, <2>4 DEF AuthRowsRefer
<1>7. ActiveIsCurrent'
  <2> SUFFICES ASSUME NEW g \in DOMAIN execs
               PROVE (execs'[g].state = "active" <=>
                        auths'[execs[g].auth] = [state |-> "claimed", fence |-> g, exec |-> g])
    BY <1>4 DEF ActiveIsCurrent
  <2>1. CASE g = f
    BY <1>4, <1>5, <1>1, <2>1 DEF a
  <2>2. CASE g # f /\ execs[g].auth = a
    <3>1. auths[a] # [state |-> "claimed", fence |-> g, exec |-> g]
      BY <1>2, <2>2 DEF a
    <3>2. execs[g].state # "active"
      BY <2>2, <3>1 DEF DurableInv, ActiveIsCurrent
    <3>3. auths'[a] # [state |-> "claimed", fence |-> g, exec |-> g]
      BY <1>1, <1>5 DEF a
    <3> QED
      BY <1>4, <2>2, <3>2, <3>3
  <2>3. CASE execs[g].auth # a
    BY <1>1, <1>4, <1>5, <2>3 DEF DurableInv, ActiveIsCurrent, a
  <2> QED
    BY <2>1, <2>2, <2>3
<1>8. IntentRowsRefer' /\ OutcomeRowsMatch' /\ OneAttemptPerAction'
  BY <1>2, <1>4 DEF DurableInv, IntentRowsRefer, OutcomeRowsMatch, OneAttemptPerAction
<1>9. UnsettledIsClaimed'
  BY <1>1, <1>2, <1>5, ZenonT(60) DEF DurableInv, UnsettledIsClaimed
<1>10. HotPathExclusive'
  BY <1>2 DEF DurableInv, HotPathExclusive, Hot
<1> QED
  BY <1>6, <1>7, <1>8, <1>9, <1>10 DEF DurableInv

-----------------------------------------------------------------------------
(* The objects: each step preserves TypeOK and SessionInv.                 *)

\* The journal replays to tables of the right types when it replays to these.
LEMMA StepTypes ==
    ASSUME TypeOK, auths' \in [Auths -> AuthRow], execs' \in Seq(ExecRow),
           intents' \in Seq(IntentRow), Verified', events' \in Nat, lockHolder' \in Nat,
           claims' \in Seq(ClaimObject), Len(claims') = Len(execs'),
           active' \in [Stores -> BOOLEAN],
           observing' \in [Stores -> [claim : Nat, pending : SUBSET Nat]]
    PROVE  TypeOK'
<1>1. replay' \in Projection
  BY DEF Verified, Projection
<1> QED
  BY <1>1 DEF TypeOK

\* A step of the objects only cannot change what the tables replay to.
LEMMA ObjectStepTypes ==
    ASSUME TypeOK, UNCHANGED durable, lockHolder' \in Nat,
           claims' \in Seq(ClaimObject), Len(claims') = Len(claims),
           active' \in [Stores -> BOOLEAN],
           observing' \in [Stores -> [claim : Nat, pending : SUBSET Nat]]
    PROVE  TypeOK'
BY DEF TypeOK, durable

\* A live claim holds the lock, and no other claim is live or armed.
LEMMA OnlyLiveClaim ==
    ASSUME TypeOK, SessionInv, NEW f \in DOMAIN claims, claims[f].state = "live"
    PROVE  /\ lockHolder = f
           /\ \A g \in DOMAIN claims : g # f => claims[g].state # "live" /\ claims[g].armed = 0
BY DEF SessionInv, FencesKnown, LockIsLiveClaim

\* While the lock is free no claim is live or armed.
LEMMA NoLiveClaim ==
    ASSUME TypeOK, SessionInv, LockFree
    PROVE  \A g \in DOMAIN claims : claims[g].state # "live" /\ claims[g].armed = 0
<1>1. 0 \notin DOMAIN claims
  BY FenceIndexes
<1> QED
  BY <1>1 DEF SessionInv, FencesKnown, LockIsLiveClaim, LockFree

\* Replacing one ClaimedExecution leaves the others alone.
LEMMA ObjectEffect ==
    ASSUME TypeOK, NEW f \in DOMAIN claims, NEW object \in ClaimObject,
           claims' = [claims EXCEPT ![f] = object]
    PROVE  /\ claims' \in Seq(ClaimObject)
           /\ Len(claims') = Len(claims)
           /\ DOMAIN claims' = DOMAIN claims
           /\ claims'[f] = object
           /\ \A g \in DOMAIN claims \ {f} : claims'[g] = claims[g]
<1>1. claims \in Seq(ClaimObject)
  BY DEF TypeOK
<1> QED
  BY <1>1, ReplaceRow

\* Steps that change the tables of a claim that is not armed, and no object.
LEMMA TableStepSession ==
    ASSUME TypeOK, SessionInv, UNCHANGED session, UNCHANGED <<auths, execs>>,
           DOMAIN intents' = DOMAIN intents,
           \A i \in DOMAIN intents : intents'[i].auth = intents[i].auth,
           \A f \in DOMAIN claims : claims[f].armed = 0
    PROVE  SessionInv'
<1>1. FencesKnown' /\ LockIsLiveClaim' /\ LiveClaimIsCurrent' /\ IdleObserversEmpty'
  BY DEF SessionInv, FencesKnown, LockIsLiveClaim, LiveClaimIsCurrent, IdleObserversEmpty, session
<1>2. ArmedIsReserved'
  BY DEF ArmedIsReserved, session
<1>3. ObserversBorrow'
  BY DEF SessionInv, ObserversBorrow, IntentsOf, session
<1> QED
  BY <1>1, <1>2, <1>3 DEF SessionInv

\* register_authorization keeps types and the facts about the claims.
LEMMA RegisterSession ==
    ASSUME IInv, NEW s \in Stores, NEW a \in Auths, Register(s, a)
    PROVE  TypeOK' /\ SessionInv'
<1>1. TypeOK /\ SessionInv /\ DurableInv
  BY DEF IInv
<1>2. /\ auths' = [auths EXCEPT ![a].state = "unused"]
      /\ UNCHANGED <<execs, intents, lockHolder, claims, active, observing>>
      /\ LockFree
      /\ events' \in Nat
  BY <1>1 DEF Register, session, AppendEvents, TypeOK
<1>3. Verified'
  BY <1>1, RegisterReplays DEF DurableInv
<1>4. auths' \in [Auths -> AuthRow]
  BY <1>1, <1>2 DEF TypeOK, AuthRow, AuthStates
<1>5. TypeOK'
  BY <1>1, <1>2, <1>3, <1>4, StepTypes DEF TypeOK
<1>6. \A g \in DOMAIN claims : claims[g].state # "live" /\ claims[g].armed = 0
  BY <1>1, <1>2, NoLiveClaim
<1>7. FencesKnown' /\ LockIsLiveClaim' /\ IdleObserversEmpty'
  BY <1>1, <1>2 DEF SessionInv, FencesKnown, LockIsLiveClaim, IdleObserversEmpty
<1>8. LiveClaimIsCurrent' /\ ArmedIsReserved'
  BY <1>2, <1>6 DEF LiveClaimIsCurrent, ArmedIsReserved
<1>9. ObserversBorrow'
  BY <1>1, <1>2 DEF SessionInv, ObserversBorrow, IntentsOf
<1> QED
  BY <1>5, <1>7, <1>8, <1>9 DEF SessionInv

\* claim_session keeps types and the facts about the claims: it runs only while
\* no claim is live.
LEMMA ClaimSessionSession ==
    ASSUME IInv, NEW s \in Stores, NEW a \in Auths, NEW kind \in {"execution", "recovery"},
           ClaimSession(s, a, kind)
    PROVE  TypeOK' /\ SessionInv'
<1> DEFINE fence == Len(execs) + 1
           object == [NoClaim EXCEPT !.state = "live", !.store = s]
<1>1. TypeOK /\ SessionInv /\ DurableInv
  BY DEF IInv
<1>2. /\ execs' \in Seq(ExecRow)
      /\ Len(execs') = fence
      /\ execs'[fence].auth = a
      /\ \A f \in DOMAIN execs : execs'[f].auth = execs[f].auth
      /\ auths' = [auths EXCEPT ![a] = [state |-> "claimed", fence |-> fence, exec |-> fence]]
      /\ claims' \in Seq(ClaimObject)
      /\ Len(claims') = fence
      /\ \A f \in DOMAIN claims : claims'[f] = claims[f]
      /\ \/ /\ claims'[fence] = object
            /\ lockHolder' = fence
            /\ active' = [active EXCEPT ![s] = TRUE]
         \/ claims'[fence] = NoClaim /\ UNCHANGED <<lockHolder, active>>
  <2>1. /\ execs' \in Seq(ExecRow)
        /\ Len(execs') = fence
        /\ execs'[fence] = [auth |-> a, kind |-> kind, state |-> "active"]
        /\ \A f \in DOMAIN execs : execs'[f].auth = execs[f].auth
        /\ auths' = [auths EXCEPT ![a] = [state |-> "claimed", fence |-> fence, exec |-> fence]]
    BY <1>1, ClaimEffect
  <2> HIDE DEF object
  <2>2. object = [NoClaim EXCEPT !.state = "live", !.store = s]
    BY DEF object
  <2>3. /\ claims' \in Seq(ClaimObject)
        /\ Len(claims') = Len(execs) + 1
        /\ \A f \in DOMAIN claims : claims'[f] = claims[f]
        /\ \/ /\ claims'[Len(execs) + 1] = object
              /\ lockHolder' = Len(execs) + 1
              /\ active' = [active EXCEPT ![s] = TRUE]
           \/ claims'[Len(execs) + 1] = NoClaim /\ UNCHANGED <<lockHolder, active>>
    BY <1>1, <2>2, PublishEffect
  <2> QED
    BY <2>1, <2>3
<1>3. /\ LockFree
      /\ UNCHANGED <<intents, observing>>
      /\ events' \in Nat
  BY <1>1 DEF ClaimSession, AppendEvents, TypeOK
<1>4. /\ Len(execs) \in Nat
      /\ DOMAIN execs = 1..Len(execs)
      /\ DOMAIN claims = 1..Len(execs)
      /\ \A i \in DOMAIN intents : intents[i] \in IntentRow
      /\ fence \in Nat
  BY <1>1, FenceIndexes
<1>5. DOMAIN claims' = 1..fence /\ DOMAIN execs' = 1..fence
  BY <1>2
<1>6. \A g \in DOMAIN claims' : g \in DOMAIN claims \/ g = fence
  BY <1>4, <1>5
<1>7. \A g \in DOMAIN claims : claims[g].state # "live" /\ claims[g].armed = 0
  BY <1>1, <1>3, NoLiveClaim
<1>8. /\ object.state = "live" /\ object.store = s /\ object.armed = 0
      /\ NoClaim.state = "none" /\ NoClaim.store = NoStore /\ NoClaim.armed = 0
      /\ s # NoStore
  BY AuditStoreAssumption DEF NoClaim
<1>9. Verified'
  BY <1>1, ClaimReplays DEF DurableInv
<1>10. lockHolder' \in Nat /\ active' \in [Stores -> BOOLEAN]
  BY <1>1, <1>2, <1>4 DEF TypeOK
<1>11. auths' \in [Auths -> AuthRow]
  BY <1>1, <1>2, <1>4 DEF TypeOK, AuthRow, AuthStates
<1> HIDE DEF fence, object
<1>12. TypeOK'
  BY <1>1, <1>2, <1>3, <1>9, <1>10, <1>11, StepTypes DEF TypeOK
<1>13. FencesKnown'
  <2>1. lockHolder = 0
    BY <1>3 DEF LockFree
  <2>2. lockHolder' \in 0..Len(execs')
    BY <1>2, <1>4, <2>1
  <2>3. ASSUME NEW g \in DOMAIN claims'
        PROVE  /\ claims'[g].state = "none" <=> claims'[g].store = NoStore
               /\ claims'[g].state # "live" => claims'[g].armed = 0
    <3>1. CASE g \in DOMAIN claims
      BY <1>1, <1>2, <3>1 DEF SessionInv, FencesKnown
    <3>2. CASE g = fence
      BY <1>2, <1>8, <3>2
    <3> QED
      BY <1>6, <3>1, <3>2
  <2> QED
    BY <2>2, <2>3 DEF FencesKnown
<1>14. LockIsLiveClaim'
  <2> SUFFICES ASSUME NEW g \in DOMAIN claims'
               PROVE  claims'[g].state = "live" <=> lockHolder' = g
    BY DEF LockIsLiveClaim
  <2>1. CASE g \in DOMAIN claims
    <3>1. claims'[g].state # "live" /\ g # 0 /\ g # fence
      BY <1>2, <1>4, <1>7, <2>1 DEF fence
    <3> QED
      BY <1>2, <1>3, <3>1 DEF LockFree
  <2>2. CASE g = fence
    <3>1. fence # 0
      BY <1>4 DEF fence
    <3> QED
      BY <1>2, <1>3, <1>8, <2>2, <3>1 DEF LockFree
  <2> QED
    BY <1>6, <2>1, <2>2
<1>15. LiveClaimIsCurrent'
  <2> SUFFICES ASSUME NEW g \in DOMAIN claims', claims'[g].state = "live"
               PROVE  /\ auths'[execs'[g].auth].fence = g
                      /\ \/ auths'[execs'[g].auth].exec = g
                         \/ auths'[execs'[g].auth].state = "consumed"
    BY DEF LiveClaimIsCurrent
  <2>1. g = fence
    BY <1>2, <1>6, <1>7
  <2> QED
    BY <1>1, <1>2, <2>1 DEF TypeOK
<1>16. ArmedIsReserved'
  <2>1. \A g \in DOMAIN claims' : claims'[g].armed = 0
    BY <1>2, <1>6, <1>7, <1>8
  <2> QED
    BY <2>1 DEF ArmedIsReserved
<1>17. ObserversBorrow' /\ IdleObserversEmpty'
  <2>1. \A g \in DOMAIN claims : g \in DOMAIN claims' /\ g \in DOMAIN execs
    BY <1>4, <1>5 DEF fence
  <2>2. IdleObserversEmpty'
    BY <1>1, <1>3 DEF SessionInv, IdleObserversEmpty
  <2>3. ObserversBorrow'
    BY <1>1, <1>2, <1>3, <2>1 DEF SessionInv, ObserversBorrow, IntentsOf
  <2> QED
    BY <2>2, <2>3
<1> QED
  BY <1>12, <1>13, <1>14, <1>15, <1>16, <1>17 DEF SessionInv

-----------------------------------------------------------------------------
(* Steps of the objects.                                                   *)

\* One object is replaced by one that is not live, and its lock is released.
LEMMA ReleaseSession ==
    ASSUME TypeOK, SessionInv, NEW f \in DOMAIN claims, claims[f].state # "none",
           claims[f].armed = 0, NEW object \in ClaimObject, object.armed = 0,
           object.state # "live", object.state = "none" <=> object.store = NoStore,
           object.state = "none" \/ object.store = claims[f].store,
           Borrowed(f) => object.state # "none",
           ReleaseLiveClaim(f, object), UNCHANGED <<intents, observing>>,
           Len(execs') = Len(execs),
           \A g \in DOMAIN execs : execs'[g].auth = execs[g].auth,
           \/ UNCHANGED auths
           \/ claims[f].state = "live"
    PROVE  /\ lockHolder' \in Nat
           /\ active' \in [Stores -> BOOLEAN]
           /\ claims' \in Seq(ClaimObject)
           /\ Len(claims') = Len(claims)
           /\ SessionInv'
<1>1. /\ claims' = [claims EXCEPT ![f] = object]
      /\ lockHolder' = IF lockHolder = f THEN 0 ELSE lockHolder
      /\ active' = [active EXCEPT ![claims[f].store] = FALSE]
  BY DEF ReleaseLiveClaim
<1>2. /\ claims' \in Seq(ClaimObject)
      /\ Len(claims') = Len(claims)
      /\ DOMAIN claims' = DOMAIN claims
      /\ claims'[f] = object
      /\ \A g \in DOMAIN claims \ {f} : claims'[g] = claims[g]
  BY <1>1, ObjectEffect
<1>3. lockHolder' \in Nat /\ active' \in [Stores -> BOOLEAN]
  BY <1>1 DEF TypeOK
<1>4. /\ DOMAIN claims = DOMAIN execs
      /\ Len(execs) \in Nat
      /\ 0 \notin DOMAIN claims
  BY FenceIndexes
<1>5. FencesKnown'
  <2>1. lockHolder' \in 0..Len(execs')
    BY <1>1, <1>4 DEF SessionInv, FencesKnown
  <2> QED
    BY <1>2, <2>1 DEF SessionInv, FencesKnown
<1>6. LockIsLiveClaim'
  BY <1>1, <1>2, <1>4 DEF SessionInv, LockIsLiveClaim
<1>7. \A g \in DOMAIN claims' : claims'[g].state = "live" =>
          g # f /\ claims[g].state = "live" /\ claims[f].state # "live"
  BY <1>2 DEF SessionInv, LockIsLiveClaim
<1>8. \A g \in DOMAIN claims' : claims'[g].state = "live" => UNCHANGED auths
  BY <1>7
<1>9. LiveClaimIsCurrent'
  BY <1>2, <1>4, <1>7, <1>8 DEF SessionInv, LiveClaimIsCurrent
<1>10. ArmedIsReserved'
  <2>1. \A g \in DOMAIN claims' : claims'[g].armed # 0 =>
            g # f /\ claims'[g] = claims[g] /\ claims'[g].state = "live"
    BY <1>2 DEF SessionInv, FencesKnown
  <2> QED
    BY <1>2, <1>4, <1>8, <2>1 DEF SessionInv, ArmedIsReserved
<1>11. ObserversBorrow'
  BY <1>2, <1>4 DEF SessionInv, ObserversBorrow, IntentsOf, Borrowed
<1>12. IdleObserversEmpty'
  BY DEF SessionInv, IdleObserversEmpty
<1> QED
  BY <1>2, <1>3, <1>5, <1>6, <1>9, <1>10, <1>11, <1>12 DEF SessionInv

\* Dropping a claim keeps the invariant.
LEMMA DropSession ==
    ASSUME IInv, NEW f \in DOMAIN claims, DropClaim(f)
    PROVE  IInv'
<1>1. TypeOK /\ SessionInv /\ DurableInv /\ TablesMatchJournal
  BY DEF IInv
<1>2. NoClaim \in ClaimObject /\ NoClaim.state = "none" /\ NoClaim.store = NoStore /\ NoClaim.armed = 0
  BY DEF NoClaim, ClaimObject, ClaimStates
<1>3. /\ claims[f].state # "none" /\ claims[f].armed = 0 /\ ~Borrowed(f)
      /\ ReleaseLiveClaim(f, NoClaim)
      /\ UNCHANGED <<durable, observing>>
  BY DEF DropClaim
<1>4. UNCHANGED <<auths, execs, intents, replay, observing>>
  BY <1>3 DEF durable
<1>5. /\ lockHolder' \in Nat
      /\ active' \in [Stores -> BOOLEAN]
      /\ claims' \in Seq(ClaimObject)
      /\ Len(claims') = Len(claims)
      /\ SessionInv'
  BY <1>1, <1>2, <1>3, <1>4, ReleaseSession
<1>6. TypeOK'
  BY <1>1, <1>3, <1>5, ObjectStepTypes DEF TypeOK
<1>7. DurableInv' /\ TablesMatchJournal'
  BY <1>1, <1>4, DurableUnchanged DEF TablesMatchJournal, Verified
<1> QED
  BY <1>5, <1>6, <1>7 DEF IInv

\* The death of a process keeps the invariant: its claims, armed intents and
\* observers go together, and only its lock is released.
LEMMA CrashSession ==
    ASSUME IInv, NEW p \in Procs, Crash(p)
    PROVE  IInv'
<1> DEFINE lost(f) == claims[f].state # "none" /\ ProcOf[claims[f].store] = p
<1>1. TypeOK /\ SessionInv /\ DurableInv /\ TablesMatchJournal
  BY DEF IInv
<1>2. /\ lockHolder' = IF lockHolder # 0 /\ lost(lockHolder) THEN 0 ELSE lockHolder
      /\ claims' = [f \in DOMAIN claims |-> IF lost(f) THEN NoClaim ELSE claims[f]]
      /\ active' = [s \in Stores |-> active[s] /\ ProcOf[s] # p]
      /\ observing' = [s \in Stores |->
                         IF ProcOf[s] = p THEN NoObserver ELSE observing[s]]
      /\ UNCHANGED <<auths, execs, intents, replay>>
      /\ UNCHANGED durable
  BY DEF Crash, durable
<1>3. /\ NoClaim \in ClaimObject
      /\ NoClaim.state = "none" /\ NoClaim.store = NoStore /\ NoClaim.armed = 0
  BY DEF NoClaim, ClaimObject, ClaimStates
<1>4. /\ DOMAIN claims = DOMAIN execs
      /\ 0 \notin DOMAIN claims
      /\ Len(execs) \in Nat
      /\ \A f \in DOMAIN claims : claims[f] \in ClaimObject
      /\ claims \in Seq(ClaimObject)
  BY <1>1, FenceIndexes DEF TypeOK
<1>5. \A f \in DOMAIN claims : claims'[f] = IF lost(f) THEN NoClaim ELSE claims[f]
  BY <1>2
<1>6. claims' \in Seq(ClaimObject) /\ Len(claims') = Len(claims) /\ DOMAIN claims' = DOMAIN claims
  <2>1. claims' = [f \in DOMAIN claims |-> claims'[f]]
    BY <1>2
  <2>2. \A f \in DOMAIN claims : claims'[f] \in ClaimObject
    BY <1>3, <1>4, <1>5
  <2> QED
    BY <1>4, <2>1, <2>2, MapRows
<1>7. TypeOK'
  <2>1. lockHolder' \in Nat /\ active' \in [Stores -> BOOLEAN]
    BY <1>1, <1>2 DEF TypeOK
  <2>2. observing' \in [Stores -> [claim : Nat, pending : SUBSET Nat]]
    BY <1>1, <1>2 DEF TypeOK, NoObserver
  <2> QED
    BY <1>1, <1>2, <1>6, <2>1, <2>2, ObjectStepTypes
<1> HIDE DEF lost
<1>8. \A f \in DOMAIN claims : claims'[f].state = "live" =>
          ~lost(f) /\ claims'[f] = claims[f]
  BY <1>3, <1>5
<1>9. FencesKnown'
  <2>1. lockHolder' \in 0..Len(execs')
    BY <1>1, <1>2, <1>4 DEF SessionInv, FencesKnown
  <2> QED
    BY <1>1, <1>3, <1>5, <1>6, <2>1 DEF SessionInv, FencesKnown
<1>10. LockIsLiveClaim'
  <2> SUFFICES ASSUME NEW f \in DOMAIN claims
               PROVE  claims'[f].state = "live" <=> lockHolder' = f
    BY <1>6 DEF LockIsLiveClaim
  <2>1. claims[f].state = "live" <=> lockHolder = f
    BY <1>1 DEF SessionInv, LockIsLiveClaim
  <2>2. CASE lost(f)
    BY <1>2, <1>3, <1>4, <1>5, <2>1, <2>2
  <2>3. CASE ~lost(f)
    BY <1>2, <1>4, <1>5, <2>1, <2>3
  <2> QED
    BY <2>2, <2>3
<1>11. LiveClaimIsCurrent'
  BY <1>1, <1>2, <1>4, <1>6, <1>8 DEF SessionInv, LiveClaimIsCurrent
<1>12. ArmedIsReserved'
  <2>1. \A f \in DOMAIN claims : claims'[f].armed # 0 => claims'[f] = claims[f]
    BY <1>3, <1>5
  <2> QED
    BY <1>1, <1>2, <1>4, <1>6, <2>1 DEF SessionInv, ArmedIsReserved
<1>13. IdleObserversEmpty'
  BY <1>1, <1>2 DEF SessionInv, IdleObserversEmpty
<1>14. ObserversBorrow'
  <2> SUFFICES ASSUME NEW s \in Stores, observing'[s].claim # 0
               PROVE  /\ observing'[s].claim \in DOMAIN claims'
                      /\ claims'[observing'[s].claim].state # "none"
                      /\ ProcOf[claims'[observing'[s].claim].store] = ProcOf[s]
                      /\ claims'[observing'[s].claim].armed = 0
                      /\ (observing[s].pending
                             \subseteq IntentsOf(execs[observing[s].claim].auth))'
    BY DEF ObserversBorrow
  <2>1. ProcOf[s] # p /\ observing'[s] = observing[s]
    BY <1>2 DEF NoObserver
  <2>2. /\ observing[s].claim \in DOMAIN claims
        /\ claims[observing[s].claim].state # "none"
        /\ ProcOf[claims[observing[s].claim].store] = ProcOf[s]
        /\ claims[observing[s].claim].armed = 0
        /\ observing[s].pending \subseteq IntentsOf(execs[observing[s].claim].auth)
    BY <1>1, <2>1 DEF SessionInv, ObserversBorrow
  <2>3. claims'[observing[s].claim] = claims[observing[s].claim]
    BY <1>5, <2>1, <2>2 DEF lost
  <2> QED
    BY <1>2, <1>6, <2>1, <2>2, <2>3 DEF IntentsOf
<1>15. DurableInv' /\ TablesMatchJournal'
  BY <1>1, <1>2, DurableUnchanged DEF TablesMatchJournal, Verified
<1> QED
  BY <1>7, <1>9, <1>10, <1>11, <1>12, <1>13, <1>14, <1>15 DEF IInv, SessionInv

\* An armed intent is taken from the tokens of a live claim nobody borrows.
LEMMA TokensSession ==
    ASSUME IInv, NEW f \in DOMAIN claims, claims[f].state = "live", ~Borrowed(f),
           NEW object \in ClaimObject, claims' = [claims EXCEPT ![f] = object],
           object.state = "live", object.store = claims[f].store,
           object.armed # 0 =>
              /\ object.armed \in DOMAIN intents
              /\ intents[object.armed].state = "reserved"
              /\ intents[object.armed].fence = f
              /\ auths[execs[f].auth].exec = f,
           UNCHANGED <<durable, lockHolder, active, observing>>
    PROVE  IInv'
<1>1. TypeOK /\ SessionInv /\ DurableInv /\ TablesMatchJournal
  BY DEF IInv
<1>2. /\ claims' \in Seq(ClaimObject)
      /\ Len(claims') = Len(claims)
      /\ DOMAIN claims' = DOMAIN claims
      /\ claims'[f] = object
      /\ \A g \in DOMAIN claims \ {f} : claims'[g] = claims[g]
  BY <1>1, ObjectEffect
<1>3. UNCHANGED <<auths, execs, intents, replay, lockHolder, active, observing>>
  BY DEF durable
<1>4. TypeOK'
  BY <1>1, <1>2, <1>3, ObjectStepTypes DEF TypeOK
<1>5. FencesKnown' /\ LockIsLiveClaim' /\ LiveClaimIsCurrent' /\ IdleObserversEmpty'
  <2>1. object.state # "none" /\ object.store # NoStore
    BY <1>1 DEF SessionInv, FencesKnown
  <2> QED
    BY <1>1, <1>2, <1>3, <2>1
       DEF SessionInv, FencesKnown, LockIsLiveClaim, LiveClaimIsCurrent, IdleObserversEmpty
<1>6. ArmedIsReserved'
  BY <1>1, <1>2, <1>3 DEF SessionInv, ArmedIsReserved
<1>7. ObserversBorrow'
  BY <1>1, <1>2, <1>3 DEF SessionInv, ObserversBorrow, IntentsOf, Borrowed
<1>8. DurableInv' /\ TablesMatchJournal'
  BY <1>1, <1>3, DurableUnchanged DEF TablesMatchJournal, Verified
<1> QED
  BY <1>4, <1>5, <1>6, <1>7, <1>8 DEF IInv, SessionInv

\* arm_native_intent keeps the invariant: what is armed is reserved.
LEMMA ArmSession ==
    ASSUME IInv, NEW f \in DOMAIN claims, NEW i \in DOMAIN intents, ArmNativeIntent(f, i)
    PROVE  IInv'
<1> DEFINE lostToken == [claims[f] EXCEPT !.tokens = @ \ {i}]
           armedOne == [claims[f] EXCEPT !.tokens = @ \ {i}, !.armed = i]
<1>1. TypeOK /\ SessionInv
  BY DEF IInv
<1>2. /\ claims[f] \in ClaimObject /\ i \in Nat
  BY <1>1, FenceIndexes
<1>3. /\ ~Borrowed(f) /\ claims[f].state = "live" /\ claims[f].armed = 0
      /\ UNCHANGED <<durable, lockHolder, active, observing>>
      /\ \/ TokenValid(f, i) /\ claims' = [claims EXCEPT ![f] = armedOne]
         \/ claims' = [claims EXCEPT ![f] = lostToken]
  BY DEF ArmNativeIntent
<1>4. /\ lostToken \in ClaimObject /\ lostToken.armed = 0
      /\ lostToken.state = "live" /\ lostToken.store = claims[f].store
      /\ armedOne \in ClaimObject /\ armedOne.armed = i
      /\ armedOne.state = "live" /\ armedOne.store = claims[f].store
  BY <1>2, <1>3 DEF ClaimObject
<1> HIDE DEF lostToken, armedOne
<1>5. CASE claims' = [claims EXCEPT ![f] = lostToken]
  BY <1>3, <1>4, <1>5, TokensSession
<1>6. CASE TokenValid(f, i) /\ claims' = [claims EXCEPT ![f] = armedOne]
  <2>1. /\ intents[i].state = "reserved"
        /\ intents[i].fence = f
        /\ auths[execs[f].auth].exec = f
    BY <1>6 DEF TokenValid, LiveClaimValid
  <2> QED
    BY <1>3, <1>4, <1>6, <2>1, TokensSession
<1> QED
  BY <1>3, <1>5, <1>6

\* Giving an armed intent back, or dropping it, keeps the invariant.
LEMMA DisarmSession ==
    ASSUME IInv, NEW f \in DOMAIN claims, Disarm(f)
    PROVE  IInv'
<1> DEFINE kept == [claims[f] EXCEPT !.tokens = @ \cup {claims[f].armed}, !.armed = 0]
           gone == [claims[f] EXCEPT !.armed = 0]
<1>1. TypeOK /\ SessionInv
  BY DEF IInv
<1>2. claims[f] \in ClaimObject
  BY <1>1, FenceIndexes
<1>3. /\ claims[f].state = "live"
      /\ ~Borrowed(f)
      /\ UNCHANGED <<durable, lockHolder, active, observing>>
      /\ \/ claims' = [claims EXCEPT ![f] = kept]
         \/ claims' = [claims EXCEPT ![f] = gone]
  <2>1. 0 \notin DOMAIN claims
    BY <1>1, FenceIndexes
  <2> QED
    BY <1>1, <2>1 DEF Disarm, SessionInv, FencesKnown, ObserversBorrow, Borrowed
<1>4. /\ kept \in ClaimObject /\ kept.armed = 0
      /\ kept.state = "live" /\ kept.store = claims[f].store
      /\ gone \in ClaimObject /\ gone.armed = 0
      /\ gone.state = "live" /\ gone.store = claims[f].store
  BY <1>2, <1>3 DEF ClaimObject
<1> HIDE DEF kept, gone
<1> QED
  BY <1>3, <1>4, TokensSession

-----------------------------------------------------------------------------
(* Steps of the observer.                                                  *)

\* A store starts or ends an observation; nothing else moves.
LEMMA ObserveSession ==
    ASSUME TypeOK, SessionInv, NEW s \in Stores, NEW call,
           call \in [claim : Nat, pending : SUBSET Nat],
           observing' = [observing EXCEPT ![s] = call],
           \/ call = NoObserver
           \/ /\ call.claim \in DOMAIN claims
              /\ claims[call.claim].state # "none"
              /\ ProcOf[claims[call.claim].store] = ProcOf[s]
              /\ claims[call.claim].armed = 0
              /\ call.pending \subseteq IntentsOf(execs[call.claim].auth),
           UNCHANGED <<auths, execs, lockHolder, claims, active>>,
           DOMAIN intents' = DOMAIN intents,
           \A i \in DOMAIN intents : intents'[i].auth = intents[i].auth,
           UNCHANGED intents \/ \A f \in DOMAIN claims : claims[f].armed = 0
    PROVE  SessionInv'
<1>1. observing'[s] = call /\ \A r \in Stores \ {s} : observing'[r] = observing[r]
  BY DEF TypeOK
<1>2. 0 \notin DOMAIN claims
  BY FenceIndexes
<1>3. FencesKnown' /\ LockIsLiveClaim' /\ LiveClaimIsCurrent'
  BY DEF SessionInv, FencesKnown, LockIsLiveClaim, LiveClaimIsCurrent
<1>4. ArmedIsReserved'
  BY DEF SessionInv, ArmedIsReserved
<1>5. IdleObserversEmpty'
  BY <1>1, <1>2 DEF SessionInv, IdleObserversEmpty
<1>6. ObserversBorrow'
  <2> SUFFICES ASSUME NEW r \in Stores, observing'[r].claim # 0
               PROVE  /\ observing'[r].claim \in DOMAIN claims
                      /\ claims[observing'[r].claim].state # "none"
                      /\ ProcOf[claims[observing'[r].claim].store] = ProcOf[r]
                      /\ claims[observing'[r].claim].armed = 0
                      /\ observing'[r].pending \subseteq IntentsOf(execs[observing'[r].claim].auth)
    BY DEF ObserversBorrow, IntentsOf
  <2>1. CASE r = s
    BY <1>1, <2>1 DEF NoObserver
  <2>2. CASE r # s
    BY <1>1, <2>2 DEF SessionInv, ObserversBorrow
  <2> QED
    BY <2>1, <2>2
<1> QED
  BY <1>3, <1>4, <1>5, <1>6 DEF SessionInv

\* The start of classify_recovery keeps the invariant.
LEMMA ClassifyBeginSession ==
    ASSUME IInv, NEW s \in Stores, NEW f \in DOMAIN claims, ClassifyBegin(s, f)
    PROVE  IInv'
<1> DEFINE reserved == {i \in IntentsOf(execs[f].auth) : intents[i].state = "reserved"}
           call == [claim |-> f, pending |-> reserved]
<1>1. TypeOK /\ SessionInv /\ DurableInv /\ TablesMatchJournal
  BY DEF IInv
<1>2. /\ claims[f].state = "live" /\ claims[f].armed = 0
      /\ ProcOf[claims[f].store] = ProcOf[s]
      /\ observing' = [observing EXCEPT ![s] = call]
      /\ UNCHANGED <<auths, execs, intents, replay, lockHolder, claims, active>>
      /\ UNCHANGED durable
  BY DEF ClassifyBegin, ClaimUsable, durable
<1>3. /\ call \in [claim : Nat, pending : SUBSET Nat]
      /\ call.claim = f
      /\ call.pending \subseteq IntentsOf(execs[f].auth)
  <2>1. f \in Nat /\ \A i \in DOMAIN intents : i \in Nat
    BY <1>1, FenceIndexes
  <2> QED
    BY <2>1 DEF IntentsOf
<1> HIDE DEF call
<1>4. SessionInv'
  BY <1>1, <1>2, <1>3, ObserveSession
<1>5. TypeOK'
  BY <1>1, <1>2, <1>3, ObjectStepTypes DEF TypeOK
<1>6. DurableInv' /\ TablesMatchJournal'
  BY <1>1, <1>2, DurableUnchanged DEF TablesMatchJournal, Verified
<1> QED
  BY <1>4, <1>5, <1>6 DEF IInv

\* A classification that is given up keeps the invariant.
LEMMA ClassifyAbortSession ==
    ASSUME IInv, NEW s \in Stores, ClassifyAbort(s)
    PROVE  IInv'
<1>1. TypeOK /\ SessionInv /\ DurableInv /\ TablesMatchJournal
  BY DEF IInv
<1>2. /\ observing' = [observing EXCEPT ![s] = NoObserver]
      /\ UNCHANGED <<auths, execs, intents, replay, lockHolder, claims, active>>
      /\ UNCHANGED durable
  BY DEF ClassifyAbort, durable
<1>3. NoObserver \in [claim : Nat, pending : SUBSET Nat]
  BY DEF NoObserver
<1>4. SessionInv'
  BY <1>1, <1>2, <1>3, ObserveSession
<1>5. TypeOK'
  BY <1>1, <1>2, <1>3, ObjectStepTypes DEF TypeOK
<1>6. DurableInv' /\ TablesMatchJournal'
  BY <1>1, <1>2, DurableUnchanged DEF TablesMatchJournal, Verified
<1> QED
  BY <1>4, <1>5, <1>6 DEF IInv

-----------------------------------------------------------------------------
(* Steps that change the tables.                                           *)

\* What a store does outside any claim: an authorization appears.
LEMMA RegisterStep ==
    ASSUME IInv, NEW s \in Stores, NEW a \in Auths, Register(s, a)
    PROVE  IInv'
<1>1. TypeOK /\ DurableInv
  BY DEF IInv
<1> QED
  BY <1>1, RegisterSession, RegisterReplays, RegisterDurable
     DEF IInv, DurableInv, TablesMatchJournal

\* claim_execution and claim_recovery, with and without the object published.
LEMMA ClaimSessionStep ==
    ASSUME IInv, NEW s \in Stores, NEW a \in Auths, NEW kind \in {"execution", "recovery"},
           ClaimSession(s, a, kind)
    PROVE  IInv'
<1>1. TypeOK /\ DurableInv
  BY DEF IInv
<1> QED
  BY <1>1, ClaimSessionSession, ClaimReplays, ClaimDurable
     DEF IInv, DurableInv, TablesMatchJournal

\* reserve_intent_once adds a row that nothing refers to yet.
LEMMA ReserveStep ==
    ASSUME IInv, NEW s \in Stores, NEW f \in DOMAIN claims, NEW x \in Actions,
           NEW path \in Paths, ReserveIntent(s, f, x, path)
    PROVE  IInv'
<1> DEFINE i == Len(intents) + 1
           object == [claims[f] EXCEPT !.tokens = @ \cup {i}]
<1>1. TypeOK /\ SessionInv /\ DurableInv /\ TablesMatchJournal
  BY DEF IInv
<1>2. /\ intents' \in Seq(IntentRow)
      /\ Len(intents') = i
      /\ \A j \in DOMAIN intents : intents'[j] = intents[j]
  BY <1>1, ReserveEffect
<1>3. /\ claims[f].state = "live" /\ claims[f].armed = 0
      /\ \/ claims' = [claims EXCEPT ![f] = object]
         \/ UNCHANGED claims
      /\ UNCHANGED <<auths, execs, lockHolder, active, observing>>
      /\ events' \in Nat
  BY <1>1 DEF ReserveIntent, ClaimUsable, AppendEvents, TypeOK
<1>4. /\ Len(intents) \in Nat
      /\ claims[f] \in ClaimObject
      /\ DOMAIN intents = 1..Len(intents)
      /\ claims \in Seq(ClaimObject)
  BY <1>1, FenceIndexes DEF TypeOK
<1>5. /\ object \in ClaimObject
      /\ object.state = "live" /\ object.store = claims[f].store /\ object.armed = 0
  BY <1>3, <1>4 DEF ClaimObject
<1>6. DOMAIN intents' = 1..i /\ \A j \in DOMAIN intents : j \in DOMAIN intents'
  BY <1>2, <1>4
<1> HIDE DEF object
<1>7. /\ claims' \in Seq(ClaimObject)
      /\ Len(claims') = Len(claims)
      /\ DOMAIN claims' = DOMAIN claims
      /\ \A g \in DOMAIN claims : /\ claims'[g].state = claims[g].state
                                  /\ claims'[g].store = claims[g].store
                                  /\ claims'[g].armed = claims[g].armed
  <2>1. CASE UNCHANGED claims
    BY <1>4, <2>1
  <2>2. CASE claims' = [claims EXCEPT ![f] = object]
    <3>1. /\ claims' \in Seq(ClaimObject)
          /\ Len(claims') = Len(claims)
          /\ DOMAIN claims' = DOMAIN claims
          /\ claims'[f] = object
          /\ \A g \in DOMAIN claims \ {f} : claims'[g] = claims[g]
      BY <1>1, <1>5, <2>2, ObjectEffect
    <3> QED
      BY <1>3, <1>5, <3>1
  <2> QED
    BY <1>3, <2>1, <2>2
<1>8. Verified'
  BY <1>1, ReserveReplays
<1>9. TypeOK'
  BY <1>1, <1>2, <1>3, <1>7, <1>8, StepTypes DEF TypeOK
<1>10. FencesKnown' /\ LockIsLiveClaim' /\ LiveClaimIsCurrent' /\ IdleObserversEmpty'
  BY <1>1, <1>3, <1>7
     DEF SessionInv, FencesKnown, LockIsLiveClaim, LiveClaimIsCurrent, IdleObserversEmpty
<1>11. ArmedIsReserved'
  <2>1. \A g \in DOMAIN claims' : claims'[g].armed = 0
    BY <1>1, <1>3, <1>7, OnlyLiveClaim
  <2> QED
    BY <2>1 DEF ArmedIsReserved
<1>12. ObserversBorrow'
  <2>1. \A a : IntentsOf(a) \subseteq IntentsOf(a)'
    BY <1>2, <1>6 DEF IntentsOf
  <2> QED
    BY <1>1, <1>3, <1>7, <2>1 DEF SessionInv, ObserversBorrow, IntentsOf
<1>13. DurableInv'
  BY <1>1, ReserveDurable
<1> QED
  BY <1>8, <1>9, <1>10, <1>11, <1>12, <1>13 DEF IInv, SessionInv, TablesMatchJournal

\* record_outcome and record_recovery_outcome write the same rows.
LEMMA OutcomeStep ==
    ASSUME IInv, NEW s \in Stores, NEW f \in DOMAIN claims, NEW i \in DOMAIN intents,
           NEW outcome \in Outcomes, ClaimUsable(s, f),
           intents[i].state # "outcome_recorded", RecordRow(i, outcome),
           AppendEvents(1, ReplayOutcome(replay, i, outcome)),
           UNCHANGED <<auths, execs, session>>
    PROVE  IInv'
<1>1. TypeOK /\ SessionInv /\ DurableInv /\ TablesMatchJournal
  BY DEF IInv
<1>2. /\ intents' \in Seq(IntentRow)
      /\ DOMAIN intents' = DOMAIN intents
      /\ intents'[i] = [intents[i] EXCEPT !.state = "outcome_recorded",
                                          !.recorded = outcome,
                                          !.classed = "none"]
      /\ \A j \in DOMAIN intents \ {i} : intents'[j] = intents[j]
      /\ intents[i] \in IntentRow
  BY <1>1, OutcomeEffect, FenceIndexes
<1>3. \A j \in DOMAIN intents : intents'[j].auth = intents[j].auth
  <2>1. intents'[i].auth = intents[i].auth
    BY <1>2 DEF IntentRow
  <2> QED BY <2>1, <1>2
<1>4. \A g \in DOMAIN claims : claims[g].armed = 0
  BY <1>1, OnlyLiveClaim DEF ClaimUsable
<1>5. SessionInv'
  BY <1>1, <1>2, <1>3, <1>4, TableStepSession
<1>6. Verified'
  BY <1>1, OutcomeReplays DEF TablesMatchJournal
<1>7. /\ events' \in Nat
      /\ UNCHANGED <<auths, execs, lockHolder, claims, active, observing>>
  BY <1>1 DEF AppendEvents, TypeOK, session
<1>8. TypeOK'
  BY <1>1, <1>2, <1>6, <1>7, StepTypes DEF TypeOK
<1>9. DurableInv'
  BY <1>1, <1>7, OutcomeDurable DEF IInv
<1> QED
  BY <1>5, <1>6, <1>8, <1>9 DEF IInv, TablesMatchJournal

\* An observer was given finitely many attempts.
LEMMA PendingIsFinite ==
    ASSUME TypeOK, SessionInv, NEW s \in Stores
    PROVE  Cardinality(observing[s].pending) \in Nat
<1>1. observing[s].pending \subseteq DOMAIN intents
  BY DEF SessionInv, ObserversBorrow, IdleObserversEmpty, NoObserver, IntentsOf
<1>2. IsFiniteSet(DOMAIN intents)
  BY FenceIndexes, FS_Interval
<1> QED
  BY <1>1, <1>2, FS_Subset, FS_CardinalityType

\* classify_recovery: the rows an observer saw reserved get their classes.
LEMMA ClassifyStep ==
    ASSUME IInv, NEW s \in Stores, ClassifyCommit(s)
    PROVE  IInv'
<1> DEFINE f == observing[s].claim
           pending == observing[s].pending
<1>1. TypeOK /\ SessionInv /\ DurableInv /\ TablesMatchJournal
  BY DEF IInv
<1>2. /\ intents' \in Seq(IntentRow)
      /\ DOMAIN intents' = DOMAIN intents
      /\ \A i \in DOMAIN intents \ pending : intents'[i] = intents[i]
      /\ \A i \in DOMAIN intents \cap pending : \E state \in Classified :
            /\ intents[i].state = "reserved"
            /\ intents'[i] = [intents[i] EXCEPT !.state = state, !.classed = state]
  BY <1>1, ClassifyEffect
<1>3. \A i \in DOMAIN intents : intents[i] \in IntentRow
  BY <1>1, FenceIndexes
<1>4. \A i \in DOMAIN intents : intents'[i].auth = intents[i].auth
  <2> SUFFICES ASSUME NEW i \in DOMAIN intents PROVE intents'[i].auth = intents[i].auth
    OBVIOUS
  <2>1. CASE i \in pending
    <3>1. PICK state \in Classified :
            intents'[i] = [intents[i] EXCEPT !.state = state, !.classed = state]
      BY <1>2, <2>1
    <3> QED
      BY <1>3, <3>1 DEF IntentRow
  <2>2. CASE i \notin pending
    BY <1>2, <2>2
  <2> QED
    BY <2>1, <2>2
<1>5. /\ observing' = [observing EXCEPT ![s] = NoObserver]
      /\ UNCHANGED <<auths, execs, lockHolder, claims, active>>
      /\ claims[f].state = "live"
      /\ events' \in Nat
      /\ ~ObserverIdle(s)
  <2>1. Cardinality(pending) \in Nat /\ events \in Nat
    BY <1>1, PendingIsFinite DEF TypeOK
  <2>2. events' = events + Cardinality(pending)
    BY DEF ClassifyCommit, AppendEvents
  <2>3. events' \in Nat
    BY <2>1, <2>2
  <2> QED
    BY <2>3 DEF ClassifyCommit
<1>6. f \in DOMAIN claims /\ claims[f].armed = 0
  BY <1>1, <1>5 DEF SessionInv, ObserversBorrow, IdleObserversEmpty, ObserverIdle
<1>7. \A g \in DOMAIN claims : claims[g].armed = 0
  BY <1>1, <1>5, <1>6, OnlyLiveClaim
<1>8. NoObserver \in [claim : Nat, pending : SUBSET Nat]
  BY DEF NoObserver
<1>9. SessionInv'
  BY <1>1, <1>2, <1>4, <1>5, <1>7, <1>8, ObserveSession
<1>10. Verified'
  BY <1>1, ClassifyReplays DEF SessionInv
<1>11. TypeOK'
  <2>1. observing' \in [Stores -> [claim : Nat, pending : SUBSET Nat]]
    BY <1>1, <1>5, <1>8 DEF TypeOK
  <2> QED
    BY <1>1, <1>2, <1>5, <1>10, <2>1, StepTypes DEF TypeOK
<1>12. DurableInv'
  BY <1>1, ClassifyDurable
<1> QED
  BY <1>9, <1>10, <1>11, <1>12 DEF IInv, TablesMatchJournal

\* consume_execution: released at once, refused after the commit, or retried.
LEMMA ConsumeStep ==
    ASSUME IInv, NEW s \in Stores, NEW f \in DOMAIN claims, ConsumeExecution(s, f)
    PROVE  IInv'
<1> DEFINE a == execs[f].auth
           object == [claims[f] EXCEPT !.state = "released", !.tokens = {}]
<1>1. TypeOK /\ SessionInv /\ DurableInv /\ TablesMatchJournal
  BY DEF IInv
<1>2. claims[f].state = "live" /\ claims[f].armed = 0 /\ UNCHANGED observing
  BY DEF ConsumeExecution, ClaimUsable
<1>3. /\ claims[f] \in ClaimObject
      /\ f \in DOMAIN execs /\ f # 0
      /\ execs \in Seq(ExecRow)
      /\ execs[f] \in ExecRow /\ a \in Auths
      /\ claims \in Seq(ClaimObject)
  BY <1>1, FenceIndexes DEF TypeOK, ExecRow
<1>4. /\ object \in ClaimObject
      /\ object.state = "released" /\ object.store = claims[f].store
      /\ object.store # NoStore /\ object.armed = 0
  BY <1>1, <1>2, <1>3 DEF ClaimObject, ClaimStates, SessionInv, FencesKnown
<1>5. \A g \in DOMAIN claims : claims[g].armed = 0 /\ (g # f => claims[g].state # "live")
  BY <1>1, <1>2, OnlyLiveClaim
<1>6. \/ ConsumeRows(f) /\ ReleaseLiveClaim(f, object)
      \/ ConsumeRows(f) /\ UNCHANGED <<lockHolder, claims, active>>
      \/ ReleaseLiveClaim(f, object) /\ UNCHANGED durable
  BY DEF ConsumeExecution
<1>7. ASSUME ConsumeRows(f)
      PROVE  /\ auths' \in [Auths -> AuthRow]
             /\ auths'[a].fence = f /\ auths'[a].state = "consumed"
             /\ execs' \in Seq(ExecRow)
             /\ Len(execs') = Len(execs) /\ DOMAIN execs' = DOMAIN execs
             /\ \A g \in DOMAIN execs : execs'[g].auth = execs[g].auth
             /\ events' \in Nat
             /\ UNCHANGED intents
             /\ Verified' /\ DurableInv'
  <2> DEFINE row == [execs[f] EXCEPT !.state = "consumed"]
  <2>1. /\ auths[a] = [state |-> "claimed", fence |-> f, exec |-> f]
        /\ auths' = [auths EXCEPT ![a].state = "consumed", ![a].exec = 0]
        /\ execs' = [execs EXCEPT ![f] = row] \/ execs' = execs
        /\ events' \in Nat
        /\ UNCHANGED intents
    BY <1>1, <1>7 DEF ConsumeRows, AppendEvents, TypeOK
  <2>2. /\ auths' \in [Auths -> AuthRow]
        /\ auths'[a].fence = f /\ auths'[a].state = "consumed"
    BY <1>1, <1>3, <2>1 DEF TypeOK, AuthRow, AuthStates
  <2>3. row \in ExecRow /\ row.auth = a
    BY <1>3 DEF ExecRow, ExecStates
  <2> HIDE DEF row
  <2>4. /\ execs' \in Seq(ExecRow)
        /\ Len(execs') = Len(execs) /\ DOMAIN execs' = DOMAIN execs
        /\ \A g \in DOMAIN execs : execs'[g].auth = execs[g].auth
    <3>1. CASE execs' = execs
      BY <1>3, <3>1
    <3>2. CASE execs' = [execs EXCEPT ![f] = row]
      BY <1>3, <2>3, <3>2, ReplaceRow
    <3> QED
      BY <2>1, <3>1, <3>2
  <2>5. Verified' /\ DurableInv'
    BY <1>1, <1>7, ConsumeReplays, ConsumeDurable DEF TablesMatchJournal, DurableInv
  <2> QED
    BY <2>1, <2>2, <2>4, <2>5
<1> HIDE DEF object, a
<1>8. CASE ConsumeRows(f) /\ ReleaseLiveClaim(f, object)
  <2>1. /\ lockHolder' \in Nat
        /\ active' \in [Stores -> BOOLEAN]
        /\ claims' \in Seq(ClaimObject)
        /\ Len(claims') = Len(claims)
        /\ SessionInv'
    BY <1>1, <1>2, <1>4, <1>7, <1>8, ReleaseSession
  <2>2. TypeOK'
    BY <1>1, <1>2, <1>7, <1>8, <2>1, StepTypes DEF TypeOK
  <2> QED
    BY <1>7, <1>8, <2>1, <2>2 DEF IInv, TablesMatchJournal
<1>9. CASE ConsumeRows(f) /\ UNCHANGED <<lockHolder, claims, active>>
  <2>1. TypeOK'
    BY <1>1, <1>2, <1>7, <1>9, StepTypes DEF TypeOK
  <2>2. FencesKnown' /\ LockIsLiveClaim' /\ IdleObserversEmpty' /\ ArmedIsReserved'
    BY <1>1, <1>2, <1>5, <1>7, <1>9
       DEF SessionInv, FencesKnown, LockIsLiveClaim, IdleObserversEmpty, ArmedIsReserved
  <2>3. LiveClaimIsCurrent'
    BY <1>3, <1>5, <1>7, <1>9 DEF LiveClaimIsCurrent, a
  <2>4. ObserversBorrow'
    <3>1. DOMAIN claims = DOMAIN execs
      BY <1>1, FenceIndexes
    <3> QED
      BY <1>1, <1>2, <1>7, <1>9, <3>1 DEF SessionInv, ObserversBorrow, IntentsOf
  <2> QED
    BY <1>7, <1>9, <2>1, <2>2, <2>3, <2>4 DEF IInv, SessionInv, TablesMatchJournal
<1>10. CASE ReleaseLiveClaim(f, object) /\ UNCHANGED durable
  <2>1. UNCHANGED <<auths, execs, intents, replay>>
    BY <1>10 DEF durable
  <2>2. /\ lockHolder' \in Nat
        /\ active' \in [Stores -> BOOLEAN]
        /\ claims' \in Seq(ClaimObject)
        /\ Len(claims') = Len(claims)
        /\ SessionInv'
    BY <1>1, <1>2, <1>4, <1>10, <2>1, ReleaseSession
  <2>3. TypeOK'
    BY <1>1, <1>2, <1>10, <2>2, ObjectStepTypes DEF TypeOK
  <2>4. DurableInv' /\ TablesMatchJournal'
    BY <1>1, <2>1, DurableUnchanged DEF TablesMatchJournal, Verified
  <2> QED
    BY <2>2, <2>3, <2>4 DEF IInv
<1> QED
  BY <1>6, <1>8, <1>9, <1>10

-----------------------------------------------------------------------------
(* The invariant.                                                          *)

\* An empty database opened by stores that hold nothing.
LEMMA InitInv == Init => IInv
<1> SUFFICES ASSUME Init PROVE IInv
  OBVIOUS
<1> USE DEF Init
<1>1. TypeOK
  BY DEF TypeOK, AuthRow, AuthStates, AbsentAuth, Projection, NoObserver
<1>2. TablesMatchJournal
  BY DEF TablesMatchJournal, Verified
<1>3. DurableInv
  BY DEF DurableInv, AuthRowsRefer, ActiveIsCurrent, IntentRowsRefer, OutcomeRowsMatch,
         OneAttemptPerAction, UnsettledIsClaimed, HotPathExclusive, AbsentAuth
<1>4. SessionInv
  BY DEF SessionInv, FencesKnown, LockIsLiveClaim, LiveClaimIsCurrent, ArmedIsReserved,
         ObserversBorrow, IdleObserversEmpty, NoObserver
<1> QED
  BY <1>1, <1>2, <1>3, <1>4 DEF IInv

\* Nothing that the invariant mentions moves in a stuttering step.
LEMMA StutterStep ==
    ASSUME IInv, UNCHANGED vars
    PROVE  IInv'
<1>1. /\ TypeOK /\ SessionInv /\ DurableInv /\ TablesMatchJournal
      /\ UNCHANGED <<auths, execs, intents, replay, events, lockHolder, claims, active,
                     observing>>
  BY DEF IInv, vars
<1>2. TypeOK'
  BY <1>1 DEF TypeOK
<1>3. DurableInv' /\ TablesMatchJournal'
  BY <1>1, DurableUnchanged DEF TablesMatchJournal, Verified
<1>4. SessionInv'
  BY <1>1 DEF SessionInv, FencesKnown, LockIsLiveClaim, LiveClaimIsCurrent, ArmedIsReserved,
              ObserversBorrow, IdleObserversEmpty, IntentsOf
<1> QED
  BY <1>2, <1>3, <1>4 DEF IInv

\* Every step of every store, claim, object and process keeps the invariant.
LEMMA NextInv == IInv /\ [Next]_vars => IInv'
<1> SUFFICES ASSUME IInv, [Next]_vars PROVE IInv'
  OBVIOUS
<1>1. CASE UNCHANGED vars
  BY <1>1, StutterStep
<1>2. ASSUME NEW s \in Stores, StoreStep(s)
      PROVE  IInv'
  <2>1. ASSUME NEW a \in Auths, Register(s, a) PROVE IInv'
    BY <2>1, RegisterStep
  <2>2. ASSUME NEW a \in Auths, ClaimExecution(s, a) PROVE IInv'
    BY <2>2, ClaimSessionStep DEF ClaimExecution
  <2>3. ASSUME NEW a \in Auths, ClaimRecovery(s, a) PROVE IInv'
    BY <2>3, ClaimSessionStep DEF ClaimRecovery
  <2>4. CASE ClassifyCommit(s)
    BY <2>4, ClassifyStep
  <2>5. CASE ClassifyAbort(s)
    BY <2>5, ClassifyAbortSession
  <2> QED
    BY <1>2, <2>1, <2>2, <2>3, <2>4, <2>5 DEF StoreStep
<1>3. ASSUME NEW s \in Stores, NEW f \in DOMAIN claims, ClaimStep(s, f)
      PROVE  IInv'
  <2>1. ASSUME NEW x \in Actions, NEW path \in Paths, ReserveIntent(s, f, x, path)
        PROVE  IInv'
    BY <2>1, ReserveStep
  <2>2. ASSUME NEW i \in DOMAIN intents, NEW outcome \in Outcomes,
               RecordOutcome(s, f, i, outcome)
        PROVE  IInv'
    BY <2>2, OutcomeStep DEF RecordOutcome, TokenValid
  <2>3. ASSUME NEW i \in DOMAIN intents, NEW outcome \in Outcomes,
               RecordRecoveryOutcome(s, f, i, outcome)
        PROVE  IInv'
    BY <2>3, OutcomeStep DEF RecordRecoveryOutcome, Unresolved
  <2>4. CASE ClassifyBegin(s, f)
    BY <2>4, ClassifyBeginSession
  <2>5. CASE ConsumeExecution(s, f)
    BY <2>5, ConsumeStep
  <2> QED
    BY <1>3, <2>1, <2>2, <2>3, <2>4, <2>5 DEF ClaimStep
<1>4. ASSUME NEW f \in DOMAIN claims, ObjectStep(f)
      PROVE  IInv'
  BY <1>4, DropSession, ArmSession, DisarmSession DEF ObjectStep
<1>5. ASSUME NEW p \in Procs, Crash(p)
      PROVE  IInv'
  BY <1>5, CrashSession
<1> QED
  BY <1>1, <1>2, <1>3, <1>4, <1>5 DEF Next

\* The invariant holds in every state the stores and processes can reach.
THEOREM Invariant == Spec => []IInv
BY InitInv, NextInv, PTL DEF Spec

-----------------------------------------------------------------------------
(* The properties of AuditStore.                                           *)

\* Every variable keeps its type: the rows the code writes are rows of its schema.
THEOREM TypeCorrect == Spec => []TypeOK
<1>1. IInv => TypeOK
  BY DEF IInv
<1> QED
  BY <1>1, Invariant, PTL

\* verify_database never refuses tables that the store itself wrote.
THEOREM JournalTheorem == Spec => []TablesMatchJournal
<1>1. IInv => TablesMatchJournal
  BY DEF IInv
<1> QED
  BY <1>1, Invariant, PTL

\* The OS lock and the one live ClaimedExecution object come and go together,
\* that claim has the newest fence of its authorization, and no other execution
\* is active.
THEOREM ClaimTheorem == Spec => []ClaimsAreCurrent
<1>1. IInv => ClaimsAreCurrent
  BY DEF IInv, SessionInv, DurableInv, ClaimsAreCurrent
<1> QED
  BY <1>1, Invariant, PTL

\* Two authorizations never both have an unsettled attempt on one source path.
THEOREM PathTheorem == Spec => []HotPathExclusive
<1>1. IInv => HotPathExclusive
  BY DEF IInv, DurableInv
<1> QED
  BY <1>1, Invariant, PTL

\* consume_execution leaves no attempt without an outcome, then or later.
THEOREM SettledTheorem == Spec => []ConsumedIsSettled
<1>1. IInv => ConsumedIsSettled
  BY DEF IInv, DurableInv, UnsettledIsClaimed, ConsumedIsSettled, IntentsOf
<1> QED
  BY <1>1, Invariant, PTL

\* What an ArmedDurableIntent rechecks in memory is what the database holds.
THEOREM ArmedTheorem == Spec => []ArmedIsReserved
<1>1. IInv => ArmedIsReserved
  BY DEF IInv, SessionInv
<1> QED
  BY <1>1, Invariant, PTL

\* How attempts change in a step of a live claim that still owns its rows.
AttemptsChange(f) ==
    /\ claims[f].state = "live"
    /\ LiveClaimValid(f)
    /\ \A i \in DOMAIN intents :
          \/ intents'[i] = intents[i]
          \/ /\ intents[i].state # "outcome_recorded"
             /\ intents[i].auth = execs[f].auth
             /\ intents'[i].auth = intents[i].auth
    /\ \A i \in DOMAIN intents' \ DOMAIN intents : intents'[i].auth = execs[f].auth

\* The steps that write attempts all write them this way.
LEMMA AttemptSteps ==
    ASSUME IInv, [Next]_vars
    PROVE  UNCHANGED intents \/ \E f \in DOMAIN claims : AttemptsChange(f)
<1>1. TypeOK /\ SessionInv /\ DurableInv
  BY DEF IInv
<1>2. CASE UNCHANGED vars
  BY <1>2 DEF vars
<1>3. ASSUME NEW s \in Stores, StoreStep(s)
      PROVE  UNCHANGED intents \/ \E f \in DOMAIN claims : AttemptsChange(f)
  <2>1. CASE ClassifyCommit(s)
    <3> DEFINE f == observing[s].claim
               pending == observing[s].pending
    <3>1. /\ ~ObserverIdle(s) /\ claims[f].state = "live" /\ LiveClaimValid(f)
      BY <2>1 DEF ClassifyCommit
    <3>2. f \in DOMAIN claims /\ pending \subseteq IntentsOf(execs[f].auth)
      BY <1>1, <3>1 DEF SessionInv, ObserversBorrow, IdleObserversEmpty, ObserverIdle
    <3>3. /\ DOMAIN intents' = DOMAIN intents
          /\ \A i \in DOMAIN intents \ pending : intents'[i] = intents[i]
          /\ \A i \in DOMAIN intents \cap pending : \E state \in Classified :
                /\ intents[i].state = "reserved"
                /\ intents'[i] = [intents[i] EXCEPT !.state = state, !.classed = state]
      BY <1>1, <2>1, ClassifyEffect
    <3>4. ASSUME NEW i \in DOMAIN intents \cap pending
          PROVE  /\ intents[i].state # "outcome_recorded"
                 /\ intents[i].auth = execs[f].auth
                 /\ intents'[i].auth = intents[i].auth
      <4>1. intents[i] \in IntentRow
        BY <1>1, FenceIndexes
      <4>2. PICK state \in Classified :
                /\ intents[i].state = "reserved"
                /\ intents'[i] = [intents[i] EXCEPT !.state = state, !.classed = state]
        BY <3>3
      <4> QED
        BY <3>2, <4>1, <4>2 DEF IntentRow, IntentsOf
    <3> QED
      BY <3>1, <3>2, <3>3, <3>4 DEF AttemptsChange
  <2>2. CASE ~ClassifyCommit(s)
    BY <1>3, <2>2 DEF StoreStep, Register, ClaimExecution, ClaimRecovery, ClaimSession,
                      ClassifyAbort, durable
  <2> QED
    BY <2>1, <2>2
<1>4. ASSUME NEW s \in Stores, NEW f \in DOMAIN claims, ClaimStep(s, f)
      PROVE  UNCHANGED intents \/ AttemptsChange(f)
  <2>1. ASSUME NEW x \in Actions, NEW path \in Paths, ReserveIntent(s, f, x, path)
        PROVE  AttemptsChange(f)
    <3>1. claims[f].state = "live" /\ LiveClaimValid(f)
      BY <2>1 DEF ReserveIntent, ClaimUsable
    <3>2. /\ intents' \in Seq(IntentRow)
          /\ Len(intents') = Len(intents) + 1
          /\ intents'[Len(intents) + 1].auth = execs[f].auth
          /\ \A j \in DOMAIN intents : intents'[j] = intents[j]
      <4>1. /\ intents' \in Seq(IntentRow)
            /\ Len(intents') = Len(intents) + 1
            /\ intents'[Len(intents) + 1] =
                 [auth |-> execs[f].auth, action |-> x, path |-> path, fence |-> f,
                  state |-> "reserved", recorded |-> NoOutcome, classed |-> "none"]
            /\ \A j \in DOMAIN intents : intents'[j] = intents[j]
        BY <1>1, <2>1, ReserveEffect
      <4> QED
        BY <4>1
    <3>3. \A i \in DOMAIN intents' \ DOMAIN intents : i = Len(intents) + 1
      BY <1>1, <3>2, FenceIndexes
    <3> QED
      BY <3>1, <3>2, <3>3 DEF AttemptsChange
  <2>2. ASSUME NEW i \in DOMAIN intents, NEW outcome \in Outcomes, RecordRow(i, outcome),
               claims[f].state = "live", LiveClaimValid(f),
               i \in IntentsOf(execs[f].auth), intents[i].state # "outcome_recorded"
        PROVE  AttemptsChange(f)
    <3>1. /\ DOMAIN intents' = DOMAIN intents
          /\ intents'[i] = [intents[i] EXCEPT !.state = "outcome_recorded",
                                              !.recorded = outcome,
                                              !.classed = "none"]
          /\ \A j \in DOMAIN intents \ {i} : intents'[j] = intents[j]
          /\ intents[i] \in IntentRow
      BY <1>1, <2>2, OutcomeEffect, FenceIndexes
    <3>2. intents'[i].auth = intents[i].auth /\ intents[i].auth = execs[f].auth
      BY <2>2, <3>1 DEF IntentRow, IntentsOf
    <3> QED
      BY <2>2, <3>1, <3>2 DEF AttemptsChange
  <2>3. ASSUME NEW i \in DOMAIN intents, NEW outcome \in Outcomes,
               RecordOutcome(s, f, i, outcome)
        PROVE  AttemptsChange(f)
    BY <2>2, <2>3 DEF RecordOutcome, TokenValid
  <2>4. ASSUME NEW i \in DOMAIN intents, NEW outcome \in Outcomes,
               RecordRecoveryOutcome(s, f, i, outcome)
        PROVE  AttemptsChange(f)
    BY <2>2, <2>4 DEF RecordRecoveryOutcome, ClaimUsable, Unresolved
  <2>5. CASE ClassifyBegin(s, f)
    BY <2>5 DEF ClassifyBegin, durable
  <2>6. CASE ConsumeExecution(s, f)
    BY <2>6 DEF ConsumeExecution, ConsumeRows, durable
  <2> QED
    BY <1>4, <2>1, <2>3, <2>4, <2>5, <2>6 DEF ClaimStep
<1>5. ASSUME NEW f \in DOMAIN claims, ObjectStep(f)
      PROVE  UNCHANGED intents
  BY <1>5 DEF ObjectStep, DropClaim, ArmNativeIntent, Disarm, durable
<1>6. ASSUME NEW p \in Procs, Crash(p)
      PROVE  UNCHANGED intents
  BY <1>6 DEF Crash, durable
<1> QED
  BY <1>2, <1>3, <1>4, <1>5, <1>6 DEF Next

\* A recorded outcome is final.
THEOREM OutcomeTheorem == Spec => OutcomeIsFinal
<1>1. ASSUME IInv, [Next]_vars
      PROVE  \A i \in DOMAIN intents :
                intents[i].state = "outcome_recorded" => intents'[i] = intents[i]
  BY <1>1, AttemptSteps DEF AttemptsChange
<1> QED
  BY <1>1, Invariant, PTL DEF Spec, OutcomeIsFinal

\* Only the claim that holds the lock and is current for the authorization writes.
THEOREM WriterTheorem == Spec => OnlyCurrentClaimWrites
<1>1. ASSUME IInv, [Next]_vars
      PROVE  intents' # intents =>
                /\ lockHolder \in DOMAIN execs
                /\ auths[execs[lockHolder].auth].exec = lockHolder
                /\ \A i \in DOMAIN intents' :
                      (i \notin DOMAIN intents \/ intents'[i] # intents[i])
                          => intents'[i].auth = execs[lockHolder].auth
  <2> SUFFICES ASSUME NEW f \in DOMAIN claims, AttemptsChange(f)
               PROVE  /\ lockHolder = f /\ f \in DOMAIN execs
                      /\ auths[execs[f].auth].exec = f
                      /\ \A i \in DOMAIN intents' :
                            (i \notin DOMAIN intents \/ intents'[i] # intents[i])
                                => intents'[i].auth = execs[f].auth
    BY <1>1, AttemptSteps
  <2>1. lockHolder = f /\ f \in DOMAIN execs
    BY <1>1, OnlyLiveClaim, FenceIndexes DEF AttemptsChange, IInv
  <2>2. auths[execs[f].auth].exec = f
    BY DEF AttemptsChange, LiveClaimValid
  <2> QED
    BY <2>1, <2>2 DEF AttemptsChange
<1> QED
  BY <1>1, Invariant, PTL DEF Spec, OnlyCurrentClaimWrites
-----------------------------------------------------------------------------
(* AuditStore implements AttemptLedger: what the tables say of an attempt,   *)
(* and the step of the ledger that each transaction is.                      *)

\* What callers see of an attempt.
Entry(row) ==
    [state |-> IF row.state = "outcome_recorded" THEN "settled" ELSE "open",
     outcome |-> row.recorded]

IsLedger(l) == l = [a \in Auths |-> [x \in Actions |-> l[a][x]]]

\* The ledgers agree on every action but this one.
AgreeBut(l, m, b, y) ==
    \A a \in Auths, x \in Actions : a # b \/ x # y => m[a][x] = l[a][x]

\* A ledger that has the attempts of the table and no other.
LedgerOf(rows, l) ==
    /\ IsLedger(l)
    /\ \A i \in DOMAIN rows : l[rows[i].auth][rows[i].action] = Entry(rows[i])
    /\ \A a \in Auths, x \in Actions :
          (\A i \in DOMAIN rows : ~(rows[i].auth = a /\ rows[i].action = x))
              => l[a][x] = Ledger!Untried

\* UNIQUE(authorization_id, action_id) makes the choice of the row irrelevant.
LEMMA LedgerIs == IInv => LedgerOf(intents, ledgerBar)
<1> SUFFICES ASSUME IInv PROVE LedgerOf(intents, ledgerBar)
  OBVIOUS
<1>1. TypeOK /\ OneAttemptPerAction
  BY DEF IInv, DurableInv
<1>2. IsLedger(ledgerBar)
  BY DEF ledgerBar, IsLedger
<1>3. ASSUME NEW i \in DOMAIN intents
      PROVE  ledgerBar[intents[i].auth][intents[i].action] = Entry(intents[i])
  <2> DEFINE a == intents[i].auth
             x == intents[i].action
  <2>1. a \in Auths /\ x \in Actions
    BY <1>1, FenceIndexes DEF IntentRow
  <2>2. i \in Attempts(a, x) /\ \A j \in Attempts(a, x) : j = i
    BY <1>1 DEF Attempts, OneAttemptPerAction
  <2>3. Attempts(a, x) # {} /\ (CHOOSE j \in Attempts(a, x) : TRUE) = i
    BY <2>2
  <2> HIDE DEF a, x
  <2>4. ledgerBar[a][x] = Entry(intents[i])
    BY <2>1, <2>3 DEF ledgerBar, Entry
  <2> QED BY <2>4 DEF a, x
<1>4. ASSUME NEW a \in Auths, NEW x \in Actions,
             \A i \in DOMAIN intents : ~(intents[i].auth = a /\ intents[i].action = x)
      PROVE  ledgerBar[a][x] = Ledger!Untried
  <2>1. Attempts(a, x) = {}
    BY <1>4 DEF Attempts
  <2> QED BY <2>1 DEF ledgerBar, Ledger!Untried
<1> QED BY <1>2, <1>3, <1>4 DEF LedgerOf

LEMMA LedgerIsNext == IInv' => LedgerOf(intents', ledgerBar')
<1>1. IInv' => LedgerOf(intents, ledgerBar)'
  BY LedgerIs, PTL
<1>2. LedgerOf(intents, ledgerBar)' => LedgerOf(intents', ledgerBar')
  BY DEF LedgerOf
<1> QED BY <1>1, <1>2

\* Ledgers that agree on every action are one ledger.
LEMMA LedgersAgree ==
    ASSUME NEW l, NEW m,
           IsLedger(l), IsLedger(m),
           \A a \in Auths, x \in Actions : m[a][x] = l[a][x]
    PROVE  m = l
<1> USE DEF IsLedger
<1>1. \A a \in Auths : [x \in Actions |-> m[a][x]] = [x \in Actions |-> l[a][x]]
  OBVIOUS
<1>2. [a \in Auths |-> [x \in Actions |-> m[a][x]]]
        = [a \in Auths |-> [x \in Actions |-> l[a][x]]]
  BY <1>1
<1> QED BY <1>2

\* Ledgers that agree on every action but one.
LEMMA LedgersDiffer ==
    ASSUME NEW l, NEW m,
           IsLedger(l), IsLedger(m), NEW b \in Auths, NEW y \in Actions,
           AgreeBut(l, m, b, y)
    PROVE  m = [l EXCEPT ![b] = [@ EXCEPT ![y] = m[b][y]]]
<1>0. PICK entry : entry = m[b][y]
  OBVIOUS
<1> USE DEF IsLedger, AgreeBut
<1> DEFINE n == [l EXCEPT ![b] = [@ EXCEPT ![y] = entry]]
<1>1. n = [a \in Auths |-> IF a = b THEN [l[b] EXCEPT ![y] = entry] ELSE l[a]]
  OBVIOUS
<1>2. l[b] = [x \in Actions |-> l[b][x]]
  OBVIOUS
<1>3. [l[b] EXCEPT ![y] = entry] = [x \in Actions |-> IF x = y THEN entry ELSE l[b][x]]
  BY <1>2
<1>4. [x \in Actions |-> IF x = y THEN entry ELSE l[b][x]] = [x \in Actions |-> m[b][x]]
  BY <1>0
<1>5. \A a \in Auths : a # b => l[a] = [x \in Actions |-> m[a][x]]
  <2> SUFFICES ASSUME NEW a \in Auths, a # b PROVE l[a] = [x \in Actions |-> m[a][x]]
    OBVIOUS
  <2>1. l[a] = [x \in Actions |-> l[a][x]]
    OBVIOUS
  <2> QED BY <2>1
<1> HIDE DEF n
<1>6. n = [a \in Auths |-> [x \in Actions |-> m[a][x]]]
  BY <1>1, <1>3, <1>4, <1>5
<1> QED BY <1>0, <1>6 DEF n

\* Tables that say the same of every attempt.
LEMMA SameEntries ==
    ASSUME NEW rows, NEW next, NEW l, NEW m, LedgerOf(rows, l), LedgerOf(next, m),
           DOMAIN next = DOMAIN rows,
           \A i \in DOMAIN rows : /\ next[i].auth = rows[i].auth
                                  /\ next[i].action = rows[i].action
                                  /\ Entry(next[i]) = Entry(rows[i])
    PROVE  m = l
<1>1. ASSUME NEW a \in Auths, NEW x \in Actions PROVE m[a][x] = l[a][x]
  <2>1. CASE \A i \in DOMAIN rows : ~(rows[i].auth = a /\ rows[i].action = x)
    <3>1. \A i \in DOMAIN next : ~(next[i].auth = a /\ next[i].action = x)
      BY <2>1
    <3> QED BY <2>1, <3>1 DEF LedgerOf
  <2>2. ASSUME NEW i \in DOMAIN rows, rows[i].auth = a, rows[i].action = x
        PROVE  m[a][x] = l[a][x]
    BY <2>2 DEF LedgerOf
  <2> QED BY <2>1, <2>2
<1> QED BY <1>1, LedgersAgree DEF LedgerOf

\* A row that changes changes the entry of its attempt.
LEMMA OtherEntry ==
    ASSUME NEW rows, NEW next, NEW l, NEW m, LedgerOf(rows, l), LedgerOf(next, m),
           DOMAIN next = DOMAIN rows, NEW i \in DOMAIN rows,
           NEW b \in Auths, NEW y \in Actions,
           rows[i].auth = b, rows[i].action = y, next[i].auth = b, next[i].action = y,
           \A j \in DOMAIN rows \ {i} : next[j] = rows[j],
           \A j \in DOMAIN rows : rows[j].auth = b /\ rows[j].action = y => j = i
    PROVE  /\ l[b][y] = Entry(rows[i])
           /\ m = [l EXCEPT ![b] = [@ EXCEPT ![y] = Entry(next[i])]]
<1>1. l[b][y] = Entry(rows[i]) /\ m[b][y] = Entry(next[i])
  BY DEF LedgerOf
<1>2. ASSUME NEW a \in Auths, NEW x \in Actions, a # b \/ x # y
      PROVE  m[a][x] = l[a][x]
  <2>1. CASE \A j \in DOMAIN rows : ~(rows[j].auth = a /\ rows[j].action = x)
    <3>1. \A j \in DOMAIN next : ~(next[j].auth = a /\ next[j].action = x)
      BY <1>2, <2>1
    <3> QED BY <2>1, <3>1 DEF LedgerOf
  <2>2. ASSUME NEW j \in DOMAIN rows, rows[j].auth = a, rows[j].action = x
        PROVE  m[a][x] = l[a][x]
    <3>1. next[j] = rows[j]
      BY <1>2, <2>2
    <3> QED BY <2>2, <3>1 DEF LedgerOf
  <2> QED BY <2>1, <2>2
<1>4. IsLedger(l) /\ IsLedger(m) /\ AgreeBut(l, m, b, y)
  BY <1>2 DEF LedgerOf, AgreeBut
<1>5. m = [l EXCEPT ![b] = [@ EXCEPT ![y] = m[b][y]]]
  BY <1>4, LedgersDiffer
<1> QED BY <1>1, <1>5

\* The table has one row more, for an action not attempted before.
AddsRow(rows, next, i, b, y) ==
    /\ i \in DOMAIN next /\ i \notin DOMAIN rows
    /\ \A j \in DOMAIN next : j \in DOMAIN rows \/ j = i
    /\ \A j \in DOMAIN rows : j \in DOMAIN next /\ next[j] = rows[j]
    /\ next[i].auth = b /\ next[i].action = y
    /\ \A j \in DOMAIN rows : ~(rows[j].auth = b /\ rows[j].action = y)

\* A row that is new makes an entry where there was none.
LEMMA NewEntry ==
    ASSUME NEW rows, NEW next, NEW l, NEW m, LedgerOf(rows, l), LedgerOf(next, m),
           NEW i, NEW b \in Auths, NEW y \in Actions, AddsRow(rows, next, i, b, y)
    PROVE  /\ l[b][y] = Ledger!Untried
           /\ m = [l EXCEPT ![b] = [@ EXCEPT ![y] = Entry(next[i])]]
<1> USE DEF AddsRow
<1>1. l[b][y] = Ledger!Untried /\ m[b][y] = Entry(next[i])
  BY DEF LedgerOf
<1>2. ASSUME NEW a \in Auths, NEW x \in Actions, a # b \/ x # y
      PROVE  m[a][x] = l[a][x]
  <2>1. CASE \A j \in DOMAIN rows : ~(rows[j].auth = a /\ rows[j].action = x)
    <3>1. \A j \in DOMAIN next : ~(next[j].auth = a /\ next[j].action = x)
      BY <1>2, <2>1
    <3> QED BY <2>1, <3>1 DEF LedgerOf
  <2>2. ASSUME NEW j \in DOMAIN rows, rows[j].auth = a, rows[j].action = x
        PROVE  m[a][x] = l[a][x]
    <3>1. next[j] = rows[j] /\ j \in DOMAIN next
      BY <2>2
    <3> QED BY <2>2, <3>1 DEF LedgerOf
  <2> QED BY <2>1, <2>2
<1>4. IsLedger(l) /\ IsLedger(m) /\ AgreeBut(l, m, b, y)
  BY <1>2 DEF LedgerOf, AgreeBut
<1>5. m = [l EXCEPT ![b] = [@ EXCEPT ![y] = m[b][y]]]
  BY <1>4, LedgersDiffer
<1> QED BY <1>1, <1>5

\* Calls that fail, and those that only touch objects, the lock or the fence.
LEMMA LedgerIdle ==
    ASSUME UNCHANGED <<auths, intents>>
    PROVE  UNCHANGED <<phaseBar, ledgerBar>>
BY DEF phaseBar, ledgerBar, Attempts

\* A transaction that leaves the attempts alone and moves one authorization on.
LEMMA PhaseMoves ==
    ASSUME TypeOK, UNCHANGED intents, NEW a \in Auths, NEW state,
           auths' \in [Auths -> AuthRow], auths'[a].state = state,
           \A b \in Auths : b # a => auths'[b] = auths[b]
    PROVE  /\ phaseBar[a] = auths[a].state
           /\ phaseBar' = [phaseBar EXCEPT ![a] = state]
           /\ UNCHANGED ledgerBar
<1>1. ledgerBar' = ledgerBar
  BY DEF ledgerBar, Attempts
<1>2. phaseBar[a] = auths[a].state
  BY DEF phaseBar
<1>3. \A b \in Auths : auths'[b].state = IF b = a THEN state ELSE auths[b].state
  OBVIOUS
<1>4. [b \in Auths |-> auths'[b].state]
        = [b \in Auths |-> IF b = a THEN state ELSE auths[b].state]
  BY <1>3
<1>5. phaseBar' = [phaseBar EXCEPT ![a] = state]
  BY <1>4 DEF phaseBar
<1> QED BY <1>1, <1>2, <1>5

\* register_authorization, claim_execution and claim_recovery.
LEMMA StoreLedger ==
    ASSUME IInv, IInv', NEW s \in Stores, NEW a \in Auths,
           Register(s, a) \/ ClaimExecution(s, a) \/ ClaimRecovery(s, a)
    PROVE  Ledger!Next \/ UNCHANGED <<phaseBar, ledgerBar>>
<1>1. TypeOK /\ TypeOK'
  BY DEF IInv
<1>2. auths \in [Auths -> AuthRow] /\ auths' \in [Auths -> AuthRow]
  BY <1>1 DEF TypeOK
<1>3. CASE Register(s, a)
  <2>1. /\ UNCHANGED intents /\ auths[a].state = "absent"
        /\ auths' = [auths EXCEPT ![a].state = "unused"]
    BY <1>3 DEF Register
  <2>2. auths'[a].state = "unused" /\ \A b \in Auths : b # a => auths'[b] = auths[b]
    BY <1>2, <2>1 DEF AuthRow
  <2>3. Ledger!Register(a)
    BY <1>1, <1>2, <2>1, <2>2, PhaseMoves DEF Ledger!Register, Ledger!Advance
  <2> QED BY <2>3 DEF Ledger!Next
<1>4. ASSUME NEW kind \in {"execution", "recovery"}, ClaimSession(s, a, kind)
      PROVE  Ledger!Next \/ UNCHANGED <<phaseBar, ledgerBar>>
  <2>1. /\ UNCHANGED intents
        /\ auths[a].state = IF kind = "recovery" THEN "claimed" ELSE "unused"
        /\ auths' = [auths EXCEPT ![a] = [state |-> "claimed", fence |-> Len(execs) + 1,
                                          exec |-> Len(execs) + 1]]
    BY <1>4 DEF ClaimSession
  <2>2. auths'[a].state = "claimed" /\ \A b \in Auths : b # a => auths'[b] = auths[b]
    BY <1>2, <2>1
  <2>3. /\ phaseBar[a] = auths[a].state
        /\ phaseBar' = [phaseBar EXCEPT ![a] = "claimed"]
        /\ UNCHANGED ledgerBar
    BY <1>1, <1>2, <2>1, <2>2, PhaseMoves
  <2>4. CASE kind = "execution"
    <3>1. Ledger!Claim(a)
      BY <2>1, <2>3, <2>4 DEF Ledger!Claim, Ledger!Advance
    <3> QED BY <3>1 DEF Ledger!Next
  <2>5. CASE kind = "recovery"
    <3>1. phaseBar' = phaseBar
      BY <2>1, <2>3, <2>5 DEF phaseBar
    <3> QED BY <2>3, <3>1
  <2> QED BY <2>4, <2>5
<1> QED BY <1>3, <1>4 DEF ClaimExecution, ClaimRecovery

\* reserve_intent_once is the attempt.
LEMMA ReserveLedger ==
    ASSUME IInv, LedgerOf(intents, ledgerBar), LedgerOf(intents', ledgerBar'),
           NEW s \in Stores, NEW f \in DOMAIN claims, NEW x \in Actions,
           NEW path \in Paths, ReserveIntent(s, f, x, path)
    PROVE  Ledger!Next
<1> DEFINE a == execs[f].auth
           i == Len(intents) + 1
<1>1. TypeOK
  BY DEF IInv
<1>2. a \in Auths
  BY <1>1, FenceIndexes DEF ExecRow
<1>3. /\ intents' \in Seq(IntentRow) /\ Len(intents') = i
      /\ intents'[i] = [auth |-> a, action |-> x, path |-> path, fence |-> f,
                        state |-> "reserved", recorded |-> NoOutcome, classed |-> "none"]
      /\ \A j \in DOMAIN intents : intents'[j] = intents[j]
  BY <1>1, ReserveEffect
<1>4. /\ auths[a].state = "claimed" /\ UNCHANGED auths
      /\ \A j \in IntentsOf(a) : intents[j].action # x
  BY DEF ReserveIntent, LiveClaimValid
<1>5. i \notin DOMAIN intents /\ DOMAIN intents' = DOMAIN intents \cup {i}
  BY <1>1, <1>3, FenceIndexes
<1>6. intents'[i].auth = a /\ intents'[i].action = x /\ Entry(intents'[i]) = Ledger!Open
  BY <1>3 DEF Entry, Ledger!Open
<1>7. \A j \in DOMAIN intents : ~(intents[j].auth = a /\ intents[j].action = x)
  BY <1>4 DEF IntentsOf
<1> HIDE DEF a, i
<1>8. /\ ledgerBar[a][x] = Ledger!Untried
      /\ ledgerBar' = [ledgerBar EXCEPT ![a] = [@ EXCEPT ![x] = Ledger!Open]]
  <2>1. AddsRow(intents, intents', i, a, x)
    BY <1>3, <1>5, <1>6, <1>7 DEF AddsRow
  <2>2. PICK next, l, m : next = intents' /\ l = ledgerBar /\ m = ledgerBar'
    OBVIOUS
  <2>3. LedgerOf(intents, l) /\ LedgerOf(next, m) /\ AddsRow(intents, next, i, a, x)
    BY <2>1, <2>2
  <2>4. /\ l[a][x] = Ledger!Untried
        /\ m = [l EXCEPT ![a] = [@ EXCEPT ![x] = Entry(next[i])]]
    BY <1>2, <2>3, NewEntry
  <2> QED BY <1>6, <2>2, <2>4
<1>9. phaseBar[a] = "claimed" /\ phaseBar' = phaseBar
  BY <1>2, <1>4 DEF phaseBar
<1>10. Ledger!Attempt(a, x)
  BY <1>8, <1>9 DEF Ledger!Attempt, Ledger!Write
<1> QED BY <1>2, <1>10 DEF Ledger!Next

\* record_outcome and record_recovery_outcome settle it.
LEMMA OutcomeLedger ==
    ASSUME IInv, LedgerOf(intents, ledgerBar), LedgerOf(intents', ledgerBar'),
           NEW f \in DOMAIN claims, NEW i \in DOMAIN intents, NEW outcome \in Outcomes,
           RecordRow(i, outcome), LiveClaimValid(f), i \in IntentsOf(execs[f].auth),
           intents[i].state # "outcome_recorded", UNCHANGED auths
    PROVE  Ledger!Next
<1> DEFINE a == intents[i].auth
           x == intents[i].action
<1>1. TypeOK /\ OutcomeRowsMatch /\ OneAttemptPerAction
  BY DEF IInv, DurableInv
<1>2. a \in Auths /\ x \in Actions /\ intents[i] \in IntentRow
  BY <1>1, FenceIndexes DEF IntentRow
<1>3. /\ DOMAIN intents' = DOMAIN intents
      /\ intents'[i] = [intents[i] EXCEPT !.state = "outcome_recorded",
                                          !.recorded = outcome, !.classed = "none"]
      /\ \A j \in DOMAIN intents \ {i} : intents'[j] = intents[j]
  BY <1>1, OutcomeEffect
<1>4. Entry(intents[i]) = Ledger!Open
  BY <1>1 DEF Entry, Ledger!Open, OutcomeRowsMatch
<1>5. /\ intents'[i].auth = a /\ intents'[i].action = x
      /\ Entry(intents'[i]) = Ledger!Settled(outcome)
  BY <1>2, <1>3 DEF Entry, Ledger!Settled, IntentRow
<1>6. \A j \in DOMAIN intents : intents[j].auth = a /\ intents[j].action = x => j = i
  BY <1>1 DEF OneAttemptPerAction
<1>7. /\ ledgerBar[a][x] = Entry(intents[i])
      /\ ledgerBar' = [ledgerBar EXCEPT ![a] = [@ EXCEPT ![x] = Entry(intents'[i])]]
  <2>1. PICK next, l, m : next = intents' /\ l = ledgerBar /\ m = ledgerBar'
    OBVIOUS
  <2>2. LedgerOf(intents, l) /\ LedgerOf(next, m)
    BY <2>1
  <2>3. /\ DOMAIN next = DOMAIN intents
        /\ \A j \in DOMAIN intents \ {i} : next[j] = intents[j]
    BY <1>3, <2>1
  <2>4. next[i].auth = a /\ next[i].action = x
    BY <1>5, <2>1
  <2>5. intents[i].auth = a /\ intents[i].action = x
    OBVIOUS
  <2> HIDE DEF a, x
  <2>6. /\ l[a][x] = Entry(intents[i])
        /\ m = [l EXCEPT ![a] = [@ EXCEPT ![x] = Entry(next[i])]]
    BY <1>2, <1>6, <2>2, <2>3, <2>4, <2>5, OtherEntry
  <2> QED BY <2>1, <2>6
<1>8. a = execs[f].auth /\ auths[a].state = "claimed"
  BY DEF IntentsOf, LiveClaimValid
<1> HIDE DEF a, x
<1>9. phaseBar[a] = "claimed" /\ phaseBar' = phaseBar
  BY <1>2, <1>8 DEF phaseBar
<1>10. Ledger!Settle(a, x, outcome)
  BY <1>4, <1>5, <1>7, <1>9 DEF Ledger!Settle, Ledger!Write
<1> QED BY <1>2, <1>10 DEF Ledger!Next

\* A classification changes nothing callers see of an attempt.
LEMMA ClassifyLedger ==
    ASSUME IInv, LedgerOf(intents, ledgerBar), LedgerOf(intents', ledgerBar'),
           NEW s \in Stores, ClassifyCommit(s)
    PROVE  UNCHANGED <<phaseBar, ledgerBar>>
<1> DEFINE pending == observing[s].pending
<1>1. TypeOK
  BY DEF IInv
<1>2. /\ DOMAIN intents' = DOMAIN intents
      /\ \A i \in DOMAIN intents \ pending : intents'[i] = intents[i]
      /\ \A i \in DOMAIN intents \cap pending : \E state \in Classified :
            /\ intents[i].state = "reserved"
            /\ intents'[i] = [intents[i] EXCEPT !.state = state, !.classed = state]
  BY <1>1, ClassifyEffect
<1>3. ASSUME NEW i \in DOMAIN intents
      PROVE  /\ intents'[i].auth = intents[i].auth
             /\ intents'[i].action = intents[i].action
             /\ Entry(intents'[i]) = Entry(intents[i])
  <2>1. intents[i] \in IntentRow
    BY <1>1, FenceIndexes
  <2>2. CASE i \in pending
    <3>1. PICK state \in Classified :
             /\ intents[i].state = "reserved"
             /\ intents'[i] = [intents[i] EXCEPT !.state = state, !.classed = state]
      BY <1>2, <2>2
    <3>2. state # "outcome_recorded"
      BY DEF Classified
    <3> QED BY <2>1, <3>1, <3>2 DEF Entry, IntentRow
  <2>3. CASE i \notin pending
    BY <1>2, <2>3
  <2> QED BY <2>2, <2>3
<1>4. ledgerBar' = ledgerBar
  BY <1>2, <1>3, SameEntries
<1>5. phaseBar' = phaseBar
  BY DEF ClassifyCommit, phaseBar
<1> QED BY <1>4, <1>5

\* consume_execution ends the authorization when every attempt has an outcome.
LEMMA ConsumeLedger ==
    ASSUME IInv, IInv', LedgerOf(intents, ledgerBar), NEW f \in DOMAIN claims,
           ConsumeRows(f)
    PROVE  Ledger!Next
<1> DEFINE a == execs[f].auth
<1>1. TypeOK /\ TypeOK'
  BY DEF IInv
<1>2. a \in Auths
  BY <1>1, FenceIndexes DEF ExecRow
<1>3. /\ UNCHANGED intents /\ auths[a].state = "claimed" /\ Unresolved(a) = {}
      /\ auths' = [auths EXCEPT ![a].state = "consumed", ![a].exec = 0]
  BY DEF ConsumeRows
<1> HIDE DEF a
<1>4. auths \in [Auths -> AuthRow] /\ auths' \in [Auths -> AuthRow]
  BY <1>1 DEF TypeOK
<1>5. auths'[a].state = "consumed" /\ \A b \in Auths : b # a => auths'[b] = auths[b]
  BY <1>2, <1>3, <1>4 DEF AuthRow
<1>6. /\ phaseBar[a] = "claimed"
      /\ phaseBar' = [phaseBar EXCEPT ![a] = "consumed"]
      /\ UNCHANGED ledgerBar
  BY <1>1, <1>2, <1>3, <1>4, <1>5, PhaseMoves
<1>7. ASSUME NEW x \in Actions PROVE ledgerBar[a][x].state # "open"
  <2>1. CASE \A i \in DOMAIN intents : ~(intents[i].auth = a /\ intents[i].action = x)
    <3>1. ledgerBar[a][x] = Ledger!Untried
      BY <1>2, <2>1 DEF LedgerOf
    <3> QED BY <3>1 DEF Ledger!Untried
  <2>2. ASSUME NEW i \in DOMAIN intents, intents[i].auth = a, intents[i].action = x
        PROVE  ledgerBar[a][x].state # "open"
    <3>1. intents[i].state = "outcome_recorded"
      BY <1>3, <2>2 DEF Unresolved, IntentsOf
    <3>2. ledgerBar[a][x] = Entry(intents[i])
      BY <2>2 DEF LedgerOf
    <3> QED BY <3>1, <3>2 DEF Entry
  <2> QED BY <2>1, <2>2
<1>8. Ledger!Consume(a)
  BY <1>6, <1>7 DEF Ledger!Consume, Ledger!Advance
<1> QED BY <1>2, <1>8 DEF Ledger!Next

\* Every transaction is a step of the ledger or none.
LEMMA LedgerStep ==
    ASSUME IInv, IInv', LedgerOf(intents, ledgerBar), LedgerOf(intents', ledgerBar'),
           [Next]_vars
    PROVE  Ledger!Next \/ UNCHANGED <<phaseBar, ledgerBar>>
<1>1. CASE UNCHANGED vars
  BY <1>1, LedgerIdle DEF vars
<1>2. ASSUME NEW s \in Stores, StoreStep(s)
      PROVE  Ledger!Next \/ UNCHANGED <<phaseBar, ledgerBar>>
  <2>1. CASE ClassifyCommit(s)
    BY <2>1, ClassifyLedger
  <2>2. CASE ClassifyAbort(s)
    BY <2>2, LedgerIdle DEF ClassifyAbort, durable
  <2> QED BY <1>2, <2>1, <2>2, StoreLedger DEF StoreStep
<1>3. ASSUME NEW s \in Stores, NEW f \in DOMAIN claims, ClaimStep(s, f)
      PROVE  Ledger!Next \/ UNCHANGED <<phaseBar, ledgerBar>>
  <2>1. ASSUME NEW x \in Actions, NEW path \in Paths, ReserveIntent(s, f, x, path)
        PROVE  Ledger!Next
    BY <2>1, ReserveLedger
  <2>2. ASSUME NEW i \in DOMAIN intents, NEW outcome \in Outcomes,
               RecordOutcome(s, f, i, outcome) \/ RecordRecoveryOutcome(s, f, i, outcome)
        PROVE  Ledger!Next
    <3>1. /\ RecordRow(i, outcome) /\ LiveClaimValid(f) /\ i \in IntentsOf(execs[f].auth)
          /\ intents[i].state # "outcome_recorded" /\ UNCHANGED auths
      BY <2>2 DEF RecordOutcome, RecordRecoveryOutcome, TokenValid, Unresolved
    <3> QED BY <3>1, OutcomeLedger
  <2>3. CASE ClassifyBegin(s, f)
    BY <2>3, LedgerIdle DEF ClassifyBegin, durable
  <2>4. CASE ConsumeExecution(s, f)
    <3>1. ConsumeRows(f) \/ UNCHANGED <<auths, intents>>
      BY <2>4 DEF ConsumeExecution, durable
    <3> QED BY <3>1, ConsumeLedger, LedgerIdle
  <2> QED BY <1>3, <2>1, <2>2, <2>3, <2>4 DEF ClaimStep
<1>4. ASSUME NEW f \in DOMAIN claims, ObjectStep(f)
      PROVE  UNCHANGED <<auths, intents>>
  BY <1>4 DEF ObjectStep, DropClaim, ArmNativeIntent, Disarm, durable
<1>5. ASSUME NEW p \in Procs, Crash(p)
      PROVE  UNCHANGED <<auths, intents>>
  BY <1>5 DEF Crash, durable
<1> QED
  BY <1>1, <1>2, <1>3, <1>4, <1>5, LedgerIdle DEF Next

\* Nothing was attempted before the store existed.
LEMMA LedgerInit == Init => Ledger!Init
<1> SUFFICES ASSUME Init PROVE Ledger!Init
  OBVIOUS
<1>1. phaseBar = [a \in Auths |-> "absent"]
  BY DEF Init, phaseBar, AbsentAuth
<1>2. \A a \in Auths, x \in Actions : Attempts(a, x) = {}
  BY DEF Init, Attempts
<1>3. ledgerBar = [a \in Auths |-> [x \in Actions |-> Ledger!Untried]]
  BY <1>2 DEF ledgerBar, Ledger!Untried
<1> QED BY <1>1, <1>3 DEF Ledger!Init

\* The store keeps the promise of AttemptLedger: whatever processes, crashes,
\* refused commits and recoveries, an action is attempted at most once, its
\* outcome is written once, by a claimed authorization, and the authorization
\* ends only when every attempt has one.
THEOREM LedgerTheorem == Spec => ImplementsLedger
<1>1. IInv /\ IInv' /\ [Next]_vars => [Ledger!Next]_<<phaseBar, ledgerBar>>
  BY LedgerIs, LedgerIsNext, LedgerStep
<1> QED BY <1>1, LedgerInit, Invariant, PTL DEF Spec, ImplementsLedger, Ledger!Spec
=============================================================================
