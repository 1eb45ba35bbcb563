------------------------- MODULE PermanentDirectory -------------------------
(***************************************************************************)
(* `sweepx delete DIRECTORY`: the directory half of                        *)
(* crates/sweepx-cli/src/permanent_delete_command.rs.                      *)
(*                                                                         *)
(* The command captures a closed manifest of the tree in postorder, asks   *)
(* for the plan digest, and then removes one manifest entry after the      *)
(* other with unlinkat: a durable intent, a fresh preflight, the system    *)
(* call, a durable outcome.  Other programs keep changing the tree, every  *)
(* audit call and system call can fail, and the process can die.           *)
(*                                                                         *)
(* Manifest entry i is the name i in the planned directory Parent[i]; the  *)
(* root is the last entry.  The audit store is AttemptLedger, which        *)
(* AuditStore implements.                                                  *)
(***************************************************************************)
EXTENDS Integers, FiniteSets

CONSTANTS
    Size,         \* number of manifest actions
    Directories,  \* the manifest entries that are directories
    Ancestors,    \* Ancestors[i]: the planned directories above entry i
    Plan,         \* the authorization made from this manifest
    NoOutcome,
    MaxChanges    \* how often other programs touch the tree

Actions == 1 .. Size
Above == 0  \* the directories above the root, as a place for a marker

ASSUME PermanentDirectoryAssumption ==
    /\ Size \in Nat \ {0}
    /\ MaxChanges \in Nat
    /\ Directories \subseteq Actions
    /\ Size \in Directories
    /\ Ancestors \in [Actions -> SUBSET Directories]
    /\ \A i \in Actions : \A d \in Ancestors[i] :
            d > i /\ Ancestors[d] \subseteq Ancestors[i]
    /\ \A i \in Actions \ {Size} : Size \in Ancestors[i]
    /\ NoOutcome \notin {"succeeded", "failed_unchanged", "failed_unknown",
                         "indeterminate"}

VARIABLES
    entry,    \* what each manifest name holds
    extra,    \* the planned directories that hold an unplanned name
    marker,   \* where a .sweepx-protect entry exists
    moved,    \* the parent path no longer leads to the retained parent
    changes,  \* changes other programs have made
    expired,  \* APPROVAL_TTL has passed
    phase,    \* AttemptLedger: of the authorization
    ledger,   \* AttemptLedger: of each action
    pc,       \* the step of submit and execute_action that comes next
    current,  \* the action it is about
    walk,     \* directories prepare_action has still to open
    call,     \* unlinkat, sync_all and metadata_at of the current action
    stopped,  \* the action whose execute_action returned an error, or 0
    result,   \* what submit returned
    removed,  \* history: what unlinkat removed at each name
    raced,    \* history: names changed between their identity check and unlinkat
    guarded   \* history: the markers there were when the preflight began

tree == <<entry, extra, marker, moved, changes>>
audit == <<phase, ledger>>
program == <<pc, current, walk, call, stopped, result>>
history == <<removed, raced, guarded>>
vars == <<entry, extra, marker, moved, changes, expired, phase, ledger,
          pc, current, walk, call, stopped, result, removed, raced, guarded>>

-----------------------------------------------------------------------------

\* "modified": the planned object with other metadata; "swapped": another
\* object of the user's under the planned name.
Contents == {"planned", "modified", "swapped", "absent"}
Outcomes == {"succeeded", "failed_unchanged", "failed_unknown", "indeterminate"}
Results == {"none", "ok", "cancelled", "expired", "refused", "audit",
            "partial", "post_submit_audit"}
Steps == {"confirm", "submit", "register", "claim", "reserve", "arm", "above",
          "binding", "walk", "target", "inside", "expiry", "refuse", "unlink",
          "sync", "postcheck", "record", "skip_reserve", "skip_record",
          "consume", "done", "crashed"}
NoCall == [unlink |-> "none", sync |-> "none", seen |-> "none",
           refused |-> "none"]

\* The audit store, opened in the permanent-delete-audit namespace.
Audit == INSTANCE AttemptLedger WITH Auths <- {Plan}

Attempted(i) == ledger[Plan][i]

TypeOK ==
    /\ entry \in [Actions -> Contents]
    /\ extra \subseteq Directories
    /\ marker \subseteq Directories \cup {Above}
    /\ moved \in BOOLEAN
    /\ changes \in 0 .. MaxChanges
    /\ expired \in BOOLEAN
    /\ phase \in [{Plan} -> {"absent", "unused", "claimed", "consumed"}]
    /\ ledger \in [{Plan} -> [Actions ->
            [state : {"untried", "open", "settled"},
             outcome : Outcomes \cup {NoOutcome}]]]
    /\ pc \in Steps
    /\ current \in Actions
    /\ walk \subseteq Directories
    /\ call \in [unlink : {"none", "removed", "failed"},
                 sync : {"none", "ok", "failed"},
                 seen : {"none", "matches", "other", "absent", "unreadable"},
                 refused : {"none", "failed_unchanged", "indeterminate"}]
    /\ stopped \in Actions \cup {0}
    /\ result \in Results
    /\ removed \in [Actions -> {"none", "planned", "modified", "swapped"}]
    /\ raced \subseteq Actions
    /\ guarded \subseteq Directories \cup {Above}

\* The state after PermanentDirectoryCandidate::capture and prepare_audit.
Init ==
    /\ entry = [i \in Actions |-> "planned"]
    /\ extra = {}
    /\ marker = {}
    /\ moved = FALSE
    /\ changes = 0
    /\ expired = FALSE
    /\ Audit!Init
    /\ pc = "confirm"
    /\ current = 1
    /\ walk = {}
    /\ call = NoCall
    /\ stopped = 0
    /\ result = "none"
    /\ removed = [i \in Actions |-> "none"]
    /\ raced = {}
    /\ guarded = {}

-----------------------------------------------------------------------------
(* Other programs.  A planned directory keeps its names wherever it is     *)
(* moved, because the command works relative to retained descriptors.      *)

\* The planned directory d has not been removed by this command.
Present(d) == removed[d] \notin {"planned", "modified"}

\* The directory that holds the name i.
Holder(i) == IF i = Size THEN Size
             ELSE CHOOSE d \in Ancestors[i] : \A e \in Ancestors[i] : d <= e

\* action_identity_matches: a directory may change its times, size and links.
Matches(i) == \/ entry[i] = "planned"
              \/ entry[i] = "modified" /\ i \in Directories

\* Adding or removing a name changes the metadata of the directory.
Touched(d) == IF entry[d] = "planned"
              THEN [entry EXCEPT ![d] = "modified"] ELSE entry

\* The current action has compared this name with the manifest.
Checked(i) == i = current /\ pc \in {"inside", "expiry", "unlink"}

Change(i) == raced' = IF Checked(i) THEN raced \cup {i} ELSE raced

Elsewhere == /\ changes < MaxChanges
             /\ changes' = changes + 1
             /\ UNCHANGED <<expired, audit, program, removed, guarded>>

ChangeEntry(i, content) ==
    /\ i # Size => Present(Holder(i))
    /\ entry[i] # content
    /\ entry' = [entry EXCEPT ![i] = content]
    /\ Change(i)
    /\ Elsewhere
    /\ UNCHANGED <<extra, marker, moved>>

RewriteFile(i) == /\ i \notin Directories
                  /\ entry[i] = "planned"
                  /\ ChangeEntry(i, "modified")
ReplaceEntry(i) == ChangeEntry(i, "swapped")
RemoveEntry(i) == ChangeEntry(i, "absent")
MoveDirectoryBack(d) == /\ Present(d)
                        /\ entry[d] \in {"swapped", "absent"}
                        /\ ChangeEntry(d, "modified")

ChangeExtra(d) ==
    /\ Present(d)
    /\ extra' = IF d \in extra THEN extra \ {d} ELSE extra \cup {d}
    /\ entry' = Touched(d)
    /\ Elsewhere
    /\ UNCHANGED <<marker, moved, raced>>

AddMarker(d) ==
    /\ d \notin marker
    /\ d # Above => Present(d)
    /\ marker' = marker \cup {d}
    /\ entry' = IF d = Above THEN entry ELSE Touched(d)
    /\ Elsewhere
    /\ UNCHANGED <<extra, moved, raced>>

MoveParent ==
    /\ ~moved
    /\ moved' = TRUE
    /\ Elsewhere
    /\ UNCHANGED <<entry, extra, marker, raced>>

Expire ==
    /\ ~expired
    /\ expired' = TRUE
    /\ UNCHANGED <<tree, audit, program, history>>

Others ==
    \/ \E i \in Actions : RewriteFile(i) \/ ReplaceEntry(i) \/ RemoveEntry(i)
    \/ \E d \in Directories :
          MoveDirectoryBack(d) \/ ChangeExtra(d) \/ AddMarker(d)
    \/ AddMarker(Above)
    \/ MoveParent
    \/ Expire

-----------------------------------------------------------------------------
(* The command.  Goto moves to another step of the same action.            *)

Goto(step) == /\ pc' = step
              /\ UNCHANGED <<current, walk, call, stopped, result>>

Return(outcome) == /\ pc' = "done"
                   /\ result' = outcome
                   /\ UNCHANGED <<current, walk, call, stopped>>

\* Leave execute_action with an error: submit goes on to record every later
\* action as not submitted, then consumes the execution.
Stop == /\ stopped' = current
        /\ IF current = Size
           THEN pc' = "consume" /\ UNCHANGED current
           ELSE pc' = "skip_reserve" /\ current' = current + 1
        /\ UNCHANGED <<walk, call, result>>

\* Go on with the next action, or with consume_execution after the last.
Continue(step) == IF current = Size
                  THEN Goto("consume")
                  ELSE /\ pc' = step
                       /\ current' = current + 1
                       /\ UNCHANGED <<walk, call, stopped, result>>

\* A call of the audit store either returns Ok, or returns an error before
\* or after its transaction committed.
MayCommit(Transaction) == Transaction \/ UNCHANGED audit

Quiet == UNCHANGED <<tree, expired, history>>

\* confirm_digest, and the first expiry check of run_cli_permanent_delete.
Confirm ==
    /\ pc = "confirm"
    /\ \/ Return("cancelled")
       \/ expired /\ Return("expired")
       \/ ~expired /\ Goto("submit")
    /\ UNCHANGED audit
    /\ Quiet

\* revalidate_manifest compares the complete identity of every entry.
ManifestUnchanged == /\ ~moved
                     /\ marker = {}
                     /\ extra = {}
                     /\ \A i \in Actions : entry[i] = "planned"

\* The checks at the start of submit.
Submit ==
    /\ pc = "submit"
    /\ \/ expired /\ Return("expired")
       \/ ~expired /\ ManifestUnchanged /\ Goto("register")
       \/ ~expired /\ Return("refused")
    /\ UNCHANGED audit
    /\ Quiet

\* register_native_authorization.
Register ==
    /\ pc = "register"
    /\ \/ Audit!Register(Plan) /\ Goto("claim")
       \/ MayCommit(Audit!Register(Plan)) /\ Return("audit")
    /\ Quiet

\* claim_execution.
Claim ==
    /\ pc = "claim"
    /\ \/ Audit!Claim(Plan) /\ Goto("reserve")
       \/ MayCommit(Audit!Claim(Plan)) /\ Return("audit")
    /\ Quiet

\* execute_action: reserve_intent.
Reserve ==
    /\ pc = "reserve"
    /\ \/ Audit!Attempt(Plan, current) /\ Goto("arm")
       \/ MayCommit(Audit!Attempt(Plan, current)) /\ Stop
    /\ Quiet

\* execute_action: arm_native_intent reads the audit store and writes nothing.
Arm ==
    /\ pc = "arm"
    /\ \/ Goto("above")
       \/ Stop
    /\ UNCHANGED audit
    /\ Quiet

\* prepare_action refused, or could not inspect something: no identity is
\* known, so record_not_submitted writes an indeterminate outcome.
Refuse(outcome) == /\ pc' = "refuse"
                   /\ call' = [NoCall EXCEPT !.refused = outcome]
                   /\ UNCHANGED <<current, walk, stopped, result>>

\* prepare_action: reject_protected_path and ensure_no_protection_marker.
CheckAbove ==
    /\ pc = "above"
    /\ guarded' = marker
    /\ raced' = {}
    /\ \/ Above \notin marker /\ Goto("binding")
       \/ Refuse("indeterminate")
    /\ UNCHANGED <<tree, expired, audit, removed>>

\* prepare_action: verify_root_binding; the walk starts at the root.
CheckBinding ==
    /\ pc = "binding"
    /\ \/ /\ ~moved
          /\ Matches(Size)
          /\ pc' = "walk"
          /\ walk' = Ancestors[current] \cup {Size}
          /\ UNCHANGED <<current, call, stopped, result>>
       \/ Refuse("indeterminate")
    /\ UNCHANGED audit
    /\ Quiet

\* Mutant: looks for a marker in the root only.
WalkPastMarkers ==
    /\ pc = "walk"
    /\ \/ walk = {} /\ Goto("target")
       \/ \E d \in walk :
             /\ \A e \in walk : e <= d
             /\ d = Size => d \notin marker
             /\ d # Size => Matches(d)
             /\ walk' = walk \ {d}
             /\ UNCHANGED <<pc, current, call, stopped, result>>
       \/ Refuse("indeterminate")
    /\ UNCHANGED audit
    /\ Quiet

\* prepare_action: open the next directory of the path, from the root down,
\* compare it with the manifest and look for a marker in it.
Walk ==
    /\ pc = "walk"
    /\ \/ walk = {} /\ Goto("target")
       \/ \E d \in walk :
             /\ \A e \in walk : e <= d
             /\ d \notin marker
             /\ d # Size => Matches(d)
             /\ walk' = walk \ {d}
             /\ UNCHANGED <<pc, current, call, stopped, result>>
       \/ Refuse("indeterminate")
    /\ UNCHANGED audit
    /\ Quiet

\* Mutant: leaves the identity of a directory to rmdir.
CheckFileTarget ==
    /\ pc = "target"
    /\ \/ /\ current \notin Directories => Matches(current)
          /\ IF current \in Directories \ {Size}
             THEN Goto("inside") ELSE Goto("expiry")
       \/ Refuse("indeterminate")
    /\ UNCHANGED audit
    /\ Quiet

\* prepare_action: metadata_at the name, compared with the manifest.
CheckTarget ==
    /\ pc = "target"
    /\ \/ /\ Matches(current)
          /\ IF current \in Directories \ {Size}
             THEN Goto("inside") ELSE Goto("expiry")
       \/ Refuse("indeterminate")
    /\ UNCHANGED audit
    /\ Quiet

\* prepare_action: no marker in the directory that is about to be removed,
\* which is opened by its name once more.
CheckInside ==
    /\ pc = "inside"
    /\ \/ /\ entry[current] # "absent"
          /\ Matches(current) => current \notin marker
          /\ Goto("expiry")
       \/ Refuse("indeterminate")
    /\ UNCHANGED audit
    /\ Quiet

\* execute_action: the last expiry check; here the identity is known.
CheckExpiry ==
    /\ pc = "expiry"
    /\ \/ ~expired /\ Goto("unlink")
       \/ expired /\ Refuse("failed_unchanged")
    /\ UNCHANGED audit
    /\ Quiet

\* record_not_submitted, then return the refusal.
RecordRefusal ==
    /\ pc = "refuse"
    /\ MayCommit(Audit!Settle(Plan, current, call.refused))
    /\ Stop
    /\ Quiet

\* rmdir refuses a directory that still holds a name; whether another object
\* under the planned name can be removed depends on what it is.
Removable(i) ==
    /\ entry[i] # "absent"
    /\ i \in Directories /\ Matches(i) =>
          /\ i \notin extra \cup marker
          /\ \A j \in Actions : j # i /\ Holder(j) = i => entry[j] = "absent"

\* execute_action: unlinkat relative to the descriptor prepare_action opened.
Unlink ==
    /\ pc = "unlink"
    /\ \/ /\ Removable(current)
          /\ entry' = [entry EXCEPT ![current] = "absent"]
          /\ removed' = [removed EXCEPT ![current] = entry[current]]
          /\ call' = [NoCall EXCEPT !.unlink = "removed"]
          /\ pc' = "sync"
       \/ /\ call' = [NoCall EXCEPT !.unlink = "failed"]
          /\ pc' = "postcheck"
          /\ UNCHANGED <<entry, removed>>
    /\ UNCHANGED <<extra, marker, moved, changes, expired, audit,
                   current, walk, stopped, result, raced, guarded>>

\* Mutant: reports the error at once, as PermanentFileCandidate::submit does.
SyncOrReturn ==
    /\ pc = "sync"
    /\ \/ \E sync \in {"ok", "failed"} :
             /\ call' = [call EXCEPT !.sync = sync]
             /\ pc' = "postcheck"
             /\ UNCHANGED <<current, walk, stopped, result>>
       \/ Return("partial")
    /\ UNCHANGED audit
    /\ Quiet

\* execute_action: sync_all of a duplicate of the parent descriptor.  When it
\* cannot be duplicated the function returns with the intent still open.
Sync ==
    /\ pc = "sync"
    /\ \/ \E sync \in {"ok", "failed"} :
             /\ call' = [call EXCEPT !.sync = sync]
             /\ pc' = "postcheck"
             /\ UNCHANGED <<current, walk, stopped, result>>
       \/ Stop
    /\ UNCHANGED audit
    /\ Quiet

\* execute_action: metadata_at the name, which may itself fail.
Postcheck ==
    /\ pc = "postcheck"
    /\ \E seen \in {"unreadable", IF Matches(current) THEN "matches"
                                  ELSE IF entry[current] = "absent" THEN "absent"
                                  ELSE "other"} :
          call' = [call EXCEPT !.seen = seen]
    /\ pc' = "record"
    /\ UNCHANGED <<current, walk, stopped, result, audit>>
    /\ Quiet

\* Mutant: takes the absence of the name for success.
OutcomeByAbsence ==
    CASE call.unlink = "failed" /\ call.seen = "matches" -> "failed_unchanged"
      [] call.seen = "absent" -> "succeeded"
      [] OTHER -> "indeterminate"

\* execute_action: what unlinkat, sync_all and metadata_at returned, as one of
\* the shapes validate_outcome_shape accepts.
Outcome ==
    CASE call.unlink = "failed" /\ call.seen = "matches" -> "failed_unchanged"
      [] call.unlink = "failed" /\ call.seen # "matches" -> "failed_unknown"
      [] call.unlink = "removed" /\ call.sync = "ok" /\ call.seen = "absent"
            -> "succeeded"
      [] OTHER -> "indeterminate"

\* execute_action: record_outcome, then the result of the action.
Record ==
    /\ pc = "record"
    /\ \/ /\ Audit!Settle(Plan, current, Outcome)
          /\ IF Outcome = "succeeded" THEN Continue("reserve") ELSE Stop
       \/ MayCommit(Audit!Settle(Plan, current, Outcome)) /\ Stop
    /\ Quiet

\* record_remaining_actions_not_submitted: reserve_intent for a later action.
SkipReserve ==
    /\ pc = "skip_reserve"
    /\ \/ Audit!Attempt(Plan, current) /\ Goto("skip_record")
       \/ MayCommit(Audit!Attempt(Plan, current)) /\ Return("post_submit_audit")
    /\ Quiet

\* record_remaining_actions_not_submitted: record_not_submitted for it.
SkipRecord ==
    /\ pc = "skip_record"
    /\ \/ /\ Audit!Settle(Plan, current, "indeterminate")
          /\ Continue("skip_reserve")
       \/ /\ MayCommit(Audit!Settle(Plan, current, "indeterminate"))
          /\ Return("post_submit_audit")
    /\ Quiet

\* Mutant: ignores the error of consume_execution.
ConsumeUnchecked ==
    /\ pc = "consume"
    /\ MayCommit(Audit!Consume(Plan))
    /\ Return(IF stopped = 0 THEN "ok" ELSE "partial")
    /\ Quiet

\* submit: consume_execution, which refuses while an intent is unresolved.
Consume ==
    /\ pc = "consume"
    /\ \/ /\ Audit!Consume(Plan)
          /\ Return(IF stopped = 0 THEN "ok" ELSE "partial")
       \/ MayCommit(Audit!Consume(Plan)) /\ Return("post_submit_audit")
    /\ Quiet

\* The process dies; the claim's lock is released, nothing else is undone.
Crash ==
    /\ pc \notin {"done", "crashed"}
    /\ Goto("crashed")
    /\ UNCHANGED audit
    /\ Quiet

Preflight == \/ CheckAbove \/ CheckBinding \/ Walk \/ CheckTarget
             \/ CheckInside \/ CheckExpiry \/ RecordRefusal

\* Everything submit does once the user has confirmed.
Run == \/ Submit \/ Register \/ Claim \/ Reserve \/ Arm \/ Preflight
       \/ Unlink \/ Sync \/ Postcheck \/ Record
       \/ SkipReserve \/ SkipRecord \/ Consume

Next == Confirm \/ Run \/ Crash \/ Others

Spec == Init /\ [][Next]_vars

\* A confirmed submit runs on one thread that the system schedules; nothing is
\* assumed of the user, of other programs, or of the clock.
FairSpec == Spec /\ WF_vars(Run)

-----------------------------------------------------------------------------
(* What the command promises.                                              *)

\* Every unlinkat that removed something was preceded by a committed intent,
\* and the intent is still there however the run, or the process, ended
\* (execute_action reserves and arms before it prepares and submits).
IntentBeforeRemoval ==
    \A i \in Actions :
        removed[i] # "none" => Attempted(i).state \in {"open", "settled"}

\* An outcome never says more than what happened to the name: success is only
\* recorded for a name this command removed, and a failure never for one
\* (the outcome table of execute_action, and record_not_submitted).
OutcomesAreTruthful ==
    \A i \in Actions :
        /\ Attempted(i).outcome = "succeeded" => removed[i] # "none"
        /\ removed[i] # "none" =>
              Attempted(i).outcome \notin {"failed_unchanged", "failed_unknown"}

\* A name is removed only when every manifest entry before it is durably
\* recorded as deleted: the loop of submit stops at the first action that
\* did not return Ok, whatever part of it failed.
EarlierActionsSucceeded ==
    \A i, j \in Actions :
        i < j /\ removed[j] # "none" =>
            Attempted(i) = Audit!Settled("succeeded")

\* What submit returns tells the truth about the audit store: an attempt
\* without an outcome is only left behind with PostSubmitAudit, Ok means that
\* the whole manifest was removed and the authorization ended, and an error
\* that is not Partial or PostSubmitAudit means that nothing was removed.
ResultMatchesAudit ==
    pc = "done" =>
        /\ (\E i \in Actions : Attempted(i).state = "open")
               => result = "post_submit_audit"
        /\ result \in {"ok", "partial"} => phase[Plan] = "consumed"
        /\ result = "ok" =>
               \A i \in Actions :
                   /\ removed[i] # "none"
                   /\ Attempted(i) = Audit!Settled("succeeded")
        /\ result \in {"cancelled", "expired", "refused", "audit"} =>
               \A i \in Actions : removed[i] = "none"

\* unlinkat removes what the manifest names, unless another program changed
\* the name after prepare_action compared it: the window between that
\* comparison and the system call is all that is left to a race.
OnlyApprovedOrRaced ==
    [][\A i \in Actions :
           removed'[i] # removed[i] => Matches(i) \/ i \in raced]_vars

\* A .sweepx-protect entry that exists when the preflight of an action begins,
\* in a directory above the action or in the directory to be removed, keeps
\* unlinkat from being called for it, wherever in the walk it is.
MarkerStopsRemoval ==
    [][\A i \in Actions :
           removed'[i] # removed[i] =>
               /\ (Ancestors[i] \cup {Size, Above}) \cap guarded = {}
               /\ Matches(i) => i \notin guarded]_vars

\* An attempt does not stay open for ever while the process runs: it gets its
\* outcome, or the user is told that the audit store needs a recovery.
EveryIntentIsAnswered ==
    \A i \in Actions :
        Attempted(i).state = "open" ~>
            \/ Attempted(i).state = "settled"
            \/ pc = "crashed"
            \/ pc = "done" /\ result = "post_submit_audit"

\* docs/ROADMAP.md:75, "Each action has durable intent, an actual platform
\* result, reconciliation, and an outcome": a run whose authorization was
\* consumed by submit has recorded something for every manifest action.
EveryActionHasOutcome ==
    phase[Plan] = "consumed" =>
        \A i \in Actions : Attempted(i).state = "settled"

=============================================================================
