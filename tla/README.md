# SweepX: formal models

TLA+ models of the parts of SweepX where an order of events decides whether a
file is lost, a deletion is unrecorded, a cache answers wrongly or a screen
shows what is not there; TLC configurations that check them on small
instances; and theorems about them that TLAPS proves for every value of the
constants. All paths are relative to the root of the repository, and "code"
means the Rust code under `crates/`.

1. [The system](#1-the-system)
2. [Plan](#2-plan)
3. [What is modelled](#3-what-is-modelled)
4. [The runs](#4-the-runs)
5. [Fairness](#5-fairness)
6. [The proofs](#6-the-proofs)
7. [Findings](#7-findings)
8. [What is not modelled](#8-what-is-not-modelled)
9. [How to run it](#9-how-to-run-it)

## 1. The system

SweepX finds disk usage and junk, lets a user decide, and deletes. A deletion
is planned, authorized, attempted with a durable intent before it and a
durable outcome after it, and reconciled after a crash. Scans run on threads
of their own; the user interface polls bounded queues. Several processes may
work on one state directory.

| Part | State it keeps | Operations | Talks to | What is hard |
|---|---|---|---|---|
| `sweepx-audit` (`clean.rs`, `clean/native_state.rs`) | SQLite tables of authorizations, executions, intents, outcomes, recoveries; a hash-chained journal; an OS lock file; claims and armed intents in memory | register, claim, reserve, arm, record, classify, recover, consume, drop | executor, CLI | several stores and processes on one database; crashes between any two transactions; a commit followed by a refusal; an observer that runs outside every lock |
| `sweepx-cli` `permanent_delete_command.rs` | the captured manifest, retained descriptors, position in postorder | capture, confirm, submit, execute_action, record remaining | audit, file system | other programs change the tree between check and `unlinkat`; every step may fail after the removal |
| `sweepx-executor`, `sweepx-safety` (`authorization.rs`, `permit.rs`, `time.rs`) | authorization (unused, claimed, consumed, invalid), fence, permit, receipts | bind, claim, execute, issue, consume, submit, finish | audit, adapter | repeated calls and recoveries; two clocks; an unknown result of a reservation |
| `sweepx-cache` (`generation_state.rs`, `lib.rs`, `native/unix.rs`) | `current.json`, generation files, temporaries, `quarantine/`, `.lock` | load, begin_write, write_generation, quarantine, prune | core | lock-free readers against eviction; crashes between renames; a quota counted before it is used |
| `sweepx-core` `junk/session*`, `sweepx-platform` `change_monitor*` | mailbox, revision, cancellation token, pauses, presented rows, subscriptions, pending changes | refresh (all, directories, selected, changed), watch, cancel, suspend, close | scanner, UI | worker, listener and owner are three threads; bounded queue with replacement; cancel against a new revision; changes during a scan |
| `sweepx-event-journal`, with `status`, `cancel` and the replay calls of `sweepx-core` | a directory with a lock file and a database: hash-chained events, head, identity, terminal snapshot; frozen replay sessions in memory | open, next position, append, append with snapshot, append a whole stream, verify, replay, page | core, CLI | a crash while the database is made; handles of a directory that was removed; positions that are out of date; pages that resume by cursor; budgets without a slot for the terminal event |
| `sweepx-audit` `retained_vfs.rs`; `sweepx-cache` `state_directory.rs`, `writer_admission.rs`, `json_budget.rs` | byte and entry budgets | admit, grow | stores | counts that must stay upper bounds |
| `sweepx-core` `junk/quarantine.rs`, `linux_temp.rs` | run directory, outcome log, preview | preview, confirm, copy, verify, sync, measure again, remove | file system | other processes open, write and replace what was measured; a crash or loss of power between copy and removal |
| `sweepx-core` `lib.rs`, `snapshot_store.rs` | operations, snapshots, previews | scan, page, resume | scanner, cache | bounded snapshots |
| `sweepx-core` evidence modules (`junk/platform.rs`, `git.rs`, `cargo_cleaner_*`, `browser_storage*`, `managed_cache`, `npx`, `tools`, `large_files`, `duplicates`) | none between calls | classify, measure | tools | bounded subprocess output |
| `sweepx-scanner` | budgets, frames, coverage, aggregates | scan, subtree scan, rescan, reopen | platform | truthfulness of partial results |
| `sweepx-platform` | descriptors | admit, enumerate, inspect | OS | identity of objects |
| `sweepx-tui` (`live.rs`), with the provider of `sweepx-cli` `tui_adapter.rs` | the tree of nodes, the levels entered, two lanes with one request each, the provider's totals | enter, return, refresh, poll, expire, abandon, apply a result | scanner | two worker threads and the loop of the interface; late answers; cancellation against a new request; the tree is rebuilt under the user; workers that block or die |
| `sweepx-tui` (the rest) | screens | keys, draw | core | latest-wins progress |
| `sweepx-cli` (the rest) | none | commands | all | confirmation |
| `sweepx-analysis`, `-catalog`, `-protocol`, `-model`, `-canonical`, `-i18n`, `-fixtures` | none | pure functions, data types, tests | all | encodings, a rule VM with a step budget |

How they meet: the CLI captures a manifest and calls the audit store for every
action; the executor does the same through `ClaimedExecution`; both rely on
the ledger `AttemptLedger` states, which is why the models of the two
instantiate that module instead of the tables. The core stores what a scan
left in the cache, and any process may load it. The junk session feeds the
TUI through its mailbox and hears from the listener what has changed.

What makes each part correct, in a sentence:

- the audit store: an action is attempted at most once, its outcome is final,
  and only the newest live claim of its authorization writes it;
- permanent deletion: nothing is removed without a committed intent, out of
  order, with a marker in place or when it is not what was approved, and what
  is recorded and reported is what happened;
- the executor: at most one submission per action, in order, under live
  authority, and no report that the store does not bear out;
- the cache: callers see one atomic register, and the store stays in its quota;
- the junk session: revisions arrive whole and in order, a complete one tells
  the truth, every one ends, and a closed session lets its worker go;
- the event journal: it never refuses its own contents, it only grows until
  its terminal event, and what a client was given is the stream without gap;
- the recoverable cleanup: nothing leaves its place before a whole copy is
  durable, and only inodes that were measured go;
- the browser: a directory shown as pending has exactly one request that will
  end it, a late answer changes nothing, and the user's levels stay.

## 2. Plan

The order followed what a wrong order of events can destroy: first files and
their records, then what is stored, then what is shown.

| # | Modules | Abstract specification | Checked by TLC alone |
|---|---|---|---|
| 1 | `AuditStore` | `AttemptLedger`, through `AuditLedger` | |
| 2 | `PermanentDirectory` (uses `AttemptLedger`) | | liveness |
| 3 | `Executor` (uses `AttemptLedger`) | | |
| 4 | `CacheStore` | `PreviewRegister`, through `CacheRegister` | |
| 5 | `JunkSession` | | liveness |
| 6 | `EventJournal` | `EventStream` | |
| 7 | `Quarantine` | | |
| 8 | `DetailRescan` | | liveness |

What was planned and not built, and why, is in section 8.

## 3. What is modelled

Each family has the component's module, a module `...Inv` with the inductive
invariant and the properties, a module `MC...` with the small instance, and
`..._proofs`.

### The audit store

`AuditStore` has one action for every public operation of `AuditStore`,
`ClaimedExecution`, `DurableIntentToken` and `ArmedDurableIntent` that changes
state. A transaction is one step, as SQLite makes it; where the code does
something after the commit that can still refuse, the committed and refused
outcome is an action of its own. `auths`, `execs` and `intents` are the tables
(`intents` holds the rows of `intents`, `outcomes` and `recoveries` of one
attempt); the index of an execution is its fence epoch. `replay` is what
`replay_projection` computes from the journal: the journal's text is not kept,
only what it says. `lockHolder` is the OS lock, `claims` the objects in memory,
`active` the flag of each store's `SessionCoordinator`, `observing` a
`classify_recovery` whose observer runs outside every lock. A crash drops what
one process holds. `AuditLedger` maps it all to `AttemptLedger`.

### Permanent deletion of a directory

`PermanentDirectory` is `submit` and `execute_action`, one action per call that
can fail or be raced: claim, reserve, arm, the walk of `prepare_action`, the
comparisons, the marker checks, expiry, `unlinkat`, `sync_all`, the postcheck,
the outcome, and the recording of the remaining actions as not submitted.
Beside it, other programs replace, rewrite, refill and mark what the manifest
names. The audit store appears as `AttemptLedger`, whose every call may also
be refused. The tree is any function `Ancestors` from actions, in postorder,
to the directories above them. `guarded`, `raced` and `removed` are history.

### The executor

`Executor` is `SimulatedExecutor::execute` with `execute_trash`,
`execute_permanent` and `finish_submission`, for a plan of `Count` actions in
canonical order, called as often as its caller likes with whatever
authorization it holds. `wall` is the wall clock, which may go either way
within `0 .. MaxWall`; the permit's age is monotonic time. `reserved` and
`submitted` are history.

### The preview cache

`CacheStore` has the processes that load and write, between whose system calls
anything may happen: others evict, publish and quarantine under the lock,
other programs add files and damage them, a process dies and leaves the lock
free and its temporary in place. Every file is one byte long and every
directory entry counts one, so `BYTE_CAP` and `ENTRY_CAP` are numbers of
files. `prune` plans, evicts one file at a time in any order consistent with
the plan (the access times are not kept), and checks again. Ids are recycled
when nothing refers to them any more, which stands for fresh ones.
`CacheRegister` adds the values a running load has seen and maps the store to
`PreviewRegister`.

### The junk session

`JunkSession` has three parties. The worker goes through `run`,
`run_progressive` and `run_with_discovery`: scope, discovery, listener,
traversal, publication, replacement, and for a full revision the optional
probe with its second pass. `Emit` is `Writer::send`: it replaces a Base row
still queued, drops coalesced progress for room, and otherwise holds the
event in `worker.held` until `Resume`, which is the wait on the condition
variable. The listener delivers changes to the queue of `change_monitor.rs`,
overflows or fails. The owner takes events and calls `refresh_*`,
`suspend_auto_refresh`, `cancel` (two steps, because the code clones the token
under the lock and cancels it after), and `close`. A directory holds a
candidate or does not. `past` is history: what no completed revision has
reported (`behind`), what this revision read and nothing changed since
(`fresh`), and what a `refresh_changed` owed (`due`).

### The event journal

`EventJournal` is the directory of one operation and all who use it. Opening
has the steps after which a crash leaves something: the directory without a
database (`state = "dir"`), a database never initialized (`"empty"`), a ready
one. A transaction is one step. `next_append_position` and the append that
uses it are separate steps, as for the callers; the last position given to any
writer may be used late, twice, or through another handle.
The digest chain of the code is append only; within one database the sequence
number stands for the digest of what came before it, and a cursor is the
nonce, the stream and that number. `Verifies` is `verify_database_snapshot`.
A reader freezes the events after its cursor and pages through them; `seen` is
what it has been given, over all its sessions, and is history. The removal of
the directory is another program's; a handle opened before it is refused by
its nonce. `published` records that a scan returned with success, which is
when `status` must find its snapshot. `status` and `cancel` reach the journal
through `open_journal`, which takes the write lock of the state directory
without waiting, reserves quota and takes the lock of the journal; each may
refuse. `StatusAnswer` therefore takes `admitted`, what the state directory
says, and asks `LockFree` of the journal: the answer may be "refused" at any
time. What `StatusIsTrue` says is that an answer that is not a refusal is the
true one, never "corruption" and never that of a scan that has not ended.
`EventStream` is the abstract stream.

### The recoverable cleanup

`Quarantine` has the worker of a plan, step by step: the capture of each
object, the confirmation, the checks before the run, the run directory and the
record of each object, the copy of one entry at a time, verification, the last
check, `sync`, removal in postorder, the `moved` record, and the failure path
with its record. Five places inspect an object (`Inspecting`), each in several
steps, as `inspect_candidate` does: `Measure` takes the facts of the tree
(`reading`), then `ScanProcess` looks at one process of `/proc` after the other
(`unscanned` are those to come), and only then the facts are compared
(`Inspected`). Everything others do may happen in between. The two
measurements in a row that `inspect_candidate` compares are one step: when they
are equal, they tell of the moment between them. The links of one process are
read in one step, which stands for the moment the link to the object is read. Files carry the stamp of their last write; a copy is the version it
was read at, or torn when a write came between. `named` and `synced` say what
a loss of power leaves. Other processes of the same user write, open, add and
remove; other users replace names in directories they may write in, which is
what `make_owner_only` closes. The process may stop anywhere, and so may the
machine. `gone`, `lost`, `late`, `slipped` and
`strangers` are history: `late` are the files a process got hold of when the
last scan had passed it, `slipped` those written between the last measurement
and the end of that scan.

### The directory browser and its rescans

`DetailRescan` is the loop of the interface with its two lanes. `node` is the
state of each directory's node (mode, revision, whether its rows and its total
are known, whether rows must be read again); `path` the levels entered. `Poll`
is one turn of the reducer: drain the progress, complete or expire the scan
lane, let a listing that ended there be followed by its sum, complete or
expire the listing lane, schedule what the current directory still needs. A
key enters, returns or refreshes. Each lane has a request channel of one, a
worker and a completion; `Finish` of a worker chooses the rows found, which
stands for whatever is on disk. A valid answer may still be refused when it
comes to be applied (`Rooms`). The tree is rebuilt from a result by `Apply`:
rows of a listing are new nodes, a sum keeps the nodes of children that are
still there, and a full index evicts lists outside the path. Node ids only
have to differ from those still referred to, so four are enough and are used
again. A key handler polls before it acts; that poll is the `Poll` of another
turn, since both change the same state.

## 4. The runs

"Distinct" is the number of distinct states.

| Run | Configuration | Checks | Distinct |
|---|---|---|---|
| `audit_processes` | `AuditStoreProcesses.cfg` | Two stores of one process and one of another, two authorizations of two actions on one path: tables agree with the journal, lock, live claim and flag belong together and the live claim is current, a path is never hot twice, an armed intent stays reserved under its claim, only the current claim writes, `AuditStore` implements `AttemptLedger` | 561 k |
| `armed_flag` | `AuditStoreFlag.cfg` | finding 1 | |
| `directory_races` | `PermanentDirectoryRaces.cfg` | Four names, two changes by others, failures and a crash anywhere: removals stay on record and in order, the result agrees with the records, only what was approved or raced goes, markers stop removals; unless it crashes or the store refuses, every intent gets its outcome | 424 k |
| `directory_records` | `PermanentDirectoryRecords.cfg` | finding 2 | |
| `executor_calls` | `ExecutorCalls.cfg` | Three actions, repeated calls, a recovery, both clocks, every refusal | 49 k |
| `cache_limits` | `CacheStoreLimits.cfg` | Two processes at the limits: no eviction in vain, no growth past the limits, `CacheStore` implements `PreviewRegister` | 308 k |
| `junk_revisions` | `JunkSessionRevisions.cfg` | A watching session and a mailbox of two events: exact budgets, pauses, order, error counts; every revision ends, a close releases the worker | 552 k |
| `junk_tracking` | `JunkSessionTracking.cfg` | A directory changing, overflowing, replaced, and a root only the probe finds: a complete view is true, a complete refresh is fresh | 3.0 M |
| `quarantine_moves` | `QuarantineMoves.cfg` | Four entries, two processes, two changes by others, two executions, any failure, crash and loss of power: what is gone has a durable copy, only measured inodes go, content is lost only in the two windows of the last check, records and report agree with the disk | 1.6 M |
| `journal_processes` | `EventJournalProcesses.cfg` | Two writers and a reader of one journal that is removed once: what is accepted stays readable, status answers true or refuses, positions fit, replays are exact, `EventJournal` implements `EventStream` | 305 k |
| `rescan_lanes` | `DetailRescanLanes.cfg` | A chain of three directories, two lanes, late answers, a worker that blocks or dies: one owner per pending directory, no stale cancellation, levels kept, failures stay; pending ends, the current directory settles | 884 k |
| `rescan_refresh` | `DetailRescanRefresh.cfg` | finding 3 | |

Every property of a passing run has a mutant in `PROJECT.json`: a change a
plausible bug would make, under which the run fails. The mutated operators
stand beside the originals under the comment "Mutant".

### Bounds, and why they are enough

- *Audit store.* Three stores in two processes make both kinds of neighbour:
  one that shares a lock table and one that does not. Two authorizations, two
  actions and one path make every conflict the path check knows. `MaxFence` 3
  allows claim, crash, recovery and another claim; `MaxOrdinal` 3 allows three
  attempts. `SoftEvents` 10 of `MaxEvents` 12 leaves the room in which only
  closing operations are admitted. Authorizations, actions and paths are
  symmetric: no definition orders them.
- *Permanent deletion.* The tree of the repository's test (two files in nested
  directories) has every relation of two manifest entries. `MaxChanges` 2 lets
  a second change undo or complete a first.
- *Executor.* Three actions have one before and one after the current one.
  `ApprovalTTL` 2, `PermitTTL` 1 and `MaxWall` 2 let each limit be met exactly,
  passed, and undone by the clock. `MaxFence` 2 is a claim and a recovery.
- *Cache.* `GENERATION_CAP` 2 with four ids has one current, one retained and
  one to evict while a fourth is written. `ENTRY_CAP` 9 and `BYTE_CAP` 6 make
  either limit the one that binds. One foreign file and one damaged file are
  enough to invalidate a plan.
- *Junk session.* One or two events of mailbox make the worker wait at every
  send. One pending directory (`MAX_DIRECTORIES` 1) overflows with the second.
  Two revisions are a scan and one that builds on it. `MAX_PAUSES` is 0 where
  pauses are not the question. `junk_tracking` has one known root and one that
  only the probe finds, which is what restarts the subscriptions.
- *Cleanup.* A directory that holds a directory with a file, and a file beside
  it: an object of depth three and one of depth one, so that a failure in the
  first leaves the second. Two processes are one the scan has passed and one it
  has still to come to; nothing tells them apart, so they are symmetric. Two
  writes or replacements (`MaxChanges`) put one before and one in a window. The
  second execution is explored when both plans hold the same one object and
  others have changed at most one thing (`RetriesOfOne`), a retry of what the
  first left.
- *Journal.* `MAX_EVENTS` 3 is a start, a progress and an end; `MAX_REPLAY` 4
  with `SNAPSHOT_COST` 2 makes either budget the one that binds; `MAX_PAGE` 2
  splits a replay. One removal (`MaxNonce` 1) gives handles of a directory that
  is gone.
- *Browser.* A chain of three directories has a current level, one above it
  and one below. Three moves enter, leave and enter again, or go all the way
  down; one refresh, one fault.

Deadlock is checked where the system must not stop (`executor_calls`,
`cache_limits`, `journal_processes`). Elsewhere
the configuration says `CHECK_DEADLOCK FALSE` because behaviours end: budgets
of the model are used up, `submit` returns, a session is closed.

## 5. Fairness

Safety is checked and proved without fairness. Liveness assumes:

- `PermanentDirectory`: weak fairness of the steps of `submit` (`Run`). It is
  one thread that makes system calls that return. Nothing is assumed of other
  programs; a crash ends the obligation.
- `JunkSession`: weak fairness of the worker's steps (`Work`: native calls
  return, and the condition variable is notified whenever room appears or the
  session closes) and of the owner's taking of events or finishing a call of
  `cancel` (`Consume`). The interface drains in every tick. Nothing is assumed
  of refreshes, pauses, closes, progress, aborts, limits or the listener.

- `DetailRescan`: weak fairness of the turns of the loop (a poll, then a key or
  none: it waits for a key with a timeout), of the passing of each request's
  deadline, and of a worker that is not blocked taking its request and ending
  it. A worker that blocks or dies owes nothing: `PendingEnds` holds all the
  same, by the deadline. `CurrentSettles` assumes that no worker stays blocked;
  with one, a directory entered again waits for the thread of the listing that
  was abandoned.

`AuditStore`, `Executor`, `CacheStore`, `EventJournal` and `Quarantine` promise
nothing about the future that their callers do not bring about, and have no
fairness.

## 6. The proofs

Eight modules hold theorems. All are proved from the named assumptions on the
constants that the component's module states (`AuditStoreAssumption`,
`PermanentDirectoryAssumption`, `ExecutorAssumption`, `CacheStoreAssumption`,
`JunkSessionAssumption`, `EventJournalAssumption`, `QuarantineAssumption`,
`DetailRescanAssumption`, `NoneAssumption`), which say no more than that limits
are naturals, special values are distinct, the manifest is in postorder and
directories form a finite set or tree; and that two bytes, one row, fit into a
mailbox.

- *Audit store* (`AuditStore_proofs`). `IInv` is
  `TypeOK`, `TablesMatchJournal`, `DurableInv` and `SessionInv`. None is
  inductive alone: what a claim may write depends on the lock, the lock on the
  objects in memory, those on the rows they were made from, and each row on
  the rows it refers to. Every action is one step of the proof, and lemmas on
  the operators that insert and update rows carry the tables. The action
  properties follow from `IInv` and the guard of each write. The refinement
  (`LedgerTheorem`) reads the ledger off the table of attempts: since no two
  rows are for the same action of the same authorization, the ledger is a
  function of the rows (`LedgerOf`, `LedgerIs`), and a transaction that adds or
  updates one row changes it at one place. Registering, claiming and consuming
  move a phase, a reservation is an attempt, an outcome settles one, and a
  classification changes nothing a caller sees; what a process does in memory,
  and a crash, are stutters.
- *Permanent deletion* (`PermanentDirectory_proofs`). `IInv` is `TypeOK`,
  `AuditInv` (where `submit` stands says what ledger and tree hold for every
  action) and `GuardInv` (where the walk stands says which markers it has
  passed). `TypeOK` alone is not inductive: an outcome written after a refusal
  is the refusal's, and its range comes from `AuditInv`.
- *Executor* (`Executor_proofs`). `IInv` relates the position of a call to the
  ledger, the claim, the permit and the receipts; `LedgerStep` and
  `LedgerKeeps` say once what a ledger call changes.
- *Cache* (`CacheStore_proofs`). `IInv` says who holds
  the lock, what each process is doing, that no plan has the current
  generation among its victims and that what is about to be committed is
  there. `RInv` adds what a load has seen. The refinement is proved step by
  step: each action is a stutter, the begin or end of a call, or a change of
  the register. The quotas need a third invariant, `QInv`, since what was
  counted says nothing of what happens after the admission: `CountInv` says
  that the generations are within their number, `RoomInv` that what a session
  at each of its places has still to create fits beside what is there. Others'
  files are forgiven on both sides (`noise`), a removal takes from both sides,
  and only the session with the lock creates. Room is counted with the lemmas
  on cardinality of the library, the sets being any finite ones.

- *Junk session* (`JunkSession_proofs`). `IInv` relates the three things that
  count the same events: the worker's Writer, the mailbox, and what the owner
  has taken. `Accounted` is the byte count; `ClosedInv`, `QuietInv` and
  `StageInv` say what may be queued, held back or left to take at each place of
  the worker: before a Started nothing of its revision, after it at most one
  start, always at the head, and everything of the current revision. `ErrorInv`
  splits the errors a Writer has counted into those the owner was told, those
  queued and one held back (`Coming`), `ToldInv` keeps the sum after the
  Completed was taken. `EventsInOrder` alone is not inductive: it looks at the
  head of the queue, and what comes up behind it is known only from `StageInv`.
  The steps of `Writer::send` (replace the first stale Base row, drop progress,
  append or hold back) are described once (`EmitIs`) and cited for each of the
  places that send; the count of the queue after a removal in its middle
  (`CountWithout`) needs that the removal is a bijection on the other positions.

  `RefreshIsFresh` needs a second invariant, `FreshInv`, since it speaks of a
  revision's end and what matters happened when its scope was taken. `DueInv`:
  while the refresh may still end complete, all that it owes is read (`Got`) or
  still to be read (`Left`). It holds when the scope is taken only because of
  `NewsInv`, which is about the time between revisions: as long as nothing was
  given up (`Trusted`) and the listener has told of everything since it was
  started (`Sees`), a directory that is behind is in the listener's queue, in
  the pending directories, read, or to be read, and every root not still to be
  read is watched. A root that is not watched, a lost notification or a failed
  read each break it, and each is a case the code answers with an error or a
  full scan. `ScopeInv` says that there is a listener, or a reason for none,
  wherever a history without gaps is claimed.

  `CompleteViewIsTrue` needs a third, `ViewInv`. `RowsInv`: the worker's
  presentation index is what the owner will show once it has taken the queue
  and the event held back, whatever was coalesced or dropped as superseded
  (`Shows`; the lemmas `ShowsAppend`, `ShowsWithout`, `SupersedingShows` and
  `EmitShows` follow an event through `Writer::send`). `FoundInv`: a scan
  presents what it finds and withdraws nothing it found. `PassInv`: the two
  passes of a full revision read disjoint roots, so the second does not undo
  the first. `TruthInv` relates the index to the disk: the row of a directory
  neither read, left nor behind is right; one that was read is right but for
  rows this pass is about to withdraw (`Doomed`).
- *Event journal* (`EventJournal_proofs`). The invariant `JournalInv` has a
  part for writers, one for readers, and that times only grow. The first:
  what is on disk is what `Verifies` accepts, with the first event durable;
  a handle's nonce is not newer than the directory; a position given for this
  directory and still next has the right `last`; a published scan is a
  complete stream. The second: a session and what a reader has seen are parts
  of the rows. `AcceptedIsReadable` alone is not inductive, since an append is
  checked against running values of the code (`last`, the latest time) and not
  against the records; the lemmas on `ValidRecord` carry one over to the other.
  The refinement follows from `TimesInOrder` and the validity of what is
  appended.
- *Recoverable cleanup* (`Quarantine_proofs`). `GoneIsDurable` alone is not
  inductive: that an inode may go depends on where the copy stood when the walk
  for the removal began. `IInv` has three parts. `MoveInv` follows one object
  through its steps. While it
  is copied (`CopyInv`), what has no copy yet is pending or below something
  without one, and every copy has a durable name unless its directory is still
  to be finished; so at the end, by the shallowest entry that would be missing,
  everything of the user's is copied. Copies are exact as long as the time
  below the object has not changed (`CopyIsExact`). When the last measurement
  finds the captured time (`Matched`), they are exact at that moment; what is
  written after it is `slipped` while the scan goes on, and after the scan only
  by who holds the file. `InspectionInv` says what an inspection under way has:
  one object, the right one, measured no later than now. `HoldersInv` says of
  the scan that whoever holds a file of the object is still to be looked at or
  came late; when nobody is left to look at, every holder is `late`, so that
  every later write is to a `late` file (`CheckedInv`, `RemoveInv`). This is the
  argument of `RaceTheorem`, and it uses that a scan that meets a holder does
  not go on. `sync_parent` then
  makes the last name durable, with every directory above an entry
  (`RemoveInv`). While the tree is unlinked, every directory entered is closed
  to others and every name still to go is in such a directory (`GuardInv`), so
  what is found by name is what was measured. The tree is any finite one: the
  lemmas at the start derive from `Parent` what is above what, and that the
  trees of two objects are disjoint, which keeps earlier runs' copies apart.

  `RecordsAreTrue` needs a second invariant, `LInv`, since that an object is
  gone when it is recorded as moved is decided long before the record. The log
  ends with what is being done, and the objects after it have no record
  (`LogInv`); what was unlinked is nobody's again (`GoneIsGone`); and from the
  last check on everything that was measured is in the copy, also what another
  user has taken away since, until the object itself is gone (`MeasuredIsKept`,
  which uses that a plan's own entries lie in own directories). The third
  conjunct of `LogExplains`, the order of records, is inductive once the last
  record is known; the report repeats the log (`ReportInv`). No step takes a
  durable copy back (`KeptStays`), except one being written, whose object has
  no end in the log yet.
- *Browser* (`DetailRescan_proofs`). The steps of the interface are functions
  of the record of `node`, `path` and `lane`, so the invariant is one of that
  record, `Good`, and each function (a lane that is expired, abandoned, polled;
  a result applied; a request made; the next one scheduled) keeps it. `Good`
  says that a request is in one place at a time (channel, worker, answer), that
  the two lanes never name the same row, that every pending row is named by a
  live request, that a row looks as its request does, and that the levels
  entered are rows that exist. `PendingHasOwner` alone is not inductive: the
  request that expired must have left its row stale, and the one that was
  abandoned must have left it not pending, or the next request, which counts
  its revision on from the same row, would be answered by the old one. A result
  that replaces rows keeps it because the id of a new row is not one a request
  still refers to (`FreshIs`). `WorkerGood` says of the workers that they only
  hand the request on. `LevelsAreKept` and `FailureStays` speak of the shape of
  the tree and need a second invariant, `WInv`: the levels are the way from a
  root to the last of them; a listing that is waited for is of that last one,
  the directory shown; the node of such a request says if its rows will be
  replaced; the rows of an answer are children of the directory asked for; and
  a row that does not exist is not a failed one. The hard step is the poll that
  takes both answers: a failed row may be replaced or dropped by the scan's and
  listed again by the other, and if it came back with the id it had, its
  failure would be gone without a request. That cannot be, because the listing
  is of the directory shown, which the scan's answer has not replaced, and what
  that answer gave up is then no child of it (`ListingIsApart`). The same two
  facts say that a listing closes no level. Every other step leaves both parts
  of the state alone (`Calm`, `Firm`) or changes one named row.

The type invariant of each component is proved (`TypeCorrect`); that of
`JunkSession` is also a conjunct of `BytesAccounted`, that of `Quarantine` one
of `RecordsAreTrue`.

Only model-checked: liveness, which the prover does not treat. The properties
of the three runs that expect a violation are refuted, not proved.

## 7. Findings

Each is a run that TLC must find violated, of one property.

1. `armed_flag` (`crates/sweepx-audit/src/clean.rs:276`): the flag of the
   coordinator is one bit for all claims of a store, so dropping one object
   clears it for a live one.
2. `directory_records` (`permanent_delete_command.rs:824`): when the store
   refuses the intent of an action, the actions after it are recorded as not
   submitted and the authorization is consumed, but that action itself is left
   without a record; `docs/ROADMAP.md:75` says every action has an intent and
   an outcome.
3. `rescan_refresh` (`crates/sweepx-cli/src/tui_adapter.rs:291`): a refresh
   clears the provider's totals only when the worker of the scan lane takes the
   request; until then the listing lane may answer with a total of before the
   refresh, which stays. `crates/sweepx-tui/src/live.rs:1366` says that old
   totals are neither evidence nor bounds.

A fourth disagreement has no run of its own; `LossNeedsRace` names it. A
process that opens, writes and closes a file after the last measurement of its
tree (`crates/sweepx-core/src/junk/linux_temp.rs:585`) and before its turn in
the scan of `/proc` (`:617`) is seen by neither, and the removal compares
identities only; what it wrote is unlinked and not in the copy.
`junk/quarantine.rs:855` says that a process that reopened the object is not
displaced. `slipped` holds the files this happened to: TLC refutes
`lost \subseteq late` on the instance of `quarantine_moves`, and the theorem
says that no content is lost outside this window and that of a file opened
after the scan.

The models reach more behaviours of which the repository promises nothing, so
that no run expects them:

- A full revision withdraws rows below roots its first pass did not scan,
  those the probe had added; when the probe then fails, the revision ends
  complete without them (`junk/session/presentation.rs:140`).
- A watching worker may start a new revision between the clone of the token
  and its cancellation, and the cancel is lost (`junk/session.rs:619`).
- A cancel just before the listener is prepared looks like a listener that
  cannot start and ends automatic refresh for the session
  (`junk/session/watch.rs:66`).
- Changes taken by a `refresh_changed` that is cancelled are gone
  (`watch.rs:113`); `RefreshIsFresh` therefore speaks of histories without gaps.
- A watching system session rebuilds its subscriptions in every full revision
  that finds extra roots (`watch.rs:81`).
- The thread of a listing that was abandoned keeps its lane: while it is
  blocked, the directory the user has gone to waits (`live.rs:3131`).
- A stream that filled its budget with progress can never be completed
  (`sweepx-event-journal/src/lib.rs:1226`); a scan writes its stream at once.
- The temporaries of processes that died are counted and never removed
  (`sweepx-cache/src/native/unix.rs:743`).
- No command calls `claim_recovery`, so a path whose attempt was interrupted
  stays taken (`permanent_delete_command.rs:810`).

## 8. What is not modelled

`PROJECT.json` lists every part with its reason. They are of four kinds.

- *Sequential computations over data*: the scanner's traversal with its
  budgets and aggregates, the rules and evidence of the junk scan, browser and
  Cargo inventories, duplicates and large files, analysis, the catalog's rule
  VM, plans and protected roots, encodings and messages. They are the larger
  part of the code. They keep nothing between calls and meet no other actor; a
  model of one would repeat its program, and TLC would run it on a handful of
  the inputs that the crate's own tests run it on.
- *Glue to another system*: the native backends, the retained VFS of SQLite,
  the access-control lists of Windows, the trash of the operating system, a
  tool's own cache command. What they may answer or refuse is in the models of
  their callers.
- *Quotas of a shape already modelled*: the state directory repeats that of
  the cache.
- *Drawing and command lines.*

Within the modelled parts: the manifest file the audit store saves beside its
database; the file mode of permanent deletion, and that a second command runs
over the same store; the history cache of junk sessions, their per-tool
updates and the limits on concurrent sessions; the bytes of a journal and
records that other programs change; sparse files and metadata of the cleanup;
in the browser, sorting and paging, quitting with a blocked worker, trash and
deletion from its screens (the start of one also cancels the live requests,
`live.rs:3303`), rows without a native identity or with an exhausted revision,
which become stale at once (`live.rs:1316`), and the mode without progress. Loss of power is modelled for the cleanup,
which syncs what it relies on; elsewhere the code qualifies no flush, and what
a reboot finds is the file system's choice.

## 9. How to run it

    tlc -config AuditStoreProcesses.cfg MCAuditStore.tla
    tlapm AuditStore_proofs.tla

and likewise for the pairs in `PROJECT.json`. TLC needs the community modules
(`SequencesExt`, `FiniteSetsExt`, `Functions`); TLAPS 1.4.5 needs Z3, Zenon
and LS4. The longest run takes some minutes, the longest proof module a
quarter of an hour.
