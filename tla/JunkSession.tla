----------------------------- MODULE JunkSession -----------------------------
(***************************************************************************)
(* One junk scan session: crates/sweepx-core/src/junk/session.rs with its  *)
(* mailbox.rs, watch.rs and discovery.rs, and the queue of                 *)
(* crates/sweepx-platform/src/change_monitor.rs.                           *)
(*                                                                         *)
(* A worker thread scans revision after revision and sends what it finds   *)
(* through a bounded mailbox to the thread that owns the session; a        *)
(* listener thread collects the directories that changed.  The owner may   *)
(* ask for revisions, cancel, hold an operation pause or close at any      *)
(* time; other programs change the directories at any time.                *)
(*                                                                         *)
(* A directory holds a candidate or does not.  The two coalescing slots    *)
(* are one, the Formats and Git phases are one, and history of earlier     *)
(* sessions is left out.                                                   *)
(***************************************************************************)
EXTENDS Naturals, FiniteSets, SequencesExt

CONSTANTS
    Known,            \* directories of the roots every discovery finds
    Extras,           \* directories of the roots only the optional probe finds
    Watch,            \* request.watch; otherwise request.track_changes
    MAX_EVENTS,       \* limits.max_events
    MAX_EVENT_BYTES,  \* limits.max_event_bytes
    MAX_PAUSES,       \* the four leases of suspend_auto_refresh
    MAX_DIRECTORIES,  \* watch_limits.max_directories
    MaxRevision,      \* bound: the revisions of a behaviour
    MaxChanges,       \* bound: how often other programs interfere
    None

Dirs == Known \cup Extras

ASSUME JunkSessionAssumption ==
    /\ IsFiniteSet(Dirs) /\ Known # {} /\ Known \cap Extras = {}
    /\ None \notin Dirs
    /\ Watch \in BOOLEAN
    /\ {MAX_EVENTS, MAX_DIRECTORIES, MaxRevision} \subseteq Nat \ {0}
    /\ MAX_PAUSES \in Nat
    /\ MAX_EVENT_BYTES \in Nat /\ MAX_EVENT_BYTES >= 2
    /\ MaxChanges \in Nat

VARIABLES
    mail,       \* struct Mailbox
    cancelled,  \* the token of the current revision
    canceller,  \* the revision whose token a call of cancel() has cloned, or 0
    worker,     \* the worker thread: its place in run(), the job and its Writer
    session,    \* what struct Worker keeps from one revision to the next
    monitor,    \* ChangeMonitor: registered directories and struct Pending
    disk,       \* what other programs have made of the directories
    view,       \* what the owner has taken from the mailbox
    past        \* history: see Behind below

vars == <<mail, cancelled, canceller, worker, session, monitor, disk, view, past>>

-----------------------------------------------------------------------------
(* The mailbox *)

\* event_cost: only candidates carry a row.
Cost(kind) == IF kind \in {"base", "current"} THEN 2 ELSE 1

Less(a, b) == IF a > b THEN a - b ELSE 0  \* saturating_sub

Drained(m) == m.queue = <<>> /\ ~m.progress /\ m.terminal = None

\* Mutant: the admission barrier does not wait for the owner to drain.
AdmitsUndrained(m) == ~m.closed /\ m.idle /\ m.job = None

\* What refresh_scope, suspend_auto_refresh and watch_job demand.
Admits(m) == ~m.closed /\ m.idle /\ m.job = None /\ Drained(m)

\* Mutant: dropped progress keeps its bytes.
ClearedKeepingBytes(m) == [m EXCEPT !.progress = FALSE]

\* clear_coalesced
Cleared(m) ==
    [m EXCEPT !.progress = FALSE,
              !.bytes = IF m.progress THEN Less(@, Cost("progress")) ELSE @]

Room(m, kind) ==
    /\ Len(m.queue) < MAX_EVENTS
    /\ m.bytes + Cost(kind) <= MAX_EVENT_BYTES

Push(m, e) ==
    [m EXCEPT !.queue = Append(@, e), !.bytes = @ + Cost(e.kind)]

StaleAt(queue, e, i) ==
    /\ i \in DOMAIN queue
    /\ queue[i].kind = "base" /\ queue[i].dir = e.dir /\ queue[i].rev = e.rev

\* A candidate replaces the first Base event of its key that is still in the queue.
Superseding(m, e) ==
    LET first == CHOOSE i \in DOMAIN m.queue :
                     StaleAt(m.queue, e, i) /\ \A j \in 1 .. i - 1 : ~StaleAt(m.queue, e, j)
    IN  IF e.kind \in {"base", "current"} /\ \E i \in DOMAIN m.queue : StaleAt(m.queue, e, i)
        THEN [m EXCEPT !.queue = RemoveAt(@, first), !.bytes = Less(@, Cost("base"))]
        ELSE m

\* Writer::send.  `next` is the worker after it; while there is no room the
\* event is held and Resume ends the call.
EmitFrom(m, kind, d, next) ==
    LET e == [rev |-> mail.revision, kind |-> kind, dir |-> d]
        once == Superseding(m, e)
        fitted == IF Room(once, kind) THEN once ELSE Cleared(once)
    IN  IF mail.closed
        THEN mail' = mail /\ worker' = [next EXCEPT !.pc = "idle"]
        ELSE IF Room(fitted, kind)
        THEN mail' = Push(fitted, e) /\ worker' = next
        ELSE mail' = fitted /\ worker' = [next EXCEPT !.held = e]

Emit(kind, d, next) == EmitFrom(mail, kind, d, next)

\* Writer::phase.  Of the phases only Traversing is sent here.
EmitPhase(next) == EmitFrom(Cleared(mail), "phase", None, next)

Resume ==
    /\ worker.held # None
    /\ \/ /\ mail.closed
          /\ worker' = [worker EXCEPT !.held = None, !.pc = "idle"]
          /\ UNCHANGED mail
       \/ /\ ~mail.closed
          /\ Room(mail, worker.held.kind)
          /\ mail' = Push(mail, worker.held)
          /\ worker' = [worker EXCEPT !.held = None]
    /\ UNCHANGED <<cancelled, canceller, session, monitor, disk, view, past>>

-----------------------------------------------------------------------------
(* History: `behind` are the directories whose state no completed revision *)
(* has reported, `fresh` those read by this revision and unchanged since,  *)
(* `due` what was behind and not awaiting delivery when refresh_changed    *)
(* took its scope, `gapless` that every revision since a complete full one *)
(* was complete; worker.sound is what gapless was when the scope was taken. *)

\* Writer::finish at the end of the revision.
Finish(outcome) ==
    LET full == worker.kind = "all" \/ worker.extra IN
    /\ mail' = IF mail.closed THEN mail
               ELSE [mail EXCEPT !.idle = TRUE,
                        !.terminal = [rev |-> mail.revision, outcome |-> outcome,
                                      errors |-> worker.errors]]
    /\ worker' = [worker EXCEPT !.pc = "idle", !.outcome = outcome]
    /\ past' = IF outcome = "complete"
               THEN [past EXCEPT !.behind = @ \ past.fresh,
                                 !.due = @ \ past.fresh,
                                 !.gapless = @ \/ full]
               ELSE [past EXCEPT !.gapless = FALSE]
    /\ UNCHANGED <<cancelled, canceller, session, monitor, disk, view>>

-----------------------------------------------------------------------------
(* The listener's queue *)

MonitorOff == [on |-> FALSE, roots |-> {}, watched |-> {}, news |-> {},
               paths |-> {}, full |-> FALSE, failure |-> FALSE, dead |-> FALSE]

\* mark_full
Gap(m) == [m EXCEPT !.paths = {}, !.full = TRUE]

\* fail, and with it report_unavailable
FailedMonitor(m) == [Gap(m) EXCEPT !.failure = TRUE, !.dead = TRUE, !.news = {}]

HasPending(m) == m.full \/ m.paths # {}

Taken(m) == [m EXCEPT !.paths = {}, !.full = FALSE, !.failure = FALSE]

\* ChangeQueue::directory
Queued(m, d) ==
    IF m.full \/ d \in m.paths THEN m
    ELSE IF Cardinality(m.paths) >= MAX_DIRECTORIES THEN Gap(m)
    ELSE [m EXCEPT !.paths = @ \cup {d}]

Deliver(d) ==
    /\ d \in monitor.news
    /\ monitor' = Queued([monitor EXCEPT !.news = @ \ {d}], d)
    /\ UNCHANGED <<mail, cancelled, canceller, worker, session, disk, view, past>>

\* IN_Q_OVERFLOW stands for the events the kernel dropped.
Overflow ==
    /\ monitor.news # {}
    /\ monitor' = Gap([monitor EXCEPT !.news = {}])
    /\ UNCHANGED <<mail, cancelled, canceller, worker, session, disk, view, past>>

ListenerFails ==
    /\ monitor.on /\ ~monitor.dead
    /\ disk.changes < MaxChanges
    /\ disk' = [disk EXCEPT !.changes = @ + 1]
    /\ monitor' = FailedMonitor(monitor)
    /\ UNCHANGED <<mail, cancelled, canceller, worker, session, view, past>>

Listener == (\E d \in Dirs : Deliver(d)) \/ Overflow

-----------------------------------------------------------------------------
(* Other programs *)

\* Content is written, or candidates appear, disappear or are renamed.
Change(touched, holding) ==
    /\ disk.changes < MaxChanges
    /\ disk' = [disk EXCEPT !.changes = @ + 1,
                  !.holds = [d \in Dirs |-> IF d \in touched THEN d \in holding ELSE @[d]]]
    /\ monitor' = IF monitor.on /\ ~monitor.dead /\ ~disk.moved
                  THEN [monitor EXCEPT !.news = @ \cup (touched \cap monitor.watched)]
                  ELSE monitor
    /\ past' = [past EXCEPT !.behind = @ \cup touched, !.due = @ \ touched,
                            !.fresh = @ \ touched]
    /\ UNCHANGED <<mail, cancelled, canceller, worker, session, view>>

\* The root now is another object; its old watches stay silent.
ReplaceRoot ==
    /\ disk.changes < MaxChanges
    /\ monitor.on /\ ~disk.moved
    /\ disk' = [disk EXCEPT !.moved = TRUE, !.changes = @ + 1]
    /\ past' = [past EXCEPT !.behind = Dirs, !.due = {}, !.fresh = {}]
    /\ UNCHANGED <<mail, cancelled, canceller, worker, session, monitor, view>>

\* What they do after Close is not looked at.
Environment ==
    /\ ~mail.closed
    /\ \/ \E touched \in SUBSET Dirs \ {{}} : \E holding \in SUBSET touched : Change(touched, holding)
       \/ ReplaceRoot
       \/ ListenerFails

-----------------------------------------------------------------------------
(* The worker *)

IdleWorker ==
    [pc |-> "idle", kind |-> "all", extra |-> FALSE, changed |-> FALSE,
     sound |-> FALSE, scope |-> {}, todo |-> {}, found |-> {}, at |-> None,
     held |-> None, errors |-> 0, partial |-> FALSE, fault |-> FALSE,
     outcome |-> None]

\* Writer::new for a job: "all", the given directories, or what has changed.
Begun(kind, scope) ==
    [IdleWorker EXCEPT !.pc = "begin", !.kind = kind, !.scope = scope,
                       !.changed = kind = "changed"]

At(pc) == worker.pc = pc /\ worker.held = None

Goto(pc) == [worker EXCEPT !.pc = pc]

\* An error or a panic inside run().
Fail ==
    /\ worker' = Goto("fail")
    /\ UNCHANGED <<mail, session, monitor, disk, past>>

\* A drain succeeds when the burst is over; a full queue is never held back.
\* The roots are compared with the objects they were when they were installed.
ChangedScope ==
    /\ At("begin") /\ worker.kind = "changed"
    /\ LET usable == monitor.on /\ ~monitor.dead /\ ~disk.moved /\ HasPending(monitor)
           scoped == usable /\ ~monitor.full
       IN  /\ \/ /\ usable
                 /\ monitor' = Taken(monitor)
                 /\ worker' = [worker EXCEPT !.kind = IF scoped THEN "dirs" ELSE "all",
                                !.scope = IF scoped THEN monitor.paths ELSE {},
                                !.sound = past.gapless]
              \/ /\ ~(usable /\ monitor.full)
                 /\ worker' = [worker EXCEPT !.kind = "all", !.sound = past.gapless]
                 /\ UNCHANGED monitor
           /\ past' = [past EXCEPT !.due = (past.behind \cap session.roots) \ monitor.news]
    /\ UNCHANGED <<mail, session, disk>>

Begin ==
    /\ At("begin") /\ worker.kind # "changed"
    /\ Emit("started", None,
            Goto(IF worker.scope \subseteq session.roots THEN "discover" ELSE "fail"))
    /\ past' = IF worker.changed THEN past ELSE [past EXCEPT !.due = {}]
    /\ UNCHANGED <<session, monitor, disk>>

\* A system session finds its roots anew in every full revision.
Discover ==
    /\ At("discover") /\ ~cancelled
    /\ session' = [session EXCEPT !.roots = IF worker.kind = "all" THEN Known ELSE @]
    /\ worker' = Goto("install")
    /\ UNCHANGED <<mail, monitor, disk, past>>

\* WatchRoot::observe fails under a cancelled token, which counts as a monitor
\* that cannot be started.
NeedsMonitor ==
    /\ ~session.disabled
    /\ ~monitor.on \/ worker.kind = "all" \/ monitor.roots # session.roots

\* Mutant: an expanded scope forgets what changed while it was not watched.
NeverRebuilding == FALSE

\* Subscriptions restart after part of the revision was already observed.
Rebuilding == monitor.on /\ worker.kind = "dirs"

PrepareMonitor ==
    /\ At("install")
    /\ \/ /\ NeedsMonitor /\ ~cancelled
          /\ monitor' = [MonitorOff EXCEPT !.on = TRUE, !.roots = session.roots,
                            !.full = Rebuilding]
          /\ disk' = [disk EXCEPT !.moved = FALSE]
          /\ UNCHANGED session
       \/ /\ NeedsMonitor
          /\ monitor' = MonitorOff
          /\ session' = [session EXCEPT !.disabled = TRUE, !.warning = TRUE]
          /\ UNCHANGED disk
       \/ ~NeedsMonitor /\ UNCHANGED <<session, monitor, disk>>
    /\ worker' = Goto("warn")
    /\ UNCHANGED <<mail, past>>

Warn ==
    /\ At("warn")
    /\ IF session.warning THEN Emit("warning", None, Goto("traverse"))
                          ELSE worker' = Goto("traverse") /\ UNCHANGED mail
    /\ session' = [session EXCEPT !.warning = FALSE]
    /\ UNCHANGED <<monitor, disk, past>>

ScopeOf(w) == IF w.kind = "all" THEN session.roots ELSE w.scope

Traverse ==
    /\ At("traverse")
    /\ EmitPhase([worker EXCEPT !.pc = "scan", !.todo = ScopeOf(worker), !.found = {}])
    /\ past' = IF worker.extra THEN past ELSE [past EXCEPT !.fresh = {}]
    /\ UNCHANGED <<session, monitor, disk>>

\* A directory is registered with the listener before it is enumerated.
OpenDirectory(d) ==
    /\ At("scan") /\ worker.at = None /\ d \in worker.todo /\ ~worker.fault
    /\ worker' = [worker EXCEPT !.at = d]
    /\ \/ /\ monitor.on /\ ~monitor.dead
          /\ monitor' = [monitor EXCEPT !.watched = @ \cup {d}]
       \/ /\ monitor.on /\ ~monitor.dead
          /\ monitor' = FailedMonitor(monitor)
       \/ /\ ~monitor.on \/ monitor.dead
          /\ UNCHANGED monitor
    /\ UNCHANGED <<mail, session, disk, past>>

\* on_candidate; the row is in the presentation index once its Base is sent.
ReadDirectory ==
    /\ At("scan") /\ worker.at # None
    /\ LET read == [worker EXCEPT !.at = None, !.todo = @ \ {worker.at}] IN
       IF disk.holds[worker.at]
       THEN /\ Emit("base", worker.at, [read EXCEPT !.found = @ \cup {worker.at}])
            /\ session' = IF mail.closed THEN session
                          ELSE [session EXCEPT !.presented = @ \cup {worker.at}]
       ELSE worker' = read /\ UNCHANGED <<mail, session>>
    /\ past' = [past EXCEPT !.fresh = @ \cup {worker.at}]
    /\ UNCHANGED <<monitor, disk>>

\* A directory that cannot be read leaves the coverage incomplete.
ReadError ==
    /\ At("scan") /\ worker.at # None
    /\ Emit("error", None, [worker EXCEPT !.at = None, !.todo = @ \ {worker.at},
                                          !.errors = @ + 1, !.partial = TRUE])
    /\ UNCHANGED <<session, monitor, disk, past>>

\* Writer::coalesce: progress that does not fit is dropped.
Progress ==
    /\ At("scan") /\ worker.at # None /\ ~mail.closed
    /\ LET cleared == Cleared(mail) IN
       mail' = IF cleared.bytes + Cost("progress") > MAX_EVENT_BYTES THEN cleared
               ELSE [cleared EXCEPT !.progress = TRUE, !.bytes = @ + Cost("progress")]
    /\ UNCHANGED <<cancelled, canceller, worker, session, monitor, disk, view, past>>

\* Writer::abort, for instance at a retention limit: the token is cancelled.
Abort ==
    /\ At("scan") /\ ~worker.fault
    /\ worker' = [worker EXCEPT !.fault = TRUE, !.at = None]
    /\ cancelled' = TRUE
    /\ UNCHANGED <<mail, canceller, session, monitor, disk, view, past>>

Scanned ==
    /\ At("scan") /\ worker.at = None
    /\ IF worker.fault THEN worker' = Goto("fail")
       ELSE /\ ~cancelled /\ worker.todo = {}
            /\ worker' = [worker EXCEPT !.pc = "publish", !.todo = worker.found]
    /\ UNCHANGED <<mail, session, monitor, disk, past>>

Publish(d) ==
    /\ At("publish") /\ d \in worker.todo /\ ~cancelled
    /\ Emit("current", d, [worker EXCEPT !.todo = @ \ {d}])
    /\ UNCHANGED <<session, monitor, disk, past>>

\* Mutant: every complete scan answers for every row.
CoversAll(w) == Dirs

\* replace_complete with the job's paths.
Covers(w) == IF w.kind = "all" THEN Dirs ELSE w.scope

\* Only a complete scan may withdraw rows: those it presented earlier, in its
\* scope, and did not find.
Replace ==
    /\ At("publish") /\ worker.todo = {} /\ ~cancelled
    /\ LET partial == worker.partial \/ worker.errors > 0 IN
       worker' = [worker EXCEPT !.pc = "replace", !.partial = partial,
                       !.todo = IF partial THEN {}
                                ELSE (session.presented \cap Covers(worker)) \ worker.found]
    /\ UNCHANGED <<mail, session, monitor, disk, past>>

Withdraw(d) ==
    /\ At("replace") /\ d \in worker.todo
    /\ Emit("removed", d, [worker EXCEPT !.todo = @ \ {d}])
    /\ session' = IF mail.closed THEN session ELSE [session EXCEPT !.presented = @ \ {d}]
    /\ UNCHANGED <<monitor, disk, past>>

Result(w) == IF w.partial THEN "partial" ELSE "complete"

\* The commit wins over a cancel, except between and after the two passes of
\* run_progressive, which defers the terminal event of each.
PassDone ==
    /\ At("replace") /\ worker.todo = {}
    /\ IF Extras = {} \/ (worker.kind = "dirs" /\ ~worker.extra)
       THEN worker' = Goto("done")
       ELSE IF worker.extra \/ cancelled
       THEN worker' = Goto("last")
       ELSE worker' = Goto("probe")
    /\ UNCHANGED <<mail, session, monitor, disk, past>>

\* The optional probe fails, finds nothing new, or finds further roots.
Probe ==
    /\ At("probe")
    /\ \/ ~cancelled /\ Emit("warning", None, Goto("done")) /\ UNCHANGED session
       \/ worker' = Goto("last") /\ UNCHANGED <<mail, session>>
       \/ /\ worker' = [worker EXCEPT !.pc = "discover", !.kind = "dirs", !.scope = Extras,
                                       !.extra = TRUE]
          /\ session' = [session EXCEPT !.roots = @ \cup Extras]
          /\ UNCHANGED mail
    /\ UNCHANGED <<monitor, disk, past>>

\* The places where run() returns with the terminal event.
Terminate ==
    \/ /\ \/ At("done")
          \/ At("last") /\ ~cancelled
       /\ Finish(Result(worker))
    \/ /\ cancelled
       /\ \/ At("discover") \/ At("publish") \/ At("probe") \/ At("last")
          \/ At("scan") /\ worker.at = None /\ ~worker.fault
       /\ Finish("cancelled")
    \/ At("failed") /\ Finish("failed")

ReportFailure ==
    /\ At("fail")
    /\ Emit("error", None, [worker EXCEPT !.pc = "failed", !.errors = @ + 1])
    /\ UNCHANGED <<session, monitor, disk, past>>

Breaks ==
    /\ \/ At("discover") \/ At("traverse") \/ At("publish")
       \/ At("scan") /\ worker.at = None
    /\ Fail

\* Every step of run() but the ones that also touch the token or end it.
Run ==
    /\ \/ ChangedScope \/ Begin \/ Discover \/ PrepareMonitor \/ Warn
       \/ Traverse \/ ReadDirectory \/ ReadError \/ Scanned \/ Replace
       \/ PassDone \/ Probe \/ ReportFailure \/ Breaks
       \/ \E d \in Dirs : OpenDirectory(d) \/ Publish(d) \/ Withdraw(d)
    /\ UNCHANGED <<cancelled, canceller, view>>

\* next_job
TakeJob ==
    /\ At("idle") /\ mail.job # None
    /\ worker' = Begun(mail.job.kind, mail.job.scope)
    /\ mail' = [mail EXCEPT !.job = None]
    /\ UNCHANGED <<cancelled, canceller, session, monitor, disk, view, past>>

\* Mutant: changes start a revision under an operation pause.
MayWatchPaused(m) == Admits(m) /\ ~cancelled

MayWatch(m) == Admits(m) /\ m.pauses = 0 /\ ~cancelled

\* watch_job: a batch of changes becomes a revision of its own.  A listener
\* that failed is reported with one complete revision and not started again.
WatchJob ==
    /\ Watch /\ At("idle")
    /\ MayWatch(mail)
    /\ monitor.on /\ HasPending(monitor)
    /\ mail.revision < MaxRevision
    /\ mail' = [mail EXCEPT !.revision = @ + 1, !.idle = FALSE]
    /\ worker' = IF monitor.full THEN Begun("all", {}) ELSE Begun("dirs", monitor.paths)
    /\ monitor' = IF monitor.failure THEN MonitorOff ELSE Taken(monitor)
    /\ session' = [session EXCEPT !.disabled = @ \/ monitor.failure,
                                  !.warning = @ \/ monitor.failure]
    /\ UNCHANGED <<cancelled, canceller, disk, view, past>>

\* Once a second the watching worker looks whether the roots are the same.
CheckRoots ==
    /\ Watch /\ At("idle") /\ ~mail.closed /\ mail.job = None
    /\ monitor.on /\ disk.moved /\ ~cancelled /\ ~monitor.full
    /\ monitor' = Gap(monitor)
    /\ UNCHANGED <<mail, cancelled, canceller, worker, session, disk, view, past>>

\* Mutant: the thread ends without telling.
StopSilently ==
    /\ At("idle") /\ mail.closed
    /\ worker' = Goto("gone")
    /\ monitor' = MonitorOff
    /\ UNCHANGED <<mail, cancelled, canceller, session, disk, view, past>>

\* The loop ends; WorkerExit releases the permit before it tells.
Stop ==
    /\ At("idle") /\ mail.closed
    /\ worker' = Goto("gone")
    /\ monitor' = MonitorOff
    /\ mail' = [mail EXCEPT !.exited = TRUE]
    /\ UNCHANGED <<cancelled, canceller, session, disk, view, past>>

Work == Run \/ Terminate \/ Resume \/ TakeJob \/ WatchJob \/ Stop

Worker == Work \/ Abort \/ Progress \/ CheckRoots

-----------------------------------------------------------------------------
(* The owner of the session *)

NoView == [rev |-> 0, done |-> TRUE, outcome |-> None, errors |-> 0, counted |-> 0,
           rows |-> {}]

NoPast == [behind |-> Dirs, fresh |-> {}, due |-> {}, gapless |-> FALSE]

\* What the owner knows after one more event.
Seen(v, e) ==
    CASE e.kind = "started" -> [v EXCEPT !.rev = e.rev, !.done = FALSE,
                                         !.errors = 0, !.outcome = None]
      [] e.kind = "error" -> [v EXCEPT !.errors = @ + 1]
      [] e.kind \in {"base", "current"} -> [v EXCEPT !.rows = @ \cup {e.dir}]
      [] e.kind = "removed" -> [v EXCEPT !.rows = @ \ {e.dir}]
      [] OTHER -> v

\* pop_locked
Take ==
    /\ \/ /\ mail.queue # <<>>
          /\ view' = Seen(view, Head(mail.queue))
          /\ mail' = [mail EXCEPT !.queue = Tail(@),
                                  !.bytes = Less(@, Cost(Head(mail.queue).kind))]
       \/ /\ mail.queue = <<>> /\ mail.progress
          /\ mail' = Cleared(mail)
          /\ UNCHANGED view
       \/ /\ mail.queue = <<>> /\ ~mail.progress /\ mail.terminal # None
          /\ view' = [view EXCEPT !.done = TRUE, !.outcome = mail.terminal.outcome,
                                  !.counted = mail.terminal.errors]
          /\ mail' = [mail EXCEPT !.terminal = None]
    /\ UNCHANGED <<cancelled, canceller, worker, session, monitor, disk, past>>

\* refresh_all, refresh_directories (and, alike, refresh_selected) and
\* refresh_changed
Refresh(kind, scope) ==
    /\ Admits(mail) /\ mail.pauses = 0
    /\ mail.revision < MaxRevision
    /\ mail' = [mail EXCEPT !.revision = @ + 1, !.idle = FALSE,
                            !.job = [kind |-> kind, scope |-> scope]]
    /\ cancelled' = FALSE
    /\ UNCHANGED <<canceller, worker, session, monitor, disk, view, past>>

Suspend ==
    /\ Admits(mail) /\ mail.pauses < MAX_PAUSES
    /\ mail' = [mail EXCEPT !.pauses = @ + 1]
    /\ UNCHANGED <<cancelled, canceller, worker, session, monitor, disk, view, past>>

Release ==
    /\ mail.pauses > 0
    /\ mail' = [mail EXCEPT !.pauses = Less(@, 1)]
    /\ UNCHANGED <<cancelled, canceller, worker, session, monitor, disk, view, past>>

\* cancel() clones the token under the lock and cancels it after the unlock.
\* Only a watching worker can change the token in between.
CloneToken ==
    /\ Watch /\ canceller = 0 /\ ~cancelled
    /\ canceller' = mail.revision
    /\ UNCHANGED <<mail, cancelled, worker, session, monitor, disk, view, past>>

CancelToken ==
    /\ IF Watch THEN canceller # 0 ELSE ~cancelled
    /\ cancelled' = (cancelled \/ ~Watch \/ canceller = mail.revision)
    /\ canceller' = 0
    /\ UNCHANGED <<mail, worker, session, monitor, disk, view, past>>

\* Nothing is delivered any more: the history ends.
Close ==
    /\ ~mail.closed
    /\ mail' = [mail EXCEPT !.closed = TRUE, !.queue = <<>>, !.bytes = 0,
                            !.progress = FALSE, !.terminal = None, !.job = None]
    /\ cancelled' = TRUE
    /\ view' = NoView
    /\ past' = NoPast
    /\ UNCHANGED <<canceller, worker, session, monitor, disk>>

\* The owner is one thread: a call of cancel() ends before its next call.
Consume == IF canceller # 0 THEN CancelToken ELSE Take

Owner ==
    \/ Consume \/ CancelToken
    \/ canceller = 0 /\ (\/ Suspend \/ Release \/ CloneToken \/ Close
                          \/ Refresh("all", {}) \/ Refresh("changed", {})
                          \/ \E d \in Dirs : Refresh("dirs", {d}))

-----------------------------------------------------------------------------

Init ==
    /\ mail = [queue |-> <<>>, bytes |-> 0, progress |-> FALSE, terminal |-> None,
               job |-> None, revision |-> 1, idle |-> FALSE, closed |-> FALSE,
               exited |-> FALSE, pauses |-> 0]
    /\ cancelled = FALSE /\ canceller = 0
    /\ worker = Begun("all", {})
    /\ session = [roots |-> {}, presented |-> {}, disabled |-> FALSE, warning |-> FALSE]
    /\ monitor = MonitorOff
    /\ \E holds \in [Dirs -> BOOLEAN] : disk = [holds |-> holds, moved |-> FALSE, changes |-> 0]
    /\ view = NoView /\ past = NoPast

Next == Worker \/ Listener \/ Owner \/ Environment

Spec == Init /\ [][Next]_vars

\* Native calls of the worker return; the owner drains or closes.  Nothing is
\* assumed of progress, of limits, of cancels or of other programs.
FairSpec == Spec /\ WF_vars(Work) /\ WF_vars(Consume)

=============================================================================
