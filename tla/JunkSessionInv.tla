---------------------------- MODULE JunkSessionInv ----------------------------
(***************************************************************************)
(* The properties of JunkSession.                                          *)
(***************************************************************************)
EXTENDS JunkSession

Kinds == {"started", "phase", "base", "current", "removed", "error", "warning"}
RowKinds == {"base", "current", "removed"}
Events == {e \in [rev : 1 .. MaxRevision, kind : Kinds, dir : Dirs \cup {None}] :
              e.kind \in RowKinds <=> e.dir # None}
Jobs == [kind : {"all", "dirs", "changed"}, scope : SUBSET Dirs]
Outcomes == {"complete", "partial", "cancelled", "failed"}
Places == {"begin", "discover", "install", "warn", "traverse", "scan",
           "publish", "replace", "probe", "last", "done", "fail", "failed",
           "idle", "gone"}

Terminals == [rev : 1 .. MaxRevision, outcome : Outcomes, errors : Nat]

\* A value that stands for the absence of another is not one of them.
ASSUME AbsenceAssumption ==
    /\ None \notin Events /\ None \notin Jobs /\ None \notin Terminals
    /\ None \notin Outcomes

\* The Rust fields the variables stand for.
Mails == [queue : Seq(Events), bytes : Nat, progress : BOOLEAN,
          terminal : Terminals \cup {None}, job : Jobs \cup {None},
          revision : 1 .. MaxRevision, idle : BOOLEAN, closed : BOOLEAN,
          exited : BOOLEAN, pauses : 0 .. MAX_PAUSES]
Workers == [pc : Places, kind : {"all", "dirs", "changed"}, extra : BOOLEAN,
            changed : BOOLEAN, sound : BOOLEAN, scope : SUBSET Dirs,
            todo : SUBSET Dirs, found : SUBSET Dirs, at : Dirs \cup {None},
            held : Events \cup {None}, errors : Nat, partial : BOOLEAN,
            fault : BOOLEAN, outcome : Outcomes \cup {None}]
Sessions == [roots : SUBSET Dirs, presented : SUBSET Dirs, disabled : BOOLEAN,
             warning : BOOLEAN]
Monitors == [on : BOOLEAN, roots : SUBSET Dirs, watched : SUBSET Dirs,
             news : SUBSET Dirs, paths : SUBSET Dirs, full : BOOLEAN,
             failure : BOOLEAN, dead : BOOLEAN]
Disks == [holds : [Dirs -> BOOLEAN], moved : BOOLEAN, changes : 0 .. MaxChanges]
Views == [rev : 0 .. MaxRevision, done : BOOLEAN, outcome : Outcomes \cup {None},
          errors : Nat, counted : Nat, rows : SUBSET Dirs]
Pasts == [behind : SUBSET Dirs, fresh : SUBSET Dirs, due : SUBSET Dirs, gapless : BOOLEAN]

TypeOK ==
    /\ mail \in Mails /\ cancelled \in BOOLEAN /\ canceller \in 0 .. MaxRevision
    /\ worker \in Workers /\ session \in Sessions /\ monitor \in Monitors
    /\ disk \in Disks /\ view \in Views /\ past \in Pasts

\* How many events of some kinds are in the queue.
Spots(queue, kinds) == {i \in DOMAIN queue : queue[i].kind \in kinds}
Count(queue, kinds) == Cardinality(Spots(queue, kinds))

\* What event_cost adds up to: a row costs two bytes, every other event one.
SumOf(queue) == Len(queue) + Count(queue, {"base", "current"})

\* Every variable keeps its type; replaced Base events, dropped progress and
\* taken events leave the byte count of the mailbox exact, and neither of its
\* budgets is ever exceeded (Writer::send, clear_coalesced, pop_locked).
BytesAccounted ==
    /\ TypeOK
    /\ mail.bytes = SumOf(mail.queue) + (IF mail.progress THEN Cost("progress") ELSE 0)
    /\ mail.bytes <= MAX_EVENT_BYTES
    /\ Len(mail.queue) <= MAX_EVENTS

\* While an operation pause is held nothing scans and nothing is left to take:
\* what the owner looks at cannot be replaced under it.
PausedIsQuiet ==
    mail.pauses > 0 => /\ mail.idle /\ mail.job = None /\ Drained(mail)
                       /\ worker.pc \in {"idle", "gone"} /\ worker.held = None

\* Whatever was coalesced, replaced, held back or cancelled, the owner sees
\* revision after revision, each from its Started to its one Completed and
\* nothing outside; Completed comes after every error of its revision and
\* counts them, and a complete revision had none.
EventsInOrder ==
    /\ mail.queue # <<>> =>
           LET e == Head(mail.queue) IN
           IF e.kind = "started" THEN view.done /\ e.rev = view.rev + 1
                                 ELSE ~view.done /\ e.rev = view.rev
    /\ mail.queue = <<>> /\ mail.terminal # None =>
           ~view.done /\ mail.terminal.rev = view.rev
    /\ view.done /\ view.rev > 0 =>
           view.errors = view.counted /\ (view.outcome = "complete" => view.errors = 0)

\* Once the owner has drained a complete revision, and no revision before it
\* was left unfinished since a complete full one, the rows it holds are the
\* candidates on the disk wherever nothing changed meanwhile.
CompleteViewIsTrue ==
    Drained(mail) /\ ~mail.closed /\ mail.idle /\ view.done /\ view.outcome = "complete"
        /\ past.gapless
        => \A d \in session.roots \ past.behind : d \in view.rows <=> disk.holds[d]

\* A refresh_changed that ends complete has read every directory that was
\* behind when it took its scope and whose notification had arrived, whatever
\* overflowed, failed or was replaced: if the revisions before were complete.
RefreshIsFresh ==
    worker.changed /\ worker.sound /\ worker.outcome = "complete"
        => past.due \cap session.roots = {}

\* Every revision reaches its Completed unless the session is closed, though
\* it is cancelled, fails, or waits for room.
EveryRevisionEnds ==
    \A r \in 1 .. MaxRevision :
        mail.revision = r ~> (mail.closed \/ (view.rev >= r /\ view.done))

\* A closed session releases its worker, also one that waits for room.
CloseReleasesWorker == mail.closed ~> mail.exited

-----------------------------------------------------------------------------
(* The inductive invariant of the proofs. *)

\* The mailbox is charged for what is in it.
Accounted(m) ==
    /\ m.bytes = SumOf(m.queue) + (IF m.progress THEN 1 ELSE 0)
    /\ m.bytes <= MAX_EVENT_BYTES /\ Len(m.queue) <= MAX_EVENTS

\* Nothing is left of a session that was closed but its thread.
ClosedInv ==
    /\ worker.pc = "gone" => mail.closed
    /\ mail.closed => Drained(mail) /\ mail.job = None /\ view.rev = 0

\* Who is busy when: the admission barriers rest on it.
QuietInv ==
    /\ worker.pc \in {"idle", "gone"} => worker.held = None
    /\ mail.idle => mail.job = None /\ worker.pc \in {"idle", "gone"}
    /\ mail.job # None => worker.pc = "idle"
    /\ ~mail.closed /\ ~mail.idle /\ worker.pc = "idle" => mail.job # None
    /\ mail.terminal # None => mail.idle
    /\ mail.idle /\ mail.terminal = None => Drained(mail)
    /\ mail.pauses > 0 => mail.idle /\ Drained(mail)

\* Where the owner is with the current revision.
Unstarted == mail.job # None \/ worker.pc = "begin"
StartQueued(queue) == queue # <<>> /\ queue[1].kind = "started"
Ended == mail.idle /\ mail.terminal = None

OneStart(queue) == \A i \in DOMAIN queue : queue[i].kind = "started" => i = 1
AllOf(queue, rev) == \A i \in DOMAIN queue : queue[i].rev = rev

\* What is on its way to the owner belongs to the current revision, and the
\* owner has seen its Started unless that is the next event.
StageInv ==
    /\ OneStart(mail.queue) /\ AllOf(mail.queue, mail.revision)
    /\ worker.held # None => worker.held.rev = mail.revision /\ worker.held.kind # "started"
    /\ mail.terminal # None => mail.terminal.rev = mail.revision
    /\ Unstarted => Drained(mail) /\ worker.held = None
    /\ view.done <=> Unstarted \/ StartQueued(mail.queue) \/ Ended
    /\ view.rev = IF Unstarted \/ StartQueued(mail.queue) THEN mail.revision - 1
                  ELSE mail.revision

\* Errors the worker has counted and the owner has not taken.
Coming(m, w) ==
    Count(m.queue, {"error"})
        + (IF w.held # None /\ w.held.kind = "error" THEN 1 ELSE 0)

\* No error is lost on the way, and only a worker that had none calls a
\* revision complete.
ErrorInv ==
    /\ worker.pc \in {"failed", "idle", "gone"} \/ worker.partial \/ worker.errors = 0
    /\ worker.pc = "begin" => worker.errors = 0
    /\ ~Unstarted /\ ~Ended =>
           worker.errors = (IF StartQueued(mail.queue) THEN 0 ELSE view.errors)
                               + Coming(mail, worker)
    /\ mail.terminal # None =>
           /\ mail.terminal.errors = worker.errors
           /\ mail.terminal.outcome = "complete" => worker.errors = 0

\* What the owner was told last.
ToldInv ==
    view.done /\ view.rev > 0 =>
        view.errors = view.counted /\ (view.outcome = "complete" => view.errors = 0)

IInv ==
    /\ TypeOK /\ Accounted(mail) /\ ClosedInv /\ QuietInv
    /\ ~mail.closed => StageInv /\ ErrorInv
    /\ ToldInv

-----------------------------------------------------------------------------
(* What is fresh: the second inductive invariant. *)

Early == worker.pc \in {"begin", "discover", "install", "warn", "traverse"}
Resting == worker.pc \in {"idle", "gone"}
Broken == worker.pc \in {"fail", "failed"}
Installed == worker.pc \in {"warn", "traverse", "scan", "publish", "replace", "probe",
                            "last", "done"}

\* The directories this revision is still to read, and those it has read that
\* did not change since.
Left ==
    IF Early THEN CASE worker.kind = "all" -> Dirs
                    [] worker.kind = "dirs" -> worker.scope
                    [] OTHER -> {}
    ELSE IF worker.pc = "scan" THEN worker.todo ELSE {}
Got == IF Resting \/ (Early /\ ~worker.extra) THEN {} ELSE past.fresh

\* A revision that may still end complete.
Hopeful == ~Broken /\ ~worker.partial /\ (Resting => worker.outcome = "complete")

\* What a refresh_changed owes it has read or will read.
DueInv ==
    worker.changed /\ worker.sound /\ worker.kind # "changed" /\ Hopeful
        => past.due \cap session.roots \subseteq Got \cup Left

\* The listener has told of everything since it was started.
Sees == monitor.on /\ ~monitor.dead /\ ~disk.moved /\ ~monitor.full

\* Every revision since a full one was complete, or this one is full: nothing
\* was given up so far.
Trusted ==
    IF Resting THEN past.gapless
    ELSE /\ ~Broken /\ ~worker.partial
         /\ past.gapless \/ worker.kind = "all" \/ worker.extra

\* What no revision has reported is on its way from the listener or still to be
\* read; no directory of the roots is left unwatched.
NewsInv ==
    Trusted /\ Sees =>
        /\ past.behind \cap session.roots
               \subseteq monitor.news \cup monitor.paths \cup Got \cup Left
        /\ session.roots \subseteq monitor.watched \cup Left
        /\ worker.pc = "scan" /\ worker.at # None => worker.at \in monitor.watched

\* A scan has its scope, and a listener or the reason why there is none.
ScopeInv ==
    /\ worker.kind = "changed" => worker.pc = "begin"
    /\ worker.pc = "probe" => worker.kind = "all"
    /\ worker.pc = "begin" => ~worker.extra
    /\ worker.at # None => worker.pc = "scan"
    /\ worker.outcome = "complete" => Resting /\ ~worker.partial
    /\ past.gapless \/ worker.extra \/ Installed => monitor.on \/ session.disabled

FreshInv ==
    IF mail.closed
    THEN /\ worker.sound => past.due = {}
         /\ ~Resting => ~past.gapless
    ELSE DueInv /\ NewsInv /\ ScopeInv

-----------------------------------------------------------------------------
(* What the owner sees: the third inductive invariant. *)

\* Whether the owner will have a row for d when it has taken the queue.
Shows(queue, rows, d) ==
    \/ d \in rows /\ \A i \in DOMAIN queue : queue[i].dir # d
    \/ \E i \in DOMAIN queue :
          /\ queue[i].dir = d /\ queue[i].kind # "removed"
          /\ \A j \in DOMAIN queue : j > i => queue[j].dir # d

WillShow(d) ==
    IF worker.held # None /\ worker.held.dir = d THEN worker.held.kind # "removed"
    ELSE Shows(mail.queue, view.rows, d)

\* The presentation index is what has been sent, however it was coalesced.
RowsInv == \A d \in Dirs : d \in session.presented <=> WillShow(d)

Scanning == worker.pc \in {"scan", "publish", "replace"}

\* A scan presents what it finds, publishes what it presented, and withdraws
\* nothing it found; what it read and nothing changed is found if it is there.
FoundInv ==
    /\ worker.at # None => worker.at \in worker.todo
    /\ worker.pc = "scan" => worker.todo \subseteq Covers(worker) \ worker.found
    /\ worker.pc = "publish" => worker.todo \subseteq worker.found
    /\ worker.pc = "replace" =>
           worker.todo \subseteq (session.presented \cap Covers(worker)) \ worker.found
    /\ Scanning => worker.found \subseteq session.presented
    /\ Scanning => \A d \in past.fresh \cap Covers(worker) : disk.holds[d] => d \in worker.found

\* The first pass reads the known roots, the second the roots it added.
PassInv ==
    /\ worker.extra => worker.kind = "dirs" /\ worker.scope = Extras
    /\ worker.kind = "all" =>
           /\ worker.pc \in {"install", "warn", "traverse"} => session.roots = Known
           /\ worker.pc = "scan" => worker.todo \subseteq Known
           /\ Scanning \/ worker.pc = "probe" => past.fresh \subseteq Known
    /\ worker.extra /\ Early => past.fresh \cap Extras = {}

\* The row is still there and this pass will withdraw it.
Doomed(d) ==
    \/ worker.pc \in {"scan", "publish"} /\ d \in Covers(worker) \ worker.found
    \/ worker.pc = "replace" /\ d \in worker.todo

\* A row says what is on the disk where nothing is behind.
TruthInv ==
    Trusted =>
        /\ \A d \in session.roots \ (Got \cup Left \cup past.behind) :
              d \in session.presented <=> disk.holds[d]
        /\ \A d \in Got : /\ disk.holds[d] => d \in session.presented
                          /\ d \in session.presented => disk.holds[d] \/ Doomed(d)
        /\ Scanning => ScopeOf(worker) \subseteq Got \cup Left \cup past.behind

ViewInv == ~mail.closed => RowsInv /\ FoundInv /\ PassInv /\ TruthInv

=============================================================================
