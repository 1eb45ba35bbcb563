----------------------------- MODULE DetailRescan -----------------------------
(***************************************************************************)
(* The directory browser and its rescans (sweepx-tui live.rs, and the      *)
(* provider of sweepx-cli/tui_adapter.rs).  The thread of the interface    *)
(* owns a tree of nodes and the path of the directories entered.  Two      *)
(* lanes, each a worker thread with one request, read directories for it:  *)
(* "scan" sums up whole trees, "listing" reads the rows of the directory   *)
(* the user has gone to.  A request that has had no news for a deadline is *)
(* expired, a listing the user has left is abandoned; their threads may    *)
(* still answer, later or never.                                           *)
(***************************************************************************)
EXTENDS Naturals, Sequences, FiniteSets, Functions

CONSTANTS
    Dirs,          \* native directories
    Way,           \* the directories from a root down to each
    None,
    MaxMoves,      \* bound: directories entered and left
    MaxRefreshes,  \* bound: refreshes
    MaxFaults      \* bound: workers that block or die

Inside(x, d) == x # d /\ \E i \in DOMAIN Way[x] : Way[x][i] = d
Children(d) == {x \in Dirs : Inside(x, d) /\ Len(Way[x]) = Len(Way[d]) + 1}
Roots == {x \in Dirs : Len(Way[x]) = 1}

ASSUME DetailRescanAssumption ==
    /\ IsFiniteSet(Dirs) /\ None \notin Dirs
    /\ Way \in [Dirs -> Seq(Dirs)]
    /\ \A d \in Dirs : Way[d] # <<>> /\ Way[d][Len(Way[d])] = d
    /\ \A d \in Dirs : \A i \in DOMAIN Way[d] : Way[Way[d][i]] = SubSeq(Way[d], 1, i)
    /\ {MaxMoves, MaxRefreshes, MaxFaults} \subseteq Nat

VARIABLES
    node,     \* what the browser knows of each directory; id 0: no row of it
    path,     \* the levels entered
    lane,     \* per lane the channels, the worker and the request pending
    slot,     \* the last progress not yet read, with the request it is of
    sizes,    \* totals the provider keeps: the refresh each is of, 0: none
    gen,      \* refreshes so far
    phase,    \* the loop polls the lanes ("poll"), then waits for a key ("key")
    permit,   \* the process has a permit left for a second worker
    budget    \* what is left of the bounds

vars == <<node, path, lane, slot, sizes, gen, phase, permit, budget>>

Lanes == {"scan", "listing"}
Reasons == {"list", "refresh", "sum"}
Tasks == [dir : Dirs, id : Nat \ {0}, rev : Nat, reason : Reasons, gen : Nat]
Modes == {"snapshot", "refreshed", "pending", "stale"}
Nodes == [id : Nat, mode : Modes, rev : Nat, loaded : BOOLEAN, listing : BOOLEAN,
          observed : BOOLEAN, catchUp : BOOLEAN, from : Nat]
Pendings == [task : Tasks, mode : Modes, rev : Nat, sizeRefresh : BOOLEAN,
             late : BOOLEAN, timedOut : BOOLEAN, abandoned : BOOLEAN]
Results == [rows : SUBSET Dirs, observed : BOOLEAN, from : Nat]
Completions == [task : Tasks, result : Results \cup {None}, late : BOOLEAN]

ASSUME NoneAssumption ==
    None \notin Tasks /\ None \notin Pendings /\ None \notin Results /\ None \notin Completions

NewNode(n) == [id |-> n, mode |-> "snapshot", rev |-> 0, loaded |-> FALSE,
               listing |-> FALSE, observed |-> FALSE, catchUp |-> FALSE, from |-> 0]

\* What the steps of the interface change, one after the other.
Now == [node |-> node, path |-> path, lane |-> lane]

Becomes(s) == node' = s.node /\ path' = s.path /\ lane' = s.lane

Here(s) == s.path[Len(s.path)]

-----------------------------------------------------------------------------
(* Nodes and their requests *)

\* node_binding_matches
Bound(s, t) ==
    s.node[t.dir].id = t.id /\ s.node[t.dir].mode = "pending" /\ s.node[t.dir].rev = t.rev

\* fail_detail_rescan
Fail(s, t) == IF Bound(s, t) THEN [s EXCEPT !.node[t.dir].mode = "stale"] ELSE s

\* Mutant: the cancellation of the last request stays set.
SubmitUnprepared(s, l, p) ==
    IF s.lane[l].request = None /\ s.lane[l].worker # "dead"
    THEN [s EXCEPT !.lane[l].request = p.task, !.lane[l].pending = p]
    ELSE Fail(s, p.task)

\* prepare, try_send on a channel of one, or unavailable
Submit(s, l, p) ==
    LET prepared == [s EXCEPT !.lane[l].cancelled = FALSE]
    IN  IF s.lane[l].request = None /\ s.lane[l].worker # "dead"
        THEN [prepared EXCEPT !.lane[l].request = p.task, !.lane[l].pending = p]
        ELSE Fail(prepared, p.task)

\* begin_detail_rescan_at, begin_progressive_aggregate_at, begin_refresh
Ask(s, l, d, reason, g) ==
    LET n == s.node[d]
    IN  Submit([s EXCEPT !.node[d].mode = "pending", !.node[d].rev = @ + 1,
                         !.node[d].listing = reason # "sum"],
               l,
               [task |-> [dir |-> d, id |-> n.id, rev |-> n.rev + 1, reason |-> reason, gen |-> g],
                mode |-> n.mode, rev |-> n.rev, sizeRefresh |-> reason = "list" /\ n.catchUp,
                late |-> FALSE, timedOut |-> FALSE, abandoned |-> FALSE])

Free(s, l) == s.lane[l].pending = None

MayAsk(n) == n.mode \notin {"pending", "stale"}

\* Mutant: rows read beside a sum are never read again.
NeedsFirstRows(n) == ~n.loaded

NeedsRows(n) == ~n.loaded \/ n.catchUp

NeedsSum(n) == n.loaded /\ ~n.observed

\* start_listing
StartListing(s, d) ==
    IF s.lane["listing"].worker = "absent"
    THEN IF permit THEN Ask([s EXCEPT !.lane["listing"].worker = "idle"], "listing", d, "list", gen)
                   ELSE [s EXCEPT !.node[d].mode = "stale", !.node[d].rev = @ + 1,
                                  !.node[d].listing = TRUE]
    ELSE Ask(s, "listing", d, "list", gen)

\* schedule_current_directory
Schedule(s) ==
    IF s.path = <<>> \/ ~Free(s, "listing") THEN s
    ELSE LET n == s.node[Here(s)]
         IN  IF ~MayAsk(n) THEN s
             ELSE IF NeedsRows(n)
                  THEN IF Free(s, "scan") /\ s.lane["listing"].worker = "absent"
                       THEN Ask(s, "scan", Here(s), "list", gen)
                       ELSE StartListing(s, Here(s))
             ELSE IF Free(s, "scan") /\ NeedsSum(n) THEN Ask(s, "scan", Here(s), "sum", gen) ELSE s

-----------------------------------------------------------------------------
(* Results *)

Present(s, d) == s.node[d].id # 0

\* Rows of a fresh listing are new nodes; a sum keeps the node of a native
\* child that is still there, with all below it.
Kept(s, t, rows) ==
    IF s.node[t.dir].listing THEN {} ELSE {c \in rows : Present(s, c)}

\* What leaves the tree for the new rows.
Replaced(s, t, rows) ==
    LET kept == Kept(s, t, rows)
    IN  {x \in Dirs : Inside(x, t.dir) /\ \A c \in kept : x # c /\ ~Inside(x, c)}

\* Mutant: also lists on the path are evicted.
EvictingAll(s, t, rows) ==
    {e \in Dirs : /\ Present(s, e) /\ e \notin Replaced(s, t, rows) /\ e # t.dir
                  /\ s.node[e].loaded
                  /\ \E c \in Children(e) : Present(s, c)}

\* Lists given up when the index is full: none on the path.
Evicting(s, t, rows) ==
    {e \in Dirs : /\ Present(s, e) /\ e \notin Replaced(s, t, rows) /\ e # t.dir
                  /\ s.node[e].loaded
                  /\ \E c \in Children(e) : Present(s, c)
                  /\ e \notin Range(s.path)}

\* The id of the row a listing adds: no node and no request has it.
FreshId(s, d) ==
    CHOOSE n \in 1 .. 4 :
        /\ n # s.node[d].id
        /\ \A l \in Lanes : LET p == s.lane[l].pending
                            IN  p # None /\ p.task.dir = d => p.task.id # n

\* Mutant: a rescan of a directory above clears a failure.
CarriedClean(s, t, evicting, x) ==
    LET n == [s.node[x] EXCEPT !.loaded = @ /\ x \notin evicting]
    IN  [n EXCEPT !.mode = IF @ = "stale" THEN "snapshot" ELSE @]

\* A node that stays; rows read beside a sum have the sizes from before it.
Carried(s, t, evicting, x) ==
    LET n == [s.node[x] EXCEPT !.loaded = @ /\ x \notin evicting]
    IN  [n EXCEPT !.catchUp = @ \/ (/\ t.reason = "sum" /\ Inside(x, t.dir)
                                    /\ (n.loaded \/ n.listing))]

\* The levels down to the first that is gone.
Levels(levels, gone) ==
    SubSeq(levels, 1, CHOOSE n \in 0 .. Len(levels) :
                          /\ \A i \in 1 .. n : levels[i] \notin gone
                          /\ n = Len(levels) \/ levels[n + 1] \in gone)

\* apply_detail_rescan_result, rebuilt_with_detail_rows
Apply(s, p, r, evicting) ==
    LET t == p.task
        replaced == Replaced(s, t, r.rows)
        gone == replaced \cup {x \in Dirs : \E e \in evicting : Inside(x, e)}
        target == [s.node[t.dir] EXCEPT
                      !.mode = "refreshed", !.loaded = TRUE, !.listing = FALSE,
                      !.observed = r.observed, !.from = r.from,
                      !.catchUp = @ /\ ~p.sizeRefresh /\ ~r.observed]
    IN  [s EXCEPT
            !.node = [x \in Dirs |->
                IF x = t.dir THEN target
                ELSE IF x \in r.rows \cap replaced THEN NewNode(FreshId(s, x))
                ELSE IF x \in gone THEN NewNode(0)
                ELSE Carried(s, t, evicting, x)],
            !.path = Levels(@, gone)]

\* What the rows of a result do to the index: they fit, they fit when others
\* are given up, or the result is refused (a limit that eviction cannot meet, or
\* an inconsistent answer).
Rooms == {"fits", "crowded", "refused"}

\* finish_detail_rescan
Finished(s, p, r, room) ==
    LET t == p.task
        evicting == IF room = "crowded" THEN Evicting(s, t, r.rows) ELSE {}
    IN  IF ~Bound(s, t) THEN s
        ELSE IF r = None \/ room = "refused" \/ \E e \in evicting : Inside(t.dir, e) THEN Fail(s, t)
        ELSE Apply(s, p, r, evicting)

\* Mutant: the deadline counts only when there is an answer.
NeverOverdue(p) == FALSE

Overdue(p) == p.late /\ ~p.timedOut

\* complete_or_expire of a lane
PollLane(s, l, room) ==
    LET p == s.lane[l].pending
        c == s.lane[l].completion
        taken == [s EXCEPT !.lane[l].pending = None, !.lane[l].completion = None]
    IN  IF p = None THEN s
        ELSE IF c # None
             THEN IF p.timedOut \/ p.abandoned THEN taken
                  ELSE IF c.late \/ c.task # p.task THEN Fail(taken, p.task)
                  ELSE Finished(taken, p, c.result, room)
        ELSE IF s.lane[l].worker = "dead"
             THEN IF p.timedOut THEN taken ELSE Fail(taken, p.task)
        ELSE IF Overdue(p)
             THEN [Fail(s, p.task) EXCEPT !.lane[l].pending.timedOut = TRUE, !.lane[l].cancelled = TRUE]
        ELSE s

-----------------------------------------------------------------------------
(* Steps of the interface *)

\* Progress of the pending sum keeps it from expiring.
Drained(s, heard) ==
    LET p == s.lane["scan"].pending
    IN  IF ~heard \/ p = None \/ slot = None THEN s
        ELSE IF slot # p.task \/ ~Bound(s, p.task) THEN s
        ELSE IF s.lane["scan"].completion = None
             THEN [s EXCEPT !.lane["scan"].pending.late = FALSE]
             ELSE [s EXCEPT !.lane["scan"].pending.late = FALSE,
                            !.lane["scan"].completion.late = FALSE]

\* A listing that has ended on the scan lane is followed by the sum.
Chained(s, t) ==
    LET n == s.node[t.dir]
    IN  IF t.reason # "sum" /\ n.id = t.id /\ MayAsk(n) /\ NeedsSum(n)
        THEN Ask(s, "scan", t.dir, "sum", gen)
        ELSE s

\* complete_or_expire of the reducer
Polled(s, room) ==
    LET p == s.lane["scan"].pending
        scanned == PollLane(s, "scan", room)
        chained == IF p # None /\ s.lane["scan"].completion # None THEN Chained(scanned, p.task)
                                                                   ELSE scanned
    IN  Schedule(PollLane(chained, "listing", room))

\* Progress that comes between the last read of its channel and that of the
\* completion stays for the poll after.
Poll ==
    /\ phase = "poll" /\ phase' = "key"
    /\ \E heard \in BOOLEAN, room \in Rooms :
        /\ slot' \in IF lane["scan"].completion = None THEN {None} ELSE {None, slot}
        /\ Becomes(Polled(Drained(Now, heard), room))
    /\ UNCHANGED <<sizes, gen, permit, budget>>

NoKey ==
    /\ phase = "key" /\ phase' = "poll"
    /\ UNCHANGED <<node, path, lane, slot, sizes, gen, permit, budget>>

\* Mutant: the directory left stays pending.
AbandonedPending(s) ==
    [s EXCEPT !.lane["listing"].pending.abandoned = TRUE, !.lane["listing"].cancelled = TRUE]

\* abandon
Abandoned(s) ==
    LET p == s.lane["listing"].pending
        t == p.task
        restored == IF Bound(s, t)
                    THEN [s EXCEPT !.node[t.dir].mode = p.mode, !.node[t.dir].rev = p.rev]
                    ELSE s
    IN  IF p.abandoned THEN s
        ELSE [restored EXCEPT !.lane["listing"].pending.abandoned = TRUE,
                              !.lane["listing"].cancelled = TRUE]

\* The listing of another directory than the one shown gives way.
Moved(s) ==
    LET p == s.lane["listing"].pending
        left == p # None /\ (s.path = <<>> \/ p.task.dir # Here(s) \/ p.task.id # s.node[Here(s)].id)
    IN  Schedule(IF left THEN Abandoned(s) ELSE s)

Move(levels) ==
    /\ phase = "key" /\ budget.moves > 0
    /\ Becomes(Moved([Now EXCEPT !.path = levels]))
    /\ phase' = "poll"
    /\ budget' = [budget EXCEPT !.moves = @ - 1]
    /\ UNCHANGED <<slot, sizes, gen, permit>>

EnterDirectory ==
    \E d \in (IF path = <<>> THEN Roots ELSE Children(Here(Now))) :
        Present(Now, d) /\ Move(Append(path, d))

ReturnToParent == path # <<>> /\ Move(SubSeq(path, 1, Len(path) - 1))

\* Refresh, begin_refresh: nothing seen before counts.
Refresh ==
    /\ phase = "key" /\ budget.refreshes > 0
    /\ path # <<>>
    /\ \A l \in Lanes : Free(Now, l)
    /\ Becomes(Ask([Now EXCEPT !.node = [d \in Dirs |->
                        [node[d] EXCEPT !.loaded = FALSE, !.observed = FALSE, !.catchUp = FALSE,
                                        !.from = 0]]],
                   "scan", Here(Now), "refresh", gen + 1))
    /\ gen' = gen + 1
    /\ phase' = "poll"
    /\ budget' = [budget EXCEPT !.refreshes = @ - 1]
    /\ UNCHANGED <<slot, sizes, permit>>

\* The deadline passes without news of the request.
Elapse(l) ==
    /\ lane[l].pending # None
    /\ ~lane[l].pending.late
    /\ lane' = [lane EXCEPT ![l].pending.late = TRUE]
    /\ UNCHANGED <<node, path, slot, sizes, gen, phase, permit, budget>>

-----------------------------------------------------------------------------
(* Steps of the workers, rescan_for_lane *)

Start(l) ==
    /\ lane[l].worker = "idle"
    /\ lane[l].request # None
    /\ lane' = [lane EXCEPT ![l].worker = "running", ![l].job = lane[l].request, ![l].request = None]
    /\ sizes' = IF lane[l].request.reason = "refresh" THEN [d \in Dirs |-> 0] ELSE sizes
    /\ UNCHANGED <<node, path, slot, gen, phase, permit, budget>>

\* A progress that finds the slot taken is dropped.
Report ==
    /\ lane["scan"].worker = "running"
    /\ lane["scan"].job.reason = "sum"
    /\ slot = None
    /\ slot' = lane["scan"].job
    /\ UNCHANGED <<node, path, lane, sizes, gen, phase, permit, budget>>

\* A sum has the totals of all it has visited; a listing those kept of the
\* last sums, for its directory only while the number of its rows has not
\* changed.
ResultsOf(t) ==
    {None} \cup
    UNION {IF t.reason = "sum" THEN {[rows |-> rows, observed |-> TRUE, from |-> t.gen]}
           ELSE {[rows |-> rows, observed |-> FALSE, from |-> 0]} \cup
                (IF sizes[t.dir] = 0 THEN {}
                 ELSE {[rows |-> rows, observed |-> TRUE, from |-> sizes[t.dir]]})
           : rows \in SUBSET Children(t.dir)}

\* SizeSnapshots::merge: the first total of a refresh stays.
Merged(t, r) ==
    IF r = None \/ t.reason # "sum" THEN sizes
    ELSE [d \in Dirs |->
             IF /\ sizes[d] = 0
                /\ d = t.dir \/ \E c \in r.rows : d = c \/ Inside(d, c)
             THEN t.gen ELSE sizes[d]]

Finish(l) ==
    /\ lane[l].worker \in {"running", "blocked"}
    /\ lane[l].completion = None
    /\ \E r \in ResultsOf(lane[l].job) :
           /\ lane' = [lane EXCEPT
                  ![l].worker = "idle", ![l].job = None,
                  ![l].completion = [task |-> lane[l].job, result |-> r,
                                     late |-> lane[l].pending.late]]
           /\ sizes' = Merged(lane[l].job, r)
    /\ UNCHANGED <<node, path, slot, gen, phase, permit, budget>>

\* A read that hangs, or a panic of the provider.
Fault(l) ==
    /\ budget.faults > 0
    /\ \/ lane[l].worker = "running" /\ lane' = [lane EXCEPT ![l].worker = "blocked"]
       \/ lane[l].worker \in {"running", "blocked"}
          /\ lane' = [lane EXCEPT ![l].worker = "dead", ![l].job = None]
    /\ budget' = [budget EXCEPT !.faults = @ - 1]
    /\ UNCHANGED <<node, path, slot, sizes, gen, phase, permit>>

-----------------------------------------------------------------------------

Init ==
    /\ node = [d \in Dirs |-> NewNode(IF d \in Roots THEN 1 ELSE 0)]
    /\ path = <<>>
    /\ lane = [l \in Lanes |->
                  [worker |-> IF l = "scan" THEN "idle" ELSE "absent", cancelled |-> FALSE,
                   request |-> None, job |-> None, completion |-> None, pending |-> None]]
    /\ slot = None
    /\ sizes = [d \in Dirs |-> 0]
    /\ gen = 1
    /\ phase = "poll"
    /\ permit \in BOOLEAN
    /\ budget = [moves |-> MaxMoves, refreshes |-> MaxRefreshes, faults |-> MaxFaults]

Worker(l) == Start(l) \/ Finish(l) \/ Fault(l)

Next ==
    \/ Poll \/ NoKey \/ EnterDirectory \/ ReturnToParent \/ Refresh
    \/ Report
    \/ \E l \in Lanes : Elapse(l) \/ Worker(l)

Spec == Init /\ [][Next]_vars

\* The loop turns: its steps are those that change the phase, and one always
\* can be taken.  Time passes; a worker that is not blocked takes its request
\* and ends it.
Turn == phase' \in {"poll", "key"} \ {phase}

Fairness ==
    /\ WF_phase(Turn)
    /\ \A l \in Lanes :
           /\ WF_vars(Elapse(l))
           /\ WF_vars(Start(l))
           /\ WF_vars(lane[l].worker = "running" /\ Finish(l))

FairSpec == Spec /\ Fairness

=============================================================================
