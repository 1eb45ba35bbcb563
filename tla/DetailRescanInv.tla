--------------------------- MODULE DetailRescanInv ---------------------------
(***************************************************************************)
(* What the browser promises of its rescans.                               *)
(***************************************************************************)
EXTENDS DetailRescan

LaneTypeOK(r) ==
    /\ r.worker \in {"absent", "idle", "running", "blocked", "dead"}
    /\ r.cancelled \in BOOLEAN
    /\ {r.request, r.job} \subseteq Tasks \cup {None}
    /\ r.completion \in Completions \cup {None}
    /\ r.pending \in Pendings \cup {None}

\* The types of the state, with what the channels can hold: a worker has at
\* most one request, and what it holds, has to read or has answered is the
\* request that is pending (the channels of one, in DetailRescanWorker::new).
TypeOK ==
    /\ node \in [Dirs -> Nodes]
    /\ path \in Seq(Dirs)
    /\ DOMAIN lane = Lanes
    /\ \A l \in Lanes :
           /\ LaneTypeOK(lane[l])
           /\ lane[l].pending = None => lane[l].request = None /\ lane[l].job = None
                                        /\ lane[l].completion = None
           /\ {lane[l].request, lane[l].job} \subseteq
                  {None, IF lane[l].pending = None THEN None ELSE lane[l].pending.task}
    /\ slot \in Tasks \cup {None}
    /\ sizes \in [Dirs -> Nat] /\ gen \in Nat
    /\ phase \in {"poll", "key"}
    /\ permit \in BOOLEAN

Live(p) == p # None /\ ~p.timedOut /\ ~p.abandoned

\* A directory shown as pending has exactly one lane that will answer for it
\* or let it expire; no abandoned, expired or replaced request leaves it
\* pending, and the two lanes never work for the same revision of it.
PendingHasOwner ==
    \A d \in Dirs : node[d].mode = "pending" =>
        LET Owners == {l \in Lanes : Live(lane[l].pending) /\ lane[l].pending.task.dir = d
                                                           /\ Bound(Now, lane[l].pending.task)}
        IN  \E l \in Lanes : Owners = {l}

\* The cancellation of a request that was left or has expired never reaches
\* the request after it (prepare_detail_rescan, prepare_directory_listing).
LiveNotCancelled ==
    \A l \in Lanes : Live(lane[l].pending) => ~lane[l].cancelled

\* Every level entered still is a row of the level above it, whatever was
\* replaced or evicted under the user.
LevelsExist ==
    path # <<>> => path = Way[Here(Now)] /\ \A i \in DOMAIN path : Present(Now, path[i])

\* A sum that ends while the user is below it, and the room it makes for its
\* rows, do not close the levels entered, as long as the directories are there
\* (rebuilt_with_detail_rows: "completion cannot invalidate an in-flight
\* breadcrumb").
SumsKeepLevels ==
    [][LET c == lane["scan"].completion
       IN  phase' = "key" /\ Len(path') < Len(path) /\ c # None /\ c.task.reason = "sum"
           => c.result # None /\ \E i \in DOMAIN path : path[i] \in Children(c.task.dir) \ c.result.rows]_vars

\* At every step and through every rebuilding of the tree the levels entered
\* are rows that exist, and a sum closes none that is still there.
LevelsAreKept == []LevelsExist /\ SumsKeepLevels

\* A directory whose rescan failed or expired stays so until a new request of
\* its own: no late answer, and no rescan of another directory, clears it.
FailureStays ==
    [][\A d \in Dirs : node[d].mode = "stale" /\ node'[d].id = node[d].id
                       /\ node'[d].mode # "stale" => node'[d].mode = "pending"]_vars

\* A pending directory stops being so, also when its worker blocks or dies.
PendingEnds ==
    \A d \in Dirs : (node[d].mode = "pending") ~> (node[d].mode # "pending")

Settled ==
    path = <<>> \/ LET n == node[Here(Now)]
                   IN  n.mode = "stale" \/ (n.loaded /\ n.observed /\ ~n.catchUp /\ MayAsk(n))

\* If no worker stays blocked, the directory the user ends up in is listed and
\* its total is known, or its failure is shown.
CurrentSettles ==
    <>[](\A l \in Lanes : lane[l].worker # "blocked") => <>[]Settled

\* "Refresh begins a new observation generation": when nothing is pending any
\* more, each total shown was taken since the last refresh (begin_refresh).
TotalsAreCurrent ==
    (\A l \in Lanes : lane[l].pending = None) =>
        \A d \in Dirs : node[d].observed => node[d].from = gen

-----------------------------------------------------------------------------
(* The inductive invariant, of the record of node, path and lane that the  *)
(* steps of the interface pass on.                                         *)

LaneRecords ==
    [worker : {"absent", "idle", "running", "blocked", "dead"}, cancelled : BOOLEAN,
     request : Tasks \cup {None}, job : Tasks \cup {None},
     completion : Completions \cup {None}, pending : Pendings \cup {None}]

States == [node : [Dirs -> Nodes], path : Seq(Dirs), lane : [Lanes -> LaneRecords]]

\* A request is in one place at a time: the channel, the worker, its answer.
LaneOK(r) ==
    /\ r.pending = None => r.request = None /\ r.job = None /\ r.completion = None
    /\ r.request # None => /\ r.request = r.pending.task /\ r.job = None
                           /\ r.completion = None /\ r.worker # "dead"
    /\ r.job # None => r.job = r.pending.task /\ r.completion = None
    /\ r.worker \in {"running", "blocked"} <=> r.job # None
    /\ r.worker = "absent" => r.pending = None
    /\ r.pending # None => r.pending.mode # "pending"
    /\ Live(r.pending) => ~r.cancelled

\* The worker of the scan lane is there from the start, and nothing is
\* abandoned there.
ScanOK(r) ==
    /\ r.worker # "absent"
    /\ r.pending # None => ~r.pending.abandoned

\* The request pending in lane l is of the row the browser has of d.
Names(s, l, d) ==
    /\ s.lane[l].pending # None
    /\ s.lane[l].pending.task.dir = d
    /\ s.lane[l].pending.task.id = s.node[d].id

\* What the node of a request looks like until the next request for it.
Marked(n, p) ==
    IF Live(p) THEN n.mode = "pending" /\ n.rev = p.task.rev
    ELSE n.mode # "pending" /\ (~p.abandoned => n.mode = "stale")

Good(s) ==
    /\ s \in States
    /\ \A l \in Lanes : LaneOK(s.lane[l])
    /\ \A l \in Lanes, d \in Dirs : Names(s, l, d) => Marked(s.node[d], s.lane[l].pending)
    /\ \A d \in Dirs : ~(Names(s, "scan", d) /\ Names(s, "listing", d))
    /\ \A d \in Dirs : s.node[d].mode = "pending" =>
           \E l \in Lanes : Names(s, l, d) /\ Live(s.lane[l].pending)
    /\ ScanOK(s.lane["scan"])
    /\ \A i \in DOMAIN s.path : Present(s, s.path[i])

IInv ==
    /\ Good(Now)
    /\ slot \in Tasks \cup {None}
    /\ sizes \in [Dirs -> Nat] /\ gen \in Nat
    /\ phase \in {"poll", "key"} /\ permit \in BOOLEAN

-----------------------------------------------------------------------------
(* What the levels and the failures rest on: the second inductive          *)
(* invariant.                                                              *)

\* A listing that is waited for is of the directory shown.
ListsHere(s, d) ==
    Names(s, "listing", d) /\ Live(s.lane["listing"].pending) => s.path # <<>> /\ d = Here(s)

\* The node of a request that is waited for says if its rows are replaced.
SaysListing(s, l, d) ==
    Names(s, l, d) /\ Live(s.lane[l].pending)
    => (s.node[d].listing <=> s.lane[l].pending.task.reason # "sum")

\* The rows of an answer are of the directory asked for.
RowsOK(c) == c # None /\ c.result # None => c.result.rows \subseteq Children(c.task.dir)

TreeOK(s) ==
    /\ s.path # <<>> => s.path = Way[Here(s)]
    /\ \A l \in Lanes, d \in Dirs : SaysListing(s, l, d)
    /\ \A l \in Lanes : RowsOK(s.lane[l].completion)
    /\ \A d \in Dirs : s.node[d].id = 0 => s.node[d].mode = "snapshot"

WayOK(s) == TreeOK(s) /\ \A d \in Dirs : ListsHere(s, d)

WInv == IInv /\ WayOK(Now)

=============================================================================
