---------------------------- MODULE QuarantineInv ----------------------------
(***************************************************************************)
(* What the recoverable cleanup promises, as invariants of Quarantine.     *)
(***************************************************************************)
EXTENDS Quarantine

AllSteps == {"idle", "previewed", "reserve", "failed"} \cup Inspecting \cup Moving

\* Every variable has its type (quarantine.rs, linux_temp.rs).
TypeOK ==
    /\ inode \in [Entries -> {"none", "own", "other"}]
    /\ content \in [Entries -> Nat] /\ stamp \in [Objects -> Nat]
    /\ active \subseteq Objects /\ opened \subseteq Processes \X Files /\ shared \subseteq Dirs
    /\ changes \in 0..MaxChanges
    /\ pc \in AllSteps
    /\ \A i \in DOMAIN captures :
          captures[i].path \in Objects /\ captures[i].measurement.newest \in Nat
    /\ pc = "idle" => captures = <<>>
    /\ pc \notin {"idle", "capture"} => idx \in DOMAIN captures
    /\ Cardinality(reading) <= 1 /\ unscanned \subseteq Processes
    /\ todo \subseteq Entries /\ finish \subseteq Dirs /\ target \in Files \cup {Root}
    /\ DOMAIN dst = 1..Run /\ DOMAIN outcomes = 1..Run
    /\ \A r \in 1..Run :
          /\ named[r] \subseteq Entries /\ synced[r] \subseteq Files
          /\ \A e \in Entries : dst[r][e] \in Nat \cup {Absent, Torn}
    /\ result.moved \subseteq Objects /\ result.failure \in Objects \cup {"none"}
    /\ gone \in [Entries -> 0..Run]

\* A whole copy that survives a loss of power.
Kept(r, e) == Durable(r, e) /\ dst[r][e] \notin {Absent, Torn}

\* Whenever an entry was unlinked, a whole copy of it and the directories
\* above it are durable in the run directory of that execution: a crash, a
\* power loss or a failure at any later step leaves it recoverable (the
\* comment at quarantine.rs:867).
GoneIsDurable == \A e \in Entries : gone[e] # 0 => Kept(gone[e], e)

\* The two windows of the last inspection.
Raced == late \cup slipped

\* A file whose unlinked content is not in its copy came into the hands of a
\* process after the last scan of /proc had passed that process, or was written
\* between the last measurement of the tree and that scan (move_to_quarantine_impl):
\* no other interleaving with the copy, its checks and the removal loses content.
\* The comment at quarantine.rs:855 knows of the first window only.
LossNeedsRace == lost \subseteq Raced

\* No inode is unlinked that was not measured, even while other users replace
\* names in directories they may write in (make_owner_only, quarantine.rs:1648).
OnlyMeasuredRemoved == strangers = {}

Statuses(r, o) == {outcomes[r][i].status : i \in {i \in DOMAIN outcomes[r] :
                                                     outcomes[r][i].object = o}}

\* The record of a run explains the disk after a crash at any step: entries
\* are missing only below reserved objects, "moved" objects have a durable
\* copy and no measured entry left, at most the last reserved object has no
\* end, and nothing follows a failure.
LogExplains ==
    \A r \in 1..Run :
        /\ \A e \in Entries : gone[e] = r => "reserved" \in Statuses(r, ObjectOf(e))
        /\ \A i \in DOMAIN digests[r] : "moved" \in Statuses(r, digests[r][i].path) =>
              /\ gone[digests[r][i].path] = r
              /\ \A e \in Tree(digests[r][i].path) :
                    digests[r][i].measurement.entries[e] = "own" => Kept(r, e)
        /\ \A i \in DOMAIN outcomes[r] :
              /\ outcomes[r][i].status = "failed" => i = Len(outcomes[r])
              /\ outcomes[r][i].status = "reserved" /\ i < Len(outcomes[r]) =>
                    outcomes[r][i + 1].object = outcomes[r][i].object
              /\ outcomes[r][i].status # "reserved" =>
                    i > 1 /\ outcomes[r][i - 1].status = "reserved"

\* What an execution reports is what it did: the objects it counts as moved
\* are recorded so and have left their place, the object of the failure is not one of
\* them, and the objects after it have no copy and no record.
ResultIsTrue ==
    Run > 0 =>
        /\ \A o \in result.moved : "moved" \in Statuses(Run, o) /\ gone[o] = Run
        /\ \A i, j \in DOMAIN digests[Run] :
              digests[Run][i].path = result.failure /\ j >= i =>
                 /\ digests[Run][j].path \notin result.moved
                 /\ j > i => /\ dst[Run][digests[Run][j].path] = Absent
                             /\ Statuses(Run, digests[Run][j].path) = {}

\* Every variable has its type, and both the records, after a crash at any
\* step, and the report, if the execution returns, agree with the disk.
RecordsAreTrue == TypeOK /\ LogExplains /\ ResultIsTrue

-----------------------------------------------------------------------------
(* The inductive invariant of the proofs. *)

Copies == Nat \cup {Absent, Torn}
Fingerprints == [entries : UNION {[Tree(o) -> {"none", "own", "other"}] : o \in Objects},
                 newest : Nat]
Captures == [path : Objects, measurement : Fingerprints]
Records == [object : Objects, status : {"reserved", "moved", "failed"}]
Busy == pc \notin {"idle", "capture", "previewed", "revalidate"}

Types ==
    /\ inode \in [Entries -> {"none", "own", "other"}]
    /\ content \in [Entries -> Nat] /\ stamp \in [Objects -> Nat]
    /\ active \subseteq Objects /\ opened \subseteq Processes \X Files /\ shared \subseteq Dirs
    /\ changes \in 0..MaxChanges
    /\ pc \in AllSteps
    /\ captures \in Seq(Captures) /\ idx \in Nat
    /\ todo \subseteq Entries /\ finish \subseteq Dirs /\ target \in Files \cup {Root}
    /\ result \in [moved : SUBSET Objects, failure : Objects \cup {"none"}]

RunTypes ==
    /\ digests \in Seq(Seq(Captures)) /\ outcomes \in Seq(Seq(Records)) /\ Len(outcomes) = Run
    /\ dst \in Seq([Entries -> Copies]) /\ Len(dst) = Run
    /\ named \in Seq(SUBSET Entries) /\ Len(named) = Run
    /\ synced \in Seq(SUBSET Files) /\ Len(synced) = Run
    /\ gone \in [Entries -> 0..Run]
    /\ Busy => Run > 0

\* A plan has each object once; no object was older when it was measured.
PlanInv ==
    /\ pc = "idle" => captures = <<>>
    /\ pc \notin {"idle", "capture"} => idx \in DOMAIN captures
    /\ pc \in {"idle", "capture", "previewed"} => idx = 1
    /\ \A i, j \in DOMAIN captures : captures[i].path = captures[j].path => i = j
    /\ \A i \in DOMAIN captures : stamp[captures[i].path] >= captures[i].measurement.newest

\* What is measured as the user's is in directories measured as the user's.
OwnerIsRecorded(c) ==
    \A a, e \in Tree(c.path) : c.measurement.entries[e] = "own" /\ <<a, e>> \in Above
        => c.measurement.entries[a] = "own"

\* An inspection measures one object, a new one of the plan or the one at hand.
InspectionInv ==
    /\ reading \subseteq Captures /\ unscanned \subseteq Processes
    /\ pc \notin Inspecting \cup {"failed"} => reading = {} /\ unscanned = {}
    /\ \A c, d \in reading : c = d
    /\ \A c \in reading : OwnerIsRecorded(c) /\ stamp[c.path] >= c.measurement.newest
    /\ pc \in Inspecting \ {"capture"} => \A c \in reading : c.path = Object
    /\ pc = "capture" => \A c \in reading, i \in DOMAIN captures : captures[i].path # c.path
    /\ reading = {} => unscanned = {}

\* What is the user's is in directories of the user.
OwnInv == \A a, e \in Entries : inode[e] = "own" /\ <<a, e>> \in Above => inode[a] = "own"

\* Before its turn an object has no copy, and before its removal it is there.
UntouchedInv ==
    Busy => \A i \in DOMAIN captures, e \in Entries : <<captures[i].path, e>> \in Above =>
        /\ i > idx \/ (i = idx /\ pc \in {"check", "reserve", "prepare"}) => dst[Run][e] = Absent
        /\ i > idx \/ (i = idx /\ pc \notin {"remove", "failed"}) => gone[e] # Run

\* A walk is inside the object, and below directories it will come back to.
WalkInv ==
    /\ pc \notin {"copy", "remove", "failed"} => finish = {} /\ target = Root
    /\ pc \in {"copy", "remove"} =>
          /\ todo \cup finish \subseteq Tree(Object)
          /\ \A e \in todo : e # Object => Parent[e] \in finish
          /\ target # Root => target \in todo

Copied(e) == dst[Run][e] # Absent

\* The names of the copies are durable, except those in directories not yet
\* finished; so is the data of files.
CopyIsKept(e) ==
    Copied(e) =>
        /\ e # Object => e \in named[Run] \/ Parent[e] \in finish
        /\ e \in Files /\ e # target => e \in synced[Run]
        /\ e \in Dirs => dst[Run][e] # Torn

\* As long as nothing below the object was written, copies are exact.
CopyIsExact(e) ==
    Copied(e) /\ e \in Files /\ e # target /\ stamp[Object] = Measured.newest
        => dst[Run][e] = content[e]

\* What has no copy is still to be visited, or below what has none.
CopyInv ==
    pc = "copy" =>
        /\ \A e \in Tree(Object) :
              /\ inode[e] = "own" /\ ~Copied(e)
                    => e \in todo \/ (e # Object /\ ~Copied(Parent[e]))
              /\ CopyIsKept(e) /\ CopyIsExact(e)
        /\ target # Root => Copied(target)

\* The last measurement found the captured facts.
Matched == pc = "recheck" /\ reading = {captures[idx]}

CheckedInv ==
    /\ pc \in {"verify", "recheck", "sync"} =>
          \A e \in Tree(Object) : (inode[e] = "own" => Copied(e)) /\ CopyIsKept(e)
    /\ pc \in {"verify", "recheck"} => \A e \in Tree(Object) : CopyIsExact(e)
    /\ Matched \/ pc = "sync" => \A e \in Tree(Object) : Copied(e) /\ e \in Files =>
          dst[Run][e] # Torn /\ (e \notin Raced => dst[Run][e] = content[e])

RemoveInv ==
    pc = "remove" => \A e \in Tree(Object) : inode[e] = "own" =>
        Kept(Run, e) /\ (e \in Files /\ e \notin Raced => dst[Run][e] = content[e])

\* Whoever holds a file below the object got hold of it late, or is still to
\* be looked at.
HoldersInv ==
    /\ pc \in {"sync", "remove"} => \A h \in opened : <<Object, h[2]>> \in Above => h[2] \in late
    /\ pc = "recheck" /\ reading # {} =>
          \A h \in opened : <<Object, h[2]>> \in Above => h[1] \in unscanned \/ h[2] \in late

\* A name no other user can give to something else.
Guarded(e) ==
    /\ inode[e] # "other" /\ Parent[e] \notin shared
    /\ Parent[e] = Root => inode[e] = "own"

GuardInv ==
    pc = "remove" =>
        /\ \A d \in finish : d \notin shared /\ Guarded(d)
        /\ target # Root => Guarded(target)

MoveInv ==
    /\ Types /\ RunTypes /\ PlanInv /\ OwnInv /\ UntouchedInv /\ WalkInv
    /\ CopyInv /\ CheckedInv /\ RemoveInv /\ GuardInv
    /\ GoneIsDurable /\ LossNeedsRace /\ OnlyMeasuredRemoved

IInv == MoveInv /\ InspectionInv /\ HoldersInv

-----------------------------------------------------------------------------
(* What the records rest on: the second inductive invariant. *)

\* The run directory was made for this plan.
PlanIsRecorded ==
    /\ Busy => digests[Run] = captures
    /\ \A i \in DOMAIN captures : OwnerIsRecorded(captures[i])

\* Nobody gives back what was unlinked.
GoneIsGone == \A e \in Entries : gone[e] # 0 => inode[e] # "own"

\* Everything measured is in the copy, and stays there when others take its
\* name away, until the object itself is gone.
MeasuredIsKept ==
    /\ Matched \/ pc = "sync" => \A e \in Tree(Object) : Measured.entries[e] = "own" => Copied(e)
    /\ pc = "remove" =>
          /\ \A e \in Tree(Object) : Measured.entries[e] = "own" => Kept(Run, e)
          /\ Object \in todo \cup finish \/ gone[Object] = Run

\* The log ends with what is being done.
LogInv ==
    Busy =>
        /\ pc \in {"check", "reserve"} =>
              \/ outcomes[Run] = <<>>
              \/ outcomes[Run][Len(outcomes[Run])].status = "moved"
        /\ pc \notin {"check", "reserve"} =>
              /\ outcomes[Run] # <<>>
              /\ outcomes[Run][Len(outcomes[Run])] = [object |-> Object, status |-> "reserved"]
        /\ \A j \in DOMAIN captures :
              /\ j > idx => Statuses(Run, captures[j].path) = {}
              /\ j = idx => Statuses(Run, captures[j].path) \subseteq {"reserved"}

\* What will be reported so far.
ReportInv ==
    /\ ~(pc = "idle") => result.failure = "none"
    /\ pc \in {"capture", "previewed", "revalidate"} => result = NoResult
    /\ Busy => \A o \in result.moved : \E j \in DOMAIN captures : j < idx /\ captures[j].path = o

LInv ==
    /\ PlanIsRecorded /\ GoneIsGone /\ MeasuredIsKept /\ LogInv /\ ReportInv
    /\ LogExplains /\ ResultIsTrue

=============================================================================
