------------------------------ MODULE Quarantine ------------------------------
(***************************************************************************)
(* Recoverable cleanup of temporary objects (sweepx-core junk/quarantine). *)
(* A preview measures the selected objects; its confirmed execution copies *)
(* each object into a run directory of the recovery file system, verifies  *)
(* and re-measures it, and only then unlinks the measured inodes.  Other   *)
(* processes open, write and replace entries meanwhile; the process or the *)
(* machine may stop between any two steps.                                 *)
(***************************************************************************)
EXTENDS Naturals, Sequences, FiniteSets

CONSTANTS
    Root,        \* the temporary root, sticky: parent of the objects
    Entries,     \* names below it, present or not
    Dirs,        \* the entries that are directories
    Parent,      \* the directory that holds an entry
    Above,       \* <<a, e>>: a is e or a directory above it, below Root
    Processes,   \* the processes of this user that /proc shows
    Absent,      \* no copy of an entry
    Torn,        \* a copy that is no version of the file
    MaxRuns,     \* bound: executions that get as far as a run directory
    MaxChanges   \* bound: changes other processes make

ASSUME QuarantineAssumption ==
    /\ Root \notin Entries /\ "none" \notin Entries
    /\ IsFiniteSet(Entries) /\ Dirs \subseteq Entries
    /\ Absent \notin Nat /\ Torn \notin Nat /\ Absent # Torn
    /\ MaxRuns \in Nat /\ MaxChanges \in Nat
    /\ Parent \in [Entries -> Dirs \cup {Root}]
    /\ Above \subseteq Entries \X Entries
    /\ \A e \in Entries : <<e, e>> \in Above
    /\ \A a, e \in Entries :
          a # e => (<<a, e>> \in Above <=> Parent[e] # Root /\ <<a, Parent[e]>> \in Above)
    /\ \E depth \in [Entries -> 0..Cardinality(Entries)] :
          \A e \in Entries : Parent[e] # Root => depth[Parent[e]] < depth[e]

Objects == {e \in Entries : Parent[e] = Root}
Files == Entries \ Dirs
Tree(e) == {x \in Entries : <<e, x>> \in Above}
Kids(d) == {x \in Entries : Parent[x] = d}
ObjectOf(e) == CHOOSE o \in Objects : <<o, e>> \in Above

VARIABLES
    inode,     \* inode[e]: "none", "own" (the user's) or "other" (another user's)
    content,   \* content[e]: the stamp of the last write to a file
    stamp,     \* stamp[o]: newest modification or status change below o
    active,    \* objects changed within the idle interval
    opened,    \* <<p, e>>: process p holds the file e open or mapped
    shared,    \* directories other users may write in
    changes,   \* counts what other processes did
    pc,        \* the step of the worker, "idle" without a preview
    captures,  \* the plan: objects with their captured fingerprint, in order
    idx,       \* the one being moved
    reading,   \* what the inspection under way has measured: nothing or one capture
    unscanned, \* processes this inspection has yet to look at in /proc
    todo,      \* entries still to visit in this pass
    finish,    \* directories entered and not yet finished
    target,    \* the entry checked and about to be written or unlinked
    dst,       \* dst[r][e]: the copy of e in run directory r
    named,     \* named[r]: entries whose name in their directory is durable
    synced,    \* synced[r]: files whose data is durable
    outcomes,  \* outcomes[r]: the records of outcomes.jsonl
    digests,   \* digests[r]: the plan the run directory is named for
    result     \* what the last execution returned

tree == <<inode, content, stamp, active, opened, shared, changes>>
copyVars == <<dst, named, synced>>
walk == <<todo, finish, target, reading, unscanned>>
\* History, for the properties: the run that unlinked an entry, and inodes
\* unlinked without having been measured; of the latest run, files that were
\* unlinked with more than their copy holds, files a process got hold of when
\* the last scan had passed it, and files written after the last measurement
\* while that scan was still to come or under way.
VARIABLES gone, strangers, lost, late, slipped
history == <<gone, strangers, lost, late, slipped>>
vars == <<tree, pc, captures, idx, walk, copyVars, outcomes, digests, result, history>>

Run == Len(digests)
Object == captures[idx].path
Measured == captures[idx].measurement
Present(e) == inode[e] # "none"
Stamps == 0..(MaxChanges + MaxRuns * Cardinality(Dirs))

-----------------------------------------------------------------------------
(* Measurements. *)

\* fingerprint_equals and PartialEq: the identity of every entry and the
\* newest time below the object.
Fingerprint(o) == [entries |-> [e \in Tree(o) |-> inode[e]], newest |-> stamp[o]]

\* The steps that inspect an object first; after the reservation, its idleness
\* is not asked again.
Inspecting == {"capture", "revalidate", "check", "prepare", "recheck"}
AsksIdle == pc \in {"capture", "revalidate", "check"}

\* What inspect_candidate asks of the entries themselves.
Eligible(o) ==
    /\ inode[o] = "own"
    /\ \A e \in Tree(o) : inode[e] # "other"
    /\ AsksIdle => o \notin active

Users(o) == {h[1] : h \in {h \in opened : <<o, h[2]>> \in Above}}

\* Mutant: only the identities are compared again.
SameIdentities ==
    /\ unscanned = {}
    /\ \E c \in reading : c.path = Object /\ c.measurement.entries = Measured.entries

\* The inspection is complete and found the captured facts again.
Inspected == reading = {captures[idx]} /\ unscanned = {}

\* verify_removal_entry: the inode found is the one that was measured.
IsMeasured(e) == inode[e] = "own" /\ Measured.entries[e] = "own"

-----------------------------------------------------------------------------
(* Other processes. *)

Touch(o) == /\ stamp' = [stamp EXCEPT ![o] = @ + 1]
            /\ active' = active \cup {o}

Environment(A) ==
    /\ A
    /\ UNCHANGED <<pc, captures, idx, walk, copyVars, outcomes, digests, result,
                   gone, strangers, lost>>

\* A process of the same user opens a file, or inherits its descriptor.
OpenFile(p, e) ==
    /\ changes < MaxChanges /\ inode[e] = "own" /\ <<p, e>> \notin opened
    /\ opened' = opened \cup {<<p, e>>}
    /\ late' = IF /\ \/ pc \in {"sync", "remove"}
                     \/ pc = "recheck" /\ reading # {} /\ p \notin unscanned
                  /\ <<Object, e>> \in Above
               THEN late \cup {e} ELSE late
    /\ UNCHANGED <<inode, content, stamp, active, shared, changes, slipped>>

WriteFile(p, e) ==
    /\ changes < MaxChanges /\ inode[e] = "own" /\ <<p, e>> \in opened
    /\ content' = [content EXCEPT ![e] = stamp[ObjectOf(e)] + 1]
    /\ Touch(ObjectOf(e))
    /\ changes' = changes + 1
    /\ slipped' = IF pc = "recheck" /\ reading # {} /\ <<Object, e>> \in Above
                  THEN slipped \cup {e} ELSE slipped
    /\ UNCHANGED <<inode, opened, shared, late>>

CloseFile(p, e) ==
    /\ <<p, e>> \in opened
    /\ opened' = opened \ {<<p, e>>}
    /\ UNCHANGED <<inode, content, stamp, active, shared, changes, late, slipped>>

\* Descriptors of names that are gone are of no more interest.
Forget(names) == opened' = {h \in opened : h[2] \notin names}

\* Another user replaces, adds or takes away a name of a directory it may
\* write in.  Names of the sticky root can only be created.
ReplaceName(e, new) ==
    /\ changes < MaxChanges /\ inode[e] # new
    /\ \/ Parent[e] \in shared /\ inode[Parent[e]] = "own"
       \/ Parent[e] = Root /\ inode[e] = "none"
    /\ inode' = [x \in Entries |-> IF x = e THEN new
                                   ELSE IF <<e, x>> \in Above THEN "none" ELSE inode[x]]
    /\ Forget(Tree(e))
    /\ Touch(ObjectOf(e))
    /\ changes' = changes + 1
    /\ UNCHANGED <<content, shared, late, slipped>>

\* The idle interval passes.
Idle == /\ pc \in {"idle", "previewed"} /\ active # {}
        /\ active' = {}
        /\ UNCHANGED <<inode, content, stamp, opened, shared, changes, late, slipped>>

Others ==
    \/ \E p \in Processes, e \in Files : Environment(OpenFile(p, e))
    \/ \E p \in Processes, e \in Files : Environment(WriteFile(p, e))
    \/ \E p \in Processes, e \in Files : Environment(CloseFile(p, e))
    \/ \E e \in Entries, new \in {"none", "other"} : Environment(ReplaceName(e, new))
    \/ Environment(Idle)

-----------------------------------------------------------------------------
(* inspect_candidate: the tree is measured, then /proc is read process by    *)
(* process.  Two equal measurements in a row tell of the moment between them *)
(* (nothing an entry had been through before its second visit escapes), but  *)
(* of nothing later: what a process writes and lets go of before its turn in *)
(* the scan is seen by neither.                                              *)

Inspection == /\ pc \in Inspecting
              /\ UNCHANGED <<tree, pc, captures, idx, todo, finish, target, copyVars, outcomes,
                             digests, result, history>>

Selected(o) == IF pc = "capture" THEN \A i \in DOMAIN captures : captures[i].path # o
                                 ELSE o = Object

Measure(o) ==
    /\ Inspection
    /\ reading = {} /\ Selected(o) /\ Eligible(o)
    /\ reading' = {[path |-> o, measurement |-> Fingerprint(o)]}
    /\ unscanned' = Processes

\* temp_path_is_referenced, for one process.
ScanProcess(p) ==
    /\ Inspection
    /\ p \in unscanned /\ \A c \in reading : p \notin Users(c.path)
    /\ unscanned' = unscanned \ {p}
    /\ UNCHANGED reading

-----------------------------------------------------------------------------
(* Preview and the start of an execution. The digest of a plan covers every  *)
(* captured fact, so the captures stand for it.                              *)

NoResult == [moved |-> {}, failure |-> "none"]

StartPreview ==
    /\ pc = "idle" /\ Run < MaxRuns
    /\ pc' = "capture" /\ result' = NoResult
    /\ UNCHANGED <<tree, captures, idx, walk, copyVars, outcomes, digests, history>>

\* capture_all, an object; preview_temp_clean_with_limits returns after the last.
Capture(last) ==
    /\ pc = "capture" /\ unscanned = {}
    /\ \E c \in reading : captures' = Append(captures, c)
    /\ reading' = {}
    /\ IF last THEN pc' = "previewed" ELSE UNCHANGED pc
    /\ UNCHANGED <<tree, idx, unscanned, todo, finish, target, copyVars, outcomes, digests, result,
                   history>>

\* The preview refuses an object, its view is closed, the answer is not the
\* digest, the confirmation expired, or execute_temp_clean returns Err before
\* it has made a run directory.
Dismiss ==
    /\ pc \in {"capture", "previewed", "revalidate"}
    /\ pc' = "idle" /\ captures' = <<>> /\ idx' = 1
    /\ reading' = {} /\ unscanned' = {}
    /\ UNCHANGED <<tree, todo, finish, target, copyVars, outcomes, digests, result, history>>

Confirm ==
    /\ pc = "previewed"
    /\ pc' = "revalidate"
    /\ UNCHANGED <<tree, captures, idx, walk, copyVars, outcomes, digests, result, history>>

\* revalidate_all, before the last object.
Revalidate ==
    /\ pc = "revalidate" /\ idx < Len(captures)
    /\ Inspected
    /\ idx' = idx + 1 /\ reading' = {}
    /\ UNCHANGED <<tree, pc, captures, unscanned, todo, finish, target, copyVars, outcomes, digests,
                   result, history>>

\* prepare_quarantine: create_dir refuses a directory that exists.  The last
\* step of the preparation may still fail.
Execute(prepared) ==
    /\ pc = "revalidate" /\ idx = Len(captures) /\ Run < MaxRuns
    /\ Inspected
    /\ \A r \in 1..Run : digests[r] # captures
    /\ digests' = Append(digests, captures)
    /\ dst' = Append(dst, [e \in Entries |-> Absent])
    /\ named' = Append(named, {})
    /\ synced' = Append(synced, {})
    /\ outcomes' = Append(outcomes, <<>>)
    /\ IF prepared THEN pc' = "check" /\ UNCHANGED captures
                   ELSE pc' = "idle" /\ captures' = <<>>
    /\ idx' = 1 /\ reading' = {}
    /\ lost' = {} /\ late' = {} /\ slipped' = {}
    /\ UNCHANGED <<tree, unscanned, todo, finish, target, result, gone, strangers>>

-----------------------------------------------------------------------------
(* execute_captures: one object after the other. *)

At(step) == pc = step /\ UNCHANGED digests

\* The call returns; the preview was consumed.
Return(moved, failure) ==
    /\ pc' = "idle"
    /\ result' = [moved |-> moved, failure |-> failure]
    /\ captures' = <<>> /\ idx' = 1
    /\ todo' = {} /\ finish' = {} /\ target' = Root
    /\ reading' = {} /\ unscanned' = {}

\* The loop breaks at this object.
Break == Return(result.moved, Object)

Record(status) ==
    outcomes' = [outcomes EXCEPT ![Run] = Append(@, [object |-> Object, status |-> status])]

Continue(step) == pc' = step /\ UNCHANGED <<captures, idx, result, walk>>

\* revalidate_candidate, then the identity of the run directory, its free space
\* and a free destination name; operation.check may end it anywhere.
CheckObject(stop) ==
    /\ At("check")
    /\ IF stop THEN Break
       ELSE /\ Inspected /\ dst[Run][Object] = Absent
            /\ pc' = "reserve" /\ reading' = {}
            /\ UNCHANGED <<captures, idx, result, unscanned, todo, finish, target>>
    /\ UNCHANGED <<tree, copyVars, outcomes, history>>

\* Mutant: the move starts although the record could not be written.
ReserveUnrecorded(written) ==
    /\ At("reserve")
    /\ IF written THEN Record("reserved") ELSE UNCHANGED outcomes
    /\ Continue("prepare")
    /\ UNCHANGED <<tree, copyVars, history>>

\* append_outcome "reserved", synced before the source is read.
Reserve(written) ==
    /\ At("reserve")
    /\ IF written THEN Record("reserved") /\ Continue("prepare")
                  ELSE Break /\ UNCHANGED outcomes
    /\ UNCHANGED <<tree, copyVars, history>>

\* The failure branch: the record says what was found, its own failure is
\* ignored.
Fail(written) ==
    /\ At("failed")
    /\ IF written THEN Record("failed") ELSE UNCHANGED outcomes
    /\ Break
    /\ UNCHANGED <<tree, copyVars, history>>

Moving == {"prepare", "copy", "verify", "recheck", "sync", "remove"}

\* Cancellation, the deadline, a budget or an I/O error ends the move.
Stop ==
    /\ pc \in Moving
    /\ pc' = "failed"
    /\ UNCHANGED <<tree, captures, idx, walk, copyVars, outcomes, digests, result, history>>

\* prepare_symlink_copy_observed compares the tree with the captured facts.
Prepare ==
    /\ At("prepare")
    /\ Inspected
    /\ pc' = "copy" /\ todo' = {Object} /\ reading' = {}
    /\ UNCHANGED <<tree, captures, idx, unscanned, finish, target, copyVars, outcomes, result,
                   history>>

-----------------------------------------------------------------------------
(* copy_tree_observed and copy_directory. *)

Put(e, c) == dst' = [dst EXCEPT ![Run][e] = c]

\* fsync of a directory of the run makes the names in it durable.
SyncDir(d, copy) == named' = [named EXCEPT ![Run] = @ \cup {e \in Kids(d) : copy[e] # Absent}]

\* Job::Enter: create the directory, list the names found now.
EnterDirectory(d) ==
    /\ At("copy") /\ target = Root
    /\ d \in todo \cap Dirs /\ Present(d)
    /\ Put(d, 0)
    /\ todo' = (todo \ {d}) \cup {e \in Kids(d) : Present(e)}
    /\ finish' = finish \cup {d}
    /\ UNCHANGED <<tree, pc, captures, idx, reading, unscanned, target, named, synced, outcomes,
                   result, history>>

\* copy_regular_file_observed: create, then copy and make durable.
BeginFile(e) ==
    /\ At("copy") /\ target = Root
    /\ e \in todo \cap Files /\ Present(e)
    /\ Put(e, Torn)
    /\ target' = e
    /\ UNCHANGED <<tree, pc, captures, idx, reading, unscanned, todo, finish, named, synced,
                   outcomes, result, history>>

\* A write while the file is read may leave a copy of neither version.
EndFile(copied) ==
    /\ At("copy") /\ target # Root /\ Present(target)
    /\ copied = content[target] \/ (copied = Torn /\ stamp[Object] # Measured.newest)
    /\ Put(target, copied)
    /\ synced' = [synced EXCEPT ![Run] = @ \cup {target}]
    /\ SyncDir(Parent[target], dst'[Run])
    /\ todo' = todo \ {target}
    /\ target' = Root
    /\ UNCHANGED <<tree, pc, captures, idx, reading, unscanned, finish, outcomes, result, history>>

\* Job::Finish, after everything below: metadata, then fsync of the directory.
FinishDirectory(d) ==
    /\ At("copy") /\ target = Root
    /\ d \in finish /\ todo \cap Tree(d) = {} /\ finish \cap Tree(d) = {d}
    /\ SyncDir(d, dst[Run])
    /\ finish' = finish \ {d}
    /\ UNCHANGED <<tree, pc, captures, idx, reading, unscanned, todo, target, dst, synced,
                   outcomes, result, history>>

EndCopy ==
    /\ At("copy") /\ todo = {} /\ finish = {} /\ target = Root
    /\ pc' = "verify" /\ todo' = {Object}
    /\ UNCHANGED <<tree, captures, idx, reading, unscanned, finish, target, copyVars, outcomes,
                   result, history>>

-----------------------------------------------------------------------------
(* The checks between the copy and the removal. *)

\* verify_copied_entry, one entry of the pending list.
SameAsCopy(e) ==
    /\ Present(e) /\ dst[Run][e] # Absent
    /\ e \in Files => dst[Run][e] = content[e]
    /\ e \in Dirs => \A x \in Kids(e) : Present(x) <=> dst[Run][x] # Absent

VerifyEntry(e) ==
    /\ At("verify") /\ e \in todo
    /\ SameAsCopy(e)
    /\ todo' = (todo \ {e}) \cup {x \in Kids(e) : Present(x)}
    /\ UNCHANGED <<tree, pc, captures, idx, reading, unscanned, finish, target, copyVars, outcomes,
                   result, history>>

EndVerify ==
    /\ At("verify") /\ todo = {}
    /\ Continue("recheck")
    /\ UNCHANGED <<tree, copyVars, outcomes, history>>

\* The eligibility check repeated after the copy.
Recheck ==
    /\ At("recheck")
    /\ Inspected
    /\ pc' = "sync" /\ reading' = {}
    /\ UNCHANGED <<tree, captures, idx, unscanned, todo, finish, target, copyVars, outcomes, result,
                   history>>

\* Mutant: the source is removed before the name of the copy is durable.
RemoveUnsynced ==
    /\ At("sync")
    /\ pc' = "remove" /\ todo' = {Object}
    /\ UNCHANGED <<tree, captures, idx, reading, unscanned, finish, target, copyVars, outcomes,
                   result, history>>

\* sync_parent(destination), before the source is touched.
SyncDestination ==
    /\ At("sync")
    /\ SyncDir(Root, dst[Run])
    /\ pc' = "remove" /\ todo' = {Object}
    /\ UNCHANGED <<tree, captures, idx, reading, unscanned, finish, target, dst, synced, outcomes,
                   result, history>>

\* The inspection refuses the object, by its entries or by a process that
\* holds a file of it, or found other facts.
Refused ==
    \/ reading = {} /\ ~Eligible(Object)
    \/ \E c \in reading : c # captures[idx] \/ unscanned \cap Users(c.path) # {}

\* A check that fails leaves the source in place.
Differs ==
    /\ \/ pc \in {"prepare", "recheck"} /\ Refused
       \/ pc = "verify" /\ \E e \in todo : ~SameAsCopy(e)
       \/ pc = "copy" /\ \E e \in todo : ~Present(e)
       \/ pc = "remove" /\ target = Root /\ \E e \in todo : ~IsMeasured(e)
       \/ pc = "remove" /\ target # Root /\ ~Present(target)
       \/ pc = "remove" /\ \E d \in finish :
             todo \cap Tree(d) = {} /\ finish \cap Tree(d) = {d} /\ \E e \in Kids(d) : Present(e)
    /\ pc' = "failed"
    /\ UNCHANGED <<tree, captures, idx, walk, copyVars, outcomes, digests, result, history>>

-----------------------------------------------------------------------------
(* remove_tree_verified_observed. *)

\* Mutant: other users keep their access.
LeaveOpen(d) == shared

\* make_owner_only: the directory is closed to other users before it is listed.
CloseToOthers(d) == shared \ {d}

\* Job::Visit of a directory: identity of the name and of the opened object.
VisitDirectory(d) ==
    /\ At("remove") /\ target = Root
    /\ d \in todo \cap Dirs /\ IsMeasured(d)
    /\ shared' = CloseToOthers(d)
    /\ Touch(Object)
    /\ todo' = (todo \ {d}) \cup {e \in Kids(d) : Present(e)}
    /\ finish' = finish \cup {d}
    /\ UNCHANGED <<inode, content, opened, changes, pc, captures, idx, reading, unscanned, target,
                   copyVars, outcomes, result,
                   history>>

\* Job::Visit of anything else: identity first, unlinkat by name after it.
VisitFile(e) ==
    /\ At("remove") /\ target = Root
    /\ e \in todo \cap Files /\ IsMeasured(e)
    /\ target' = e
    /\ UNCHANGED <<tree, pc, captures, idx, reading, unscanned, todo, finish, copyVars, outcomes,
                   result, history>>

\* unlinkat: the name goes, whatever it refers to by now.
Unlink(e) ==
    /\ inode' = [inode EXCEPT ![e] = "none"]
    /\ Forget({e})
    /\ gone' = IF inode[e] = "own" THEN [gone EXCEPT ![e] = Run] ELSE gone
    /\ strangers' = IF inode[e] = "own" THEN strangers ELSE strangers \cup {e}
    /\ UNCHANGED <<content, stamp, active, shared, changes, late, slipped>>

UnlinkFile ==
    /\ At("remove") /\ target # Root /\ Present(target)
    /\ Unlink(target)
    /\ lost' = IF dst[Run][target] = content[target] THEN lost ELSE lost \cup {target}
    /\ todo' = todo \ {target}
    /\ target' = Root
    /\ UNCHANGED <<pc, captures, idx, reading, unscanned, finish, copyVars, outcomes, result>>

\* Job::RemoveDirectory: AT_REMOVEDIR refuses a directory with names left.
RemoveDirectory(d) ==
    /\ At("remove") /\ target = Root
    /\ d \in finish /\ todo \cap Tree(d) = {} /\ finish \cap Tree(d) = {d}
    /\ Present(d) /\ \A e \in Kids(d) : ~Present(e)
    /\ Unlink(d)
    /\ finish' = finish \ {d}
    /\ UNCHANGED <<pc, captures, idx, reading, unscanned, todo, target, copyVars, outcomes, result,
                   lost>>

\* The move returned Ok: recorded and counted if the source name is gone.
Moved(written) ==
    /\ At("remove") /\ todo = {} /\ finish = {} /\ target = Root
    /\ IF Present(Object) \/ ~written
       THEN Break /\ UNCHANGED outcomes
       ELSE /\ Record("moved")
            /\ IF idx = Len(captures)
               THEN Return(result.moved \cup {Object}, "none")
               ELSE /\ pc' = "check" /\ idx' = idx + 1
                    /\ result' = [result EXCEPT !.moved = @ \cup {Object}]
                    /\ UNCHANGED <<captures, walk>>
    /\ UNCHANGED <<tree, copyVars, history>>

-----------------------------------------------------------------------------
(* Crashes. *)

Reaches(r, e) == \A a \in Entries : <<a, e>> \in Above => a \in named[r]
Durable(r, e) == Reaches(r, e) /\ (e \in Files => e \in synced[r])

\* The process ends: the files stay as they are.  With the power, what was
\* not durable is gone from the run directory too.
Crash(power) ==
    /\ pc # "idle"
    /\ Return({}, "none")
    /\ dst' = [r \in 1..Run |-> [e \in Entries |->
                  IF power /\ ~Durable(r, e) THEN Absent ELSE dst[r][e]]]
    /\ opened' = IF power THEN {} ELSE opened
    /\ UNCHANGED <<inode, content, stamp, active, shared, changes,
                   named, synced, outcomes, digests, history>>

-----------------------------------------------------------------------------

Init ==
    /\ inode \in [Entries -> {"none", "own"}]
    /\ \A e \in Entries : Parent[e] = Root => Present(e)
    /\ \A a, e \in Entries : <<a, e>> \in Above /\ Present(e) => Present(a)
    /\ content = [e \in Entries |-> 0]
    /\ stamp = [o \in Objects |-> 0]
    /\ active = {} /\ opened = {} /\ changes = 0
    /\ shared \in SUBSET {d \in Dirs : inode[d] = "own"}
    /\ pc = "idle" /\ captures = <<>> /\ idx = 1
    /\ todo = {} /\ finish = {} /\ target = Root /\ reading = {} /\ unscanned = {}
    /\ dst = <<>> /\ named = <<>> /\ synced = <<>> /\ outcomes = <<>> /\ digests = <<>>
    /\ result = NoResult
    /\ gone = [e \in Entries |-> 0]
    /\ strangers = {} /\ lost = {} /\ late = {} /\ slipped = {}

Worker ==
    \/ \E stop \in BOOLEAN : CheckObject(stop)
    \/ \E written \in BOOLEAN : Reserve(written) \/ Fail(written) \/ Moved(written)
    \/ Stop \/ Prepare \/ Differs
    \/ \E e \in Entries :
          \/ EnterDirectory(e) \/ BeginFile(e) \/ FinishDirectory(e) \/ VerifyEntry(e)
          \/ VisitDirectory(e) \/ VisitFile(e) \/ RemoveDirectory(e)
    \/ \E c \in Stamps \cup {Torn} : EndFile(c)
    \/ EndCopy \/ EndVerify \/ Recheck \/ SyncDestination \/ UnlinkFile

Next ==
    \/ \E o \in Objects : Measure(o)
    \/ \E p \in Processes : ScanProcess(p)
    \/ StartPreview \/ Dismiss \/ Confirm \/ Revalidate
    \/ \E last \in BOOLEAN : Capture(last)
    \/ \E prepared \in BOOLEAN : Execute(prepared)
    \/ Worker
    \/ \E power \in BOOLEAN : Crash(power)
    \/ Others

Spec == Init /\ [][Next]_vars

=============================================================================
