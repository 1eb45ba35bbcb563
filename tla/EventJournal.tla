----------------------------- MODULE EventJournal -----------------------------
(***************************************************************************)
(* The event journal of one operation (sweepx-event-journal, and the calls *)
(* of sweepx-core that create and read it): a directory with a lock file   *)
(* and a database that holds one stream of events, its head, its identity  *)
(* and, with the terminal event, the snapshot of the operation.  A digest  *)
(* chains the records, and a cursor is derived from the nonce of the       *)
(* database, the stream and the chain so far.  Any step may be the last of *)
(* a process; a transaction is all or nothing.                             *)
(***************************************************************************)
EXTENDS Naturals, Sequences

CONSTANTS
    Writers,         \* processes that open the journal and may append
    Readers,         \* processes that replay it
    Streams,         \* stream identities (stream and operation id)
    Own,             \* the stream of the operation the directory is named for
    None,
    MAX_EVENTS,
    MAX_REPLAY,      \* replay budget, in events
    SNAPSHOT_COST,   \* what a snapshot takes from that budget
    MAX_PAGE,        \* events in a page of a replay
    MaxTime,         \* bound: times of emission
    MaxNonce         \* bound: databases made in the directory

ASSUME EventJournalAssumption ==
    /\ Own \in Streams /\ None \notin Streams
    /\ None \notin [nonce : Nat, stream : Streams, seq : Nat]
    /\ {MAX_EVENTS, MAX_REPLAY, MAX_PAGE} \subseteq Nat \ {0}
    /\ {SNAPSHOT_COST, MaxTime, MaxNonce} \subseteq Nat

VARIABLES
    disk,       \* the files under the name of the directory
    pc,         \* what each writer does: "idle", "root", "init" or "open"
    handle,     \* the nonce of the directory a writer has opened
    position,   \* the last append position any writer was given
    session,    \* the replay session of a reader: frozen events and an offset
    seen,       \* what a reader has: events after an index, and a cursor
    published   \* the scan of the operation has returned with success

vars == <<disk, pc, handle, position, session, seen, published>>

\* "none": no directory.  "dir": no database.  "empty": a database file that
\* was never initialized.
NoJournal(n) == [state |-> "none", nonce |-> n, rows |-> <<>>, head |-> [seq |-> 0, cursor |-> None],
                 stream |-> None, snapshot |-> None, terminal |-> 0]

Kinds == {"started", "progress", "terminal"}
Nonces == 0..MaxNonce
Cursors == [nonce : Nonces, stream : Streams, seq : Nat]
Events == [type : Kinds, stream : Streams, seq : Nat, cursor : Cursors, durable : BOOLEAN,
           last : Nat, time : 0..MaxTime, snapshot : Streams \cup {None}]
Positions == [cursor : Cursors, last : Nat, durable : BOOLEAN]

NoSession == [events |-> <<>>, next |-> 1]
NothingSeen == [events |-> <<>>, from |-> 0, nonce |-> 0, cursor |-> None]

-----------------------------------------------------------------------------
(* The stream. *)

\* next_durable_cursor: the digest chain is append only, so within one
\* database the sequence number stands for the digest of what came before.
NextCursor(d, st, n) == [nonce |-> d.nonce, stream |-> st, seq |-> n]

\* Of the events before the one at n; the running values of the code.
LastDurable(s, n) == IF n = 1 THEN 0 ELSE s[n - 1].last

LatestTime(s, n) == IF n = 1 THEN 0 ELSE s[n - 1].time

ReplayCost(n, snapshot) == n + (IF snapshot = None THEN 0 ELSE SNAPSHOT_COST)

\* EventEnvelope::validate_for_durable_stream.
ValidEvent(e) ==
    /\ e.seq > 0
    /\ IF e.durable THEN e.last = e.seq ELSE e.last < e.seq
    /\ e.type = "terminal" => e.durable
    /\ (e.type = "terminal") = (e.snapshot # None)

\* What verify_database_snapshot asks of the record at n.  (Of the stream of
\* a record after the first, only once there is a snapshot.)
ValidRecord(d, n) ==
    LET e == d.rows[n]
    IN  /\ ValidEvent(e)
        /\ e.seq = n
        /\ (n = 1) = (e.type = "started")
        /\ e.stream = d.stream
        /\ e.cursor = NextCursor(d, e.stream, n)
        /\ e.time >= LatestTime(d.rows, n)
        /\ e.last = IF e.durable THEN n ELSE LastDurable(d.rows, n)
        /\ e.type = "terminal" => d.terminal = n

\* validate_durable_event_stream, as far as no record says it already.
CompleteStream(s, snapshot) ==
    /\ s # <<>>
    /\ s[1].type = "started" /\ s[1].durable
    /\ \A n \in DOMAIN s : s[n].type = "terminal" <=> n = Len(s)
    /\ s[Len(s)].snapshot = snapshot

\* verify_database_snapshot.
Verifies(d) ==
    /\ Len(d.rows) <= MAX_EVENTS
    /\ \A n \in DOMAIN d.rows : ValidRecord(d, n)
    /\ d.head.seq = Len(d.rows)
    /\ d.head.cursor = IF d.rows = <<>> THEN None ELSE d.rows[Len(d.rows)].cursor
    /\ (d.rows = <<>>) = (d.stream = None)
    /\ (d.terminal = 0) = (d.snapshot = None)
    /\ d.terminal # 0 => d.terminal \in DOMAIN d.rows /\ d.rows[d.terminal].type = "terminal"
    /\ ReplayCost(Len(d.rows), d.snapshot) <= MAX_REPLAY
    /\ d.snapshot # None => d.snapshot = d.stream /\ CompleteStream(d.rows, d.snapshot)

-----------------------------------------------------------------------------
(* Opening. *)

Reader == UNCHANGED <<session, seen>>

\* try_lock_exclusive on the lock file of the directory; a handle on a
\* directory that is gone holds another file.
LockFree == \A p \in Writers : pc[p] \in {"init", "open"} => handle[p] # disk.nonce

Enter(p, step) == /\ pc' = [pc EXCEPT ![p] = step]
                  /\ handle' = [handle EXCEPT ![p] = disk.nonce]

\* journal_root(.., true).
CreateRoot(p) ==
    /\ pc[p] = "idle"
    /\ Enter(p, "root")
    /\ disk' = IF disk.state = "none" THEN [disk EXCEPT !.state = "dir"] ELSE disk
    /\ UNCHANGED <<position, published>> /\ Reader

\* open_in: the lock, and the database file unless there is one.
CreateDatabase(p) ==
    /\ pc[p] = "root" /\ handle[p] = disk.nonce /\ disk.state = "dir" /\ LockFree
    /\ disk' = [disk EXCEPT !.state = "empty"]
    /\ Enter(p, "init")
    /\ UNCHANGED <<position, published>> /\ Reader

\* initialize_database: one transaction, with a fresh nonce from the start.
Initialize(p) ==
    /\ pc[p] = "init" /\ handle[p] = disk.nonce
    /\ disk' = [disk EXCEPT !.state = "ready"]
    /\ pc' = [pc EXCEPT ![p] = "open"]
    /\ UNCHANGED <<handle, position, published>> /\ Reader

\* verify_initialized_database refuses a file that was never initialized.
OpenExisting(p) ==
    /\ pc[p] = "idle" \/ (pc[p] = "root" /\ handle[p] = disk.nonce)
    /\ disk.state = "ready" /\ LockFree
    /\ Enter(p, "open")
    /\ UNCHANGED <<disk, position, published>> /\ Reader

\* The handle is dropped, a step of an open is refused or fails, or the
\* process dies; a position may still be used, with another handle too.
Leave(p) ==
    /\ pc[p] # "idle"
    /\ pc' = [pc EXCEPT ![p] = "idle"]
    /\ handle' = [handle EXCEPT ![p] = 0]
    /\ UNCHANGED <<disk, position, published>> /\ Reader

\* The user removes the directory; what is made there later is another one.
Remove ==
    /\ disk.state # "none" /\ disk.nonce < MaxNonce
    /\ disk' = NoJournal(disk.nonce + 1)
    /\ published' = FALSE
    /\ UNCHANGED <<pc, handle, position>> /\ Reader

-----------------------------------------------------------------------------
(* Appending. *)

\* lock_connection: the files under the name are still the ones opened.
Connected(p) == pc[p] = "open" /\ handle[p] = disk.nonce

\* Mutant: the checkpoint of a durable position is the one before it.
PositionBehind(st, durable) ==
    [cursor |-> NextCursor(disk, st, disk.head.seq + 1), durable |-> durable,
     last |-> LastDurable(disk.rows, disk.head.seq + 1)]

\* JournalIntegrity::next_position.
PositionFor(st, durable) ==
    LET n == disk.head.seq + 1
    IN  [cursor |-> NextCursor(disk, st, n), durable |-> durable,
         last |-> IF durable THEN n ELSE LastDurable(disk.rows, n)]

\* Mutant: a finished stream goes on.
NeverFinished == TRUE

\* AlreadyTerminal and EventLimitExceeded.
Unfinished == disk.terminal = 0

Room == disk.head.seq < MAX_EVENTS

NextAppendPosition(p, st, durable) ==
    /\ Connected(p) /\ Verifies(disk)
    /\ Unfinished /\ Room /\ disk.stream \in {None, st}
    /\ position' = PositionFor(st, durable)
    /\ UNCHANGED <<disk, pc, handle, published>> /\ Reader

\* The event a caller builds at a position; with apply_to it is durable.
EventAt(pos, type, durable, time) ==
    [type |-> type, stream |-> pos.cursor.stream, seq |-> pos.cursor.seq, cursor |-> pos.cursor,
     durable |-> durable, last |-> pos.last, time |-> time,
     snapshot |-> IF type = "terminal" THEN pos.cursor.stream ELSE None]

\* The checks of append_event_inner.
InOrder(e) ==
    /\ ValidEvent(e) /\ Unfinished /\ Room
    /\ disk.stream \in {None, e.stream}
    /\ e.seq = disk.head.seq + 1
    /\ (e.seq = 1) = (e.type = "started")
    /\ e.seq = 1 => e.durable
    /\ e.last = IF e.durable THEN e.seq ELSE LastDurable(disk.rows, e.seq)
    /\ e.time >= LatestTime(disk.rows, e.seq)
    /\ e.cursor = NextCursor(disk, e.stream, e.seq)

\* Mutant: the snapshot is not counted.
EventsFit(snapshot) == ReplayCost(Len(disk.rows) + 1, None) <= MAX_REPLAY

ReplayFits(snapshot) == ReplayCost(Len(disk.rows) + 1, snapshot) <= MAX_REPLAY

\* The inserts and updates of one transaction.
Stored(d, events, st, snapshot) ==
    LET rows == d.rows \o events
    IN  [d EXCEPT !.rows = rows,
                  !.head = [seq |-> Len(rows), cursor |-> rows[Len(rows)].cursor],
                  !.stream = st,
                  !.snapshot = snapshot,
                  !.terminal = IF snapshot = None THEN 0 ELSE Len(rows)]

\* append_event: a terminal event without its snapshot rolls back.
AppendEvent(p, e) ==
    /\ Connected(p) /\ Verifies(disk) /\ ReplayFits(None)
    /\ InOrder(e) /\ e.type # "terminal"
    /\ disk' = Stored(disk, <<e>>, e.stream, None)
    /\ UNCHANGED <<pc, handle, position, published>> /\ Reader

\* append_terminal_with_snapshot: the event names the snapshot it comes with.
AppendTerminal(p, e) ==
    /\ Connected(p) /\ Verifies(disk) /\ ReplayFits(e.snapshot)
    /\ InOrder(e) /\ e.type = "terminal" /\ e.snapshot = e.stream
    /\ disk' = Stored(disk, <<e>>, e.stream, e.snapshot)
    /\ UNCHANGED <<pc, handle, position, published>> /\ Reader

\* append_complete_stream: every position is the journal's own.
Assigned(st, drafts) ==
    [n \in DOMAIN drafts |->
        EventAt([cursor |-> NextCursor(disk, st, n), last |-> n, durable |-> TRUE], drafts[n].type, TRUE, drafts[n].time)]

\* Mutant: times are not compared.
AnyTimes(s) == TRUE

TimesInOrder(s) == \A m, n \in DOMAIN s : m < n => s[m].time <= s[n].time

StartsOnce(s) == \A n \in DOMAIN s : s[n].type = "started" <=> n = 1

\* The whole stream and its snapshot, or nothing.  A scan returns after it.
AppendCompleteStream(p, st, drafts) ==
    LET events == Assigned(st, drafts)
    IN  /\ Verifies(disk) /\ Len(drafts) <= MAX_EVENTS
        /\ ReplayCost(Len(drafts), st) <= MAX_REPLAY
        /\ CompleteStream(events, st) /\ StartsOnce(events) /\ TimesInOrder(events)
        /\ disk' = Stored(disk, events, st, st)
        /\ published' = (st = Own)
        /\ UNCHANGED <<pc, handle, position>> /\ Reader

-----------------------------------------------------------------------------
(* Reading. *)

\* status_with_store, cancel_with_store: open_journal and read_final_snapshot.
\* The open is admitted unless the lock or the quota of the state directory
\* refuses it, and refused again while another handle has the journal.
StatusAnswer(admitted) ==
    IF disk.state = "none" THEN "other store"
    ELSE IF ~admitted \/ ~LockFree THEN "refused"
    ELSE IF disk.state = "ready" /\ Verifies(disk) /\ disk.snapshot = Own THEN "snapshot"
    ELSE "corruption"

\* Mutant: the event of the cursor comes again.
OffsetBefore(events, cursor) ==
    IF cursor = None THEN 0 ELSE (CHOOSE n \in DOMAIN events : events[n].cursor = cursor) - 1

\* cursor_offsets: how many events come up to a cursor.
Known(events, cursor) == cursor = None \/ \E n \in DOMAIN events : events[n].cursor = cursor

Offset(events, cursor) ==
    IF cursor = None THEN 0 ELSE CHOOSE n \in DOMAIN events : events[n].cursor = cursor

\* open_replay_in: verify, freeze the events, give the lock back.  A cursor
\* that is not of this database sends the client to the latest one.
OpenReplay(p) ==
    LET known == Known(disk.rows, seen[p].cursor)
        from == IF known THEN Offset(disk.rows, seen[p].cursor) ELSE Len(disk.rows)
    IN  /\ disk.state = "ready" /\ LockFree /\ Verifies(disk)
        /\ session' = [session EXCEPT ![p] = [events |-> disk.rows, next |-> from + 1]]
        /\ seen' = IF known /\ seen[p].cursor # None THEN seen
                   ELSE [seen EXCEPT ![p] = [events |-> <<>>, from |-> from, nonce |-> disk.nonce,
                                             cursor |-> IF known THEN None ELSE disk.head.cursor]]
        /\ UNCHANGED <<disk, pc, handle, position, published>>

\* replay_from_cursor and ReplayPages::next.
Page(p, limit) ==
    LET s == session[p]
        left == Len(s.events) + 1 - s.next
        last == s.next - 1 + (IF limit <= left THEN limit ELSE left)
    IN  /\ left > 0
        /\ seen' = [seen EXCEPT ![p].events = @ \o SubSeq(s.events, s.next, last),
                                ![p].cursor = s.events[last].cursor]
        /\ session' = [session EXCEPT ![p].next = last + 1]
        /\ UNCHANGED <<disk, pc, handle, position, published>>

-----------------------------------------------------------------------------
Drafts == UNION {[1..n -> [type : Kinds, time : 0..MaxTime]] : n \in 1..MAX_EVENTS}

Init ==
    /\ disk = NoJournal(0)
    /\ pc = [p \in Writers |-> "idle"]
    /\ handle = [p \in Writers |-> 0]
    /\ position = None
    /\ session = [p \in Readers |-> NoSession]
    /\ seen = [p \in Readers |-> NothingSeen]
    /\ published = FALSE

AppendAt(p) ==
    /\ position # None
    /\ \E type \in Kinds, durable \in BOOLEAN, time \in 0..MaxTime :
          LET e == EventAt(position, type, durable, time)
          IN  AppendEvent(p, e) \/ AppendTerminal(p, e)

AppendStream(p) ==
    /\ Connected(p) /\ disk.head.seq = 0
    /\ \E st \in Streams, drafts \in Drafts : AppendCompleteStream(p, st, drafts)

Next ==
    \/ Remove
    \/ \E p \in Writers :
          \/ CreateRoot(p) \/ CreateDatabase(p) \/ Initialize(p) \/ OpenExisting(p)
          \/ Leave(p)
          \/ \E st \in Streams, durable \in BOOLEAN : NextAppendPosition(p, st, durable)
          \/ AppendAt(p)
          \/ AppendStream(p)
    \/ \E p \in Readers : OpenReplay(p) \/ \E limit \in 1..MAX_PAGE : Page(p, limit)

Spec == Init /\ [][Next]_vars
=============================================================================
