--------------------------- MODULE EventJournalInv ---------------------------
(* What the journal of an operation keeps, whoever uses it and whoever dies. *)
EXTENDS EventJournal

TypeOK ==
    /\ disk \in [state : {"none", "dir", "empty", "ready"}, nonce : Nonces, rows : Seq(Events),
                head : [seq : Nat, cursor : Cursors \cup {None}],
                stream : Streams \cup {None}, snapshot : Streams \cup {None}, terminal : Nat]
    /\ Len(disk.rows) <= MAX_EVENTS
    /\ disk.state # "ready" => disk = [NoJournal(disk.nonce) EXCEPT !.state = disk.state]
    /\ pc \in [Writers -> {"idle", "root", "init", "open"}]
    /\ handle \in [Writers -> Nonces]
    /\ position \in Positions \cup {None}
    /\ session \in [Readers -> [events : Seq(Events), next : Nat \ {0}]]
    /\ \A p \in Readers : session[p].next <= Len(session[p].events) + 1
    /\ seen \in [Readers -> [events : Seq(Events), from : Nat, nonce : Nonces,
                           cursor : Cursors \cup {None}]]
    /\ published \in BOOLEAN

\* What an append has accepted, verify_database accepts ever after: no
\* sequence of appends, whole streams and crashes makes the journal refuse
\* its own contents.
AcceptedIsReadable == Verifies(disk)

\* A scan that returned with success is the answer of status and cancel
\* whenever they may open the journal; until then they are refused, and never
\* hear of another store or of corruption.  They answer with a snapshot only
\* when the stream it closes is complete.
StatusIsTrue ==
    /\ published => \A admitted \in BOOLEAN :
          StatusAnswer(admitted) = IF admitted /\ LockFree THEN "snapshot" ELSE "refused"
    /\ \A admitted \in BOOLEAN :
          StatusAnswer(admitted) = "snapshot" => CompleteStream(disk.rows, Own)

\* A position that names the next event of a journal is accepted for an
\* event as durable as it was asked for, whatever other handles and processes
\* did since it was given.
PositionFits ==
    /\ position # None /\ (position.durable \/ disk.rows # <<>>)
    /\ disk.state = "ready" /\ Unfinished /\ Room
    /\ position.cursor.nonce = disk.nonce /\ position.cursor.seq = disk.head.seq + 1
    /\ disk.stream \in {None, position.cursor.stream}
    => InOrder(EventAt(position, IF disk.rows = <<>> THEN "started" ELSE "progress",
                       position.durable, LatestTime(disk.rows, disk.head.seq + 1)))

\* What a client has been given by pages of any size, over several sessions,
\* while the journal grows, is the stream from where it began: no event is
\* missing and none comes twice.
ReplayIsExact ==
    \A p \in Readers :
        LET had == seen[p]
            upto == had.from + Len(had.events)
        IN  had.nonce = disk.nonce /\ disk.state = "ready" =>
                /\ upto <= Len(disk.rows)
                /\ had.events = SubSeq(disk.rows, had.from + 1, upto)

\* The journal implements the stream it promises.
Started(e) == e.type = "started"
Ended(e) == e.type = "terminal"
Later(a, b) == a.stream = b.stream /\ a.time <= b.time /\ a.seq < b.seq

Stream == INSTANCE EventStream WITH
    log <- disk.rows, final <- disk.snapshot, Starts <- Started, Ends <- Ended, Follows <- Later

ImplementsStream == Stream!Spec
=============================================================================
