------------------------- MODULE EventJournal_proofs -------------------------
(***************************************************************************)
(* The journal never refuses what it has accepted, a published scan stays  *)
(* the answer, and the journal implements the stream it promises.          *)
(***************************************************************************)
EXTENDS EventJournalInv, SequenceTheorems, TLAPS

\* The part of TypeOK about the files.
DiskType ==
    /\ disk \in [state : {"none", "dir", "empty", "ready"}, nonce : Nonces, rows : Seq(Events),
                head : [seq : Nat, cursor : Cursors \cup {None}],
                stream : Streams \cup {None}, snapshot : Streams \cup {None}, terminal : Nat]
    /\ Len(disk.rows) <= MAX_EVENTS
    /\ disk.state # "ready" => disk = [NoJournal(disk.nonce) EXCEPT !.state = disk.state]

\* A finished stream is of its own operation once the scan has returned.
PublishedInv == /\ published \in BOOLEAN
                /\ published => disk.state = "ready" /\ disk.snapshot = Own

\* Verifies does not ask that the first event of an open stream is durable,
\* but the stream could not end otherwise.
FirstDurable == disk.rows # <<>> => disk.rows[1].durable

DiskInv == DiskType /\ Verifies(disk) /\ FirstDurable

\* Two sequences one after the other.
LEMMA Joined ==
    ASSUME NEW S, NEW s \in Seq(S), NEW t \in Seq(S)
    PROVE  /\ s \o t \in Seq(S)
           /\ Len(s \o t) = Len(s) + Len(t)
           /\ \A n \in 1 .. Len(s) : (s \o t)[n] = s[n]
           /\ \A n \in 1 .. Len(t) : (s \o t)[Len(s) + n] = t[n]
OBVIOUS

\* A number counted on from another one.
LEMMA Shift ==
    ASSUME NEW a \in Nat, NEW b \in Nat, NEW c \in Nat, a + b <= c
    PROVE  \A n \in 1 .. b : a + n \in 1 .. c
OBVIOUS

\* What comes after a number is a distance on from it.
LEMMA Beyond ==
    ASSUME NEW a \in Nat, NEW b \in Nat, NEW n \in Nat, n > a, n <= a + b
    PROVE  \E m \in 1 .. b : n = a + m
<1>1. n - a \in 1 .. b /\ n = a + (n - a)
  OBVIOUS
<1> QED BY <1>1

\* A run of a sequence.
LEMMA Slice ==
    ASSUME NEW S, NEW s \in Seq(S), NEW a \in Nat, NEW k \in Nat, a + k <= Len(s)
    PROVE  /\ SubSeq(s, a + 1, a + k) \in Seq(S)
           /\ Len(SubSeq(s, a + 1, a + k)) = k
           /\ \A n \in 1 .. k : SubSeq(s, a + 1, a + k)[n] = s[a + n]
<1>1. PICK m \in Nat, n \in Nat : m = a + 1 /\ n = a + k
  OBVIOUS
<1>2. /\ Len(s) \in Nat /\ m \in 1 .. Len(s) + 1 /\ n \in m - 1 .. Len(s)
      /\ n - m + 1 = k
  BY <1>1
<1>3. SubSeq(s, m, n) \in Seq(S)
  BY <1>2, SubSeqProperties
<1>4. Len(SubSeq(s, m, n)) = k
  BY <1>2, SubSeqProperties
<1>5. \A i \in 1 .. k : SubSeq(s, m, n)[i] = s[m + i - 1]
  BY <1>2, SubSeqProperties
<1>6. \A i \in 1 .. k : m + i - 1 = a + i
  BY <1>1
<1> QED BY <1>1, <1>3, <1>4, <1>5, <1>6

\* The records of a page.
LEMMA Cut ==
    ASSUME NEW S, NEW s \in Seq(S), NEW a \in 1 .. Len(s), NEW b \in a .. Len(s)
    PROVE  /\ SubSeq(s, a, b) \in Seq(S) /\ Len(SubSeq(s, a, b)) = b - a + 1
           /\ \A n \in 1 .. Len(SubSeq(s, a, b)) : SubSeq(s, a, b)[n] = s[a - 1 + n]
<1>1. /\ a \in Nat /\ b \in Nat /\ a - 1 \in Nat /\ b - (a - 1) \in Nat
      /\ (a - 1) + (b - (a - 1)) = b /\ (a - 1) + 1 = a /\ b - (a - 1) = b - a + 1 /\ b <= Len(s)
  OBVIOUS
<1>2. PICK z \in Nat, k \in Nat : z = a - 1 /\ k = b - (a - 1)
  BY <1>1
<1>3. z + 1 = a /\ z + k = b /\ z + k <= Len(s) /\ k = b - a + 1
  BY <1>1, <1>2
<1>4. /\ SubSeq(s, z + 1, z + k) \in Seq(S)
      /\ Len(SubSeq(s, z + 1, z + k)) = k
      /\ \A n \in 1 .. k : SubSeq(s, z + 1, z + k)[n] = s[z + n]
  BY <1>3, Slice
<1> QED BY <1>2, <1>3, <1>4

-----------------------------------------------------------------------------
(* Files without records. *)

\* A journal without records verifies.
LEMMA EmptyVerifies ==
    ASSUME NEW d, d.rows = <<>>, d.head = [seq |-> 0, cursor |-> None], d.stream = None,
           d.snapshot = None, d.terminal = 0
    PROVE  Verifies(d)
<1>1. Len(d.rows) = 0 /\ DOMAIN d.rows = {}
  OBVIOUS
<1>2. 0 <= MAX_EVENTS /\ 0 <= MAX_REPLAY
  BY EventJournalAssumption
<1> QED BY <1>1, <1>2 DEF Verifies, ReplayCost

\* None of the steps before the first record leaves a journal that is refused.
LEMMA OpeningKeepsDisk ==
    ASSUME DiskInv, \/ Remove
                    \/ \E p \in Writers : CreateRoot(p) \/ CreateDatabase(p) \/ Initialize(p)
    PROVE  /\ DiskInv'
           /\ \/ disk'.rows = <<>> /\ disk'.snapshot = None
              \/ UNCHANGED disk
<1> DEFINE Blank(d, s, n) == d = [NoJournal(n) EXCEPT !.state = s]
<1>1. ASSUME NEW s \in {"none", "dir", "empty", "ready"}, NEW n \in Nonces, Blank(disk', s, n)
      PROVE  DiskInv' /\ disk'.rows = <<>> /\ disk'.snapshot = None
  <2>1. /\ disk'.rows = <<>> /\ disk'.head = [seq |-> 0, cursor |-> None] /\ disk'.stream = None
        /\ disk'.snapshot = None /\ disk'.terminal = 0 /\ disk'.state = s /\ disk'.nonce = n
    BY <1>1 DEF NoJournal
  <2>2. Verifies(disk')
    BY <2>1, EmptyVerifies
  <2>3. <<>> \in Seq(Events) /\ Len(<<>>) = 0 /\ 0 <= MAX_EVENTS /\ 0 \in Nat
    BY EventJournalAssumption
  <2>4. DiskType'
    BY <1>1, <2>1, <2>3 DEF DiskType, NoJournal
  <2> QED BY <2>1, <2>2, <2>4 DEF DiskInv, FirstDurable
<1>2. disk.nonce \in Nonces /\ disk.state \in {"none", "dir", "empty", "ready"}
      /\ (disk.state # "ready" => Blank(disk, disk.state, disk.nonce))
  BY DEF DiskInv, DiskType
<1>3. UNCHANGED disk => DiskInv'
  BY DEF DiskInv, DiskType, FirstDurable
<1>4. CASE Remove
  <2>1. disk.nonce + 1 \in Nonces
    BY <1>2, <1>4, EventJournalAssumption DEF Remove, Nonces
  <2>2. Blank(disk', "none", disk.nonce + 1)
    BY <1>4 DEF Remove, NoJournal
  <2> QED BY <2>1, <2>2, <1>1
<1>5. ASSUME NEW p \in Writers, CreateRoot(p) \/ CreateDatabase(p) \/ Initialize(p)
      PROVE  UNCHANGED disk \/ \E s \in {"dir", "empty", "ready"} : Blank(disk', s, disk.nonce)
  <2>1. CASE CreateRoot(p)
    BY <2>1, <1>2 DEF CreateRoot, NoJournal
  <2>2. CASE CreateDatabase(p)
    BY <2>2, <1>2 DEF CreateDatabase, NoJournal
  <2>3. CASE Initialize(p)
    <3>1. CASE disk.state = "ready"
      BY <2>3, <3>1 DEF Initialize, DiskInv, DiskType
    <3>2. CASE disk.state # "ready"
      BY <2>3, <3>2, <1>2 DEF Initialize, NoJournal
    <3> QED BY <3>1, <3>2
  <2> QED BY <1>5, <2>1, <2>2, <2>3
<1> HIDE DEF Blank
<1> QED BY <1>1, <1>2, <1>3, <1>4, <1>5

-----------------------------------------------------------------------------
(* One event. *)

\* What a caller builds at a position is an event.
LEMMA EventAtType ==
    ASSUME NEW pos, pos.cursor \in Cursors, pos.last \in Nat, NEW type \in Kinds,
           NEW durable \in BOOLEAN, NEW time \in 0 .. MaxTime
    PROVE  EventAt(pos, type, durable, time) \in Events
BY DEF EventAt, Events, Cursors

\* The fields of a stored journal.
LEMMA StoredFields ==
    ASSUME DiskType, NEW t \in Seq(Events), NEW st \in Streams, NEW snapshot \in Streams \cup {None},
           disk' = Stored(disk, t, st, snapshot)
    PROVE  /\ disk'.rows = disk.rows \o t
           /\ disk'.head = [seq |-> Len(disk.rows \o t),
                            cursor |-> (disk.rows \o t)[Len(disk.rows \o t)].cursor]
           /\ disk'.stream = st /\ disk'.snapshot = snapshot
           /\ disk'.terminal = IF snapshot = None THEN 0 ELSE Len(disk.rows \o t)
           /\ disk'.state = disk.state /\ disk'.nonce = disk.nonce
BY DEF DiskType, Stored

\* append_event and append_terminal_with_snapshot store what verifies.
LEMMA OneKeepsDisk ==
    ASSUME DiskInv, disk.state = "ready", NEW e \in Events, InOrder(e),
           NEW snapshot \in Streams \cup {None}, (e.type = "terminal") <=> (snapshot # None),
           snapshot # None => snapshot = e.stream /\ e.snapshot = snapshot,
           ReplayFits(snapshot), disk' = Stored(disk, <<e>>, e.stream, snapshot)
    PROVE  DiskInv' /\ disk'.state = "ready"
<1> DEFINE k == Len(disk.rows)
<1>1. /\ disk.rows \in Seq(Events) /\ k \in Nat /\ <<e>> \in Seq(Events)
      /\ Len(<<e>>) = 1 /\ <<e>>[1] = e
  BY DEF DiskInv, DiskType
<1>2. /\ disk.rows \o <<e>> \in Seq(Events) /\ Len(disk.rows \o <<e>>) = k + 1
      /\ \A n \in 1 .. k : (disk.rows \o <<e>>)[n] = disk.rows[n]
      /\ (disk.rows \o <<e>>)[k + 1] = e
  BY <1>1, Joined
<1>3. e.stream \in Streams /\ e.cursor \in Cursors
  BY DEF Events
<1>4. /\ disk'.rows = disk.rows \o <<e>>
      /\ disk'.head = [seq |-> k + 1, cursor |-> e.cursor]
      /\ disk'.stream = e.stream /\ disk'.snapshot = snapshot
      /\ disk'.terminal = IF snapshot = None THEN 0 ELSE k + 1
      /\ disk'.state = disk.state /\ disk'.nonce = disk.nonce
  <2> DEFINE rows == disk.rows \o <<e>>
  <2>1. /\ disk'.rows = rows
        /\ disk'.head = [seq |-> Len(rows), cursor |-> rows[Len(rows)].cursor]
        /\ disk'.stream = e.stream /\ disk'.snapshot = snapshot
        /\ disk'.terminal = IF snapshot = None THEN 0 ELSE Len(rows)
        /\ disk'.state = disk.state /\ disk'.nonce = disk.nonce
    BY <1>1, <1>3, StoredFields DEF DiskInv
  <2>2. Len(rows) = k + 1 /\ rows[k + 1] = e
    BY <1>2
  <2> HIDE DEF rows
  <2>3. disk'.head = [seq |-> k + 1, cursor |-> e.cursor]
    BY <2>1, <2>2
  <2>4. disk'.terminal = IF snapshot = None THEN 0 ELSE k + 1
    BY <2>1, <2>2
  <2> QED BY <2>1, <2>3, <2>4 DEF rows
<1>5. /\ disk.head.seq = k /\ disk.terminal = 0 /\ k < MAX_EVENTS /\ e.seq = k + 1
      /\ ValidEvent(e) /\ (k = 0 <=> e.type = "started") /\ (k = 0 => e.durable)
      /\ disk.stream \in {None, e.stream} /\ e.cursor = NextCursor(disk, e.stream, k + 1)
      /\ e.last = (IF e.durable THEN k + 1 ELSE LastDurable(disk.rows, k + 1))
      /\ e.time >= LatestTime(disk.rows, k + 1)
  BY <1>1 DEF InOrder, Unfinished, Room, DiskInv, Verifies
<1>6. ASSUME NEW n \in 1 .. k
      PROVE  ValidRecord(disk', n) /\ disk.rows[n].type # "terminal" /\ n # k + 1
             /\ disk'.rows[n] = disk.rows[n]
  <2>1. ValidRecord(disk, n) /\ n \in DOMAIN disk.rows /\ disk.rows[n] \in Events
    BY <1>1, <1>6 DEF DiskInv, Verifies
  <2>2. disk'.rows[n] = disk.rows[n] /\ (n > 1 => disk'.rows[n - 1] = disk.rows[n - 1])
    <3>1. disk'.rows = disk.rows \o <<e>>
      BY <1>4
    <3>2. n \in 1 .. k /\ (n > 1 => n - 1 \in 1 .. k)
      BY <1>1, <1>6
    <3> QED BY <3>1, <3>2, <1>2
  <2>3. disk.stream # None /\ disk'.stream = disk.stream
    BY <1>1, <1>4, <1>5, <1>6 DEF DiskInv, Verifies
  <2>4. disk.rows[n].type # "terminal"
    BY <2>1, <1>5 DEF ValidRecord
  <2>5. /\ NextCursor(disk', disk.rows[n].stream, n) = NextCursor(disk, disk.rows[n].stream, n)
        /\ LatestTime(disk'.rows, n) = LatestTime(disk.rows, n)
        /\ LastDurable(disk'.rows, n) = LastDurable(disk.rows, n)
    BY <2>2, <1>4, <1>1, <1>6 DEF NextCursor, LatestTime, LastDurable
  <2> QED BY <2>1, <2>2, <2>3, <2>4, <2>5, <1>1 DEF ValidRecord
<1>7. ValidRecord(disk', k + 1)
  <2>1. disk'.rows[k + 1] = e /\ (k + 1 > 1 => disk'.rows[k] = disk.rows[k])
    <3>1. disk'.rows = disk.rows \o <<e>>
      BY <1>4
    <3>2. k + 1 > 1 => k \in 1 .. k
      BY <1>1
    <3> QED BY <3>1, <3>2, <1>2
  <2>2. /\ NextCursor(disk', e.stream, k + 1) = NextCursor(disk, e.stream, k + 1)
        /\ LatestTime(disk'.rows, k + 1) = LatestTime(disk.rows, k + 1)
        /\ LastDurable(disk'.rows, k + 1) = LastDurable(disk.rows, k + 1)
    BY <2>1, <1>4, <1>1 DEF NextCursor, LatestTime, LastDurable
  <2> QED BY <2>1, <2>2, <1>1, <1>4, <1>5 DEF ValidRecord
<1>8. DOMAIN disk'.rows = 1 .. (k + 1) /\ Len(disk'.rows) = k + 1 /\ disk'.rows # <<>>
      /\ disk'.rows[k + 1] = e
  BY <1>1, <1>2, <1>4
<1>9. \A n \in DOMAIN disk'.rows : ValidRecord(disk', n)
  BY <1>1, <1>6, <1>7, <1>8
<1>10. ASSUME snapshot # None PROVE CompleteStream(disk'.rows, snapshot)
  <2>1. disk'.rows[1].type = "started" /\ disk'.rows[1].durable
    <3>1. CASE k = 0
      BY <3>1, <1>5, <1>8
    <3>2. CASE k # 0
      <4>1. 1 \in DOMAIN disk.rows /\ disk'.rows[1] = disk.rows[1] /\ disk.rows # <<>>
        BY <3>2, <1>1, <1>2, <1>4
      <4>2. ValidRecord(disk, 1)
        BY <4>1 DEF DiskInv, Verifies
      <4> QED BY <4>1, <4>2 DEF ValidRecord, DiskInv, FirstDurable
    <3> QED BY <3>1, <3>2
  <2>2. \A n \in DOMAIN disk'.rows : disk'.rows[n].type = "terminal" <=> n = Len(disk'.rows)
    BY <1>1, <1>6, <1>8, <1>10
  <2> QED BY <2>1, <2>2, <1>8, <1>10 DEF CompleteStream
<1>11. FirstDurable'
  <2>1. CASE k = 0
    BY <2>1, <1>5, <1>8 DEF FirstDurable
  <2>2. CASE k # 0
    BY <2>2, <1>1, <1>2, <1>4 DEF FirstDurable, DiskInv
  <2> QED BY <2>1, <2>2
<1>12. DiskType'
  <2>1. k + 1 \in Nat /\ k + 1 <= MAX_EVENTS /\ disk'.rows \in Seq(Events)
    <3>1. MAX_EVENTS \in Nat
      BY EventJournalAssumption
    <3>2. k \in Nat /\ k < MAX_EVENTS
      BY <1>1, <1>5
    <3>3. disk'.rows \in Seq(Events)
      BY <1>2, <1>4
    <3> HIDE DEF k
    <3>4. k + 1 \in Nat /\ k + 1 <= MAX_EVENTS
      BY <3>1, <3>2
    <3> QED BY <3>3, <3>4
  <2>2. disk'.head \in [seq : Nat, cursor : Cursors \cup {None}]
    BY <1>3, <1>4, <2>1
  <2>3. disk' \in [state : {"none", "dir", "empty", "ready"}, nonce : Nonces, rows : Seq(Events),
                   head : [seq : Nat, cursor : Cursors \cup {None}],
                   stream : Streams \cup {None}, snapshot : Streams \cup {None}, terminal : Nat]
    <3> DEFINE rows == disk.rows \o <<e>>
    <3>1. disk' = [disk EXCEPT !.rows = rows,
                               !.head = [seq |-> Len(rows), cursor |-> rows[Len(rows)].cursor],
                               !.stream = e.stream, !.snapshot = snapshot,
                               !.terminal = IF snapshot = None THEN 0 ELSE Len(rows)]
      BY DEF Stored
    <3>2. /\ rows \in Seq(Events) /\ Len(rows) \in Nat
          /\ [seq |-> Len(rows), cursor |-> rows[Len(rows)].cursor]
                \in [seq : Nat, cursor : Cursors \cup {None}]
          /\ (IF snapshot = None THEN 0 ELSE Len(rows)) \in Nat
      BY <1>1, <1>2, <1>3
    <3> HIDE DEF rows
    <3> QED BY <3>1, <3>2, <1>3 DEF DiskInv, DiskType
  <2> QED BY <2>1, <2>3, <1>4, <1>8 DEF DiskType
<1>13. Verifies(disk')
  <2>1. snapshot # None => disk'.terminal = k + 1 /\ e.type = "terminal" /\ k + 1 # 0
    BY <1>1, <1>4
  <2>2. ReplayCost(Len(disk'.rows), disk'.snapshot) <= MAX_REPLAY
    BY <1>4, <1>8 DEF ReplayFits
  <2>3. (disk'.terminal = 0) = (disk'.snapshot = None)
    BY <1>1, <1>4
  <2>4. disk'.stream # None
    BY <1>3, <1>4, EventJournalAssumption
  <2>5. k + 1 <= MAX_EVENTS /\ disk'.head.seq = k + 1 /\ disk'.head.cursor = e.cursor
    BY <1>1, <1>4, <1>5, EventJournalAssumption
  <2>6. disk'.terminal # 0 => snapshot # None
    BY <1>4
  <2> QED BY <2>1, <2>2, <2>3, <2>4, <2>5, <2>6, <1>4, <1>8, <1>9, <1>10 DEF Verifies
<1> QED BY <1>4, <1>11, <1>12, <1>13 DEF DiskInv

-----------------------------------------------------------------------------
(* A whole stream. *)

\* The positions append_complete_stream gives are those of the journal.
LEMMA AssignedType ==
    ASSUME DiskInv, NEW st \in Streams, NEW drafts \in Drafts
    PROVE  /\ Assigned(st, drafts) \in Seq(Events)
           /\ Len(Assigned(st, drafts)) = Len(drafts) /\ Len(drafts) \in Nat
           /\ DOMAIN Assigned(st, drafts) = 1 .. Len(drafts)
           /\ \A n \in 1 .. Len(drafts) :
                 /\ drafts[n].type \in Kinds /\ drafts[n].time \in 0 .. MaxTime
                 /\ Assigned(st, drafts)[n] =
                        [type |-> drafts[n].type, stream |-> st, seq |-> n,
                         cursor |-> NextCursor(disk, st, n), durable |-> TRUE, last |-> n,
                         time |-> drafts[n].time,
                         snapshot |-> IF drafts[n].type = "terminal" THEN st ELSE None]
<1>1. PICK k \in 1 .. MAX_EVENTS : drafts \in [1 .. k -> [type : Kinds, time : 0 .. MaxTime]]
  BY DEF Drafts
<1>2. k \in Nat /\ Len(drafts) = k /\ DOMAIN drafts = 1 .. k
  BY <1>1
<1>3. ASSUME NEW n \in 1 .. k
      PROVE  /\ drafts[n].type \in Kinds /\ drafts[n].time \in 0 .. MaxTime
             /\ Assigned(st, drafts)[n] =
                    [type |-> drafts[n].type, stream |-> st, seq |-> n,
                     cursor |-> NextCursor(disk, st, n), durable |-> TRUE, last |-> n,
                     time |-> drafts[n].time,
                     snapshot |-> IF drafts[n].type = "terminal" THEN st ELSE None]
             /\ Assigned(st, drafts)[n] \in Events
  <2>1. drafts[n] \in [type : Kinds, time : 0 .. MaxTime]
    BY <1>1
  <2>2. Assigned(st, drafts)[n] =
            EventAt([cursor |-> NextCursor(disk, st, n), last |-> n, durable |-> TRUE],
                    drafts[n].type, TRUE, drafts[n].time)
    BY <1>2 DEF Assigned
  <2>3. NextCursor(disk, st, n) \in Cursors /\ NextCursor(disk, st, n).stream = st
        /\ NextCursor(disk, st, n).seq = n /\ n \in Nat
    BY <1>2 DEF NextCursor, Cursors, DiskInv, DiskType
  <2>4. Assigned(st, drafts)[n] \in Events
    BY <2>1, <2>2, <2>3, EventAtType
  <2> QED BY <2>1, <2>2, <2>3, <2>4 DEF EventAt
<1>4. DOMAIN Assigned(st, drafts) = 1 .. k
  BY <1>2 DEF Assigned
<1>5. Assigned(st, drafts) \in Seq(Events) /\ Len(Assigned(st, drafts)) = k
  <2>1. Assigned(st, drafts) \in [1 .. k -> Events]
    BY <1>2, <1>3 DEF Assigned
  <2> QED BY <1>2, <2>1
<1> QED BY <1>2, <1>3, <1>4, <1>5

\* append_complete_stream stores what verifies.
LEMMA StreamKeepsDisk ==
    ASSUME DiskInv, disk.state = "ready", disk.head.seq = 0, NEW st \in Streams,
           NEW drafts \in Drafts, Len(drafts) <= MAX_EVENTS,
           ReplayCost(Len(drafts), st) <= MAX_REPLAY,
           CompleteStream(Assigned(st, drafts), st), StartsOnce(Assigned(st, drafts)),
           TimesInOrder(Assigned(st, drafts)),
           disk' = Stored(disk, Assigned(st, drafts), st, st)
    PROVE  /\ DiskInv' /\ disk.rows = <<>> /\ disk.snapshot = None
           /\ disk'.rows = Assigned(st, drafts)
           /\ disk'.snapshot = st /\ disk'.state = "ready"
<1> DEFINE t == Assigned(st, drafts)
           k == Len(drafts)
<1>1. /\ t \in Seq(Events) /\ Len(t) = k /\ k \in Nat /\ DOMAIN t = 1 .. k
      /\ \A n \in 1 .. k :
            /\ t[n].stream = st /\ t[n].seq = n /\ t[n].cursor = NextCursor(disk, st, n)
            /\ t[n].durable /\ t[n].last = n
            /\ t[n].time \in 0 .. MaxTime
            /\ t[n].snapshot = IF t[n].type = "terminal" THEN st ELSE None
  <2>1. /\ t \in Seq(Events) /\ Len(t) = k /\ k \in Nat /\ DOMAIN t = 1 .. k
        /\ \A n \in 1 .. k :
              /\ drafts[n].time \in 0 .. MaxTime
              /\ t[n] = [type |-> drafts[n].type, stream |-> st, seq |-> n,
                         cursor |-> NextCursor(disk, st, n), durable |-> TRUE, last |-> n,
                         time |-> drafts[n].time,
                         snapshot |-> IF drafts[n].type = "terminal" THEN st ELSE None]
    BY AssignedType
  <2> HIDE DEF t, k
  <2> QED BY <2>1
<1> HIDE DEF t
<1>2. disk.rows = <<>> /\ disk.snapshot = None
  <2>1. disk.rows \in Seq(Events) /\ Len(disk.rows) = 0
    BY DEF DiskInv, DiskType, Verifies
  <2>2. disk.rows = <<>> /\ disk.terminal \notin DOMAIN disk.rows
    BY <2>1
  <2> QED BY <2>2 DEF DiskInv, Verifies
<1>3. t # <<>> /\ k # 0
  BY <1>1 DEF CompleteStream, t
<1>4. disk.rows \o t = t
  BY <1>1, <1>2
<1>5. /\ disk'.rows = t
      /\ disk'.head = [seq |-> k, cursor |-> t[k].cursor]
      /\ disk'.stream = st /\ disk'.snapshot = st /\ disk'.terminal = k
      /\ disk'.state = disk.state /\ disk'.nonce = disk.nonce
  <2>1. /\ disk'.rows = disk.rows \o t
        /\ disk'.head = [seq |-> Len(disk.rows \o t),
                         cursor |-> (disk.rows \o t)[Len(disk.rows \o t)].cursor]
        /\ disk'.stream = st /\ disk'.snapshot = st
        /\ disk'.terminal = IF st = None THEN 0 ELSE Len(disk.rows \o t)
        /\ disk'.state = disk.state /\ disk'.nonce = disk.nonce
    BY <1>1, StoredFields DEF t, DiskInv
  <2> QED BY <2>1, <1>1, <1>4, EventJournalAssumption
<1>6. ASSUME NEW n \in 1 .. k PROVE ValidRecord(disk', n)
  <2>1. /\ (n = 1) = (t[n].type = "started")
        /\ (t[n].type = "terminal") = (n = k)
    <3>1. n \in DOMAIN t /\ Len(t) = k
      BY <1>1, <1>6
    <3>2. StartsOnce(t) /\ CompleteStream(t, st)
      BY DEF t
    <3>3. t[n].type = "started" <=> n = 1
      BY <3>1, <3>2 DEF StartsOnce
    <3>4. t[n].type = "terminal" <=> n = k
      BY <3>1, <3>2 DEF CompleteStream
    <3> QED BY <3>3, <3>4
  <2>2. t[n].time >= LatestTime(t, n)
    <3>1. CASE n = 1
      BY <3>1, <1>1 DEF LatestTime
    <3>2. CASE n # 1
      <4>1. n - 1 \in DOMAIN t /\ n \in DOMAIN t /\ n - 1 < n
        BY <3>2, <1>1
      <4>2. t[n - 1].time <= t[n].time
        BY <4>1 DEF TimesInOrder, t
      <4>3. t[n - 1].time \in 0 .. MaxTime /\ t[n].time \in 0 .. MaxTime
        BY <4>1, <1>1
      <4> QED BY <3>2, <4>2, <4>3, EventJournalAssumption DEF LatestTime
    <3> QED BY <3>1, <3>2
  <2>3. ValidEvent(t[n])
    <3>1. (t[n].type = "terminal") = (t[n].snapshot # None)
      BY <1>1, EventJournalAssumption
    <3>2. t[n].seq > 0 /\ t[n].durable /\ t[n].last = t[n].seq
      BY <1>1
    <3> QED BY <3>1, <3>2 DEF ValidEvent
  <2>4. NextCursor(disk', st, n) = NextCursor(disk, st, n)
    BY <1>5 DEF NextCursor
  <2>5. /\ t[n].stream = st /\ t[n].seq = n /\ t[n].cursor = NextCursor(disk, st, n)
        /\ t[n].durable /\ t[n].last = n
    BY <1>1
  <2> QED BY <2>1, <2>2, <2>3, <2>4, <2>5, <1>5 DEF ValidRecord
<1>7. Verifies(disk')
  <2>1. CompleteStream(disk'.rows, disk'.snapshot)
    BY <1>5 DEF t
  <2>2. disk'.terminal \in DOMAIN disk'.rows /\ disk'.rows[disk'.terminal].type = "terminal"
    BY <2>1, <1>1, <1>3, <1>5 DEF CompleteStream
  <2>3. disk'.stream # None /\ disk'.snapshot # None /\ disk'.snapshot = disk'.stream
    BY <1>5, EventJournalAssumption
  <2>4. Len(disk'.rows) = k /\ disk'.rows # <<>> /\ DOMAIN disk'.rows = 1 .. k
        /\ disk'.head.seq = k /\ disk'.head.cursor = disk'.rows[k].cursor /\ disk'.terminal # 0
    BY <1>1, <1>3, <1>5
  <2>5. ReplayCost(Len(disk'.rows), disk'.snapshot) <= MAX_REPLAY
    BY <2>4, <1>5
  <2>6. \A n \in DOMAIN disk'.rows : ValidRecord(disk', n)
    BY <2>4, <1>6
  <2> QED BY <2>1, <2>2, <2>3, <2>4, <2>5, <2>6 DEF Verifies
<1>8. FirstDurable'
  BY <1>1, <1>3, <1>5 DEF FirstDurable
<1>9. DiskType'
  <2>1. disk' = [disk EXCEPT !.rows = t, !.head = [seq |-> Len(t), cursor |-> t[Len(t)].cursor],
                             !.stream = st, !.snapshot = st,
                             !.terminal = IF st = None THEN 0 ELSE Len(t)]
    BY <1>4 DEF Stored, t
  <2>2. t[k].cursor \in Cursors
    <3>1. k \in 1 .. Len(t)
      BY <1>1, <1>3
    <3>2. t[k] \in Events
      BY <3>1, <1>1
    <3> QED BY <3>2 DEF Events
  <2>3. [seq |-> Len(t), cursor |-> t[Len(t)].cursor] \in [seq : Nat, cursor : Cursors \cup {None}]
        /\ (IF st = None THEN 0 ELSE Len(t)) \in Nat
    BY <2>2, <1>1
  <2>4. disk' \in [state : {"none", "dir", "empty", "ready"}, nonce : Nonces, rows : Seq(Events),
                   head : [seq : Nat, cursor : Cursors \cup {None}],
                   stream : Streams \cup {None}, snapshot : Streams \cup {None}, terminal : Nat]
    <3> DEFINE hd == [seq |-> Len(t), cursor |-> t[Len(t)].cursor]
               tm == IF st = None THEN 0 ELSE Len(t)
    <3>1. disk' = [disk EXCEPT !.rows = t, !.head = hd, !.stream = st, !.snapshot = st, !.terminal = tm]
      BY <2>1
    <3>2. t \in Seq(Events) /\ hd \in [seq : Nat, cursor : Cursors \cup {None}] /\ tm \in Nat
      BY <2>3, <1>1
    <3> HIDE DEF t, hd, tm
    <3> QED BY <3>1, <3>2 DEF DiskInv, DiskType
  <2> QED BY <2>4, <1>1, <1>5 DEF DiskType
<1> QED BY <1>2, <1>5, <1>7, <1>8, <1>9 DEF DiskInv, t

-----------------------------------------------------------------------------
(* Writers, positions and the published scan. *)

\* A handle is on a directory that has been; an open one on the directory
\* that is there now has an initialized database.
HandleInv ==
    /\ pc \in [Writers -> {"idle", "root", "init", "open"}]
    /\ handle \in [Writers -> Nonces]
    /\ \A p \in Writers : handle[p] <= disk.nonce
                          /\ (Connected(p) => disk.state = "ready")

\* A position never lies beyond the next event, and at the next event it has
\* the checkpoint that event needs.
PositionInv ==
    /\ position \in Positions \cup {None}
    /\ position # None =>
          /\ position \in Positions /\ position.cursor.nonce <= disk.nonce
          /\ position.cursor.nonce = disk.nonce =>
                /\ position.cursor.seq > 0 /\ position.cursor.seq <= disk.head.seq + 1
                /\ position.cursor.seq = disk.head.seq + 1 =>
                      position.last = IF position.durable THEN position.cursor.seq
                                      ELSE LastDurable(disk.rows, position.cursor.seq)

WriterInv == DiskInv /\ HandleInv /\ PositionInv /\ PublishedInv

\* What a journal does to its records: nothing, starts over as an empty one,
\* or adds at the end of an open stream.
Grows == \/ UNCHANGED <<disk.rows, disk.head, disk.nonce, disk.snapshot>>
         \/ disk'.nonce > disk.nonce /\ disk'.rows = <<>> /\ disk'.snapshot = None
         \/ /\ disk'.nonce = disk.nonce /\ disk.snapshot = None
            /\ Len(disk'.rows) > Len(disk.rows)
            /\ \A n \in DOMAIN disk.rows : disk'.rows[n] = disk.rows[n]

\* The three shapes of Grows keep positions in their place.
LEMMA PositionKept ==
    ASSUME DiskInv, DiskInv', PositionInv, Grows, UNCHANGED position
    PROVE  PositionInv'
<1>1. /\ disk.nonce \in Nat /\ disk'.nonce \in Nat
      /\ disk.head.seq = Len(disk.rows) /\ disk'.head.seq = Len(disk'.rows)
      /\ Len(disk.rows) \in Nat /\ Len(disk'.rows) \in Nat
  BY DEF DiskInv, DiskType, Verifies, Nonces
<1>2. position \in Positions => position.cursor.nonce \in Nat /\ position.cursor.seq \in Nat
  BY DEF Positions, Cursors, Nonces
<1>3. CASE UNCHANGED <<disk.rows, disk.head, disk.nonce, disk.snapshot>>
  BY <1>3 DEF PositionInv, LastDurable
<1>4. CASE disk'.nonce > disk.nonce
  BY <1>1, <1>2, <1>4 DEF PositionInv
<1>5. CASE disk'.nonce = disk.nonce /\ Len(disk'.rows) > Len(disk.rows)
  BY <1>1, <1>2, <1>5 DEF PositionInv
<1> QED BY <1>3, <1>4, <1>5 DEF Grows

\* An append at a position: the event it stores and what it leaves.
LEMMA AppendAtKeeps ==
    ASSUME WriterInv, NEW p \in Writers, AppendAt(p)
    PROVE  /\ DiskInv' /\ disk.state = "ready" /\ disk'.state = "ready"
           /\ disk'.nonce = disk.nonce /\ disk.snapshot = None
           /\ UNCHANGED <<pc, handle, position, published, session, seen>>
           /\ \E e \in Events :
                 /\ disk'.rows = disk.rows \o <<e>>
                 /\ InOrder(e)
                 /\ disk'.snapshot = e.snapshot
<1>1. position \in Positions
  BY DEF AppendAt, WriterInv, PositionInv
<1>2. PICK type \in Kinds, durable \in BOOLEAN, time \in 0 .. MaxTime :
          \/ AppendEvent(p, EventAt(position, type, durable, time))
          \/ AppendTerminal(p, EventAt(position, type, durable, time))
  BY DEF AppendAt
<1> DEFINE e == EventAt(position, type, durable, time)
<1>3. e \in Events
  BY <1>1, EventAtType DEF Positions
<1>4. e.stream \in Streams /\ (e.type = "terminal" <=> e.snapshot # None)
      /\ (e.type = "terminal" => e.snapshot = e.stream)
  BY <1>1, EventJournalAssumption DEF EventAt, Positions, Cursors
<1> HIDE DEF e
<1>5. DiskInv /\ DiskType
  BY DEF WriterInv, DiskInv
<1>6. disk.state = "ready" /\ disk.snapshot = None
  BY <1>2 DEF AppendEvent, AppendTerminal, WriterInv, HandleInv, InOrder, Unfinished, DiskInv, Verifies
<1>7. <<e>> \in Seq(Events)
  BY <1>3
<1>8. CASE AppendEvent(p, e)
  <2>1. InOrder(e) /\ e.type # "terminal" /\ ReplayFits(None)
        /\ disk' = Stored(disk, <<e>>, e.stream, None)
    BY <1>8 DEF AppendEvent
  <2>2. DiskInv' /\ disk'.state = "ready"
    BY <2>1, <1>3, <1>5, <1>6, OneKeepsDisk
  <2>3. disk'.rows = disk.rows \o <<e>> /\ disk'.snapshot = None /\ disk'.nonce = disk.nonce
    BY <2>1, <1>4, <1>5, <1>7, StoredFields
  <2>4. e.snapshot = None
    BY <2>1, <1>4
  <2>5. UNCHANGED <<pc, handle, position, published, session, seen>>
    BY <1>8 DEF AppendEvent, Reader
  <2> QED BY <2>1, <2>2, <2>3, <2>4, <2>5, <1>3, <1>6
<1>9. CASE AppendTerminal(p, e)
  <2>1. InOrder(e) /\ e.type = "terminal" /\ ReplayFits(e.snapshot)
        /\ disk' = Stored(disk, <<e>>, e.stream, e.snapshot)
    BY <1>9 DEF AppendTerminal
  <2>2. e.snapshot \in Streams \cup {None} /\ e.snapshot # None /\ e.snapshot = e.stream
    BY <2>1, <1>4
  <2>3. DiskInv' /\ disk'.state = "ready"
    BY <2>1, <2>2, <1>3, <1>5, <1>6, OneKeepsDisk
  <2>4. disk'.rows = disk.rows \o <<e>> /\ disk'.snapshot = e.snapshot /\ disk'.nonce = disk.nonce
    BY <2>1, <2>2, <1>4, <1>5, <1>7, StoredFields
  <2>5. UNCHANGED <<pc, handle, position, published, session, seen>>
    BY <1>9 DEF AppendTerminal, Reader
  <2> QED BY <2>1, <2>3, <2>4, <2>5, <1>3, <1>6
<1> QED BY <1>2, <1>8, <1>9 DEF e

\* A whole stream: what it stores and what it leaves.
LEMMA AppendStreamKeeps ==
    ASSUME WriterInv, NEW p \in Writers, AppendStream(p)
    PROVE  /\ DiskInv' /\ disk.state = "ready" /\ disk'.state = "ready"
           /\ disk'.nonce = disk.nonce /\ disk.rows = <<>> /\ disk.snapshot = None
           /\ UNCHANGED <<pc, handle, position, session, seen>>
           /\ \E st \in Streams, drafts \in Drafts :
                 /\ disk'.rows = Assigned(st, drafts) /\ disk'.snapshot = st
                 /\ published' = (st = Own)
                 /\ CompleteStream(Assigned(st, drafts), st)
                 /\ StartsOnce(Assigned(st, drafts)) /\ TimesInOrder(Assigned(st, drafts))
<1>1. PICK st \in Streams, drafts \in Drafts : AppendCompleteStream(p, st, drafts)
  BY DEF AppendStream
<1>2. /\ Len(drafts) <= MAX_EVENTS /\ ReplayCost(Len(drafts), st) <= MAX_REPLAY
      /\ CompleteStream(Assigned(st, drafts), st) /\ StartsOnce(Assigned(st, drafts))
      /\ TimesInOrder(Assigned(st, drafts))
      /\ disk' = Stored(disk, Assigned(st, drafts), st, st)
      /\ published' = (st = Own)
      /\ UNCHANGED <<pc, handle, position, session, seen>>
  BY <1>1 DEF AppendCompleteStream, Reader
<1>3. DiskInv /\ DiskType /\ disk.head.seq = 0 /\ disk.state = "ready"
  BY DEF AppendStream, WriterInv, DiskInv, HandleInv
<1>4. DiskInv' /\ disk.rows = <<>> /\ disk.snapshot = None /\ disk'.state = "ready"
      /\ disk'.rows = Assigned(st, drafts) /\ disk'.snapshot = st
  BY <1>2, <1>3, StreamKeepsDisk
<1>5. disk'.nonce = disk.nonce
  BY <1>2, <1>3 DEF Stored, DiskType
<1> QED BY <1>2, <1>3, <1>4, <1>5

\* An open step that is no removal changes the state of the files only.
LEMMA OpeningFields ==
    ASSUME DiskType, NEW p \in Writers, CreateRoot(p) \/ CreateDatabase(p) \/ Initialize(p)
    PROVE  UNCHANGED <<disk.rows, disk.head, disk.nonce, disk.snapshot, position, published,
                       session, seen>>
BY DEF CreateRoot, CreateDatabase, Initialize, Reader, DiskType

\* Every step of a writer, and a removal, keeps the invariant of the writers.
LEMMA WriterStep ==
    ASSUME WriterInv, Next
    PROVE  WriterInv' /\ Grows
<1> USE DEF WriterInv
<1>1. /\ DiskType /\ disk.nonce \in Nat /\ disk.nonce \in Nonces
      /\ disk.rows \in Seq(Events) /\ Len(disk.rows) \in Nat
      /\ \A p \in Writers : handle[p] \in Nat
  BY EventJournalAssumption DEF DiskInv, DiskType, Nonces, HandleInv
<1>2. CASE Remove
  <2>1. DiskInv' /\ disk'.nonce = disk.nonce + 1 /\ disk'.rows = <<>> /\ disk'.snapshot = None
    BY <1>2, OpeningKeepsDisk DEF Remove, NoJournal
  <2>2. Grows
    BY <2>1, <1>1 DEF Grows
  <2>3. PositionInv'
    BY <2>1, <2>2, <1>2, PositionKept DEF Remove
  <2>4. HandleInv'
    BY <2>1, <1>1, <1>2 DEF HandleInv, Remove, Connected
  <2>5. PublishedInv'
    BY <1>2 DEF Remove, PublishedInv
  <2> QED BY <2>1, <2>2, <2>3, <2>4, <2>5
<1>3. ASSUME NEW p \in Writers, CreateRoot(p) \/ CreateDatabase(p) \/ Initialize(p)
      PROVE  WriterInv' /\ Grows
  <2>1. DiskInv' /\ UNCHANGED <<disk.rows, disk.head, disk.nonce, disk.snapshot, position, published>>
    BY <1>1, <1>3, OpeningKeepsDisk, OpeningFields
  <2>2. Grows /\ PositionInv'
    BY <2>1, PositionKept DEF Grows
  <2>3. HandleInv' /\ (disk.state = "ready" => disk'.state = "ready")
    <3>1. CASE CreateRoot(p)
      BY <3>1, <2>1, <1>1 DEF CreateRoot, Enter, HandleInv, Connected, DiskType
    <3>2. CASE CreateDatabase(p)
      BY <3>2, <2>1, <1>1 DEF CreateDatabase, Enter, HandleInv, Connected, DiskType
    <3>3. CASE Initialize(p)
      BY <3>3, <2>1, <1>1 DEF Initialize, HandleInv, Connected, DiskType
    <3> QED BY <1>3, <3>1, <3>2, <3>3
  <2>4. PublishedInv'
    BY <2>1, <2>3 DEF PublishedInv
  <2> QED BY <2>1, <2>2, <2>3, <2>4
<1>4. ASSUME UNCHANGED <<disk, position, published>>, HandleInv'
      PROVE  WriterInv' /\ Grows
  BY <1>4 DEF DiskInv, DiskType, FirstDurable, PositionInv, PublishedInv, Grows
<1>5. ASSUME NEW p \in Writers, OpenExisting(p) PROVE WriterInv' /\ Grows
  BY <1>1, <1>4, <1>5 DEF OpenExisting, Enter, HandleInv, Connected
<1>6. ASSUME NEW p \in Writers, Leave(p) PROVE WriterInv' /\ Grows
  <2>1. 0 \in Nonces /\ 0 <= disk.nonce
    BY <1>1, EventJournalAssumption DEF Nonces
  <2> QED BY <2>1, <1>1, <1>4, <1>6 DEF Leave, HandleInv, Connected
<1>7. ASSUME NEW p \in Writers, NEW st \in Streams, NEW durable \in BOOLEAN,
             NextAppendPosition(p, st, durable)
      PROVE  WriterInv' /\ Grows
  <2>1. UNCHANGED <<disk, pc, handle, published>> /\ position' = PositionFor(st, durable)
    BY <1>7 DEF NextAppendPosition
  <2>2. disk.head.seq = Len(disk.rows) /\ disk.head.seq \in Nat
    BY <1>1 DEF DiskInv, Verifies
  <2>3. position' \in Positions
    <3>1. LastDurable(disk.rows, disk.head.seq + 1) \in Nat
      <4>1. CASE disk.head.seq = 0
        BY <4>1 DEF LastDurable
      <4>2. CASE disk.head.seq # 0
        <5>1. disk.rows[disk.head.seq] \in Events
          BY <4>2, <2>2, <1>1
        <5> QED BY <5>1, <4>2, <2>2 DEF LastDurable, Events
      <4> QED BY <4>1, <4>2
    <3> QED BY <3>1, <2>1, <2>2, <1>1 DEF PositionFor, Positions, NextCursor, Cursors
  <2>4. PositionInv'
    <3>1. /\ position'.cursor = [nonce |-> disk.nonce, stream |-> st, seq |-> disk.head.seq + 1]
          /\ position'.durable = durable
          /\ position'.last = IF durable THEN disk.head.seq + 1
                              ELSE LastDurable(disk.rows, disk.head.seq + 1)
      BY <2>1 DEF PositionFor, NextCursor
    <3> QED BY <3>1, <2>1, <2>2, <2>3, <1>1 DEF PositionInv
  <2>5. DiskInv' /\ HandleInv' /\ PublishedInv' /\ Grows
    BY <2>1 DEF DiskInv, DiskType, FirstDurable, HandleInv, Connected, PublishedInv, Grows
  <2> QED BY <2>4, <2>5
<1>8. ASSUME DiskInv', disk'.state = "ready", disk'.nonce = disk.nonce, disk.snapshot = None,
             UNCHANGED <<pc, handle, position>>, Len(disk'.rows) > Len(disk.rows),
             \A n \in DOMAIN disk.rows : disk'.rows[n] = disk.rows[n]
      PROVE  DiskInv' /\ HandleInv' /\ PositionInv' /\ Grows
  <2>1. Grows
    BY <1>8 DEF Grows
  <2>2. HandleInv'
    BY <1>8 DEF HandleInv, Connected
  <2> QED BY <1>8, <2>1, <2>2, PositionKept
<1>9. ASSUME NEW p \in Writers, AppendAt(p) PROVE WriterInv' /\ Grows
  <2>1. /\ DiskInv' /\ disk'.state = "ready" /\ disk'.nonce = disk.nonce /\ disk.snapshot = None
        /\ UNCHANGED <<pc, handle, position, published>>
    BY <1>9, AppendAtKeeps
  <2>2. PICK e \in Events : disk'.rows = disk.rows \o <<e>>
    BY <1>9, AppendAtKeeps
  <2>3. /\ Len(disk'.rows) > Len(disk.rows)
        /\ \A n \in DOMAIN disk.rows : disk'.rows[n] = disk.rows[n]
    BY <2>2, <1>1
  <2>4. PublishedInv'
    BY <2>1, EventJournalAssumption DEF PublishedInv
  <2> QED BY <2>1, <2>3, <2>4, <1>8
<1>10. ASSUME NEW p \in Writers, AppendStream(p) PROVE WriterInv' /\ Grows
  <2>1. /\ DiskInv' /\ disk'.state = "ready" /\ disk'.nonce = disk.nonce /\ disk.rows = <<>>
        /\ disk.snapshot = None /\ UNCHANGED <<pc, handle, position>>
    BY <1>10, AppendStreamKeeps
  <2>2. PICK st \in Streams, drafts \in Drafts :
            /\ disk'.rows = Assigned(st, drafts) /\ disk'.snapshot = st /\ published' = (st = Own)
            /\ CompleteStream(Assigned(st, drafts), st)
    BY <1>10, AppendStreamKeeps
  <2>3. disk'.rows \in Seq(Events) /\ disk'.rows # <<>>
    BY <2>1, <2>2 DEF DiskInv, DiskType, CompleteStream
  <2>4. Len(disk'.rows) > Len(disk.rows)
    BY <2>1, <2>3
  <2>5. PublishedInv'
    BY <2>1, <2>2 DEF PublishedInv
  <2> QED BY <2>1, <2>4, <2>5, <1>8
<1>11. ASSUME UNCHANGED <<disk, pc, handle, position, published>>
       PROVE  WriterInv' /\ Grows
  BY <1>11 DEF DiskInv, DiskType, FirstDurable, HandleInv, Connected, PositionInv, PublishedInv, Grows
<1>12. ASSUME NEW r \in Readers, OpenReplay(r) \/ \E limit \in 1 .. MAX_PAGE : Page(r, limit)
       PROVE  WriterInv' /\ Grows
  BY <1>11, <1>12 DEF OpenReplay, Page
<1> QED BY <1>2, <1>3, <1>5, <1>6, <1>7, <1>9, <1>10, <1>12 DEF Next

\* The invariant of the writers holds at first.
LEMMA WriterInit == Init => WriterInv
<1> SUFFICES ASSUME Init PROVE WriterInv
  OBVIOUS
<1>1. disk = NoJournal(0) /\ disk.rows = <<>> /\ disk.head = [seq |-> 0, cursor |-> None]
      /\ disk.stream = None /\ disk.snapshot = None /\ disk.terminal = 0 /\ disk.nonce = 0
      /\ disk.state = "none"
  BY DEF Init, NoJournal
<1>2. Verifies(disk)
  BY <1>1, EmptyVerifies
<1>3. 0 \in Nonces /\ <<>> \in Seq(Events) /\ Len(<<>>) = 0 /\ 0 <= MAX_EVENTS
  BY EventJournalAssumption DEF Nonces
<1>4. DiskInv
  BY <1>1, <1>2, <1>3 DEF DiskInv, DiskType, FirstDurable, NoJournal
<1>5. HandleInv /\ PositionInv /\ PublishedInv
  <2>1. HandleInv
    BY <1>1, <1>3 DEF Init, HandleInv, Connected
  <2>2. PositionInv
    BY DEF Init, PositionInv
  <2>3. PublishedInv
    BY DEF Init, PublishedInv
  <2> QED BY <2>1, <2>2, <2>3
<1> QED BY <1>4, <1>5 DEF WriterInv

-----------------------------------------------------------------------------
(* Readers. *)

\* What a reader has is the stream from where it began, up to its cursor; the
\* session it holds is frozen and goes on from there.
ReaderOK(h, s, d) ==
    /\ h \in [events : Seq(Events), from : Nat, nonce : Nonces, cursor : Cursors \cup {None}]
    /\ s \in [events : Seq(Events), next : Nat \ {0}]
    /\ s.next = h.from + Len(h.events) + 1 /\ s.next <= Len(s.events) + 1
    /\ h.nonce <= d.nonce
    /\ \A n \in 1 .. Len(s.events) : s.events[n].cursor.nonce = h.nonce
    /\ (s.next = 1) <=> (h.cursor = None)
    /\ h.cursor # None => h.cursor.nonce = h.nonce
    /\ h.nonce = d.nonce =>
          /\ Len(s.events) <= Len(d.rows)
          /\ \A n \in 1 .. Len(s.events) : s.events[n] = d.rows[n]
          /\ \A n \in 1 .. Len(h.events) : h.events[n] = d.rows[h.from + n]
          /\ h.cursor # None => h.cursor = d.rows[s.next - 1].cursor

ReaderInv ==
    /\ seen \in [Readers -> [events : Seq(Events), from : Nat, nonce : Nonces,
                             cursor : Cursors \cup {None}]]
    /\ session \in [Readers -> [events : Seq(Events), next : Nat \ {0}]]
    /\ \A r \in Readers : ReaderOK(seen[r], session[r], disk)

\* A journal that grows moves nothing a reader has.
LEMMA ReaderKept ==
    ASSUME DiskInv, DiskInv', Grows, NEW h, NEW s, ReaderOK(h, s, disk)
    PROVE  ReaderOK(h, s, disk')
<1>1. /\ disk.rows \in Seq(Events) /\ disk'.rows \in Seq(Events)
      /\ Len(disk.rows) \in Nat /\ Len(disk'.rows) \in Nat /\ DOMAIN disk.rows = 1 .. Len(disk.rows)
      /\ disk.nonce \in Nat /\ disk'.nonce \in Nat
  BY DEF DiskInv, DiskType, Nonces
<1>2. /\ h.nonce \in Nat /\ Len(h.events) \in Nat /\ Len(s.events) \in Nat /\ h.from \in Nat
      /\ s.next \in Nat /\ s.next - 1 <= Len(s.events) /\ h.from + Len(h.events) = s.next - 1
  BY DEF ReaderOK, Nonces
<1>3. CASE UNCHANGED <<disk.rows, disk.head, disk.nonce, disk.snapshot>>
  BY <1>3 DEF ReaderOK
<1>4. CASE disk'.nonce > disk.nonce
  BY <1>1, <1>2, <1>4 DEF ReaderOK
<1>5. CASE /\ disk'.nonce = disk.nonce /\ Len(disk'.rows) > Len(disk.rows)
           /\ \A n \in DOMAIN disk.rows : disk'.rows[n] = disk.rows[n]
  <2>1. ASSUME h.nonce = disk'.nonce
        PROVE  /\ Len(s.events) <= Len(disk'.rows)
               /\ \A n \in 1 .. Len(s.events) : s.events[n] = disk'.rows[n]
               /\ \A n \in 1 .. Len(h.events) : h.events[n] = disk'.rows[h.from + n]
               /\ h.cursor # None => h.cursor = disk'.rows[s.next - 1].cursor
    <3>1. /\ Len(s.events) <= Len(disk.rows)
          /\ \A n \in 1 .. Len(s.events) : s.events[n] = disk.rows[n]
          /\ \A n \in 1 .. Len(h.events) : h.events[n] = disk.rows[h.from + n]
          /\ h.cursor # None => h.cursor = disk.rows[s.next - 1].cursor /\ s.next # 1
      BY <1>5, <2>1 DEF ReaderOK
    <3>2. \A n \in 1 .. Len(s.events) : n \in DOMAIN disk.rows
      BY <1>1, <1>2, <3>1
    <3>3. \A n \in 1 .. Len(h.events) : h.from + n \in DOMAIN disk.rows
      <4>1. h.from + Len(h.events) <= Len(disk.rows)
        BY <1>1, <1>2, <3>1
      <4> QED BY <4>1, <1>1, <1>2, Shift
    <3>4. h.cursor # None => s.next - 1 \in DOMAIN disk.rows
      <4>1. h.cursor # None => s.next # 1
        BY <3>1
      <4>2. s.next - 1 = h.from + Len(h.events) /\ s.next - 1 <= Len(disk.rows)
        BY <1>1, <1>2, <3>1
      <4> QED BY <4>1, <4>2, <1>1, <1>2
    <3>5. /\ \A n \in 1 .. Len(s.events) : s.events[n] = disk'.rows[n]
          /\ \A n \in 1 .. Len(h.events) : h.events[n] = disk'.rows[h.from + n]
      BY <1>5, <3>1, <3>2, <3>3
    <3>6. h.cursor # None => h.cursor = disk'.rows[s.next - 1].cursor
      BY <1>5, <3>1, <3>4
    <3>7. Len(s.events) <= Len(disk'.rows)
      BY <1>1, <1>2, <1>5, <3>1
    <3> QED BY <3>5, <3>6, <3>7
  <2> QED BY <2>1, <1>5 DEF ReaderOK
<1> QED BY <1>3, <1>4, <1>5 DEF Grows

\* A step of one reader that leaves it well keeps every reader well.
LEMMA OneReaderChanges ==
    ASSUME ReaderInv, NEW r \in Readers, NEW h2, NEW s2, ReaderOK(h2, s2, disk),
           seen' = [seen EXCEPT ![r] = h2], session' = [session EXCEPT ![r] = s2], UNCHANGED disk
    PROVE  ReaderInv'
<1>1. /\ h2 \in [events : Seq(Events), from : Nat, nonce : Nonces, cursor : Cursors \cup {None}]
      /\ s2 \in [events : Seq(Events), next : Nat \ {0}]
  BY DEF ReaderOK
<1>2. /\ seen' \in [Readers -> [events : Seq(Events), from : Nat, nonce : Nonces,
                                   cursor : Cursors \cup {None}]]
      /\ session' \in [Readers -> [events : Seq(Events), next : Nat \ {0}]]
      /\ seen'[r] = h2 /\ session'[r] = s2
      /\ \A q \in Readers \ {r} : seen'[q] = seen[q] /\ session'[q] = session[q]
  BY <1>1 DEF ReaderInv
<1>3. ASSUME NEW q \in Readers PROVE ReaderOK(seen'[q], session'[q], disk')
  <2>1. ReaderOK(seen'[q], session'[q], disk)
    BY <1>2, <1>3 DEF ReaderInv
  <2> QED BY <2>1
<1> QED BY <1>2, <1>3 DEF ReaderInv

\* A session starts where the reader is, or at the latest event.
LEMMA OpenReplayKeeps ==
    ASSUME DiskInv, ReaderInv, NEW r \in Readers, OpenReplay(r)
    PROVE  ReaderInv'
<1> DEFINE known == Known(disk.rows, seen[r].cursor)
           from == IF known THEN Offset(disk.rows, seen[r].cursor) ELSE Len(disk.rows)
<1>1. /\ disk.rows \in Seq(Events) /\ Len(disk.rows) \in Nat /\ disk.nonce \in Nonces
      /\ disk.nonce \in Nat /\ disk.head.cursor \in Cursors \cup {None}
      /\ DOMAIN disk.rows = 1 .. Len(disk.rows)
  BY DEF DiskInv, DiskType, Nonces
<1>2. PICK h \in [events : Seq(Events), from : Nat, nonce : Nonces, cursor : Cursors \cup {None}],
           s \in [events : Seq(Events), next : Nat \ {0}] : h = seen[r] /\ s = session[r]
  BY DEF ReaderInv
<1>3. ReaderOK(h, s, disk)
  BY <1>2 DEF ReaderInv
<1>4. ASSUME NEW n \in 1 .. Len(disk.rows)
      PROVE  /\ disk.rows[n].cursor \in Cursors /\ disk.rows[n].cursor # None
             /\ disk.rows[n].cursor.nonce = disk.nonce /\ disk.rows[n].cursor.seq = n
  <2>1. n \in DOMAIN disk.rows /\ disk.rows[n] \in Events
    BY <1>1, <1>4
  <2>3. ValidRecord(disk, n)
    BY <2>1 DEF DiskInv, Verifies
  <2>2. disk.rows[n].cursor = [nonce |-> disk.nonce, stream |-> disk.rows[n].stream, seq |-> n]
    BY <2>3 DEF ValidRecord, NextCursor
  <2>4. disk.rows[n].cursor \in [nonce : Nat, stream : Streams, seq : Nat]
        /\ disk.rows[n].cursor \in Cursors
    <3>1. disk.rows[n].stream \in Streams
      BY <2>1 DEF Events
    <3>2. n \in Nat
      BY <1>1
    <3> QED BY <3>1, <3>2, <2>2, <1>1 DEF Cursors
  <2>5. disk.rows[n].cursor # None
    BY <2>4, EventJournalAssumption
  <2>6. disk.rows[n].cursor.nonce = disk.nonce /\ disk.rows[n].cursor.seq = n
    BY <2>2
  <2> QED BY <2>4, <2>5, <2>6
<1>5. UNCHANGED disk
  BY DEF OpenReplay
<1>6. CASE known /\ h.cursor # None
  <2>1. PICK n \in 1 .. Len(disk.rows) : disk.rows[n].cursor = h.cursor
    BY <1>1, <1>2, <1>6 DEF Known
  <2>2. \A m \in 1 .. Len(disk.rows) : disk.rows[m].cursor = h.cursor => m = n
    <3> TAKE m \in 1 .. Len(disk.rows)
    <3>1. disk.rows[m].cursor.seq = m
      BY <1>4
    <3>2. disk.rows[n].cursor.seq = n
      BY <1>4
    <3> QED BY <3>1, <3>2, <2>1
  <2>3. from = n
    <3>1. from = CHOOSE m \in 1 .. Len(disk.rows) : disk.rows[m].cursor = h.cursor
      BY <1>1, <1>2, <1>6 DEF Offset
    <3> QED BY <3>1, <2>1, <2>2
  <2>4. h.nonce = disk.nonce
    BY <1>3, <1>4, <1>6, <2>1 DEF ReaderOK
  <2>5. s.next - 1 = n
    <3>1. /\ s.next # 1 /\ h.cursor = disk.rows[s.next - 1].cursor
          /\ s.next <= Len(s.events) + 1 /\ Len(s.events) <= Len(disk.rows)
      BY <1>3, <1>6, <2>4 DEF ReaderOK
    <3>2. Len(s.events) \in Nat /\ s.next \in Nat \ {0}
      OBVIOUS
    <3>3. s.next - 1 \in 1 .. Len(disk.rows)
      BY <3>1, <3>2, <1>1
    <3> QED BY <3>1, <3>3, <2>2
  <2> DEFINE s2 == [events |-> disk.rows, next |-> n + 1]
  <2>6. session' = [session EXCEPT ![r] = s2] /\ seen' = seen
    BY <1>2, <1>6, <2>3 DEF OpenReplay
  <2>7. seen' = [seen EXCEPT ![r] = h]
    BY <1>2, <2>6 DEF ReaderInv
  <2>8. ReaderOK(h, s2, disk)
    <3>1. /\ s2 \in [events : Seq(Events), next : Nat \ {0}] /\ s2.events = disk.rows
          /\ s2.next = n + 1 /\ s2.next = s.next
      BY <1>1, <2>1, <2>5
    <3>2. s2.next <= Len(s2.events) + 1
      BY <3>1, <2>1, <1>1
    <3> HIDE DEF s2
    <3>3. \A m \in 1 .. Len(s2.events) :
             s2.events[m].cursor.nonce = disk.nonce /\ s2.events[m] = disk.rows[m]
      BY <3>1, <1>4
    <3>4. /\ h \in [events : Seq(Events), from : Nat, nonce : Nonces, cursor : Cursors \cup {None}]
          /\ s.next = h.from + Len(h.events) + 1 /\ h.nonce <= disk.nonce
          /\ (s.next = 1) <=> (h.cursor = None)
          /\ h.cursor # None => h.cursor.nonce = h.nonce
          /\ \A m \in 1 .. Len(h.events) : h.events[m] = disk.rows[h.from + m]
          /\ h.cursor # None => h.cursor = disk.rows[s.next - 1].cursor
      BY <1>3, <2>4 DEF ReaderOK
    <3>5. Len(s2.events) <= Len(disk.rows)
      BY <1>1, <3>1
    <3> QED BY <2>4, <3>1, <3>2, <3>3, <3>4, <3>5 DEF ReaderOK
  <2> HIDE DEF s2
  <2> QED BY <2>6, <2>7, <2>8, <1>5, OneReaderChanges
<1>7. CASE ~(known /\ h.cursor # None)
  <2> DEFINE k == IF known THEN 0 ELSE Len(disk.rows)
             c == IF known THEN None ELSE disk.head.cursor
             h2 == [events |-> <<>>, from |-> k, nonce |-> disk.nonce, cursor |-> c]
             s2 == [events |-> disk.rows, next |-> k + 1]
  <2>1. from = k
    BY <1>2, <1>7 DEF Offset
  <2>2. /\ session' = [session EXCEPT ![r] = s2] /\ seen' = [seen EXCEPT ![r] = h2]
    BY <1>2, <1>7, <2>1 DEF OpenReplay
  <2>3. /\ k \in Nat /\ k <= Len(disk.rows) /\ c \in Cursors \cup {None}
        /\ (k = 0 <=> c = None) /\ (k # 0 => c = disk.rows[k].cursor /\ c.nonce = disk.nonce)
    <3>1. CASE known
      BY <3>1, <1>1
    <3>2. CASE ~known /\ disk.rows = <<>>
      BY <3>2, <1>1 DEF DiskInv, Verifies
    <3>3. CASE ~known /\ disk.rows # <<>>
      <4>1. Len(disk.rows) \in 1 .. Len(disk.rows)
        BY <3>3, <1>1
      <4>2. c = disk.rows[Len(disk.rows)].cursor /\ k = Len(disk.rows)
        BY <3>3 DEF DiskInv, Verifies
      <4> HIDE DEF c, k
      <4> QED BY <4>1, <4>2, <1>1, <1>4
    <3> QED BY <3>1, <3>2, <3>3
  <2>4. /\ h2 \in [events : Seq(Events), from : Nat, nonce : Nonces, cursor : Cursors \cup {None}]
        /\ s2 \in [events : Seq(Events), next : Nat \ {0}]
        /\ h2.events = <<>> /\ h2.from = k /\ h2.nonce = disk.nonce /\ h2.cursor = c
        /\ s2.events = disk.rows /\ s2.next = k + 1
    <3> HIDE DEF k, c
    <3>1. <<>> \in Seq(Events)
      OBVIOUS
    <3> QED BY <1>1, <2>3, <3>1
  <2>5. ReaderOK(h2, s2, disk)
    <3> HIDE DEF k, c, h2, s2
    <3>1. Len(h2.events) = 0
      BY <2>4
    <3>2. /\ s2.next = h2.from + Len(h2.events) + 1 /\ s2.next <= Len(s2.events) + 1
          /\ s2.next = 1 <=> h2.cursor = None
      BY <1>1, <2>3, <2>4, <3>1
    <3>3. s2.next - 1 = k
      BY <2>3, <2>4
    <3>4. \A n \in 1 .. Len(s2.events) : s2.events[n].cursor.nonce = h2.nonce
      BY <1>4, <2>4
    <3>5. h2.cursor # None => h2.cursor.nonce = h2.nonce /\ h2.cursor = disk.rows[s2.next - 1].cursor
      BY <2>3, <2>4, <3>3
    <3>6. h2.nonce <= disk.nonce /\ Len(s2.events) <= Len(disk.rows)
      BY <1>1, <2>4
    <3>7. \A n \in 1 .. Len(h2.events) : h2.events[n] = disk.rows[h2.from + n]
      BY <3>1
    <3> QED BY <2>4, <3>2, <3>4, <3>5, <3>6, <3>7 DEF ReaderOK
  <2> HIDE DEF h2, s2
  <2> QED BY <2>2, <2>5, <1>5, OneReaderChanges
<1> QED BY <1>6, <1>7

\* A page continues where the last one ended.
LEMMA PageOK ==
    ASSUME DiskInv, NEW h, NEW s, ReaderOK(h, s, disk), NEW limit \in Nat \ {0},
           s.next <= Len(s.events),
           NEW last \in Nat, last \in s.next .. Len(s.events)
    PROVE  LET h2 == [h EXCEPT !.events = h.events \o SubSeq(s.events, s.next, last),
                               !.cursor = s.events[last].cursor]
               s2 == [s EXCEPT !.next = last + 1]
           IN  ReaderOK(h2, s2, disk)
<1> DEFINE more == SubSeq(s.events, s.next, last)
           h2 == [h EXCEPT !.events = h.events \o more, !.cursor = s.events[last].cursor]
           s2 == [s EXCEPT !.next = last + 1]
<1>1. /\ h.events \in Seq(Events) /\ h.from \in Nat /\ s.events \in Seq(Events)
      /\ s.next \in Nat /\ s.next # 0 /\ s.next = h.from + Len(h.events) + 1
      /\ h.nonce \in Nonces
      /\ h \in [events : Seq(Events), from : Nat, nonce : Nonces, cursor : Cursors \cup {None}]
      /\ s \in [events : Seq(Events), next : Nat \ {0}]
  BY DEF ReaderOK
<1>2. Len(h.events) \in Nat /\ Len(s.events) \in Nat /\ last \in 1 .. Len(s.events)
  BY <1>1
<1>3. s.events[last] \in Events
  BY <1>1, <1>2
<1>4. /\ more \in Seq(Events) /\ Len(more) = last - s.next + 1
      /\ \A n \in 1 .. Len(more) : more[n] = s.events[s.next - 1 + n]
  <2>1. s.events \in Seq(Events) /\ s.next \in 1 .. Len(s.events) /\ last \in s.next .. Len(s.events)
    BY <1>1
  <2> QED BY <2>1, Cut
<1> HIDE DEF more
<1>5. /\ h.events \o more \in Seq(Events) /\ Len(h.events \o more) = Len(h.events) + Len(more)
      /\ \A n \in 1 .. Len(h.events) : (h.events \o more)[n] = h.events[n]
      /\ \A n \in 1 .. Len(more) : (h.events \o more)[Len(h.events) + n] = more[n]
  <2>1. h.events \in Seq(Events) /\ more \in Seq(Events)
    BY <1>1, <1>4
  <2> QED BY <2>1, Joined
<1>6. s.events[last].cursor \in Cursors
  BY <1>3 DEF Events
<1>7. /\ h2 \in [events : Seq(Events), from : Nat, nonce : Nonces, cursor : Cursors \cup {None}]
      /\ s2 \in [events : Seq(Events), next : Nat \ {0}]
      /\ h2.events = h.events \o more /\ h2.from = h.from /\ h2.nonce = h.nonce
      /\ h2.cursor = s.events[last].cursor /\ s2.events = s.events /\ s2.next = last + 1
  <2>1. PICK c \in Cursors, t \in Seq(Events) : c = s.events[last].cursor /\ t = h.events \o more
    BY <1>5, <1>6
  <2>2. h2 = [h EXCEPT !.events = t, !.cursor = c]
    BY <2>1
  <2>3. /\ s2 \in [events : Seq(Events), next : Nat \ {0}]
        /\ s2.events = s.events /\ s2.next = last + 1
    <3>1. s \in [events : Seq(Events), next : Nat \ {0}] /\ last + 1 \in Nat \ {0}
      BY <1>1
    <3> QED BY <3>1
  <2> HIDE DEF h2, s2
  <2>4. /\ h2 \in [events : Seq(Events), from : Nat, nonce : Nonces, cursor : Cursors \cup {None}]
        /\ h2.events = t /\ h2.from = h.from /\ h2.nonce = h.nonce /\ h2.cursor = c
    BY <1>1, <2>1, <2>2
  <2> QED BY <2>1, <2>3, <2>4
<1> HIDE DEF h2, s2
<1>8. /\ h.nonce <= disk.nonce
      /\ \A n \in 1 .. Len(s.events) : s.events[n].cursor.nonce = h.nonce
      /\ h.nonce = disk.nonce =>
            /\ Len(s.events) <= Len(disk.rows)
            /\ \A n \in 1 .. Len(s.events) : s.events[n] = disk.rows[n]
            /\ \A n \in 1 .. Len(h.events) : h.events[n] = disk.rows[h.from + n]
  BY DEF ReaderOK
<1>9. s.events[last].cursor # None /\ s.events[last].cursor.nonce = h.nonce
  BY <1>2, <1>6, <1>8, EventJournalAssumption DEF Cursors, Nonces
<1>10. /\ s2.next = h2.from + Len(h2.events) + 1 /\ s2.next <= Len(s2.events) + 1 /\ s2.next # 1
       /\ Len(h2.events) = last - h.from
  <2>1. Len(h2.events) = Len(h.events) + (last - s.next + 1)
    BY <1>4, <1>5, <1>7
  <2>2. Len(h2.events) = last - h.from
    BY <2>1, <1>1, <1>2
  <2> QED BY <2>2, <1>1, <1>2, <1>7
<1>11. ASSUME h.nonce = disk.nonce, NEW n \in 1 .. Len(h2.events)
       PROVE  h2.events[n] = disk.rows[h.from + n]
  <2>1. CASE n <= Len(h.events)
    BY <2>1, <1>1, <1>2, <1>5, <1>7, <1>8, <1>11
  <2>2. CASE n > Len(h.events)
    <3>1. PICK m \in 1 .. Len(more) : n = Len(h.events) + m
      <4>1. Len(h2.events) = Len(h.events) + Len(more) /\ Len(more) \in Nat
        BY <1>4, <1>5, <1>7
      <4>2. Len(h.events) \in Nat
        BY <1>2
      <4>3. Len(more) \in Nat
        BY <4>1
      <4>4. n \in Nat /\ n <= Len(h.events) + Len(more)
        BY <4>1, <4>2
      <4> QED BY <2>2, <4>2, <4>3, <4>4, Beyond
    <3>2. h2.events[n] = more[m] /\ more[m] = s.events[s.next - 1 + m]
      BY <3>1, <1>4, <1>5, <1>7
    <3>3. s.next - 1 + m \in 1 .. Len(s.events) /\ s.next - 1 + m = h.from + n
      <4>1. m \in Nat /\ m <= Len(more) /\ m >= 1 /\ Len(more) = last - s.next + 1
        BY <1>4
      <4>2. /\ s.next \in Nat /\ s.next # 0 /\ h.from \in Nat /\ Len(h.events) \in Nat
            /\ s.next = h.from + Len(h.events) + 1
        BY <1>1, <1>2
      <4>3. last \in Nat /\ last <= Len(s.events) /\ Len(s.events) \in Nat
        BY <1>2
      <4>4. s.next - 1 + m \in 1 .. Len(s.events) /\ s.next - 1 + m = h.from + (Len(h.events) + m)
        <5>1. PICK a \in Nat, f \in Nat, k \in Nat, z \in Nat, c \in Nat :
                 a = s.next /\ f = h.from /\ k = Len(h.events) /\ z = last /\ c = Len(s.events)
          BY <4>2, <4>3
        <5>2. a = f + k + 1 /\ z <= c /\ m \in Nat /\ m >= 1 /\ m <= z - a + 1
          BY <4>1, <4>2, <4>3, <5>1
        <5>3. a - 1 + m \in 1 .. c /\ a - 1 + m = f + (k + m)
          BY <5>2
        <5> QED BY <5>1, <5>3
      <4> QED BY <3>1, <4>4
    <3> QED BY <3>2, <3>3, <1>8, <1>11
  <2> QED BY <2>1, <2>2, <1>2, <1>10, <1>11
<1>12. h.nonce = disk.nonce => s.events[last] = disk.rows[s2.next - 1]
  BY <1>2, <1>7, <1>8
<1>13. ReaderOK(h2, s2, disk)
  BY <1>7, <1>8, <1>9, <1>10, <1>11, <1>12 DEF ReaderOK
<1> QED BY <1>13 DEF h2, s2, more

\* A page changes what one reader has.
LEMMA PageKeeps ==
    ASSUME DiskInv, ReaderInv, NEW r \in Readers, NEW limit \in 1 .. MAX_PAGE, Page(r, limit)
    PROVE  ReaderInv'
<1>1. PICK h \in [events : Seq(Events), from : Nat, nonce : Nonces, cursor : Cursors \cup {None}],
           s \in [events : Seq(Events), next : Nat \ {0}] : h = seen[r] /\ s = session[r]
  BY DEF ReaderInv
<1>2. Len(s.events) \in Nat /\ s.next \in Nat /\ s.next # 0 /\ limit \in Nat \ {0}
  BY EventJournalAssumption
<1>3. PICK last \in Nat :
          /\ last \in s.next .. Len(s.events)
          /\ seen' = [seen EXCEPT ![r] = [h EXCEPT !.events = h.events \o SubSeq(s.events, s.next, last),
                                                   !.cursor = s.events[last].cursor]]
          /\ session' = [session EXCEPT ![r] = [s EXCEPT !.next = last + 1]]
          /\ UNCHANGED disk
  <2> DEFINE left == Len(s.events) + 1 - s.next
             last == s.next - 1 + (IF limit <= left THEN limit ELSE left)
  <2>1. left > 0
    BY <1>1 DEF Page
  <2>2. last \in Nat /\ last \in s.next .. Len(s.events)
    BY <1>2, <2>1
  <2>3. /\ seen' = [seen EXCEPT ![r].events = @ \o SubSeq(s.events, s.next, last),
                                ![r].cursor = s.events[last].cursor]
        /\ session' = [session EXCEPT ![r].next = last + 1]
        /\ UNCHANGED disk
    BY <1>1 DEF Page
  <2> HIDE DEF last
  <2>4. seen' = [seen EXCEPT ![r] = [h EXCEPT !.events = h.events \o SubSeq(s.events, s.next, last),
                                             !.cursor = s.events[last].cursor]]
        /\ session' = [session EXCEPT ![r] = [s EXCEPT !.next = last + 1]]
    BY <1>1, <2>3 DEF ReaderInv
  <2> QED BY <2>2, <2>3, <2>4
<1>4. ReaderOK(h, s, disk)
  BY <1>1 DEF ReaderInv
<1>5. s.next <= Len(s.events)
  BY <1>2, <1>3
<1> DEFINE h2 == [h EXCEPT !.events = h.events \o SubSeq(s.events, s.next, last),
                           !.cursor = s.events[last].cursor]
           s2 == [s EXCEPT !.next = last + 1]
<1>6. ReaderOK(h2, s2, disk)
  BY <1>2, <1>3, <1>4, <1>5, PageOK
<1>7. seen' = [seen EXCEPT ![r] = h2] /\ session' = [session EXCEPT ![r] = s2] /\ UNCHANGED disk
  BY <1>3
<1> HIDE DEF h2, s2
<1> QED BY <1>6, <1>7, OneReaderChanges

-----------------------------------------------------------------------------
(* The whole journal. *)

JournalInv == WriterInv /\ ReaderInv /\ TimesInOrder(disk.rows)

\* A clock that is never behind the last event is never behind any.
LEMMA TimesKept ==
    ASSUME DiskInv, NEW e \in Events, InOrder(e), TimesInOrder(disk.rows)
    PROVE  /\ \A n \in DOMAIN disk.rows : Later(disk.rows[n], e)
           /\ TimesInOrder(disk.rows \o <<e>>)
<1> DEFINE k == Len(disk.rows)
           rows == disk.rows \o <<e>>
<1>1. /\ disk.rows \in Seq(Events) /\ k \in Nat /\ <<e>> \in Seq(Events)
      /\ Len(<<e>>) = 1 /\ <<e>>[1] = e /\ DOMAIN disk.rows = 1 .. k
  BY DEF DiskInv, DiskType
<1>2. /\ rows \in Seq(Events) /\ Len(rows) = k + 1 /\ rows[k + 1] = e
      /\ \A n \in 1 .. k : rows[n] = disk.rows[n]
  BY <1>1, Joined
<1>3. /\ disk.head.seq = k /\ e.seq = k + 1 /\ e.time >= LatestTime(disk.rows, k + 1)
      /\ disk.stream \in {None, e.stream}
  BY <1>1 DEF InOrder, DiskInv, Verifies
<1>4. e.time \in 0 .. MaxTime /\ \A n \in 1 .. k : disk.rows[n].time \in 0 .. MaxTime
  <2>1. \A n \in 1 .. k : disk.rows[n] \in Events
    BY <1>1
  <2>2. \A f \in Events : f.time \in 0 .. MaxTime
    BY DEF Events
  <2> QED BY <2>1, <2>2
<1>5. ASSUME NEW n \in 1 .. k
      PROVE  disk.rows[n].time <= e.time
  <2>1. k # 0 /\ disk.rows[k].time <= e.time /\ k \in 1 .. k
    BY <1>1, <1>3, <1>4, <1>5, EventJournalAssumption DEF LatestTime
  <2>2. n = k \/ (n < k /\ disk.rows[n].time <= disk.rows[k].time)
    BY <1>1, <1>5, <2>1 DEF TimesInOrder
  <2>3. /\ disk.rows[n].time \in 0 .. MaxTime /\ disk.rows[k].time \in 0 .. MaxTime
    BY <1>4, <2>1
  <2>4. disk.rows[n].time \in Int /\ disk.rows[k].time \in Int /\ e.time \in Int
    BY <2>3, <1>4
  <2> QED BY <2>1, <2>2, <2>4
<1>6. ASSUME NEW n \in 1 .. k
      PROVE  Later(disk.rows[n], e)
  <2>1. ValidRecord(disk, n) /\ disk.stream # None
    BY <1>1, <1>6 DEF DiskInv, Verifies
  <2>2. disk.rows[n].stream = e.stream /\ disk.rows[n].seq = n /\ n < k + 1
    BY <2>1, <1>1, <1>3, <1>6 DEF ValidRecord
  <2> QED BY <2>2, <1>3, <1>5 DEF Later
<1>7. TimesInOrder(rows)
  <2> HIDE DEF rows
  <2>1. DOMAIN rows = 1 .. (k + 1)
    BY <1>2
  <2> SUFFICES ASSUME NEW m \in 1 .. (k + 1), NEW n \in 1 .. (k + 1), m < n
               PROVE  rows[m].time <= rows[n].time
    BY <2>1 DEF TimesInOrder
  <2>2. m \in 1 .. k /\ rows[m] = disk.rows[m]
    BY <1>1, <1>2
  <2>3. CASE n = k + 1
    BY <2>2, <2>3, <1>2, <1>5
  <2>4. CASE n # k + 1
    <3>1. n \in 1 .. k /\ rows[n] = disk.rows[n]
      BY <2>4, <1>1, <1>2
    <3> QED BY <3>1, <2>2, <1>1 DEF TimesInOrder
  <2> QED BY <2>3, <2>4
<1> QED BY <1>1, <1>6, <1>7 DEF rows

\* The invariant holds at first.
LEMMA JournalInit == Init => JournalInv
<1> SUFFICES ASSUME Init PROVE JournalInv
  OBVIOUS
<1>1. WriterInv
  BY WriterInit
<1>2. disk.rows = <<>> /\ disk.nonce = 0
  BY DEF Init, NoJournal
<1>3. 0 \in Nonces /\ <<>> \in Seq(Events) /\ Len(<<>>) = 0 /\ DOMAIN <<>> = {}
  BY EventJournalAssumption DEF Nonces
<1>4. TimesInOrder(disk.rows)
  BY <1>2, <1>3 DEF TimesInOrder
<1>5. /\ NothingSeen \in [events : Seq(Events), from : Nat, nonce : Nonces, cursor : Cursors \cup {None}]
      /\ NoSession \in [events : Seq(Events), next : Nat \ {0}]
  BY <1>3 DEF NothingSeen, NoSession
<1>6. ReaderOK(NothingSeen, NoSession, disk)
  BY <1>2, <1>3, <1>5 DEF ReaderOK, NothingSeen, NoSession
<1>7. ReaderInv
  BY <1>5, <1>6 DEF ReaderInv, Init
<1> QED BY <1>1, <1>4, <1>7 DEF JournalInv

\* Every step keeps it, and is a step of the stream the journal promises.
LEMMA JournalStep ==
    ASSUME JournalInv, Next
    PROVE  JournalInv' /\ [Stream!Next]_<<disk.rows, disk.snapshot>>
<1>1. WriterInv /\ WriterInv' /\ Grows /\ DiskInv /\ DiskInv' /\ ReaderInv /\ TimesInOrder(disk.rows)
  BY WriterStep DEF JournalInv, WriterInv
<1>2. ASSUME UNCHANGED <<session, seen>> PROVE ReaderInv'
  <2>1. ASSUME NEW r \in Readers PROVE ReaderOK(seen'[r], session'[r], disk')
    <3>1. ReaderOK(seen[r], session[r], disk)
      BY <1>1 DEF ReaderInv
    <3>2. ReaderOK(seen[r], session[r], disk')
      BY <3>1, <1>1, ReaderKept
    <3> QED BY <3>2, <1>2
  <2> QED BY <2>1, <1>1, <1>2 DEF ReaderInv
<1>3. ASSUME UNCHANGED <<disk.rows, disk.snapshot>>
      PROVE  TimesInOrder(disk.rows)' /\ [Stream!Next]_<<disk.rows, disk.snapshot>>
  BY <1>1, <1>3 DEF TimesInOrder
<1>4. CASE Remove
  <2>1. disk'.rows = <<>> /\ disk'.snapshot = None /\ UNCHANGED <<session, seen>>
    BY <1>4 DEF Remove, NoJournal, Reader
  <2>2. TimesInOrder(disk.rows)'
    BY <2>1 DEF TimesInOrder
  <2>3. Stream!Discard
    BY <2>1 DEF Stream!Discard
  <2> QED BY <2>1, <2>2, <2>3, <1>1, <1>2 DEF JournalInv, Stream!Next
<1>5. ASSUME NEW p \in Writers, CreateRoot(p) \/ CreateDatabase(p) \/ Initialize(p)
      PROVE  UNCHANGED <<disk.rows, disk.snapshot, session, seen>>
  BY <1>1, <1>5, OpeningFields DEF DiskInv
<1>6. ASSUME NEW p \in Writers,
             \/ OpenExisting(p) \/ Leave(p)
             \/ \E st \in Streams, durable \in BOOLEAN : NextAppendPosition(p, st, durable)
      PROVE  UNCHANGED <<disk.rows, disk.snapshot, session, seen>>
  BY <1>6 DEF OpenExisting, Leave, NextAppendPosition, Reader
<1>7. ASSUME NEW p \in Writers, AppendAt(p)
      PROVE  JournalInv' /\ [Stream!Next]_<<disk.rows, disk.snapshot>>
  <2>1. PICK e \in Events : disk'.rows = disk.rows \o <<e>> /\ InOrder(e) /\ disk'.snapshot = e.snapshot
    BY <1>1, <1>7, AppendAtKeeps
  <2>2. disk.snapshot = None /\ UNCHANGED <<session, seen>>
    BY <1>1, <1>7, AppendAtKeeps
  <2>3. /\ \A n \in DOMAIN disk.rows : Later(disk.rows[n], e)
        /\ TimesInOrder(disk.rows)'
    BY <2>1, <1>1, TimesKept
  <2>4. /\ disk.rows \in Seq(Events) /\ disk.head.seq = Len(disk.rows)
    BY <1>1 DEF DiskInv, DiskType, Verifies
  <2>5. disk'.rows # <<>> /\ disk'.rows[Len(disk'.rows)] = e /\ disk'.rows = Append(disk.rows, e)
    BY <2>1, <2>4
  <2>6. Started(e) <=> disk.rows = <<>>
    BY <2>1, <2>4 DEF InOrder, Started
  <2>7. IF Ended(e) THEN disk'.snapshot = e.snapshot ELSE disk'.snapshot = None
    BY <2>1 DEF InOrder, ValidEvent, Ended
  <2>8. Stream!Grow(e)
    BY <2>2, <2>3, <2>5, <2>6, <2>7 DEF Stream!Grow
  <2>9. Stream!Next
    BY <2>5, <2>8 DEF Stream!Next
  <2> QED BY <2>2, <2>3, <2>9, <1>1, <1>2 DEF JournalInv
<1>8. ASSUME NEW p \in Writers, AppendStream(p)
      PROVE  JournalInv' /\ [Stream!Next]_<<disk.rows, disk.snapshot>>
  <2>1. disk.rows = <<>> /\ disk.snapshot = None /\ UNCHANGED <<session, seen>>
    BY <1>1, <1>8, AppendStreamKeeps
  <2>2. PICK st \in Streams, drafts \in Drafts :
            /\ disk'.rows = Assigned(st, drafts) /\ disk'.snapshot = st
            /\ CompleteStream(Assigned(st, drafts), st)
            /\ StartsOnce(Assigned(st, drafts)) /\ TimesInOrder(Assigned(st, drafts))
    BY <1>1, <1>8, AppendStreamKeeps
  <2> DEFINE s == Assigned(st, drafts)
  <2>3. \A n \in DOMAIN s : s[n].stream = st /\ s[n].seq = n /\ n \in Nat
    <3>1. /\ DOMAIN s = 1 .. Len(drafts)
          /\ \A n \in 1 .. Len(drafts) :
                s[n] = [type |-> drafts[n].type, stream |-> st, seq |-> n,
                        cursor |-> NextCursor(disk, st, n), durable |-> TRUE, last |-> n,
                        time |-> drafts[n].time,
                        snapshot |-> IF drafts[n].type = "terminal" THEN st ELSE None]
      BY <1>1, AssignedType
    <3> HIDE DEF s
    <3> QED BY <3>1
  <2> HIDE DEF s
  <2>4. /\ s # <<>> /\ s[Len(s)].snapshot = st
        /\ \A n \in DOMAIN s : (Started(s[n]) <=> n = 1) /\ (Ended(s[n]) <=> n = Len(s))
    BY <2>2 DEF CompleteStream, StartsOnce, Started, Ended, s
  <2>5. \A m, n \in DOMAIN s : m < n => Later(s[m], s[n])
    BY <2>2, <2>3 DEF TimesInOrder, Later, s
  <2>6. disk'.rows = s /\ disk'.snapshot = st /\ TimesInOrder(disk.rows)'
    BY <2>2 DEF s
  <2>7. Stream!Record(disk'.rows)
    BY <2>1, <2>4, <2>5, <2>6 DEF Stream!Record, Stream!Empty
  <2>8. Stream!Next
    BY <2>7 DEF Stream!Next
  <2> QED BY <2>1, <2>6, <2>8, <1>1, <1>2 DEF JournalInv
<1>9. ASSUME NEW r \in Readers, OpenReplay(r) \/ \E limit \in 1 .. MAX_PAGE : Page(r, limit)
      PROVE  ReaderInv' /\ UNCHANGED disk
  BY <1>1, <1>9, OpenReplayKeeps, PageKeeps DEF OpenReplay, Page
<1>10. ASSUME UNCHANGED <<disk.rows, disk.snapshot, session, seen>>
       PROVE  JournalInv' /\ [Stream!Next]_<<disk.rows, disk.snapshot>>
  BY <1>1, <1>2, <1>3, <1>10 DEF JournalInv
<1>11. ASSUME ReaderInv', UNCHANGED disk
       PROVE  JournalInv' /\ [Stream!Next]_<<disk.rows, disk.snapshot>>
  BY <1>1, <1>3, <1>11 DEF JournalInv
<1> QED BY <1>4, <1>5, <1>6, <1>7, <1>8, <1>9, <1>10, <1>11 DEF Next

\* A stuttering step keeps everything.
LEMMA JournalStutter ==
    ASSUME JournalInv, UNCHANGED vars
    PROVE  JournalInv' /\ UNCHANGED <<disk.rows, disk.snapshot>>
<1>1. WriterInv'
  BY DEF JournalInv, WriterInv, vars, DiskInv, DiskType, FirstDurable, HandleInv, Connected,
         PositionInv, PublishedInv
<1>2. ReaderInv' /\ TimesInOrder(disk.rows)'
  BY DEF JournalInv, ReaderInv, vars, TimesInOrder
<1> QED BY <1>1, <1>2 DEF JournalInv, vars

LEMMA JournalInvariant == Spec => []JournalInv
<1>1. JournalInv /\ [Next]_vars => JournalInv'
  BY JournalStep, JournalStutter
<1> QED BY <1>1, JournalInit, PTL DEF Spec

-----------------------------------------------------------------------------
(* What follows. *)

\* Every state has the types of the code: handles and cursors of the databases
\* made so far, streams within MAX_EVENTS, and no records in a file that was
\* never initialized.
THEOREM TypeCorrect == Spec => []TypeOK
<1>1. JournalInv => TypeOK
  <2> SUFFICES ASSUME JournalInv PROVE TypeOK
    OBVIOUS
  <2>1. \A r \in Readers : session[r].next <= Len(session[r].events) + 1
    BY DEF JournalInv, ReaderInv, ReaderOK
  <2> QED BY <2>1 DEF JournalInv, WriterInv, DiskInv, DiskType, HandleInv, PositionInv, PublishedInv,
                      ReaderInv, TypeOK
<1> QED BY <1>1, JournalInvariant, PTL

\* verify_database_snapshot accepts whatever the appends have stored.
THEOREM Readable == Spec => []AcceptedIsReadable
<1>1. JournalInv => AcceptedIsReadable
  BY DEF JournalInv, WriterInv, DiskInv, AcceptedIsReadable
<1> QED BY <1>1, JournalInvariant, PTL

\* Once a scan is published, status and cancel answer it or are refused the
\* journal (its lock or the state directory is taken, or full), and a snapshot
\* they answer with closes a complete stream.
THEOREM StatusTrue == Spec => []StatusIsTrue
<1>1. JournalInv => StatusIsTrue
  <2> SUFFICES ASSUME JournalInv PROVE StatusIsTrue
    OBVIOUS
  <2>1. Verifies(disk) /\ (published => disk.state = "ready" /\ disk.snapshot = Own)
        /\ disk.state \in {"none", "dir", "empty", "ready"}
    BY DEF JournalInv, WriterInv, DiskInv, DiskType, PublishedInv
  <2>2. published => \A admitted \in BOOLEAN :
            StatusAnswer(admitted) = IF admitted /\ LockFree THEN "snapshot" ELSE "refused"
    BY <2>1 DEF StatusAnswer
  <2>3. \A admitted \in BOOLEAN : StatusAnswer(admitted) = "snapshot" => disk.snapshot = Own
    BY <2>1 DEF StatusAnswer
  <2>4. disk.snapshot = Own => CompleteStream(disk.rows, Own)
    BY <2>1, EventJournalAssumption DEF Verifies
  <2> QED BY <2>2, <2>3, <2>4 DEF StatusIsTrue
<1> QED BY <1>1, JournalInvariant, PTL

\* A position that still names the next event is accepted.
THEOREM PositionsFit == Spec => []PositionFits
<1>1. JournalInv => PositionFits
  <2> SUFFICES ASSUME JournalInv, position # None, position.durable \/ disk.rows # <<>>,
                      disk.state = "ready", Unfinished, Room,
                      position.cursor.nonce = disk.nonce,
                      position.cursor.seq = disk.head.seq + 1,
                      disk.stream \in {None, position.cursor.stream}
               PROVE  InOrder(EventAt(position, IF disk.rows = <<>> THEN "started" ELSE "progress",
                                      position.durable, LatestTime(disk.rows, disk.head.seq + 1)))
    BY DEF PositionFits
  <2> DEFINE k == disk.head.seq
             type == IF disk.rows = <<>> THEN "started" ELSE "progress"
             time == LatestTime(disk.rows, k + 1)
             e == EventAt(position, type, position.durable, time)
  <2>1. /\ disk.rows \in Seq(Events) /\ k = Len(disk.rows) /\ k \in Nat
        /\ \A n \in DOMAIN disk.rows : ValidRecord(disk, n)
    BY DEF JournalInv, WriterInv, DiskInv, DiskType, Verifies
  <2>2. /\ position \in Positions
        /\ position.last = IF position.durable THEN k + 1 ELSE LastDurable(disk.rows, k + 1)
    BY <2>1 DEF JournalInv, WriterInv, PositionInv
  <2>3. position.cursor = NextCursor(disk, position.cursor.stream, k + 1)
    BY <2>2 DEF Positions, Cursors, NextCursor
  <2>4. ~position.durable => position.last < k + 1
    <3>1. ASSUME ~position.durable
          PROVE  k \in DOMAIN disk.rows /\ position.last = disk.rows[k].last
      BY <3>1, <2>1, <2>2 DEF LastDurable
    <3>2. ASSUME k \in DOMAIN disk.rows PROVE disk.rows[k].last <= k
      <4>1. ValidRecord(disk, k) /\ disk.rows[k] \in Events
        BY <3>2, <2>1
      <4>2. ValidEvent(disk.rows[k]) /\ disk.rows[k].seq = k
        BY <4>1 DEF ValidRecord
      <4>3. disk.rows[k].last \in Nat /\ disk.rows[k].seq \in Nat /\ disk.rows[k].durable \in BOOLEAN
        BY <4>1 DEF Events
      <4> QED BY <4>2, <4>3 DEF ValidEvent
    <3> QED BY <3>1, <3>2, <2>1, <2>2 DEF Positions
  <2>5. time \in Nat
    <3>1. CASE k = 0
      BY <3>1 DEF LatestTime
    <3>2. CASE k # 0
      <4>1. disk.rows[k] \in Events
        BY <2>1, <3>2
      <4>2. disk.rows[k].time \in Nat
        BY <4>1 DEF Events
      <4>3. time = disk.rows[k].time
        BY <2>1, <3>2 DEF LatestTime
      <4> QED BY <4>2, <4>3
    <3> QED BY <3>1, <3>2
  <2>6. /\ e.type = type /\ e.stream = position.cursor.stream /\ e.seq = k + 1
        /\ e.cursor = position.cursor /\ e.durable = position.durable /\ e.last = position.last
        /\ e.time = time /\ e.snapshot = None
    BY DEF EventAt
  <2>7. (k = 0 <=> disk.rows = <<>>) /\ type # "terminal" /\ (type = "started" <=> k = 0)
    BY <2>1
  <2> HIDE DEF e, type, time
  <2>8. ValidEvent(e)
    BY <2>1, <2>2, <2>4, <2>6, <2>7 DEF ValidEvent
  <2>9. /\ e.last = IF e.durable THEN e.seq ELSE LastDurable(disk.rows, e.seq)
        /\ e.time >= LatestTime(disk.rows, e.seq)
        /\ e.cursor = NextCursor(disk, e.stream, e.seq)
    BY <2>2, <2>3, <2>5, <2>6 DEF time
  <2>10. ((e.seq = 1) = (e.type = "started")) /\ (e.seq = 1 => e.durable)
    BY <2>1, <2>6, <2>7
  <2>11. InOrder(e)
    BY <2>6, <2>8, <2>9, <2>10 DEF InOrder
  <2> QED BY <2>11 DEF e, type, time
<1> QED BY <1>1, JournalInvariant, PTL

\* What pages have given a reader is a run of the stream without gap or
\* repetition.
THEOREM ReplayExact == Spec => []ReplayIsExact
<1>1. JournalInv => ReplayIsExact
  <2> SUFFICES ASSUME JournalInv, NEW r \in Readers, seen[r].nonce = disk.nonce
               PROVE  /\ seen[r].from + Len(seen[r].events) <= Len(disk.rows)
                      /\ seen[r].events = SubSeq(disk.rows, seen[r].from + 1,
                                                 seen[r].from + Len(seen[r].events))
    BY DEF ReplayIsExact
  <2>1. PICK h \in [events : Seq(Events), from : Nat, nonce : Nonces, cursor : Cursors \cup {None}],
             s \in [events : Seq(Events), next : Nat \ {0}] : h = seen[r] /\ s = session[r]
    BY DEF JournalInv, ReaderInv
  <2>2. /\ s.next = h.from + Len(h.events) + 1 /\ s.next <= Len(s.events) + 1
        /\ Len(s.events) <= Len(disk.rows)
        /\ \A n \in 1 .. Len(h.events) : h.events[n] = disk.rows[h.from + n]
    BY <2>1 DEF JournalInv, ReaderInv, ReaderOK
  <2>3. disk.rows \in Seq(Events) /\ Len(disk.rows) \in Nat
    BY DEF JournalInv, WriterInv, DiskInv, DiskType
  <2>4. /\ h.events \in Seq(Events) /\ Len(h.events) \in Nat /\ Len(s.events) \in Nat
        /\ h.from \in Nat /\ s.next \in Nat
    OBVIOUS
  <2>5. h.from + Len(h.events) <= Len(disk.rows)
    BY <2>2, <2>3, <2>4
  <2> DEFINE t == SubSeq(disk.rows, h.from + 1, h.from + Len(h.events))
  <2>6. /\ t \in Seq(Events) /\ Len(t) = Len(h.events)
        /\ \A n \in 1 .. Len(t) : t[n] = disk.rows[h.from + n]
    <3>1. PICK a \in Nat, k \in Nat, rows \in Seq(Events) :
              a = h.from /\ k = Len(h.events) /\ rows = disk.rows
      BY <2>3, <2>4
    <3>2. a + k <= Len(rows) /\ t = SubSeq(rows, a + 1, a + k)
      BY <3>1, <2>5
    <3> HIDE DEF t
    <3>3. /\ SubSeq(rows, a + 1, a + k) \in Seq(Events)
          /\ Len(SubSeq(rows, a + 1, a + k)) = k
          /\ \A n \in 1 .. k : SubSeq(rows, a + 1, a + k)[n] = rows[a + n]
      BY <3>2, Slice
    <3> QED BY <3>1, <3>2, <3>3
  <2> HIDE DEF t
  <2>7. h.events = t
    BY <2>2, <2>4, <2>6
  <2> QED BY <2>1, <2>5, <2>7 DEF t
<1> QED BY <1>1, JournalInvariant, PTL

\* The journal, with its files, handles, crashes and removals, implements the
\* stream of EventStream.
THEOREM Implements == Spec => ImplementsStream
<1>1. Init => Stream!Empty
  BY DEF Init, NoJournal, Stream!Empty
<1>2. JournalInv /\ [Next]_vars => [Stream!Next]_<<disk.rows, disk.snapshot>>
  BY JournalStep, JournalStutter
<1> QED BY <1>1, <1>2, JournalInvariant, PTL DEF Spec, ImplementsStream, Stream!Spec
=============================================================================
