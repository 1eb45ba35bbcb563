-------------------------- MODULE JunkSession_proofs --------------------------
(***************************************************************************)
(* That the mailbox of a junk session keeps its budgets exactly, that an   *)
(* operation pause leaves nothing in motion, that the owner sees whole     *)
(* revisions in order with every error counted, that a refresh of what     *)
(* changed misses nothing it was told of, and that what the owner shows    *)
(* after complete revisions is what the disk holds: for any roots,         *)
(* budgets, pauses and number of revisions, and any interleaving of the    *)
(* worker, its listener, the owner and other programs.                     *)
(***************************************************************************)
EXTENDS JunkSessionInv, SequenceTheorems, FunctionTheorems, FiniteSetTheorems, TLAPS

-----------------------------------------------------------------------------
(* Queues: an event goes, an event comes *)

Without(q, r, i) ==
    /\ i \in DOMAIN q /\ Len(r) = Len(q) - 1
    /\ \A j \in 1 .. Len(r) : r[j] = IF j < i THEN q[j] ELSE q[j + 1]

LEMMA RemoveIs ==
    ASSUME NEW S, NEW q \in Seq(S), NEW i \in DOMAIN q
    PROVE  RemoveAt(q, i) \in Seq(S) /\ Without(q, RemoveAt(q, i), i)
<1> DEFINE n == Len(q)
           s == SubSeq(q, 1, i - 1)
           t == SubSeq(q, i + 1, n)
<1>1. n \in Nat /\ DOMAIN q = 1 .. n /\ i \in 1 .. n /\ \A j \in 1 .. n : q[j] \in S
  BY LenProperties, ElementOfSeq
<1>2. /\ s \in Seq(S) /\ Len(s) = i - 1
      /\ \A j \in 1 .. i - 1 : s[j] = q[j]
  <2>1. i - 1 \in Int /\ 1 \in Int /\ \A j \in 1 .. i - 1 : q[j] \in S
    BY <1>1
  <2>2. /\ s \in Seq(S) /\ Len(s) = (IF 1 <= i - 1 THEN (i - 1) - 1 + 1 ELSE 0)
        /\ \A j \in 1 .. (i - 1) - 1 + 1 : s[j] = q[1 + j - 1]
    BY <2>1, SubSeqProperties
  <2> HIDE DEF s
  <2> QED BY <1>1, <2>2
<1>3. /\ t \in Seq(S) /\ Len(t) = n - i
      /\ \A j \in 1 .. n - i : t[j] = q[i + j]
  <2>1. i + 1 \in Int /\ n \in Int /\ \A j \in i + 1 .. n : q[j] \in S
    BY <1>1
  <2>2. /\ t \in Seq(S) /\ Len(t) = (IF i + 1 <= n THEN n - (i + 1) + 1 ELSE 0)
        /\ \A j \in 1 .. n - (i + 1) + 1 : t[j] = q[(i + 1) + j - 1]
    BY <2>1, SubSeqProperties
  <2> HIDE DEF t
  <2>3. Len(t) = n - i /\ n - (i + 1) + 1 = n - i
    BY <1>1, <2>2
  <2>4. \A j \in 1 .. n - i : t[j] = q[(i + 1) + j - 1] /\ (i + 1) + j - 1 = i + j
    BY <1>1, <2>2, <2>3
  <2> QED BY <2>2, <2>3, <2>4
<1> HIDE DEF s, t, n
<1>4. /\ s \o t \in Seq(S) /\ Len(s \o t) = Len(s) + Len(t)
      /\ \A j \in 1 .. Len(s) + Len(t) : (s \o t)[j] = IF j <= Len(s) THEN s[j] ELSE t[j - Len(s)]
  BY <1>2, <1>3, ConcatProperties
<1>5. RemoveAt(q, i) = s \o t
  BY DEF RemoveAt, s, t, n
<1>6. ASSUME NEW j \in 1 .. n - 1
      PROVE  (s \o t)[j] = IF j < i THEN q[j] ELSE q[j + 1]
  <2>1. CASE j < i
    BY <1>1, <1>2, <1>3, <1>4, <2>1
  <2>2. CASE ~(j < i)
    <3>1. j - (i - 1) \in 1 .. n - i /\ i + (j - (i - 1)) = j + 1
      BY <1>1, <2>2
    <3>2. t[j - (i - 1)] = q[j + 1]
      BY <1>3, <3>1
    <3>3. j \in 1 .. Len(s) + Len(t) /\ ~(j <= Len(s)) /\ Len(s) = i - 1
      BY <1>1, <1>2, <1>3, <2>2
    <3>4. (s \o t)[j] = t[j - (i - 1)]
      BY <1>4, <3>3
    <3> QED BY <2>2, <3>2, <3>4
  <2> QED BY <2>1, <2>2
<1>7. Len(s \o t) = n - 1
  BY <1>1, <1>2, <1>3, <1>4
<1> QED BY <1>1, <1>4, <1>5, <1>6, <1>7 DEF Without, n

LEMMA TailIs ==
    ASSUME NEW S, NEW q \in Seq(S), q # <<>>
    PROVE  Tail(q) \in Seq(S) /\ Head(q) = q[1] /\ q[1] \in S /\ Without(q, Tail(q), 1)
<1>1. Tail(q) \in Seq(S) /\ Len(Tail(q)) = Len(q) - 1
      /\ \A i \in 1 .. Len(Tail(q)) : Tail(q)[i] = q[i + 1]
  BY HeadTailProperties
<1>2. Len(q) \in Nat \ {0} /\ DOMAIN q = 1 .. Len(q)
  BY EmptySeq, LenProperties
<1>3. 1 \in DOMAIN q /\ q[1] \in S
  BY <1>2, ElementOfSeq
<1>4. Head(q) = q[1]
  OBVIOUS
<1>5. \A j \in 1 .. Len(Tail(q)) : ~(j < 1)
  OBVIOUS
<1> QED BY <1>1, <1>3, <1>4, <1>5 DEF Without

LEMMA SpotsFinite ==
    ASSUME NEW S, NEW q \in Seq(S), NEW K
    PROVE  /\ IsFiniteSet(Spots(q, K)) /\ Count(q, K) \in Nat
           /\ Spots(q, K) \subseteq 1 .. Len(q) /\ Len(q) \in Nat /\ DOMAIN q = 1 .. Len(q)
<1>1. Len(q) \in Nat /\ DOMAIN q = 1 .. Len(q)
  BY LenProperties
<1>2. Spots(q, K) \in SUBSET (1 .. Len(q))
  BY <1>1 DEF Spots
<1>3. IsFiniteSet(1 .. Len(q))
  BY <1>1, FS_Interval
<1>4. IsFiniteSet(Spots(q, K))
  BY <1>2, <1>3, FS_Subset
<1> QED BY <1>1, <1>2, <1>4, FS_CardinalityType DEF Count

LEMMA CountWithout ==
    ASSUME NEW S, NEW q \in Seq(S), NEW r \in Seq(S), NEW i, Without(q, r, i), NEW K
    PROVE  Count(r, K) = Count(q, K) - (IF q[i].kind \in K THEN 1 ELSE 0)
<1> DEFINE A == Spots(r, K)
           B == Spots(q, K) \ {i}
           f == [j \in A |-> IF j < i THEN j ELSE j + 1]
<1>1. /\ Len(q) \in Nat /\ DOMAIN q = 1 .. Len(q) /\ i \in 1 .. Len(q)
      /\ Len(r) = Len(q) - 1 /\ DOMAIN r = 1 .. Len(r)
      /\ \A j \in 1 .. Len(r) : r[j] = IF j < i THEN q[j] ELSE q[j + 1]
  BY LenProperties DEF Without
<1>2. IsFiniteSet(A) /\ IsFiniteSet(Spots(q, K)) /\ Count(q, K) \in Nat
  BY SpotsFinite
<1>3. \A j : j \in A <=> j \in 1 .. Len(r) /\ r[j].kind \in K
  BY <1>1 DEF Spots
<1>4. \A j : j \in B <=> j \in 1 .. Len(q) /\ j # i /\ q[j].kind \in K
  BY <1>1 DEF Spots
<1> HIDE DEF A, B
<1>5. f \in Bijection(A, B)
  <2>1. ASSUME NEW j \in A PROVE f[j] \in B
    <3>1. CASE j < i
      BY <1>1, <1>3, <1>4, <3>1
    <3>2. CASE ~(j < i)
      BY <1>1, <1>3, <1>4, <3>2
    <3> QED BY <3>1, <3>2
  <2>2. f \in [A -> B]
    BY <2>1
  <2>3. \A j, k \in A : f[j] = f[k] => j = k
    BY <1>1, <1>3
  <2>4. ASSUME NEW k \in B PROVE \E j \in A : f[j] = k
    <3>1. CASE k < i
      <4>1. k \in A
        BY <1>1, <1>3, <1>4, <3>1
      <4> QED BY <3>1, <4>1
    <3>2. CASE ~(k < i)
      <4>1. k - 1 \in A
        <5>1. k \in 1 .. Len(q) /\ k # i /\ q[k].kind \in K
          BY <1>4
        <5>2. k - 1 \in 1 .. Len(r) /\ ~(k - 1 < i) /\ (k - 1) + 1 = k
          BY <1>1, <3>2, <5>1
        <5>3. r[k - 1] = q[k]
          BY <1>1, <5>2
        <5> QED BY <1>3, <5>1, <5>2, <5>3
      <4>2. f[k - 1] = k
        BY <1>1, <1>4, <3>2, <4>1
      <4> QED BY <4>1, <4>2
    <3> QED BY <3>1, <3>2
  <2> HIDE DEF f
  <2> QED BY <2>2, <2>3, <2>4, Fun_IsBij
<1>6. Cardinality(A) = Cardinality(B)
  BY <1>2, <1>5, FS_Bijection DEF ExistsBijection
<1>7. Cardinality(B) = IF i \in Spots(q, K) THEN Cardinality(Spots(q, K)) - 1
                                            ELSE Cardinality(Spots(q, K))
  BY <1>2, FS_RemoveElement DEF B
<1>8. i \in Spots(q, K) <=> q[i].kind \in K
  BY <1>1 DEF Spots
<1> QED BY <1>2, <1>6, <1>7, <1>8 DEF Count, A

LEMMA CountAppend ==
    ASSUME NEW S, NEW q \in Seq(S), NEW e \in S, NEW K
    PROVE  Count(Append(q, e), K) = Count(q, K) + (IF e.kind \in K THEN 1 ELSE 0)
<1> DEFINE r == Append(q, e)
           n == Len(q) + 1
<1>1. /\ Len(q) \in Nat /\ DOMAIN q = 1 .. Len(q) /\ DOMAIN r = 1 .. n
      /\ r[n] = e /\ \A j \in 1 .. Len(q) : r[j] = q[j]
  <2>1. r \in Seq(S) /\ Len(r) = n /\ r[n] = e /\ \A j \in 1 .. Len(q) : r[j] = q[j]
    BY AppendProperties
  <2> QED BY <2>1, LenProperties
<1>2. IsFiniteSet(Spots(q, K)) /\ Count(q, K) \in Nat /\ n \notin Spots(q, K)
  <2>1. IsFiniteSet(Spots(q, K)) /\ Count(q, K) \in Nat /\ Spots(q, K) \subseteq 1 .. Len(q)
    BY SpotsFinite
  <2> QED BY <1>1, <2>1
<1> HIDE DEF r
<1>3. CASE e.kind \in K
  <2>1. Spots(r, K) = Spots(q, K) \cup {n}
    BY <1>1, <1>3 DEF Spots
  <2>2. Cardinality(Spots(q, K) \cup {n}) = Cardinality(Spots(q, K)) + 1
    BY <1>2, FS_AddElement
  <2> QED BY <1>3, <2>1, <2>2 DEF Count, r
<1>4. CASE e.kind \notin K
  <2>1. Spots(r, K) = Spots(q, K)
    BY <1>1, <1>4 DEF Spots
  <2> QED BY <1>2, <1>4, <2>1 DEF Count, r
<1> QED BY <1>3, <1>4

LEMMA CountEmpty == ASSUME NEW K PROVE Count(<<>>, K) = 0
<1>1. Spots(<<>>, K) = {}
  BY DEF Spots
<1> QED BY <1>1, FS_EmptySet DEF Count

LEMMA SumIs ==
    ASSUME NEW S, NEW q \in Seq(S)
    PROVE  /\ SumOf(q) \in Nat /\ Len(q) \in Nat /\ SumOf(<<>>) = 0
           /\ \A e \in S : SumOf(Append(q, e)) = SumOf(q) + Cost(e.kind)
           /\ \A r \in Seq(S), i \in DOMAIN q : Without(q, r, i) =>
                 SumOf(r) = SumOf(q) - Cost(q[i].kind)
<1> DEFINE K == {"base", "current"}
<1>1. Count(q, K) \in Nat /\ Len(q) \in Nat
  BY SpotsFinite
<1>2. ASSUME NEW e \in S PROVE SumOf(Append(q, e)) = SumOf(q) + Cost(e.kind)
  <2>1. Len(Append(q, e)) = Len(q) + 1
    BY AppendProperties
  <2>2. Count(Append(q, e), K) = Count(q, K) + (IF e.kind \in K THEN 1 ELSE 0)
    BY CountAppend
  <2> QED BY <1>1, <2>1, <2>2 DEF SumOf, Cost
<1>3. ASSUME NEW r \in Seq(S), NEW i \in DOMAIN q, Without(q, r, i)
      PROVE  SumOf(r) = SumOf(q) - Cost(q[i].kind)
  <2>1. Len(r) = Len(q) - 1
    BY <1>3 DEF Without
  <2>2. Count(r, K) = Count(q, K) - (IF q[i].kind \in K THEN 1 ELSE 0)
    BY <1>3, CountWithout
  <2> QED BY <1>1, <2>1, <2>2 DEF SumOf, Cost
<1>4. SumOf(<<>>) = 0
  BY CountEmpty, EmptySeq DEF SumOf
<1>5. SumOf(q) \in Nat
  BY <1>1 DEF SumOf
<1> QED BY <1>1, <1>2, <1>3, <1>4, <1>5

-----------------------------------------------------------------------------
(* What the order of a queue keeps *)

LEMMA OrderWithout ==
    ASSUME NEW q \in Seq(Events), NEW r \in Seq(Events), NEW i, Without(q, r, i)
    PROVE  /\ \A rev : AllOf(q, rev) => AllOf(r, rev)
           /\ OneStart(q) => OneStart(r)
           /\ OneStart(q) /\ q[i].kind # "started" => (StartQueued(r) <=> StartQueued(q))
           /\ OneStart(q) /\ i = 1 => ~StartQueued(r)
<1>1. /\ Len(q) \in Nat /\ DOMAIN q = 1 .. Len(q) /\ i \in 1 .. Len(q)
      /\ Len(r) = Len(q) - 1 /\ DOMAIN r = 1 .. Len(r)
      /\ \A j \in 1 .. Len(r) : r[j] = IF j < i THEN q[j] ELSE q[j + 1]
  BY LenProperties DEF Without
<1>2. (q # <<>> <=> Len(q) > 0) /\ (r # <<>> <=> Len(r) > 0)
  BY EmptySeq, LenProperties
<1>3. PICK n \in Nat : n = Len(q)
  BY <1>1
<1>4. ASSUME NEW j \in 1 .. n - 1
      PROVE  j \in DOMAIN q /\ j + 1 \in DOMAIN q /\ (r[j] = q[j] \/ r[j] = q[j + 1])
  BY <1>1, <1>3
<1>5. DOMAIN r = 1 .. n - 1
  BY <1>1, <1>3
<1>6. \A rev : AllOf(q, rev) => AllOf(r, rev)
  BY <1>4, <1>5 DEF AllOf
<1>7. ASSUME OneStart(q), NEW j \in 1 .. n - 1, r[j].kind = "started" PROVE j = 1 /\ j < i
  <2>1. CASE j < i
    <3>1. r[j] = q[j]
      BY <1>1, <1>3, <2>1
    <3> QED BY <1>4, <1>7, <2>1, <3>1 DEF OneStart
  <2>2. CASE ~(j < i)
    <3>1. r[j] = q[j + 1]
      BY <1>1, <1>3, <2>2
    <3>2. j + 1 = 1
      BY <1>4, <1>7, <3>1 DEF OneStart
    <3> QED BY <3>2
  <2> QED BY <2>1, <2>2
<1>8. OneStart(q) => OneStart(r)
  BY <1>5, <1>7 DEF OneStart
<1>9. ASSUME OneStart(q), StartQueued(r) PROVE StartQueued(q) /\ i # 1
  <2>1. 1 \in 1 .. n - 1 /\ r[1].kind = "started"
    BY <1>1, <1>2, <1>3, <1>9 DEF StartQueued
  <2>2. 1 < i
    BY <1>7, <1>9, <2>1
  <2>3. r[1] = q[1]
    BY <1>1, <1>3, <2>1, <2>2
  <2> QED BY <1>1, <1>2, <1>3, <2>1, <2>2, <2>3 DEF StartQueued
<1>10. ASSUME StartQueued(q), q[i].kind # "started" PROVE StartQueued(r)
  <2>1. i # 1 /\ q[1].kind = "started"
    BY <1>10 DEF StartQueued
  <2>2. 1 < i /\ 1 \in 1 .. n - 1
    BY <1>1, <1>3, <2>1
  <2>3. r[1] = q[1]
    BY <1>1, <1>3, <2>2
  <2> QED BY <1>1, <1>2, <1>3, <2>1, <2>2, <2>3 DEF StartQueued
<1> QED BY <1>6, <1>8, <1>9, <1>10

LEMMA OrderAppend ==
    ASSUME NEW q \in Seq(Events), NEW e \in Events
    PROVE  /\ Append(q, e) \in Seq(Events) /\ Append(q, e) # <<>>
           /\ AllOf(q, e.rev) => AllOf(Append(q, e), e.rev)
           /\ OneStart(q) /\ (e.kind # "started" \/ q = <<>>) => OneStart(Append(q, e))
           /\ e.kind # "started" => (StartQueued(Append(q, e)) <=> StartQueued(q))
           /\ e.kind = "started" /\ q = <<>> => StartQueued(Append(q, e))
<1> DEFINE r == Append(q, e)
<1>1. PICK n \in Nat : n = Len(q)
  BY LenProperties
<1>2. /\ r \in Seq(Events) /\ r # <<>> /\ Len(r) = n + 1 /\ r[n + 1] = e
      /\ \A j \in 1 .. n : r[j] = q[j]
  BY <1>1, AppendProperties
<1> HIDE DEF r
<1>3. DOMAIN q = 1 .. n /\ DOMAIN r = 1 .. n + 1 /\ (q # <<>> <=> n > 0)
  BY <1>1, <1>2, LenProperties, EmptySeq
<1>4. \A j \in DOMAIN r : j = n + 1 \/ j \in DOMAIN q
  BY <1>3
<1>5. AllOf(q, e.rev) => AllOf(r, e.rev)
  BY <1>2, <1>3, <1>4 DEF AllOf
<1>6. OneStart(q) /\ (e.kind # "started" \/ q = <<>>) => OneStart(r)
  BY <1>2, <1>3, <1>4 DEF OneStart
<1>7. CASE q = <<>>
  <2>1. r[1] = e
    BY <1>2, <1>3, <1>7
  <2> QED BY <1>2, <1>5, <1>6, <1>7, <2>1 DEF StartQueued, r
<1>8. CASE q # <<>>
  <2>1. r[1] = q[1]
    BY <1>2, <1>3, <1>8
  <2> QED BY <1>2, <1>5, <1>6, <1>8, <2>1 DEF StartQueued, r
<1> QED BY <1>7, <1>8

-----------------------------------------------------------------------------
(* The operations of the mailbox *)

SameRest(f, m) ==
    /\ f.terminal = m.terminal /\ f.job = m.job /\ f.revision = m.revision
    /\ f.idle = m.idle /\ f.closed = m.closed /\ f.exited = m.exited
    /\ f.pauses = m.pauses

\* What removing rows and progress leaves as it was.
Kept(f, m) ==
    /\ SameRest(f, m)
    /\ \A rev : AllOf(m.queue, rev) => AllOf(f.queue, rev)
    /\ OneStart(m.queue) => /\ OneStart(f.queue)
                            /\ StartQueued(f.queue) <=> StartQueued(m.queue)
    /\ Count(f.queue, {"error"}) = Count(m.queue, {"error"})

LEMMA KeptTrans ==
    ASSUME NEW f, NEW g, NEW m, Kept(f, g), Kept(g, m)
    PROVE  Kept(f, m)
BY DEF Kept, SameRest

LEMMA KeptSelf == ASSUME NEW m PROVE Kept(m, m)
BY DEF Kept, SameRest

Bit(progress) == IF progress THEN 1 ELSE 0

LEMMA MailIs ==
    ASSUME NEW m \in Mails
    PROVE  /\ m.queue \in Seq(Events) /\ m.bytes \in Nat /\ m.progress \in BOOLEAN
           /\ m.terminal \in Terminals \cup {None} /\ m.job \in Jobs \cup {None}
           /\ m.revision \in 1 .. MaxRevision /\ m.idle \in BOOLEAN
           /\ m.closed \in BOOLEAN /\ m.exited \in BOOLEAN /\ m.pauses \in 0 .. MAX_PAUSES
           /\ SumOf(m.queue) \in Nat /\ Bit(m.progress) \in Nat
           /\ Accounted(m) <=> /\ m.bytes = SumOf(m.queue) + Bit(m.progress)
                               /\ m.bytes <= MAX_EVENT_BYTES /\ Len(m.queue) <= MAX_EVENTS
<1>1. m.queue \in Seq(Events)
  BY DEF Mails
<1>2. SumOf(m.queue) \in Nat
  BY <1>1, SumIs
<1> QED BY <1>1, <1>2 DEF Mails, Accounted, Bit

\* A mailbox with another queue, byte count and progress.
Changed(m, queue, bytes, progress) ==
    [m EXCEPT !.queue = queue, !.bytes = bytes, !.progress = progress]

LEMMA ChangedIs ==
    ASSUME NEW m \in Mails, NEW queue \in Seq(Events), NEW bytes \in Nat,
           NEW progress \in BOOLEAN
    PROVE  /\ Changed(m, queue, bytes, progress) \in Mails
           /\ Changed(m, queue, bytes, progress).queue = queue
           /\ Changed(m, queue, bytes, progress).bytes = bytes
           /\ Changed(m, queue, bytes, progress).progress = progress
           /\ SameRest(Changed(m, queue, bytes, progress), m)
BY DEF Changed, Mails, SameRest

LEMMA ClearedIs ==
    ASSUME NEW m \in Mails, Accounted(m)
    PROVE  /\ Cleared(m) \in Mails /\ Accounted(Cleared(m)) /\ Kept(Cleared(m), m)
           /\ Cleared(m).queue = m.queue /\ ~Cleared(m).progress
           /\ Cleared(m).bytes = SumOf(m.queue)
<1>0. PICK no \in BOOLEAN : no = FALSE
  OBVIOUS
<1> DEFINE b == SumOf(m.queue)
           f == Changed(m, m.queue, b, no)
<1>1. /\ m.queue \in Seq(Events) /\ m.bytes = b + Bit(m.progress) /\ b \in Nat
      /\ m.bytes \in Nat /\ m.progress \in BOOLEAN
      /\ m.bytes <= MAX_EVENT_BYTES /\ Len(m.queue) <= MAX_EVENTS
  BY MailIs
<1>2. (IF m.progress THEN Less(m.bytes, Cost("progress")) ELSE m.bytes) = b
  BY <1>1 DEF Bit, Less, Cost
<1> HIDE DEF b
<1>3. Cleared(m) = f
  BY <1>0, <1>2 DEF Cleared, Changed, Mails
<1>4. f \in Mails /\ f.queue = m.queue /\ f.bytes = b /\ f.progress = no /\ SameRest(f, m)
  <2>1. m.queue \in Seq(Events) /\ b \in Nat
    BY <1>1
  <2> QED BY <2>1, ChangedIs
<1> HIDE DEF f
<1>5. b <= MAX_EVENT_BYTES
  BY <1>1, JunkSessionAssumption DEF Bit
<1>6. Accounted(f)
  BY <1>0, <1>1, <1>4, <1>5 DEF Accounted, b
<1>7. Kept(f, m)
  BY <1>4 DEF Kept
<1> QED BY <1>0, <1>3, <1>4, <1>6, <1>7 DEF b

LEMMA PushIs ==
    ASSUME NEW m \in Mails, Accounted(m), NEW e \in Events, Room(m, e.kind)
    PROVE  /\ Push(m, e) \in Mails /\ Accounted(Push(m, e)) /\ SameRest(Push(m, e), m)
           /\ Push(m, e).queue = Append(m.queue, e)
<1> DEFINE b == m.bytes + Cost(e.kind)
           q == Append(m.queue, e)
           f == Changed(m, q, b, m.progress)
<1>1. /\ m.queue \in Seq(Events) /\ m.bytes = SumOf(m.queue) + Bit(m.progress)
      /\ m.bytes \in Nat /\ m.progress \in BOOLEAN /\ SumOf(m.queue) \in Nat
      /\ Bit(m.progress) \in Nat
  BY MailIs
<1>2. Len(m.queue) < MAX_EVENTS /\ b <= MAX_EVENT_BYTES
  BY DEF Room
<1>3. Cost(e.kind) \in Nat
  BY DEF Cost
<1>4. q \in Seq(Events) /\ Len(q) = Len(m.queue) + 1 /\ SumOf(q) = SumOf(m.queue) + Cost(e.kind)
  BY <1>1, AppendProperties, SumIs
<1>5. b \in Nat
  BY <1>1, <1>3
<1>6. Push(m, e) = f
  BY DEF Push, Changed, Mails
<1> HIDE DEF q
<1>7. b = SumOf(q) + Bit(m.progress)
  BY <1>1, <1>3, <1>4
<1> HIDE DEF b
<1>8. f \in Mails /\ f.queue = q /\ f.bytes = b /\ f.progress = m.progress /\ SameRest(f, m)
  <2>1. q \in Seq(Events) /\ b \in Nat /\ m.progress \in BOOLEAN
    BY <1>1, <1>4, <1>5
  <2> QED BY <2>1, ChangedIs
<1> HIDE DEF f
<1>9. Len(q) <= MAX_EVENTS
  <2>1. Len(m.queue) \in Nat
    BY <1>1, LenProperties
  <2> QED BY <1>2, <1>4, <2>1, JunkSessionAssumption
<1>10. Accounted(f)
  BY <1>2, <1>7, <1>8, <1>9 DEF Accounted, Bit
<1> QED BY <1>6, <1>8, <1>10 DEF q

\* A mailbox from whose queue an event has been removed.
Shrunk(m, r, c) == [m EXCEPT !.queue = r, !.bytes = Less(@, c)]

LEMMA ShrunkIs ==
    ASSUME NEW m \in Mails, Accounted(m), NEW i \in DOMAIN m.queue,
           NEW r \in Seq(Events), Without(m.queue, r, i), NEW c, c = Cost(m.queue[i].kind)
    PROVE  /\ Shrunk(m, r, c) \in Mails /\ Accounted(Shrunk(m, r, c))
           /\ SameRest(Shrunk(m, r, c), m)
           /\ Shrunk(m, r, c).queue = r /\ Shrunk(m, r, c).progress = m.progress
<1> DEFINE b == Less(m.bytes, c)
           f == Changed(m, r, b, m.progress)
<1>1. /\ m.queue \in Seq(Events) /\ m.bytes = SumOf(m.queue) + Bit(m.progress)
      /\ m.bytes \in Nat /\ m.progress \in BOOLEAN /\ SumOf(m.queue) \in Nat
      /\ Bit(m.progress) \in Nat /\ m.bytes <= MAX_EVENT_BYTES /\ Len(m.queue) <= MAX_EVENTS
  BY MailIs
<1>2. c \in Nat
  BY DEF Cost
<1>3. SumOf(r) = SumOf(m.queue) - c /\ SumOf(r) \in Nat
  <2>1. SumOf(r) \in Nat
    BY SumIs
  <2>2. SumOf(r) = SumOf(m.queue) - Cost(m.queue[i].kind)
    BY <1>1, SumIs
  <2> QED BY <2>1, <2>2
<1>4. Len(r) = Len(m.queue) - 1 /\ Len(m.queue) \in Nat
  BY <1>1, LenProperties DEF Without
<1>5. Shrunk(m, r, c) = f
  BY DEF Shrunk, Changed, Mails
<1>6. b = SumOf(r) + Bit(m.progress) /\ b \in Nat /\ b <= m.bytes
  BY <1>1, <1>2, <1>3 DEF Less
<1> HIDE DEF b
<1>7. f \in Mails /\ f.queue = r /\ f.bytes = b /\ f.progress = m.progress /\ SameRest(f, m)
  <2>1. r \in Seq(Events) /\ b \in Nat /\ m.progress \in BOOLEAN
    BY <1>1, <1>6
  <2> QED BY <2>1, ChangedIs
<1> HIDE DEF f
<1>8. Len(r) <= MAX_EVENTS /\ b <= MAX_EVENT_BYTES
  BY <1>1, <1>4, <1>6, JunkSessionAssumption
<1>9. Accounted(f)
  BY <1>6, <1>7, <1>8 DEF Accounted, Bit
<1> QED BY <1>5, <1>7, <1>9

\* There is a first Base event of a key if there is one.
LEMMA FirstStale ==
    ASSUME NEW q \in Seq(Events), NEW e, \E i \in DOMAIN q : StaleAt(q, e, i)
    PROVE  \E i \in DOMAIN q : StaleAt(q, e, i) /\ \A j \in 1 .. i - 1 : ~StaleAt(q, e, j)
<1> DEFINE S == {i \in DOMAIN q : StaleAt(q, e, i)}
<1>1. DOMAIN q = 1 .. Len(q) /\ Len(q) \in Nat
  BY LenProperties
<1>2. S # {} /\ S \subseteq Nat
  BY <1>1
<1>3. PICK n \in S : \A k \in S : <<k, n>> \notin OpToRel(<, Nat)
  <2> HIDE DEF S
  <2> QED BY <1>2, NatLessThanWellFounded, WFMin
<1>4. n \in 1 .. Len(q) /\ n \in Nat /\ StaleAt(q, e, n)
  BY <1>1, <1>2, <1>3
<1>5. ASSUME NEW j \in 1 .. n - 1, StaleAt(q, e, j) PROVE FALSE
  <2>1. j \in S /\ j \in Nat /\ j < n
    BY <1>1, <1>4, <1>5
  <2> HIDE DEF S
  <2> QED BY <1>3, <1>4, <2>1 DEF OpToRel
<1> QED BY <1>1, <1>4, <1>5

LEMMA SupersedingIs ==
    ASSUME NEW m \in Mails, Accounted(m), NEW e \in Events
    PROVE  /\ Superseding(m, e) \in Mails /\ Accounted(Superseding(m, e))
           /\ Kept(Superseding(m, e), m)
<1> DEFINE q == m.queue
           First(i) == StaleAt(q, e, i) /\ \A j \in 1 .. i - 1 : ~StaleAt(q, e, j)
           first == CHOOSE i \in DOMAIN q : First(i)
           r == RemoveAt(q, first)
           f == Shrunk(m, r, Cost("base"))
<1>1. q \in Seq(Events)
  BY MailIs
<1>2. CASE e.kind \in {"base", "current"} /\ \E i \in DOMAIN q : StaleAt(q, e, i)
  <2>1. \E i \in DOMAIN q : First(i)
    BY <1>1, <1>2, FirstStale
  <2>2. first \in DOMAIN q /\ First(first)
    <3> HIDE DEF First
    <3> QED BY <2>1
  <2>3. Superseding(m, e) = f
    BY <1>2 DEF Superseding, Shrunk
  <2>4. q[first].kind = "base"
    BY <2>2 DEF StaleAt
  <2> HIDE DEF first
  <2>5. r \in Seq(Events) /\ Without(q, r, first)
    BY <1>1, <2>2, RemoveIs
  <2> HIDE DEF r
  <2>6. Cost("base") = Cost(m.queue[first].kind)
    BY <2>4
  <2>7. /\ f \in Mails /\ Accounted(f) /\ SameRest(f, m)
        /\ f.queue = r /\ f.progress = m.progress
    BY <2>2, <2>5, <2>6, ShrunkIs
  <2> HIDE DEF f
  <2>8. /\ \A rev : AllOf(q, rev) => AllOf(r, rev)
        /\ OneStart(q) => OneStart(r) /\ (StartQueued(r) <=> StartQueued(q))
    <3>1. q[first].kind # "started"
      BY <2>4
    <3> QED BY <1>1, <2>5, <3>1, OrderWithout
  <2>9. Count(r, {"error"}) = Count(q, {"error"})
    <3>1. Count(r, {"error"}) = Count(q, {"error"}) - (IF q[first].kind \in {"error"} THEN 1 ELSE 0)
      BY <1>1, <2>5, CountWithout
    <3>2. Count(q, {"error"}) \in Nat /\ q[first].kind \notin {"error"}
      BY <1>1, <2>4, SpotsFinite
    <3> QED BY <3>1, <3>2
  <2>10. Kept(f, m)
    BY <2>7, <2>8, <2>9 DEF Kept
  <2> QED BY <2>3, <2>7, <2>10
<1>3. CASE ~(e.kind \in {"base", "current"} /\ \E i \in DOMAIN q : StaleAt(q, e, i))
  <2>1. Superseding(m, e) = m
    BY <1>3 DEF Superseding
  <2> QED BY <2>1, KeptSelf
<1> QED BY <1>2, <1>3

\* What an event that does not fit at once finds.
Fitted(m, e) ==
    IF Room(Superseding(m, e), e.kind) THEN Superseding(m, e) ELSE Cleared(Superseding(m, e))

LEMMA FittedIs ==
    ASSUME NEW m \in Mails, Accounted(m), NEW e \in Events
    PROVE  Fitted(m, e) \in Mails /\ Accounted(Fitted(m, e)) /\ Kept(Fitted(m, e), m)
<1>1. PICK o : o = Superseding(m, e)
  OBVIOUS
<1>2. o \in Mails /\ Accounted(o) /\ Kept(o, m)
  BY <1>1, SupersedingIs
<1>3. Cleared(o) \in Mails /\ Accounted(Cleared(o)) /\ Kept(Cleared(o), o)
  BY <1>2, ClearedIs
<1>4. Kept(Cleared(o), m)
  BY <1>2, <1>3, KeptTrans
<1>5. Fitted(m, e) = o \/ Fitted(m, e) = Cleared(o)
  BY <1>1 DEF Fitted
<1> QED BY <1>2, <1>3, <1>4, <1>5

LEMMA WorkerIs ==
    ASSUME NEW w \in Workers
    PROVE  /\ w.pc \in Places /\ w.kind \in {"all", "dirs", "changed"} /\ w.extra \in BOOLEAN
           /\ w.changed \in BOOLEAN /\ w.sound \in BOOLEAN /\ w.scope \in SUBSET Dirs
           /\ w.todo \in SUBSET Dirs /\ w.found \in SUBSET Dirs /\ w.at \in Dirs \cup {None}
           /\ w.held \in Events \cup {None} /\ w.errors \in Nat /\ w.partial \in BOOLEAN
           /\ w.fault \in BOOLEAN /\ w.outcome \in Outcomes \cup {None}
BY DEF Workers

LEMMA EventIs ==
    ASSUME NEW r \in 1 .. MaxRevision, NEW kind \in Kinds, NEW d \in Dirs \cup {None},
           kind \in RowKinds <=> d # None
    PROVE  /\ [rev |-> r, kind |-> kind, dir |-> d] \in Events
           /\ \A e \in Events : /\ e.rev \in 1 .. MaxRevision /\ e.kind \in Kinds
                                /\ e.dir \in Dirs \cup {None}
                                /\ e.kind \in RowKinds => e.dir \in Dirs
BY DEF Events

\* An event the worker has put into the queue, or holds.
Queues(f, e, next) ==
    /\ mail' \in Mails /\ SameRest(mail', f) /\ mail'.queue = Append(f.queue, e)
    /\ worker' = next

Holds(e, next) ==
    /\ Kept(mail', mail)
    /\ worker' = [next EXCEPT !.held = e]

LEMMA EmitIs ==
    ASSUME mail \in Mails, Accounted(mail), NEW m \in Mails, Accounted(m), Kept(m, mail),
           NEW kind \in Kinds, NEW d \in Dirs \cup {None}, NEW next \in Workers,
           kind \in RowKinds <=> d # None, EmitFrom(m, kind, d, next)
    PROVE  /\ mail' \in Mails /\ Accounted(mail') /\ SameRest(mail', mail)
           /\ worker' \in Workers
           /\ mail.closed => mail' = mail /\ worker' = [next EXCEPT !.pc = "idle"]
           /\ ~mail.closed =>
                 \E e \in Events : /\ e.kind = kind /\ e.rev = mail.revision /\ e.dir = d
                                   /\ \/ Holds(e, next)
                                      \/ \E f \in Mails : Kept(f, mail) /\ Queues(f, e, next)
<1>1. PICK e : e = [rev |-> mail.revision, kind |-> kind, dir |-> d]
  OBVIOUS
<1>2. e \in Events /\ e.kind = kind /\ e.rev = mail.revision /\ e.dir = d
  <2>1. mail.revision \in 1 .. MaxRevision
    BY MailIs
  <2> QED BY <1>1, <2>1, EventIs
<1>3. PICK f : f = Fitted(m, e)
  OBVIOUS
<1>4. f \in Mails /\ Accounted(f) /\ Kept(f, m)
  BY <1>2, <1>3, FittedIs
<1>5. Kept(f, mail) /\ SameRest(f, mail)
  <2>1. Kept(f, mail)
    BY <1>4, KeptTrans
  <2> QED BY <2>1 DEF Kept
<1>6. IF mail.closed THEN mail' = mail /\ worker' = [next EXCEPT !.pc = "idle"]
      ELSE IF Room(f, kind) THEN mail' = Push(f, e) /\ worker' = next
      ELSE mail' = f /\ worker' = [next EXCEPT !.held = e]
  BY <1>1, <1>3, Zenon DEF EmitFrom, Fitted
<1>7. [next EXCEPT !.pc = "idle"] \in Workers /\ [next EXCEPT !.held = e] \in Workers
  BY <1>2 DEF Workers, Places
<1>8. CASE mail.closed
  BY <1>6, <1>7, <1>8 DEF SameRest
<1>9. CASE ~mail.closed /\ Room(f, kind)
  <2>1. mail' = Push(f, e) /\ worker' = next
    BY <1>6, <1>9
  <2>2. /\ Push(f, e) \in Mails /\ Accounted(Push(f, e)) /\ SameRest(Push(f, e), f)
        /\ Push(f, e).queue = Append(f.queue, e)
    BY <1>2, <1>4, <1>9, PushIs
  <2>3. Accounted(mail')
    BY <2>1, <2>2 DEF Accounted
  <2>4. SameRest(mail', mail)
    BY <1>5, <2>1, <2>2 DEF SameRest
  <2>5. Queues(f, e, next)
    BY <2>1, <2>2 DEF Queues
  <2> QED BY <1>2, <1>4, <1>5, <1>9, <2>1, <2>2, <2>3, <2>4, <2>5
<1>10. CASE ~mail.closed /\ ~Room(f, kind)
  <2>1. mail' = f /\ worker' = [next EXCEPT !.held = e]
    BY <1>6, <1>10
  <2>2. Holds(e, next)
    BY <1>5, <2>1 DEF Holds
  <2> QED BY <1>2, <1>4, <1>5, <1>7, <1>10, <2>1, <2>2
<1> QED BY <1>8, <1>9, <1>10

-----------------------------------------------------------------------------
(* What the steps of run() are to the mailbox: they leave it alone or send *)
(* one event.                                                              *)

Moves ==
    /\ mail' = mail /\ worker' \in Workers
    /\ worker.held = None /\ worker'.held = None
    /\ worker.pc \notin {"idle", "gone", "failed"} /\ worker'.pc \notin {"idle", "gone"}
    /\ worker'.pc = "begin" <=> worker.pc = "begin"
    /\ worker'.errors = worker.errors
    /\ worker.partial => worker'.partial

Speaks(kind, d, next) ==
    /\ \E m \in {mail, Cleared(mail)} : EmitFrom(m, kind, d, next)
    /\ kind \in RowKinds <=> d # None
    /\ worker.held = None /\ next.held = None
    /\ worker.pc \notin {"idle", "gone", "begin", "failed"}
    /\ next.pc \notin {"idle", "gone", "begin"}
    /\ next.errors = worker.errors + (IF kind = "error" THEN 1 ELSE 0)
    /\ worker.partial \/ worker.errors = 0 =>
           next.pc = "failed" \/ next.partial \/ next.errors = 0

Says == \E kind \in Kinds \ {"started"}, d \in Dirs \cup {None}, next \in Workers :
           Speaks(kind, d, next)

\* Begin, as far as the mailbox is concerned.
Starts ==
    /\ worker.pc = "begin" /\ worker.held = None
    /\ \E next \in Workers :
          /\ EmitFrom(mail, "started", None, next)
          /\ next.held = None /\ next.pc \notin {"idle", "gone", "begin", "failed"}
          /\ next.errors = worker.errors /\ next.partial = worker.partial

RestOK == session \in Sessions /\ monitor \in Monitors /\ disk \in Disks /\ past \in Pasts

LEMMA RestIs ==
    ASSUME TypeOK
    PROVE  /\ worker \in Workers /\ RestOK
           /\ session.roots \in SUBSET Dirs /\ session.presented \in SUBSET Dirs
           /\ session.disabled \in BOOLEAN /\ session.warning \in BOOLEAN
           /\ monitor.on \in BOOLEAN /\ monitor.roots \in SUBSET Dirs
           /\ monitor.watched \in SUBSET Dirs /\ monitor.news \in SUBSET Dirs
           /\ monitor.paths \in SUBSET Dirs /\ monitor.full \in BOOLEAN
           /\ monitor.failure \in BOOLEAN /\ monitor.dead \in BOOLEAN
           /\ past.behind \in SUBSET Dirs /\ past.fresh \in SUBSET Dirs
           /\ past.due \in SUBSET Dirs /\ past.gapless \in BOOLEAN
BY DEF TypeOK, RestOK, Sessions, Monitors, Pasts

LEMMA GotoIs ==
    ASSUME worker \in Workers, NEW pc \in Places
    PROVE  /\ Goto(pc) \in Workers /\ Goto(pc).pc = pc /\ Goto(pc).held = worker.held
           /\ Goto(pc).errors = worker.errors /\ Goto(pc).partial = worker.partial
BY DEF Goto, Workers

LEMMA GotoMoves ==
    ASSUME worker \in Workers, NEW pc \in Places \ {"idle", "gone", "begin"},
           worker.held = None, worker.pc \notin {"idle", "gone", "failed", "begin"},
           worker' = Goto(pc), mail' = mail
    PROVE  Moves
<1>1. /\ Goto(pc) \in Workers /\ Goto(pc).pc = pc /\ Goto(pc).held = worker.held
      /\ Goto(pc).errors = worker.errors /\ Goto(pc).partial = worker.partial
  BY GotoIs
<1> QED BY <1>1 DEF Moves

LEMMA ChangedScopeIs ==
    ASSUME TypeOK, ChangedScope PROVE Moves /\ RestOK'
<1>1. worker \in Workers /\ worker.pc = "begin" /\ worker.held = None
  BY DEF TypeOK, ChangedScope, At
<1>2. PICK kind \in {"dirs", "all"}, scope \in SUBSET Dirs, sound \in BOOLEAN :
         worker' = [worker EXCEPT !.kind = kind, !.scope = scope, !.sound = sound]
  <2>1. worker.scope \in SUBSET Dirs /\ past.gapless \in BOOLEAN /\ monitor.paths \in SUBSET Dirs
    BY <1>1, RestIs, WorkerIs
  <2>2. \/ \E kind \in {"dirs", "all"}, scope \in {monitor.paths, {}} :
              worker' = [worker EXCEPT !.kind = kind, !.scope = scope, !.sound = past.gapless]
        \/ worker' = [worker EXCEPT !.kind = "all", !.sound = past.gapless]
    BY DEF ChangedScope
  <2>3. CASE worker' = [worker EXCEPT !.kind = "all", !.sound = past.gapless]
    <3>1. worker' = [worker EXCEPT !.kind = "all", !.scope = worker.scope, !.sound = past.gapless]
      BY <1>1, <2>3 DEF Workers
    <3> QED BY <2>1, <3>1
  <2>4. CASE \E kind \in {"dirs", "all"}, scope \in {monitor.paths, {}} :
                worker' = [worker EXCEPT !.kind = kind, !.scope = scope, !.sound = past.gapless]
    BY <2>1, <2>4
  <2> QED BY <2>2, <2>3, <2>4
<1>3. worker' \in Workers
  BY <1>1, <1>2 DEF Workers
<1>4. /\ worker'.pc = worker.pc /\ worker'.held = worker.held
      /\ worker'.errors = worker.errors /\ worker'.partial = worker.partial
  BY <1>1, <1>2 DEF Workers
<1>5. Moves
  BY <1>1, <1>3, <1>4 DEF Moves, ChangedScope
<1>6. monitor' \in Monitors
  <2>1. monitor' = monitor \/ monitor' = Taken(monitor)
    BY DEF ChangedScope
  <2> QED BY <2>1 DEF TypeOK, Taken, Monitors
<1>7. past' \in Pasts
  <2>1. past' = [past EXCEPT !.due = (past.behind \cap session.roots) \ monitor.news]
    BY DEF ChangedScope
  <2>2. (past.behind \cap session.roots) \ monitor.news \in SUBSET Dirs
    BY RestIs
  <2> QED BY <2>1, <2>2 DEF TypeOK, Pasts
<1> QED BY <1>5, <1>6, <1>7 DEF RestOK, TypeOK, ChangedScope

LEMMA BeginIs ==
    ASSUME TypeOK, Begin PROVE Starts /\ RestOK'
<1>1. worker \in Workers /\ worker.pc = "begin" /\ worker.held = None
  BY DEF TypeOK, Begin, At
<1>2. PICK pc \in {"discover", "fail"} : Emit("started", None, Goto(pc))
  BY DEF Begin
<1>3. /\ Goto(pc) \in Workers /\ Goto(pc).pc = pc /\ Goto(pc).held = worker.held
      /\ Goto(pc).errors = worker.errors /\ Goto(pc).partial = worker.partial
  <2>1. pc \in Places
    BY DEF Places
  <2> QED BY <1>1, <2>1, GotoIs
<1>4. Starts
  BY <1>1, <1>2, <1>3 DEF Starts, Emit
<1>5. past' \in Pasts
  <2>1. past' = past \/ past' = [past EXCEPT !.due = {}]
    BY DEF Begin
  <2> QED BY <2>1 DEF TypeOK, Pasts
<1> QED BY <1>4, <1>5 DEF RestOK, TypeOK, Begin

LEMMA DiscoverIs ==
    ASSUME TypeOK, Discover PROVE Moves /\ RestOK'
<1>1. worker \in Workers /\ worker.pc = "discover" /\ worker.held = None
  BY DEF TypeOK, Discover, At
<1>2. Moves
  <2>1. worker' = Goto("install") /\ mail' = mail /\ "install" \in Places \ {"idle", "gone", "begin"}
    BY DEF Discover, Places
  <2> QED BY <1>1, <2>1, GotoMoves
<1>3. session' \in Sessions
  <2>1. PICK roots \in SUBSET Dirs : session' = [session EXCEPT !.roots = roots]
    BY RestIs DEF Discover, Dirs
  <2> QED BY <2>1 DEF TypeOK, Sessions
<1> QED BY <1>2, <1>3 DEF RestOK, TypeOK, Discover

LEMMA MonitorOffIs == MonitorOff \in Monitors
BY DEF MonitorOff, Monitors

LEMMA PrepareMonitorIs ==
    ASSUME TypeOK, PrepareMonitor PROVE Moves /\ RestOK'
<1>1. worker \in Workers /\ worker.pc = "install" /\ worker.held = None
  BY DEF TypeOK, PrepareMonitor, At
<1>2. Moves
  <2>1. worker' = Goto("warn") /\ mail' = mail /\ "warn" \in Places \ {"idle", "gone", "begin"}
    BY DEF PrepareMonitor, Places
  <2> QED BY <1>1, <2>1, GotoMoves
<1>3. monitor' \in Monitors
  <2>1. \/ monitor' = [MonitorOff EXCEPT !.on = TRUE, !.roots = session.roots, !.full = Rebuilding]
        \/ monitor' = MonitorOff \/ monitor' = monitor
    BY DEF PrepareMonitor
  <2>2. Rebuilding \in BOOLEAN /\ session.roots \in SUBSET Dirs
    BY RestIs DEF Rebuilding
  <2>3. [MonitorOff EXCEPT !.on = TRUE, !.roots = session.roots, !.full = Rebuilding] \in Monitors
    BY <2>2 DEF MonitorOff, Monitors
  <2> QED BY <2>1, <2>3, MonitorOffIs DEF TypeOK
<1>4. session' \in Sessions
  <2>1. session' = session \/ session' = [session EXCEPT !.disabled = TRUE, !.warning = TRUE]
    BY DEF PrepareMonitor
  <2> QED BY <2>1 DEF TypeOK, Sessions
<1>5. disk' \in Disks
  <2>1. disk' = disk \/ disk' = [disk EXCEPT !.moved = FALSE]
    BY DEF PrepareMonitor
  <2> QED BY <2>1 DEF TypeOK, Disks
<1> QED BY <1>2, <1>3, <1>4, <1>5 DEF RestOK, TypeOK, PrepareMonitor

\* A worker whose next place is pc sends an event that is not an error.
LEMMA GotoSays ==
    ASSUME worker \in Workers, NEW pc \in Places \ {"idle", "gone", "begin"},
           worker.held = None, worker.pc \notin {"idle", "gone", "failed", "begin"},
           NEW kind \in Kinds \ {"started", "error"},
           NEW d \in Dirs \cup {None}, kind \in RowKinds <=> d # None, Emit(kind, d, Goto(pc))
    PROVE  Says
<1>1. /\ Goto(pc) \in Workers /\ Goto(pc).pc = pc /\ Goto(pc).held = worker.held
      /\ Goto(pc).errors = worker.errors /\ Goto(pc).partial = worker.partial
      /\ worker.errors \in Nat
  BY GotoIs, WorkerIs
<1>2. Speaks(kind, d, Goto(pc))
  BY <1>1 DEF Speaks, Emit
<1> QED BY <1>1, <1>2 DEF Says

LEMMA WarnIs ==
    ASSUME TypeOK, Warn PROVE (Moves \/ Says) /\ RestOK'
<1>1. worker \in Workers /\ worker.pc = "warn" /\ worker.held = None
  BY DEF TypeOK, Warn, At
<1>2. "traverse" \in Places \ {"idle", "gone", "begin"} /\ "warning" \in Kinds \ {"started", "error"}
      /\ "warning" \notin RowKinds
  BY DEF Places, Kinds, RowKinds
<1>3. session' \in Sessions
  BY DEF TypeOK, Warn, Sessions
<1>4. RestOK'
  BY <1>3 DEF RestOK, TypeOK, Warn
<1>5. CASE session.warning
  <2>1. Emit("warning", None, Goto("traverse"))
    BY <1>5 DEF Warn
  <2>2. Says
    BY <1>1, <1>2, <2>1, GotoSays
  <2> QED BY <2>2, <1>4
<1>6. CASE ~session.warning
  <2>1. worker' = Goto("traverse") /\ mail' = mail
    BY <1>6 DEF Warn
  <2>2. Moves
    BY <1>1, <1>2, <2>1, GotoMoves
  <2> QED BY <2>2, <1>4
<1> QED BY <1>5, <1>6

\* A worker that goes on with its scan.
LEMMA NextMoves ==
    ASSUME NEW w \in Workers, worker.held = None, w.held = None,
           worker.pc \notin {"idle", "gone", "failed", "begin"},
           w.pc \notin {"idle", "gone", "begin"}, w.errors = worker.errors,
           worker.partial => w.partial, worker' = w, mail' = mail
    PROVE  Moves
BY DEF Moves

LEMMA NextSays ==
    ASSUME worker \in Workers, NEW w \in Workers, worker.held = None, w.held = None,
           worker.pc \notin {"idle", "gone", "failed", "begin"},
           w.pc \notin {"idle", "gone", "begin"}, w.errors = worker.errors,
           worker.partial => w.partial, NEW kind \in Kinds \ {"started", "error"},
           NEW d \in Dirs \cup {None}, kind \in RowKinds <=> d # None,
           NEW m \in {mail, Cleared(mail)}, EmitFrom(m, kind, d, w)
    PROVE  Says
<1>1. worker.errors \in Nat
  BY WorkerIs
<1>2. Speaks(kind, d, w)
  BY <1>1 DEF Speaks
<1> QED BY <1>2 DEF Says

LEMMA TraverseIs ==
    ASSUME TypeOK, Traverse PROVE Says /\ RestOK'
<1>1. worker \in Workers /\ worker.pc = "traverse" /\ worker.held = None
  BY DEF TypeOK, Traverse, At
<1> DEFINE w == [worker EXCEPT !.pc = "scan", !.todo = ScopeOf(worker), !.found = {}]
<1>2. ScopeOf(worker) \in SUBSET Dirs
  BY <1>1, RestIs, WorkerIs DEF ScopeOf
<1>3. /\ w \in Workers /\ w.pc = "scan" /\ w.held = worker.held /\ w.errors = worker.errors
      /\ w.partial = worker.partial
  BY <1>1, <1>2 DEF Workers, Places
<1>4. EmitFrom(Cleared(mail), "phase", None, w)
  BY DEF Traverse, EmitPhase
<1> HIDE DEF w
<1>5. Says
  <2>1. "phase" \in Kinds \ {"started", "error"} /\ None \in Dirs \cup {None}
        /\ "phase" \notin RowKinds
    BY DEF Kinds, RowKinds
  <2> QED BY <1>1, <1>3, <1>4, <2>1, NextSays
<1>6. past' \in Pasts
  <2>1. past' = past \/ past' = [past EXCEPT !.fresh = {}]
    BY DEF Traverse
  <2> QED BY <2>1 DEF TypeOK, Pasts
<1> QED BY <1>5, <1>6 DEF RestOK, TypeOK, Traverse

LEMMA OpenDirectoryIs ==
    ASSUME TypeOK, NEW d \in Dirs, OpenDirectory(d) PROVE Moves /\ RestOK'
<1>1. worker \in Workers /\ worker.pc = "scan" /\ worker.held = None
  BY DEF TypeOK, OpenDirectory, At
<1> DEFINE w == [worker EXCEPT !.at = d]
<1>2. /\ w \in Workers /\ w.pc = "scan" /\ w.held = worker.held /\ w.errors = worker.errors
      /\ w.partial = worker.partial
  BY <1>1 DEF Workers
<1>3. worker' = w /\ mail' = mail
  BY DEF OpenDirectory
<1> HIDE DEF w
<1>4. Moves
  BY <1>1, <1>2, <1>3, NextMoves
<1>5. monitor' \in Monitors
  <2>1. \/ monitor' = [monitor EXCEPT !.watched = @ \cup {d}]
        \/ monitor' = FailedMonitor(monitor) \/ monitor' = monitor
    BY DEF OpenDirectory
  <2>2. [monitor EXCEPT !.watched = @ \cup {d}] \in Monitors
    BY DEF TypeOK, Monitors
  <2>3. FailedMonitor(monitor) \in Monitors
    BY DEF TypeOK, Monitors, FailedMonitor, Gap
  <2> QED BY <2>1, <2>2, <2>3 DEF TypeOK
<1> QED BY <1>4, <1>5 DEF RestOK, TypeOK, OpenDirectory

LEMMA ReadDirectoryIs ==
    ASSUME TypeOK, ReadDirectory PROVE (Moves \/ Says) /\ RestOK'
<1>1. worker \in Workers /\ worker.pc = "scan" /\ worker.held = None /\ worker.at \in Dirs
  <2>1. worker \in Workers /\ worker.pc = "scan" /\ worker.held = None /\ worker.at # None
    BY DEF TypeOK, ReadDirectory, At
  <2> QED BY <2>1, WorkerIs
<1> DEFINE read == [worker EXCEPT !.at = None, !.todo = @ \ {worker.at}]
           w == [read EXCEPT !.found = @ \cup {worker.at}]
<1>2. /\ read \in Workers /\ read.pc = "scan" /\ read.held = worker.held
      /\ read.errors = worker.errors /\ read.partial = worker.partial
  <2>1. PICK todo \in SUBSET Dirs : todo = worker.todo \ {worker.at}
    BY <1>1, WorkerIs
  <2>2. read = [worker EXCEPT !.at = None, !.todo = todo]
    BY <2>1
  <2> HIDE DEF read
  <2>3. read \in Workers
    BY <1>1, <2>2 DEF Workers
  <2>4. /\ read.pc = "scan" /\ read.held = worker.held
        /\ read.errors = worker.errors /\ read.partial = worker.partial
    BY <1>1, <2>2 DEF Workers
  <2> QED BY <2>3, <2>4
<1>3. \/ Emit("base", worker.at, w)
      \/ worker' = read /\ mail' = mail /\ session' = session
  BY DEF ReadDirectory
<1>4. session' = session \/ session' = [session EXCEPT !.presented = @ \cup {worker.at}]
  BY DEF ReadDirectory
<1> HIDE DEF read
<1>5. /\ w \in Workers /\ w.pc = "scan" /\ w.held = worker.held
      /\ w.errors = worker.errors /\ w.partial = worker.partial
  <2>1. PICK found \in SUBSET Dirs : found = read.found \cup {worker.at}
    BY <1>1, <1>2, WorkerIs
  <2>2. w = [read EXCEPT !.found = found]
    BY <2>1
  <2> HIDE DEF w
  <2>3. w \in Workers
    BY <1>2, <2>2 DEF Workers
  <2>4. /\ w.pc = "scan" /\ w.held = worker.held
        /\ w.errors = worker.errors /\ w.partial = worker.partial
    BY <1>2, <2>2 DEF Workers
  <2> QED BY <2>3, <2>4
<1> HIDE DEF w
<1>6. session' \in Sessions
  BY <1>1, <1>4 DEF TypeOK, Sessions
<1>7. past' \in Pasts
  <2>1. past' = [past EXCEPT !.fresh = @ \cup {worker.at}]
    BY DEF ReadDirectory
  <2> QED BY <1>1, <2>1 DEF TypeOK, Pasts
<1>8. RestOK'
  BY <1>6, <1>7 DEF RestOK, TypeOK, ReadDirectory
<1>9. CASE Emit("base", worker.at, w)
  <2>1. /\ "base" \in Kinds \ {"started", "error"} /\ worker.at \in Dirs \cup {None}
        /\ "base" \in RowKinds /\ worker.at # None
    BY <1>1, JunkSessionAssumption DEF Kinds, RowKinds
  <2>2. EmitFrom(mail, "base", worker.at, w)
    BY <1>9 DEF Emit
  <2>3. Says
    BY <1>1, <1>5, <2>1, <2>2, NextSays
  <2> QED BY <1>8, <2>3
<1>10. CASE worker' = read /\ mail' = mail
  <2>1. Moves
    BY <1>1, <1>2, <1>10, NextMoves
  <2> QED BY <1>8, <2>1
<1> QED BY <1>3, <1>9, <1>10

LEMMA ReadErrorIs ==
    ASSUME TypeOK, ReadError PROVE Says /\ RestOK'
<1>1. worker \in Workers /\ worker.pc = "scan" /\ worker.held = None /\ worker.errors \in Nat
  BY WorkerIs DEF TypeOK, ReadError, At
<1> DEFINE w == [worker EXCEPT !.at = None, !.todo = @ \ {worker.at},
                               !.errors = @ + 1, !.partial = TRUE]
<1>2. /\ w \in Workers /\ w.pc = "scan" /\ w.held = worker.held
      /\ w.errors = worker.errors + 1 /\ w.partial
  <2>1. PICK todo \in SUBSET Dirs : todo = worker.todo \ {worker.at}
    BY <1>1, WorkerIs
  <2> DEFINE read == [worker EXCEPT !.at = None, !.todo = todo]
  <2>2. w = [read EXCEPT !.errors = worker.errors + 1, !.partial = TRUE]
    BY <2>1
  <2>3. /\ read \in Workers /\ read.pc = "scan" /\ read.held = worker.held
    BY <1>1 DEF Workers
  <2> HIDE DEF read, w
  <2>4. worker.errors + 1 \in Nat
    BY <1>1
  <2>5. w \in Workers
    BY <2>2, <2>3, <2>4 DEF Workers
  <2>6. w.pc = "scan" /\ w.held = worker.held /\ w.errors = worker.errors + 1 /\ w.partial
    BY <2>2, <2>3 DEF Workers
  <2> QED BY <2>5, <2>6
<1>3. EmitFrom(mail, "error", None, w)
  BY DEF ReadError, Emit
<1> HIDE DEF w
<1>4. Speaks("error", None, w)
  BY <1>1, <1>2, <1>3 DEF Speaks, RowKinds
<1>5. "error" \in Kinds \ {"started"}
  BY DEF Kinds
<1>6. Says
  BY <1>2, <1>4, <1>5 DEF Says
<1> QED BY <1>6 DEF RestOK, TypeOK, ReadError

LEMMA ScannedIs ==
    ASSUME TypeOK, Scanned PROVE Moves /\ RestOK'
<1>1. worker \in Workers /\ worker.pc = "scan" /\ worker.held = None
  BY DEF TypeOK, Scanned, At
<1>2. mail' = mail /\ RestOK'
  BY DEF RestOK, TypeOK, Scanned
<1>3. CASE worker' = Goto("fail")
  <2>1. "fail" \in Places \ {"idle", "gone", "begin"}
    BY DEF Places
  <2> QED BY <1>1, <1>2, <1>3, <2>1, GotoMoves
<1>4. CASE worker' = [worker EXCEPT !.pc = "publish", !.todo = worker.found]
  <2> DEFINE w == [worker EXCEPT !.pc = "publish", !.todo = worker.found]
  <2>1. /\ w \in Workers /\ w.pc = "publish" /\ w.held = worker.held
        /\ w.errors = worker.errors /\ w.partial = worker.partial
    BY <1>1 DEF Workers, Places
  <2>2. worker' = w
    BY <1>4
  <2> HIDE DEF w
  <2> QED BY <1>1, <1>2, <2>1, <2>2, NextMoves
<1> QED BY <1>3, <1>4 DEF Scanned

LEMMA PublishIs ==
    ASSUME TypeOK, NEW d \in Dirs, Publish(d) PROVE Says /\ RestOK'
<1>1. worker \in Workers /\ worker.pc = "publish" /\ worker.held = None
  BY DEF TypeOK, Publish, At
<1> DEFINE w == [worker EXCEPT !.todo = @ \ {d}]
<1>2. /\ w \in Workers /\ w.pc = "publish" /\ w.held = worker.held
      /\ w.errors = worker.errors /\ w.partial = worker.partial
  BY <1>1 DEF Workers
<1>3. EmitFrom(mail, "current", d, w)
  BY DEF Publish, Emit
<1> HIDE DEF w
<1>4. /\ "current" \in Kinds \ {"started", "error"} /\ d \in Dirs \cup {None}
      /\ "current" \in RowKinds /\ d # None
  BY JunkSessionAssumption DEF Kinds, RowKinds
<1>5. Says
  BY <1>1, <1>2, <1>3, <1>4, NextSays
<1> QED BY <1>5 DEF RestOK, TypeOK, Publish

LEMMA ReplaceIs ==
    ASSUME TypeOK, Replace PROVE Moves /\ RestOK'
<1>1. worker \in Workers /\ worker.pc = "publish" /\ worker.held = None
  BY DEF TypeOK, Replace, At
<1>2. PICK partial \in BOOLEAN, todo \in SUBSET Dirs :
         /\ worker' = [worker EXCEPT !.pc = "replace", !.partial = partial, !.todo = todo]
         /\ worker.partial => partial
  <2>1. (session.presented \cap Covers(worker)) \ worker.found \in SUBSET Dirs
    BY RestIs
  <2>2. (worker.partial \/ worker.errors > 0) \in BOOLEAN
    OBVIOUS
  <2> QED BY <2>1, <2>2 DEF Replace
<1> DEFINE w == [worker EXCEPT !.pc = "replace", !.partial = partial, !.todo = todo]
<1>3. /\ w \in Workers /\ w.pc = "replace" /\ w.held = worker.held
      /\ w.errors = worker.errors /\ w.partial = partial
  <2>0. "replace" \in Places
    BY DEF Places
  <2>1. w \in Workers
    BY <1>1, <2>0 DEF Workers
  <2>2. w.pc = "replace" /\ w.held = worker.held /\ w.errors = worker.errors /\ w.partial = partial
    BY <1>1 DEF Workers
  <2> QED BY <2>1, <2>2
<1>4. worker' = w /\ mail' = mail
  BY <1>2 DEF Replace
<1> HIDE DEF w
<1>5. Moves
  BY <1>1, <1>2, <1>3, <1>4, NextMoves
<1> QED BY <1>5 DEF RestOK, TypeOK, Replace

LEMMA WithdrawIs ==
    ASSUME TypeOK, NEW d \in Dirs, Withdraw(d) PROVE Says /\ RestOK'
<1>1. worker \in Workers /\ worker.pc = "replace" /\ worker.held = None
  BY DEF TypeOK, Withdraw, At
<1> DEFINE w == [worker EXCEPT !.todo = @ \ {d}]
<1>2. /\ w \in Workers /\ w.pc = "replace" /\ w.held = worker.held
      /\ w.errors = worker.errors /\ w.partial = worker.partial
  BY <1>1 DEF Workers
<1>3. EmitFrom(mail, "removed", d, w)
  BY DEF Withdraw, Emit
<1> HIDE DEF w
<1>4. /\ "removed" \in Kinds \ {"started", "error"} /\ d \in Dirs \cup {None}
      /\ "removed" \in RowKinds /\ d # None
  BY JunkSessionAssumption DEF Kinds, RowKinds
<1>5. Says
  BY <1>1, <1>2, <1>3, <1>4, NextSays
<1>6. session' \in Sessions
  <2>1. session' = session \/ session' = [session EXCEPT !.presented = @ \ {d}]
    BY DEF Withdraw
  <2> QED BY <2>1 DEF TypeOK, Sessions
<1> QED BY <1>5, <1>6 DEF RestOK, TypeOK, Withdraw

LEMMA PassDoneIs ==
    ASSUME TypeOK, PassDone PROVE Moves /\ RestOK'
<1>1. worker \in Workers /\ worker.pc = "replace" /\ worker.held = None
  BY DEF TypeOK, PassDone, At
<1>2. PICK pc \in {"done", "last", "probe"} : worker' = Goto(pc)
  BY DEF PassDone
<1>3. pc \in Places \ {"idle", "gone", "begin"} /\ mail' = mail
  BY DEF Places, PassDone
<1>4. Moves
  BY <1>1, <1>2, <1>3, GotoMoves
<1> QED BY <1>4 DEF RestOK, TypeOK, PassDone

LEMMA ProbeIs ==
    ASSUME TypeOK, Probe PROVE (Moves \/ Says) /\ RestOK'
<1>1. worker \in Workers /\ worker.pc = "probe" /\ worker.held = None
  BY DEF TypeOK, Probe, At
<1>2. session' \in Sessions
  <2>1. session' = session \/ session' = [session EXCEPT !.roots = @ \cup Extras]
    BY DEF Probe
  <2> QED BY <2>1 DEF TypeOK, Sessions, Dirs
<1>3. RestOK'
  BY <1>2 DEF RestOK, TypeOK, Probe
<1>4. {"done", "last"} \subseteq Places \ {"idle", "gone", "begin"}
      /\ "warning" \in Kinds \ {"started", "error"} /\ None \in Dirs \cup {None}
      /\ "warning" \notin RowKinds
  BY DEF Places, Kinds, RowKinds
<1>5. CASE Emit("warning", None, Goto("done"))
  <2>1. Says
    BY <1>1, <1>4, <1>5, GotoSays
  <2> QED BY <1>3, <2>1
<1>6. CASE worker' = Goto("last") /\ mail' = mail
  <2>1. Moves
    BY <1>1, <1>4, <1>6, GotoMoves
  <2> QED BY <1>3, <2>1
<1>7. CASE /\ mail' = mail
           /\ worker' = [worker EXCEPT !.pc = "discover", !.kind = "dirs", !.scope = Extras,
                                       !.extra = TRUE]
  <2> DEFINE w == [worker EXCEPT !.pc = "discover", !.kind = "dirs", !.scope = Extras,
                                 !.extra = TRUE]
  <2>1. /\ w \in Workers /\ w.pc = "discover" /\ w.held = worker.held
        /\ w.errors = worker.errors /\ w.partial = worker.partial
    <3>1. "discover" \in Places /\ Extras \in SUBSET Dirs
      BY DEF Places, Dirs
    <3>2. w \in Workers
      BY <1>1, <3>1 DEF Workers
    <3>3. /\ w.pc = "discover" /\ w.held = worker.held
          /\ w.errors = worker.errors /\ w.partial = worker.partial
      BY <1>1 DEF Workers
    <3> QED BY <3>2, <3>3
  <2>2. worker' = w
    BY <1>7
  <2> HIDE DEF w
  <2>3. Moves
    BY <1>1, <1>7, <2>1, <2>2, NextMoves
  <2> QED BY <1>3, <2>3
<1> QED BY <1>5, <1>6, <1>7 DEF Probe

LEMMA ReportFailureIs ==
    ASSUME TypeOK, ReportFailure PROVE Says /\ RestOK'
<1>1. worker \in Workers /\ worker.pc = "fail" /\ worker.held = None /\ worker.errors \in Nat
  BY WorkerIs DEF TypeOK, ReportFailure, At
<1> DEFINE w == [worker EXCEPT !.pc = "failed", !.errors = @ + 1]
<1>2. /\ w \in Workers /\ w.pc = "failed" /\ w.held = worker.held
      /\ w.errors = worker.errors + 1 /\ w.partial = worker.partial
  <2>1. worker.errors + 1 \in Nat /\ "failed" \in Places
    BY <1>1 DEF Places
  <2>2. w \in Workers
    BY <1>1, <2>1 DEF Workers
  <2>3. /\ w.pc = "failed" /\ w.held = worker.held /\ w.partial = worker.partial
        /\ w.errors = worker.errors + 1
    BY <1>1 DEF Workers
  <2> QED BY <2>2, <2>3
<1>3. EmitFrom(mail, "error", None, w)
  BY DEF ReportFailure, Emit
<1> HIDE DEF w
<1>4. Speaks("error", None, w)
  BY <1>1, <1>2, <1>3 DEF Speaks, RowKinds
<1>5. "error" \in Kinds \ {"started"}
  BY DEF Kinds
<1>6. Says
  BY <1>2, <1>4, <1>5 DEF Says
<1> QED BY <1>6 DEF RestOK, TypeOK, ReportFailure

LEMMA BreaksIs ==
    ASSUME TypeOK, Breaks PROVE Moves /\ RestOK'
<1>1. worker \in Workers /\ worker.held = None
      /\ worker.pc \in {"discover", "traverse", "publish", "scan"}
  BY DEF TypeOK, Breaks, At
<1>2. worker' = Goto("fail") /\ mail' = mail /\ "fail" \in Places \ {"idle", "gone", "begin"}
  BY DEF Breaks, Fail, Places
<1>3. Moves
  BY <1>1, <1>2, GotoMoves
<1> QED BY <1>3 DEF RestOK, TypeOK, Breaks, Fail

LEMMA RunIs ==
    ASSUME TypeOK, Run
    PROVE  /\ Moves \/ Says \/ Starts
           /\ RestOK' /\ UNCHANGED <<cancelled, canceller, view>>
<1>1. UNCHANGED <<cancelled, canceller, view>>
  BY DEF Run
<1>2. \/ ChangedScope \/ Begin \/ Discover \/ PrepareMonitor \/ Warn
      \/ Traverse \/ ReadDirectory \/ ReadError \/ Scanned \/ Replace
      \/ PassDone \/ Probe \/ ReportFailure \/ Breaks
      \/ \E d \in Dirs : OpenDirectory(d) \/ Publish(d) \/ Withdraw(d)
  BY DEF Run
<1>3. (Moves \/ Says \/ Starts) /\ RestOK'
  BY <1>2, ChangedScopeIs, BeginIs, DiscoverIs, PrepareMonitorIs, WarnIs, TraverseIs,
     ReadDirectoryIs, ReadErrorIs, ScannedIs, ReplaceIs, PassDoneIs, ProbeIs,
     ReportFailureIs, BreaksIs, OpenDirectoryIs, PublishIs, WithdrawIs
<1> QED BY <1>1, <1>3

-----------------------------------------------------------------------------
(* Each class of steps keeps the invariant. *)

\* IInv without the types, and without the history of the monitor.
Order == /\ Accounted(mail) /\ ClosedInv /\ QuietInv
         /\ ~mail.closed => StageInv /\ ErrorInv
         /\ ToldInv

LEMMA OrderIs ==
    ASSUME IInv
    PROVE  /\ Order /\ mail \in Mails /\ worker \in Workers /\ view \in Views
           /\ view.rev \in Nat /\ view.done \in BOOLEAN /\ view.errors \in Nat
           /\ view.counted \in Nat
BY DEF IInv, Order, TypeOK, Views

\* While the worker is between two steps of run().
LEMMA BusyIs ==
    ASSUME IInv, worker.pc \notin {"idle", "gone"}
    PROVE  /\ ~mail.idle /\ mail.job = None /\ mail.terminal = None /\ ~Ended
           /\ ~(mail.pauses > 0) /\ (Unstarted <=> worker.pc = "begin")
BY DEF IInv, QuietInv, Ended, Unstarted

LEMMA MovesKeep ==
    ASSUME IInv, Moves, view' = view
    PROVE  Order'
<1>1. /\ mail' = mail /\ worker.held = None /\ worker'.held = None
      /\ worker.pc \notin {"idle", "gone", "failed"} /\ worker'.pc \notin {"idle", "gone"}
      /\ worker'.pc = "begin" <=> worker.pc = "begin"
      /\ worker'.errors = worker.errors /\ (worker.partial => worker'.partial)
  BY DEF Moves
<1>2. Order
  BY OrderIs
<1>3. /\ ~mail.idle /\ mail.job = None /\ mail.terminal = None /\ ~Ended
      /\ ~(mail.pauses > 0) /\ (Unstarted <=> worker.pc = "begin")
  BY <1>1, BusyIs
<1>4. (Unstarted <=> Unstarted') /\ ~Ended'
  BY <1>1, <1>3 DEF Unstarted, Ended
<1>5. Accounted(mail)' /\ ToldInv'
  BY <1>1, <1>2 DEF Order, Accounted, ToldInv
<1>6. ClosedInv'
  BY <1>1, <1>2 DEF Order, ClosedInv, Drained
<1>7. QuietInv'
  BY <1>1, <1>3 DEF QuietInv
<1>8. StageInv => StageInv'
  BY <1>1, <1>3, <1>4 DEF StageInv, Drained
<1>9. ErrorInv => ErrorInv'
  <2>1. Coming(mail, worker)' = Coming(mail, worker)
    BY <1>1 DEF Coming
  <2> QED BY <1>1, <1>3, <1>4, <2>1 DEF ErrorInv
<1> QED BY <1>1, <1>2, <1>5, <1>6, <1>7, <1>8, <1>9 DEF Order

\* A worker sends an event of the current revision that is not its Started.
LEMMA SaysKeep ==
    ASSUME IInv, Says, view' = view
    PROVE  Order' /\ mail' \in Mails /\ worker' \in Workers
<1>1. PICK kind \in Kinds \ {"started"}, d \in Dirs \cup {None}, next \in Workers :
         Speaks(kind, d, next)
  BY DEF Says
<1>2. PICK m \in {mail, Cleared(mail)} : EmitFrom(m, kind, d, next)
  BY <1>1 DEF Speaks
<1>3. /\ worker.held = None /\ next.held = None
      /\ worker.pc \notin {"idle", "gone", "begin", "failed"}
      /\ next.pc \notin {"idle", "gone", "begin"}
      /\ next.errors = worker.errors + (IF kind = "error" THEN 1 ELSE 0)
      /\ worker.partial \/ worker.errors = 0 =>
             next.pc = "failed" \/ next.partial \/ next.errors = 0
      /\ kind \in RowKinds <=> d # None
  BY <1>1 DEF Speaks
<1>4. Order /\ mail \in Mails /\ Accounted(mail) /\ worker.errors \in Nat
  BY OrderIs, WorkerIs DEF Order
<1>5. m \in Mails /\ Accounted(m) /\ Kept(m, mail)
  BY <1>2, <1>4, ClearedIs, KeptSelf
<1>6. /\ mail' \in Mails /\ Accounted(mail') /\ SameRest(mail', mail)
      /\ worker' \in Workers
      /\ mail.closed => mail' = mail /\ worker' = [next EXCEPT !.pc = "idle"]
      /\ ~mail.closed =>
            \E e \in Events : /\ e.kind = kind /\ e.rev = mail.revision /\ e.dir = d
                              /\ \/ Holds(e, next)
                                 \/ \E f \in Mails : Kept(f, mail) /\ Queues(f, e, next)
  BY <1>2, <1>3, <1>4, <1>5, EmitIs
<1>7. /\ ~mail.idle /\ mail.job = None /\ mail.terminal = None /\ ~Ended
      /\ ~(mail.pauses > 0) /\ (Unstarted <=> worker.pc = "begin")
  BY <1>3, BusyIs
<1>8. /\ ~mail'.idle /\ mail'.job = None /\ mail'.terminal = None /\ ~Ended'
      /\ ~(mail'.pauses > 0) /\ mail'.revision = mail.revision /\ mail'.closed = mail.closed
  BY <1>6, <1>7 DEF SameRest, Ended
<1>9. ToldInv' /\ Accounted(mail)'
  BY <1>4, <1>6 DEF Order, ToldInv, Accounted
<1>10. CASE mail.closed
  <2>1. mail' = mail /\ worker'.pc = "idle" /\ worker'.held = None
    BY <1>3, <1>6, <1>10 DEF Workers
  <2>2. ClosedInv'
    BY <1>4, <2>1 DEF Order, ClosedInv, Drained
  <2>3. QuietInv'
    BY <1>7, <1>10, <2>1 DEF QuietInv
  <2> QED BY <1>6, <1>8, <1>9, <1>10, <2>2, <2>3 DEF Order
<1>11. CASE ~mail.closed
  <2>1. PICK e \in Events : /\ e.kind = kind /\ e.rev = mail.revision /\ e.dir = d
                            /\ \/ Holds(e, next)
                               \/ \E f \in Mails : Kept(f, mail) /\ Queues(f, e, next)
    BY <1>6, <1>11
  <2>2. StageInv /\ ErrorInv
    BY <1>4, <1>11 DEF Order
  <2>3. worker.errors = (IF StartQueued(mail.queue) THEN 0 ELSE view.errors) + Coming(mail, worker)
    BY <1>3, <1>7, <2>2 DEF ErrorInv
  <2>4. Coming(mail, worker) = Count(mail.queue, {"error"}) /\ Count(mail.queue, {"error"}) \in Nat
    <3>1. mail.queue \in Seq(Events)
      BY <1>4, MailIs
    <3>2. Count(mail.queue, {"error"}) \in Nat
      BY <3>1, SpotsFinite
    <3> QED BY <1>3, <3>2 DEF Coming
  <2>5. /\ OneStart(mail.queue) /\ AllOf(mail.queue, mail.revision)
        /\ view.done <=> StartQueued(mail.queue)
        /\ view.rev = IF StartQueued(mail.queue) THEN mail.revision - 1 ELSE mail.revision
    BY <1>3, <1>7, <2>2 DEF StageInv
  <2>6. worker.partial \/ worker.errors = 0 \/ worker.pc = "failed"
    BY <1>3, <2>2 DEF ErrorInv
  <2>7. e.kind # "started" /\ e \in Events /\ e # None
    BY <1>1, <2>1, AbsenceAssumption
  <2>8. /\ worker'.pc = next.pc /\ worker'.errors = next.errors /\ worker'.partial = next.partial
        /\ worker'.held \in {None, e}
        /\ OneStart(mail'.queue) /\ AllOf(mail'.queue, mail.revision)
        /\ StartQueued(mail'.queue) <=> StartQueued(mail.queue)
        /\ Coming(mail', worker') = Coming(mail, worker) + (IF kind = "error" THEN 1 ELSE 0)
    <3>1. CASE Holds(e, next)
      <4>1. Kept(mail', mail) /\ worker' = [next EXCEPT !.held = e]
        BY <3>1 DEF Holds
      <4>2. /\ worker'.pc = next.pc /\ worker'.errors = next.errors
            /\ worker'.partial = next.partial /\ worker'.held = e
        BY <4>1 DEF Workers
      <4>3. Count(mail'.queue, {"error"}) = Count(mail.queue, {"error"})
        BY <4>1 DEF Kept
      <4>4. Coming(mail', worker') = Coming(mail, worker) + (IF kind = "error" THEN 1 ELSE 0)
        BY <2>1, <2>4, <2>7, <4>2, <4>3 DEF Coming
      <4>5. /\ OneStart(mail'.queue) /\ AllOf(mail'.queue, mail.revision)
            /\ StartQueued(mail'.queue) <=> StartQueued(mail.queue)
        BY <2>5, <4>1 DEF Kept
      <4> QED BY <4>2, <4>4, <4>5
    <3>2. CASE \E f \in Mails : Kept(f, mail) /\ Queues(f, e, next)
      <4>1. PICK f \in Mails : Kept(f, mail) /\ Queues(f, e, next)
        BY <3>2
      <4>2. mail'.queue = Append(f.queue, e) /\ worker' = next /\ f.queue \in Seq(Events)
        BY <4>1, MailIs DEF Queues
      <4>3. /\ OneStart(f.queue) /\ AllOf(f.queue, mail.revision)
            /\ StartQueued(f.queue) <=> StartQueued(mail.queue)
            /\ Count(f.queue, {"error"}) = Count(mail.queue, {"error"})
        BY <2>5, <4>1 DEF Kept
      <4>4. /\ OneStart(mail'.queue) /\ AllOf(mail'.queue, mail.revision)
            /\ StartQueued(mail'.queue) <=> StartQueued(mail.queue)
        BY <2>1, <2>7, <4>2, <4>3, OrderAppend
      <4>5. Count(mail'.queue, {"error"}) = Count(mail.queue, {"error"})
                                              + (IF e.kind \in {"error"} THEN 1 ELSE 0)
        BY <4>2, <4>3, CountAppend
      <4>6. Coming(mail', worker') = Coming(mail, worker) + (IF kind = "error" THEN 1 ELSE 0)
        BY <1>3, <2>1, <2>4, <4>2, <4>5 DEF Coming
      <4> QED BY <1>3, <4>2, <4>4, <4>6
    <3> QED BY <2>1, <3>1, <3>2
  <2>9. ~Unstarted' /\ ~Unstarted
    BY <1>3, <1>7, <1>8, <2>8 DEF Unstarted
  <2>10. StageInv'
    BY <1>7, <1>8, <2>1, <2>5, <2>7, <2>8, <2>9 DEF StageInv
  <2>11. ErrorInv'
    <3>1. worker'.pc \in {"failed", "idle", "gone"} \/ worker'.partial \/ worker'.errors = 0
      BY <1>3, <2>6, <2>8
    <3>2. Coming(mail, worker)' = Coming(mail', worker')
      BY DEF Coming
    <3>3. worker'.errors = (IF StartQueued(mail'.queue) THEN 0 ELSE view.errors)
                               + Coming(mail', worker')
      <4>1. view.errors \in Nat
        BY OrderIs
      <4> QED BY <1>3, <1>4, <2>3, <2>4, <2>8, <4>1
    <3> QED BY <1>3, <1>8, <2>8, <3>1, <3>2, <3>3 DEF ErrorInv
  <2>12. ClosedInv' /\ QuietInv'
    BY <1>3, <1>8, <1>11, <2>8 DEF ClosedInv, QuietInv
  <2> QED BY <1>6, <1>8, <1>9, <2>10, <2>11, <2>12 DEF Order
<1> QED BY <1>10, <1>11

\* The Started of a revision finds the mailbox empty: it is never held.
LEMMA StartsKeep ==
    ASSUME IInv, Starts, view' = view
    PROVE  Order' /\ mail' \in Mails /\ worker' \in Workers
<1>1. PICK next \in Workers :
         /\ EmitFrom(mail, "started", None, next)
         /\ next.held = None /\ next.pc \notin {"idle", "gone", "begin", "failed"}
         /\ next.errors = worker.errors /\ next.partial = worker.partial
  BY DEF Starts
<1>2. worker.pc = "begin" /\ worker.held = None
  BY DEF Starts
<1>3. Order /\ mail \in Mails /\ Accounted(mail) /\ worker.errors \in Nat
  BY OrderIs, WorkerIs DEF Order
<1>4. /\ mail' \in Mails /\ Accounted(mail') /\ SameRest(mail', mail)
      /\ worker' \in Workers
      /\ mail.closed => mail' = mail /\ worker' = [next EXCEPT !.pc = "idle"]
      /\ ~mail.closed =>
            \E e \in Events : /\ e.kind = "started" /\ e.rev = mail.revision /\ e.dir = None
                              /\ \/ Holds(e, next)
                                 \/ \E f \in Mails : Kept(f, mail) /\ Queues(f, e, next)
  <2>1. "started" \in Kinds /\ None \in Dirs \cup {None} /\ "started" \notin RowKinds
    BY DEF Kinds, RowKinds
  <2> QED BY <1>1, <1>3, <2>1, KeptSelf, EmitIs
<1>5. /\ ~mail.idle /\ mail.job = None /\ mail.terminal = None /\ ~Ended
      /\ ~(mail.pauses > 0) /\ Unstarted
  BY <1>2, BusyIs
<1>6. /\ ~mail'.idle /\ mail'.job = None /\ mail'.terminal = None /\ ~Ended'
      /\ ~(mail'.pauses > 0) /\ mail'.revision = mail.revision /\ mail'.closed = mail.closed
  BY <1>4, <1>5 DEF SameRest, Ended
<1>7. ToldInv' /\ Accounted(mail)'
  BY <1>3, <1>4 DEF Order, ToldInv, Accounted
<1>8. CASE mail.closed
  <2>1. mail' = mail /\ worker'.pc = "idle" /\ worker'.held = None
    BY <1>1, <1>4, <1>8 DEF Workers
  <2>2. ClosedInv'
    BY <1>3, <2>1 DEF Order, ClosedInv, Drained
  <2>3. QuietInv'
    BY <1>5, <1>8, <2>1 DEF QuietInv
  <2> QED BY <1>4, <1>6, <1>7, <1>8, <2>2, <2>3 DEF Order
<1>9. CASE ~mail.closed
  <2>1. StageInv /\ ErrorInv
    BY <1>3, <1>9 DEF Order
  <2>2. /\ mail.queue = <<>> /\ ~mail.progress /\ view.done
        /\ view.rev = mail.revision - 1 /\ worker.errors = 0
    BY <1>2, <1>5, <2>1 DEF StageInv, ErrorInv, Drained
  <2>3. mail' = Push(mail, [rev |-> mail.revision, kind |-> "started", dir |-> None])
        /\ worker' = next
    <3> DEFINE e == [rev |-> mail.revision, kind |-> "started", dir |-> None]
    <3>1. Superseding(mail, e) = mail
      BY DEF Superseding
    <3>2. Room(mail, "started")
      <4>1. Len(mail.queue) = 0 /\ mail.bytes = 0
        <5>1. SumOf(mail.queue) = 0
          BY <2>2, CountEmpty, EmptySeq DEF SumOf
        <5>2. mail.bytes = SumOf(mail.queue) + Bit(mail.progress) /\ Bit(mail.progress) = 0
          BY <1>3, <2>2, MailIs DEF Bit
        <5> QED BY <2>2, <5>1, <5>2, EmptySeq
      <4> QED BY <4>1, JunkSessionAssumption DEF Room, Cost
    <3>3. IF mail.closed THEN TRUE
          ELSE IF Room(Fitted(mail, e), "started") THEN mail' = Push(Fitted(mail, e), e) /\ worker' = next
          ELSE mail' = Fitted(mail, e) /\ worker' = [next EXCEPT !.held = e]
      BY <1>1, Zenon DEF EmitFrom, Fitted
    <3>4. Fitted(mail, e) = mail
      BY <3>1, <3>2 DEF Fitted
    <3> HIDE DEF e
    <3>5. mail' = Push(mail, e) /\ worker' = next
      BY <1>9, <3>2, <3>3, <3>4
    <3> QED BY <3>5 DEF e
  <2>4. PICK e \in Events : e.kind = "started" /\ e.rev = mail.revision /\ mail' = Push(mail, e)
    <3> DEFINE e == [rev |-> mail.revision, kind |-> "started", dir |-> None]
    <3>1. mail.revision \in 1 .. MaxRevision /\ "started" \in Kinds /\ "started" \notin RowKinds
      BY <1>3, MailIs DEF Kinds, RowKinds
    <3>2. e \in Events /\ e.kind = "started" /\ e.rev = mail.revision
      BY <3>1, EventIs
    <3> QED BY <2>3, <3>2
  <2>5. mail'.queue = Append(<<>>, e) /\ mail.queue \in Seq(Events)
    <3>1. mail'.queue = Append(mail.queue, e)
      BY <1>3, <2>4 DEF Push, Mails
    <3> QED BY <1>3, <2>2, <3>1, MailIs
  <2>6. OneStart(mail'.queue) /\ AllOf(mail'.queue, mail.revision) /\ StartQueued(mail'.queue)
    <3>1. OneStart(<<>>) /\ AllOf(<<>>, e.rev)
      BY DEF OneStart, AllOf
    <3>2. <<>> \in Seq(Events)
      BY <2>2, <2>5
    <3> QED BY <2>4, <2>5, <3>1, <3>2, OrderAppend
  <2>7. worker'.held = None /\ worker'.errors = 0 /\ worker'.pc = next.pc
    BY <1>1, <2>2, <2>3
  <2>8. Coming(mail, worker)' = 0
    <3>1. Count(mail'.queue, {"error"}) = Count(<<>>, {"error"}) + (IF e.kind \in {"error"} THEN 1 ELSE 0)
      <4>1. <<>> \in Seq(Events)
        BY <2>2, <2>5
      <4>2. PICK q \in Seq(Events) : q = <<>>
        BY <4>1
      <4>3. Count(Append(q, e), {"error"}) = Count(q, {"error"}) + (IF e.kind \in {"error"} THEN 1 ELSE 0)
        BY CountAppend
      <4> QED BY <2>5, <4>2, <4>3
    <3>2. Count(mail'.queue, {"error"}) = 0
      BY <2>4, <3>1, CountEmpty
    <3> QED BY <2>7, <3>2 DEF Coming
  <2>9. ~Unstarted'
    BY <1>1, <1>6, <2>7 DEF Unstarted
  <2>10. StageInv'
    BY <1>6, <2>2, <2>6, <2>7, <2>9 DEF StageInv
  <2>11. ErrorInv'
    BY <1>1, <1>6, <2>6, <2>7, <2>8 DEF ErrorInv
  <2>12. ClosedInv' /\ QuietInv'
    BY <1>1, <1>6, <1>9, <2>7 DEF ClosedInv, QuietInv
  <2> QED BY <1>4, <1>6, <1>7, <2>10, <2>11, <2>12 DEF Order
<1> QED BY <1>8, <1>9

LEMMA FinishKeeps ==
    ASSUME IInv, NEW outcome \in Outcomes, Finish(outcome),
           worker.held = None, worker.pc \notin {"idle", "gone", "begin"},
           outcome = "complete" => ~worker.partial /\ worker.pc # "failed"
    PROVE  Order' /\ mail' \in Mails /\ worker' \in Workers /\ past' \in Pasts
<1>1. Order /\ mail \in Mails /\ worker \in Workers /\ worker.errors \in Nat
      /\ Accounted(mail) /\ mail.revision \in 1 .. MaxRevision
  BY OrderIs, WorkerIs, MailIs DEF Order
<1>2. /\ ~mail.idle /\ mail.job = None /\ mail.terminal = None /\ ~Ended
      /\ ~(mail.pauses > 0) /\ ~Unstarted
  BY BusyIs
<1>3. PICK t : t = [rev |-> mail.revision, outcome |-> outcome, errors |-> worker.errors]
  OBVIOUS
<1>4. t \in Terminals /\ t.rev = mail.revision /\ t.outcome = outcome
      /\ t.errors = worker.errors /\ t # None
  BY <1>1, <1>3, AbsenceAssumption DEF Terminals
<1>5. worker' = [worker EXCEPT !.pc = "idle", !.outcome = outcome] /\ view' = view
  BY DEF Finish
<1>6. /\ worker' \in Workers /\ worker'.pc = "idle" /\ worker'.held = None
      /\ worker'.errors = worker.errors
  BY <1>1, <1>5 DEF Workers, Places
<1>7. past' \in Pasts
  <2>1. PICK full \in BOOLEAN : past' = IF outcome = "complete"
               THEN [past EXCEPT !.behind = @ \ past.fresh,
                                 !.due = @ \ past.fresh,
                                 !.gapless = @ \/ full]
               ELSE [past EXCEPT !.gapless = FALSE]
    BY DEF Finish
  <2>2. past \in Pasts
    BY DEF IInv, TypeOK
  <2> QED BY <2>1, <2>2 DEF Pasts
<1>8. ToldInv'
  BY <1>1, <1>5 DEF Order, ToldInv
<1>9. CASE mail.closed
  <2>1. mail' = mail
    BY <1>9 DEF Finish
  <2>2. ClosedInv' /\ Accounted(mail)'
    BY <1>1, <1>5, <1>6, <2>1 DEF Order, ClosedInv, Drained, Accounted
  <2>3. QuietInv'
    BY <1>2, <1>6, <1>9, <2>1 DEF QuietInv
  <2> QED BY <1>1, <1>6, <1>7, <1>8, <1>9, <2>1, <2>2, <2>3 DEF Order
<1>10. CASE ~mail.closed
  <2>1. mail' = [mail EXCEPT !.idle = TRUE, !.terminal = t]
    BY <1>3, <1>10 DEF Finish
  <2>2. /\ mail' \in Mails /\ mail'.queue = mail.queue /\ mail'.bytes = mail.bytes
        /\ mail'.progress = mail.progress /\ mail'.terminal = t /\ mail'.job = None
    BY <1>1, <1>2, <1>4, <2>1 DEF Mails
  <2>3. /\ mail'.revision = mail.revision /\ mail'.idle /\ mail'.closed = mail.closed
        /\ mail'.pauses = mail.pauses
    BY <1>1, <2>1 DEF Mails
  <2>4. Accounted(mail)'
    BY <1>1, <2>2 DEF Accounted
  <2>5. ~Unstarted' /\ ~Ended'
    BY <1>4, <1>6, <2>2, <2>3 DEF Unstarted, Ended
  <2>6. StageInv /\ ErrorInv
    BY <1>1, <1>10 DEF Order
  <2>7. ClosedInv'
    BY <1>6, <1>10, <2>3 DEF ClosedInv
  <2>8. QuietInv'
    BY <1>2, <1>4, <1>6, <2>2, <2>3 DEF QuietInv
  <2>9. StageInv'
    BY <1>2, <1>4, <1>5, <1>6, <2>2, <2>3, <2>5, <2>6 DEF StageInv
  <2>10. ErrorInv'
    <3>1. Coming(mail, worker)' = Coming(mail, worker)
      BY <1>6, <2>2 DEF Coming
    <3>2. outcome = "complete" => worker.errors = 0
      BY <2>6 DEF ErrorInv
    <3> QED BY <1>2, <1>4, <1>5, <1>6, <2>2, <2>5, <2>6, <3>1, <3>2 DEF ErrorInv
  <2> QED BY <1>6, <1>7, <1>8, <2>2, <2>4, <2>7, <2>8, <2>9, <2>10 DEF Order
<1> QED BY <1>9, <1>10

LEMMA TerminateKeeps ==
    ASSUME IInv, Terminate
    PROVE  IInv'
<1>1. worker \in Workers
  BY OrderIs
<1>2. PICK outcome \in Outcomes :
         /\ Finish(outcome) /\ worker.held = None /\ worker.pc \notin {"idle", "gone", "begin"}
         /\ outcome = "complete" => ~worker.partial /\ worker.pc # "failed"
  BY DEF Terminate, At, Result, Outcomes
<1>3. Order' /\ mail' \in Mails /\ worker' \in Workers /\ past' \in Pasts
  BY <1>2, FinishKeeps
<1>4. UNCHANGED <<cancelled, canceller, session, monitor, disk, view>>
  BY <1>2 DEF Finish
<1>5. TypeOK'
  BY <1>3, <1>4 DEF TypeOK, IInv
<1> QED BY <1>3, <1>5 DEF IInv, Order

\* The types that only Run changes beside the mailbox.
LEMMA RunKeeps ==
    ASSUME IInv, Run
    PROVE  IInv'
<1>1. /\ Moves \/ Says \/ Starts
      /\ RestOK' /\ UNCHANGED <<cancelled, canceller, view>>
  BY RunIs DEF IInv
<1>2. Order' /\ mail' \in Mails /\ worker' \in Workers
  <2>1. CASE Moves
    <3>1. mail \in Mails
      BY OrderIs
    <3> QED BY <1>1, <2>1, <3>1, MovesKeep DEF Moves
  <2>2. CASE Says
    BY <1>1, <2>2, SaysKeep
  <2>3. CASE Starts
    BY <1>1, <2>3, StartsKeep
  <2> QED BY <1>1, <2>1, <2>2, <2>3
<1>3. TypeOK'
  BY <1>1, <1>2 DEF IInv, TypeOK, RestOK
<1> QED BY <1>2, <1>3 DEF IInv, Order

\* A step that touches neither the mailbox nor the worker.
LEMMA ApartKeeps ==
    ASSUME IInv, mail' = mail, worker' = worker, view' = view, RestOK',
           cancelled' \in BOOLEAN, canceller' \in 0 .. MaxRevision
    PROVE  IInv'
<1>1. TypeOK'
  BY DEF IInv, TypeOK, RestOK
<1>2. Order
  BY OrderIs
<1>3. Accounted(mail)' /\ ClosedInv' /\ ToldInv'
  BY <1>2 DEF Order, Accounted, ClosedInv, ToldInv, Drained
<1>4. QuietInv'
  BY <1>2 DEF Order, QuietInv, Drained
<1>5. Unstarted' = Unstarted /\ Ended' = Ended /\ Coming(mail, worker)' = Coming(mail, worker)
  BY DEF Unstarted, Ended, Coming
<1>6. StageInv => StageInv'
  BY <1>5 DEF StageInv, Drained
<1>7. ErrorInv => ErrorInv'
  BY <1>5 DEF ErrorInv
<1> QED BY <1>1, <1>2, <1>3, <1>4, <1>6, <1>7 DEF IInv, Order

LEMMA ResumeKeeps ==
    ASSUME IInv, Resume
    PROVE  IInv'
<1>1. Order /\ mail \in Mails /\ worker \in Workers /\ Accounted(mail) /\ worker.held # None
  BY OrderIs DEF Order, Resume
<1>2. PICK h \in Events : h = worker.held
  BY <1>1, WorkerIs
<1>3. worker.pc \notin {"idle", "gone"} /\ h # None
  BY <1>1, <1>2 DEF Order, QuietInv
<1>4. /\ ~mail.idle /\ mail.job = None /\ mail.terminal = None /\ ~Ended
      /\ ~(mail.pauses > 0) /\ (Unstarted <=> worker.pc = "begin")
  BY <1>3, BusyIs
<1>5. UNCHANGED <<cancelled, canceller, session, monitor, disk, view, past>>
  BY DEF Resume
<1>6. ToldInv'
  BY <1>1, <1>5 DEF Order, ToldInv
<1>7. ASSUME mail' \in Mails, worker' \in Workers PROVE TypeOK'
  BY <1>5, <1>7 DEF IInv, TypeOK
<1>8. CASE mail.closed
  <2>1. mail' = mail /\ worker' = [worker EXCEPT !.held = None, !.pc = "idle"]
    BY <1>8 DEF Resume
  <2>2. worker' \in Workers /\ worker'.held = None /\ worker'.pc = "idle"
    BY <1>1, <2>1 DEF Workers, Places
  <2>3. Accounted(mail)' /\ ClosedInv'
    BY <1>1, <1>5, <2>1, <2>2 DEF Order, Accounted, ClosedInv, Drained
  <2>4. QuietInv'
    BY <1>4, <1>8, <2>1, <2>2 DEF QuietInv
  <2> QED BY <1>1, <1>6, <1>7, <1>8, <2>1, <2>2, <2>3, <2>4 DEF IInv
<1>9. CASE ~mail.closed
  <2>1. mail' = Push(mail, h) /\ worker' = [worker EXCEPT !.held = None] /\ Room(mail, h.kind)
    BY <1>2, <1>9 DEF Resume
  <2>2. /\ worker' \in Workers /\ worker'.held = None /\ worker'.pc = worker.pc
        /\ worker'.errors = worker.errors /\ worker'.partial = worker.partial
    BY <1>1, <2>1 DEF Workers
  <2>3. /\ mail' \in Mails /\ Accounted(mail') /\ SameRest(mail', mail)
        /\ mail'.queue = Append(mail.queue, h)
    BY <1>1, <2>1, PushIs
  <2>4. /\ ~mail'.idle /\ mail'.job = None /\ mail'.terminal = None /\ ~Ended'
        /\ ~(mail'.pauses > 0) /\ mail'.revision = mail.revision /\ mail'.closed = mail.closed
    BY <1>4, <2>3 DEF SameRest, Ended
  <2>5. StageInv /\ ErrorInv
    BY <1>1, <1>9 DEF Order
  <2>6. ~Unstarted /\ ~Unstarted'
    <3>1. ~Unstarted
      BY <1>1, <2>5 DEF StageInv
    <3> QED BY <1>4, <2>2, <2>4, <3>1 DEF Unstarted
  <2>7. h.rev = mail.revision /\ h.kind # "started"
    BY <1>1, <1>2, <2>5 DEF StageInv
  <2>8. mail.queue \in Seq(Events)
    BY <1>1, MailIs
  <2>9. /\ OneStart(mail'.queue) /\ AllOf(mail'.queue, mail.revision)
        /\ StartQueued(mail'.queue) <=> StartQueued(mail.queue)
    <3>1. OneStart(mail.queue) /\ AllOf(mail.queue, mail.revision)
      BY <2>5 DEF StageInv
    <3> QED BY <2>3, <2>7, <2>8, <3>1, OrderAppend
  <2>10. Coming(mail, worker)' = Coming(mail, worker)
    <3>1. Count(mail'.queue, {"error"}) = Count(mail.queue, {"error"})
                                              + (IF h.kind \in {"error"} THEN 1 ELSE 0)
      BY <2>3, <2>8, CountAppend
    <3>2. Count(mail.queue, {"error"}) \in Nat
      BY <2>8, SpotsFinite
    <3> QED BY <1>2, <1>3, <2>2, <3>1, <3>2 DEF Coming
  <2>11. StageInv'
    BY <1>4, <1>5, <2>2, <2>4, <2>5, <2>6, <2>9 DEF StageInv
  <2>12. ErrorInv'
    BY <1>4, <1>5, <2>2, <2>4, <2>5, <2>6, <2>9, <2>10 DEF ErrorInv
  <2>13. ClosedInv'
    BY <1>3, <1>9, <2>2, <2>4 DEF ClosedInv
  <2>14. QuietInv'
    BY <1>3, <2>2, <2>4 DEF QuietInv
  <2>15. Accounted(mail)'
    BY <2>3 DEF Accounted
  <2> QED BY <1>6, <1>7, <2>2, <2>3, <2>11, <2>12, <2>13, <2>14, <2>15 DEF IInv
<1> QED BY <1>8, <1>9

LEMMA BegunIs ==
    ASSUME NEW kind \in {"all", "dirs", "changed"}, NEW scope \in SUBSET Dirs
    PROVE  /\ Begun(kind, scope) \in Workers /\ Begun(kind, scope).pc = "begin"
           /\ Begun(kind, scope).held = None /\ Begun(kind, scope).errors = 0
<1>1. /\ IdleWorker \in Workers /\ IdleWorker.held = None /\ IdleWorker.errors = 0
      /\ "begin" \in Places /\ (kind = "changed") \in BOOLEAN
  BY DEF IdleWorker, Workers, Places
<1>2. PICK changed \in BOOLEAN :
        Begun(kind, scope) = [IdleWorker EXCEPT !.pc = "begin", !.kind = kind, !.scope = scope,
                                                !.changed = changed]
  BY <1>1 DEF Begun
<1>3. PICK w \in Workers : w = IdleWorker
  BY <1>1
<1> DEFINE b == [w EXCEPT !.pc = "begin", !.kind = kind, !.scope = scope, !.changed = changed]
<1>4. b \in Workers
  <2> DEFINE v == [w EXCEPT !.pc = "begin", !.kind = kind]
  <2>1. v \in Workers
    BY <1>1 DEF Workers
  <2>2. b = [v EXCEPT !.scope = scope, !.changed = changed]
    OBVIOUS
  <2> HIDE DEF v, b
  <2> QED BY <2>1, <2>2 DEF Workers
<1>5. b.pc = "begin" /\ b.held = None /\ b.errors = 0
  BY <1>1, <1>3 DEF Workers
<1> QED BY <1>2, <1>3, <1>4, <1>5

\* A revision that has not begun, for a requested job or for changes.
LEMMA TakeJobKeeps ==
    ASSUME IInv, TakeJob
    PROVE  IInv'
<1>1. Order /\ mail \in Mails /\ mail.job # None /\ worker.pc = "idle" /\ worker.held = None
  BY OrderIs DEF TakeJob, At
<1>2. PICK j \in Jobs : j = mail.job
  BY <1>1, MailIs
<1>3. /\ worker' \in Workers /\ worker'.pc = "begin" /\ worker'.held = None /\ worker'.errors = 0
  <2>1. j.kind \in {"all", "dirs", "changed"} /\ j.scope \in SUBSET Dirs
    BY DEF Jobs
  <2>2. worker' = Begun(j.kind, j.scope)
    BY <1>2 DEF TakeJob
  <2> QED BY <2>1, <2>2, BegunIs
<1>4. mail' = [mail EXCEPT !.job = None]
  BY DEF TakeJob
<1>5. /\ mail' \in Mails /\ mail'.queue = mail.queue /\ mail'.bytes = mail.bytes
      /\ mail'.progress = mail.progress /\ mail'.terminal = mail.terminal /\ mail'.job = None
  BY <1>1, <1>4 DEF Mails
<1>6. /\ mail'.revision = mail.revision /\ mail'.idle = mail.idle
      /\ mail'.closed = mail.closed /\ mail'.pauses = mail.pauses
  BY <1>1, <1>4 DEF Mails
<1>7. UNCHANGED <<cancelled, canceller, session, monitor, disk, view, past>>
  BY DEF TakeJob
<1>8. TypeOK'
  BY <1>3, <1>5, <1>7 DEF IInv, TypeOK
<1>9. Accounted(mail)' /\ ClosedInv' /\ ToldInv'
  BY <1>1, <1>3, <1>5, <1>6, <1>7 DEF Order, Accounted, ClosedInv, ToldInv, Drained
<1>10. ~mail.idle /\ ~mail.closed /\ mail.terminal = None /\ mail.pauses = 0
       /\ Unstarted /\ Unstarted' /\ ~Ended /\ ~Ended'
  <2>1. ~mail.idle /\ ~mail.closed /\ mail.terminal = None /\ ~(mail.pauses > 0)
    BY <1>1 DEF Order, QuietInv, ClosedInv
  <2>2. mail.pauses \in Nat
    BY <1>1, MailIs, JunkSessionAssumption
  <2> QED BY <1>1, <1>3, <1>6, <2>1, <2>2 DEF Unstarted, Ended
<1>11. StageInv /\ ErrorInv
  BY <1>1, <1>10 DEF Order
<1>12. QuietInv'
  BY <1>3, <1>5, <1>6, <1>10 DEF QuietInv
<1>13. StageInv'
  <2>1. Drained(mail) /\ Drained(mail)'
    BY <1>5, <1>10, <1>11 DEF StageInv, Drained
  <2> QED BY <1>3, <1>5, <1>6, <1>7, <1>10, <1>11, <2>1 DEF StageInv
<1>14. ErrorInv'
  BY <1>3, <1>5, <1>10 DEF ErrorInv
<1> QED BY <1>8, <1>9, <1>12, <1>13, <1>14 DEF IInv

\* A revision is admitted: the owner has drained the one before.
LEMMA AdmittedKeeps ==
    ASSUME IInv, Admits(mail), mail.pauses = 0, mail.revision < MaxRevision,
           mail' \in Mails, worker' \in Workers, view' = view,
           mail'.queue = mail.queue, mail'.bytes = mail.bytes,
           mail'.progress = mail.progress, mail'.terminal = mail.terminal,
           mail'.revision = mail.revision + 1, ~mail'.idle, mail'.closed = mail.closed,
           mail'.pauses = mail.pauses, worker'.held = None,
           \/ mail'.job # None /\ worker' = worker
           \/ mail'.job = None /\ worker'.pc = "begin" /\ worker'.errors = 0
    PROVE  Order'
<1>1. Order /\ mail \in Mails /\ worker \in Workers
  BY OrderIs
<1>2. /\ ~mail.closed /\ mail.idle /\ mail.job = None /\ mail.queue = <<>>
      /\ ~mail.progress /\ mail.terminal = None
  BY DEF Admits, Drained
<1>3. worker.pc = "idle"
  BY <1>1, <1>2 DEF Order, QuietInv, ClosedInv
<1>4. Ended /\ ~Unstarted /\ ~Ended' /\ Unstarted' /\ Drained(mail)'
  BY <1>2, <1>3 DEF Ended, Unstarted, Drained
<1>5. StageInv /\ ErrorInv
  BY <1>1, <1>2 DEF Order
<1>6. view.done /\ view.rev = mail.revision
  BY <1>2, <1>4, <1>5 DEF StageInv, StartQueued
<1>7. view.rev = mail'.revision - 1
  BY <1>1, <1>6, MailIs
<1>8. Accounted(mail)' /\ ClosedInv' /\ ToldInv'
  BY <1>1, <1>2, <1>3 DEF Order, Accounted, ClosedInv, ToldInv
<1>9. QuietInv'
  BY <1>2, <1>3 DEF QuietInv
<1>10. StageInv'
  <2>1. OneStart(<<>>) /\ AllOf(<<>>, mail'.revision)
    BY DEF OneStart, AllOf
  <2> QED BY <1>2, <1>4, <1>6, <1>7, <2>1 DEF StageInv
<1>11. ErrorInv'
  BY <1>2, <1>3, <1>4, <1>5 DEF ErrorInv
<1> QED BY <1>8, <1>9, <1>10, <1>11 DEF Order

LEMMA WatchJobKeeps ==
    ASSUME IInv, WatchJob
    PROVE  IInv'
<1>1. /\ Admits(mail) /\ mail.pauses = 0 /\ mail.revision < MaxRevision /\ worker.held = None
      /\ mail \in Mails /\ mail.job = None
  BY OrderIs DEF WatchJob, MayWatch, At, Admits
<1>2. mail.revision + 1 \in 1 .. MaxRevision
  BY <1>1, MailIs, JunkSessionAssumption
<1>3. mail' = [mail EXCEPT !.revision = @ + 1, !.idle = FALSE]
  BY DEF WatchJob
<1>4. /\ mail' \in Mails /\ mail'.queue = mail.queue /\ mail'.bytes = mail.bytes
      /\ mail'.progress = mail.progress /\ mail'.terminal = mail.terminal /\ mail'.job = None
  BY <1>1, <1>2, <1>3 DEF Mails
<1>5. /\ mail'.revision = mail.revision + 1 /\ ~mail'.idle /\ mail'.closed = mail.closed
      /\ mail'.pauses = mail.pauses
  BY <1>1, <1>3 DEF Mails
<1>6. /\ worker' \in Workers /\ worker'.pc = "begin" /\ worker'.held = None
      /\ worker'.errors = 0
  <2>1. monitor.paths \in SUBSET Dirs /\ {} \in SUBSET Dirs
    BY RestIs DEF IInv
  <2>2. worker' = Begun("all", {}) \/ worker' = Begun("dirs", monitor.paths)
    BY DEF WatchJob
  <2> QED BY <2>1, <2>2, BegunIs
<1>7. RestOK'
  <2>1. monitor' \in Monitors
    <3>1. monitor' = MonitorOff \/ monitor' = Taken(monitor)
      BY DEF WatchJob
    <3>2. Taken(monitor) \in Monitors
      BY DEF IInv, TypeOK, Monitors, Taken
    <3> QED BY <3>1, <3>2, MonitorOffIs
  <2>2. session' \in Sessions
    <3>1. session' = [session EXCEPT !.disabled = @ \/ monitor.failure,
                                     !.warning = @ \/ monitor.failure]
      BY DEF WatchJob
    <3> QED BY <3>1 DEF IInv, TypeOK, Sessions
  <2> QED BY <2>1, <2>2 DEF RestOK, IInv, TypeOK, WatchJob
<1>8. Order'
  <2>1. view' = view
    BY DEF WatchJob
  <2> QED BY <1>1, <1>4, <1>5, <1>6, <2>1, AdmittedKeeps
<1>9. TypeOK'
  BY <1>4, <1>6, <1>7 DEF IInv, TypeOK, RestOK, WatchJob
<1> QED BY <1>8, <1>9 DEF IInv, Order

LEMMA RefreshKeeps ==
    ASSUME IInv, NEW kind \in {"all", "dirs", "changed"}, NEW scope \in SUBSET Dirs,
           Refresh(kind, scope)
    PROVE  IInv'
<1>1. /\ Admits(mail) /\ mail.pauses = 0 /\ mail.revision < MaxRevision
      /\ mail \in Mails /\ worker \in Workers
  BY OrderIs DEF Refresh
<1>2. mail.revision + 1 \in 1 .. MaxRevision
  BY <1>1, MailIs, JunkSessionAssumption
<1>3. PICK j : j = [kind |-> kind, scope |-> scope]
  OBVIOUS
<1>4. j \in Jobs /\ j # None
  BY <1>3, AbsenceAssumption DEF Jobs
<1>5. mail' = [mail EXCEPT !.revision = @ + 1, !.idle = FALSE, !.job = j]
  BY <1>3 DEF Refresh
<1>6. /\ mail' \in Mails /\ mail'.queue = mail.queue /\ mail'.bytes = mail.bytes
      /\ mail'.progress = mail.progress /\ mail'.terminal = mail.terminal /\ mail'.job # None
  <2>1. mail' \in Mails
    BY <1>1, <1>2, <1>4, <1>5 DEF Mails
  <2> QED BY <1>1, <1>4, <1>5, <2>1 DEF Mails
<1>7. /\ mail'.revision = mail.revision + 1 /\ ~mail'.idle /\ mail'.closed = mail.closed
      /\ mail'.pauses = mail.pauses
  BY <1>1, <1>5 DEF Mails
<1>8. worker' = worker /\ view' = view /\ cancelled' = FALSE
      /\ UNCHANGED <<canceller, session, monitor, disk, past>>
  BY DEF Refresh
<1>9. worker.held = None
  <2>1. mail.idle
    BY <1>1 DEF Admits
  <2> QED BY <2>1, OrderIs DEF Order, QuietInv
<1>10. Order'
  BY <1>1, <1>6, <1>7, <1>8, <1>9, AdmittedKeeps
<1>11. TypeOK'
  BY <1>1, <1>6, <1>8 DEF IInv, TypeOK
<1> QED BY <1>10, <1>11 DEF IInv, Order

\* Progress comes or goes: the queue stays.
LEMMA SlotKeeps ==
    ASSUME IInv, mail' \in Mails, Accounted(mail'), SameRest(mail', mail),
           mail'.queue = mail.queue,
           mail'.progress => mail.progress \/ (~mail.closed /\ worker.pc = "scan"),
           UNCHANGED <<cancelled, canceller, worker, session, monitor, disk, view, past>>
    PROVE  IInv'
<1>1. Order
  BY OrderIs
<1>2. TypeOK'
  BY DEF IInv, TypeOK
<1>3. /\ mail'.terminal = mail.terminal /\ mail'.job = mail.job
      /\ mail'.revision = mail.revision /\ mail'.idle = mail.idle
      /\ mail'.closed = mail.closed /\ mail'.pauses = mail.pauses
  BY DEF SameRest
<1>4. Accounted(mail)' /\ ToldInv'
  BY <1>1 DEF Order, Accounted, ToldInv
<1>5. Drained(mail) /\ (mail.closed \/ mail.idle \/ Unstarted) => Drained(mail)'
  <2>1. (mail.idle \/ Unstarted) => worker.pc # "scan"
    BY <1>1 DEF Order, QuietInv, Unstarted
  <2> QED BY <1>3, <2>1 DEF Drained
<1>6. Unstarted' = Unstarted /\ Ended' = Ended /\ Coming(mail, worker)' = Coming(mail, worker)
  BY <1>3 DEF Unstarted, Ended, Coming
<1>7. ClosedInv'
  BY <1>1, <1>3, <1>5 DEF Order, ClosedInv
<1>8. QuietInv'
  BY <1>1, <1>3, <1>5 DEF Order, QuietInv
<1>9. StageInv => StageInv'
  BY <1>3, <1>5, <1>6 DEF StageInv
<1>10. ErrorInv => ErrorInv'
  BY <1>3, <1>6 DEF ErrorInv
<1> QED BY <1>1, <1>2, <1>3, <1>4, <1>7, <1>8, <1>9, <1>10 DEF IInv, Order

LEMMA ProgressKeeps ==
    ASSUME IInv, Progress
    PROVE  IInv'
<1>1. mail \in Mails /\ Accounted(mail)
  BY OrderIs DEF Order
<1>2. PICK c : c = Cleared(mail)
  OBVIOUS
<1>3. /\ c \in Mails /\ Accounted(c) /\ Kept(c, mail) /\ c.queue = mail.queue
      /\ ~c.progress /\ c.bytes = SumOf(c.queue)
  BY <1>1, <1>2, ClearedIs
<1>4. /\ UNCHANGED <<cancelled, canceller, worker, session, monitor, disk, view, past>>
      /\ ~mail.closed /\ worker.pc = "scan"
  BY DEF Progress, At
<1>5. SameRest(c, mail)
  BY <1>3 DEF Kept
<1>6. CASE c.bytes + Cost("progress") > MAX_EVENT_BYTES
  <2>1. mail' = c
    BY <1>2, <1>6 DEF Progress
  <2> QED BY <1>3, <1>4, <1>5, <2>1, SlotKeeps
<1>7. CASE ~(c.bytes + Cost("progress") > MAX_EVENT_BYTES)
  <2>1. mail' = [c EXCEPT !.progress = TRUE, !.bytes = @ + 1]
    BY <1>2, <1>7 DEF Progress, Cost
  <2>2. c.bytes \in Nat /\ c.bytes + 1 <= MAX_EVENT_BYTES /\ Len(c.queue) <= MAX_EVENTS
    BY <1>3, <1>7, MailIs, JunkSessionAssumption DEF Cost
  <2>3. /\ mail' \in Mails /\ mail'.queue = c.queue /\ mail'.bytes = c.bytes + 1
        /\ mail'.progress
    <3>1. PICK b \in Nat : b = c.bytes + 1
      BY <2>2
    <3>2. mail' = [c EXCEPT !.progress = TRUE, !.bytes = b]
      BY <2>1, <3>1
    <3>3. mail' \in Mails
      BY <1>3, <3>2 DEF Mails
    <3>4. mail'.queue = c.queue /\ mail'.bytes = b /\ mail'.progress
      BY <1>3, <3>2 DEF Mails
    <3> QED BY <3>1, <3>3, <3>4
  <2>4. SameRest(mail', mail)
    <3>1. SameRest(mail', c)
      BY <1>3, <2>1 DEF Mails, SameRest
    <3> QED BY <1>5, <3>1 DEF SameRest
  <2>5. Accounted(mail')
    BY <1>3, <2>2, <2>3 DEF Accounted
  <2> QED BY <1>3, <1>4, <2>3, <2>4, <2>5, SlotKeeps
<1> QED BY <1>6, <1>7

LEMMA EventDir ==
    ASSUME NEW e \in Events, e.kind \in RowKinds
    PROVE  e.dir \in Dirs
BY DEF Events

\* pop_locked hands out the first event.
LEMMA TakeEventKeeps ==
    ASSUME IInv, mail.queue # <<>>, view' = Seen(view, Head(mail.queue)),
           mail' = [mail EXCEPT !.queue = Tail(@),
                                !.bytes = Less(@, Cost(Head(mail.queue).kind))],
           UNCHANGED <<cancelled, canceller, worker, session, monitor, disk, past>>
    PROVE  IInv'
<1>1. Order /\ mail \in Mails /\ worker \in Workers /\ view \in Views /\ Accounted(mail)
      /\ view.rev \in Nat /\ view.done \in BOOLEAN /\ view.errors \in Nat
  BY OrderIs DEF Order
<1>2. mail.queue \in Seq(Events)
  BY <1>1, MailIs
<1>3. PICK e : e = Head(mail.queue)
  OBVIOUS
<1>4. PICK r : r = Tail(mail.queue)
  OBVIOUS
<1>5. r \in Seq(Events) /\ e = mail.queue[1] /\ e \in Events /\ Without(mail.queue, r, 1)
  BY <1>2, <1>3, <1>4, TailIs
<1>6. mail' = Shrunk(mail, r, Cost(e.kind))
  BY <1>3, <1>4 DEF Shrunk
<1>7. /\ mail' \in Mails /\ Accounted(mail') /\ SameRest(mail', mail)
      /\ mail'.queue = r /\ mail'.progress = mail.progress
  <2>1. PICK i \in DOMAIN mail.queue : i = 1
    BY <1>5 DEF Without
  <2>2. PICK c : c = Cost(e.kind)
    OBVIOUS
  <2>3. c = Cost(mail.queue[i].kind) /\ Without(mail.queue, r, i)
    BY <1>5, <2>1, <2>2
  <2>4. mail' = Shrunk(mail, r, c)
    BY <1>6, <2>2
  <2>5. /\ Shrunk(mail, r, c) \in Mails /\ Accounted(Shrunk(mail, r, c))
        /\ SameRest(Shrunk(mail, r, c), mail)
        /\ Shrunk(mail, r, c).queue = r /\ Shrunk(mail, r, c).progress = mail.progress
    BY <1>1, <1>5, <2>3, ShrunkIs
  <2> QED BY <2>4, <2>5 DEF Accounted, SameRest
<1>8. /\ mail'.terminal = mail.terminal /\ mail'.job = mail.job
      /\ mail'.revision = mail.revision /\ mail'.idle = mail.idle
      /\ mail'.closed = mail.closed /\ mail'.pauses = mail.pauses
  BY <1>7 DEF SameRest
<1>9. ~mail.closed /\ ~Drained(mail)
  BY <1>1 DEF Order, ClosedInv, Drained
<1>10. StageInv /\ ErrorInv
  BY <1>1, <1>9 DEF Order
<1>11. ~Unstarted /\ ~Ended /\ ~Unstarted' /\ ~Ended' /\ ~(mail.pauses > 0)
  <2>1. ~Unstarted /\ ~Ended /\ ~(mail.pauses > 0)
    BY <1>1, <1>9, <1>10 DEF StageInv, Order, QuietInv, Ended
  <2> QED BY <1>8, <2>1 DEF Unstarted, Ended
<1>12. OneStart(mail.queue) /\ AllOf(mail.queue, mail.revision) /\ e.rev = mail.revision
  <2>1. OneStart(mail.queue) /\ AllOf(mail.queue, mail.revision)
    BY <1>10 DEF StageInv
  <2>2. 1 \in DOMAIN mail.queue
    BY <1>5 DEF Without
  <2> QED BY <1>5, <2>1, <2>2 DEF AllOf
<1>13. OneStart(r) /\ AllOf(r, mail.revision) /\ ~StartQueued(r)
  BY <1>2, <1>5, <1>12, OrderWithout
<1>14. StartQueued(mail.queue) <=> e.kind = "started"
  BY <1>5 DEF StartQueued
<1>15. /\ view.done <=> e.kind = "started"
       /\ view.rev = IF e.kind = "started" THEN mail.revision - 1 ELSE mail.revision
  BY <1>10, <1>11, <1>14 DEF StageInv
<1>16. view' = Seen(view, e) /\ e.kind \in Kinds /\ e.dir \in Dirs \cup {None}
       /\ e.rev \in 0 .. MaxRevision
  BY <1>3, <1>5 DEF Events
<1>17. /\ ~view'.done /\ view'.rev = mail.revision
       /\ view'.errors = (IF e.kind = "started" THEN 0 ELSE view.errors)
                             + (IF e.kind = "error" THEN 1 ELSE 0)
  <2>1. CASE e.kind = "started"
    <3>1. view' = [view EXCEPT !.rev = e.rev, !.done = FALSE, !.errors = 0, !.outcome = None]
      BY <1>16, <2>1 DEF Seen
    <3>2. ~view'.done /\ view'.rev = e.rev /\ view'.errors = 0
      BY <1>1, <3>1 DEF Views
    <3> QED BY <1>12, <2>1, <3>2
  <2>2. CASE e.kind = "error"
    <3>1. view' = [view EXCEPT !.errors = @ + 1]
      BY <1>16, <2>2 DEF Seen
    <3> QED BY <1>1, <1>15, <2>2, <3>1 DEF Views
  <2>3. CASE e.kind \notin {"started", "error"}
    <3>1. view' = view \/ \E rows : view' = [view EXCEPT !.rows = rows]
      BY <1>16, <2>3 DEF Seen
    <3>2. view'.done = view.done /\ view'.rev = view.rev /\ view'.errors = view.errors
      BY <1>1, <3>1 DEF Views
    <3> QED BY <1>1, <1>15, <2>3, <3>2
  <2> QED BY <2>1, <2>2, <2>3
<1>18. view' \in Views
  <2>1. CASE e.kind = "started"
    <3>1. view' = [view EXCEPT !.rev = e.rev, !.done = FALSE, !.errors = 0, !.outcome = None]
      BY <1>16, <2>1 DEF Seen
    <3>2. PICK rev \in 0 .. MaxRevision : rev = e.rev
      BY <1>16
    <3>3. PICK v \in Views : v = view
      BY <1>1
    <3>4. view' = [v EXCEPT !.rev = rev, !.done = FALSE, !.errors = 0, !.outcome = None]
      BY <3>1, <3>2, <3>3
    <3> DEFINE u == [v EXCEPT !.rev = rev, !.done = FALSE]
    <3>5. u \in Views
      BY DEF Views
    <3> DEFINE x == [u EXCEPT !.outcome = None]
    <3>6. view' = [x EXCEPT !.errors = 0]
      BY <3>4
    <3> HIDE DEF u
    <3>7. x \in Views
      BY <3>5 DEF Views
    <3> HIDE DEF x
    <3> QED BY <3>6, <3>7 DEF Views
  <2>2. CASE e.kind = "error"
    <3>1. view' = [view EXCEPT !.errors = @ + 1]
      BY <1>16, <2>2 DEF Seen
    <3> QED BY <1>1, <3>1 DEF Views
  <2>3. CASE e.kind \in {"base", "current"}
    <3>1. view' = [view EXCEPT !.rows = @ \cup {e.dir}]
      BY <1>16, <2>3 DEF Seen
    <3>2. e.dir \in Dirs
      BY <1>5, <2>3, EventDir DEF RowKinds
    <3> QED BY <1>1, <3>1, <3>2 DEF Views
  <2>4. CASE e.kind = "removed"
    <3>1. view' = [view EXCEPT !.rows = @ \ {e.dir}]
      BY <1>16, <2>4 DEF Seen
    <3> QED BY <1>1, <3>1 DEF Views
  <2>5. CASE e.kind \in {"phase", "warning"}
    <3>1. view' = view
      BY <1>16, <2>5 DEF Seen
    <3> QED BY <1>1, <3>1
  <2> QED BY <1>16, <2>1, <2>2, <2>3, <2>4, <2>5 DEF Kinds
<1>19. TypeOK'
  BY <1>7, <1>18 DEF IInv, TypeOK
<1>20. Accounted(mail)' /\ ToldInv' /\ ClosedInv'
  BY <1>1, <1>7, <1>8, <1>9, <1>17 DEF Order, Accounted, ToldInv, ClosedInv
<1>21. QuietInv'
  BY <1>1, <1>8, <1>9, <1>11 DEF Order, QuietInv, Ended
<1>22. StageInv'
  BY <1>7, <1>8, <1>10, <1>11, <1>13, <1>17 DEF StageInv
<1>23. ErrorInv'
  <2>1. Coming(mail, worker)' = Coming(mail, worker) - (IF e.kind = "error" THEN 1 ELSE 0)
    <3>1. Count(r, {"error"}) = Count(mail.queue, {"error"})
                                   - (IF mail.queue[1].kind \in {"error"} THEN 1 ELSE 0)
      BY <1>2, <1>5, CountWithout
    <3>2. Count(mail.queue, {"error"}) \in Nat
      BY <1>2, SpotsFinite
    <3>3. Count(mail'.queue, {"error"}) = Count(mail.queue, {"error"})
                                             - (IF e.kind = "error" THEN 1 ELSE 0)
      BY <1>5, <1>7, <3>1
    <3>4. Coming(mail, worker)' = Count(mail'.queue, {"error"})
             + (IF worker.held # None /\ worker.held.kind = "error" THEN 1 ELSE 0)
      BY DEF Coming
    <3>5. Coming(mail, worker) = Count(mail.queue, {"error"})
             + (IF worker.held # None /\ worker.held.kind = "error" THEN 1 ELSE 0)
      BY DEF Coming
    <3>6. PICK a \in Nat : a = Count(mail.queue, {"error"})
      BY <3>2
    <3> QED BY <3>3, <3>4, <3>5, <3>6
  <2>2. worker.errors = (IF e.kind = "started" THEN 0 ELSE view.errors) + Coming(mail, worker)
    BY <1>10, <1>11, <1>14 DEF ErrorInv
  <2>3. Coming(mail, worker) \in Nat
    <3>1. Count(mail.queue, {"error"}) \in Nat
      BY <1>2, SpotsFinite
    <3> QED BY <3>1 DEF Coming
  <2>4. worker.errors = view'.errors + Coming(mail, worker)'
    <3>1. PICK n \in Nat : n = Coming(mail, worker)
      BY <2>3
    <3>2. PICK k : k = Coming(mail, worker)'
      OBVIOUS
    <3>3. k = n - (IF e.kind = "error" THEN 1 ELSE 0)
      BY <2>1, <3>1, <3>2
    <3>4. worker.errors = (IF e.kind = "started" THEN 0 ELSE view.errors) + n
      BY <2>2, <3>1
    <3>5. worker.errors = view'.errors + k
      BY <1>1, <1>17, <3>3, <3>4
    <3> QED BY <3>2, <3>5
  <2> QED BY <1>7, <1>8, <1>10, <1>11, <1>13, <2>4 DEF ErrorInv
<1> QED BY <1>19, <1>20, <1>21, <1>22, <1>23 DEF IInv

\* pop_locked hands out the Completed of the revision.
LEMMA TakeTerminalKeeps ==
    ASSUME IInv, mail.queue = <<>>, ~mail.progress, mail.terminal # None,
           view' = [view EXCEPT !.done = TRUE, !.outcome = mail.terminal.outcome,
                                !.counted = mail.terminal.errors],
           mail' = [mail EXCEPT !.terminal = None],
           UNCHANGED <<cancelled, canceller, worker, session, monitor, disk, past>>
    PROVE  IInv'
<1>1. Order /\ mail \in Mails /\ worker \in Workers /\ view \in Views
  BY OrderIs
<1>2. PICK t \in Terminals : t = mail.terminal
  BY <1>1, MailIs
<1>3. t.outcome \in Outcomes /\ t.errors \in Nat
  BY DEF Terminals
<1>4. /\ mail' \in Mails /\ mail'.queue = mail.queue /\ mail'.bytes = mail.bytes
      /\ mail'.progress = mail.progress /\ mail'.terminal = None /\ mail'.job = mail.job
  BY <1>1 DEF Mails
<1>5. /\ mail'.revision = mail.revision /\ mail'.idle = mail.idle
      /\ mail'.closed = mail.closed /\ mail'.pauses = mail.pauses
  BY <1>1 DEF Mails
<1>6. /\ view' \in Views /\ view'.done /\ view'.rev = view.rev /\ view'.errors = view.errors
      /\ view'.counted = t.errors /\ view'.outcome = t.outcome
  BY <1>1, <1>2, <1>3 DEF Views
<1>7. ~mail.closed /\ mail.idle /\ mail.job = None /\ worker.held = None
      /\ worker.pc \in {"idle", "gone"} /\ ~Ended /\ ~Unstarted /\ ~StartQueued(mail.queue)
  BY <1>1 DEF Order, ClosedInv, QuietInv, Drained, Ended, Unstarted, StartQueued
<1>8. StageInv /\ ErrorInv
  BY <1>1, <1>7 DEF Order
<1>9. Ended' /\ ~Unstarted' /\ Drained(mail)'
  BY <1>4, <1>5, <1>7 DEF Ended, Unstarted, Drained
<1>10. TypeOK'
  BY <1>4, <1>6 DEF IInv, TypeOK
<1>11. Accounted(mail)' /\ ClosedInv'
  BY <1>1, <1>4, <1>5, <1>7 DEF Order, Accounted, ClosedInv
<1>12. QuietInv'
  BY <1>1, <1>4, <1>5, <1>7, <1>9 DEF Order, QuietInv
<1>13. StageInv'
  BY <1>4, <1>5, <1>6, <1>7, <1>8, <1>9 DEF StageInv
<1>14. ErrorInv'
  BY <1>4, <1>7, <1>8, <1>9 DEF ErrorInv
<1>15. ToldInv'
  <2>1. Coming(mail, worker) = 0
    BY <1>7, CountEmpty DEF Coming
  <2>2. worker.errors = view.errors + 0
    BY <1>7, <1>8, <2>1 DEF ErrorInv
  <2>3. t.errors = worker.errors /\ (t.outcome = "complete" => worker.errors = 0)
    BY <1>2, <1>8 DEF ErrorInv
  <2>4. view.errors \in Nat
    BY OrderIs
  <2> QED BY <1>6, <2>2, <2>3, <2>4 DEF ToldInv
<1> QED BY <1>10, <1>11, <1>12, <1>13, <1>14, <1>15 DEF IInv

LEMMA TakeKeeps ==
    ASSUME IInv, Take
    PROVE  IInv'
<1>1. UNCHANGED <<cancelled, canceller, worker, session, monitor, disk, past>>
  BY DEF Take
<1>2. CASE /\ mail.queue # <<>>
           /\ view' = Seen(view, Head(mail.queue))
           /\ mail' = [mail EXCEPT !.queue = Tail(@),
                                   !.bytes = Less(@, Cost(Head(mail.queue).kind))]
  BY <1>1, <1>2, TakeEventKeeps
<1>3. CASE mail.queue = <<>> /\ mail.progress /\ mail' = Cleared(mail) /\ UNCHANGED view
  <2>1. mail \in Mails /\ Accounted(mail)
    BY OrderIs DEF Order
  <2>2. /\ Cleared(mail) \in Mails /\ Accounted(Cleared(mail)) /\ Kept(Cleared(mail), mail)
        /\ Cleared(mail).queue = mail.queue /\ ~Cleared(mail).progress
    BY <2>1, ClearedIs
  <2>3. /\ mail' \in Mails /\ Accounted(mail') /\ SameRest(mail', mail)
        /\ mail'.queue = mail.queue /\ ~mail'.progress
    BY <1>3, <2>2 DEF Kept, Accounted
  <2> QED BY <1>1, <1>3, <2>3, SlotKeeps
<1>4. CASE /\ mail.queue = <<>> /\ ~mail.progress /\ mail.terminal # None
           /\ view' = [view EXCEPT !.done = TRUE, !.outcome = mail.terminal.outcome,
                                   !.counted = mail.terminal.errors]
           /\ mail' = [mail EXCEPT !.terminal = None]
  BY <1>1, <1>4, TakeTerminalKeeps
<1> QED BY <1>2, <1>3, <1>4 DEF Take

\* suspend_auto_refresh and release_auto_pause
LEMMA PauseKeeps ==
    ASSUME IInv, NEW n \in 0 .. MAX_PAUSES, mail' = [mail EXCEPT !.pauses = n],
           n > 0 => mail.idle /\ Drained(mail),
           UNCHANGED <<cancelled, canceller, worker, session, monitor, disk, view, past>>
    PROVE  IInv'
<1>1. Order /\ mail \in Mails
  BY OrderIs
<1>2. /\ mail' \in Mails /\ mail'.queue = mail.queue /\ mail'.bytes = mail.bytes
      /\ mail'.progress = mail.progress /\ mail'.terminal = mail.terminal
      /\ mail'.job = mail.job /\ mail'.pauses = n
  BY <1>1 DEF Mails
<1>3. /\ mail'.revision = mail.revision /\ mail'.idle = mail.idle
      /\ mail'.closed = mail.closed
  BY <1>1 DEF Mails
<1>4. /\ Unstarted' = Unstarted /\ Ended' = Ended /\ Drained(mail)' = Drained(mail)
      /\ Coming(mail, worker)' = Coming(mail, worker)
  BY <1>2, <1>3 DEF Unstarted, Ended, Drained, Coming
<1>5. TypeOK'
  BY <1>2 DEF IInv, TypeOK
<1>6. Accounted(mail)' /\ ToldInv' /\ ClosedInv'
  BY <1>1, <1>2, <1>3, <1>4 DEF Order, Accounted, ToldInv, ClosedInv
<1>7. QuietInv'
  BY <1>1, <1>2, <1>3, <1>4 DEF Order, QuietInv
<1>8. StageInv => StageInv'
  BY <1>2, <1>3, <1>4 DEF StageInv
<1>9. ErrorInv => ErrorInv'
  BY <1>2, <1>3, <1>4 DEF ErrorInv
<1> QED BY <1>1, <1>3, <1>5, <1>6, <1>7, <1>8, <1>9 DEF IInv, Order

LEMMA CloseKeeps ==
    ASSUME IInv, Close
    PROVE  IInv'
<1>1. Order /\ mail \in Mails /\ worker \in Workers
  BY OrderIs
<1>2. mail' = [mail EXCEPT !.closed = TRUE, !.queue = <<>>, !.bytes = 0,
                           !.progress = FALSE, !.terminal = None, !.job = None]
  BY DEF Close
<1>3. /\ mail'.queue = <<>> /\ mail'.bytes = 0 /\ ~mail'.progress /\ mail'.terminal = None
      /\ mail'.job = None /\ mail'.closed
  BY <1>1, <1>2 DEF Mails
<1>4. mail'.idle = mail.idle /\ mail'.pauses = mail.pauses
  BY <1>1, <1>2 DEF Mails
<1>5. mail' \in Mails
  <2> DEFINE m == [mail EXCEPT !.closed = TRUE, !.queue = <<>>, !.bytes = 0]
  <2>1. m \in Mails
    BY <1>1, EmptySeq DEF Mails
  <2>2. mail' = [m EXCEPT !.progress = FALSE, !.terminal = None, !.job = None]
    BY <1>2
  <2> HIDE DEF m
  <2> QED BY <2>1, <2>2 DEF Mails
<1>6. view' = NoView /\ past' = NoPast /\ cancelled' = TRUE
      /\ UNCHANGED <<canceller, worker, session, monitor, disk>>
  BY DEF Close
<1>7. NoView \in Views /\ NoPast \in Pasts /\ NoView.rev = 0
  BY JunkSessionAssumption DEF NoView, Views, NoPast, Pasts
<1>8. TypeOK'
  BY <1>5, <1>6, <1>7 DEF IInv, TypeOK
<1>9. Drained(mail)'
  BY <1>3 DEF Drained
<1>10. Accounted(mail)'
  <2>1. SumOf(<<>>) = 0 /\ Len(<<>>) = 0
    BY CountEmpty, EmptySeq DEF SumOf
  <2> QED BY <1>3, <2>1, JunkSessionAssumption DEF Accounted
<1>11. ClosedInv' /\ ToldInv'
  BY <1>3, <1>6, <1>7, <1>9 DEF ClosedInv, ToldInv
<1>12. QuietInv'
  BY <1>1, <1>3, <1>4, <1>6, <1>9 DEF Order, QuietInv
<1> QED BY <1>3, <1>8, <1>10, <1>11, <1>12 DEF IInv

LEMMA StopKeeps ==
    ASSUME IInv, Stop
    PROVE  IInv'
<1>1. Order /\ mail \in Mails /\ worker \in Workers /\ mail.closed
      /\ worker.pc = "idle" /\ worker.held = None
  BY OrderIs DEF Stop, At
<1>2. mail' = [mail EXCEPT !.exited = TRUE] /\ worker' = Goto("gone") /\ monitor' = MonitorOff
      /\ UNCHANGED <<cancelled, canceller, session, disk, view, past>>
  BY DEF Stop
<1>3. /\ mail' \in Mails /\ mail'.queue = mail.queue /\ mail'.bytes = mail.bytes
      /\ mail'.progress = mail.progress /\ mail'.terminal = mail.terminal
      /\ mail'.job = mail.job /\ mail'.pauses = mail.pauses
  BY <1>1, <1>2 DEF Mails
<1>4. mail'.idle = mail.idle /\ mail'.closed
  BY <1>1, <1>2 DEF Mails
<1>5. worker' \in Workers /\ worker'.pc = "gone" /\ worker'.held = None
  <2>1. "gone" \in Places
    BY DEF Places
  <2> QED BY <1>1, <1>2, <2>1, GotoIs
<1>6. TypeOK'
  BY <1>2, <1>3, <1>5, MonitorOffIs DEF IInv, TypeOK
<1>7. Drained(mail)' = Drained(mail)
  BY <1>3 DEF Drained
<1>8. Accounted(mail)' /\ ClosedInv' /\ ToldInv'
  BY <1>1, <1>2, <1>3, <1>4, <1>7 DEF Order, Accounted, ClosedInv, ToldInv
<1>9. QuietInv'
  BY <1>1, <1>3, <1>4, <1>5, <1>7 DEF Order, QuietInv, ClosedInv
<1> QED BY <1>4, <1>6, <1>8, <1>9 DEF IInv

-----------------------------------------------------------------------------
(* The steps of the listener, of other programs and of the token *)

LEMMA ListenerKeeps ==
    ASSUME IInv, Listener
    PROVE  IInv'
<1>1. UNCHANGED <<mail, cancelled, canceller, worker, session, disk, view, past>>
  BY DEF Listener, Deliver, Overflow
<1>2. monitor' \in Monitors
  <2>1. CASE Overflow
    <3>1. monitor' = Gap([monitor EXCEPT !.news = {}])
      BY <2>1 DEF Overflow
    <3> QED BY <3>1 DEF IInv, TypeOK, Gap, Monitors
  <2>2. ASSUME NEW d \in Dirs, Deliver(d) PROVE monitor' \in Monitors
    <3>1. PICK m : m = [monitor EXCEPT !.news = @ \ {d}]
      OBVIOUS
    <3>2. m \in Monitors
      BY <3>1 DEF IInv, TypeOK, Monitors
    <3>3. monitor' = Queued(m, d)
      BY <2>2, <3>1 DEF Deliver
    <3>4. Gap(m) \in Monitors
      BY <3>2 DEF Gap, Monitors
    <3>5. [m EXCEPT !.paths = @ \cup {d}] \in Monitors
      BY <3>2 DEF Monitors
    <3> QED BY <3>2, <3>3, <3>4, <3>5 DEF Queued
  <2> QED BY <2>1, <2>2 DEF Listener
<1>3. RestOK' /\ cancelled' \in BOOLEAN /\ canceller' \in 0 .. MaxRevision
  BY <1>1, <1>2 DEF RestOK, IInv, TypeOK
<1> QED BY <1>1, <1>3, ApartKeeps

LEMMA CheckRootsKeeps ==
    ASSUME IInv, CheckRoots
    PROVE  IInv'
<1>1. /\ UNCHANGED <<mail, cancelled, canceller, worker, session, disk, view, past>>
      /\ monitor' = Gap(monitor)
  BY DEF CheckRoots
<1>2. monitor' \in Monitors
  BY <1>1 DEF IInv, TypeOK, Gap, Monitors
<1>3. RestOK' /\ cancelled' \in BOOLEAN /\ canceller' \in 0 .. MaxRevision
  BY <1>1, <1>2 DEF RestOK, IInv, TypeOK
<1> QED BY <1>1, <1>3, ApartKeeps

LEMMA EnvironmentKeeps ==
    ASSUME IInv, Environment
    PROVE  IInv'
<1>1. UNCHANGED <<mail, cancelled, canceller, worker, session, view>>
  BY DEF Environment, Change, ReplaceRoot, ListenerFails
<1>2. disk \in Disks /\ monitor \in Monitors /\ past \in Pasts /\ disk.changes < MaxChanges
      /\ disk.changes \in Nat
  <2>1. disk \in Disks /\ monitor \in Monitors /\ past \in Pasts
    BY DEF IInv, TypeOK
  <2>2. disk.changes < MaxChanges
    BY DEF Environment, Change, ReplaceRoot, ListenerFails
  <2>3. disk.changes \in 0 .. MaxChanges
    BY <2>1 DEF Disks
  <2> QED BY <2>1, <2>2, <2>3
<1>3. disk.changes + 1 \in 0 .. MaxChanges
  BY <1>2, JunkSessionAssumption
<1>4. disk' \in Disks /\ monitor' \in Monitors /\ past' \in Pasts
  <2>1. ASSUME NEW touched \in SUBSET Dirs, NEW holding \in SUBSET touched, Change(touched, holding)
        PROVE  disk' \in Disks /\ monitor' \in Monitors /\ past' \in Pasts
    <3>1. disk' \in Disks
      <4>1. PICK holds : holds = [d \in Dirs |-> IF d \in touched THEN d \in holding
                                                 ELSE disk.holds[d]]
        OBVIOUS
      <4>2. holds \in [Dirs -> BOOLEAN]
        <5>1. disk.holds \in [Dirs -> BOOLEAN]
          BY <1>2 DEF Disks
        <5>2. ASSUME NEW d \in Dirs
              PROVE  (IF d \in touched THEN d \in holding ELSE disk.holds[d]) \in BOOLEAN
          <6>1. disk.holds[d] \in BOOLEAN
            BY <5>1
          <6>2. (d \in holding) \in BOOLEAN
            OBVIOUS
          <6>3. CASE d \in touched
            BY <6>2, <6>3, Zenon
          <6>4. CASE d \notin touched
            BY <6>1, <6>4, Zenon
          <6> QED BY <6>3, <6>4
        <5> QED BY <4>1, <5>2, Zenon
      <4>3. disk' = [disk EXCEPT !.changes = @ + 1, !.holds = holds]
        BY <2>1, <4>1 DEF Change
      <4> QED BY <1>2, <1>3, <4>2, <4>3 DEF Disks
    <3>2. monitor' \in Monitors
      <4>1. monitor' = monitor
            \/ monitor' = [monitor EXCEPT !.news = @ \cup (touched \cap monitor.watched)]
        BY <2>1 DEF Change
      <4> QED BY <1>2, <4>1 DEF Monitors
    <3>3. past' \in Pasts
      <4>1. past' = [past EXCEPT !.behind = @ \cup touched, !.due = @ \ touched,
                                 !.fresh = @ \ touched]
        BY <2>1 DEF Change
      <4> QED BY <1>2, <4>1 DEF Pasts
    <3> QED BY <3>1, <3>2, <3>3
  <2>2. CASE ReplaceRoot
    <3>1. disk' = [disk EXCEPT !.moved = TRUE, !.changes = @ + 1] /\ monitor' = monitor
          /\ past' = [past EXCEPT !.behind = Dirs, !.due = {}, !.fresh = {}]
      BY <2>2 DEF ReplaceRoot
    <3>2. disk' \in Disks
      BY <1>2, <1>3, <3>1 DEF Disks
    <3>3. past' \in Pasts
      BY <1>2, <3>1 DEF Pasts
    <3> QED BY <1>2, <3>1, <3>2, <3>3
  <2>3. CASE ListenerFails
    <3>1. disk' = [disk EXCEPT !.changes = @ + 1] /\ past' = past
          /\ monitor' = FailedMonitor(monitor)
      BY <2>3 DEF ListenerFails
    <3>2. disk' \in Disks
      BY <1>2, <1>3, <3>1 DEF Disks
    <3>3. monitor' \in Monitors
      BY <1>2, <3>1 DEF Monitors, FailedMonitor, Gap
    <3> QED BY <1>2, <3>1, <3>2, <3>3
  <2> QED BY <2>1, <2>2, <2>3 DEF Environment
<1>5. RestOK' /\ cancelled' \in BOOLEAN /\ canceller' \in 0 .. MaxRevision
  BY <1>1, <1>4 DEF RestOK, IInv, TypeOK
<1> QED BY <1>1, <1>5, ApartKeeps

LEMMA TokenKeeps ==
    ASSUME IInv, CloneToken \/ CancelToken
    PROVE  IInv'
<1>1. UNCHANGED <<mail, worker, session, monitor, disk, view, past>>
  BY DEF CloneToken, CancelToken
<1>2. mail.revision \in 1 .. MaxRevision
  BY OrderIs, MailIs
<1>3. cancelled' \in BOOLEAN /\ canceller' \in 0 .. MaxRevision
  <2>1. cancelled \in BOOLEAN /\ Watch \in BOOLEAN /\ 0 \in 0 .. MaxRevision
        /\ mail.revision \in 0 .. MaxRevision
    BY <1>2, JunkSessionAssumption DEF IInv, TypeOK
  <2>2. CASE CloneToken
    BY <2>1, <2>2 DEF CloneToken
  <2>3. CASE CancelToken
    BY <2>1, <2>3 DEF CancelToken
  <2> QED BY <2>2, <2>3
<1>4. RestOK'
  BY <1>1 DEF RestOK, IInv, TypeOK
<1> QED BY <1>1, <1>3, <1>4, ApartKeeps

LEMMA AbortKeeps ==
    ASSUME IInv, Abort
    PROVE  IInv'
<1>1. /\ worker \in Workers /\ worker.pc = "scan" /\ worker.held = None
      /\ worker' = [worker EXCEPT !.fault = TRUE, !.at = None] /\ cancelled' = TRUE
      /\ UNCHANGED <<mail, canceller, session, monitor, disk, view, past>>
  BY OrderIs DEF Abort, At
<1>2. /\ worker' \in Workers /\ worker'.pc = "scan" /\ worker'.held = None
      /\ worker'.errors = worker.errors /\ worker'.partial = worker.partial
  BY <1>1 DEF Workers
<1>3. Moves
  BY <1>1, <1>2 DEF Moves
<1>4. Order'
  BY <1>1, <1>3, MovesKeep
<1>5. TypeOK'
  BY <1>1, <1>2 DEF IInv, TypeOK
<1> QED BY <1>4, <1>5 DEF IInv, Order

LEMMA SuspendKeeps ==
    ASSUME IInv, Suspend \/ Release
    PROVE  IInv'
<1>1. mail \in Mails /\ mail.pauses \in 0 .. MAX_PAUSES /\ Order
  BY OrderIs, MailIs
<1>2. CASE Suspend
  <2>1. PICK n : n = mail.pauses + 1
    OBVIOUS
  <2>2. n \in 0 .. MAX_PAUSES /\ mail' = [mail EXCEPT !.pauses = n]
    BY <1>1, <1>2, <2>1, JunkSessionAssumption DEF Suspend
  <2>3. mail.idle /\ Drained(mail)
        /\ UNCHANGED <<cancelled, canceller, worker, session, monitor, disk, view, past>>
    BY <1>2 DEF Suspend, Admits
  <2> QED BY <2>2, <2>3, PauseKeeps
<1>3. CASE Release
  <2>1. PICK n : n = Less(mail.pauses, 1)
    OBVIOUS
  <2>2. n \in 0 .. MAX_PAUSES /\ mail' = [mail EXCEPT !.pauses = n]
    BY <1>1, <1>3, <2>1, JunkSessionAssumption DEF Release, Less
  <2>3. mail.idle /\ Drained(mail)
        /\ UNCHANGED <<cancelled, canceller, worker, session, monitor, disk, view, past>>
    BY <1>1, <1>3 DEF Release, Order, QuietInv
  <2> QED BY <2>2, <2>3, PauseKeeps
<1> QED BY <1>2, <1>3

-----------------------------------------------------------------------------
(* The invariant *)

LEMMA InitIs ==
    ASSUME Init
    PROVE  IInv
<1>1. /\ mail = [queue |-> <<>>, bytes |-> 0, progress |-> FALSE, terminal |-> None,
                 job |-> None, revision |-> 1, idle |-> FALSE, closed |-> FALSE,
                 exited |-> FALSE, pauses |-> 0]
      /\ cancelled = FALSE /\ canceller = 0 /\ worker = Begun("all", {})
      /\ session = [roots |-> {}, presented |-> {}, disabled |-> FALSE, warning |-> FALSE]
      /\ monitor = MonitorOff /\ view = NoView /\ past = NoPast
  BY DEF Init
<1>2. worker \in Workers /\ worker.pc = "begin" /\ worker.held = None /\ worker.errors = 0
  <2>1. {} \in SUBSET Dirs
    OBVIOUS
  <2> QED BY <1>1, <2>1, BegunIs
<1>3. mail \in Mails
  BY <1>1, EmptySeq, JunkSessionAssumption DEF Mails
<1>4. disk \in Disks
  BY JunkSessionAssumption DEF Init, Disks
<1>5. view \in Views /\ past \in Pasts /\ view.rev = 0 /\ view.done
  BY <1>1, JunkSessionAssumption DEF NoView, Views, NoPast, Pasts
<1>6. session \in Sessions
  BY <1>1 DEF Sessions
<1>7. TypeOK
  <2>1. cancelled \in BOOLEAN /\ canceller \in 0 .. MaxRevision /\ monitor \in Monitors
    <3>1. monitor \in Monitors
      BY <1>1, MonitorOffIs
    <3>2. MaxRevision \in Nat
      BY JunkSessionAssumption
    <3>3. 0 \in 0 .. MaxRevision
      BY <3>2
    <3> QED BY <1>1, <3>1, <3>3
  <2> QED BY <1>2, <1>3, <1>4, <1>5, <1>6, <2>1 DEF TypeOK
<1>8. Drained(mail) /\ mail.queue = <<>> /\ Unstarted /\ ~Ended
  BY <1>1, <1>2 DEF Drained, Unstarted, Ended
<1>9. Accounted(mail)
  <2>1. SumOf(<<>>) = 0 /\ Len(<<>>) = 0
    BY CountEmpty, EmptySeq DEF SumOf
  <2> QED BY <1>1, <2>1, JunkSessionAssumption DEF Accounted
<1>10. ClosedInv /\ ToldInv
  BY <1>1, <1>2, <1>5 DEF ClosedInv, ToldInv
<1>11. QuietInv
  BY <1>1, <1>2 DEF QuietInv
<1>12. StageInv
  <2>1. OneStart(<<>>) /\ AllOf(<<>>, mail.revision)
    BY DEF OneStart, AllOf
  <2> QED BY <1>1, <1>2, <1>5, <1>8, <2>1 DEF StageInv
<1>13. ErrorInv
  BY <1>1, <1>2, <1>8 DEF ErrorInv
<1> QED BY <1>7, <1>9, <1>10, <1>11, <1>12, <1>13 DEF IInv

LEMMA OwnerKeeps ==
    ASSUME IInv, Owner
    PROVE  IInv'
<1>1. {} \in SUBSET Dirs /\ \A d \in Dirs : {d} \in SUBSET Dirs
  OBVIOUS
<1>2. \/ Take \/ CancelToken \/ CloneToken \/ Suspend \/ Release \/ Close
      \/ \E kind \in {"all", "dirs", "changed"}, scope \in SUBSET Dirs : Refresh(kind, scope)
  BY <1>1 DEF Owner, Consume
<1> QED BY <1>2, TakeKeeps, TokenKeeps, SuspendKeeps, CloseKeeps, RefreshKeeps

LEMMA NextKeeps ==
    ASSUME IInv, [Next]_vars
    PROVE  IInv'
<1>1. CASE Worker
  BY <1>1, RunKeeps, TerminateKeeps, ResumeKeeps, TakeJobKeeps, WatchJobKeeps, StopKeeps,
     AbortKeeps, ProgressKeeps, CheckRootsKeeps DEF Worker, Work
<1>2. CASE Listener
  BY <1>2, ListenerKeeps
<1>3. CASE Owner
  BY <1>3, OwnerKeeps
<1>4. CASE Environment
  BY <1>4, EnvironmentKeeps
<1>5. CASE UNCHANGED vars
  <2>1. /\ mail' = mail /\ worker' = worker /\ view' = view
        /\ UNCHANGED <<cancelled, canceller, session, monitor, disk, past>>
    BY <1>5 DEF vars
  <2>2. RestOK' /\ cancelled' \in BOOLEAN /\ canceller' \in 0 .. MaxRevision
    BY <2>1 DEF RestOK, IInv, TypeOK
  <2> QED BY <2>1, <2>2, ApartKeeps
<1> QED BY <1>1, <1>2, <1>3, <1>4, <1>5 DEF Next

\* Every variable of the session keeps its type, whatever the worker, its
\* listener, the owner and other programs do (session.rs, mailbox.rs, watch.rs).
THEOREM TypeCorrect == Spec => []TypeOK
<1>1. Init => IInv
  BY InitIs
<1>2. IInv /\ [Next]_vars => IInv'
  BY NextKeeps
<1>3. IInv => TypeOK
  BY DEF IInv
<1> QED BY <1>1, <1>2, <1>3, PTL DEF Spec

\* The byte count of the mailbox is what its events cost, and neither the
\* number of events nor the bytes exceed their limits, though Base events are
\* replaced, progress is dropped and events wait for room (Writer::send,
\* coalesce, clear_coalesced, pop_locked).
THEOREM BytesTheorem == Spec => []BytesAccounted
<1>1. Init => IInv
  BY InitIs
<1>2. IInv /\ [Next]_vars => IInv'
  BY NextKeeps
<1>3. IInv => BytesAccounted
  BY DEF IInv, Accounted, BytesAccounted, Cost
<1> QED BY <1>1, <1>2, <1>3, PTL DEF Spec

\* While the owner holds a pause of suspend_auto_refresh the worker rests and
\* nothing is left to take: no job, change or late event can end the pause's
\* quiet (suspend_auto_refresh, watch_job, next_job).
THEOREM QuietTheorem == Spec => []PausedIsQuiet
<1>1. Init => IInv
  BY InitIs
<1>2. IInv /\ [Next]_vars => IInv'
  BY NextKeeps
<1>3. IInv => PausedIsQuiet
  BY DEF IInv, QuietInv, PausedIsQuiet
<1> QED BY <1>1, <1>2, <1>3, PTL DEF Spec

\* The owner sees revision after revision, each from its Started to its one
\* Completed, which counts every error it was shown; a complete revision had
\* none (Writer::send, finish, pop_locked, refresh_scope, watch_job).
THEOREM OrderTheorem == Spec => []EventsInOrder
<1>1. Init => IInv
  BY InitIs
<1>2. IInv /\ [Next]_vars => IInv'
  BY NextKeeps
<1>3. ASSUME IInv PROVE EventsInOrder
  <2>1. Order /\ mail \in Mails
    BY <1>3, OrderIs
  <2>2. mail.queue \in Seq(Events)
    BY <2>1, MailIs
  <2>3. CASE mail.queue # <<>>
    <3>1. Head(mail.queue) = mail.queue[1] /\ 1 \in DOMAIN mail.queue
      BY <2>2, <2>3, TailIs DEF Without
    <3>2. ~mail.closed /\ ~Drained(mail)
      BY <2>1, <2>3 DEF Order, ClosedInv, Drained
    <3>3. StageInv /\ ~Ended
      BY <2>1, <3>2 DEF Order, QuietInv, Ended
    <3>4. ~Unstarted /\ mail.queue[1].rev = mail.revision
      BY <3>1, <3>2, <3>3 DEF StageInv, AllOf
    <3>5. StartQueued(mail.queue) <=> mail.queue[1].kind = "started"
      BY <2>3 DEF StartQueued
    <3>6. mail.revision \in Nat
      BY <2>1, MailIs, JunkSessionAssumption
    <3>7. IF mail.queue[1].kind = "started" THEN view.done /\ mail.queue[1].rev = view.rev + 1
          ELSE ~view.done /\ mail.queue[1].rev = view.rev
      BY <3>3, <3>4, <3>5, <3>6 DEF StageInv
    <3> QED BY <2>1, <2>3, <3>1, <3>7 DEF EventsInOrder, Order, ToldInv
  <2>4. CASE mail.queue = <<>>
    <3>1. mail.terminal # None => ~view.done /\ mail.terminal.rev = view.rev
      <4>1. SUFFICES ASSUME mail.terminal # None
                     PROVE  ~view.done /\ mail.terminal.rev = view.rev
        OBVIOUS
      <4>2. ~mail.closed /\ ~Ended /\ mail.idle /\ ~StartQueued(mail.queue)
        BY <2>1, <2>4, <4>1 DEF Order, ClosedInv, QuietInv, Drained, Ended, StartQueued
      <4>3. StageInv /\ ~Unstarted
        BY <2>1, <4>2 DEF Order, QuietInv, Unstarted
      <4> QED BY <4>1, <4>2, <4>3 DEF StageInv
    <3> QED BY <2>1, <2>4, <3>1 DEF EventsInOrder, Order, ToldInv
  <2> QED BY <2>3, <2>4
<1> QED BY <1>1, <1>2, <1>3, PTL DEF Spec


-----------------------------------------------------------------------------
(* What is fresh. *)

OpenInv == DueInv /\ NewsInv /\ ScopeInv

\* Two workers that differ at most in their place, and in what they hold or
\* have counted and found.
Alike(w, v) ==
    /\ w.kind = v.kind /\ w.extra = v.extra /\ w.changed = v.changed /\ w.sound = v.sound
    /\ w.scope = v.scope /\ w.todo = v.todo /\ w.at = v.at /\ w.partial = v.partial
    /\ w.outcome = v.outcome

LEMMA GotoAlike ==
    ASSUME worker \in Workers, NEW pc \in Places
    PROVE  Goto(pc) \in Workers /\ Goto(pc).pc = pc /\ Alike(Goto(pc), worker)
BY DEF Goto, Workers, Alike

\* The session is not closed by sending, and of the Writer only what it holds
\* is not as intended.
LEMMA EmitAlike ==
    ASSUME IInv, NEW m \in {mail, Cleared(mail)}, NEW kind \in Kinds,
           NEW d \in Dirs \cup {None}, NEW next \in Workers,
           kind \in RowKinds <=> d # None, EmitFrom(m, kind, d, next), ~mail.closed
    PROVE  ~mail'.closed /\ Alike(worker', next) /\ worker'.pc = next.pc
<1>1. mail \in Mails /\ Accounted(mail) /\ m \in Mails /\ Accounted(m) /\ Kept(m, mail)
  <2>1. mail \in Mails /\ Accounted(mail)
    BY DEF IInv, TypeOK
  <2>2. Cleared(mail) \in Mails /\ Accounted(Cleared(mail)) /\ Kept(Cleared(mail), mail)
    BY <2>1, ClearedIs
  <2>3. Kept(mail, mail)
    BY KeptSelf
  <2> QED BY <2>1, <2>2, <2>3
<1>2. /\ mail' \in Mails /\ Accounted(mail') /\ SameRest(mail', mail)
      /\ \E e \in Events : /\ e.kind = kind /\ e.rev = mail.revision /\ e.dir = d
                           /\ \/ Holds(e, next)
                              \/ \E f \in Mails : Kept(f, mail) /\ Queues(f, e, next)
  BY <1>1, EmitIs
<1>3. PICK e \in Events : worker' = next \/ worker' = [next EXCEPT !.held = e]
  BY <1>2 DEF Holds, Queues
<1>4. Alike(worker', next) /\ worker'.pc = next.pc
  BY <1>3 DEF Workers, Alike
<1>5. mail'.closed = mail.closed
  BY <1>2 DEF SameRest
<1> QED BY <1>4, <1>5

\* A step of the worker that neither reads nor looks at the listener.
LEMMA StepFresh ==
    ASSUME OpenInv, NEW w,
           worker'.kind = worker.kind, worker'.extra = worker.extra,
           worker'.changed = worker.changed, worker'.sound = worker.sound,
           worker'.scope = worker.scope, worker'.outcome = worker.outcome, worker'.pc = w,
           session'.roots = session.roots, session'.disabled = session.disabled,
           monitor' = monitor, disk'.moved = disk.moved,
           past'.behind = past.behind, past'.fresh = past.fresh,
           past'.gapless = past.gapless, past'.due \subseteq past.due,
           ~Resting, w \notin {"idle", "gone", "begin"}, w = "probe" => worker.kind = "all",
           worker.kind # "changed", Installed' => Installed,
           Broken \/ worker.partial => Broken' \/ worker'.partial,
           ~Broken' /\ ~worker'.partial => Left' = Left /\ Got \subseteq Got',
           w = "scan" => worker.pc = "scan" /\ worker'.at \in {worker.at, None},
           worker'.at # None => w = "scan"
    PROVE  OpenInv'
<1>1. ~Resting'
  BY DEF Resting
<1>2. DueInv'
  <2>1. Hopeful' => Hopeful
    BY <1>1 DEF Hopeful
  <2>2. Hopeful' => Left' = Left /\ Got \subseteq Got'
    BY DEF Hopeful
  <2> QED BY <2>1, <2>2 DEF DueInv, OpenInv
<1>3. NewsInv'
  <2>1. Trusted' => Trusted /\ Left' = Left /\ Got \subseteq Got'
    BY <1>1 DEF Trusted
  <2>2. Sees' = Sees
    BY DEF Sees
  <2> QED BY <2>1, <2>2 DEF NewsInv, OpenInv
<1>4. ScopeInv'
  <2>1. worker'.outcome # "complete"
    BY DEF ScopeInv, OpenInv
  <2> QED BY <1>1, <2>1 DEF ScopeInv, OpenInv
<1> QED BY <1>2, <1>3, <1>4 DEF OpenInv

\* The same with the mailbox left alone or one event sent.
LEMMA GoFresh ==
    ASSUME IInv, OpenInv, ~mail.closed, NEW v \in Workers,
           \/ mail' = mail /\ worker' = v
           \/ \E m \in {mail, Cleared(mail)}, kind \in Kinds, d \in Dirs \cup {None} :
                 (kind \in RowKinds <=> d # None) /\ EmitFrom(m, kind, d, v),
           v.kind = worker.kind, v.extra = worker.extra, v.changed = worker.changed,
           v.sound = worker.sound, v.scope = worker.scope, v.outcome = worker.outcome,
           session'.roots = session.roots, session'.disabled = session.disabled,
           monitor' = monitor, disk' = disk, past' = past,
           ~Resting, worker.pc # "begin", v.pc \notin {"idle", "gone", "begin"},
           v.pc = "probe" => worker.kind = "all",
           v.pc \in {"discover", "install"} => worker.pc = v.pc,
           v.pc \in {"warn", "traverse", "scan", "publish", "replace", "probe", "last", "done"}
               => Installed,
           Broken \/ worker.partial => v.pc \in {"fail", "failed"} \/ v.partial,
           ~v.partial /\ v.pc \notin {"fail", "failed"} =>
               \/ Early /\ v.pc = "traverse"
               \/ ~Early /\ v.pc # "traverse" /\ v.pc # "warn" /\ (v.pc = "scan" <=> worker.pc = "scan")
                     /\ (v.pc = "scan" => v.todo = worker.todo)
               \/ worker.pc = "scan" /\ worker.todo = {} /\ v.pc = "publish",
           v.pc = "scan" => worker.pc = "scan" /\ v.at \in {worker.at, None},
           v.at # None => v.pc = "scan"
    PROVE  OpenInv' /\ ~mail'.closed
<1>1. ~mail'.closed /\ Alike(worker', v) /\ worker'.pc = v.pc
  BY EmitAlike DEF Alike
<1>2. worker.kind # "changed"
  BY DEF OpenInv, ScopeInv, Resting
<1>3. ~Broken' /\ ~worker'.partial => Left' = Left /\ Got \subseteq Got'
  <2>1. ASSUME ~v.partial /\ v.pc \notin {"fail", "failed"}
        PROVE  Left' = Left
    <3>1. CASE Early /\ v.pc = "traverse"
      BY <1>1, <3>1 DEF Left, Early, Alike
    <3>2. CASE ~Early /\ v.pc # "traverse" /\ v.pc # "warn" /\ (v.pc = "scan" <=> worker.pc = "scan")
                     /\ (v.pc = "scan" => v.todo = worker.todo)
      BY <1>1, <3>2 DEF Left, Early, Alike
    <3>3. CASE worker.pc = "scan" /\ worker.todo = {} /\ v.pc = "publish"
      BY <1>1, <3>3 DEF Left, Early, Alike
    <3> QED BY <2>1, <3>1, <3>2, <3>3
  <2>2. ASSUME ~v.partial /\ v.pc \notin {"fail", "failed"}
        PROVE  Got \subseteq Got'
    <3>1. CASE Early /\ v.pc = "traverse"
      BY <1>1, <3>1 DEF Got, Early, Alike, Resting
    <3>2. CASE ~Early
      BY <1>1, <2>2, <3>2 DEF Got, Early, Alike, Resting
    <3> QED BY <2>2, <3>1, <3>2 DEF Early
  <2> QED BY <1>1, <2>1, <2>2 DEF Broken, Alike
<1>4. Installed' => Installed
  BY <1>1 DEF Installed
<1>5. Broken \/ worker.partial => Broken' \/ worker'.partial
  BY <1>1 DEF Broken, Alike
<1> QED BY <1>1, <1>2, <1>3, <1>4, <1>5, StepFresh DEF Alike

\* The steps of run() that only go on, or only send.
LEMMA GoesFresh ==
    ASSUME IInv, OpenInv, ~mail.closed,
           \/ Warn \/ ReadError \/ Scanned \/ Replace \/ PassDone \/ ReportFailure \/ Breaks
           \/ \E d \in Dirs : Publish(d) \/ Withdraw(d)
    PROVE  OpenInv' /\ ~mail'.closed
<1>1. worker \in Workers /\ worker.held = None /\ worker.errors \in Nat /\ worker.todo \in SUBSET Dirs
      /\ worker.pc \in {"warn", "scan", "publish", "replace", "fail", "discover", "traverse"}
  BY WorkerIs DEF IInv, TypeOK, Warn, ReadError, Scanned, Replace, PassDone, ReportFailure, Breaks,
     Publish, Withdraw, At
<1>2. /\ monitor' = monitor /\ disk' = disk /\ past' = past
      /\ session'.roots = session.roots /\ session'.disabled = session.disabled
  <2>1. monitor' = monitor /\ disk' = disk /\ past' = past
    BY DEF Warn, ReadError, Scanned, Replace, PassDone, ReportFailure, Breaks, Fail, Publish, Withdraw
  <2>2. \/ session' = session \/ session' = [session EXCEPT !.warning = FALSE]
        \/ \E d \in Dirs : session' = [session EXCEPT !.presented = @ \ {d}]
    BY DEF Warn, ReadError, Scanned, Replace, PassDone, ReportFailure, Breaks, Fail, Publish, Withdraw
  <2>3. session \in Sessions
    BY DEF IInv, TypeOK
  <2> QED BY <2>1, <2>2, <2>3 DEF Sessions
<1> DEFINE Sends(v) ==
             \/ mail' = mail /\ worker' = v
             \/ \E m \in {mail, Cleared(mail)}, kind \in Kinds, d \in Dirs \cup {None} :
                   (kind \in RowKinds <=> d # None) /\ EmitFrom(m, kind, d, v)
           Same(v) == /\ v.at \in {worker.at, None}
                      /\ v.kind = worker.kind /\ v.extra = worker.extra
                      /\ v.changed = worker.changed /\ v.sound = worker.sound
                      /\ v.scope = worker.scope /\ v.outcome = worker.outcome
<1>0. worker.pc # "scan" => worker.at = None
  BY DEF OpenInv, ScopeInv
<1>3. {"warning", "error", "current", "removed"} \subseteq Kinds
      /\ "warning" \notin RowKinds /\ "error" \notin RowKinds
      /\ "current" \in RowKinds /\ "removed" \in RowKinds
      /\ (\A d \in Dirs : d # None)
  BY JunkSessionAssumption DEF Kinds, RowKinds
<1>4. CASE Warn
  <2>1. PICK v : v = Goto("traverse")
    OBVIOUS
  <2>2. v \in Workers /\ v.pc = "traverse" /\ Alike(v, worker)
    BY <1>1, <2>1, GotoAlike DEF Places
  <2>3. Sends(v)
    BY <1>3, <1>4, <2>1 DEF Warn, Emit
  <2>4. worker.pc = "warn"
    BY <1>4 DEF Warn, At
  <2> QED BY <1>0, <1>2, <2>2, <2>3, <2>4, GoFresh DEF Alike, Resting, Installed, Early, Broken
<1>5. CASE ReadError
  <2>1. PICK todo \in SUBSET Dirs : todo = worker.todo \ {worker.at}
    BY <1>1
  <2>2. PICK v : v = [worker EXCEPT !.at = None, !.todo = todo,
                                    !.errors = worker.errors + 1, !.partial = TRUE]
    OBVIOUS
  <2>3. v \in Workers
    <3>1. PICK u : u = [worker EXCEPT !.at = None, !.todo = todo]
      OBVIOUS
    <3>2. u \in Workers
      BY <1>1, <3>1 DEF Workers
    <3>3. v = [u EXCEPT !.errors = worker.errors + 1, !.partial = TRUE]
      BY <2>2, <3>1
    <3>4. worker.errors + 1 \in Nat
      BY <1>1
    <3> QED BY <3>2, <3>3, <3>4 DEF Workers
  <2>4. Same(v) /\ v.pc = worker.pc /\ v.partial /\ v.at = None
    BY <1>1, <2>2 DEF Workers
  <2>5. Sends(v)
    <3>1. Emit("error", None, v)
      BY <1>5, <2>1, <2>2 DEF ReadError
    <3> QED BY <1>3, <3>1 DEF Emit
  <2>6. worker.pc = "scan"
    BY <1>5 DEF ReadError, At
  <2> QED BY <1>0, <1>2, <2>3, <2>4, <2>5, <2>6, GoFresh DEF Resting, Installed, Early, Broken
<1>6. CASE Scanned
  <2>1. worker.pc = "scan" /\ worker.at = None
    BY <1>6 DEF Scanned, At
  <2>2. PICK v : worker' = v
    OBVIOUS
  <2>3. CASE v = Goto("fail")
    <3>1. v \in Workers /\ v.pc = "fail" /\ Alike(v, worker)
      BY <1>1, <2>3, GotoAlike DEF Places
    <3>2. Sends(v)
      BY <1>6, <2>2 DEF Scanned
    <3> QED BY <1>0, <1>2, <2>1, <3>1, <3>2, GoFresh DEF Alike, Resting, Installed, Early, Broken
  <2>4. CASE /\ worker.todo = {}
             /\ v = [worker EXCEPT !.pc = "publish", !.todo = worker.found]
    <3>1. v \in Workers /\ v.pc = "publish" /\ Same(v) /\ v.partial = worker.partial
      <4>1. "publish" \in Places /\ worker.found \in SUBSET Dirs
        BY <1>1, WorkerIs DEF Places
      <4>2. v \in Workers
        BY <1>1, <2>4, <4>1 DEF Workers
      <4>3. v.pc = "publish" /\ Same(v) /\ v.partial = worker.partial
        BY <1>1, <2>4 DEF Workers
      <4> QED BY <4>2, <4>3
    <3>2. Sends(v)
      BY <1>6, <2>2 DEF Scanned
    <3> QED BY <1>0, <1>2, <2>1, <2>4, <3>1, <3>2, GoFresh DEF Resting, Installed, Early, Broken
  <2> QED BY <1>6, <2>2, <2>3, <2>4 DEF Scanned
<1>7. CASE Replace
  <2>1. worker.pc = "publish"
    BY <1>7 DEF Replace, At
  <2>2. PICK partial \in BOOLEAN, todo \in SUBSET Dirs :
           /\ worker' = [worker EXCEPT !.pc = "replace", !.partial = partial, !.todo = todo]
           /\ worker.partial => partial
    <3>1. (session.presented \cap Covers(worker)) \ worker.found \in SUBSET Dirs
      BY RestIs DEF IInv
    <3>2. (worker.partial \/ worker.errors > 0) \in BOOLEAN
      OBVIOUS
    <3> QED BY <1>7, <3>1, <3>2 DEF Replace
  <2>3. PICK v : v = [worker EXCEPT !.pc = "replace", !.partial = partial, !.todo = todo]
    OBVIOUS
  <2>4. v \in Workers
    <3>1. "replace" \in Places
      BY DEF Places
    <3> QED BY <1>1, <2>3, <3>1 DEF Workers
  <2>5. v.pc = "replace" /\ Same(v) /\ v.partial = partial
    BY <1>1, <2>3 DEF Workers
  <2>6. Sends(v)
    BY <1>7, <2>2, <2>3 DEF Replace
  <2> QED BY <1>0, <1>2, <2>1, <2>2, <2>4, <2>5, <2>6, GoFresh DEF Resting, Installed, Early, Broken
<1>8. CASE PassDone
  <2>1. worker.pc = "replace"
    BY <1>8 DEF PassDone, At
  <2>2. worker.kind \in {"all", "dirs"}
    BY <1>1, <2>1, WorkerIs DEF OpenInv, ScopeInv
  <2>3. PICK pc \in {"done", "last", "probe"} :
           worker' = Goto(pc) /\ (pc = "probe" => worker.kind = "all")
    BY <1>8, <2>2 DEF PassDone
  <2>4. PICK v : v = Goto(pc)
    OBVIOUS
  <2>5. v \in Workers /\ v.pc = pc /\ Alike(v, worker)
    BY <1>1, <2>3, <2>4, GotoAlike DEF Places
  <2>6. Sends(v)
    BY <1>8, <2>3, <2>4 DEF PassDone
  <2> QED BY <1>0, <1>2, <2>1, <2>3, <2>5, <2>6, GoFresh DEF Alike, Resting, Installed, Early, Broken
<1>9. CASE ReportFailure
  <2>1. worker.pc = "fail"
    BY <1>9 DEF ReportFailure, At
  <2>2. PICK v : v = [worker EXCEPT !.pc = "failed", !.errors = worker.errors + 1]
    OBVIOUS
  <2>3. v \in Workers /\ v.pc = "failed" /\ Same(v)
    <3>1. worker.errors + 1 \in Nat /\ "failed" \in Places
      BY <1>1 DEF Places
    <3>2. v \in Workers
      BY <1>1, <2>2, <3>1 DEF Workers
    <3>3. v.pc = "failed" /\ Same(v)
      BY <1>1, <2>2 DEF Workers
    <3> QED BY <3>2, <3>3
  <2>4. Sends(v)
    <3>1. Emit("error", None, v)
      BY <1>9, <2>2 DEF ReportFailure
    <3> QED BY <1>3, <3>1 DEF Emit
  <2> QED BY <1>0, <1>2, <2>1, <2>3, <2>4, GoFresh DEF Resting, Installed, Early, Broken
<1>10. CASE Breaks
  <2>1. PICK v : v = Goto("fail")
    OBVIOUS
  <2>2. v \in Workers /\ v.pc = "fail" /\ Alike(v, worker)
    BY <1>1, <2>1, GotoAlike DEF Places
  <2>3. Sends(v)
    BY <1>10, <2>1 DEF Breaks, Fail
  <2>4. worker.pc \in {"discover", "traverse", "publish", "scan"} /\ worker.at = None
    BY <1>0, <1>10 DEF Breaks, At
  <2> QED BY <1>0, <1>2, <2>2, <2>3, <2>4, GoFresh DEF Alike, Resting, Installed, Early, Broken
<1>11. ASSUME NEW d \in Dirs, Publish(d) \/ Withdraw(d)
       PROVE  OpenInv' /\ ~mail'.closed
  <2>1. PICK v : v = [worker EXCEPT !.todo = @ \ {d}]
    OBVIOUS
  <2>2. v \in Workers /\ v.pc = worker.pc /\ Same(v) /\ v.partial = worker.partial
    BY <1>1, <2>1 DEF Workers
  <2>3. Sends(v)
    BY <1>3, <1>11, <2>1 DEF Publish, Withdraw, Emit
  <2>4. worker.pc \in {"publish", "replace"}
    BY <1>11 DEF Publish, Withdraw, At
  <2> QED BY <1>0, <1>2, <2>2, <2>3, <2>4, GoFresh DEF Resting, Installed, Early, Broken
<1> QED BY <1>4, <1>5, <1>6, <1>7, <1>8, <1>9, <1>10, <1>11

LEMMA ScopeFresh ==
    ASSUME IInv, OpenInv, ~mail.closed, ChangedScope
    PROVE  OpenInv'
<1>1. worker \in Workers /\ worker.pc = "begin" /\ worker.kind = "changed"
      /\ past \in Pasts /\ monitor \in Monitors
  BY DEF IInv, TypeOK, ChangedScope, At
<1>2. /\ session' = session /\ disk' = disk
      /\ past'.due = (past.behind \cap session.roots) \ monitor.news
      /\ past'.behind = past.behind /\ past'.fresh = past.fresh /\ past'.gapless = past.gapless
  BY <1>1 DEF ChangedScope, Pasts
<1>3. /\ worker'.pc = "begin" /\ worker'.sound = past.gapless /\ worker'.extra = worker.extra
      /\ worker'.at = worker.at /\ worker'.partial = worker.partial
      /\ worker'.outcome = worker.outcome
  BY <1>1 DEF ChangedScope, Workers
<1>4. worker'.kind \in {"all", "dirs"}
  BY <1>1 DEF ChangedScope, Workers
<1>5. worker'.kind = "dirs" =>
         /\ monitor.on /\ ~monitor.dead /\ ~disk.moved /\ ~monitor.full
         /\ worker'.scope = monitor.paths
  BY <1>1 DEF ChangedScope, Workers
<1>6. /\ monitor'.on = monitor.on /\ monitor'.dead = monitor.dead
      /\ monitor'.watched = monitor.watched /\ monitor'.news = monitor.news
  BY <1>1 DEF ChangedScope, Taken, Monitors
<1>7. Left = {} /\ (Got = {} \/ worker.extra) /\ Got' = Got
      /\ Left' = IF worker'.kind = "all" THEN Dirs ELSE worker'.scope
  BY <1>1, <1>2, <1>3, <1>4 DEF Left, Got, Early, Resting
<1>8. session.roots \in SUBSET Dirs
  BY RestIs DEF IInv
<1>9. ASSUME worker'.kind = "dirs", past.gapless, ~worker.partial
      PROVE  /\ past.behind \cap session.roots \subseteq monitor.news \cup monitor.paths \cup Got
             /\ session.roots \subseteq monitor.watched
  <2>1. Trusted /\ Sees
    BY <1>1, <1>5, <1>9 DEF Trusted, Sees, Resting, Broken
  <2> QED BY <1>7, <2>1 DEF OpenInv, NewsInv
<1>10. DueInv'
  <2>1. CASE worker'.kind = "all"
    BY <1>2, <1>7, <1>8, <2>1 DEF DueInv
  <2>2. CASE worker'.kind = "dirs"
    <3>1. SUFFICES ASSUME past.gapless, ~worker.partial
                   PROVE  past'.due \cap session.roots \subseteq Got' \cup Left'
      BY <1>2, <1>3 DEF DueInv, Hopeful
    <3> QED BY <1>2, <1>5, <1>7, <1>9, <2>2, <3>1
  <2> QED BY <1>4, <2>1, <2>2
<1>11. NewsInv'
  <2>1. CASE worker'.kind = "all"
    BY <1>2, <1>3, <1>7, <1>8, <2>1 DEF NewsInv
  <2>2. CASE worker'.kind = "dirs" /\ ~past.gapless
    <3>1. ~worker'.extra => ~Trusted'
      BY <1>2, <1>3, <2>2 DEF Trusted, Resting
    <3>2. ~worker.extra
      BY <1>1 DEF OpenInv, ScopeInv
    <3> QED BY <1>3, <3>1, <3>2 DEF NewsInv
  <2>3. CASE worker'.kind = "dirs" /\ past.gapless
    <3>1. SUFFICES ASSUME ~worker.partial
                   PROVE  /\ past.behind \cap session.roots
                                \subseteq monitor.news \cup monitor'.paths \cup Got' \cup Left'
                          /\ session.roots \subseteq monitor.watched \cup Left'
      <4>1. Trusted' => ~worker.partial
        BY <1>3 DEF Trusted, Resting
      <4> QED BY <1>2, <1>3, <1>6, <3>1, <4>1 DEF NewsInv
    <3> QED BY <1>5, <1>7, <1>9, <2>3, <3>1
  <2> QED BY <1>4, <2>1, <2>2, <2>3
<1>12. ScopeInv'
  BY <1>1, <1>2, <1>3, <1>6 DEF OpenInv, ScopeInv, Resting, Installed
<1> QED BY <1>10, <1>11, <1>12 DEF OpenInv

LEMMA BeginFresh ==
    ASSUME IInv, OpenInv, ~mail.closed, Begin
    PROVE  OpenInv' /\ ~mail'.closed
<1>1. worker \in Workers /\ worker.pc = "begin" /\ worker.held = None /\ worker.kind # "changed"
      /\ past \in Pasts
  BY DEF IInv, TypeOK, Begin, At
<1>2. PICK pc \in {"discover", "fail"} : Emit("started", None, Goto(pc))
  BY DEF Begin
<1>3. PICK v : v = Goto(pc)
  OBVIOUS
<1>4. v \in Workers /\ v.pc = pc /\ Alike(v, worker)
  BY <1>1, <1>2, <1>3, GotoAlike DEF Places
<1>5. ~mail'.closed /\ Alike(worker', v) /\ worker'.pc = pc
  <2>1. "started" \in Kinds /\ "started" \notin RowKinds
    BY DEF Kinds, RowKinds
  <2> QED BY <1>2, <1>3, <1>4, <2>1, EmitAlike DEF Emit
<1>6. /\ session' = session /\ monitor' = monitor /\ disk' = disk
      /\ past'.behind = past.behind /\ past'.fresh = past.fresh /\ past'.gapless = past.gapless
      /\ past'.due \subseteq past.due
  BY <1>1 DEF Begin, Pasts
<1>7. Alike(worker', worker)
  BY <1>4, <1>5 DEF Alike
<1>8. worker'.pc = "discover" => Left' = Left /\ Got' = Got
  BY <1>1, <1>6, <1>7 DEF Left, Got, Early, Resting, Alike
<1>9. pc = "fail" => Broken'
  BY <1>5 DEF Broken
<1>10. worker'.at = None
  BY <1>1, <1>7 DEF OpenInv, ScopeInv, Alike
<1> QED BY <1>1, <1>2, <1>5, <1>6, <1>7, <1>8, <1>9, <1>10, StepFresh
        DEF Alike, Resting, Installed, Broken

LEMMA DiscoverFresh ==
    ASSUME IInv, OpenInv, Discover
    PROVE  OpenInv'
<1>1. worker \in Workers /\ worker.pc = "discover" /\ session \in Sessions
  BY DEF IInv, TypeOK, Discover, At
<1>2. worker.kind \in {"all", "dirs"}
  BY <1>1, WorkerIs DEF OpenInv, ScopeInv
<1>3. /\ monitor' = monitor /\ disk' = disk /\ past' = past
      /\ session'.disabled = session.disabled
      /\ worker.kind = "dirs" => session'.roots = session.roots
      /\ session'.roots \subseteq Dirs
  <2>1. monitor' = monitor /\ disk' = disk /\ past' = past
    BY DEF Discover
  <2>2. session' = [session EXCEPT !.roots = IF worker.kind = "all" THEN Known ELSE @]
    BY DEF Discover
  <2> QED BY <1>1, <2>1, <2>2 DEF Sessions, Dirs
<1>4. worker'.pc = "install" /\ Alike(worker', worker)
  BY <1>1, GotoAlike DEF Discover, Places
<1>5. Left' = Left /\ Got' = Got /\ (worker.kind = "all" => Left = Dirs)
  BY <1>1, <1>3, <1>4 DEF Left, Got, Early, Resting, Alike
<1>6. (Hopeful' = Hopeful) /\ (Trusted' = Trusted) /\ Sees' = Sees
  BY <1>1, <1>3, <1>4 DEF Hopeful, Trusted, Sees, Resting, Broken, Alike
<1>7. DueInv'
  <2>1. CASE worker.kind = "all"
    BY <1>3, <1>5, <2>1 DEF DueInv
  <2>2. CASE worker.kind = "dirs"
    BY <1>3, <1>4, <1>5, <1>6, <2>2 DEF OpenInv, DueInv, Alike
  <2> QED BY <1>2, <2>1, <2>2
<1>8. NewsInv'
  <2>1. CASE worker.kind = "all"
    BY <1>3, <1>4, <1>5, <2>1 DEF NewsInv
  <2>2. CASE worker.kind = "dirs"
    BY <1>3, <1>4, <1>5, <1>6, <2>2 DEF OpenInv, NewsInv
  <2> QED BY <1>2, <2>1, <2>2
<1>9. ScopeInv'
  BY <1>1, <1>2, <1>3, <1>4 DEF OpenInv, ScopeInv, Resting, Installed, Alike
<1> QED BY <1>7, <1>8, <1>9 DEF OpenInv

LEMMA PrepareFresh ==
    ASSUME IInv, OpenInv, PrepareMonitor
    PROVE  OpenInv'
<1>1. worker \in Workers /\ worker.pc = "install" /\ monitor \in Monitors /\ session \in Sessions
      /\ disk \in Disks
  BY DEF IInv, TypeOK, PrepareMonitor, At
<1>2. worker.kind \in {"all", "dirs"}
  BY <1>1, WorkerIs DEF OpenInv, ScopeInv
<1>3. worker'.pc = "warn" /\ Alike(worker', worker) /\ past' = past
  BY <1>1, GotoAlike DEF PrepareMonitor, Places
<1>4. session'.roots = session.roots /\ session.roots \subseteq Dirs
      /\ (session.disabled => session'.disabled)
  BY <1>1 DEF PrepareMonitor, Sessions
<1>5. Left' = Left /\ Got' = Got /\ (worker.kind = "all" => Left = Dirs)
  BY <1>1, <1>3 DEF Left, Got, Early, Resting, Alike
<1>6. (Hopeful' = Hopeful) /\ (Trusted' = Trusted)
  BY <1>1, <1>3 DEF Hopeful, Trusted, Resting, Broken, Alike
<1>7. \/ /\ NeedsMonitor
         /\ monitor' = [MonitorOff EXCEPT !.on = TRUE, !.roots = session.roots,
                                          !.full = Rebuilding]
      \/ monitor' = MonitorOff /\ session'.disabled
      \/ ~NeedsMonitor /\ session' = session /\ monitor' = monitor /\ disk' = disk
  BY <1>1 DEF PrepareMonitor, Sessions
<1>8. DueInv'
  BY <1>3, <1>4, <1>5, <1>6 DEF OpenInv, DueInv, Alike
<1>9. NewsInv'
  <2>1. CASE worker.kind = "all"
    BY <1>3, <1>4, <1>5, <2>1 DEF NewsInv
  <2>2. CASE worker.kind = "dirs"
    <3>1. CASE NeedsMonitor /\ monitor' = [MonitorOff EXCEPT !.on = TRUE, !.roots = session.roots,
                                          !.full = Rebuilding]
      <4>1. monitor'.full = Rebuilding
        BY <3>1 DEF MonitorOff
      <4>2. CASE monitor.on
        BY <2>2, <4>1, <4>2 DEF Rebuilding, NewsInv, Sees
      <4>3. CASE ~monitor.on
        <5>1. ~past.gapless /\ ~worker.extra
          BY <3>1, <4>3 DEF OpenInv, ScopeInv, NeedsMonitor
        <5>2. ~Trusted
          BY <1>1, <2>2, <5>1 DEF Trusted, Resting
        <5> QED BY <1>6, <5>2 DEF NewsInv
      <4> QED BY <4>2, <4>3
    <3>2. CASE monitor' = MonitorOff
      BY <3>2 DEF NewsInv, Sees, MonitorOff
    <3>3. CASE session' = session /\ monitor' = monitor /\ disk' = disk
      BY <1>3, <1>5, <1>6, <3>3 DEF OpenInv, NewsInv, Sees
    <3> QED BY <1>7, <3>1, <3>2, <3>3
  <2> QED BY <1>2, <2>1, <2>2
<1>10. ScopeInv'
  <2>1. monitor'.on \/ session'.disabled
    BY <1>7 DEF MonitorOff, NeedsMonitor
  <2>2. worker.at = None /\ worker.outcome # "complete"
    BY <1>1 DEF OpenInv, ScopeInv, Resting
  <2> QED BY <1>2, <1>3, <2>1, <2>2 DEF ScopeInv, Alike
<1> QED BY <1>8, <1>9, <1>10 DEF OpenInv

LEMMA TraverseFresh ==
    ASSUME IInv, OpenInv, ~mail.closed, Traverse
    PROVE  OpenInv' /\ ~mail'.closed
<1>1. worker \in Workers /\ worker.pc = "traverse" /\ worker.held = None /\ past \in Pasts
  BY DEF IInv, TypeOK, Traverse, At
<1>2. worker.kind \in {"all", "dirs"} /\ session.roots \subseteq Dirs
  BY <1>1, WorkerIs, RestIs DEF OpenInv, ScopeInv, IInv
<1>3. ScopeOf(worker) \in SUBSET Dirs
  BY <1>1, <1>2, WorkerIs DEF ScopeOf
<1>4. PICK v : v = [worker EXCEPT !.pc = "scan", !.todo = ScopeOf(worker), !.found = {}]
  OBVIOUS
<1>5. v \in Workers /\ v.pc = "scan" /\ v.todo = ScopeOf(worker)
  <2>1. "scan" \in Places
    BY DEF Places
  <2>2. v \in Workers
    BY <1>1, <1>3, <1>4, <2>1 DEF Workers
  <2> QED BY <1>1, <1>4, <2>2 DEF Workers
<1>6. /\ v.kind = worker.kind /\ v.extra = worker.extra /\ v.changed = worker.changed
      /\ v.sound = worker.sound /\ v.at = worker.at /\ v.partial = worker.partial
      /\ v.outcome = worker.outcome
  BY <1>1, <1>4 DEF Workers
<1>7. ~mail'.closed /\ Alike(worker', v) /\ worker'.pc = "scan"
  <2>1. "phase" \in Kinds /\ "phase" \notin RowKinds
    BY DEF Kinds, RowKinds
  <2>2. EmitFrom(Cleared(mail), "phase", None, v)
    BY <1>4 DEF Traverse, EmitPhase
  <2> QED BY <1>5, <2>1, <2>2, EmitAlike
<1>8. /\ session' = session /\ monitor' = monitor /\ disk' = disk
      /\ past'.behind = past.behind /\ past'.gapless = past.gapless /\ past'.due = past.due
      /\ worker.extra => past'.fresh = past.fresh
  BY <1>1 DEF Traverse, Pasts
<1>9. Left' = ScopeOf(worker) /\ Got \subseteq Got'
  BY <1>1, <1>5, <1>6, <1>7, <1>8 DEF Left, Got, Early, Resting, Alike
<1>10. Left \cap session.roots \subseteq Left'
  BY <1>1, <1>2, <1>9 DEF Left, Early, ScopeOf
<1>11. (Hopeful' = Hopeful) /\ (Trusted' = Trusted) /\ Sees' = Sees
  BY <1>1, <1>6, <1>7, <1>8 DEF Hopeful, Trusted, Sees, Resting, Broken, Alike
<1>12. DueInv'
  BY <1>6, <1>7, <1>8, <1>9, <1>10, <1>11 DEF OpenInv, DueInv, Alike
<1>13. NewsInv'
  <2>1. worker'.at = None
    BY <1>1, <1>6, <1>7 DEF OpenInv, ScopeInv, Alike
  <2> QED BY <1>6, <1>7, <1>8, <1>9, <1>10, <1>11, <2>1 DEF OpenInv, NewsInv
<1>14. ScopeInv'
  BY <1>1, <1>2, <1>6, <1>7, <1>8 DEF OpenInv, ScopeInv, Resting, Installed, Alike
<1> QED BY <1>7, <1>12, <1>13, <1>14 DEF OpenInv

LEMMA OpenFresh ==
    ASSUME IInv, OpenInv, NEW d \in Dirs, OpenDirectory(d)
    PROVE  OpenInv'
<1>1. worker \in Workers /\ worker.pc = "scan" /\ monitor \in Monitors
  BY DEF IInv, TypeOK, OpenDirectory, At
<1>2. worker'.pc = "scan" /\ worker'.at = d /\ session' = session /\ disk' = disk /\ past' = past
  BY <1>1 DEF OpenDirectory, Workers
<1>3. /\ worker'.kind = worker.kind /\ worker'.extra = worker.extra
      /\ worker'.changed = worker.changed /\ worker'.sound = worker.sound
      /\ worker'.todo = worker.todo /\ worker'.partial = worker.partial
      /\ worker'.outcome = worker.outcome
  BY <1>1 DEF OpenDirectory, Workers
<1>4. Left' = Left /\ Got' = Got
  BY <1>1, <1>2, <1>3 DEF Left, Got, Early, Resting
<1>5. (Hopeful' = Hopeful) /\ (Trusted' = Trusted)
  BY <1>1, <1>2, <1>3 DEF Hopeful, Trusted, Resting, Broken
<1>6. DueInv'
  BY <1>2, <1>3, <1>4, <1>5 DEF OpenInv, DueInv
<1>7. /\ monitor'.on = monitor.on
      /\ \/ monitor'.dead
         \/ ~monitor.on /\ monitor' = monitor
         \/ monitor.dead /\ monitor' = monitor
         \/ /\ monitor'.watched = monitor.watched \cup {d} /\ monitor'.news = monitor.news
            /\ monitor'.paths = monitor.paths /\ monitor'.full = monitor.full
            /\ monitor'.dead = monitor.dead
  BY <1>1 DEF OpenDirectory, FailedMonitor, Gap, Monitors
<1>8. NewsInv'
  <2>1. CASE ~Sees'
    BY <2>1 DEF NewsInv
  <2>2. CASE Sees'
    <3>1. /\ monitor'.watched = monitor.watched \cup {d} /\ monitor'.news = monitor.news
          /\ monitor'.paths = monitor.paths /\ Sees
      BY <1>2, <1>7, <2>2 DEF Sees
    <3> QED BY <1>2, <1>4, <1>5, <3>1 DEF OpenInv, NewsInv
  <2> QED BY <2>1, <2>2
<1>9. ScopeInv'
  BY <1>1, <1>2, <1>3, <1>7 DEF OpenInv, ScopeInv, Resting, Installed
<1> QED BY <1>6, <1>8, <1>9 DEF OpenInv

LEMMA ReadFresh ==
    ASSUME IInv, OpenInv, ~mail.closed, ReadDirectory
    PROVE  OpenInv' /\ ~mail'.closed
<1>1. worker \in Workers /\ worker.pc = "scan" /\ worker.held = None /\ worker.at \in Dirs
      /\ past \in Pasts /\ session \in Sessions
  <2>1. worker \in Workers /\ worker.pc = "scan" /\ worker.held = None /\ worker.at # None
        /\ past \in Pasts /\ session \in Sessions
    BY DEF IInv, TypeOK, ReadDirectory, At
  <2> QED BY <2>1, WorkerIs
<1>2. PICK todo \in SUBSET Dirs : todo = worker.todo \ {worker.at}
  BY <1>1, WorkerIs
<1>3. PICK read : read = [worker EXCEPT !.at = None, !.todo = todo]
  OBVIOUS
<1>4. read \in Workers
  BY <1>1, <1>3 DEF Workers
<1>5. /\ read.pc = "scan" /\ read.kind = worker.kind /\ read.extra = worker.extra
      /\ read.changed = worker.changed /\ read.sound = worker.sound /\ read.at = None
      /\ read.partial = worker.partial /\ read.todo = todo /\ read.outcome = worker.outcome
  BY <1>1, <1>3 DEF Workers
<1>6. PICK found \in SUBSET Dirs : found = read.found \cup {worker.at}
  BY <1>1, <1>4, WorkerIs
<1>7. PICK v : v = [read EXCEPT !.found = found]
  OBVIOUS
<1>8. v \in Workers /\ Alike(v, read) /\ v.pc = read.pc
  BY <1>4, <1>7 DEF Workers, Alike
<1>9. ~mail'.closed /\ Alike(worker', read) /\ worker'.pc = "scan"
  <2>1. \/ Emit("base", worker.at, v)
        \/ worker' = read /\ mail' = mail
    BY <1>2, <1>3, <1>6, <1>7 DEF ReadDirectory
  <2>2. CASE Emit("base", worker.at, v)
    <3>1. "base" \in Kinds /\ "base" \in RowKinds /\ worker.at # None
      BY <1>1, JunkSessionAssumption DEF Kinds, RowKinds
    <3>2. ~mail'.closed /\ Alike(worker', v) /\ worker'.pc = v.pc
      BY <1>1, <1>8, <2>2, <3>1, EmitAlike DEF Emit
    <3> QED BY <1>5, <1>8, <3>2 DEF Alike
  <2>3. CASE worker' = read /\ mail' = mail
    BY <1>5, <2>3 DEF Alike
  <2> QED BY <2>1, <2>2, <2>3
<1>10. /\ monitor' = monitor /\ disk' = disk
       /\ session'.roots = session.roots /\ session'.disabled = session.disabled
       /\ past'.behind = past.behind /\ past'.gapless = past.gapless /\ past'.due = past.due
       /\ past'.fresh = past.fresh \cup {worker.at}
  <2>1. \/ session' = session
        \/ session' = [session EXCEPT !.presented = @ \cup {worker.at}]
    BY DEF ReadDirectory
  <2>2. monitor' = monitor /\ disk' = disk /\ past' = [past EXCEPT !.fresh = @ \cup {worker.at}]
    BY DEF ReadDirectory
  <2> QED BY <1>1, <2>1, <2>2 DEF Sessions, Pasts
<1>11. /\ Left = worker.todo /\ Left' = worker.todo \ {worker.at}
       /\ Got = past.fresh /\ Got' = past.fresh \cup {worker.at}
  BY <1>1, <1>2, <1>5, <1>9, <1>10 DEF Left, Got, Early, Resting, Alike
<1>12. (Hopeful' = Hopeful) /\ (Trusted' = Trusted) /\ Sees' = Sees
  BY <1>1, <1>5, <1>9, <1>10 DEF Hopeful, Trusted, Sees, Resting, Broken, Alike
<1>13. DueInv'
  BY <1>5, <1>9, <1>10, <1>11, <1>12 DEF OpenInv, DueInv, Alike
<1>14. NewsInv'
  <2>1. worker'.at = None
    BY <1>5, <1>9 DEF Alike
  <2>2. ASSUME Trusted', Sees'
        PROVE  worker.at \in monitor.watched
    BY <1>1, <1>12, <2>2, JunkSessionAssumption DEF OpenInv, NewsInv
  <2> QED BY <1>1, <1>10, <1>11, <1>12, <2>1, <2>2 DEF OpenInv, NewsInv
<1>15. ScopeInv'
  BY <1>1, <1>5, <1>9, <1>10 DEF OpenInv, ScopeInv, Resting, Installed, Alike
<1> QED BY <1>9, <1>13, <1>14, <1>15 DEF OpenInv

LEMMA ProbeFresh ==
    ASSUME IInv, OpenInv, ~mail.closed, Probe
    PROVE  OpenInv' /\ ~mail'.closed
<1>1. worker \in Workers /\ worker.pc = "probe" /\ worker.held = None /\ session \in Sessions
      /\ worker.at = None
  BY DEF IInv, TypeOK, Probe, At, OpenInv, ScopeInv
<1>2. monitor' = monitor /\ disk' = disk /\ past' = past
  BY DEF Probe
<1>3. CASE \E pc \in {"done", "last"} :
              /\ session' = session
              /\ Emit("warning", None, Goto(pc)) \/ (mail' = mail /\ worker' = Goto(pc))
  <2>1. PICK pc \in {"done", "last"} :
           Emit("warning", None, Goto(pc)) \/ (mail' = mail /\ worker' = Goto(pc))
    BY <1>3
  <2>2. PICK v : v = Goto(pc)
    OBVIOUS
  <2>3. v \in Workers /\ v.pc = pc /\ Alike(v, worker)
    BY <1>1, <2>1, <2>2, GotoAlike DEF Places
  <2>4. \/ mail' = mail /\ worker' = v
        \/ \E m \in {mail, Cleared(mail)}, kind \in Kinds, d \in Dirs \cup {None} :
              (kind \in RowKinds <=> d # None) /\ EmitFrom(m, kind, d, v)
    <3>1. "warning" \in Kinds /\ "warning" \notin RowKinds
      BY DEF Kinds, RowKinds
    <3> QED BY <2>1, <2>2, <3>1 DEF Emit
  <2> QED BY <1>1, <1>2, <1>3, <2>1, <2>3, <2>4, GoFresh
          DEF Alike, Resting, Installed, Early, Broken
<1>4. CASE /\ worker' = [worker EXCEPT !.pc = "discover", !.kind = "dirs", !.scope = Extras,
                                       !.extra = TRUE]
           /\ session' = [session EXCEPT !.roots = @ \cup Extras]
           /\ mail' = mail
  <2>1. /\ worker'.pc = "discover" /\ worker'.kind = "dirs" /\ worker'.scope = Extras
        /\ worker'.extra
    BY <1>1, <1>4 DEF Workers
  <2>2. /\ worker'.changed = worker.changed /\ worker'.sound = worker.sound
        /\ worker'.partial = worker.partial /\ worker'.at = None
        /\ worker'.outcome = worker.outcome
    BY <1>1, <1>4 DEF Workers
  <2>3. session'.roots = session.roots \cup Extras /\ session'.disabled = session.disabled
    BY <1>1, <1>4 DEF Sessions
  <2>4. Left = {} /\ Left' = Extras /\ Got = past.fresh /\ Got' = past.fresh
    BY <1>1, <1>2, <2>1 DEF Left, Got, Early, Resting
  <2>5. (Hopeful' = Hopeful) /\ (Trusted' => Trusted) /\ Sees' = Sees /\ worker.kind = "all"
    BY <1>1, <1>2, <2>1, <2>2 DEF Hopeful, Trusted, Sees, Resting, Broken, OpenInv, ScopeInv
  <2>6. DueInv'
    BY <1>2, <2>2, <2>3, <2>4, <2>5 DEF OpenInv, DueInv
  <2>7. NewsInv'
    BY <1>2, <2>1, <2>3, <2>4, <2>5 DEF OpenInv, NewsInv
  <2>8. ScopeInv'
    BY <1>1, <1>2, <2>1, <2>2, <2>3 DEF OpenInv, ScopeInv, Resting, Installed
  <2> QED BY <1>4, <2>6, <2>7, <2>8 DEF OpenInv
<1> QED BY <1>3, <1>4 DEF Probe

LEMMA FinishFresh ==
    ASSUME IInv, OpenInv, NEW outcome \in Outcomes, Finish(outcome),
           worker.pc \notin {"idle", "gone", "begin"}, worker.at = None,
           outcome = "complete" => ~worker.partial /\ worker.pc \in {"done", "last"}
    PROVE  OpenInv'
<1>1. worker \in Workers /\ past \in Pasts
  BY DEF IInv, TypeOK
<1>2. /\ worker'.pc = "idle" /\ worker'.outcome = outcome /\ worker'.at = None
      /\ worker'.kind = worker.kind /\ worker'.extra = worker.extra
      /\ worker'.changed = worker.changed /\ worker'.sound = worker.sound
      /\ worker'.partial = worker.partial
  BY <1>1 DEF Finish, Workers
<1>3. session' = session /\ monitor' = monitor /\ disk' = disk
  BY DEF Finish
<1>4. Left' = {} /\ Got' = {} /\ Sees' = Sees
  BY <1>2, <1>3 DEF Left, Got, Early, Resting, Sees
<1>5. CASE outcome # "complete"
  <2>1. ~past'.gapless
    BY <1>1, <1>5 DEF Finish, Pasts
  <2>2. ~Trusted' /\ ~Hopeful'
    BY <1>2, <1>5, <2>1 DEF Trusted, Hopeful, Resting
  <2>3. ScopeInv'
    BY <1>2, <1>3, <2>1 DEF OpenInv, ScopeInv, Resting, Installed
  <2> QED BY <2>2, <2>3 DEF OpenInv, DueInv, NewsInv
<1>6. CASE outcome = "complete"
  <2>1. /\ past'.behind = past.behind \ past.fresh /\ past'.due = past.due \ past.fresh
        /\ past'.gapless = (past.gapless \/ worker.kind = "all" \/ worker.extra)
    BY <1>1, <1>6 DEF Finish, Pasts
  <2>2. worker.pc \in {"done", "last"} /\ ~worker.partial
    BY <1>6
  <2>3. Left = {} /\ Got = past.fresh /\ Hopeful /\ (Trusted' => Trusted)
    BY <1>2, <2>1, <2>2 DEF Left, Got, Early, Resting, Hopeful, Trusted, Broken
  <2>4. DueInv'
    BY <1>2, <1>3, <1>4, <2>1, <2>3 DEF OpenInv, DueInv
  <2>5. NewsInv'
    BY <1>2, <1>3, <1>4, <2>1, <2>3 DEF OpenInv, NewsInv
  <2>6. ScopeInv'
    BY <1>2, <1>3, <2>1, <2>2 DEF OpenInv, ScopeInv, Resting, Installed
  <2> QED BY <2>4, <2>5, <2>6 DEF OpenInv
<1> QED BY <1>5, <1>6

LEMMA TerminateFresh ==
    ASSUME IInv, OpenInv, Terminate
    PROVE  OpenInv'
<1>1. PICK outcome \in Outcomes :
         /\ Finish(outcome) /\ worker.pc \notin {"idle", "gone", "begin"} /\ worker.at = None
         /\ outcome = "complete" => ~worker.partial /\ worker.pc \in {"done", "last"}
  <2>1. worker \in Workers /\ (worker.at # None => worker.pc = "scan")
    BY DEF IInv, TypeOK, OpenInv, ScopeInv
  <2>2. \E outcome \in Outcomes :
           /\ Finish(outcome) /\ worker.pc \notin {"idle", "gone", "begin"}
           /\ worker.pc = "scan" => worker.at = None
           /\ outcome = "complete" => ~worker.partial /\ worker.pc \in {"done", "last"}
    BY DEF Terminate, At, Result, Outcomes
  <2> QED BY <2>1, <2>2
<1> QED BY <1>1, FinishFresh

\* A new Writer: what has changed is taken over, or the revision is a full one.
LEMMA BegunFields ==
    ASSUME NEW kind \in {"all", "dirs", "changed"}, NEW scope \in SUBSET Dirs
    PROVE  /\ Begun(kind, scope).kind = kind /\ Begun(kind, scope).scope = scope
           /\ Begun(kind, scope).pc = "begin" /\ ~Begun(kind, scope).extra
           /\ ~Begun(kind, scope).sound /\ Begun(kind, scope).at = None
           /\ ~Begun(kind, scope).partial /\ Begun(kind, scope).outcome # "complete"
BY AbsenceAssumption DEF Begun, IdleWorker, Outcomes

LEMMA BegunFresh ==
    ASSUME IInv, OpenInv, worker.pc = "idle",
           NEW kind \in {"all", "dirs", "changed"}, NEW scope \in SUBSET Dirs,
           worker' = Begun(kind, scope), session'.roots = session.roots,
           session.disabled => session'.disabled, past' = past, disk' = disk,
           \/ ~monitor'.on /\ session'.disabled
           \/ /\ monitor'.on = monitor.on /\ monitor'.dead = monitor.dead
              /\ monitor'.watched = monitor.watched /\ monitor'.news = monitor.news
              /\ \/ kind = "all"
                 \/ monitor' = monitor
                 \/ kind = "dirs" /\ scope = monitor.paths /\ ~monitor.full
    PROVE  OpenInv'
<1>1. /\ worker'.kind = kind /\ worker'.scope = scope /\ worker'.pc = "begin"
      /\ ~worker'.extra /\ ~worker'.sound /\ worker'.at = None /\ ~worker'.partial
      /\ worker'.outcome # "complete"
  BY BegunFields
<1>2. /\ Left' = (IF kind = "all" THEN Dirs ELSE IF kind = "dirs" THEN scope ELSE {})
      /\ Left = {} /\ Got = {}
  BY <1>1 DEF Left, Got, Early, Resting
<1>3. session.roots \in SUBSET Dirs
  BY RestIs DEF IInv
<1>4. NewsInv'
  <2>1. CASE kind = "all"
    BY <1>1, <1>2, <1>3, <2>1 DEF NewsInv
  <2>2. CASE ~monitor'.on
    BY <2>2 DEF NewsInv, Sees
  <2>3. CASE kind # "all" /\ monitor'.on
    <3>1. Trusted' => Trusted
      BY <1>1, <2>3 DEF Trusted, Resting
    <3>2. Sees' => Sees
      BY <2>3 DEF Sees
    <3>3. Trusted' /\ Sees' =>
             /\ past.behind \cap session.roots \subseteq monitor.news \cup monitor.paths
             /\ session.roots \subseteq monitor.watched
      BY <1>2, <3>1, <3>2 DEF OpenInv, NewsInv
    <3>4. monitor.paths \subseteq monitor'.paths \cup Left'
      BY <1>2, <2>3
    <3> QED BY <1>1, <2>3, <3>3, <3>4 DEF NewsInv
  <2> QED BY <2>1, <2>2, <2>3
<1>5. DueInv'
  BY <1>1 DEF DueInv
<1>6. ScopeInv'
  BY <1>1 DEF OpenInv, ScopeInv, Resting, Installed
<1> QED BY <1>4, <1>5, <1>6 DEF OpenInv

LEMMA JobFresh ==
    ASSUME IInv, OpenInv, TakeJob \/ WatchJob
    PROVE  OpenInv'
<1>1. monitor \in Monitors /\ session \in Sessions /\ monitor.paths \in SUBSET Dirs
      /\ worker.pc = "idle"
  BY RestIs DEF IInv, TypeOK, TakeJob, WatchJob, At
<1>2. CASE TakeJob
  <2>1. mail \in Mails /\ mail.job # None
    BY <1>2 DEF IInv, TypeOK, TakeJob
  <2>2. PICK j \in Jobs : j = mail.job
    BY <2>1, MailIs
  <2>3. j.kind \in {"all", "dirs", "changed"} /\ j.scope \in SUBSET Dirs
    BY DEF Jobs
  <2>4. worker' = Begun(j.kind, j.scope)
        /\ UNCHANGED <<session, monitor, disk, past>>
    BY <1>2, <2>2 DEF TakeJob
  <2> QED BY <1>1, <2>3, <2>4, BegunFresh
<1>3. CASE WatchJob
  <2>1. past' = past /\ disk' = disk
    BY <1>3 DEF WatchJob
  <2>2. session' = [session EXCEPT !.disabled = @ \/ monitor.failure,
                                   !.warning = @ \/ monitor.failure]
    BY <1>3 DEF WatchJob
  <2>3. /\ session'.roots = session.roots
        /\ session'.disabled = (session.disabled \/ monitor.failure)
    BY <1>1, <2>2 DEF Sessions
  <2>4. \/ ~monitor'.on /\ session'.disabled
        \/ /\ monitor'.on = monitor.on /\ monitor'.dead = monitor.dead
           /\ monitor'.watched = monitor.watched /\ monitor'.news = monitor.news
    <3>1. CASE monitor.failure
      BY <1>3, <2>3, <3>1 DEF WatchJob, MonitorOff
    <3>2. CASE ~monitor.failure
      <4>1. monitor' = Taken(monitor)
        BY <1>3, <3>2 DEF WatchJob
      <4> QED BY <1>1, <4>1 DEF Taken, Monitors
    <3> QED BY <3>1, <3>2
  <2>5. CASE monitor.full
    <3>1. worker' = Begun("all", {}) /\ {} \in SUBSET Dirs
      BY <1>3, <2>5 DEF WatchJob
    <3> QED BY <1>1, <2>1, <2>3, <2>4, <3>1, BegunFresh
  <2>6. CASE ~monitor.full
    <3>1. worker' = Begun("dirs", monitor.paths)
      BY <1>3, <2>6 DEF WatchJob
    <3> QED BY <1>1, <2>1, <2>3, <2>4, <2>6, <3>1, BegunFresh
  <2> QED BY <2>5, <2>6
<1> QED BY <1>2, <1>3

\* A step that is none of the worker's.
LEMMA ApartFresh ==
    ASSUME OpenInv, Alike(worker', worker), worker'.pc = worker.pc, session' = session,
           disk'.moved = disk.moved, past' = past, monitor'.on = monitor.on,
           Sees' => /\ Sees /\ monitor.watched \subseteq monitor'.watched
                    /\ monitor.news \cup monitor.paths \subseteq monitor'.news \cup monitor'.paths
    PROVE  OpenInv'
<1>1. Left' = Left /\ Got' = Got
  BY DEF Left, Got, Early, Resting, Alike
<1>2. (Hopeful' = Hopeful) /\ (Trusted' = Trusted)
  BY DEF Hopeful, Trusted, Resting, Broken, Alike
<1>3. DueInv'
  BY <1>1, <1>2 DEF OpenInv, DueInv, Alike
<1>4. NewsInv'
  BY <1>1, <1>2 DEF OpenInv, NewsInv, Alike
<1>5. ScopeInv'
  BY DEF OpenInv, ScopeInv, Resting, Installed, Alike
<1> QED BY <1>3, <1>4, <1>5 DEF OpenInv

LEMMA ListenerFresh ==
    ASSUME IInv, OpenInv, Listener \/ CheckRoots \/ ListenerFails
    PROVE  OpenInv'
<1>1. monitor \in Monitors /\ disk \in Disks
  BY DEF IInv, TypeOK
<1>2. worker' = worker /\ session' = session /\ past' = past
  BY DEF Listener, Deliver, Overflow, CheckRoots, ListenerFails
<1>3. disk'.moved = disk.moved
  BY <1>1 DEF Listener, Deliver, Overflow, CheckRoots, ListenerFails, Disks
<1>4. /\ monitor'.on = monitor.on
      /\ \/ monitor'.full \/ monitor'.dead
         \/ /\ monitor'.full = monitor.full /\ monitor'.dead = monitor.dead
            /\ monitor'.watched = monitor.watched
            /\ monitor.news \cup monitor.paths \subseteq monitor'.news \cup monitor'.paths
  <2>1. CASE Overflow
    <3>1. PICK m : m = [monitor EXCEPT !.news = {}]
      OBVIOUS
    <3>2. m \in Monitors /\ m.on = monitor.on
      BY <1>1, <3>1 DEF Monitors
    <3>3. monitor' = Gap(m)
      BY <2>1, <3>1 DEF Overflow
    <3> QED BY <3>2, <3>3 DEF Gap, Monitors
  <2>2. CASE CheckRoots
    BY <1>1, <2>2 DEF CheckRoots, Gap, Monitors
  <2>3. CASE ListenerFails
    BY <1>1, <2>3 DEF ListenerFails, FailedMonitor, Gap, Monitors
  <2>4. ASSUME NEW d \in Dirs, Deliver(d)
        PROVE  /\ monitor'.on = monitor.on
               /\ \/ monitor'.full \/ monitor'.dead
                  \/ /\ monitor'.full = monitor.full /\ monitor'.dead = monitor.dead
                     /\ monitor'.watched = monitor.watched
                     /\ monitor.news \cup monitor.paths \subseteq monitor'.news \cup monitor'.paths
    <3>1. PICK m : m = [monitor EXCEPT !.news = @ \ {d}]
      OBVIOUS
    <3>2. /\ m \in Monitors /\ m.on = monitor.on /\ m.full = monitor.full /\ m.dead = monitor.dead
          /\ m.watched = monitor.watched /\ m.news = monitor.news \ {d}
          /\ m.paths = monitor.paths
      BY <1>1, <3>1 DEF Monitors
    <3>3. monitor' = Queued(m, d)
      BY <2>4, <3>1 DEF Deliver
    <3>4. CASE m.full \/ d \in m.paths
      BY <3>2, <3>3, <3>4 DEF Queued
    <3>5. CASE monitor' = Gap(m)
      BY <3>2, <3>5 DEF Gap, Monitors
    <3>6. CASE monitor' = [m EXCEPT !.paths = @ \cup {d}]
      BY <3>2, <3>6 DEF Monitors
    <3> QED BY <3>3, <3>4, <3>5, <3>6 DEF Queued
  <2> QED BY <2>1, <2>2, <2>3, <2>4 DEF Listener
<1>5. Sees' => /\ Sees /\ monitor.watched \subseteq monitor'.watched
               /\ monitor.news \cup monitor.paths \subseteq monitor'.news \cup monitor'.paths
  BY <1>3, <1>4 DEF Sees
<1>6. Alike(worker', worker)
  BY <1>2 DEF Alike
<1> QED BY <1>2, <1>3, <1>4, <1>5, <1>6, ApartFresh

\* Content changes: what was read is no longer fresh, and the listener hears of
\* it unless the directory is still to be read.
LEMMA ChangeFresh ==
    ASSUME IInv, OpenInv, NEW touched \in SUBSET Dirs, NEW holding \in SUBSET touched,
           Change(touched, holding)
    PROVE  OpenInv'
<1>1. monitor \in Monitors /\ disk \in Disks /\ past \in Pasts
  BY DEF IInv, TypeOK
<1>2. worker' = worker /\ session' = session
  BY DEF Change
<1>3. disk'.moved = disk.moved
  <2>1. PICK holds : disk' = [disk EXCEPT !.changes = @ + 1, !.holds = holds]
    BY DEF Change
  <2> QED BY <1>1, <2>1 DEF Disks
<1>4. /\ past'.behind = past.behind \cup touched /\ past'.due = past.due \ touched
      /\ past'.fresh = past.fresh \ touched /\ past'.gapless = past.gapless
  BY <1>1 DEF Change, Pasts
<1>5. /\ monitor'.on = monitor.on /\ monitor'.dead = monitor.dead /\ monitor'.full = monitor.full
      /\ monitor'.watched = monitor.watched /\ monitor'.paths = monitor.paths
      /\ monitor.news \subseteq monitor'.news
      /\ Sees => monitor'.news = monitor.news \cup (touched \cap monitor.watched)
  BY <1>1 DEF Change, Monitors, Sees
<1>6. Left' = Left /\ Got' = Got \ touched
  BY <1>2, <1>4 DEF Left, Got, Early, Resting
<1>7. (Hopeful' = Hopeful) /\ (Trusted' = Trusted) /\ Sees' = Sees
  BY <1>2, <1>3, <1>4, <1>5 DEF Hopeful, Trusted, Sees, Resting, Broken
<1>8. DueInv'
  BY <1>2, <1>4, <1>6, <1>7 DEF OpenInv, DueInv
<1>9. NewsInv'
  <2>1. SUFFICES ASSUME Trusted, Sees
                 PROVE  /\ past'.behind \cap session.roots
                              \subseteq monitor'.news \cup monitor'.paths \cup Got' \cup Left'
                        /\ session.roots \subseteq monitor'.watched \cup Left'
                        /\ worker.pc = "scan" /\ worker.at # None => worker.at \in monitor'.watched
    BY <1>2, <1>7 DEF NewsInv
  <2>2. /\ past.behind \cap session.roots
              \subseteq monitor.news \cup monitor.paths \cup Got \cup Left
        /\ session.roots \subseteq monitor.watched \cup Left
        /\ worker.pc = "scan" /\ worker.at # None => worker.at \in monitor.watched
    BY <2>1 DEF OpenInv, NewsInv
  <2> QED BY <1>4, <1>5, <1>6, <2>1, <2>2
<1>10. ScopeInv'
  BY <1>2, <1>4, <1>5 DEF OpenInv, ScopeInv, Resting, Installed
<1> QED BY <1>8, <1>9, <1>10 DEF OpenInv

LEMMA ReplaceRootFresh ==
    ASSUME IInv, OpenInv, ReplaceRoot
    PROVE  OpenInv'
<1>1. disk \in Disks /\ past \in Pasts
  BY DEF IInv, TypeOK
<1>2. worker' = worker /\ session' = session /\ monitor' = monitor
  BY DEF ReplaceRoot
<1>3. disk'.moved /\ past'.due = {} /\ past'.gapless = past.gapless
  BY <1>1 DEF ReplaceRoot, Disks, Pasts
<1>4. DueInv' /\ NewsInv'
  BY <1>3 DEF DueInv, NewsInv, Sees
<1>5. ScopeInv'
  BY <1>2, <1>3 DEF OpenInv, ScopeInv, Resting, Installed
<1> QED BY <1>4, <1>5 DEF OpenInv

\* After close nothing is read on behalf of the owner.
ShutInv == /\ worker.sound => past.due = {}
           /\ ~Resting => ~past.gapless

LEMMA EmitShut ==
    ASSUME NEW m, NEW kind, NEW d, NEW next \in Workers, EmitFrom(m, kind, d, next), mail.closed
    PROVE  mail' = mail /\ worker'.pc = "idle" /\ worker'.sound = next.sound
<1>1. mail' = mail /\ worker' = [next EXCEPT !.pc = "idle"]
  BY DEF EmitFrom
<1> QED BY <1>1 DEF Workers

LEMMA ShutStep ==
    ASSUME ShutInv, worker'.sound => worker.sound, past'.due \subseteq past.due,
           Resting => Resting', past'.gapless => past.gapless \/ Resting'
    PROVE  ShutInv'
BY DEF ShutInv

\* The steps of the worker that end without sending, or send nothing.
LEMMA ShutRun ==
    ASSUME IInv, ShutInv, mail.closed, Run
    PROVE  ShutInv' /\ mail'.closed
<1>1. worker \in Workers /\ past \in Pasts /\ worker.errors \in Nat
  BY WorkerIs DEF IInv, TypeOK
<1>2. CASE ChangedScope
  <2>1. mail' = mail /\ ~Resting /\ worker.pc = "begin"
    BY <1>2 DEF ChangedScope, At, Resting
  <2>2. worker'.sound = past.gapless /\ worker'.pc = worker.pc
    BY <1>1, <1>2 DEF ChangedScope, Workers
  <2>3. past'.gapless = past.gapless
    BY <1>1, <1>2 DEF ChangedScope, Pasts
  <2> QED BY <2>1, <2>2, <2>3 DEF ShutInv
<1>3. ASSUME NEW next \in Workers, next.sound = worker.sound,
             \/ mail' = mail /\ worker' = next
             \/ \E m, kind, d : EmitFrom(m, kind, d, next),
             next.pc \notin {"idle", "gone"}, ~Resting,
             past'.due \subseteq past.due, past'.gapless = past.gapless
      PROVE  ShutInv' /\ mail'.closed
  <2>1. mail' = mail /\ worker'.sound = next.sound
    BY <1>3, EmitShut
  <2> QED BY <1>3, <2>1, ShutStep
<1>4. ~Resting
  BY DEF Run, ChangedScope, Begin, Discover, PrepareMonitor, Warn, Traverse, ReadDirectory, ReadError,
     Scanned, Replace, PassDone, Probe, ReportFailure, Breaks, OpenDirectory, Publish, Withdraw,
     At, Resting
<1>5. ~ChangedScope => past'.due \subseteq past.due /\ past'.gapless = past.gapless
  <2>1. ~ChangedScope => \/ past' = past \/ past' = [past EXCEPT !.due = {}]
                         \/ past' = [past EXCEPT !.fresh = {}]
                         \/ past' = [past EXCEPT !.fresh = @ \cup {worker.at}]
    BY DEF Run, Begin, Discover, PrepareMonitor, Warn, Traverse, ReadDirectory, ReadError,
       Scanned, Replace, PassDone, Probe, ReportFailure, Breaks, Fail, OpenDirectory, Publish, Withdraw
  <2> QED BY <1>1, <2>1 DEF Pasts
<1>6. ASSUME NEW pc \in Places \ {"idle", "gone"}, ~ChangedScope,
             \/ mail' = mail /\ worker' = Goto(pc)
             \/ \E m, kind, d : EmitFrom(m, kind, d, Goto(pc))
      PROVE  ShutInv' /\ mail'.closed
  <2>1. PICK next : next = Goto(pc)
    OBVIOUS
  <2>2. next \in Workers /\ next.sound = worker.sound /\ next.pc = pc
    BY <1>1, <2>1, GotoAlike DEF Alike
  <2> QED BY <1>3, <1>4, <1>5, <1>6, <2>1, <2>2
<1>7. {"discover", "fail", "install", "warn", "traverse", "done", "last", "probe", "scan",
       "publish", "replace", "failed"} \subseteq Places \ {"idle", "gone"}
  BY DEF Places
<1>8. CASE Begin
  BY <1>6, <1>7, <1>8 DEF Begin, Emit, ChangedScope
<1>9. CASE Discover \/ PrepareMonitor \/ Breaks
  <2>1. ~ChangedScope
    BY <1>9 DEF Discover, PrepareMonitor, Breaks, ChangedScope, At
  <2> QED BY <1>6, <1>7, <1>9, <2>1 DEF Discover, PrepareMonitor, Breaks, Fail
<1>10. CASE Warn \/ PassDone
  <2>1. ~ChangedScope
    BY <1>10 DEF Warn, PassDone, ChangedScope, At
  <2> QED BY <1>6, <1>7, <1>10, <2>1 DEF Warn, PassDone, Emit
<1>11. CASE Traverse
  <2>1. ScopeOf(worker) \in SUBSET Dirs
    BY <1>1, RestIs, WorkerIs DEF ScopeOf, IInv
  <2>2. PICK v : v = [worker EXCEPT !.pc = "scan", !.todo = ScopeOf(worker), !.found = {}]
    OBVIOUS
  <2>3. v \in Workers /\ v.pc = "scan" /\ v.sound = worker.sound
    BY <1>1, <1>7, <2>1, <2>2 DEF Workers
  <2>4. ~ChangedScope
    BY <1>11 DEF Traverse, ChangedScope, At
  <2> QED BY <1>3, <1>4, <1>5, <1>11, <2>2, <2>3, <2>4 DEF Traverse, EmitPhase
<1>12. CASE ReadDirectory
  <2>1. worker.pc = "scan" /\ worker.at # None
    BY <1>12 DEF ReadDirectory, At
  <2>2. worker.at \in Dirs /\ worker.todo \in SUBSET Dirs
    BY <1>1, <2>1, WorkerIs
  <2>3. PICK read : read = [worker EXCEPT !.at = None, !.todo = @ \ {worker.at}]
    OBVIOUS
  <2>4. read \in Workers /\ read.pc = "scan" /\ read.sound = worker.sound
    BY <1>1, <2>1, <2>2, <2>3 DEF Workers
  <2>5. PICK found \in SUBSET Dirs : found = read.found \cup {worker.at}
    BY <2>2, <2>4, WorkerIs
  <2>6. PICK v : v = [read EXCEPT !.found = found]
    OBVIOUS
  <2>7. v \in Workers /\ v.pc = "scan" /\ v.sound = worker.sound
    BY <2>4, <2>6 DEF Workers
  <2>8. ~ChangedScope
    BY <2>1 DEF ChangedScope, At
  <2>9. (mail' = mail /\ worker' = read) \/ EmitFrom(mail, "base", worker.at, v)
    BY <1>12, <2>3, <2>5, <2>6 DEF ReadDirectory, Emit
  <2> QED BY <1>3, <1>4, <1>5, <2>4, <2>7, <2>8, <2>9
<1>13. CASE ReadError
  <2>1. worker.pc = "scan"
    BY <1>13 DEF ReadError, At
  <2>2. PICK todo \in SUBSET Dirs : todo = worker.todo \ {worker.at}
    BY <1>1, WorkerIs
  <2>3. PICK read : read = [worker EXCEPT !.at = None, !.todo = todo]
    OBVIOUS
  <2>4. read \in Workers /\ read.pc = "scan" /\ read.sound = worker.sound
    BY <1>1, <2>1, <2>3 DEF Workers
  <2>5. PICK v : v = [read EXCEPT !.errors = worker.errors + 1, !.partial = TRUE]
    OBVIOUS
  <2>6. v \in Workers /\ v.pc = "scan" /\ v.sound = worker.sound
    <3>1. worker.errors + 1 \in Nat
      BY <1>1
    <3> QED BY <2>4, <2>5, <3>1 DEF Workers
  <2>7. v = [worker EXCEPT !.at = None, !.todo = @ \ {worker.at}, !.errors = @ + 1,
                           !.partial = TRUE]
    BY <2>2, <2>3, <2>5
  <2>8. ~ChangedScope /\ EmitFrom(mail, "error", None, v)
    BY <1>13, <2>1, <2>7 DEF ReadError, Emit, ChangedScope, At
  <2> QED BY <1>3, <1>4, <1>5, <2>6, <2>8
<1>14. CASE Scanned
  <2>1. worker.pc = "scan"
    BY <1>14 DEF Scanned, At
  <2>2. PICK v : v = [worker EXCEPT !.pc = "publish", !.todo = worker.found]
    OBVIOUS
  <2>3. worker.found \in SUBSET Dirs
    BY <1>1, WorkerIs
  <2>4. v \in Workers /\ v.pc = "publish" /\ v.sound = worker.sound
    BY <1>1, <1>7, <2>2, <2>3 DEF Workers
  <2>5. ~ChangedScope /\ mail' = mail /\ (worker' = v \/ worker' = Goto("fail"))
    BY <1>14, <2>1, <2>2 DEF Scanned, ChangedScope, At
  <2> QED BY <1>3, <1>4, <1>5, <1>6, <1>7, <2>4, <2>5
<1>15. CASE Replace
  <2>1. worker.pc = "publish"
    BY <1>15 DEF Replace, At
  <2>2. PICK partial \in BOOLEAN, todo \in SUBSET Dirs :
           worker' = [worker EXCEPT !.pc = "replace", !.partial = partial, !.todo = todo]
    <3>1. (session.presented \cap Covers(worker)) \ worker.found \in SUBSET Dirs
      BY RestIs DEF IInv
    <3>2. (worker.partial \/ worker.errors > 0) \in BOOLEAN
      OBVIOUS
    <3> QED BY <1>15, <3>1, <3>2 DEF Replace
  <2>3. worker' \in Workers /\ worker'.pc = "replace" /\ worker'.sound = worker.sound
    BY <1>1, <1>7, <2>2 DEF Workers
  <2>4. ~ChangedScope /\ mail' = mail
    BY <1>15, <2>1 DEF Replace, ChangedScope, At
  <2> QED BY <1>3, <1>4, <1>5, <2>3, <2>4
<1>16. CASE Probe
  <2>1. worker.pc = "probe"
    BY <1>16 DEF Probe, At
  <2>2. PICK v : v = [worker EXCEPT !.pc = "discover", !.kind = "dirs", !.scope = Extras,
                                    !.extra = TRUE]
    OBVIOUS
  <2>3. v.pc = "discover" /\ v.sound = worker.sound
    BY <1>1, <2>2 DEF Workers
  <2>4. v \in Workers
    <3>1. PICK u : u = [worker EXCEPT !.pc = "discover", !.kind = "dirs"]
      OBVIOUS
    <3>2. u \in Workers
      BY <1>1, <1>7, <3>1 DEF Workers
    <3>3. v = [u EXCEPT !.scope = Extras, !.extra = TRUE] /\ Extras \in SUBSET Dirs
      BY <2>2, <3>1 DEF Dirs
    <3> QED BY <3>2, <3>3 DEF Workers
  <2>5. ~ChangedScope
    BY <2>1 DEF ChangedScope, At
  <2>6. \/ mail' = mail /\ worker' = v
        \/ mail' = mail /\ worker' = Goto("last")
        \/ EmitFrom(mail, "warning", None, Goto("done"))
    BY <1>16, <2>2 DEF Probe, Emit
  <2> QED BY <1>3, <1>4, <1>5, <1>6, <1>7, <2>3, <2>4, <2>5, <2>6
<1>17. CASE ReportFailure
  <2>1. worker.pc = "fail"
    BY <1>17 DEF ReportFailure, At
  <2>2. PICK v : v = [worker EXCEPT !.pc = "failed", !.errors = worker.errors + 1]
    OBVIOUS
  <2>3. v \in Workers /\ v.pc = "failed" /\ v.sound = worker.sound
    <3>1. worker.errors + 1 \in Nat
      BY <1>1
    <3>2. v \in Workers
      BY <1>1, <1>7, <2>2, <3>1 DEF Workers
    <3> QED BY <1>1, <2>2, <3>2 DEF Workers
  <2>4. ~ChangedScope /\ EmitFrom(mail, "error", None, v)
    BY <1>17, <2>1, <2>2 DEF ReportFailure, Emit, ChangedScope, At
  <2> QED BY <1>3, <1>4, <1>5, <2>3, <2>4
<1>18. ASSUME NEW d \in Dirs, OpenDirectory(d) \/ Publish(d) \/ Withdraw(d)
       PROVE  ShutInv' /\ mail'.closed
  <2>1. worker.pc \in {"scan", "publish", "replace"}
    BY <1>18 DEF OpenDirectory, Publish, Withdraw, At
  <2>2. PICK v : v = [worker EXCEPT !.at = d]
    OBVIOUS
  <2>3. PICK w : w = [worker EXCEPT !.todo = @ \ {d}]
    OBVIOUS
  <2>4. v \in Workers /\ v.pc = worker.pc /\ v.sound = worker.sound
    BY <1>1, <2>2 DEF Workers
  <2>5. w \in Workers /\ w.pc = worker.pc /\ w.sound = worker.sound
    BY <1>1, <2>3 DEF Workers
  <2>6. ~ChangedScope
    BY <2>1 DEF ChangedScope, At
  <2>7. \/ mail' = mail /\ worker' = v
        \/ EmitFrom(mail, "current", d, w) \/ EmitFrom(mail, "removed", d, w)
    BY <1>18, <2>2, <2>3 DEF OpenDirectory, Publish, Withdraw, Emit
  <2> QED BY <1>3, <1>4, <1>5, <2>1, <2>4, <2>5, <2>6, <2>7
<1> QED BY <1>2, <1>8, <1>9, <1>10, <1>11, <1>12, <1>13, <1>14, <1>15, <1>16, <1>17, <1>18 DEF Run

LEMMA ShutKeeps ==
    ASSUME IInv, ShutInv, mail.closed, [Next]_vars
    PROVE  ShutInv' /\ mail'.closed
<1>1. worker \in Workers /\ past \in Pasts /\ mail \in Mails /\ Drained(mail) /\ mail.job = None
  BY DEF IInv, TypeOK, ClosedInv
<1>2. CASE Run
  BY <1>2, ShutRun
<1>3. CASE Terminate
  <2>1. PICK outcome : Finish(outcome)
    BY <1>3 DEF Terminate
  <2>2. mail' = mail
    BY <2>1 DEF Finish
  <2>3. worker'.pc = "idle" /\ worker'.sound = worker.sound
    BY <1>1, <2>1 DEF Finish, Workers
  <2>4. past'.due \subseteq past.due
    BY <1>1, <2>1 DEF Finish, Pasts
  <2> QED BY <2>2, <2>3, <2>4 DEF ShutInv, Resting
<1>4. CASE Resume \/ Abort
  <2>1. worker'.sound = worker.sound /\ (worker'.pc = worker.pc \/ worker'.pc = "idle")
    BY <1>1, <1>4 DEF Resume, Abort, Workers
  <2>2. mail' = mail /\ past' = past
    BY <1>4 DEF Resume, Abort
  <2> QED BY <2>1, <2>2, ShutStep DEF Resting
<1>5. CASE Stop
  <2>1. worker'.sound = worker.sound /\ worker'.pc = "gone" /\ past' = past
    BY <1>1, <1>5, GotoAlike DEF Stop, Places, Alike
  <2>2. mail'.closed
    BY <1>1, <1>5 DEF Stop, Mails
  <2> QED BY <2>1, <2>2, ShutStep DEF Resting
<1>6. CASE \/ Listener \/ CheckRoots \/ CloneToken \/ CancelToken \/ UNCHANGED vars
  BY <1>6, ShutStep DEF Listener, Deliver, Overflow, CheckRoots, CloneToken, CancelToken, vars, Resting
<1>7. CASE Release
  <2>1. mail' = [mail EXCEPT !.pauses = Less(@, 1)] /\ worker' = worker /\ past' = past
    BY <1>7 DEF Release
  <2>2. mail'.closed
    BY <1>1, <2>1 DEF Mails
  <2> QED BY <2>1, <2>2, ShutStep DEF Resting
<1>8. ~TakeJob /\ ~WatchJob /\ ~Progress /\ ~Take /\ ~Suspend /\ ~Close /\ ~Environment
      /\ \A kind, scope : ~Refresh(kind, scope)
  BY <1>1 DEF TakeJob, WatchJob, MayWatch, Admits, Progress, Take, Suspend, Close, Environment,
     Refresh, Drained
<1> QED BY <1>2, <1>3, <1>4, <1>5, <1>6, <1>7, <1>8
        DEF Next, Worker, Work, Owner, Consume

LEMMA OpenKeeps ==
    ASSUME IInv, OpenInv, ~mail.closed, ~Close, [Next]_vars
    PROVE  OpenInv' /\ ~mail'.closed
<1>1. worker \in Workers /\ mail \in Mails
  BY DEF IInv, TypeOK
<1>2. CASE Run
  <2>1. CASE \/ ChangedScope \/ Discover \/ PrepareMonitor \/ \E d \in Dirs : OpenDirectory(d)
    <3>1. mail' = mail
      BY <2>1 DEF ChangedScope, Discover, PrepareMonitor, OpenDirectory
    <3> QED BY <2>1, <3>1, ScopeFresh, DiscoverFresh, PrepareFresh, OpenFresh
  <2>2. CASE \/ Begin \/ Traverse \/ ReadDirectory \/ Probe
    BY <2>2, BeginFresh, TraverseFresh, ReadFresh, ProbeFresh
  <2>3. CASE \/ Warn \/ ReadError \/ Scanned \/ Replace \/ PassDone \/ ReportFailure \/ Breaks
             \/ \E d \in Dirs : Publish(d) \/ Withdraw(d)
    BY <2>3, GoesFresh
  <2> QED BY <1>2, <2>1, <2>2, <2>3 DEF Run
<1>3. CASE Terminate
  <2>1. PICK outcome : Finish(outcome)
    BY <1>3 DEF Terminate
  <2>2. mail'.closed = mail.closed
    BY <1>1, <2>1 DEF Finish, Mails
  <2> QED BY <1>3, <2>2, TerminateFresh
<1>4. CASE TakeJob \/ WatchJob
  <2>1. mail'.closed = mail.closed
    BY <1>1, <1>4 DEF TakeJob, WatchJob, Mails
  <2> QED BY <1>4, <2>1, JobFresh
<1>5. CASE Resume
  <2>1. worker' = [worker EXCEPT !.held = None] /\ mail' = Push(mail, worker.held)
    BY <1>5 DEF Resume
  <2>2. Alike(worker', worker) /\ worker'.pc = worker.pc
    BY <1>1, <2>1 DEF Alike, Workers
  <2>3. mail'.closed = mail.closed
    BY <1>1, <2>1 DEF Push, Mails
  <2>4. session' = session /\ disk' = disk /\ past' = past /\ monitor' = monitor
    BY <1>5 DEF Resume
  <2> QED BY <2>2, <2>3, <2>4, ApartFresh DEF Sees
<1>6. CASE Abort
  <2>1. PICK v : v = [worker EXCEPT !.fault = TRUE, !.at = None]
    OBVIOUS
  <2>2. v \in Workers /\ v.pc = worker.pc /\ v.todo = worker.todo
    BY <1>1, <2>1 DEF Workers
  <2>3. /\ v.kind = worker.kind /\ v.extra = worker.extra /\ v.changed = worker.changed
        /\ v.sound = worker.sound /\ v.scope = worker.scope /\ v.partial = worker.partial
        /\ v.at = None /\ v.outcome = worker.outcome
    BY <1>1, <2>1 DEF Workers
  <2>4. worker.pc = "scan" /\ worker' = v /\ mail' = mail
        /\ UNCHANGED <<session, monitor, disk, past>>
    BY <1>6, <2>1 DEF Abort, At
  <2> QED BY <2>2, <2>3, <2>4, GoFresh DEF Resting, Installed, Early, Broken
<1>7. CASE Listener \/ CheckRoots \/ Environment
  <2>1. mail' = mail
    BY <1>7 DEF Listener, Deliver, Overflow, CheckRoots, Environment, Change, ReplaceRoot,
       ListenerFails
  <2> QED BY <1>7, <2>1, ListenerFresh, ChangeFresh, ReplaceRootFresh DEF Environment
<1>8. CASE UNCHANGED <<worker, session, monitor, disk, past>> /\ mail'.closed = mail.closed
  BY <1>8, ApartFresh DEF Alike, Sees
<1>9. CASE \/ Progress \/ Take \/ Suspend \/ Release \/ CloneToken \/ CancelToken
           \/ UNCHANGED vars \/ \E kind, scope : Refresh(kind, scope)
  <2>1. UNCHANGED <<worker, session, monitor, disk, past>>
    BY <1>9 DEF Progress, Take, Suspend, Release, CloneToken, CancelToken, Refresh, vars
  <2>2. mail'.closed = mail.closed
    <3>1. Cleared(mail) \in Mails /\ Cleared(mail).closed = mail.closed
      BY ClearedIs DEF IInv, TypeOK, Kept, SameRest
    <3>2. CASE Progress
      <4>1. PICK c \in Mails : c = Cleared(mail)
        BY <3>1
      <4>2. mail' = c \/ mail' = [c EXCEPT !.progress = TRUE, !.bytes = @ + Cost("progress")]
        BY <3>2, <4>1 DEF Progress
      <4> QED BY <3>1, <4>1, <4>2 DEF Mails
    <3>3. CASE Take
      BY <1>1, <3>1, <3>3 DEF Take, Mails
    <3>4. CASE Suspend \/ Release \/ CloneToken \/ CancelToken \/ UNCHANGED vars
      BY <1>1, <3>4 DEF Suspend, Release, CloneToken, CancelToken, vars, Mails
    <3>5. ASSUME NEW kind, NEW scope, Refresh(kind, scope)
          PROVE  mail'.closed = mail.closed
      BY <1>1, <3>5 DEF Refresh, Mails
    <3> QED BY <1>9, <3>2, <3>3, <3>4, <3>5
  <2> QED BY <1>8, <2>1, <2>2
<1>10. ~Stop
  BY DEF Stop
<1> QED BY <1>2, <1>3, <1>4, <1>5, <1>6, <1>7, <1>9, <1>10
        DEF Next, Worker, Work, Owner, Consume

LEMMA FreshKeeps ==
    ASSUME IInv, FreshInv, [Next]_vars
    PROVE  FreshInv'
<1>1. CASE mail.closed
  BY <1>1, ShutKeeps DEF FreshInv, ShutInv
<1>2. CASE ~mail.closed /\ Close
  <2>1. past' = NoPast
    BY <1>2 DEF Close
  <2>2. mail \in Mails
    BY DEF IInv, TypeOK
  <2>3. mail'.closed
    BY <1>2, <2>2 DEF Close, Mails
  <2> QED BY <2>1, <2>3 DEF FreshInv, NoPast
<1>3. CASE ~mail.closed /\ ~Close
  BY <1>3, OpenKeeps DEF FreshInv, OpenInv
<1> QED BY <1>1, <1>2, <1>3

LEMMA FreshInit ==
    ASSUME Init
    PROVE  FreshInv
<1>1. {} \in SUBSET Dirs /\ worker = Begun("all", {}) /\ past = NoPast /\ ~mail.closed
  BY DEF Init
<1>2. /\ worker.kind = "all" /\ worker.pc = "begin" /\ ~worker.extra /\ ~worker.sound
      /\ worker.at = None /\ worker.outcome # "complete"
  BY <1>1, BegunFields
<1>3. Left = Dirs
  BY <1>2 DEF Left, Early
<1>4. session.roots \subseteq Dirs
  BY InitIs, RestIs DEF IInv
<1>5. DueInv /\ NewsInv
  BY <1>2, <1>3, <1>4 DEF DueInv, NewsInv
<1>6. ScopeInv
  BY <1>1, <1>2 DEF ScopeInv, Installed, NoPast
<1> QED BY <1>1, <1>5, <1>6 DEF FreshInv

\* A refresh of what has changed that ends complete has read everything that
\* was behind when it took its scope and whose notification had arrived, or it
\* read all the roots: no overflow, failure, replaced root, late subscription
\* or change during the scan hides a directory (watch.rs, change_monitor.rs,
\* changed_scope, prepare_monitor, run_progressive).
THEOREM RefreshTheorem == Spec => []RefreshIsFresh
<1>1. Init => IInv /\ FreshInv
  BY InitIs, FreshInit
<1>2. IInv /\ FreshInv /\ [Next]_vars => IInv' /\ FreshInv'
  BY NextKeeps, FreshKeeps
<1>3. ASSUME IInv, FreshInv PROVE RefreshIsFresh
  <2>1. SUFFICES ASSUME worker.changed, worker.sound, worker.outcome = "complete"
                 PROVE  past.due \cap session.roots = {}
    BY DEF RefreshIsFresh
  <2>2. CASE mail.closed
    BY <1>3, <2>1, <2>2 DEF FreshInv
  <2>3. CASE ~mail.closed
    <3>1. Resting /\ worker.kind # "changed" /\ ~worker.partial
      BY <1>3, <2>1, <2>3 DEF FreshInv, ScopeInv, Resting
    <3> QED BY <1>3, <2>1, <2>3, <3>1 DEF FreshInv, DueInv, Hopeful, Left, Got, Early, Resting, Broken
  <2> QED BY <2>2, <2>3
<1> QED BY <1>1, <1>2, <1>3, PTL DEF Spec

-----------------------------------------------------------------------------
(* What the owner will have seen when it has taken the queue. *)

LEMMA ShowsAppend ==
    ASSUME NEW q \in Seq(Events), NEW e \in Events, NEW rows, NEW d
    PROVE  Shows(Append(q, e), rows, d)
               <=> IF e.dir = d THEN e.kind # "removed" ELSE Shows(q, rows, d)
<1> DEFINE r == Append(q, e)
<1>1. PICK n \in Nat : n = Len(q)
  BY LenProperties
<1>2. /\ r \in Seq(Events) /\ Len(r) = n + 1 /\ r[n + 1] = e
      /\ \A j \in 1 .. n : r[j] = q[j]
  BY <1>1, AppendProperties
<1> HIDE DEF r
<1>3. DOMAIN q = 1 .. n /\ DOMAIN r = 1 .. n + 1
  BY <1>1, <1>2, LenProperties
<1>4. /\ \A j \in DOMAIN r : j = n + 1 \/ j \in DOMAIN q
      /\ \A j \in DOMAIN q : j \in DOMAIN r /\ n + 1 > j /\ ~(j > n + 1)
      /\ n + 1 \in DOMAIN r /\ ~(n + 1 > n + 1)
  BY <1>3
<1>5. CASE e.dir = d
  <2>1. ASSUME Shows(r, rows, d) PROVE e.kind # "removed"
    <3>1. ~(\A i \in DOMAIN r : r[i].dir # d)
      BY <1>2, <1>4, <1>5
    <3>2. PICK i \in DOMAIN r : /\ r[i].kind # "removed"
                                /\ \A j \in DOMAIN r : j > i => r[j].dir # d
      BY <2>1, <3>1 DEF Shows
    <3>3. i = n + 1
      BY <1>2, <1>4, <1>5, <3>2
    <3> QED BY <1>2, <3>2, <3>3
  <2>2. ASSUME e.kind # "removed" PROVE Shows(r, rows, d)
    <3>1. \A j \in DOMAIN r : j > n + 1 => r[j].dir # d
      BY <1>4
    <3> QED BY <1>2, <1>4, <1>5, <2>2, <3>1 DEF Shows
  <2> QED BY <1>5, <2>1, <2>2 DEF r
<1>6. CASE e.dir # d
  <2>1. (\A j \in DOMAIN r : r[j].dir # d) <=> (\A j \in DOMAIN q : q[j].dir # d)
    BY <1>2, <1>3, <1>4, <1>6
  <2>2. ASSUME NEW i \in DOMAIN q
        PROVE  (\A j \in DOMAIN r : j > i => r[j].dir # d)
                   <=> (\A j \in DOMAIN q : j > i => q[j].dir # d)
    BY <1>2, <1>3, <1>4, <1>6
  <2>3. ASSUME NEW i \in DOMAIN r, r[i].dir = d PROVE i \in DOMAIN q /\ r[i] = q[i]
    BY <1>2, <1>3, <1>4, <1>6, <2>3
  <2>4. \A i \in DOMAIN q : i \in DOMAIN r /\ r[i] = q[i]
    BY <1>2, <1>3, <1>4
  <2>5. (\E i \in DOMAIN r : /\ r[i].dir = d /\ r[i].kind # "removed"
                             /\ \A j \in DOMAIN r : j > i => r[j].dir # d)
           <=> \E i \in DOMAIN q : /\ q[i].dir = d /\ q[i].kind # "removed"
                                   /\ \A j \in DOMAIN q : j > i => q[j].dir # d
    BY <2>2, <2>3, <2>4
  <2> QED BY <1>6, <2>1, <2>5 DEF Shows, r
<1> QED BY <1>5, <1>6

\* An event goes that says nothing of d, or says what the rows then say.
LEMMA ShowsWithout ==
    ASSUME NEW q \in Seq(Events), NEW r \in Seq(Events), NEW k, Without(q, r, k),
           NEW rows, NEW left, NEW d,
           q[k].dir = d => k = 1 /\ (d \in left <=> q[k].kind # "removed"),
           q[k].dir # d => (d \in left <=> d \in rows)
    PROVE  Shows(r, left, d) <=> Shows(q, rows, d)
<1>1. PICK n \in Nat : n = Len(q)
  BY LenProperties
<1>2. DOMAIN q = 1 .. n /\ k \in 1 .. n /\ DOMAIN r = 1 .. n - 1
      /\ \A j \in 1 .. n - 1 : r[j] = IF j < k THEN q[j] ELSE q[j + 1]
  BY <1>1, LenProperties DEF Without
<1> DEFINE Up(j) == IF j < k THEN j ELSE j + 1
           Down(j) == IF j < k THEN j ELSE j - 1
           Silent(s, i) == \A j \in DOMAIN s : j > i => s[j].dir # d
<1>3. ASSUME NEW i \in DOMAIN r
      PROVE  Up(i) \in DOMAIN q /\ q[Up(i)] = r[i] /\ Up(i) # k
  BY <1>2
<1>4. ASSUME NEW i \in DOMAIN q, i # k
      PROVE  Down(i) \in DOMAIN r /\ r[Down(i)] = q[i]
  <2>1. CASE i < k
    BY <1>2, <2>1
  <2>2. CASE ~(i < k)
    <3>1. i - 1 \in 1 .. n - 1 /\ ~(i - 1 < k) /\ (i - 1) + 1 = i
      BY <1>2, <1>4, <2>2
    <3> QED BY <1>2, <2>2, <3>1
  <2> QED BY <2>1, <2>2
<1>5. ASSUME NEW i \in DOMAIN r, NEW j \in DOMAIN r
      PROVE  Up(j) > Up(i) <=> j > i
  BY <1>2
<1>6. ASSUME NEW i \in DOMAIN q, i # k PROVE Up(Down(i)) = i
  BY <1>2, <1>6
<1> HIDE DEF Up, Down
<1>7. ASSUME q[k].dir # d PROVE Shows(r, left, d) <=> Shows(q, rows, d)
  <2>1. (\A i \in DOMAIN r : r[i].dir # d) <=> (\A i \in DOMAIN q : q[i].dir # d)
    <3>1. ASSUME \A i \in DOMAIN r : r[i].dir # d, NEW i \in DOMAIN q
          PROVE  q[i].dir # d
      <4>1. CASE i = k
        BY <1>7, <4>1
      <4>2. CASE i # k
        <5>1. Down(i) \in DOMAIN r /\ r[Down(i)] = q[i]
          BY <1>4, <4>2
        <5>2. r[Down(i)].dir # d
          BY <3>1, <5>1
        <5> QED BY <5>1, <5>2
      <4> QED BY <4>1, <4>2
    <3>2. ASSUME \A i \in DOMAIN q : q[i].dir # d, NEW i \in DOMAIN r
          PROVE  r[i].dir # d
      <4>1. Up(i) \in DOMAIN q /\ q[Up(i)] = r[i]
        BY <1>3
      <4>2. q[Up(i)].dir # d
        BY <3>2, <4>1
      <4> QED BY <4>1, <4>2
    <3> QED BY <3>1, <3>2
  <2>2. ASSUME NEW i \in DOMAIN r PROVE Silent(r, i) <=> Silent(q, Up(i))
    <3>1. ASSUME Silent(r, i), NEW j \in DOMAIN q, j > Up(i), q[j].dir = d PROVE FALSE
      <4>1. Down(j) \in DOMAIN r /\ r[Down(j)] = q[j] /\ Up(Down(j)) = j
        BY <1>4, <1>6, <1>7, <3>1
      <4>2. Down(j) > i
        BY <1>5, <3>1, <4>1
      <4> QED BY <3>1, <4>1, <4>2
    <3>2. ASSUME Silent(q, Up(i)), NEW j \in DOMAIN r, j > i PROVE r[j].dir # d
      <4>1. Up(j) \in DOMAIN q /\ q[Up(j)] = r[j] /\ Up(j) > Up(i)
        BY <1>3, <1>5, <3>2
      <4> QED BY <3>2, <4>1
    <3> QED BY <3>1, <3>2
  <2> HIDE DEF Silent
  <2>3. (\E i \in DOMAIN r : r[i].dir = d /\ r[i].kind # "removed" /\ Silent(r, i))
           <=> \E i \in DOMAIN q : q[i].dir = d /\ q[i].kind # "removed" /\ Silent(q, i)
    <3>1. ASSUME NEW i \in DOMAIN r, r[i].dir = d, r[i].kind # "removed", Silent(r, i)
          PROVE  \E j \in DOMAIN q : q[j].dir = d /\ q[j].kind # "removed" /\ Silent(q, j)
      BY <1>3, <2>2, <3>1
    <3>2. ASSUME NEW i \in DOMAIN q, q[i].dir = d, q[i].kind # "removed", Silent(q, i)
          PROVE  \E j \in DOMAIN r : r[j].dir = d /\ r[j].kind # "removed" /\ Silent(r, j)
      <4>1. Down(i) \in DOMAIN r /\ r[Down(i)] = q[i] /\ Up(Down(i)) = i
        BY <1>4, <1>6, <1>7, <3>2
      <4> QED BY <2>2, <3>2, <4>1
    <3> QED BY <3>1, <3>2
  <2>4. d \in left <=> d \in rows
    BY <1>7
  <2> QED BY <2>1, <2>3, <2>4 DEF Shows, Silent
<1>8. ASSUME q[k].dir = d PROVE Shows(r, left, d) <=> Shows(q, rows, d)
  <2>1. k = 1 /\ (d \in left <=> q[1].kind # "removed") /\ q[1].dir = d /\ 1 \in DOMAIN q
    BY <1>2, <1>8
  <2>2. \A j \in DOMAIN r : j + 1 \in DOMAIN q /\ q[j + 1] = r[j]
    BY <1>2, <2>1
  <2>3. \A j \in DOMAIN q : j = 1 \/ (j - 1 \in DOMAIN r /\ q[j] = r[j - 1] /\ j > 1)
    BY <1>2, <2>1
  <2>4. (\A j \in DOMAIN r : r[j].dir # d) <=> \A j \in DOMAIN q : j > 1 => q[j].dir # d
    <3>1. \A j \in DOMAIN r : j + 1 > 1
      BY <1>2
    <3> QED BY <2>2, <2>3, <3>1
  <2>5. ASSUME NEW i \in DOMAIN r PROVE Silent(r, i) <=> Silent(q, i + 1)
    <3>1. \A j \in DOMAIN r : j > i <=> j + 1 > i + 1
      BY <1>2
    <3>2. \A j \in DOMAIN q : j > i + 1 => j # 1 /\ j - 1 > i
      BY <1>2
    <3> QED BY <2>2, <2>3, <3>1, <3>2
  <2>6. ASSUME Shows(r, left, d) PROVE Shows(q, rows, d)
    <3>1. CASE d \in left /\ \A j \in DOMAIN r : r[j].dir # d
      BY <2>1, <2>4, <3>1 DEF Shows
    <3>2. ASSUME NEW i \in DOMAIN r, r[i].dir = d, r[i].kind # "removed", Silent(r, i)
          PROVE  Shows(q, rows, d)
      BY <2>2, <2>5, <3>2 DEF Shows
    <3> QED BY <2>6, <3>1, <3>2 DEF Shows
  <2>7. ASSUME Shows(q, rows, d) PROVE Shows(r, left, d)
    <3>1. PICK i \in DOMAIN q : q[i].dir = d /\ q[i].kind # "removed" /\ Silent(q, i)
      BY <2>1, <2>7 DEF Shows
    <3>2. CASE i = 1
      BY <2>1, <2>4, <3>1, <3>2 DEF Shows
    <3>3. CASE i # 1
      <4>1. i - 1 \in DOMAIN r /\ q[i] = r[i - 1] /\ (i - 1) + 1 = i
        BY <1>2, <2>3, <3>3
      <4>2. Silent(r, i - 1)
        BY <2>5, <3>1, <4>1
      <4> QED BY <3>1, <4>1, <4>2 DEF Shows
    <3> QED BY <3>2, <3>3
  <2> QED BY <2>6, <2>7
<1> QED BY <1>7, <1>8

LEMMA SupersedingShows ==
    ASSUME NEW m \in Mails, Accounted(m), NEW e \in Events, NEW rows, NEW d, d # e.dir
    PROVE  Shows(Superseding(m, e).queue, rows, d) <=> Shows(m.queue, rows, d)
<1> DEFINE q == m.queue
           First(i) == StaleAt(q, e, i) /\ \A j \in 1 .. i - 1 : ~StaleAt(q, e, j)
           first == CHOOSE i \in DOMAIN q : First(i)
           r == RemoveAt(q, first)
           f == Shrunk(m, r, Cost("base"))
<1>1. q \in Seq(Events)
  BY MailIs
<1>2. CASE e.kind \in {"base", "current"} /\ \E i \in DOMAIN q : StaleAt(q, e, i)
  <2>1. \E i \in DOMAIN q : First(i)
    BY <1>1, <1>2, FirstStale
  <2>2. first \in DOMAIN q /\ First(first)
    <3> HIDE DEF First
    <3> QED BY <2>1
  <2>3. Superseding(m, e) = f
    BY <1>2 DEF Superseding, Shrunk
  <2>4. q[first].dir = e.dir /\ q[first].kind = "base"
    BY <2>2 DEF StaleAt
  <2> HIDE DEF first
  <2>5. r \in Seq(Events) /\ Without(q, r, first)
    BY <1>1, <2>2, RemoveIs
  <2> HIDE DEF r
  <2>6. Cost("base") = Cost(m.queue[first].kind)
    BY <2>4
  <2>7. f.queue = r
    BY <2>2, <2>5, <2>6, ShrunkIs
  <2>8. Shows(r, rows, d) <=> Shows(q, rows, d)
    BY <1>1, <2>4, <2>5, ShowsWithout
  <2> QED BY <2>3, <2>7, <2>8
<1>3. CASE ~(e.kind \in {"base", "current"} /\ \E i \in DOMAIN q : StaleAt(q, e, i))
  BY <1>3 DEF Superseding
<1> QED BY <1>2, <1>3

LEMMA FittedShows ==
    ASSUME NEW m \in Mails, Accounted(m), NEW e \in Events, NEW rows, NEW d, d # e.dir
    PROVE  Shows(Fitted(m, e).queue, rows, d) <=> Shows(m.queue, rows, d)
<1>1. PICK o : o = Superseding(m, e)
  OBVIOUS
<1>2. o \in Mails /\ Accounted(o)
  BY <1>1, SupersedingIs
<1>3. Cleared(o).queue = o.queue
  BY <1>2, ClearedIs
<1>4. Shows(o.queue, rows, d) <=> Shows(m.queue, rows, d)
  BY <1>1, SupersedingShows
<1>5. Fitted(m, e) = o \/ Fitted(m, e) = Cleared(o)
  BY <1>1 DEF Fitted
<1> QED BY <1>3, <1>4, <1>5

\* Writers that differ at most in what they hold.
Twin(w, v) == Alike(w, v) /\ w.pc = v.pc /\ w.found = v.found

\* An event that is sent, or held, decides what the owner will see of its
\* directory and of no other one.
LEMMA EmitShows ==
    ASSUME IInv, NEW m \in {mail, Cleared(mail)}, NEW kind \in Kinds,
           NEW d \in Dirs \cup {None}, NEW next \in Workers,
           kind \in RowKinds <=> d # None, EmitFrom(m, kind, d, next), ~mail.closed,
           worker.held = None, next.held = None, view' = view
    PROVE  /\ Twin(worker', next)
           /\ \A x \in Dirs : WillShow(x)' <=> IF d = x THEN kind # "removed" ELSE WillShow(x)
<1>1. mail \in Mails /\ Accounted(mail) /\ m \in Mails /\ Accounted(m) /\ m.queue = mail.queue
  <2>1. mail \in Mails /\ Accounted(mail)
    BY DEF IInv, TypeOK
  <2>2. Cleared(mail) \in Mails /\ Accounted(Cleared(mail)) /\ Cleared(mail).queue = mail.queue
    BY <2>1, ClearedIs
  <2> QED BY <2>1, <2>2
<1>2. PICK e : e = [rev |-> mail.revision, kind |-> kind, dir |-> d]
  OBVIOUS
<1>3. e \in Events /\ e.kind = kind /\ e.dir = d /\ e # None
  <2>1. mail.revision \in 1 .. MaxRevision
    BY <1>1, MailIs
  <2>2. e \in Events
    BY <1>2, <2>1, EventIs
  <2> QED BY <1>2, <2>2, AbsenceAssumption
<1>4. PICK f : f = Fitted(m, e)
  OBVIOUS
<1>5. f \in Mails /\ Accounted(f) /\ f.queue \in Seq(Events)
  <2>1. f \in Mails /\ Accounted(f)
    BY <1>1, <1>3, <1>4, FittedIs
  <2> QED BY <2>1, MailIs
<1>6. \A x \in Dirs : x # d => (Shows(f.queue, view.rows, x) <=> WillShow(x))
  BY <1>1, <1>3, <1>4, FittedShows DEF WillShow
<1>7. IF Room(f, kind) THEN mail' = Push(f, e) /\ worker' = next
      ELSE mail' = f /\ worker' = [next EXCEPT !.held = e]
  BY <1>2, <1>4, Zenon DEF EmitFrom, Fitted
<1>8. CASE Room(f, kind)
  <2>1. mail'.queue = Append(f.queue, e) /\ worker' = next
    BY <1>3, <1>5, <1>7, <1>8, PushIs
  <2>2. Twin(worker', next)
    BY <2>1 DEF Twin, Alike
  <2>3. ASSUME NEW x \in Dirs
        PROVE  WillShow(x)' <=> IF d = x THEN kind # "removed" ELSE WillShow(x)
    <3>1. WillShow(x)' <=> Shows(mail'.queue, view.rows, x)
      BY <2>1 DEF WillShow
    <3>2. Shows(Append(f.queue, e), view.rows, x)
             <=> IF e.dir = x THEN e.kind # "removed" ELSE Shows(f.queue, view.rows, x)
      BY <1>3, <1>5, ShowsAppend
    <3> QED BY <1>3, <1>6, <2>1, <3>1, <3>2
  <2> QED BY <2>2, <2>3
<1>9. CASE ~Room(f, kind)
  <2>1. mail' = f /\ worker' = [next EXCEPT !.held = e]
    BY <1>7, <1>9
  <2>2. Twin(worker', next) /\ worker'.held = e
    BY <2>1 DEF Twin, Alike, Workers
  <2>3. ASSUME NEW x \in Dirs
        PROVE  WillShow(x)' <=> IF d = x THEN kind # "removed" ELSE WillShow(x)
    <3>1. WillShow(x)' <=> IF d = x THEN kind # "removed" ELSE Shows(f.queue, view.rows, x)
      BY <1>3, <2>1, <2>2 DEF WillShow
    <3> QED BY <1>6, <3>1
  <2> QED BY <2>2, <2>3
<1> QED BY <1>8, <1>9

\* A step that leaves rows, queue and presentation index alone.
LEMMA SameRows ==
    ASSUME RowsInv, session'.presented = session.presented, mail'.queue = mail.queue,
           worker'.held = worker.held, view'.rows = view.rows
    PROVE  RowsInv'
<1>1. \A d \in Dirs : WillShow(d)' <=> WillShow(d)
  BY DEF WillShow
<1> QED BY <1>1 DEF RowsInv

\* What is sent and what is presented agree.
LEMMA SentRows ==
    ASSUME IInv, RowsInv, ~mail.closed, NEW v \in Workers, worker.held = None, v.held = None,
           view' = view,
           \/ mail' = mail /\ worker' = v /\ session'.presented = session.presented
           \/ \E m \in {mail, Cleared(mail)}, kind \in Kinds, d \in Dirs \cup {None} :
                 /\ (kind \in RowKinds <=> d # None) /\ EmitFrom(m, kind, d, v)
                 /\ session'.presented = IF kind = "base" THEN session.presented \cup {d}
                                         ELSE IF kind = "removed" THEN session.presented \ {d}
                                         ELSE session.presented
                 /\ kind = "current" => d \in session.presented
    PROVE  RowsInv' /\ Twin(worker', v)
<1>1. CASE mail' = mail /\ worker' = v /\ session'.presented = session.presented
  BY <1>1, SameRows DEF Twin, Alike
<1>2. ASSUME NEW m \in {mail, Cleared(mail)}, NEW kind \in Kinds, NEW d \in Dirs \cup {None},
             kind \in RowKinds <=> d # None, EmitFrom(m, kind, d, v),
             session'.presented = IF kind = "base" THEN session.presented \cup {d}
                                  ELSE IF kind = "removed" THEN session.presented \ {d}
                                  ELSE session.presented,
             kind = "current" => d \in session.presented
      PROVE  RowsInv' /\ Twin(worker', v)
  <2>1. /\ Twin(worker', v)
        /\ \A x \in Dirs : WillShow(x)' <=> IF d = x THEN kind # "removed" ELSE WillShow(x)
    BY <1>2, EmitShows
  <2>2. ASSUME NEW x \in Dirs PROVE x \in session'.presented <=> WillShow(x)'
    <3>1. x \in session.presented <=> WillShow(x)
      BY DEF RowsInv
    <3>2. CASE d = x
      <4>1. kind \in {"base", "current", "removed"}
        BY <1>2, <3>2, JunkSessionAssumption DEF RowKinds
      <4> QED BY <1>2, <2>1, <3>2, <4>1
    <3>3. CASE d # x
      BY <1>2, <2>1, <3>1, <3>3
    <3> QED BY <3>2, <3>3
  <2> QED BY <2>1, <2>2 DEF RowsInv
<1> QED BY <1>1, <1>2

-----------------------------------------------------------------------------
(* What the worker has read, presented and will withdraw. *)

HoldInv == FoundInv /\ PassInv /\ TruthInv

\* The worker goes on from one place to the next, without reading anything.
Onward(v) ==
    \/ v.pc \in {"fail", "failed"} /\ v.at = None
    \/ /\ worker.pc = "scan" /\ v.pc = "scan" /\ v.partial /\ v.at = None
       /\ v.todo \subseteq worker.todo /\ v.found = worker.found
    \/ /\ Early /\ v.pc \in {"discover", "install", "warn", "traverse"} /\ v.at = None
       /\ worker.kind = "all" /\ v.pc # "discover" => session.roots = Known
    \/ /\ worker.pc = "scan" /\ v.pc = "scan" /\ v.todo = worker.todo /\ v.found = worker.found
       /\ v.at # None => v.at \in v.todo
    \/ /\ worker.pc = "scan" /\ v.pc = "publish" /\ worker.todo = {} /\ v.at = None
       /\ v.found = worker.found /\ v.todo = worker.found
    \/ /\ worker.pc = "publish" /\ v.pc = "publish" /\ v.at = None
       /\ v.found = worker.found /\ v.todo \subseteq worker.todo
    \/ /\ worker.pc = "publish" /\ v.pc = "replace" /\ v.at = None /\ v.found = worker.found
       /\ v.todo \subseteq (session.presented \cap Covers(worker)) \ worker.found
       /\ v.partial \/ v.todo = (session.presented \cap Covers(worker)) \ worker.found
    \/ worker.pc = "replace" /\ worker.todo = {} /\ v.pc \in {"done", "last", "probe"} /\ v.at = None
    \/ worker.pc = "probe" /\ v.pc \in {"done", "last"} /\ v.at = None

LEMMA HoldStep ==
    ASSUME HoldInv, ~Resting, NEW v, Twin(worker', v), Onward(v),
           v.kind = worker.kind, v.extra = worker.extra, v.scope = worker.scope,
           Broken \/ worker.partial => v.pc \in {"fail", "failed"} \/ v.partial,
           session'.roots = session.roots, session'.presented = session.presented,
           disk'.holds = disk.holds, past'.behind = past.behind, past'.fresh = past.fresh,
           past'.gapless = past.gapless
    PROVE  HoldInv'
<1>1. /\ worker'.pc = v.pc /\ worker'.at = v.at /\ worker'.todo = v.todo
      /\ worker'.found = v.found /\ worker'.partial = v.partial
      /\ worker'.kind = worker.kind /\ worker'.extra = worker.extra
      /\ worker'.scope = worker.scope
  BY DEF Twin, Alike
<1>2. Covers(worker)' = Covers(worker) /\ ScopeOf(worker)' = ScopeOf(worker)
  BY <1>1 DEF Covers, ScopeOf
<1>3. ~Resting'
  BY <1>1 DEF Onward, Resting, Early
<1>4. Trusted' => Trusted /\ ~worker'.partial /\ v.pc \notin {"fail", "failed"}
  BY <1>1, <1>3 DEF Trusted, Broken
<1>5. PassInv'
  <2>1. worker.extra => worker.kind = "dirs" /\ worker.scope = Extras
    BY DEF HoldInv, PassInv
  <2>2. worker.extra /\ Early' => past.fresh \cap Extras = {}
    <3>1. Early' => Early
      BY <1>1 DEF Onward, Early
    <3> QED BY <3>1 DEF HoldInv, PassInv
  <2>3. ASSUME worker.kind = "all"
        PROVE  /\ v.pc \in {"install", "warn", "traverse"} => session.roots = Known
               /\ v.pc = "scan" => v.todo \subseteq Known
               /\ v.pc \in {"scan", "publish", "replace", "probe"} => past.fresh \subseteq Known
    BY <2>3 DEF Onward, HoldInv, PassInv, Scanning
  <2> QED BY <1>1, <2>1, <2>2, <2>3 DEF PassInv, Scanning
<1>6. FoundInv'
  <2>1. CASE v.pc \in {"fail", "failed", "discover", "install", "warn", "traverse", "done",
                       "last", "probe"} /\ v.at = None
    BY <1>1, <2>1 DEF FoundInv, Scanning
  <2>2. CASE worker.pc = "scan" /\ v.pc = "scan" /\ v.todo \subseteq worker.todo
             /\ v.found = worker.found /\ (v.at # None => v.at \in v.todo)
    BY <1>1, <1>2, <2>2 DEF HoldInv, FoundInv, Scanning
  <2>3. CASE /\ worker.pc \in {"scan", "publish"} /\ v.pc = "publish" /\ v.at = None
             /\ v.found = worker.found /\ v.todo \subseteq worker.found
    BY <1>1, <1>2, <2>3 DEF HoldInv, FoundInv, Scanning
  <2>4. CASE /\ worker.pc = "publish" /\ v.pc = "replace" /\ v.at = None /\ v.found = worker.found
             /\ v.todo \subseteq (session.presented \cap Covers(worker)) \ worker.found
    BY <1>1, <1>2, <2>4 DEF HoldInv, FoundInv, Scanning
  <2>5. worker.pc = "publish" => worker.todo \subseteq worker.found
    BY DEF HoldInv, FoundInv
  <2> QED BY <2>1, <2>2, <2>3, <2>4, <2>5 DEF Onward
<1>7. ASSUME Trusted'
      PROVE  /\ Got' = Got /\ Left' = Left /\ (Scanning' => Scanning)
             /\ \A d \in session.presented : Doomed(d) => Doomed(d)'
  <2>1. v.pc \notin {"fail", "failed"} /\ ~v.partial
    BY <1>1, <1>4, <1>7
  <2>2. CASE Early /\ v.pc \in {"discover", "install", "warn", "traverse"}
    BY <1>1, <2>2 DEF Got, Left, Early, Resting, Scanning, Doomed
  <2>3. CASE worker.pc = "scan" /\ v.pc = "scan" /\ v.todo = worker.todo /\ v.found = worker.found
    BY <1>1, <1>2, <2>3 DEF Got, Left, Early, Resting, Scanning, Doomed
  <2>4. CASE /\ worker.pc = "scan" /\ v.pc = "publish" /\ worker.todo = {}
             /\ v.found = worker.found
    BY <1>1, <1>2, <2>4 DEF Got, Left, Early, Resting, Scanning, Doomed
  <2>5. CASE worker.pc = "publish" /\ v.pc = "publish" /\ v.found = worker.found
    BY <1>1, <1>2, <2>5 DEF Got, Left, Early, Resting, Scanning, Doomed
  <2>6. CASE /\ worker.pc = "publish" /\ v.pc = "replace"
             /\ v.todo = (session.presented \cap Covers(worker)) \ worker.found
    BY <1>1, <1>2, <2>6 DEF Got, Left, Early, Resting, Scanning, Doomed
  <2>7. CASE \/ worker.pc = "replace" /\ worker.todo = {}
             \/ worker.pc = "probe"
    <3>1. v.pc \in {"done", "last", "probe"}
      BY <2>1, <2>7 DEF Onward, Early
    <3> QED BY <1>1, <2>7, <3>1 DEF Got, Left, Early, Resting, Scanning, Doomed
  <2> QED BY <2>1, <2>2, <2>3, <2>4, <2>5, <2>6, <2>7 DEF Onward
<1>8. TruthInv'
  <2>1. SUFFICES ASSUME Trusted' PROVE
           /\ \A d \in session.roots \ (Got' \cup Left' \cup past.behind) :
                 d \in session.presented <=> disk.holds[d]
           /\ \A d \in Got' : /\ disk.holds[d] => d \in session.presented
                              /\ d \in session.presented => disk.holds[d] \/ Doomed(d)'
           /\ Scanning' => ScopeOf(worker) \subseteq Got' \cup Left' \cup past.behind
    BY <1>2 DEF TruthInv
  <2>2. /\ Got' = Got /\ Left' = Left /\ (Scanning' => Scanning)
        /\ \A d \in session.presented : Doomed(d) => Doomed(d)'
    BY <1>7, <2>1
  <2>3. Trusted /\ TruthInv
    BY <1>4, <2>1 DEF HoldInv
  <2> QED BY <2>2, <2>3 DEF TruthInv
<1> QED BY <1>5, <1>6, <1>8 DEF HoldInv

\* The worker leaves the mailbox alone or sends what the index does not
\* change with.
Sends(v) ==
    \/ mail' = mail /\ worker' = v
    \/ \E m \in {mail, Cleared(mail)}, kind \in Kinds \ {"base", "removed"}, d \in Dirs \cup {None} :
          /\ kind \in RowKinds <=> d # None
          /\ EmitFrom(m, kind, d, v)
          /\ kind = "current" => d \in session.presented

LEMMA GoView ==
    ASSUME IInv, OpenInv, RowsInv, HoldInv, ~mail.closed, NEW v \in Workers, worker.held = None,
           v.held = None, view' = view, ~Resting, Sends(v), Onward(v),
           v.kind = worker.kind, v.extra = worker.extra, v.scope = worker.scope,
           Broken \/ worker.partial => v.pc \in {"fail", "failed"} \/ v.partial,
           session'.roots = session.roots, session'.presented = session.presented,
           disk'.holds = disk.holds, past'.behind = past.behind, past'.fresh = past.fresh,
           past'.gapless = past.gapless
    PROVE  RowsInv' /\ HoldInv'
<1>1. RowsInv' /\ Twin(worker', v)
  <2>1. CASE mail' = mail /\ worker' = v
    BY <2>1, SentRows
  <2>2. ASSUME NEW m \in {mail, Cleared(mail)}, NEW kind \in Kinds \ {"base", "removed"},
               NEW d \in Dirs \cup {None}, kind \in RowKinds <=> d # None,
               EmitFrom(m, kind, d, v), kind = "current" => d \in session.presented
        PROVE  RowsInv' /\ Twin(worker', v)
    <3>1. kind \in Kinds /\ kind # "base" /\ kind # "removed"
      BY <2>2
    <3> QED BY <2>2, <3>1, SentRows
  <2> QED BY <2>1, <2>2 DEF Sends
<1> QED BY <1>1, HoldStep

\* The steps of run() that only go on, or only send.
LEMMA GoesView ==
    ASSUME IInv, OpenInv, RowsInv, HoldInv, ~mail.closed, view' = view,
           \/ Begin \/ PrepareMonitor \/ Warn \/ PassDone \/ Breaks
    PROVE  RowsInv' /\ HoldInv'
<1>1. worker \in Workers /\ worker.held = None /\ past \in Pasts /\ session \in Sessions
      /\ disk \in Disks
      /\ worker.pc \in {"begin", "install", "warn", "replace", "discover", "traverse", "scan",
                        "publish"}
  BY DEF IInv, TypeOK, Begin, PrepareMonitor, Warn, PassDone, Breaks, At
<1>2. ~Resting /\ (worker.at # None => worker.pc = "scan")
  BY <1>1 DEF Resting, OpenInv, ScopeInv
<1>3. /\ session'.roots = session.roots /\ session'.presented = session.presented
      /\ disk'.holds = disk.holds
      /\ past'.behind = past.behind /\ past'.fresh = past.fresh
      /\ past'.gapless = past.gapless
  <2>1. past' = past \/ past' = [past EXCEPT !.due = {}]
    BY DEF Begin, PrepareMonitor, Warn, PassDone, Breaks, Fail
  <2>2. \/ session' = session \/ session' = [session EXCEPT !.warning = FALSE]
        \/ session' = [session EXCEPT !.disabled = TRUE, !.warning = TRUE]
    BY DEF Begin, PrepareMonitor, Warn, PassDone, Breaks, Fail
  <2>3. disk' = disk \/ disk' = [disk EXCEPT !.moved = FALSE]
    BY DEF Begin, PrepareMonitor, Warn, PassDone, Breaks, Fail
  <2> QED BY <1>1, <2>1, <2>2, <2>3 DEF Pasts, Sessions, Disks
<1>4. PICK pc \in {"discover", "fail", "warn", "traverse", "done", "last", "probe"} :
        /\ \/ mail' = mail /\ worker' = Goto(pc)
           \/ Emit("started", None, Goto(pc)) \/ Emit("warning", None, Goto(pc))
        /\ \/ pc = "fail" /\ worker.at = None
           \/ /\ worker.pc \in {"begin", "install", "warn"}
              /\ pc \in {"discover", "warn", "traverse"}
              /\ worker.pc = "begin" <=> pc = "discover"
           \/ worker.pc = "replace" /\ worker.todo = {} /\ pc \in {"done", "last", "probe"}
  <2>1. CASE Begin
    BY <1>2, <2>1 DEF Begin, At
  <2>2. CASE PrepareMonitor
    BY <2>2 DEF PrepareMonitor, At
  <2>3. CASE Warn
    BY <2>3 DEF Warn, At
  <2>4. CASE PassDone
    <3>1. worker.pc = "replace" /\ worker.todo = {}
      BY <2>4 DEF PassDone, At
    <3>2. \E pc \in {"done", "last", "probe"} : mail' = mail /\ worker' = Goto(pc)
      BY <2>4 DEF PassDone
    <3> QED BY <3>1, <3>2
  <2>5. CASE Breaks
    <3>1. mail' = mail /\ worker' = Goto("fail") /\ worker.at = None
      BY <1>2, <2>5 DEF Breaks, Fail, At
    <3> QED BY <3>1
  <2> QED BY <2>1, <2>2, <2>3, <2>4, <2>5
<1>5. PICK v : v = Goto(pc)
  OBVIOUS
<1>6. v \in Workers /\ v.pc = pc /\ v.held = None /\ Alike(v, worker) /\ v.found = worker.found
  <2>1. pc \in Places
    BY <1>4 DEF Places
  <2>2. v \in Workers /\ v.pc = pc /\ Alike(v, worker)
    BY <1>1, <1>5, <2>1, GotoAlike
  <2>3. v.held = None /\ v.found = worker.found
    BY <1>1, <1>5 DEF Goto, Workers
  <2> QED BY <2>2, <2>3
<1>7. Sends(v)
  <2>1. "started" \in Kinds /\ "warning" \in Kinds /\ "started" \notin RowKinds
        /\ "warning" \notin RowKinds
    BY DEF Kinds, RowKinds
  <2> QED BY <1>4, <1>5, <2>1 DEF Sends, Emit
<1>8. Onward(v)
  <2>1. CASE pc = "fail" /\ worker.at = None
    BY <1>6, <2>1 DEF Onward, Alike
  <2>2. CASE /\ worker.pc \in {"begin", "install", "warn"}
             /\ pc \in {"discover", "warn", "traverse"}
             /\ worker.pc = "begin" <=> pc = "discover"
    <3>1. v.at = None /\ Early
      BY <1>2, <1>6, <2>2 DEF Alike, Early
    <3>2. worker.kind = "all" /\ pc # "discover" => session.roots = Known
      BY <2>2 DEF HoldInv, PassInv
    <3> QED BY <1>6, <2>2, <3>1, <3>2 DEF Onward
  <2>3. CASE worker.pc = "replace" /\ worker.todo = {} /\ pc \in {"done", "last", "probe"}
    <3>1. v.at = None
      BY <1>2, <1>6, <2>3 DEF Alike
    <3> QED BY <1>6, <2>3, <3>1 DEF Onward
  <2> QED BY <1>4, <2>1, <2>2, <2>3
<1>9. ~Broken /\ v.partial = worker.partial /\ v.kind = worker.kind /\ v.extra = worker.extra
      /\ v.scope = worker.scope
  BY <1>1, <1>6 DEF Broken, Alike
<1> QED BY <1>1, <1>2, <1>3, <1>6, <1>7, <1>8, <1>9, GoView

\* The steps of a pass after its roots are known, where nothing is read.
LEMMA PassesView ==
    ASSUME IInv, OpenInv, RowsInv, HoldInv, ~mail.closed, view' = view,
           \/ ReadError \/ Scanned \/ Replace \/ ReportFailure
           \/ \E d \in Dirs : OpenDirectory(d) \/ Publish(d)
    PROVE  RowsInv' /\ HoldInv'
<1>1. worker \in Workers /\ worker.held = None /\ worker.errors \in Nat /\ worker.todo \in SUBSET Dirs
      /\ worker.found \in SUBSET Dirs /\ worker.pc \in {"scan", "publish", "fail"}
      /\ session.presented \in SUBSET Dirs
  <2>1. worker \in Workers /\ worker.held = None /\ worker.pc \in {"scan", "publish", "fail"}
    BY DEF IInv, TypeOK, ReadError, Scanned, Replace, ReportFailure, OpenDirectory, Publish, At
  <2> QED BY <2>1, WorkerIs, RestIs DEF IInv
<1>2. ~Resting /\ (worker.at # None => worker.pc = "scan" /\ worker.at \in worker.todo)
  BY <1>1 DEF Resting, OpenInv, ScopeInv, HoldInv, FoundInv
<1>3. session' = session /\ disk' = disk /\ past' = past
  BY DEF ReadError, Scanned, Replace, ReportFailure, OpenDirectory, Publish, Fail
<1>4. {"error", "current"} \subseteq Kinds \ {"base", "removed"}
      /\ "error" \notin RowKinds /\ "current" \in RowKinds /\ \A d \in Dirs : d # None
  BY JunkSessionAssumption DEF Kinds, RowKinds
<1> DEFINE Same(v) == /\ v.kind = worker.kind /\ v.extra = worker.extra
                      /\ v.scope = worker.scope /\ v.held = None
           Goal(v) == v \in Workers /\ Same(v) /\ Sends(v) /\ Onward(v)
                      /\ (Broken \/ worker.partial => v.pc \in {"fail", "failed"} \/ v.partial)
<1>5. ASSUME NEW v, Goal(v) PROVE RowsInv' /\ HoldInv'
  BY <1>1, <1>2, <1>3, <1>5, GoView
<1>6. CASE ReadError
  <2>1. PICK todo \in SUBSET Dirs : todo = worker.todo \ {worker.at}
    BY <1>1
  <2>2. PICK u : u = [worker EXCEPT !.at = None, !.todo = todo]
    OBVIOUS
  <2>3. u \in Workers /\ Same(u) /\ u.pc = worker.pc /\ u.at = None /\ u.todo = todo
        /\ u.found = worker.found
    BY <1>1, <2>2 DEF Workers
  <2>4. PICK v : v = [u EXCEPT !.errors = worker.errors + 1, !.partial = TRUE]
    OBVIOUS
  <2>5. v \in Workers /\ Same(v) /\ v.pc = worker.pc /\ v.at = None /\ v.todo = todo
        /\ v.found = worker.found /\ v.partial
    <3>1. worker.errors + 1 \in Nat
      BY <1>1
    <3> QED BY <2>3, <2>4, <3>1 DEF Workers
  <2>6. Sends(v)
    <3>1. v = [worker EXCEPT !.at = None, !.todo = @ \ {worker.at}, !.errors = @ + 1,
                             !.partial = TRUE]
      BY <2>1, <2>2, <2>4
    <3>2. EmitFrom(mail, "error", None, v)
      BY <1>6, <3>1 DEF ReadError, Emit
    <3> QED BY <1>4, <3>2 DEF Sends
  <2>7. worker.pc = "scan"
    BY <1>6 DEF ReadError, At
  <2>8. Onward(v)
    BY <2>1, <2>5, <2>7 DEF Onward
  <2> QED BY <1>5, <2>5, <2>6, <2>8
<1>7. CASE Scanned
  <2>1. worker.pc = "scan" /\ worker.at = None /\ mail' = mail
    BY <1>7 DEF Scanned, At
  <2>2. CASE worker' = Goto("fail")
    <3>1. PICK v : v = Goto("fail")
      OBVIOUS
    <3>2. v \in Workers /\ v.pc = "fail" /\ Alike(v, worker)
      BY <1>1, <3>1, GotoAlike DEF Places
    <3>3. v.held = None
      BY <1>1, <3>1 DEF Goto, Workers
    <3>4. Sends(v)
      BY <2>1, <2>2, <3>1 DEF Sends
    <3>5. Onward(v)
      BY <2>1, <3>2 DEF Onward, Alike
    <3> QED BY <1>5, <3>2, <3>3, <3>4, <3>5 DEF Alike
  <2>3. CASE /\ worker.todo = {}
             /\ worker' = [worker EXCEPT !.pc = "publish", !.todo = worker.found]
    <3>1. PICK v : v = [worker EXCEPT !.pc = "publish", !.todo = worker.found]
      OBVIOUS
    <3>2. v \in Workers
      <4>1. "publish" \in Places
        BY DEF Places
      <4> QED BY <1>1, <3>1, <4>1 DEF Workers
    <3>3. Same(v) /\ v.pc = "publish" /\ v.todo = worker.found /\ v.found = worker.found
          /\ v.at = worker.at /\ v.partial = worker.partial
      BY <1>1, <3>1 DEF Workers
    <3>4. Sends(v)
      BY <2>1, <2>3, <3>1 DEF Sends
    <3>5. Onward(v)
      BY <2>1, <2>3, <3>3 DEF Onward
    <3> QED BY <1>5, <2>1, <3>2, <3>3, <3>4, <3>5 DEF Broken
  <2> QED BY <1>7, <2>2, <2>3 DEF Scanned
<1>8. CASE Replace
  <2>1. worker.pc = "publish" /\ mail' = mail /\ worker.at = None
    BY <1>2, <1>8 DEF Replace, At
  <2>2. PICK partial \in BOOLEAN, todo \in SUBSET Dirs :
           /\ worker' = [worker EXCEPT !.pc = "replace", !.partial = partial, !.todo = todo]
           /\ worker.partial => partial
           /\ todo = IF partial THEN {} ELSE (session.presented \cap Covers(worker)) \ worker.found
    <3>1. PICK rows \in SUBSET Dirs :
             rows = (session.presented \cap Covers(worker)) \ worker.found
      BY <1>1
    <3>2. PICK partial \in BOOLEAN : partial = (worker.partial \/ worker.errors > 0)
      OBVIOUS
    <3>3. worker' = [worker EXCEPT !.pc = "replace", !.partial = partial,
                                   !.todo = IF partial THEN {} ELSE rows]
      BY <1>8, <3>1, <3>2 DEF Replace
    <3>4. (IF partial THEN {} ELSE rows) \in SUBSET Dirs
      OBVIOUS
    <3> QED BY <3>1, <3>2, <3>3, <3>4
  <2>3. PICK v : v = [worker EXCEPT !.pc = "replace", !.partial = partial, !.todo = todo]
    OBVIOUS
  <2>4. v \in Workers
    <3>1. PICK u : u = [worker EXCEPT !.partial = partial, !.todo = todo]
      OBVIOUS
    <3>2. u \in Workers
      BY <1>1, <3>1 DEF Workers
    <3>3. v = [u EXCEPT !.pc = "replace"] /\ "replace" \in Places
      BY <2>3, <3>1 DEF Places
    <3> QED BY <3>2, <3>3 DEF Workers
  <2>5. Same(v) /\ v.pc = "replace" /\ v.partial = partial /\ v.todo = todo
        /\ v.found = worker.found /\ v.at = worker.at
    BY <1>1, <2>3 DEF Workers
  <2>6. Sends(v)
    BY <2>1, <2>2, <2>3 DEF Sends
  <2>7. Onward(v)
    BY <2>1, <2>2, <2>5 DEF Onward
  <2> QED BY <1>5, <2>1, <2>2, <2>4, <2>5, <2>6, <2>7 DEF Broken
<1>9. CASE ReportFailure
  <2>1. worker.pc = "fail" /\ worker.at = None
    BY <1>2, <1>9 DEF ReportFailure, At
  <2>2. PICK v : v = [worker EXCEPT !.pc = "failed", !.errors = worker.errors + 1]
    OBVIOUS
  <2>3. v \in Workers
    <3>1. worker.errors + 1 \in Nat /\ "failed" \in Places
      BY <1>1 DEF Places
    <3> QED BY <1>1, <2>2, <3>1 DEF Workers
  <2>4. Same(v) /\ v.pc = "failed" /\ v.at = None
    BY <1>1, <2>1, <2>2 DEF Workers
  <2>5. Sends(v)
    <3>1. EmitFrom(mail, "error", None, v)
      BY <1>9, <2>2 DEF ReportFailure, Emit
    <3> QED BY <1>4, <3>1 DEF Sends
  <2>6. Onward(v)
    BY <2>4 DEF Onward
  <2> QED BY <1>5, <2>3, <2>4, <2>5, <2>6
<1>10. ASSUME NEW d \in Dirs, OpenDirectory(d) PROVE RowsInv' /\ HoldInv'
  <2>1. worker.pc = "scan" /\ d \in worker.todo /\ mail' = mail
    BY <1>10 DEF OpenDirectory, At
  <2>2. PICK v : v = [worker EXCEPT !.at = d]
    OBVIOUS
  <2>3. v \in Workers
    BY <1>1, <2>2 DEF Workers
  <2>4. Same(v) /\ v.pc = "scan" /\ v.at = d /\ v.todo = worker.todo /\ v.found = worker.found
        /\ v.partial = worker.partial
    BY <1>1, <2>1, <2>2 DEF Workers
  <2>5. Sends(v)
    BY <1>10, <2>2 DEF OpenDirectory, Sends
  <2>6. Onward(v)
    BY <2>1, <2>4 DEF Onward
  <2> QED BY <1>5, <2>1, <2>3, <2>4, <2>5, <2>6 DEF Broken
<1>11. ASSUME NEW d \in Dirs, Publish(d) PROVE RowsInv' /\ HoldInv'
  <2>1. worker.pc = "publish" /\ d \in worker.todo /\ worker.at = None
    BY <1>2, <1>11 DEF Publish, At
  <2>2. PICK v : v = [worker EXCEPT !.todo = worker.todo \ {d}]
    OBVIOUS
  <2>3. v \in Workers
    BY <1>1, <2>2 DEF Workers
  <2>4. Same(v) /\ v.pc = "publish" /\ v.at = None /\ v.todo \subseteq worker.todo
        /\ v.found = worker.found /\ v.partial = worker.partial
    BY <1>1, <2>1, <2>2 DEF Workers
  <2>5. d \in session.presented
    BY <2>1 DEF HoldInv, FoundInv, Scanning
  <2>6. Sends(v)
    <3>1. EmitFrom(mail, "current", d, v)
      BY <1>11, <2>2 DEF Publish, Emit
    <3> QED BY <1>4, <2>5, <3>1 DEF Sends
  <2>7. Onward(v)
    BY <2>1, <2>4 DEF Onward
  <2> QED BY <1>5, <2>1, <2>3, <2>4, <2>6, <2>7 DEF Broken
<1> QED BY <1>6, <1>7, <1>8, <1>9, <1>10, <1>11

LEMMA ScopeView ==
    ASSUME IInv, OpenInv, RowsInv, HoldInv, ChangedScope, view' = view
    PROVE  RowsInv' /\ HoldInv'
<1>1. worker \in Workers /\ worker.pc = "begin" /\ worker.kind = "changed" /\ past \in Pasts
  BY DEF IInv, TypeOK, ChangedScope, At
<1>2. ~worker.extra /\ worker.at = None
  BY <1>1 DEF OpenInv, ScopeInv
<1>3. /\ mail' = mail /\ session' = session /\ disk' = disk
      /\ past'.behind = past.behind /\ past'.fresh = past.fresh /\ past'.gapless = past.gapless
  BY <1>1 DEF ChangedScope, Pasts
<1>4. /\ worker'.pc = "begin" /\ worker'.extra = worker.extra /\ worker'.at = worker.at
      /\ worker'.partial = worker.partial /\ worker'.held = worker.held
  BY <1>1 DEF ChangedScope, Workers
<1>5. worker'.kind \in {"all", "dirs"}
  BY <1>1 DEF ChangedScope, Workers
<1>6. RowsInv'
  BY <1>3, <1>4, SameRows
<1>7. FoundInv' /\ PassInv'
  BY <1>2, <1>4 DEF FoundInv, PassInv, Scanning
<1>8. Left = {} /\ Got = {} /\ Got' = {} /\ (worker'.kind = "all" => Left' = Dirs) /\ ~Scanning'
  BY <1>1, <1>2, <1>4 DEF Left, Got, Early, Resting, Scanning
<1>9. TruthInv'
  <2>1. CASE worker'.kind = "all"
    <3>1. session.roots \in SUBSET Dirs
      BY RestIs DEF IInv
    <3> QED BY <1>3, <1>8, <2>1, <3>1 DEF TruthInv
  <2>2. CASE worker'.kind = "dirs"
    <3>1. Trusted' => Trusted
      BY <1>1, <1>2, <1>3, <1>4, <2>2 DEF Trusted, Resting, Broken
    <3> QED BY <1>3, <1>8, <3>1 DEF HoldInv, TruthInv
  <2> QED BY <1>5, <2>1, <2>2
<1> QED BY <1>6, <1>7, <1>9 DEF HoldInv

LEMMA DiscoverView ==
    ASSUME IInv, OpenInv, RowsInv, HoldInv, Discover, view' = view
    PROVE  RowsInv' /\ HoldInv'
<1>1. worker \in Workers /\ worker.pc = "discover" /\ session \in Sessions
  BY DEF IInv, TypeOK, Discover, At
<1>2. worker.kind \in {"all", "dirs"} /\ worker.at = None
  BY <1>1, WorkerIs DEF OpenInv, ScopeInv
<1>3. /\ mail' = mail /\ disk' = disk /\ past' = past /\ session'.presented = session.presented
      /\ session'.roots = IF worker.kind = "all" THEN Known ELSE session.roots
  <2>1. mail' = mail /\ disk' = disk /\ past' = past
    BY DEF Discover
  <2>2. session' = [session EXCEPT !.roots = IF worker.kind = "all" THEN Known ELSE @]
    BY DEF Discover
  <2> QED BY <1>1, <2>1, <2>2 DEF Sessions
<1>4. worker'.pc = "install" /\ Alike(worker', worker) /\ worker'.held = worker.held
  <2>1. worker' = Goto("install")
    BY DEF Discover
  <2>2. worker'.held = worker.held
    BY <1>1, <2>1 DEF Goto, Workers
  <2> QED BY <1>1, <2>1, <2>2, GotoAlike DEF Places
<1>5. RowsInv'
  BY <1>3, <1>4, SameRows
<1>6. FoundInv'
  BY <1>2, <1>4 DEF FoundInv, Scanning, Alike
<1>7. PassInv'
  BY <1>1, <1>3, <1>4 DEF HoldInv, PassInv, Scanning, Alike, Early
<1>8. Left' = Left /\ Got' = Got /\ ~Scanning' /\ (worker.kind = "all" => Left = Dirs)
      /\ (Trusted' <=> Trusted)
  BY <1>1, <1>3, <1>4 DEF Left, Got, Early, Resting, Scanning, Trusted, Broken, Alike
<1>9. \A d : ~Doomed(d)
  BY <1>1 DEF Doomed
<1>10. TruthInv'
  <2>1. SUFFICES ASSUME Trusted
                 PROVE  /\ \A d \in session'.roots \ (Got \cup Left \cup past.behind) :
                              d \in session.presented <=> disk.holds[d]
                        /\ \A d \in Got : d \in session.presented <=> disk.holds[d]
    BY <1>3, <1>8 DEF TruthInv
  <2>2. /\ \A d \in session.roots \ (Got \cup Left \cup past.behind) :
                d \in session.presented <=> disk.holds[d]
        /\ \A d \in Got : /\ disk.holds[d] => d \in session.presented
                          /\ d \in session.presented => disk.holds[d] \/ Doomed(d)
    BY <2>1 DEF HoldInv, TruthInv
  <2>3. CASE worker.kind = "all"
    <3>1. session'.roots \subseteq Left
      BY <1>3, <1>8, <2>3 DEF Dirs
    <3> QED BY <1>9, <2>2, <3>1
  <2>4. CASE worker.kind = "dirs"
    BY <1>3, <1>9, <2>2, <2>4
  <2> QED BY <1>2, <2>3, <2>4
<1> QED BY <1>5, <1>6, <1>7, <1>10 DEF HoldInv

LEMMA TraverseView ==
    ASSUME IInv, OpenInv, RowsInv, HoldInv, ~mail.closed, Traverse, view' = view
    PROVE  RowsInv' /\ HoldInv'
<1>1. worker \in Workers /\ worker.pc = "traverse" /\ worker.held = None /\ past \in Pasts
  BY DEF IInv, TypeOK, Traverse, At
<1>2. worker.kind \in {"all", "dirs"} /\ session.roots \subseteq Dirs /\ worker.at = None
  BY <1>1, WorkerIs, RestIs DEF OpenInv, ScopeInv, IInv
<1>3. PICK scope \in SUBSET Dirs : scope = ScopeOf(worker)
  BY <1>1, <1>2, WorkerIs DEF ScopeOf
<1>4. PICK v : v = [worker EXCEPT !.pc = "scan", !.todo = scope, !.found = {}]
  OBVIOUS
<1>5. v \in Workers
  <2>1. "scan" \in Places
    BY DEF Places
  <2> QED BY <1>1, <1>4, <2>1 DEF Workers
<1>6. /\ v.pc = "scan" /\ v.todo = scope /\ v.found = {} /\ v.held = None /\ v.at = None
      /\ v.kind = worker.kind /\ v.extra = worker.extra /\ v.scope = worker.scope
      /\ v.partial = worker.partial
  BY <1>1, <1>2, <1>4 DEF Workers
<1>7. /\ session' = session /\ disk' = disk
      /\ past'.behind = past.behind /\ past'.gapless = past.gapless
      /\ past'.fresh = IF worker.extra THEN past.fresh ELSE {}
  BY <1>1 DEF Traverse, Pasts
<1>8. RowsInv' /\ Twin(worker', v)
  <2>1. "phase" \in Kinds /\ "phase" \notin RowKinds
    BY DEF Kinds, RowKinds
  <2>2. EmitFrom(Cleared(mail), "phase", None, v)
    BY <1>3, <1>4 DEF Traverse, EmitPhase
  <2> QED BY <1>1, <1>5, <1>6, <1>7, <2>1, <2>2, SentRows
<1>9. /\ worker'.pc = "scan" /\ worker'.todo = scope /\ worker'.found = {} /\ worker'.at = None
      /\ worker'.kind = worker.kind /\ worker'.extra = worker.extra
      /\ worker'.scope = worker.scope /\ worker'.partial = worker.partial
  BY <1>6, <1>8 DEF Twin, Alike
<1>10. PassInv /\ (worker.extra => worker.kind = "dirs" /\ worker.scope = Extras
                                   /\ past.fresh \cap Extras = {})
       /\ (worker.kind = "all" => session.roots = Known /\ ~worker.extra)
  BY <1>1 DEF HoldInv, PassInv, Early
<1>11. Covers(worker)' = Covers(worker) /\ scope \subseteq Covers(worker)
       /\ ScopeOf(worker)' = scope
  BY <1>2, <1>3, <1>7, <1>9 DEF Covers, ScopeOf
<1>12. past'.fresh \cap Covers(worker) = {}
  BY <1>7, <1>10 DEF Covers
<1>13. FoundInv'
  BY <1>9, <1>11, <1>12 DEF FoundInv, Scanning
<1>14. PassInv'
  BY <1>3, <1>7, <1>9, <1>10 DEF PassInv, Scanning, Early, ScopeOf
<1>15. /\ Left' = scope /\ Got' = Got /\ (worker.kind = "all" => Left = Dirs)
       /\ (worker.kind = "dirs" => Left = scope) /\ (Trusted' <=> Trusted)
  BY <1>1, <1>3, <1>7, <1>9
     DEF Left, Got, Early, Resting, Trusted, Broken, ScopeOf
<1>16. \A d : ~Doomed(d)
  BY <1>1 DEF Doomed
<1>17. TruthInv'
  <2>1. SUFFICES ASSUME Trusted
                 PROVE  /\ \A d \in session.roots \ (Got \cup scope \cup past.behind) :
                              d \in session.presented <=> disk.holds[d]
                        /\ \A d \in Got : d \in session.presented <=> disk.holds[d]
    BY <1>7, <1>11, <1>15 DEF TruthInv
  <2>2. /\ \A d \in session.roots \ (Got \cup Left \cup past.behind) :
                d \in session.presented <=> disk.holds[d]
        /\ \A d \in Got : /\ disk.holds[d] => d \in session.presented
                          /\ d \in session.presented => disk.holds[d] \/ Doomed(d)
    BY <2>1 DEF HoldInv, TruthInv
  <2>3. CASE worker.kind = "all"
    <3>1. scope = session.roots
      BY <1>3, <2>3 DEF ScopeOf
    <3> QED BY <1>16, <2>2, <3>1
  <2>4. CASE worker.kind = "dirs"
    BY <1>15, <1>16, <2>2, <2>4
  <2> QED BY <1>2, <2>3, <2>4
<1> QED BY <1>8, <1>13, <1>14, <1>17 DEF HoldInv

\* A directory is read: what it holds is sent, presented and found, and no
\* longer left.
LEMMA ReadView ==
    ASSUME IInv, OpenInv, RowsInv, HoldInv, ~mail.closed, ReadDirectory, view' = view
    PROVE  RowsInv' /\ HoldInv'
<1>1. worker \in Workers /\ worker.pc = "scan" /\ worker.held = None /\ worker.at \in Dirs
      /\ past \in Pasts /\ session \in Sessions
  <2>1. worker \in Workers /\ worker.pc = "scan" /\ worker.held = None /\ worker.at # None
        /\ past \in Pasts /\ session \in Sessions
    BY DEF IInv, TypeOK, ReadDirectory, At
  <2> QED BY <2>1, WorkerIs
<1>2. PICK a \in Dirs : a = worker.at
  BY <1>1
<1>3. /\ a # None /\ a \in worker.todo /\ worker.todo \subseteq Covers(worker) \ worker.found
      /\ worker.found \subseteq session.presented /\ a \in Covers(worker) /\ a \notin worker.found
      /\ \A d \in past.fresh \cap Covers(worker) : disk.holds[d] => d \in worker.found
  BY <1>1, <1>2, JunkSessionAssumption DEF HoldInv, FoundInv, Scanning
<1>4. PICK todo \in SUBSET Dirs : todo = worker.todo \ {a}
  BY <1>1, WorkerIs
<1>5. PICK found \in SUBSET Dirs : found = worker.found \cup {a}
  BY <1>1, WorkerIs
<1>6. PICK read : read = [worker EXCEPT !.at = None, !.todo = todo]
  OBVIOUS
<1>7. read \in Workers
  BY <1>1, <1>6 DEF Workers
<1>8. /\ read.pc = "scan" /\ read.kind = worker.kind /\ read.extra = worker.extra
      /\ read.scope = worker.scope /\ read.at = None /\ read.partial = worker.partial
      /\ read.todo = todo /\ read.found = worker.found /\ read.held = None
  BY <1>1, <1>6 DEF Workers
<1>9. PICK v : v = [read EXCEPT !.found = found]
  OBVIOUS
<1>10. v \in Workers /\ Alike(v, read) /\ v.pc = read.pc /\ v.found = found /\ v.held = None
  BY <1>7, <1>8, <1>9 DEF Workers, Alike
<1>11. /\ disk' = disk /\ session'.roots = session.roots
       /\ past'.behind = past.behind /\ past'.gapless = past.gapless
       /\ past'.fresh = past.fresh \cup {a}
  <2>1. \/ session' = session
        \/ session' = [session EXCEPT !.presented = @ \cup {worker.at}]
    BY DEF ReadDirectory
  <2>2. disk' = disk /\ past' = [past EXCEPT !.fresh = @ \cup {worker.at}]
    BY DEF ReadDirectory
  <2> QED BY <1>1, <1>2, <2>1, <2>2 DEF Sessions, Pasts
<1>12. /\ RowsInv' /\ Alike(worker', read) /\ worker'.pc = "scan"
       /\ worker'.found = IF disk.holds[a] THEN found ELSE worker.found
       /\ session'.presented = IF disk.holds[a] THEN session.presented \cup {a}
                               ELSE session.presented
  <2>1. CASE disk.holds[a]
    <3>1. Emit("base", a, v)
      <4>1. found = read.found \cup {a}
        BY <1>5, <1>8
      <4> QED BY <1>2, <1>4, <1>6, <1>9, <2>1, <4>1 DEF ReadDirectory
    <3>2. session' = [session EXCEPT !.presented = @ \cup {a}]
      BY <1>2, <2>1 DEF ReadDirectory
    <3>3. session'.presented = session.presented \cup {a}
      BY <1>1, <3>2 DEF Sessions
    <3>4. "base" \in Kinds /\ "base" \in RowKinds
      BY DEF Kinds, RowKinds
    <3>5. RowsInv' /\ Twin(worker', v)
      BY <1>1, <1>3, <1>10, <3>1, <3>3, <3>4, SentRows DEF Emit
    <3> QED BY <1>8, <1>10, <2>1, <3>3, <3>5 DEF Twin, Alike
  <2>2. CASE ~disk.holds[a]
    <3>1. worker' = read /\ mail' = mail /\ session' = session
      BY <1>2, <1>4, <1>6, <2>2 DEF ReadDirectory
    <3>2. RowsInv'
      BY <1>1, <1>8, <3>1, SameRows
    <3> QED BY <1>8, <2>2, <3>1, <3>2 DEF Alike
  <2> QED BY <2>1, <2>2
<1>13. /\ worker'.todo = todo /\ worker'.at = None /\ worker'.kind = worker.kind
       /\ worker'.extra = worker.extra /\ worker'.scope = worker.scope
       /\ worker'.partial = worker.partial
  BY <1>8, <1>12 DEF Alike
<1>14. Covers(worker)' = Covers(worker) /\ ScopeOf(worker)' = ScopeOf(worker)
  BY <1>11, <1>13 DEF Covers, ScopeOf
<1>15. FoundInv'
  <2>1. todo \subseteq Covers(worker) \ worker'.found
    BY <1>3, <1>4, <1>5, <1>12
  <2>2. worker'.found \subseteq session'.presented
    BY <1>3, <1>5, <1>12
  <2>3. \A d \in (past.fresh \cup {a}) \cap Covers(worker) : disk.holds[d] => d \in worker'.found
    BY <1>3, <1>5, <1>12
  <2> QED BY <1>11, <1>12, <1>13, <1>14, <2>1, <2>2, <2>3 DEF FoundInv, Scanning
<1>16. PassInv'
  <2>1. worker.kind = "all" => worker.todo \subseteq Known /\ past.fresh \subseteq Known
    BY <1>1 DEF HoldInv, PassInv, Scanning
  <2>2. worker.kind = "all" => todo \subseteq Known /\ past'.fresh \subseteq Known
    BY <1>3, <1>4, <1>11, <2>1
  <2>3. worker.extra => worker.kind = "dirs" /\ worker.scope = Extras
    BY DEF HoldInv, PassInv
  <2> QED BY <1>12, <1>13, <2>2, <2>3 DEF PassInv, Early
<1>17. /\ Left = worker.todo /\ Left' = worker.todo \ {a}
       /\ Got = past.fresh /\ Got' = past.fresh \cup {a} /\ (Trusted' <=> Trusted)
  BY <1>1, <1>4, <1>11, <1>12, <1>13 DEF Left, Got, Early, Resting, Trusted, Broken
<1>18. TruthInv'
  <2>1. SUFFICES ASSUME Trusted
                 PROVE  /\ \A d \in session.roots \ (Got' \cup Left' \cup past.behind) :
                              d \in session'.presented <=> disk.holds[d]
                        /\ \A d \in Got' : /\ disk.holds[d] => d \in session'.presented
                                           /\ d \in session'.presented => disk.holds[d] \/ Doomed(d)'
                        /\ ScopeOf(worker) \subseteq Got' \cup Left' \cup past.behind
    BY <1>11, <1>14, <1>17 DEF TruthInv
  <2>2. /\ \A d \in session.roots \ (Got \cup Left \cup past.behind) :
                d \in session.presented <=> disk.holds[d]
        /\ \A d \in Got : /\ disk.holds[d] => d \in session.presented
                          /\ d \in session.presented => disk.holds[d] \/ Doomed(d)
        /\ ScopeOf(worker) \subseteq Got \cup Left \cup past.behind
    BY <1>1, <2>1 DEF HoldInv, TruthInv, Scanning
  <2>3. Got' \cup Left' = Got \cup Left
    BY <1>3, <1>17
  <2>4. ASSUME NEW d \in session.roots \ (Got' \cup Left' \cup past.behind)
        PROVE  d \in session'.presented <=> disk.holds[d]
    <3>1. d # a /\ d \in session.roots \ (Got \cup Left \cup past.behind)
      BY <1>17, <2>3
    <3> QED BY <1>12, <2>2, <3>1
  <2>5. ASSUME NEW d \in Got'
        PROVE  /\ disk.holds[d] => d \in session'.presented
               /\ d \in session'.presented => disk.holds[d] \/ Doomed(d)'
    <3>1. Doomed(d)' <=> d \in Covers(worker) \ worker'.found
      BY <1>12, <1>14 DEF Doomed
    <3>2. CASE d = a
      BY <1>3, <1>12, <3>1, <3>2
    <3>3. CASE d # a
      <4>1. d \in Got /\ (Doomed(d) => d \in Covers(worker) \ worker.found)
        BY <1>1, <1>17, <3>3 DEF Doomed
      <4>2. d \in session'.presented <=> d \in session.presented
        BY <1>12, <3>3
      <4>3. d \notin worker.found => d \notin worker'.found
        BY <1>5, <1>12, <3>3
      <4> QED BY <2>2, <3>1, <4>1, <4>2, <4>3
    <3> QED BY <3>2, <3>3
  <2> QED BY <2>2, <2>3, <2>4, <2>5
<1> QED BY <1>12, <1>15, <1>16, <1>18 DEF HoldInv

\* A row is withdrawn: its directory was read and held nothing.
LEMMA WithdrawView ==
    ASSUME IInv, OpenInv, RowsInv, HoldInv, ~mail.closed, NEW a \in Dirs, Withdraw(a),
           view' = view
    PROVE  RowsInv' /\ HoldInv'
<1>1. worker \in Workers /\ worker.pc = "replace" /\ worker.held = None /\ worker.at = None
      /\ session \in Sessions /\ a \in worker.todo
  BY DEF IInv, TypeOK, Withdraw, At, OpenInv, ScopeInv
<1>2. /\ worker.todo \subseteq (session.presented \cap Covers(worker)) \ worker.found
      /\ worker.found \subseteq session.presented
      /\ \A d \in past.fresh \cap Covers(worker) : disk.holds[d] => d \in worker.found
  BY <1>1 DEF HoldInv, FoundInv, Scanning
<1>3. PICK todo \in SUBSET Dirs : todo = worker.todo \ {a}
  BY <1>1, WorkerIs
<1>4. PICK v : v = [worker EXCEPT !.todo = todo]
  OBVIOUS
<1>5. v \in Workers
  BY <1>1, <1>4 DEF Workers
<1>6. /\ v.pc = "replace" /\ v.todo = todo /\ v.found = worker.found /\ v.held = None
      /\ v.at = None /\ v.kind = worker.kind /\ v.extra = worker.extra
      /\ v.scope = worker.scope /\ v.partial = worker.partial
  BY <1>1, <1>4 DEF Workers
<1>7. /\ disk' = disk /\ past' = past /\ session'.roots = session.roots
      /\ session'.presented = session.presented \ {a}
  <2>1. disk' = disk /\ past' = past /\ session' = [session EXCEPT !.presented = @ \ {a}]
    BY DEF Withdraw
  <2> QED BY <1>1, <2>1 DEF Sessions
<1>8. RowsInv' /\ Twin(worker', v)
  <2>1. "removed" \in Kinds /\ "removed" \in RowKinds /\ a # None
    BY JunkSessionAssumption DEF Kinds, RowKinds
  <2>2. EmitFrom(mail, "removed", a, v)
    BY <1>3, <1>4 DEF Withdraw, Emit
  <2> QED BY <1>1, <1>5, <1>6, <1>7, <2>1, <2>2, SentRows
<1>9. /\ worker'.pc = "replace" /\ worker'.todo = todo /\ worker'.found = worker.found
      /\ worker'.at = None /\ worker'.kind = worker.kind /\ worker'.extra = worker.extra
      /\ worker'.scope = worker.scope /\ worker'.partial = worker.partial
  BY <1>6, <1>8 DEF Twin, Alike
<1>10. Covers(worker)' = Covers(worker) /\ ScopeOf(worker)' = ScopeOf(worker)
  BY <1>7, <1>9 DEF Covers, ScopeOf
<1>11. FoundInv'
  BY <1>1, <1>2, <1>3, <1>7, <1>9, <1>10 DEF FoundInv, Scanning
<1>12. PassInv'
  BY <1>1, <1>7, <1>9 DEF HoldInv, PassInv, Scanning, Early
<1>13. /\ Left = {} /\ Left' = {} /\ Got = past.fresh /\ Got' = Got /\ (Trusted' <=> Trusted)
  BY <1>1, <1>7, <1>9 DEF Left, Got, Early, Resting, Trusted, Broken
<1>14. TruthInv'
  <2>1. SUFFICES ASSUME Trusted
                 PROVE  /\ \A d \in session.roots \ (Got \cup past.behind) :
                              d \in session'.presented <=> disk.holds[d]
                        /\ \A d \in Got : /\ disk.holds[d] => d \in session'.presented
                                          /\ d \in session'.presented => disk.holds[d] \/ Doomed(d)'
                        /\ ScopeOf(worker) \subseteq Got \cup past.behind
    BY <1>7, <1>10, <1>13 DEF TruthInv
  <2>2. /\ \A d \in session.roots \ (Got \cup past.behind) :
                d \in session.presented <=> disk.holds[d]
        /\ \A d \in Got : /\ disk.holds[d] => d \in session.presented
                          /\ d \in session.presented => disk.holds[d] \/ Doomed(d)
        /\ ScopeOf(worker) \subseteq Got \cup past.behind
    BY <1>1, <1>13, <2>1 DEF HoldInv, TruthInv, Scanning
  <2>3. ASSUME NEW d \in session.roots \ (Got \cup past.behind)
        PROVE  d \in session'.presented <=> disk.holds[d]
    <3>1. d \notin ScopeOf(worker)
      BY <2>2
    <3>2. a \in Covers(worker)
      BY <1>1, <1>2
    <3>3. d # a
      BY <3>1, <3>2 DEF ScopeOf, Covers
    <3> QED BY <1>7, <2>2, <3>3
  <2>4. ASSUME NEW d \in Got
        PROVE  /\ disk.holds[d] => d \in session'.presented
               /\ d \in session'.presented => disk.holds[d] \/ Doomed(d)'
    <3>1. (Doomed(d) <=> d \in worker.todo) /\ (Doomed(d)' <=> d \in todo)
      BY <1>1, <1>9 DEF Doomed
    <3>2. CASE d = a
      BY <1>1, <1>2, <1>7, <1>13, <3>2
    <3>3. CASE d # a
      BY <1>3, <1>7, <2>2, <3>1, <3>3
    <3> QED BY <3>2, <3>3
  <2> QED BY <2>2, <2>3, <2>4
<1> QED BY <1>8, <1>11, <1>12, <1>14 DEF HoldInv

LEMMA ProbeView ==
    ASSUME IInv, OpenInv, RowsInv, HoldInv, ~mail.closed, Probe, view' = view
    PROVE  RowsInv' /\ HoldInv'
<1>1. worker \in Workers /\ worker.pc = "probe" /\ worker.held = None /\ session \in Sessions
      /\ worker.at = None /\ worker.kind = "all" /\ ~Resting
  BY DEF IInv, TypeOK, Probe, At, OpenInv, ScopeInv, Resting
<1>2. disk' = disk /\ past' = past
  BY DEF Probe
<1>3. CASE \E pc \in {"done", "last"} :
              /\ session' = session
              /\ Emit("warning", None, Goto(pc)) \/ (mail' = mail /\ worker' = Goto(pc))
  <2>1. PICK pc \in {"done", "last"} :
           Emit("warning", None, Goto(pc)) \/ (mail' = mail /\ worker' = Goto(pc))
    BY <1>3
  <2>2. PICK v : v = Goto(pc)
    OBVIOUS
  <2>3. v \in Workers /\ v.pc = pc /\ Alike(v, worker)
    BY <1>1, <2>1, <2>2, GotoAlike DEF Places
  <2>4. v.held = None
    BY <1>1, <2>2 DEF Goto, Workers
  <2>5. Sends(v)
    <3>1. "warning" \in Kinds /\ "warning" \notin RowKinds
      BY DEF Kinds, RowKinds
    <3> QED BY <2>1, <2>2, <3>1 DEF Sends, Emit
  <2>6. Onward(v)
    BY <1>1, <2>1, <2>3 DEF Onward, Alike
  <2>7. Broken \/ worker.partial => v.partial
    BY <1>1, <2>3 DEF Broken, Alike
  <2> QED BY <1>1, <1>2, <1>3, <2>3, <2>4, <2>5, <2>6, <2>7, GoView DEF Alike
<1>4. CASE /\ worker' = [worker EXCEPT !.pc = "discover", !.kind = "dirs", !.scope = Extras,
                                       !.extra = TRUE]
           /\ session' = [session EXCEPT !.roots = @ \cup Extras]
           /\ mail' = mail
  <2>1. /\ worker'.pc = "discover" /\ worker'.kind = "dirs" /\ worker'.scope = Extras
        /\ worker'.extra
    BY <1>1, <1>4 DEF Workers
  <2>2. worker'.partial = worker.partial /\ worker'.at = None /\ worker'.held = worker.held
    BY <1>1, <1>4 DEF Workers
  <2>3. session'.roots = session.roots \cup Extras /\ session'.presented = session.presented
    BY <1>1, <1>4 DEF Sessions
  <2>4. RowsInv'
    BY <1>4, <2>2, <2>3, SameRows
  <2>5. FoundInv'
    BY <2>1, <2>2 DEF FoundInv, Scanning
  <2>6. PassInv'
    <3>1. past.fresh \subseteq Known
      BY <1>1 DEF HoldInv, PassInv
    <3>2. past'.fresh \cap Extras = {}
      BY <1>2, <3>1, JunkSessionAssumption
    <3> QED BY <2>1, <3>2 DEF PassInv
  <2>7. Left = {} /\ Left' = Extras /\ Got = past.fresh /\ Got' = past.fresh /\ ~Scanning'
    BY <1>1, <1>2, <2>1 DEF Left, Got, Early, Resting, Scanning
  <2>8. Trusted' => Trusted
    BY <1>1, <1>2, <2>1, <2>2 DEF Trusted, Resting, Broken
  <2>9. \A d : ~Doomed(d)
    BY <1>1 DEF Doomed
  <2>10. TruthInv'
    <3>1. SUFFICES ASSUME Trusted
                   PROVE  /\ \A d \in session'.roots \ (past.fresh \cup Extras \cup past.behind) :
                                d \in session.presented <=> disk.holds[d]
                          /\ \A d \in past.fresh : d \in session.presented <=> disk.holds[d]
      BY <1>2, <2>3, <2>7, <2>8 DEF TruthInv
    <3>2. /\ \A d \in session.roots \ (past.fresh \cup past.behind) :
                d \in session.presented <=> disk.holds[d]
          /\ \A d \in past.fresh : /\ disk.holds[d] => d \in session.presented
                                   /\ d \in session.presented => disk.holds[d] \/ Doomed(d)
      BY <2>7, <3>1 DEF HoldInv, TruthInv
    <3> QED BY <2>3, <2>9, <3>2
  <2> QED BY <2>4, <2>5, <2>6, <2>10 DEF HoldInv
<1> QED BY <1>3, <1>4 DEF Probe

LEMMA TerminateView ==
    ASSUME IInv, OpenInv, RowsInv, HoldInv, Terminate
    PROVE  RowsInv' /\ HoldInv'
<1>1. worker \in Workers /\ past \in Pasts /\ mail \in Mails
      /\ (worker.at # None => worker.pc = "scan")
  BY DEF IInv, TypeOK, OpenInv, ScopeInv
<1>2. PICK outcome \in Outcomes :
         /\ Finish(outcome) /\ worker.pc \notin {"idle", "gone", "begin"} /\ worker.at = None
         /\ outcome = "complete" => ~worker.partial /\ worker.pc \in {"done", "last"}
  <2>1. \E outcome \in Outcomes :
           /\ Finish(outcome) /\ worker.pc \notin {"idle", "gone", "begin"}
           /\ worker.pc = "scan" => worker.at = None
           /\ outcome = "complete" => ~worker.partial /\ worker.pc \in {"done", "last"}
    BY <1>1 DEF Terminate, At, Result, Outcomes
  <2> QED BY <1>1, <2>1
<1>3. /\ worker'.pc = "idle" /\ worker'.at = None /\ worker'.held = worker.held
      /\ worker'.kind = worker.kind /\ worker'.extra = worker.extra
      /\ worker'.scope = worker.scope
  BY <1>1, <1>2 DEF Finish, Workers
<1>4. session' = session /\ disk' = disk /\ view' = view /\ mail'.queue = mail.queue
  BY <1>1, <1>2 DEF Finish, Mails
<1>5. RowsInv'
  BY <1>3, <1>4, SameRows
<1>6. FoundInv'
  BY <1>3 DEF FoundInv, Scanning
<1>7. PassInv'
  BY <1>3 DEF HoldInv, PassInv, Scanning, Early
<1>8. TruthInv'
  <2>1. CASE outcome # "complete"
    <3>1. ~past'.gapless
      BY <1>1, <1>2, <2>1 DEF Finish, Pasts
    <3> QED BY <1>3, <3>1 DEF TruthInv, Trusted, Resting
  <2>2. CASE outcome = "complete"
    <3>1. /\ past'.behind = past.behind \ past.fresh
          /\ past'.gapless = (past.gapless \/ worker.kind = "all" \/ worker.extra)
      BY <1>1, <1>2, <2>2 DEF Finish, Pasts
    <3>2. worker.pc \in {"done", "last"} /\ ~worker.partial
      BY <1>2, <2>2
    <3>3. /\ Left = {} /\ Got = past.fresh /\ Left' = {} /\ Got' = {} /\ ~Scanning'
          /\ (Trusted' => Trusted)
      BY <1>3, <3>1, <3>2 DEF Left, Got, Early, Resting, Scanning, Trusted, Broken
    <3>4. \A d : ~Doomed(d)
      BY <3>2 DEF Doomed
    <3>5. SUFFICES ASSUME Trusted
                   PROVE  \A d \in session.roots \ (past.behind \ past.fresh) :
                             d \in session.presented <=> disk.holds[d]
      BY <1>4, <3>1, <3>3 DEF TruthInv
    <3>6. /\ \A d \in session.roots \ (past.fresh \cup past.behind) :
                d \in session.presented <=> disk.holds[d]
          /\ \A d \in past.fresh : /\ disk.holds[d] => d \in session.presented
                                   /\ d \in session.presented => disk.holds[d] \/ Doomed(d)
      BY <3>3, <3>5 DEF HoldInv, TruthInv
    <3> QED BY <3>4, <3>6
  <2> QED BY <2>1, <2>2
<1> QED BY <1>5, <1>6, <1>7, <1>8 DEF HoldInv

LEMMA JobView ==
    ASSUME IInv, OpenInv, RowsInv, HoldInv, TakeJob \/ WatchJob
    PROVE  RowsInv' /\ HoldInv'
<1>1. mail \in Mails /\ session \in Sessions /\ worker.pc = "idle" /\ worker.held = None
      /\ monitor.paths \in SUBSET Dirs
  BY RestIs DEF IInv, TypeOK, TakeJob, WatchJob, At
<1>2. /\ disk' = disk /\ past' = past /\ view' = view /\ mail'.queue = mail.queue
      /\ session'.roots = session.roots /\ session'.presented = session.presented
  <2>1. CASE TakeJob
    BY <1>1, <2>1 DEF TakeJob, Mails
  <2>2. CASE WatchJob
    BY <1>1, <2>2 DEF WatchJob, Mails, Sessions
  <2> QED BY <2>1, <2>2
<1>3. PICK kind \in {"all", "dirs", "changed"}, scope \in SUBSET Dirs : worker' = Begun(kind, scope)
  <2>1. CASE TakeJob
    <3>1. mail.job \in Jobs
      BY <1>1, <2>1, MailIs DEF TakeJob
    <3>2. mail.job.kind \in {"all", "dirs", "changed"} /\ mail.job.scope \in SUBSET Dirs
      BY <3>1 DEF Jobs
    <3> QED BY <2>1, <3>2 DEF TakeJob
  <2>2. CASE WatchJob
    <3>1. {} \in SUBSET Dirs
      OBVIOUS
    <3> QED BY <1>1, <2>2, <3>1 DEF WatchJob
  <2> QED BY <2>1, <2>2
<1>4. /\ worker'.kind = kind /\ worker'.scope = scope /\ worker'.pc = "begin"
      /\ ~worker'.extra /\ worker'.at = None /\ worker'.held = None
  BY <1>3, BegunFields, BegunIs
<1>5. RowsInv'
  BY <1>1, <1>2, <1>4, SameRows
<1>6. FoundInv' /\ PassInv'
  BY <1>4 DEF FoundInv, PassInv, Scanning
<1>7. Left = {} /\ Got = {} /\ Got' = {} /\ ~Scanning'
  BY <1>1, <1>4 DEF Left, Got, Early, Resting, Scanning
<1>8. TruthInv'
  <2>1. CASE kind = "all"
    <3>1. Left' = Dirs
      BY <1>4, <2>1 DEF Left, Early
    <3>2. session.roots \in SUBSET Dirs
      BY RestIs DEF IInv
    <3> QED BY <1>2, <1>7, <3>1, <3>2 DEF TruthInv
  <2>2. CASE kind # "all"
    <3>1. Trusted' => Trusted
      BY <1>1, <1>2, <1>4, <2>2 DEF Trusted, Resting
    <3> QED BY <1>2, <1>7, <3>1 DEF HoldInv, TruthInv
  <2> QED BY <2>1, <2>2
<1> QED BY <1>5, <1>6, <1>8 DEF HoldInv

\* A step that is none of the worker's, or of the worker about its mail only.
LEMMA ApartHold ==
    ASSUME HoldInv, Twin(worker', worker), session'.roots = session.roots,
           session'.presented = session.presented, disk'.holds = disk.holds, past' = past
    PROVE  HoldInv'
<1>1. /\ worker'.pc = worker.pc /\ worker'.at = worker.at /\ worker'.todo = worker.todo
      /\ worker'.found = worker.found /\ worker'.partial = worker.partial
      /\ worker'.kind = worker.kind /\ worker'.extra = worker.extra
      /\ worker'.scope = worker.scope
  BY DEF Twin, Alike
<1>2. Covers(worker)' = Covers(worker) /\ ScopeOf(worker)' = ScopeOf(worker)
  BY <1>1 DEF Covers, ScopeOf
<1>3. /\ Left' = Left /\ Got' = Got /\ (Scanning' <=> Scanning) /\ (Trusted' <=> Trusted)
      /\ \A d : Doomed(d)' <=> Doomed(d)
  BY <1>1, <1>2 DEF Left, Got, Early, Resting, Scanning, Trusted, Broken, Doomed
<1>4. FoundInv'
  BY <1>1, <1>2, <1>3 DEF HoldInv, FoundInv
<1>5. PassInv'
  BY <1>1, <1>3 DEF HoldInv, PassInv, Early
<1>6. TruthInv'
  BY <1>2, <1>3 DEF HoldInv, TruthInv
<1> QED BY <1>4, <1>5, <1>6 DEF HoldInv

\* Where something changed, the row is excused until the directory is read.
LEMMA ChangeHold ==
    ASSUME IInv, HoldInv, worker' = worker, session' = session, NEW touched \in SUBSET Dirs,
           \A d \in Dirs \ touched : disk'.holds[d] = disk.holds[d],
           past'.behind = past.behind \cup touched, past'.fresh = past.fresh \ touched,
           past'.gapless = past.gapless
    PROVE  HoldInv'
<1>1. past.fresh \in SUBSET Dirs /\ session.roots \in SUBSET Dirs
  BY RestIs DEF IInv
<1>2. /\ Left' = Left /\ Got' = Got \ touched /\ (Scanning' <=> Scanning)
      /\ (Trusted' <=> Trusted) /\ Got \subseteq Dirs
      /\ \A d : Doomed(d)' <=> Doomed(d)
  BY <1>1 DEF Left, Got, Early, Resting, Scanning, Trusted, Broken, Doomed, Covers
<1>3. FoundInv'
  BY <1>1, <1>2 DEF HoldInv, FoundInv, Covers
<1>4. PassInv'
  BY <1>2 DEF HoldInv, PassInv, Early
<1>5. TruthInv'
  <2>1. SUFFICES ASSUME Trusted
                 PROVE  /\ \A d \in session.roots \ (Got' \cup Left \cup past'.behind) :
                              d \in session.presented <=> disk'.holds[d]
                        /\ \A d \in Got' : /\ disk'.holds[d] => d \in session.presented
                                           /\ d \in session.presented => disk'.holds[d] \/ Doomed(d)
                        /\ Scanning => ScopeOf(worker) \subseteq Got' \cup Left \cup past'.behind
    BY <1>2 DEF TruthInv, ScopeOf
  <2>2. /\ \A d \in session.roots \ (Got \cup Left \cup past.behind) :
                d \in session.presented <=> disk.holds[d]
        /\ \A d \in Got : /\ disk.holds[d] => d \in session.presented
                          /\ d \in session.presented => disk.holds[d] \/ Doomed(d)
        /\ Scanning => ScopeOf(worker) \subseteq Got \cup Left \cup past.behind
    BY <2>1 DEF HoldInv, TruthInv
  <2>3. ASSUME NEW d \in session.roots \ (Got' \cup Left \cup past'.behind)
        PROVE  d \in session.presented <=> disk'.holds[d]
    <3>1. d \in Dirs \ touched /\ d \in session.roots \ (Got \cup Left \cup past.behind)
      BY <1>1, <1>2
    <3> QED BY <2>2, <3>1
  <2>4. ASSUME NEW d \in Got'
        PROVE  /\ disk'.holds[d] => d \in session.presented
               /\ d \in session.presented => disk'.holds[d] \/ Doomed(d)
    <3>1. d \in Dirs \ touched /\ d \in Got
      BY <1>2
    <3> QED BY <2>2, <3>1
  <2>5. Scanning => ScopeOf(worker) \subseteq Got' \cup Left \cup past'.behind
    BY <1>2, <2>2
  <2> QED BY <2>3, <2>4, <2>5
<1> QED BY <1>3, <1>4, <1>5 DEF HoldInv

\* The event that waited for room goes where it was counted to be.
LEMMA ResumeView ==
    ASSUME IInv, OpenInv, RowsInv, HoldInv, ~mail.closed, Resume
    PROVE  RowsInv' /\ HoldInv'
<1>1. mail \in Mails /\ Accounted(mail) /\ worker \in Workers /\ worker.held # None
      /\ mail.queue \in Seq(Events)
  <2>1. mail \in Mails /\ Accounted(mail) /\ worker \in Workers /\ worker.held # None
    BY DEF IInv, TypeOK, Resume
  <2> QED BY <2>1, MailIs
<1>2. PICK h \in Events : h = worker.held
  BY <1>1, WorkerIs
<1>3. /\ mail' = Push(mail, h) /\ Room(mail, h.kind)
      /\ worker' = [worker EXCEPT !.held = None]
      /\ session' = session /\ disk' = disk /\ past' = past /\ view' = view
  BY <1>2 DEF Resume
<1>4. Twin(worker', worker) /\ worker'.held = None
  BY <1>1, <1>3 DEF Twin, Alike, Workers
<1>5. mail'.queue = Append(mail.queue, h)
  BY <1>1, <1>3, PushIs
<1>6. ASSUME NEW x \in Dirs PROVE WillShow(x)' <=> WillShow(x)
  <2>1. Shows(Append(mail.queue, h), view.rows, x)
           <=> IF h.dir = x THEN h.kind # "removed" ELSE Shows(mail.queue, view.rows, x)
    BY <1>1, ShowsAppend
  <2>2. WillShow(x)' <=> Shows(mail'.queue, view.rows, x)
    BY <1>3, <1>4 DEF WillShow
  <2> QED BY <1>1, <1>2, <1>5, <2>1, <2>2 DEF WillShow
<1>7. RowsInv'
  BY <1>3, <1>6 DEF RowsInv
<1> QED BY <1>3, <1>4, <1>7, ApartHold

\* What the owner takes it no longer has to take.
LEMMA TakeView ==
    ASSUME IInv, RowsInv, HoldInv, Take
    PROVE  RowsInv' /\ HoldInv'
<1>1. mail \in Mails /\ Accounted(mail) /\ view \in Views /\ mail.queue \in Seq(Events)
  <2>1. mail \in Mails /\ Accounted(mail) /\ view \in Views
    BY DEF IInv, TypeOK
  <2> QED BY <2>1, MailIs
<1>2. worker' = worker /\ session' = session /\ disk' = disk /\ past' = past
  BY DEF Take
<1>3. HoldInv'
  BY <1>2, ApartHold DEF Twin, Alike
<1>4. CASE mail.queue # <<>>
  <2>1. PICK e : e = Head(mail.queue)
    OBVIOUS
  <2>2. PICK r : r = Tail(mail.queue)
    OBVIOUS
  <2>3. r \in Seq(Events) /\ e = mail.queue[1] /\ e \in Events /\ Without(mail.queue, r, 1)
    BY <1>1, <1>4, <2>1, <2>2, TailIs
  <2>4. view' = Seen(view, e) /\ mail'.queue = r
    BY <1>1, <1>4, <2>1, <2>2 DEF Take, Mails
  <2>5. e.kind \in Kinds /\ (e.kind \in RowKinds <=> e.dir # None)
    BY <2>3 DEF Events
  <2>6. view'.rows = IF e.kind \in {"base", "current"} THEN view.rows \cup {e.dir}
                     ELSE IF e.kind = "removed" THEN view.rows \ {e.dir} ELSE view.rows
    <3>1. CASE e.kind = "started"
      <4>1. view' = [view EXCEPT !.rev = e.rev, !.done = FALSE, !.errors = 0, !.outcome = None]
        BY <2>4, <3>1 DEF Seen
      <4> QED BY <1>1, <3>1, <4>1 DEF Views
    <3>2. CASE e.kind = "error"
      <4>1. view' = [view EXCEPT !.errors = @ + 1]
        BY <2>4, <3>2 DEF Seen
      <4> QED BY <1>1, <3>2, <4>1 DEF Views
    <3>3. CASE e.kind \in {"base", "current"}
      <4>1. view' = [view EXCEPT !.rows = @ \cup {e.dir}]
        BY <2>4, <3>3 DEF Seen
      <4> QED BY <1>1, <3>3, <4>1 DEF Views
    <3>4. CASE e.kind = "removed"
      <4>1. view' = [view EXCEPT !.rows = @ \ {e.dir}]
        BY <2>4, <3>4 DEF Seen
      <4> QED BY <1>1, <3>4, <4>1 DEF Views
    <3>5. CASE e.kind \in {"phase", "warning"}
      <4>1. view' = view
        BY <2>4, <3>5 DEF Seen
      <4> QED BY <3>5, <4>1
    <3> QED BY <2>5, <3>1, <3>2, <3>3, <3>4, <3>5 DEF Kinds
  <2>7. ASSUME NEW x \in Dirs PROVE WillShow(x)' <=> WillShow(x)
    <3>1. IF e.dir = x THEN x \in view'.rows <=> e.kind # "removed"
                       ELSE x \in view'.rows <=> x \in view.rows
      <4>1. e.dir = x => e.kind \in RowKinds
        BY <2>5, JunkSessionAssumption
      <4> QED BY <2>6, <4>1 DEF RowKinds
    <3>2. PICK k : k = 1
      OBVIOUS
    <3>3. PICK left : left = view'.rows
      OBVIOUS
    <3>4. PICK q, rows : q \in Seq(Events) /\ q = mail.queue /\ rows = view.rows
      BY <1>1
    <3>5. Without(q, r, k) /\ e = q[k]
      BY <2>3, <3>2, <3>4
    <3>6. /\ q[k].dir = x => k = 1 /\ (x \in left <=> q[k].kind # "removed")
          /\ q[k].dir # x => (x \in left <=> x \in rows)
      BY <3>1, <3>2, <3>3, <3>4, <3>5
    <3>7. Shows(r, left, x) <=> Shows(q, rows, x)
      <4>1. q \in Seq(Events) /\ r \in Seq(Events) /\ Without(q, r, k)
        BY <2>3, <3>4, <3>5
      <4>2. q[k].dir = x => k = 1 /\ (x \in left <=> q[k].kind # "removed")
        BY <3>6
      <4>3. q[k].dir # x => (x \in left <=> x \in rows)
        BY <3>6
      <4> QED BY <4>1, <4>2, <4>3, ShowsWithout
    <3> QED BY <1>2, <2>4, <3>3, <3>4, <3>7 DEF WillShow
  <2>8. RowsInv'
    BY <1>2, <2>7 DEF RowsInv
  <2> QED BY <1>3, <2>8
<1>5. CASE mail.queue = <<>>
  <2>1. Cleared(mail).queue = mail.queue
    BY <1>1, ClearedIs
  <2>2. mail'.queue = mail.queue /\ view'.rows = view.rows
    BY <1>1, <1>5, <2>1 DEF Take, Mails, Views
  <2>3. RowsInv'
    BY <1>2, <2>2, SameRows
  <2> QED BY <1>3, <2>3
<1> QED BY <1>4, <1>5

LEMMA EnvironmentView ==
    ASSUME IInv, RowsInv, HoldInv, Environment
    PROVE  RowsInv' /\ HoldInv'
<1>1. disk \in Disks /\ past \in Pasts
  BY DEF IInv, TypeOK
<1>2. mail' = mail /\ worker' = worker /\ session' = session /\ view' = view
  BY DEF Environment, Change, ReplaceRoot, ListenerFails
<1>3. RowsInv'
  BY <1>2, SameRows
<1>4. ASSUME NEW touched \in SUBSET Dirs, NEW holding \in SUBSET touched, Change(touched, holding)
      PROVE  HoldInv'
  <2>1. PICK holds : holds = [d \in Dirs |-> IF d \in touched THEN d \in holding
                                             ELSE disk.holds[d]]
    OBVIOUS
  <2>2. disk' = [disk EXCEPT !.changes = @ + 1, !.holds = holds]
    BY <1>4, <2>1 DEF Change
  <2>3. disk'.holds = holds
    BY <1>1, <2>2 DEF Disks
  <2>4. \A d \in Dirs \ touched : disk'.holds[d] = disk.holds[d]
    BY <2>1, <2>3
  <2>5. /\ past'.behind = past.behind \cup touched /\ past'.fresh = past.fresh \ touched
        /\ past'.gapless = past.gapless
    BY <1>1, <1>4 DEF Change, Pasts
  <2> QED BY <1>2, <2>4, <2>5, ChangeHold
<1>5. CASE ReplaceRoot
  <2>1. past'.behind = Dirs /\ past'.fresh = {} /\ past'.gapless = past.gapless
    BY <1>1, <1>5 DEF ReplaceRoot, Pasts
  <2>2. PICK touched \in SUBSET Dirs : touched = Dirs
    OBVIOUS
  <2>3. past'.behind = past.behind \cup touched /\ past'.fresh = past.fresh \ touched
    BY <1>1, <2>1, <2>2 DEF Pasts
  <2>4. \A d \in Dirs \ touched : disk'.holds[d] = disk.holds[d]
    BY <2>2
  <2> QED BY <1>2, <1>3, <2>1, <2>3, <2>4, ChangeHold
<1>6. CASE ListenerFails
  <2>1. disk'.holds = disk.holds /\ past' = past
    BY <1>1, <1>6 DEF ListenerFails, Disks
  <2> QED BY <1>2, <1>3, <2>1, ApartHold DEF Twin, Alike
<1> QED BY <1>3, <1>4, <1>5, <1>6 DEF Environment

LEMMA ViewKeeps ==
    ASSUME IInv, FreshInv, ViewInv, [Next]_vars
    PROVE  ViewInv'
<1>1. worker \in Workers /\ mail \in Mails /\ past \in Pasts
  BY DEF IInv, TypeOK
<1>2. CASE mail.closed
  BY <1>2, ShutKeeps DEF FreshInv, ShutInv, ViewInv
<1>3. CASE Close
  <2>1. mail'.closed
    BY <1>1, <1>3 DEF Close, Mails
  <2> QED BY <2>1 DEF ViewInv
<1>4. CASE ~mail.closed /\ ~Close
  <2>1. OpenInv /\ RowsInv /\ HoldInv
    BY <1>4 DEF FreshInv, OpenInv, ViewInv, HoldInv
  <2> SUFFICES RowsInv' /\ HoldInv'
    BY DEF ViewInv, HoldInv
  <2>2. CASE Run
    <3>1. view' = view
      BY <2>2 DEF Run
    <3>2. CASE Begin \/ PrepareMonitor \/ Warn \/ PassDone \/ Breaks
      BY <1>4, <2>1, <3>1, <3>2, GoesView
    <3>3. CASE \/ ReadError \/ Scanned \/ Replace \/ ReportFailure
               \/ \E d \in Dirs : OpenDirectory(d) \/ Publish(d)
      BY <1>4, <2>1, <3>1, <3>3, PassesView
    <3>4. CASE ChangedScope \/ Discover \/ Traverse \/ ReadDirectory \/ Probe
      BY <1>4, <2>1, <3>1, <3>4, ScopeView, DiscoverView, TraverseView, ReadView, ProbeView
    <3>5. ASSUME NEW d \in Dirs, Withdraw(d) PROVE RowsInv' /\ HoldInv'
      BY <1>4, <2>1, <3>1, <3>5, WithdrawView
    <3> QED BY <2>2, <3>2, <3>3, <3>4, <3>5 DEF Run
  <2>3. CASE Terminate \/ TakeJob \/ WatchJob \/ Resume \/ Take \/ Environment
    BY <1>4, <2>1, <2>3, TerminateView, JobView, ResumeView, TakeView, EnvironmentView
  <2>4. CASE Abort
    <3>1. PICK v : v = [worker EXCEPT !.fault = TRUE, !.at = None]
      OBVIOUS
    <3>2. v \in Workers
      BY <1>1, <3>1 DEF Workers
    <3>3. /\ v.pc = worker.pc /\ v.todo = worker.todo /\ v.found = worker.found
          /\ v.held = worker.held /\ v.at = None
          /\ v.kind = worker.kind /\ v.extra = worker.extra /\ v.scope = worker.scope
          /\ v.partial = worker.partial
      BY <1>1, <3>1 DEF Workers
    <3>4. worker.pc = "scan" /\ worker.held = None /\ worker' = v /\ mail' = mail
          /\ UNCHANGED <<session, disk, past, view>>
      BY <2>4, <3>1 DEF Abort, At
    <3>5. Sends(v) /\ Onward(v) /\ ~Resting /\ ~Broken
      BY <3>3, <3>4 DEF Sends, Onward, Resting, Broken
    <3> QED BY <1>4, <2>1, <3>2, <3>3, <3>4, <3>5, GoView
  <2>5. CASE /\ UNCHANGED <<worker, session, disk, past, view>>
             /\ mail'.queue = mail.queue
    BY <2>1, <2>5, SameRows, ApartHold DEF Twin, Alike
  <2>6. CASE \/ Progress \/ Suspend \/ Release \/ CloneToken \/ CancelToken \/ Listener
             \/ CheckRoots \/ UNCHANGED vars \/ \E kind, scope : Refresh(kind, scope)
    <3>1. UNCHANGED <<worker, session, disk, past, view>>
      BY <2>6 DEF Progress, Suspend, Release, CloneToken, CancelToken, Listener, Deliver,
         Overflow, CheckRoots, Refresh, vars
    <3>2. mail'.queue = mail.queue
      <4>1. Cleared(mail) \in Mails /\ Cleared(mail).queue = mail.queue
        BY <1>1, ClearedIs DEF IInv
      <4>2. CASE Progress
        <5>1. PICK c \in Mails : c = Cleared(mail)
          BY <4>1
        <5>2. mail' = c \/ mail' = [c EXCEPT !.progress = TRUE, !.bytes = @ + Cost("progress")]
          BY <4>2, <5>1 DEF Progress
        <5> QED BY <4>1, <5>1, <5>2 DEF Mails
      <4>3. CASE \/ Suspend \/ Release \/ CloneToken \/ CancelToken \/ Listener
                 \/ CheckRoots \/ UNCHANGED vars
        BY <1>1, <4>3 DEF Suspend, Release, CloneToken, CancelToken, Listener, Deliver, Overflow,
           CheckRoots, vars, Mails
      <4>4. ASSUME NEW kind, NEW scope, Refresh(kind, scope) PROVE mail'.queue = mail.queue
        BY <1>1, <4>4 DEF Refresh, Mails
      <4> QED BY <2>6, <4>2, <4>3, <4>4
    <3> QED BY <2>5, <3>1, <3>2
  <2>7. ~Stop
    BY <1>4 DEF Stop
  <2> QED BY <1>4, <2>2, <2>3, <2>4, <2>6, <2>7 DEF Next, Worker, Work, Owner, Consume
<1> QED BY <1>2, <1>3, <1>4

LEMMA ViewInit ==
    ASSUME Init
    PROVE  ViewInv
<1>1. /\ {} \in SUBSET Dirs /\ worker = Begun("all", {}) /\ past = NoPast /\ view = NoView
      /\ mail.queue = <<>> /\ session.presented = {} /\ session.roots = {}
  BY DEF Init
<1>2. /\ worker.kind = "all" /\ worker.pc = "begin" /\ ~worker.extra /\ worker.at = None
      /\ worker.held = None
  BY <1>1, BegunFields, BegunIs
<1>3. RowsInv
  <2>1. DOMAIN mail.queue = {} /\ view.rows = {}
    BY <1>1 DEF NoView
  <2>2. ASSUME NEW d \in Dirs PROVE ~WillShow(d)
    BY <1>2, <2>1 DEF WillShow, Shows
  <2> QED BY <1>1, <2>2 DEF RowsInv
<1>4. FoundInv /\ PassInv
  BY <1>2 DEF FoundInv, PassInv, Scanning
<1>5. Got = {} /\ ~Scanning
  BY <1>2 DEF Got, Early, Scanning
<1>6. TruthInv
  BY <1>1, <1>5 DEF TruthInv
<1> QED BY <1>3, <1>4, <1>6 DEF ViewInv

\* Once the owner has drained a complete revision, and every revision since a
\* full one was complete, it has a row for exactly the directories that hold a
\* candidate, wherever nothing changed meanwhile: no replaced Base, withheld or
\* withdrawn row, narrowed scope, second pass or late directory leaves it with
\* another (Writer::send, replace_complete, run_progressive).
THEOREM ViewTheorem == Spec => []CompleteViewIsTrue
<1>1. Init => IInv /\ FreshInv /\ ViewInv
  BY InitIs, FreshInit, ViewInit
<1>2. IInv /\ FreshInv /\ ViewInv /\ [Next]_vars => IInv' /\ FreshInv' /\ ViewInv'
  BY NextKeeps, FreshKeeps, ViewKeeps
<1>3. ASSUME IInv, FreshInv, ViewInv PROVE CompleteViewIsTrue
  <2>1. SUFFICES ASSUME Drained(mail), ~mail.closed, mail.idle, past.gapless,
                        NEW d \in session.roots \ past.behind
                 PROVE  d \in view.rows <=> disk.holds[d]
    BY DEF CompleteViewIsTrue
  <2>2. Resting /\ worker.held = None
    BY <1>3, <2>1 DEF IInv, QuietInv, Resting
  <2>3. Trusted /\ Got = {} /\ Left = {}
    BY <2>1, <2>2 DEF Trusted, Got, Left, Resting, Early
  <2>4. d \in session.presented <=> disk.holds[d]
    BY <1>3, <2>1, <2>3 DEF ViewInv, TruthInv
  <2>5. d \in Dirs
    BY <1>3, <2>1, RestIs DEF IInv
  <2>6. d \in session.presented <=> WillShow(d)
    BY <1>3, <2>1, <2>5 DEF ViewInv, RowsInv
  <2>7. WillShow(d) <=> d \in view.rows
    <3>1. DOMAIN mail.queue = {}
      BY <2>1 DEF Drained
    <3> QED BY <2>2, <3>1 DEF WillShow, Shows
  <2> QED BY <2>4, <2>6, <2>7
<1> QED BY <1>1, <1>2, <1>3, PTL DEF Spec
=============================================================================
