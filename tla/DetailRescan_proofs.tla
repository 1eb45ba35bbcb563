------------------------- MODULE DetailRescan_proofs -------------------------
(***************************************************************************)
(* That the invariants of DetailRescanInv hold for any tree of directories *)
(* and any number of moves, refreshes and faults, and what follows from    *)
(* them.  The steps of the interface are functions of the record of node,  *)
(* path and lane: each part of them keeps Good, in the order of the code,  *)
(* and then WayOK, which says what the levels and the failures rest on.    *)
(***************************************************************************)
EXTENDS DetailRescanInv, WellFoundedInduction, TLAPS

-----------------------------------------------------------------------------
(* What the parts of a step change *)

Taken(s, l) == [s EXCEPT !.lane[l].pending = None, !.lane[l].completion = None]

LEMMA TakenIs ==
    ASSUME NEW s \in States, NEW l \in Lanes
    PROVE  /\ Taken(s, l) \in States
           /\ Taken(s, l).node = s.node /\ Taken(s, l).path = s.path
           /\ Taken(s, l).lane = [s.lane EXCEPT ![l] = [@ EXCEPT !.pending = None, !.completion = None]]
<1>1. s.lane \in [Lanes -> LaneRecords] /\ s.lane[l] \in LaneRecords
  BY DEF States
<1>2. Taken(s, l).node = s.node /\ Taken(s, l).path = s.path
  BY DEF States, Taken
<1>3. Taken(s, l).lane = [s.lane EXCEPT ![l] = [@ EXCEPT !.pending = None, !.completion = None]]
  BY <1>1 DEF States, Taken
<1>4. [s.lane[l] EXCEPT !.pending = None, !.completion = None] \in LaneRecords
  BY <1>1 DEF LaneRecords
<1>5. Taken(s, l).lane \in [Lanes -> LaneRecords]
  BY <1>1, <1>3, <1>4
<1>6. Taken(s, l) \in States
  BY <1>5 DEF States, Taken
<1> QED BY <1>2, <1>3, <1>6

LEMMA FailIs ==
    ASSUME NEW s \in States, NEW t \in Tasks
    PROVE  /\ Fail(s, t) \in States
           /\ Fail(s, t).path = s.path /\ Fail(s, t).lane = s.lane
           /\ Bound(s, t) => Fail(s, t).node = [s.node EXCEPT ![t.dir] = [@ EXCEPT !.mode = "stale"]]
           /\ ~Bound(s, t) => Fail(s, t).node = s.node
<1>1. s.node \in [Dirs -> Nodes] /\ t.dir \in Dirs /\ s.node[t.dir] \in Nodes
  BY DEF States, Tasks
<1>2. [s.node[t.dir] EXCEPT !.mode = "stale"] \in Nodes
  BY <1>1 DEF Nodes, Modes
<1>3. [s.node EXCEPT ![t.dir] = [@ EXCEPT !.mode = "stale"]] \in [Dirs -> Nodes]
  BY <1>1, <1>2
<1>4. Fail(s, t).path = s.path /\ Fail(s, t).lane = s.lane
  BY DEF Fail, States
<1>5. Bound(s, t) => Fail(s, t).node = [s.node EXCEPT ![t.dir] = [@ EXCEPT !.mode = "stale"]]
  BY DEF Fail, States
<1>6. ~Bound(s, t) => Fail(s, t).node = s.node
  BY DEF Fail, States
<1>7. Fail(s, t) \in States
  BY <1>1, <1>3 DEF Fail, States
<1> QED BY <1>4, <1>5, <1>6, <1>7

\* The levels are cut at the first one that is gone.
LEMMA LevelsAre ==
    ASSUME NEW levels \in Seq(Dirs), NEW gone
    PROVE  \E n \in 0 .. Len(levels) :
              /\ Levels(levels, gone) = SubSeq(levels, 1, n)
              /\ \A i \in 1 .. n : levels[i] \notin gone
              /\ n = Len(levels) \/ levels[n + 1] \in gone
<1> DEFINE First(n) == /\ \A i \in 1 .. n : levels[i] \notin gone
                       /\ n = Len(levels) \/ levels[n + 1] \in gone
           lost == {i \in 1 .. Len(levels) : levels[i] \in gone}
<1>1. \E n \in 0 .. Len(levels) : First(n)
  <2>1. CASE lost = {}
    BY <2>1
  <2>2. CASE lost # {}
    <3>1. PICK m \in lost : \A n \in lost : ~(n < m)
      <4>1. lost \subseteq Nat
        OBVIOUS
      <4>2. PICK m \in lost : \A n \in lost : <<n, m>> \notin OpToRel(<, Nat)
        BY <2>2, <4>1, NatLessThanWellFounded, WFMin, ZenonT(60)
      <4> QED BY <4>1, <4>2 DEF OpToRel
    <3>2. m - 1 \in 0 .. Len(levels) /\ First(m - 1)
      BY <3>1
    <3> QED BY <3>2
  <2> QED BY <2>1, <2>2
<1> DEFINE n == CHOOSE n \in 0 .. Len(levels) : First(n)
<1>2. n \in 0 .. Len(levels) /\ First(n)
  BY <1>1
<1>3. Levels(levels, gone) = SubSeq(levels, 1, n)
  BY DEF Levels
<1> HIDE DEF n
<1> QED BY <1>2, <1>3

\* The levels that stay are there.
LEMMA LevelsStay ==
    ASSUME NEW levels \in Seq(Dirs), NEW gone
    PROVE  /\ Levels(levels, gone) \in Seq(Dirs)
           /\ \A i \in DOMAIN Levels(levels, gone) :
                  /\ i \in DOMAIN levels
                  /\ Levels(levels, gone)[i] = levels[i] /\ levels[i] \notin gone
BY LevelsAre

LEMMA RequestTypes ==
    ASSUME NEW s, Good(s), NEW l \in Lanes, s.lane[l].pending # None
    PROVE  /\ s.lane[l].pending \in Pendings
           /\ s.lane[l].pending.task \in Tasks /\ s.lane[l].pending.task.dir \in Dirs
           /\ s.lane[l].pending.late \in BOOLEAN /\ s.lane[l].pending.timedOut \in BOOLEAN
           /\ s.lane[l].pending.abandoned \in BOOLEAN
<1>1. s.lane[l] \in LaneRecords
  BY DEF Good, States
<1>2. s.lane[l].pending \in Pendings
  BY <1>1 DEF LaneRecords
<1>3. s.lane[l].pending.task \in Tasks
  BY <1>2 DEF Pendings
<1> QED BY <1>2, <1>3 DEF Pendings, Tasks

LEMMA BoundIsNamed ==
    ASSUME NEW s, Good(s), NEW l \in Lanes, s.lane[l].pending # None,
           Bound(s, s.lane[l].pending.task)
    PROVE  Names(s, l, s.lane[l].pending.task.dir) /\ Live(s.lane[l].pending)
<1>1. s.lane[l].pending.task.dir \in Dirs
  BY RequestTypes
<1>2. Names(s, l, s.lane[l].pending.task.dir)
  BY DEF Bound, Names
<1>3. Marked(s.node[s.lane[l].pending.task.dir], s.lane[l].pending)
  BY <1>1, <1>2 DEF Good
<1> QED BY <1>2, <1>3 DEF Marked, Bound

LEMMA LiveIsBound ==
    ASSUME NEW s, Good(s), NEW l \in Lanes, NEW d \in Dirs, Names(s, l, d), Live(s.lane[l].pending)
    PROVE  Bound(s, s.lane[l].pending.task)
BY DEF Good, Names, Marked, Bound

LEMMA DropGood ==
    ASSUME NEW s, Good(s), NEW l \in Lanes, s.lane[l].pending # None,
           s.lane[l].completion # None \/ s.lane[l].worker = "dead"
    PROVE  /\ Good(Fail(Taken(s, l), s.lane[l].pending.task))
           /\ ~Live(s.lane[l].pending) => Good(Taken(s, l))
<1> DEFINE p == s.lane[l].pending
           u == Taken(s, l)
           v == Fail(u, p.task)
<1>1. s \in States /\ p \in Pendings /\ p.task \in Tasks /\ p.task.dir \in Dirs
  BY RequestTypes DEF Good
<1>2. /\ u \in States /\ u.node = s.node /\ u.path = s.path
      /\ u.lane = [s.lane EXCEPT ![l] = [@ EXCEPT !.pending = None, !.completion = None]]
  BY <1>1, TakenIs, ZenonT(60)
<1>3. /\ v \in States /\ v.path = s.path /\ v.lane = u.lane
      /\ Bound(s, p.task) => v.node = [s.node EXCEPT ![p.task.dir] = [@ EXCEPT !.mode = "stale"]]
      /\ ~Bound(s, p.task) => v.node = s.node
  <2>1. Bound(u, p.task) <=> Bound(s, p.task)
    BY <1>2 DEF Bound
  <2>2. v = Fail(u, p.task)
    OBVIOUS
  <2> HIDE DEF p, u, v
  <2>3. /\ v \in States /\ v.path = u.path /\ v.lane = u.lane
        /\ Bound(u, p.task) => v.node = [u.node EXCEPT ![p.task.dir] = [@ EXCEPT !.mode = "stale"]]
        /\ ~Bound(u, p.task) => v.node = u.node
    BY <1>1, <1>2, <2>2, FailIs, ZenonT(60)
  <2> QED BY <1>2, <2>1, <2>3, ZenonT(60)
<1> HIDE DEF u, v
<1>3a. v.lane = u.lane /\ u.node = s.node
  BY <1>2, <1>3
<1>4. s.lane \in [Lanes -> LaneRecords] /\ s.node \in [Dirs -> Nodes]
  BY <1>1 DEF States
<1>5. /\ u.lane[l].pending = None
      /\ \A m \in Lanes \ {l} : u.lane[m] = s.lane[m]
  BY <1>2, <1>4 DEF LaneRecords
<1>6. \A m \in Lanes : LaneOK(u.lane[m])
  <2>1. LaneOK(s.lane[l]) /\ s.lane[l] \in LaneRecords
    BY <1>4 DEF Good
  <2>2. s.lane[l].request = None /\ s.lane[l].job = None
    BY <2>1 DEF LaneOK
  <2>3. /\ u.lane[l].request = None /\ u.lane[l].job = None /\ u.lane[l].completion = None
        /\ u.lane[l].worker = s.lane[l].worker
    BY <1>2, <1>4, <2>1, <2>2 DEF LaneRecords
  <2>4. LaneOK(u.lane[l])
    BY <2>1, <2>2, <2>3, <1>5, SMTT(40) DEF LaneOK, Live
  <2> QED BY <2>4, <1>5 DEF Good
<1>7. \A d \in Dirs : v.node[d].id = s.node[d].id
  <2>1. s.node[p.task.dir] \in Nodes
    BY <1>4, <1>1
  <2>2. [s.node[p.task.dir] EXCEPT !.mode = "stale"].id = s.node[p.task.dir].id
    BY <2>1 DEF Nodes
  <2> QED BY <1>3, <1>4, <1>1, <2>2
<1>8. ASSUME NEW m \in Lanes, NEW d \in Dirs, Names(v, m, d) \/ Names(u, m, d)
      PROVE  m # l /\ Names(s, m, d) /\ v.node[d] = s.node[d]
  <2>1. m # l /\ Names(s, m, d)
    <3>1. m # l
      BY <1>8, <1>5, <1>3a, ZenonT(60) DEF Names
    <3>2. v.lane[m] = s.lane[m] /\ u.lane[m] = s.lane[m]
      BY <3>1, <1>5, <1>3a
    <3>3. u.node[d].id = s.node[d].id /\ v.node[d].id = s.node[d].id
      BY <1>3a, <1>7
    <3> QED BY <1>8, <3>1, <3>2, <3>3, ZenonT(60) DEF Names
  <2>2. ~(Bound(s, p.task) /\ d = p.task.dir)
    BY <2>1, BoundIsNamed, SMTT(40) DEF Good, Lanes
  <2> QED BY <2>1, <2>2, <1>3, <1>4, <1>1
<1>9. \A m \in Lanes, d \in Dirs : /\ Names(v, m, d) => Marked(v.node[d], v.lane[m].pending)
                                   /\ Names(u, m, d) => Marked(u.node[d], u.lane[m].pending)
  <2> TAKE m \in Lanes, d \in Dirs
  <2>1. Names(s, m, d) => Marked(s.node[d], s.lane[m].pending)
    BY DEF Good
  <2>2. m # l => u.lane[m] = s.lane[m]
    BY <1>5
  <2> QED BY <1>8, <1>3a, <2>1, <2>2, ZenonT(60)
<1>10. \A d \in Dirs : /\ ~(Names(v, "scan", d) /\ Names(v, "listing", d))
                       /\ ~(Names(u, "scan", d) /\ Names(u, "listing", d))
  BY <1>8, SMTT(40) DEF Good, Lanes
<1>11. ASSUME NEW d \in Dirs, v.node[d].mode = "pending"
       PROVE  \E m \in Lanes : Names(v, m, d) /\ Live(v.lane[m].pending)
  <2>1. s.node[d].mode = "pending" /\ ~(Bound(s, p.task) /\ d = p.task.dir)
    <3>1. s.node[p.task.dir] \in Nodes
      BY <1>4, <1>1
    <3>2. [s.node[p.task.dir] EXCEPT !.mode = "stale"].mode = "stale"
      BY <3>1 DEF Nodes
    <3> QED BY <1>11, <1>3, <1>4, <1>1, <3>2
  <2>2. PICK m \in Lanes : Names(s, m, d) /\ Live(s.lane[m].pending)
    BY <2>1 DEF Good
  <2>3. m # l
    BY <2>1, <2>2, LiveIsBound DEF Names
  <2>4. v.lane[m] = s.lane[m] /\ v.node[d].id = s.node[d].id
    BY <2>3, <1>5, <1>3a, <1>7
  <2> QED BY <2>2, <2>4, ZenonT(60) DEF Names
<1>12. ASSUME ~Live(p), NEW d \in Dirs, u.node[d].mode = "pending"
       PROVE  \E m \in Lanes : Names(u, m, d) /\ Live(u.lane[m].pending)
  <2>1. PICK m \in Lanes : Names(s, m, d) /\ Live(s.lane[m].pending)
    BY <1>12, <1>2 DEF Good
  <2> QED BY <2>1, <1>12, <1>5, <1>2 DEF Names
<1>13. /\ ScanOK(u.lane["scan"])
       /\ \A i \in DOMAIN s.path : Present(u, s.path[i]) /\ Present(v, s.path[i])
  <2>1. "scan" \in Lanes /\ ("scan" = l \/ u.lane["scan"] = s.lane["scan"])
    BY <1>5 DEF Lanes
  <2>2. \A i \in DOMAIN s.path : s.path[i] \in Dirs
    BY <1>1 DEF States
  <2>3. \A i \in DOMAIN s.path : s.node[s.path[i]].id # 0
    BY DEF Good, Present
  <2>4. \A i \in DOMAIN s.path : Present(u, s.path[i]) /\ Present(v, s.path[i])
    BY <2>2, <2>3, <1>2, <1>7 DEF Present
  <2>5. ScanOK(s.lane["scan"])
    BY DEF Good
  <2>6. u.lane[l].worker = s.lane[l].worker
    BY <1>2, <1>4 DEF LaneRecords
  <2>7. ScanOK(u.lane["scan"])
    BY <2>1, <2>5, <2>6, <1>5, SMTT(40) DEF ScanOK
  <2> QED BY <2>4, <2>7
<1>14. Good(v)
  BY <1>2, <1>3, <1>6, <1>9, <1>10, <1>11, <1>13, ZenonT(60) DEF Good
<1>15. ~Live(p) => Good(u)
  BY <1>2, <1>6, <1>9, <1>10, <1>12, <1>13 DEF Good
<1> QED BY <1>14, <1>15 DEF u, v

\* The lanes when the request of lane l becomes q and its worker is told to stop; the
\* request out of time, and the listing given up.
Closing(s, l, q) == [s.lane EXCEPT ![l] = [@ EXCEPT !.pending = q, !.cancelled = TRUE]]
Expired(s, l) == [s EXCEPT !.lane[l].pending.timedOut = TRUE, !.lane[l].cancelled = TRUE]
GivenUp(s, l) == [s EXCEPT !.lane[l].pending.abandoned = TRUE, !.lane[l].cancelled = TRUE]

LEMMA ExpireIs ==
    ASSUME NEW s \in States, NEW l \in Lanes, NEW p \in Pendings, p = s.lane[l].pending
    PROVE  /\ Expired(s, l) \in States /\ Expired(s, l).node = s.node /\ Expired(s, l).path = s.path
           /\ Expired(s, l).lane = Closing(s, l, [p EXCEPT !.timedOut = TRUE])
<1> DEFINE u == Expired(s, l)
           lu == [s.lane[l] EXCEPT !.pending = [p EXCEPT !.timedOut = TRUE], !.cancelled = TRUE]
<1>1. s.lane \in [Lanes -> LaneRecords] /\ s.lane[l] \in LaneRecords
  BY DEF States
<1>2. [p EXCEPT !.timedOut = TRUE] \in Pendings
  BY DEF Pendings
<1>3. lu \in LaneRecords
  BY <1>1, <1>2 DEF LaneRecords
<1>4. /\ u.lane = [s.lane EXCEPT ![l] = lu] /\ u.node = s.node /\ u.path = s.path
      /\ u = [s EXCEPT !.lane = [s.lane EXCEPT ![l] = lu]]
  BY <1>1 DEF Expired, States, LaneRecords
<1>5. u.lane = Closing(s, l, [p EXCEPT !.timedOut = TRUE])
  BY <1>4 DEF Closing
<1> HIDE DEF u, lu
<1>6. [s.lane EXCEPT ![l] = lu] \in [Lanes -> LaneRecords]
  BY <1>1, <1>3
<1>7. u \in States
  BY <1>4, <1>6 DEF States
<1> QED BY <1>4, <1>5, <1>7 DEF u

LEMMA AbandonIs ==
    ASSUME NEW s \in States, NEW l \in Lanes, NEW p \in Pendings, p = s.lane[l].pending
    PROVE  /\ GivenUp(s, l) \in States /\ GivenUp(s, l).node = s.node /\ GivenUp(s, l).path = s.path
           /\ GivenUp(s, l).lane = Closing(s, l, [p EXCEPT !.abandoned = TRUE])
<1> DEFINE u == GivenUp(s, l)
           lu == [s.lane[l] EXCEPT !.pending = [p EXCEPT !.abandoned = TRUE], !.cancelled = TRUE]
<1>1. s.lane \in [Lanes -> LaneRecords] /\ s.lane[l] \in LaneRecords
  BY DEF States
<1>2. [p EXCEPT !.abandoned = TRUE] \in Pendings
  BY DEF Pendings
<1>3. lu \in LaneRecords
  BY <1>1, <1>2 DEF LaneRecords
<1>4. /\ u.lane = [s.lane EXCEPT ![l] = lu] /\ u.node = s.node /\ u.path = s.path
      /\ u = [s EXCEPT !.lane = [s.lane EXCEPT ![l] = lu]]
  BY <1>1 DEF GivenUp, States, LaneRecords
<1>5. u.lane = Closing(s, l, [p EXCEPT !.abandoned = TRUE])
  BY <1>4 DEF Closing
<1> HIDE DEF u, lu
<1>6. [s.lane EXCEPT ![l] = lu] \in [Lanes -> LaneRecords]
  BY <1>1, <1>3
<1>7. u \in States
  BY <1>4, <1>6 DEF States
<1> QED BY <1>4, <1>5, <1>7 DEF u

-----------------------------------------------------------------------------
(* Requests that end without an answer *)

\* The request of a lane is not live any more, and its node is not pending.
LEMMA RetireGood ==
    ASSUME NEW s, Good(s), NEW l \in Lanes, s.lane[l].pending # None,
           NEW q \in Pendings, ~Live(q), q.task = s.lane[l].pending.task, q.mode = s.lane[l].pending.mode,
           l = "scan" => ~q.abandoned,
           NEW w \in States, w.path = s.path,
           w.lane = Closing(s, l, q),
           \A d \in Dirs : w.node[d].id = s.node[d].id,
           \A d \in Dirs : ~Names(s, l, d) => w.node[d] = s.node[d],
           \A d \in Dirs : Names(s, l, d) =>
               w.node[d].mode # "pending" /\ (~q.abandoned => w.node[d].mode = "stale")
    PROVE  Good(w)
<1>1. s \in States /\ s.lane \in [Lanes -> LaneRecords]
  BY DEF Good, States
<1>2. /\ w.lane[l].pending = q /\ w.lane[l].cancelled = TRUE
      /\ w.lane[l].worker = s.lane[l].worker /\ w.lane[l].request = s.lane[l].request
      /\ w.lane[l].job = s.lane[l].job /\ w.lane[l].completion = s.lane[l].completion
      /\ \A m \in Lanes \ {l} : w.lane[m] = s.lane[m]
  BY <1>1 DEF LaneRecords, Closing
<1>3. q # None
  BY NoneAssumption
<1>4. \A m \in Lanes : LaneOK(w.lane[m])
  <2>1. LaneOK(w.lane[l])
    <3>1. LaneOK(s.lane[l])
      BY DEF Good
    <3> QED BY <3>1, <1>2, <1>3, ZenonT(60) DEF LaneOK
  <2> QED BY <2>1, <1>2 DEF Good
<1>5. \A m \in Lanes, d \in Dirs : Names(w, m, d) <=> Names(s, m, d)
  <2>1. \A d \in Dirs : Names(w, l, d) <=> Names(s, l, d)
    BY <1>2, <1>3 DEF Names
  <2>2. \A m \in Lanes \ {l}, d \in Dirs : Names(w, m, d) <=> Names(s, m, d)
    BY <1>2 DEF Names
  <2> QED BY <2>1, <2>2
<1>6. \A d \in Dirs : ~(Names(w, "scan", d) /\ Names(w, "listing", d))
  BY <1>5 DEF Good, Lanes
<1>7. ASSUME NEW m \in Lanes, NEW d \in Dirs, Names(w, m, d)
      PROVE  Marked(w.node[d], w.lane[m].pending)
  <2>1. CASE m = l
    BY <2>1, <1>2, <1>5, <1>7 DEF Marked
  <2>2. CASE m # l
    <3>1. Names(s, m, d) /\ ~Names(s, l, d)
      BY <1>5, <1>7, <2>2 DEF Good, Lanes
    <3> QED BY <3>1, <1>2, <2>2 DEF Good
  <2> QED BY <2>1, <2>2
<1>8. ASSUME NEW d \in Dirs, w.node[d].mode = "pending"
      PROVE  \E m \in Lanes : Names(w, m, d) /\ Live(w.lane[m].pending)
  <2>1. ~Names(s, l, d) /\ s.node[d].mode = "pending"
    BY <1>8
  <2>2. PICK m \in Lanes : Names(s, m, d) /\ Live(s.lane[m].pending)
    BY <2>1 DEF Good
  <2> QED BY <2>1, <2>2, <1>2, <1>5
<1>9. ScanOK(w.lane["scan"])
  <2>1. "scan" \in Lanes /\ ScanOK(s.lane["scan"])
    BY DEF Good, Lanes
  <2> QED BY <2>1, <1>2 DEF ScanOK
<1>10. \A i \in DOMAIN w.path : Present(w, w.path[i])
  <2>1. \A i \in DOMAIN s.path : s.path[i] \in Dirs
    BY <1>1, SMTT(40) DEF States
  <2> QED BY <2>1 DEF Good, Present
<1> QED BY <1>4, <1>6, <1>7, <1>8, <1>9, <1>10 DEF Good

LEMMA ExpireGood ==
    ASSUME NEW s, Good(s), NEW l \in Lanes, s.lane[l].pending # None, ~s.lane[l].pending.timedOut
    PROVE  Good([Fail(s, s.lane[l].pending.task) EXCEPT
                    !.lane[l].pending.timedOut = TRUE, !.lane[l].cancelled = TRUE])
<1> DEFINE p == s.lane[l].pending
           f == Fail(s, p.task)
           q == [p EXCEPT !.timedOut = TRUE]
           w == [f EXCEPT !.lane[l].pending.timedOut = TRUE, !.lane[l].cancelled = TRUE]
<1>1. s \in States /\ p \in Pendings /\ p.task \in Tasks /\ p.task.dir \in Dirs
  BY RequestTypes, SMTT(40) DEF Good
<1>2. /\ f \in States /\ f.path = s.path /\ f.lane = s.lane
      /\ Bound(s, p.task) => f.node = [s.node EXCEPT ![p.task.dir] = [@ EXCEPT !.mode = "stale"]]
      /\ ~Bound(s, p.task) => f.node = s.node
  BY <1>1, FailIs
<1> HIDE DEF f
<1>3. /\ w \in States /\ w.node = f.node /\ w.path = s.path
      /\ w.lane = Closing(s, l, q)
  <2>1. w = Expired(f, l)
    BY DEF Expired
  <2>2. f \in States /\ p \in Pendings /\ p = f.lane[l].pending
    BY <1>1, <1>2
  <2> HIDE DEF p, w
  <2>3. /\ w \in States /\ w.node = f.node /\ w.path = f.path
        /\ w.lane = Closing(f, l, q)
    BY <2>1, <2>2, ExpireIs, ZenonT(60)
  <2> QED BY <1>2, <2>3, ZenonT(60) DEF Closing
<1>4. /\ q \in Pendings /\ ~Live(q) /\ q.task = p.task /\ q.mode = p.mode /\ q.abandoned = p.abandoned
  BY <1>1 DEF Pendings, Live
<1> HIDE DEF w, q
<1>5. s.node \in [Dirs -> Nodes] /\ s.node[p.task.dir] \in Nodes
  BY <1>1 DEF States
<1>6. [s.node[p.task.dir] EXCEPT !.mode = "stale"].id = s.node[p.task.dir].id
      /\ [s.node[p.task.dir] EXCEPT !.mode = "stale"].mode = "stale"
  BY <1>5 DEF Nodes
<1>7. \A d \in Dirs : w.node[d].id = s.node[d].id
  BY <1>2, <1>3, <1>5, <1>6
<1>8. Bound(s, p.task) => Names(s, l, p.task.dir)
  BY DEF Bound, Names
<1>9. \A d \in Dirs : ~Names(s, l, d) => w.node[d] = s.node[d]
  BY <1>2, <1>3, <1>5, <1>8
<1>10. ASSUME NEW d \in Dirs, Names(s, l, d)
       PROVE  w.node[d].mode # "pending" /\ (~q.abandoned => w.node[d].mode = "stale")
  <2>1. d = p.task.dir /\ Marked(s.node[d], p)
    BY <1>10 DEF Good, Names
  <2>2. CASE Bound(s, p.task)
    BY <2>1, <2>2, <1>2, <1>3, <1>5, <1>6, ZenonT(60)
  <2>3. CASE ~Bound(s, p.task)
    <3>1. ~Live(p)
      BY <2>3, <1>10, LiveIsBound
    <3> QED BY <2>1, <2>3, <3>1, <1>2, <1>3, <1>4, ZenonT(60) DEF Marked
  <2> QED BY <2>2, <2>3
<1>11. l = "scan" => ~q.abandoned
  BY <1>4 DEF Good, ScanOK
<1>12. Good(w)
  BY <1>1, <1>3, <1>4, <1>7, <1>9, <1>10, <1>11, RetireGood, ZenonT(60)
<1> QED BY <1>12, ZenonT(60) DEF w, f

LEMMA AbandonGood ==
    ASSUME NEW s, Good(s), s.lane["listing"].pending # None
    PROVE  Good(Abandoned(s)) /\ Abandoned(s).path = s.path
<1> DEFINE l == "listing"
           p == s.lane[l].pending
           t == p.task
           back == [s EXCEPT !.node[t.dir].mode = p.mode, !.node[t.dir].rev = p.rev]
           restored == IF Bound(s, t)
                       THEN [s EXCEPT !.node[t.dir].mode = p.mode, !.node[t.dir].rev = p.rev]
                       ELSE s
           q == [p EXCEPT !.abandoned = TRUE]
           w == [restored EXCEPT !.lane[l].pending.abandoned = TRUE, !.lane[l].cancelled = TRUE]
<1>1. l \in Lanes /\ s \in States /\ p \in Pendings /\ p.task \in Tasks /\ p.task.dir \in Dirs
  BY RequestTypes DEF Good, Lanes
<1>2. s.node \in [Dirs -> Nodes] /\ s.node[t.dir] \in Nodes /\ p.mode \in Modes /\ p.rev \in Nat
  BY <1>1 DEF States, Pendings
<1>3. /\ [s.node[t.dir] EXCEPT !.mode = p.mode, !.rev = p.rev] \in Nodes
      /\ [s.node[t.dir] EXCEPT !.mode = p.mode, !.rev = p.rev].id = s.node[t.dir].id
      /\ [s.node[t.dir] EXCEPT !.mode = p.mode, !.rev = p.rev].mode = p.mode
  BY <1>2, ZenonT(60) DEF Nodes
<1>4. /\ restored \in States /\ restored.path = s.path /\ restored.lane = s.lane
      /\ Bound(s, t) => restored.node = [s.node EXCEPT ![t.dir] = [@ EXCEPT !.mode = p.mode, !.rev = p.rev]]
      /\ ~Bound(s, t) => restored.node = s.node
  <2>1. CASE ~Bound(s, t)
    BY <2>1, <1>1
  <2>2. CASE Bound(s, t)
    <3>1. /\ back.path = s.path /\ back.lane = s.lane
          /\ back.node = [s.node EXCEPT ![t.dir] = [@ EXCEPT !.mode = p.mode, !.rev = p.rev]]
          /\ back = [s EXCEPT !.node = [s.node EXCEPT ![t.dir] = [@ EXCEPT !.mode = p.mode, !.rev = p.rev]]]
      BY <1>1, <1>2 DEF States
    <3>2. back \in States
      BY <3>1, <1>1, <1>2, <1>3, ZenonT(60) DEF States
    <3> QED BY <2>2, <3>1, <3>2, ZenonT(60)
  <2> QED BY <2>1, <2>2, ZenonT(60)
<1> HIDE DEF restored
<1>5. /\ w \in States /\ w.node = restored.node /\ w.path = s.path
      /\ w.lane = Closing(s, l, q)
  <2>1. w = GivenUp(restored, l)
    BY DEF GivenUp
  <2>2. l \in Lanes /\ restored \in States /\ p \in Pendings /\ p = restored.lane[l].pending
    BY <1>1, <1>4
  <2> HIDE DEF p, w
  <2>3. /\ w \in States /\ w.node = restored.node /\ w.path = restored.path
        /\ w.lane = Closing(restored, l, q)
    BY <2>1, <2>2, AbandonIs, ZenonT(60)
  <2> QED BY <1>4, <2>3, ZenonT(60) DEF Closing
<1>6. /\ q \in Pendings /\ ~Live(q) /\ q.task = p.task /\ q.mode = p.mode /\ q.abandoned
  BY <1>1 DEF Pendings, Live
<1> HIDE DEF w, q
<1>7. \A d \in Dirs : w.node[d].id = s.node[d].id
  BY <1>2, <1>3, <1>4, <1>5
<1>8. \A d \in Dirs : ~Names(s, l, d) => w.node[d] = s.node[d]
  <2>1. Bound(s, t) => Names(s, l, t.dir)
    BY DEF Bound, Names
  <2> QED BY <2>1, <1>2, <1>4, <1>5
<1>9. ASSUME NEW d \in Dirs, Names(s, l, d)
      PROVE  w.node[d].mode # "pending"
  <2>1. d = t.dir /\ Marked(s.node[d], p) /\ p.mode # "pending"
    BY <1>1, <1>9 DEF Good, Names, LaneOK
  <2>2. CASE Bound(s, t)
    BY <2>1, <2>2, <1>2, <1>3, <1>4, <1>5, ZenonT(60)
  <2>3. CASE ~Bound(s, t)
    <3>1. ~Live(p)
      BY <1>1, <2>3, <1>9, LiveIsBound
    <3> QED BY <2>1, <2>3, <3>1, <1>4, <1>5 DEF Marked
  <2> QED BY <2>2, <2>3
<1>10. Good(w)
  BY <1>1, <1>5, <1>6, <1>7, <1>8, <1>9, RetireGood, ZenonT(60)
<1>11. Abandoned(s) = IF p.abandoned THEN s ELSE w
  BY DEF Abandoned, w, restored
<1> QED BY <1>5, <1>10, <1>11

-----------------------------------------------------------------------------
(* Results *)

LEMMA NewNodeIs ==
    ASSUME NEW n \in Nat
    PROVE  NewNode(n) \in Nodes /\ NewNode(n).id = n /\ NewNode(n).mode = "snapshot"
BY DEF NewNode, Nodes, Modes

LEMMA CarriedIs ==
    ASSUME NEW s \in States, NEW t, NEW evicting, NEW x \in Dirs
    PROVE  /\ Carried(s, t, evicting, x) \in Nodes
           /\ Carried(s, t, evicting, x).id = s.node[x].id
           /\ Carried(s, t, evicting, x).mode = s.node[x].mode
           /\ Carried(s, t, evicting, x).rev = s.node[x].rev
<1> DEFINE n == [s.node[x] EXCEPT !.loaded = @ /\ x \notin evicting]
<1>1. s.node[x] \in Nodes
  BY DEF States
<1>2. n \in Nodes /\ n.id = s.node[x].id /\ n.mode = s.node[x].mode /\ n.rev = s.node[x].rev
  BY <1>1 DEF Nodes
<1> DEFINE later == n.catchUp \/ (/\ t.reason = "sum" /\ Inside(x, t.dir)
                                  /\ (n.loaded \/ n.listing))
<1>3. Carried(s, t, evicting, x) = [n EXCEPT !.catchUp = later]
  BY <1>2 DEF Carried, Nodes
<1>4. later \in BOOLEAN
  OBVIOUS
<1> HIDE DEF n, later
<1> QED BY <1>2, <1>3, <1>4 DEF Nodes

\* An id is left for a new row: a node and two requests use at most three.
LEMMA FreshIs ==
    ASSUME NEW s \in States, NEW d \in Dirs
    PROVE  /\ FreshId(s, d) \in Nat \ {0} /\ FreshId(s, d) # s.node[d].id
           /\ \A l \in Lanes : s.lane[l].pending # None /\ s.lane[l].pending.task.dir = d
                               => s.lane[l].pending.task.id # FreshId(s, d)
<1> DEFINE Free4(n) == /\ n # s.node[d].id
                       /\ \A l \in Lanes : LET p == s.lane[l].pending
                                           IN  p # None /\ p.task.dir = d => p.task.id # n
<1>1. \E n \in 1 .. 4 : Free4(n)
  <2>1. PICK n \in 1 .. 4 : /\ n # s.node[d].id
                            /\ n # s.lane["scan"].pending.task.id
                            /\ n # s.lane["listing"].pending.task.id
    <3> DEFINE a == s.node[d].id
               b == s.lane["scan"].pending.task.id
               c == s.lane["listing"].pending.task.id
    <3> HIDE DEF a, b, c
    <3>1. \E n \in 1 .. 4 : n # a /\ n # b /\ n # c
      OBVIOUS
    <3> QED BY <3>1 DEF a, b, c
  <2>2. Free4(n)
    BY <2>1 DEF Lanes
  <2> QED BY <2>2
<1>2. FreshId(s, d) = CHOOSE n \in 1 .. 4 : Free4(n)
  BY DEF FreshId
<1>3. FreshId(s, d) \in 1 .. 4 /\ Free4(FreshId(s, d))
  BY <1>1, <1>2
<1> QED BY <1>3

\* v is s after an answer for the node of t was applied: the other nodes are discarded, new
\* ones or what they were, and the levels left of the path are not emptied.
AppliedTo(s, t, v) ==
    /\ v \in States /\ v.lane = s.lane
    /\ v.node[t.dir].id = s.node[t.dir].id
    /\ v.node[t.dir].mode = "refreshed"
    /\ \A x \in Dirs \ {t.dir} :
          \/ v.node[x].id = 0 /\ v.node[x].mode = "snapshot"
          \/ v.node[x].id = FreshId(s, x) /\ v.node[x].mode = "snapshot"
          \/ /\ v.node[x].id = s.node[x].id /\ v.node[x].mode = s.node[x].mode
             /\ v.node[x].rev = s.node[x].rev
    /\ \A i \in DOMAIN v.path :
          /\ i \in DOMAIN s.path /\ v.path[i] = s.path[i]
          /\ \/ v.node[v.path[i]].id = s.node[v.path[i]].id
             \/ v.node[v.path[i]].id = FreshId(s, v.path[i])

LEMMA ApplyIs ==
    ASSUME NEW s \in States, NEW p \in Pendings, NEW r \in Results, NEW evicting,
           NEW v, v = Apply(s, p, r, evicting)
    PROVE  AppliedTo(s, p.task, v)
<1> DEFINE t == p.task
           replaced == Replaced(s, t, r.rows)
           gone == replaced \cup {x \in Dirs : \E e \in evicting : Inside(x, e)}
           target == [s.node[t.dir] EXCEPT
                         !.mode = "refreshed", !.loaded = TRUE, !.listing = FALSE,
                         !.observed = r.observed, !.from = r.from,
                         !.catchUp = @ /\ ~p.sizeRefresh /\ ~r.observed]
           nodes == [x \in Dirs |->
                IF x = t.dir THEN target
                ELSE IF x \in r.rows \cap replaced THEN NewNode(FreshId(s, x))
                ELSE IF x \in gone THEN NewNode(0)
                ELSE Carried(s, t, evicting, x)]
<1>1. t \in Tasks /\ t.dir \in Dirs /\ s.node[t.dir] \in Nodes /\ s.path \in Seq(Dirs)
  <2>1. t \in Tasks
    BY DEF Pendings
  <2> QED BY <2>1 DEF States, Tasks
<1>2. target \in Nodes /\ target.id = s.node[t.dir].id /\ target.mode = "refreshed"
  <2>1. (s.node[t.dir].catchUp /\ ~p.sizeRefresh /\ ~r.observed) \in BOOLEAN
        /\ r.observed \in BOOLEAN /\ r.from \in Nat
    BY DEF Results
  <2> QED BY <1>1, <2>1 DEF Nodes, Modes
<1>3. v = [s EXCEPT !.node = nodes, !.path = Levels(s.path, gone)]
  BY DEF Apply, States
<1> HIDE DEF target, gone, replaced
<1>4. \A x \in Dirs : nodes[x] \in Nodes
  <2> TAKE x \in Dirs
  <2>1. NewNode(FreshId(s, x)) \in Nodes /\ NewNode(0) \in Nodes /\ Carried(s, t, evicting, x) \in Nodes
    BY FreshIs, NewNodeIs, CarriedIs
  <2> QED BY <1>2, <2>1
<1>5. Levels(s.path, gone) \in Seq(Dirs)
  BY <1>1, LevelsStay
<1>6. v.node = nodes /\ v.path = Levels(s.path, gone) /\ v.lane = s.lane
  BY <1>3 DEF States
<1>7. v \in States
  BY <1>3, <1>4, <1>5, ZenonT(60) DEF States
<1>8. nodes[t.dir] = target
  BY <1>1
<1>9. ASSUME NEW x \in Dirs \ {t.dir}
      PROVE  \/ nodes[x].id = 0 /\ nodes[x].mode = "snapshot" /\ x \in gone
             \/ nodes[x].id = FreshId(s, x) /\ nodes[x].mode = "snapshot"
             \/ /\ nodes[x].id = s.node[x].id /\ nodes[x].mode = s.node[x].mode
                /\ nodes[x].rev = s.node[x].rev
  <2>1. CASE x \in r.rows \cap replaced
    BY <2>1, FreshIs, NewNodeIs
  <2>2. CASE x \notin r.rows \cap replaced /\ x \in gone
    BY <2>2, NewNodeIs
  <2>3. CASE x \notin r.rows \cap replaced /\ x \notin gone
    BY <2>3, CarriedIs
  <2> QED BY <2>1, <2>2, <2>3
<1>10. ASSUME NEW i \in DOMAIN v.path
       PROVE  /\ i \in DOMAIN s.path /\ v.path[i] = s.path[i]
              /\ \/ v.node[v.path[i]].id = s.node[v.path[i]].id
                 \/ v.node[v.path[i]].id = FreshId(s, v.path[i])
  <2>1. i \in DOMAIN s.path /\ v.path[i] = s.path[i] /\ v.path[i] \notin gone
    BY <1>1, <1>6, LevelsStay
  <2>2. v.path[i] \in Dirs
    BY <1>1, <2>1
  <2> HIDE DEF nodes
  <2> QED BY <2>1, <2>2, <1>2, <1>6, <1>8, <1>9
<1> HIDE DEF nodes
<1>11. v.node[t.dir].id = s.node[t.dir].id /\ v.node[t.dir].mode = "refreshed"
  BY <1>2, <1>6, <1>8
<1>12. \A x \in Dirs \ {t.dir} :
          \/ v.node[x].id = 0 /\ v.node[x].mode = "snapshot"
          \/ v.node[x].id = FreshId(s, x) /\ v.node[x].mode = "snapshot"
          \/ /\ v.node[x].id = s.node[x].id /\ v.node[x].mode = s.node[x].mode
             /\ v.node[x].rev = s.node[x].rev
  BY <1>6, <1>9
<1> QED BY <1>6, <1>7, <1>10, <1>11, <1>12, ZenonT(60) DEF AppliedTo

LEMMA ApplyGood ==
    ASSUME NEW s, Good(s), NEW l \in Lanes, s.lane[l].pending # None, s.lane[l].completion # None,
           Bound(s, s.lane[l].pending.task), NEW r \in Results, NEW evicting
    PROVE  Good(Apply(Taken(s, l), s.lane[l].pending, r, evicting))
<1> DEFINE p == s.lane[l].pending
           t == p.task
           u == Taken(s, l)
           v == Apply(u, p, r, evicting)
<1>1. s \in States /\ p \in Pendings /\ t \in Tasks /\ t.dir \in Dirs
  BY RequestTypes DEF Good
<1>2. Names(s, l, t.dir)
  BY BoundIsNamed
<1>3. /\ u \in States /\ u.node = s.node /\ u.path = s.path
      /\ u.lane = [s.lane EXCEPT ![l] = [@ EXCEPT !.pending = None, !.completion = None]]
  BY <1>1, TakenIs, ZenonT(60)
<1>20. v = Apply(u, p, r, evicting)
  OBVIOUS
<1> HIDE DEF u, v
<1>4. /\ u.lane[l].pending = None
      /\ \A m \in Lanes \ {l} : u.lane[m] = s.lane[m]
      /\ \A m \in Lanes : LaneOK(u.lane[m]) /\ u.lane[m].worker = s.lane[m].worker
  <2>1. s.lane \in [Lanes -> LaneRecords]
    BY <1>1 DEF States
  <2>2. u.lane[l].pending = None /\ \A m \in Lanes \ {l} : u.lane[m] = s.lane[m]
    BY <2>1, <1>3 DEF LaneRecords
  <2>3. LaneOK(s.lane[l])
    BY DEF Good
  <2>4. s.lane[l].request = None /\ s.lane[l].job = None
    BY <2>3 DEF LaneOK
  <2>5. /\ u.lane[l].request = None /\ u.lane[l].job = None /\ u.lane[l].completion = None
        /\ u.lane[l].worker = s.lane[l].worker
    BY <1>3, <2>1, <2>4 DEF LaneRecords
  <2>6. LaneOK(u.lane[l])
    BY <2>2, <2>3, <2>4, <2>5 DEF LaneOK, Live
  <2> QED BY <2>2, <2>5, <2>6 DEF Good
<1>5. AppliedTo(u, t, v)
  <2>1. u \in States /\ p \in Pendings /\ r \in Results
    BY <1>1, <1>3
  <2> HIDE DEF p
  <2> QED BY <1>20, <2>1, ApplyIs, ZenonT(60)
<1>5a. v \in States /\ v.lane = u.lane /\ v.node[t.dir].id = u.node[t.dir].id /\ v.node[t.dir].mode = "refreshed"
  BY <1>5 DEF AppliedTo
<1>5b. ASSUME NEW x \in Dirs \ {t.dir}
       PROVE  \/ v.node[x].id = 0 /\ v.node[x].mode = "snapshot"
              \/ v.node[x].id = FreshId(u, x) /\ v.node[x].mode = "snapshot"
              \/ /\ v.node[x].id = s.node[x].id /\ v.node[x].mode = s.node[x].mode
                 /\ v.node[x].rev = s.node[x].rev
  BY <1>5, <1>3, ZenonT(60) DEF AppliedTo
<1>5c. ASSUME NEW i \in DOMAIN v.path
       PROVE  /\ i \in DOMAIN s.path /\ v.path[i] = s.path[i]
              /\ \/ v.node[v.path[i]].id = s.node[v.path[i]].id
                 \/ v.node[v.path[i]].id = FreshId(u, v.path[i])
  BY <1>5, <1>3, ZenonT(60) DEF AppliedTo
<1>6. ASSUME NEW m \in Lanes, NEW d \in Dirs, Names(v, m, d)
      PROVE  /\ m # l /\ Names(s, m, d) /\ v.lane[m].pending = s.lane[m].pending
             /\ v.node[d].mode = s.node[d].mode /\ v.node[d].rev = s.node[d].rev
  <2>1. m # l /\ v.lane[m] = s.lane[m] /\ u.lane[m] = s.lane[m]
    BY <1>4, <1>5a, <1>6 DEF Names
  <2>2. /\ s.lane[m].pending # None /\ s.lane[m].pending.task.dir = d
        /\ s.lane[m].pending.task.id = v.node[d].id
    BY <1>6, <2>1 DEF Names
  <2>3. s.lane[m].pending.task.id # 0
    BY <2>2, RequestTypes DEF Tasks
  <2>4. d # t.dir
    <3>1. SUFFICES ASSUME d = t.dir PROVE FALSE
      BY SMTT(40)
    <3>2. Names(s, m, d)
      BY <3>1, <2>2, <1>5a, <1>3, ZenonT(60) DEF Names
    <3> QED BY <3>1, <3>2, <1>2, <2>1 DEF Good, Lanes
  <2>5. s.lane[m].pending.task.id # FreshId(u, d)
    <3>1. \A k \in Lanes : u.lane[k].pending # None /\ u.lane[k].pending.task.dir = d
                          => u.lane[k].pending.task.id # FreshId(u, d)
      BY <1>3, FreshIs
    <3>2. u.lane[m].pending = s.lane[m].pending
      BY <2>1
    <3> QED BY <2>2, <3>1, <3>2
  <2>6. /\ v.node[d].id = s.node[d].id /\ v.node[d].mode = s.node[d].mode
        /\ v.node[d].rev = s.node[d].rev
    BY <2>2, <2>3, <2>4, <2>5, <1>5b, ZenonT(60)
  <2> QED BY <2>1, <2>2, <2>6 DEF Names
<1>7. ASSUME NEW m \in Lanes, NEW d \in Dirs, Names(v, m, d)
      PROVE  Marked(v.node[d], v.lane[m].pending)
  <2>1. Marked(s.node[d], s.lane[m].pending)
    BY <1>6, <1>7 DEF Good
  <2> QED BY <2>1, <1>6, <1>7 DEF Marked
<1>8. \A d \in Dirs : ~(Names(v, "scan", d) /\ Names(v, "listing", d))
  BY <1>6 DEF Good, Lanes
<1>9. ASSUME NEW d \in Dirs, v.node[d].mode = "pending"
      PROVE  \E m \in Lanes : Names(v, m, d) /\ Live(v.lane[m].pending)
  <2>1. d # t.dir /\ v.node[d].id = s.node[d].id /\ s.node[d].mode = "pending"
    <3>1. d # t.dir
      BY <1>9, <1>5a
    <3> QED BY <3>1, <1>9, <1>5b, ZenonT(60)
  <2>2. PICK m \in Lanes : Names(s, m, d) /\ Live(s.lane[m].pending)
    BY <2>1, SMTT(40) DEF Good
  <2>3. m # l /\ v.lane[m] = s.lane[m]
    BY <2>1, <2>2, <1>4, <1>5a, ZenonT(60) DEF Names
  <2> QED BY <2>1, <2>2, <2>3, ZenonT(60) DEF Names
<1>10. ScanOK(v.lane["scan"])
  <2>1. "scan" \in Lanes /\ ScanOK(s.lane["scan"])
    BY SMTT(40) DEF Good, Lanes
  <2>2. v.lane["scan"].worker = s.lane["scan"].worker
        /\ (v.lane["scan"].pending = None \/ v.lane["scan"] = s.lane["scan"])
    BY <2>1, <1>4, <1>5a, ZenonT(60)
  <2> QED BY <2>1, <2>2, ZenonT(60) DEF ScanOK
<1>11. ASSUME NEW i \in DOMAIN v.path PROVE Present(v, v.path[i])
  <2>1. i \in DOMAIN s.path /\ v.path[i] = s.path[i]
    BY <1>5c
  <2>2. v.path[i] \in Dirs /\ s.node[v.path[i]].id # 0
    BY <2>1, <1>1 DEF Good, Present, States
  <2>3. FreshId(u, v.path[i]) # 0
    BY <2>2, <1>3, FreshIs, SMTT(40)
  <2> QED BY <2>2, <2>3, <1>5c, ZenonT(60) DEF Present
<1>12. Good(v)
  BY <1>4, <1>5a, <1>7, <1>8, <1>9, <1>10, <1>11 DEF Good
<1> QED BY <1>12 DEF v, u

\* complete_or_expire of a lane.
LEMMA PollLaneGood ==
    ASSUME NEW s, Good(s), NEW l \in Lanes, NEW room \in Rooms
    PROVE  Good(PollLane(s, l, room))
<1> DEFINE p == s.lane[l].pending
           c == s.lane[l].completion
           u == Taken(s, l)
<1>1. CASE p = None
  BY <1>1 DEF PollLane
<1>2. CASE p # None /\ c # None
  <2>1. Good(Fail(u, p.task)) /\ (~Live(p) => Good(u))
    BY <1>2, DropGood
  <2>2. CASE p.timedOut \/ p.abandoned
    <3>1. PollLane(s, l, room) = u
      BY <1>2, <2>2 DEF PollLane, Taken
    <3> QED BY <2>1, <2>2, <3>1 DEF Live
  <2>3. CASE ~(p.timedOut \/ p.abandoned) /\ (c.late \/ c.task # p.task)
    <3>1. PollLane(s, l, room) = Fail(u, p.task)
      BY <1>2, <2>3 DEF PollLane, Taken
    <3> QED BY <2>1, <3>1
  <2>4. CASE ~(p.timedOut \/ p.abandoned) /\ ~(c.late \/ c.task # p.task)
    <3>1. PollLane(s, l, room) = Finished(u, p, c.result, room)
      BY <1>2, <2>4 DEF PollLane, Taken
    <3>2. s \in States
      BY SMTT(40) DEF Good
    <3>3. Bound(u, p.task) <=> Bound(s, p.task)
      BY <3>2, TakenIs, ZenonT(60) DEF Bound
    <3>4. CASE ~Bound(s, p.task)
      <4>1. Fail(u, p.task) = u /\ Finished(u, p, c.result, room) = u
        <5> HIDE DEF u
        <5> QED BY <3>3, <3>4 DEF Fail, Finished
      <4> QED BY <2>1, <3>1, <4>1
    <3>5. CASE Bound(s, p.task)
      <4>1. \/ Finished(u, p, c.result, room) = Fail(u, p.task)
            \/ /\ c.result # None
               /\ \E evicting \in SUBSET Dirs :
                     Finished(u, p, c.result, room) = Apply(u, p, c.result, evicting)
        <5> HIDE DEF u
        <5> DEFINE evicting == IF room = "crowded" THEN Evicting(u, p.task, c.result.rows) ELSE {}
        <5>1. evicting \in SUBSET Dirs
          BY DEF Evicting
        <5>2. \/ Finished(u, p, c.result, room) = Fail(u, p.task)
              \/ /\ c.result # None
                 /\ Finished(u, p, c.result, room) = Apply(u, p, c.result, evicting)
          BY <3>3, <3>5 DEF Finished
        <5> HIDE DEF evicting
        <5> QED BY <5>1, <5>2
      <4>2. c \in Completions
        BY <3>2, <1>2 DEF States, LaneRecords
      <4>3. c.result # None => c.result \in Results
        BY <4>2 DEF Completions
      <4>4. CASE Finished(u, p, c.result, room) = Fail(u, p.task)
        BY <4>4, <2>1, <3>1
      <4>5. CASE c.result # None /\ \E evicting \in SUBSET Dirs :
                     Finished(u, p, c.result, room) = Apply(u, p, c.result, evicting)
        <5>1. PICK evicting \in SUBSET Dirs :
                     Finished(u, p, c.result, room) = Apply(u, p, c.result, evicting)
          BY <4>5
        <5>2. Good(Apply(u, p, c.result, evicting))
          BY <4>3, <4>5, <3>5, <1>2, ApplyGood, Zenon
        <5> QED BY <5>1, <5>2, <3>1
      <4> QED BY <4>1, <4>4, <4>5
    <3> QED BY <3>4, <3>5
  <2> QED BY <2>2, <2>3, <2>4
<1>3. CASE p # None /\ c = None /\ s.lane[l].worker = "dead"
  <2>1. Good(Fail(u, p.task)) /\ (~Live(p) => Good(u))
    BY <1>3, DropGood
  <2>2. PollLane(s, l, room) = IF p.timedOut THEN u ELSE Fail(u, p.task)
    BY <1>3 DEF PollLane, Taken
  <2> QED BY <2>1, <2>2 DEF Live
<1>4. CASE p # None /\ c = None /\ s.lane[l].worker # "dead" /\ Overdue(p)
  <2> DEFINE w == [Fail(s, p.task) EXCEPT !.lane[l].pending.timedOut = TRUE, !.lane[l].cancelled = TRUE]
  <2>1. ~p.timedOut
    BY <1>4 DEF Overdue
  <2>2. Good(w)
    BY <1>4, <2>1, ExpireGood, Zenon
  <2>3. PollLane(s, l, room) = w
    BY <1>4 DEF PollLane
  <2> HIDE DEF w
  <2> QED BY <2>2, <2>3
<1>5. CASE p # None /\ c = None /\ s.lane[l].worker # "dead" /\ ~Overdue(p)
  BY <1>5 DEF PollLane
<1> QED BY <1>1, <1>2, <1>3, <1>4, <1>5

-----------------------------------------------------------------------------
(* New requests *)

\* The node of a directory no request names gets a mode that is not pending.
LEMMA SettleGood ==
    ASSUME NEW s, Good(s), NEW d \in Dirs, \A m \in Lanes : ~Names(s, m, d),
           NEW v \in States, v.path = s.path, NEW n \in Nodes, n.mode # "pending", n.id = s.node[d].id,
           v.node = [s.node EXCEPT ![d] = n],
           \A m \in Lanes : v.lane[m].pending = s.lane[m].pending,
           \A m \in Lanes : LaneOK(v.lane[m]), v.lane["scan"].worker # "absent"
    PROVE  Good(v)
<1>1. s \in States /\ s.node \in [Dirs -> Nodes]
  BY DEF Good, States
<1>2. \A x \in Dirs : v.node[x].id = s.node[x].id
  BY <1>1
<1>3. \A m \in Lanes, x \in Dirs : Names(v, m, x) <=> Names(s, m, x)
  BY <1>2 DEF Names
<1>4. \A m \in Lanes, x \in Dirs : Names(v, m, x) => Marked(v.node[x], v.lane[m].pending)
  <2> TAKE m \in Lanes, x \in Dirs
  <2> HAVE Names(v, m, x)
  <2>1. x # d /\ Names(s, m, x)
    BY <1>3
  <2>2. v.node[x] = s.node[x]
    BY <1>1, <2>1
  <2> QED BY <2>1, <2>2 DEF Good
<1>5. \A x \in Dirs : ~(Names(v, "scan", x) /\ Names(v, "listing", x))
  BY <1>3 DEF Good, Lanes
<1>6. ASSUME NEW x \in Dirs, v.node[x].mode = "pending"
      PROVE  \E m \in Lanes : Names(v, m, x) /\ Live(v.lane[m].pending)
  <2>1. s.node[x].mode = "pending"
    BY <1>6, <1>1
  <2>2. PICK m \in Lanes : Names(s, m, x) /\ Live(s.lane[m].pending)
    BY <2>1 DEF Good
  <2> QED BY <2>2, <1>3
<1>7. ScanOK(v.lane["scan"])
  BY DEF Good, Lanes, ScanOK
<1>8. \A i \in DOMAIN v.path : Present(v, v.path[i])
  <2>1. \A i \in DOMAIN s.path : s.path[i] \in Dirs
    BY <1>1 DEF States
  <2> QED BY <2>1, <1>2 DEF Good, Present
<1> QED BY <1>4, <1>5, <1>6, <1>7, <1>8 DEF Good

LEMMA AskGood ==
    ASSUME NEW s, Good(s), NEW l \in Lanes, NEW d \in Dirs, NEW reason \in Reasons, NEW g \in Nat,
           Free(s, l), Present(s, d), \A m \in Lanes : ~Names(s, m, d), s.lane[l].worker # "absent"
    PROVE  Good(Ask(s, l, d, reason, g)) /\ Ask(s, l, d, reason, g).path = s.path
<1> DEFINE n == s.node[d]
           t == [dir |-> d, id |-> n.id, rev |-> n.rev + 1, reason |-> reason, gen |-> g]
           p == [task |-> t, mode |-> n.mode, rev |-> n.rev, sizeRefresh |-> reason = "list" /\ n.catchUp,
                 late |-> FALSE, timedOut |-> FALSE, abandoned |-> FALSE]
           n1 == [n EXCEPT !.mode = "pending", !.rev = @ + 1, !.listing = reason # "sum"]
           s1 == [s EXCEPT !.node[d].mode = "pending", !.node[d].rev = @ + 1,
                           !.node[d].listing = reason # "sum"]
           s2 == [s1 EXCEPT !.lane[l].cancelled = FALSE]
           s3 == [s2 EXCEPT !.lane[l].request = p.task, !.lane[l].pending = p]
           v == Ask(s, l, d, reason, g)
<1>1. /\ s \in States /\ s.node \in [Dirs -> Nodes] /\ n \in Nodes
      /\ s.lane \in [Lanes -> LaneRecords] /\ s.lane[l] \in LaneRecords /\ n.id # 0
  BY DEF Good, States, Present
<1>2. n1 \in Nodes /\ n1.id = n.id /\ n1.mode = "pending" /\ n1.rev = n.rev + 1
  <2>1. (reason # "sum") \in BOOLEAN /\ n.rev \in Nat /\ n.rev + 1 \in Nat
    BY <1>1 DEF Nodes
  <2> QED BY <1>1, <2>1 DEF Nodes, Modes
<1>3. t \in Tasks /\ t.dir = d /\ t.id = n.id /\ t.rev = n.rev + 1
  BY <1>1 DEF Tasks, Nodes
<1>4. p \in Pendings /\ p.task = t /\ p.mode = n.mode /\ Live(p) /\ p # None /\ p.abandoned = FALSE
  <2>1. (reason = "list" /\ n.catchUp) \in BOOLEAN
    OBVIOUS
  <2>2. p \in Pendings
    <3> HIDE DEF t
    <3> QED BY <1>1, <1>3, <2>1 DEF Pendings, Nodes
  <2> QED BY <2>2, NoneAssumption DEF Live
<1>5. v = IF s2.lane[l].request = None /\ s2.lane[l].worker # "dead" THEN s3 ELSE Fail(s2, t)
  <2>1. p.task = t
    BY <1>4
  <2>2. s2.lane[l].request = s1.lane[l].request /\ s2.lane[l].worker = s1.lane[l].worker
    BY <1>1 DEF States, LaneRecords
  <2> QED BY <2>1, <2>2 DEF Ask, Submit
<1>6. s1.node = [s.node EXCEPT ![d] = n1] /\ s1.path = s.path /\ s1.lane = s.lane
      /\ s1 = [s EXCEPT !.node = [s.node EXCEPT ![d] = n1]]
  BY <1>1, ZenonT(60) DEF States, Nodes
<1>7. s1 \in States
  <2>1. [s.node EXCEPT ![d] = n1] \in [Dirs -> Nodes]
    BY <1>1, <1>2
  <2> QED BY <1>1, <1>6, <2>1 DEF States
<1> HIDE DEF s1, p, t, n1
<1> DEFINE free == [s.lane[l] EXCEPT !.cancelled = FALSE]
           asked == [s.lane[l] EXCEPT !.cancelled = FALSE, !.request = t, !.pending = p]
<1>8. free \in LaneRecords /\ asked \in LaneRecords
  BY <1>1, <1>3, <1>4 DEF LaneRecords
<1>9. /\ s2.node = s1.node /\ s2.path = s.path /\ s2.lane = [s.lane EXCEPT ![l] = free]
      /\ s2 = [s1 EXCEPT !.lane = [s.lane EXCEPT ![l] = free]]
  BY <1>1, <1>6, <1>7 DEF States, LaneRecords
<1>10. s2 \in States
  <2>1. [s.lane EXCEPT ![l] = free] \in [Lanes -> LaneRecords]
    BY <1>1, <1>8
  <2> HIDE DEF free, s2
  <2> QED BY <1>7, <1>9, <2>1 DEF States
<1>11. /\ s3.node = s1.node /\ s3.path = s.path /\ s3.lane = [s.lane EXCEPT ![l] = asked]
       /\ s3 = [s1 EXCEPT !.lane = [s.lane EXCEPT ![l] = asked]]
  <2>1. asked = [free EXCEPT !.request = t, !.pending = p]
    BY <1>1 DEF LaneRecords
  <2>2. s2.lane[l] = free
    BY <1>1, <1>9
  <2>3. s3.node = s2.node /\ s3.path = s2.path
        /\ s3.lane = [s2.lane EXCEPT ![l] = [free EXCEPT !.request = t, !.pending = p]]
        /\ s3 = [s2 EXCEPT !.lane = [s2.lane EXCEPT ![l] = [free EXCEPT !.request = t, !.pending = p]]]
    <3>1. s3 = [s2 EXCEPT !.lane[l].request = t, !.lane[l].pending = p]
      BY <1>4
    <3> HIDE DEF s2, s3, free
    <3>2. free = s2.lane[l] /\ s2.lane \in [Lanes -> LaneRecords]
      BY <1>10, <2>2 DEF States
    <3>3. s3.node = s2.node /\ s3.path = s2.path
      BY <3>1, <1>10 DEF States
    <3>4. s3.lane = [s2.lane EXCEPT ![l].request = t, ![l].pending = p]
      BY <3>1, <1>10 DEF States
    <3>5. [s2.lane EXCEPT ![l].request = t, ![l].pending = p]
             = [s2.lane EXCEPT ![l] = [free EXCEPT !.request = t, !.pending = p]]
      BY <3>2, <1>8 DEF LaneRecords
    <3>6. s3 = [s2 EXCEPT !.lane = [s2.lane EXCEPT ![l].request = t, ![l].pending = p]]
      BY <3>1, <1>10 DEF States
    <3> QED BY <3>3, <3>4, <3>5, <3>6
  <2>4. [s2.lane EXCEPT ![l] = asked] = [s.lane EXCEPT ![l] = asked]
    BY <1>1, <1>9
  <2> HIDE DEF asked, free, s3
  <2>5. s3 = [s1 EXCEPT !.lane = [s.lane EXCEPT ![l] = asked]]
    BY <2>1, <2>3, <2>4, <1>7, <1>9 DEF States
  <2> HIDE DEF s2
  <2> QED BY <2>1, <2>3, <2>4, <2>5, <1>9
<1>12. s3 \in States
  <2>1. [s.lane EXCEPT ![l] = asked] \in [Lanes -> LaneRecords]
    BY <1>1, <1>8
  <2> HIDE DEF asked, s3
  <2> QED BY <1>7, <1>11, <2>1 DEF States
<1> HIDE DEF s2, s3, v
<1>13. LaneOK(s.lane[l]) /\ s.lane[l].pending = None
  BY DEF Good, Free
<1>14. s.lane[l].request = None /\ s.lane[l].job = None /\ s.lane[l].completion = None
  BY <1>13 DEF LaneOK
<1>15. CASE v = Fail(s2, t)
  <2>1. /\ free.pending = None /\ free.request = None /\ free.job = None
        /\ free.completion = None /\ free.worker = s.lane[l].worker
    BY <1>1, <1>13, <1>14 DEF LaneRecords
  <2>2. LaneOK(free)
    BY <2>1, <1>13, <1>14 DEF LaneOK, Live
  <2> HIDE DEF free
  <2>3. Bound(s2, t)
    BY <1>1, <1>2, <1>3, <1>6, <1>9 DEF Bound
  <2> DEFINE n2 == [n1 EXCEPT !.mode = "stale"]
  <2>4. n2 \in Nodes /\ n2.id = n.id /\ n2.mode = "stale"
    BY <1>2 DEF Nodes, Modes
  <2>5. v \in States /\ v.path = s.path /\ v.lane = s2.lane
        /\ v.node = [s2.node EXCEPT ![d] = [@ EXCEPT !.mode = "stale"]]
    <3>1. v \in States /\ v.path = s2.path /\ v.lane = s2.lane
          /\ v.node = [s2.node EXCEPT ![t.dir] = [@ EXCEPT !.mode = "stale"]]
      BY <1>3, <1>10, <1>15, <2>3, FailIs
    <3> QED BY <3>1, <1>3, <1>9
  <2>6. v.node = [s.node EXCEPT ![d] = n2]
    BY <2>5, <1>1, <1>6, <1>9
  <2>7. \A m \in Lanes : v.lane[m].pending = s.lane[m].pending /\ LaneOK(v.lane[m])
    BY <2>1, <2>2, <2>5, <1>1, <1>9, <1>13 DEF Good
  <2> HIDE DEF n2
  <2>8. v.lane["scan"].worker # "absent"
    <3>1. "scan" \in Lanes /\ s.lane["scan"].worker # "absent"
      BY DEF Good, Lanes, ScanOK
    <3> QED BY <3>1, <2>1, <2>5, <1>1, <1>9
  <2>9. Good(v)
    BY <2>4, <2>5, <2>6, <2>7, <2>8, SettleGood
  <2> QED BY <2>5, <2>9 DEF v
<1>16. CASE v = s3 /\ s.lane[l].worker # "dead"
  <2>1. /\ asked.pending = p /\ asked.request = t /\ asked.job = None /\ asked.cancelled = FALSE
        /\ asked.completion = None /\ asked.worker = s.lane[l].worker
    BY <1>1, <1>14 DEF LaneRecords
  <2> HIDE DEF asked
  <2>2. n.mode # "pending"
    BY DEF Good
  <2>3. LaneOK(asked)
    BY <2>1, <2>2, <1>3, <1>4, <1>13, <1>14, <1>16, NoneAssumption DEF LaneOK
  <2>4. /\ v.lane[l] = asked
        /\ \A m \in Lanes \ {l} : v.lane[m] = s.lane[m]
        /\ \A m \in Lanes : LaneOK(v.lane[m])
    BY <2>3, <1>1, <1>11, <1>16 DEF Good
  <2>5. /\ v.node[d] = n1
        /\ \A x \in Dirs \ {d} : v.node[x] = s.node[x]
        /\ \A x \in Dirs : v.node[x].id = s.node[x].id
    BY <1>1, <1>2, <1>6, <1>11, <1>16
  <2>6. \A x \in Dirs : Names(v, l, x) <=> x = d
    BY <2>1, <2>4, <2>5, <1>3, <1>4 DEF Names
  <2>7. \A m \in Lanes \ {l}, x \in Dirs : Names(v, m, x) <=> Names(s, m, x) /\ x # d
    BY <2>4, <2>5 DEF Names
  <2>8. ASSUME NEW m \in Lanes, NEW x \in Dirs, Names(v, m, x)
        PROVE  Marked(v.node[x], v.lane[m].pending)
    <3>1. CASE m = l
      BY <3>1, <2>1, <2>4, <2>5, <2>6, <2>8, <1>2, <1>3, <1>4 DEF Marked
    <3>2. CASE m # l
      <4>1. Names(s, m, x) /\ x # d
        BY <3>2, <2>7, <2>8
      <4> QED BY <4>1, <3>2, <2>4, <2>5 DEF Good
    <3> QED BY <3>1, <3>2
  <2>9. \A x \in Dirs : ~(Names(v, "scan", x) /\ Names(v, "listing", x))
    BY <2>6, <2>7 DEF Good, Lanes
  <2>10. ASSUME NEW x \in Dirs, v.node[x].mode = "pending"
         PROVE  \E m \in Lanes : Names(v, m, x) /\ Live(v.lane[m].pending)
    <3>1. CASE x = d
      BY <3>1, <2>1, <2>4, <2>6, <1>4
    <3>2. CASE x # d
      <4>1. PICK m \in Lanes : Names(s, m, x) /\ Live(s.lane[m].pending)
        BY <3>2, <2>5, <2>10 DEF Good
      <4>2. m # l
        BY <4>1, <1>13 DEF Names
      <4> QED BY <4>1, <4>2, <3>2, <2>4, <2>7
    <3> QED BY <3>1, <3>2
  <2>11. ScanOK(v.lane["scan"])
    <3>1. "scan" \in Lanes /\ ScanOK(s.lane["scan"])
      BY DEF Good, Lanes
    <3> QED BY <3>1, <2>1, <2>4, <1>4 DEF ScanOK
  <2>12. v.path = s.path /\ \A i \in DOMAIN v.path : Present(v, v.path[i])
    <3>1. \A i \in DOMAIN s.path : s.path[i] \in Dirs
      BY <1>1 DEF States
    <3> QED BY <3>1, <2>5, <1>11, <1>16 DEF Good, Present
  <2>13. Good(v)
    BY <2>4, <2>8, <2>9, <2>10, <2>11, <2>12, <1>12, <1>16 DEF Good
  <2> QED BY <2>12, <2>13 DEF v
<1>17. s2.lane[l].worker = s.lane[l].worker
  BY <1>1, <1>9 DEF LaneRecords
<1> QED BY <1>5, <1>15, <1>16, <1>17

\* A request for a directory no other names: nothing is asked twice.
LEMMA NobodyNames ==
    ASSUME NEW s, Good(s), NEW d \in Dirs, MayAsk(s.node[d]), Free(s, "listing")
    PROVE  \A m \in Lanes : ~Names(s, m, d)
<1>1. ~Names(s, "listing", d)
  BY DEF Names, Free
<1>2. SUFFICES ASSUME Names(s, "scan", d) PROVE FALSE
  BY <1>1 DEF Lanes
<1>3. "scan" \in Lanes /\ ~s.lane["scan"].pending.abandoned
  BY <1>2 DEF Good, Names, Lanes, ScanOK
<1>4. Marked(s.node[d], s.lane["scan"].pending)
  BY <1>2, <1>3 DEF Good
<1> QED BY <1>3, <1>4 DEF Marked, MayAsk

LEMMA StartListingGood ==
    ASSUME NEW s, Good(s), NEW d \in Dirs, Free(s, "listing"), MayAsk(s.node[d]), Present(s, d),
           gen \in Nat
    PROVE  Good(StartListing(s, d)) /\ StartListing(s, d).path = s.path
<1>1. \A m \in Lanes : ~Names(s, m, d)
  BY NobodyNames
<1>2. /\ s \in States /\ s.node \in [Dirs -> Nodes] /\ s.node[d] \in Nodes
      /\ s.lane \in [Lanes -> LaneRecords] /\ "listing" \in Lanes /\ "list" \in Reasons
  BY DEF Good, States, Lanes, Reasons
<1>3. CASE s.lane["listing"].worker # "absent"
  <2>1. StartListing(s, d) = Ask(s, "listing", d, "list", gen)
    BY <1>3 DEF StartListing
  <2> QED BY <2>1, <1>1, <1>2, <1>3, AskGood
<1>4. CASE s.lane["listing"].worker = "absent" /\ permit
  <2> DEFINE u == [s EXCEPT !.lane["listing"].worker = "idle"]
             r == [s.lane["listing"] EXCEPT !.worker = "idle"]
  <2>1. StartListing(s, d) = Ask(u, "listing", d, "list", gen)
    BY <1>4 DEF StartListing
  <2>2. s.lane["listing"] \in LaneRecords
    BY <1>2
  <2>3. /\ r \in LaneRecords /\ r.worker = "idle" /\ r.pending = s.lane["listing"].pending
        /\ r.request = s.lane["listing"].request /\ r.job = s.lane["listing"].job
        /\ r.completion = s.lane["listing"].completion /\ r.cancelled = s.lane["listing"].cancelled
    BY <2>2 DEF LaneRecords
  <2>4. u.node = s.node /\ u.path = s.path /\ u.lane = [s.lane EXCEPT !["listing"] = r]
        /\ u = [s EXCEPT !.lane = [s.lane EXCEPT !["listing"] = r]]
    BY <1>2 DEF States, LaneRecords
  <2>5. u \in States
    <3>1. [s.lane EXCEPT !["listing"] = r] \in [Lanes -> LaneRecords]
      BY <1>2, <2>3
    <3> HIDE DEF u, r
    <3> QED BY <3>1, <2>4, <1>2 DEF States
  <2> HIDE DEF u, r
  <2>6. LaneOK(s.lane["listing"]) /\ s.lane["listing"].pending = None
    BY <1>2 DEF Good, Free
  <2>7. s.lane["listing"].request = None /\ s.lane["listing"].job = None
        /\ s.lane["listing"].completion = None
    BY <2>6 DEF LaneOK
  <2>8. LaneOK(r)
    BY <2>3, <2>6, <2>7 DEF LaneOK, Live
  <2>9. /\ u.lane["listing"] = r /\ \A m \in Lanes \ {"listing"} : u.lane[m] = s.lane[m]
        /\ \A m \in Lanes : LaneOK(u.lane[m]) /\ u.lane[m].pending = s.lane[m].pending
    BY <2>3, <2>4, <2>8, <1>2 DEF Good
  <2>10. \A m \in Lanes, x \in Dirs : Names(u, m, x) <=> Names(s, m, x)
    BY <2>4, <2>9 DEF Names
  <2>11. Good(u)
    <3>1. \A m \in Lanes, x \in Dirs : Names(u, m, x) => Marked(u.node[x], u.lane[m].pending)
      BY <2>4, <2>9, <2>10 DEF Good
    <3>2. \A x \in Dirs : ~(Names(u, "scan", x) /\ Names(u, "listing", x))
      BY <2>10 DEF Good, Lanes
    <3>3. \A x \in Dirs : u.node[x].mode = "pending" =>
             \E m \in Lanes : Names(u, m, x) /\ Live(u.lane[m].pending)
      <4> TAKE x \in Dirs
      <4> HAVE u.node[x].mode = "pending"
      <4>1. PICK m \in Lanes : Names(s, m, x) /\ Live(s.lane[m].pending)
        BY <2>4 DEF Good
      <4> QED BY <4>1, <2>9, <2>10
    <3>4. ScanOK(u.lane["scan"])
      BY <2>9 DEF Good, Lanes
    <3>5. \A i \in DOMAIN u.path : Present(u, u.path[i])
      BY <2>4 DEF Good, Present
    <3> QED BY <2>5, <2>9, <3>1, <3>2, <3>3, <3>4, <3>5 DEF Good
  <2>12. Free(u, "listing") /\ Present(u, d)
    <3>1. u.lane["listing"].pending = s.lane["listing"].pending /\ u.node = s.node
      BY <2>4, <2>9, <1>2
    <3> QED BY <3>1 DEF Free, Present
  <2>14. \A m \in Lanes : ~Names(u, m, d)
    BY <1>1, <2>10
  <2>13. u.lane["listing"].worker # "absent"
    BY <2>3, <2>9
  <2>15. Good(Ask(u, "listing", d, "list", gen)) /\ Ask(u, "listing", d, "list", gen).path = u.path
    BY <2>11, <2>12, <2>13, <2>14, <1>2, AskGood
  <2> QED BY <2>1, <2>4, <2>15
<1>5. CASE s.lane["listing"].worker = "absent" /\ ~permit
  <2> DEFINE v == [s EXCEPT !.node[d].mode = "stale", !.node[d].rev = @ + 1, !.node[d].listing = TRUE]
             n == [s.node[d] EXCEPT !.mode = "stale", !.rev = @ + 1, !.listing = TRUE]
  <2>1. StartListing(s, d) = v
    BY <1>5 DEF StartListing
  <2>2. n \in Nodes /\ n.id = s.node[d].id /\ n.mode # "pending"
    <3>1. s.node[d].rev \in Nat /\ s.node[d].rev + 1 \in Nat
      BY <1>2 DEF Nodes
    <3> QED BY <1>2, <3>1 DEF Nodes, Modes
  <2>3. v.node = [s.node EXCEPT ![d] = n] /\ v.path = s.path /\ v.lane = s.lane
        /\ v = [s EXCEPT !.node = [s.node EXCEPT ![d] = n]]
    BY <1>2, ZenonT(60) DEF States, Nodes
  <2>4. v \in States
    <3>1. [s.node EXCEPT ![d] = n] \in [Dirs -> Nodes]
      BY <1>2, <2>2
    <3> HIDE DEF v, n
    <3> QED BY <3>1, <2>3, <1>2 DEF States
  <2> HIDE DEF v, n
  <2>5. \A m \in Lanes : v.lane[m].pending = s.lane[m].pending /\ LaneOK(v.lane[m])
    BY <2>3 DEF Good
  <2>6. Good(v)
    <3>1. v.lane["scan"].worker # "absent"
      BY <2>3 DEF Good, ScanOK
    <3>2. /\ \A m \in Lanes : v.lane[m].pending = s.lane[m].pending
          /\ \A m \in Lanes : LaneOK(v.lane[m])
      BY <2>5
    <3>3. v.node = [s.node EXCEPT ![d] = n] /\ v.path = s.path
      BY <2>3
    <3> QED BY <3>1, <3>2, <3>3, <1>1, <2>2, <2>4, SettleGood, SMTT(60)
  <2> QED BY <2>1, <2>3, <2>6
<1> QED BY <1>3, <1>4, <1>5

\* schedule_current_directory
LEMMA ScheduleGood ==
    ASSUME NEW s, Good(s), gen \in Nat
    PROVE  Good(Schedule(s))
<1>1. CASE s.path = <<>> \/ ~Free(s, "listing") \/ ~MayAsk(s.node[Here(s)])
  BY <1>1 DEF Schedule
<1>2. CASE s.path # <<>> /\ Free(s, "listing") /\ MayAsk(s.node[Here(s)])
  <2> DEFINE d == Here(s)
  <2>1. d \in Dirs /\ Present(s, d)
    <3>1. s.path \in Seq(Dirs) /\ Len(s.path) \in DOMAIN s.path
      BY <1>2 DEF Good, States
    <3> QED BY <3>1 DEF Good, Here
  <2> HIDE DEF d
  <2>2. "scan" \in Lanes /\ {"list", "sum"} \subseteq Reasons
    BY DEF Lanes, Reasons
  <2>3. Free(s, "scan") => /\ s.lane["scan"].worker # "absent" => Good(Ask(s, "scan", d, "list", gen))
                           /\ s.lane["scan"].worker # "absent" => Good(Ask(s, "scan", d, "sum", gen))
    BY <1>2, <2>1, <2>2, NobodyNames, AskGood DEF d
  <2>4. Good(StartListing(s, d))
    BY <1>2, <2>1, StartListingGood DEF d
  <2>5. s.lane["scan"].worker # "absent"
    BY DEF Good, ScanOK
  <2>6. \/ Schedule(s) = s
        \/ Schedule(s) = StartListing(s, d)
        \/ Free(s, "scan") /\ Schedule(s) = Ask(s, "scan", d, "list", gen)
        \/ Free(s, "scan") /\ Schedule(s) = Ask(s, "scan", d, "sum", gen)
    BY <1>2 DEF Schedule, d
  <2> QED BY <2>3, <2>4, <2>5, <2>6
<1> QED BY <1>1, <1>2

-----------------------------------------------------------------------------
(* A poll, a move *)

\* A lane whose request is live and stays so, up to its times.
LEMMA TimesGood ==
    ASSUME NEW s, Good(s), NEW l \in Lanes, s.lane[l].pending # None,
           NEW c \in Completions \cup {None},
           c = None <=> s.lane[l].completion = None,
           NEW q \in Pendings,
           q.task = s.lane[l].pending.task, q.mode = s.lane[l].pending.mode,
           q.timedOut = s.lane[l].pending.timedOut, q.abandoned = s.lane[l].pending.abandoned,
           NEW v \in States, v.node = s.node, v.path = s.path,
           v.lane[l].pending = q, v.lane[l].completion = c,
           v.lane[l].worker = s.lane[l].worker, v.lane[l].cancelled = s.lane[l].cancelled,
           v.lane[l].request = s.lane[l].request, v.lane[l].job = s.lane[l].job,
           \A m \in Lanes \ {l} : v.lane[m] = s.lane[m]
    PROVE  Good(v)
<1> DEFINE p == s.lane[l].pending
           r == v.lane[l]
<1>1. /\ s \in States /\ s.lane \in [Lanes -> LaneRecords] /\ s.lane[l] \in LaneRecords
      /\ p \in Pendings
  BY RequestTypes DEF Good, States
<1>2. /\ q.task = p.task /\ q.mode = p.mode /\ q.timedOut = p.timedOut
      /\ q.abandoned = p.abandoned /\ q # None
  BY NoneAssumption
<1>3. Live(q) <=> Live(p)
  BY <1>2 DEF Live
<1>4. /\ r.pending = q /\ r.completion = c /\ r.worker = s.lane[l].worker
      /\ r.request = s.lane[l].request /\ r.job = s.lane[l].job
      /\ r.cancelled = s.lane[l].cancelled
  OBVIOUS
<1>5. v.lane[l] = r /\ \A m \in Lanes \ {l} : v.lane[m] = s.lane[m]
  BY <1>1
<1> HIDE DEF r
<1>6. \A m \in Lanes : LaneOK(v.lane[m])
  <2>1. LaneOK(r)
    <3>1. LaneOK(s.lane[l])
      BY DEF Good
    <3> QED BY <3>1, <1>2, <1>3, <1>4 DEF LaneOK
  <2> QED BY <2>1, <1>5 DEF Good
<1>7. \A m \in Lanes, d \in Dirs : Names(v, m, d) <=> Names(s, m, d)
  <2>1. \A d \in Dirs : Names(v, l, d) <=> Names(s, l, d)
    BY <1>2, <1>4, <1>5 DEF Names
  <2>2. \A m \in Lanes \ {l}, d \in Dirs : Names(v, m, d) <=> Names(s, m, d)
    BY <1>5 DEF Names
  <2> QED BY <2>1, <2>2
<1>8. ASSUME NEW m \in Lanes, NEW d \in Dirs, Names(v, m, d)
      PROVE  Marked(v.node[d], v.lane[m].pending)
  <2>1. Marked(s.node[d], s.lane[m].pending)
    BY <1>7, <1>8 DEF Good
  <2>2. CASE m = l
    BY <2>1, <2>2, <1>2, <1>3, <1>4, <1>5 DEF Marked
  <2>3. CASE m # l
    BY <2>1, <2>3, <1>5
  <2> QED BY <2>2, <2>3
<1>9. \A d \in Dirs : ~(Names(v, "scan", d) /\ Names(v, "listing", d))
  BY <1>7 DEF Good, Lanes
<1>10. ASSUME NEW d \in Dirs, v.node[d].mode = "pending"
       PROVE  \E m \in Lanes : Names(v, m, d) /\ Live(v.lane[m].pending)
  <2>1. PICK m \in Lanes : Names(s, m, d) /\ Live(s.lane[m].pending)
    BY <1>10 DEF Good
  <2>2. Names(v, m, d) /\ Live(v.lane[m].pending)
    BY <2>1, <1>3, <1>4, <1>5, <1>7
  <2> QED BY <2>2
<1>11. ScanOK(v.lane["scan"])
  <2>1. "scan" \in Lanes /\ ScanOK(s.lane["scan"])
    BY DEF Good, Lanes
  <2> QED BY <2>1, <1>2, <1>4, <1>5 DEF ScanOK
<1>12. \A i \in DOMAIN v.path : Present(v, v.path[i])
  BY DEF Good, Present
<1> QED BY <1>6, <1>8, <1>9, <1>10, <1>11, <1>12 DEF Good

LEMMA DrainedGood ==
    ASSUME NEW s, Good(s), NEW heard \in BOOLEAN
    PROVE  Good(Drained(s, heard))
<1> DEFINE p == s.lane["scan"].pending
           c == s.lane["scan"].completion
           a == [s EXCEPT !.lane["scan"].pending.late = FALSE]
           b == [s EXCEPT !.lane["scan"].pending.late = FALSE, !.lane["scan"].completion.late = FALSE]
<1>1. CASE ~heard \/ p = None \/ slot = None
  BY <1>1 DEF Drained
<1>2. CASE heard /\ p # None /\ slot # None
  <2>1. Drained(s, heard) = s \/ (c = None /\ Drained(s, heard) = a) \/ (c # None /\ Drained(s, heard) = b)
    BY <1>2 DEF Drained
  <2>2. /\ "scan" \in Lanes /\ s \in States /\ s.lane \in [Lanes -> LaneRecords]
        /\ s.lane["scan"] \in LaneRecords /\ p \in Pendings
    <3>1. "scan" \in Lanes
      BY DEF Lanes
    <3> QED BY <3>1, <1>2, RequestTypes DEF Good, States
  <2> DEFINE q == [p EXCEPT !.late = FALSE]
             d == [c EXCEPT !.late = FALSE]
             ra == [s.lane["scan"] EXCEPT !.pending = q, !.completion = c]
             rb == [s.lane["scan"] EXCEPT !.pending = q, !.completion = d]
  <2>3. /\ q \in Pendings /\ q.task = p.task /\ q.mode = p.mode /\ q.timedOut = p.timedOut
        /\ q.abandoned = p.abandoned
    BY <2>2 DEF Pendings
  <2>4. c # None => c \in Completions /\ d \in Completions /\ d # None
    <3>1. c # None => c \in Completions
      BY <2>2 DEF LaneRecords
    <3> QED BY <3>1, NoneAssumption DEF Completions
  <2>5. CASE c = None
    <3>1. /\ a.node = s.node /\ a.path = s.path /\ a.lane = [s.lane EXCEPT !["scan"] = ra]
          /\ a = [s EXCEPT !.lane = [s.lane EXCEPT !["scan"] = ra]]
      BY <2>2 DEF States, LaneRecords
    <3>2. ra \in LaneRecords
      BY <2>2, <2>3 DEF LaneRecords
    <3>3. a \in States
      <4>1. [s.lane EXCEPT !["scan"] = ra] \in [Lanes -> LaneRecords]
        BY <2>2, <3>2
      <4> HIDE DEF a, ra
      <4> QED BY <4>1, <3>1, <2>2 DEF States
    <3>5. a.lane["scan"] = ra /\ \A m \in Lanes \ {"scan"} : a.lane[m] = s.lane[m]
      <4> HIDE DEF a, ra
      <4> QED BY <2>2, <3>1
    <3>7. /\ ra.pending = q /\ ra.completion = c /\ ra.worker = s.lane["scan"].worker
          /\ ra.request = s.lane["scan"].request /\ ra.job = s.lane["scan"].job
          /\ ra.cancelled = s.lane["scan"].cancelled
      BY <2>2 DEF LaneRecords
    <3>6. p # None /\ c \in Completions \cup {None} /\ (c = None <=> s.lane["scan"].completion = None)
      BY <1>2, <2>5
    <3>8. /\ s.lane["scan"].pending # None /\ "scan" \in Lanes
          /\ c \in Completions \cup {None} /\ (c = None <=> s.lane["scan"].completion = None)
          /\ q \in Pendings
          /\ q.task = s.lane["scan"].pending.task /\ q.mode = s.lane["scan"].pending.mode
          /\ q.timedOut = s.lane["scan"].pending.timedOut
          /\ q.abandoned = s.lane["scan"].pending.abandoned
      BY <2>2, <2>3, <3>6
    <3>9. /\ a.lane["scan"].pending = q /\ a.lane["scan"].completion = c
          /\ a.lane["scan"].worker = s.lane["scan"].worker
          /\ a.lane["scan"].cancelled = s.lane["scan"].cancelled
          /\ a.lane["scan"].request = s.lane["scan"].request
          /\ a.lane["scan"].job = s.lane["scan"].job
          /\ \A m \in Lanes \ {"scan"} : a.lane[m] = s.lane[m]
      <4> HIDE DEF a, ra
      <4> QED BY <3>5, <3>7
    <3>10. a.node = s.node /\ a.path = s.path
      BY <3>1
    <3> HIDE DEF a, p, c, q, d
    <3>4. Good(a)
      BY <3>3, <3>8, <3>9, <3>10, TimesGood
    <3> QED BY <2>1, <2>5, <3>4
  <2>6. CASE c # None
    <3>1. /\ b.node = s.node /\ b.path = s.path /\ b.lane = [s.lane EXCEPT !["scan"] = rb]
          /\ b = [s EXCEPT !.lane = [s.lane EXCEPT !["scan"] = rb]]
      BY <2>2 DEF States, LaneRecords
    <3>2. rb \in LaneRecords
      BY <2>2, <2>3, <2>4, <2>6 DEF LaneRecords
    <3>3. b \in States
      <4>1. [s.lane EXCEPT !["scan"] = rb] \in [Lanes -> LaneRecords]
        BY <2>2, <3>2
      <4> HIDE DEF b, rb
      <4> QED BY <4>1, <3>1, <2>2 DEF States
    <3>5. b.lane["scan"] = rb /\ \A m \in Lanes \ {"scan"} : b.lane[m] = s.lane[m]
      <4> HIDE DEF b, rb
      <4> QED BY <2>2, <3>1
    <3>7. /\ rb.pending = q /\ rb.completion = d /\ rb.worker = s.lane["scan"].worker
          /\ rb.request = s.lane["scan"].request /\ rb.job = s.lane["scan"].job
          /\ rb.cancelled = s.lane["scan"].cancelled
      BY <2>2 DEF LaneRecords
    <3>6. p # None /\ d \in Completions \cup {None} /\ (d = None <=> s.lane["scan"].completion = None)
      BY <1>2, <2>4, <2>6
    <3>8. /\ s.lane["scan"].pending # None /\ "scan" \in Lanes
          /\ d \in Completions \cup {None} /\ (d = None <=> s.lane["scan"].completion = None)
          /\ q \in Pendings
          /\ q.task = s.lane["scan"].pending.task /\ q.mode = s.lane["scan"].pending.mode
          /\ q.timedOut = s.lane["scan"].pending.timedOut
          /\ q.abandoned = s.lane["scan"].pending.abandoned
      BY <2>2, <2>3, <3>6
    <3>9. /\ b.lane["scan"].pending = q /\ b.lane["scan"].completion = d
          /\ b.lane["scan"].worker = s.lane["scan"].worker
          /\ b.lane["scan"].cancelled = s.lane["scan"].cancelled
          /\ b.lane["scan"].request = s.lane["scan"].request
          /\ b.lane["scan"].job = s.lane["scan"].job
          /\ \A m \in Lanes \ {"scan"} : b.lane[m] = s.lane[m]
      <4> HIDE DEF b, rb
      <4> QED BY <3>5, <3>7
    <3>10. b.node = s.node /\ b.path = s.path
      BY <3>1
    <3> HIDE DEF b, p, c, q, d
    <3>4. Good(b)
      BY <3>3, <3>8, <3>9, <3>10, TimesGood
    <3> QED BY <2>1, <2>6, <3>4
  <2> QED BY <2>5, <2>6
<1> QED BY <1>1, <1>2

\* What the end of a request leaves to the lane and to the other one.
LEMMA PollLaneEnds ==
    ASSUME NEW s, Good(s), NEW l \in Lanes, NEW room \in Rooms,
           s.lane[l].pending # None, s.lane[l].completion # None
    PROVE  /\ PollLane(s, l, room).lane[l].pending = None
           /\ \A m \in Lanes \ {l} : PollLane(s, l, room).lane[m].pending = s.lane[m].pending
           /\ PollLane(s, l, room).node[s.lane[l].pending.task.dir].id
                = s.node[s.lane[l].pending.task.dir].id
<1> DEFINE p == s.lane[l].pending
           t == p.task
           c == s.lane[l].completion
           u == Taken(s, l)
           v == PollLane(s, l, room)
<1>1. s \in States /\ p \in Pendings /\ t \in Tasks /\ t.dir \in Dirs
  BY RequestTypes DEF Good
<1>2. /\ u \in States /\ u.node = s.node /\ u.path = s.path
      /\ u.lane = [s.lane EXCEPT ![l] = [@ EXCEPT !.pending = None, !.completion = None]]
  BY <1>1, TakenIs
<1>3. c \in Completions /\ (c.result # None => c.result \in Results)
  <2>1. c \in Completions
    BY <1>1 DEF States, LaneRecords
  <2> QED BY <2>1 DEF Completions
<1>4. \/ v = u
      \/ v = Fail(u, t)
      \/ \E evicting : c.result # None /\ v = Apply(u, p, c.result, evicting)
  <2>1. v = IF p.timedOut \/ p.abandoned THEN u
            ELSE IF c.late \/ c.task # p.task THEN Fail(u, t)
            ELSE Finished(u, p, c.result, room)
    BY DEF PollLane, Taken
  <2> HIDE DEF u, v
  <2> DEFINE evicting == IF room = "crowded" THEN Evicting(u, p.task, c.result.rows) ELSE {}
  <2>2. \/ Finished(u, p, c.result, room) = u
        \/ Finished(u, p, c.result, room) = Fail(u, t)
        \/ c.result # None /\ Finished(u, p, c.result, room) = Apply(u, p, c.result, evicting)
    BY DEF Finished
  <2> HIDE DEF evicting
  <2> QED BY <2>1, <2>2
<1> HIDE DEF u, v
<1>5. v.lane = u.lane /\ v.node[t.dir].id = u.node[t.dir].id
  <2>1. CASE v = u
    BY <2>1, SMTT(40)
  <2>2. CASE v = Fail(u, t)
    <3>1. u.node \in [Dirs -> Nodes] /\ u.node[t.dir] \in Nodes
      BY <1>1, <1>2 DEF States
    <3>2. [u.node[t.dir] EXCEPT !.mode = "stale"].id = u.node[t.dir].id
      BY <3>1, ZenonT(60) DEF Nodes
    <3>3. /\ v.lane = u.lane
          /\ \/ v.node = [u.node EXCEPT ![t.dir] = [@ EXCEPT !.mode = "stale"]]
             \/ v.node = u.node
      BY <2>2, <1>1, <1>2, FailIs, ZenonT(60)
    <3> QED BY <3>1, <3>2, <3>3, <1>1, ZenonT(60)
  <2>3. CASE \E evicting : c.result # None /\ v = Apply(u, p, c.result, evicting)
    <3>1. PICK evicting : c.result # None /\ v = Apply(u, p, c.result, evicting)
      BY <2>3
    <3>2. t = p.task
      OBVIOUS
    <3> HIDE DEF p, t, c
    <3>3. AppliedTo(u, p.task, v)
      BY <3>1, <1>1, <1>2, <1>3, ApplyIs
    <3> QED BY <3>2, <3>3 DEF AppliedTo
  <2> QED BY <1>4, <2>1, <2>2, <2>3
<1>6. u.lane[l].pending = None /\ \A m \in Lanes \ {l} : u.lane[m] = s.lane[m]
  <2>1. s.lane \in [Lanes -> LaneRecords] /\ s.lane[l] \in LaneRecords
    BY <1>1 DEF States
  <2> QED BY <2>1, <1>2 DEF LaneRecords
<1> QED BY <1>2, <1>5, <1>6 DEF v

\* complete_or_expire of the reducer
LEMMA PolledGood ==
    ASSUME NEW s, Good(s), gen \in Nat, NEW room \in Rooms
    PROVE  Good(Polled(s, room))
<1> DEFINE p == s.lane["scan"].pending
           t == p.task
           scanned == PollLane(s, "scan", room)
           chained == IF p # None /\ s.lane["scan"].completion # None THEN Chained(scanned, t)
                                                                      ELSE scanned
           listed == PollLane(chained, "listing", room)
<1>1. {"scan", "listing"} \subseteq Lanes /\ "scan" # "listing" /\ "sum" \in Reasons
  BY DEF Lanes, Reasons
<1>2. Good(scanned)
  BY <1>1, PollLaneGood
<1>3. Good(chained)
  <2>1. CASE ~(p # None /\ s.lane["scan"].completion # None)
    BY <2>1, <1>2
  <2>2. CASE p # None /\ s.lane["scan"].completion # None
    <3>1. /\ scanned.lane["scan"].pending = None
          /\ scanned.lane["listing"].pending = s.lane["listing"].pending
          /\ scanned.node[t.dir].id = s.node[t.dir].id
      <4>1. /\ "scan" \in Lanes /\ s.lane["scan"].pending # None
            /\ s.lane["scan"].completion # None
        BY <1>1, <2>2
      <4>2. /\ PollLane(s, "scan", room).lane["scan"].pending = None
            /\ \A m \in Lanes \ {"scan"} :
                 PollLane(s, "scan", room).lane[m].pending = s.lane[m].pending
            /\ PollLane(s, "scan", room).node[s.lane["scan"].pending.task.dir].id
                 = s.node[s.lane["scan"].pending.task.dir].id
        BY <4>1, PollLaneEnds
      <4>3. "listing" \in Lanes \ {"scan"}
        BY <1>1
      <4> QED BY <4>2, <4>3
    <3>2. t \in Tasks /\ t.dir \in Dirs /\ t.id # 0
      <4>1. t \in Tasks /\ t.dir \in Dirs
        BY <1>1, <2>2, RequestTypes
      <4> QED BY <4>1 DEF Tasks
    <3> HIDE DEF scanned
    <3>3. chained = Chained(scanned, t)
      BY <2>2
    <3>4. CASE chained = scanned
      BY <3>4, <1>2
    <3>5. CASE chained # scanned
      <4>1. scanned.node[t.dir].id = t.id /\ chained = Ask(scanned, "scan", t.dir, "sum", gen)
        BY <3>3, <3>5 DEF Chained
      <4>2. ~Names(scanned, "scan", t.dir)
        BY <3>1 DEF Names
      <4>3. ~Names(scanned, "listing", t.dir)
        <5>1. Names(s, "scan", t.dir)
          BY <2>2, <3>1, <4>1 DEF Names
        <5>2. ~Names(s, "listing", t.dir)
          BY <5>1, <3>2 DEF Good
        <5> HIDE DEF t, p
        <5> QED BY <5>2, <3>1 DEF Names
      <4>4. \A m \in Lanes : ~Names(scanned, m, t.dir)
        BY <4>2, <4>3 DEF Lanes
      <4>5. Free(scanned, "scan") /\ Present(scanned, t.dir) /\ scanned.lane["scan"].worker # "absent"
        BY <1>2, <3>1, <3>2, <4>1 DEF Free, Present, Good, ScanOK
      <4> HIDE DEF t, p, chained
      <4>6. Good(Ask(scanned, "scan", t.dir, "sum", gen))
        BY <1>1, <1>2, <3>2, <4>4, <4>5, AskGood
      <4> QED BY <4>1, <4>6, SMTT(40)
    <3> QED BY <3>4, <3>5
  <2> QED BY <2>1, <2>2
<1>4. Polled(s, room) = Schedule(listed)
  BY DEF Polled
<1> HIDE DEF chained
<1>5. Good(listed)
  BY <1>1, <1>3, PollLaneGood
<1> HIDE DEF listed
<1> QED BY <1>4, <1>5, ScheduleGood

\* The levels change, and nothing else.
LEMMA LevelsGood ==
    ASSUME NEW s, Good(s), NEW levels \in Seq(Dirs),
           \A i \in DOMAIN levels : Present(s, levels[i]),
           NEW u, u = [s EXCEPT !.path = levels]
    PROVE  Good(u) /\ u.node = s.node /\ u.lane = s.lane /\ u.path = levels
<1>1. s \in States
  BY DEF Good
<1>2. u \in States /\ u.node = s.node /\ u.lane = s.lane /\ u.path = levels
  BY <1>1 DEF States
<1>3. \A m \in Lanes, d \in Dirs : Names(u, m, d) <=> Names(s, m, d)
  BY <1>2 DEF Names
<1>4. \A m \in Lanes, d \in Dirs : Names(u, m, d) => Marked(u.node[d], u.lane[m].pending)
  BY <1>3, <1>2 DEF Good
<1>5. \A d \in Dirs : ~(Names(u, "scan", d) /\ Names(u, "listing", d))
  BY <1>3 DEF Good, Lanes
<1>6. \A d \in Dirs : u.node[d].mode = "pending" =>
         \E l \in Lanes : Names(u, l, d) /\ Live(u.lane[l].pending)
  BY <1>3, <1>2 DEF Good
<1>7. ScanOK(u.lane["scan"]) /\ \A m \in Lanes : LaneOK(u.lane[m])
  BY <1>2 DEF Good
<1>8. \A i \in DOMAIN u.path : Present(u, u.path[i])
  BY <1>2 DEF Present
<1> QED BY <1>2, <1>4, <1>5, <1>6, <1>7, <1>8 DEF Good

\* Entering and leaving: the rows entered are there.
LEMMA MovedGood ==
    ASSUME NEW s, Good(s), gen \in Nat, NEW levels \in Seq(Dirs),
           \A i \in DOMAIN levels : Present(s, levels[i])
    PROVE  Good(Moved([s EXCEPT !.path = levels]))
<1> DEFINE u == [s EXCEPT !.path = levels]
<1>1. Good(u)
  BY LevelsGood
<1> HIDE DEF u
<1>2. PICK left \in BOOLEAN :
         /\ Moved(u) = Schedule(IF left THEN Abandoned(u) ELSE u)
         /\ left => u.lane["listing"].pending # None
  <2> DEFINE q == u.lane["listing"].pending
             gone == q # None /\ (u.path = <<>> \/ q.task.dir # Here(u)
                                  \/ q.task.id # u.node[Here(u)].id)
  <2>1. Moved(u) = Schedule(IF gone THEN Abandoned(u) ELSE u)
    BY DEF Moved
  <2>2. gone \in BOOLEAN /\ (gone => q # None)
    OBVIOUS
  <2> HIDE DEF gone
  <2> QED BY <2>1, <2>2
<1>3. Good(IF left THEN Abandoned(u) ELSE u)
  BY <1>1, <1>2, AbandonGood
<1>4. Good(Moved(u))
  BY <1>2, <1>3, ScheduleGood
<1> QED BY <1>4 DEF u

-----------------------------------------------------------------------------
(* The actions *)

\* What the steps of the interface pass on is the next state.
LEMMA BecomesNow ==
    ASSUME NEW s, Good(s), Becomes(s)
    PROVE  Good(Now')
<1>1. s \in States
  BY DEF Good
<1>2. Now' = s
  BY <1>1 DEF Becomes, Now, States
<1> QED BY <1>2

\* A step of a worker: the request of the lane stays.
LEMMA WorkerGood ==
    ASSUME NEW s, Good(s), NEW l \in Lanes, NEW r \in LaneRecords, LaneOK(r),
           r.pending = s.lane[l].pending, r.worker # "absent",
           NEW v, v = [node |-> s.node, path |-> s.path, lane |-> [s.lane EXCEPT ![l] = r]]
    PROVE  Good(v)
<1>1. s \in States /\ s.lane \in [Lanes -> LaneRecords]
  BY DEF Good, States
<1>2. [s.lane EXCEPT ![l] = r] \in [Lanes -> LaneRecords]
  BY <1>1
<1>3. v \in States /\ v.node = s.node /\ v.path = s.path
  BY <1>1, <1>2 DEF States
<1>4. /\ v.lane[l] = r /\ \A m \in Lanes \ {l} : v.lane[m] = s.lane[m]
      /\ \A m \in Lanes : v.lane[m].pending = s.lane[m].pending
  BY <1>1
<1>5. \A m \in Lanes : LaneOK(v.lane[m])
  BY <1>4 DEF Good
<1>6. \A m \in Lanes, d \in Dirs : Names(v, m, d) <=> Names(s, m, d)
  BY <1>3, <1>4 DEF Names
<1>7. \A m \in Lanes, d \in Dirs : Names(v, m, d) => Marked(v.node[d], v.lane[m].pending)
  BY <1>3, <1>4, <1>6 DEF Good
<1>8. \A d \in Dirs : ~(Names(v, "scan", d) /\ Names(v, "listing", d))
  BY <1>6 DEF Good, Lanes
<1>9. \A d \in Dirs : v.node[d].mode = "pending" =>
         \E m \in Lanes : Names(v, m, d) /\ Live(v.lane[m].pending)
  <2> TAKE d \in Dirs
  <2> HAVE v.node[d].mode = "pending"
  <2>1. PICK m \in Lanes : Names(s, m, d) /\ Live(s.lane[m].pending)
    BY <1>3 DEF Good
  <2> QED BY <2>1, <1>4, <1>6
<1>10. ScanOK(v.lane["scan"])
  <2>1. "scan" \in Lanes /\ ScanOK(s.lane["scan"])
    BY DEF Good, Lanes
  <2> QED BY <2>1, <1>4 DEF ScanOK
<1>11. \A i \in DOMAIN v.path : Present(v, v.path[i])
  BY <1>3 DEF Good, Present
<1> QED BY <1>3, <1>5, <1>7, <1>8, <1>9, <1>10, <1>11 DEF Good

LEMMA InitGood == Init => IInv
<1> SUFFICES ASSUME Init PROVE IInv
  OBVIOUS
<1>1. node \in [Dirs -> Nodes] /\ \A d \in Dirs : node[d].mode = "snapshot"
  BY NewNodeIs DEF Init
<1>2. path \in Seq(Dirs) /\ DOMAIN path = {}
  BY DEF Init
<1>3. lane \in [Lanes -> LaneRecords]
  BY DEF Init, LaneRecords
<1>4. /\ \A l \in Lanes : lane[l].pending = None /\ LaneOK(lane[l])
      /\ lane["scan"].worker # "absent"
  BY DEF Init, Lanes, LaneOK, Live
<1>5. Now \in States /\ Now.node = node /\ Now.path = path /\ Now.lane = lane
  BY <1>1, <1>2, <1>3 DEF Now, States
<1>6. \A l \in Lanes, d \in Dirs : ~Names(Now, l, d)
  BY <1>4, <1>5 DEF Names
<1>7. Good(Now)
  BY <1>1, <1>2, <1>4, <1>5, <1>6 DEF Good, ScanOK, Lanes
<1> QED BY <1>7 DEF Init, IInv

\* A turn of the loop: progress, the lanes in their order, the next request.
LEMMA PollGood == ASSUME IInv, Poll PROVE IInv'
<1>1. PICK heard \in BOOLEAN, room \in Rooms :
         /\ slot' \in {None, slot}
         /\ Becomes(Polled(Drained(Now, heard), room))
  BY DEF Poll
<1>2. Good(Now) /\ gen \in Nat
  BY DEF IInv
<1>3. Good(Drained(Now, heard))
  BY <1>2, DrainedGood
<1>4. Good(Polled(Drained(Now, heard), room))
  BY <1>2, <1>3, PolledGood
<1>5. Good(Now')
  BY <1>1, <1>4, BecomesNow
<1> QED BY <1>1, <1>5 DEF Poll, IInv

\* Levels that are there are entered, or left.
LEMMA MoveGood ==
    ASSUME IInv, NEW levels \in Seq(Dirs), \A i \in DOMAIN levels : Present(Now, levels[i]), Move(levels)
    PROVE  IInv'
<1>1. Good(Now) /\ gen \in Nat
  BY DEF IInv
<1>2. Good(Moved([Now EXCEPT !.path = levels]))
  BY <1>1, MovedGood
<1>3. Good(Now')
  BY <1>2, BecomesNow DEF Move
<1> QED BY <1>3 DEF Move, IInv

\* The row entered is one the browser has.
LEMMA EnterGood == ASSUME IInv, EnterDirectory PROVE IInv'
<1>1. PICK d \in Dirs : Present(Now, d) /\ Move(Append(path, d))
  BY DEF EnterDirectory, Roots, Children
<1>2. path \in Seq(Dirs) /\ \A i \in DOMAIN path : Present(Now, path[i])
  BY DEF IInv, Good, States, Now
<1>3. /\ Append(path, d) \in Seq(Dirs)
      /\ \A i \in DOMAIN Append(path, d) : i \in DOMAIN path \/ Append(path, d)[i] = d
      /\ \A i \in DOMAIN path : Append(path, d)[i] = path[i]
  BY <1>2
<1>4. \A i \in DOMAIN Append(path, d) : Present(Now, Append(path, d)[i])
  BY <1>1, <1>2, <1>3
<1> QED BY <1>1, <1>3, <1>4, MoveGood

LEMMA ReturnGood == ASSUME IInv, ReturnToParent PROVE IInv'
<1>1. path \in Seq(Dirs) /\ path # <<>> /\ \A i \in DOMAIN path : Present(Now, path[i])
  BY DEF IInv, Good, States, Now, ReturnToParent
<1> DEFINE levels == SubSeq(path, 1, Len(path) - 1)
<1>2. /\ levels \in Seq(Dirs)
      /\ \A i \in DOMAIN levels : i \in DOMAIN path /\ levels[i] = path[i]
  BY <1>1
<1>3. Move(levels)
  BY DEF ReturnToParent
<1> HIDE DEF levels
<1>4. \A i \in DOMAIN levels : Present(Now, levels[i])
  BY <1>1, <1>2
<1> QED BY <1>2, <1>3, <1>4, MoveGood

\* With both lanes free nothing is pending, so the request names a free node.
LEMMA RefreshGood == ASSUME IInv, Refresh PROVE IInv'
<1> DEFINE Unseen(n) == [n EXCEPT !.loaded = FALSE, !.observed = FALSE, !.catchUp = FALSE, !.from = 0]
           s == [Now EXCEPT !.node = [d \in Dirs |-> Unseen(node[d])]]
           h == Here(Now)
<1>1. /\ Good(Now) /\ Now \in States /\ gen \in Nat /\ gen + 1 \in Nat
      /\ Now.node = node /\ Now.path = path /\ Now.lane = lane /\ node \in [Dirs -> Nodes]
  BY DEF IInv, Good, Now, States
<1>2. \A l \in Lanes : lane[l].pending = None
  BY <1>1 DEF Refresh, Free
<1>3. ASSUME NEW d \in Dirs
      PROVE  /\ Unseen(node[d]) \in Nodes /\ Unseen(node[d]).id = node[d].id
             /\ Unseen(node[d]).mode = node[d].mode
  <2>1. node[d] \in Nodes
    BY <1>1
  <2> QED BY <2>1 DEF Nodes
<1> HIDE DEF Unseen
<1>4. s.node = [d \in Dirs |-> Unseen(node[d])] /\ s.path = path /\ s.lane = lane
  BY <1>1 DEF Now
<1>5. s \in States
  BY <1>1, <1>3, <1>4 DEF States
<1>6. Becomes(Ask(s, "scan", h, "refresh", gen + 1))
  BY <1>1 DEF Refresh, Unseen
<1> HIDE DEF s
<1>7. \A m \in Lanes, d \in Dirs : ~Names(s, m, d) /\ ~Names(Now, m, d)
  BY <1>1, <1>2, <1>4 DEF Names
<1>8. \A d \in Dirs : s.node[d].mode # "pending"
  <2>1. \A d \in Dirs : node[d].mode # "pending"
    BY <1>1, <1>7 DEF Good
  <2> QED BY <2>1, <1>3, <1>4
<1>9. \A i \in DOMAIN s.path : Present(s, s.path[i])
  <2>1. \A i \in DOMAIN path : path[i] \in Dirs /\ Present(Now, path[i])
    BY <1>1 DEF Good, States
  <2> QED BY <2>1, <1>1, <1>3, <1>4 DEF Present
<1>10. ScanOK(s.lane["scan"]) /\ \A m \in Lanes : LaneOK(s.lane[m])
  BY <1>1, <1>4 DEF Good
<1>11. Good(s)
  BY <1>5, <1>7, <1>8, <1>9, <1>10, <1>4 DEF Good, Lanes
<1>12. h \in Dirs /\ Present(s, h)
  <2>3. path \in Seq(Dirs)
    BY <1>1 DEF States
  <2>1. Len(path) \in DOMAIN path /\ path[Len(path)] \in Dirs
    <3>1. path # <<>>
      BY DEF Refresh
    <3> QED BY <2>3, <3>1
  <2>2. h = path[Len(path)]
    BY <1>1 DEF Here
  <2> QED BY <2>1, <2>2, <1>4, <1>9
<1>13. "scan" \in Lanes /\ "refresh" \in Reasons /\ Free(s, "scan") /\ s.lane["scan"].worker # "absent"
  BY <1>2, <1>4, <1>10 DEF Lanes, Reasons, Free, ScanOK
<1>14. Good(Ask(s, "scan", h, "refresh", gen + 1))
  <2> HIDE DEF h
  <2> QED BY <1>1, <1>7, <1>11, <1>12, <1>13, AskGood
<1>15. Good(Now')
  BY <1>6, <1>14, BecomesNow
<1> QED BY <1>1, <1>15 DEF Refresh, IInv

\* The request goes from the channel to the worker.
LEMMA StartGood == ASSUME IInv, NEW l \in Lanes, Start(l) PROVE IInv'
<1> DEFINE r == [lane[l] EXCEPT !.worker = "running", !.job = lane[l].request, !.request = None]
<1>1. Good(Now) /\ Now.lane = lane /\ lane \in [Lanes -> LaneRecords] /\ lane[l] \in LaneRecords
  BY DEF IInv, Good, States, Now
<1>2. LaneOK(lane[l]) /\ lane[l].worker = "idle" /\ lane[l].request # None
  BY <1>1 DEF Good, Start
<1>3. /\ r \in LaneRecords /\ r.worker = "running" /\ r.job = lane[l].request /\ r.request = None
      /\ r.pending = lane[l].pending /\ r.completion = lane[l].completion
      /\ r.cancelled = lane[l].cancelled
  BY <1>1 DEF LaneRecords
<1>4. lane' = [lane EXCEPT ![l] = r]
  BY <1>1 DEF Start, LaneRecords
<1> HIDE DEF r
<1>5. LaneOK(r)
  BY <1>2, <1>3 DEF LaneOK
<1>6. Now' = [node |-> Now.node, path |-> Now.path, lane |-> [Now.lane EXCEPT ![l] = r]]
  BY <1>4 DEF Start, Now
<1>7. Good(Now')
  BY <1>1, <1>3, <1>5, <1>6, WorkerGood
<1> QED BY <1>7 DEF Start, IInv

\* What a read or a sum ends with.
LEMMA ResultTypes ==
    ASSUME IInv, NEW t \in Tasks, NEW r \in ResultsOf(t)
    PROVE  r \in Results \cup {None} /\ Merged(t, r) \in [Dirs -> Nat]
<1>1. sizes \in [Dirs -> Nat] /\ t.gen \in Nat /\ t.dir \in Dirs
  BY DEF IInv, Tasks
<1>2. Children(t.dir) \subseteq Dirs
  BY DEF Children
<1>3. CASE r = None
  BY <1>1, <1>3 DEF Merged
<1>4. CASE r # None
  <2>1. PICK rows \in SUBSET Children(t.dir), observed \in BOOLEAN, from \in Nat :
           r = [rows |-> rows, observed |-> observed, from |-> from]
    <3>1. PICK rows \in SUBSET Children(t.dir) :
             \/ r = [rows |-> rows, observed |-> TRUE, from |-> t.gen]
             \/ r = [rows |-> rows, observed |-> FALSE, from |-> 0]
             \/ r = [rows |-> rows, observed |-> TRUE, from |-> sizes[t.dir]]
      BY <1>4 DEF ResultsOf
    <3>2. sizes[t.dir] \in Nat
      BY <1>1
    <3> QED BY <1>1, <3>1, <3>2
  <2> QED BY <1>1, <1>2, <2>1 DEF Merged, Results
<1> QED BY <1>3, <1>4

\* The request goes from the worker to its answer.
LEMMA FinishGood == ASSUME IInv, NEW l \in Lanes, Finish(l) PROVE IInv'
<1>1. Good(Now) /\ Now.lane = lane /\ lane \in [Lanes -> LaneRecords] /\ lane[l] \in LaneRecords
  BY DEF IInv, Good, States, Now
<1>2. LaneOK(lane[l]) /\ lane[l].worker \in {"running", "blocked"} /\ lane[l].completion = None
  BY <1>1 DEF Good, Finish
<1>3. PICK a \in ResultsOf(lane[l].job) :
         /\ lane' = [lane EXCEPT
                ![l].worker = "idle", ![l].job = None,
                ![l].completion = [task |-> lane[l].job, result |-> a, late |-> lane[l].pending.late]]
         /\ sizes' = Merged(lane[l].job, a)
  BY DEF Finish
<1> DEFINE c == [task |-> lane[l].job, result |-> a, late |-> lane[l].pending.late]
           r == [lane[l] EXCEPT !.worker = "idle", !.job = None, !.completion = c]
<1>4. lane[l].job \in Tasks /\ lane[l].pending # None
  BY <1>1, <1>2 DEF LaneRecords, LaneOK
<1>5. a \in Results \cup {None} /\ sizes' \in [Dirs -> Nat]
  BY <1>3, <1>4, ResultTypes
<1>6. lane[l].pending.late \in BOOLEAN
  BY <1>1, <1>4, RequestTypes
<1>7. c \in Completions /\ c # None
  BY <1>4, <1>5, <1>6, NoneAssumption DEF Completions
<1>8. lane' = [lane EXCEPT ![l] = r]
  BY <1>1, <1>3 DEF LaneRecords
<1> HIDE DEF c
<1>9. /\ r \in LaneRecords /\ r.worker = "idle" /\ r.job = None /\ r.completion = c
      /\ r.pending = lane[l].pending /\ r.request = lane[l].request
      /\ r.cancelled = lane[l].cancelled
  BY <1>1, <1>7 DEF LaneRecords
<1> HIDE DEF r
<1>10. LaneOK(r)
  BY <1>2, <1>4, <1>7, <1>9 DEF LaneOK
<1>11. Now' = [node |-> Now.node, path |-> Now.path, lane |-> [Now.lane EXCEPT ![l] = r]]
  BY <1>8 DEF Finish, Now
<1>12. Good(Now')
  BY <1>1, <1>9, <1>10, <1>11, WorkerGood
<1> QED BY <1>5, <1>12 DEF Finish, IInv

\* A blocked worker still has the request; a dead one has lost it.
LEMMA FaultGood == ASSUME IInv, NEW l \in Lanes, Fault(l) PROVE IInv'
<1> DEFINE a == [lane[l] EXCEPT !.worker = "blocked"]
           b == [lane[l] EXCEPT !.worker = "dead", !.job = None]
<1>1. Good(Now) /\ Now.lane = lane /\ lane \in [Lanes -> LaneRecords] /\ lane[l] \in LaneRecords
  BY DEF IInv, Good, States, Now
<1>2. LaneOK(lane[l]) /\ lane[l].worker \in {"running", "blocked"}
  BY <1>1 DEF Good, Fault
<1>3. lane' = [lane EXCEPT ![l] = a] \/ lane' = [lane EXCEPT ![l] = b]
  BY <1>1 DEF Fault, LaneRecords
<1>4. a \in LaneRecords /\ b \in LaneRecords
  BY <1>1 DEF LaneRecords
<1>5. /\ a.worker = "blocked" /\ a.job = lane[l].job
      /\ a.pending = lane[l].pending /\ a.request = lane[l].request
      /\ a.completion = lane[l].completion /\ a.cancelled = lane[l].cancelled
      /\ b.worker = "dead" /\ b.job = None
      /\ b.pending = lane[l].pending /\ b.request = lane[l].request
      /\ b.completion = lane[l].completion /\ b.cancelled = lane[l].cancelled
  BY <1>1 DEF LaneRecords
<1> HIDE DEF a, b
<1>6. LaneOK(a) /\ LaneOK(b)
  BY <1>2, <1>5 DEF LaneOK
<1>7. PICK r \in {a, b} : lane' = [lane EXCEPT ![l] = r]
  BY <1>3
<1>8. r \in LaneRecords /\ LaneOK(r) /\ r.pending = Now.lane[l].pending /\ r.worker # "absent"
  BY <1>1, <1>4, <1>5, <1>6
<1>9. Now' = [node |-> Now.node, path |-> Now.path, lane |-> [Now.lane EXCEPT ![l] = r]]
  BY <1>7 DEF Fault, Now
<1>10. Good(Now')
  BY <1>1, <1>8, <1>9, WorkerGood
<1> QED BY <1>10 DEF Fault, IInv

LEMMA ElapseGood == ASSUME IInv, NEW l \in Lanes, Elapse(l) PROVE IInv'
<1> DEFINE p == lane[l].pending
           q == [p EXCEPT !.late = TRUE]
           r == [lane[l] EXCEPT !.pending = q]
<1>1. /\ Good(Now) /\ Now.lane = lane /\ Now.node = node /\ Now.path = path
      /\ Now \in States /\ lane \in [Lanes -> LaneRecords] /\ lane[l] \in LaneRecords
  BY DEF IInv, Good, States, Now
<1>2. p # None /\ p \in Pendings
  BY <1>1, RequestTypes DEF Elapse
<1>3. /\ q \in Pendings /\ q.task = p.task /\ q.mode = p.mode
      /\ q.timedOut = p.timedOut /\ q.abandoned = p.abandoned
  BY <1>2 DEF Pendings
<1>4. /\ r \in LaneRecords /\ r.pending = q /\ r.completion = lane[l].completion
      /\ r.worker = lane[l].worker /\ r.cancelled = lane[l].cancelled
      /\ r.request = lane[l].request /\ r.job = lane[l].job
  BY <1>1, <1>3 DEF LaneRecords
<1>5. lane' = [lane EXCEPT ![l] = r]
  BY <1>1 DEF Elapse, LaneRecords
<1>6. lane[l].completion \in Completions \cup {None}
  BY <1>1 DEF LaneRecords
<1> HIDE DEF r, q
<1>7. lane' \in [Lanes -> LaneRecords] /\ lane'[l] = r /\ \A m \in Lanes \ {l} : lane'[m] = lane[m]
  BY <1>1, <1>4, <1>5
<1>8. /\ Now' \in States /\ Now'.node = Now.node /\ Now'.path = Now.path /\ Now'.lane = lane'
  BY <1>1, <1>7 DEF Elapse, Now, States
<1> DEFINE v == Now'
           s == Now
<1>9. /\ v.lane[l].pending = q /\ v.lane[l].completion = s.lane[l].completion
      /\ v.lane[l].worker = s.lane[l].worker /\ v.lane[l].cancelled = s.lane[l].cancelled
      /\ v.lane[l].request = s.lane[l].request /\ v.lane[l].job = s.lane[l].job
      /\ \A m \in Lanes \ {l} : v.lane[m] = s.lane[m]
      /\ v \in States /\ v.node = s.node /\ v.path = s.path
  BY <1>1, <1>4, <1>7, <1>8
<1>10. /\ Good(s) /\ s.lane[l].pending # None
       /\ s.lane[l].completion \in Completions \cup {None}
       /\ q \in Pendings
       /\ q.task = s.lane[l].pending.task /\ q.mode = s.lane[l].pending.mode
       /\ q.timedOut = s.lane[l].pending.timedOut /\ q.abandoned = s.lane[l].pending.abandoned
  BY <1>1, <1>2, <1>3, <1>6
<1> HIDE DEF v, s, p
<1>11. Good(v)
  BY <1>9, <1>10, TimesGood
<1>12. Good(Now')
  BY <1>11 DEF v
<1> QED BY <1>12 DEF Elapse, IInv

LEMMA ReportGood == ASSUME IInv, Report PROVE IInv'
<1>1. Good(Now) /\ Now.lane = lane /\ lane \in [Lanes -> LaneRecords] /\ "scan" \in Lanes
  BY DEF IInv, Good, States, Now, Lanes
<1>2. LaneOK(lane["scan"]) /\ lane["scan"] \in LaneRecords
  BY <1>1 DEF Good
<1>3. lane["scan"].job \in Tasks
  BY <1>2 DEF LaneOK, LaneRecords, Report
<1>4. Now' = Now
  BY DEF Report, Now
<1> QED BY <1>1, <1>3, <1>4 DEF Report, IInv

-----------------------------------------------------------------------------
(* The theorems *)

\* A turn of the loop without a key changes the phase only.
LEMMA StutterGood == ASSUME IInv, NoKey \/ UNCHANGED vars PROVE IInv'
<1>1. Now' = Now
  BY DEF NoKey, vars, Now
<1> QED BY <1>1 DEF NoKey, vars, IInv

LEMMA StepGood == IInv /\ [Next]_vars => IInv'
<1> SUFFICES ASSUME IInv, [Next]_vars PROVE IInv'
  OBVIOUS
<1>1. CASE Poll
  BY <1>1, PollGood
<1>2. CASE EnterDirectory
  BY <1>2, EnterGood
<1>3. CASE ReturnToParent
  BY <1>3, ReturnGood
<1>4. CASE Refresh
  BY <1>4, RefreshGood
<1>5. CASE Report
  BY <1>5, ReportGood
<1>6. ASSUME NEW l \in Lanes, Elapse(l) \/ Worker(l)
      PROVE  IInv'
  BY <1>6, ElapseGood, StartGood, FinishGood, FaultGood DEF Worker
<1>7. CASE NoKey \/ UNCHANGED vars
  BY <1>7, StutterGood
<1> QED BY <1>1, <1>2, <1>3, <1>4, <1>5, <1>6, <1>7 DEF Next

\* IInv is inductive: no step of the interface (live.rs: poll, move
\* or refresh) or of a worker (rescan_for_lane) breaks it.
THEOREM Inductive == Spec => []IInv
<1>1. Init => IInv
  BY InitGood
<1>2. IInv /\ [Next]_vars => IInv'
  BY StepGood
<1> QED BY <1>1, <1>2, PTL DEF Spec

\* What a lane holds is typed by its record, and is of the request pending.
LEMMA GoodIsTyped == IInv => TypeOK
<1> SUFFICES ASSUME IInv PROVE TypeOK
  OBVIOUS
<1>1. /\ node \in [Dirs -> Nodes] /\ path \in Seq(Dirs) /\ lane \in [Lanes -> LaneRecords]
      /\ \A l \in Lanes : LaneOK(lane[l])
  BY DEF IInv, Good, States, Now
<1>2. ASSUME NEW l \in Lanes
      PROVE  /\ LaneTypeOK(lane[l])
             /\ lane[l].pending = None => lane[l].request = None /\ lane[l].job = None
                                          /\ lane[l].completion = None
             /\ {lane[l].request, lane[l].job} \subseteq
                    {None, IF lane[l].pending = None THEN None ELSE lane[l].pending.task}
  <2>1. lane[l] \in LaneRecords /\ LaneOK(lane[l])
    BY <1>1
  <2>2. LaneTypeOK(lane[l])
    BY <2>1 DEF LaneTypeOK, LaneRecords
  <2> QED BY <2>1, <2>2 DEF LaneOK
<1> QED BY <1>1, <1>2 DEF TypeOK, IInv

\* The state stays of its types, and what a worker of DetailRescanWorker holds
\* or has answered is the request that is pending in its lane.
THEOREM TypeCorrect == Spec => []TypeOK
BY Inductive, GoodIsTyped, PTL

\* A live request that names a row is bound to it, and only one names it.
LEMMA GoodHasOwner == IInv => PendingHasOwner
<1> SUFFICES ASSUME IInv, NEW d \in Dirs, node[d].mode = "pending"
             PROVE  \E l \in Lanes :
                       {m \in Lanes : Live(lane[m].pending) /\ lane[m].pending.task.dir = d
                                      /\ Bound(Now, lane[m].pending.task)} = {l}
  BY DEF PendingHasOwner
<1>1. Good(Now) /\ Now.node = node /\ Now.lane = lane
  BY DEF IInv, Now
<1>2. PICK l \in Lanes : Names(Now, l, d) /\ Live(lane[l].pending)
  BY <1>1 DEF Good
<1>3. lane[l].pending.task.dir = d /\ Bound(Now, lane[l].pending.task)
  BY <1>1, <1>2, LiveIsBound DEF Names
<1>4. ASSUME NEW m \in Lanes, Live(lane[m].pending), lane[m].pending.task.dir = d,
             Bound(Now, lane[m].pending.task)
      PROVE  m = l
  <2>1. Names(Now, m, d)
    BY <1>1, <1>4, BoundIsNamed DEF Live
  <2>2. ~(Names(Now, "scan", d) /\ Names(Now, "listing", d))
    BY <1>1 DEF Good
  <2> QED BY <1>2, <2>1, <2>2 DEF Lanes
<1> QED BY <1>2, <1>3, <1>4

\* PendingHasOwner: whatever complete_or_expire, abandon and
\* schedule_current_directory do, a directory shown as pending has exactly one
\* lane that will answer for it or let it expire.
THEOREM OwnerTheorem == Spec => []PendingHasOwner
BY Inductive, GoodHasOwner, PTL

LEMMA GoodIsNotCancelled == IInv => LiveNotCancelled
<1>1. IInv => \A l \in Lanes : LaneOK(lane[l])
  BY DEF IInv, Good, Now
<1> QED BY <1>1 DEF LiveNotCancelled, LaneOK

\* LiveNotCancelled: prepare_detail_rescan and prepare_directory_listing clear
\* the cancellation of the request before, so no live request is cancelled.
THEOREM CancelTheorem == Spec => []LiveNotCancelled
BY Inductive, GoodIsNotCancelled, PTL

-----------------------------------------------------------------------------
(* The tree of the directories *)

LEMMA WayIs ==
    ASSUME NEW x \in Dirs
    PROVE  /\ Way[x] \in Seq(Dirs) /\ Len(Way[x]) \in Nat \ {0} /\ Way[x][Len(Way[x])] = x
           /\ \A i \in 1 .. Len(Way[x]) :
                 /\ Way[x][i] \in Dirs
                 /\ Len(Way[Way[x][i]]) = i
                 /\ Way[Way[x][i]] = SubSeq(Way[x], 1, i)
                 /\ \A j \in 1 .. i : Way[Way[x][i]][j] = Way[x][j]
<1>1. Way[x] \in Seq(Dirs) /\ Way[x] # <<>> /\ Way[x][Len(Way[x])] = x
  BY DetailRescanAssumption
<1>2. \A i \in DOMAIN Way[x] : Way[Way[x][i]] = SubSeq(Way[x], 1, i)
  BY DetailRescanAssumption
<1>3. Len(Way[x]) \in Nat \ {0} /\ DOMAIN Way[x] = 1 .. Len(Way[x])
  BY <1>1
<1>4. ASSUME NEW i \in 1 .. Len(Way[x])
      PROVE  /\ Way[x][i] \in Dirs
             /\ Way[Way[x][i]] = SubSeq(Way[x], 1, i)
             /\ Len(SubSeq(Way[x], 1, i)) = i
             /\ \A j \in 1 .. i : SubSeq(Way[x], 1, i)[j] = Way[x][j]
  <2> DEFINE w == Way[x]
  <2>1. w \in Seq(Dirs) /\ i \in 1 .. Len(w)
    BY <1>1
  <2>2. Way[w[i]] = SubSeq(w, 1, i)
    BY <1>2, <1>3
  <2> HIDE DEF w
  <2>3. Len(SubSeq(w, 1, i)) = i /\ \A j \in 1 .. i : SubSeq(w, 1, i)[j] = w[j]
    BY <2>1
  <2>4. w[i] \in Dirs
    BY <2>1
  <2> QED BY <2>2, <2>3, <2>4 DEF w
<1> QED BY <1>1, <1>3, <1>4

LEMMA InsideIs ==
    ASSUME NEW x \in Dirs, NEW d \in Dirs
    PROVE  Inside(x, d) <=> Len(Way[d]) < Len(Way[x]) /\ Way[x][Len(Way[d])] = d
<1>1. ASSUME Inside(x, d)
      PROVE  Len(Way[d]) < Len(Way[x]) /\ Way[x][Len(Way[d])] = d
  <2>1. PICK i \in 1 .. Len(Way[x]) : Way[x][i] = d
    BY <1>1, WayIs DEF Inside
  <2>2. Len(Way[d]) = i /\ x # d
    BY <1>1, <2>1, WayIs DEF Inside
  <2>3. i # Len(Way[x])
    BY <2>1, <2>2, WayIs
  <2> QED BY <2>1, <2>2, <2>3, WayIs
<1>2. ASSUME Len(Way[d]) < Len(Way[x]), Way[x][Len(Way[d])] = d
      PROVE  Inside(x, d)
  <2>1. Len(Way[d]) \in DOMAIN Way[x]
    BY <1>2, WayIs
  <2>2. x # d
    BY <1>2, WayIs
  <2> QED BY <1>2, <2>1, <2>2 DEF Inside
<1> QED BY <1>1, <1>2

\* What is above a directory is above what is inside it.
LEMMA InsideAbove ==
    ASSUME NEW x \in Dirs, NEW d \in Dirs, NEW e \in Dirs, Inside(x, d)
    PROVE  /\ Inside(d, e) => Inside(x, e)
           /\ Inside(x, e) => d = e \/ Inside(d, e) \/ Inside(e, d)
<1> DEFINE w == Way[x]
           a == Len(Way[d])
           b == Len(Way[e])
<1>1. a \in Nat \ {0} /\ b \in Nat \ {0} /\ Len(w) \in Nat \ {0}
  BY WayIs
<1>2. a < Len(w) /\ w[a] = d
  BY InsideIs
<1>3. \A j \in 1 .. a : Way[d][j] = w[j]
  <2>1. a \in 1 .. Len(Way[x]) /\ Way[x][a] = d
    BY <1>1, <1>2
  <2>2. \A j \in 1 .. a : Way[Way[x][a]][j] = Way[x][j]
    BY <2>1, WayIs
  <2> QED BY <2>1, <2>2
<1>4. ASSUME Inside(d, e) PROVE Inside(x, e)
  <2>1. b < a /\ Way[d][b] = e
    BY <1>4, InsideIs
  <2>2. b < Len(w) /\ w[b] = e
    BY <2>1, <1>1, <1>2, <1>3
  <2> QED BY <2>2, InsideIs
<1>5. ASSUME Inside(x, e) PROVE d = e \/ Inside(d, e) \/ Inside(e, d)
  <2>1. b < Len(w) /\ w[b] = e
    BY <1>5, InsideIs
  <2>2. CASE a = b
    BY <2>1, <2>2, <1>2
  <2>3. CASE b < a
    <3>1. Way[d][b] = e
      BY <2>1, <2>3, <1>1, <1>3
    <3> QED BY <3>1, <2>3, InsideIs
  <2>4. CASE a < b
    <3>1. Way[e][a] = w[a]
      <4>1. b \in 1 .. Len(Way[x]) /\ Way[x][b] = e /\ a \in 1 .. b
        BY <2>1, <2>4, <1>1
      <4>2. \A j \in 1 .. b : Way[Way[x][b]][j] = Way[x][j]
        BY <4>1, WayIs
      <4> QED BY <4>1, <4>2
    <3> QED BY <3>1, <2>4, <1>2, InsideIs
  <2> QED BY <2>2, <2>3, <2>4, <1>1
<1> QED BY <1>4, <1>5

\* Nothing is between a directory and its child.
LEMMA ChildIs ==
    ASSUME NEW c \in Dirs, NEW x \in Children(c), NEW a \in Dirs
    PROVE  /\ x \in Dirs /\ Inside(x, c) /\ x # c
           /\ Inside(x, a) => a = c \/ Inside(c, a)
           /\ ~(Inside(a, c) /\ Inside(x, a))
<1>1. x \in Dirs /\ Inside(x, c) /\ Len(Way[x]) = Len(Way[c]) + 1
  BY DEF Children
<1>2. ~(Inside(a, c) /\ Inside(x, a))
  <2>1. SUFFICES ASSUME Inside(a, c), Inside(x, a) PROVE FALSE
    OBVIOUS
  <2>2. Len(Way[c]) < Len(Way[a]) /\ Len(Way[a]) < Len(Way[x])
    BY <2>1, <1>1, InsideIs
  <2> QED BY <2>2, <1>1, WayIs
<1>3. x # c
  BY <1>1 DEF Inside
<1> QED BY <1>1, <1>2, <1>3, InsideAbove

\* The levels entered: each is inside the one above, and whatever is above one is one.
LEMMA PathIs ==
    ASSUME NEW h \in Dirs, NEW i \in 1 .. Len(Way[h])
    PROVE  /\ Way[h][i] = h \/ Inside(h, Way[h][i])
           /\ \A e \in Dirs : Inside(Way[h][i], e) => e \in Range(Way[h])
           /\ \A j \in 1 .. Len(Way[h]) : j < i => Inside(Way[h][i], Way[h][j])
<1> DEFINE x == Way[h][i]
<1>1. /\ x \in Dirs /\ Len(Way[x]) = i /\ \A j \in 1 .. i : Way[x][j] = Way[h][j]
      /\ Len(Way[h]) \in Nat \ {0} /\ Way[h] \in Seq(Dirs)
      /\ \A j \in 1 .. Len(Way[h]) : Way[h][j] \in Dirs /\ Len(Way[Way[h][j]]) = j
  BY WayIs
<1> HIDE DEF x
<1>2. x = h \/ Inside(h, x)
  BY <1>1 DEF Inside, x
<1>3. ASSUME NEW e \in Dirs, Inside(x, e) PROVE e \in Range(Way[h])
  <2>1. Len(Way[e]) < i /\ Way[x][Len(Way[e])] = e /\ Len(Way[e]) \in Nat \ {0}
    BY <1>1, <1>3, InsideIs, WayIs
  <2>2. Len(Way[e]) \in DOMAIN Way[h] /\ Way[h][Len(Way[e])] = e
    BY <1>1, <2>1
  <2> QED BY <2>2 DEF Range
<1>4. ASSUME NEW j \in 1 .. Len(Way[h]), j < i PROVE Inside(x, Way[h][j])
  <2>1. Way[h][j] \in Dirs /\ Len(Way[Way[h][j]]) = j /\ Way[x][j] = Way[h][j]
    BY <1>1, <1>4
  <2> QED BY <2>1, <1>1, <1>4, InsideIs
<1> QED BY <1>2, <1>3, <1>4 DEF x

-----------------------------------------------------------------------------
(* Steps that rebuild nothing *)

SameAnswer(s, v, l) ==
    v.lane[l].completion # None =>
        /\ s.lane[l].completion # None
        /\ v.lane[l].completion.task = s.lane[l].completion.task
        /\ v.lane[l].completion.result = s.lane[l].completion.result

\* A request waited for in v was so in s, or is a new one as it has to be.
Backed(s, v, l, d) ==
    Names(v, l, d) /\ Live(v.lane[l].pending) =>
        \/ /\ Names(s, l, d) /\ Live(s.lane[l].pending)
           /\ v.lane[l].pending.task = s.lane[l].pending.task
           /\ v.node[d].listing = s.node[d].listing
        \/ /\ v.node[d].listing <=> v.lane[l].pending.task.reason # "sum"
           /\ l = "listing" => v.path # <<>> /\ d = Here(v)

\* v is s after a step that neither replaces a node nor closes a level.
Calm(s, v) ==
    /\ v.path = s.path
    /\ \A d \in Dirs : v.node[d].id = s.node[d].id
    /\ \A d \in Dirs : s.node[d].id = 0 => v.node[d].mode = s.node[d].mode
    /\ \A l \in Lanes : SameAnswer(s, v, l)
    /\ \A l \in Lanes, d \in Dirs : Backed(s, v, l, d)

\* No failure is cleared.
Firm(s, v) == \A d \in Dirs : s.node[d].mode = "stale" => v.node[d].mode = "stale"

LEMMA CalmKeepsTree ==
    ASSUME NEW s, NEW v, TreeOK(s), Calm(s, v)
    PROVE  TreeOK(v)
<1>1. v.path = s.path /\ Here(v) = Here(s)
  BY DEF Calm, Here
<1>2. v.path # <<>> => v.path = Way[Here(v)]
  BY <1>1 DEF TreeOK
<1>3. \A d \in Dirs : v.node[d].id = 0 => v.node[d].mode = "snapshot"
  BY DEF Calm, TreeOK
<1>4. ASSUME NEW l \in Lanes, NEW d \in Dirs PROVE SaysListing(v, l, d)
  <2>1. Backed(s, v, l, d) /\ SaysListing(s, l, d)
    BY DEF Calm, TreeOK
  <2> QED BY <2>1 DEF Backed, SaysListing
<1>5. ASSUME NEW l \in Lanes PROVE RowsOK(v.lane[l].completion)
  <2>1. SameAnswer(s, v, l) /\ RowsOK(s.lane[l].completion)
    BY DEF Calm, TreeOK
  <2> QED BY <2>1 DEF SameAnswer, RowsOK
<1> QED BY <1>2, <1>3, <1>4, <1>5 DEF TreeOK

LEMMA CalmKeeps ==
    ASSUME NEW s, NEW v, WayOK(s), Calm(s, v)
    PROVE  WayOK(v)
<1>1. TreeOK(v)
  BY CalmKeepsTree DEF WayOK
<1>2. ASSUME NEW d \in Dirs PROVE ListsHere(v, d)
  <2>1. "listing" \in Lanes /\ v.path = s.path /\ Here(v) = Here(s)
    BY DEF Lanes, Calm, Here
  <2>2. Backed(s, v, "listing", d) /\ ListsHere(s, d)
    BY <2>1 DEF Calm, WayOK
  <2> QED BY <2>1, <2>2 DEF Backed, ListsHere
<1> QED BY <1>1, <1>2 DEF WayOK

LEMMA CalmThenCalm ==
    ASSUME NEW s, NEW u, NEW v, Calm(s, u), Calm(u, v)
    PROVE  Calm(s, v)
<1>1. v.path = s.path /\ u.path = v.path /\ Here(u) = Here(v)
  BY DEF Calm, Here
<1>2. \A d \in Dirs : v.node[d].id = s.node[d].id
                      /\ (s.node[d].id = 0 => v.node[d].mode = s.node[d].mode)
  BY DEF Calm
<1>3. ASSUME NEW l \in Lanes PROVE SameAnswer(s, v, l)
  <2>1. SameAnswer(s, u, l) /\ SameAnswer(u, v, l)
    BY DEF Calm
  <2> QED BY <2>1 DEF SameAnswer
<1>4. ASSUME NEW l \in Lanes, NEW d \in Dirs PROVE Backed(s, v, l, d)
  <2>1. Backed(s, u, l, d) /\ Backed(u, v, l, d)
    BY DEF Calm
  <2> QED BY <2>1, <1>1 DEF Backed
<1> QED BY <1>1, <1>2, <1>3, <1>4 DEF Calm

LEMMA CalmSelf == ASSUME NEW s PROVE Calm(s, s) /\ Firm(s, s)
BY DEF Calm, Firm, SameAnswer, Backed

\* A step of this kind that makes no request.
LEMMA CalmBy ==
    ASSUME NEW s, NEW v, v.path = s.path,
           \A d \in Dirs : v.node[d].id = s.node[d].id /\ v.node[d].listing = s.node[d].listing,
           \A d \in Dirs : s.node[d].id = 0 => v.node[d].mode = s.node[d].mode,
           \A l \in Lanes : SameAnswer(s, v, l),
           \A l \in Lanes : v.lane[l].pending # None /\ Live(v.lane[l].pending) =>
               /\ s.lane[l].pending # None /\ Live(s.lane[l].pending)
               /\ v.lane[l].pending.task = s.lane[l].pending.task
    PROVE  Calm(s, v)
<1>1. \A l \in Lanes, d \in Dirs : Backed(s, v, l, d)
  BY DEF Backed, Names
<1> QED BY <1>1 DEF Calm

LEMMA TakenCalm ==
    ASSUME NEW s \in States, NEW l \in Lanes
    PROVE  Calm(s, Taken(s, l)) /\ Firm(s, Taken(s, l))
<1> DEFINE v == Taken(s, l)
<1>1. /\ v.node = s.node /\ v.path = s.path
      /\ v.lane = [s.lane EXCEPT ![l] = [@ EXCEPT !.pending = None, !.completion = None]]
  BY TakenIs
<1> HIDE DEF v
<1>2. s.lane \in [Lanes -> LaneRecords] /\ s.lane[l] \in LaneRecords
  BY DEF States
<1>3. /\ v.lane[l].pending = None /\ v.lane[l].completion = None
      /\ \A m \in Lanes \ {l} : v.lane[m] = s.lane[m]
  BY <1>1, <1>2 DEF LaneRecords
<1>4. \A m \in Lanes : SameAnswer(s, v, m)
  BY <1>3 DEF SameAnswer
<1>5. \A m \in Lanes : v.lane[m].pending # None => v.lane[m] = s.lane[m]
  BY <1>3
<1>6. \A m \in Lanes : v.lane[m].pending # None /\ Live(v.lane[m].pending) =>
          /\ s.lane[m].pending # None /\ Live(s.lane[m].pending)
          /\ v.lane[m].pending.task = s.lane[m].pending.task
  BY <1>5
<1>7. v.path = s.path /\ \A d \in Dirs : v.node[d] = s.node[d]
  BY <1>1
<1>8. Calm(s, v)
  BY <1>4, <1>6, <1>7, CalmBy
<1>9. Firm(s, v)
  BY <1>1 DEF Firm
<1> QED BY <1>8, <1>9 DEF v

LEMMA FailCalm ==
    ASSUME NEW s \in States, NEW t \in Tasks
    PROVE  Calm(s, Fail(s, t)) /\ Firm(s, Fail(s, t))
<1> DEFINE v == Fail(s, t)
           n == [s.node[t.dir] EXCEPT !.mode = "stale"]
<1>1. CASE ~Bound(s, t)
  <2>1. v = s
    BY <1>1 DEF Fail
  <2> QED BY <2>1, CalmSelf
<1>2. CASE Bound(s, t)
  <2>1. v.path = s.path /\ v.lane = s.lane /\ v.node = [s.node EXCEPT ![t.dir] = n]
    BY <1>2, FailIs
  <2>2. s.node \in [Dirs -> Nodes] /\ t.dir \in Dirs /\ s.node[t.dir] \in Nodes
        /\ s.node[t.dir].id = t.id /\ t.id # 0
    BY <1>2 DEF States, Tasks, Bound
  <2>3. n.id = s.node[t.dir].id /\ n.listing = s.node[t.dir].listing /\ n.mode = "stale"
    BY <2>2, ZenonT(60) DEF Nodes
  <2> HIDE DEF v, n
  <2>4. v.node[t.dir] = n /\ \A d \in Dirs \ {t.dir} : v.node[d] = s.node[d]
    BY <2>1, <2>2
  <2>5. \A d \in Dirs : v.node[d].id = s.node[d].id /\ v.node[d].listing = s.node[d].listing
    BY <2>3, <2>4
  <2>6. \A d \in Dirs : s.node[d].id = 0 => v.node[d].mode = s.node[d].mode
    BY <2>2, <2>4
  <2>7. \A l \in Lanes : SameAnswer(s, v, l)
    BY <2>1 DEF SameAnswer
  <2>8. Calm(s, v)
    BY <2>1, <2>5, <2>6, <2>7, CalmBy
  <2>9. Firm(s, v)
    BY <2>3, <2>4 DEF Firm
  <2> QED BY <2>8, <2>9 DEF v
<1> QED BY <1>1, <1>2

\* The worker of a request that is not waited for any more is told to stop.
LEMMA ClosingCalm ==
    ASSUME NEW s \in States, NEW l \in Lanes, NEW q \in Pendings, ~Live(q),
           NEW v, v.node = s.node, v.path = s.path, v.lane = Closing(s, l, q)
    PROVE  Calm(s, v)
<1>1. s.lane \in [Lanes -> LaneRecords] /\ s.lane[l] \in LaneRecords
  BY DEF States
<1>2. /\ v.lane[l].pending = q /\ v.lane[l].completion = s.lane[l].completion
      /\ \A m \in Lanes \ {l} : v.lane[m] = s.lane[m]
  BY <1>1 DEF Closing, LaneRecords
<1>3. \A m \in Lanes : SameAnswer(s, v, m)
  BY <1>2 DEF SameAnswer
<1>4. \A m \in Lanes : Live(v.lane[m].pending) => v.lane[m] = s.lane[m]
  BY <1>2
<1> QED BY <1>3, <1>4, CalmBy

\* The deadline of a request has passed.
LEMMA ExpireCalm ==
    ASSUME NEW s, Good(s), NEW l \in Lanes, s.lane[l].pending # None,
           NEW v, v = [Fail(s, s.lane[l].pending.task) EXCEPT
                          !.lane[l].pending.timedOut = TRUE, !.lane[l].cancelled = TRUE]
    PROVE  Calm(s, v) /\ Firm(s, v)
<1> DEFINE p == s.lane[l].pending
           u == Fail(s, p.task)
           q == [p EXCEPT !.timedOut = TRUE]
<1>1. s \in States /\ p \in Pendings /\ p.task \in Tasks
  BY RequestTypes DEF Good
<1>2. u \in States /\ u.lane = s.lane /\ Calm(s, u) /\ Firm(s, u)
  BY <1>1, FailIs, FailCalm
<1>3. v = Expired(u, l)
  BY DEF Expired
<1>4. q \in Pendings /\ ~Live(q)
  BY <1>1 DEF Pendings, Live
<1> HIDE DEF u
<1>5. v.node = u.node /\ v.path = u.path /\ v.lane = Closing(u, l, q)
  <2>1. p \in Pendings /\ p = u.lane[l].pending
    BY <1>1, <1>2
  <2>2. l \in Lanes /\ u \in States
    BY <1>2
  <2> HIDE DEF p
  <2>3. /\ Expired(u, l).node = u.node /\ Expired(u, l).path = u.path
        /\ Expired(u, l).lane = Closing(u, l, [p EXCEPT !.timedOut = TRUE])
    BY <2>1, <2>2, ExpireIs
  <2> QED BY <2>3, <1>3
<1> HIDE DEF q
<1>6. Calm(u, v)
  BY <1>2, <1>4, <1>5, ClosingCalm
<1>7. Calm(s, v)
  BY <1>2, <1>6, CalmThenCalm
<1>8. Firm(s, v)
  BY <1>2, <1>5 DEF Firm
<1> QED BY <1>7, <1>8

\* The listing of a directory that was left.
LEMMA AbandonCalm ==
    ASSUME NEW s, Good(s), s.lane["listing"].pending # None
    PROVE  /\ Calm(s, Abandoned(s)) /\ Firm(s, Abandoned(s))
           /\ ~Live(Abandoned(s).lane["listing"].pending)
<1> DEFINE l == "listing"
           p == s.lane[l].pending
           t == p.task
           n == [s.node[t.dir] EXCEPT !.mode = p.mode, !.rev = p.rev]
           u == IF Bound(s, t)
                THEN [s EXCEPT !.node[t.dir].mode = p.mode, !.node[t.dir].rev = p.rev]
                ELSE s
           q == [p EXCEPT !.abandoned = TRUE]
           v == [u EXCEPT !.lane[l].pending.abandoned = TRUE, !.lane[l].cancelled = TRUE]
<1>1. l \in Lanes /\ s \in States /\ p \in Pendings /\ t \in Tasks /\ t.dir \in Dirs /\ t.id # 0
  <2>1. l \in Lanes
    BY DEF Lanes
  <2>2. p \in Pendings /\ t \in Tasks /\ t.dir \in Dirs
    BY <2>1, RequestTypes
  <2> QED BY <2>1, <2>2 DEF Good, Tasks
<1>2. s.node \in [Dirs -> Nodes] /\ s.node[t.dir] \in Nodes /\ p.mode \in Modes /\ p.rev \in Nat
  BY <1>1 DEF States, Pendings
<1>3. Abandoned(s) = IF p.abandoned THEN s ELSE v
  BY DEF Abandoned
<1>4. Bound(s, t) => /\ u.lane = s.lane /\ u.path = s.path /\ u.node = [s.node EXCEPT ![t.dir] = n]
                     /\ u = [s EXCEPT !.node = [s.node EXCEPT ![t.dir] = n]]
  BY <1>1, <1>2 DEF States
<1>5. n \in Nodes /\ n.id = s.node[t.dir].id /\ n.listing = s.node[t.dir].listing
  BY <1>2, ZenonT(60) DEF Nodes
<1>6. ~Bound(s, t) => u = s
  OBVIOUS
<1> HIDE DEF n, u
<1>7. u \in States /\ u.lane = s.lane /\ Calm(s, u) /\ Firm(s, u)
  <2>1. CASE ~Bound(s, t)
    BY <2>1, <1>1, <1>6, CalmSelf
  <2>2. CASE Bound(s, t)
    <3>1. u.node[t.dir] = n /\ \A d \in Dirs \ {t.dir} : u.node[d] = s.node[d]
      BY <2>2, <1>1, <1>2, <1>4
    <3>2. s.node[t.dir].mode = "pending" /\ s.node[t.dir].id # 0
      BY <2>2, <1>1 DEF Bound
    <3>3. [s.node EXCEPT ![t.dir] = n] \in [Dirs -> Nodes]
      BY <1>2, <1>5
    <3>4. u \in States /\ u.lane = s.lane /\ u.path = s.path
      BY <2>2, <3>3, <1>1, <1>4 DEF States
    <3>5. \A d \in Dirs : u.node[d].id = s.node[d].id /\ u.node[d].listing = s.node[d].listing
      BY <3>1, <1>5
    <3>6. \A d \in Dirs : s.node[d].id = 0 => u.node[d].mode = s.node[d].mode
      BY <3>1, <3>2
    <3>7. \A m \in Lanes : SameAnswer(s, u, m)
      BY <3>4 DEF SameAnswer
    <3>8. Calm(s, u)
      BY <3>4, <3>5, <3>6, <3>7, CalmBy
    <3>9. Firm(s, u)
      BY <3>1, <3>2 DEF Firm
    <3> QED BY <3>4, <3>8, <3>9
  <2> QED BY <2>1, <2>2
<1>8. v.node = u.node /\ v.path = u.path /\ v.lane = Closing(u, l, q)
  <2>1. v = GivenUp(u, l)
    BY DEF GivenUp
  <2>2. p \in Pendings /\ p = u.lane[l].pending
    BY <1>1, <1>7
  <2> HIDE DEF p, v
  <2> QED BY <2>1, <2>2, <1>1, <1>7, AbandonIs
<1>9. q \in Pendings /\ ~Live(q) /\ (p.abandoned => ~Live(p))
  BY <1>1 DEF Pendings, Live
<1> HIDE DEF q, v
<1>10. Calm(u, v)
  BY <1>1, <1>7, <1>8, <1>9, ClosingCalm
<1>11. Calm(s, v)
  BY <1>7, <1>10, CalmThenCalm
<1>12. Firm(s, v)
  BY <1>7, <1>8 DEF Firm
<1>13. v.lane[l].pending = q
  <2>1. u.lane \in [Lanes -> LaneRecords] /\ u.lane[l] \in LaneRecords
    BY <1>1, <1>7 DEF States
  <2> QED BY <2>1, <1>1, <1>8 DEF Closing, LaneRecords
<1>14. CASE p.abandoned
  BY <1>3, <1>9, <1>14, CalmSelf
<1>15. CASE ~p.abandoned
  BY <1>3, <1>9, <1>11, <1>12, <1>13, <1>15
<1> QED BY <1>14, <1>15

-----------------------------------------------------------------------------
(* Requests *)

AskedNode(n, reason) == [n EXCEPT !.mode = "pending", !.rev = @ + 1, !.listing = reason # "sum"]

AskedTask(s, d, reason, g) ==
    [dir |-> d, id |-> s.node[d].id, rev |-> s.node[d].rev + 1, reason |-> reason, gen |-> g]

AskedPending(s, d, reason, g) ==
    [task |-> AskedTask(s, d, reason, g), mode |-> s.node[d].mode, rev |-> s.node[d].rev,
     sizeRefresh |-> reason = "list" /\ s.node[d].catchUp,
     late |-> FALSE, timedOut |-> FALSE, abandoned |-> FALSE]

\* What a request that is refused and one that is accepted change.
Refused(s, l, d, reason, v) ==
    /\ v.node = [s.node EXCEPT ![d] = [AskedNode(s.node[d], reason) EXCEPT !.mode = "stale"]]
    /\ v.lane = [s.lane EXCEPT ![l] = [@ EXCEPT !.cancelled = FALSE]]

Accepted(s, l, d, reason, g, v) ==
    /\ s.lane[l].worker # "dead"
    /\ v.node = [s.node EXCEPT ![d] = AskedNode(s.node[d], reason)]
    /\ v.lane = [s.lane EXCEPT ![l] = [@ EXCEPT !.cancelled = FALSE,
                                               !.request = AskedTask(s, d, reason, g),
                                               !.pending = AskedPending(s, d, reason, g)]]

LEMMA AskIs ==
    ASSUME NEW s \in States, NEW l \in Lanes, NEW d \in Dirs, NEW reason \in Reasons, NEW g \in Nat,
           Present(s, d), NEW v, v = Ask(s, l, d, reason, g)
    PROVE  /\ v \in States /\ v.path = s.path
           /\ AskedTask(s, d, reason, g) \in Tasks /\ AskedPending(s, d, reason, g) \in Pendings
           /\ AskedNode(s.node[d], reason) \in Nodes
           /\ Refused(s, l, d, reason, v) \/ Accepted(s, l, d, reason, g, v)
<1> DEFINE n == s.node[d]
           t == AskedTask(s, d, reason, g)
           p == AskedPending(s, d, reason, g)
           n1 == AskedNode(n, reason)
           s1 == [s EXCEPT !.node[d].mode = "pending", !.node[d].rev = @ + 1,
                           !.node[d].listing = reason # "sum"]
           s2 == [s1 EXCEPT !.lane[l].cancelled = FALSE]
           s3 == [s2 EXCEPT !.lane[l].request = p.task, !.lane[l].pending = p]
<1>1. /\ s.node \in [Dirs -> Nodes] /\ n \in Nodes
      /\ s.lane \in [Lanes -> LaneRecords] /\ s.lane[l] \in LaneRecords /\ n.id # 0
  BY DEF States, Present
<1>2. n1 \in Nodes /\ n1.id = n.id /\ n1.mode = "pending" /\ n1.rev = n.rev + 1
  <2>1. (reason # "sum") \in BOOLEAN /\ n.rev \in Nat /\ n.rev + 1 \in Nat
    BY <1>1 DEF Nodes
  <2> QED BY <1>1, <2>1 DEF Nodes, Modes, AskedNode
<1>3. t \in Tasks /\ t.dir = d /\ t.id = n.id /\ t.rev = n.rev + 1
  BY <1>1 DEF Tasks, Nodes, AskedTask
<1>4. p \in Pendings /\ p.task = t
  <2>1. (reason = "list" /\ n.catchUp) \in BOOLEAN
    OBVIOUS
  <2>2. p = [task |-> t, mode |-> n.mode, rev |-> n.rev, sizeRefresh |-> reason = "list" /\ n.catchUp,
             late |-> FALSE, timedOut |-> FALSE, abandoned |-> FALSE]
    BY DEF AskedPending
  <2> HIDE DEF t, p
  <2> QED BY <1>1, <1>3, <2>1, <2>2 DEF Pendings, Nodes
<1>5. v = IF s2.lane[l].request = None /\ s2.lane[l].worker # "dead" THEN s3 ELSE Fail(s2, t)
  <2>1. p.task = t
    BY <1>4
  <2>2. s2.lane[l].request = s1.lane[l].request /\ s2.lane[l].worker = s1.lane[l].worker
    BY <1>1 DEF States, LaneRecords
  <2> QED BY <2>1, <2>2 DEF Ask, Submit, AskedTask, AskedPending
<1>6. s1.node = [s.node EXCEPT ![d] = n1] /\ s1.path = s.path /\ s1.lane = s.lane
      /\ s1 = [s EXCEPT !.node = [s.node EXCEPT ![d] = n1]]
  BY <1>1, ZenonT(60) DEF States, Nodes, AskedNode
<1> HIDE DEF s1, p, t, n1
<1>7. s1 \in States
  <2>1. [s.node EXCEPT ![d] = n1] \in [Dirs -> Nodes]
    BY <1>1, <1>2
  <2> QED BY <1>1, <1>6, <2>1 DEF States
<1> DEFINE free == [s.lane[l] EXCEPT !.cancelled = FALSE]
           asked == [s.lane[l] EXCEPT !.cancelled = FALSE, !.request = t, !.pending = p]
<1>8. free \in LaneRecords /\ asked \in LaneRecords /\ free.worker = s.lane[l].worker
  BY <1>1, <1>3, <1>4 DEF LaneRecords
<1>9. /\ s2.node = s1.node /\ s2.path = s.path /\ s2.lane = [s.lane EXCEPT ![l] = free]
      /\ s2 = [s1 EXCEPT !.lane = [s.lane EXCEPT ![l] = free]]
  BY <1>1, <1>6, <1>7 DEF States, LaneRecords
<1>10. s2 \in States /\ s2.lane[l] = free
  <2>1. [s.lane EXCEPT ![l] = free] \in [Lanes -> LaneRecords]
    BY <1>1, <1>8
  <2> HIDE DEF free, s2
  <2> QED BY <1>1, <1>7, <1>9, <2>1 DEF States
<1>11. s3.node = s1.node /\ s3.path = s.path /\ s3.lane = [s.lane EXCEPT ![l] = asked]
       /\ s3 = [s1 EXCEPT !.lane = [s.lane EXCEPT ![l] = asked]]
  <2>1. asked = [free EXCEPT !.request = t, !.pending = p]
    BY <1>1 DEF LaneRecords
  <2>2. s3 = [s2 EXCEPT !.lane[l].request = t, !.lane[l].pending = p]
    BY <1>4
  <2> HIDE DEF s2, s3, free
  <2>3. free = s2.lane[l] /\ s2.lane \in [Lanes -> LaneRecords]
    BY <1>10 DEF States
  <2>4. s3.node = s2.node /\ s3.path = s2.path
    BY <2>2, <1>10 DEF States
  <2>5. s3.lane = [s2.lane EXCEPT ![l].request = t, ![l].pending = p]
    BY <2>2, <1>10 DEF States
  <2>6. [s2.lane EXCEPT ![l].request = t, ![l].pending = p]
           = [s2.lane EXCEPT ![l] = [free EXCEPT !.request = t, !.pending = p]]
    BY <2>3, <1>8 DEF LaneRecords
  <2>7. s3 = [s2 EXCEPT !.lane = [s2.lane EXCEPT ![l].request = t, ![l].pending = p]]
    BY <2>2, <1>10 DEF States
  <2>8. [s2.lane EXCEPT ![l] = asked] = [s.lane EXCEPT ![l] = asked]
    BY <1>1, <1>9
  <2> HIDE DEF asked
  <2>9. s3 = [s1 EXCEPT !.lane = [s.lane EXCEPT ![l] = asked]]
    <3>1. s3 = [s2 EXCEPT !.lane = [s.lane EXCEPT ![l] = asked]]
      BY <2>1, <2>6, <2>7, <2>8
    <3> DEFINE lanes == [s.lane EXCEPT ![l] = asked]
               others == [s.lane EXCEPT ![l] = free]
    <3>2. s3 = [s2 EXCEPT !.lane = lanes] /\ s2 = [s1 EXCEPT !.lane = others]
      BY <3>1, <1>9
    <3> HIDE DEF lanes, others
    <3>3. s3 = [s1 EXCEPT !.lane = lanes]
      BY <3>2, <1>7 DEF States
    <3> QED BY <3>3 DEF lanes
  <2> QED BY <2>1, <2>4, <2>5, <2>6, <2>8, <2>9, <1>9
<1>12. s3 \in States
  <2>1. [s.lane EXCEPT ![l] = asked] \in [Lanes -> LaneRecords]
    BY <1>1, <1>8
  <2> HIDE DEF asked, s3
  <2> QED BY <1>7, <1>11, <2>1 DEF States
<1> HIDE DEF s2, s3
<1>13. CASE v = Fail(s2, t)
  <2>1. Bound(s2, t)
    <3>1. s2.node[d] = n1
      BY <1>1, <1>6, <1>9
    <3> QED BY <3>1, <1>2, <1>3 DEF Bound
  <2>2. v \in States /\ v.path = s2.path /\ v.lane = s2.lane
        /\ v.node = [s2.node EXCEPT ![d] = [@ EXCEPT !.mode = "stale"]]
    <3>1. s2 \in States /\ t \in Tasks /\ t.dir = d
      BY <1>3, <1>10
    <3>2. /\ Fail(s2, t) \in States
          /\ Fail(s2, t).path = s2.path /\ Fail(s2, t).lane = s2.lane
          /\ Fail(s2, t).node = [s2.node EXCEPT ![t.dir] = [@ EXCEPT !.mode = "stale"]]
      BY <3>1, <2>1, FailIs
    <3> QED BY <3>1, <3>2, <1>13
  <2>3. v.node = [s.node EXCEPT ![d] = [n1 EXCEPT !.mode = "stale"]]
    BY <2>2, <1>1, <1>6, <1>9
  <2>4. Refused(s, l, d, reason, v)
    BY <2>2, <2>3, <1>1, <1>9 DEF Refused, n1
  <2> QED BY <2>2, <2>4, <1>2, <1>3, <1>4, <1>9 DEF p, t, n1
<1>14. CASE v = s3 /\ s.lane[l].worker # "dead"
  <2>1. v.node = [s.node EXCEPT ![d] = n1] /\ v.path = s.path /\ v.lane = [s.lane EXCEPT ![l] = asked]
    BY <1>6, <1>11, <1>14
  <2>2. Accepted(s, l, d, reason, g, v)
    BY <2>1, <1>1, <1>14 DEF Accepted, n1, t, p
  <2> QED BY <2>1, <2>2, <1>2, <1>3, <1>4, <1>12, <1>14 DEF p, t, n1
<1> QED BY <1>5, <1>8, <1>10, <1>13, <1>14

\* A request as the reducer makes it: the listings on their lane are of the directory shown.
LEMMA AskCalm ==
    ASSUME NEW s \in States, NEW l \in Lanes, NEW d \in Dirs, NEW reason \in Reasons, NEW g \in Nat,
           Present(s, d), s.lane[l].completion = None,
           l = "listing" => s.path # <<>> /\ d = Here(s),
           \A m \in Lanes : ~Names(s, m, d), Free(s, l),
           NEW v, v = Ask(s, l, d, reason, g)
    PROVE  /\ Calm(s, v)
           /\ s.node[d].mode # "stale" => Firm(s, v)
<1> DEFINE n == s.node[d]
           n1 == AskedNode(n, reason)
           n2 == [n1 EXCEPT !.mode = "stale"]
           p == AskedPending(s, d, reason, g)
<1>1. /\ v \in States /\ v.path = s.path /\ p \in Pendings
      /\ Refused(s, l, d, reason, v) \/ Accepted(s, l, d, reason, g, v)
  BY AskIs
<1>2. s.node \in [Dirs -> Nodes] /\ n \in Nodes /\ n.id # 0
      /\ s.lane \in [Lanes -> LaneRecords] /\ s.lane[l] \in LaneRecords
  BY DEF States, Present
<1>3. n1.id = n.id /\ (n1.listing <=> reason # "sum") /\ n1 \in Nodes
  <2>1. n1 \in Nodes
    BY AskIs
  <2> QED BY <2>1, <1>2 DEF Nodes, AskedNode
<1> HIDE DEF n1
<1>4. n2.id = n.id /\ n2.mode = "stale"
  BY <1>3, ZenonT(60) DEF Nodes
<1> HIDE DEF n2
<1>5. /\ v.node[d] \in {n1, n2}
      /\ \A x \in Dirs \ {d} : v.node[x] = s.node[x]
      /\ \A m \in Lanes \ {l} : v.lane[m] = s.lane[m]
      /\ v.lane[l].completion = None
      /\ \/ v.lane[l].pending = None
         \/ v.lane[l].pending = p /\ v.node[d] = n1
  <2>1. CASE Refused(s, l, d, reason, v)
    <3>1. v.node = [s.node EXCEPT ![d] = n2] /\ v.lane = [s.lane EXCEPT ![l] = [@ EXCEPT !.cancelled = FALSE]]
      BY <2>1 DEF Refused, n1, n2
    <3>2. v.lane[l].pending = None /\ v.lane[l].completion = None
      BY <3>1, <1>2 DEF LaneRecords, Free
    <3> QED BY <3>1, <3>2, <1>2
  <2>2. CASE Accepted(s, l, d, reason, g, v)
    <3>1. v.node = [s.node EXCEPT ![d] = n1]
          /\ v.lane = [s.lane EXCEPT ![l] = [@ EXCEPT !.cancelled = FALSE,
                                                     !.request = AskedTask(s, d, reason, g),
                                                     !.pending = p]]
      BY <2>2 DEF Accepted, n1
    <3> HIDE DEF p
    <3>2. v.lane[l].pending = p /\ v.lane[l].completion = None
      BY <3>1, <1>2 DEF LaneRecords
    <3> QED BY <3>1, <3>2, <1>2
  <2> QED BY <1>1, <2>1, <2>2
<1>6. p.task.reason = reason /\ p.task.dir = d
  BY DEF AskedPending, AskedTask
<1> HIDE DEF p
<1>7. \A x \in Dirs : v.node[x].id = s.node[x].id
  BY <1>3, <1>4, <1>5
<1>8. \A x \in Dirs : s.node[x].id = 0 => v.node[x].mode = s.node[x].mode
  BY <1>2, <1>5
<1>9. \A m \in Lanes : SameAnswer(s, v, m)
  BY <1>5 DEF SameAnswer
<1>10. ASSUME NEW m \in Lanes, NEW x \in Dirs PROVE Backed(s, v, m, x)
  <2>1. CASE m = l
    <3>1. Here(v) = Here(s)
      BY <1>1 DEF Here
    <3> QED BY <2>1, <3>1, <1>1, <1>3, <1>5, <1>6 DEF Backed, Names
  <2>2. CASE m # l
    <3>1. v.lane[m] = s.lane[m]
      BY <2>2, <1>5
    <3>2. Names(v, m, x) => Names(s, m, x) /\ x # d
      BY <3>1, <1>7 DEF Names
    <3> QED BY <3>1, <3>2, <1>5 DEF Backed
  <2> QED BY <2>1, <2>2
<1>11. Calm(s, v)
  BY <1>1, <1>7, <1>8, <1>9, <1>10 DEF Calm
<1>12. s.node[d].mode # "stale" => Firm(s, v)
  BY <1>5 DEF Firm
<1> QED BY <1>11, <1>12

LEMMA StartListingCalm ==
    ASSUME NEW s, Good(s), s.path # <<>>, NEW d \in Dirs, d = Here(s), Free(s, "listing"),
           MayAsk(s.node[d]), Present(s, d), gen \in Nat
    PROVE  Calm(s, StartListing(s, d)) /\ Firm(s, StartListing(s, d))
<1>1. \A m \in Lanes : ~Names(s, m, d)
  BY NobodyNames
<1>2. /\ s \in States /\ s.node \in [Dirs -> Nodes] /\ s.node[d] \in Nodes
      /\ s.lane \in [Lanes -> LaneRecords] /\ "listing" \in Lanes /\ "list" \in Reasons
      /\ s.node[d].id # 0 /\ s.node[d].mode # "stale"
  BY DEF Good, States, Lanes, Reasons, Present, MayAsk
<1>3. s.lane["listing"].pending = None /\ s.lane["listing"].completion = None
  BY <1>2 DEF Good, Free, LaneOK
<1>4. CASE s.lane["listing"].worker # "absent"
  <2>1. StartListing(s, d) = Ask(s, "listing", d, "list", gen)
    BY <1>4 DEF StartListing
  <2> QED BY <2>1, <1>1, <1>2, <1>3, AskCalm
<1>5. CASE s.lane["listing"].worker = "absent" /\ permit
  <2> DEFINE u == [s EXCEPT !.lane["listing"].worker = "idle"]
             r == [s.lane["listing"] EXCEPT !.worker = "idle"]
             v == Ask(u, "listing", d, "list", gen)
  <2>1. StartListing(s, d) = v
    BY <1>5 DEF StartListing
  <2>2. s.lane["listing"] \in LaneRecords
    BY <1>2
  <2>3. /\ r \in LaneRecords /\ r.pending = None /\ r.completion = None
    BY <2>2, <1>3 DEF LaneRecords
  <2>4. u.node = s.node /\ u.path = s.path /\ u.lane = [s.lane EXCEPT !["listing"] = r]
        /\ u = [s EXCEPT !.lane = [s.lane EXCEPT !["listing"] = r]]
    BY <1>2 DEF States, LaneRecords
  <2>5. u \in States
    <3>1. [s.lane EXCEPT !["listing"] = r] \in [Lanes -> LaneRecords]
      BY <1>2, <2>3
    <3> HIDE DEF u, r
    <3> QED BY <3>1, <2>4, <1>2 DEF States
  <2> HIDE DEF u, r
  <2>6. u.lane["listing"] = r /\ \A m \in Lanes \ {"listing"} : u.lane[m] = s.lane[m]
    BY <2>4, <1>2
  <2>7. \A m \in Lanes : SameAnswer(s, u, m)
    BY <2>3, <2>6 DEF SameAnswer
  <2>8. \A m \in Lanes : u.lane[m].pending = s.lane[m].pending
    BY <2>3, <2>6, <1>3
  <2>9. Calm(s, u)
    <3>1. /\ u.path = s.path /\ \A x \in Dirs : u.node[x] = s.node[x]
          /\ \A m \in Lanes : u.lane[m].pending # None /\ Live(u.lane[m].pending) =>
                /\ s.lane[m].pending # None /\ Live(s.lane[m].pending)
                /\ u.lane[m].pending.task = s.lane[m].pending.task
      BY <2>4, <2>8
    <3> QED BY <3>1, <2>7, CalmBy
  <2>10. \A m \in Lanes : ~Names(u, m, d)
    BY <1>1, <2>4, <2>8 DEF Names
  <2>11. Present(u, d) /\ Free(u, "listing") /\ u.lane["listing"].completion = None
    BY <1>2, <1>3, <2>3, <2>4, <2>6 DEF Present, Free
  <2>12. u.path # <<>> /\ d = Here(u) /\ u.node[d].mode # "stale"
    BY <2>4, <1>2 DEF Here
  <2>13. v = Ask(u, "listing", d, "list", gen)
    OBVIOUS
  <2> HIDE DEF v
  <2>14. Calm(u, v) /\ Firm(u, v)
    BY <2>5, <2>10, <2>11, <2>12, <2>13, <1>2, AskCalm
  <2>15. Calm(s, v)
    BY <2>9, <2>14, CalmThenCalm
  <2>16. Firm(s, v)
    BY <2>4, <2>14 DEF Firm
  <2> QED BY <2>1, <2>15, <2>16
<1>6. CASE s.lane["listing"].worker = "absent" /\ ~permit
  <2> DEFINE v == [s EXCEPT !.node[d].mode = "stale", !.node[d].rev = @ + 1, !.node[d].listing = TRUE]
             n == [s.node[d] EXCEPT !.mode = "stale", !.rev = @ + 1, !.listing = TRUE]
  <2>1. StartListing(s, d) = v
    BY <1>6 DEF StartListing
  <2>2. n.id = s.node[d].id /\ n.mode = "stale"
    BY <1>2 DEF Nodes
  <2>3. v.node = [s.node EXCEPT ![d] = n] /\ v.path = s.path /\ v.lane = s.lane
    BY <1>2, ZenonT(60) DEF States, Nodes
  <2> HIDE DEF v, n
  <2>4. v.node[d] = n /\ \A x \in Dirs \ {d} : v.node[x] = s.node[x]
    BY <2>3, <1>2
  <2>5. \A x \in Dirs : v.node[x].id = s.node[x].id
    BY <2>2, <2>4
  <2>6. \A x \in Dirs : s.node[x].id = 0 => v.node[x].mode = s.node[x].mode
    BY <2>4, <1>2
  <2>7. \A m \in Lanes : SameAnswer(s, v, m)
    BY <2>3 DEF SameAnswer
  <2>8. ASSUME NEW m \in Lanes, NEW x \in Dirs PROVE Backed(s, v, m, x)
    <3>1. Names(v, m, x) => Names(s, m, x)
      BY <2>3, <2>5 DEF Names
    <3>2. Names(s, m, x) => x # d
      BY <1>1
    <3> QED BY <3>1, <3>2, <2>3, <2>4 DEF Backed
  <2>9. Calm(s, v)
    BY <2>3, <2>5, <2>6, <2>7, <2>8 DEF Calm
  <2>10. Firm(s, v)
    BY <2>2, <2>4 DEF Firm
  <2> QED BY <2>1, <2>9, <2>10
<1> QED BY <1>4, <1>5, <1>6

LEMMA HereIs ==
    ASSUME NEW s, Good(s), s.path # <<>>
    PROVE  /\ s.path \in Seq(Dirs) /\ Len(s.path) \in DOMAIN s.path /\ Here(s) = s.path[Len(s.path)]
           /\ Here(s) \in Dirs /\ Present(s, Here(s))
<1>1. s.path \in Seq(Dirs) /\ Len(s.path) \in DOMAIN s.path
  BY DEF Good, States
<1> QED BY <1>1 DEF Good, Here

LEMMA ScheduleCalm ==
    ASSUME NEW s, Good(s), gen \in Nat
    PROVE  Calm(s, Schedule(s)) /\ Firm(s, Schedule(s))
<1>1. CASE s.path = <<>> \/ ~Free(s, "listing") \/ ~MayAsk(s.node[Here(s)])
  BY <1>1, CalmSelf DEF Schedule
<1>2. CASE s.path # <<>> /\ Free(s, "listing") /\ MayAsk(s.node[Here(s)])
  <2> DEFINE d == Here(s)
  <2>1. d \in Dirs /\ Present(s, d)
    BY <1>2, HereIs
  <2>2. d = Here(s) /\ MayAsk(s.node[d])
    BY <1>2
  <2> HIDE DEF d
  <2>3. "scan" \in Lanes /\ "scan" # "listing" /\ {"list", "sum"} \subseteq Reasons /\ s \in States
    BY DEF Lanes, Reasons, Good
  <2>4. \A m \in Lanes : ~Names(s, m, d)
    BY <1>2, <2>1, <2>2, NobodyNames
  <2>5. ASSUME Free(s, "scan"), NEW reason \in Reasons
        PROVE  Calm(s, Ask(s, "scan", d, reason, gen)) /\ Firm(s, Ask(s, "scan", d, reason, gen))
    <3>1. s.lane["scan"].completion = None
      BY <2>3, <2>5 DEF Good, Free, LaneOK
    <3>2. s.node[d].mode # "stale"
      BY <2>2 DEF MayAsk
    <3> QED BY <3>1, <3>2, <2>1, <2>3, <2>4, <2>5, AskCalm
  <2>6. Calm(s, StartListing(s, d)) /\ Firm(s, StartListing(s, d))
    BY <1>2, <2>1, <2>2, StartListingCalm
  <2>7. \/ Schedule(s) = s
        \/ Schedule(s) = StartListing(s, d)
        \/ Free(s, "scan") /\ Schedule(s) = Ask(s, "scan", d, "list", gen)
        \/ Free(s, "scan") /\ Schedule(s) = Ask(s, "scan", d, "sum", gen)
    BY <1>2 DEF Schedule, d
  <2> QED BY <2>3, <2>5, <2>6, <2>7, CalmSelf
<1> QED BY <1>1, <1>2

\* Progress changes the times of a request only.
LEMMA DrainedCalm ==
    ASSUME NEW s, Good(s), NEW heard \in BOOLEAN
    PROVE  /\ Calm(s, Drained(s, heard)) /\ Firm(s, Drained(s, heard))
           /\ s.lane["scan"].completion # None => Drained(s, heard).lane["scan"].completion # None
<1> DEFINE p == s.lane["scan"].pending
           c == s.lane["scan"].completion
           a == [s EXCEPT !.lane["scan"].pending.late = FALSE]
           b == [s EXCEPT !.lane["scan"].pending.late = FALSE, !.lane["scan"].completion.late = FALSE]
           q == [p EXCEPT !.late = FALSE]
           e == [c EXCEPT !.late = FALSE]
<1>1. CASE ~heard \/ p = None \/ slot = None
  BY <1>1, CalmSelf DEF Drained
<1>2. CASE heard /\ p # None /\ slot # None
  <2>1. Drained(s, heard) = s \/ (c = None /\ Drained(s, heard) = a) \/ (c # None /\ Drained(s, heard) = b)
    BY <1>2 DEF Drained
  <2>2. /\ "scan" \in Lanes /\ s \in States /\ s.lane \in [Lanes -> LaneRecords]
        /\ s.lane["scan"] \in LaneRecords /\ p \in Pendings /\ (c # None => c \in Completions)
    <3>1. "scan" \in Lanes
      BY DEF Lanes
    <3>2. s \in States /\ p \in Pendings
      BY <3>1, <1>2, RequestTypes DEF Good
    <3> QED BY <3>1, <3>2 DEF States, LaneRecords
  <2>3. q.task = p.task /\ (Live(q) => Live(p)) /\ q # None
    BY <2>2, NoneAssumption DEF Pendings, Live
  <2>4. c # None => e.task = c.task /\ e.result = c.result /\ e # None
    <3>1. c # None => e.task = c.task /\ e.result = c.result
      BY <2>2, ZenonT(60) DEF Completions
    <3>2. c # None => e \in Completions
      BY <2>2 DEF Completions
    <3> QED BY <3>1, <3>2, NoneAssumption
  <2>5. /\ a.node = s.node /\ a.path = s.path /\ \A m \in Lanes \ {"scan"} : a.lane[m] = s.lane[m]
        /\ a.lane["scan"].pending = q /\ a.lane["scan"].completion = c
    BY <2>2 DEF States, LaneRecords
  <2>6. /\ b.node = s.node /\ b.path = s.path /\ \A m \in Lanes \ {"scan"} : b.lane[m] = s.lane[m]
        /\ b.lane["scan"].pending = q /\ b.lane["scan"].completion = e
    BY <2>2 DEF States, LaneRecords
  <2> HIDE DEF a, b, q, e
  <2>7. ASSUME NEW v, v.node = s.node, v.path = s.path, \A m \in Lanes \ {"scan"} : v.lane[m] = s.lane[m],
               v.lane["scan"].pending = q,
               \/ v.lane["scan"].completion = c
               \/ c # None /\ v.lane["scan"].completion = e
        PROVE  Calm(s, v) /\ Firm(s, v) /\ (c # None => v.lane["scan"].completion # None)
    <3>1. \A m \in Lanes : SameAnswer(s, v, m)
      BY <2>4, <2>7 DEF SameAnswer
    <3>2. \A m \in Lanes : v.lane[m].pending # None /\ Live(v.lane[m].pending) =>
             /\ s.lane[m].pending # None /\ Live(s.lane[m].pending)
             /\ v.lane[m].pending.task = s.lane[m].pending.task
      BY <1>2, <2>3, <2>7
    <3>3. Calm(s, v)
      BY <3>1, <3>2, <2>7, CalmBy
    <3> QED BY <3>3, <2>4, <2>7 DEF Firm
  <2> QED BY <2>1, <2>5, <2>6, <2>7, CalmSelf
<1> QED BY <1>1, <1>2

-----------------------------------------------------------------------------
(* Answers that rebuild the tree *)

Gone(s, t, rows, evicting) ==
    Replaced(s, t, rows) \cup {x \in Dirs : \E e \in evicting : Inside(x, e)}

\* The answer r to the request p of lane l is applied, with room made for its rows.
Answered(s, l, r, evicting) ==
    LET p == s.lane[l].pending
        c == s.lane[l].completion
    IN  /\ p # None /\ c # None /\ Live(p)
        /\ c.task = p.task /\ c.result = r
        /\ Bound(s, p.task)
        /\ evicting \cap Range(s.path) = {}

\* What becomes of the node of another directory: a new row, nothing, or what it was.
Renewed(s, t, r, x, n) ==
    /\ x \in r.rows \cap Replaced(s, t, r.rows)
    /\ n.id # 0 /\ n.id # s.node[x].id /\ n.mode = "snapshot"
    /\ \A m \in Lanes : s.lane[m].pending # None /\ s.lane[m].pending.task.dir = x
                        => s.lane[m].pending.task.id # n.id \/ s.lane[m].pending.task = t

Discarded(s, t, r, evicting, x, n) ==
    x \in Gone(s, t, r.rows, evicting) /\ n.id = 0 /\ n.mode = "snapshot"

Unchanged(s, t, r, evicting, x, n) ==
    /\ x \notin Gone(s, t, r.rows, evicting)
    /\ n.id = s.node[x].id /\ n.mode = s.node[x].mode /\ n.listing = s.node[x].listing

Rebuilt(s, l, r, evicting, v) ==
    LET t == s.lane[l].pending.task
    IN  /\ v.path = Levels(s.path, Gone(s, t, r.rows, evicting))
        /\ v.lane[l].pending = None /\ v.lane[l].completion = None
        /\ \A m \in Lanes \ {l} : v.lane[m] = s.lane[m]
        /\ v.node[t.dir].id = s.node[t.dir].id
        /\ \A x \in Dirs \ {t.dir} :
              \/ Renewed(s, t, r, x, v.node[x])
              \/ Discarded(s, t, r, evicting, x, v.node[x])
              \/ Unchanged(s, t, r, evicting, x, v.node[x])

LEMMA RebuiltIs ==
    ASSUME NEW s, Good(s), NEW l \in Lanes, NEW r \in Results, NEW evicting \in SUBSET Dirs,
           Answered(s, l, r, evicting),
           NEW v, v = Apply(Taken(s, l), s.lane[l].pending, r, evicting)
    PROVE  Rebuilt(s, l, r, evicting, v)
<1> DEFINE p == s.lane[l].pending
           t == p.task
           u == Taken(s, l)
           replaced == Replaced(s, t, r.rows)
           gone == Gone(s, t, r.rows, evicting)
           target == [u.node[t.dir] EXCEPT
                         !.mode = "refreshed", !.loaded = TRUE, !.listing = FALSE,
                         !.observed = r.observed, !.from = r.from,
                         !.catchUp = @ /\ ~p.sizeRefresh /\ ~r.observed]
           nodes == [x \in Dirs |->
                IF x = t.dir THEN target
                ELSE IF x \in r.rows \cap replaced THEN NewNode(FreshId(u, x))
                ELSE IF x \in gone THEN NewNode(0)
                ELSE Carried(u, t, evicting, x)]
<1>1. s \in States /\ p # None /\ p \in Pendings /\ t \in Tasks /\ t.dir \in Dirs
  BY RequestTypes DEF Good, Answered
<1>2. /\ u \in States /\ u.node = s.node /\ u.path = s.path
      /\ u.lane = [s.lane EXCEPT ![l] = [@ EXCEPT !.pending = None, !.completion = None]]
  BY <1>1, TakenIs
<1>3. /\ u.lane[l].pending = None /\ u.lane[l].completion = None
      /\ \A m \in Lanes \ {l} : u.lane[m] = s.lane[m]
  <2>1. s.lane \in [Lanes -> LaneRecords] /\ s.lane[l] \in LaneRecords
    BY <1>1 DEF States
  <2> QED BY <2>1, <1>2 DEF LaneRecords
<1>4. v = Apply(u, p, r, evicting)
  OBVIOUS
<1> HIDE DEF u
<1>5. Replaced(u, t, r.rows) = replaced
  BY <1>2 DEF Replaced, Kept, Present
<1>6. v = [u EXCEPT !.node = nodes, !.path = Levels(u.path, gone)]
  BY <1>4, <1>5 DEF Apply, Gone
<1>7. target.id = s.node[t.dir].id
  <2>1. u.node[t.dir] \in Nodes
    BY <1>1, <1>2 DEF States
  <2> QED BY <2>1, <1>2 DEF Nodes
<1> HIDE DEF target, gone, replaced
<1>8. v.node = nodes /\ v.path = Levels(s.path, gone) /\ v.lane = u.lane
  BY <1>2, <1>6 DEF States
<1>9. nodes[t.dir] = target
  BY <1>1
<1>10. ASSUME NEW x \in Dirs \ {t.dir}
       PROVE  \/ Renewed(s, t, r, x, nodes[x])
              \/ Discarded(s, t, r, evicting, x, nodes[x])
              \/ Unchanged(s, t, r, evicting, x, nodes[x])
  <2>1. CASE x \in r.rows \cap replaced
    <3> DEFINE n == FreshId(u, x)
    <3>1. /\ n \in Nat \ {0} /\ n # s.node[x].id
          /\ \A m \in Lanes : u.lane[m].pending # None /\ u.lane[m].pending.task.dir = x
                              => u.lane[m].pending.task.id # n
      BY <1>2, FreshIs
    <3>2. nodes[x] = NewNode(n)
      BY <2>1
    <3> HIDE DEF n, nodes
    <3>3. nodes[x].id = n /\ nodes[x].mode = "snapshot"
      BY <3>1, <3>2, NewNodeIs
    <3>4. \A m \in Lanes : s.lane[m].pending # None /\ s.lane[m].pending.task.dir = x
                           => s.lane[m].pending.task.id # n \/ s.lane[m].pending.task = t
      BY <3>1, <1>3
    <3> QED BY <3>1, <3>3, <3>4, <2>1 DEF Renewed, replaced
  <2>2. CASE x \notin r.rows \cap replaced /\ x \in gone
    <3>1. nodes[x] = NewNode(0)
      BY <2>2
    <3> HIDE DEF nodes
    <3> QED BY <3>1, <2>2, NewNodeIs DEF Discarded, gone
  <2>3. CASE x \notin r.rows \cap replaced /\ x \notin gone
    <3>1. nodes[x] = Carried(u, t, evicting, x)
      BY <2>3
    <3> HIDE DEF nodes
    <3>2. nodes[x].id = s.node[x].id /\ nodes[x].mode = s.node[x].mode
      BY <3>1, <1>2, CarriedIs
    <3>3. nodes[x].listing = s.node[x].listing
      <4> DEFINE n == [u.node[x] EXCEPT !.loaded = @ /\ x \notin evicting]
      <4>1. n.listing = u.node[x].listing /\ u.node[x] \in Nodes /\ n \in Nodes
        <5>1. u.node[x] \in Nodes
          BY <1>2 DEF States
        <5> QED BY <5>1 DEF Nodes
      <4> DEFINE later == n.catchUp \/ (/\ t.reason = "sum" /\ Inside(x, t.dir)
                                        /\ (n.loaded \/ n.listing))
      <4>2. Carried(u, t, evicting, x) = [n EXCEPT !.catchUp = later]
        BY <4>1 DEF Carried, Nodes
      <4> HIDE DEF n, later
      <4>3. [n EXCEPT !.catchUp = later].listing = n.listing
        BY <4>1 DEF Nodes
      <4> QED BY <4>1, <4>2, <4>3, <3>1, <1>2
    <3> QED BY <3>2, <3>3, <2>3 DEF Unchanged, gone
  <2> QED BY <2>1, <2>2, <2>3
<1> HIDE DEF nodes
<1>11. v.node[t.dir].id = s.node[t.dir].id
  BY <1>7, <1>8, <1>9
<1> QED BY <1>3, <1>8, <1>10, <1>11 DEF Rebuilt, gone

\* What is above something that goes, goes with what is inside it.
LEMMA GoneBelow ==
    ASSUME NEW s, NEW t \in Tasks, NEW rows \in SUBSET Children(t.dir), NEW evicting \in SUBSET Dirs,
           NEW x \in Gone(s, t, rows, evicting), NEW y \in Dirs, Inside(y, x)
    PROVE  /\ y \in Gone(s, t, rows, evicting)
           /\ x \in Replaced(s, t, rows) => y \in Replaced(s, t, rows)
<1>1. t.dir \in Dirs /\ x \in Dirs
  BY DEF Tasks, Gone, Replaced
<1>2. ASSUME x \in Replaced(s, t, rows) PROVE y \in Replaced(s, t, rows)
  <2>1. Inside(x, t.dir) /\ \A k \in Kept(s, t, rows) : x # k /\ ~Inside(x, k)
    BY <1>2 DEF Replaced
  <2>2. Inside(y, t.dir)
    BY <2>1, <1>1, InsideAbove
  <2>3. ASSUME NEW k \in Kept(s, t, rows) PROVE y # k /\ ~Inside(y, k)
    <3>1. k \in Children(t.dir) /\ k \in Dirs
      BY <2>3 DEF Kept, Children
    <3>2. ~Inside(k, x)
      BY <2>1, <3>1, <1>1, ChildIs
    <3>3. y # k
      BY <3>2
    <3>4. ~Inside(y, k)
      BY <2>1, <2>3, <3>1, <3>2, <1>1, InsideAbove
    <3> QED BY <3>3, <3>4
  <2> QED BY <2>2, <2>3 DEF Replaced
<1>3. ASSUME NEW e \in evicting, Inside(x, e) PROVE y \in Gone(s, t, rows, evicting)
  <2>1. Inside(y, e)
    BY <1>1, <1>3, InsideAbove
  <2> QED BY <2>1 DEF Gone
<1> QED BY <1>2, <1>3 DEF Gone

\* No request names what is replaced or has been answered.
LEMMA GoneUnnamed ==
    ASSUME NEW s, Good(s), NEW l \in Lanes, NEW r \in Results, NEW evicting \in SUBSET Dirs,
           Answered(s, l, r, evicting), NEW v, Rebuilt(s, l, r, evicting, v),
           NEW m \in Lanes, NEW x \in Dirs, Names(v, m, x)
    PROVE  /\ m # l /\ v.lane[m] = s.lane[m] /\ Names(s, m, x) /\ x # s.lane[l].pending.task.dir
           /\ x \notin Gone(s, s.lane[l].pending.task, r.rows, evicting)
           /\ v.node[x].listing = s.node[x].listing
<1> DEFINE t == s.lane[l].pending.task
<1>1. m # l /\ v.lane[m] = s.lane[m]
  BY DEF Rebuilt, Names
<1>2. /\ s.lane[m].pending # None /\ s.lane[m].pending.task.dir = x
      /\ s.lane[m].pending.task.id = v.node[x].id
  BY <1>1 DEF Names
<1>3. v.node[x].id # 0
  BY <1>2, RequestTypes DEF Tasks
<1>4. Names(s, l, t.dir)
  BY BoundIsNamed DEF Answered
<1>5. x # t.dir
  <2>1. SUFFICES ASSUME x = t.dir PROVE FALSE
    OBVIOUS
  <2>2. Names(s, m, x)
    BY <2>1, <1>2 DEF Names, Rebuilt
  <2> QED BY <2>1, <2>2, <1>1, <1>4 DEF Good, Lanes
<1>6. \/ Renewed(s, t, r, x, v.node[x])
      \/ Discarded(s, t, r, evicting, x, v.node[x])
      \/ Unchanged(s, t, r, evicting, x, v.node[x])
  BY <1>5 DEF Rebuilt
<1>7. ~Renewed(s, t, r, x, v.node[x])
  <2>1. s.lane[m].pending.task # t
    BY <1>2, <1>5
  <2> QED BY <2>1, <1>2 DEF Renewed
<1>8. Unchanged(s, t, r, evicting, x, v.node[x])
  BY <1>3, <1>6, <1>7 DEF Discarded
<1> QED BY <1>1, <1>2, <1>5, <1>8 DEF Unchanged, Names

\* The levels entered, none of which is given up.
LEMMA LevelGone ==
    ASSUME NEW s, Good(s), WayOK(s), NEW t \in Tasks, NEW rows, NEW evicting \in SUBSET Dirs,
           evicting \cap Range(s.path) = {}, NEW i \in DOMAIN s.path,
           s.path[i] \in Gone(s, t, rows, evicting)
    PROVE  s.path[i] \in Replaced(s, t, rows) /\ Inside(s.path[i], t.dir)
<1> DEFINE h == Here(s)
<1>1. s.path # <<>> /\ s.path \in Seq(Dirs) /\ h \in Dirs /\ s.path = Way[h] /\ i \in 1 .. Len(Way[h])
  <2>1. s.path \in Seq(Dirs)
    BY DEF Good, States
  <2>2. s.path # <<>>
    BY <2>1
  <2>3. h \in Dirs /\ s.path = Way[h]
    BY <2>2, HereIs DEF WayOK, TreeOK
  <2> QED BY <2>1, <2>2, <2>3
<1> HIDE DEF h
<1>2. ASSUME NEW e \in evicting PROVE ~Inside(s.path[i], e)
  <2>1. e \notin Range(Way[h])
    BY <1>1
  <2> QED BY <2>1, <1>1, PathIs
<1>3. s.path[i] \in Replaced(s, t, rows)
  BY <1>2 DEF Gone
<1> QED BY <1>3 DEF Replaced

LEMMA AnsweredIs ==
    ASSUME NEW s, Good(s), WayOK(s), NEW l \in Lanes, NEW r \in Results, NEW evicting \in SUBSET Dirs,
           Answered(s, l, r, evicting), NEW t, t = s.lane[l].pending.task
    PROVE  /\ t \in Tasks /\ t.dir \in Dirs /\ r.rows \in SUBSET Children(t.dir)
           /\ Names(s, l, t.dir) /\ Live(s.lane[l].pending)
           /\ s.node[t.dir].mode = "pending"
           /\ s.node[t.dir].listing <=> t.reason # "sum"
           /\ evicting \cap Range(s.path) = {}
<1>1. t \in Tasks /\ t.dir \in Dirs
  BY RequestTypes DEF Answered
<1>2. Names(s, l, t.dir) /\ Live(s.lane[l].pending)
  BY BoundIsNamed DEF Answered
<1>3. s.node[t.dir].mode = "pending"
  BY DEF Answered, Bound
<1>4. s.node[t.dir].listing <=> t.reason # "sum"
  <2>1. SaysListing(s, l, t.dir)
    BY <1>1 DEF WayOK, TreeOK
  <2> QED BY <2>1, <1>2 DEF SaysListing
<1>5. r.rows \in SUBSET Children(t.dir)
  <2>1. RowsOK(s.lane[l].completion)
    BY DEF WayOK, TreeOK
  <2>2. s.lane[l].completion # None /\ s.lane[l].completion.result = r
        /\ s.lane[l].completion.task = t
    BY DEF Answered
  <2>3. r # None
    BY NoneAssumption
  <2> QED BY <2>1, <2>2, <2>3 DEF RowsOK
<1> QED BY <1>1, <1>2, <1>3, <1>4, <1>5 DEF Answered

\* A listing waited for is not touched: the levels down to it stay.
LEMMA ListingStays ==
    ASSUME NEW s, Good(s), WayOK(s), NEW l \in Lanes, NEW r \in Results, NEW evicting \in SUBSET Dirs,
           Answered(s, l, r, evicting), NEW d \in Dirs, d = Here(s), s.path # <<>>,
           d \notin Gone(s, s.lane[l].pending.task, r.rows, evicting)
    PROVE  Levels(s.path, Gone(s, s.lane[l].pending.task, r.rows, evicting)) = s.path
<1> DEFINE t == s.lane[l].pending.task
           gone == Gone(s, t, r.rows, evicting)
<1>1. t \in Tasks /\ t.dir \in Dirs /\ r.rows \in SUBSET Children(t.dir)
  BY AnsweredIs
<1>2. s.path \in Seq(Dirs) /\ s.path = Way[d] /\ Len(s.path) \in Nat
  BY HereIs DEF WayOK, TreeOK
<1>3. ASSUME NEW i \in 1 .. Len(s.path), s.path[i] \in gone PROVE FALSE
  <2>1. s.path[i] = d \/ Inside(d, s.path[i])
    BY <1>2, PathIs
  <2> HIDE DEF t
  <2>2. d \in gone
    BY <2>1, <1>1, <1>3, GoneBelow
  <2> QED BY <2>2 DEF t
<1>4. PICK n \in 0 .. Len(s.path) :
         /\ Levels(s.path, gone) = SubSeq(s.path, 1, n)
         /\ n = Len(s.path) \/ s.path[n + 1] \in gone
  <2> HIDE DEF gone
  <2> QED BY <1>2, LevelsAre
<1>5. n = Len(s.path)
  <2>1. n # Len(s.path) => n + 1 \in 1 .. Len(s.path)
    BY <1>2
  <2> QED BY <2>1, <1>3, <1>4
<1>6. SubSeq(s.path, 1, Len(s.path)) = s.path
  BY <1>2
<1> QED BY <1>4, <1>5, <1>6

LEMMA RebuiltWay ==
    ASSUME NEW s, Good(s), WayOK(s), NEW l \in Lanes, NEW r \in Results, NEW evicting \in SUBSET Dirs,
           Answered(s, l, r, evicting), NEW v, Rebuilt(s, l, r, evicting, v)
    PROVE  WayOK(v)
<1> DEFINE t == s.lane[l].pending.task
           gone == Gone(s, t, r.rows, evicting)
<1>1. v.path = Levels(s.path, gone) /\ s.path \in Seq(Dirs)
  BY DEF Rebuilt, Good, States
<1>2. ASSUME v.path # <<>> PROVE v.path = Way[Here(v)]
  <2> HIDE DEF gone
  <2>1. PICK n \in 0 .. Len(s.path) : v.path = SubSeq(s.path, 1, n)
    BY <1>1, LevelsAre
  <2>2. n \in 1 .. Len(s.path) /\ s.path # <<>>
    BY <1>1, <1>2, <2>1
  <2>3. Here(s) \in Dirs /\ s.path = Way[Here(s)]
    BY <2>2, HereIs DEF WayOK, TreeOK
  <2>4. Way[s.path[n]] = SubSeq(s.path, 1, n)
    BY <2>2, <2>3, WayIs
  <2>5. Here(v) = s.path[n]
    BY <1>1, <2>1, <2>2 DEF Here
  <2> QED BY <2>1, <2>4, <2>5
<1>3. ASSUME NEW d \in Dirs PROVE ListsHere(v, d)
  <2>1. SUFFICES ASSUME Names(v, "listing", d), Live(v.lane["listing"].pending)
                 PROVE  v.path # <<>> /\ d = Here(v)
    BY DEF ListsHere
  <2>2. "listing" \in Lanes
    BY DEF Lanes
  <2>3. /\ v.lane["listing"] = s.lane["listing"] /\ Names(s, "listing", d)
        /\ d \notin gone
    BY <2>1, <2>2, GoneUnnamed
  <2>4. ListsHere(s, d)
    BY DEF WayOK
  <2>5. s.path # <<>> /\ d = Here(s)
    BY <2>1, <2>3, <2>4 DEF ListsHere
  <2>6. v.path = s.path
    BY <2>3, <2>5, <1>1, ListingStays
  <2> QED BY <2>5, <2>6 DEF Here
<1>4. ASSUME NEW m \in Lanes, NEW d \in Dirs PROVE SaysListing(v, m, d)
  <2>1. SUFFICES ASSUME Names(v, m, d), Live(v.lane[m].pending)
                 PROVE  v.node[d].listing <=> v.lane[m].pending.task.reason # "sum"
    BY DEF SaysListing
  <2>2. /\ v.lane[m] = s.lane[m] /\ Names(s, m, d) /\ v.node[d].listing = s.node[d].listing
    BY <2>1, GoneUnnamed
  <2>3. SaysListing(s, m, d)
    BY DEF WayOK, TreeOK
  <2> QED BY <2>1, <2>2, <2>3 DEF SaysListing
<1>5. ASSUME NEW m \in Lanes PROVE RowsOK(v.lane[m].completion)
  <2>1. CASE m = l
    BY <2>1 DEF Rebuilt, RowsOK
  <2>2. CASE m # l
    BY <2>2 DEF Rebuilt, WayOK, TreeOK
  <2> QED BY <2>1, <2>2
<1>6. ASSUME NEW d \in Dirs, v.node[d].id = 0 PROVE v.node[d].mode = "snapshot"
  <2>1. CASE d = t.dir
    <3>1. Names(s, l, t.dir) /\ t \in Tasks
      BY AnsweredIs
    <3>2. s.node[t.dir].id # 0
      BY <3>1 DEF Names, Tasks
    <3> QED BY <3>2, <2>1, <1>6 DEF Rebuilt
  <2>2. CASE d # t.dir
    <3>1. \/ Renewed(s, t, r, d, v.node[d])
          \/ Discarded(s, t, r, evicting, d, v.node[d])
          \/ Unchanged(s, t, r, evicting, d, v.node[d])
      BY <2>2 DEF Rebuilt
    <3>2. s.node[d].id = 0 => s.node[d].mode = "snapshot"
      BY DEF WayOK, TreeOK
    <3> QED BY <3>1, <3>2, <1>6 DEF Renewed, Discarded, Unchanged
  <2> QED BY <2>1, <2>2
<1> QED BY <1>2, <1>3, <1>4, <1>5, <1>6 DEF WayOK, TreeOK

\* An answer leaves the failures as they are, but for those of rows it replaces.
LEMMA RebuiltKeepsFailures ==
    ASSUME NEW s, Good(s), WayOK(s), NEW l \in Lanes, NEW r \in Results, NEW evicting \in SUBSET Dirs,
           Answered(s, l, r, evicting), NEW v, Rebuilt(s, l, r, evicting, v),
           NEW d \in Dirs, s.node[d].mode = "stale"
    PROVE  \/ v.node[d].mode = "stale"
           \/ /\ v.node[d].id # s.node[d].id
              /\ d \in Gone(s, s.lane[l].pending.task, r.rows, evicting)
<1> DEFINE t == s.lane[l].pending.task
<1>1. d # t.dir /\ s.node[d].id # 0
  <2>1. s.node[t.dir].mode = "pending"
    BY AnsweredIs
  <2> QED BY <2>1 DEF WayOK, TreeOK
<1>2. \/ Renewed(s, t, r, d, v.node[d])
      \/ Discarded(s, t, r, evicting, d, v.node[d])
      \/ Unchanged(s, t, r, evicting, d, v.node[d])
  BY <1>1 DEF Rebuilt
<1> QED BY <1>1, <1>2 DEF Renewed, Discarded, Unchanged, Gone

\* What an answer on the scan lane has replaced or discarded is not in the directory whose
\* listing is waited for.
LEMMA ListingIsApart ==
    ASSUME NEW s, Good(s), WayOK(s), NEW l \in Lanes, NEW r \in Results, NEW evicting \in SUBSET Dirs,
           Answered(s, l, r, evicting), NEW v, Rebuilt(s, l, r, evicting, v),
           NEW c \in Dirs, NEW d \in Children(c),
           d \in Gone(s, s.lane[l].pending.task, r.rows, evicting),
           Names(v, "listing", c), Live(v.lane["listing"].pending)
    PROVE  FALSE
<1> DEFINE t == s.lane[l].pending.task
           gone == Gone(s, t, r.rows, evicting)
<1>1. t \in Tasks /\ t.dir \in Dirs /\ r.rows \in SUBSET Children(t.dir) /\ "listing" \in Lanes
      /\ evicting \cap Range(s.path) = {}
  <2>1. "listing" \in Lanes
    BY DEF Lanes
  <2> QED BY <2>1, AnsweredIs
<1>2. v.lane["listing"] = s.lane["listing"] /\ Names(s, "listing", c) /\ c # t.dir /\ c \notin gone
  BY <1>1, GoneUnnamed
<1>3. d \in Dirs /\ Inside(d, c)
  BY ChildIs
<1>4. CASE d \in Replaced(s, t, r.rows)
  <2>1. Inside(d, t.dir) /\ \A k \in Kept(s, t, r.rows) : d # k /\ ~Inside(d, k)
    BY <1>4 DEF Replaced
  <2>2. Inside(c, t.dir)
    BY <2>1, <1>1, <1>2, ChildIs
  <2>3. ASSUME NEW k \in Kept(s, t, r.rows) PROVE c # k /\ ~Inside(c, k)
    <3>1. k \in Dirs
      BY <2>3, <1>1 DEF Kept, Children
    <3> QED BY <2>1, <3>1, <1>3, InsideAbove
  <2>4. c \in Replaced(s, t, r.rows)
    BY <2>2, <2>3 DEF Replaced
  <2> QED BY <2>4, <1>2 DEF Gone
<1>5. ASSUME NEW e \in evicting, Inside(d, e) PROVE FALSE
  <2>1. e = c \/ Inside(c, e)
    BY <1>5, ChildIs
  <2>2. ~Inside(c, e)
    BY <1>2 DEF Gone
  <2>3. ListsHere(s, c)
    BY DEF WayOK
  <2>4. s.path # <<>> /\ c = Here(s)
    BY <2>3, <1>2 DEF ListsHere
  <2>5. Len(s.path) \in DOMAIN s.path /\ c = s.path[Len(s.path)]
    BY <2>4, HereIs
  <2>6. c \in Range(s.path)
    BY <2>5 DEF Range
  <2> QED BY <2>1, <2>2, <2>6, <1>1
<1> QED BY <1>4, <1>5 DEF Gone

\* A listing answered closes no level: it is of the last.
LEMMA ListingKeepsLevels ==
    ASSUME NEW s, Good(s), WayOK(s), NEW r \in Results, NEW evicting \in SUBSET Dirs,
           Answered(s, "listing", r, evicting), NEW v, Rebuilt(s, "listing", r, evicting, v)
    PROVE  v.path = s.path
<1> DEFINE t == s.lane["listing"].pending.task
           h == Here(s)
<1>1. /\ t \in Tasks /\ t.dir \in Dirs /\ "listing" \in Lanes /\ evicting \cap Range(s.path) = {}
      /\ Names(s, "listing", t.dir) /\ Live(s.lane["listing"].pending)
  <2>1. "listing" \in Lanes
    BY DEF Lanes
  <2> QED BY <2>1, AnsweredIs
<1>2. s.path # <<>> /\ t.dir = h
  <2>1. ListsHere(s, t.dir)
    BY <1>1 DEF WayOK
  <2> QED BY <2>1, <1>1 DEF ListsHere
<1>3. h \in Dirs /\ Len(s.path) \in DOMAIN s.path /\ h = s.path[Len(s.path)]
  BY <1>2, HereIs
<1>4. h \notin Gone(s, t, r.rows, evicting)
  <2>1. SUFFICES ASSUME h \in Gone(s, t, r.rows, evicting) PROVE FALSE
    OBVIOUS
  <2>2. Inside(h, t.dir)
    BY <2>1, <1>1, <1>3, LevelGone
  <2> QED BY <2>2, <1>2 DEF Inside
<1>5. Levels(s.path, Gone(s, t, r.rows, evicting)) = s.path
  BY <1>1, <1>2, <1>3, <1>4, ListingStays
<1> QED BY <1>5 DEF Rebuilt

\* A sum closes levels for a row that is not there any more.
LEMMA SumClosesMissing ==
    ASSUME NEW s, Good(s), WayOK(s), NEW l \in Lanes, NEW r \in Results, NEW evicting \in SUBSET Dirs,
           Answered(s, l, r, evicting), NEW v, Rebuilt(s, l, r, evicting, v),
           NEW t, t = s.lane[l].pending.task, t.reason = "sum", Len(v.path) < Len(s.path)
    PROVE  \E i \in DOMAIN s.path : s.path[i] \in Children(t.dir) \ r.rows
<1> DEFINE gone == Gone(s, t, r.rows, evicting)
           h == Here(s)
<1>1. /\ t \in Tasks /\ t.dir \in Dirs /\ r.rows \in SUBSET Children(t.dir)
      /\ ~s.node[t.dir].listing /\ evicting \cap Range(s.path) = {}
  BY AnsweredIs
<1>2. s.path \in Seq(Dirs) /\ v.path = Levels(s.path, gone)
  BY DEF Good, States, Rebuilt
<1>3. PICK n \in 0 .. Len(s.path) :
         /\ v.path = SubSeq(s.path, 1, n)
         /\ n = Len(s.path) \/ s.path[n + 1] \in gone
  <2> HIDE DEF gone
  <2>1. \E n \in 0 .. Len(s.path) :
           /\ Levels(s.path, gone) = SubSeq(s.path, 1, n)
           /\ n = Len(s.path) \/ s.path[n + 1] \in gone
    BY <1>2, LevelsAre
  <2> QED BY <2>1, <1>2
<1>4. n + 1 \in DOMAIN s.path /\ s.path[n + 1] \in gone /\ s.path # <<>>
  <2>1. Len(v.path) = n
    BY <1>2, <1>3
  <2> QED BY <2>1, <1>2, <1>3
<1>5. s.path = Way[h] /\ h \in Dirs
  BY <1>4, HereIs DEF WayOK, TreeOK
<1> DEFINE x == s.path[n + 1]
           j == Len(Way[t.dir])
           y == s.path[j + 1]
<1>6. x \in Replaced(s, t, r.rows) /\ Inside(x, t.dir)
  BY <1>1, <1>4, LevelGone
<1>7. /\ x \in Dirs /\ Len(Way[x]) = n + 1 /\ \A i \in 1 .. n + 1 : Way[x][i] = s.path[i]
      /\ \A i \in DOMAIN s.path : s.path[i] \in Dirs /\ Len(Way[s.path[i]]) = i
  <2>1. n + 1 \in 1 .. Len(Way[h]) /\ DOMAIN s.path = 1 .. Len(Way[h])
    BY <1>2, <1>4, <1>5
  <2> QED BY <2>1, <1>5, WayIs
<1> HIDE DEF x, h
<1>8. j < n + 1 /\ Way[x][j] = t.dir /\ j \in Nat \ {0}
  <2>1. j \in Nat \ {0}
    BY <1>1, WayIs
  <2>2. j < Len(Way[x]) /\ Way[x][j] = t.dir
    BY <1>1, <1>6, <1>7, InsideIs
  <2> QED BY <2>1, <2>2, <1>7
<1>20. Len(Way[t.dir]) = j /\ y = s.path[j + 1] /\ Len(s.path) = Len(Way[h]) /\ Len(s.path) \in Nat
  BY <1>2, <1>5
<1> HIDE DEF j
<1>9. j + 1 \in 1 .. n + 1 /\ j + 1 \in DOMAIN s.path /\ j \in DOMAIN s.path /\ s.path[j] = t.dir
  BY <1>2, <1>4, <1>7, <1>8
<1>10. y \in Dirs /\ Len(Way[y]) = j + 1 /\ Inside(y, t.dir)
  <2>1. y \in Dirs /\ Len(Way[y]) = j + 1
    BY <1>7, <1>9
  <2>2. j + 1 \in 1 .. Len(Way[h]) /\ j \in 1 .. Len(Way[h]) /\ j < j + 1
    BY <1>2, <1>8, <1>20, <1>9
  <2>3. Inside(Way[h][j + 1], Way[h][j])
    BY <2>2, <1>5, PathIs
  <2> QED BY <2>1, <2>3, <1>5, <1>9
<1>11. y \in Children(t.dir)
  BY <1>20, <1>10 DEF Children
<1>12. y \notin r.rows
  <2>1. SUFFICES ASSUME y \in r.rows PROVE FALSE
    OBVIOUS
  <2>2. Present(s, y)
    BY <1>9 DEF Good
  <2>3. y \in Kept(s, t, r.rows)
    BY <2>1, <2>2, <1>1 DEF Kept
  <2>4. x # y /\ ~Inside(x, y)
    BY <2>3, <1>6 DEF Replaced
  <2>5. j + 1 # n + 1
    BY <2>4 DEF x
  <2>6. j + 1 \in 1 .. Len(Way[h]) /\ n + 1 \in 1 .. Len(Way[h]) /\ j + 1 < n + 1
    BY <2>5, <1>2, <1>4, <1>8, <1>20, <1>9
  <2>7. Inside(Way[h][n + 1], Way[h][j + 1])
    BY <2>6, <1>5, PathIs
  <2> QED BY <2>4, <2>7, <1>5 DEF x
<1> QED BY <1>9, <1>11, <1>12

-----------------------------------------------------------------------------
(* A poll *)

\* complete_or_expire of a lane rebuilds the tree, or replaces nothing.
LEMMA PollLaneIs ==
    ASSUME NEW s, Good(s), NEW l \in Lanes, NEW room \in Rooms,
           NEW v, v = PollLane(s, l, room)
    PROVE  \/ Calm(s, v) /\ Firm(s, v)
           \/ \E r \in Results, evicting \in SUBSET Dirs :
                 Answered(s, l, r, evicting) /\ Rebuilt(s, l, r, evicting, v)
<1> DEFINE p == s.lane[l].pending
           c == s.lane[l].completion
           u == Taken(s, l)
<1>1. CASE p = None
  BY <1>1, CalmSelf DEF PollLane
<1>2. s \in States
  BY DEF Good
<1>3. /\ u \in States /\ u.node = s.node /\ u.path = s.path
      /\ Calm(s, u) /\ Firm(s, u)
  BY <1>2, TakenIs, TakenCalm
<1> HIDE DEF u
<1>4. ASSUME p # None
      PROVE  /\ p \in Pendings /\ p.task \in Tasks
             /\ Calm(s, Fail(u, p.task)) /\ Firm(s, Fail(u, p.task))
  <2>1. p \in Pendings /\ p.task \in Tasks
    BY <1>4, RequestTypes
  <2>2. Calm(u, Fail(u, p.task)) /\ Firm(u, Fail(u, p.task))
    BY <2>1, <1>3, FailCalm
  <2>3. Calm(s, Fail(u, p.task))
    BY <2>2, <1>3, CalmThenCalm
  <2>4. Firm(s, Fail(u, p.task))
    BY <2>2, <1>3 DEF Firm
  <2> QED BY <2>1, <2>3, <2>4
<1>5. CASE p # None /\ c # None
  <2>1. v = IF p.timedOut \/ p.abandoned THEN u
            ELSE IF c.late \/ c.task # p.task THEN Fail(u, p.task)
            ELSE Finished(u, p, c.result, room)
    BY <1>5 DEF PollLane, Taken, u
  <2> DEFINE evicting == IF room = "crowded" THEN Evicting(u, p.task, c.result.rows) ELSE {}
  <2>2. evicting \in SUBSET Dirs /\ evicting \cap Range(s.path) = {}
    BY <1>3 DEF Evicting
  <2>3. \/ Finished(u, p, c.result, room) = u
        \/ Finished(u, p, c.result, room) = Fail(u, p.task)
        \/ /\ c.result # None /\ Bound(u, p.task)
           /\ Finished(u, p, c.result, room) = Apply(u, p, c.result, evicting)
    BY DEF Finished
  <2> HIDE DEF evicting
  <2>4. CASE ~(p.timedOut \/ p.abandoned) /\ c.task = p.task /\ c.result # None /\ Bound(u, p.task)
             /\ v = Apply(u, p, c.result, evicting)
    <3>1. c.result \in Results
      <4>1. c \in Completions
        BY <1>2, <1>5 DEF States, LaneRecords
      <4> QED BY <4>1, <2>4 DEF Completions
    <3>2. Bound(s, p.task)
      BY <2>4, <1>3 DEF Bound
    <3>3. Live(p)
      BY <2>4, <1>5 DEF Live
    <3>4. Answered(s, l, c.result, evicting)
      BY <3>2, <3>3, <2>2, <2>4, <1>5 DEF Answered
    <3>5. Rebuilt(s, l, c.result, evicting, v)
      BY <3>1, <3>4, <2>2, <2>4, RebuiltIs DEF u
    <3> QED BY <3>1, <3>4, <3>5, <2>2
  <2>5. CASE v = u \/ v = Fail(u, p.task)
    BY <2>5, <1>3, <1>4, <1>5
  <2> QED BY <2>1, <2>3, <2>4, <2>5
<1>6. CASE p # None /\ c = None /\ s.lane[l].worker = "dead"
  <2>1. v = u \/ v = Fail(u, p.task)
    BY <1>6 DEF PollLane, Taken, u
  <2> QED BY <2>1, <1>3, <1>4, <1>6
<1>7. CASE p # None /\ c = None /\ s.lane[l].worker # "dead" /\ Overdue(p)
  <2>1. v = [Fail(s, p.task) EXCEPT !.lane[l].pending.timedOut = TRUE, !.lane[l].cancelled = TRUE]
    BY <1>7 DEF PollLane
  <2> QED BY <2>1, <1>7, ExpireCalm
<1>8. CASE p # None /\ c = None /\ s.lane[l].worker # "dead" /\ ~Overdue(p)
  BY <1>8, CalmSelf DEF PollLane
<1> QED BY <1>1, <1>5, <1>6, <1>7, <1>8

\* The sum that follows a listing.
LEMMA ChainedCalm ==
    ASSUME NEW s, Good(s), NEW t \in Tasks, gen \in Nat, Free(s, "scan"),
           s.node[t.dir].id = t.id => ~Names(s, "listing", t.dir),
           NEW v, v = Chained(s, t)
    PROVE  /\ Good(v) /\ Calm(s, v) /\ Firm(s, v)
           /\ v.lane["listing"] = s.lane["listing"]
<1>1. CASE v = s
  BY <1>1, CalmSelf
<1>2. CASE v # s
  <2>1. s.node[t.dir].id = t.id /\ MayAsk(s.node[t.dir]) /\ v = Ask(s, "scan", t.dir, "sum", gen)
    BY <1>2 DEF Chained
  <2>2. /\ t.dir \in Dirs /\ t.id # 0 /\ "scan" \in Lanes /\ "sum" \in Reasons /\ s \in States
        /\ "listing" \in Lanes \ {"scan"}
    BY DEF Tasks, Lanes, Reasons, Good
  <2>3. \A m \in Lanes : ~Names(s, m, t.dir)
    BY <2>1 DEF Lanes, Names, Free
  <2>4. Present(s, t.dir) /\ s.lane["scan"].worker # "absent" /\ s.node[t.dir].mode # "stale"
    BY <2>1, <2>2 DEF Present, Good, ScanOK, MayAsk
  <2>5. s.lane["scan"].completion = None
    BY <2>2 DEF Good, Free, LaneOK
  <2>6. Good(v)
    BY <2>1, <2>2, <2>3, <2>4, AskGood
  <2>7. Calm(s, v) /\ Firm(s, v)
    <3>1. "scan" = "listing" => s.path # <<>> /\ t.dir = Here(s)
      OBVIOUS
    <3> QED BY <3>1, <2>1, <2>2, <2>3, <2>4, <2>5, AskCalm
  <2>8. Refused(s, "scan", t.dir, "sum", v) \/ Accepted(s, "scan", t.dir, "sum", gen, v)
    BY <2>1, <2>2, <2>4, AskIs
  <2>9. v.lane["listing"] = s.lane["listing"]
    BY <2>2, <2>8 DEF Refused, Accepted, Good, States
  <2> QED BY <2>6, <2>7, <2>9
<1> QED BY <1>1, <1>2

\* The steps of a poll, one after the other, with what each needs.
Stages(s, room, scanned, chained, listed) ==
    /\ Good(s) /\ Good(scanned) /\ Good(chained) /\ Good(listed)
    /\ scanned = PollLane(s, "scan", room)
    /\ Calm(scanned, chained) /\ Firm(scanned, chained)
    /\ chained.lane["listing"] = scanned.lane["listing"]
    /\ listed = PollLane(chained, "listing", room)
    /\ Calm(listed, Polled(s, room)) /\ Firm(listed, Polled(s, room))

LEMMA PolledStages ==
    ASSUME NEW s, Good(s), gen \in Nat, NEW room \in Rooms
    PROVE  \E scanned, chained, listed : Stages(s, room, scanned, chained, listed)
<1> DEFINE p == s.lane["scan"].pending
           t == p.task
           scanned == PollLane(s, "scan", room)
           chained == IF p # None /\ s.lane["scan"].completion # None THEN Chained(scanned, t)
                                                                      ELSE scanned
           listed == PollLane(chained, "listing", room)
<1>1. "scan" \in Lanes /\ "listing" \in Lanes \ {"scan"}
  BY DEF Lanes
<1>2. Good(scanned)
  BY <1>1, PollLaneGood
<1>3. /\ Good(chained) /\ Calm(scanned, chained) /\ Firm(scanned, chained)
      /\ chained.lane["listing"] = scanned.lane["listing"]
  <2>1. CASE ~(p # None /\ s.lane["scan"].completion # None)
    <3>1. chained = scanned
      BY <2>1
    <3> HIDE DEF scanned, chained
    <3> QED BY <3>1, <1>2, CalmSelf
  <2>2. CASE p # None /\ s.lane["scan"].completion # None
    <3>1. t \in Tasks /\ t.dir \in Dirs
      BY <2>2, <1>1, RequestTypes
    <3>2. /\ scanned.lane["scan"].pending = None
          /\ scanned.lane["listing"].pending = s.lane["listing"].pending
          /\ scanned.node[t.dir].id = s.node[t.dir].id
      BY <2>2, <1>1, PollLaneEnds
    <3>3. chained = Chained(scanned, t)
      BY <2>2
    <3> HIDE DEF scanned, chained
    <3>4. Free(scanned, "scan")
      BY <3>2 DEF Free
    <3>5. scanned.node[t.dir].id = t.id => ~Names(scanned, "listing", t.dir)
      <4>1. scanned.node[t.dir].id = t.id => Names(s, "scan", t.dir)
        BY <3>2, <2>2 DEF Names
      <4>2. ~(Names(s, "scan", t.dir) /\ Names(s, "listing", t.dir))
        BY <3>1 DEF Good
      <4>3. Names(scanned, "listing", t.dir) => Names(s, "listing", t.dir)
        BY <3>2 DEF Names
      <4> QED BY <4>1, <4>2, <4>3
    <3> HIDE DEF t
    <3> QED BY <3>1, <3>3, <3>4, <3>5, <1>2, ChainedCalm
  <2> QED BY <2>1, <2>2
<1>4. Polled(s, room) = Schedule(listed)
  BY DEF Polled
<1> HIDE DEF chained
<1>5. Good(listed)
  BY <1>1, <1>3, PollLaneGood
<1> HIDE DEF listed
<1>6. Calm(listed, Polled(s, room)) /\ Firm(listed, Polled(s, room))
  BY <1>4, <1>5, ScheduleCalm
<1>7. Stages(s, room, scanned, chained, listed)
  BY <1>2, <1>3, <1>5, <1>6 DEF Stages, listed
<1> QED BY <1>7

LEMMA PollLaneWay ==
    ASSUME NEW s, Good(s), WayOK(s), NEW l \in Lanes, NEW room \in Rooms
    PROVE  WayOK(PollLane(s, l, room))
<1> DEFINE v == PollLane(s, l, room)
<1>1. \/ Calm(s, v) /\ Firm(s, v)
      \/ \E r \in Results, evicting \in SUBSET Dirs :
            Answered(s, l, r, evicting) /\ Rebuilt(s, l, r, evicting, v)
  BY PollLaneIs
<1> HIDE DEF v
<1>2. WayOK(v)
  BY <1>1, CalmKeeps, RebuiltWay
<1> QED BY <1>2 DEF v

LEMMA StagesWay ==
    ASSUME NEW s, WayOK(s), NEW room \in Rooms,
           NEW scanned, NEW chained, NEW listed, Stages(s, room, scanned, chained, listed)
    PROVE  /\ WayOK(scanned) /\ WayOK(chained) /\ WayOK(listed) /\ WayOK(Polled(s, room))
           /\ {"scan", "listing"} \subseteq Lanes
<1>1. {"scan", "listing"} \subseteq Lanes
  BY DEF Lanes
<1>2. WayOK(scanned)
  BY <1>1, PollLaneWay DEF Stages
<1>3. WayOK(chained)
  BY <1>2, CalmKeeps DEF Stages
<1>4. WayOK(listed)
  BY <1>1, <1>3, PollLaneWay DEF Stages
<1>5. WayOK(Polled(s, room))
  BY <1>4, CalmKeeps DEF Stages
<1> QED BY <1>1, <1>2, <1>3, <1>4, <1>5

\* A poll clears no failure of a row that stays: what the scan lane has replaced, the answer of
\* the listing does not bring back.
LEMMA PolledKeepsFailures ==
    ASSUME NEW s, Good(s), WayOK(s), gen \in Nat, NEW room \in Rooms,
           NEW d \in Dirs, s.node[d].mode = "stale",
           NEW f, f = Polled(s, room), f.node[d].id = s.node[d].id
    PROVE  f.node[d].mode = "stale"
<1>1. PICK scanned, chained, listed : Stages(s, room, scanned, chained, listed)
  BY PolledStages
<1>2. WayOK(scanned) /\ WayOK(chained) /\ {"scan", "listing"} \subseteq Lanes
  BY <1>1, StagesWay
<1>3. /\ Good(chained) /\ Calm(scanned, chained) /\ Firm(scanned, chained)
      /\ chained.lane["listing"] = scanned.lane["listing"]
      /\ Calm(listed, f) /\ Firm(listed, f)
  BY <1>1 DEF Stages
<1>4. \/ Calm(s, scanned) /\ Firm(s, scanned)
      \/ \E r \in Results, evicting \in SUBSET Dirs :
            Answered(s, "scan", r, evicting) /\ Rebuilt(s, "scan", r, evicting, scanned)
  BY <1>1, <1>2, PollLaneIs DEF Stages
<1>5. \/ Calm(chained, listed) /\ Firm(chained, listed)
      \/ \E r \in Results, evicting \in SUBSET Dirs :
            Answered(chained, "listing", r, evicting) /\ Rebuilt(chained, "listing", r, evicting, listed)
  BY <1>1, <1>2, PollLaneIs DEF Stages
<1>6. /\ chained.node[d].id = scanned.node[d].id /\ listed.node[d].id = s.node[d].id
      /\ s.node[d].id # 0
  BY <1>3 DEF Calm, WayOK, TreeOK
<1>7. ASSUME scanned.node[d].mode = "stale", scanned.node[d].id = s.node[d].id
      PROVE  f.node[d].mode = "stale"
  <2>1. chained.node[d].mode = "stale"
    BY <1>3, <1>7 DEF Firm
  <2>2. listed.node[d].mode = "stale"
    <3>1. CASE Firm(chained, listed)
      BY <3>1, <2>1 DEF Firm
    <3>2. ASSUME NEW r \in Results, NEW evicting \in SUBSET Dirs,
                 Answered(chained, "listing", r, evicting),
                 Rebuilt(chained, "listing", r, evicting, listed)
          PROVE  listed.node[d].mode = "stale"
      BY <3>2, <2>1, <1>2, <1>3, <1>6, <1>7, RebuiltKeepsFailures
    <3> QED BY <3>1, <3>2, <1>5
  <2> QED BY <2>2, <1>3 DEF Firm
<1>8. CASE Calm(s, scanned) /\ Firm(s, scanned)
  BY <1>7, <1>8 DEF Calm, Firm
<1>9. ASSUME NEW r \in Results, NEW evicting \in SUBSET Dirs,
             Answered(s, "scan", r, evicting), Rebuilt(s, "scan", r, evicting, scanned)
      PROVE  f.node[d].mode = "stale"
  <2>1. CASE scanned.node[d].id = s.node[d].id
    <3>1. scanned.node[d].mode = "stale"
      BY <2>1, <1>2, <1>9, RebuiltKeepsFailures
    <3> QED BY <3>1, <2>1, <1>7
  <2>2. CASE scanned.node[d].id # s.node[d].id
    <3>1. listed.node[d].id # chained.node[d].id /\ listed.node[d].id # 0
      BY <2>2, <1>6
    <3>2. PICK q \in Results, leaving \in SUBSET Dirs :
             Answered(chained, "listing", q, leaving) /\ Rebuilt(chained, "listing", q, leaving, listed)
      BY <3>1, <1>5 DEF Calm
    <3> DEFINE c == chained.lane["listing"].pending.task.dir
               t == s.lane["scan"].pending.task
    <3>3. /\ c \in Dirs /\ q.rows \in SUBSET Children(c) /\ Names(chained, "listing", c)
          /\ Live(chained.lane["listing"].pending)
      BY <3>2, <1>2, <1>3, AnsweredIs
    <3>4. d \in Children(c)
      <4>1. d # c
        BY <3>1, <3>2 DEF Rebuilt
      <4>2. Renewed(chained, chained.lane["listing"].pending.task, q, d, listed.node[d])
        BY <4>1, <3>1, <3>2 DEF Rebuilt, Discarded, Unchanged
      <4> QED BY <4>2, <3>3 DEF Renewed
    <3>5. Names(scanned, "listing", c) /\ Live(scanned.lane["listing"].pending)
      BY <3>3, <1>3 DEF Names, Calm
    <3>6. d \in Gone(s, t, r.rows, evicting)
      <4>1. "scan" \in Lanes
        BY <1>2
      <4>2. \/ scanned.node[d].mode = "stale"
            \/ d \in Gone(s, s.lane["scan"].pending.task, r.rows, evicting)
        BY <4>1, <1>9, RebuiltKeepsFailures
      <4>3. scanned.node[d].id # s.node[d].id /\ d # t.dir
        BY <2>2, <1>9 DEF Rebuilt
      <4>4. ~Unchanged(s, t, r, evicting, d, scanned.node[d])
        BY <4>3 DEF Unchanged
      <4> QED BY <4>3, <4>4, <1>9 DEF Rebuilt, Renewed, Discarded, Gone
    <3> HIDE DEF c, t
    <3>7. "scan" \in Lanes /\ t = s.lane["scan"].pending.task
      BY <1>2 DEF t
    <3> QED BY <3>3, <3>4, <3>5, <3>6, <3>7, <1>9, ListingIsApart
  <2> QED BY <2>1, <2>2
<1> QED BY <1>4, <1>8, <1>9

\* A poll closes levels for a sum that has ended only if a row of them is not there any more.
LEMMA PolledKeepsLevels ==
    ASSUME NEW s, Good(s), WayOK(s), gen \in Nat, NEW room \in Rooms,
           NEW c, c = s.lane["scan"].completion, c # None, c.task.reason = "sum",
           NEW f, f = Polled(s, room), Len(f.path) < Len(s.path)
    PROVE  /\ c.result # None
           /\ \E i \in DOMAIN s.path : s.path[i] \in Children(c.task.dir) \ c.result.rows
<1>1. PICK scanned, chained, listed : Stages(s, room, scanned, chained, listed)
  BY PolledStages
<1>2. WayOK(scanned) /\ WayOK(chained) /\ {"scan", "listing"} \subseteq Lanes
  BY <1>1, StagesWay
<1>3. /\ Good(chained) /\ chained.path = scanned.path /\ f.path = listed.path
  BY <1>1 DEF Stages, Calm
<1>4. listed.path = chained.path
  <2>1. \/ Calm(chained, listed) /\ Firm(chained, listed)
        \/ \E r \in Results, evicting \in SUBSET Dirs :
              Answered(chained, "listing", r, evicting) /\ Rebuilt(chained, "listing", r, evicting, listed)
    BY <1>1, <1>2, PollLaneIs DEF Stages
  <2>2. CASE Calm(chained, listed)
    BY <2>2 DEF Calm
  <2>3. ASSUME NEW r \in Results, NEW evicting \in SUBSET Dirs,
               Answered(chained, "listing", r, evicting), Rebuilt(chained, "listing", r, evicting, listed)
        PROVE  listed.path = chained.path
    BY <2>3, <1>2, <1>3, ListingKeepsLevels
  <2> QED BY <2>1, <2>2, <2>3
<1>5. Len(scanned.path) < Len(s.path)
  BY <1>3, <1>4
<1>6. ~Calm(s, scanned)
  <2>1. s.path \in Seq(Dirs)
    BY DEF Good, States
  <2> QED BY <2>1, <1>5 DEF Calm
<1>7. PICK r \in Results, evicting \in SUBSET Dirs :
         Answered(s, "scan", r, evicting) /\ Rebuilt(s, "scan", r, evicting, scanned)
  BY <1>1, <1>2, <1>6, PollLaneIs DEF Stages
<1> DEFINE t == s.lane["scan"].pending.task
<1>8. c.task = t /\ c.result = r /\ c.result # None
  BY <1>7, NoneAssumption DEF Answered
<1>9. t = s.lane["scan"].pending.task /\ t.reason = "sum" /\ "scan" \in Lanes
  BY <1>2, <1>8
<1> HIDE DEF t
<1>10. \E i \in DOMAIN s.path : s.path[i] \in Children(t.dir) \ r.rows
  BY <1>5, <1>7, <1>9, SumClosesMissing
<1> QED BY <1>8, <1>10

-----------------------------------------------------------------------------
(* Entering and leaving *)

\* A listing of another directory than the one shown is given up.
LEMMA MovedWay ==
    ASSUME NEW s, Good(s), WayOK(s), gen \in Nat, NEW levels \in Seq(Dirs),
           \A i \in DOMAIN levels : Present(s, levels[i]),
           levels # <<>> => levels = Way[levels[Len(levels)]],
           NEW v, v = Moved([s EXCEPT !.path = levels])
    PROVE  WayOK(v) /\ Firm(s, v)
<1> DEFINE u == [s EXCEPT !.path = levels]
           q == u.lane["listing"].pending
           left == q # None /\ (u.path = <<>> \/ q.task.dir # Here(u) \/ q.task.id # u.node[Here(u)].id)
           w == IF left THEN Abandoned(u) ELSE u
<1>1. Good(u) /\ u.node = s.node /\ u.lane = s.lane /\ u.path = levels
  BY LevelsGood
<1>2. v = Schedule(w)
  BY DEF Moved
<1> HIDE DEF u
<1>3. TreeOK(u)
  <2>1. \A l \in Lanes, d \in Dirs : SaysListing(u, l, d)
    BY <1>1 DEF WayOK, TreeOK, SaysListing, Names
  <2>2. u.path # <<>> => u.path = Way[Here(u)]
    BY <1>1 DEF Here
  <2> QED BY <2>1, <2>2, <1>1 DEF WayOK, TreeOK
<1>4. CASE left
  <2>1. w = Abandoned(u) /\ u.lane["listing"].pending # None
    BY <1>4
  <2> HIDE DEF w
  <2>2. /\ Good(w) /\ Calm(u, w) /\ Firm(u, w) /\ ~Live(w.lane["listing"].pending)
    BY <2>1, <1>1, AbandonGood, AbandonCalm
  <2>3. TreeOK(w)
    BY <2>2, <1>3, CalmKeepsTree
  <2>4. WayOK(w)
    BY <2>2, <2>3 DEF WayOK, ListsHere
  <2>5. Calm(w, v) /\ Firm(w, v)
    BY <2>2, <1>2, ScheduleCalm
  <2>6. WayOK(v)
    BY <2>4, <2>5, CalmKeeps
  <2>7. Firm(s, v)
    BY <2>2, <2>5, <1>1 DEF Firm
  <2> QED BY <2>6, <2>7
<1>5. CASE ~left
  <2>1. w = u
    BY <1>5
  <2>2. ASSUME NEW d \in Dirs PROVE ListsHere(u, d)
    <3>1. q = None \/ (u.path # <<>> /\ q.task.dir = Here(u))
      BY <1>5
    <3> QED BY <3>1 DEF ListsHere, Names
  <2>3. WayOK(u)
    BY <2>2, <1>3 DEF WayOK
  <2> HIDE DEF w
  <2>4. Calm(u, v) /\ Firm(u, v)
    BY <2>1, <1>1, <1>2, ScheduleCalm
  <2>5. WayOK(v)
    BY <2>3, <2>4, CalmKeeps
  <2>6. Firm(s, v)
    BY <2>4, <1>1 DEF Firm
  <2> QED BY <2>5, <2>6
<1> QED BY <1>4, <1>5

-----------------------------------------------------------------------------
(* The actions *)

\* A failure is cleared only by a new request, or with its row.
Excused(n, m) == n.mode = "stale" /\ m.id = n.id /\ m.mode # "stale" => m.mode = "pending"

NowIs == Now.node = node /\ Now.path = path /\ Now.lane = lane

LEMMA NextNow ==
    ASSUME NEW s \in States, Becomes(s)
    PROVE  Now' = s /\ node' = s.node /\ path' = s.path
<1>1. Now' = s
  BY DEF Becomes, Now, States
<1> QED BY <1>1 DEF Becomes

LEMMA PollWay ==
    ASSUME WInv, Poll
    PROVE  /\ WayOK(Now') /\ \A d \in Dirs : Excused(node[d], node'[d])
           /\ LET c == lane["scan"].completion
              IN  Len(path') < Len(path) /\ c # None /\ c.task.reason = "sum"
                  => c.result # None /\ \E i \in DOMAIN path : path[i] \in Children(c.task.dir) \ c.result.rows
<1>1. Good(Now) /\ WayOK(Now) /\ gen \in Nat /\ NowIs
  BY DEF WInv, IInv, NowIs, Now
<1>2. PICK heard \in BOOLEAN, room \in Rooms : Becomes(Polled(Drained(Now, heard), room))
  BY DEF Poll
<1> DEFINE s == Drained(Now, heard)
           f == Polled(s, room)
<1>3. Good(s) /\ Calm(Now, s) /\ Firm(Now, s)
  BY <1>1, DrainedGood, DrainedCalm
<1>4. WayOK(s)
  BY <1>1, <1>3, CalmKeeps
<1> HIDE DEF s
<1>5. Good(f) /\ f \in States
  BY <1>1, <1>3, PolledGood DEF Good
<1>6. WayOK(f)
  <2>1. PICK scanned, chained, listed : Stages(s, room, scanned, chained, listed)
    BY <1>1, <1>3, PolledStages
  <2> QED BY <2>1, <1>4, StagesWay
<1>7. f = Polled(s, room) /\ Becomes(f)
  BY <1>2 DEF s
<1> HIDE DEF f
<1>8. Now' = f /\ node' = f.node /\ path' = f.path
  BY <1>5, <1>7, NextNow
<1>9. ASSUME NEW d \in Dirs PROVE Excused(node[d], node'[d])
  <2>1. SUFFICES ASSUME node[d].mode = "stale", f.node[d].id = node[d].id PROVE f.node[d].mode = "stale"
    BY <1>8 DEF Excused
  <2>2. s.node[d].mode = "stale" /\ f.node[d].id = s.node[d].id
    BY <2>1, <1>1, <1>3 DEF NowIs, Calm, Firm
  <2> QED BY <2>2, <1>1, <1>3, <1>4, <1>7, PolledKeepsFailures
<1>10. ASSUME NEW c, c = lane["scan"].completion, Len(path') < Len(path), c # None, c.task.reason = "sum"
       PROVE  c.result # None /\ \E i \in DOMAIN path : path[i] \in Children(c.task.dir) \ c.result.rows
  <2>1. s.path = path /\ Len(f.path) < Len(s.path)
    BY <1>1, <1>3, <1>8, <1>10 DEF NowIs, Calm
  <2> DEFINE e == s.lane["scan"].completion
  <2>2. e # None
    BY <1>1, <1>10, DrainedCalm DEF s, NowIs
  <2>3. e.task = c.task /\ e.result = c.result
    <3>1. SameAnswer(Now, s, "scan")
      BY <1>3 DEF Calm, Lanes
    <3> QED BY <3>1, <2>2, <1>1, <1>10 DEF SameAnswer, NowIs
  <2>4. e = s.lane["scan"].completion /\ e.task.reason = "sum"
    BY <2>3, <1>10
  <2> HIDE DEF e
  <2>5. /\ e.result # None
        /\ \E i \in DOMAIN s.path : s.path[i] \in Children(e.task.dir) \ e.result.rows
    BY <2>1, <2>2, <2>4, <1>1, <1>3, <1>4, <1>7, PolledKeepsLevels
  <2> QED BY <2>1, <2>3, <2>5
<1> QED BY <1>6, <1>8, <1>9, <1>10

LEMMA MoveWay ==
    ASSUME WInv, NEW levels \in Seq(Dirs), \A i \in DOMAIN levels : Present(Now, levels[i]),
           levels # <<>> => levels = Way[levels[Len(levels)]], Move(levels)
    PROVE  WayOK(Now') /\ \A d \in Dirs : Excused(node[d], node'[d])
<1> DEFINE v == Moved([Now EXCEPT !.path = levels])
<1>1. Good(Now) /\ WayOK(Now) /\ gen \in Nat /\ NowIs
  BY DEF WInv, IInv, NowIs, Now
<1>2. WayOK(v) /\ Firm(Now, v)
  BY <1>1, MovedWay
<1>3. v \in States /\ Becomes(v)
  BY <1>1, MovedGood DEF Good, Move
<1> HIDE DEF v
<1>4. Now' = v /\ node' = v.node
  BY <1>3, NextNow
<1>5. \A d \in Dirs : Excused(node[d], node'[d])
  BY <1>1, <1>2, <1>4 DEF Firm, Excused, NowIs
<1> QED BY <1>2, <1>4, <1>5

LEMMA EnterWay ==
    ASSUME WInv, EnterDirectory
    PROVE  WayOK(Now') /\ \A d \in Dirs : Excused(node[d], node'[d])
<1>1. Good(Now) /\ WayOK(Now) /\ NowIs /\ path \in Seq(Dirs) /\ \A i \in DOMAIN path : Present(Now, path[i])
  BY DEF WInv, IInv, NowIs, Now, Good, States
<1>2. PICK d \in (IF path = <<>> THEN Roots ELSE Children(Here(Now))) :
         Present(Now, d) /\ Move(Append(path, d))
  BY DEF EnterDirectory
<1> DEFINE levels == Append(path, d)
<1>3. d \in Dirs
  BY <1>2 DEF Roots, Children
<1>4. /\ levels \in Seq(Dirs) /\ levels # <<>> /\ levels[Len(levels)] = d
      /\ \A i \in DOMAIN levels : Present(Now, levels[i])
  <2>1. /\ levels \in Seq(Dirs) /\ levels # <<>> /\ levels[Len(levels)] = d
        /\ \A i \in DOMAIN levels : levels[i] = d \/ (i \in DOMAIN path /\ levels[i] = path[i])
    BY <1>1, <1>3
  <2> HIDE DEF levels
  <2>2. \A i \in DOMAIN levels : Present(Now, levels[i])
    BY <2>1, <1>1, <1>2
  <2> QED BY <2>1, <2>2
<1>5. levels = Way[d]
  <2>1. Way[d] \in Seq(Dirs) /\ Way[d][Len(Way[d])] = d
    BY <1>3, WayIs
  <2>2. CASE path = <<>>
    <3>1. Len(Way[d]) = 1
      BY <2>2, <1>2 DEF Roots
    <3> QED BY <3>1, <2>1, <2>2
  <2>3. CASE path # <<>>
    <3> DEFINE h == Here(Now)
    <3>1. h \in Dirs /\ path = Way[h]
      BY <2>3, <1>1, HereIs DEF NowIs, WayOK, TreeOK
    <3>2. d \in Children(h)
      BY <2>3, <1>2
    <3> HIDE DEF h
    <3>3. Len(Way[d]) = Len(path) + 1 /\ Way[d][Len(path)] = h
      BY <3>1, <3>2, <1>3, InsideIs DEF Children
    <3>4. Len(path) \in 1 .. Len(Way[d])
      BY <3>3, <2>3, <1>1
    <3>5. path = SubSeq(Way[d], 1, Len(path))
      BY <3>1, <3>3, <3>4, <1>3, WayIs
    <3> DEFINE w == Way[d]
               n == Len(path)
    <3>6. w \in Seq(Dirs) /\ n \in Nat /\ Len(w) = n + 1 /\ w[n + 1] = d /\ path = SubSeq(w, 1, n)
      BY <3>3, <3>5, <2>1, <1>1
    <3> HIDE DEF w, n
    <3>7. Append(SubSeq(w, 1, n), w[n + 1]) = w
      BY <3>6
    <3> QED BY <3>6, <3>7 DEF w
  <2> QED BY <2>2, <2>3
<1>6. Move(levels)
  BY <1>2
<1> HIDE DEF levels
<1> QED BY <1>4, <1>5, <1>6, MoveWay

LEMMA ReturnWay ==
    ASSUME WInv, ReturnToParent
    PROVE  WayOK(Now') /\ \A d \in Dirs : Excused(node[d], node'[d])
<1>1. Good(Now) /\ WayOK(Now) /\ NowIs /\ path \in Seq(Dirs) /\ \A i \in DOMAIN path : Present(Now, path[i])
  BY DEF WInv, IInv, NowIs, Now, Good, States
<1> DEFINE n == Len(path) - 1
           levels == SubSeq(path, 1, n)
<1>2. path # <<>> /\ Move(levels)
  BY DEF ReturnToParent
<1>3. n \in Nat /\ n \in 0 .. Len(path)
  BY <1>1, <1>2
<1> HIDE DEF n
<1>4. /\ levels \in Seq(Dirs) /\ Len(levels) = n
      /\ \A i \in DOMAIN levels : i \in DOMAIN path /\ levels[i] = path[i]
  BY <1>1, <1>3
<1>5. \A i \in DOMAIN levels : Present(Now, levels[i])
  BY <1>1, <1>4
<1>6. ASSUME levels # <<>> PROVE levels = Way[levels[Len(levels)]]
  <2>1. n \in 1 .. Len(path) /\ levels[n] = path[n]
    BY <1>3, <1>4, <1>6
  <2>2. Here(Now) \in Dirs /\ path = Way[Here(Now)]
    BY <1>1, <1>2, HereIs DEF NowIs, WayOK, TreeOK
  <2>3. Way[path[n]] = SubSeq(path, 1, n)
    BY <2>1, <2>2, WayIs
  <2> QED BY <2>1, <2>3, <1>4
<1> HIDE DEF levels
<1> QED BY <1>2, <1>4, <1>5, <1>6, MoveWay

\* A refresh asks for the directory shown, also when its last request has failed.
LEMMA RefreshWay ==
    ASSUME WInv, Refresh
    PROVE  WayOK(Now') /\ \A d \in Dirs : Excused(node[d], node'[d])
<1> DEFINE Unseen(n) == [n EXCEPT !.loaded = FALSE, !.observed = FALSE, !.catchUp = FALSE, !.from = 0]
           s == [Now EXCEPT !.node = [d \in Dirs |-> Unseen(node[d])]]
           h == Here(Now)
           v == Ask(s, "scan", h, "refresh", gen + 1)
<1>1. /\ Good(Now) /\ WayOK(Now) /\ Now \in States /\ gen \in Nat /\ gen + 1 \in Nat /\ NowIs
      /\ node \in [Dirs -> Nodes]
  BY DEF WInv, IInv, Good, NowIs, Now, States
<1>2. \A l \in Lanes : lane[l].pending = None
  BY <1>1 DEF Refresh, Free, NowIs
<1>3. ASSUME NEW d \in Dirs
      PROVE  /\ Unseen(node[d]) \in Nodes /\ Unseen(node[d]).id = node[d].id
             /\ Unseen(node[d]).mode = node[d].mode /\ Unseen(node[d]).listing = node[d].listing
  <2>1. node[d] \in Nodes
    BY <1>1
  <2> QED BY <2>1 DEF Nodes
<1>4. Becomes(v)
  BY <1>1 DEF Refresh, NowIs
<1> HIDE DEF Unseen
<1>5. s.node = [d \in Dirs |-> Unseen(node[d])] /\ s.path = path /\ s.lane = lane
  BY <1>1 DEF Now
<1>6. s \in States
  BY <1>1, <1>3, <1>5 DEF States, NowIs, Now
<1> HIDE DEF s
<1>7. \A m \in Lanes, d \in Dirs : ~Names(s, m, d)
  BY <1>2, <1>5 DEF Names
<1>8. Calm(Now, s)
  <2>1. \A m \in Lanes : SameAnswer(Now, s, m)
    BY <1>1, <1>5 DEF SameAnswer, NowIs
  <2>2. s.path = Now.path /\ \A m \in Lanes : s.lane[m].pending = None
    BY <1>1, <1>2, <1>5 DEF NowIs
  <2>3. \A d \in Dirs : /\ s.node[d].id = Now.node[d].id /\ s.node[d].listing = Now.node[d].listing
                        /\ s.node[d].mode = Now.node[d].mode
    BY <1>1, <1>3, <1>5 DEF NowIs
  <2> QED BY <2>1, <2>2, <2>3, CalmBy
<1>9. h \in Dirs /\ Present(s, h)
  <2>1. path # <<>>
    BY DEF Refresh
  <2>2. h \in Dirs /\ Present(Now, h)
    BY <2>1, <1>1, HereIs DEF NowIs
  <2> HIDE DEF h
  <2> QED BY <2>2, <1>1, <1>3, <1>5 DEF Present, NowIs
<1>10. /\ "scan" \in Lanes /\ "refresh" \in Reasons /\ Free(s, "scan") /\ s.lane["scan"].completion = None
       /\ s.lane["scan"].worker # "absent"
  <2>1. "scan" \in Lanes /\ "refresh" \in Reasons
    BY DEF Lanes, Reasons
  <2>2. LaneOK(lane["scan"]) /\ ScanOK(lane["scan"])
    BY <2>1, <1>1 DEF Good, NowIs
  <2> QED BY <2>1, <2>2, <1>2, <1>5 DEF Free, LaneOK, ScanOK
<1> HIDE DEF h
<1>11. /\ v \in States
       /\ Refused(s, "scan", h, "refresh", v) \/ Accepted(s, "scan", h, "refresh", gen + 1, v)
       /\ AskedNode(s.node[h], "refresh") \in Nodes
  BY <1>1, <1>6, <1>9, <1>10, AskIs
<1>12. Calm(s, v)
  <2>1. "scan" = "listing" => s.path # <<>> /\ h = Here(s)
    OBVIOUS
  <2> QED BY <2>1, <1>1, <1>6, <1>7, <1>9, <1>10, AskCalm
<1> HIDE DEF v
<1>13. WayOK(v)
  BY <1>1, <1>8, <1>12, CalmKeeps
<1>14. Now' = v /\ node' = v.node
  BY <1>4, <1>11, NextNow
<1>15. ASSUME NEW d \in Dirs PROVE Excused(node[d], node'[d])
  <2>1. CASE d # h
    <3>1. v.node[d] = s.node[d]
      BY <2>1, <1>6, <1>11 DEF Refused, Accepted, States
    <3> QED BY <3>1, <1>3, <1>5, <1>14 DEF Excused
  <2>2. CASE d = h
    <3> DEFINE n == AskedNode(s.node[h], "refresh")
    <3>1. n.mode = "pending" /\ s.node[h] \in Nodes
      BY <1>6, <1>9 DEF AskedNode, States, Nodes
    <3>2. [n EXCEPT !.mode = "stale"].mode = "stale"
      BY <1>11, ZenonT(60) DEF Nodes
    <3> HIDE DEF n
    <3>3. v.node[h] = n \/ v.node[h] = [n EXCEPT !.mode = "stale"]
      BY <1>6, <1>9, <1>11 DEF Refused, Accepted, States, n
    <3> QED BY <3>1, <3>2, <3>3, <2>2, <1>14 DEF Excused
  <2> QED BY <2>1, <2>2
<1> QED BY <1>13, <1>14, <1>15

\* A step of a worker or of the clock: the directories and the levels stay.
LEMMA WorkerWay ==
    ASSUME WInv, node' = node, path' = path,
           \A l \in Lanes : RowsOK(lane'[l].completion),
           \A l \in Lanes : lane'[l].pending # None /\ Live(lane'[l].pending) =>
               /\ lane[l].pending # None /\ Live(lane[l].pending)
               /\ lane'[l].pending.task = lane[l].pending.task
    PROVE  WayOK(Now')
<1> DEFINE s == Now
           v == Now'
<1>1. /\ WayOK(s) /\ s.node = node /\ s.path = path /\ s.lane = lane
      /\ v.node = node /\ v.path = path /\ v.lane = lane'
  BY DEF WInv, Now
<1> HIDE DEF s, v
<1>2. ASSUME NEW l \in Lanes, NEW d \in Dirs, Names(v, l, d), Live(v.lane[l].pending)
      PROVE  /\ Names(s, l, d) /\ Live(s.lane[l].pending)
             /\ v.lane[l].pending.task = s.lane[l].pending.task
  BY <1>1, <1>2 DEF Names
<1>3. \A l \in Lanes, d \in Dirs : SaysListing(v, l, d)
  BY <1>1, <1>2 DEF WayOK, TreeOK, SaysListing
<1>4. \A d \in Dirs : ListsHere(v, d)
  <2>1. "listing" \in Lanes /\ Here(v) = Here(s)
    BY <1>1 DEF Lanes, Here
  <2> QED BY <2>1, <1>1, <1>2 DEF WayOK, ListsHere
<1>5. v.path # <<>> => v.path = Way[Here(v)]
  BY <1>1 DEF WayOK, TreeOK, Here
<1>6. TreeOK(v)
  BY <1>1, <1>3, <1>5 DEF WayOK, TreeOK
<1> QED BY <1>4, <1>6 DEF WayOK, v

\* What the lanes are known to hold.
LEMMA LanesKnown ==
    ASSUME WInv
    PROVE  lane \in [Lanes -> LaneRecords] /\ \A l \in Lanes : RowsOK(lane[l].completion)
BY DEF WInv, IInv, Good, States, Now, WayOK, TreeOK

LEMMA StepsOfWorkersWay ==
    ASSUME WInv, NEW l \in Lanes, Start(l) \/ Fault(l) \/ Elapse(l)
    PROVE  WayOK(Now')
<1>1. lane \in [Lanes -> LaneRecords] /\ lane[l] \in LaneRecords
      /\ \A m \in Lanes : RowsOK(lane[m].completion)
  BY LanesKnown
<1>2. node' = node /\ path' = path
  BY DEF Start, Fault, Elapse
<1>3. CASE Start(l) \/ Fault(l)
  <2>1. /\ \A m \in Lanes \ {l} : lane'[m] = lane[m]
        /\ lane'[l].pending = lane[l].pending /\ lane'[l].completion = lane[l].completion
    BY <1>1, <1>3 DEF Start, Fault, LaneRecords
  <2>2. \A m \in Lanes : lane'[m].pending = lane[m].pending /\ lane'[m].completion = lane[m].completion
    BY <2>1
  <2> QED BY <2>2, <1>1, <1>2, WorkerWay
<1>4. CASE Elapse(l)
  <2> DEFINE p == lane[l].pending
             q == [p EXCEPT !.late = TRUE]
  <2>1. p # None /\ p \in Pendings
    BY <1>1, <1>4 DEF Elapse, LaneRecords
  <2>2. q.task = p.task /\ (Live(q) => Live(p))
    BY <2>1 DEF Pendings, Live
  <2>3. /\ \A m \in Lanes \ {l} : lane'[m] = lane[m]
        /\ lane'[l].pending = q /\ lane'[l].completion = lane[l].completion
    BY <1>1, <1>4 DEF Elapse, LaneRecords
  <2> HIDE DEF q
  <2>4. \A m \in Lanes : lane'[m].completion = lane[m].completion
    BY <2>3
  <2>5. \A m \in Lanes : lane'[m].pending # None /\ Live(lane'[m].pending) =>
           /\ lane[m].pending # None /\ Live(lane[m].pending)
           /\ lane'[m].pending.task = lane[m].pending.task
    BY <2>1, <2>2, <2>3
  <2> QED BY <2>4, <2>5, <1>1, <1>2, WorkerWay
<1> QED BY <1>3, <1>4

LEMMA FinishWay == ASSUME WInv, NEW l \in Lanes, Finish(l) PROVE WayOK(Now')
<1>1. lane \in [Lanes -> LaneRecords] /\ lane[l] \in LaneRecords
      /\ \A m \in Lanes : RowsOK(lane[m].completion)
  BY LanesKnown
<1>2. PICK a \in ResultsOf(lane[l].job) :
         lane' = [lane EXCEPT
             ![l].worker = "idle", ![l].job = None,
             ![l].completion = [task |-> lane[l].job, result |-> a, late |-> lane[l].pending.late]]
  BY DEF Finish
<1> DEFINE c == [task |-> lane[l].job, result |-> a, late |-> lane[l].pending.late]
<1>3. RowsOK(c)
  <2>1. a # None => a.rows \subseteq Children(lane[l].job.dir)
    <3>1. SUFFICES ASSUME a # None PROVE a.rows \subseteq Children(lane[l].job.dir)
      OBVIOUS
    <3>2. PICK rows \in SUBSET Children(lane[l].job.dir), observed \in BOOLEAN :
             \E from \in {lane[l].job.gen, 0, sizes[lane[l].job.dir]} :
                a = [rows |-> rows, observed |-> observed, from |-> from]
      BY <3>1, <1>2 DEF ResultsOf
    <3> QED BY <3>2
  <2>2. c.task = lane[l].job /\ c.result = a
    OBVIOUS
  <2> HIDE DEF c
  <2> QED BY <2>1, <2>2 DEF RowsOK
<1>4. /\ \A m \in Lanes \ {l} : lane'[m] = lane[m]
      /\ lane'[l].pending = lane[l].pending /\ lane'[l].completion = c
  <2>1. lane' = [lane EXCEPT ![l] = [@ EXCEPT !.worker = "idle", !.job = None, !.completion = c]]
    BY <1>1, <1>2 DEF LaneRecords
  <2> HIDE DEF c
  <2> QED BY <2>1, <1>1 DEF LaneRecords
<1> HIDE DEF c
<1>5. \A m \in Lanes : lane'[m].pending = lane[m].pending /\ RowsOK(lane'[m].completion)
  BY <1>1, <1>3, <1>4
<1>6. node' = node /\ path' = path
  BY DEF Finish
<1> QED BY <1>5, <1>6, WorkerWay

LEMMA IdleWay == ASSUME WInv, Report \/ NoKey \/ UNCHANGED vars PROVE WayOK(Now')
<1>1. Now' = Now
  BY DEF Report, NoKey, vars, Now
<1> QED BY <1>1 DEF WInv

LEMMA InitWay == Init => WInv
<1> SUFFICES ASSUME Init PROVE WInv
  OBVIOUS
<1>1. IInv
  BY InitGood
<1> DEFINE s == Now
<1>2. s.node = node /\ s.path = path /\ s.lane = lane
  BY DEF Now
<1> HIDE DEF s
<1>3. \A l \in Lanes : s.lane[l].pending = None /\ s.lane[l].completion = None
  BY <1>2 DEF Init
<1>4. \A d \in Dirs : s.node[d].mode = "snapshot"
  BY <1>2 DEF Init, NewNode
<1>5. s.path = <<>>
  BY <1>2 DEF Init
<1>6. \A l \in Lanes : RowsOK(s.lane[l].completion)
  BY <1>3 DEF RowsOK
<1>7. \A l \in Lanes, d \in Dirs : ~Names(s, l, d)
  BY <1>3 DEF Names
<1>8. "listing" \in Lanes
  BY DEF Lanes
<1>9. WayOK(s)
  BY <1>4, <1>5, <1>6, <1>7, <1>8 DEF WayOK, TreeOK, SaysListing, ListsHere
<1> QED BY <1>1, <1>9 DEF WInv, s

-----------------------------------------------------------------------------
(* The second invariant, the levels and the failures *)

\* What no step does to a failure and, for a sum, to the levels.
FailuresExcused == \A d \in Dirs : Excused(node[d], node'[d])

LevelsExcused ==
    LET c == lane["scan"].completion
    IN  phase' = "key" /\ Len(path') < Len(path) /\ c # None /\ c.task.reason = "sum"
        => c.result # None /\ \E i \in DOMAIN path : path[i] \in Children(c.task.dir) \ c.result.rows

LEMMA StepWay ==
    ASSUME WInv, [Next]_vars
    PROVE  WayOK(Now') /\ FailuresExcused /\ LevelsExcused
<1>1. CASE Poll
  BY <1>1, PollWay DEF FailuresExcused, LevelsExcused
<1>2. CASE EnterDirectory \/ ReturnToParent \/ Refresh
  <2>1. WayOK(Now') /\ FailuresExcused
    BY <1>2, EnterWay, ReturnWay, RefreshWay DEF FailuresExcused
  <2>2. phase' = "poll"
    BY <1>2 DEF EnterDirectory, ReturnToParent, Refresh, Move
  <2> QED BY <2>1, <2>2 DEF LevelsExcused
<1>3. ASSUME node' = node, path' = path PROVE FailuresExcused /\ LevelsExcused
  <2>1. path \in Seq(Dirs)
    BY DEF WInv, IInv, Good, States, Now
  <2>2. ~(Len(path') < Len(path))
    BY <2>1, <1>3
  <2> QED BY <2>2, <1>3 DEF FailuresExcused, LevelsExcused, Excused
<1>4. CASE Report \/ NoKey \/ UNCHANGED vars
  <2>1. node' = node /\ path' = path
    BY <1>4 DEF Report, NoKey, vars
  <2> QED BY <2>1, <1>3, <1>4, IdleWay
<1>5. ASSUME NEW l \in Lanes, Elapse(l) \/ Worker(l)
      PROVE  WayOK(Now') /\ FailuresExcused /\ LevelsExcused
  <2>1. node' = node /\ path' = path
    BY <1>5 DEF Elapse, Worker, Start, Finish, Fault
  <2>2. WayOK(Now')
    BY <1>5, StepsOfWorkersWay, FinishWay DEF Worker
  <2> QED BY <2>1, <2>2, <1>3
<1> QED BY <1>1, <1>2, <1>4, <1>5 DEF Next

\* WInv is inductive: the levels entered are the way to the last of them, and a
\* listing that is waited for is of that one.
THEOREM WaysHold == Spec => []WInv
<1>1. Init => WInv
  BY InitWay
<1>2. WInv /\ [Next]_vars => WInv'
  <2> SUFFICES ASSUME WInv, [Next]_vars PROVE WInv'
    OBVIOUS
  <2>1. IInv'
    BY StepGood DEF WInv
  <2>2. WayOK(Now')
    BY StepWay
  <2> QED BY <2>1, <2>2 DEF WInv
<1> QED BY <1>1, <1>2, PTL DEF Spec

\* LevelsAreKept: through every apply_detail_rescan_result the levels entered
\* are the rows from a root down, all of them there; a sum that ends closes a
\* level only for a row that is not there any more.
THEOREM LevelsTheorem == Spec => LevelsAreKept
<1>1. WInv => LevelsExist
  <2> SUFFICES ASSUME WInv, path # <<>>
               PROVE  path = Way[Here(Now)] /\ \A i \in DOMAIN path : Present(Now, path[i])
    BY DEF LevelsExist
  <2>1. Good(Now) /\ WayOK(Now) /\ Now.path = path
    BY DEF WInv, IInv, Now
  <2> QED BY <2>1 DEF Good, WayOK, TreeOK
<1>2. WInv /\ [Next]_vars =>
         [LET c == lane["scan"].completion
          IN  phase' = "key" /\ Len(path') < Len(path) /\ c # None /\ c.task.reason = "sum"
              => c.result # None /\ \E i \in DOMAIN path : path[i] \in Children(c.task.dir) \ c.result.rows]_vars
  BY StepWay DEF LevelsExcused
<1> QED BY WaysHold, <1>1, <1>2, PTL DEF Spec, LevelsAreKept, SumsKeepLevels

\* FailureStays: neither a late answer nor the rescan of another directory nor
\* the two of one poll together clear a failed directory (fail_detail_rescan)
\* that stays the same row.
THEOREM FailureTheorem == Spec => FailureStays
<1>1. WInv /\ [Next]_vars =>
         [\A d \in Dirs : node[d].mode = "stale" /\ node'[d].id = node[d].id
                          /\ node'[d].mode # "stale" => node'[d].mode = "pending"]_vars
  BY StepWay DEF FailuresExcused, Excused
<1> QED BY WaysHold, <1>1, PTL DEF Spec, FailureStays

=============================================================================
