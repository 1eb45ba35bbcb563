--------------------------- MODULE Quarantine_proofs ---------------------------
(***************************************************************************)
(* That a recoverable cleanup keeps a durable copy of whatever it unlinks, *)
(* unlinks only what it measured, and loses content only of files that     *)
(* another process raced with its last inspection: for any tree, any plans *)
(* and executions, and any interleaving with other processes, failures,    *)
(* crashes and losses of power.  One lemma per action shows that it keeps  *)
(* MoveInv, the part of IInv about the move; two lemmas show what stays    *)
(* true of the inspections.  That records and report say what happened     *)
(* follows from a second invariant, LInv.                                  *)
(***************************************************************************)
EXTENDS QuarantineInv, FiniteSetTheorems, WellFoundedInduction, TLAPS

-----------------------------------------------------------------------------
(* Entries, the directories above them and the objects *)

\* A set of entries has one whose directory is not in it.
LEMMA Shallowest ==
    ASSUME NEW S \in SUBSET Entries, S # {}
    PROVE  \E e \in S : Parent[e] = Root \/ Parent[e] \notin S
<1>1. PICK depth \in [Entries -> 0..Cardinality(Entries)] :
         \A e \in Entries : Parent[e] # Root => depth[Parent[e]] < depth[e]
  BY QuarantineAssumption
<1>2. Cardinality(Entries) \in Nat
  BY QuarantineAssumption, FS_CardinalityType
<1>3. \A e \in Entries : depth[e] \in Nat
  BY <1>1, <1>2
<1> DEFINE D == {depth[e] : e \in S}
<1>4. D # {} /\ D \subseteq Nat
  BY <1>3
<1>5. PICK n \in D : \A m \in D : <<m, n>> \notin OpToRel(<, Nat)
  <2> HIDE DEF D
  <2> QED BY <1>4, NatLessThanWellFounded, WFMin
<1>6. PICK e \in S : depth[e] = n
  BY <1>5
<1>7. ASSUME Parent[e] # Root, Parent[e] \in S PROVE FALSE
  <2>1. depth[Parent[e]] < depth[e] /\ depth[Parent[e]] \in D
    BY <1>1, <1>7
  <2> HIDE DEF D
  <2>2. depth[Parent[e]] \in Nat /\ n \in Nat
    BY <1>4, <1>5, <2>1
  <2> QED BY <1>5, <1>6, <2>1, <2>2 DEF OpToRel
<1> QED BY <1>7

LEMMA AboveStep ==
    ASSUME NEW a \in Entries, NEW e \in Entries
    PROVE  /\ <<e, e>> \in Above
           /\ a # e => (<<a, e>> \in Above <=> Parent[e] # Root /\ <<a, Parent[e]>> \in Above)
           /\ Parent[e] # Root => Parent[e] \in Entries /\ Parent[e] \in Dirs /\ <<Parent[e], e>> \in Above
           /\ Parent[e] # e
<1>1. Parent[e] \in Dirs \cup {Root} /\ Dirs \subseteq Entries /\ Root \notin Entries
  BY QuarantineAssumption
<1>2. /\ \A x \in Entries : <<x, x>> \in Above
      /\ \A x, y \in Entries : x # y => (<<x, y>> \in Above <=> Parent[y] # Root /\ <<x, Parent[y]>> \in Above)
  BY QuarantineAssumption
<1>3. Parent[e] # e
  <2>1. {e} \in SUBSET Entries /\ {e} # {}
    OBVIOUS
  <2>2. \E x \in {e} : Parent[x] = Root \/ Parent[x] \notin {e}
    BY <2>1, Shallowest
  <2> QED BY <2>2, <1>1
<1> QED BY <1>1, <1>2, <1>3

LEMMA Transitive ==
    ASSUME NEW a \in Entries, NEW b \in Entries, NEW c \in Entries,
           <<a, b>> \in Above, <<b, c>> \in Above
    PROVE  <<a, c>> \in Above
<1> DEFINE S == {x \in Entries : <<b, x>> \in Above /\ <<a, x>> \notin Above}
<1>1. ASSUME S # {} PROVE FALSE
  <2>1. PICK e \in S : Parent[e] = Root \/ Parent[e] \notin S
    BY <1>1, Shallowest
  <2>2. e # b
    BY <2>1
  <2>3. Parent[e] # Root /\ Parent[e] \in Entries /\ <<b, Parent[e]>> \in Above
    BY <2>1, <2>2, AboveStep
  <2>4. <<a, Parent[e]>> \in Above
    BY <2>1, <2>3
  <2> QED BY <2>1, <2>3, <2>4, AboveStep
<1> QED BY <1>1

\* Two directories above an entry are one above the other; here for an object.
LEMMA ObjectAbove ==
    ASSUME NEW o \in Objects, NEW a \in Entries, NEW e \in Entries,
           <<o, e>> \in Above, <<a, e>> \in Above
    PROVE  <<o, a>> \in Above
<1> DEFINE S == {x \in Entries : <<o, x>> \in Above /\ <<a, x>> \in Above /\ <<o, a>> \notin Above}
<1>1. ASSUME S # {} PROVE FALSE
  <2>1. PICK x \in S : Parent[x] = Root \/ Parent[x] \notin S
    BY <1>1, Shallowest
  <2>2. x # a /\ o \in Entries
    BY <2>1 DEF Objects
  <2>3. Parent[x] # Root /\ Parent[x] \in Entries /\ <<a, Parent[x]>> \in Above
    BY <2>1, <2>2, AboveStep
  <2>4. x # o
    BY <2>3 DEF Objects
  <2>5. <<o, Parent[x]>> \in Above
    BY <2>1, <2>2, <2>3, <2>4, AboveStep
  <2> QED BY <2>1, <2>3, <2>5
<1> QED BY <1>1

LEMMA OneObject ==
    ASSUME NEW o \in Objects, NEW e \in Entries, <<o, e>> \in Above
    PROVE  /\ \A p \in Objects : <<p, e>> \in Above => p = o
           /\ ObjectOf(e) = o
<1>1. ASSUME NEW p \in Objects, <<p, e>> \in Above PROVE p = o
  <2>1. p \in Entries /\ o \in Entries /\ Parent[p] = Root
    BY DEF Objects
  <2>2. <<o, p>> \in Above
    BY <1>1, <2>1, ObjectAbove
  <2> QED BY <2>1, <2>2, AboveStep
<1> QED BY <1>1 DEF ObjectOf

LEMMA HasObject ==
    ASSUME NEW e \in Entries
    PROVE  ObjectOf(e) \in Objects /\ <<ObjectOf(e), e>> \in Above
<1> DEFINE S == {x \in Entries : \A o \in Objects : <<o, x>> \notin Above}
<1>1. ASSUME S # {} PROVE FALSE
  <2>1. PICK x \in S : Parent[x] = Root \/ Parent[x] \notin S
    BY <1>1, Shallowest
  <2>2. CASE Parent[x] = Root
    BY <2>1, <2>2, AboveStep DEF Objects
  <2>3. CASE Parent[x] # Root
    <3>1. Parent[x] \in Entries /\ Parent[x] \notin S
      BY <2>1, <2>3, AboveStep
    <3>2. PICK o \in Objects : <<o, Parent[x]>> \in Above
      BY <3>1
    <3>3. o \in Entries
      BY DEF Objects
    <3> QED BY <2>1, <2>3, <3>2, <3>3, AboveStep
  <2> QED BY <2>2, <2>3
<1>2. \E o \in Objects : <<o, e>> \in Above
  BY <1>1
<1> QED BY <1>2 DEF ObjectOf

\* What is below a directory is below one of its names.
LEMMA Descend ==
    ASSUME NEW d \in Entries, NEW e \in Entries, <<d, e>> \in Above, d # e
    PROVE  \E k \in Kids(d) : <<k, e>> \in Above
<1> DEFINE S == {x \in Entries : <<d, x>> \in Above /\ d # x /\ \A k \in Kids(d) : <<k, x>> \notin Above}
<1>1. ASSUME S # {} PROVE FALSE
  <2>1. PICK x \in S : Parent[x] = Root \/ Parent[x] \notin S
    BY <1>1, Shallowest
  <2>2. Parent[x] # Root /\ Parent[x] \in Entries /\ <<d, Parent[x]>> \in Above
    BY <2>1, AboveStep
  <2>3. Parent[x] # d
    BY <2>1, AboveStep DEF Kids
  <2>4. PICK k \in Kids(d) : <<k, Parent[x]>> \in Above
    BY <2>1, <2>2, <2>3
  <2>5. k \in Entries
    BY DEF Kids
  <2> QED BY <2>1, <2>2, <2>4, <2>5, AboveStep
<1> QED BY <1>1

LEMMA FileIsLeaf ==
    ASSUME NEW f \in Files, NEW e \in Entries, <<f, e>> \in Above
    PROVE  e = f
<1>1. f \in Entries /\ f \notin Dirs
  BY DEF Files
<1>2. ASSUME NEW k \in Kids(f) PROVE FALSE
  BY <1>1, <1>2, AboveStep, QuarantineAssumption DEF Kids
<1> QED BY <1>1, <1>2, Descend

-----------------------------------------------------------------------------
(* The initial state, and the object being moved *)

LEMMA InitGood == Init => IInv
<1> SUFFICES ASSUME Init PROVE IInv
  OBVIOUS
<1>1. Types
  BY QuarantineAssumption DEF Init, Types, AllSteps, NoResult, Files
<1>2. RunTypes /\ PlanInv /\ pc = "idle"
  BY DEF Init, RunTypes, PlanInv, Busy, Run
<1>3. OwnInv
  <2> SUFFICES ASSUME NEW a \in Entries, NEW e \in Entries, inode[e] = "own", <<a, e>> \in Above
               PROVE  inode[a] = "own"
    BY DEF OwnInv
  <2>1. inode \in [Entries -> {"none", "own"}] /\ Present(e)
    BY DEF Init, Present
  <2>2. Present(a)
    BY <2>1 DEF Init
  <2> QED BY <2>1, <2>2 DEF Present
<1>4. UntouchedInv /\ WalkInv /\ CopyInv /\ CheckedInv /\ RemoveInv /\ GuardInv
  BY <1>2 DEF Init, UntouchedInv, WalkInv, CopyInv, CheckedInv, Matched, RemoveInv, Raced, GuardInv, Busy
<1>5. GoneIsDurable /\ LossNeedsRace /\ OnlyMeasuredRemoved
  BY DEF Init, GoneIsDurable, LossNeedsRace, Raced, OnlyMeasuredRemoved
<1>6. InspectionInv /\ HoldersInv
  BY DEF Init, InspectionInv, HoldersInv
<1> QED BY <1>1, <1>2, <1>3, <1>4, <1>5, <1>6 DEF IInv, MoveInv

\* What a step of the walk relies on.
LEMMA ObjectIs ==
    ASSUME Types, PlanInv, pc \notin {"idle", "capture"}
    PROVE  /\ idx \in DOMAIN captures /\ captures[idx] \in Captures
           /\ Object \in Objects /\ Object \in Entries /\ Parent[Object] = Root
           /\ <<Object, Object>> \in Above /\ Object \in Tree(Object)
           /\ Measured.newest \in Nat /\ stamp[Object] \in Nat /\ stamp[Object] >= Measured.newest
<1>1. idx \in DOMAIN captures /\ captures[idx] \in Captures
  BY DEF Types, PlanInv
<1>2. Object \in Objects /\ Object \in Entries /\ Parent[Object] = Root /\ Measured.newest \in Nat
  BY <1>1 DEF Captures, Fingerprints, Object, Measured, Objects
<1>3. stamp[Object] \in Nat /\ stamp[Object] >= Measured.newest
  BY <1>1, <1>2 DEF Types, PlanInv, Object, Measured
<1> QED BY <1>1, <1>2, <1>3, AboveStep DEF Tree

\* A record of what the runs have kept: nothing of it changes.
LEMMA RunIs ==
    ASSUME RunTypes, Busy
    PROVE  /\ Run \in Nat \ {0} /\ Run \in DOMAIN dst /\ Run \in DOMAIN named /\ Run \in DOMAIN synced
           /\ dst[Run] \in [Entries -> Copies] /\ named[Run] \subseteq Entries
           /\ synced[Run] \subseteq Files
BY DEF RunTypes, Run

-----------------------------------------------------------------------------
(* Other processes *)

\* What others leave alone, as every step of theirs does.
Left == /\ pc' = pc /\ captures' = captures /\ idx' = idx /\ todo' = todo /\ finish' = finish
        /\ target' = target /\ dst' = dst /\ named' = named /\ synced' = synced
        /\ outcomes' = outcomes /\ digests' = digests /\ result' = result
        /\ gone' = gone /\ lost' = lost /\ strangers' = strangers
        /\ reading' = reading /\ unscanned' = unscanned

LEMMA EnvironmentLeaves ==
    ASSUME NEW A, Environment(A) PROVE A /\ Left
BY DEF Environment, Left, walk, copyVars

LEMMA LeftRun == ASSUME RunTypes, Left PROVE RunTypes'
BY DEF RunTypes, Left, Run, Busy

LEMMA LeftGone == ASSUME GoneIsDurable, OnlyMeasuredRemoved, UntouchedInv, Left
                  PROVE  GoneIsDurable' /\ OnlyMeasuredRemoved' /\ UntouchedInv'
<1>1. GoneIsDurable'
  BY DEF GoneIsDurable, Kept, Durable, Reaches, Left
<1>2. OnlyMeasuredRemoved' /\ UntouchedInv'
  BY DEF OnlyMeasuredRemoved, UntouchedInv, Left, Busy, Run
<1> QED BY <1>1, <1>2

LEMMA LeftWalk == ASSUME WalkInv, Left PROVE WalkInv'
BY DEF WalkInv, Left, Object, Tree

\* What was copied stays right: nothing comes to be the user's, and a write
\* below the object shows in its time and is by a process that has it open.
LEMMA LeftCopies ==
    ASSUME CopyInv, CheckedInv, Left, Raced \subseteq Raced',
           \A e \in Entries : inode'[e] = "own" => inode[e] = "own",
           Busy => \/ stamp'[Object] # Measured.newest
                   \/ /\ stamp'[Object] = stamp[Object]
                      /\ \A e \in Tree(Object) : content'[e] = content[e],
           Matched \/ pc = "sync" =>
              \A e \in Tree(Object) : e \in Raced' \/ content'[e] = content[e]
    PROVE  CopyInv' /\ CheckedInv'
<1>1. Object' = Object /\ Measured' = Measured /\ Run' = Run
  BY DEF Left, Object, Measured, Run
<1>2. /\ \A e : Copied(e)' <=> Copied(e)
      /\ \A e : CopyIsKept(e)' <=> CopyIsKept(e)
      /\ Tree(Object)' = Tree(Object) /\ Tree(Object) \subseteq Entries
  BY <1>1 DEF Left, Copied, CopyIsKept, Tree
<1>3. ASSUME Busy, NEW e \in Tree(Object), CopyIsExact(e) PROVE CopyIsExact(e)'
  <2>1. CASE stamp'[Object] # Measured.newest
    BY <2>1, <1>1 DEF CopyIsExact
  <2>2. CASE stamp'[Object] = stamp[Object] /\ content'[e] = content[e]
    BY <2>2, <1>1, <1>2, <1>3 DEF CopyIsExact, Left
  <2> QED BY <2>1, <2>2, <1>3
<1>4. CopyInv'
  BY <1>1, <1>2, <1>3 DEF CopyInv, Left, Busy
<1>5. CheckedInv'
  <2>1. ASSUME pc \in {"verify", "recheck", "sync"}
        PROVE  \A e \in Tree(Object) : (inode'[e] = "own" => Copied(e)') /\ CopyIsKept(e)'
    BY <2>1, <1>2 DEF CheckedInv, Matched
  <2>2. ASSUME pc \in {"verify", "recheck"} PROVE \A e \in Tree(Object) : CopyIsExact(e)'
    BY <2>2, <1>3 DEF CheckedInv, Busy
  <2>3. ASSUME Matched \/ pc = "sync", NEW e \in Tree(Object), Copied(e), e \in Files
        PROVE  dst[Run][e] # Torn /\ (e \notin Raced' => dst[Run][e] = content'[e])
    BY <2>3 DEF CheckedInv
  <2>4. Matched' <=> Matched
    BY DEF Matched, Left
  <2> QED BY <2>1, <2>2, <2>3, <2>4, <1>1, <1>2 DEF CheckedInv, Left
<1> QED BY <1>4, <1>5

LEMMA OpenGood == ASSUME IInv, NEW p \in Processes, NEW e \in Files, Environment(OpenFile(p, e))
                  PROVE  MoveInv'
<1>1. OpenFile(p, e) /\ Left
  BY EnvironmentLeaves
<1>2. /\ inode' = inode /\ content' = content /\ stamp' = stamp /\ active' = active
      /\ shared' = shared /\ changes' = changes
      /\ opened' = opened \cup {<<p, e>>} /\ late \subseteq late' /\ slipped' = slipped
  BY <1>1 DEF OpenFile
<1>3. Types' /\ PlanInv' /\ OwnInv'
  BY <1>1, <1>2 DEF IInv, MoveInv, Types, PlanInv, OwnInv, Left
<1>4. RunTypes' /\ WalkInv' /\ GoneIsDurable' /\ OnlyMeasuredRemoved' /\ UntouchedInv'
  BY <1>1, LeftRun, LeftGone, LeftWalk DEF IInv, MoveInv
<1>5. Raced \subseteq Raced'
  BY <1>2 DEF Raced
<1>6. CopyInv' /\ CheckedInv'
  BY <1>1, <1>2, <1>5, LeftCopies DEF IInv, MoveInv
<1>7. RemoveInv'
  <2>1. Object' = Object /\ Run' = Run /\ Tree(Object)' = Tree(Object)
        /\ \A x : Kept(Run, x)' <=> Kept(Run, x)
    BY <1>1 DEF Left, Object, Run, Tree, Kept, Durable, Reaches
  <2>2. pc = "remove" => \A x \in Tree(Object) : inode[x] = "own" =>
          Kept(Run, x) /\ (x \in Files /\ x \notin Raced => dst[Run][x] = content[x])
    BY DEF IInv, MoveInv, RemoveInv
  <2> QED BY <1>1, <1>2, <1>5, <2>1, <2>2 DEF RemoveInv, Left
<1>8. GuardInv'
  BY <1>1, <1>2 DEF IInv, MoveInv, GuardInv, Guarded, Left
<1>9. LossNeedsRace'
  BY <1>1, <1>5 DEF IInv, MoveInv, LossNeedsRace, Left
<1> QED BY <1>3, <1>4, <1>6, <1>7, <1>8, <1>9 DEF MoveInv

LEMMA CloseGood == ASSUME IInv, NEW p \in Processes, NEW e \in Files, Environment(CloseFile(p, e))
                   PROVE  MoveInv'
<1>1. CloseFile(p, e) /\ Left
  BY EnvironmentLeaves
<1>2. /\ inode' = inode /\ content' = content /\ stamp' = stamp /\ active' = active
      /\ shared' = shared /\ changes' = changes
      /\ opened' = opened \ {<<p, e>>} /\ late' = late /\ slipped' = slipped
  BY <1>1 DEF CloseFile
<1>3. Types' /\ PlanInv' /\ OwnInv'
  BY <1>1, <1>2 DEF IInv, MoveInv, Types, PlanInv, OwnInv, Left
<1>4. RunTypes' /\ WalkInv' /\ GoneIsDurable' /\ OnlyMeasuredRemoved' /\ UntouchedInv'
  BY <1>1, LeftRun, LeftGone, LeftWalk DEF IInv, MoveInv
<1>5. Raced' = Raced
  BY <1>2 DEF Raced
<1>6. CopyInv' /\ CheckedInv'
  BY <1>1, <1>2, <1>5, LeftCopies DEF IInv, MoveInv
<1>7. RemoveInv'
  <2>1. Object' = Object /\ Run' = Run /\ Tree(Object)' = Tree(Object)
        /\ \A x : Kept(Run, x)' <=> Kept(Run, x)
    BY <1>1 DEF Left, Object, Run, Tree, Kept, Durable, Reaches
  <2> QED BY <1>1, <1>2, <1>5, <2>1 DEF IInv, MoveInv, RemoveInv, Left
<1>8. GuardInv' /\ LossNeedsRace'
  BY <1>1, <1>2, <1>5 DEF IInv, MoveInv, GuardInv, Guarded, LossNeedsRace, Left
<1> QED BY <1>3, <1>4, <1>6, <1>7, <1>8 DEF MoveInv

LEMMA IdleGood == ASSUME IInv, Environment(Idle) PROVE MoveInv'
<1>1. Idle /\ Left
  BY EnvironmentLeaves
<1>2. /\ inode' = inode /\ content' = content /\ stamp' = stamp /\ active' = {}
      /\ shared' = shared /\ changes' = changes
      /\ opened' = opened /\ late' = late /\ slipped' = slipped /\ Raced' = Raced
  BY <1>1 DEF Idle, Raced
<1>3. Types' /\ PlanInv' /\ OwnInv'
  BY <1>1, <1>2 DEF IInv, MoveInv, Types, PlanInv, OwnInv, Left
<1>4. RunTypes' /\ WalkInv' /\ GoneIsDurable' /\ OnlyMeasuredRemoved' /\ UntouchedInv'
  BY <1>1, LeftRun, LeftGone, LeftWalk DEF IInv, MoveInv
<1>5. CopyInv' /\ CheckedInv' /\ RemoveInv'
  BY <1>1, <1>2, LeftCopies DEF IInv, MoveInv, Idle, RemoveInv, Raced, Left
<1>7. GuardInv' /\ LossNeedsRace'
  BY <1>1, <1>2 DEF IInv, MoveInv, GuardInv, Guarded, LossNeedsRace, Raced, Left
<1> QED BY <1>3, <1>4, <1>5, <1>7 DEF MoveInv

LEMMA CaptureIs ==
    ASSUME Types
    PROVE  \A i \in DOMAIN captures :
              /\ captures[i].path \in Objects /\ captures[i].measurement \in Fingerprints
              /\ captures[i].measurement.newest \in Nat
<1> SUFFICES ASSUME NEW i \in DOMAIN captures
             PROVE  /\ captures[i].path \in Objects /\ captures[i].measurement \in Fingerprints
                    /\ captures[i].measurement.newest \in Nat
  OBVIOUS
<1>1. captures[i] \in Captures
  BY DEF Types
<1> QED BY <1>1 DEF Captures, Fingerprints

LEMMA WriteGood == ASSUME IInv, NEW p \in Processes, NEW e \in Files, Environment(WriteFile(p, e))
                   PROVE  MoveInv'
<1> DEFINE o == ObjectOf(e)
<1>1. WriteFile(p, e) /\ Left
  BY EnvironmentLeaves
<1>2. /\ inode' = inode /\ opened' = opened /\ shared' = shared /\ late' = late
      /\ slipped \subseteq slipped' /\ <<p, e>> \in opened /\ changes < MaxChanges /\ changes' = changes + 1
      /\ content' = [content EXCEPT ![e] = stamp[o] + 1]
      /\ stamp' = [stamp EXCEPT ![o] = @ + 1]
      /\ active' = active \cup {o}
  BY <1>1 DEF WriteFile, Touch
<1>3. o \in Objects /\ <<o, e>> \in Above /\ e \in Entries
  BY HasObject DEF Files
<1> HIDE DEF o
<1>4. /\ \A x \in Objects : stamp[x] \in Nat /\ stamp'[x] = IF x = o THEN stamp[x] + 1 ELSE stamp[x]
      /\ \A x \in Entries : x # e => content'[x] = content[x]
  BY <1>2, <1>3 DEF IInv, MoveInv, Types
<1>5. Types'
  <2>1. content' \in [Entries -> Nat] /\ stamp' \in [Objects -> Nat] /\ active' \subseteq Objects
    BY <1>2, <1>3 DEF IInv, MoveInv, Types
  <2>2. changes' \in 0..MaxChanges
    BY <1>2, QuarantineAssumption DEF IInv, MoveInv, Types
  <2> QED BY <1>1, <1>2, <2>1, <2>2 DEF IInv, MoveInv, Types, Left
<1>6. PlanInv' /\ OwnInv'
  <2>1. \A i \in DOMAIN captures : captures[i].path \in Objects /\ captures[i].measurement.newest \in Nat
    BY CaptureIs DEF IInv, MoveInv
  <2>2. \A i \in DOMAIN captures : stamp'[captures[i].path] >= captures[i].measurement.newest
    BY <2>1, <1>4 DEF IInv, MoveInv, PlanInv
  <2> QED BY <1>1, <1>2, <2>2 DEF IInv, MoveInv, PlanInv, OwnInv, Left
<1>7. RunTypes' /\ WalkInv' /\ GoneIsDurable' /\ OnlyMeasuredRemoved' /\ UntouchedInv'
  BY <1>1, LeftRun, LeftGone, LeftWalk DEF IInv, MoveInv
<1>8. Busy => \/ stamp'[Object] # Measured.newest
              \/ stamp'[Object] = stamp[Object] /\ e \notin Tree(Object)
  <2> SUFFICES ASSUME Busy
               PROVE  \/ stamp'[Object] # Measured.newest
                      \/ stamp'[Object] = stamp[Object] /\ e \notin Tree(Object)
    OBVIOUS
  <2>1. /\ Object \in Objects /\ Measured.newest \in Nat /\ stamp[Object] \in Nat
        /\ stamp[Object] >= Measured.newest
    BY ObjectIs DEF IInv, MoveInv, Busy
  <2>2. CASE Object = o
    <3>1. stamp'[Object] = stamp[Object] + 1
      BY <2>1, <2>2, <1>4
    <3>2. stamp'[Object] # Measured.newest
      BY <2>1, <3>1
    <3> QED BY <3>2
  <2>3. CASE Object # o
    <3>1. e \notin Tree(Object)
      BY <2>1, <2>3, <1>3, OneObject DEF Tree
    <3> QED BY <2>1, <2>3, <3>1, <1>4
  <2> QED BY <2>2, <2>3
<1>9. Raced \subseteq Raced' /\ (Matched \/ pc \in {"sync", "remove"} => e \in Raced' \/ e \notin Tree(Object))
  <2>1. pc \in {"sync", "remove"} => e \in late \/ e \notin Tree(Object)
    BY <1>2 DEF IInv, HoldersInv, Tree
  <2>2. Matched => e \in slipped' \/ e \notin Tree(Object)
    BY <1>1 DEF WriteFile, Matched, Tree
  <2> QED BY <1>2, <2>1, <2>2 DEF Raced
<1>10. Tree(Object) \subseteq Entries
  BY DEF Tree
<1>11. CopyInv' /\ CheckedInv'
  BY <1>1, <1>2, <1>4, <1>8, <1>9, <1>10, LeftCopies DEF IInv, MoveInv
<1>12. RemoveInv'
  <2>1. Object' = Object /\ Run' = Run /\ Tree(Object)' = Tree(Object)
        /\ \A x : Kept(Run, x)' <=> Kept(Run, x)
    BY <1>1 DEF Left, Object, Run, Tree, Kept, Durable, Reaches
  <2>2. pc = "remove" => \A x \in Tree(Object) : inode[x] = "own" =>
          Kept(Run, x) /\ (x \in Files /\ x \notin Raced' => dst[Run][x] = content'[x])
    BY <1>4, <1>9, <1>10 DEF IInv, MoveInv, RemoveInv
  <2> QED BY <1>1, <1>2, <2>1, <2>2 DEF RemoveInv, Left
<1>13. GuardInv' /\ LossNeedsRace'
  BY <1>1, <1>2, <1>9 DEF IInv, MoveInv, GuardInv, Guarded, LossNeedsRace, Left
<1> QED BY <1>5, <1>6, <1>7, <1>11, <1>12, <1>13 DEF IInv, MoveInv

LEMMA ReplaceGood ==
    ASSUME IInv, NEW e \in Entries, NEW new \in {"none", "other"}, Environment(ReplaceName(e, new))
    PROVE  MoveInv'
<1> DEFINE o == ObjectOf(e)
<1>1. ReplaceName(e, new) /\ Left
  BY EnvironmentLeaves
<1>2. /\ content' = content /\ opened' \subseteq opened /\ shared' = shared
      /\ late' = late /\ slipped' = slipped /\ Raced' = Raced
      /\ changes < MaxChanges /\ changes' = changes + 1
      /\ stamp' = [stamp EXCEPT ![o] = @ + 1]
      /\ active' = active \cup {o}
      /\ \/ Parent[e] \in shared
         \/ Parent[e] = Root /\ inode[e] = "none"
      /\ inode' = [x \in Entries |-> IF x = e THEN new
                                     ELSE IF <<e, x>> \in Above THEN "none" ELSE inode[x]]
  BY <1>1 DEF ReplaceName, Touch, Forget, Raced
<1>3. o \in Objects
  BY HasObject
<1> HIDE DEF o
<1>4. \A x \in Objects : stamp[x] \in Nat /\ stamp'[x] = IF x = o THEN stamp[x] + 1 ELSE stamp[x]
  BY <1>2, <1>3 DEF IInv, MoveInv, Types
<1>5. \A x \in Entries : inode'[x] = "own" => inode[x] = "own" /\ <<e, x>> \notin Above
  BY <1>2, AboveStep
<1>6. Types'
  <2>1. stamp' \in [Objects -> Nat] /\ active' \subseteq Objects /\ opened' \subseteq Processes \X Files
    BY <1>2, <1>3 DEF IInv, MoveInv, Types
  <2>2. changes' \in 0..MaxChanges
    BY <1>2, QuarantineAssumption DEF IInv, MoveInv, Types
  <2>3. inode' \in [Entries -> {"none", "own", "other"}]
    BY <1>2 DEF IInv, MoveInv, Types
  <2> QED BY <1>1, <1>2, <2>1, <2>2, <2>3 DEF IInv, MoveInv, Types, Left
<1>7. PlanInv'
  <2>1. \A i \in DOMAIN captures : captures[i].path \in Objects /\ captures[i].measurement.newest \in Nat
    BY CaptureIs DEF IInv, MoveInv
  <2>2. \A i \in DOMAIN captures : stamp'[captures[i].path] >= captures[i].measurement.newest
    BY <2>1, <1>4 DEF IInv, MoveInv, PlanInv
  <2> QED BY <1>1, <1>2, <2>2 DEF IInv, MoveInv, PlanInv, Left
<1>8. OwnInv'
  <2> SUFFICES ASSUME NEW a \in Entries, NEW x \in Entries, inode'[x] = "own", <<a, x>> \in Above
               PROVE  inode'[a] = "own"
    BY DEF OwnInv
  <2>1. inode[x] = "own" /\ <<e, x>> \notin Above
    BY <1>5
  <2>2. inode[a] = "own"
    BY <2>1 DEF IInv, MoveInv, OwnInv
  <2>3. <<e, a>> \notin Above /\ a # e
    BY <2>1, Transitive
  <2> QED BY <1>2, <2>2, <2>3
<1>9. RunTypes' /\ WalkInv' /\ GoneIsDurable' /\ OnlyMeasuredRemoved' /\ UntouchedInv'
  BY <1>1, LeftRun, LeftGone, LeftWalk DEF IInv, MoveInv
<1>10. Busy => stamp'[Object] # Measured.newest \/ stamp'[Object] = stamp[Object]
  <2> SUFFICES ASSUME Busy
               PROVE  stamp'[Object] # Measured.newest \/ stamp'[Object] = stamp[Object]
    OBVIOUS
  <2>1. /\ Object \in Objects /\ Measured.newest \in Nat /\ stamp[Object] \in Nat
        /\ stamp[Object] >= Measured.newest
    BY ObjectIs DEF IInv, MoveInv, Busy
  <2> QED BY <2>1, <1>4
<1>11. CopyInv' /\ CheckedInv'
  BY <1>1, <1>2, <1>5, <1>10, LeftCopies DEF IInv, MoveInv
<1>12. RemoveInv'
  <2>1. Object' = Object /\ Run' = Run /\ Tree(Object)' = Tree(Object) /\ Tree(Object) \subseteq Entries
        /\ \A x : Kept(Run, x)' <=> Kept(Run, x)
    BY <1>1 DEF Left, Object, Run, Tree, Kept, Durable, Reaches
  <2>2. pc = "remove" => \A x \in Tree(Object) : inode'[x] = "own" =>
          Kept(Run, x) /\ (x \in Files /\ x \notin Raced => dst[Run][x] = content[x])
    BY <1>5, <2>1 DEF IInv, MoveInv, RemoveInv
  <2> QED BY <1>1, <1>2, <2>1, <2>2 DEF RemoveInv, Raced, Left
<1>13. GuardInv'
  <2>1. ASSUME NEW d \in Entries, Guarded(d) PROVE Guarded(d)'
    <3>1. d # e
      BY <2>1, <1>2, QuarantineAssumption DEF Guarded
    <3>2. inode'[d] = IF <<e, d>> \in Above THEN "none" ELSE inode[d]
      BY <1>2, <3>1
    <3>3. Parent[d] = Root => <<e, d>> \notin Above
      BY <3>1, AboveStep
    <3> QED BY <2>1, <1>2, <3>2, <3>3 DEF Guarded
  <2>2. finish \subseteq Entries /\ target \in Entries \cup {Root}
    BY QuarantineAssumption DEF IInv, MoveInv, Types, Files
  <2> QED BY <1>1, <1>2, <2>1, <2>2 DEF IInv, MoveInv, GuardInv, Left
<1>14. LossNeedsRace'
  BY <1>1, <1>2 DEF IInv, MoveInv, LossNeedsRace, Raced, Left
<1> QED BY <1>6, <1>7, <1>8, <1>9, <1>11, <1>12, <1>13, <1>14 DEF IInv, MoveInv

-----------------------------------------------------------------------------
(* Inspections *)

\* The tree stays as it is, and what is known of the losses.
Still == /\ inode' = inode /\ content' = content /\ stamp' = stamp /\ active' = active
         /\ opened' = opened /\ shared' = shared /\ changes' = changes
         /\ lost' = lost /\ late' = late /\ slipped' = slipped

\* The records of the runs and what was unlinked stay as they are.
RunsLeft == /\ dst' = dst /\ named' = named /\ synced' = synced /\ digests' = digests
            /\ gone' = gone /\ strangers' = strangers

LEMMA KeepGone == ASSUME GoneIsDurable, OnlyMeasuredRemoved, RunsLeft
                  PROVE  GoneIsDurable' /\ OnlyMeasuredRemoved'
BY DEF GoneIsDurable, OnlyMeasuredRemoved, Kept, Durable, Reaches, RunsLeft

LEMMA KeepRuns == ASSUME RunTypes, RunsLeft, outcomes' = outcomes, Busy' => Busy
                  PROVE  RunTypes'
BY DEF RunTypes, RunsLeft, Run

\* What was copied exactly is exact when it is measured and nothing was
\* written since it was first measured.
LEMMA MatchIsExact ==
    ASSUME IInv, pc = "recheck", stamp[Object] = Measured.newest,
           NEW e \in Tree(Object), Copied(e), e \in Files
    PROVE  dst[Run][e] # Torn /\ dst[Run][e] = content[e]
<1>1. target = Root
  BY DEF IInv, MoveInv, WalkInv
<1>2. CopyIsExact(e) /\ e # target
  BY <1>1, QuarantineAssumption DEF IInv, MoveInv, CheckedInv, Tree
<1>3. dst[Run][e] = content[e]
  BY <1>2 DEF CopyIsExact
<1>4. content[e] \in Nat
  BY DEF IInv, MoveInv, Types, Files
<1> QED BY <1>3, <1>4, QuarantineAssumption

LEMMA InspectGood ==
    ASSUME IInv, Inspection, Matched' => Matched \/ stamp[Object] = Measured.newest
    PROVE  MoveInv'
<1>1. /\ Still /\ RunsLeft /\ outcomes' = outcomes /\ pc' = pc /\ captures' = captures /\ idx' = idx
      /\ todo' = todo /\ finish' = finish /\ target' = target /\ result' = result
  BY DEF Inspection, tree, copyVars, history, Still, RunsLeft
<1>2. /\ Object' = Object /\ Measured' = Measured /\ Run' = Run /\ Tree(Object)' = Tree(Object)
      /\ \A e : (Copied(e)' <=> Copied(e)) /\ (CopyIsKept(e)' <=> CopyIsKept(e))
                     /\ (CopyIsExact(e)' <=> CopyIsExact(e)) /\ (Kept(Run, e)' <=> Kept(Run, e))
      /\ Raced' = Raced
  <2>1. Object' = Object /\ Measured' = Measured /\ Run' = Run /\ Raced' = Raced
    BY <1>1 DEF Object, Measured, Run, RunsLeft, Raced, Still
  <2> QED BY <1>1, <2>1 DEF Still, RunsLeft, Tree, Copied, CopyIsKept, CopyIsExact, Kept, Durable, Reaches
<1>3. Types' /\ PlanInv' /\ OwnInv' /\ WalkInv' /\ GuardInv' /\ LossNeedsRace'
  <2>1. Types' /\ PlanInv' /\ OwnInv'
    BY <1>1 DEF IInv, MoveInv, Types, PlanInv, OwnInv, Still
  <2>2. WalkInv' /\ GuardInv' /\ LossNeedsRace'
    BY <1>1, <1>2 DEF IInv, MoveInv, WalkInv, GuardInv, Guarded, LossNeedsRace, Still
  <2> QED BY <2>1, <2>2
<1>4. RunTypes' /\ GoneIsDurable' /\ OnlyMeasuredRemoved'
  BY <1>1, KeepGone, KeepRuns DEF IInv, MoveInv, Busy
<1>5. UntouchedInv' /\ CopyInv' /\ RemoveInv'
  <2>1. UntouchedInv'
    BY <1>1, <1>2 DEF IInv, MoveInv, UntouchedInv, Busy, RunsLeft
  <2>2. CopyInv'
    BY <1>1, <1>2 DEF IInv, MoveInv, CopyInv, Still
  <2>3. RemoveInv'
    BY <1>1 DEF Inspection, Inspecting, RemoveInv
  <2> QED BY <2>1, <2>2, <2>3
<1>6. CheckedInv'
  <2>1. dst' = dst /\ content' = content /\ inode' = inode
    BY <1>1 DEF Still, RunsLeft
  <2>2. pc' \in {"verify", "recheck", "sync"} =>
           \A e \in Tree(Object) : (inode'[e] = "own" => Copied(e)') /\ CopyIsKept(e)'
    BY <1>1, <1>2, <2>1 DEF IInv, MoveInv, CheckedInv
  <2>3. pc' \in {"verify", "recheck"} => \A e \in Tree(Object) : CopyIsExact(e)'
    BY <1>1, <1>2 DEF IInv, MoveInv, CheckedInv
  <2>4. ASSUME Matched' \/ pc' = "sync", NEW e \in Tree(Object), Copied(e), e \in Files
        PROVE  dst[Run][e] # Torn /\ (e \notin Raced => dst[Run][e] = content[e])
    <3>1. CASE Matched \/ pc = "sync"
      BY <2>4, <3>1 DEF IInv, MoveInv, CheckedInv
    <3>2. CASE pc = "recheck" /\ stamp[Object] = Measured.newest
      BY <2>4, <3>2, MatchIsExact
    <3> QED BY <1>1, <2>4, <3>1, <3>2 DEF Matched
  <2> QED BY <1>2, <2>1, <2>2, <2>3, <2>4 DEF CheckedInv
<1> QED BY <1>3, <1>4, <1>5, <1>6 DEF MoveInv

LEMMA MeasureGood == ASSUME IInv, NEW o \in Objects, Measure(o) PROVE MoveInv'
<1>1. /\ Inspection /\ reading' = {[path |-> o, measurement |-> Fingerprint(o)]}
      /\ pc' = pc /\ captures' = captures /\ idx' = idx
  BY DEF Measure, Inspection
<1>2. ASSUME Matched' PROVE stamp[Object] = Measured.newest
  <2>1. [path |-> o, measurement |-> Fingerprint(o)] = captures[idx]
    BY <1>1, <1>2 DEF Matched
  <2>2. Object = o /\ Measured = Fingerprint(o)
    BY <2>1 DEF Object, Measured
  <2> QED BY <2>2 DEF Fingerprint
<1> QED BY <1>1, <1>2, InspectGood

LEMMA ScanGood == ASSUME IInv, NEW p \in Processes, ScanProcess(p) PROVE MoveInv'
<1>1. Inspection /\ reading' = reading /\ pc' = pc /\ captures' = captures /\ idx' = idx
  BY DEF ScanProcess, Inspection
<1>2. Matched' <=> Matched
  BY <1>1 DEF Matched
<1> QED BY <1>1, <1>2, InspectGood

-----------------------------------------------------------------------------
(* Previews, the start of an execution, crashes *)

\* No object is being moved.
LEMMA Quiet ==
    ASSUME pc' \in {"idle", "capture", "previewed", "revalidate", "check", "reserve", "prepare"}
    PROVE  /\ CopyInv' /\ CheckedInv' /\ RemoveInv' /\ GuardInv'
           /\ pc' \in {"idle", "capture", "previewed", "revalidate"} => UntouchedInv'
BY DEF CopyInv, CheckedInv, Matched, RemoveInv, GuardInv, UntouchedInv, Busy

\* A step before there is a run directory.
LEMMA PlanningGood ==
    ASSUME IInv, Still, RunsLeft, outcomes' = outcomes, Types', PlanInv',
           pc \in {"idle", "capture", "previewed", "revalidate"},
           pc' \in {"idle", "capture", "previewed", "revalidate"},
           finish' = finish, target' = target
    PROVE  MoveInv'
<1>1. RunTypes' /\ GoneIsDurable' /\ OnlyMeasuredRemoved'
  BY KeepGone, KeepRuns DEF IInv, MoveInv, Busy
<1>2. CopyInv' /\ CheckedInv' /\ RemoveInv' /\ GuardInv' /\ UntouchedInv'
  BY Quiet
<1>3. OwnInv' /\ WalkInv' /\ LossNeedsRace'
  BY DEF IInv, MoveInv, OwnInv, WalkInv, LossNeedsRace, Raced, Still
<1> QED BY <1>1, <1>2, <1>3 DEF MoveInv

LEMMA StartGood == ASSUME IInv, StartPreview PROVE MoveInv'
<1>1. /\ pc = "idle" /\ pc' = "capture" /\ result' = NoResult /\ Still /\ RunsLeft
      /\ outcomes' = outcomes /\ captures' = captures /\ idx' = idx
      /\ todo' = todo /\ finish' = finish /\ target' = target
  BY DEF StartPreview, tree, walk, copyVars, history, Still, RunsLeft
<1>2. Types'
  BY <1>1 DEF IInv, MoveInv, Types, AllSteps, Inspecting, NoResult, Still
<1>3. PlanInv'
  BY <1>1 DEF IInv, MoveInv, PlanInv, Still
<1> QED BY <1>1, <1>2, <1>3, PlanningGood

LEMMA CaptureGood == ASSUME IInv, NEW last \in BOOLEAN, Capture(last) PROVE MoveInv'
<1>1. /\ pc = "capture" /\ pc' \in {"capture", "previewed"} /\ Still /\ RunsLeft
      /\ outcomes' = outcomes /\ idx' = idx /\ result' = result
      /\ todo' = todo /\ finish' = finish /\ target' = target
  BY DEF Capture, tree, copyVars, history, Still, RunsLeft
<1>2. PICK c \in reading : captures' = Append(captures, c)
  BY DEF Capture
<1>3. /\ captures \in Seq(Captures) /\ c \in Captures /\ idx = 1
      /\ \A i \in DOMAIN captures : captures[i].path # c.path
      /\ stamp[c.path] >= c.measurement.newest
  BY <1>1 DEF IInv, MoveInv, InspectionInv, Types, PlanInv
<1>4. /\ captures' \in Seq(Captures) /\ Len(captures) \in Nat
      /\ DOMAIN captures = 1..Len(captures) /\ DOMAIN captures' = 1..(Len(captures) + 1)
      /\ \A i \in DOMAIN captures' :
            captures'[i] = IF i = Len(captures) + 1 THEN c ELSE captures[i]
  BY <1>2, <1>3
<1>5. Types'
  BY <1>1, <1>4 DEF IInv, MoveInv, Types, AllSteps, Inspecting, Still
<1>6. PlanInv'
  <2>1. idx' = 1 /\ idx' \in DOMAIN captures'
    BY <1>1, <1>3, <1>4
  <2>2. \A i \in DOMAIN captures' : i \in DOMAIN captures \/ (captures'[i] = c /\ i = Len(captures) + 1)
    BY <1>4
  <2>3. \A i \in DOMAIN captures : captures'[i] = captures[i]
    BY <1>4
  <2>4. \A i, j \in DOMAIN captures' : captures'[i].path = captures'[j].path => i = j
    BY <1>3, <2>2, <2>3 DEF IInv, MoveInv, PlanInv
  <2>5. \A i \in DOMAIN captures' : stamp[captures'[i].path] >= captures'[i].measurement.newest
    BY <1>3, <2>2, <2>3 DEF IInv, MoveInv, PlanInv
  <2> QED BY <1>1, <2>1, <2>4, <2>5 DEF PlanInv, Still
<1> QED BY <1>1, <1>5, <1>6, PlanningGood

LEMMA DismissGood == ASSUME IInv, Dismiss PROVE MoveInv'
<1>1. /\ pc \in {"capture", "previewed", "revalidate"} /\ pc' = "idle" /\ Still /\ RunsLeft
      /\ outcomes' = outcomes /\ captures' = <<>> /\ idx' = 1 /\ result' = result
      /\ todo' = todo /\ finish' = finish /\ target' = target
  BY DEF Dismiss, tree, copyVars, history, Still, RunsLeft
<1>2. Types' /\ PlanInv'
  BY <1>1 DEF IInv, MoveInv, Types, AllSteps, PlanInv, Still
<1> QED BY <1>1, <1>2, PlanningGood

LEMMA ConfirmGood == ASSUME IInv, Confirm PROVE MoveInv'
<1>1. /\ pc = "previewed" /\ pc' = "revalidate" /\ Still /\ RunsLeft
      /\ outcomes' = outcomes /\ captures' = captures /\ idx' = idx /\ result' = result
      /\ todo' = todo /\ finish' = finish /\ target' = target
  BY DEF Confirm, tree, walk, copyVars, history, Still, RunsLeft
<1>2. Types'
  BY <1>1 DEF IInv, MoveInv, Types, AllSteps, Inspecting, Still
<1>3. PlanInv'
  BY <1>1 DEF IInv, MoveInv, PlanInv, Still
<1> QED BY <1>1, <1>2, <1>3, PlanningGood

LEMMA RevalidateGood == ASSUME IInv, Revalidate PROVE MoveInv'
<1>1. /\ pc = "revalidate" /\ pc' = pc /\ Still /\ RunsLeft /\ idx < Len(captures)
      /\ outcomes' = outcomes /\ captures' = captures /\ idx' = idx + 1 /\ result' = result
      /\ todo' = todo /\ finish' = finish /\ target' = target
  BY DEF Revalidate, tree, copyVars, history, Still, RunsLeft
<1>2. idx \in Nat /\ Len(captures) \in Nat /\ DOMAIN captures = 1..Len(captures)
  BY DEF IInv, MoveInv, Types
<1>3. Types'
  BY <1>1, <1>2 DEF IInv, MoveInv, Types, Still
<1>4. PlanInv'
  BY <1>1, <1>2 DEF IInv, MoveInv, PlanInv, Still
<1> QED BY <1>1, <1>3, <1>4, PlanningGood

LEMMA ExecuteGood ==
    ASSUME IInv, NEW prepared \in BOOLEAN, Execute(prepared)
    PROVE  MoveInv'
<1> DEFINE blank == [e \in Entries |-> Absent]
<1>1. /\ inode' = inode /\ content' = content /\ stamp' = stamp /\ active' = active
      /\ opened' = opened /\ shared' = shared /\ changes' = changes
      /\ pc = "revalidate" /\ idx = Len(captures) /\ idx' = 1
      /\ todo' = todo /\ finish' = finish /\ target' = target
      /\ result' = result
      /\ gone' = gone /\ lost' = {} /\ strangers' = strangers
      /\ \/ pc' = "check" /\ captures' = captures
         \/ pc' = "idle" /\ captures' = <<>>
  BY DEF Execute, tree
<1>2. /\ digests' = Append(digests, captures) /\ dst' = Append(dst, blank)
      /\ named' = Append(named, {}) /\ synced' = Append(synced, {})
      /\ outcomes' = Append(outcomes, <<>>)
  BY DEF Execute
<1>3. blank \in [Entries -> Copies] /\ \A e \in Entries : blank[e] = Absent
  BY DEF Copies
<1> HIDE DEF blank
<1>4. /\ digests \in Seq(Seq(Captures)) /\ outcomes \in Seq(Seq(Records)) /\ dst \in Seq([Entries -> Copies])
      /\ named \in Seq(SUBSET Entries) /\ synced \in Seq(SUBSET Files)
      /\ Run \in Nat /\ Run = Len(digests) /\ Len(outcomes) = Run
      /\ Len(dst) = Run /\ Len(named) = Run /\ Len(synced) = Run
      /\ captures \in Seq(Captures)
  BY DEF IInv, MoveInv, Types, RunTypes, Run
<1>5. /\ Run' = Run + 1
      /\ \A r \in 1..Run : dst'[r] = dst[r] /\ named'[r] = named[r] /\ synced'[r] = synced[r]
      /\ dst'[Run'] = blank
  <2>1. Len(digests') = Len(digests) + 1
    BY <1>2, <1>4
  <2>2. Run' = Len(digests')
    BY DEF Run
  <2>3. dst'[Run + 1] = blank
    BY <1>2, <1>4
  <2> QED BY <1>2, <1>4, <2>1, <2>2, <2>3
<1>6. RunTypes'
  <2>1. digests' \in Seq(Seq(Captures)) /\ outcomes' \in Seq(Seq(Records)) /\ dst' \in Seq([Entries -> Copies])
    <3>1. <<>> \in Seq(Records)
      OBVIOUS
    <3> QED BY <1>2, <1>3, <1>4, <3>1
  <2>2. named' \in Seq(SUBSET Entries) /\ synced' \in Seq(SUBSET Files)
    <3>1. {} \in SUBSET Entries /\ {} \in SUBSET Files
      OBVIOUS
    <3> QED BY <1>2, <1>4, <3>1
  <2>3. Len(outcomes') = Run + 1 /\ Len(dst') = Run + 1 /\ Len(named') = Run + 1 /\ Len(synced') = Run + 1
    BY <1>2, <1>4
  <2>4. gone' \in [Entries -> 0..Run'] /\ Run' > 0
    <3>1. gone \in [Entries -> 0..Run]
      BY DEF IInv, MoveInv, RunTypes
    <3>2. 0..Run \subseteq 0..(Run + 1)
      BY <1>4
    <3> QED BY <1>1, <1>4, <1>5, <3>1, <3>2
  <2> QED BY <1>5, <2>1, <2>2, <2>3, <2>4 DEF RunTypes
<1>7. Types' /\ PlanInv'
  <2>1. \/ pc' = "check" /\ captures' = captures
        \/ pc' = "idle" /\ captures' = <<>>
    BY <1>1
  <2>2. captures' \in Seq(Captures)
    <3>1. captures \in Seq(Captures) /\ <<>> \in Seq(Captures)
      BY DEF IInv, MoveInv, Types
    <3> QED BY <2>1, <3>1
  <2>3. pc' \in AllSteps
    BY <2>1 DEF AllSteps, Inspecting
  <2>4. Types'
    BY <1>1, <2>2, <2>3 DEF IInv, MoveInv, Types
  <2>5. PlanInv
    BY DEF IInv, MoveInv
  <2>6. CASE pc' = "check" /\ captures' = captures
    <3>1. 1 \in DOMAIN captures
      BY <1>1, <1>4, <2>5 DEF PlanInv
    <3>2. /\ \A i, j \in DOMAIN captures : captures[i].path = captures[j].path => i = j
          /\ \A i \in DOMAIN captures : stamp[captures[i].path] >= captures[i].measurement.newest
      BY <2>5 DEF PlanInv
    <3>3. stamp' = stamp /\ idx' = 1
      BY <1>1
    <3>4. idx' \in DOMAIN captures' /\ pc' \notin {"idle", "capture", "previewed"}
      BY <2>6, <3>1, <3>3
    <3>5. /\ \A i, j \in DOMAIN captures' : captures'[i].path = captures'[j].path => i = j
          /\ \A i \in DOMAIN captures' : stamp'[captures'[i].path] >= captures'[i].measurement.newest
      BY <2>6, <3>2, <3>3
    <3> QED BY <2>4, <3>4, <3>5 DEF PlanInv
  <2>7. CASE pc' = "idle" /\ captures' = <<>>
    BY <1>1, <2>4, <2>5, <2>7 DEF PlanInv
  <2> QED BY <2>1, <2>4, <2>6, <2>7
<1>8. CopyInv' /\ CheckedInv' /\ RemoveInv' /\ GuardInv'
  BY <1>1, Quiet
<1>9. UntouchedInv'
  <2>1. \A e \in Entries : gone'[e] # Run'
    <3>1. \A e \in Entries : gone[e] \in 0..Run
      BY DEF IInv, MoveInv, RunTypes
    <3> QED BY <1>1, <1>4, <1>5, <3>1
  <2> QED BY <1>3, <1>5, <2>1 DEF UntouchedInv
<1>10. GoneIsDurable'
  <2> SUFFICES ASSUME NEW e \in Entries, gone[e] # 0 PROVE Kept(gone[e], e)'
    BY <1>1 DEF GoneIsDurable
  <2>1. gone[e] \in 1..Run
    BY <1>4 DEF IInv, MoveInv, RunTypes
  <2>2. Kept(gone[e], e)
    BY DEF IInv, MoveInv, GoneIsDurable
  <2> QED BY <1>1, <1>5, <2>1, <2>2 DEF Kept, Durable, Reaches
<1>11. OwnInv' /\ WalkInv' /\ LossNeedsRace' /\ OnlyMeasuredRemoved'
  BY <1>1 DEF IInv, MoveInv, OwnInv, WalkInv, LossNeedsRace, OnlyMeasuredRemoved
<1> QED BY <1>6, <1>7, <1>8, <1>9, <1>10, <1>11 DEF IInv, MoveInv

LEMMA CrashGood ==
    ASSUME IInv, NEW power \in BOOLEAN, Crash(power)
    PROVE  MoveInv'
<1>1. /\ inode' = inode /\ content' = content /\ stamp' = stamp /\ active' = active
      /\ opened' \subseteq opened /\ shared' = shared /\ changes' = changes
      /\ pc' = "idle" /\ captures' = <<>> /\ idx' = 1
      /\ todo' = {} /\ finish' = {} /\ target' = Root
      /\ result' = [moved |-> {}, failure |-> "none"]
      /\ gone' = gone /\ lost' = lost /\ Raced' = Raced /\ strangers' = strangers
      /\ digests' = digests /\ named' = named /\ synced' = synced /\ outcomes' = outcomes
  BY DEF Crash, Return, history, Raced
<1>2. dst' = [r \in 1..Run |-> [e \in Entries |->
                  IF power /\ ~Durable(r, e) THEN Absent ELSE dst[r][e]]]
  BY DEF Crash
<1>3. /\ Run \in Nat /\ Run = Len(digests) /\ Run' = Run
      /\ dst \in Seq([Entries -> Copies]) /\ Len(dst) = Run
  BY <1>1 DEF IInv, MoveInv, RunTypes, Run
<1>4. \A r \in 1..Run, e \in Entries : dst[r][e] \in Copies
  BY <1>3
<1>5. dst' \in [1..Run -> [Entries -> Copies]]
  BY <1>2, <1>4 DEF Copies
<1>6. dst' \in Seq([Entries -> Copies]) /\ Len(dst') = Run
  BY <1>3, <1>5
<1>7. RunTypes'
  BY <1>1, <1>3, <1>6 DEF IInv, MoveInv, RunTypes, Busy
<1>8. Types' /\ PlanInv'
  BY <1>1 DEF IInv, MoveInv, Types, AllSteps, PlanInv
<1>9. CopyInv' /\ CheckedInv' /\ RemoveInv' /\ GuardInv' /\ UntouchedInv'
  BY <1>1, Quiet
<1>10. GoneIsDurable'
  <2> SUFFICES ASSUME NEW e \in Entries, gone[e] # 0 PROVE Kept(gone[e], e)'
    BY <1>1 DEF GoneIsDurable
  <2>1. gone[e] \in 1..Run
    BY <1>3 DEF IInv, MoveInv, RunTypes
  <2>2. Kept(gone[e], e)
    BY DEF IInv, MoveInv, GoneIsDurable
  <2>3. Durable(gone[e], e) /\ Durable(gone[e], e)'
    BY <1>1, <2>2 DEF Kept, Durable, Reaches
  <2>4. dst'[gone[e]][e] = dst[gone[e]][e]
    BY <1>2, <2>1, <2>3
  <2> QED BY <1>1, <2>2, <2>3, <2>4 DEF Kept
<1>11. OwnInv' /\ WalkInv' /\ LossNeedsRace' /\ OnlyMeasuredRemoved'
  BY <1>1 DEF IInv, MoveInv, OwnInv, WalkInv, LossNeedsRace, OnlyMeasuredRemoved
<1> QED BY <1>7, <1>8, <1>9, <1>10, <1>11 DEF IInv, MoveInv

-----------------------------------------------------------------------------
(* Steps that leave tree and copies alone *)

Steps == {"check", "reserve", "failed"} \cup Moving

LEMMA BusyIs == ASSUME pc \in Steps PROVE Busy /\ pc \notin {"idle", "capture"}
BY DEF Steps, Moving, Busy

\* A record is written for the object.
LEMMA RecordGood ==
    ASSUME IInv, Busy, NEW status \in {"reserved", "moved", "failed"}, Record(status)
    PROVE  outcomes' \in Seq(Seq(Records)) /\ Len(outcomes') = Len(outcomes)
<1>1. Object \in Objects
  BY ObjectIs DEF IInv, MoveInv, Busy
<1>2. outcomes \in Seq(Seq(Records)) /\ Run \in Nat \ {0} /\ Len(outcomes) = Run
  BY DEF IInv, MoveInv, RunTypes, Run
<1>3. outcomes[Run] \in Seq(Records)
  BY <1>2
<1>4. [object |-> Object, status |-> status] \in Records
  BY <1>1 DEF Records
<1>5. Append(outcomes[Run], [object |-> Object, status |-> status]) \in Seq(Records)
  BY <1>3, <1>4
<1> DEFINE new == Append(outcomes[Run], [object |-> Object, status |-> status])
<1>6. outcomes' = [outcomes EXCEPT ![Run] = new]
  BY DEF Record
<1> HIDE DEF new
<1> QED BY <1>2, <1>5, <1>6 DEF new

\* A step of the worker that leaves the tree, the copies and the plan alone.
LEMMA StepKeeps ==
    ASSUME IInv, Busy, Still, RunsLeft,
           outcomes' = outcomes \/ (outcomes' \in Seq(Seq(Records)) /\ Len(outcomes') = Len(outcomes)),
           pc' \in Steps, captures' = captures, idx' = idx, result' = result,
           todo' \subseteq Entries, finish' \subseteq Dirs, target' \in Files \cup {Root}
    PROVE  /\ Types' /\ RunTypes' /\ PlanInv' /\ OwnInv'
           /\ GoneIsDurable' /\ LossNeedsRace' /\ OnlyMeasuredRemoved'
<1>1. pc \notin {"idle", "capture"} /\ pc' \notin {"idle", "capture", "previewed"}
  BY DEF Busy, Steps, Moving
<1>2. Types'
  BY DEF IInv, MoveInv, Types, Still, Steps, AllSteps, Inspecting
<1>3. RunTypes'
  BY DEF IInv, MoveInv, RunTypes, RunsLeft, Run
<1>4. PlanInv' /\ OwnInv'
  BY <1>1 DEF IInv, MoveInv, PlanInv, OwnInv, Still
<1>5. GoneIsDurable' /\ OnlyMeasuredRemoved'
  BY KeepGone DEF IInv, MoveInv
<1>6. LossNeedsRace'
  BY DEF IInv, MoveInv, LossNeedsRace, Raced, Still
<1> QED BY <1>2, <1>3, <1>4, <1>5, <1>6

\* The call returns.
LEMMA ReturnGood ==
    ASSUME IInv, Still, RunsLeft,
           outcomes' = outcomes \/ (outcomes' \in Seq(Seq(Records)) /\ Len(outcomes') = Len(outcomes)),
           NEW moved \in SUBSET Objects, NEW failure \in Objects \cup {"none"}, Return(moved, failure)
    PROVE  MoveInv'
<1>1. /\ pc' = "idle" /\ captures' = <<>> /\ idx' = 1 /\ todo' = {} /\ finish' = {} /\ target' = Root
      /\ result' = [moved |-> moved, failure |-> failure]
  BY DEF Return
<1>2. Types'
  BY <1>1 DEF IInv, MoveInv, Types, AllSteps, Still
<1>3. RunTypes'
  BY <1>1 DEF IInv, MoveInv, RunTypes, RunsLeft, Run, Busy
<1>4. PlanInv' /\ OwnInv' /\ WalkInv'
  BY <1>1 DEF IInv, MoveInv, PlanInv, OwnInv, WalkInv, Still
<1>5. GoneIsDurable' /\ OnlyMeasuredRemoved'
  BY KeepGone DEF IInv, MoveInv
<1>6. LossNeedsRace'
  BY DEF IInv, MoveInv, LossNeedsRace, Raced, Still
<1>7. CopyInv' /\ CheckedInv' /\ RemoveInv' /\ GuardInv' /\ UntouchedInv'
  BY <1>1, Quiet
<1> QED BY <1>2, <1>3, <1>4, <1>5, <1>6, <1>7 DEF IInv, MoveInv

LEMMA BreakGood ==
    ASSUME IInv, Busy, Still, RunsLeft,
           outcomes' = outcomes \/ (outcomes' \in Seq(Seq(Records)) /\ Len(outcomes') = Len(outcomes)),
           Break
    PROVE  MoveInv'
<1>1. Object \in Objects /\ result.moved \in SUBSET Objects
  BY ObjectIs DEF IInv, MoveInv, Types, Busy
<1> QED BY <1>1, ReturnGood DEF Break

\* Objects whose turn comes later stay untouched.
LEMMA KeepUntouched ==
    ASSUME UntouchedInv, Busy, Busy', RunsLeft, captures' = captures, idx' = idx,
           pc' \in {"check", "reserve", "prepare"} => pc \in {"check", "reserve", "prepare"},
           pc' \notin {"remove", "failed"} => pc \notin {"remove", "failed"}
    PROVE  UntouchedInv'
BY DEF UntouchedInv, RunsLeft, Run

LEMMA CheckGood == ASSUME IInv, NEW stop \in BOOLEAN, CheckObject(stop) PROVE MoveInv'
<1>1. /\ pc = "check" /\ Still /\ RunsLeft /\ outcomes' = outcomes
      /\ \/ Break
         \/ /\ pc' = "reserve" /\ captures' = captures /\ idx' = idx /\ result' = result
            /\ todo' = todo /\ finish' = finish /\ target' = target
  BY DEF CheckObject, At, tree, copyVars, history, Still, RunsLeft
<1>2. Busy
  BY <1>1 DEF Busy
<1>3. CASE Break
  BY <1>1, <1>2, <1>3, BreakGood
<1>4. CASE /\ pc' = "reserve" /\ captures' = captures /\ idx' = idx /\ result' = result
           /\ todo' = todo /\ finish' = finish /\ target' = target
  <2>1. /\ pc' = "reserve" /\ captures' = captures /\ idx' = idx /\ result' = result
        /\ todo' = todo /\ finish' = finish /\ target' = target
    BY <1>4
  <2>2. pc' \in Steps /\ Busy'
    BY <2>1 DEF Steps, Busy
  <2>3. todo \subseteq Entries /\ finish \subseteq Dirs /\ target \in Files \cup {Root}
    BY DEF IInv, MoveInv, Types
  <2>4. /\ Types' /\ RunTypes' /\ PlanInv' /\ OwnInv'
        /\ GoneIsDurable' /\ LossNeedsRace' /\ OnlyMeasuredRemoved'
    BY <1>1, <1>2, <2>1, <2>2, <2>3, StepKeeps
  <2>5. UntouchedInv'
    BY <1>1, <1>2, <2>1, <2>2, KeepUntouched DEF IInv, MoveInv
  <2>6. WalkInv'
    BY <1>1, <2>1 DEF IInv, MoveInv, WalkInv
  <2>7. CopyInv' /\ CheckedInv' /\ RemoveInv' /\ GuardInv'
    BY <2>1, Quiet
  <2> QED BY <2>4, <2>5, <2>6, <2>7 DEF IInv, MoveInv
<1> QED BY <1>1, <1>3, <1>4

LEMMA ReserveGood == ASSUME IInv, NEW written \in BOOLEAN, Reserve(written) PROVE MoveInv'
<1>1. /\ pc = "reserve" /\ Still /\ RunsLeft
      /\ \/ Record("reserved") /\ Continue("prepare")
         \/ Break /\ outcomes' = outcomes
  BY DEF Reserve, At, tree, copyVars, history, Still, RunsLeft
<1>2. Busy
  BY <1>1 DEF Busy
<1>3. CASE Break /\ outcomes' = outcomes
  BY <1>1, <1>2, <1>3, BreakGood
<1>4. CASE Record("reserved") /\ Continue("prepare")
  <2>1. /\ pc' = "prepare" /\ captures' = captures /\ idx' = idx /\ result' = result
        /\ todo' = todo /\ finish' = finish /\ target' = target
    BY <1>4 DEF Continue, walk
  <2>2. pc' \in Steps /\ Busy'
    BY <2>1 DEF Steps, Moving, Busy
  <2>3. todo \subseteq Entries /\ finish \subseteq Dirs /\ target \in Files \cup {Root}
    BY DEF IInv, MoveInv, Types
  <2>4. outcomes' \in Seq(Seq(Records)) /\ Len(outcomes') = Len(outcomes)
    BY <1>2, <1>4, RecordGood
  <2>5. /\ Types' /\ RunTypes' /\ PlanInv' /\ OwnInv'
        /\ GoneIsDurable' /\ LossNeedsRace' /\ OnlyMeasuredRemoved'
    BY <1>1, <1>2, <2>1, <2>2, <2>3, <2>4, StepKeeps
  <2>6. UntouchedInv'
    BY <1>1, <1>2, <2>1, <2>2, KeepUntouched DEF IInv, MoveInv
  <2>7. WalkInv'
    BY <1>1, <2>1 DEF IInv, MoveInv, WalkInv
  <2>8. CopyInv' /\ CheckedInv' /\ RemoveInv' /\ GuardInv'
    BY <2>1, Quiet
  <2> QED BY <2>5, <2>6, <2>7, <2>8 DEF IInv, MoveInv
<1> QED BY <1>1, <1>3, <1>4

LEMMA FailGood == ASSUME IInv, NEW written \in BOOLEAN, Fail(written) PROVE MoveInv'
<1>1. /\ pc = "failed" /\ Still /\ RunsLeft /\ Break
      /\ Record("failed") \/ outcomes' = outcomes
  BY DEF Fail, At, tree, copyVars, history, Still, RunsLeft
<1>2. Busy
  BY <1>1 DEF Busy
<1>3. outcomes' = outcomes \/ (outcomes' \in Seq(Seq(Records)) /\ Len(outcomes') = Len(outcomes))
  BY <1>1, <1>2, RecordGood
<1> QED BY <1>1, <1>2, <1>3, BreakGood

LEMMA MovedGood == ASSUME IInv, NEW written \in BOOLEAN, Moved(written) PROVE MoveInv'
<1>1. /\ pc = "remove" /\ Still /\ RunsLeft /\ finish = {} /\ target = Root
      /\ \/ Break /\ outcomes' = outcomes
         \/ /\ Record("moved")
            /\ \/ Return(result.moved \cup {Object}, "none")
               \/ /\ idx # Len(captures) /\ pc' = "check" /\ idx' = idx + 1
                  /\ result' = [result EXCEPT !.moved = @ \cup {Object}]
                  /\ UNCHANGED <<captures, walk>>
  BY DEF Moved, At, tree, copyVars, history, Still, RunsLeft
<1>2. Busy
  BY <1>1 DEF Busy
<1>3. Object \in Objects /\ idx \in DOMAIN captures
  BY <1>2, ObjectIs DEF IInv, MoveInv, Busy
<1>4. CASE Break /\ outcomes' = outcomes
  BY <1>1, <1>2, <1>4, BreakGood
<1>5. ASSUME Record("moved")
      PROVE  outcomes' \in Seq(Seq(Records)) /\ Len(outcomes') = Len(outcomes)
  BY <1>2, <1>5, RecordGood
<1>6. CASE Record("moved") /\ Return(result.moved \cup {Object}, "none")
  <2>1. result.moved \cup {Object} \in SUBSET Objects /\ "none" \in Objects \cup {"none"}
    BY <1>3 DEF IInv, MoveInv, Types
  <2> QED BY <1>1, <1>5, <1>6, <2>1, ReturnGood
<1>7. CASE /\ Record("moved") /\ idx # Len(captures) /\ pc' = "check" /\ idx' = idx + 1
           /\ result' = [result EXCEPT !.moved = @ \cup {Object}]
           /\ UNCHANGED <<captures, walk>>
  <2>1. /\ pc' = "check" /\ captures' = captures /\ idx' = idx + 1
        /\ result' = [result EXCEPT !.moved = @ \cup {Object}]
        /\ todo' = todo /\ finish' = {} /\ target' = Root
        /\ outcomes' \in Seq(Seq(Records)) /\ Len(outcomes') = Len(outcomes)
    BY <1>1, <1>5, <1>7 DEF walk
  <2>2. /\ idx \in Nat /\ DOMAIN captures = 1..Len(captures) /\ Len(captures) \in Nat
    BY DEF IInv, MoveInv, Types
  <2>3. idx' \in DOMAIN captures'
    BY <1>3, <1>7, <2>1, <2>2
  <2>4. Types'
    <3>1. result' \in [moved : SUBSET Objects, failure : Objects \cup {"none"}]
      BY <1>3, <2>1 DEF IInv, MoveInv, Types
    <3> QED BY <1>1, <2>1, <2>2, <3>1 DEF IInv, MoveInv, Types, AllSteps, Inspecting, Still
  <2>5. RunTypes'
    BY <1>1, <1>2, <2>1 DEF IInv, MoveInv, RunTypes, RunsLeft, Run
  <2>6. PlanInv' /\ OwnInv' /\ WalkInv'
    BY <1>1, <2>1, <2>3 DEF IInv, MoveInv, PlanInv, OwnInv, WalkInv, Still
  <2>7. GoneIsDurable' /\ OnlyMeasuredRemoved'
    BY <1>1, KeepGone DEF IInv, MoveInv
  <2>8. LossNeedsRace'
    BY <1>1 DEF IInv, MoveInv, LossNeedsRace, Raced, Still
  <2>9. UntouchedInv'
    <3> SUFFICES ASSUME NEW i \in DOMAIN captures, NEW e \in Entries, <<captures[i].path, e>> \in Above,
                        i > idx + 1 \/ i = idx + 1
                 PROVE  dst[Run][e] = Absent /\ gone[e] # Run
      BY <1>1, <2>1 DEF UntouchedInv, RunsLeft, Run
    <3>1. i > idx
      BY <2>2
    <3> QED BY <1>2, <3>1 DEF IInv, MoveInv, UntouchedInv
  <2>10. CopyInv' /\ CheckedInv' /\ RemoveInv' /\ GuardInv'
    BY <2>1, Quiet
  <2> QED BY <2>4, <2>5, <2>6, <2>7, <2>8, <2>9, <2>10 DEF IInv, MoveInv
<1> QED BY <1>1, <1>4, <1>6, <1>7

\* A move that fails.
LEMMA FailsGood ==
    ASSUME IInv, pc \in Moving, pc' = "failed", Still, RunsLeft, outcomes' = outcomes,
           captures' = captures, idx' = idx, result' = result,
           todo' = todo, finish' = finish, target' = target
    PROVE  MoveInv'
<1>1. Busy
  BY BusyIs DEF Steps
<1>2. pc' \in Steps /\ Busy'
  BY DEF Steps, Busy
<1>3. todo \subseteq Entries /\ finish \subseteq Dirs /\ target \in Files \cup {Root}
  BY DEF IInv, MoveInv, Types
<1>4. /\ Types' /\ RunTypes' /\ PlanInv' /\ OwnInv'
      /\ GoneIsDurable' /\ LossNeedsRace' /\ OnlyMeasuredRemoved'
  BY <1>1, <1>2, <1>3, StepKeeps
<1>5. UntouchedInv'
  BY <1>1, <1>2, KeepUntouched DEF IInv, MoveInv
<1>6. WalkInv' /\ CopyInv' /\ CheckedInv' /\ RemoveInv' /\ GuardInv'
  BY DEF WalkInv, CopyInv, CheckedInv, Matched, RemoveInv, Raced, GuardInv
<1> QED BY <1>4, <1>5, <1>6 DEF IInv, MoveInv

LEMMA StopGood == ASSUME IInv, Stop PROVE MoveInv'
BY FailsGood DEF Stop, tree, copyVars, walk, history, Still, RunsLeft

LEMMA DiffersGood == ASSUME IInv, Differs PROVE MoveInv'
<1>1. pc \in Moving
  BY DEF Differs, Moving
<1> QED BY <1>1, FailsGood DEF Differs, tree, copyVars, walk, history, Still, RunsLeft

-----------------------------------------------------------------------------
(* The checks before the removal *)

LEMMA PutIs ==
    ASSUME RunTypes, Busy, NEW e \in Entries, NEW c \in Copies, Put(e, c)
    PROVE  /\ dst' \in Seq([Entries -> Copies]) /\ Len(dst') = Run
           /\ \A r \in 1..Run, x \in Entries :
                 dst'[r][x] = IF r = Run /\ x = e THEN c ELSE dst[r][x]
<1>1. /\ dst \in Seq([Entries -> Copies]) /\ Len(dst) = Run /\ Run \in 1..Run /\ DOMAIN dst = 1..Run
      /\ dst[Run] \in [Entries -> Copies]
  BY RunIs DEF RunTypes
<1> DEFINE new == [dst[Run] EXCEPT ![e] = c]
<1>2. dst' = [dst EXCEPT ![Run] = new]
  BY DEF Put
<1>3. new \in [Entries -> Copies] /\ \A x \in Entries : new[x] = IF x = e THEN c ELSE dst[Run][x]
  BY <1>1
<1> HIDE DEF new
<1>4. dst' \in Seq([Entries -> Copies]) /\ Len(dst') = Run
  BY <1>1, <1>2, <1>3
<1>5. \A r \in 1..Run : dst'[r] = IF r = Run THEN new ELSE dst[r]
  BY <1>1, <1>2
<1> QED BY <1>1, <1>3, <1>4, <1>5

LEMMA SyncDirIs ==
    ASSUME RunTypes, Busy, NEW d, NEW copy, SyncDir(d, copy)
    PROVE  /\ named' \in Seq(SUBSET Entries) /\ Len(named') = Run
           /\ \A r \in 1..Run : named[r] \subseteq named'[r]
           /\ \A e \in Kids(d) : copy[e] # Absent => e \in named'[Run]
<1>1. /\ named \in Seq(SUBSET Entries) /\ Len(named) = Run /\ Run \in 1..Run /\ DOMAIN named = 1..Run
      /\ named[Run] \subseteq Entries
  BY RunIs DEF RunTypes
<1> DEFINE new == named[Run] \cup {e \in Kids(d) : copy[e] # Absent}
<1>2. named' = [named EXCEPT ![Run] = new]
  BY DEF SyncDir
<1>3. new \in SUBSET Entries /\ named[Run] \subseteq new /\ \A e \in Kids(d) : copy[e] # Absent => e \in new
  BY <1>1 DEF Kids
<1> HIDE DEF new
<1>4. named' \in Seq(SUBSET Entries) /\ Len(named') = Run
  BY <1>1, <1>2, <1>3
<1>5. \A r \in 1..Run : named'[r] = IF r = Run THEN new ELSE named[r]
  BY <1>1, <1>2
<1> QED BY <1>1, <1>3, <1>4, <1>5

\* The copies of a run only gain durability.
MoreDurable ==
    /\ named' \in Seq(SUBSET Entries) /\ Len(named') = Run
    /\ synced' \in Seq(SUBSET Files) /\ Len(synced') = Run
    /\ \A r \in 1..Run : named[r] \subseteq named'[r] /\ synced[r] \subseteq synced'[r]

LEMMA SameDurable == ASSUME RunTypes, synced' = synced PROVE
    /\ synced' \in Seq(SUBSET Files) /\ Len(synced') = Run /\ \A r \in 1..Run : synced[r] \subseteq synced'[r]
    /\ named' = named => MoreDurable
BY DEF RunTypes, MoreDurable

\* A step before the removal: it writes only copies of the object.
LEMMA CopyStep ==
    ASSUME IInv, Still, pc \in {"prepare", "copy", "verify", "recheck", "sync"},
           pc' \in {"copy", "verify", "recheck", "sync", "remove"},
           captures' = captures, idx' = idx, result' = result, digests' = digests,
           outcomes' = outcomes, gone' = gone, strangers' = strangers,
           todo' \subseteq Entries, finish' \subseteq Dirs, target' \in Files \cup {Root},
           dst' \in Seq([Entries -> Copies]), Len(dst') = Run, MoreDurable,
           \A r \in 1..Run, x \in Entries : r # Run \/ x \notin Tree(Object) => dst'[r][x] = dst[r][x]
    PROVE  /\ Types' /\ RunTypes' /\ PlanInv' /\ OwnInv' /\ UntouchedInv'
           /\ GoneIsDurable' /\ LossNeedsRace' /\ OnlyMeasuredRemoved'
<1>1. /\ Busy /\ Busy' /\ pc \notin {"idle", "capture"} /\ pc' \notin {"idle", "capture", "previewed"}
      /\ Run' = Run /\ Run \in Nat \ {0}
  <2>1. Busy /\ Busy' /\ pc \notin {"idle", "capture"} /\ pc' \notin {"idle", "capture", "previewed"}
    BY DEF Busy
  <2> QED BY <2>1, RunIs DEF IInv, MoveInv, Run
<1>2. Types'
  BY DEF IInv, MoveInv, Types, Still, AllSteps, Moving
<1>3. RunTypes'
  BY <1>1 DEF IInv, MoveInv, RunTypes, MoreDurable
<1>4. PlanInv' /\ OwnInv'
  BY <1>1 DEF IInv, MoveInv, PlanInv, OwnInv, Still
<1>5. UntouchedInv'
  <2> SUFFICES ASSUME NEW i \in DOMAIN captures, NEW e \in Entries, <<captures[i].path, e>> \in Above
               PROVE  /\ i > idx => dst'[Run][e] = Absent
                      /\ i > idx \/ (i = idx /\ pc' \notin {"remove", "failed"}) => gone[e] # Run
    BY <1>1 DEF UntouchedInv
  <2>1. /\ i > idx => dst[Run][e] = Absent
        /\ i > idx \/ i = idx => gone[e] # Run
    BY <1>1 DEF IInv, MoveInv, UntouchedInv
  <2>2. ASSUME i > idx PROVE e \notin Tree(Object)
    <3>1. idx \in DOMAIN captures /\ Object \in Objects /\ idx \in Nat /\ i # idx
      BY <1>1, <2>2, ObjectIs DEF IInv, MoveInv, Types
    <3>2. captures[i].path # captures[idx].path
      BY <1>1, <3>1 DEF IInv, MoveInv, PlanInv
    <3>3. captures[i].path \in Objects
      BY CaptureIs DEF IInv, MoveInv
    <3>4. captures[i].path # Object
      BY <3>2 DEF Object
    <3> QED BY <3>1, <3>3, <3>4, OneObject DEF Tree
  <2>3. i > idx => dst'[Run][e] = dst[Run][e]
    BY <1>1, <2>2
  <2> QED BY <2>1, <2>3
<1>6. GoneIsDurable'
  <2> SUFFICES ASSUME NEW e \in Entries, gone[e] # 0 PROVE Kept(gone[e], e)'
    BY DEF GoneIsDurable
  <2>1. gone[e] \in 1..Run /\ Kept(gone[e], e)
    BY <1>1 DEF IInv, MoveInv, RunTypes, GoneIsDurable
  <2>2. dst'[gone[e]][e] = dst[gone[e]][e]
    <3>1. CASE gone[e] # Run
      BY <2>1, <3>1
    <3>2. CASE gone[e] = Run
      <4>1. idx \in DOMAIN captures
        BY <1>1, ObjectIs DEF IInv, MoveInv
      <4>2. <<Object, e>> \notin Above
        BY <1>1, <3>2, <4>1 DEF IInv, MoveInv, UntouchedInv, Object
      <4> QED BY <2>1, <4>2 DEF Tree
    <3> QED BY <3>1, <3>2
  <2>3. Durable(gone[e], e)'
    BY <2>1 DEF MoreDurable, Kept, Durable, Reaches
  <2> QED BY <2>1, <2>2, <2>3 DEF Kept
<1>7. LossNeedsRace' /\ OnlyMeasuredRemoved'
  BY DEF IInv, MoveInv, LossNeedsRace, Raced, OnlyMeasuredRemoved, Still
<1> QED BY <1>2, <1>3, <1>4, <1>5, <1>6, <1>7

\* The same, when no copy changes.
LEMMA CheckStep ==
    ASSUME IInv, Still, RunsLeft, pc \in {"prepare", "copy", "verify", "recheck", "sync"},
           pc' \in {"copy", "verify", "recheck", "sync", "remove"},
           captures' = captures, idx' = idx, result' = result, outcomes' = outcomes,
           todo' \subseteq Entries, finish' \subseteq Dirs, target' \in Files \cup {Root}
    PROVE  /\ Types' /\ RunTypes' /\ PlanInv' /\ OwnInv' /\ UntouchedInv'
           /\ GoneIsDurable' /\ LossNeedsRace' /\ OnlyMeasuredRemoved'
<1>1. MoreDurable
  BY SameDurable DEF IInv, MoveInv, RunsLeft
<1>2. dst' \in Seq([Entries -> Copies]) /\ Len(dst') = Run
  BY DEF IInv, MoveInv, RunTypes, RunsLeft
<1> QED BY <1>1, <1>2, CopyStep DEF RunsLeft

\* Nothing that is checked depends on the pending list.
LEMMA CheckedLeft ==
    ASSUME IInv, Still, RunsLeft, captures' = captures, idx' = idx,
           finish' = finish, target' = target
    PROVE  /\ Object' = Object /\ Measured' = Measured /\ Run' = Run /\ Tree(Object)' = Tree(Object)
           /\ \A e : (Copied(e)' <=> Copied(e)) /\ (CopyIsKept(e)' <=> CopyIsKept(e))
                     /\ (CopyIsExact(e)' <=> CopyIsExact(e))
<1>1. Object' = Object /\ Measured' = Measured /\ Run' = Run
  BY DEF Object, Measured, Run, RunsLeft
<1> QED BY <1>1 DEF Still, RunsLeft, Tree, Copied, CopyIsKept, CopyIsExact

LEMMA PrepareGood == ASSUME IInv, Prepare PROVE MoveInv'
<1>1. /\ pc = "prepare" /\ pc' = "copy" /\ Still /\ RunsLeft
      /\ captures' = captures /\ idx' = idx /\ result' = result /\ outcomes' = outcomes
      /\ todo' = {Object} /\ finish' = finish /\ target' = target
  BY DEF Prepare, At, tree, copyVars, history, Still, RunsLeft
<1>2. /\ Object \in Entries /\ Object \in Tree(Object) /\ idx \in DOMAIN captures
      /\ Parent[Object] = Root /\ Busy
  BY <1>1, ObjectIs DEF IInv, MoveInv, Busy
<1>3. finish = {} /\ target = Root
  BY <1>1 DEF IInv, MoveInv, WalkInv
<1>4. todo' \subseteq Entries /\ finish' \subseteq Dirs /\ target' \in Files \cup {Root}
  BY <1>1, <1>2, <1>3
<1>5. /\ Types' /\ RunTypes' /\ PlanInv' /\ OwnInv' /\ UntouchedInv'
      /\ GoneIsDurable' /\ LossNeedsRace' /\ OnlyMeasuredRemoved'
  BY <1>1, <1>4, CheckStep
<1>6. /\ Object' = Object /\ Run' = Run /\ Tree(Object)' = Tree(Object)
      /\ \A e : (Copied(e)' <=> Copied(e)) /\ (CopyIsKept(e)' <=> CopyIsKept(e))
                     /\ (CopyIsExact(e)' <=> CopyIsExact(e))
  BY <1>1, CheckedLeft
<1>7. WalkInv'
  BY <1>1, <1>2, <1>3, <1>6 DEF WalkInv
<1>8. CopyInv'
  <2>1. \A e \in Tree(Object) : ~Copied(e)
    BY <1>1, <1>2 DEF IInv, MoveInv, UntouchedInv, Copied, Object, Tree
  <2>2. \A e \in Tree(Object) : e # Object => Parent[e] \in Tree(Object)
    BY <1>2, AboveStep DEF Tree
  <2>3. \A e \in Tree(Object) : CopyIsKept(e) /\ CopyIsExact(e)
    BY <2>1 DEF CopyIsKept, CopyIsExact
  <2> QED BY <1>1, <1>3, <1>6, <2>1, <2>2, <2>3 DEF CopyInv
<1>9. CheckedInv' /\ RemoveInv' /\ GuardInv'
  BY <1>1 DEF CheckedInv, Matched, RemoveInv, Raced, GuardInv
<1> QED BY <1>5, <1>7, <1>8, <1>9 DEF IInv, MoveInv

LEMMA EndCopyGood == ASSUME IInv, EndCopy PROVE MoveInv'
<1>1. /\ pc = "copy" /\ pc' = "verify" /\ Still /\ RunsLeft
      /\ captures' = captures /\ idx' = idx /\ result' = result /\ outcomes' = outcomes
      /\ todo = {} /\ todo' = {Object} /\ finish' = finish /\ target' = target
      /\ finish = {} /\ target = Root
  BY DEF EndCopy, At, tree, copyVars, history, Still, RunsLeft
<1>2. Object \in Objects /\ Object \in Entries /\ Parent[Object] = Root
  BY <1>1, ObjectIs DEF IInv, MoveInv
<1>3. todo' \subseteq Entries /\ finish' \subseteq Dirs /\ target' \in Files \cup {Root}
  BY <1>1, <1>2
<1>4. /\ Types' /\ RunTypes' /\ PlanInv' /\ OwnInv' /\ UntouchedInv'
      /\ GoneIsDurable' /\ LossNeedsRace' /\ OnlyMeasuredRemoved'
  BY <1>1, <1>3, CheckStep
<1>5. /\ Object' = Object /\ Run' = Run /\ Tree(Object)' = Tree(Object)
      /\ \A e : (Copied(e)' <=> Copied(e)) /\ (CopyIsKept(e)' <=> CopyIsKept(e))
                     /\ (CopyIsExact(e)' <=> CopyIsExact(e))
  BY <1>1, CheckedLeft
<1>6. \A e \in Tree(Object) : inode[e] = "own" => Copied(e)
  <2> DEFINE S == {e \in Tree(Object) : inode[e] = "own" /\ ~Copied(e)}
  <2>1. ASSUME S # {} PROVE FALSE
    <3>1. S \in SUBSET Entries
      BY DEF Tree
    <3>2. PICK e \in S : Parent[e] = Root \/ Parent[e] \notin S
      BY <2>1, <3>1, Shallowest
    <3>3. e \in Entries /\ <<Object, e>> \in Above /\ inode[e] = "own" /\ ~Copied(e)
      BY <3>2 DEF Tree
    <3>4. e # Object /\ ~Copied(Parent[e])
      BY <1>1, <3>2 DEF IInv, MoveInv, CopyInv
    <3>5. Parent[e] # Root /\ Parent[e] \in Entries /\ <<Object, Parent[e]>> \in Above
          /\ <<Parent[e], e>> \in Above
      BY <1>2, <3>3, <3>4, AboveStep
    <3>6. inode[Parent[e]] = "own"
      BY <3>3, <3>5 DEF IInv, MoveInv, OwnInv
    <3>7. Parent[e] \in S
      BY <3>4, <3>5, <3>6 DEF Tree
    <3> QED BY <3>2, <3>5, <3>7
  <2> QED BY <2>1
<1>7. CheckedInv'
  <2>1. \A e \in Tree(Object) : CopyIsKept(e) /\ CopyIsExact(e)
    BY <1>1 DEF IInv, MoveInv, CopyInv
  <2> QED BY <1>1, <1>5, <1>6, <2>1 DEF CheckedInv, Matched, Still
<1>8. WalkInv' /\ CopyInv' /\ RemoveInv' /\ GuardInv'
  BY <1>1 DEF WalkInv, CopyInv, RemoveInv, Raced, GuardInv
<1> QED BY <1>4, <1>7, <1>8 DEF IInv, MoveInv

LEMMA VerifyGood == ASSUME IInv, NEW e \in Entries, VerifyEntry(e) PROVE MoveInv'
<1>1. /\ pc = "verify" /\ pc' = "verify" /\ Still /\ RunsLeft
      /\ captures' = captures /\ idx' = idx /\ result' = result /\ outcomes' = outcomes
      /\ todo' = (todo \ {e}) \cup {x \in Kids(e) : Present(x)} /\ finish' = finish /\ target' = target
  BY DEF VerifyEntry, At, tree, copyVars, history, Still, RunsLeft
<1>2. todo' \subseteq Entries /\ finish' \subseteq Dirs /\ target' \in Files \cup {Root}
  BY <1>1 DEF IInv, MoveInv, Types, Kids
<1>3. /\ Types' /\ RunTypes' /\ PlanInv' /\ OwnInv' /\ UntouchedInv'
      /\ GoneIsDurable' /\ LossNeedsRace' /\ OnlyMeasuredRemoved'
  BY <1>1, <1>2, CheckStep
<1>4. /\ Object' = Object /\ Run' = Run /\ Tree(Object)' = Tree(Object)
      /\ \A x : (Copied(x)' <=> Copied(x)) /\ (CopyIsKept(x)' <=> CopyIsKept(x))
                     /\ (CopyIsExact(x)' <=> CopyIsExact(x))
  BY <1>1, CheckedLeft
<1>5. CheckedInv'
  <2>1. \A x \in Tree(Object) : (inode[x] = "own" => Copied(x)) /\ CopyIsKept(x) /\ CopyIsExact(x)
    BY <1>1 DEF IInv, MoveInv, CheckedInv
  <2>2. pc' = "verify" /\ inode' = inode
    BY <1>1 DEF Still
  <2> QED BY <1>4, <2>1, <2>2 DEF CheckedInv, Matched
<1>6. WalkInv' /\ CopyInv' /\ RemoveInv' /\ GuardInv'
  BY <1>1 DEF IInv, MoveInv, WalkInv, CopyInv, RemoveInv, Raced, GuardInv
<1> QED BY <1>3, <1>5, <1>6 DEF IInv, MoveInv

LEMMA EndVerifyGood == ASSUME IInv, EndVerify PROVE MoveInv'
<1>1. /\ pc = "verify" /\ pc' = "recheck" /\ Still /\ RunsLeft
      /\ captures' = captures /\ idx' = idx /\ result' = result /\ outcomes' = outcomes
      /\ todo' = todo /\ finish' = finish /\ target' = target
  BY DEF EndVerify, Continue, walk, At, tree, copyVars, history, Still, RunsLeft
<1>2. todo' \subseteq Entries /\ finish' \subseteq Dirs /\ target' \in Files \cup {Root}
  BY <1>1 DEF IInv, MoveInv, Types
<1>3. /\ Types' /\ RunTypes' /\ PlanInv' /\ OwnInv' /\ UntouchedInv'
      /\ GoneIsDurable' /\ LossNeedsRace' /\ OnlyMeasuredRemoved'
  BY <1>1, <1>2, CheckStep
<1>4. /\ Object' = Object /\ Run' = Run /\ Tree(Object)' = Tree(Object)
      /\ \A x : (Copied(x)' <=> Copied(x)) /\ (CopyIsKept(x)' <=> CopyIsKept(x))
                     /\ (CopyIsExact(x)' <=> CopyIsExact(x))
  BY <1>1, CheckedLeft
<1>5. CheckedInv'
  <2>1. \A x \in Tree(Object) : (inode[x] = "own" => Copied(x)) /\ CopyIsKept(x) /\ CopyIsExact(x)
    BY <1>1 DEF IInv, MoveInv, CheckedInv
  <2>2. pc' = "recheck" /\ inode' = inode /\ reading = {} /\ reading' = reading
    BY <1>1 DEF Still, EndVerify, Continue, walk, IInv, InspectionInv, Inspecting
  <2> QED BY <1>4, <2>1, <2>2 DEF CheckedInv, Matched
<1>6. WalkInv' /\ CopyInv' /\ RemoveInv' /\ GuardInv'
  BY <1>1 DEF IInv, MoveInv, WalkInv, CopyInv, RemoveInv, Raced, GuardInv
<1> QED BY <1>3, <1>5, <1>6 DEF IInv, MoveInv

LEMMA RecheckGood == ASSUME IInv, Recheck PROVE MoveInv'
<1>1. /\ pc = "recheck" /\ pc' = "sync" /\ Still /\ RunsLeft /\ Matched
      /\ captures' = captures /\ idx' = idx /\ result' = result /\ outcomes' = outcomes
      /\ todo' = todo /\ finish' = finish /\ target' = target
  BY DEF Recheck, Inspected, Matched, At, tree, copyVars, history, Still, RunsLeft
<1>2. todo' \subseteq Entries /\ finish' \subseteq Dirs /\ target' \in Files \cup {Root}
  BY <1>1 DEF IInv, MoveInv, Types
<1>3. /\ Types' /\ RunTypes' /\ PlanInv' /\ OwnInv' /\ UntouchedInv'
      /\ GoneIsDurable' /\ LossNeedsRace' /\ OnlyMeasuredRemoved'
  BY <1>1, <1>2, CheckStep
<1>4. /\ Object' = Object /\ Run' = Run /\ Tree(Object)' = Tree(Object)
      /\ \A x : (Copied(x)' <=> Copied(x)) /\ (CopyIsKept(x)' <=> CopyIsKept(x))
                     /\ (CopyIsExact(x)' <=> CopyIsExact(x))
  BY <1>1, CheckedLeft
<1>5. CheckedInv'
  <2>1. \A e \in Tree(Object) : (inode[e] = "own" => Copied(e)) /\ CopyIsKept(e)
    BY <1>1 DEF IInv, MoveInv, CheckedInv
  <2>2. \A e \in Tree(Object) : Copied(e) /\ e \in Files =>
           dst[Run][e] # Torn /\ (e \notin Raced => dst[Run][e] = content[e])
    BY <1>1 DEF IInv, MoveInv, CheckedInv
  <2>3. dst' = dst /\ content' = content /\ Raced' = Raced /\ inode' = inode
    BY <1>1 DEF Still, RunsLeft, Raced
  <2> QED BY <1>1, <1>4, <2>1, <2>2, <2>3 DEF CheckedInv
<1>6. WalkInv' /\ CopyInv' /\ RemoveInv' /\ GuardInv'
  BY <1>1 DEF IInv, MoveInv, WalkInv, CopyInv, RemoveInv, GuardInv
<1> QED BY <1>3, <1>5, <1>6 DEF MoveInv

-----------------------------------------------------------------------------
(* The copy *)

\* What a step of the copy relies on.
LEMMA CopyIs ==
    ASSUME IInv, pc = "copy"
    PROVE  /\ Busy /\ idx \in DOMAIN captures /\ Object \in Objects /\ Object \in Entries
           /\ Parent[Object] = Root /\ Tree(Object) \subseteq Entries
           /\ todo \subseteq Tree(Object) /\ finish \subseteq Tree(Object)
           /\ finish \subseteq Dirs /\ target \in Files \cup {Root}
           /\ Run \in 1..Run
<1>1. Busy /\ pc # "idle"
  BY DEF Busy
<1> QED BY <1>1, ObjectIs, RunIs DEF IInv, MoveInv, WalkInv, Types, Tree

\* A child of a directory of the object belongs to the object.
LEMMA KidIs ==
    ASSUME NEW o \in Objects, NEW d \in Entries, <<o, d>> \in Above, NEW k \in Kids(d)
    PROVE  k \in Entries /\ Parent[k] = d /\ k # o /\ <<o, k>> \in Above /\ k # d
<1>1. k \in Entries /\ Parent[k] = d /\ d # Root /\ o \in Entries
  BY QuarantineAssumption DEF Kids, Objects
<1>2. k # o
  BY <1>1 DEF Objects
<1> QED BY <1>1, <1>2, AboveStep

LEMMA SameObject ==
    ASSUME captures' = captures, idx' = idx, digests' = digests
    PROVE  Object' = Object /\ Measured' = Measured /\ Run' = Run /\ Tree(Object)' = Tree(Object)
BY DEF Object, Measured, Run, Tree

LEMMA EnterGood == ASSUME IInv, NEW d \in Entries, EnterDirectory(d) PROVE MoveInv'
<1>1. /\ pc = "copy" /\ pc' = "copy" /\ Still /\ target = Root /\ d \in todo /\ d \in Dirs
      /\ captures' = captures /\ idx' = idx /\ result' = result /\ outcomes' = outcomes
      /\ digests' = digests /\ gone' = gone /\ strangers' = strangers
      /\ todo' = (todo \ {d}) \cup {x \in Kids(d) : Present(x)} /\ finish' = finish \cup {d}
      /\ target' = Root /\ named' = named /\ synced' = synced /\ Put(d, 0)
  BY DEF EnterDirectory, At, tree, history, Still
<1>2. /\ Busy /\ Object \in Objects /\ Object \in Entries /\ Tree(Object) \subseteq Entries /\ Run \in 1..Run
      /\ d \in Tree(Object) /\ <<Object, d>> \in Above /\ finish \subseteq Dirs
      /\ todo \subseteq Tree(Object) /\ finish \subseteq Tree(Object)
  BY <1>1, CopyIs DEF Tree
<1>3. 0 \in Copies /\ 0 # Absent /\ 0 # Torn
  BY QuarantineAssumption DEF Copies
<1>4. /\ dst' \in Seq([Entries -> Copies]) /\ Len(dst') = Run
      /\ \A r \in 1..Run, x \in Entries : dst'[r][x] = IF r = Run /\ x = d THEN 0 ELSE dst[r][x]
  BY <1>1, <1>2, <1>3, PutIs DEF IInv, MoveInv
<1>5. \A k \in Kids(d) : k \in Entries /\ Parent[k] = d /\ k # Object /\ <<Object, k>> \in Above
  BY <1>2, KidIs
<1>6. todo' \subseteq Tree(Object) /\ finish' \subseteq Tree(Object) /\ finish' \subseteq Dirs
  BY <1>1, <1>2, <1>5 DEF Tree
<1>7. MoreDurable
  BY <1>1, SameDurable DEF IInv, MoveInv
<1>8. \A r \in 1..Run, x \in Entries : r # Run \/ x \notin Tree(Object) => dst'[r][x] = dst[r][x]
  BY <1>2, <1>4
<1>9. todo' \subseteq Entries /\ target' \in Files \cup {Root}
  BY <1>1, <1>2, <1>6
<1>10. /\ Types' /\ RunTypes' /\ PlanInv' /\ OwnInv' /\ UntouchedInv'
       /\ GoneIsDurable' /\ LossNeedsRace' /\ OnlyMeasuredRemoved'
  BY <1>1, <1>4, <1>6, <1>7, <1>8, <1>9, CopyStep
<1>11. Object' = Object /\ Measured' = Measured /\ Run' = Run /\ Tree(Object)' = Tree(Object)
  BY <1>1, SameObject
<1>12. WalkInv'
  <2>1. \A e \in todo' : e # Object => Parent[e] \in finish'
    <3>1. \A e \in todo : e # Object => Parent[e] \in finish
      BY <1>1 DEF IInv, MoveInv, WalkInv
    <3> QED BY <1>1, <1>5, <3>1
  <2> QED BY <1>1, <1>6, <1>11, <2>1 DEF WalkInv
<1>13. CopyInv'
  <2> SUFFICES ASSUME NEW e \in Tree(Object)
               PROVE  /\ inode[e] = "own" /\ ~Copied(e)'
                            => e \in todo' \/ (e # Object /\ ~Copied(Parent[e])')
                      /\ CopyIsKept(e)' /\ CopyIsExact(e)'
    BY <1>1, <1>11 DEF CopyInv, Still
  <2>1. /\ inode[e] = "own" /\ ~Copied(e)
                            => e \in todo \/ (e # Object /\ ~Copied(Parent[e]))
        /\ CopyIsKept(e) /\ CopyIsExact(e) /\ e \in Entries
    BY <1>1, <1>2 DEF IInv, MoveInv, CopyInv
  <2>2. Copied(d)' /\ dst'[Run][d] = 0
    BY <1>2, <1>3, <1>4, <1>11 DEF Copied
  <2>3. \A x \in Entries : x # d => dst'[Run][x] = dst[Run][x] /\ (Copied(x)' <=> Copied(x))
    BY <1>2, <1>4, <1>11 DEF Copied
  <2>4. ASSUME inode[e] = "own", ~Copied(e)'
        PROVE  e \in todo' \/ (e # Object /\ ~Copied(Parent[e])')
    <3>1. e # d /\ ~Copied(e)
      BY <2>1, <2>2, <2>3, <2>4
    <3>2. CASE e \in todo
      BY <1>1, <3>1, <3>2
    <3>3. CASE e # Object /\ ~Copied(Parent[e])
      <4>1. Parent[e] \in Entries
        BY <1>2, <2>1, <3>3, AboveStep DEF Tree
      <4>2. CASE Parent[e] = d
        <5>1. e \in Kids(d) /\ Present(e)
          BY <2>1, <2>4, <4>2 DEF Kids, Present
        <5> QED BY <1>1, <5>1
      <4>3. CASE Parent[e] # d
        BY <2>3, <3>3, <4>1, <4>3
      <4> QED BY <4>2, <4>3
    <3> QED BY <2>1, <2>4, <3>1, <3>2, <3>3
  <2>5. CopyIsKept(e)'
    <3>1. CASE e = d
      <4>1. e # Object => Parent[e] \in finish
        BY <1>1, <3>1 DEF IInv, MoveInv, WalkInv
      <4> QED BY <1>1, <1>3, <1>11, <2>2, <3>1, <4>1 DEF CopyIsKept, Files
    <3>2. CASE e # d
      BY <1>1, <1>11, <2>1, <2>3, <3>2 DEF CopyIsKept
    <3> QED BY <3>1, <3>2
  <2>6. CopyIsExact(e)'
    <3>1. CASE e = d
      BY <1>1, <3>1 DEF CopyIsExact, Files
    <3>2. CASE e # d
      BY <1>1, <1>11, <2>1, <2>3, <3>2 DEF CopyIsExact, Still
    <3> QED BY <3>1, <3>2
  <2> QED BY <2>4, <2>5, <2>6
<1>14. CheckedInv' /\ RemoveInv' /\ GuardInv'
  BY <1>1 DEF CheckedInv, Matched, RemoveInv, Raced, GuardInv
<1> QED BY <1>10, <1>12, <1>13, <1>14 DEF IInv, MoveInv

LEMMA BeginGood == ASSUME IInv, NEW f \in Entries, BeginFile(f) PROVE MoveInv'
<1>1. /\ pc = "copy" /\ pc' = "copy" /\ Still /\ target = Root /\ f \in todo /\ f \in Files
      /\ captures' = captures /\ idx' = idx /\ result' = result /\ outcomes' = outcomes
      /\ digests' = digests /\ gone' = gone /\ strangers' = strangers
      /\ todo' = todo /\ finish' = finish
      /\ target' = f /\ named' = named /\ synced' = synced /\ Put(f, Torn)
  BY DEF BeginFile, At, tree, history, Still
<1>2. /\ Busy /\ Object \in Objects /\ Object \in Entries /\ Tree(Object) \subseteq Entries /\ Run \in 1..Run
      /\ f \in Tree(Object) /\ finish \subseteq Dirs
      /\ todo \subseteq Tree(Object) /\ finish \subseteq Tree(Object)
  BY <1>1, CopyIs
<1>3. Torn \in Copies /\ Torn # Absent /\ Root \notin Entries
  BY QuarantineAssumption DEF Copies
<1>4. /\ dst' \in Seq([Entries -> Copies]) /\ Len(dst') = Run
      /\ \A r \in 1..Run, x \in Entries : dst'[r][x] = IF r = Run /\ x = f THEN Torn ELSE dst[r][x]
  BY <1>1, <1>2, <1>3, PutIs DEF IInv, MoveInv
<1>7. MoreDurable
  BY <1>1, SameDurable DEF IInv, MoveInv
<1>8. \A r \in 1..Run, x \in Entries : r # Run \/ x \notin Tree(Object) => dst'[r][x] = dst[r][x]
  BY <1>2, <1>4
<1>9. todo' \subseteq Entries /\ finish' \subseteq Dirs /\ target' \in Files \cup {Root}
  BY <1>1, <1>2
<1>10. /\ Types' /\ RunTypes' /\ PlanInv' /\ OwnInv' /\ UntouchedInv'
       /\ GoneIsDurable' /\ LossNeedsRace' /\ OnlyMeasuredRemoved'
  BY <1>1, <1>4, <1>7, <1>8, <1>9, CopyStep
<1>11. Object' = Object /\ Measured' = Measured /\ Run' = Run /\ Tree(Object)' = Tree(Object)
  BY <1>1, SameObject
<1>12. WalkInv'
  BY <1>1, <1>2, <1>11 DEF IInv, MoveInv, WalkInv
<1>13. CopyInv'
  <2>2. Copied(f)' /\ dst'[Run][f] = Torn
    BY <1>2, <1>3, <1>4, <1>11 DEF Copied
  <2>3. \A x \in Entries : x # f => dst'[Run][x] = dst[Run][x] /\ (Copied(x)' <=> Copied(x))
    BY <1>2, <1>4, <1>11 DEF Copied
  <2> SUFFICES ASSUME NEW e \in Tree(Object)
               PROVE  /\ inode[e] = "own" /\ ~Copied(e)'
                            => e \in todo' \/ (e # Object /\ ~Copied(Parent[e])')
                      /\ CopyIsKept(e)' /\ CopyIsExact(e)'
    BY <1>1, <1>11, <2>2 DEF CopyInv, Still
  <2>1. /\ inode[e] = "own" /\ ~Copied(e)
                            => e \in todo \/ (e # Object /\ ~Copied(Parent[e]))
        /\ CopyIsKept(e) /\ CopyIsExact(e) /\ e \in Entries
    BY <1>1, <1>2 DEF IInv, MoveInv, CopyInv
  <2>4. ASSUME inode[e] = "own", ~Copied(e)'
        PROVE  e \in todo' \/ (e # Object /\ ~Copied(Parent[e])')
    <3>1. e # f /\ ~Copied(e)
      BY <2>1, <2>2, <2>3, <2>4
    <3>2. CASE e \in todo
      BY <1>1, <3>1, <3>2
    <3>3. CASE e # Object /\ ~Copied(Parent[e])
      <4>1. Parent[e] \in Entries /\ Parent[e] \in Dirs
        BY <1>2, <2>1, <3>3, AboveStep DEF Tree
      <4>2. Parent[e] # f
        BY <1>1, <4>1 DEF Files
      <4> QED BY <2>3, <3>3, <4>1, <4>2
    <3> QED BY <2>1, <2>4, <3>1, <3>2, <3>3
  <2>5. CopyIsKept(e)'
    <3>1. CASE e = f
      <4>1. e # Object => Parent[e] \in finish
        BY <1>1, <3>1 DEF IInv, MoveInv, WalkInv
      <4> QED BY <1>1, <1>11, <3>1, <4>1 DEF CopyIsKept, Files
    <3>2. CASE e # f
      BY <1>1, <1>3, <1>11, <2>1, <2>3, <3>2 DEF CopyIsKept
    <3> QED BY <3>1, <3>2
  <2>6. CopyIsExact(e)'
    <3>1. CASE e = f
      BY <1>1, <3>1 DEF CopyIsExact
    <3>2. CASE e # f
      BY <1>1, <1>3, <1>11, <2>1, <2>3, <3>2 DEF CopyIsExact, Still
    <3> QED BY <3>1, <3>2
  <2> QED BY <2>4, <2>5, <2>6
<1>14. CheckedInv' /\ RemoveInv' /\ GuardInv'
  BY <1>1 DEF CheckedInv, Matched, RemoveInv, Raced, GuardInv
<1> QED BY <1>10, <1>12, <1>13, <1>14 DEF IInv, MoveInv

LEMMA EndFileGood ==
    ASSUME IInv, NEW copied \in Stamps \cup {Torn}, EndFile(copied)
    PROVE  MoveInv'
<1>1. /\ pc = "copy" /\ pc' = "copy" /\ Still /\ target # Root
      /\ captures' = captures /\ idx' = idx /\ result' = result /\ outcomes' = outcomes
      /\ digests' = digests /\ gone' = gone /\ strangers' = strangers
      /\ todo' = todo \ {target} /\ finish' = finish /\ target' = Root
      /\ Put(target, copied) /\ SyncDir(Parent[target], dst'[Run])
      /\ synced' = [synced EXCEPT ![Run] = @ \cup {target}]
      /\ copied = content[target] \/ (copied = Torn /\ stamp[Object] # Measured.newest)
  BY DEF EndFile, At, tree, history, Still
<1>2. /\ Busy /\ Object \in Objects /\ Object \in Entries /\ Tree(Object) \subseteq Entries /\ Run \in 1..Run
      /\ finish \subseteq Dirs /\ target \in Files
      /\ todo \subseteq Tree(Object) /\ finish \subseteq Tree(Object)
  BY <1>1, CopyIs
<1>3. target \in todo /\ target \in Tree(Object) /\ target \in Entries
  BY <1>1, <1>2 DEF IInv, MoveInv, WalkInv
<1>4. copied \in Copies /\ copied # Absent
  <2>1. content[target] \in Nat
    BY <1>3 DEF IInv, MoveInv, Types
  <2> QED BY <1>1, <2>1, QuarantineAssumption DEF Copies
<1>5. /\ dst' \in Seq([Entries -> Copies]) /\ Len(dst') = Run
      /\ \A r \in 1..Run, x \in Entries :
            dst'[r][x] = IF r = Run /\ x = target THEN copied ELSE dst[r][x]
  BY <1>1, <1>2, <1>3, <1>4, PutIs DEF IInv, MoveInv
<1>6. /\ named' \in Seq(SUBSET Entries) /\ Len(named') = Run
      /\ \A r \in 1..Run : named[r] \subseteq named'[r]
      /\ \A e \in Kids(Parent[target]) : dst'[Run][e] # Absent => e \in named'[Run]
  BY <1>1, <1>2, SyncDirIs DEF IInv, MoveInv
<1>7. /\ synced' \in Seq(SUBSET Files) /\ Len(synced') = Run
      /\ \A r \in 1..Run : synced[r] \subseteq synced'[r]
      /\ target \in synced'[Run]
  <2>1. /\ synced \in Seq(SUBSET Files) /\ Len(synced) = Run /\ DOMAIN synced = 1..Run
        /\ synced[Run] \subseteq Files
    BY <1>2, RunIs DEF IInv, MoveInv, RunTypes
  <2> DEFINE new == synced[Run] \cup {target}
  <2>2. synced' = [synced EXCEPT ![Run] = new]
    BY <1>1
  <2>3. new \in SUBSET Files /\ synced[Run] \subseteq new /\ target \in new
    BY <1>2, <2>1
  <2> HIDE DEF new
  <2>4. synced' \in Seq(SUBSET Files) /\ Len(synced') = Run
    BY <1>2, <2>1, <2>2, <2>3
  <2>5. \A r \in 1..Run : synced'[r] = IF r = Run THEN new ELSE synced[r]
    BY <2>1, <2>2
  <2> QED BY <1>2, <2>3, <2>4, <2>5
<1>8. MoreDurable
  BY <1>6, <1>7 DEF MoreDurable
<1>9. \A r \in 1..Run, x \in Entries : r # Run \/ x \notin Tree(Object) => dst'[r][x] = dst[r][x]
  BY <1>3, <1>5
<1>10. todo' \subseteq Entries /\ finish' \subseteq Dirs /\ target' \in Files \cup {Root}
  BY <1>1, <1>2
<1>11. /\ Types' /\ RunTypes' /\ PlanInv' /\ OwnInv' /\ UntouchedInv'
       /\ GoneIsDurable' /\ LossNeedsRace' /\ OnlyMeasuredRemoved'
  BY <1>1, <1>5, <1>8, <1>9, <1>10, CopyStep
<1>12. Object' = Object /\ Measured' = Measured /\ Run' = Run /\ Tree(Object)' = Tree(Object)
  BY <1>1, SameObject
<1>13. WalkInv'
  BY <1>1, <1>2, <1>12 DEF IInv, MoveInv, WalkInv
<1>14. CopyInv'
  <2>0. PICK t \in Files : t = target
    BY <1>2
  <2>1. Copied(t)' /\ dst'[Run][t] = copied
    BY <1>2, <1>3, <1>4, <1>5, <1>12, <2>0 DEF Copied
  <2>2. \A x \in Entries : x # t => dst'[Run][x] = dst[Run][x] /\ (Copied(x)' <=> Copied(x))
    BY <1>2, <1>5, <1>12, <2>0 DEF Copied
  <2> SUFFICES ASSUME NEW e \in Tree(Object)
               PROVE  /\ inode[e] = "own" /\ ~Copied(e)'
                            => e \in todo' \/ (e # Object /\ ~Copied(Parent[e])')
                      /\ CopyIsKept(e)' /\ CopyIsExact(e)'
    BY <1>1, <1>12 DEF CopyInv, Still
  <2>3. /\ inode[e] = "own" /\ ~Copied(e)
                            => e \in todo \/ (e # Object /\ ~Copied(Parent[e]))
        /\ CopyIsKept(e) /\ CopyIsExact(e) /\ e \in Entries
    BY <1>1, <1>2 DEF IInv, MoveInv, CopyInv
  <2>4. ASSUME inode[e] = "own", ~Copied(e)'
        PROVE  e \in todo' \/ (e # Object /\ ~Copied(Parent[e])')
    <3>1. e # t /\ ~Copied(e)
      BY <2>1, <2>2, <2>3, <2>4
    <3>2. CASE e \in todo
      BY <1>1, <2>0, <3>1, <3>2
    <3>3. CASE e # Object /\ ~Copied(Parent[e])
      <4>1. Parent[e] \in Entries /\ Parent[e] \in Dirs
        BY <1>2, <2>3, <3>3, AboveStep DEF Tree
      <4>2. Parent[e] # t
        BY <4>1 DEF Files
      <4> QED BY <2>2, <3>3, <4>1, <4>2
    <3> QED BY <2>3, <2>4, <3>1, <3>2, <3>3
  <2>5. CopyIsKept(e)'
    <3>1. CASE e = t
      <4>1. e \in Kids(Parent[t])
        BY <1>3, <2>0, <3>1 DEF Kids
      <4>2. e \in named'[Run] /\ e \in synced'[Run] /\ e \notin Dirs
        BY <1>2, <1>4, <1>6, <1>7, <2>0, <2>1, <3>1, <4>1 DEF Files
      <4> QED BY <1>12, <4>2 DEF CopyIsKept
    <3>2. CASE e # t
      <4>1. (Copied(e)' <=> Copied(e)) /\ dst'[Run][e] = dst[Run][e]
        BY <2>2, <2>3, <3>2
      <4>2. named[Run] \subseteq named'[Run] /\ synced[Run] \subseteq synced'[Run]
        BY <1>2, <1>6, <1>7
      <4> QED BY <1>1, <1>12, <2>0, <2>3, <3>2, <4>1, <4>2 DEF CopyIsKept
    <3> QED BY <3>1, <3>2
  <2>6. CopyIsExact(e)'
    <3>1. CASE e = t
      BY <1>1, <1>12, <2>0, <2>1, <3>1 DEF CopyIsExact, Still
    <3>2. CASE e # t
      <4>1. (Copied(e)' <=> Copied(e)) /\ dst'[Run][e] = dst[Run][e]
        BY <2>2, <2>3, <3>2
      <4> QED BY <1>1, <1>12, <2>0, <2>3, <3>2, <4>1 DEF CopyIsExact, Still
    <3> QED BY <3>1, <3>2
  <2> QED BY <2>4, <2>5, <2>6
<1>15. CheckedInv' /\ RemoveInv' /\ GuardInv'
  BY <1>1 DEF CheckedInv, Matched, RemoveInv, Raced, GuardInv
<1> QED BY <1>11, <1>13, <1>14, <1>15 DEF IInv, MoveInv

LEMMA FinishGood == ASSUME IInv, NEW d \in Entries, FinishDirectory(d) PROVE MoveInv'
<1>1. /\ pc = "copy" /\ pc' = "copy" /\ Still /\ target = Root /\ d \in finish
      /\ todo \cap Tree(d) = {}
      /\ captures' = captures /\ idx' = idx /\ result' = result /\ outcomes' = outcomes
      /\ digests' = digests /\ gone' = gone /\ strangers' = strangers
      /\ todo' = todo /\ finish' = finish \ {d} /\ target' = Root
      /\ dst' = dst /\ synced' = synced /\ SyncDir(d, dst[Run])
  BY DEF FinishDirectory, At, tree, history, Still
<1>2. /\ Busy /\ Object \in Objects /\ Object \in Entries /\ Tree(Object) \subseteq Entries /\ Run \in 1..Run
      /\ finish \subseteq Dirs
      /\ todo \subseteq Tree(Object) /\ finish \subseteq Tree(Object)
  BY <1>1, CopyIs
<1>3. /\ named' \in Seq(SUBSET Entries) /\ Len(named') = Run
      /\ \A r \in 1..Run : named[r] \subseteq named'[r]
      /\ \A e \in Kids(d) : dst[Run][e] # Absent => e \in named'[Run]
  BY <1>1, <1>2, SyncDirIs DEF IInv, MoveInv
<1>4. MoreDurable
  BY <1>1, <1>3, SameDurable DEF MoreDurable, IInv, MoveInv
<1>5. dst' \in Seq([Entries -> Copies]) /\ Len(dst') = Run
  BY <1>1 DEF IInv, MoveInv, RunTypes
<1>6. todo' \subseteq Entries /\ finish' \subseteq Dirs /\ target' \in Files \cup {Root}
  BY <1>1, <1>2
<1>7. /\ Types' /\ RunTypes' /\ PlanInv' /\ OwnInv' /\ UntouchedInv'
      /\ GoneIsDurable' /\ LossNeedsRace' /\ OnlyMeasuredRemoved'
  BY <1>1, <1>4, <1>5, <1>6, CopyStep
<1>8. Object' = Object /\ Measured' = Measured /\ Run' = Run /\ Tree(Object)' = Tree(Object)
  BY <1>1, SameObject
<1>9. WalkInv'
  <2>1. \A e \in todo : e # Object => Parent[e] \in finish \ {d}
    <3> SUFFICES ASSUME NEW e \in todo, e # Object PROVE Parent[e] \in finish /\ Parent[e] # d
      OBVIOUS
    <3>1. Parent[e] \in finish /\ e \in Entries
      BY <1>1, <1>2 DEF IInv, MoveInv, WalkInv
    <3>2. Parent[e] \in Entries /\ Parent[e] # Root
      BY <1>2, <3>1, QuarantineAssumption
    <3>3. <<Parent[e], e>> \in Above
      BY <3>1, <3>2, AboveStep
    <3> QED BY <1>1, <3>1, <3>3 DEF Tree
  <2> QED BY <1>1, <1>2, <1>8, <2>1 DEF WalkInv
<1>10. CopyInv'
  <2>1. \A x : Copied(x)' <=> Copied(x)
    BY <1>1, <1>8 DEF Copied
  <2> SUFFICES ASSUME NEW e \in Tree(Object)
               PROVE  /\ inode[e] = "own" /\ ~Copied(e)
                            => e \in todo \/ (e # Object /\ ~Copied(Parent[e]))
                      /\ CopyIsKept(e)' /\ CopyIsExact(e)'
    BY <1>1, <1>8, <2>1 DEF CopyInv, Still
  <2>2. /\ inode[e] = "own" /\ ~Copied(e)
                            => e \in todo \/ (e # Object /\ ~Copied(Parent[e]))
        /\ CopyIsKept(e) /\ CopyIsExact(e) /\ e \in Entries
    BY <1>1, <1>2 DEF IInv, MoveInv, CopyInv
  <2>3. CopyIsKept(e)'
    <3>1. named[Run] \subseteq named'[Run]
      BY <1>2, <1>3
    <3>2. Copied(e) /\ Parent[e] = d => e \in named'[Run]
      BY <1>3, <2>2 DEF Copied, Kids
    <3> QED BY <1>1, <1>8, <2>1, <2>2, <3>1, <3>2 DEF CopyIsKept
  <2>4. CopyIsExact(e)'
    BY <1>1, <1>8, <2>1, <2>2 DEF CopyIsExact, Still
  <2> QED BY <2>2, <2>3, <2>4
<1>11. CheckedInv' /\ RemoveInv' /\ GuardInv'
  BY <1>1 DEF CheckedInv, Matched, RemoveInv, Raced, GuardInv
<1> QED BY <1>7, <1>9, <1>10, <1>11 DEF IInv, MoveInv

LEMMA SyncGood == ASSUME IInv, SyncDestination PROVE MoveInv'
<1>1. /\ pc = "sync" /\ pc' = "remove" /\ Still
      /\ captures' = captures /\ idx' = idx /\ result' = result /\ outcomes' = outcomes
      /\ digests' = digests /\ gone' = gone /\ strangers' = strangers
      /\ todo' = {Object} /\ finish' = finish /\ target' = target
      /\ dst' = dst /\ synced' = synced /\ SyncDir(Root, dst[Run])
  BY DEF SyncDestination, At, tree, history, Still
<1>2. /\ Busy /\ Object \in Objects /\ Object \in Entries /\ Parent[Object] = Root
      /\ Object \in Tree(Object)
  BY <1>1, ObjectIs DEF IInv, MoveInv, Busy
<1>3. Run \in 1..Run /\ finish = {} /\ target = Root
  BY <1>1, <1>2, RunIs DEF IInv, MoveInv, WalkInv
<1>4. /\ named' \in Seq(SUBSET Entries) /\ Len(named') = Run
      /\ \A r \in 1..Run : named[r] \subseteq named'[r]
      /\ \A e \in Kids(Root) : dst[Run][e] # Absent => e \in named'[Run]
  BY <1>1, <1>2, SyncDirIs DEF IInv, MoveInv
<1>5. MoreDurable
  BY <1>1, <1>4, SameDurable DEF MoreDurable, IInv, MoveInv
<1>6. dst' \in Seq([Entries -> Copies]) /\ Len(dst') = Run
  BY <1>1 DEF IInv, MoveInv, RunTypes
<1>7. todo' \subseteq Entries /\ finish' \subseteq Dirs /\ target' \in Files \cup {Root}
  BY <1>1, <1>2, <1>3
<1>8. /\ Types' /\ RunTypes' /\ PlanInv' /\ OwnInv' /\ UntouchedInv'
      /\ GoneIsDurable' /\ LossNeedsRace' /\ OnlyMeasuredRemoved'
  BY <1>1, <1>5, <1>6, <1>7, CopyStep
<1>9. Object' = Object /\ Measured' = Measured /\ Run' = Run /\ Tree(Object)' = Tree(Object)
  BY <1>1, SameObject
<1>10. WalkInv' /\ CopyInv' /\ CheckedInv' /\ GuardInv'
  BY <1>1, <1>2, <1>3, <1>9 DEF WalkInv, CopyInv, CheckedInv, Matched, GuardInv
<1>11. \A e \in Tree(Object) : inode[e] = "own" => e \in named'[Run] /\ Copied(e) /\ CopyIsKept(e)
  <2> SUFFICES ASSUME NEW e \in Tree(Object), inode[e] = "own"
               PROVE  e \in named'[Run] /\ Copied(e) /\ CopyIsKept(e)
    OBVIOUS
  <2>1. Copied(e) /\ CopyIsKept(e)
    BY <1>1 DEF IInv, MoveInv, CheckedInv, Matched
  <2>2. CASE e = Object
    BY <1>2, <1>4, <2>1, <2>2 DEF Copied, Kids
  <2>3. CASE e # Object
    <3>1. e \in named[Run]
      BY <1>3, <2>1, <2>3 DEF CopyIsKept
    <3> QED BY <1>3, <1>4, <2>1, <3>1
  <2> QED BY <2>2, <2>3
<1>12. ASSUME NEW e \in Tree(Object), inode[e] = "own" PROVE Kept(Run, e)'
  <2>1. e \in Entries /\ <<Object, e>> \in Above
    BY DEF Tree
  <2>2. \A a \in Entries : <<a, e>> \in Above => a \in named'[Run]
    <3> SUFFICES ASSUME NEW a \in Entries, <<a, e>> \in Above PROVE a \in named'[Run]
      OBVIOUS
    <3>1. inode[a] = "own"
      BY <1>12, <2>1 DEF IInv, MoveInv, OwnInv
    <3>2. <<Object, a>> \in Above
      BY <1>2, <2>1, ObjectAbove
    <3> QED BY <1>11, <3>1, <3>2 DEF Tree
  <2>3. Copied(e) /\ CopyIsKept(e)
    BY <1>11, <1>12
  <2>4. e \in Files => e \in synced[Run]
    BY <1>3, <2>1, <2>3, QuarantineAssumption DEF CopyIsKept
  <2>5. dst[Run][e] \notin {Absent, Torn}
    <3>1. e \in Files => dst[Run][e] # Torn
      BY <1>1, <2>3 DEF IInv, MoveInv, CheckedInv, Matched
    <3>2. e \in Dirs => dst[Run][e] # Torn
      BY <2>3 DEF CopyIsKept
    <3> QED BY <2>1, <2>3, <3>1, <3>2 DEF Copied, Files
  <2> QED BY <1>1, <1>9, <2>2, <2>4, <2>5 DEF Kept, Durable, Reaches
<1>13. RemoveInv'
  <2>1. \A e \in Tree(Object) : inode[e] = "own" /\ e \in Files /\ e \notin Raced => dst[Run][e] = content[e]
    BY <1>1, <1>11 DEF IInv, MoveInv, CheckedInv
  <2>2. \A e \in Tree(Object) : inode[e] = "own" => Kept(Run, e)'
    BY <1>12
  <2>3. Raced' = Raced /\ inode' = inode /\ content' = content
    BY <1>1 DEF Still, Raced
  <2> QED BY <1>1, <1>9, <2>1, <2>2, <2>3 DEF RemoveInv, Kept, Durable, Reaches
<1> QED BY <1>8, <1>10, <1>13 DEF IInv, MoveInv

-----------------------------------------------------------------------------
(* The removal *)

\* What a step of the removal relies on.
LEMMA RemoveIs ==
    ASSUME IInv, pc = "remove"
    PROVE  /\ Busy /\ idx \in DOMAIN captures /\ Object \in Objects /\ Object \in Entries
           /\ Parent[Object] = Root /\ Tree(Object) \subseteq Entries
           /\ todo \subseteq Tree(Object) /\ finish \subseteq Tree(Object)
           /\ finish \subseteq Dirs /\ target \in Files \cup {Root}
           /\ Run \in 1..Run
           /\ \A x \in todo : x # Object => Parent[x] \in finish
<1>1. Busy /\ pc # "idle"
  BY DEF Busy
<1>2. Types /\ RunTypes /\ PlanInv /\ WalkInv
  BY DEF IInv, MoveInv
<1>3. /\ idx \in DOMAIN captures /\ Object \in Objects /\ Object \in Entries
      /\ Parent[Object] = Root /\ Tree(Object) \subseteq Entries
  BY <1>1, <1>2, ObjectIs DEF Tree
<1>4. /\ finish \subseteq Dirs /\ target \in Files \cup {Root}
  BY <1>2 DEF Types
<1>5. /\ todo \subseteq Tree(Object) /\ finish \subseteq Tree(Object)
      /\ \A x \in todo : x # Object => Parent[x] \in finish
  BY <1>2 DEF WalkInv
<1>6. Run \in 1..Run
  <2>1. Run \in Nat \ {0}
    BY <1>1, <1>2, RunIs
  <2> QED BY <2>1
<1> QED BY <1>1, <1>3, <1>4, <1>5, <1>6

\* An entry found to be the user's on the way down cannot be replaced.
LEMMA VisitedIsGuarded ==
    ASSUME IInv, pc = "remove", NEW e \in todo, inode[e] = "own"
    PROVE  Guarded(e)
<1>1. /\ Parent[Object] = Root /\ e \in Entries
      /\ e # Object => Parent[e] \in finish
  BY RemoveIs
<1>2. shared \subseteq Entries /\ Root \notin Entries
  BY QuarantineAssumption DEF IInv, MoveInv, Types
<1>3. CASE e = Object
  BY <1>1, <1>2, <1>3 DEF Guarded
<1>4. CASE e # Object
  <2>1. Parent[e] \notin shared
    BY <1>1, <1>4 DEF IInv, MoveInv, GuardInv
  <2> QED BY <2>1 DEF Guarded
<1> QED BY <1>3, <1>4

LEMMA VisitDirectoryGood == ASSUME IInv, NEW d \in Entries, VisitDirectory(d) PROVE MoveInv'
<1>1. /\ pc = "remove" /\ pc' = "remove" /\ target = Root /\ d \in todo /\ d \in Dirs
      /\ inode[d] = "own" /\ shared' = shared \ {d}
      /\ stamp' = [stamp EXCEPT ![Object] = @ + 1] /\ active' = active \cup {Object}
      /\ captures' = captures /\ idx' = idx /\ result' = result /\ outcomes' = outcomes
      /\ inode' = inode /\ content' = content /\ opened' = opened /\ changes' = changes
      /\ lost' = lost /\ Raced' = Raced /\ RunsLeft
      /\ todo' = (todo \ {d}) \cup {x \in Kids(d) : Present(x)} /\ finish' = finish \cup {d}
      /\ target' = Root
  BY DEF VisitDirectory, IsMeasured, CloseToOthers, Touch, At, copyVars, history, RunsLeft, Raced
<1>2. /\ Busy /\ Object \in Objects /\ Object \in Entries /\ Tree(Object) \subseteq Entries
      /\ d \in Tree(Object) /\ <<Object, d>> \in Above /\ finish \subseteq Dirs
      /\ todo \subseteq Tree(Object) /\ finish \subseteq Tree(Object)
      /\ \A x \in todo : x # Object => Parent[x] \in finish
  BY <1>1, RemoveIs DEF Tree
<1>3. \A k \in Kids(d) : k \in Entries /\ Parent[k] = d /\ k # Object /\ <<Object, k>> \in Above
  BY <1>2, KidIs
<1>4. todo' \subseteq Tree(Object) /\ finish' \subseteq Tree(Object) /\ finish' \subseteq Dirs
  BY <1>1, <1>2, <1>3 DEF Tree
<1>5. \A o \in Objects : stamp[o] \in Nat /\ stamp'[o] \in Nat /\ stamp'[o] >= stamp[o]
  <2>1. \A o \in Objects : stamp[o] \in Nat /\ stamp'[o] = IF o = Object THEN stamp[o] + 1 ELSE stamp[o]
    BY <1>1, <1>2 DEF IInv, MoveInv, Types
  <2> QED BY <2>1
<1>6. Types'
  <2>1. stamp' \in [Objects -> Nat] /\ active' \subseteq Objects /\ shared' \subseteq Dirs
    BY <1>1, <1>2 DEF IInv, MoveInv, Types
  <2>2. todo' \subseteq Entries /\ finish' \subseteq Dirs
    BY <1>2, <1>4
  <2> QED BY <1>1, <2>1, <2>2 DEF IInv, MoveInv, Types
<1>7. PlanInv'
  <2>1. \A i \in DOMAIN captures : captures[i].path \in Objects /\ captures[i].measurement.newest \in Nat
    BY CaptureIs DEF IInv, MoveInv
  <2>2. \A i \in DOMAIN captures : stamp'[captures[i].path] >= captures[i].measurement.newest
    BY <2>1, <1>5 DEF IInv, MoveInv, PlanInv
  <2> QED BY <1>1, <2>2 DEF IInv, MoveInv, PlanInv
<1>8. RunTypes' /\ GoneIsDurable' /\ OnlyMeasuredRemoved'
  BY <1>1, <1>2, KeepGone, KeepRuns DEF IInv, MoveInv
<1>9. OwnInv' /\ LossNeedsRace'
  BY <1>1 DEF IInv, MoveInv, OwnInv, LossNeedsRace
<1>10. UntouchedInv'
  BY <1>1, <1>2, KeepUntouched DEF IInv, MoveInv, Busy
<1>11. Object' = Object /\ Run' = Run /\ Tree(Object)' = Tree(Object)
  BY <1>1, SameObject DEF RunsLeft
<1>12. WalkInv'
  <2>1. \A e \in todo' : e # Object => Parent[e] \in finish'
    BY <1>1, <1>2, <1>3
  <2> QED BY <1>1, <1>4, <1>11, <2>1 DEF WalkInv
<1>13. CopyInv' /\ CheckedInv'
  BY <1>1 DEF CopyInv, CheckedInv, Matched
<1>14. RemoveInv'
  BY <1>1, <1>11 DEF IInv, MoveInv, RemoveInv, Kept, Durable, Reaches, RunsLeft
<1>15. GuardInv'
  <2>1. Guarded(d)
    BY <1>1, VisitedIsGuarded
  <2>2. \A x \in finish : x \notin shared /\ Guarded(x)
    BY <1>1 DEF IInv, MoveInv, GuardInv
  <2>3. \A x \in finish' : x \notin shared' /\ Guarded(x)
    BY <1>1, <2>1, <2>2
  <2>4. \A x \in finish' : Guarded(x)'
    BY <1>1, <2>3 DEF Guarded
  <2> QED BY <1>1, <2>3, <2>4 DEF GuardInv
<1> QED BY <1>6, <1>7, <1>8, <1>9, <1>10, <1>12, <1>13, <1>14, <1>15 DEF IInv, MoveInv

LEMMA VisitFileGood == ASSUME IInv, NEW f \in Entries, VisitFile(f) PROVE MoveInv'
<1>1. /\ pc = "remove" /\ pc' = "remove" /\ target = Root /\ f \in todo /\ f \in Files
      /\ inode[f] = "own" /\ Still /\ RunsLeft
      /\ captures' = captures /\ idx' = idx /\ result' = result /\ outcomes' = outcomes
      /\ todo' = todo /\ finish' = finish /\ target' = f
  BY DEF VisitFile, IsMeasured, At, tree, copyVars, history, Still, RunsLeft
<1>2. Busy /\ Busy' /\ pc' \in Steps
  BY <1>1 DEF Busy, Steps, Moving
<1>3. todo' \subseteq Entries /\ finish' \subseteq Dirs /\ target' \in Files \cup {Root}
  BY <1>1 DEF IInv, MoveInv, Types
<1>4. /\ Types' /\ RunTypes' /\ PlanInv' /\ OwnInv'
      /\ GoneIsDurable' /\ LossNeedsRace' /\ OnlyMeasuredRemoved'
  BY <1>1, <1>2, <1>3, StepKeeps
<1>5. UntouchedInv'
  BY <1>1, <1>2, KeepUntouched DEF IInv, MoveInv
<1>6. Object' = Object /\ Run' = Run /\ Tree(Object)' = Tree(Object)
  BY <1>1, SameObject DEF RunsLeft
<1>7. WalkInv' /\ CopyInv' /\ CheckedInv'
  BY <1>1, <1>6 DEF IInv, MoveInv, WalkInv, CopyInv, CheckedInv, Matched
<1>8. RemoveInv'
  BY <1>1, <1>6 DEF IInv, MoveInv, RemoveInv, Raced, Kept, Durable, Reaches, RunsLeft, Still
<1>9. GuardInv'
  <2>1. Guarded(f)
    BY <1>1, VisitedIsGuarded
  <2>2. \A x : Guarded(x)' <=> Guarded(x)
    BY <1>1 DEF Guarded, Still
  <2> QED BY <1>1, <2>1, <2>2 DEF IInv, MoveInv, GuardInv, Still
<1> QED BY <1>4, <1>5, <1>7, <1>8, <1>9 DEF IInv, MoveInv

\* What is unlinked was measured, and its copy is durable.
LEMMA UnlinkGood ==
    ASSUME IInv, pc = "remove", pc' = "remove", NEW e \in Tree(Object),
           Present(e), Guarded(e), Unlink(e),
           \A x \in Entries : x # e /\ <<e, x>> \in Above => inode[x] # "own",
           captures' = captures, idx' = idx, result' = result, outcomes' = outcomes,
           digests' = digests, dst' = dst, named' = named, synced' = synced,
           todo' \subseteq todo, finish' \subseteq finish, e \notin finish', target' = Root,
           \A x \in todo' : x # Object => Parent[x] \in finish',
           lost' = lost \/ (e \in Files /\ dst[Run][e] # content[e] /\ lost' = lost \cup {e})
    PROVE  MoveInv'
<1>1. /\ Busy /\ idx \in DOMAIN captures /\ Object \in Objects /\ Object \in Entries
      /\ Tree(Object) \subseteq Entries /\ Run \in 1..Run
      /\ todo \subseteq Tree(Object) /\ finish \subseteq Tree(Object)
      /\ finish \subseteq Dirs /\ e \in Entries /\ <<Object, e>> \in Above
  BY RemoveIs DEF Tree
<1>2. inode[e] = "own"
  BY <1>1 DEF IInv, MoveInv, Types, Guarded, Present
<1>3. /\ inode' = [inode EXCEPT ![e] = "none"] /\ opened' \subseteq opened
      /\ gone' = [gone EXCEPT ![e] = Run] /\ strangers' = strangers
      /\ content' = content /\ stamp' = stamp /\ active' = active /\ shared' = shared
      /\ changes' = changes /\ Raced' = Raced
  BY <1>2 DEF Unlink, Forget, Raced
<1>4. /\ \A x \in Entries : inode'[x] = IF x = e THEN "none" ELSE inode[x]
      /\ \A x \in Entries : gone'[x] = IF x = e THEN Run ELSE gone[x]
  BY <1>1, <1>3 DEF IInv, MoveInv, Types, RunTypes
<1>5. Kept(Run, e) /\ (e \in Files /\ e \notin Raced => dst[Run][e] = content[e])
  BY <1>2 DEF IInv, MoveInv, RemoveInv
<1>6. Object' = Object /\ Run' = Run /\ Tree(Object)' = Tree(Object)
  BY SameObject
<1>7. Types'
  <2>1. inode' \in [Entries -> {"none", "own", "other"}] /\ opened' \subseteq Processes \X Files
    BY <1>1, <1>3 DEF IInv, MoveInv, Types
  <2>2. todo' \subseteq Entries /\ finish' \subseteq Dirs /\ target' \in Files \cup {Root}
    BY <1>1
  <2> QED BY <1>3, <2>1, <2>2 DEF IInv, MoveInv, Types
<1>8. RunTypes'
  <2>1. gone' \in [Entries -> 0..Run]
    <3>1. gone \in [Entries -> 0..Run] /\ Run \in 0..Run
      BY <1>1 DEF IInv, MoveInv, RunTypes
    <3> QED BY <1>1, <1>3, <3>1
  <2> QED BY <1>1, <1>6, <2>1 DEF IInv, MoveInv, RunTypes, Busy
<1>9. PlanInv'
  BY <1>3 DEF IInv, MoveInv, PlanInv
<1>10. OwnInv'
  <2> SUFFICES ASSUME NEW a \in Entries, NEW x \in Entries, inode'[x] = "own", <<a, x>> \in Above
               PROVE  inode'[a] = "own"
    BY DEF OwnInv
  <2>1. x # e /\ inode[x] = "own"
    BY <1>4
  <2>2. inode[a] = "own" /\ a # e
    BY <2>1 DEF IInv, MoveInv, OwnInv
  <2> QED BY <1>4, <2>2
<1>11. UntouchedInv'
  <2>1. ASSUME NEW i \in DOMAIN captures, i > idx PROVE <<captures[i].path, e>> \notin Above
    <3>1. captures[i].path \in Objects
      BY CaptureIs DEF IInv, MoveInv
    <3>2. i # idx
      BY <2>1 DEF IInv, MoveInv, Types
    <3>3. captures[i].path # captures[idx].path
      BY <1>1, <3>2 DEF IInv, MoveInv, PlanInv
    <3> QED BY <1>1, <3>1, <3>3, OneObject DEF Object
  <2> SUFFICES ASSUME NEW i \in DOMAIN captures, NEW x \in Entries, <<captures[i].path, x>> \in Above, i > idx
               PROVE  dst[Run][x] = Absent /\ gone'[x] # Run
    BY <1>6 DEF UntouchedInv
  <2>2. dst[Run][x] = Absent /\ gone[x] # Run
    BY <1>1 DEF IInv, MoveInv, UntouchedInv
  <2>3. x # e
    BY <2>1
  <2> QED BY <1>4, <2>2, <2>3
<1>12. WalkInv'
  BY <1>1, <1>6 DEF WalkInv
<1>13. CopyInv' /\ CheckedInv'
  BY DEF CopyInv, CheckedInv, Matched
<1>14. \A r, x : Kept(r, x)' <=> Kept(r, x)
  BY DEF Kept, Durable, Reaches
<1>15. RemoveInv'
  <2>1. \A x \in Tree(Object) : inode'[x] = "own" => inode[x] = "own"
    BY <1>1, <1>4
  <2> QED BY <1>3, <1>6, <1>14, <2>1 DEF IInv, MoveInv, RemoveInv
<1>16. GuardInv'
  <2>1. \A x \in finish' : x \notin shared /\ Guarded(x) /\ inode'[x] = inode[x]
    BY <1>1, <1>4 DEF IInv, MoveInv, GuardInv
  <2> QED BY <1>3, <2>1 DEF GuardInv, Guarded
<1>17. GoneIsDurable'
  BY <1>4, <1>5, <1>14 DEF IInv, MoveInv, GoneIsDurable
<1>18. LossNeedsRace' /\ OnlyMeasuredRemoved'
  BY <1>3, <1>5 DEF IInv, MoveInv, LossNeedsRace, OnlyMeasuredRemoved
<1> QED BY <1>7, <1>8, <1>9, <1>10, <1>11, <1>12, <1>13, <1>15, <1>16, <1>17, <1>18 DEF IInv, MoveInv

LEMMA UnlinkFileGood == ASSUME IInv, UnlinkFile PROVE MoveInv'
<1>1. PICK f : f = target
  OBVIOUS
<1>2. /\ pc = "remove" /\ pc' = "remove" /\ f # Root /\ Present(f) /\ Unlink(f)
      /\ lost' = lost \/ (dst[Run][f] # content[f] /\ lost' = lost \cup {f})
      /\ todo' = todo \ {f} /\ target' = Root /\ finish' = finish
      /\ captures' = captures /\ idx' = idx /\ result' = result /\ outcomes' = outcomes
      /\ digests' = digests /\ dst' = dst /\ named' = named /\ synced' = synced
  BY <1>1 DEF UnlinkFile, At, copyVars
<1>3. /\ f \in Files /\ f \in Tree(Object) /\ finish \subseteq Dirs
      /\ \A x \in todo : x # Object => Parent[x] \in finish
  BY <1>1, <1>2, RemoveIs DEF IInv, MoveInv, WalkInv
<1>4. Guarded(f)
  BY <1>1, <1>2 DEF IInv, MoveInv, GuardInv
<1>5. \A x \in Entries : x # f /\ <<f, x>> \in Above => inode[x] # "own"
  BY <1>3, FileIsLeaf
<1>6. f \notin finish
  BY <1>3 DEF Files
<1> QED BY <1>2, <1>3, <1>4, <1>5, <1>6, UnlinkGood

LEMMA RemoveDirectoryGood == ASSUME IInv, NEW d \in Entries, RemoveDirectory(d) PROVE MoveInv'
<1>1. /\ pc = "remove" /\ pc' = "remove" /\ target = Root /\ Present(d) /\ Unlink(d)
      /\ d \in finish /\ todo \cap Tree(d) = {} /\ \A k \in Kids(d) : ~Present(k)
      /\ lost' = lost
      /\ todo' = todo /\ target' = Root /\ finish' = finish \ {d}
      /\ captures' = captures /\ idx' = idx /\ result' = result /\ outcomes' = outcomes
      /\ digests' = digests /\ dst' = dst /\ named' = named /\ synced' = synced
  BY DEF RemoveDirectory, At, copyVars
<1>2. /\ d \in Tree(Object) /\ todo \subseteq Entries
      /\ \A x \in todo : x # Object => Parent[x] \in finish
  BY <1>1, RemoveIs
<1>3. Guarded(d)
  BY <1>1 DEF IInv, MoveInv, GuardInv
<1>4. ASSUME NEW x \in Entries, x # d, <<d, x>> \in Above, inode[x] = "own" PROVE FALSE
  <2>1. PICK k \in Kids(d) : <<k, x>> \in Above
    BY <1>4, Descend
  <2>2. k \in Entries
    BY DEF Kids
  <2>3. inode[k] = "own"
    BY <1>4, <2>1, <2>2 DEF IInv, MoveInv, OwnInv
  <2> QED BY <1>1, <2>3 DEF Present
<1>5. \A x \in todo : x # Object => Parent[x] \in finish \ {d}
  <2> SUFFICES ASSUME NEW x \in todo, Parent[x] = d PROVE FALSE
    BY <1>2
  <2>1. x \in Entries /\ Parent[x] # Root
    BY <1>2, QuarantineAssumption
  <2>2. <<d, x>> \in Above
    BY <2>1, AboveStep
  <2> QED BY <1>1, <2>1, <2>2 DEF Tree
<1> QED BY <1>1, <1>2, <1>3, <1>4, <1>5, UnlinkGood

-----------------------------------------------------------------------------
(* The steps together *)

LEMMA OthersGood == ASSUME IInv, Others PROVE MoveInv'
BY OpenGood, WriteGood, CloseGood, ReplaceGood, IdleGood DEF Others

LEMMA WorkerGood == ASSUME IInv, Worker PROVE MoveInv'
BY CheckGood, ReserveGood, FailGood, MovedGood, StopGood, DiffersGood, PrepareGood, EnterGood,
   BeginGood, EndFileGood, FinishGood, EndCopyGood, VerifyGood, EndVerifyGood, RecheckGood,
   SyncGood, VisitDirectoryGood, VisitFileGood, UnlinkFileGood, RemoveDirectoryGood
   DEF Worker

LEMMA StutterGood == ASSUME IInv, UNCHANGED vars PROVE MoveInv'
<1> USE DEF vars, tree, walk, copyVars, history
<1>1. Types' /\ RunTypes' /\ PlanInv' /\ OwnInv'
  BY DEF IInv, MoveInv, Types, RunTypes, PlanInv, OwnInv, Run, Busy
<1>2. UntouchedInv' /\ WalkInv' /\ GuardInv'
  BY DEF IInv, MoveInv, UntouchedInv, WalkInv, GuardInv, Guarded, Busy, Run, Object, Tree
<1>3. CopyInv' /\ CheckedInv'
  <2>1. /\ Object' = Object /\ Measured' = Measured /\ Run' = Run /\ Tree(Object)' = Tree(Object)
        /\ \A e : (Copied(e)' <=> Copied(e)) /\ (CopyIsKept(e)' <=> CopyIsKept(e))
                       /\ (CopyIsExact(e)' <=> CopyIsExact(e))
    BY DEF Object, Measured, Run, Tree, Copied, CopyIsKept, CopyIsExact
  <2>2. CopyInv'
    BY <2>1 DEF IInv, MoveInv, CopyInv
  <2>3. (Matched' <=> Matched) /\ Raced' = Raced
    BY DEF Matched, Raced
  <2>4. CheckedInv'
    BY <2>1, <2>3 DEF IInv, MoveInv, CheckedInv
  <2> QED BY <2>2, <2>4
<1>4. RemoveInv' /\ GoneIsDurable' /\ LossNeedsRace' /\ OnlyMeasuredRemoved'
  BY DEF IInv, MoveInv, RemoveInv, Raced, GoneIsDurable, LossNeedsRace, OnlyMeasuredRemoved, Kept, Durable,
         Reaches, Run, Object, Tree
<1> QED BY <1>1, <1>2, <1>3, <1>4 DEF IInv, MoveInv

LEMMA MoveGood == ASSUME IInv, [Next]_vars PROVE MoveInv'
<1>1. CASE Next
  BY <1>1, MeasureGood, ScanGood, StartGood, DismissGood, ConfirmGood, RevalidateGood,
     CaptureGood, ExecuteGood, WorkerGood, CrashGood, OthersGood DEF Next
<1>2. CASE UNCHANGED vars
  BY <1>2, StutterGood
<1> QED BY <1>1, <1>2

-----------------------------------------------------------------------------
(* What an inspection knows *)

\* What a step of the worker does to the inspection: it ends it, leaves none
\* behind, or fails in the middle of it.
LEMMA WorkerInspects ==
    ASSUME IInv, Worker
    PROVE  \/ reading' = {} /\ unscanned' = {}
           \/ /\ pc' = "failed" /\ reading' = reading /\ unscanned' = unscanned
              /\ stamp' = stamp /\ captures' = captures /\ idx' = idx
<1>1. CASE \E stop \in BOOLEAN : CheckObject(stop)
  BY <1>1 DEF CheckObject, Break, Return, Inspected
<1>2. CASE \E written \in BOOLEAN : Reserve(written) \/ Fail(written) \/ Moved(written)
  <2>1. pc \in {"reserve", "remove"} => reading = {} /\ unscanned = {}
    BY DEF IInv, InspectionInv, Inspecting
  <2> QED BY <1>2, <2>1 DEF Reserve, Fail, Moved, Break, Return, Continue, walk, At
<1>3. CASE Stop \/ Differs
  BY <1>3 DEF Stop, Differs, tree, walk
<1>4. CASE Prepare \/ Recheck
  BY <1>4 DEF Prepare, Recheck, Inspected
<1>5. CASE EndCopy \/ EndVerify \/ SyncDestination \/ UnlinkFile \/ \E c \in Stamps \cup {Torn} : EndFile(c)
  <2>1. pc \in {"copy", "verify", "sync", "remove"} => reading = {} /\ unscanned = {}
    BY DEF IInv, InspectionInv, Inspecting
  <2> QED BY <1>5, <2>1 DEF EndCopy, EndVerify, SyncDestination, UnlinkFile, EndFile, Continue, walk, At
<1>6. CASE \E e \in Entries : EnterDirectory(e) \/ BeginFile(e) \/ FinishDirectory(e) \/ VerifyEntry(e)
  <2>1. pc \in {"copy", "verify"} => reading = {} /\ unscanned = {}
    BY DEF IInv, InspectionInv, Inspecting
  <2> QED BY <1>6, <2>1 DEF EnterDirectory, BeginFile, FinishDirectory, VerifyEntry, At
<1>7. CASE \E e \in Entries : VisitDirectory(e) \/ VisitFile(e) \/ RemoveDirectory(e)
  <2>1. pc = "remove" => reading = {} /\ unscanned = {}
    BY DEF IInv, InspectionInv, Inspecting
  <2> QED BY <1>7, <2>1 DEF VisitDirectory, VisitFile, RemoveDirectory, At
<1> QED BY <1>1, <1>2, <1>3, <1>4, <1>5, <1>6, <1>7 DEF Worker

\* Time only moves on.
LEMMA OthersTouch ==
    ASSUME IInv, Others
    PROVE  Left /\ \A o \in Objects : stamp[o] \in Nat /\ stamp'[o] \in Nat /\ stamp'[o] >= stamp[o]
<1>1. \A o \in Objects : stamp[o] \in Nat /\ stamp[o] >= stamp[o] /\ stamp[o] + 1 >= stamp[o]
                         /\ stamp[o] + 1 \in Nat
  BY DEF IInv, MoveInv, Types
<1>2. ASSUME NEW x, Touch(x) PROVE \A o \in Objects : stamp'[o] = stamp[o] \/ stamp'[o] = stamp[o] + 1
  BY <1>2 DEF IInv, MoveInv, Types, Touch
<1>3. Left
  BY EnvironmentLeaves DEF Others
<1>4. stamp' = stamp \/ \E x : Touch(x)
  BY EnvironmentLeaves DEF Others, OpenFile, CloseFile, WriteFile, ReplaceName, Idle
<1> QED BY <1>1, <1>2, <1>3, <1>4

\* Nothing but the time of the object changes while it is inspected.
LEMMA SameInspection ==
    ASSUME IInv, reading' = reading, unscanned' = unscanned, captures' = captures, idx' = idx,
           pc' = pc \/ pc' = "failed",
           \A o \in Objects : stamp'[o] \in Nat /\ stamp'[o] >= stamp[o]
    PROVE  InspectionInv'
<1>1. \A c \in reading : c.path \in Objects /\ c.measurement.newest \in Nat
  BY DEF IInv, InspectionInv, Captures, Fingerprints
<1>2. \A c \in reading : OwnerIsRecorded(c) /\ stamp'[c.path] >= c.measurement.newest
  <2> SUFFICES ASSUME NEW c \in reading
               PROVE  OwnerIsRecorded(c) /\ stamp'[c.path] >= c.measurement.newest
    OBVIOUS
  <2>1. OwnerIsRecorded(c) /\ stamp[c.path] \in Nat /\ stamp[c.path] >= c.measurement.newest
    BY <1>1 DEF IInv, MoveInv, Types, InspectionInv
  <2> QED BY <1>1, <2>1
<1>3. \A c \in reading : OwnerIsRecorded(c)' <=> OwnerIsRecorded(c)
  BY DEF OwnerIsRecorded, Tree
<1> QED BY <1>2, <1>3 DEF IInv, InspectionInv, Inspecting, Object

LEMMA InspectionGood == ASSUME IInv, [Next]_vars PROVE InspectionInv'
<1> USE DEF Inspecting
<1>1. ASSUME reading' = {}, unscanned' = {} PROVE InspectionInv'
  BY <1>1 DEF InspectionInv
<1>2. ASSUME NEW o \in Objects, Measure(o) PROVE InspectionInv'
  <2>0. PICK c : c = [path |-> o, measurement |-> Fingerprint(o)]
    OBVIOUS
  <2>1. /\ pc \in Inspecting /\ pc' = pc /\ captures' = captures /\ idx' = idx /\ stamp' = stamp
        /\ reading' = {c} /\ unscanned' = Processes /\ Selected(o)
    BY <1>2, <2>0 DEF Measure, Inspection, tree
  <2>2. c.path = o /\ c.measurement.newest = stamp[o] /\ stamp[o] \in Nat
    BY <2>0 DEF IInv, MoveInv, Types, Fingerprint
  <2>3. Fingerprint(o) \in Fingerprints
    <3>1. [e \in Tree(o) |-> inode[e]] \in [Tree(o) -> {"none", "own", "other"}]
      BY DEF IInv, MoveInv, Types, Tree
    <3> QED BY <2>2, <3>1 DEF Fingerprint, Fingerprints
  <2>4. c \in Captures
    BY <2>0, <2>3 DEF Captures
  <2>5. stamp'[c.path] >= c.measurement.newest
    BY <2>1, <2>2
  <2>6. OwnerIsRecorded(c)'
    <3>1. PICK found : found = c.measurement.entries
      OBVIOUS
    <3>2. \A e \in Tree(o) : found[e] = inode[e]
      BY <2>0, <3>1 DEF Fingerprint
    <3>3. \A a, e \in Tree(o) : inode[e] = "own" /\ <<a, e>> \in Above => inode[a] = "own"
      BY DEF IInv, MoveInv, OwnInv, Tree
    <3>4. OwnerIsRecorded(c)' <=>
            \A a, e \in Tree(o) : found[e] = "own" /\ <<a, e>> \in Above => found[a] = "own"
      BY <2>2, <3>1 DEF OwnerIsRecorded, Tree
    <3> QED BY <3>2, <3>3, <3>4
  <2>7. pc # "capture" => c.path = Object'
    BY <2>1, <2>2 DEF Selected, Object
  <2>8. pc = "capture" => \A i \in DOMAIN captures : captures[i].path # c.path
    BY <2>1, <2>2 DEF Selected
  <2> QED BY <2>1, <2>4, <2>5, <2>6, <2>7, <2>8 DEF InspectionInv
<1>3. ASSUME NEW p \in Processes, ScanProcess(p) PROVE InspectionInv'
  BY <1>3 DEF ScanProcess, Inspection, tree, IInv, InspectionInv, OwnerIsRecorded, Tree, Object
<1>4. CASE StartPreview \/ Confirm
  <2>1. reading = {} /\ unscanned = {}
    BY <1>4 DEF IInv, InspectionInv, StartPreview, Confirm
  <2> QED BY <1>1, <1>4, <2>1 DEF StartPreview, Confirm, walk
<1>5. CASE Dismiss \/ Revalidate
  BY <1>1, <1>5 DEF Dismiss, Revalidate, Inspected
<1>6. ASSUME NEW last \in BOOLEAN, Capture(last) PROVE InspectionInv'
  BY <1>1, <1>6 DEF Capture
<1>7. ASSUME NEW prepared \in BOOLEAN, Execute(prepared) PROVE InspectionInv'
  BY <1>1, <1>7 DEF Execute, Inspected
<1>8. ASSUME NEW power \in BOOLEAN, Crash(power) PROVE InspectionInv'
  BY <1>1, <1>8 DEF Crash, Return
<1>9. CASE Worker
  <2>1. \A o \in Objects : stamp[o] \in Nat /\ stamp[o] >= stamp[o]
    BY DEF IInv, MoveInv, Types
  <2> QED BY <1>1, <1>9, <2>1, WorkerInspects, SameInspection
<1>10. CASE Others
  BY <1>10, OthersTouch, SameInspection DEF Left
<1>11. CASE UNCHANGED vars
  <2>1. \A o \in Objects : stamp[o] \in Nat /\ stamp[o] >= stamp[o]
    BY DEF IInv, MoveInv, Types
  <2> QED BY <1>11, <2>1, SameInspection DEF vars, tree, walk
<1> QED BY <1>2, <1>3, <1>4, <1>5, <1>6, <1>7, <1>8, <1>9, <1>10, <1>11 DEF Next

\* Nobody opens, and nothing of the inspection changes: a step on.
LEMMA SameHolders ==
    ASSUME IInv, opened' \subseteq opened, late' = late, Object' = Object,
           \/ pc' \notin {"recheck", "sync", "remove"}
           \/ pc' \in {"sync", "remove"} /\ pc \in {"sync", "remove"}
           \/ pc' = "recheck" /\ reading' = {}
           \/ pc' = "recheck" /\ pc' = pc /\ reading' = reading /\ unscanned' = unscanned
    PROVE  HoldersInv'
BY DEF IInv, HoldersInv

LEMMA WorkerHolders == ASSUME IInv, Worker PROVE HoldersInv'
<1>1. CASE \/ \E stop \in BOOLEAN : CheckObject(stop)
           \/ \E written \in BOOLEAN : Reserve(written) \/ Fail(written) \/ Moved(written)
           \/ Stop \/ Prepare \/ Differs \/ EndCopy
  <2>1. pc' \notin {"recheck", "sync", "remove"}
    BY <1>1 DEF CheckObject, Reserve, Fail, Moved, Stop, Prepare, Differs, EndCopy, Continue, Break, Return
  <2> QED BY <2>1 DEF HoldersInv
<1>2. CASE \E e \in Entries : EnterDirectory(e) \/ BeginFile(e) \/ FinishDirectory(e) \/ VerifyEntry(e)
  <2>1. pc' \in {"copy", "verify"}
    BY <1>2 DEF EnterDirectory, BeginFile, FinishDirectory, VerifyEntry, At
  <2> QED BY <2>1 DEF HoldersInv
<1>3. CASE \E c \in Stamps \cup {Torn} : EndFile(c)
  <2>1. pc' = "copy"
    BY <1>3 DEF EndFile, At
  <2> QED BY <2>1 DEF HoldersInv
<1>4. CASE EndVerify
  <2>1. pc' = "recheck" /\ reading' = {}
    BY <1>4 DEF EndVerify, At, Continue, walk, IInv, InspectionInv, Inspecting
  <2> QED BY <2>1 DEF HoldersInv
<1>5. CASE Recheck
  <2>1. /\ pc = "recheck" /\ pc' = "sync" /\ reading # {} /\ unscanned = {}
        /\ opened' = opened /\ late' = late /\ Object' = Object
    BY <1>5 DEF Recheck, Inspected, At, tree, history, Object
  <2> QED BY <2>1 DEF IInv, HoldersInv
<1>6. CASE \/ SyncDestination \/ UnlinkFile
           \/ \E e \in Entries : VisitDirectory(e) \/ VisitFile(e) \/ RemoveDirectory(e)
  <2>1. /\ pc' \in {"sync", "remove"} /\ pc \in {"sync", "remove"}
        /\ opened' \subseteq opened /\ late' = late /\ Object' = Object
    BY <1>6 DEF SyncDestination, UnlinkFile, VisitDirectory, VisitFile, RemoveDirectory, Unlink,
                Forget, At, tree, history, Object
  <2> QED BY <2>1, SameHolders
<1> QED BY <1>1, <1>2, <1>3, <1>4, <1>5, <1>6 DEF Worker

LEMMA OthersHolders == ASSUME IInv, Others PROVE HoldersInv'
<1>1. Left /\ Object' = Object
  BY EnvironmentLeaves DEF Others, Left, Object
<1>2. ASSUME NEW p \in Processes, NEW e \in Files, OpenFile(p, e) PROVE HoldersInv'
  <2>1. /\ opened' = opened \cup {<<p, e>>} /\ late \subseteq late'
        /\ pc \in {"sync", "remove"} /\ <<Object, e>> \in Above => e \in late'
        /\ pc = "recheck" /\ reading # {} /\ p \notin unscanned /\ <<Object, e>> \in Above => e \in late'
    BY <1>2 DEF OpenFile
  <2> QED BY <1>1, <2>1 DEF IInv, HoldersInv, Left
<1>3. ASSUME opened' \subseteq opened, late' = late PROVE HoldersInv'
  BY <1>1, <1>3, SameHolders DEF Left
<1>4. \/ \E p \in Processes, e \in Files : OpenFile(p, e)
      \/ opened' \subseteq opened /\ late' = late
  <2>1. ASSUME NEW p \in Processes, NEW e \in Files, Environment(WriteFile(p, e))
        PROVE  opened' = opened /\ late' = late
    BY <2>1, EnvironmentLeaves DEF WriteFile
  <2>2. ASSUME NEW p \in Processes, NEW e \in Files, Environment(CloseFile(p, e))
        PROVE  opened' \subseteq opened /\ late' = late
    BY <2>2, EnvironmentLeaves DEF CloseFile
  <2>3. ASSUME NEW e \in Entries, NEW new \in {"none", "other"}, Environment(ReplaceName(e, new))
        PROVE  opened' \subseteq opened /\ late' = late
    BY <2>3, EnvironmentLeaves DEF ReplaceName, Forget
  <2>4. ASSUME Environment(Idle) PROVE opened' = opened /\ late' = late
    BY <2>4, EnvironmentLeaves DEF Idle
  <2>5. ASSUME NEW p \in Processes, NEW e \in Files, Environment(OpenFile(p, e)) PROVE OpenFile(p, e)
    BY <2>5, EnvironmentLeaves
  <2> QED BY <2>1, <2>2, <2>3, <2>4, <2>5 DEF Others
<1> QED BY <1>2, <1>3, <1>4

LEMMA HoldersGood == ASSUME IInv, [Next]_vars PROVE HoldersInv'
<1>1. ASSUME NEW o \in Objects, Measure(o) PROVE HoldersInv'
  <2>1. pc \in Inspecting /\ pc' = pc /\ opened' = opened /\ unscanned' = Processes
    BY <1>1 DEF Measure, Inspection, tree
  <2>2. \A h \in opened : h[1] \in Processes
    BY DEF IInv, MoveInv, Types
  <2> QED BY <2>1, <2>2 DEF HoldersInv, Inspecting
<1>2. ASSUME NEW p \in Processes, ScanProcess(p) PROVE HoldersInv'
  <2>1. /\ pc \in Inspecting /\ pc' = pc /\ opened' = opened /\ late' = late /\ Object' = Object
        /\ reading' = reading /\ unscanned' = unscanned \ {p}
        /\ \A c \in reading : p \notin Users(c.path)
    BY <1>2 DEF ScanProcess, Inspection, tree, history, Object
  <2>2. ASSUME pc = "recheck", reading # {}, NEW h \in opened, <<Object, h[2]>> \in Above, h[1] = p
        PROVE  FALSE
    <3>1. PICK c \in reading : c.path = Object
      BY <2>2 DEF IInv, InspectionInv, Inspecting
    <3> QED BY <2>1, <2>2, <3>1 DEF Users
  <2> QED BY <2>1, <2>2 DEF IInv, HoldersInv, Inspecting
<1>3. CASE \/ StartPreview \/ Dismiss \/ Confirm \/ Revalidate
           \/ \E last \in BOOLEAN : Capture(last)
           \/ \E prepared \in BOOLEAN : Execute(prepared)
           \/ \E power \in BOOLEAN : Crash(power)
  <2>1. pc' \notin {"recheck", "sync", "remove"}
    BY <1>3 DEF StartPreview, Dismiss, Confirm, Revalidate, Capture, Execute, Crash, Return
  <2> QED BY <2>1 DEF HoldersInv
<1>4. CASE UNCHANGED vars
  BY <1>4 DEF vars, tree, walk, history, IInv, HoldersInv, Object
<1> QED BY <1>1, <1>2, <1>3, <1>4, WorkerHolders, OthersHolders DEF Next

LEMMA NextGood == ASSUME IInv, [Next]_vars PROVE IInv'
BY MoveGood, InspectionGood, HoldersGood DEF IInv

-----------------------------------------------------------------------------
(* The theorems *)

\* In every state of every behaviour the worker, its copies and its plan are
\* where execute_captures and the walks of quarantine.rs put them, whatever
\* other processes, failures and crashes do in between.
THEOREM Inductive == Spec => []IInv
<1>1. Init => IInv
  BY InitGood
<1>2. IInv /\ [Next]_vars => IInv'
  BY NextGood
<1> QED BY <1>1, <1>2, PTL DEF Spec

LEMMA Implied == IInv => TypeOK /\ GoneIsDurable /\ LossNeedsRace /\ OnlyMeasuredRemoved
<1> SUFFICES ASSUME IInv PROVE TypeOK
  BY DEF IInv, MoveInv
<1>1. \A i \in DOMAIN captures :
          captures[i].path \in Objects /\ captures[i].measurement.newest \in Nat
  BY CaptureIs DEF IInv, MoveInv
<1>2. /\ pc = "idle" => captures = <<>>
      /\ pc \notin {"idle", "capture"} => idx \in DOMAIN captures
  BY DEF IInv, MoveInv, PlanInv
<1>3. DOMAIN dst = 1..Run /\ DOMAIN outcomes = 1..Run
  BY DEF IInv, MoveInv, RunTypes, Run
<1>4. \A r \in 1..Run :
          /\ named[r] \subseteq Entries /\ synced[r] \subseteq Files
          /\ \A e \in Entries : dst[r][e] \in Nat \cup {Absent, Torn}
  BY DEF IInv, MoveInv, RunTypes, Run, Copies
<1>5. gone \in [Entries -> 0..Run]
  BY DEF IInv, MoveInv, RunTypes
<1>6. result.moved \subseteq Objects /\ result.failure \in Objects \cup {"none"}
  BY DEF IInv, MoveInv, Types
<1>7. Cardinality(reading) <= 1 /\ unscanned \subseteq Processes
  <2>1. CASE reading = {}
    BY <2>1, FS_EmptySet DEF IInv, InspectionInv
  <2>2. CASE reading # {}
    <3>1. PICK c \in reading : reading = {c}
      BY <2>2 DEF IInv, InspectionInv
    <3>2. Cardinality({c}) = 1
      BY FS_Singleton
    <3> QED BY <3>1, <3>2 DEF IInv, InspectionInv
  <2> QED BY <2>1, <2>2
<1> QED BY <1>1, <1>2, <1>3, <1>4, <1>5, <1>6, <1>7 DEF IInv, MoveInv, Types, TypeOK

\* Every variable keeps its type: of the worker (its step, plan, walk and
\* target), of the run directories and their records, and of the tree.
THEOREM TypeCorrect == Spec => []TypeOK
<1>1. IInv => TypeOK
  BY Implied
<1> QED BY <1>1, Inductive, PTL

\* Whatever remove_tree_verified_observed has unlinked, in a run that ended,
\* failed, crashed or lost power, is whole and durable in the directory of
\* that run, with every directory above it: sync_parent precedes the removal,
\* and fsync of files and directories precedes sync_parent.
THEOREM RecoverableTheorem == Spec => []GoneIsDurable
<1>1. IInv => GoneIsDurable
  BY Implied
<1> QED BY <1>1, Inductive, PTL

\* unlinkat by name never takes away an inode that was not measured: every
\* directory was closed to others (make_owner_only) before it was listed, and
\* the names of the sticky root cannot be replaced.
THEOREM MeasuredTheorem == Spec => []OnlyMeasuredRemoved
<1>1. IInv => OnlyMeasuredRemoved
  BY Implied
<1> QED BY <1>1, Inductive, PTL

\* Content that is lost is content of a file that a process got hold of after
\* the last scan of /proc had passed that process, or wrote between the last
\* measurement of the tree and that scan: the inspection execute_captures
\* repeats after the copy has these two windows, and no other.
THEOREM RaceTheorem == Spec => []LossNeedsRace
<1>1. IInv => LossNeedsRace
  BY Implied
<1> QED BY <1>1, Inductive, PTL

-----------------------------------------------------------------------------
(* What the records rest on *)

\* LogExplains, one run at a time.
ReservedFirst(r) == \A e \in Entries : gone[e] = r => "reserved" \in Statuses(r, ObjectOf(e))

MeasuredKept(r, i) ==
    \A e \in Tree(digests[r][i].path) :
        digests[r][i].measurement.entries[e] = "own" => Kept(r, e)

MovedWhole(r) ==
    \A i \in DOMAIN digests[r] : "moved" \in Statuses(r, digests[r][i].path) =>
        gone[digests[r][i].path] = r /\ MeasuredKept(r, i)

InOrder(log) ==
    \A i \in DOMAIN log :
        /\ log[i].status = "failed" => i = Len(log)
        /\ log[i].status = "reserved" /\ i < Len(log) => log[i + 1].object = log[i].object
        /\ log[i].status # "reserved" => i > 1 /\ log[i - 1].status = "reserved"

LogParts == \A r \in 1..Run : ReservedFirst(r) /\ MovedWhole(r) /\ InOrder(outcomes[r])

LEMMA LogIs == LogExplains <=> LogParts
BY DEF LogParts, LogExplains, ReservedFirst, MovedWhole, MeasuredKept, InOrder

LEMMA StatusIs ==
    ASSUME NEW r, NEW o, NEW s
    PROVE  s \in Statuses(r, o) <=>
              \E i \in DOMAIN outcomes[r] : outcomes[r][i].object = o /\ outcomes[r][i].status = s
BY DEF Statuses

\* The plans of the runs, and their objects.
LEMMA DigestIs ==
    ASSUME RunTypes, NEW r \in 1..Run, NEW i \in DOMAIN digests[r]
    PROVE  /\ digests[r][i].path \in Objects /\ digests[r][i].path \in Entries
           /\ digests[r][i].path # "none"
           /\ Tree(digests[r][i].path) \subseteq Entries
<1>1. digests \in Seq(Seq(Captures)) /\ r \in DOMAIN digests
  BY DEF RunTypes, Run
<1>2. digests[r] \in Seq(Captures)
  BY <1>1
<1>3. digests[r][i] \in Captures
  BY <1>2
<1>4. digests[r][i].path \in Objects
  BY <1>3 DEF Captures
<1> QED BY <1>4, QuarantineAssumption DEF Objects, Tree

LEMMA PlanIs ==
    ASSUME IInv, LInv, Busy
    PROVE  /\ digests[Run] = captures /\ Run \in 1..Run /\ idx \in DOMAIN captures
           /\ Object \in Objects /\ Object \in Entries
           /\ \A i \in DOMAIN captures : captures[i].path = Object => i = idx
           /\ result.failure = "none"
<1>1. digests[Run] = captures /\ result.failure = "none"
  BY DEF LInv, PlanIsRecorded, ReportInv, Busy
<1>2. idx \in DOMAIN captures /\ Object \in Objects /\ Object \in Entries
  BY ObjectIs DEF IInv, MoveInv, Busy
<1>3. \A i \in DOMAIN captures : captures[i].path = Object => i = idx
  BY <1>2 DEF IInv, MoveInv, PlanInv, Object
<1>4. Run \in 1..Run
  <2>1. Run \in Nat \ {0}
    BY RunIs DEF IInv, MoveInv
  <2> QED BY <2>1
<1> QED BY <1>1, <1>2, <1>3, <1>4

\* The object being moved has no end yet, those after it no record.
LEMMA NoEndYet ==
    ASSUME IInv, LInv, Busy
    PROVE  /\ Statuses(Run, Object) \subseteq {"reserved"}
           /\ \A j \in DOMAIN captures : j > idx => Statuses(Run, captures[j].path) = {}
BY PlanIs DEF LInv, LogInv, Object

\* A run directory only gains, but for copies being written and, when the
\* power is lost, what was not durable.
Grows ==
    /\ digests' = digests
    /\ \A r \in 1..Run :
          /\ named[r] \subseteq named'[r] /\ synced[r] \subseteq synced'[r]
          /\ \A e \in Entries :
                \/ dst'[r][e] = dst[r][e]
                \/ r = Run /\ pc = "copy" /\ e \in Tree(Object)
                \/ pc # "idle" /\ pc' = "idle" /\ ~Durable(r, e)

LEMMA KeptStays ==
    ASSUME Grows, NEW r \in 1..Run, NEW e \in Entries, Kept(r, e),
           ~(r = Run /\ pc = "copy" /\ e \in Tree(Object))
    PROVE  Kept(r, e)'
<1>1. named[r] \subseteq named'[r] /\ synced[r] \subseteq synced'[r] /\ dst'[r][e] = dst[r][e]
  BY DEF Grows, Kept
<1> QED BY <1>1 DEF Kept, Durable, Reaches

LEMMA SameRuns ==
    ASSUME dst' = dst, named' = named, synced' = synced, digests' = digests
    PROVE  Grows /\ Run' = Run
BY DEF Grows, Run

\* What is unlinked in a step is of the object.
Unlinks == \A e \in Entries :
    \/ gone'[e] = gone[e]
    \/ gone'[e] = Run /\ pc = "remove" /\ e \in Tree(Object) /\ inode[e] = "own"

\* A step that writes no record.
LEMMA LogLeft ==
    ASSUME IInv, LInv, Grows, outcomes' = outcomes, Unlinks
    PROVE  LogExplains' /\ Run' = Run /\ \A r, o : Statuses(r, o)' = Statuses(r, o)
<1>1. Run' = Run /\ \A r, o : Statuses(r, o)' = Statuses(r, o)
  BY DEF Grows, Run, Statuses
<1>2. \A r \in 1..Run : ReservedFirst(r) /\ MovedWhole(r) /\ InOrder(outcomes[r])
  BY LogIs DEF LInv, LogParts
<1>3. ASSUME NEW r \in 1..Run PROVE ReservedFirst(r)'
  <2> SUFFICES ASSUME NEW e \in Entries, gone'[e] = r PROVE "reserved" \in Statuses(r, ObjectOf(e))
    BY <1>1 DEF ReservedFirst
  <2>1. CASE gone'[e] = gone[e]
    BY <1>2, <2>1 DEF ReservedFirst
  <2>2. CASE gone'[e] = Run /\ pc = "remove" /\ e \in Tree(Object)
    <3>1. Busy
      BY <2>2 DEF Busy
    <3>2. ObjectOf(e) = Object
      BY <2>2, <3>1, PlanIs, OneObject DEF Tree
    <3>3. /\ outcomes[Run] # <<>>
          /\ outcomes[Run][Len(outcomes[Run])] = [object |-> Object, status |-> "reserved"]
      BY <2>2, <3>1 DEF LInv, LogInv
    <3>4. Len(outcomes[Run]) \in DOMAIN outcomes[Run]
      <4>1. outcomes[Run] \in Seq(Records)
        BY <3>1, PlanIs DEF IInv, MoveInv, RunTypes
      <4> QED BY <3>3, <4>1
    <3> QED BY <2>2, <3>2, <3>3, <3>4, StatusIs
  <2> QED BY <2>1, <2>2 DEF Unlinks
<1>4. ASSUME NEW r \in 1..Run PROVE MovedWhole(r)'
  <2> SUFFICES ASSUME NEW i \in DOMAIN digests[r], "moved" \in Statuses(r, digests[r][i].path)
               PROVE  gone'[digests[r][i].path] = r /\ MeasuredKept(r, i)'
    BY <1>1 DEF MovedWhole, Grows
  <2>1. PICK o : o = digests[r][i].path
    OBVIOUS
  <2>2. o \in Objects /\ o \in Entries /\ Tree(o) \subseteq Entries
    BY <2>1, DigestIs DEF IInv, MoveInv
  <2>3. gone[o] = r /\ MeasuredKept(r, i)
    BY <1>2, <2>1 DEF MovedWhole
  <2>4. gone'[o] = r
    <3>1. inode[o] # "own"
      <4>1. r # 0
        OBVIOUS
      <4> QED BY <2>2, <2>3, <4>1 DEF LInv, GoneIsGone
    <3> QED BY <2>2, <2>3, <3>1 DEF Unlinks
  <2>5. ASSUME NEW e \in Tree(o), Kept(r, e) PROVE Kept(r, e)'
    <3>1. ASSUME r = Run, pc = "copy", e \in Tree(Object) PROVE FALSE
      <4>1. Busy
        BY <3>1 DEF Busy
      <4>2. o = Object
        BY <2>2, <3>1, <4>1, PlanIs, OneObject DEF Tree
      <4>3. "moved" \notin Statuses(Run, Object)
        BY <4>1, NoEndYet
      <4> QED BY <2>1, <3>1, <4>2, <4>3
    <3> QED BY <2>2, <2>5, <3>1, KeptStays
  <2>6. MeasuredKept(r, i)'
    BY <2>1, <2>3, <2>5 DEF MeasuredKept, Grows, Tree
  <2> QED BY <2>1, <2>4, <2>6
<1>5. LogParts'
  BY <1>1, <1>2, <1>3, <1>4 DEF LogParts, InOrder
<1>6. LogExplains' <=> LogParts'
  BY LogIs, PTL
<1> QED BY <1>1, <1>5, <1>6

\* A record is appended to the log of the run.
LEMMA RecordIs ==
    ASSUME IInv, Busy, NEW status \in {"reserved", "moved", "failed"}, Record(status),
           NEW n, n = Len(outcomes[Run])
    PROVE  /\ n \in Nat /\ DOMAIN outcomes[Run] = 1..n
           /\ \A r \in 1..Run : r # Run => outcomes'[r] = outcomes[r]
           /\ DOMAIN outcomes'[Run] = 1..(n + 1) /\ Len(outcomes'[Run]) = n + 1
           /\ \A i \in 1..n : outcomes'[Run][i] = outcomes[Run][i]
           /\ outcomes'[Run][n + 1] = [object |-> Object, status |-> status]
<1>1. Object \in Objects
  BY ObjectIs DEF IInv, MoveInv, Busy
<1>2. outcomes \in Seq(Seq(Records)) /\ Run \in Nat \ {0} /\ Len(outcomes) = Run
  BY DEF IInv, MoveInv, RunTypes, Run
<1>3. PICK log : log = outcomes[Run]
  OBVIOUS
<1>4. PICK new : new = [object |-> Object, status |-> status]
  OBVIOUS
<1>5. log \in Seq(Records) /\ new \in Records
  BY <1>1, <1>2, <1>3, <1>4 DEF Records
<1>6. outcomes' = [outcomes EXCEPT ![Run] = Append(log, new)]
  BY <1>3, <1>4 DEF Record
<1>7. /\ \A r \in 1..Run : r # Run => outcomes'[r] = outcomes[r]
      /\ outcomes'[Run] = Append(log, new)
  BY <1>2, <1>6
<1>8. n \in Nat /\ DOMAIN log = 1..n
  BY <1>3, <1>5
<1>9. /\ DOMAIN Append(log, new) = 1..(n + 1) /\ Len(Append(log, new)) = n + 1
      /\ \A i \in 1..n : Append(log, new)[i] = log[i]
      /\ Append(log, new)[n + 1] = new
  BY <1>3, <1>5, <1>8
<1> QED BY <1>3, <1>4, <1>7, <1>8, <1>9

LEMMA StatusesAre ==
    ASSUME IInv, Busy, NEW status \in {"reserved", "moved", "failed"}, Record(status)
    PROVE  \A r \in 1..Run : \A o, s :
              s \in Statuses(r, o)' <=>
                 s \in Statuses(r, o) \/ (r = Run /\ o = Object /\ s = status)
<1>1. PICK n : n = Len(outcomes[Run])
  OBVIOUS
<1>2. /\ n \in Nat /\ DOMAIN outcomes[Run] = 1..n
      /\ \A r \in 1..Run : r # Run => outcomes'[r] = outcomes[r]
      /\ DOMAIN outcomes'[Run] = 1..(n + 1)
      /\ \A i \in 1..n : outcomes'[Run][i] = outcomes[Run][i]
      /\ outcomes'[Run][n + 1] = [object |-> Object, status |-> status]
  BY <1>1, RecordIs
<1>3. ASSUME NEW r \in 1..Run, NEW o, NEW s
      PROVE  s \in Statuses(r, o)' <=>
                \E i \in DOMAIN outcomes'[r] : outcomes'[r][i].object = o /\ outcomes'[r][i].status = s
  BY DEF Statuses
<1>4. ASSUME NEW r \in 1..Run, NEW o, NEW s, r # Run
      PROVE  s \in Statuses(r, o)' <=> s \in Statuses(r, o)
  BY <1>2, <1>3, <1>4, StatusIs
<1>5. ASSUME NEW r \in 1..Run, NEW o, NEW s, r = Run
      PROVE  s \in Statuses(r, o)' <=> s \in Statuses(r, o) \/ (o = Object /\ s = status)
  <2> DEFINE Has(log, i) == log[i].object = o /\ log[i].status = s
  <2>1. PICK log, new : log = outcomes[r] /\ new = outcomes'[r]
    OBVIOUS
  <2>2. \A i \in 1..n : Has(new, i) <=> Has(log, i)
    BY <1>2, <1>5, <2>1
  <2>3. Has(new, n + 1) <=> o = Object /\ s = status
    BY <1>2, <1>5, <2>1
  <2>4. s \in Statuses(r, o) <=> \E i \in 1..n : Has(log, i)
    BY <1>2, <1>5, <2>1, StatusIs
  <2>5. s \in Statuses(r, o)' <=> \E i \in 1..(n + 1) : Has(new, i)
    BY <1>2, <1>3, <1>5, <2>1
  <2> HIDE DEF Has
  <2>6. (\E i \in 1..(n + 1) : Has(new, i)) <=> (\E i \in 1..n : Has(new, i)) \/ Has(new, n + 1)
    <3>1. \A i : i \in 1..(n + 1) <=> i \in 1..n \/ i = n + 1
      BY <1>2
    <3> QED BY <3>1
  <2> QED BY <2>2, <2>3, <2>4, <2>5, <2>6
<1>6. ASSUME NEW r \in 1..Run, NEW o, NEW s
      PROVE  s \in Statuses(r, o)' <=> s \in Statuses(r, o) \/ (r = Run /\ o = Object /\ s = status)
  <2>1. CASE r = Run
    BY <1>5, <2>1
  <2>2. CASE r # Run
    BY <1>4, <2>2
  <2> QED BY <2>1, <2>2
<1> QED BY <1>6

\* A log that has one record more.
Extends(new, log, n) ==
    /\ DOMAIN log = 1..n /\ Len(log) = n /\ DOMAIN new = 1..(n + 1) /\ Len(new) = n + 1
    /\ \A i \in 1..n : new[i] = log[i]

\* A record that follows what it must keeps the log in order.
LEMMA OrderKept ==
    ASSUME NEW log, NEW new, NEW n \in Nat, NEW old, Extends(new, log, n), InOrder(log),
           n > 0 => old = log[n],
           \/ new[n + 1].status = "reserved" /\ (n > 0 => old.status = "moved")
           \/ n > 0 /\ old.status = "reserved" /\ old.object = new[n + 1].object
    PROVE  InOrder(new)
<1> USE DEF Extends
<1> SUFFICES ASSUME NEW i \in 1..(n + 1)
             PROVE  /\ new[i].status = "failed" => i = n + 1
                    /\ new[i].status = "reserved" /\ i < n + 1 => new[i + 1].object = new[i].object
                    /\ new[i].status # "reserved" => i > 1 /\ new[i - 1].status = "reserved"
  BY DEF InOrder
<1>1. CASE i = n + 1
  <2>1. ASSUME new[i].status # "reserved" PROVE i > 1 /\ new[i - 1].status = "reserved"
    <3>1. n > 0 /\ old.status = "reserved"
      BY <1>1, <2>1
    <3>2. i - 1 = n /\ i > 1 /\ n \in 1..n
      BY <1>1, <3>1
    <3> QED BY <3>1, <3>2
  <2> QED BY <1>1, <2>1
<1>2. CASE i = n /\ i # n + 1
  <2>1. i \in 1..n /\ new[i] = old /\ log[i] = old
    BY <1>2
  <2>2. old.status \in {"reserved", "moved"}
    BY <2>1
  <2>3. old.status = "reserved" => new[i + 1].object = old.object
    BY <1>2, <2>1
  <2>4. old.status # "reserved" => i > 1 /\ log[i - 1].status = "reserved"
    BY <1>2, <2>1 DEF InOrder
  <2>5. i > 1 => new[i - 1] = log[i - 1]
    <3>1. i > 1 => i - 1 \in 1..n
      BY <1>2
    <3> QED BY <3>1
  <2> QED BY <2>1, <2>2, <2>3, <2>4, <2>5
<1>3. CASE i \in 1..n /\ i # n
  <2>1. i + 1 \in 1..n /\ i < n
    BY <1>3
  <2>2. new[i] = log[i] /\ new[i + 1] = log[i + 1]
    BY <1>3, <2>1
  <2>3. /\ log[i].status # "failed"
        /\ log[i].status = "reserved" => log[i + 1].object = log[i].object
        /\ log[i].status # "reserved" => i > 1 /\ log[i - 1].status = "reserved"
    BY <1>3, <2>1 DEF InOrder
  <2>4. i > 1 => new[i - 1] = log[i - 1]
    <3>1. i > 1 => i - 1 \in 1..n
      BY <1>3
    <3> QED BY <3>1
  <2> QED BY <2>2, <2>3, <2>4
<1>4. i \in 1..n \/ i = n + 1
  OBVIOUS
<1> QED BY <1>1, <1>2, <1>3, <1>4

\* A step that writes a record and changes nothing else of the runs.
LEMMA LogAppended ==
    ASSUME IInv, LInv, Busy, RunsLeft, NEW status \in {"reserved", "moved", "failed"}, Record(status),
           status = "reserved" <=> pc \in {"check", "reserve"},
           status = "moved" =>
              /\ gone[Object] = Run
              /\ \A e \in Tree(Object) : Measured.entries[e] = "own" => Kept(Run, e)
    PROVE  LogExplains'
<1>1. PICK n : n = Len(outcomes[Run])
  OBVIOUS
<1>2. /\ n \in Nat /\ DOMAIN outcomes[Run] = 1..n
      /\ \A r \in 1..Run : r # Run => outcomes'[r] = outcomes[r]
      /\ DOMAIN outcomes'[Run] = 1..(n + 1) /\ Len(outcomes'[Run]) = n + 1
      /\ \A i \in 1..n : outcomes'[Run][i] = outcomes[Run][i]
      /\ outcomes'[Run][n + 1] = [object |-> Object, status |-> status]
  BY <1>1, RecordIs
<1>3. \A r \in 1..Run : \A o, s :
         s \in Statuses(r, o)' <=> s \in Statuses(r, o) \/ (r = Run /\ o = Object /\ s = status)
  BY StatusesAre
<1>4. \A r \in 1..Run : ReservedFirst(r) /\ MovedWhole(r) /\ InOrder(outcomes[r])
  BY LogIs DEF LInv, LogParts
<1>5. Run' = Run /\ \A r, e : Kept(r, e)' <=> Kept(r, e)
  BY DEF RunsLeft, Run, Kept, Durable, Reaches
<1>6. ASSUME NEW r \in 1..Run PROVE ReservedFirst(r)'
  <2> SUFFICES ASSUME NEW e \in Entries, gone[e] = r PROVE "reserved" \in Statuses(r, ObjectOf(e))'
    BY DEF ReservedFirst, RunsLeft
  <2>1. PICK o : o = ObjectOf(e)
    OBVIOUS
  <2>2. "reserved" \in Statuses(r, o)
    BY <1>4, <2>1 DEF ReservedFirst
  <2>3. "reserved" \in Statuses(r, o)'
    BY <1>3, <2>2
  <2> QED BY <2>1, <2>3
<1>7. ASSUME NEW r \in 1..Run PROVE MovedWhole(r)'
  <2> SUFFICES ASSUME NEW i \in DOMAIN digests[r], "moved" \in Statuses(r, digests[r][i].path)'
               PROVE  gone[digests[r][i].path] = r /\ MeasuredKept(r, i)'
    BY DEF MovedWhole, RunsLeft
  <2>1. PICK o : o = digests[r][i].path /\ "moved" \in Statuses(r, o)'
    BY DEF RunsLeft
  <2>2. gone[o] = r /\ MeasuredKept(r, i)
    <3>1. CASE "moved" \in Statuses(r, o)
      BY <1>4, <2>1, <3>1 DEF MovedWhole
    <3>2. CASE r = Run /\ o = Object /\ status = "moved"
      <4>1. digests[Run] = captures /\ i = idx
        BY <2>1, <3>2, PlanIs
      <4> QED BY <2>1, <3>2, <4>1 DEF MeasuredKept, Object, Measured
    <3> QED BY <1>3, <2>1, <3>1, <3>2
  <2>3. MeasuredKept(r, i)'
    BY <1>5, <2>2 DEF MeasuredKept, RunsLeft, Tree
  <2> QED BY <2>1, <2>2, <2>3
<1>8. InOrder(outcomes'[Run])
  <2>1. PICK log, new : log = outcomes[Run] /\ new = outcomes'[Run]
    OBVIOUS
  <2>2. PICK old : old = log[n]
    OBVIOUS
  <2>3. InOrder(log)
    BY <1>4, <2>1, PlanIs
  <2>4. log # <<>> <=> n > 0
    <3>1. log \in Seq(Records)
      BY <2>1, PlanIs DEF IInv, MoveInv, RunTypes
    <3> QED BY <1>1, <2>1, <3>1
  <2>5. \/ new[n + 1].status = "reserved" /\ (n > 0 => old.status = "moved")
        \/ n > 0 /\ old.status = "reserved" /\ old.object = new[n + 1].object
    <3>1. CASE pc \in {"check", "reserve"}
      <4>1. log = <<>> \/ old.status = "moved"
        BY <1>1, <2>1, <2>2, <3>1 DEF LInv, LogInv
      <4> QED BY <1>2, <2>1, <2>4, <3>1, <4>1
    <3>2. CASE pc \notin {"check", "reserve"}
      <4>1. log # <<>> /\ old = [object |-> Object, status |-> "reserved"]
        BY <1>1, <2>1, <2>2, <3>2 DEF LInv, LogInv
      <4> QED BY <1>2, <2>1, <2>4, <4>1
    <3> QED BY <3>1, <3>2
  <2>6. Extends(new, log, n)
    BY <1>1, <1>2, <2>1 DEF Extends
  <2>7. InOrder(new)
    BY <1>2, <2>2, <2>3, <2>5, <2>6, OrderKept
  <2> QED BY <2>1, <2>7
<1>9. \A r \in 1..Run : InOrder(outcomes'[r])
  BY <1>2, <1>4, <1>8
<1>10. LogParts'
  BY <1>5, <1>6, <1>7, <1>9 DEF LogParts, InOrder
<1>11. LogExplains' <=> LogParts'
  BY LogIs, PTL
<1> QED BY <1>10, <1>11


\* What is reported of a run.
ReportTrue(r) ==
    /\ \A o \in result.moved : "moved" \in Statuses(r, o) /\ gone[o] = r
    /\ \A i, j \in DOMAIN digests[r] :
          digests[r][i].path = result.failure /\ j >= i =>
             /\ digests[r][j].path \notin result.moved
             /\ j > i => dst[r][digests[r][j].path] = Absent /\ Statuses(r, digests[r][j].path) = {}

LEMMA ReportIs ==
    ASSUME NEW r, Run = r
    PROVE  ResultIsTrue <=> (r > 0 => ReportTrue(r))
BY DEF ResultIsTrue, ReportTrue

\* Without a failure there is nothing to say of the objects after it.
LEMMA NoFailure ==
    ASSUME RunTypes, result.failure = "none", NEW r \in 1..Run,
           \A o \in result.moved : "moved" \in Statuses(r, o) /\ gone[o] = r
    PROVE  ReportTrue(r)
BY DigestIs DEF ReportTrue

\* No other object gets a record.
NoOther == \A r \in 1..Run : \A o, s :
    /\ s \in Statuses(r, o) => s \in Statuses(r, o)'
    /\ o # Object /\ s \in Statuses(r, o)' => s \in Statuses(r, o)

LEMMA NoOtherIs ==
    ASSUME IInv, Busy,
           \/ outcomes' = outcomes
           \/ \E status \in {"reserved", "moved", "failed"} : Record(status)
    PROVE  NoOther
<1>1. CASE outcomes' = outcomes
  BY <1>1 DEF NoOther, Statuses
<1>2. ASSUME NEW status \in {"reserved", "moved", "failed"}, Record(status) PROVE NoOther
  <2>1. \A r \in 1..Run : \A o, s :
           s \in Statuses(r, o)' <=> s \in Statuses(r, o) \/ (r = Run /\ o = Object /\ s = status)
    BY <1>2, StatusesAre
  <2> QED BY <2>1 DEF NoOther
<1> QED BY <1>1, <1>2

\* What the invariant says between two calls.
LEMMA AtRest == IInv /\ GoneIsGone /\ pc = "idle" /\ LogExplains /\ ResultIsTrue => LInv
<1> SUFFICES ASSUME IInv, GoneIsGone, pc = "idle", LogExplains, ResultIsTrue
             PROVE  LInv
  OBVIOUS
<1>1. captures = <<>> /\ ~Busy
  BY DEF IInv, MoveInv, PlanInv, Busy
<1>2. PlanIsRecorded
  BY <1>1 DEF PlanIsRecorded
<1>3. MeasuredIsKept /\ LogInv /\ ReportInv
  BY <1>1 DEF MeasuredIsKept, Matched, LogInv, ReportInv
<1> QED BY <1>2, <1>3 DEF LInv

\* The call returns at an object that was not moved.
LEMMA BreakTrue ==
    ASSUME IInv, IInv', LInv, Busy, RunsLeft, Break, NoOther, inode' = inode, LogExplains'
    PROVE  LInv'
<1>1. PICK r : r = Run
  OBVIOUS
<1>2. /\ r \in 1..Run /\ Run' = r /\ digests[r] = captures /\ idx \in DOMAIN captures
      /\ digests' = digests /\ dst' = dst /\ gone' = gone
      /\ \A i \in DOMAIN captures : captures[i].path = Object => i = idx
      /\ result.failure = "none"
  BY <1>1, PlanIs DEF RunsLeft, Run
<1>3. /\ pc' = "idle" /\ result' = [moved |-> result.moved, failure |-> Object]
  BY DEF Break, Return
<1>4. ReportTrue(r)
  BY <1>1, <1>2, ReportIs DEF LInv
<1>5. \A o \in result.moved : "moved" \in Statuses(r, o)' /\ gone'[o] = r
  BY <1>2, <1>4 DEF ReportTrue, NoOther
<1>6. ASSUME NEW j \in DOMAIN captures, j >= idx, NEW o, o = captures[j].path
      PROVE  /\ o \notin result.moved
             /\ j > idx => dst[r][o] = Absent /\ Statuses(r, o)' = {}
  <2>1. o \in Entries /\ <<o, o>> \in Above
    <3>1. o \in Entries
      BY <1>6, CaptureIs DEF IInv, MoveInv, Objects
    <3> QED BY <3>1, AboveStep
  <2>2. idx \in Nat /\ j \in Nat
    BY DEF IInv, MoveInv, Types
  <2>3. o \notin result.moved
    <3>1. ASSUME NEW k \in DOMAIN captures, k < idx, captures[k].path = o PROVE FALSE
      <4>1. k = j
        BY <1>6, <3>1 DEF IInv, MoveInv, PlanInv
      <4> QED BY <1>6, <2>2, <3>1, <4>1
    <3> QED BY <3>1 DEF LInv, ReportInv
  <2>4. ASSUME j > idx PROVE dst[r][o] = Absent
    BY <1>1, <1>6, <2>1, <2>4 DEF IInv, MoveInv, UntouchedInv
  <2>5. ASSUME j > idx PROVE Statuses(r, o)' = {}
    <3>1. Statuses(r, o) = {}
      BY <1>1, <1>6, <2>5, NoEndYet
    <3>2. o # Object
      BY <1>2, <1>6, <2>2, <2>5
    <3>3. \A s : s \notin Statuses(r, o)'
      BY <1>2, <3>1, <3>2 DEF NoOther
    <3> QED BY <3>3
  <2> QED BY <2>3, <2>4, <2>5
<1>7. ReportTrue(r)'
  <2> SUFFICES ASSUME NEW i \in DOMAIN captures, NEW j \in DOMAIN captures, captures[i].path = Object, j >= i,
                      NEW o, o = captures[j].path
               PROVE  /\ o \notin result.moved
                      /\ j > i => dst[r][o] = Absent /\ Statuses(r, o)' = {}
    BY <1>2, <1>3, <1>5 DEF ReportTrue
  <2>1. i = idx
    BY <1>2
  <2> QED BY <1>6, <2>1
<1>8. ResultIsTrue' <=> (r > 0 => ReportTrue(r)')
  BY <1>2 DEF ResultIsTrue, ReportTrue
<1>9. GoneIsGone'
  BY DEF LInv, GoneIsGone, RunsLeft
<1>10. (IInv /\ GoneIsGone /\ pc = "idle" /\ LogExplains /\ ResultIsTrue => LInv)'
  BY AtRest, PTL
<1> QED BY <1>3, <1>7, <1>8, <1>9, <1>10

-----------------------------------------------------------------------------
(* The steps *)

\* A step that writes no record and neither begins nor ends a call or the move
\* of an object.
LEMMA StepTrue ==
    ASSUME IInv, LInv, Grows, Unlinks, outcomes' = outcomes, captures' = captures, idx' = idx,
           result' = result, GoneIsGone', MeasuredIsKept',
           pc' \in {"check", "reserve"} <=> pc \in {"check", "reserve"}, pc' = "idle" <=> pc = "idle",
           pc' \in {"capture", "previewed", "revalidate"} <=> pc \in {"capture", "previewed", "revalidate"}
    PROVE  LInv'
<1>1. LogExplains' /\ Run' = Run /\ \A r, o : Statuses(r, o)' = Statuses(r, o)
  BY LogLeft
<1>2. (Busy' <=> Busy) /\ digests' = digests
  BY DEF Busy, Grows
<1>3. PlanIsRecorded'
  BY <1>1, <1>2 DEF LInv, PlanIsRecorded, OwnerIsRecorded, Tree
<1>4. LogInv'
  <2>1. Object' = Object
    BY DEF Object
  <2>2. \A j : Statuses(Run, captures[j].path)' = Statuses(Run, captures[j].path)
    BY <1>1, <1>2 DEF Statuses
  <2>3. ASSUME Busy, pc' \in {"check", "reserve"}
        PROVE  outcomes[Run] = <<>> \/ outcomes[Run][Len(outcomes[Run])].status = "moved"
    BY <2>3 DEF LInv, LogInv
  <2>4. ASSUME Busy, pc' \notin {"check", "reserve"}
        PROVE  /\ outcomes[Run] # <<>>
               /\ outcomes[Run][Len(outcomes[Run])] = [object |-> Object, status |-> "reserved"]
    BY <2>4 DEF LInv, LogInv
  <2>5. Busy => \A j \in DOMAIN captures :
            /\ j > idx => Statuses(Run, captures[j].path) = {}
            /\ j = idx => Statuses(Run, captures[j].path) \subseteq {"reserved"}
    BY DEF LInv, LogInv
  <2> QED BY <1>1, <1>2, <2>1, <2>2, <2>3, <2>4, <2>5 DEF LogInv
<1>5. ReportInv'
  BY <1>2 DEF LInv, ReportInv, NoResult
<1>6. ResultIsTrue'
  <2>1. PICK r : r = Run
    OBVIOUS
  <2> SUFFICES ASSUME r > 0 PROVE ReportTrue(r)'
    BY <1>1, <2>1 DEF ResultIsTrue, ReportTrue
  <2>2. r \in 1..Run
    <3>1. Run \in Nat
      BY DEF IInv, MoveInv, RunTypes, Run
    <3> QED BY <2>1, <3>1
  <2>3. ReportTrue(r)
    BY <2>1, ReportIs DEF LInv
  <2>4. \A o \in result.moved : "moved" \in Statuses(r, o) /\ gone'[o] = r
    <3> SUFFICES ASSUME NEW o \in result.moved PROVE gone'[o] = r
      BY <2>3 DEF ReportTrue
    <3>1. o \in Entries /\ gone[o] = r
      BY <2>3 DEF ReportTrue, IInv, MoveInv, Types, Objects
    <3> QED BY <2>1, <3>1 DEF Unlinks
  <2>5. ASSUME NEW i \in DOMAIN digests[r], NEW j \in DOMAIN digests[r],
               digests[r][i].path = result.failure, j >= i, NEW o, o = digests[r][j].path
        PROVE  o \notin result.moved /\ (j > i => dst'[r][o] = Absent /\ Statuses(r, o) = {})
    <3>1. o \notin result.moved /\ (j > i => dst[r][o] = Absent /\ Statuses(r, o) = {})
      BY <2>3, <2>5 DEF ReportTrue
    <3>2. pc = "idle"
      <4>1. result.failure # "none"
        BY <2>2, <2>5, DigestIs DEF IInv, MoveInv
      <4> QED BY <4>1 DEF LInv, ReportInv
    <3>3. dst'[r][o] = dst[r][o]
      <4>1. o \in Entries
        BY <2>2, <2>5, DigestIs DEF IInv, MoveInv
      <4> QED BY <2>2, <3>2, <4>1 DEF Grows
    <3> QED BY <3>1, <3>3
  <2> QED BY <1>1, <1>2, <2>4, <2>5 DEF ReportTrue
<1> QED BY <1>1, <1>3, <1>4, <1>5, <1>6 DEF LInv

\* Nothing is unlinked, and nothing comes to be the user's.
LEMMA NothingGone ==
    ASSUME IInv, GoneIsGone, gone' = gone, \A e \in Entries : inode'[e] = "own" => inode[e] = "own"
    PROVE  Unlinks /\ GoneIsGone'
BY DEF Unlinks, GoneIsGone

\* A step of others.
LEMMA OthersTrue == ASSUME IInv, LInv, Others PROVE LInv'
<1>1. Left /\ \A e \in Entries : inode'[e] = "own" => inode[e] = "own"
  <2>1. inode \in [Entries -> {"none", "own", "other"}]
    BY DEF IInv, MoveInv, Types
  <2>2. ASSUME NEW p \in Processes, NEW e \in Files, Environment(OpenFile(p, e))
        PROVE  Left /\ inode' = inode
    BY <2>2, EnvironmentLeaves DEF OpenFile
  <2>3. ASSUME NEW p \in Processes, NEW e \in Files, Environment(WriteFile(p, e))
        PROVE  Left /\ inode' = inode
    BY <2>3, EnvironmentLeaves DEF WriteFile
  <2>4. ASSUME NEW p \in Processes, NEW e \in Files, Environment(CloseFile(p, e))
        PROVE  Left /\ inode' = inode
    BY <2>4, EnvironmentLeaves DEF CloseFile
  <2>5. ASSUME NEW e \in Entries, NEW new \in {"none", "other"}, Environment(ReplaceName(e, new))
        PROVE  Left /\ \A x \in Entries : inode'[x] = "own" => inode[x] = "own"
    <3>1. Left /\ ReplaceName(e, new)
      BY <2>5, EnvironmentLeaves
    <3>2. \A x \in Entries : inode'[x] = IF x = e THEN new
                                         ELSE IF <<e, x>> \in Above THEN "none" ELSE inode[x]
      BY <3>1 DEF ReplaceName
    <3> QED BY <3>1, <3>2
  <2>6. ASSUME Environment(Idle) PROVE Left /\ inode' = inode
    BY <2>6, EnvironmentLeaves DEF Idle
  <2> QED BY <2>2, <2>3, <2>4, <2>5, <2>6 DEF Others
<1>2. Grows /\ Run' = Run
  BY <1>1, SameRuns DEF Left
<1>3. Unlinks /\ GoneIsGone'
  BY <1>1, NothingGone DEF Left, LInv
<1>4. MeasuredIsKept'
  <2>1. /\ Object' = Object /\ Measured' = Measured /\ Tree(Object)' = Tree(Object)
        /\ \A e : (Copied(e)' <=> Copied(e)) /\ (Kept(Run, e)' <=> Kept(Run, e))
    BY <1>1, <1>2 DEF Left, Object, Measured, Tree, Copied, Kept, Durable, Reaches
  <2> QED BY <1>1, <1>2, <2>1 DEF LInv, MeasuredIsKept, Matched, Left
<1> QED BY <1>1, <1>2, <1>3, <1>4, StepTrue DEF Left

LEMMA StutterTrue == ASSUME IInv, LInv, UNCHANGED vars PROVE LInv'
<1>1. Left /\ inode' = inode
  BY DEF vars, tree, walk, copyVars, history, Left
<1>2. Grows /\ Run' = Run
  BY <1>1, SameRuns DEF Left
<1>3. Unlinks /\ GoneIsGone'
  BY <1>1, NothingGone DEF Left, LInv
<1>4. MeasuredIsKept'
  <2>1. /\ Object' = Object /\ Measured' = Measured /\ Tree(Object)' = Tree(Object)
        /\ \A e : (Copied(e)' <=> Copied(e)) /\ (Kept(Run, e)' <=> Kept(Run, e))
    BY <1>1, <1>2 DEF Left, Object, Measured, Tree, Copied, Kept, Durable, Reaches
  <2> QED BY <1>1, <1>2, <2>1 DEF LInv, MeasuredIsKept, Matched, Left
<1> QED BY <1>1, <1>2, <1>3, <1>4, StepTrue DEF Left

\* Before the removal: a step that keeps what was found.
LEMMA PrepareTrue ==
    ASSUME IInv, LInv, Grows, inode' = inode, gone' = gone, outcomes' = outcomes, captures' = captures,
           idx' = idx, result' = result, pc \in Moving, pc' \in {"copy", "verify", "recheck", "failed"},
           pc' = "recheck" => reading' = {}
    PROVE  LInv'
<1>1. Unlinks /\ GoneIsGone'
  BY NothingGone DEF LInv
<1>2. MeasuredIsKept'
  BY DEF MeasuredIsKept, Matched
<1> QED BY <1>1, <1>2, StepTrue DEF Moving

LEMMA ChecksTrue ==
    ASSUME IInv, LInv,
           \/ Stop \/ Prepare \/ Differs \/ EndCopy \/ EndVerify
           \/ \E e \in Entries : VerifyEntry(e)
    PROVE  LInv'
<1>1. /\ dst' = dst /\ named' = named /\ synced' = synced /\ digests' = digests
      /\ inode' = inode /\ gone' = gone /\ outcomes' = outcomes /\ captures' = captures
      /\ idx' = idx /\ result' = result
      /\ pc \in Moving /\ pc' \in {"copy", "verify", "recheck", "failed"}
      /\ pc' = "recheck" => reading' = {}
  <2> USE DEF tree, copyVars, history
  <2>1. CASE Stop
    BY <2>1 DEF Stop
  <2>2. CASE Prepare
    BY <2>2 DEF Prepare, At, Moving
  <2>3. CASE Differs
    BY <2>3 DEF Differs, Moving
  <2>4. CASE EndCopy
    BY <2>4 DEF EndCopy, At, Moving
  <2>5. CASE EndVerify
    BY <2>5 DEF EndVerify, Continue, walk, At, Moving, IInv, InspectionInv, Inspecting
  <2>6. ASSUME NEW e \in Entries, VerifyEntry(e)
        PROVE  /\ dst' = dst /\ named' = named /\ synced' = synced /\ digests' = digests
               /\ inode' = inode /\ gone' = gone /\ outcomes' = outcomes /\ captures' = captures
               /\ idx' = idx /\ result' = result
               /\ pc \in Moving /\ pc' = "verify"
    BY <2>6 DEF VerifyEntry, At, Moving
  <2> QED BY <2>1, <2>2, <2>3, <2>4, <2>5, <2>6
<1>2. Grows
  BY <1>1, SameRuns
<1> QED BY <1>1, <1>2, PrepareTrue

\* The copy writes only below the object.
LEMMA PutGrows ==
    ASSUME IInv, pc = "copy", NEW e \in Tree(Object), NEW c \in Copies, Put(e, c), digests' = digests,
           \A r \in 1..Run : named[r] \subseteq named'[r] /\ synced[r] \subseteq synced'[r]
    PROVE  Grows
<1>1. Busy /\ e \in Entries
  BY DEF Busy, Tree
<1>2. \A r \in 1..Run, x \in Entries : dst'[r][x] = IF r = Run /\ x = e THEN c ELSE dst[r][x]
  BY <1>1, PutIs DEF IInv, MoveInv
<1> QED BY <1>2 DEF Grows

LEMMA CopyingTrue ==
    ASSUME IInv, LInv, NEW e \in Entries,
           \/ EnterDirectory(e) \/ BeginFile(e) \/ FinishDirectory(e)
           \/ \E c \in Stamps \cup {Torn} : EndFile(c)
    PROVE  LInv'
<1>1. /\ digests' = digests /\ inode' = inode /\ gone' = gone /\ outcomes' = outcomes
      /\ captures' = captures /\ idx' = idx /\ result' = result /\ pc = "copy" /\ pc' = "copy"
  <2> USE DEF tree, copyVars, history, At
  <2>1. CASE EnterDirectory(e)
    BY <2>1 DEF EnterDirectory
  <2>2. CASE BeginFile(e)
    BY <2>2 DEF BeginFile
  <2>3. CASE FinishDirectory(e)
    BY <2>3 DEF FinishDirectory
  <2>4. CASE \E c \in Stamps \cup {Torn} : EndFile(c)
    BY <2>4 DEF EndFile
  <2> QED BY <2>1, <2>2, <2>3, <2>4
<1>2. /\ Busy /\ todo \subseteq Tree(Object) /\ RunTypes /\ Run \in 1..Run
  BY <1>1, CopyIs DEF IInv, MoveInv
<1>3. Grows
  <2>1. CASE EnterDirectory(e)
    <3>1. e \in todo /\ Put(e, 0) /\ named' = named /\ synced' = synced
      BY <2>1 DEF EnterDirectory
    <3> QED BY <1>1, <1>2, <3>1, PutGrows DEF Copies
  <2>2. CASE BeginFile(e)
    <3>1. e \in todo /\ Put(e, Torn) /\ named' = named /\ synced' = synced
      BY <2>2 DEF BeginFile
    <3> QED BY <1>1, <1>2, <3>1, PutGrows DEF Copies
  <2>3. CASE FinishDirectory(e)
    <3>1. SyncDir(e, dst[Run]) /\ dst' = dst /\ synced' = synced
      BY <2>3 DEF FinishDirectory
    <3>2. \A r \in 1..Run : named[r] \subseteq named'[r]
      BY <1>2, <3>1, SyncDirIs
    <3> QED BY <1>1, <3>1, <3>2 DEF Grows
  <2>4. ASSUME NEW c \in Stamps \cup {Torn}, EndFile(c) PROVE Grows
    <3>1. PICK f : f = target
      OBVIOUS
    <3>2. /\ f # Root /\ Put(f, c) /\ SyncDir(Parent[f], dst'[Run])
          /\ synced' = [synced EXCEPT ![Run] = @ \cup {f}]
      BY <2>4, <3>1 DEF EndFile
    <3>3. f \in Tree(Object) /\ c \in Copies
      <4>1. f \in todo
        BY <1>1, <3>1, <3>2 DEF IInv, MoveInv, WalkInv
      <4>2. c \in Nat \cup {Torn}
        BY DEF Stamps
      <4> QED BY <1>2, <4>1, <4>2 DEF Copies
    <3>4. \A r \in 1..Run : named[r] \subseteq named'[r]
      <4>1. PICK copy : copy = dst'[Run]
        OBVIOUS
      <4> QED BY <1>2, <3>2, <4>1, SyncDirIs
    <3>5. \A r \in 1..Run : synced[r] \subseteq synced'[r]
      <4>1. DOMAIN synced = 1..Run
        BY <1>2 DEF RunTypes, Run
      <4> QED BY <3>2, <4>1
    <3> QED BY <1>1, <3>2, <3>3, <3>4, <3>5, PutGrows
  <2> QED BY <2>1, <2>2, <2>3, <2>4
<1> QED BY <1>1, <1>3, PrepareTrue DEF Moving

LEMMA RecheckTrue == ASSUME IInv, LInv, Recheck PROVE LInv'
<1>1. /\ dst' = dst /\ named' = named /\ synced' = synced /\ digests' = digests
      /\ inode' = inode /\ gone' = gone /\ outcomes' = outcomes /\ captures' = captures
      /\ idx' = idx /\ result' = result /\ pc = "recheck" /\ pc' = "sync" /\ Matched
  BY DEF Recheck, Inspected, Matched, At, tree, copyVars, history
<1>2. Grows /\ Run' = Run
  BY <1>1, SameRuns
<1>3. Unlinks /\ GoneIsGone'
  BY <1>1, NothingGone DEF LInv
<1>4. MeasuredIsKept'
  <2>1. /\ Object' = Object /\ Measured' = Measured /\ Tree(Object)' = Tree(Object)
        /\ \A e : Copied(e)' <=> Copied(e)
    BY <1>1, <1>2 DEF Object, Measured, Tree, Copied
  <2> QED BY <1>1, <2>1 DEF LInv, MeasuredIsKept
<1> QED BY <1>1, <1>2, <1>3, <1>4, StepTrue

\* The second inspection: what was measured is there, and what is there is
\* copied.
LEMMA InspectTrue ==
    ASSUME IInv, LInv, Inspection,
           Matched' => Matched \/ (pc = "recheck" /\ Fingerprint(Object) = Measured)
    PROVE  LInv'
<1>1. /\ dst' = dst /\ named' = named /\ synced' = synced /\ digests' = digests
      /\ inode' = inode /\ gone' = gone /\ outcomes' = outcomes /\ captures' = captures
      /\ idx' = idx /\ result' = result /\ pc \in Inspecting /\ pc' = pc
  BY DEF Inspection, tree, copyVars, history
<1>2. Grows /\ Run' = Run
  BY <1>1, SameRuns
<1>3. Unlinks /\ GoneIsGone'
  BY <1>1, NothingGone DEF LInv
<1>4. ASSUME Matched', NEW e \in Tree(Object), Measured.entries[e] = "own" PROVE Copied(e)
  <2>1. CASE Matched
    BY <1>4, <2>1 DEF LInv, MeasuredIsKept
  <2>2. CASE pc = "recheck" /\ Fingerprint(Object) = Measured
    <3>1. Measured.entries = [x \in Tree(Object) |-> inode[x]]
      BY <2>2 DEF Fingerprint
    <3>2. inode[e] = "own"
      BY <1>4, <3>1
    <3> QED BY <2>2, <3>2 DEF IInv, MoveInv, CheckedInv
  <2> QED BY <1>4, <2>1, <2>2
<1>5. MeasuredIsKept'
  <2>1. /\ Object' = Object /\ Measured' = Measured /\ Tree(Object)' = Tree(Object)
        /\ \A e : Copied(e)' <=> Copied(e)
    BY <1>1, <1>2 DEF Object, Measured, Tree, Copied
  <2> QED BY <1>1, <1>4, <2>1 DEF MeasuredIsKept, Inspecting
<1> QED BY <1>1, <1>2, <1>3, <1>5, StepTrue

LEMMA MeasureTrue == ASSUME IInv, LInv, NEW o \in Objects, Measure(o) PROVE LInv'
<1>1. /\ Inspection /\ reading' = {[path |-> o, measurement |-> Fingerprint(o)]}
      /\ pc' = pc /\ captures' = captures /\ idx' = idx
  BY DEF Measure, Inspection
<1>2. ASSUME Matched' PROVE pc = "recheck" /\ Fingerprint(Object) = Measured
  <2>1. pc = "recheck" /\ [path |-> o, measurement |-> Fingerprint(o)] = captures[idx]
    BY <1>1, <1>2 DEF Matched
  <2>2. Object = o /\ Measured = Fingerprint(o)
    BY <2>1 DEF Object, Measured
  <2> QED BY <2>1, <2>2
<1> QED BY <1>1, <1>2, InspectTrue

LEMMA ScanTrue == ASSUME IInv, LInv, NEW p \in Processes, ScanProcess(p) PROVE LInv'
<1>1. Inspection /\ reading' = reading /\ pc' = pc /\ captures' = captures /\ idx' = idx
  BY DEF ScanProcess, Inspection
<1>2. Matched' <=> Matched
  BY <1>1 DEF Matched
<1> QED BY <1>1, <1>2, InspectTrue

\* sync_parent makes the whole copy durable, of what others took away since,
\* too.
LEMMA SyncTrue == ASSUME IInv, LInv, SyncDestination PROVE LInv'
<1>1. /\ dst' = dst /\ synced' = synced /\ digests' = digests /\ SyncDir(Root, dst[Run])
      /\ inode' = inode /\ gone' = gone /\ outcomes' = outcomes /\ captures' = captures
      /\ idx' = idx /\ result' = result /\ pc = "sync" /\ pc' = "remove"
      /\ todo' = {Object}
  BY DEF SyncDestination, At, tree, history
<1>2. Busy /\ pc # "idle"
  BY <1>1 DEF Busy
<1>3. Run \in 1..Run /\ Object \in Objects /\ Object \in Entries /\ Parent[Object] = Root
  BY <1>2, PlanIs DEF Objects
<1>4. finish = {} /\ target = Root
  BY <1>1 DEF IInv, MoveInv, WalkInv
<1>5. /\ \A r \in 1..Run : named[r] \subseteq named'[r]
      /\ \A e \in Kids(Root) : dst[Run][e] # Absent => e \in named'[Run]
  BY <1>1, <1>2, SyncDirIs DEF IInv, MoveInv
<1>6. Grows /\ Run' = Run
  BY <1>1, <1>5 DEF Grows, Run
<1>7. Unlinks /\ GoneIsGone'
  BY <1>1, NothingGone DEF LInv
<1>8. \A e \in Tree(Object) : Measured.entries[e] = "own" =>
         e \in named'[Run] /\ Copied(e) /\ CopyIsKept(e)
  <2> SUFFICES ASSUME NEW e \in Tree(Object), Measured.entries[e] = "own"
               PROVE  e \in named'[Run] /\ Copied(e) /\ CopyIsKept(e)
    OBVIOUS
  <2>1. Copied(e) /\ CopyIsKept(e)
    BY <1>1 DEF IInv, MoveInv, CheckedInv, LInv, MeasuredIsKept, Matched
  <2>2. CASE e = Object
    BY <1>3, <1>5, <2>1, <2>2 DEF Copied, Kids
  <2>3. CASE e # Object
    <3>1. e \in named[Run]
      BY <1>4, <2>1, <2>3 DEF CopyIsKept
    <3> QED BY <1>3, <1>5, <2>1, <3>1
  <2> QED BY <2>2, <2>3
<1>9. ASSUME NEW e \in Tree(Object), Measured.entries[e] = "own" PROVE Kept(Run, e)'
  <2>1. e \in Entries /\ <<Object, e>> \in Above
    BY DEF Tree
  <2>2. \A a \in Entries : <<a, e>> \in Above => a \in named'[Run]
    <3> SUFFICES ASSUME NEW a \in Entries, <<a, e>> \in Above PROVE a \in named'[Run]
      OBVIOUS
    <3>1. a \in Tree(Object)
      BY <1>3, <2>1, ObjectAbove DEF Tree
    <3>2. Measured.entries[a] = "own"
      <4>1. idx \in DOMAIN captures
        BY <1>2, PlanIs
      <4> QED BY <1>9, <3>1, <4>1 DEF LInv, PlanIsRecorded, OwnerIsRecorded, Measured, Object
    <3> QED BY <1>8, <3>1, <3>2
  <2>3. Copied(e) /\ CopyIsKept(e)
    BY <1>8, <1>9
  <2>4. e \in Files => e \in synced[Run]
    BY <1>4, <2>1, <2>3, QuarantineAssumption DEF CopyIsKept
  <2>5. dst[Run][e] \notin {Absent, Torn}
    <3>1. e \in Files => dst[Run][e] # Torn
      BY <1>1, <2>3 DEF IInv, MoveInv, CheckedInv, Matched
    <3>2. e \in Dirs => dst[Run][e] # Torn
      BY <2>3 DEF CopyIsKept
    <3> QED BY <2>1, <2>3, <3>1, <3>2 DEF Copied, Files
  <2> QED BY <1>1, <1>6, <2>2, <2>4, <2>5 DEF Kept, Durable, Reaches
<1>10. MeasuredIsKept'
  <2>1. /\ Object' = Object /\ Measured' = Measured /\ Tree(Object)' = Tree(Object)
    BY <1>1 DEF Object, Measured, Tree
  <2>2. Object \in todo'
    BY <1>1
  <2>3. \A e \in Tree(Object) : Measured.entries[e] = "own" => Kept(Run, e)'
    BY <1>9
  <2> QED BY <1>1, <2>1, <2>2, <2>3 DEF MeasuredIsKept, Matched
<1> QED BY <1>1, <1>6, <1>7, <1>10, StepTrue

\* A step of the removal, which ends with the object.
LEMMA RemovalTrue ==
    ASSUME IInv, LInv, pc = "remove", pc' = "remove", dst' = dst, named' = named, synced' = synced,
           digests' = digests, outcomes' = outcomes, captures' = captures, idx' = idx, result' = result,
           Unlinks, GoneIsGone',
           Object \in todo \cup finish => Object \in todo' \cup finish' \/ gone'[Object] = Run
    PROVE  LInv'
<1>1. Grows /\ Run' = Run
  BY SameRuns
<1>2. Object \in todo' \cup finish' \/ gone'[Object] = Run
  <2>1. Object \in Entries
    BY RemoveIs
  <2> QED BY <2>1 DEF LInv, MeasuredIsKept, Matched, Unlinks
<1>3. MeasuredIsKept'
  <2>1. /\ Object' = Object /\ Measured' = Measured /\ Tree(Object)' = Tree(Object)
        /\ \A e : Kept(Run, e)' <=> Kept(Run, e)
    BY <1>1 DEF Object, Measured, Tree, Kept, Durable, Reaches
  <2> QED BY <1>1, <1>2, <2>1 DEF LInv, MeasuredIsKept, Matched
<1> QED BY <1>1, <1>3, StepTrue

LEMMA VisitTrue ==
    ASSUME IInv, LInv, NEW e \in Entries, VisitDirectory(e) \/ VisitFile(e)
    PROVE  LInv'
<1>1. /\ pc = "remove" /\ pc' = "remove" /\ dst' = dst /\ named' = named /\ synced' = synced
      /\ digests' = digests /\ outcomes' = outcomes /\ captures' = captures /\ idx' = idx
      /\ result' = result /\ gone' = gone /\ inode' = inode
      /\ todo \cup finish \subseteq todo' \cup finish'
  <2>1. CASE VisitDirectory(e)
    BY <2>1 DEF VisitDirectory, At, copyVars, history
  <2>2. CASE VisitFile(e)
    BY <2>2 DEF VisitFile, At, tree, copyVars, history
  <2> QED BY <2>1, <2>2
<1>2. Unlinks /\ GoneIsGone'
  BY <1>1, NothingGone DEF LInv
<1> QED BY <1>1, <1>2, RemovalTrue

\* An entry that is unlinked is gone; of the object, nothing was there but it.
LEMMA UnlinkTrue ==
    ASSUME IInv, LInv, NEW e \in Tree(Object), pc = "remove", pc' = "remove", dst' = dst, named' = named,
           synced' = synced, digests' = digests, outcomes' = outcomes, captures' = captures, idx' = idx,
           result' = result, Present(e), Guarded(e), Unlink(e),
           (todo \cup finish) \ {e} \subseteq todo' \cup finish'
    PROVE  LInv'
<1>1. e \in Entries /\ Object \in Entries /\ Run \in 1..Run
  BY RemoveIs
<1>2. inode[e] = "own"
  BY <1>1 DEF IInv, MoveInv, Types, Guarded, Present
<1>3. inode' = [inode EXCEPT ![e] = "none"] /\ gone' = [gone EXCEPT ![e] = Run]
  BY <1>2 DEF Unlink
<1>4. /\ \A x \in Entries : inode'[x] = IF x = e THEN "none" ELSE inode[x]
      /\ \A x \in Entries : gone'[x] = IF x = e THEN Run ELSE gone[x]
  BY <1>1, <1>3 DEF IInv, MoveInv, Types, RunTypes
<1>5. Unlinks
  BY <1>2, <1>4 DEF Unlinks
<1>6. GoneIsGone'
  BY <1>4 DEF LInv, GoneIsGone
<1>7. Object \in todo \cup finish => Object \in todo' \cup finish' \/ gone'[Object] = Run
  BY <1>1, <1>4
<1> QED BY <1>5, <1>6, <1>7, RemovalTrue

LEMMA UnlinkingTrue ==
    ASSUME IInv, LInv, UnlinkFile \/ \E d \in Entries : RemoveDirectory(d)
    PROVE  LInv'
<1>1. CASE UnlinkFile
  <2>1. PICK f : f = target
    OBVIOUS
  <2>2. /\ pc = "remove" /\ pc' = "remove" /\ f # Root /\ Present(f) /\ Unlink(f)
        /\ todo' = todo \ {f} /\ finish' = finish
        /\ captures' = captures /\ idx' = idx /\ result' = result /\ outcomes' = outcomes
        /\ digests' = digests /\ dst' = dst /\ named' = named /\ synced' = synced
    BY <1>1, <2>1 DEF UnlinkFile, At, copyVars
  <2>3. f \in Tree(Object) /\ Guarded(f)
    BY <2>1, <2>2, RemoveIs DEF IInv, MoveInv, WalkInv, GuardInv
  <2>4. (todo \cup finish) \ {f} \subseteq todo' \cup finish'
    BY <2>2
  <2> QED BY <2>2, <2>3, <2>4, UnlinkTrue
<1>2. ASSUME NEW d \in Entries, RemoveDirectory(d) PROVE LInv'
  <2>1. /\ pc = "remove" /\ pc' = "remove" /\ Present(d) /\ Unlink(d) /\ d \in finish
        /\ todo' = todo /\ finish' = finish \ {d}
        /\ captures' = captures /\ idx' = idx /\ result' = result /\ outcomes' = outcomes
        /\ digests' = digests /\ dst' = dst /\ named' = named /\ synced' = synced
    BY <1>2 DEF RemoveDirectory, At, copyVars
  <2>2. d \in Tree(Object) /\ Guarded(d)
    BY <2>1, RemoveIs DEF IInv, MoveInv, GuardInv
  <2>3. (todo \cup finish) \ {d} \subseteq todo' \cup finish'
    BY <2>1
  <2> QED BY <2>1, <2>2, <2>3, UnlinkTrue
<1> QED BY <1>1, <1>2

LEMMA EmptyReport == RunTypes /\ result = NoResult => ResultIsTrue
<1> SUFFICES ASSUME RunTypes, result = NoResult, Run > 0 PROVE ReportTrue(Run)
  BY DEF ResultIsTrue, ReportTrue
<1>1. Run \in 1..Run
  BY DEF RunTypes, Run
<1> QED BY <1>1, NoFailure DEF NoResult

\* A step before there is a run directory.
LEMMA PlanningTrue ==
    ASSUME IInv, IInv', LInv, RunsLeft, inode' = inode, outcomes' = outcomes, result' = NoResult,
           pc' \in {"capture", "previewed", "revalidate"},
           \A i \in DOMAIN captures' : OwnerIsRecorded(captures'[i])
    PROVE  LInv'
<1>1. Grows /\ Unlinks /\ GoneIsGone'
  BY SameRuns, NothingGone DEF LInv, RunsLeft
<1>2. LogExplains'
  BY <1>1, LogLeft
<1>3. PlanIsRecorded' /\ MeasuredIsKept' /\ LogInv'
  BY DEF PlanIsRecorded, MeasuredIsKept, Matched, LogInv, Busy, OwnerIsRecorded, Tree
<1>4. ReportInv'
  BY DEF ReportInv, Busy, NoResult
<1>5. ResultIsTrue'
  <2>1. (RunTypes /\ result = NoResult => ResultIsTrue)'
    BY EmptyReport, PTL
  <2>2. NoResult' = NoResult
    BY DEF NoResult
  <2> QED BY <2>1, <2>2 DEF IInv, MoveInv
<1> QED BY <1>1, <1>2, <1>3, <1>4, <1>5 DEF LInv

LEMMA StartTrue == ASSUME IInv, IInv', LInv, StartPreview \/ Confirm \/ Revalidate PROVE LInv'
<1>1. /\ RunsLeft /\ inode' = inode /\ outcomes' = outcomes /\ captures' = captures
      /\ pc' \in {"capture", "previewed", "revalidate"}
  BY DEF StartPreview, Confirm, Revalidate, tree, copyVars, history, RunsLeft
<1>2. result' = NoResult
  BY DEF StartPreview, Confirm, Revalidate, LInv, ReportInv
<1>3. \A i \in DOMAIN captures : OwnerIsRecorded(captures[i])
  BY DEF LInv, PlanIsRecorded
<1> QED BY <1>1, <1>2, <1>3, PlanningTrue

LEMMA CaptureTrue == ASSUME IInv, IInv', LInv, NEW last \in BOOLEAN, Capture(last) PROVE LInv'
<1>1. /\ RunsLeft /\ inode' = inode /\ outcomes' = outcomes /\ result' = result
      /\ pc = "capture" /\ pc' \in {"capture", "previewed"}
  BY DEF Capture, tree, copyVars, history, RunsLeft
<1>2. result' = NoResult
  BY <1>1 DEF LInv, ReportInv
<1>3. PICK c \in reading : captures' = Append(captures, c)
  BY DEF Capture
<1>4. captures \in Seq(Captures) /\ OwnerIsRecorded(c)
  BY DEF IInv, MoveInv, Types, InspectionInv
<1>5. \A i \in DOMAIN captures' : captures'[i] = c \/ (i \in DOMAIN captures /\ captures'[i] = captures[i])
  BY <1>3, <1>4
<1>6. \A i \in DOMAIN captures' : OwnerIsRecorded(captures'[i])
  BY <1>4, <1>5 DEF LInv, PlanIsRecorded
<1> QED BY <1>1, <1>2, <1>6, PlanningTrue

\* The call is over and reports nothing.
LEMMA RestTrue ==
    ASSUME IInv, IInv', LInv, Grows, inode' = inode, gone' = gone, outcomes' = outcomes,
           result' = NoResult, pc' = "idle"
    PROVE  LInv'
<1>1. Unlinks /\ GoneIsGone'
  BY NothingGone DEF LInv
<1>2. LogExplains'
  BY <1>1, LogLeft
<1>3. ResultIsTrue'
  <2>1. (RunTypes /\ result = NoResult => ResultIsTrue)'
    BY EmptyReport, PTL
  <2>2. NoResult' = NoResult
    BY DEF NoResult
  <2> QED BY <2>1, <2>2 DEF IInv, MoveInv
<1>4. (IInv /\ GoneIsGone /\ pc = "idle" /\ LogExplains /\ ResultIsTrue => LInv)'
  BY AtRest, PTL
<1> QED BY <1>1, <1>2, <1>3, <1>4

LEMMA DismissTrue == ASSUME IInv, IInv', LInv, Dismiss PROVE LInv'
<1>1. /\ dst' = dst /\ named' = named /\ synced' = synced /\ digests' = digests
      /\ inode' = inode /\ gone' = gone /\ outcomes' = outcomes
      /\ result' = result /\ pc \in {"capture", "previewed", "revalidate"} /\ pc' = "idle"
  BY DEF Dismiss, tree, copyVars, history
<1>2. Grows /\ result = NoResult
  BY <1>1, SameRuns DEF LInv, ReportInv
<1> QED BY <1>1, <1>2, RestTrue

LEMMA CrashTrue == ASSUME IInv, IInv', LInv, NEW power \in BOOLEAN, Crash(power) PROVE LInv'
<1>1. /\ named' = named /\ synced' = synced /\ digests' = digests
      /\ inode' = inode /\ gone' = gone /\ outcomes' = outcomes
      /\ result' = NoResult /\ pc # "idle" /\ pc' = "idle"
      /\ dst' = [r \in 1..Run |-> [e \in Entries |->
                    IF power /\ ~Durable(r, e) THEN Absent ELSE dst[r][e]]]
  BY DEF Crash, Return, history, NoResult
<1>2. \A r \in 1..Run, e \in Entries :
         dst'[r][e] = IF power /\ ~Durable(r, e) THEN Absent ELSE dst[r][e]
  BY <1>1
<1>3. Grows
  BY <1>1, <1>2 DEF Grows
<1> QED BY <1>1, <1>3, RestTrue

\* The new run directory has an empty log.
LEMMA ExecuteTrue == ASSUME IInv, IInv', LInv, NEW prepared \in BOOLEAN, Execute(prepared) PROVE LInv'
<1>1. /\ inode' = inode /\ gone' = gone /\ result' = result /\ pc = "revalidate" /\ idx' = 1
      /\ \/ pc' = "check" /\ captures' = captures
         \/ pc' = "idle" /\ captures' = <<>>
      /\ digests' = Append(digests, captures) /\ outcomes' = Append(outcomes, <<>>)
      /\ dst' = Append(dst, [e \in Entries |-> Absent])
      /\ named' = Append(named, {}) /\ synced' = Append(synced, {})
  BY DEF Execute, tree
<1>2. /\ Run \in Nat /\ Run = Len(digests) /\ Len(outcomes) = Run /\ Len(dst) = Run
      /\ Len(named) = Run /\ Len(synced) = Run
      /\ digests \in Seq(Seq(Captures)) /\ outcomes \in Seq(Seq(Records)) /\ dst \in Seq([Entries -> Copies])
      /\ named \in Seq(SUBSET Entries) /\ synced \in Seq(SUBSET Files)
  BY DEF IInv, MoveInv, RunTypes, Run
<1>3. PICK n \in Nat : n = Run
  BY <1>2
<1>4. Run' = n + 1 /\ digests'[n + 1] = captures /\ outcomes'[n + 1] = <<>>
  BY <1>1, <1>2, <1>3 DEF Run
<1>5. \A r \in 1..n : /\ digests'[r] = digests[r] /\ outcomes'[r] = outcomes[r] /\ dst'[r] = dst[r]
                      /\ named'[r] = named[r] /\ synced'[r] = synced[r]
  BY <1>1, <1>2, <1>3
<1>6. /\ \A r \in 1..n : \A o : Statuses(r, o)' = Statuses(r, o)
      /\ \A r \in 1..n : \A e : Kept(r, e)' <=> Kept(r, e)
  <2>1. ASSUME NEW r \in 1..n, NEW o PROVE Statuses(r, o)' = Statuses(r, o)
    BY <1>5 DEF Statuses
  <2>2. ASSUME NEW r \in 1..n, NEW e PROVE Kept(r, e)' <=> Kept(r, e)
    BY <1>5 DEF Kept, Durable, Reaches
  <2> QED BY <2>1, <2>2
<1>7. \A o : Statuses(n + 1, o)' = {}
  BY <1>4 DEF Statuses
<1>8. \A r \in 1..n : ReservedFirst(r) /\ MovedWhole(r) /\ InOrder(outcomes[r])
  BY <1>3, LogIs DEF LInv, LogParts
<1>9. ASSUME NEW r \in 1..n PROVE ReservedFirst(r)' /\ MovedWhole(r)' /\ InOrder(outcomes'[r])
  <2>1. ReservedFirst(r)'
    BY <1>1, <1>6, <1>8 DEF ReservedFirst
  <2>2. MovedWhole(r)'
    <3>1. PICK plan : plan = digests[r] /\ plan = digests'[r]
      BY <1>5
    <3>2. ASSUME NEW i \in DOMAIN plan, NEW o, o = plan[i].path, "moved" \in Statuses(r, o)'
          PROVE  gone[o] = r /\ MeasuredKept(r, i)'
      <4>1. "moved" \in Statuses(r, o)
        BY <1>6, <3>2
      <4>2. gone[o] = r /\ MeasuredKept(r, i)
        BY <1>8, <3>1, <3>2, <4>1 DEF MovedWhole
      <4>3. MeasuredKept(r, i)'
        BY <1>6, <3>1, <4>2 DEF MeasuredKept, Tree
      <4> QED BY <4>2, <4>3
    <3>3. MovedWhole(r)' <=>
            \A i \in DOMAIN plan : \A o : o = plan[i].path /\ "moved" \in Statuses(r, o)' =>
                gone'[o] = r /\ MeasuredKept(r, i)'
      BY <3>1 DEF MovedWhole
    <3> QED BY <1>1, <3>2, <3>3
  <2> QED BY <1>5, <1>8, <2>1, <2>2
<1>10. ReservedFirst(n + 1)' /\ MovedWhole(n + 1)' /\ InOrder(outcomes'[n + 1])
  <2>1. \A e \in Entries : gone[e] # n + 1
    BY <1>2, <1>3 DEF IInv, MoveInv, RunTypes
  <2>2. ReservedFirst(n + 1)'
    BY <1>1, <2>1 DEF ReservedFirst
  <2>3. MovedWhole(n + 1)'
    BY <1>7 DEF MovedWhole
  <2>4. InOrder(<<>>)
    BY DEF InOrder
  <2> QED BY <1>4, <2>2, <2>3, <2>4
<1>11. LogExplains'
  <2>1. LogExplains' <=> LogParts'
    BY LogIs, PTL
  <2>2. \A r \in 1..(n + 1) : r \in 1..n \/ r = n + 1
    OBVIOUS
  <2> QED BY <1>4, <1>9, <1>10, <2>1, <2>2 DEF LogParts, InOrder
<1>12. GoneIsGone' /\ MeasuredIsKept'
  BY <1>1, NothingGone DEF LInv, MeasuredIsKept, Matched
<1>13. PlanIsRecorded'
  <2>1. CASE pc' = "check" /\ captures' = captures
    BY <1>4, <2>1 DEF LInv, PlanIsRecorded, OwnerIsRecorded, Tree
  <2>2. CASE pc' = "idle" /\ captures' = <<>>
    BY <2>2 DEF PlanIsRecorded, Busy
  <2> QED BY <1>1, <2>1, <2>2
<1>14. LogInv'
  BY <1>1, <1>4, <1>7 DEF LogInv, Busy
<1>15. result = NoResult
  BY <1>1 DEF LInv, ReportInv
<1>16. ReportInv'
  BY <1>1, <1>15 DEF ReportInv, NoResult
<1>17. ResultIsTrue'
  <2>1. (RunTypes /\ result = NoResult => ResultIsTrue)'
    BY EmptyReport, PTL
  <2>2. NoResult' = NoResult
    BY DEF NoResult
  <2> QED BY <1>1, <1>15, <2>1, <2>2 DEF IInv, MoveInv
<1> QED BY <1>11, <1>12, <1>13, <1>14, <1>16, <1>17 DEF LInv

LEMMA CheckTrue == ASSUME IInv, IInv', LInv, NEW stop \in BOOLEAN, CheckObject(stop) PROVE LInv'
<1>1. /\ pc = "check" /\ RunsLeft /\ outcomes' = outcomes /\ inode' = inode
      /\ \/ Break
         \/ pc' = "reserve" /\ captures' = captures /\ idx' = idx /\ result' = result
  BY DEF CheckObject, At, tree, copyVars, history, RunsLeft
<1>2. Busy /\ Grows /\ Unlinks /\ GoneIsGone'
  BY <1>1, SameRuns, NothingGone DEF Busy, RunsLeft, LInv
<1>3. CASE Break
  <2>1. LogExplains' /\ NoOther
    BY <1>1, <1>2, LogLeft, NoOtherIs
  <2> QED BY <1>1, <1>2, <1>3, <2>1, BreakTrue
<1>4. CASE pc' = "reserve" /\ captures' = captures /\ idx' = idx /\ result' = result
  <2>1. MeasuredIsKept'
    BY <1>4 DEF MeasuredIsKept, Matched
  <2> QED BY <1>1, <1>2, <1>4, <2>1, StepTrue
<1> QED BY <1>1, <1>3, <1>4

LEMMA ReserveTrue == ASSUME IInv, IInv', LInv, NEW written \in BOOLEAN, Reserve(written) PROVE LInv'
<1>1. /\ pc = "reserve" /\ RunsLeft /\ inode' = inode
      /\ \/ Record("reserved") /\ Continue("prepare")
         \/ Break /\ outcomes' = outcomes
  BY DEF Reserve, At, tree, copyVars, history, RunsLeft
<1>2. Busy /\ Grows /\ Unlinks /\ GoneIsGone'
  BY <1>1, SameRuns, NothingGone DEF Busy, RunsLeft, LInv
<1>3. CASE Break /\ outcomes' = outcomes
  <2>1. LogExplains' /\ NoOther
    BY <1>2, <1>3, LogLeft, NoOtherIs
  <2> QED BY <1>1, <1>2, <1>3, <2>1, BreakTrue
<1>4. CASE Record("reserved") /\ Continue("prepare")
  <2>1. pc' = "prepare" /\ captures' = captures /\ idx' = idx /\ result' = result
    BY <1>4 DEF Continue
  <2>2. LogExplains'
    BY <1>1, <1>2, <1>4, LogAppended
  <2>3. PICK r : r = Run
    OBVIOUS
  <2>4. /\ Run' = r /\ r \in 1..Run /\ digests[r] = captures /\ digests' = digests
        /\ dst' = dst /\ gone' = gone /\ result.failure = "none" /\ Object' = Object
        /\ idx \in DOMAIN captures
        /\ \A i \in DOMAIN captures : captures[i].path = Object => i = idx
    BY <1>1, <1>2, <2>1, <2>3, PlanIs DEF RunsLeft, Run, Object
  <2>5. \A o, s : s \in Statuses(r, o)' <=> s \in Statuses(r, o) \/ (o = Object /\ s = "reserved")
    BY <1>2, <1>4, <2>3, <2>4, StatusesAre
  <2>6. PlanIsRecorded' /\ MeasuredIsKept'
    BY <1>1, <1>2, <2>1, <2>4 DEF LInv, PlanIsRecorded, OwnerIsRecorded, MeasuredIsKept, Matched, Tree
  <2>7. LogInv'
    <3>1. PICK n : n = Len(outcomes[r])
      OBVIOUS
    <3>2. /\ n \in Nat /\ Len(outcomes'[r]) = n + 1 /\ DOMAIN outcomes'[r] = 1..(n + 1)
          /\ outcomes'[r][n + 1] = [object |-> Object, status |-> "reserved"]
      BY <1>2, <1>4, <2>3, <3>1, RecordIs
    <3>3. outcomes'[r] # <<>>
      BY <3>2
    <3>4. ASSUME NEW j \in DOMAIN captures, NEW o, o = captures[j].path
          PROVE  /\ j > idx => Statuses(r, o)' = {}
                 /\ j = idx => Statuses(r, o)' \subseteq {"reserved"}
      <4>1. ASSUME j > idx PROVE Statuses(r, o)' = {}
        <5>1. Statuses(r, o) = {}
          BY <1>2, <2>3, <3>4, <4>1, NoEndYet
        <5>2. o # Object
          BY <2>4, <3>4, <4>1 DEF IInv, MoveInv, Types
        <5> QED BY <2>5, <5>1, <5>2
      <4>2. ASSUME j = idx PROVE Statuses(r, o)' \subseteq {"reserved"}
        <5>1. o = Object /\ Statuses(r, o) \subseteq {"reserved"}
          BY <1>2, <2>3, <3>4, <4>2, NoEndYet DEF Object
        <5> QED BY <2>5, <5>1
      <4> QED BY <4>1, <4>2
    <3> QED BY <2>1, <2>4, <3>2, <3>3, <3>4 DEF LogInv
  <2>8. ReportInv'
    BY <1>2, <2>1 DEF LInv, ReportInv, Busy
  <2>9. ResultIsTrue'
    <3>1. ReportTrue(r)
      BY <1>2, <2>3, PlanIs, ReportIs DEF LInv
    <3>2. \A o \in result.moved : "moved" \in Statuses(r, o)' /\ gone[o] = r
      BY <2>5, <3>1 DEF ReportTrue
    <3>3. \A i \in DOMAIN digests[r] : digests[r][i].path # "none"
      BY <2>4, DigestIs DEF IInv, MoveInv
    <3> QED BY <2>1, <2>4, <3>2, <3>3 DEF ResultIsTrue
  <2> QED BY <1>2, <2>2, <2>6, <2>7, <2>8, <2>9 DEF LInv
<1> QED BY <1>1, <1>3, <1>4

LEMMA FailTrue == ASSUME IInv, IInv', LInv, NEW written \in BOOLEAN, Fail(written) PROVE LInv'
<1>1. /\ pc = "failed" /\ RunsLeft /\ inode' = inode /\ Break
      /\ Record("failed") \/ outcomes' = outcomes
  BY DEF Fail, At, tree, copyVars, history, RunsLeft
<1>2. Busy /\ Grows /\ Unlinks
  BY <1>1, SameRuns, NothingGone DEF Busy, RunsLeft, LInv
<1>3. NoOther
  BY <1>1, <1>2, NoOtherIs
<1>4. LogExplains'
  <2>1. CASE Record("failed")
    BY <1>1, <1>2, <2>1, LogAppended
  <2>2. CASE outcomes' = outcomes
    BY <1>2, <2>2, LogLeft
  <2> QED BY <1>1, <2>1, <2>2
<1> QED BY <1>1, <1>2, <1>3, <1>4, BreakTrue

\* An object is recorded and counted as moved when it is gone.
LEMMA MovedTrue == ASSUME IInv, IInv', LInv, NEW written \in BOOLEAN, Moved(written) PROVE LInv'
<1>1. /\ pc = "remove" /\ RunsLeft /\ inode' = inode /\ todo = {} /\ finish = {}
      /\ \/ Break /\ outcomes' = outcomes
         \/ /\ Record("moved")
            /\ \/ Return(result.moved \cup {Object}, "none")
               \/ /\ pc' = "check" /\ idx' = idx + 1 /\ captures' = captures
                  /\ result' = [result EXCEPT !.moved = @ \cup {Object}]
  BY DEF Moved, At, tree, copyVars, history, RunsLeft
<1>2. Busy /\ Grows /\ Unlinks /\ GoneIsGone'
  BY <1>1, SameRuns, NothingGone DEF Busy, RunsLeft, LInv
<1>3. CASE Break /\ outcomes' = outcomes
  <2>1. LogExplains' /\ NoOther
    BY <1>2, <1>3, LogLeft, NoOtherIs
  <2> QED BY <1>1, <1>2, <1>3, <2>1, BreakTrue
<1>4. CASE /\ Record("moved")
           /\ \/ Return(result.moved \cup {Object}, "none")
              \/ /\ pc' = "check" /\ idx' = idx + 1 /\ captures' = captures
                 /\ result' = [result EXCEPT !.moved = @ \cup {Object}]
  <2>1. /\ gone[Object] = Run
        /\ \A e \in Tree(Object) : Measured.entries[e] = "own" => Kept(Run, e)
    BY <1>1 DEF LInv, MeasuredIsKept, Matched
  <2>2. LogExplains'
    BY <1>1, <1>2, <1>4, <2>1, LogAppended
  <2>3. PICK r : r = Run
    OBVIOUS
  <2>4. /\ Run' = r /\ r \in 1..Run /\ digests[r] = captures /\ digests' = digests
        /\ dst' = dst /\ gone' = gone /\ result.failure = "none"
        /\ idx \in DOMAIN captures
        /\ \A i \in DOMAIN captures : captures[i].path = Object => i = idx
    BY <1>1, <1>2, <2>3, PlanIs DEF RunsLeft, Run
  <2>5. \A o, s : s \in Statuses(r, o)' <=> s \in Statuses(r, o) \/ (o = Object /\ s = "moved")
    BY <1>2, <1>4, <2>3, <2>4, StatusesAre
  <2>6. result'.moved = result.moved \cup {Object} /\ result'.failure = "none"
    <3>1. result \in [moved : SUBSET Objects, failure : Objects \cup {"none"}]
      BY DEF IInv, MoveInv, Types
    <3> QED BY <1>4, <2>4, <3>1 DEF Return
  <2>7. ResultIsTrue'
    <3>1. ReportTrue(r)
      BY <1>2, <2>3, PlanIs, ReportIs DEF LInv
    <3>2. \A o \in result.moved \cup {Object} : "moved" \in Statuses(r, o)' /\ gone[o] = r
      BY <2>1, <2>3, <2>5, <3>1 DEF ReportTrue
    <3>3. \A i \in DOMAIN digests[r] : digests[r][i].path # "none"
      BY <2>4, DigestIs DEF IInv, MoveInv
    <3> QED BY <2>4, <2>6, <3>2, <3>3 DEF ResultIsTrue
  <2>8. CASE Return(result.moved \cup {Object}, "none")
    <3>1. pc' = "idle"
      BY <2>8 DEF Return
    <3>2. (IInv /\ GoneIsGone /\ pc = "idle" /\ LogExplains /\ ResultIsTrue => LInv)'
      BY AtRest, PTL
    <3> QED BY <1>2, <2>2, <2>7, <3>1, <3>2
  <2>9. CASE pc' = "check" /\ idx' = idx + 1 /\ captures' = captures
    <3>1. idx \in Nat
      BY DEF IInv, MoveInv, Types
    <3>2. PlanIsRecorded' /\ MeasuredIsKept'
      BY <1>2, <2>4, <2>9 DEF LInv, PlanIsRecorded, OwnerIsRecorded, MeasuredIsKept, Matched, Tree
    <3>3. LogInv'
      <4>1. PICK n : n = Len(outcomes[r])
        OBVIOUS
      <4>2. /\ n \in Nat /\ Len(outcomes'[r]) = n + 1
            /\ outcomes'[r][n + 1] = [object |-> Object, status |-> "moved"]
        BY <1>2, <1>4, <2>3, <4>1, RecordIs
      <4>3. outcomes'[r][Len(outcomes'[r])].status = "moved"
        BY <4>2
      <4>4. ASSUME NEW j \in DOMAIN captures, NEW o, o = captures[j].path, j > idx
            PROVE  Statuses(r, o)' = {}
        <5>1. Statuses(r, o) = {}
          BY <1>2, <2>3, <4>4, NoEndYet
        <5>2. o # Object
          BY <2>4, <3>1, <4>4
        <5> QED BY <2>5, <5>1, <5>2
      <4>5. ASSUME NEW j \in DOMAIN captures, NEW o, o = captures[j].path
            PROVE  /\ j > idx + 1 => Statuses(r, o)' = {}
                   /\ j = idx + 1 => Statuses(r, o)' \subseteq {"reserved"}
        <5>1. j \in Nat /\ (j > idx + 1 \/ j = idx + 1 => j > idx)
          BY <3>1 DEF IInv, MoveInv, Types
        <5> QED BY <4>4, <4>5, <5>1
      <4> QED BY <2>4, <2>9, <4>3, <4>5 DEF LogInv
    <3>4. ReportInv'
      <4>1. \A o \in result.moved : \E j \in DOMAIN captures : j < idx /\ captures[j].path = o
        BY <1>2 DEF LInv, ReportInv
      <4>2. \A j \in DOMAIN captures : j \in Nat
        BY DEF IInv, MoveInv, Types
      <4>3. \A o \in result.moved : \E j \in DOMAIN captures : j < idx + 1 /\ captures[j].path = o
        BY <3>1, <4>1, <4>2
      <4>4. idx < idx + 1 /\ captures[idx].path = Object
        BY <3>1 DEF Object
      <4> QED BY <2>4, <2>6, <2>9, <4>3, <4>4 DEF ReportInv
    <3> QED BY <1>2, <2>2, <2>7, <3>2, <3>3, <3>4 DEF LInv
  <2> QED BY <1>4, <2>8, <2>9
<1> QED BY <1>1, <1>3, <1>4

LEMMA NextTrue == ASSUME IInv, IInv', LInv, [Next]_vars PROVE LInv'
<1>1. CASE Worker
  <2>1. ASSUME NEW stop \in BOOLEAN, CheckObject(stop) PROVE LInv'
    BY <2>1, CheckTrue
  <2>2. ASSUME NEW written \in BOOLEAN, Reserve(written) \/ Fail(written) \/ Moved(written) PROVE LInv'
    BY <2>2, ReserveTrue, FailTrue, MovedTrue
  <2>3. CASE Stop \/ Prepare \/ Differs \/ EndCopy \/ EndVerify
    BY <2>3, ChecksTrue
  <2>4. ASSUME NEW e \in Entries, EnterDirectory(e) \/ BeginFile(e) \/ FinishDirectory(e) PROVE LInv'
    BY <2>4, CopyingTrue
  <2>5. ASSUME NEW c \in Stamps \cup {Torn}, EndFile(c) PROVE LInv'
    <3>1. target \in Entries
      BY <2>5, QuarantineAssumption DEF EndFile, IInv, MoveInv, Types, Files
    <3> QED BY <2>5, <3>1, CopyingTrue
  <2>6. ASSUME NEW e \in Entries, VerifyEntry(e) PROVE LInv'
    BY <2>6, ChecksTrue
  <2>7. ASSUME NEW e \in Entries, VisitDirectory(e) \/ VisitFile(e) PROVE LInv'
    BY <2>7, VisitTrue
  <2>8. ASSUME NEW e \in Entries, RemoveDirectory(e) PROVE LInv'
    BY <2>8, UnlinkingTrue
  <2>9. CASE Recheck
    BY <2>9, RecheckTrue
  <2>10. CASE SyncDestination
    BY <2>10, SyncTrue
  <2>11. CASE UnlinkFile
    BY <2>11, UnlinkingTrue
  <2> QED BY <1>1, <2>1, <2>2, <2>3, <2>4, <2>5, <2>6, <2>7, <2>8, <2>9, <2>10, <2>11 DEF Worker
<1>2. CASE Next /\ ~Worker
  BY <1>2, MeasureTrue, ScanTrue, StartTrue, CaptureTrue, DismissTrue, ExecuteTrue, CrashTrue,
     OthersTrue DEF Next
<1>3. CASE UNCHANGED vars
  BY <1>3, StutterTrue
<1> QED BY <1>1, <1>2, <1>3

LEMMA InitTrue == Init => LInv
<1> SUFFICES ASSUME Init PROVE LInv
  OBVIOUS
<1>1. IInv /\ pc = "idle" /\ Run = 0 /\ result = NoResult
  BY InitGood DEF Init, Run
<1>2. GoneIsGone
  BY DEF Init, GoneIsGone
<1>3. LogExplains /\ ResultIsTrue
  BY <1>1 DEF LogExplains, ResultIsTrue
<1> QED BY <1>1, <1>2, <1>3, AtRest

\* The records of outcomes.jsonl agree with the disk at every step, also for
\* whoever reads them after a crash or a loss of power, and so does what
\* execute_captures returns: what is missing below an object was recorded
\* before, and what is recorded as moved is gone and whole in the copy.
THEOREM RecordsTheorem == Spec => []RecordsAreTrue
<1>1. Init => LInv
  BY InitTrue
<1>2. IInv /\ IInv' /\ LInv /\ [Next]_vars => LInv'
  BY NextTrue
<1>3. IInv /\ LInv => RecordsAreTrue
  BY Implied DEF LInv, RecordsAreTrue
<1> QED BY <1>1, <1>2, <1>3, Inductive, PTL DEF Spec

=============================================================================
