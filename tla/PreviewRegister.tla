--------------------------- MODULE PreviewRegister ---------------------------
(***************************************************************************)
(* What AtomicGenerationStore (crates/sweepx-cache) promises its callers:  *)
(* one register that holds the committed preview generation.  A write sets *)
(* it at once or not at all; a load gives back a value the register had    *)
(* while the load ran, and misses only if the register was empty or        *)
(* changed meanwhile.  Loads and writes may fail at any time.              *)
(***************************************************************************)
CONSTANTS Procs, Ids, Empty

VARIABLES
    value,   \* the committed generation, or Empty
    hurt,    \* bytes of the store were damaged
    seen,    \* the values it had since the load of a process began
    answer   \* what the last call of a process returned

NoAnswer == [kind |-> "none", id |-> Empty]
Answer(kind) == [kind |-> kind, id |-> Empty]
Of(kind, g) == [kind |-> kind, id |-> g]

Loading(p) == seen[p] # {}

\* Every load that is under way sees the new value.
Set(v) ==
    /\ value' = v
    /\ seen' = [p \in Procs |-> IF Loading(p) THEN seen[p] \cup {v} ELSE {}]

Init ==
    /\ value = Empty
    /\ hurt = FALSE
    /\ seen = [p \in Procs |-> {}]
    /\ answer = [p \in Procs |-> NoAnswer]

\* What is written may be damaged before it is committed.
Write(p, g) ==
    /\ ~Loading(p)
    /\ Set(g) \/ (hurt /\ Set(Empty))
    /\ answer' = [answer EXCEPT ![p] = Of("written", g)]
    /\ UNCHANGED hurt

\* Something else damages bytes, perhaps those of the committed generation.
Damage ==
    /\ hurt' = TRUE
    /\ Set(Empty) \/ UNCHANGED <<value, seen>>
    /\ UNCHANGED answer

\* A new call, or a process that failed and starts again.
Begin(p) ==
    /\ answer' = [answer EXCEPT ![p] = NoAnswer]
    /\ \/ seen' = [seen EXCEPT ![p] = {}]
       \/ seen' = [seen EXCEPT ![p] = {value}]
    /\ UNCHANGED <<value, hurt>>

Refuse(p) ==
    /\ answer' = [answer EXCEPT ![p] = Answer("error")]
    /\ seen' = [seen EXCEPT ![p] = {}]
    /\ UNCHANGED <<value, hurt>>

Hit(p) ==
    /\ \E g \in seen[p] \ {Empty} : answer' = [answer EXCEPT ![p] = Of("hit", g)]
    /\ seen' = [seen EXCEPT ![p] = {}]
    /\ UNCHANGED <<value, hurt>>

Miss(p) ==
    /\ Empty \in seen[p] \/ \E v, w \in seen[p] : v # w
    /\ answer' = [answer EXCEPT ![p] = Answer("miss")]
    /\ seen' = [seen EXCEPT ![p] = {}]
    /\ UNCHANGED <<value, hurt>>

Next ==
    \/ Damage
    \/ \E p \in Procs : \/ Begin(p) \/ Refuse(p) \/ Hit(p) \/ Miss(p)
                        \/ \E g \in Ids : Write(p, g)

Spec == Init /\ [][Next]_<<value, hurt, seen, answer>>

=============================================================================
