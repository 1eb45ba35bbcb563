--------------------------- MODULE AttemptLedger ----------------------------
(***************************************************************************)
(* What the audit store promises the code that deletes files, with no      *)
(* database, lock, fence, process or crash: each action of an              *)
(* authorization is attempted at most once, its outcome is written at most *)
(* once and only by the holder of a claimed authorization, and the         *)
(* authorization ends only when every attempt has an outcome.              *)
(***************************************************************************)
CONSTANTS Auths, Actions, Outcomes, NoOutcome

VARIABLES
    phase,   \* of each authorization
    ledger   \* of each action of each authorization

Untried == [state |-> "untried", outcome |-> NoOutcome]
Open == [state |-> "open", outcome |-> NoOutcome]
Settled(outcome) == [state |-> "settled", outcome |-> outcome]

Init ==
    /\ phase = [a \in Auths |-> "absent"]
    /\ ledger = [a \in Auths |-> [x \in Actions |-> Untried]]

Advance(a, from, to) ==
    /\ phase[a] = from
    /\ phase' = [phase EXCEPT ![a] = to]
    /\ UNCHANGED ledger

Register(a) == Advance(a, "absent", "unused")
Claim(a) == Advance(a, "unused", "claimed")

Consume(a) ==
    /\ \A x \in Actions : ledger[a][x].state # "open"
    /\ Advance(a, "claimed", "consumed")

Write(a, x, entry) ==
    /\ phase[a] = "claimed"
    /\ ledger' = [ledger EXCEPT ![a] = [@ EXCEPT ![x] = entry]]
    /\ UNCHANGED phase

Attempt(a, x) == ledger[a][x] = Untried /\ Write(a, x, Open)
Settle(a, x, outcome) == ledger[a][x] = Open /\ Write(a, x, Settled(outcome))

Next ==
    \E a \in Auths :
        \/ Register(a) \/ Claim(a) \/ Consume(a)
        \/ \E x \in Actions :
              Attempt(a, x) \/ \E outcome \in Outcomes : Settle(a, x, outcome)

Spec == Init /\ [][Next]_<<phase, ledger>>
=============================================================================
