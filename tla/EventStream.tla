------------------------------ MODULE EventStream ------------------------------
(***************************************************************************)
(* What the journal of an operation promises: a stream that begins with    *)
(* the start of the operation, only grows, and grows no more once its      *)
(* terminal event, with the snapshot it names, is the last one.            *)
(***************************************************************************)
EXTENDS Naturals, Sequences

CONSTANTS None, Starts(_), Ends(_), Follows(_, _)

VARIABLES log, final   \* the events; the snapshot that closed them, or None

Empty == log = <<>> /\ final = None

\* One event, at the end of a stream that is open.
Grow(e) ==
    /\ final = None
    /\ Starts(e) <=> log = <<>>
    /\ \A n \in DOMAIN log : Follows(log[n], e)
    /\ log' = Append(log, e)
    /\ IF Ends(e) THEN final' = e.snapshot ELSE final' = None

\* A whole stream at once.
Record(s) ==
    /\ Empty /\ s # <<>>
    /\ \A n \in DOMAIN s : (Starts(s[n]) <=> n = 1) /\ (Ends(s[n]) <=> n = Len(s))
    /\ \A m, n \in DOMAIN s : m < n => Follows(s[m], s[n])
    /\ log' = s
    /\ final' = s[Len(s)].snapshot

\* The journal is removed.
Discard == log' = <<>> /\ final' = None

Next == Discard \/ Record(log') \/ (log' # <<>> /\ Grow(log'[Len(log')]))

Spec == Empty /\ [][Next]_<<log, final>>
=============================================================================
