--------------------------- MODULE SerialExecutor ---------------------------
(* What src/backend/src/database/sqlite-compat.ts promises of its gate:    *)
(* work is taken in the order it came, and nothing is begun before what    *)
(* was begun earlier has ended.                                            *)
EXTENDS Sequences

CONSTANT Works  \* transactions, saves and queries

VARIABLES
    submitted, \* the works that asked for a turn
    queue,     \* those still waiting, first come first
    holders    \* those that have the turn: one at most

vars == <<submitted, queue, holders>>

Init == submitted = {} /\ queue = <<>> /\ holders = {}

Submit(w) ==
    /\ w \notin submitted
    /\ submitted' = submitted \cup {w}
    /\ queue' = Append(queue, w)
    /\ UNCHANGED holders

Begin(w) ==
    /\ holders = {}
    /\ queue # <<>> /\ w = Head(queue)
    /\ holders' = {w}
    /\ queue' = Tail(queue)
    /\ UNCHANGED submitted

End(w) ==
    /\ w \in holders
    /\ holders' = holders \ {w}
    /\ UNCHANGED <<submitted, queue>>

Next == \E w \in Works : Submit(w) \/ Begin(w) \/ End(w)

\* What the gate never does, and what it does in the end: a turn that can begin
\* does, and every turn ends.
Safety == Init /\ [][Next]_vars
Spec   == Safety /\ WF_vars(\E w \in Works : Begin(w) \/ End(w))

=============================================================================
