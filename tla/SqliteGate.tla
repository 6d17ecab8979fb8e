----------------------------- MODULE SqliteGate -----------------------------
(***************************************************************************)
(* installSqliteGate of src/backend/src/database/sqlite-compat.ts: the     *)
(* whole backend shares one SQLite connection, and the gate lets one       *)
(* transaction, save or query use it at a time.  A call of the gate from   *)
(* inside the work that has the turn runs straight through; any other call *)
(* waits for the promise chain `tail`.                                     *)
(*                                                                         *)
(* A work is one call of gated(): its handler runs a number of statements  *)
(* and makes further calls, in any order, and may throw.  Legs are the     *)
(* queries a handler sends together with Promise.all (completeInvestment   *)
(* reads a user and a plan that way): when one of them rejects, the        *)
(* handler goes on and the others may still reach the gate later, in the   *)
(* context of a turn that is over.                                         *)
(***************************************************************************)
EXTENDS Naturals, Sequences, FiniteSets

CONSTANTS
    Works,      \* the calls of gated()
    NoWork,     \* the caller of a call that no other work makes
    Within,     \* the work that makes a call, or NoWork
    Legs,       \* the calls made through Promise.all
    Statements  \* how many statements a work runs itself

ASSUME GateConstantsOK ==
    /\ IsFiniteSet(Works)
    /\ NoWork \notin Works
    /\ Within \in [Works -> Works \cup {NoWork}]
    /\ Legs \subseteq Works
    /\ \E depth \in [Works -> 0 .. Cardinality(Works)] : \A w \in Works :
         Within[w] # NoWork => depth[Within[w]] < depth[w]
    /\ Statements \in [Works -> Nat \ {0}]
    /\ \A leg \in Legs : /\ Within[leg] # NoWork
                         /\ Statements[leg] = 1
                         /\ \A w \in Works : Within[w] # leg

VARIABLES
    pc,     \* how far a work is
    left,   \* statements it has yet to run
    token,  \* the work whose token is in its AsyncLocalStorage context
    active, \* the works whose token is active
    chain   \* the promises chained on `tail`, by the work that made each

vars == <<pc, left, token, active, chain>>

Init ==
    /\ pc = [w \in Works |-> "idle"]
    /\ left = Statements
    /\ token = [w \in Works |-> NoWork]
    /\ active = {}
    /\ chain = <<>>

-----------------------------------------------------------------------------
(* Calling the gate.                                                       *)

\* holder.getStore() where w is called.
Context(w) == IF Within[w] = NoWork THEN NoWork ELSE token[Within[w]]

\* Mutants of Enters: any context lets through; none does.
EntersStale(w) == Context(w) # NoWork
EntersNever(w) == FALSE

\* Whether the call runs straight through.
Enters(w) == Context(w) \in active

CallerIs(w, states) == Within[w] # NoWork /\ pc[Within[w]] \in states

\* The code that calls w gets there: from outside at any time, from a handler
\* while it runs, or from a Promise.all whose handler has thrown meanwhile.
Reached(w) ==
    /\ pc[w] = "idle"
    /\ \/ Within[w] = NoWork
       \/ CallerIs(w, {"running"})
       \/ w \in Legs /\ CallerIs(w, {"settled", "done"})

\* Straight through: the work runs in the context of its caller.
Enter(w) ==
    /\ Reached(w) /\ Enters(w) /\ w \notin Legs
    /\ pc' = [pc EXCEPT ![w] = "running"]
    /\ token' = [token EXCEPT ![w] = Context(w)]
    /\ UNCHANGED <<left, active, chain>>

\* Straight through, one query: better-sqlite3 answers before anything else runs.
EnterQuery(w) ==
    /\ Reached(w) /\ Enters(w) /\ w \in Legs
    /\ pc' = [pc EXCEPT ![w] = "done"]
    /\ left' = [left EXCEPT ![w] = 0]
    /\ token' = [token EXCEPT ![w] = Context(w)]
    /\ UNCHANGED <<active, chain>>

\* Mutant of Enqueue: what goes into the chain is the context of the call.
EnqueueContext(w) ==
    /\ Reached(w) /\ ~Enters(w)
    /\ pc' = [pc EXCEPT ![w] = "waiting"]
    /\ token' = [token EXCEPT ![w] = w]
    /\ active' = active \cup {w}
    /\ chain' = Append(chain, Context(w))
    /\ UNCHANGED left

\* A new token, chained on tail.
Enqueue(w) ==
    /\ Reached(w) /\ ~Enters(w)
    /\ pc' = [pc EXCEPT ![w] = "waiting"]
    /\ token' = [token EXCEPT ![w] = w]
    /\ active' = active \cup {w}
    /\ chain' = Append(chain, w)
    /\ UNCHANGED left

-----------------------------------------------------------------------------
(* Running.                                                                *)

\* Mutant of Resolved: the next work waits for `result`, not for `finished`.
ResolvedEarly(w) == pc[w] \in {"settled", "done"}

\* Mutant of Resolved: without the catch, a rejection stops the chain.
ResolvedUncaught(w) == pc[w] = "done" /\ left[w] = 0

\* The promise w left in tail is resolved.
Resolved(w) == pc[w] = "done"

\* tail.then(() => holder.run(token, work)).
Start(w) ==
    /\ pc[w] = "waiting"
    /\ \A n \in 2 .. Len(chain) : chain[n] = w => Resolved(chain[n - 1])
    /\ pc' = [pc EXCEPT ![w] = "running"]
    /\ UNCHANGED <<left, token, active, chain>>

\* A handler awaits a call it made.
Awaits(w, call) ==
    Within[call] = w /\ pc[call] \in {"waiting", "running", "settled"}

Statement(w) ==
    /\ pc[w] = "running" /\ left[w] > 0
    /\ \A call \in Works : ~Awaits(w, call)
    /\ left' = [left EXCEPT ![w] = @ - 1]
    /\ UNCHANGED <<pc, token, active, chain>>

\* The promise of w settles; that of a queued work is `result`.
Settle(w) ==
    /\ pc' = [pc EXCEPT ![w] = IF token[w] = w THEN "settled" ELSE "done"]
    /\ UNCHANGED <<left, token, active, chain>>

Return(w) ==
    /\ pc[w] = "running" /\ left[w] = 0
    /\ \A call \in Works : Within[call] = w => pc[call] = "done"
    /\ Settle(w)

\* A handler that awaits a Promise.all does not wait for all its legs.
Throw(w) ==
    /\ pc[w] = "running"
    /\ \A call \in Works \ Legs : ~Awaits(w, call)
    /\ Settle(w)

\* Mutant of Release: the token stays active.
ReleaseActive(w) ==
    /\ pc[w] = "settled"
    /\ pc' = [pc EXCEPT ![w] = "done"]
    /\ UNCHANGED <<left, token, active, chain>>

\* `finished`: after result settled, fulfilled or rejected.
Release(w) ==
    /\ pc[w] = "settled"
    /\ pc' = [pc EXCEPT ![w] = "done"]
    /\ active' = active \ {w}
    /\ UNCHANGED <<left, token, chain>>

Call(w) == Enter(w) \/ EnterQuery(w) \/ Enqueue(w)
Run(w)  == Start(w) \/ Statement(w) \/ Return(w) \/ Throw(w) \/ Release(w)

Next == \E w \in Works : Call(w) \/ Run(w)

\* Promise callbacks run, and handlers go on: nothing outside has to call.
FairCall(w) == CallerIs(w, {"running"}) /\ Call(w)

Spec     == Init /\ [][Next]_vars
FairSpec == Spec /\ \A w \in Works : WF_vars(Run(w) \/ FairCall(w))

-----------------------------------------------------------------------------
(* Properties.                                                             *)

States == {"idle", "waiting", "running", "settled", "done"}

TypeOK ==
    /\ pc \in [Works -> States]
    /\ left \in [Works -> Nat]
    /\ token \in [Works -> Works \cup {NoWork}]
    /\ active \subseteq Works
    /\ chain \in Seq(Works)

\* The calls a work makes belong to its family, and theirs.
Family(S) ==
    \A w \in Works : Within[w] # NoWork => (w \in S <=> Within[w] \in S)
Kin(w, v) == \A S \in SUBSET Works : Family(S) /\ w \in S => v \in S

\* Between BEGIN and COMMIT or ROLLBACK.
Open(w) == pc[w] = "running" /\ left[w] < Statements[w]

\* "two overlapping transactions would run inside each other: one could read
\* the other's uncommitted balance, and a rollback would undo both": while a
\* transaction is open, only calls made from inside it reach the database.
NoStrangerStatement ==
    [][\A w, v \in Works :
          left'[w] # left[w] /\ Open(v) => Kin(w, v)]_vars

\* "Work started inside a holder runs straight through, so nesting cannot
\* deadlock": a running handler never awaits a call that queues behind it.
NestingNeverWaits ==
    \A w \in Works : pc[w] = "waiting" => ~CallerIs(w, {"running"})

\* What w cannot go on without: the promise before its own in the chain, or a
\* call it has made.
WaitsFor(w, v) ==
    \/ /\ pc[w] = "waiting" /\ ~Resolved(v)
       /\ \E n \in 2 .. Len(chain) : chain[n - 1] = v /\ chain[n] = w
    \/ pc[w] = "running" /\ Awaits(w, v)

\* "so nesting cannot deadlock", all of it: calls that queue, calls that run
\* straight through and calls that come after their turn never wait for one
\* another in a circle, through the chain, through nesting or through both.
NoCircularWait ==
    \A S \in SUBSET Works : S # {} => \E w \in S : \A v \in S : ~WaitsFor(w, v)

\* A rejected work does not stop the chain: every queued call gets its turn
\* and its answer.
EveryCallSettles == \A w \in Works : pc[w] = "waiting" ~> pc[w] = "done"

\* The gate is a first come first served executor of one work at a time: the
\* works of the chain that have begun are its first ones, the others queue.
Holders == {w \in Works : token[w] = w /\ pc[w] \in {"running", "settled"}}
Begun   == Cardinality({n \in 1 .. Len(chain) : pc[chain[n]] # "waiting"})
Abstract == INSTANCE SerialExecutor WITH
    submitted <- {w \in Works : token[w] = w},
    queue     <- SubSeq(chain, Begun + 1, Len(chain)),
    holders   <- Holders
ServesInTurn == Abstract!Spec

=============================================================================
