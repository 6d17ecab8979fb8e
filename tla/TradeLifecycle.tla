--------------------------- MODULE TradeLifecycle ---------------------------
(***************************************************************************)
(* The life of a trade (an Investment row) in                              *)
(* src/backend/src/investments/investments.service.ts and the admin        *)
(* dispatch of src/backend/src/admin/admin.service.ts, on the SQLite       *)
(* deployment: the gate of src/backend/src/database/sqlite-compat.ts runs  *)
(* one transaction, save or query at a time, so each of these is one       *)
(* atomic step here.  A handler that reads a row before its transaction    *)
(* takes two steps, and whatever it keeps of the first read travels in     *)
(* the pending request.  TypeORM's save(entity) writes every column of the *)
(* entity that differs from the stored row, so a handler that saves the    *)
(* entity of its first read writes that whole row back.                    *)
(*                                                                         *)
(* Amounts are integers in the smallest unit the reader cares about, in    *)
(* USD (a wallet whose rate is 1); times are ticks of an abstract clock.   *)
(***************************************************************************)
EXTENDS Integers, FiniteSets, FiniteSetsExt, Functions

CONSTANTS
    Trades,            \* ids of investment rows
    Users,             \* owners of wallets and trades
    Admins,            \* admin requests that can be in flight at once
    Clients,           \* endEarly requests that can be in flight at once
    Sweeps,            \* processInvestments() passes that can overlap
    Plans,             \* the terms a plan may have when a trade starts
    Principals,        \* amounts a user asks to invest
    ManualAmounts,     \* amounts of manual accruals (the DTO allows a sign)
    InitialBalance,    \* what every wallet holds at first
    MinRate, MaxRate,  \* plan.rateRange, in percent
    CommissionPercent, \* setting referral_profit_commission_percent
    Referred,          \* users whose referrer has a fiat_usd wallet
    MaxPeriodsPerPass, \* MAX_PERIODS_PER_PASS
    MaxTime,           \* bound: last tick of the clock
    MaxManual,         \* bound: no manual accrual past this |profitAccrued|
    MaxPayouts,        \* bound: only deletions of a trade paid out this often
    MaxFaults          \* bound: failed transactions and process restarts

\* endDate of a trade whose plan has no fixed cycle (null in the code).
Never == -1

Plan == [payFrequency : Nat, term : Nat \cup {Never}, minTerm : Nat]

ASSUME ConstantsOK ==
    /\ Trades # {} /\ Users # {}
    /\ IsFiniteSet(Trades) /\ IsFiniteSet(Users)
    /\ Admins \cap Clients = {}
    /\ Plans \subseteq Plan
    /\ Principals \subseteq Nat \ {0}
    /\ ManualAmounts \subseteq Int
    /\ InitialBalance \in Nat
    /\ MinRate \in Nat /\ MaxRate \in Nat /\ MinRate <= MaxRate
    /\ CommissionPercent \in Nat
    /\ Referred \subseteq Users
    /\ MaxPeriodsPerPass \in Nat \ {0}
    /\ MaxTime \in Nat /\ MaxManual \in Nat
    /\ MaxPayouts \in Nat /\ MaxFaults \in Nat

VARIABLES
    now,       \* the clock
    inv,       \* the investments table
    wallet,    \* USD value of each user's trading wallet
    inflight,  \* handlers between their first read and their transaction
    sweep,     \* the processInvestments() passes
    payouts,   \* history: how often completion and cancellation paid a trade out
    commission,\* history: what the referrer was credited for a trade
    faults     \* failures so far

vars == <<now, inv, wallet, inflight, sweep, payouts, commission, faults>>

-----------------------------------------------------------------------------
(* Rows.  "NONE" is a row not inserted yet; "REMOVED" one deleted again,   *)
(* whose last values are kept as history only.                             *)

Ended    == {"COMPLETED", "CANCELLED"}
Live     == {"AWAITING", "ACTIVE", "SYNCING"}
Statuses == Live \cup Ended \cup {"NONE", "REMOVED"}

Row == [status : Statuses, userId : Users,
        principal : Int, locked : Int, accrued : Int, paid : Int,
        periods : Nat, payFrequency : Nat,
        start : Nat, eligibleAt : Nat, end : Nat \cup {Never}, next : Nat]

NoRow == [status |-> "NONE", userId |-> CHOOSE u \in Users : TRUE,
          principal |-> 0, locked |-> 0, accrued |-> 0, paid |-> 0,
          periods |-> 0, payFrequency |-> 0,
          start |-> 0, eligibleAt |-> 0, end |-> Never, next |-> 0]

\* The row start() inserts: next is one period on, not clamped to the end.
NewRow(u, plan, principal, status) ==
    [status |-> status, userId |-> u,
     principal |-> principal, locked |-> principal, accrued |-> 0, paid |-> 0,
     periods |-> 0, payFrequency |-> plan.payFrequency,
     start |-> now, eligibleAt |-> now + plan.minTerm,
     end |-> IF plan.term = Never THEN Never ELSE now + plan.term,
     next |-> now + plan.payFrequency]

-----------------------------------------------------------------------------
(* Accrual.                                                                *)

\* Simple interest on the principal for one period, in whole units.
Profit(principal, rate) == (principal * rate) \div 100

\* Whether the loop of applyScheduledAccruals runs its body a k-th time: the
\* k-th due time has come, lies before the end, and the cap allows it.
LoopRuns(row, k) ==
    LET due == row.next + k * row.payFrequency IN
    /\ k < MaxPeriodsPerPass
    /\ due <= now
    /\ row.end = Never \/ due < row.end

\* How many periods one call credits: the loop ends when its condition fails.
DuePeriods(row) ==
    IF row.status = "ACTIVE" /\ row.payFrequency > 0
    THEN Min({k \in 0 .. MaxPeriodsPerPass : ~LoopRuns(row, k)})
    ELSE 0

\* What n periods may earn: every period draws its own rate.
PassProfits(row, n) ==
    (n * Profit(row.principal, MinRate)) .. (n * Profit(row.principal, MaxRate))

NextAfter(row, n) ==
    LET due == row.next + n * row.payFrequency IN
    IF row.end # Never /\ due > row.end THEN row.end ELSE due

\* Mutant of AfterPass: the next due time is left behind.
AfterPassSameNext(row, n, profit) ==
    [row EXCEPT !.locked = @ + profit, !.accrued = @ + profit, !.periods = @ + n]

\* Mutant of AfterPass: profit is recorded and not added to what is locked.
AfterPassUnlocked(row, n, profit) ==
    [row EXCEPT !.accrued = @ + profit, !.periods = @ + n, !.next = NextAfter(row, n)]

\* The row after a pass that credits n periods with profit in all.
AfterPass(row, n, profit) ==
    IF n = 0 THEN row
    ELSE [row EXCEPT !.locked = @ + profit, !.accrued = @ + profit,
                     !.periods = @ + n, !.next = NextAfter(row, n)]

-----------------------------------------------------------------------------
(* The ends of a trade.                                                    *)

\* Mutant of Syncing: still looks for the retired status LOCKED.
SyncingLocked(row) ==
    IF row.status = "LOCKED" THEN [row EXCEPT !.status = "SYNCING"] ELSE row

\* markSyncing: freezes an active trade, no money moves.
Syncing(row) ==
    IF row.status = "ACTIVE" THEN [row EXCEPT !.status = "SYNCING"] ELSE row

\* Mutant of Completed: a status the enum does not have.
CompletedAsPaid(row) ==
    [row EXCEPT !.status = "PAID", !.locked = 0, !.paid = row.accrued]

\* Mutant of Completed: the profit is reset together with what was locked.
CompletedNoProfit(row) ==
    [row EXCEPT !.status = "COMPLETED", !.locked = 0, !.paid = row.accrued,
                !.accrued = 0]

\* completeInvestment: the row once its money is out.
Completed(row) ==
    [row EXCEPT !.status = "COMPLETED", !.locked = 0, !.paid = row.accrued]

\* Mutant of Cancelled: what was locked is not reset.
CancelledStillLocked(row) == [row EXCEPT !.status = "CANCELLED"]

\* adminCancelInvestment: the row it saves.
Cancelled(row) == [row EXCEPT !.status = "CANCELLED", !.locked = 0]

\* maybeCreditReferralCommission: a cut of the profit, for the referrer.
Commission(row) ==
    IF row.userId \in Referred /\ row.accrued > 0
    THEN (row.accrued * CommissionPercent) \div 100
    ELSE 0

\* Mutant of Release: gives back the principal and forgets the profit.
ReleasePrincipal(row) == wallet' = [wallet EXCEPT ![row.userId] = @ + row.principal]

\* Credits row.locked, as the handler knows it, to the owner's wallet.
Release(row) == wallet' = [wallet EXCEPT ![row.userId] = @ + row.locked]

-----------------------------------------------------------------------------
(* Requests between their first read and their transaction.                *)

WriteBackOps == {"cancel", "activate", "await"}
AdminOps     == WriteBackOps \cup {"complete", "accrue", "remove"}
Ops          == AdminOps \cup {"end"}

\* row is the entity the handler will save; NoRow if it saves none it read.
Request == [by : Admins \cup Clients, op : Ops, trade : Trades, row : Row]

\* Mutants of Accepts: no check of the status before a cancellation, or before
\* a switch between ACTIVE and AWAITING.
AcceptsAnyCancel(op, row) ==
    CASE op = "end"      -> row.status = "ACTIVE" /\ now >= row.eligibleAt
      [] op = "remove"   -> row.status \in Ended
      [] op = "cancel"   -> row.status \in Live \cup Ended
      [] OTHER           -> row.status = "ACTIVE"
AcceptsAnySwitch(op, row) ==
    CASE op = "end"      -> row.status = "ACTIVE" /\ now >= row.eligibleAt
      [] op = "remove"   -> row.status \in Ended
      [] op = "await"    -> row.status \in Live \cup Ended
      [] OTHER           -> row.status = "ACTIVE"

\* What each handler checks on its first read.
Accepts(op, row) ==
    CASE op \in {"cancel", "accrue"}    -> row.status = "ACTIVE"
      [] op \in {"activate", "await"}   -> row.status \in {"ACTIVE", "AWAITING"}
      [] op = "complete"                -> row.status \in {"ACTIVE", "SYNCING"}
      [] op = "remove"                  -> row.status \in Ended
      [] op = "end"                     -> /\ row.status = "ACTIVE"
                                           /\ now >= row.eligibleAt

Idle(a) == \A r \in inflight : r.by # a

Receive(a, op, i) ==
    /\ Idle(a)
    /\ Accepts(op, inv[i])
    /\ inflight' = inflight \cup
         {[by |-> a, op |-> op, trade |-> i,
           row |-> IF op \in WriteBackOps THEN inv[i] ELSE NoRow]}
    /\ UNCHANGED <<now, inv, wallet, sweep, payouts, commission, faults>>

\* How often trade i has been paid out.
Payouts(i) == payouts[i].completed + payouts[i].cancelled

AdminRequest(a, op, i) ==
    /\ op = "accrue" => inv[i].accrued \in (-MaxManual) .. MaxManual
    /\ op # "remove" => Payouts(i) < MaxPayouts
    /\ Receive(a, op, i)

EndRequest(c, i) == Receive(c, "end", i)

Finish(r) == inflight' = inflight \ {r}

\* The transaction fails and rolls back (no live price, a database error...).
Fail(r) ==
    /\ faults < MaxFaults
    /\ faults' = faults + 1
    /\ Finish(r)
    /\ UNCHANGED <<now, inv, wallet, sweep, payouts, commission>>

-----------------------------------------------------------------------------
(* Transactions of the handlers, each one turn of the gate.                *)

\* start: debits the wallet and inserts the row.
Start(u, i, plan, principal, requiresApproval) ==
    /\ inv[i].status = "NONE"
    /\ wallet[u] >= principal
    /\ wallet' = [wallet EXCEPT ![u] = @ - principal]
    /\ inv' = [inv EXCEPT ![i] =
         NewRow(u, plan, principal,
                IF requiresApproval THEN "AWAITING" ELSE "ACTIVE")]
    /\ UNCHANGED <<now, inflight, sweep, payouts, commission, faults>>

\* endEarly: credits what is due, then freezes.  Both re-read the row.
End(r) ==
    /\ r.op = "end"
    /\ LET row == inv[r.trade]
           n   == DuePeriods(row)
       IN \E profit \in PassProfits(row, n) :
            inv' = [inv EXCEPT ![r.trade] = Syncing(AfterPass(row, n, profit))]
    /\ Finish(r)
    /\ UNCHANGED <<now, wallet, sweep, payouts, commission, faults>>

\* adminCompleteInvestment, on a row its transaction still finds unpaid.
Complete(r) ==
    /\ r.op = "complete"
    /\ LET row == inv[r.trade]
           n   == DuePeriods(row)
       IN /\ row.status \in {"ACTIVE", "SYNCING"}
          /\ \E profit \in PassProfits(row, n) :
               LET due == AfterPass(row, n, profit) IN
               /\ inv' = [inv EXCEPT ![r.trade] = Completed(due)]
               /\ Release(due)
               /\ commission' = [commission EXCEPT ![r.trade] = @ + Commission(due)]
    /\ payouts' = [payouts EXCEPT ![r.trade].completed = @ + 1]
    /\ Finish(r)
    /\ UNCHANGED <<now, sweep, faults>>

\* adminCompleteInvestment, on a row its transaction finds moved on.
CompleteTooLate(r) ==
    /\ r.op = "complete"
    /\ inv[r.trade].status \notin {"ACTIVE", "SYNCING"}
    /\ Finish(r)
    /\ UNCHANGED <<now, inv, wallet, sweep, payouts, commission, faults>>

\* adminCancelInvestment: pays out and saves the entity of its first read.
Cancel(r) ==
    /\ r.op = "cancel"
    /\ inv' = [inv EXCEPT ![r.trade] = Cancelled(r.row)]
    /\ Release(r.row)
    /\ payouts' = [payouts EXCEPT ![r.trade].cancelled = @ + 1]
    /\ Finish(r)
    /\ UNCHANGED <<now, sweep, commission, faults>>

\* setInvestmentStatus to ACTIVE or AWAITING: saves the entity of its read.
SetStatus(r) ==
    /\ r.op \in {"activate", "await"}
    /\ inv' = [inv EXCEPT ![r.trade] =
         [r.row EXCEPT !.status = IF r.op = "activate" THEN "ACTIVE"
                                                       ELSE "AWAITING"]]
    /\ Finish(r)
    /\ UNCHANGED <<now, wallet, sweep, payouts, commission, faults>>

\* manualAccrual: applyAccrual re-reads the row and leaves next alone.
Accrue(r) ==
    /\ r.op = "accrue"
    /\ \/ /\ inv[r.trade].status = "ACTIVE"
          /\ \E amount \in ManualAmounts :
               inv' = [inv EXCEPT ![r.trade].locked = @ + amount,
                                  ![r.trade].accrued = @ + amount]
       \/ /\ inv[r.trade].status # "ACTIVE"
          /\ UNCHANGED inv
    /\ Finish(r)
    /\ UNCHANGED <<now, wallet, sweep, payouts, commission, faults>>

\* remove: deletes the row by its id, whatever it holds by now.
Remove(r) ==
    /\ r.op = "remove"
    /\ inv' = [inv EXCEPT ![r.trade].status = "REMOVED"]
    /\ Finish(r)
    /\ UNCHANGED <<now, wallet, sweep, payouts, commission, faults>>

-----------------------------------------------------------------------------
(* processInvestments.                                                     *)

SweepState == [pc : {"idle", "accrue", "mark"}, now : Nat, list : SUBSET Trades]

Asleep == [pc |-> "idle", now |-> 0, list |-> {}]

\* Mutant of DueForAccrual: a due time the sweep has missed is never found.
DueExactly(t) == {i \in Trades : inv[i].status = "ACTIVE" /\ inv[i].next = t}

DueForAccrual(t)    == {i \in Trades : inv[i].status = "ACTIVE" /\ inv[i].next <= t}
DueForCompletion(t) == {i \in Trades : /\ inv[i].status = "ACTIVE"
                                       /\ inv[i].end # Never /\ inv[i].end <= t}

\* The first query.  Its "now" also serves the second one.
SweepStart(s) ==
    /\ sweep[s].pc = "idle"
    /\ sweep' = [sweep EXCEPT ![s] =
         [pc |-> "accrue", now |-> now, list |-> DueForAccrual(now)]]
    /\ UNCHANGED <<now, inv, wallet, inflight, payouts, commission, faults>>

Drop(s, i) == sweep' = [sweep EXCEPT ![s].list = @ \ {i}]

\* applyScheduledAccruals on one listed trade, in a transaction of its own.
SweepAccrue(s, i) ==
    /\ sweep[s].pc = "accrue" /\ i \in sweep[s].list
    /\ LET row == inv[i]
           n   == DuePeriods(row)
       IN \E profit \in PassProfits(row, n) :
            inv' = [inv EXCEPT ![i] = AfterPass(row, n, profit)]
    /\ Drop(s, i)
    /\ UNCHANGED <<now, wallet, inflight, payouts, commission, faults>>

\* The second query.
SweepSelect(s) ==
    /\ sweep[s].pc = "accrue" /\ sweep[s].list = {}
    /\ sweep' = [sweep EXCEPT ![s] =
         [pc |-> "mark", now |-> 0, list |-> DueForCompletion(sweep[s].now)]]
    /\ UNCHANGED <<now, inv, wallet, inflight, payouts, commission, faults>>

\* markSyncing on one listed trade, in a transaction of its own.
SweepMark(s, i) ==
    /\ sweep[s].pc = "mark" /\ i \in sweep[s].list
    /\ inv' = [inv EXCEPT ![i] = Syncing(@)]
    /\ Drop(s, i)
    /\ UNCHANGED <<now, wallet, inflight, payouts, commission, faults>>

\* A listed trade's transaction throws; the loop logs it and goes on.
SweepFail(s, i) ==
    /\ faults < MaxFaults
    /\ i \in sweep[s].list
    /\ faults' = faults + 1
    /\ Drop(s, i)
    /\ UNCHANGED <<now, inv, wallet, inflight, payouts, commission>>

SweepDone(s) ==
    /\ sweep[s].pc = "mark" /\ sweep[s].list = {}
    /\ sweep' = [sweep EXCEPT ![s] = Asleep]
    /\ UNCHANGED <<now, inv, wallet, inflight, payouts, commission, faults>>

-----------------------------------------------------------------------------

\* The process dies and restarts: committed rows stay, handlers are gone.
Restart ==
    /\ faults < MaxFaults
    /\ faults' = faults + 1
    /\ inflight' = {}
    /\ sweep' = [s \in Sweeps |-> Asleep]
    /\ UNCHANGED <<now, inv, wallet, payouts, commission>>

Tick ==
    /\ now < MaxTime
    /\ now' = now + 1
    /\ UNCHANGED <<inv, wallet, inflight, sweep, payouts, commission, faults>>

Init ==
    /\ now = 0
    /\ inv = [i \in Trades |-> NoRow]
    /\ wallet = [u \in Users |-> InitialBalance]
    /\ inflight = {}
    /\ sweep = [s \in Sweeps |-> Asleep]
    /\ payouts = [i \in Trades |-> [completed |-> 0, cancelled |-> 0]]
    /\ commission = [i \in Trades |-> 0]
    /\ faults = 0

Commit(r) ==
    \/ End(r)
    \/ Complete(r)
    \/ CompleteTooLate(r)
    \/ Cancel(r)
    \/ SetStatus(r)
    \/ Accrue(r)
    \/ Remove(r)
    \/ Fail(r)

SweepStep(s) ==
    \/ SweepStart(s)
    \/ SweepSelect(s)
    \/ SweepDone(s)
    \/ \E i \in Trades : SweepAccrue(s, i) \/ SweepMark(s, i) \/ SweepFail(s, i)

Next ==
    \/ \E u \in Users, i \in Trades, plan \in Plans, principal \in Principals,
          requiresApproval \in BOOLEAN :
            Start(u, i, plan, principal, requiresApproval)
    \/ \E a \in Admins, op \in AdminOps, i \in Trades : AdminRequest(a, op, i)
    \/ \E c \in Clients, i \in Trades : EndRequest(c, i)
    \/ \E r \in inflight : Commit(r)
    \/ \E s \in Sweeps : SweepStep(s)
    \/ Restart
    \/ Tick

Spec == Init /\ [][Next]_vars

\* setInterval fires for ever and a pass, once begun, runs to its end.
FairSpec == Spec /\ \A s \in Sweeps : WF_vars(SweepStep(s))

-----------------------------------------------------------------------------
(* Properties.                                                             *)

\* Every variable keeps its type; a row keeps the columns of the entity.
TypeOK ==
    /\ now \in Nat
    /\ inv \in [Trades -> Row]
    /\ wallet \in [Users -> Int]
    /\ inflight \subseteq Request
    /\ sweep \in [Sweeps -> SweepState]
    /\ payouts \in [Trades -> [completed : Nat, cancelled : Nat]]
    /\ commission \in [Trades -> Int]
    /\ faults \in Nat

\* The money columns of one row agree with its status.
RowBalances(row) ==
    /\ row.status \in Live => row.locked = row.principal + row.accrued /\ row.paid = 0
    /\ row.status \in Ended => row.locked = 0
    /\ row.status = "COMPLETED" => row.paid = row.accrued
    /\ row.status = "CANCELLED" => row.paid = 0

\* lockedAmount is principal plus profit while a trade lives and nothing once
\* it has ended, in every row and in every row a handler is about to save,
\* whatever handlers and sweeps overlap.
BooksBalance ==
    /\ \A i \in Trades : RowBalances(inv[i])
    /\ \A r \in inflight : RowBalances(r.row)

\* When the n-th period of a row ends.
DueTime(row, n) == row.start + n * row.payFrequency

RowOnSchedule(row, t) ==
    /\ \/ row.next = DueTime(row, row.periods + 1)
       \/ /\ row.next = row.end
          /\ row.end < DueTime(row, row.periods + 1)
    /\ row.periods > 0 => /\ DueTime(row, row.periods) <= t
                          /\ row.end # Never => DueTime(row, row.periods) < row.end

\* No period is credited twice or before it has elapsed, by overlapping
\* sweeps, endEarly, completion or a stale write back: the credited periods
\* are exactly those that nextAccrualAt has moved past.
NoPeriodPaidTwice ==
    /\ \A i \in Trades : RowOnSchedule(inv[i], now)
    /\ \A r \in inflight : RowOnSchedule(r.row, now)

\* completeInvestment and adminCancelInvestment together credit the wallet
\* once for a trade that has ended, and not before it ends.
PaidOnceIffEnded ==
    \A i \in Trades :
        Payouts(i) = IF inv[i].status \in Ended \cup {"REMOVED"} THEN 1 ELSE 0

\* The comment of maybeCreditReferralCommission: "completeInvestment only ever
\* runs once per investment (guarded by the LOCKED status check above)".
CompletesOnce == \A i \in Trades : payouts[i].completed <= 1

\* What the referrer gets for a trade is one cut of the profit that trade
\* paid, or nothing: maybeCreditReferralCommission keeps no record of its own.
CommissionAtMostOnce ==
    \A i \in Trades : commission[i] \in {0, Commission(inv[i])}

\* What each trade still holds, and what it was ever credited.
Held     == [i \in Trades |-> IF inv[i].status \in Live THEN inv[i].locked ELSE 0]
Credited == [i \in Trades |-> inv[i].accrued]

\* The comment of remove(): no deletion and no payout makes money vanish or
\* appear.  Wallets and locked amounts hold what users brought in plus the
\* profit credited to trades.
MoneyConserved ==
    SumFunctionOnSet(wallet, Users) + SumFunctionOnSet(Held, Trades)
    = Cardinality(Users) * InitialBalance + SumFunctionOnSet(Credited, Trades)

\* A trade as its owner sees it: the statuses it is live or over in, and the
\* row of a deleted one, make no difference.
Deal(row) ==
    [state     |-> IF row.status \in Live THEN "open" ELSE "closed",
     owner     |-> row.userId,
     principal |-> row.principal,
     profit    |-> row.accrued]

\* Handlers and sweeps together keep the promise of an escrow: what start took
\* comes back once, with the profit of the row, by completion or cancellation,
\* and nothing reopens, revalues or repays what is over.
Started == {i \in Trades : inv[i].status # "NONE"}
Escrow == INSTANCE TradeEscrow WITH
    purse <- wallet,
    deal  <- [i \in Started |-> Deal(inv[i])]
TradesAreEscrowed == Escrow!Spec

\* A completed or cancelled trade never changes again, except to be deleted.
EndedIsFinal ==
    [][\A i \in Trades : inv[i].status \in Ended =>
          inv'[i] \in {inv[i], [inv[i] EXCEPT !.status = "REMOVED"]}]_vars

\* The comment of adminCancelInvestment: "releases the locked principal only,
\* no profit, back to the wallet it was funded from".
CancelReleasesPrincipalOnly ==
    [][\A i \in Trades :
          inv[i].status # "CANCELLED" /\ inv'[i].status = "CANCELLED" =>
            wallet'[inv[i].userId] = wallet[inv[i].userId] + inv[i].principal]_vars

\* Whole periods between the start of a trade and now or its end.
ElapsedPeriods(row) ==
    (Min({now} \cup ({row.end} \ {Never})) - row.start) \div row.payFrequency

\* The comments of applyScheduledAccruals and endEarly: "Credit every period
\* that's actually elapsed", "an early end never shorts a period".
ElapsedPeriodsCredited ==
    [][\A i \in Trades :
          inv[i].status = "ACTIVE" /\ inv'[i].status = "SYNCING" =>
            inv'[i].periods = ElapsedPeriods(inv[i])]_vars

\* processInvestments freezes a trade some time after its end date: the
\* payout it waits for can always be released.
CycleEndIsNoticed ==
    \A i \in Trades :
        (inv[i].status = "ACTIVE" /\ inv[i].end # Never /\ inv[i].end <= now)
            ~> inv[i].status # "ACTIVE"

\* The comment of applyScheduledAccruals: a trade behind schedule catches up,
\* though sweeps fail, overlap, restart or reach the cap per pass.
AccrualCatchesUp ==
    \A i \in Trades :
        (inv[i].status = "ACTIVE" /\ inv[i].payFrequency > 0 /\ inv[i].next <= now)
            ~> (inv[i].status # "ACTIVE" \/ inv[i].next > now
                                         \/ inv[i].next = inv[i].end)

=============================================================================
