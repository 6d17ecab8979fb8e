# TLA+ verification of byttrading

`byttrading` is a trading platform: a NestJS backend (`src/backend/src`), a
Next.js frontend (`src/frontend`) and a deployment around docker
(`src/docker-compose.yml`, `src/deploy`). The backend holds the logic worth
verifying: users' wallets, trades that earn interest on a schedule, and admins
who confirm, complete, cancel and adjust, all at the same time, over one
database. The repository has no tests of that logic beyond the framework's
"Hello World!", so the comments in the services are the only statement of what
it should do; several properties below quote them.

Two databases matter. `docker-compose.yml` sets `DATABASE_DRIVER=sqlite`: the
whole backend shares one SQLite connection behind a gate in process memory.
Without it the backend runs on PostgreSQL, where transactions overlap.

## Inventory

| Component | State | Operations | What is hard | What makes it correct |
| --- | --- | --- | --- | --- |
| Trade lifecycle, `investments/` and the dispatch in `admin/admin.service.ts` | `investments` rows (status, locked, accrued and paid amounts, start, end, `nextAccrualAt`), accrual records, the wallets they are paid from and to | `start`, `manualAccrual`, `processInvestments` (accrual and freeze, every minute), `endEarly`, completion, cancellation, switch between ACTIVE and AWAITING, deletion, referral commission | Reads before the transaction; sweeps that overlap; restarts between the two passes; boundaries of the schedule; the cap per pass | Columns agree with the status; no period paid twice; a trade paid out once, when it ends; money conserved; cycle ends noticed |
| SQLite gate, `database/sqlite-compat.ts` | the promise chain `tail`, a token per call in AsyncLocalStorage | `transaction`, `save`, `remove`, `query` wrapped in `gated` | Nesting, rejections, `Promise.all` that outlives its transaction | Turns one by one and first come first served; nesting never deadlocks; no statement inside a stranger's transaction |
| Wallets, `wallets/` | `wallets.balance` | deposit and withdrawal requests, transfer, admin adjustment, debit and credit, bonuses | Read, add in memory, save; some reads lock, some do not | No update lost; nothing below zero but by a payout below zero; balances are what the transactions say |
| Transactions, `transactions/` | `transactions` rows | `confirm`, `reject`, `remove` | PENDING is checked on an unlocked read; several rows change together | Settled once; all or nothing |
| Subscriptions and referrals, `subscriptions/`, `referrals/` | `subscriptions` and `referrals` rows | `subscribe`, activation and cancellation with the payment, referral bonus | Two rows in step; a bonus paid once | Payment and subscription agree; one bonus per referral |
| Terms and rates, `investments/*.util.ts` | none | parsing and drawing of rates | An unknown unit of time gives 0, for which a trade never accrues; a malformed range throws | Abstracted to ticks and whole percents |
| Auth, sessions and tokens, `auth/` | `tokens`, `users` | signup, login, OTP, refresh, logout, password reset, verification of the e-mail address | Tokens are read, compared and saved; whole user rows are read and saved back; no transactions | A code or session token is good for one session, a link for one change, wrong guesses are counted, a reset ends every session, one registration bonus |
| Users and approval, `users/`, guards, the user part of `admin/` | `users` (status, freeze, role, 2FA, verified) | profile and password, the admin's edits, deletion | The same stale row | What a handler set stays; frozen while awaiting approval |
| KYC, `kyc/` | `kyc` rows | open, submit, approve, reject | A decision on a status read earlier | An approved file stays approved |
| PostgreSQL pool, `database.module.ts`, the keep-alive service | five connections, their queue, row locks | the services' transactions, the reads beside them, pings | A second connection taken inside a transaction; locks taken in different orders | The server stands still for known reasons only, and always recovers |
| Prices, settings | cached prices, settings | refresh, edit | Overlapping refreshes | Values are free choices in the models |
| Sessions in the browser, `frontend/src/lib/session.ts` and the fetch wrappers, layouts, login page | cookies shared by the tabs; per page its calls and one `refreshPromise` | calls, refresh after a 401, retry, redirect, logout | Tabs race; answers get lost; promises that never resolve | No refresh refused without a cause, no session left alive by a refresh or a logout, no call stuck |
| Notifications and mail, listings, plans, scripts, deployment, the pages of the frontend | no state the rest relies on | inserts, reads, files, UI | | Not modelled, see below |

How they interact: a page in the browser calls the API with cookies it shares with
the other tabs, and on a 401 asks for new ones. A request handler of a controller calls a service; services
share the database rows and call each other inside one `EntityManager` (a trade's
start debits a wallet, its completion credits one and then the referrer's;
confirming a transaction credits a wallet or activates a subscription, which may
pay a bonus). The sweep is a timer in the same process. There are no queues or
messages between parts of the backend; what interleaves is handlers, timers and
database transactions, and in the browser calls, answers and page loads.

## Modules

| Module | What it models | Kind |
| --- | --- | --- |
| `TradeLifecycle` | trades, on the SQLite deployment | detailed |
| `TradeEscrow` | money that is taken once and given back once | what the trades promise |
| `SqliteGate` | `installSqliteGate` | detailed |
| `SerialExecutor` | a first come first served executor | what the gate promises |
| `LedgerTables` | rows of wallets, transactions, subscriptions, referrals, and what each operation means for them | constant level |
| `Ledger` | the handlers that move money, statement by statement, on either database | detailed |
| `AtomicLedger` | the same handlers, each in one step | what the handlers promise |
| `AccountRows` | rows of users, tokens and KYC files, and what each handler means to change | constant level |
| `Accounts` | the handlers of auth, users and KYC, statement by statement | detailed |
| `BrowserSession` | tabs, calls, refreshes, cookies | detailed |
| `ConnectionPool` | the pool of PostgreSQL connections and the row locks under the transactions the services open | detailed |
| `MCTradeLifecycle`, `MCSqliteGate`, `MCLedger`, `MCAccounts`, `MCBrowserSession`, `MCConnectionPool` | instances for TLC | |
| `TradeLifecycleProofs`, `SqliteGateProofs`, `LedgerProofs`, `LedgerAtomicProofs`, `AccountsProofs`, `BrowserProofs`, `ConnectionPoolProofs` | theorems | |
| `SumTheorems` | lemmas about sums over finite sets | theorems |

`TradeLifecycle`, `Ledger` with `Gated`, and `Accounts` take from the gate that a
transaction, a save or a query is one step; `SqliteGate` is where that is shown.
`Ledger` implements `AtomicLedger`, `SqliteGate` implements `SerialExecutor`, and
`TradeLifecycle` implements `TradeEscrow` as long as admin requests do not
overlap; each pair is connected by `INSTANCE ... WITH`. `BrowserSession` and `Accounts`
meet at the refresh: the first has the server's part of it in two steps, the
second has every statement.

The definitions named "Mutant of" are plausible bugs, kept beside the definition
they would replace; the specifications never use them. They show that each
property can fail.

### TradeLifecycle

One transaction, save or query at a time reaches the database (this is what
`SqliteGate` establishes), so each of them is one atomic step. A handler that
reads before its transaction takes two: `Receive` is the first read with its
checks, and `inflight` holds what the handler keeps of it. TypeORM's
`save(entity)` writes back every column that differs from the stored row, so
for `cancel` and the status switches the request carries the whole row
(`WriteBackOps`). Other transactions (`End`, `Complete`, `Accrue`) re-read it.
`processInvestments` is a list and a program counter per pass: it selects with
one `now` (`SweepStart`), credits each listed trade in its own transaction
(`SweepAccrue`), selects again with the same `now` (`SweepSelect`) and freezes
(`SweepMark`). A transaction may fail in the middle of a pass (`SweepFail`, the
loop logs and goes on) and the process may die (`Restart`: committed rows stay,
handlers and passes are gone). `DuePeriods` is the loop of
`applyScheduledAccruals`: it stops at the cap, at the first period that is not
due, and at the first that is not before the end.

Amounts are whole USD; a wallet is one number per user, since the price of its
token plays no part in the trade. `payouts` and `commission` are history.

`TradeEscrow` is what the owner of a trade relies on. A deal is open or closed;
its principal leaves the purse when it opens, its profit changes while it is
open, and principal and profit come back when it closes, for good. `Deal(row)`
maps a row to it: the three live statuses are open, the others closed, and a row
not inserted yet is no deal (`Started`).

### SqliteGate

A work is one call of `gated`. `token` is its AsyncLocalStorage context and
`active` the set of tokens whose flag is up; a call from inside an active token
runs straight through (`Enter`), any other chains itself on `tail` (`Enqueue`)
and begins when the work before it in the chain is over, rejected or not
(`Resolved`, the `finished` promise). `Legs` are the queries of a `Promise.all`:
when one of them rejects the handler goes on, and the others may still call the
gate later, in a context whose token is no longer active.

`WaitsFor(w, v)` is that the work `w` cannot go on before `v` does: `v` comes just
before it in the chain and is not over, or is a call it awaits. `NoCircularWait`
says that no set of works wait for one another. In the mapping to `SerialExecutor` the queue is what
follows the first `Begun` works of the chain.

### Ledger

Each handler is one database transaction: an open transaction records what it
read (`seen`), what it locked, what it adds (`changes`) and what it inserts
(`entries`); `Commit` writes `seen + changes`, as the code does, not the present
balance plus the change. The difference is the whole point on PostgreSQL.
`LocksRow` says which wallet is read `FOR UPDATE`: the one money is taken from or
credited by value, not the target of a transfer nor a wallet an admin adjusts or
a confirmation pays. `confirm` and `reject` are a chain of reads
(`Settle`, `ReadWallet`, `ReadSubscription`, `SaveSubscription`,
`CreditReferrer`) and a commit. A transaction may roll back at any point.

`Gated` chooses the database. `TRUE`: one transaction at a time, and no locks,
since TypeORM leaves the lock mode out on SQLite. `FALSE`: PostgreSQL at READ
COMMITTED with the lock modes meaning what its manual says. A transaction that
writes a wallet it has not locked holds the row lock only between the write and
the commit, which follow each other, so the model makes them one step.

`DebitWalletUsdValue` compares the balance with the amount; `CreditWalletUsdValue`
compares nothing, nor does `creditWalletUsdValue`. It is called with a trade's
`lockedAmount`, which a manual accrual can take below zero (`TradeLifecycle` has
those), so `Payouts` may be negative and a completed or cancelled trade may take
its wallet below zero. `NeverOverdrawn` says exactly that much: a wallet is below
zero by no more than the payouts below zero it was given (`Shortfalls`), so every
handler that does compare is right to trust what it has read.

Conversions round as `toFixed(8)` does, half a unit away from zero, in units of
the eighth decimal: `Rounded` for the row, `Gained` for the balance. A debit
rounds twice: the row says what was taken and the wallet keeps what is left. So a
row may say one unit more than its wallet lost (`KeepsHalf`: debits, and payouts
below zero), and, of a wallet that payouts have taken below zero, one unit more
than it got (`LosesHalf`: credits and transfers in). `BalancesMatchRows` allows
one unit for each such row and no more.

The rows of accounts that `FOR UPDATE` locks together with a wallet's are not in
this model: with fewer locks more overlaps. `ConnectionPool` has them.

`Opening` is the balances when the history begins: rows of the transactions table
can be deleted while balances stay, so a table with balances and no rows is a
state of the program.

### Accounts

None of these handlers runs in a transaction. A request goes through `Stages`,
each of which is one statement: `ReadToken`, `SaveToken`, `ReadUser`, `Create`
(the insert of a signup), `Issue` (the insert of a token), `Bonus`, `SaveUser`,
`Revoke`, `Remove`, and `ReadKyc`, `OpenFile`, `SaveKyc`; `Fail` ends it at any
of them. `AccountRows` says which handlers there are, who may call them and what
each sets (`Edited`, `Saved`, `Filed`). A save writes the object that was read:
`SaveUser` puts back the whole row as it was, but for the columns the handler
sets, and inserts it again if it was deleted. So does `SaveToken`.

Hashes, codes and lifetimes are abstracted: `ReadToken` chooses whether a code is
right and whether a token has expired. `crossed` is the history variable that
separates two kinds of property: a user is in it once a row of theirs was saved
that had changed since the request read it. `FreezeFollowsStatus`,
`ResetEndsSessions`, `DeadBeforeSuccessor` and `OneBonusPerAccount` hold
whatever crosses; `UsedOnce`, `GuessesBounded`, `ColumnsKept` and `ApprovalKept`
hold until it happens. That two requests may cross is a fact
of the code, not a choice of the model; no comment or test claims otherwise, so
it is no finding. What follows from it: a login or a refresh under way writes
back the row of a user an admin has suspended, or has deleted meanwhile; a wrong
guess saved late makes a used code good again; two admins can demote or delete
each other.

`uses` counts what a token stands for when it takes effect: for a code or a
session token (`Codes` in the proofs) the insert of the session, for a link
(`LinkKinds`) the save of the user, which `resetPassword` and `verifyEmail` make
before they save the link. A request that ends between those two saves has
changed the account and leaves the link open, so the link can change it again,
without any two requests crossing: `lost` counts such requests, and `UsedOnce`
allows a link one more use for each, and no other. A reset proper ends the
sessions born before it was over; one that a refresh under way inserts later is
born after it, and `ResetEndsSessions` does not judge it.

### BrowserSession

A page has calls (`Me` is the `getMe()` of its layout, the others are data calls)
and `promise`, the one refresh its calls share. `Refreshes` is a 401;
`Check` and `Rotate` are the refresh on the server, `Settle`, `Deny` and `Lose`
its answer in the page, with all the calls that wait for it, since callbacks of
one promise run in one turn of the event loop. `redirectToLogin()` sets the
location and leaves its calls on a promise that never resolves (`hung`);
`Unload` is what takes them away. `Load` makes what a page had asked unheard:
the server goes on with it, the answer's cookies are lost. `HandleLogout`,
`ServeLogout` and `AnswerLogout` overlap with all of it. `proxy.ts` is the check
for an access cookie in `Reload` and `WithUser`.

`dropped` remembers tokens the answer to a request sent with another cookie drove
from the jar: two tabs that refresh at once, or a logout beside a refresh. The
session in it stays alive on the server until it expires. `replaced` remembers
tokens a login was sent with: `post()` of `auth-client.ts` sends the cookies,
`login` of the backend looks at none of them, and the answer puts others in their
place. A page whose refresh was lost goes to `/login` with the cookie still
there, and the session it names outlives the login, with nothing crossed.
`SessionsHeld` keeps the two apart and says that nothing else leaves a session
behind: a refresh and a logout end what they were sent with. No document of the
repository says that a login should, so it is a hazard listed and not a finding.

### ConnectionPool

A transaction is a script: the rows it locks, by a read `FOR UPDATE` or a write,
and `Beside` for each read it makes through a service that does not know the
transaction (`settingsService.getValue`, `plansService.findById`), which needs a
second connection. Each operator of `Scripts` is one transaction of the code in
the code's order, and names it. `Asks` and `HandsOn` are the queue of the pool,
`Expire` its `connectionTimeoutMillis` (all waiters have the same timeout, so the
first is refused first), `Abort` the deadlock detector, `KeepAlive` the pings,
all at once; by the next round the last ones have timed out, since the interval
is longer than the timeout.

`FOR UPDATE` on a wallet read with its account is taken to lock the rows of both
tables. Whether the TypeORM that gets installed joins them in a way PostgreSQL
accepts with `FOR UPDATE` is not in the repository. A row that is only written
right before the commit is left out.

What the model shows: five withdrawal requests at once have all connections and
wait for a sixth until the pool refuses them after ten seconds, and the pings
wait behind them; two opposite transfers of one user abort each other, and so do
a transfer and a withdrawal from its target, and a completion and a cancellation
of one trade. Nothing else makes the server stand still, in particular not the
chain from a user to the referrer to their referrer.

## Runs

| Run | Question | Result |
| --- | --- | --- |
| `trade_serial` | One admin request at a time, one client, one sweep, one failure or restart: types, books, no period twice, paid once iff ended, ended is final, cycle ends noticed, accrual catches up | holds |
| `trade_portfolio` | Two trades on one wallet, two overlapping sweeps, deletions: trades are an escrow, money conserved, one commission per trade | holds |
| `trade_two_admins` | "completeInvestment only ever runs once per investment" | violated |
| `trade_cancel` | A cancellation "releases the locked principal only, no profit" | violated |
| `trade_last_period` | "Credit every period that's actually elapsed" | violated |
| `gate` | Types, nesting, no circular wait, isolation, every call answered, first come first served | holds |
| `ledger_sqlite` | Behind the gate: balances, bonuses, subscriptions, settled is final, handlers are atomic | holds |
| `ledger_postgres` | Overlapping transactions: nothing below zero but by payouts below zero, locked reads current | holds |
| `ledger_race` | On PostgreSQL: "Only pending transactions can be confirmed", "... rejected" | violated |
| `accounts` | Any two requests of auth, users and KYC at once, each may fail at any statement: frozen while awaiting, a reset ends sessions, one bonus, and until two requests cross on a row, codes used once and links once but for failures between their two saves, guesses bounded, nothing undone | holds |
| `browser` | Two tabs: refreshes refused only with a cause, no session left behind by a refresh or a logout, no call stuck | holds |
| `pool` | Two requests and the pings on two connections: the server stands still for two reasons only, and every request ends | holds |

### Bounds, and why they are enough

- Trades: one trade for the properties about a row (rows do not read each
  other), two on one wallet with too little for both where money is summed.
  `trade_portfolio` has two sweeps that overlap, `trade_serial` one with failures
  and restarts; that a row's books balance, and no period is paid twice, under any
  overlap is proved. `trade_portfolio` has no failures, and its wallet has little
  to spare; the theorems about money have neither limit.
  `MCPlans` has a cycle of three periods with a minimum term and an open-ended
  trade of longer periods; with four ticks every order of due time, minimum term,
  end and sweep occurs, and a cap of two periods per pass (`MaxPeriodsPerPass`)
  is reached. A principal of 100 at 10 percent makes profits whole numbers. The
  manual accrual is negative, the case the DTO allows and nobody expects.
- `MaxManual`, `MaxPayouts`, `MaxFaults`, `MaxTime` and `MaxRows` only bound the
  search. `MaxPayouts` stops requests on a trade paid out that often; 2 lets the
  second payout happen.
- Gate: a transaction with a nested save and two legs of a `Promise.all`, beside
  an independent transaction, all with more than one statement where they may:
  the smallest instance with nesting, a stranger and a late call.
- Ledger: a trader and a referrer, two assets of which one has two prices
  (conversions round, at one price by exactly half a unit), two overlapping handlers, two
  requests that insert rows over
  an opening balance that covers one withdrawal: two handlers compete for it.
  A payout is of two dollars or of two less than nothing, which takes the
  referrer's empty wallets, and the trader's of one unit, below zero.
- Accounts: an admin, a user who awaits approval with 2FA, a session, a code, a
  reset link and a verification link, and an address not signed up yet; two
  requests at once out of three in all, so that a third can use what two have
  left. `MaxOtpAttempts` is 1: the first wrong guess is the last. `Subjects`
  leaves out requests about the admin.
- Browser: a page with two data calls beside its `getMe()` (two calls share a
  refresh) and a second tab with one; two acts of the user or of time after an
  access token that is fresh or has expired. A third act makes tens of millions
  of states; the theorems hold for any number.
- Pool: two requests on two connections with two pings, the smallest pool all of
  whose connections can be with transactions that want another; a trader with
  two wallets and a trade, and a referrer, so that every script exists.

The theorems remove these bounds for the safety properties they cover.

### Fairness

- Trade: weak fairness of each sweep's step. `@Interval` fires for ever in a
  process that is restarted (`restart: unless-stopped`), and a pass that has
  begun goes on. Nothing is assumed of users, admins or the clock; failures are
  bounded, so they cannot starve a sweep for ever.
- Gate: weak fairness of each work's own steps and of the calls a running handler
  makes. Node runs the callbacks of settled promises. Callers from outside are
  under no obligation.
- Ledger, accounts: none.
- Browser: weak fairness of the refreshes together (the server and the event loop
  go on with one) and of `Unload` (a navigation that has begun unloads the
  page). Nothing of the user, nor of the calls themselves.
- Pool: weak fairness of a request's own steps, of the answers to pings, of the
  pool's timer and of PostgreSQL's deadlock detector; strong fairness of `Lock`,
  since PostgreSQL hands a row lock to waiters in order, so that a row which is
  free again and again is got in the end.

`CHECK_DEADLOCK FALSE` stands where the bound on requests, rows or acts ends every
history, and in `gate`, where it ends when all calls are answered.

## What is proved

TLAPS checks these for every value of the constants that satisfies the
assumptions in the modules (`ConstantsOK`, `GateConstantsOK`, `TablesOK`,
`LedgerOK`, `RowsOK`, `AccountsOK`, `BrowserOK`, `PoolOK`, `BesideIsNoRow`), so
without the bounds above.

- `TradeLifecycleProofs`, whatever overlaps: `TypeCorrect`, `BooksAlwaysBalance`,
  `PeriodsPaidOnce`. The argument goes over what one step can do to one row
  (`RowStep`). A copy in flight can be saved at any time, so `BooksInv` and its
  like for the schedule speak of the copies too: each was accepted in a state, and
  balances.
- The same module, under the assumption that admin requests do not overlap
  (`OneAdminAtATime`: `Admins` has one member at most): `PaidOnceWithOneAdmin`,
  `CompletesOnceWithOneAdmin`, `EndedStaysEnded`, `CommissionOnceWithOneAdmin`,
  `EscrowWithOneAdmin`, `MoneyConservedWithOneAdmin`. `SerialInv` adds to the
  property that at most one admin request is in flight and that such a request is
  secured: the row it decided on has not ended since. A commission is paid by a
  completion, and a completed trade has been paid out. Without the assumption
  these are false, which `trade_two_admins` shows for `CompletesOnce`.
  `EscrowWithOneAdmin` is the refinement of `TradeEscrow`: `EscrowInv` says that a
  copy in flight has the owner and principal of its trade, so a cancellation pays
  the right wallet; a pass, a freeze, a switch or a manual accrual earns, a
  completion or cancellation closes, and the deletion of an ended row is a
  stutter. Conservation then needs the escrow's three actions only
  (`EscrowMovesMoney`): each moves money between one wallet and one trade.
- `SqliteGateProofs`: `GateTypeCorrect`, `NestingCannotDeadlock`, `WaitingEnds`,
  `TransactionsAreIsolated`, `GateServesInTurn`. `GateInv` says that the chain
  holds each queued work once, that holders of a turn come one by one, that a
  token is active exactly from the call to the release, and that a caller's turn
  lasts as long as a call it awaits. `Shallowest` uses the depth of nesting to find
  the holder; `WaitingEnds` takes from a set of works the `Deepest` that runs, or
  the first in the chain if all of them queue: it waits for none of the set.
  `GateServesInTurn` is the refinement of `SerialExecutor` without its fairness:
  the works that have begun are the first ones of the chain (`BegunFirst`), so an
  enqueued work is the last of the queue and a work that begins is its head.
- `LedgerProofs`: `LedgerTypeCorrect`, `OverdrawnByPayoutsOnly`,
  `LockedReadsAreCurrent`, on both databases. `LedgerInv` says of every open
  transaction that it is sound: what it will save is no lower than the payouts
  below zero it will then have been given, its own rows included (`Solvent`), what
  it read for update is current and, on PostgreSQL, still locked by it; no two
  transactions hold one lock; behind the
  gate at most one is open. A commit waits for the locks on whatever it writes,
  which keeps the others sound.
- `LedgerAtomicProofs`, behind the gate: `HandlersActAtOnce` (the refinement of
  `AtomicLedger`), `SettledOnce`, `PaymentsFollowed`, `OneBonusPerReferral`,
  `BalancesAddUp`.
  `GatedInv` says that the one open transaction is faithful: what it has read is
  what the tables hold, and what it is about to write is an operation of the
  abstract ledger (`Moving`, `Settling`). So a commit is that operation and every
  other step a stutter. The bonuses are counted with cardinalities (`BonusInv`):
  a commit adds one row to the bonuses of a referrer and one user to those
  triggered, or neither. `BalancesAddUp` goes row by row (`MatchAppended`,
  `MatchReplaced`): the wallet changes by what the row books, and by one unit
  more or less where a row and the balance round a half apart (`DebitRounds`,
  `CreditRounds`, `TransferRounds`).
- `SumTheorems`: what `SumFunctionOnSet` of the community modules gives for the
  empty set, one more element, a changed value. The library's induction over
  finite sets takes an operator, which the provers here cannot instantiate, so
  `SubsetInduction` argues with a least number: among the sizes of the subsets that
  fail there would be a smallest one.
- `AccountsProofs`. Types need which stage a kind of request may be at
  (`Shaped`). `RowsInv` adds that the row a request holds was the user's row at
  some time, so it is frozen exactly while it awaits approval: this gives
  `FrozenWhileAwaiting`, `NoColumnUndone` and `ApprovedStaysApproved`.
  `TokensInv` says that a token a request has spent is dead, that what was
  exchanged for it comes after, that at most one request spends a token unless
  rows crossed, and how attempts and guesses compare. A link's uses are counted
  against the requests between its two saves (`LinkUses`), a cardinality, for
  which `AccountsOK` takes the requests to be finitely many:
  `SessionsEndWithReset`,
  `DeadBeforeItsSuccessor`, `TokenUsedOnce`, `GuessesAreBounded`. `SignupInv`
  says that one signup at most is past its insert: `OneBonus`.
- `BrowserProofs`: `BrowserTypeCorrect`, `RefusalsHaveCause`,
  `NoSessionLeftBehind`. The invariant numbers tokens and refreshes in order,
  says that a page's open refreshes that are heard are the one in its promise
  (`Shared`), and that a token that is no longer live was exchanged by a refresh
  that carried it, or ended (`ExchangedBy`, `Moved`). `SessionsHeld` goes action by
  action: what leaves the jar at the answer of a refresh or a logout was sent with
  it and is dead, or enters `dropped`; what a login replaces enters `replaced`.
- `ConnectionPoolProofs`: `PoolTypeCorrect`, `OnlyTwoReasons`. `PoolInv` says who
  can have two connections and that each lock has an open transaction. Then the
  order of the scripts (`Orderly`): after which rows each script locks a row. When
  the server stands still and no transaction waits for a second connection, all
  that have one wait for locks, of one another. Among the users whose rows are
  waited for there is one whose referrer is not (`Uppermost`, by the depth of the
  referrals in `PoolOK`), and on that user's rows two transactions must wait for
  each other (`LocksCross`).

Only model-checked: liveness (`CycleEndIsNoticed`, `AccrualCatchesUp`,
`EveryCallSettles`, `NoCallStuck`, `EveryRequestEnds`, and the fairness of
`ServesInTurn`), which is out of this prover's reach. Every other property of a
run that passes is proved.

## Findings

1. Two admins (`trade_two_admins`). `setInvestmentStatus` saves the entity of an
   earlier read outside any transaction: a trade completed in between comes back
   to ACTIVE with its locked amount and is completed, and paid, again.
2. Cancellation (`trade_cancel`). `adminCancelInvestment` pays out
   `lockedAmount`, which includes the profit; its comment says principal only.
3. The last period (`trade_last_period`). The loop credits a period only while
   its due time is before the end date, so the one that ends with the cycle is
   never credited.
4. Confirm against reject (`ledger_race`). Both check PENDING on a read without a
   lock: on PostgreSQL both may pass, and the later one overwrites the earlier.
   Behind the SQLite gate this cannot happen (`ledger_sqlite`).

## Not modelled

Of the modelled components:

- Prices and settings as state: the models choose a price, a status or a limit
  freely where the code reads one. In the refresh of prices a forced refresh
  skips the gate its comment describes, and `fetchedAt` is taken after the fetch,
  so every other tick of the interval finds the cache still fresh; no modelled
  property depends on how old a price is.
- Wallet rows: a wallet without a row counts as holding nothing.
  Symbols are enabled assets, prices are positive.
- Amounts a user types with more than eight decimals, and the precision of
  `Decimal` itself (20 digits). The database keeps eight decimals; the models
  count those.
- The two rows, principal and profit, a completed trade's one credit is shown as:
  they are one CREDIT row of the sum.
- In `Ledger`, deadlocks PostgreSQL detects are a rollback at any point.
- In `ConnectionPool`: the transaction of an admin's `deleteUser`, whose cascade
  locks every row of the user, and the key-share locks an insert takes on the rows
  its foreign keys name.
- In `Accounts`: the uniqueness of a new e-mail address in a profile, access
  tokens (short-lived, and every request reads the user), and an address used
  again after its user was deleted. The registration bonus is more than nothing.
  On PostgreSQL a `save` is a SELECT and an UPDATE between which others run; the
  model is of the deployment behind the gate.
- In `BrowserSession`: a logout whose page goes away is served by then or never;
  the 401 of a deleted user; the login form, code and signup are one step;
  the other calls of `auth-client`'s `post()`, which never refresh, are left out,
  and so is the second `getMe()` of `app-shell.tsx`, which shares the refresh of its
  page and only shows its answer.

Whole parts:

- Terms and rates: strings parsed once, when a trade starts.
- Notifications, mail, listings, statistics, edits of plans and assets, seeds,
  imports, backups, migrations and the deploy script: I/O, reads, or single
  writes nothing else depends on.
- The pages of the frontend, by far the most lines of the repository: they show
  what the API returns. State they do keep is local to a component. Known there
  and not modelled: the comment of `use-row-selection.ts` says that the selection
  is cleared when the list of ids changes shape, but nothing clears it, so a row
  that a filter hides stays ticked; bulk actions use the filter of the render
  that started them; answers to two list requests can arrive in either order;
  console forms take their values once and write back what has changed since.

The lines the modules stand for are a small share of the repository because of
those pages; of the backend's services that decide something, most are covered.

## Plan

Done: the gate, trades, the ledger, accounts and KYC, sessions in the browser, the
connection pool, with the proofs above. What is left, in this order:

1. Trades and ledger composed: the subscription `start` checks before its
   transaction, and the periods a trade spends in AWAITING or loses to the cap
   when it is frozen.
2. The loop of `applyScheduledAccruals` against a closed form, and the parsing of
   terms and ranges, as pure operators over bounded inputs.
3. `Prices`: the refresh loop and its cache.
4. The console's tables: lists, filters, selection and bulk actions as answers
   arrive in any order.
