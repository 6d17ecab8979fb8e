------------------------------- MODULE Ledger -------------------------------
(***************************************************************************)
(* The handlers that move money in src/backend/src/wallets,                *)
(* src/backend/src/transactions and src/backend/src/subscriptions, one     *)
(* database transaction each, at the grain of its reads.                   *)
(*                                                                         *)
(* Each handler reads a wallet, adds to the balance it read and saves the  *)
(* sum.  Some lock the row they read (pessimistic_write, which is SELECT   *)
(* FOR UPDATE on PostgreSQL); others do not.  Gated is the SQLite          *)
(* deployment, where installSqliteGate runs one transaction at a time and  *)
(* TypeORM drops the lock mode; without it, it is PostgreSQL at READ       *)
(* COMMITTED: a read sees what has been committed, the writes of a         *)
(* transaction show at its commit and wait for the locks others hold.      *)
(* A wallet a handler only writes is locked from the write to the commit   *)
(* that follows it; the two are one step here.  The rows of the account    *)
(* that FOR UPDATE locks along with a wallet's are left to ConnectionPool: *)
(* without them, more handlers overlap.                                    *)
(***************************************************************************)
EXTENDS LedgerTables, FiniteSets, Functions

CONSTANTS
    Handlers, \* requests the server works on at once
    Gated,    \* SQLite behind its gate, or PostgreSQL
    MaxRows   \* bound: requests that insert rows

ASSUME LedgerOK == Gated \in BOOLEAN /\ MaxRows \in Nat

VARIABLES
    balance,  \* the wallets table
    rows,     \* the transactions table, in the order of insertion
    referral, \* users whose Referral row has a triggerEvent
    open      \* the open transaction of each handler

vars == <<balance, rows, referral, open>>

-----------------------------------------------------------------------------
(* Open transactions.                                                      *)

Moves == {"withdraw", "transfer", "adjust", "debit", "credit"}

NoChange == [w \in Wallet |-> 0]

Transaction ==
    [kind    : {"none"} \cup Moves \cup Verdicts,
     next    : {"none", "wallet", "subscription", "save", "bonus", "commit"},
     t       : Nat,            \* the row it settles
     locks   : SUBSET Wallet,  \* wallets read FOR UPDATE
     holds   : BOOLEAN,        \* it wrote the subscription of t
     saves   : SUBSET Wallet,  \* wallets it read in order to save them
     seen    : [Wallet -> Int], \* their balances as it read them
     changes : [Wallet -> Int], \* what it adds to them
     entries : Seq(Row),       \* rows it inserts
     pays    : BOOLEAN]        \* it marks the referral as paid

None == [kind |-> "none", next |-> "none", t |-> 0, locks |-> {}, holds |-> FALSE,
         saves |-> {}, seen |-> NoChange, changes |-> NoChange, entries |-> <<>>, pays |-> FALSE]

\* Mutant of MayBegin: the gate lets overlapping transactions through.
MayOverlap(p) == open[p] = None

\* A handler that can begin: behind the gate, when nobody holds the turn.
MayBegin(p) ==
    /\ open[p] = None
    /\ Gated => \A q \in Handlers : open[q] = None

\* One statement outside a transaction, or a transaction that reads nothing.
AtOnce == Gated => \A q \in Handlers : open[q] = None

\* Within the bound, counting the rows open transactions may insert.
Room == Len(rows) + Cardinality({q \in Handlers : open[q].kind \in Moves}) < MaxRows

Unlocked(p, w) == \A q \in Handlers \ {p} : w \notin open[q].locks

\* Mutant of LocksRow: findOne without lock in every handler.
LocksNoRow(kind, w) == {}

\* The wallets a handler reads FOR UPDATE: the one it takes money from, or
\* whose value it credits; not the one an admin adjusts or a transfer reaches.
LocksRow(kind, w) == IF kind = "adjust" THEN {} ELSE {w}

\* Mutant of Covers: the balance is not compared with the amount.
CoversAny(w, amount) == TRUE

\* "Insufficient balance", "This would take the wallet balance negative".
Covers(w, amount) == balance[w] - amount >= 0

\* The balances of the wallets in S, as of now.
Read(S) == [w \in Wallet |-> IF w \in S THEN balance[w] ELSE 0]

-----------------------------------------------------------------------------
(* Handlers that move money: they read, then commit.                       *)

\* w is the wallet it is about; saves are the ones it will save.
BeginMove(p, kind, w, saves, change, entries) ==
    /\ MayBegin(p)
    /\ Room
    /\ \A x \in LocksRow(kind, w) : Unlocked(p, x)
    /\ open' = [open EXCEPT ![p] =
         [None EXCEPT !.kind = kind, !.next = "commit",
                      !.locks = IF Gated THEN {} ELSE LocksRow(kind, w),
                      !.saves = saves, !.seen = Read(saves),
                      !.changes = change, !.entries = entries]]
    /\ UNCHANGED <<balance, rows, referral>>

\* withdrawal_requires_admin_approval decides on the status.
RequestWithdrawal(p, w, amount, status) ==
    /\ Covers(w, amount)
    /\ BeginMove(p, "withdraw", w, {w}, Change(w, -amount),
                 <<Entry("WITHDRAWAL", status, w, amount)>>)

Transfer(p, w, v, amount, a, b) ==
    /\ Covers(w, amount)
    /\ BeginMove(p, "transfer", w, {w, v},
                 TransferChange(w, v, amount, Gained(balance[v], amount * a, b)),
                 TransferEntries(w, v, amount, Converted(amount, a, b)))

\* Posted as an adjustment, a deposit or a withdrawal, COMPLETED either way:
\* the row says what was added.
AdminAdjustBalance(p, w, amount) ==
    /\ Covers(w, -amount)
    /\ BeginMove(p, "adjust", w, {w}, Change(w, amount),
                 <<Entry("ADJUSTMENT", "COMPLETED", w, amount)>>)

\* start() of a trade pays with it: "Insufficient balance in this wallet".
DebitWalletUsdValue(p, w, usd, rate) ==
    /\ balance[w] * rate >= usd
    /\ BeginMove(p, "debit", w, {w}, Change(w, Gained(balance[w], -usd, rate)),
                 <<Entry("DEBIT", "COMPLETED", w, Tokens(usd, rate))>>)

\* A trade's payout: its lockedAmount, whose sign nobody looks at, nor what is
\* left in the wallet.  A commission has the same shape, and is never negative.
CreditWalletUsdValue(p, w, usd, rate) ==
    BeginMove(p, "credit", w, {w}, Change(w, Gained(balance[w], usd, rate)),
              <<Entry("CREDIT", "COMPLETED", w, Tokens(usd, rate))>>)

\* Inserts a request; no wallet is touched before an admin has confirmed it.
Insert(row) ==
    /\ AtOnce
    /\ Room
    /\ rows' = Append(rows, row)
    /\ UNCHANGED <<balance, referral, open>>

RequestDeposit(w, amount) == Insert(Entry("DEPOSIT", "PENDING", w, amount))
Subscribe(u, s)           == Insert(SubscriptionEntry(u, s))

\* Mutant of Remove: deletes rows that are still pending and refunds them.
RemoveRefunds(t) ==
    /\ AtOnce
    /\ ~rows[t].deleted
    /\ rows' = [rows EXCEPT ![t].deleted = TRUE]
    /\ balance' = [balance EXCEPT ![rows[t].wallet] =
                     IF rows[t].type = "WITHDRAWAL" THEN @ + rows[t].amount ELSE @]
    /\ UNCHANGED <<referral, open>>

\* TransactionsService.remove: "wallet balances are left exactly as they are".
Remove(t) ==
    /\ AtOnce
    /\ ~rows[t].deleted
    /\ rows' = [rows EXCEPT ![t].deleted = TRUE]
    /\ UNCHANGED <<balance, referral, open>>

-----------------------------------------------------------------------------
(* confirm and reject.                                                     *)

\* Mutant of Settleable: no check of the status.
SettleableAgain(t) == ~rows[t].deleted

\* "Only pending transactions can be confirmed", "... rejected".
Settleable(t) == rows[t].status = "PENDING" /\ ~rows[t].deleted

\* The first read, of the row to settle; it is not locked.
Settle(p, verdict, t) ==
    /\ MayBegin(p)
    /\ Settleable(t)
    /\ open' = [open EXCEPT ![p] =
         [None EXCEPT !.kind = verdict, !.t = t,
                      !.next = IF PaysWallet(rows[t], verdict) THEN "wallet"
                               ELSE IF rows[t].type = "SUBSCRIPTION" THEN "subscription"
                               ELSE "commit"]]
    /\ UNCHANGED <<balance, rows, referral>>

\* findOneBy({ id: tx.walletId }), not locked either.
ReadWallet(p) ==
    LET row == rows[open[p].t] IN
    /\ open[p].next = "wallet"
    /\ open' = [open EXCEPT ![p] =
         [@ EXCEPT !.next = "commit", !.saves = {row.wallet},
                   !.seen = Read({row.wallet}),
                   !.changes = Change(row.wallet, row.amount)]]
    /\ UNCHANGED <<balance, rows, referral>>

\* activatePendingSubscription and cancelPendingSubscription: the read.
ReadSubscription(p) ==
    /\ open[p].next = "subscription"
    /\ open' = [open EXCEPT ![p].next =
         IF rows[open[p].t].sub = "PENDING" THEN "save" ELSE "commit"]
    /\ UNCHANGED <<balance, rows, referral>>

\* Mutant of Due: the referral of an earlier bonus is not looked at.
DueAgain(u) == Earns(u, {})

\* The read of the referral, not locked.
Due(u) == Earns(u, referral)

\* The save of the subscription, which waits for another handler's save of it,
\* and the read of the referral.
SaveSubscription(p) ==
    LET t == open[p].t IN
    /\ open[p].next = "save"
    /\ \A q \in Handlers \ {p} : ~(open[q].holds /\ open[q].t = t)
    /\ open' = [open EXCEPT ![p] =
         [@ EXCEPT !.holds = TRUE,
                   !.next = IF open[p].kind = "confirm" /\ Due(rows[t].wallet[1])
                            THEN "bonus" ELSE "commit"]]
    /\ UNCHANGED <<balance, rows, referral>>

\* maybeCreditReferralBonus reads the referrer's wallet FOR UPDATE.
CreditReferrer(p) ==
    LET u == rows[open[p].t].wallet[1]
        w == ReferrerWallet(u)
    IN
    /\ open[p].next = "bonus"
    /\ Unlocked(p, w)
    /\ open' = [open EXCEPT ![p] =
         [@ EXCEPT !.next = "commit", !.pays = TRUE,
                   !.locks = IF Gated THEN {} ELSE {w}, !.saves = {w},
                   !.seen = Read({w}), !.changes = Change(w, Bonus),
                   !.entries = <<BonusEntry(u)>>]]
    /\ UNCHANGED <<balance, rows, referral>>

-----------------------------------------------------------------------------
(* The end of a transaction.                                               *)

\* Mutant of Saved: subscriptions are left as they are.
SavedWithoutSub(tx) ==
    IF tx.t = 0 THEN rows
    ELSE [rows EXCEPT ![tx.t].status = TxStatus(tx.kind), ![tx.t].deleted = FALSE]

\* save() of the row tx settles, which inserts it anew if it has been deleted,
\* and of its subscription.
Saved(tx) ==
    IF tx.t = 0 THEN rows
    ELSE [rows EXCEPT ![tx.t].status = TxStatus(tx.kind),
                      ![tx.t].sub = IF tx.holds THEN SubStatus(tx.kind) ELSE @,
                      ![tx.t].deleted = FALSE]

\* The balances tx saves are what it read and what it adds.
Commit(p) ==
    LET tx == open[p] IN
    /\ tx.next = "commit"
    /\ \A w \in tx.saves : Unlocked(p, w)
    /\ balance' = [w \in Wallet |-> IF w \in tx.saves
                                    THEN tx.seen[w] + tx.changes[w] ELSE balance[w]]
    /\ rows' = Saved(tx) \o tx.entries
    /\ referral' = IF tx.pays THEN referral \cup {rows[tx.t].wallet[1]} ELSE referral
    /\ open' = [open EXCEPT ![p] = None]

\* An error, a deadlock PostgreSQL resolves, or a crash: everything rolls back.
Rollback(p) ==
    /\ open[p] # None
    /\ open' = [open EXCEPT ![p] = None]
    /\ UNCHANGED <<balance, rows, referral>>

Init ==
    /\ balance = Opening
    /\ rows = <<>>
    /\ referral = {}
    /\ open = [p \in Handlers |-> None]

Request(p) ==
    \/ \E w \in Wallet, amount \in Amounts :
         \/ \E status \in {"PENDING", "COMPLETED"} :
              RequestWithdrawal(p, w, amount, status)
         \/ \E v \in Wallet \ {w}, a \in Rates[w[2]] : \E b \in Rates[v[2]] :
              v[1] = w[1] /\ Transfer(p, w, v, amount, a, b)
         \/ \E rate \in Rates[w[2]] : DebitWalletUsdValue(p, w, amount, rate)
    \/ \E w \in Wallet, usd \in Payouts : \E rate \in Rates[w[2]] :
         CreditWalletUsdValue(p, w, usd, rate)
    \/ \E w \in Wallet, amount \in Adjustments : AdminAdjustBalance(p, w, amount)
    \/ \E t \in DOMAIN rows, verdict \in Verdicts : Settle(p, verdict, t)

Step(p) ==
    \/ ReadWallet(p)
    \/ ReadSubscription(p)
    \/ SaveSubscription(p)
    \/ CreditReferrer(p)
    \/ Commit(p)
    \/ Rollback(p)

Next ==
    \/ \E p \in Handlers : Request(p) \/ Step(p)
    \/ \E w \in Wallet, amount \in Amounts : RequestDeposit(w, amount)
    \/ \E u \in Users, s \in Symbols : Subscribe(u, s)
    \/ \E t \in DOMAIN rows : Remove(t)

Spec == Init /\ [][Next]_vars

-----------------------------------------------------------------------------
(* Properties.                                                             *)

TypeOK ==
    /\ balance \in [Wallet -> Int]
    /\ rows \in Seq(Row)
    /\ referral \subseteq Users
    /\ open \in [Handlers -> Transaction]

\* What a row of the transactions table says was added to its wallet.
Effect(row) ==
    CASE row.type = "DEPOSIT"    -> IF row.status = "COMPLETED" THEN row.amount ELSE 0
      [] row.type = "WITHDRAWAL" -> IF row.status = "CANCELLED" THEN 0 ELSE -row.amount
      [] row.type \in {"TRANSFER_OUT", "DEBIT"} -> -row.amount
      [] row.type = "SUBSCRIPTION"              -> 0
      [] OTHER                                  -> row.amount

\* What a table of transactions says was added to w, row by row.
Booked(table, w) ==
    [t \in DOMAIN table |-> IF table[t].wallet = w THEN Effect(table[t]) ELSE 0]

\* A payout below zero from w: what it takes, as a number that is not positive.
Shortfall(row, w) ==
    IF row.wallet = w /\ row.type = "CREDIT" /\ row.amount < 0 THEN row.amount ELSE 0

Shortfalls(table, w) ==
    SumFunctionOnSet([t \in DOMAIN table |-> Shortfall(table[t], w)], DOMAIN table)

\* A row rounds half a unit away from zero, the balance it is taken from or
\* added to rounds what is left: rows that may take half a unit more than the
\* wallet gave, and, of a wallet payouts have taken below zero, rows that may
\* add half a unit more than it got.
KeepsHalf(table, w) ==
    {t \in DOMAIN table : /\ table[t].wallet = w
                          /\ table[t].type = "DEBIT" \/ Shortfall(table[t], w) < 0}

LosesHalf(table, w) ==
    {t \in DOMAIN table : /\ Shortfalls(table, w) < 0
                          /\ table[t].wallet = w
                          /\ table[t].type \in {"CREDIT", "TRANSFER_IN"}}

\* No update of a wallet is lost, doubled or left out: every balance is what
\* the transactions on that wallet add up to, deleted ones included, but for
\* one smallest unit at most where a row and the balance round half of one.
BalancesMatchRows ==
    \A w \in Wallet :
        balance[w] - Opening[w] - SumFunctionOnSet(Booked(rows, w), DOMAIN rows)
            \in -Cardinality(LosesHalf(rows, w)) .. Cardinality(KeepsHalf(rows, w))

\* maybeCreditReferralBonus pays once per referred user: a referrer has as many
\* bonuses as referrals whose triggerEvent is set.
BonusesMatchReferrals ==
    \A r \in Users :
        Cardinality({t \in DOMAIN rows : /\ rows[t].type = "REFERRAL_BONUS"
                                         /\ rows[t].wallet = <<r, Fiat>>})
        = Cardinality({u \in referral : Referrer[u] = r})

\* A subscription is active once its payment is confirmed, cancelled once it is
\* rejected, and pending in between: confirm and reject keep both in step.
PaymentsMatchSubscriptions ==
    \A t \in DOMAIN rows : rows[t].type = "SUBSCRIPTION" =>
        <<rows[t].status, rows[t].sub>> \in
            {<<"PENDING", "PENDING">>, <<"COMPLETED", "ACTIVE">>,
             <<"CANCELLED", "CANCELLED">>}

\* confirm and reject: "Only pending transactions can be confirmed", "Only
\* pending transactions can be rejected".
SettledIsFinal ==
    [][\A t \in DOMAIN rows :
          rows[t].status # "PENDING" => rows'[t].status = rows[t].status]_vars

\* No handler that compares the balance first takes out more than the wallet
\* holds, whatever the others do.  creditWalletUsdValue compares nothing: a
\* wallet is below zero by no more than the payouts below zero it was given,
\* and never without one.
NeverOverdrawn == \A w \in Wallet : balance[w] >= Shortfalls(rows, w)

\* The wallets a transaction has read FOR UPDATE, by the handler it is of.
ReadForUpdate(tx) ==
    {w \in tx.saves :
        \/ tx.kind \in {"withdraw", "debit", "credit"}
        \/ tx.kind = "transfer" /\ tx.changes[w] < 0
        \/ tx.pays}

\* "the same guarantee the pessimistic locks exist to provide": the balance a
\* handler has read FOR UPDATE is still the balance when it saves, though
\* confirm, reject, transfers and adjustments write wallets they did not lock.
LockedReadIsCurrent ==
    \A p \in Handlers : \A w \in ReadForUpdate(open[p]) :
        balance[w] = open[p].seen[w]

\* Behind the gate each handler is one atomic operation of the ledger.
Atomic == INSTANCE AtomicLedger
HandlersAreAtomic == Atomic!Spec

=============================================================================
