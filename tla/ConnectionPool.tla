--------------------------- MODULE ConnectionPool ---------------------------
(***************************************************************************)
(* The pool of PostgreSQL connections of                                   *)
(* src/backend/src/database/database.module.ts (`max`, and the time after  *)
(* which a request for a connection is refused, connectionTimeoutMillis)   *)
(* under the transactions of the services.                                 *)
(*                                                                         *)
(* A transaction has a connection from its beginning to its end, locks     *)
(* rows on the way, and may read a setting or a plan through a service     *)
(* that knows nothing of the transaction: that read is beside it, on a     *)
(* second connection.  DatabaseKeepAliveService sends its pings through    *)
(* the same pool.                                                          *)
(***************************************************************************)
EXTENDS Naturals, Sequences, FiniteSets

CONSTANTS
    Requests,    \* what the server works on at once
    Connections, \* the pool
    Pings,       \* POOL_SIZE of the keep-alive service
    Users,
    NoUser,
    Referrer,    \* the user who referred a user, or NoUser
    Symbols,
    Fiat,        \* the wallet bonuses and commissions are paid to
    Holdings,    \* the wallets there are, by user and symbol
    Trades,      \* the wallets a trade was paid from, one trade each
    Nobody,      \* has a connection that is idle, a row that is not locked
    Ping,        \* a ping of the keep-alive service
    Beside       \* the step of a transaction that takes a second connection

\* Users are referred by users who signed up before them; provisionForUser
\* gives everybody a fiat wallet.
ASSUME PoolOK ==
    /\ IsFiniteSet(Connections) /\ Connections # {}
    /\ Pings \in Nat
    /\ IsFiniteSet(Users) /\ NoUser \notin Users
    /\ Referrer \in [Users -> Users \cup {NoUser}]
    /\ \E depth \in [Users -> 0 .. Cardinality(Users)] : \A u \in Users :
         Referrer[u] # NoUser => depth[Referrer[u]] < depth[u]
    /\ Fiat \in Symbols
    /\ Holdings \subseteq Users \X Symbols
    /\ Users \X {Fiat} \subseteq Holdings
    /\ Trades \subseteq Holdings
    /\ Nobody \notin Requests /\ Ping \notin Requests /\ Ping # Nobody

VARIABLES
    use,   \* who has each connection
    queue, \* who waits for one, first come first
    job,   \* what each request runs, and its next step
    locks  \* the open transaction that has locked each row

vars == <<use, queue, job, locks>>

-----------------------------------------------------------------------------
(* Transactions: the rows they lock, by a read FOR UPDATE or by a write,   *)
(* and the reads they make beside, in the order of the code.  Rows that    *)
(* are only written right before the commit are left out.                  *)

WalletOf(h)     == <<"wallet", h[1], h[2]>>
TradeOf(h)      == <<"trade", h[1], h[2]>>
Account(u)      == <<"account", u>>
Subscription(u) == <<"subscription", u>>

Row == {WalletOf(h) : h \in Holdings} \cup {TradeOf(h) : h \in Trades}
       \cup {Account(u) : u \in Users} \cup {Subscription(u) : u \in Users}

UserOf(row) == row[2]

ASSUME BesideIsNoRow == Beside \notin Row

\* The wallet of the referrer of u.
Payee(u) == <<Referrer[u], Fiat>>

Referred == {u \in Users : Referrer[u] # NoUser}

\* A statement that waits for no row.
Statement == {<<>>}

\* One write: adminAdjustBalance, the confirmation of a deposit, the rejection
\* of a withdrawal; manualAccrual, markSyncing, setInvestmentStatus, remove;
\* cancelPendingSubscription.
OneRow == {<<row>> : row \in {WalletOf(h) : h \in Holdings}
                             \cup {TradeOf(h) : h \in Trades}
                             \cup {Subscription(u) : u \in Users}}

\* creditBonus.  The wallet is read with its account, and FOR UPDATE locks
\* the rows of both tables.
CreditBonus == {<<WalletOf(h), Account(h[1])>> : h \in Holdings}

\* Mutant of Transfer: the target may be anybody's.
TransferToAnyone ==
    {<<WalletOf(p[1]), Account(p[1][1]), WalletOf(p[2])>> :
        p \in {q \in Holdings \X Holdings : q[1] # q[2]}}

\* The source of a transfer, then its target, a wallet of the same user.
Transfer ==
    {<<WalletOf(p[1]), Account(p[1][1]), WalletOf(p[2])>> :
        p \in {q \in Holdings \X Holdings : q[1][1] = q[2][1] /\ q[1] # q[2]}}

\* min_withdrawal_usd, max_withdrawal_usd, withdrawal_requires_admin_approval.
RequestWithdrawal ==
    {<<WalletOf(h), Account(h[1]), Beside, Beside, Beside>> : h \in Holdings}

\* trades_require_approval.
Start == {<<WalletOf(h), Account(h[1]), Beside>> : h \in Holdings}

\* The plan of the trade: processInvestments, endEarly.
Accrue == {<<Beside, TradeOf(h)>> : h \in Trades}

AdminCancel == {<<WalletOf(h), Account(h[1]), TradeOf(h)>> : h \in Trades}

\* The plan, then the periods that are due, if any, and the payout.
AdminComplete ==
    {<<Beside, TradeOf(h), WalletOf(h), Account(h[1])>> : h \in Trades} \cup
    {<<Beside, WalletOf(h), Account(h[1]), TradeOf(h)>> : h \in Trades}

\* And the commission of the referrer.
AdminCompletePays ==
    {<<Beside, TradeOf(h), WalletOf(h), Account(h[1]),
       Beside, WalletOf(Payee(h[1])), Account(Referrer[h[1]])>> :
        h \in {g \in Trades : g[1] \in Referred}} \cup
    {<<Beside, WalletOf(h), Account(h[1]), TradeOf(h),
       Beside, WalletOf(Payee(h[1])), Account(Referrer[h[1]])>> :
        h \in {g \in Trades : g[1] \in Referred}}

\* The bonus of the referrer.
ConfirmSubscription ==
    {<<Subscription(u), Beside, WalletOf(Payee(u)), Account(Referrer[u])>> : u \in Referred}

Scripts == UNION {Statement, OneRow, CreditBonus, Transfer, RequestWithdrawal, Start,
                  Accrue, AdminCancel, AdminComplete, AdminCompletePays,
                  ConfirmSubscription}

Job == [script : Seq(Row \cup {Beside}), at : Nat \ {0}]

NoJob == [script |-> <<>>, at |-> 1]

-----------------------------------------------------------------------------
(* Asking for a connection, and giving it back.                            *)

Idle == {c \in Connections : use[c] = Nobody}

Has(r) == {c \in Connections : use[c] = r}

Queued(r) == \E i \in DOMAIN queue : queue[i] = r

\* An idle connection, or a place at the end of the queue.
Asks(x) ==
    IF Idle # {}
    THEN \E c \in Idle : use' = [use EXCEPT ![c] = x] /\ queue' = queue
    ELSE queue' = Append(queue, x) /\ use' = use

\* The connection goes to the first of those that wait.
HandsOn(c, waiting) ==
    IF waiting = <<>>
    THEN use' = [use EXCEPT ![c] = Nobody] /\ queue' = waiting
    ELSE use' = [use EXCEPT ![c] = Head(waiting)] /\ queue' = Tail(waiting)

\* A transaction that has ended lets its locks go.
Unlocks(r) == locks' = [row \in Row |-> IF locks[row] = r THEN Nobody ELSE locks[row]]

-----------------------------------------------------------------------------
(* A request.                                                              *)

AtRest(r)  == Has(r) = {} /\ ~Queued(r)

\* Its transaction is open, and it waits for no connection and no answer on a
\* second one.
Running(r) == ~Queued(r) /\ \E c \in Connections : Has(r) = {c}

Over(r) == job[r].at > Len(job[r].script)

NextStep(r) == job[r].script[job[r].at]

Advance(r) == job' = [job EXCEPT ![r].at = @ + 1]

\* dataSource.transaction, or a repository's query.
Begin(r, script) ==
    /\ AtRest(r)
    /\ Asks(r)
    /\ job' = [job EXCEPT ![r] = [script |-> script, at |-> 1]]
    /\ UNCHANGED locks

\* Mutant of AskBeside: a read is sent before the last one is answered.
AskBesideAtOnce(r) ==
    /\ Has(r) # {}
    /\ ~Over(r) /\ NextStep(r) = Beside
    /\ Asks(r)
    /\ UNCHANGED <<job, locks>>

\* settingsService.getValue, plansService.findById: not through the manager.
AskBeside(r) ==
    /\ Running(r)
    /\ ~Over(r) /\ NextStep(r) = Beside
    /\ Asks(r)
    /\ UNCHANGED <<job, locks>>

\* The answer on the second connection, which is given back.
ReadBeside(r) ==
    /\ ~Queued(r)
    /\ ~Over(r) /\ NextStep(r) = Beside
    /\ \E c, d \in Has(r) : c # d /\ HandsOn(c, queue)
    /\ Advance(r)
    /\ UNCHANGED locks

Lock(r) ==
    /\ Running(r)
    /\ ~Over(r) /\ NextStep(r) \in Row
    /\ locks[NextStep(r)] = Nobody
    /\ locks' = [locks EXCEPT ![NextStep(r)] = r]
    /\ Advance(r)
    /\ UNCHANGED <<use, queue>>

\* The end of a transaction, one way or the other.
Ends(r) ==
    /\ Running(r)
    /\ \E c \in Has(r) : HandsOn(c, queue)
    /\ job' = [job EXCEPT ![r] = NoJob]
    /\ Unlocks(r)

Commit(r) == Over(r) /\ Ends(r)

\* An error, or an early return.
Leave(r) == ~Over(r) /\ Ends(r)

-----------------------------------------------------------------------------
(* What ends a wait.                                                       *)

\* The row r waits for is locked.
Blocked(r) ==
    /\ Running(r)
    /\ ~Over(r) /\ NextStep(r) \in Row
    /\ locks[NextStep(r)] # Nobody

\* r is one of several transactions each of which waits for another's lock.
InDeadlock(r) ==
    \E S \in SUBSET Requests : r \in S /\ \A p \in S :
        Blocked(p) /\ locks[NextStep(p)] \in S

\* PostgreSQL aborts one of them.
Abort(r) == InDeadlock(r) /\ Leave(r)

\* Mutant of Expire: no connectionTimeoutMillis.
ExpireNever == FALSE /\ UNCHANGED vars

\* connectionTimeoutMillis: who has waited longest is refused, and its
\* transaction, when it has one, is rolled back.
Expire ==
    /\ queue # <<>>
    /\ LET x == Head(queue) IN
       IF x \in Requests
       THEN /\ IF Has(x) = {} THEN use' = use /\ queue' = Tail(queue)
               ELSE \E c \in Has(x) : HandsOn(c, Tail(queue))
            /\ job' = [job EXCEPT ![x] = NoJob]
            /\ Unlocks(x)
       ELSE use' = use /\ queue' = Tail(queue) /\ UNCHANGED <<job, locks>>

-----------------------------------------------------------------------------
(* DatabaseKeepAliveService.                                               *)

\* All pings at once; the last ones have timed out by then.
KeepAlive ==
    /\ ~Queued(Ping)
    /\ \E S \in SUBSET Idle :
         /\ Cardinality(S) = Pings \/ S = Idle
         /\ Cardinality(S) <= Pings
         /\ use' = [c \in Connections |-> IF c \in S THEN Ping ELSE use[c]]
         /\ queue' = queue \o [i \in 1 .. (Pings - Cardinality(S)) |-> Ping]
    /\ UNCHANGED <<job, locks>>

Pinged(c) ==
    /\ use[c] = Ping
    /\ HandsOn(c, queue)
    /\ UNCHANGED <<job, locks>>

Init ==
    /\ use = [c \in Connections |-> Nobody]
    /\ queue = <<>>
    /\ job = [r \in Requests |-> NoJob]
    /\ locks = [row \in Row |-> Nobody]

Proceed(r) == AskBeside(r) \/ ReadBeside(r) \/ Commit(r)

Next ==
    \/ \E r \in Requests, script \in Scripts : Begin(r, script)
    \/ \E r \in Requests : Proceed(r) \/ Lock(r) \/ Leave(r)
    \/ Expire
    \/ KeepAlive
    \/ \E c \in Connections : Pinged(c)

\* The server and PostgreSQL go on, PostgreSQL hands a lock on in the order it
\* was asked for and resolves deadlocks, and the pool's timer fires.
Fairness ==
    /\ \A r \in Requests :
         WF_vars(Proceed(r)) /\ SF_vars(Lock(r)) /\ WF_vars(Abort(r))
    /\ WF_vars(Expire)
    /\ \A c \in Connections : WF_vars(Pinged(c))

Spec == Init /\ [][Next]_vars /\ Fairness

-----------------------------------------------------------------------------
(* Properties.                                                             *)

\* Types, and no request has more than the connection of its transaction and
\* one beside it, nor waits for a third.
TypeOK ==
    /\ use \in [Connections -> Requests \cup {Nobody, Ping}]
    /\ queue \in Seq(Requests \cup {Ping})
    /\ job \in [Requests -> Job]
    /\ locks \in [Row -> Requests \cup {Nobody}]
    /\ \A r \in Requests, c, d, e \in Connections :
         use[c] = r /\ use[d] = r /\ use[e] = r => c = d \/ d = e \/ c = e
    /\ \A r \in Requests : Queued(r) =>
         \A c, d \in Connections : use[c] = r /\ use[d] = r => c = d

\* Nothing moves before a timeout or the deadlock detector: every request that
\* is at work waits for a connection or a lock.
Stuck ==
    /\ \E r \in Requests : ~AtRest(r)
    /\ \A r \in Requests : ~AtRest(r) => Queued(r) \/ Blocked(r)
    /\ \A c \in Connections : use[c] # Ping

\* Every connection is with a transaction of its own, and one of these waits
\* for a second connection.
Starved ==
    /\ \A c, d \in Connections : use[c] \in Requests /\ (use[c] = use[d] => c = d)
    /\ \E r \in Requests : Queued(r) /\ Has(r) # {}

\* Two transactions, each of which waits for a row the other has locked, and
\* all these rows are of one user.
Crossed ==
    \E p, q \in Requests :
        /\ p # q
        /\ Blocked(p) /\ Blocked(q)
        /\ locks[NextStep(p)] = q /\ locks[NextStep(q)] = p
        /\ UserOf(NextStep(p)) = UserOf(NextStep(q))

\* The server stands still for two reasons only: there are as many transactions
\* as the pool has connections, one of which reads a setting or a plan beside
\* itself; or two transactions on one user's rows lock them in opposite order,
\* as two transfers do, or a completion and a cancellation of one trade.  The
\* chains from a user to the referrer to their referrer, pings and statements
\* outside transactions never stop it.
StuckForTwoReasons == Stuck => Starved \/ Crossed

\* Whatever the server works on comes to an end: the pool's timeout ends the
\* wait of transactions that have all its connections and ask for more.
EveryRequestEnds == \A r \in Requests : ~AtRest(r) ~> AtRest(r)

=============================================================================
