------------------------- MODULE LedgerAtomicProofs -------------------------
(* What holds of Ledger behind the gate, where one handler runs at a time: *)
(* each is one operation of AtomicLedger, whatever it reads and when.      *)
EXTENDS LedgerProofs

-----------------------------------------------------------------------------
(* The plan of a handler that moves money, as it stands before its commit. *)

Withdraws(tx) ==
    \E w \in Wallet, amount \in Amounts, status \in {"PENDING", "COMPLETED"} :
        /\ Covers(w, amount)
        /\ tx.changes = Change(w, -amount)
        /\ tx.entries = <<Entry("WITHDRAWAL", status, w, amount)>>

Moved(tx, w, v, amount, a, b) ==
    /\ v[1] = w[1] /\ Covers(w, amount)
    /\ tx.changes = TransferChange(w, v, amount, Gained(balance[v], amount * a, b))
    /\ tx.entries = TransferEntries(w, v, amount, Converted(amount, a, b))

Transfers(tx) ==
    \E w \in Wallet, amount \in Amounts : \E v \in Wallet \ {w}, a \in Rates[w[2]] :
        \E b \in Rates[v[2]] : Moved(tx, w, v, amount, a, b)

Adjusts(tx) ==
    \E w \in Wallet, amount \in Adjustments :
        /\ Covers(w, -amount)
        /\ tx.changes = Change(w, amount)
        /\ tx.entries = <<Entry("ADJUSTMENT", "COMPLETED", w, amount)>>

Debits(tx) ==
    \E w \in Wallet, usd \in Amounts : \E rate \in Rates[w[2]] :
        /\ balance[w] * rate >= usd
        /\ tx.changes = Change(w, Gained(balance[w], -usd, rate))
        /\ tx.entries = <<Entry("DEBIT", "COMPLETED", w, Tokens(usd, rate))>>

Credits(tx) ==
    \E w \in Wallet, usd \in Payouts : \E rate \in Rates[w[2]] :
        /\ tx.changes = Change(w, Gained(balance[w], usd, rate))
        /\ tx.entries = <<Entry("CREDIT", "COMPLETED", w, Tokens(usd, rate))>>

Moving(tx) ==
    /\ Withdraws(tx) \/ Transfers(tx) \/ Adjusts(tx) \/ Debits(tx) \/ Credits(tx)
    /\ tx.next = "commit" /\ ~tx.pays
    /\ \A w \in Wallet : w \notin tx.saves => tx.changes[w] = 0

-----------------------------------------------------------------------------
(* What a handler that settles a row knows of it, stage by stage.          *)

Takes(row) == row.type = "SUBSCRIPTION" /\ row.sub = "PENDING"

Owes(tx) == tx.kind = "confirm" /\ Earns(rows[tx.t].wallet[1], referral)

\* It has saved nothing but, at most, the subscription.
Untouched(tx) == tx.saves = {} /\ tx.entries = <<>> /\ ~tx.pays

Pays(tx) ==
    LET row == rows[tx.t] IN
    /\ PaysWallet(row, tx.kind)
    /\ ~tx.holds /\ ~tx.pays /\ tx.entries = <<>>
    /\ tx.saves = {row.wallet} /\ tx.changes = Change(row.wallet, row.amount)

Leaves(tx) ==
    /\ ~PaysWallet(rows[tx.t], tx.kind) /\ ~Takes(rows[tx.t])
    /\ ~tx.holds /\ Untouched(tx)

Switches(tx) ==
    /\ Takes(rows[tx.t]) /\ tx.holds
    /\ ~Owes(tx) /\ Untouched(tx)

Rewards(tx) ==
    LET u == rows[tx.t].wallet[1] IN
    /\ Takes(rows[tx.t]) /\ tx.holds
    /\ Owes(tx) /\ tx.pays
    /\ tx.saves = {ReferrerWallet(u)} /\ tx.changes = Change(ReferrerWallet(u), Bonus)
    /\ tx.entries = <<BonusEntry(u)>>

Settling(tx) ==
    /\ tx.t \in DOMAIN rows /\ tx.t # 0 /\ tx.kind \in Verdicts /\ tx.next # "none"
    /\ rows[tx.t].status = "PENDING" /\ ~rows[tx.t].deleted
    /\ tx.next = "wallet" => PaysWallet(rows[tx.t], tx.kind) /\ ~tx.holds
    /\ tx.next = "subscription" => rows[tx.t].type = "SUBSCRIPTION" /\ ~tx.holds
    /\ tx.next = "save" => Takes(rows[tx.t])
    /\ tx.next = "bonus" => Takes(rows[tx.t]) /\ tx.holds /\ Owes(tx)
    /\ tx.next = "commit" => Pays(tx) \/ Leaves(tx) \/ Switches(tx) \/ Rewards(tx)

\* What an open transaction has read is how things are, and what it is about
\* to do is an operation of AtomicLedger.
Faithful(tx) ==
    /\ \A w \in tx.saves : tx.seen[w] = balance[w]
    /\ \/ tx = None
       \/ tx.t = 0 /\ Moving(tx)
       \/ Settling(tx)

AllFaithful == \A p \in Handlers : Faithful(open[p])

GatedInv == LedgerInv /\ AllFaithful /\ PaymentsMatchSubscriptions

-----------------------------------------------------------------------------
(* Steps that leave the tables alone.                                      *)

LEMMA NoneIsFaithful == Faithful(None) /\ Faithful(None)'
BY DEF Faithful, None

\* Nobody else has a transaction open.
Alone(p) == \A q \in Handlers \ {p} : open[q] = None

LEMMA OpenIsAlone ==
    ASSUME LedgerInv, Gated, NEW p \in Handlers, open[p].next # "none"
    PROVE  Alone(p)
<1>1. open[p] # None
  BY DEF None
<1> QED
  BY <1>1 DEF LedgerInv, OneAtATime, Alone

LEMMA TablesKeepFaith ==
    ASSUME UNCHANGED <<balance, rows, referral>>, NEW tx, Faithful(tx)
    PROVE  Faithful(tx)'
<1>1. /\ Debits(tx) => Debits(tx)'
      /\ Credits(tx) => Credits(tx)'
  BY DEF Debits, Credits
<1>2. /\ Withdraws(tx) => Withdraws(tx)'
      /\ Transfers(tx) => Transfers(tx)'
      /\ Adjusts(tx) => Adjusts(tx)'
  BY DEF Withdraws, Transfers, Moved, Adjusts, Covers
<1>3. Moving(tx) => Moving(tx)'
  BY <1>1, <1>2 DEF Moving
<1>4. Settling(tx) => Settling(tx)'
  BY DEF Settling, Pays, Leaves, Switches, Rewards, Untouched, Owes
<1> QED
  BY <1>3, <1>4 DEF Faithful

LEMMA FaithfulStep ==
    ASSUME TypeOK, NEW p \in Handlers, Alone(p), NEW tx, Faithful(tx),
           open' = [open EXCEPT ![p] = tx],
           UNCHANGED <<balance, rows, referral>>
    PROVE  AllFaithful'
<1>1. Faithful(tx)'
  BY TablesKeepFaith
<1>2. \A q \in Handlers : open'[q] = IF q = p THEN tx ELSE None
  BY DEF TypeOK, Alone
<1> QED
  BY <1>1, <1>2, NoneIsFaithful DEF AllFaithful

LEMMA BeginMoveIsFaithful ==
    ASSUME LedgerInv, Gated, NEW p \in Handlers,
           NEW kind, NEW w, NEW saves \in SUBSET Wallet, NEW change, NEW entries,
           BeginMove(p, kind, w, saves, change, entries),
           \A x \in Wallet : x \notin saves => change[x] = 0,
           \A tx : tx.changes = change /\ tx.entries = entries =>
               Withdraws(tx) \/ Transfers(tx) \/ Adjusts(tx) \/ Debits(tx) \/ Credits(tx)
    PROVE  AllFaithful'
<1> DEFINE tx == [None EXCEPT !.kind = kind, !.next = "commit",
                      !.locks = IF Gated THEN {} ELSE LocksRow(kind, w),
                      !.saves = saves, !.seen = Read(saves),
                      !.changes = change, !.entries = entries]
<1>1. /\ tx.next = "commit" /\ tx.t = 0 /\ ~tx.pays /\ tx.saves = saves
      /\ tx.seen = Read(saves) /\ tx.changes = change /\ tx.entries = entries
  BY DEF None
<1>2. open' = [open EXCEPT ![p] = tx] /\ UNCHANGED <<balance, rows, referral>>
  BY DEF BeginMove
<1>3. TypeOK /\ Alone(p)
  BY DEF LedgerInv, BeginMove, MayBegin, Alone
<1> HIDE DEF tx
<1>4. Faithful(tx)
  <2>1. \A x \in saves : tx.seen[x] = balance[x]
    BY <1>1, <1>3, ReadType
  <2>2. Moving(tx)
    BY <1>1 DEF Moving
  <2> QED
    BY <1>1, <2>1, <2>2 DEF Faithful
<1> QED
  BY <1>2, <1>3, <1>4, FaithfulStep

LEMMA RequestIsFaithful ==
    ASSUME LedgerInv, Gated, NEW p \in Handlers, Request(p)
    PROVE  AllFaithful'
<1>1. ASSUME NEW w \in Wallet, NEW amount \in Amounts,
             NEW status \in {"PENDING", "COMPLETED"},
             RequestWithdrawal(p, w, amount, status)
      PROVE  AllFaithful'
  <2>1. \A tx : /\ tx.changes = Change(w, -amount)
                /\ tx.entries = <<Entry("WITHDRAWAL", status, w, amount)>>
                => Withdraws(tx)
    BY <1>1 DEF Withdraws, RequestWithdrawal
  <2>2. \A x \in Wallet : x \notin {w} => Change(w, -amount)[x] = 0
    BY DEF Change
  <2> QED
    BY <1>1, <2>1, <2>2, BeginMoveIsFaithful DEF RequestWithdrawal
<1>2. ASSUME NEW w \in Wallet, NEW amount \in Amounts, NEW v \in Wallet \ {w},
             NEW a \in Rates[w[2]], NEW b \in Rates[v[2]], v[1] = w[1],
             Transfer(p, w, v, amount, a, b)
      PROVE  AllFaithful'
  <2> DEFINE credit == Converted(amount, a, b)
             change == TransferChange(w, v, amount, Gained(balance[v], amount * a, b))
  <2>1. \A tx : /\ tx.changes = change
                /\ tx.entries = TransferEntries(w, v, amount, credit)
                => Transfers(tx)
    BY <1>2 DEF Transfers, Moved, Transfer
  <2>2. \A x \in Wallet : x \notin {w, v} => change[x] = 0
    BY DEF TransferChange
  <2>3. BeginMove(p, "transfer", w, {w, v}, change, TransferEntries(w, v, amount, credit))
    BY <1>2 DEF Transfer
  <2> HIDE DEF credit, change
  <2> QED
    BY <2>1, <2>2, <2>3, BeginMoveIsFaithful
<1>3. ASSUME NEW w \in Wallet, NEW usd \in Amounts, NEW rate \in Rates[w[2]],
             DebitWalletUsdValue(p, w, usd, rate)
      PROVE  AllFaithful'
  <2> DEFINE gain == Gained(balance[w], -usd, rate)
  <2>1. \A tx : /\ tx.changes = Change(w, gain)
                /\ tx.entries = <<Entry("DEBIT", "COMPLETED", w, Tokens(usd, rate))>>
                => Debits(tx)
    BY <1>3 DEF Debits, DebitWalletUsdValue
  <2>2. \A x \in Wallet : x \notin {w} => Change(w, gain)[x] = 0
    BY DEF Change
  <2> QED
    BY <1>3, <2>1, <2>2, BeginMoveIsFaithful DEF DebitWalletUsdValue
<1>4. ASSUME NEW w \in Wallet, NEW usd \in Payouts, NEW rate \in Rates[w[2]],
             CreditWalletUsdValue(p, w, usd, rate)
      PROVE  AllFaithful'
  <2> DEFINE gain == Gained(balance[w], usd, rate)
  <2>1. \A tx : /\ tx.changes = Change(w, gain)
                /\ tx.entries = <<Entry("CREDIT", "COMPLETED", w, Tokens(usd, rate))>>
                => Credits(tx)
    BY DEF Credits
  <2>2. \A x \in Wallet : x \notin {w} => Change(w, gain)[x] = 0
    BY DEF Change
  <2> QED
    BY <1>4, <2>1, <2>2, BeginMoveIsFaithful DEF CreditWalletUsdValue
<1>5. ASSUME NEW w \in Wallet, NEW amount \in Adjustments,
             AdminAdjustBalance(p, w, amount)
      PROVE  AllFaithful'
  <2>1. \A tx : /\ tx.changes = Change(w, amount)
                /\ tx.entries = <<Entry("ADJUSTMENT", "COMPLETED", w, amount)>>
                => Adjusts(tx)
    BY <1>5 DEF Adjusts, AdminAdjustBalance
  <2>2. \A x \in Wallet : x \notin {w} => Change(w, amount)[x] = 0
    BY DEF Change
  <2> QED
    BY <1>5, <2>1, <2>2, BeginMoveIsFaithful DEF AdminAdjustBalance
<1>6. ASSUME NEW t \in DOMAIN rows, NEW verdict \in Verdicts, Settle(p, verdict, t)
      PROVE  AllFaithful'
  <2> DEFINE next == IF PaysWallet(rows[t], verdict) THEN "wallet"
                     ELSE IF rows[t].type = "SUBSCRIPTION" THEN "subscription"
                     ELSE "commit"
             tx == [None EXCEPT !.kind = verdict, !.t = t, !.next = next]
  <2>1. /\ open' = [open EXCEPT ![p] = tx]
        /\ UNCHANGED <<balance, rows, referral>>
        /\ rows[t].status = "PENDING" /\ ~rows[t].deleted
    BY <1>6 DEF Settle, Settleable
  <2>2. TypeOK /\ Alone(p) /\ t # 0
    BY <1>6, LenProperties DEF LedgerInv, TypeOK, Settle, MayBegin, Alone
  <2>3. /\ tx.kind = verdict /\ tx.t = t /\ tx.next = next /\ ~tx.pays
        /\ tx.saves = {} /\ tx.entries = <<>> /\ ~tx.holds
    BY DEF None
  <2> HIDE DEF tx
  <2>4. Settling(tx)
    BY <2>1, <2>2, <2>3 DEF Settling, Leaves, Untouched, Takes
  <2>5. Faithful(tx)
    BY <2>3, <2>4 DEF Faithful
  <2> QED
    BY <2>1, <2>2, <2>5, FaithfulStep
<1> QED
  BY <1>1, <1>2, <1>3, <1>4, <1>5, <1>6 DEF Request

\* What a step of p that goes on with its transaction can use.
LEMMA OngoingIsSettling ==
    ASSUME LedgerInv, AllFaithful, Gated, NEW p \in Handlers,
           open[p].next \notin {"none", "commit"}
    PROVE  /\ TypeOK /\ Alone(p)
           /\ open[p] \in Transaction
           /\ Settling(open[p]) /\ Untouched(open[p])
           /\ rows[open[p].t] \in Row
<1>1. Faithful(open[p]) /\ Sound(open[p]) /\ TypeOK
  BY DEF LedgerInv, AllFaithful
<1>2. Settling(open[p])
  BY <1>1 DEF Faithful, Moving, None
<1>3. Untouched(open[p])
  BY <1>1 DEF Sound, Untouched
<1>4. rows[open[p].t] \in Row
  BY <1>1, <1>2, LenProperties, ElementOfSeq DEF Settling, TypeOK
<1> QED
  BY <1>1, <1>2, <1>3, <1>4, OpenIsAlone DEF TypeOK

LEMMA ReadWalletIsFaithful ==
    ASSUME LedgerInv, AllFaithful, Gated, NEW p \in Handlers, ReadWallet(p)
    PROVE  AllFaithful'
<1> DEFINE row == rows[open[p].t]
           tx == [open[p] EXCEPT !.next = "commit", !.saves = {row.wallet},
                                 !.seen = Read({row.wallet}),
                                 !.changes = Change(row.wallet, row.amount)]
<1>1. open[p].next = "wallet"
  BY DEF ReadWallet
<1>2. /\ TypeOK /\ Alone(p) /\ open[p] \in Transaction
      /\ Settling(open[p]) /\ Untouched(open[p]) /\ row \in Row
  BY <1>1, OngoingIsSettling
<1>3. open' = [open EXCEPT ![p] = tx] /\ UNCHANGED <<balance, rows, referral>>
  BY DEF ReadWallet
<1>4. row.wallet \in Wallet
  BY <1>2 DEF Row
<1>5. /\ tx.t = open[p].t /\ tx.kind = open[p].kind /\ tx.next = "commit"
      /\ tx.pays = open[p].pays /\ tx.holds = open[p].holds
      /\ tx.entries = open[p].entries
      /\ tx.saves = {row.wallet} /\ tx.seen = Read({row.wallet})
      /\ tx.changes = Change(row.wallet, row.amount)
  BY <1>2 DEF Transaction
<1> HIDE DEF tx
<1>6. Settling(tx)
  BY <1>1, <1>2, <1>5 DEF Settling, Pays, Untouched
<1>7. Faithful(tx)
  BY <1>2, <1>4, <1>5, <1>6, ReadType DEF Faithful
<1> QED
  BY <1>2, <1>3, <1>7, FaithfulStep

LEMMA SubscriptionStepIsFaithful ==
    ASSUME LedgerInv, AllFaithful, Gated, NEW p \in Handlers,
           ReadSubscription(p) \/ SaveSubscription(p)
    PROVE  AllFaithful'
<1>1. open[p].next \in {"subscription", "save"}
  BY DEF ReadSubscription, SaveSubscription
<1>2. /\ TypeOK /\ Alone(p) /\ open[p] \in Transaction
      /\ Settling(open[p]) /\ Untouched(open[p]) /\ rows[open[p].t] \in Row
  BY <1>1, OngoingIsSettling
<1>3. UNCHANGED <<balance, rows, referral>>
  BY DEF ReadSubscription, SaveSubscription
<1>4. CASE ReadSubscription(p)
  <2> DEFINE next == IF rows[open[p].t].sub = "PENDING" THEN "save" ELSE "commit"
             tx == [open[p] EXCEPT !.next = next]
  <2>1. open' = [open EXCEPT ![p] = tx] /\ open[p].next = "subscription"
    BY <1>4 DEF ReadSubscription
  <2>2. /\ tx.t = open[p].t /\ tx.kind = open[p].kind /\ tx.next = next
        /\ tx.holds = open[p].holds /\ Untouched(tx)
    BY <1>2 DEF Transaction, Untouched
  <2> HIDE DEF tx
  <2>3. rows[tx.t].type = "SUBSCRIPTION" /\ ~tx.holds
    BY <1>2, <2>1, <2>2 DEF Settling
  <2>4. Settling(tx)
    BY <1>2, <2>2, <2>3 DEF Settling, Leaves, Takes, PaysWallet
  <2>5. Faithful(tx)
    BY <2>2, <2>4 DEF Faithful, Untouched
  <2> QED
    BY <1>2, <1>3, <2>1, <2>5, FaithfulStep
<1>5. CASE SaveSubscription(p)
  <2> DEFINE owes == open[p].kind = "confirm" /\ Due(rows[open[p].t].wallet[1])
             next == IF owes THEN "bonus" ELSE "commit"
             tx == [open[p] EXCEPT !.holds = TRUE, !.next = next]
  <2>1. open' = [open EXCEPT ![p] = tx] /\ open[p].next = "save"
    BY <1>5 DEF SaveSubscription
  <2>2. /\ tx.t = open[p].t /\ tx.kind = open[p].kind /\ tx.next = next
        /\ tx.holds /\ Untouched(tx)
    BY <1>2 DEF Transaction, Untouched
  <2>3. owes <=> Owes(open[p])
    BY DEF Due, Owes
  <2> HIDE DEF tx, owes
  <2>4. Takes(rows[tx.t]) /\ (Owes(tx) <=> owes)
    BY <1>2, <2>1, <2>2, <2>3 DEF Settling, Owes
  <2>5. Settling(tx)
    BY <1>2, <2>2, <2>4 DEF Settling, Switches
  <2>6. Faithful(tx)
    BY <2>2, <2>5 DEF Faithful, Untouched
  <2> QED
    BY <1>2, <1>3, <2>1, <2>6, FaithfulStep
<1> QED
  BY <1>4, <1>5

LEMMA CreditReferrerIsFaithful ==
    ASSUME LedgerInv, AllFaithful, Gated, NEW p \in Handlers, CreditReferrer(p)
    PROVE  AllFaithful'
<1> DEFINE u == rows[open[p].t].wallet[1]
           w == ReferrerWallet(u)
           tx == [open[p] EXCEPT !.next = "commit", !.pays = TRUE,
                   !.locks = IF Gated THEN {} ELSE {w}, !.saves = {w},
                   !.seen = Read({w}), !.changes = Change(w, Bonus),
                   !.entries = <<BonusEntry(u)>>]
<1>1. open[p].next = "bonus"
  BY DEF CreditReferrer
<1>2. /\ TypeOK /\ Alone(p) /\ open[p] \in Transaction
      /\ Settling(open[p]) /\ Untouched(open[p]) /\ rows[open[p].t] \in Row
  BY <1>1, OngoingIsSettling
<1>3. open' = [open EXCEPT ![p] = tx] /\ UNCHANGED <<balance, rows, referral>>
  BY DEF CreditReferrer
<1>4. w \in Wallet
  <2>1. u \in Users
    BY <1>2 DEF Row, Wallet
  <2>2. Referrer[u] # NoUser
    BY <1>1, <1>2 DEF Settling, Owes, Earns
  <2> QED
    BY <2>1, <2>2, TablesOK DEF ReferrerWallet, Wallet
<1>5. /\ tx.t = open[p].t /\ tx.kind = open[p].kind /\ tx.next = "commit"
      /\ tx.pays /\ tx.holds = open[p].holds
      /\ tx.saves = {w} /\ tx.seen = Read({w})
      /\ tx.changes = Change(w, Bonus) /\ tx.entries = <<BonusEntry(u)>>
  BY <1>2 DEF Transaction
<1> HIDE DEF tx
<1>6. Owes(tx)
  BY <1>1, <1>2, <1>5 DEF Settling, Owes
<1>7. Rewards(tx)
  BY <1>1, <1>2, <1>5, <1>6 DEF Settling, Rewards
<1>8. Settling(tx)
  BY <1>1, <1>2, <1>5, <1>7 DEF Settling
<1>9. Faithful(tx)
  BY <1>2, <1>4, <1>5, <1>8, ReadType DEF Faithful
<1> QED
  BY <1>2, <1>3, <1>9, FaithfulStep

LEMMA FaithNext ==
    ASSUME LedgerInv, AllFaithful, Gated, [Next]_vars
    PROVE  AllFaithful'
<1>1. ASSUME NEW p \in Handlers, Step(p)
      PROVE  AllFaithful'
  <2>1. CASE Commit(p) \/ Rollback(p)
    <3>1. open[p] # None
      <4>1. open[p].next = "commit" \/ open[p] # None
        BY <2>1 DEF Commit, Rollback
      <4> QED
        BY <4>1 DEF None
    <3>2. \A q \in Handlers : open'[q] = None
      BY <2>1, <3>1 DEF Commit, Rollback, LedgerInv, TypeOK, OneAtATime
    <3> QED
      BY <3>2, NoneIsFaithful DEF AllFaithful
  <2> QED
    BY <1>1, <2>1, ReadWalletIsFaithful, SubscriptionStepIsFaithful,
       CreditReferrerIsFaithful DEF Step
<1>2. ASSUME UNCHANGED open, \A q \in Handlers : open[q] = None
      PROVE  AllFaithful'
  BY <1>2, NoneIsFaithful DEF AllFaithful
<1>3. CASE UNCHANGED vars
  BY <1>3, TablesKeepFaith DEF vars, AllFaithful
<1>4. CASE \/ \E w \in Wallet, amount \in Amounts : RequestDeposit(w, amount)
           \/ \E u \in Users, s \in Symbols : Subscribe(u, s)
           \/ \E t \in DOMAIN rows : Remove(t)
  BY <1>2, <1>4 DEF RequestDeposit, Subscribe, Insert, Remove, AtOnce
<1> QED
  BY <1>1, <1>3, <1>4, RequestIsFaithful DEF Next

-----------------------------------------------------------------------------
(* What a commit does to the tables.                                       *)

\* The operators of LedgerTables are the same in AtomicLedger.
LEMMA SameTables ==
    /\ Atomic!Wallet = Wallet
    /\ Atomic!Verdicts = Verdicts
    /\ \A w, amount : Atomic!Change(w, amount) = Change(w, amount)
    /\ \A w, v, amount, credit :
          /\ Atomic!TransferChange(w, v, amount, credit) = TransferChange(w, v, amount, credit)
          /\ Atomic!TransferEntries(w, v, amount, credit) = TransferEntries(w, v, amount, credit)
    /\ \A amount, a, b : Atomic!Converted(amount, a, b) = Converted(amount, a, b)
    /\ \A usd, rate : Atomic!Tokens(usd, rate) = Tokens(usd, rate)
    /\ \A held, n, d : Atomic!Gained(held, n, d) = Gained(held, n, d)
    /\ \A type, status, w, amount :
          Atomic!Entry(type, status, w, amount) = Entry(type, status, w, amount)
    /\ \A u, s : Atomic!SubscriptionEntry(u, s) = SubscriptionEntry(u, s)
    /\ \A row, verdict : Atomic!PaysWallet(row, verdict) = PaysWallet(row, verdict)
    /\ \A verdict : /\ Atomic!TxStatus(verdict) = TxStatus(verdict)
                    /\ Atomic!SubStatus(verdict) = SubStatus(verdict)
    /\ Atomic!Bonus = Bonus
    /\ \A u, paid : Atomic!Earns(u, paid) = Earns(u, paid)
    /\ \A u : /\ Atomic!ReferrerWallet(u) = ReferrerWallet(u)
              /\ Atomic!BonusEntry(u) = BonusEntry(u)
<1>0. \A n, d : Atomic!Rounded(n, d) = Rounded(n, d)
  BY DEF Atomic!Rounded, Rounded
<1>1. /\ Atomic!Wallet = Wallet /\ Atomic!Verdicts = Verdicts
      /\ \A amount, a, b : Atomic!Converted(amount, a, b) = Converted(amount, a, b)
      /\ \A type, status, w, amount :
            Atomic!Entry(type, status, w, amount) = Entry(type, status, w, amount)
      /\ \A u : Atomic!ReferrerWallet(u) = ReferrerWallet(u)
  BY <1>0 DEF Atomic!Wallet, Wallet, Atomic!Verdicts, Verdicts, Atomic!Converted, Converted,
         Atomic!Entry, Entry, Atomic!ReferrerWallet, ReferrerWallet
<1>2. /\ \A w, amount : Atomic!Change(w, amount) = Change(w, amount)
      /\ \A w, v, amount, credit :
            Atomic!TransferChange(w, v, amount, credit) = TransferChange(w, v, amount, credit)
  BY <1>1 DEF Atomic!Change, Change, Atomic!TransferChange, TransferChange
<1>3. /\ \A w, v, amount, credit :
            Atomic!TransferEntries(w, v, amount, credit) = TransferEntries(w, v, amount, credit)
      /\ \A u, s : Atomic!SubscriptionEntry(u, s) = SubscriptionEntry(u, s)
  BY <1>1 DEF Atomic!TransferEntries, TransferEntries,
              Atomic!SubscriptionEntry, SubscriptionEntry
<1>4. /\ \A usd, rate : Atomic!Tokens(usd, rate) = Tokens(usd, rate)
      /\ Atomic!Bonus = Bonus
  BY <1>0, <1>1 DEF Atomic!Tokens, Tokens, Atomic!Bonus, Bonus
<1>5. \A held, n, d : Atomic!Gained(held, n, d) = Gained(held, n, d)
  BY <1>0 DEF Atomic!Gained, Gained
<1>6. /\ \A row, verdict : Atomic!PaysWallet(row, verdict) = PaysWallet(row, verdict)
      /\ \A verdict : /\ Atomic!TxStatus(verdict) = TxStatus(verdict)
                      /\ Atomic!SubStatus(verdict) = SubStatus(verdict)
      /\ \A u, paid : Atomic!Earns(u, paid) = Earns(u, paid)
  BY DEF Atomic!PaysWallet, PaysWallet, Atomic!TxStatus, TxStatus,
         Atomic!SubStatus, SubStatus, Atomic!Earns, Earns
<1>7. \A u : Atomic!BonusEntry(u) = BonusEntry(u)
  BY <1>1, <1>4 DEF Atomic!BonusEntry, BonusEntry
<1> QED
  BY <1>1, <1>2, <1>3, <1>4, <1>5, <1>6, <1>7

\* What a commit can use.
LEMMA CommitFacts ==
    ASSUME LedgerInv, AllFaithful, NEW p \in Handlers, Commit(p)
    PROVE  /\ open[p] \in Transaction
           /\ (open[p].t = 0 /\ Moving(open[p])) \/ Settling(open[p])
           /\ balance' = [w \in Wallet |->
                 IF w \in open[p].saves THEN balance[w] + open[p].changes[w]
                 ELSE balance[w]]
           /\ rows' = Saved(open[p]) \o open[p].entries
           /\ referral' = IF open[p].pays THEN referral \cup {rows[open[p].t].wallet[1]}
                          ELSE referral
<1>1. /\ Faithful(open[p]) /\ Sound(open[p]) /\ open[p] \in Transaction
      /\ open[p].next = "commit"
  BY DEF LedgerInv, TypeOK, AllFaithful, Commit
<1>2. \A w \in open[p].saves : open[p].seen[w] = balance[w]
  BY <1>1 DEF Faithful
<1>3. (open[p].t = 0 /\ Moving(open[p])) \/ Settling(open[p])
  BY <1>1 DEF Faithful, None
<1> QED
  BY <1>1, <1>2, <1>3 DEF Commit

\* A commit that moves money posts it, as a whole.
LEMMA MoveIsAtomic ==
    ASSUME LedgerInv, NEW p \in Handlers, NEW tx, tx = open[p],
           tx.t = 0, Moving(tx),
           balance' = [w \in Wallet |-> IF w \in tx.saves THEN balance[w] + tx.changes[w]
                                        ELSE balance[w]],
           rows' = Saved(tx) \o tx.entries,
           referral' = IF tx.pays THEN referral \cup {rows[tx.t].wallet[1]} ELSE referral
    PROVE  Atomic!Next
<1>1. \A w \in Wallet : /\ balance[w] \in Int
                        /\ w \notin tx.saves => tx.changes[w] = 0
  BY DEF LedgerInv, TypeOK, Moving
<1>2. Atomic!Post(tx.changes, tx.entries)
  <2>1. balance' = [w \in Wallet |-> balance[w] + tx.changes[w]]
    BY <1>1
  <2>2. rows' = rows \o tx.entries /\ UNCHANGED referral
    BY DEF Saved, Moving
  <2> QED
    BY <2>1, <2>2, SameTables DEF Atomic!Post
<1>3. CASE Withdraws(tx)
  <2>1. PICK w \in Wallet, amount \in Amounts, status \in {"PENDING", "COMPLETED"} :
          /\ Covers(w, amount)
          /\ tx.changes = Change(w, -amount)
          /\ tx.entries = <<Entry("WITHDRAWAL", status, w, amount)>>
    BY <1>3 DEF Withdraws
  <2>2. balance[w] >= amount
    BY <1>1, <2>1, TablesOK DEF Covers
  <2>3. Atomic!RequestWithdrawal(w, amount, status)
    BY <1>2, <2>1, <2>2, SameTables DEF Atomic!RequestWithdrawal
  <2> QED
    BY <2>3, SameTables DEF Atomic!Next
<1>4. CASE Transfers(tx)
  <2>1. PICK w \in Wallet, amount \in Amounts : \E v \in Wallet \ {w}, a \in Rates[w[2]] :
          \E b \in Rates[v[2]] : Moved(tx, w, v, amount, a, b)
    BY <1>4 DEF Transfers
  <2>2. PICK v \in Wallet \ {w}, a \in Rates[w[2]] :
          \E b \in Rates[v[2]] : Moved(tx, w, v, amount, a, b)
    BY <2>1
  <2>3. PICK b \in Rates[v[2]] : Moved(tx, w, v, amount, a, b)
    BY <2>2
  <2>4. balance[w] >= amount
    BY <1>1, <2>3, TablesOK DEF Moved, Covers
  <2>5. Atomic!Transfer(w, v, amount, a, b)
    BY <1>2, <2>3, <2>4, SameTables DEF Moved, Atomic!Transfer
  <2>6. w \in Atomic!Wallet /\ v \in Atomic!Wallet \ {w} /\ v[1] = w[1]
    BY <2>3, SameTables DEF Moved
  <2> QED
    BY <2>5, <2>6 DEF Atomic!Next
<1>5. CASE Adjusts(tx)
  <2>1. PICK w \in Wallet, amount \in Adjustments :
          /\ Covers(w, -amount)
          /\ tx.changes = Change(w, amount)
          /\ tx.entries = <<Entry("ADJUSTMENT", "COMPLETED", w, amount)>>
    BY <1>5 DEF Adjusts
  <2>2. balance[w] + amount >= 0
    BY <1>1, <2>1, TablesOK DEF Covers
  <2>3. Atomic!Adjust(w, amount)
    BY <1>2, <2>1, <2>2, SameTables DEF Atomic!Adjust
  <2> QED
    BY <2>3, SameTables DEF Atomic!Next
<1>6. CASE Debits(tx)
  <2>1. PICK w \in Wallet, usd \in Amounts : \E rate \in Rates[w[2]] :
          /\ balance[w] * rate >= usd
          /\ tx.changes = Change(w, Gained(balance[w], -usd, rate))
          /\ tx.entries = <<Entry("DEBIT", "COMPLETED", w, Tokens(usd, rate))>>
    BY <1>6 DEF Debits
  <2>2. PICK rate \in Rates[w[2]] :
          /\ balance[w] * rate >= usd
          /\ tx.changes = Change(w, Gained(balance[w], -usd, rate))
          /\ tx.entries = <<Entry("DEBIT", "COMPLETED", w, Tokens(usd, rate))>>
    BY <2>1
  <2>3. Atomic!Debit(w, usd, rate)
    BY <1>2, <2>2, SameTables DEF Atomic!Debit
  <2> QED
    BY <2>3, SameTables DEF Atomic!Next
<1>7. CASE Credits(tx)
  <2>1. PICK w \in Wallet, usd \in Payouts : \E rate \in Rates[w[2]] :
          /\ tx.changes = Change(w, Gained(balance[w], usd, rate))
          /\ tx.entries = <<Entry("CREDIT", "COMPLETED", w, Tokens(usd, rate))>>
    BY <1>7 DEF Credits
  <2>2. PICK rate \in Rates[w[2]] :
          /\ tx.changes = Change(w, Gained(balance[w], usd, rate))
          /\ tx.entries = <<Entry("CREDIT", "COMPLETED", w, Tokens(usd, rate))>>
    BY <2>1
  <2>3. Atomic!Credit(w, usd, rate)
    BY <1>2, <2>2, SameTables DEF Atomic!Credit
  <2> QED
    BY <2>3, SameTables DEF Atomic!Next
<1> QED
  BY <1>3, <1>4, <1>5, <1>6, <1>7 DEF Moving

\* The rows a commit of confirm or reject leaves.
LEMMA SettledRows ==
    ASSUME TypeOK, NEW tx, Settling(tx),
           tx.holds <=> Takes(rows[tx.t])
    PROVE  Saved(tx) = [rows EXCEPT ![tx.t].status = TxStatus(tx.kind),
                                    ![tx.t].sub = IF Takes(rows[tx.t])
                                                  THEN SubStatus(tx.kind) ELSE @]
<1> DEFINE t == tx.t
<1>1. /\ t # 0 /\ t \in 1 .. Len(rows) /\ rows \in Seq(Row)
      /\ rows[t] \in Row /\ rows[t].deleted = FALSE
  <2>1. t # 0 /\ t \in DOMAIN rows /\ ~rows[t].deleted /\ rows \in Seq(Row)
    BY DEF Settling, TypeOK
  <2>2. t \in 1 .. Len(rows) /\ rows[t] \in Row
    BY <2>1, LenProperties, ElementOfSeq
  <2>3. rows[t].deleted \in BOOLEAN
    BY <2>2 DEF Row
  <2> QED
    BY <2>1, <2>2, <2>3
<1> DEFINE sub == IF Takes(rows[t]) THEN SubStatus(tx.kind) ELSE rows[t].sub
           new == [rows[t] EXCEPT !.status = TxStatus(tx.kind), !.sub = sub]
<1>2. [rows[t] EXCEPT !.status = TxStatus(tx.kind), !.sub = sub, !.deleted = FALSE] = new
  BY <1>1 DEF Row
<1>3. Saved(tx) = [rows EXCEPT ![t] = new]
  <2>1. Saved(tx) = [rows EXCEPT ![t] =
          [rows[t] EXCEPT !.status = TxStatus(tx.kind), !.sub = sub, !.deleted = FALSE]]
    BY <1>1 DEF Saved, Row
  <2> QED
    BY <1>2, <2>1
<1> QED
  BY <1>1, <1>3 DEF Row

\* A commit that settles a row settles it as a whole.
LEMMA SettleIsAtomic ==
    ASSUME LedgerInv, NEW tx, Settling(tx), tx.next = "commit",
           balance' = [w \in Wallet |-> IF w \in tx.saves THEN balance[w] + tx.changes[w]
                                        ELSE balance[w]],
           rows' = Saved(tx) \o tx.entries,
           referral' = IF tx.pays THEN referral \cup {rows[tx.t].wallet[1]} ELSE referral
    PROVE  Atomic!Settle(tx.kind, tx.t)
<1> DEFINE t     == tx.t
           row   == rows[t]
           u     == row.wallet[1]
           takes == Takes(row)
           earns == takes /\ Owes(tx)
           saved == [rows EXCEPT ![t].status = TxStatus(tx.kind),
                                 ![t].sub = IF takes THEN SubStatus(tx.kind) ELSE @]
<1>1. TypeOK /\ row \in Row /\ tx.kind \in Verdicts
  BY LenProperties, ElementOfSeq DEF LedgerInv, TypeOK, Settling
<1>2. Pays(tx) \/ Leaves(tx) \/ Switches(tx) \/ Rewards(tx)
  BY DEF Settling
<1>3. PaysWallet(row, tx.kind) => ~takes
  BY DEF PaysWallet, Takes
<1>4. /\ tx.holds <=> takes
      /\ tx.pays <=> earns
      /\ PaysWallet(row, tx.kind) =>
            tx.saves = {row.wallet} /\ tx.changes = Change(row.wallet, row.amount)
      /\ earns => /\ tx.saves = {ReferrerWallet(u)}
                  /\ tx.changes = Change(ReferrerWallet(u), Bonus)
      /\ ~PaysWallet(row, tx.kind) /\ ~earns => tx.saves = {}
      /\ tx.entries = IF earns THEN <<BonusEntry(u)>> ELSE <<>>
  BY <1>2, <1>3 DEF Pays, Leaves, Switches, Rewards, Untouched
<1>5. Saved(tx) = saved
  BY <1>1, <1>4, SettledRows
<1>6. balance \in [Wallet -> Int] /\ Bonus \in Int /\ row.wallet \in Wallet /\ row.amount \in Int
  BY <1>1, BonusIsNat DEF TypeOK, Row
<1>7. balance' = IF PaysWallet(row, tx.kind)
                 THEN [balance EXCEPT ![row.wallet] = @ + row.amount]
                 ELSE IF earns THEN [balance EXCEPT ![ReferrerWallet(u)] = @ + Bonus]
                 ELSE balance
  <2> HIDE DEF row, u, earns, takes
  <2>1. CASE PaysWallet(row, tx.kind)
    <3>1. Change(row.wallet, row.amount)[row.wallet] = row.amount
      BY <1>6, ChangeType
    <3> QED
      BY <1>4, <1>6, <2>1, <3>1
  <2>2. CASE ~PaysWallet(row, tx.kind) /\ earns
    <3>1. ReferrerWallet(u) \in Wallet => Change(ReferrerWallet(u), Bonus)[ReferrerWallet(u)] = Bonus
      BY <1>6, ChangeType
    <3> QED
      BY <1>4, <1>6, <2>2, <3>1
  <2>3. CASE ~PaysWallet(row, tx.kind) /\ ~earns
    BY <1>4, <1>6, <2>3
  <2> QED
    BY <2>1, <2>2, <2>3
<1>8. rows' = saved \o (IF earns THEN <<BonusEntry(u)>> ELSE <<>>)
  BY <1>4, <1>5
<1>9. referral' = IF earns THEN referral \cup {u} ELSE referral
  BY <1>4
<1>10. earns <=> takes /\ tx.kind = "confirm" /\ Earns(u, referral)
  BY DEF Owes
<1>11. takes <=> row.type = "SUBSCRIPTION" /\ row.sub = "PENDING"
  BY DEF Takes
<1>12. row.status = "PENDING" /\ ~row.deleted
  BY DEF Settling
<1> HIDE DEF takes, earns
<1> QED
  BY <1>7, <1>8, <1>9, <1>10, <1>11, <1>12, SameTables DEF Atomic!Settle

-----------------------------------------------------------------------------
(* Every step.                                                             *)

\* A request reads: it moves no money and writes no row.
LEMMA RequestOnlyReads ==
    ASSUME TypeOK, NEW p \in Handlers, Request(p)
    PROVE  UNCHANGED <<balance, rows, referral>>
BY ZenonT(60), RequestPlan DEF BeginMove, Settle

LEMMA StepIsAtomic ==
    ASSUME LedgerInv, AllFaithful, [Next]_vars
    PROVE  [Atomic!Next]_(Atomic!vars)
<1>1. ASSUME NEW p \in Handlers, Request(p) \/ Step(p)
      PROVE  Atomic!Next \/ UNCHANGED <<balance, rows, referral>>
  <2>1. CASE Commit(p)
    <3>1. CASE open[p].t = 0 /\ Moving(open[p])
      BY <2>1, <3>1, CommitFacts, MoveIsAtomic
    <3>2. CASE Settling(open[p])
      <4>1. Atomic!Settle(open[p].kind, open[p].t)
        <5>1. open[p].next = "commit"
          BY <2>1 DEF Commit
        <5> QED
          BY <2>1, <3>2, <5>1, CommitFacts, SettleIsAtomic
      <4>2. open[p].kind \in Atomic!Verdicts /\ open[p].t \in DOMAIN rows
        BY <3>2, SameTables DEF Settling
      <4> QED
        BY <4>1, <4>2 DEF Atomic!Next
    <3> QED
      BY <2>1, <3>1, <3>2, CommitFacts
  <2>2. CASE Request(p)
    BY <2>2, RequestOnlyReads DEF LedgerInv
  <2>3. CASE Step(p) /\ ~Commit(p)
    BY <2>3 DEF Step, ReadWallet, ReadSubscription, SaveSubscription, CreditReferrer,
                Rollback
  <2> QED
    BY <1>1, <2>1, <2>2, <2>3
<1>2. ASSUME NEW w \in Wallet, NEW amount \in Amounts, RequestDeposit(w, amount)
      PROVE  Atomic!Next
  <2>1. Atomic!RequestDeposit(w, amount)
    BY <1>2, SameTables DEF RequestDeposit, Insert, Atomic!RequestDeposit
  <2> QED
    BY <2>1, SameTables DEF Atomic!Next
<1>3. ASSUME NEW u \in Users, NEW s \in Symbols, Subscribe(u, s)
      PROVE  Atomic!Next
  <2>1. Atomic!Subscribe(u, s)
    BY <1>3, SameTables DEF Subscribe, Insert, Atomic!Subscribe
  <2> QED
    BY <2>1 DEF Atomic!Next
<1>4. ASSUME NEW t \in DOMAIN rows, Remove(t)
      PROVE  Atomic!Next
  <2>1. Atomic!Remove(t)
    BY <1>4 DEF Remove, Atomic!Remove
  <2> QED
    BY <2>1 DEF Atomic!Next
<1>5. CASE UNCHANGED vars
  BY <1>5 DEF vars, Atomic!vars
<1> QED
  BY <1>1, <1>2, <1>3, <1>4, <1>5 DEF Next, Atomic!vars

-----------------------------------------------------------------------------
(* Payments and subscriptions.                                             *)

\* A row of a payment and the subscription it pays for are in step.
InStep(row) ==
    row.type = "SUBSCRIPTION" =>
        <<row.status, row.sub>> \in
            {<<"PENDING", "PENDING">>, <<"COMPLETED", "ACTIVE">>,
             <<"CANCELLED", "CANCELLED">>}

LEMMA InStepRows == PaymentsMatchSubscriptions <=> \A t \in DOMAIN rows : InStep(rows[t])
BY DEF PaymentsMatchSubscriptions, InStep

\* Rows appended to a table leave those in it as they are.
LEMMA AppendedRows ==
    ASSUME NEW old \in Seq(Row), NEW new \in Seq(Row),
           \A n \in DOMAIN old : InStep(old[n]),
           \A n \in DOMAIN new : InStep(new[n])
    PROVE  /\ \A n \in DOMAIN (old \o new) : InStep((old \o new)[n])
           /\ \A n \in DOMAIN old : (old \o new)[n] = old[n]
<1> DEFINE all == old \o new
<1>1. /\ all \in Seq(Row) /\ Len(all) = Len(old) + Len(new)
      /\ \A n \in 1 .. Len(old) + Len(new) :
           all[n] = IF n <= Len(old) THEN old[n] ELSE new[n - Len(old)]
  BY ConcatProperties
<1> HIDE DEF all
<1>2. /\ Len(old) \in Nat /\ Len(new) \in Nat
      /\ DOMAIN old = 1 .. Len(old) /\ DOMAIN new = 1 .. Len(new)
      /\ DOMAIN all = 1 .. Len(old) + Len(new)
  BY <1>1, LenProperties
<1>3. \A n \in DOMAIN old : all[n] = old[n]
  BY <1>1, <1>2
<1>4. ASSUME NEW n \in DOMAIN all PROVE InStep(all[n])
  <2>1. CASE n <= Len(old)
    <3>1. n \in DOMAIN old
      BY <1>2, <2>1
    <3> QED
      BY <1>3, <3>1
  <2>2. CASE n > Len(old)
    <3>1. n - Len(old) \in DOMAIN new /\ all[n] = new[n - Len(old)]
      BY <1>1, <1>2, <2>2
    <3> QED
      BY <3>1
  <2> QED
    BY <1>2, <2>1, <2>2
<1> QED
  BY <1>3, <1>4 DEF all

\* What a handler that moves money inserts is no payment and no bonus.
LEMMA MovingTypes ==
    ASSUME NEW tx, Moving(tx), NEW n \in DOMAIN tx.entries
    PROVE  tx.entries[n].type \notin {"SUBSCRIPTION", "REFERRAL_BONUS", "DEPOSIT"}
<1>1. \A type, status, w, amount : Entry(type, status, w, amount).type = type
  BY DEF Entry
<1>2. \A row : tx.entries = <<row>> => tx.entries[n] = row
  OBVIOUS
<1>3. CASE Transfers(tx)
  <2>1. PICK w, v, amount, credit : tx.entries = TransferEntries(w, v, amount, credit)
    BY <1>3 DEF Transfers, Moved
  <2> DEFINE out == Entry("TRANSFER_OUT", "COMPLETED", w, amount)
             inn == Entry("TRANSFER_IN", "COMPLETED", v, credit)
  <2>2. out.type = "TRANSFER_OUT" /\ inn.type = "TRANSFER_IN"
    BY <1>1
  <2>3. tx.entries = <<out, inn>>
    BY <2>1 DEF TransferEntries
  <2> HIDE DEF out, inn
  <2>4. tx.entries[n] \in {out, inn}
    BY <2>3
  <2> QED
    BY <2>2, <2>4
<1>4. CASE Withdraws(tx) \/ Adjusts(tx) \/ Debits(tx) \/ Credits(tx)
  <2>1. PICK type, status, w, amount :
          /\ type \in {"WITHDRAWAL", "ADJUSTMENT", "DEBIT", "CREDIT"}
          /\ tx.entries = <<Entry(type, status, w, amount)>>
    BY <1>4 DEF Withdraws, Adjusts, Debits, Credits
  <2> QED
    BY <1>1, <1>2, <2>1
<1> QED
  BY <1>3, <1>4 DEF Moving

LEMMA EntriesInStep ==
    ASSUME NEW tx, Moving(tx) \/ tx.entries = <<>> \/ \E u : tx.entries = <<BonusEntry(u)>>
    PROVE  \A n \in DOMAIN tx.entries : InStep(tx.entries[n])
<1> SUFFICES ASSUME NEW n \in DOMAIN tx.entries
             PROVE  tx.entries[n].type # "SUBSCRIPTION"
  BY DEF InStep
<1>1. CASE Moving(tx)
  BY <1>1, MovingTypes
<1>2. CASE tx.entries = <<>>
  BY <1>2
<1>3. CASE \E u : tx.entries = <<BonusEntry(u)>>
  <2>1. PICK u : tx.entries = <<BonusEntry(u)>>
    BY <1>3
  <2>2. BonusEntry(u).type = "REFERRAL_BONUS"
    BY DEF BonusEntry, Entry
  <2>3. tx.entries[n] = BonusEntry(u)
    BY <2>1
  <2> QED
    BY <2>2, <2>3
<1> QED
  BY <1>1, <1>2, <1>3

\* A settled row is settled with its subscription, and no other row is touched.
LEMMA SettledInStep ==
    ASSUME TypeOK, PaymentsMatchSubscriptions, NEW tx \in Transaction, Settling(tx),
           tx.next = "commit"
    PROVE  /\ Saved(tx) \in Seq(Row)
           /\ DOMAIN Saved(tx) = DOMAIN rows
           /\ \A n \in DOMAIN rows : InStep(Saved(tx)[n])
           /\ \A n \in DOMAIN rows : n # tx.t => Saved(tx)[n] = rows[n]
<1> DEFINE t   == tx.t
           row == [rows[t] EXCEPT !.status = TxStatus(tx.kind),
                                  !.sub = IF tx.holds THEN SubStatus(tx.kind) ELSE @,
                                  !.deleted = FALSE]
<1>1. t # 0 /\ t \in DOMAIN rows /\ rows \in Seq(Row) /\ tx.kind \in Verdicts
  BY DEF Settling, TypeOK
<1>2. Saved(tx) \in Seq(Row) /\ DOMAIN Saved(tx) = DOMAIN rows
  BY <1>1, SavedType
<1>3. rows[t] \in Row
  BY <1>1, LenProperties, ElementOfSeq
<1>4. \A n \in DOMAIN rows : Saved(tx)[n] = IF n = t THEN row ELSE rows[n]
  BY <1>1, <1>3 DEF Saved, Row
<1>5. /\ row.type = rows[t].type /\ row.status = TxStatus(tx.kind)
      /\ row.sub = IF tx.holds THEN SubStatus(tx.kind) ELSE rows[t].sub
  BY <1>3 DEF Row
<1>6. InStep(row)
  <2> SUFFICES ASSUME rows[t].type = "SUBSCRIPTION"
               PROVE  <<row.status, row.sub>> \in
                        {<<"COMPLETED", "ACTIVE">>, <<"CANCELLED", "CANCELLED">>}
    BY <1>5 DEF InStep
  <2>1. rows[t].status = "PENDING"
    BY DEF Settling
  <2>2. rows[t].sub = "PENDING"
    BY <1>1, <2>1 DEF PaymentsMatchSubscriptions
  <2>3. Takes(rows[t]) /\ ~PaysWallet(rows[t], tx.kind)
    BY <2>2 DEF Takes, PaysWallet
  <2>4. tx.holds
    BY <2>3 DEF Settling, Pays, Leaves, Switches, Rewards
  <2> HIDE DEF row
  <2> QED
    BY <1>5, <2>4 DEF TxStatus, SubStatus
<1> HIDE DEF row
<1>7. \A n \in DOMAIN rows : InStep(Saved(tx)[n])
  BY <1>4, <1>6, InStepRows
<1> QED
  BY <1>2, <1>4, <1>7

\* The statuses of rows, over one step.
RowsFollow ==
    /\ PaymentsMatchSubscriptions'
    /\ \A t \in DOMAIN rows :
          rows[t].status # "PENDING" => rows'[t].status = rows[t].status

LEMMA CommitFollows ==
    ASSUME GatedInv, NEW p \in Handlers, Commit(p)
    PROVE  RowsFollow
<1> DEFINE tx == open[p]
<1>1. /\ tx \in Transaction /\ tx.next = "commit"
      /\ (tx.t = 0 /\ Moving(tx)) \/ Settling(tx)
      /\ rows' = Saved(tx) \o tx.entries
  BY CommitFacts DEF GatedInv, Commit
<1>2. TypeOK /\ rows \in Seq(Row) /\ tx.entries \in Seq(Row) /\ PaymentsMatchSubscriptions
  BY <1>1 DEF GatedInv, LedgerInv, TypeOK, Transaction
<1> HIDE DEF tx
<1>3. CASE tx.t = 0 /\ Moving(tx)
  <2>1. rows' = rows \o tx.entries
    BY <1>1, <1>3 DEF Saved
  <2>2. \A n \in DOMAIN tx.entries : InStep(tx.entries[n])
    BY <1>3, EntriesInStep
  <2>3. /\ \A n \in DOMAIN rows' : InStep(rows'[n])
        /\ \A n \in DOMAIN rows : rows'[n] = rows[n]
    BY <1>2, <2>1, <2>2, AppendedRows, InStepRows
  <2> QED
    BY <2>3 DEF RowsFollow, PaymentsMatchSubscriptions, InStep
<1>4. CASE Settling(tx)
  <2>1. \A n \in DOMAIN tx.entries : InStep(tx.entries[n])
    <3>1. tx.entries = <<>> \/ \E u : tx.entries = <<BonusEntry(u)>>
      BY <1>1, <1>4 DEF Settling, Pays, Leaves, Switches, Rewards, Untouched
    <3> QED
      BY <3>1, EntriesInStep
  <2>2. /\ Saved(tx) \in Seq(Row) /\ DOMAIN Saved(tx) = DOMAIN rows
        /\ \A n \in DOMAIN rows : InStep(Saved(tx)[n])
        /\ \A n \in DOMAIN rows : n # tx.t => Saved(tx)[n] = rows[n]
    BY <1>1, <1>2, <1>4, SettledInStep
  <2>3. /\ \A n \in DOMAIN rows' : InStep(rows'[n])
        /\ \A n \in DOMAIN rows : rows'[n] = Saved(tx)[n]
    BY <1>1, <1>2, <2>1, <2>2, AppendedRows
  <2>4. rows[tx.t].status = "PENDING"
    BY <1>4 DEF Settling
  <2> QED
    BY <2>2, <2>3, <2>4 DEF RowsFollow, PaymentsMatchSubscriptions, InStep
<1> QED
  BY <1>1, <1>3, <1>4

LEMMA InsertFollows ==
    ASSUME GatedInv, NEW row \in Row, InStep(row), Insert(row)
    PROVE  RowsFollow
<1>1. rows' = rows \o <<row>> /\ rows \in Seq(Row) /\ <<row>> \in Seq(Row)
  BY DEF Insert, GatedInv, LedgerInv, TypeOK
<1>2. \A n \in DOMAIN <<row>> : InStep(<<row>>[n])
  OBVIOUS
<1>3. /\ \A n \in DOMAIN rows' : InStep(rows'[n])
      /\ \A n \in DOMAIN rows : rows'[n] = rows[n]
  BY <1>1, <1>2, AppendedRows, InStepRows DEF GatedInv
<1> QED
  BY <1>3 DEF RowsFollow, PaymentsMatchSubscriptions, InStep

LEMMA RowsNext ==
    ASSUME GatedInv, [Next]_vars
    PROVE  RowsFollow
<1>1. CASE UNCHANGED rows
  BY <1>1 DEF GatedInv, RowsFollow, PaymentsMatchSubscriptions
<1>2. ASSUME NEW p \in Handlers, Request(p) \/ Step(p)
      PROVE  RowsFollow
  <2>1. CASE Request(p)
    BY <1>1, <2>1, RequestOnlyReads DEF GatedInv, LedgerInv
  <2>2. CASE Step(p) /\ ~Commit(p)
    BY <1>1, <2>2 DEF Step, ReadWallet, ReadSubscription, SaveSubscription,
                      CreditReferrer, Rollback
  <2> QED
    BY <1>2, <2>1, <2>2, CommitFollows
<1>3. ASSUME NEW w \in Wallet, NEW amount \in Amounts, RequestDeposit(w, amount)
      PROVE  RowsFollow
  <2> DEFINE row == Entry("DEPOSIT", "PENDING", w, amount)
  <2>1. amount \in Int
    BY TablesOK
  <2>2. row \in Row /\ row.type = "DEPOSIT"
    BY <2>1, EntryType DEF Types
  <2> HIDE DEF row
  <2>3. InStep(row)
    BY <2>2 DEF InStep
  <2> QED
    BY <1>3, <2>2, <2>3, InsertFollows DEF RequestDeposit, row
<1>4. ASSUME NEW u \in Users, NEW s \in Symbols, Subscribe(u, s)
      PROVE  RowsFollow
  <2> DEFINE e == Entry("SUBSCRIPTION", "PENDING", <<u, s>>, Fee)
             row == SubscriptionEntry(u, s)
  <2>1. e \in Row /\ e.status = "PENDING"
    BY TablesOK, EntryType DEF Types, Wallet, Entry
  <2>2. row = [e EXCEPT !.sub = "PENDING"]
    BY DEF SubscriptionEntry
  <2> HIDE DEF e, row
  <2>3. row \in Row /\ row.status = "PENDING" /\ row.sub = "PENDING"
    BY <2>1, <2>2 DEF Row
  <2>4. InStep(row)
    BY <2>3 DEF InStep
  <2> QED
    BY <1>4, <2>3, <2>4, InsertFollows DEF Subscribe, row
<1>5. ASSUME NEW t \in DOMAIN rows, Remove(t)
      PROVE  RowsFollow
  <2>1. \A n \in DOMAIN rows : rows[n] \in Row
    BY LenProperties, ElementOfSeq DEF GatedInv, LedgerInv, TypeOK
  <2>2. /\ DOMAIN rows' = DOMAIN rows
        /\ \A n \in DOMAIN rows : /\ rows'[n].type = rows[n].type
                                  /\ rows'[n].status = rows[n].status
                                  /\ rows'[n].sub = rows[n].sub
    BY <1>5, <2>1 DEF Remove, Row
  <2> QED
    BY <2>2 DEF GatedInv, RowsFollow, PaymentsMatchSubscriptions
<1> QED
  BY <1>1, <1>2, <1>3, <1>4, <1>5 DEF Next, vars

-----------------------------------------------------------------------------
(* Bonuses and referrals.                                                  *)

\* The rows of a table that paid r a bonus, and the referrals r was paid for.
Bonuses(table, r) ==
    {t \in DOMAIN table : table[t].type = "REFERRAL_BONUS" /\ table[t].wallet = <<r, Fiat>>}

Paid(r) == {u \in referral : Referrer[u] = r}

BonusInv == GatedInv /\ IsFiniteSet(referral) /\ BonusesMatchReferrals

LEMMA MatchBonuses ==
    BonusesMatchReferrals <=>
        \A r \in Users : Cardinality(Bonuses(rows, r)) = Cardinality(Paid(r))
BY DEF BonusesMatchReferrals, Bonuses, Paid

\* Rows appended to a table whose rows keep their type and wallet.
LEMMA GrownTable ==
    ASSUME NEW table \in Seq(Row), NEW old \in Seq(Row), NEW new \in Seq(Row),
           DOMAIN old = DOMAIN table,
           \A n \in DOMAIN table : /\ old[n].type = table[n].type
                                   /\ old[n].wallet = table[n].wallet
    PROVE  /\ DOMAIN table = 1 .. Len(table) /\ DOMAIN new = 1 .. Len(new)
           /\ Len(table) \in Nat /\ Len(new) \in Nat
           /\ DOMAIN (old \o new) = 1 .. Len(table) + Len(new)
           /\ \A n \in DOMAIN table : /\ (old \o new)[n].type = table[n].type
                                      /\ (old \o new)[n].wallet = table[n].wallet
           /\ \A n \in DOMAIN new : (old \o new)[Len(table) + n] = new[n]
<1> DEFINE all == old \o new
<1>1. /\ all \in Seq(Row) /\ Len(all) = Len(old) + Len(new)
      /\ \A n \in 1 .. Len(old) + Len(new) :
           all[n] = IF n <= Len(old) THEN old[n] ELSE new[n - Len(old)]
  BY ConcatProperties
<1> HIDE DEF all
<1>2. /\ Len(old) \in Nat /\ Len(new) \in Nat /\ Len(table) \in Nat
      /\ DOMAIN old = 1 .. Len(old) /\ DOMAIN table = 1 .. Len(table)
      /\ DOMAIN new = 1 .. Len(new)
      /\ DOMAIN all = 1 .. Len(old) + Len(new)
  BY <1>1, LenProperties
<1>3. Len(old) = Len(table)
  <2>1. Len(old) # 0 => Len(old) \in 1 .. Len(table)
    <3>1. Len(old) # 0 => Len(old) \in 1 .. Len(old)
      BY <1>2
    <3> QED
      BY <1>2, <3>1
  <2>2. Len(table) # 0 => Len(table) \in 1 .. Len(old)
    <3>1. Len(table) # 0 => Len(table) \in 1 .. Len(table)
      BY <1>2
    <3> QED
      BY <1>2, <3>1
  <2>3. Len(old) \in Nat /\ Len(table) \in Nat
    BY <1>2
  <2> QED
    BY <2>1, <2>2, <2>3
<1>4. \A n \in DOMAIN table : all[n] = old[n]
  BY <1>1, <1>2, <1>3
<1>5. \A n \in DOMAIN new : all[Len(table) + n] = new[n]
  <2> SUFFICES ASSUME NEW n \in 1 .. Len(new) PROVE all[Len(table) + n] = new[n]
    BY <1>2
  <2>1. /\ Len(table) + n \in 1 .. Len(old) + Len(new)
        /\ ~(Len(table) + n <= Len(old)) /\ (Len(table) + n) - Len(old) = n
    BY <1>2, <1>3
  <2> QED
    BY <1>1, <2>1
<1> QED
  BY <1>2, <1>3, <1>4, <1>5 DEF all

LEMMA NoNewBonus ==
    ASSUME NEW table \in Seq(Row), NEW old \in Seq(Row), NEW new \in Seq(Row),
           DOMAIN old = DOMAIN table,
           \A n \in DOMAIN table : /\ old[n].type = table[n].type
                                   /\ old[n].wallet = table[n].wallet,
           \A n \in DOMAIN new : new[n].type # "REFERRAL_BONUS"
    PROVE  \A r : Bonuses(old \o new, r) = Bonuses(table, r)
<1> DEFINE all == old \o new
<1>1. /\ DOMAIN table = 1 .. Len(table) /\ DOMAIN new = 1 .. Len(new)
      /\ Len(table) \in Nat /\ Len(new) \in Nat
      /\ DOMAIN all = 1 .. Len(table) + Len(new)
      /\ \A n \in DOMAIN table : /\ all[n].type = table[n].type
                                 /\ all[n].wallet = table[n].wallet
      /\ \A n \in DOMAIN new : all[Len(table) + n] = new[n]
  BY GrownTable
<1> HIDE DEF all
<1>2. ASSUME NEW n \in DOMAIN all, n \notin DOMAIN table
      PROVE  all[n].type # "REFERRAL_BONUS"
  <2>1. n - Len(table) \in DOMAIN new /\ Len(table) + (n - Len(table)) = n
    BY <1>1, <1>2
  <2>2. all[n] = new[n - Len(table)]
    BY <1>1, <2>1
  <2> QED
    BY <2>1, <2>2
<1>3. DOMAIN table \subseteq DOMAIN all
  BY <1>1
<1>4. \A r : Bonuses(all, r) = Bonuses(table, r)
  BY <1>1, <1>2, <1>3 DEF Bonuses
<1> QED
  BY <1>4 DEF all

LEMMA OneNewBonus ==
    ASSUME NEW table \in Seq(Row), NEW old \in Seq(Row), NEW new \in Seq(Row),
           DOMAIN old = DOMAIN table,
           \A n \in DOMAIN table : /\ old[n].type = table[n].type
                                   /\ old[n].wallet = table[n].wallet,
           Len(new) = 1, new[1].type = "REFERRAL_BONUS"
    PROVE  \A r : Bonuses(old \o new, r) =
                    IF new[1].wallet = <<r, Fiat>>
                    THEN Bonuses(table, r) \cup {Len(table) + 1} ELSE Bonuses(table, r)
<1> DEFINE all == old \o new
<1>1. /\ DOMAIN table = 1 .. Len(table) /\ DOMAIN new = 1 .. Len(new)
      /\ Len(table) \in Nat /\ Len(new) \in Nat
      /\ DOMAIN all = 1 .. Len(table) + Len(new)
      /\ \A n \in DOMAIN table : /\ all[n].type = table[n].type
                                 /\ all[n].wallet = table[n].wallet
      /\ \A n \in DOMAIN new : all[Len(table) + n] = new[n]
  BY GrownTable
<1> HIDE DEF all
<1>2. 1 \in DOMAIN new
  BY <1>1
<1>3. /\ DOMAIN all = DOMAIN table \cup {Len(table) + 1}
      /\ Len(table) + 1 \notin DOMAIN table
      /\ all[Len(table) + 1] = new[1]
  BY <1>1, <1>2
<1>4. \A r : Bonuses(all, r) = IF new[1].wallet = <<r, Fiat>>
                               THEN Bonuses(table, r) \cup {Len(table) + 1}
                               ELSE Bonuses(table, r)
  BY <1>1, <1>3 DEF Bonuses
<1> QED
  BY <1>4 DEF all

LEMMA BonusesAreFinite ==
    ASSUME NEW table \in Seq(Row), NEW r
    PROVE  IsFiniteSet(Bonuses(table, r)) /\ Len(table) + 1 \notin Bonuses(table, r)
<1>1. DOMAIN table = 1 .. Len(table) /\ Len(table) \in Nat
  BY LenProperties
<1>2. IsFiniteSet(1 .. Len(table))
  BY <1>1, FS_Interval
<1>3. Bonuses(table, r) \subseteq 1 .. Len(table)
  BY <1>1 DEF Bonuses
<1> QED
  BY <1>1, <1>2, <1>3, FS_Subset

\* Nobody is paid, or somebody for one referral more, with one row.
LEMMA BonusesStay ==
    ASSUME BonusInv, UNCHANGED referral,
           \A r : Bonuses(rows', r) = Bonuses(rows, r)
    PROVE  IsFiniteSet(referral') /\ BonusesMatchReferrals'
BY DEF BonusInv, BonusesMatchReferrals, Bonuses

LEMMA BonusPaid ==
    ASSUME BonusInv, NEW u, u \notin referral, referral' = referral \cup {u},
           \A r : Bonuses(rows', r) = IF r = Referrer[u]
                                      THEN Bonuses(rows, r) \cup {Len(rows) + 1}
                                      ELSE Bonuses(rows, r)
    PROVE  IsFiniteSet(referral') /\ BonusesMatchReferrals'
<1>1. rows \in Seq(Row) /\ IsFiniteSet(referral)
  BY DEF BonusInv, GatedInv, LedgerInv, TypeOK
<1>2. IsFiniteSet(referral')
  BY <1>1, FS_AddElement
<1>3. ASSUME NEW r \in Users
      PROVE  Cardinality(Bonuses(rows', r)) = Cardinality({x \in referral' : Referrer[x] = r})
  <2>1. Cardinality(Bonuses(rows, r)) = Cardinality(Paid(r))
    BY MatchBonuses DEF BonusInv
  <2>2. CASE r = Referrer[u]
    <3>1. {x \in referral' : Referrer[x] = r} = Paid(r) \cup {u} /\ u \notin Paid(r)
      BY <2>2 DEF Paid
    <3>2. IsFiniteSet(Paid(r))
      <4>1. Paid(r) \in SUBSET referral
        BY DEF Paid
      <4> QED
        BY <1>1, <4>1, FS_Subset
    <3>3. Cardinality(Paid(r) \cup {u}) = Cardinality(Paid(r)) + 1
      BY <3>1, <3>2, FS_AddElement
    <3>4. /\ IsFiniteSet(Bonuses(rows, r))
          /\ Len(rows) + 1 \notin Bonuses(rows, r)
      BY <1>1, BonusesAreFinite
    <3>5. Cardinality(Bonuses(rows, r) \cup {Len(rows) + 1})
            = Cardinality(Bonuses(rows, r)) + 1
      BY <3>4, FS_AddElement
    <3>6. Bonuses(rows', r) = Bonuses(rows, r) \cup {Len(rows) + 1}
      BY <2>2
    <3> QED
      BY <2>1, <3>1, <3>3, <3>5, <3>6
  <2>3. CASE r # Referrer[u]
    <3>1. {x \in referral' : Referrer[x] = r} = Paid(r)
      BY <2>3 DEF Paid
    <3> QED
      BY <2>1, <2>3, <3>1
  <2> QED
    BY <2>2, <2>3
<1> QED
  BY <1>2, <1>3 DEF BonusesMatchReferrals, Bonuses

LEMMA CommitPays ==
    ASSUME BonusInv, NEW p \in Handlers, Commit(p)
    PROVE  IsFiniteSet(referral') /\ BonusesMatchReferrals'
<1> DEFINE tx == open[p]
<1>1. /\ tx \in Transaction /\ tx.next = "commit"
      /\ (tx.t = 0 /\ Moving(tx)) \/ Settling(tx)
      /\ rows' = Saved(tx) \o tx.entries
      /\ referral' = IF tx.pays THEN referral \cup {rows[tx.t].wallet[1]} ELSE referral
  BY CommitFacts DEF BonusInv, GatedInv, Commit
<1>2. /\ TypeOK /\ rows \in Seq(Row) /\ tx.entries \in Seq(Row)
  BY <1>1 DEF BonusInv, GatedInv, LedgerInv, TypeOK, Transaction
<1> HIDE DEF tx
<1>3. CASE tx.t = 0 /\ Moving(tx)
  <2>1. rows' = rows \o tx.entries /\ UNCHANGED referral
    BY <1>1, <1>3 DEF Saved, Moving
  <2>2. \A n \in DOMAIN tx.entries : tx.entries[n].type # "REFERRAL_BONUS"
    BY <1>3, MovingTypes
  <2>3. \A r : Bonuses(rows \o tx.entries, r) = Bonuses(rows, r)
    BY <1>2, <2>2, NoNewBonus
  <2> QED
    BY <2>1, <2>3, BonusesStay
<1>4. CASE Settling(tx)
  <2>1. /\ Saved(tx) \in Seq(Row) /\ DOMAIN Saved(tx) = DOMAIN rows
        /\ \A n \in DOMAIN rows : /\ Saved(tx)[n].type = rows[n].type
                                  /\ Saved(tx)[n].wallet = rows[n].wallet
    BY <1>1, <1>2, <1>4, SavedType DEF Settling
  <2>2. CASE Rewards(tx)
    <3> DEFINE u == rows[tx.t].wallet[1]
    <3>1. tx.pays /\ Owes(tx) /\ tx.entries = <<BonusEntry(u)>>
      BY <2>2 DEF Rewards
    <3>2. u \notin referral
      BY <3>1 DEF Owes, Earns
    <3>3. /\ Len(tx.entries) = 1 /\ tx.entries[1] = BonusEntry(u)
      BY <3>1
    <3>4. /\ BonusEntry(u).type = "REFERRAL_BONUS"
          /\ BonusEntry(u).wallet = <<Referrer[u], Fiat>>
      BY DEF BonusEntry, Entry, ReferrerWallet
    <3>5. \A r : Bonuses(rows', r) = IF <<Referrer[u], Fiat>> = <<r, Fiat>>
                                     THEN Bonuses(rows, r) \cup {Len(rows) + 1}
                                     ELSE Bonuses(rows, r)
      <4>1. tx.entries[1].type = "REFERRAL_BONUS"
        BY <3>3, <3>4
      <4>2. \A r : Bonuses(Saved(tx) \o tx.entries, r) =
                      IF tx.entries[1].wallet = <<r, Fiat>>
                      THEN Bonuses(rows, r) \cup {Len(rows) + 1} ELSE Bonuses(rows, r)
        BY <1>2, <2>1, <3>3, <4>1, OneNewBonus
      <4> QED
        BY <1>1, <3>3, <3>4, <4>2
    <3>6. referral' = referral \cup {u}
      BY <1>1, <3>1
    <3> HIDE DEF u
    <3>7. \A r : <<Referrer[u], Fiat>> = <<r, Fiat>> <=> r = Referrer[u]
      OBVIOUS
    <3> QED
      BY <3>2, <3>5, <3>6, <3>7, BonusPaid
  <2>3. CASE ~Rewards(tx)
    <3>1. tx.entries = <<>> /\ ~tx.pays
      BY <1>1, <1>4, <2>3 DEF Settling, Pays, Leaves, Switches, Untouched
    <3>2. \A n \in DOMAIN tx.entries : tx.entries[n].type # "REFERRAL_BONUS"
      BY <3>1
    <3>3. \A r : Bonuses(rows', r) = Bonuses(rows, r)
      BY <1>1, <1>2, <2>1, <3>2, NoNewBonus
    <3> QED
      BY <1>1, <3>1, <3>3, BonusesStay
  <2> QED
    BY <2>2, <2>3
<1> QED
  BY <1>1, <1>3, <1>4

LEMMA BonusNext ==
    ASSUME Gated, BonusInv, [Next]_vars
    PROVE  BonusInv'
<1>1. GatedInv'
  BY LedgerNext, FaithNext, RowsNext DEF BonusInv, GatedInv, RowsFollow
<1>2. rows \in Seq(Row) /\ \A n \in DOMAIN rows : rows[n] \in Row
  BY LenProperties, ElementOfSeq DEF BonusInv, GatedInv, LedgerInv, TypeOK
<1>3. CASE UNCHANGED <<rows, referral>>
  BY <1>1, <1>3, BonusesStay DEF BonusInv
<1>4. ASSUME NEW p \in Handlers, Request(p) \/ Step(p)
      PROVE  BonusInv'
  <2>1. CASE Request(p)
    BY <1>3, <2>1, RequestOnlyReads DEF BonusInv, GatedInv, LedgerInv
  <2>2. CASE Step(p) /\ ~Commit(p)
    BY <1>3, <2>2 DEF Step, ReadWallet, ReadSubscription, SaveSubscription,
                      CreditReferrer, Rollback
  <2>3. CASE Commit(p)
    BY <1>1, <2>3, CommitPays DEF BonusInv
  <2> QED
    BY <1>4, <2>1, <2>2, <2>3
<1>5. ASSUME NEW row, row \in Row, row.type # "REFERRAL_BONUS", Insert(row)
      PROVE  BonusInv'
  <2>1. rows' = rows \o <<row>> /\ UNCHANGED referral /\ <<row>> \in Seq(Row)
    BY <1>2, <1>5 DEF Insert
  <2>2. \A n \in DOMAIN <<row>> : <<row>>[n].type # "REFERRAL_BONUS"
    BY <1>5
  <2> DEFINE new == <<row>>
  <2>3. /\ rows' = rows \o new /\ new \in Seq(Row)
        /\ \A n \in DOMAIN new : new[n].type # "REFERRAL_BONUS"
    BY <2>1, <2>2
  <2> HIDE DEF new
  <2>4. \A r : Bonuses(rows \o new, r) = Bonuses(rows, r)
    BY <1>2, <2>3, NoNewBonus
  <2>5. \A r : Bonuses(rows', r) = Bonuses(rows, r)
    BY <2>3, <2>4
  <2> QED
    BY <1>1, <2>1, <2>5, BonusesStay DEF BonusInv
<1>6. ASSUME NEW w \in Wallet, NEW amount \in Amounts, RequestDeposit(w, amount)
      PROVE  BonusInv'
  <2>1. amount \in Int
    BY TablesOK
  <2>2. /\ Entry("DEPOSIT", "PENDING", w, amount) \in Row
        /\ Entry("DEPOSIT", "PENDING", w, amount).type = "DEPOSIT"
    BY <2>1, EntryType DEF Types
  <2> QED
    BY <1>5, <1>6, <2>2 DEF RequestDeposit
<1>7. ASSUME NEW u \in Users, NEW s \in Symbols, Subscribe(u, s)
      PROVE  BonusInv'
  <2> DEFINE e == Entry("SUBSCRIPTION", "PENDING", <<u, s>>, Fee)
             row == SubscriptionEntry(u, s)
  <2>1. e \in Row /\ e.type = "SUBSCRIPTION"
    BY TablesOK, EntryType DEF Types, Wallet
  <2>2. row = [e EXCEPT !.sub = "PENDING"]
    BY DEF SubscriptionEntry
  <2> HIDE DEF e, row
  <2>3. row \in Row /\ row.type = "SUBSCRIPTION"
    BY <2>1, <2>2 DEF Row
  <2> QED
    BY <1>5, <1>7, <2>3 DEF Subscribe, row
<1>8. ASSUME NEW t \in DOMAIN rows, Remove(t)
      PROVE  BonusInv'
  <2>1. /\ DOMAIN rows' = DOMAIN rows /\ UNCHANGED referral
        /\ \A n \in DOMAIN rows : /\ rows'[n].type = rows[n].type
                                  /\ rows'[n].wallet = rows[n].wallet
    BY <1>2, <1>8 DEF Remove, Row
  <2>2. \A r : Bonuses(rows', r) = Bonuses(rows, r)
    BY <2>1 DEF Bonuses
  <2> QED
    BY <1>1, <2>1, <2>2, BonusesStay DEF BonusInv
<1> QED
  BY <1>3, <1>4, <1>6, <1>7, <1>8 DEF Next, vars

-----------------------------------------------------------------------------
(* Balances and rows.                                                      *)

\* What a row adds to w, and whether it may take half a unit more than it says
\* or, of a wallet payouts have taken below zero, add half a unit more.
Part(row, w) == IF row.wallet = w THEN Effect(row) ELSE 0

Half(row, w) ==
    IF row.wallet = w /\ (row.type = "DEBIT" \/ Shortfall(row, w) < 0) THEN 1 ELSE 0

Lost(table, row, w) ==
    IF /\ Shortfalls(table, w) < 0
       /\ row.wallet = w
       /\ row.type \in {"CREDIT", "TRANSFER_IN"}
    THEN 1 ELSE 0

Total(table, w) == SumFunctionOnSet(Booked(table, w), DOMAIN table)

Match(b, table) ==
    \A w \in Wallet :
        b[w] - Opening[w] - Total(table, w)
            \in -Cardinality(LosesHalf(table, w)) .. Cardinality(KeepsHalf(table, w))

LEMMA MatchBalances == BalancesMatchRows <=> Match(balance, rows)
BY DEF BalancesMatchRows, Match, Total

\* What a row says was added, type by type.
LEMMA EffectOf ==
    ASSUME NEW row
    PROVE  /\ row.type = "DEPOSIT" =>
                Effect(row) = IF row.status = "COMPLETED" THEN row.amount ELSE 0
           /\ row.type = "WITHDRAWAL" =>
                Effect(row) = IF row.status = "CANCELLED" THEN 0 ELSE -row.amount
           /\ row.type \in {"TRANSFER_OUT", "DEBIT"} => Effect(row) = -row.amount
           /\ row.type = "SUBSCRIPTION" => Effect(row) = 0
           /\ row.type \in {"TRANSFER_IN", "ADJUSTMENT", "CREDIT", "REFERRAL_BONUS"} =>
                Effect(row) = row.amount
<1>1. row.type = "DEPOSIT" =>
                Effect(row) = IF row.status = "COMPLETED" THEN row.amount ELSE 0
  BY DEF Effect
<1>2. row.type = "WITHDRAWAL" =>
                Effect(row) = IF row.status = "CANCELLED" THEN 0 ELSE -row.amount
  BY DEF Effect
<1>3. row.type \in {"TRANSFER_OUT", "DEBIT"} => Effect(row) = -row.amount
  BY DEF Effect
<1>4. row.type = "SUBSCRIPTION" => Effect(row) = 0
  BY DEF Effect
<1>5. row.type \in {"TRANSFER_IN", "ADJUSTMENT", "CREDIT", "REFERRAL_BONUS"} =>
                Effect(row) = row.amount
  BY DEF Effect
<1> QED
  BY <1>1, <1>2, <1>3, <1>4, <1>5

LEMMA EffectType ==
    ASSUME NEW row \in Row
    PROVE  Effect(row) \in Int
<1>1. row.type \in Types /\ row.amount \in Int /\ -row.amount \in Int
  BY DEF Row
<1> DEFINE effect == Effect(row)
<1>2. \/ effect = row.amount \/ effect = -row.amount \/ effect = 0
  BY <1>1, EffectOf DEF Types
<1> HIDE DEF effect
<1> QED
  BY <1>1, <1>2 DEF effect

\* One more row.
LEMMA OneMoreRow ==
    ASSUME NEW table \in Seq(Row), NEW row \in Row, NEW w
    PROVE  /\ Append(table, row) \in Seq(Row)
           /\ Total(table, w) \in Int
           /\ Total(Append(table, row), w) = Total(table, w) + Part(row, w)
           /\ Cardinality(KeepsHalf(table, w)) \in Nat
           /\ Cardinality(KeepsHalf(Append(table, row), w)) =
                Cardinality(KeepsHalf(table, w)) + Half(row, w)
           /\ Cardinality(LosesHalf(table, w)) \in Nat
           /\ Cardinality(LosesHalf(Append(table, row), w)) \in Nat
           /\ Cardinality(LosesHalf(Append(table, row), w)) >=
                Cardinality(LosesHalf(table, w)) + Lost(table, row, w)
           /\ Shortfalls(Append(table, row), w) \in Int
           /\ Shortfalls(Append(table, row), w) <= Shortfalls(table, w)
<1> DEFINE all == Append(table, row)
           n == Len(table) + 1
<1>1. /\ Len(table) \in Nat /\ DOMAIN table = 1 .. Len(table)
      /\ all \in Seq(Row) /\ Len(all) = n /\ DOMAIN all = 1 .. n
      /\ \A t \in 1 .. Len(table) : all[t] = table[t]
      /\ all[n] = row
  BY AppendProperties, LenProperties
<1>2. /\ DOMAIN all = DOMAIN table \cup {n} /\ n \notin DOMAIN table
      /\ IsFiniteSet(DOMAIN table)
  <2>1. IsFiniteSet(1 .. Len(table))
    BY <1>1, FS_Interval
  <2>2. 1 .. n = (1 .. Len(table)) \cup {n} /\ n \notin 1 .. Len(table)
    BY <1>1
  <2> HIDE DEF all, n
  <2> QED
    BY <1>1, <2>1, <2>2
<1> HIDE DEF all, n
<1>3. \A t \in DOMAIN all : all[t] \in Row
  BY <1>1, ElementOfSeq
<1>4. /\ \A t \in DOMAIN all : Booked(all, w)[t] \in Int
      /\ \A t \in DOMAIN table : Booked(all, w)[t] = Booked(table, w)[t]
      /\ Booked(all, w)[n] = Part(row, w)
  <2>1. \A t \in DOMAIN all : Booked(all, w)[t] = Part(all[t], w)
    BY DEF Booked, Part
  <2>2. \A t \in DOMAIN table : Booked(table, w)[t] = Part(table[t], w)
    BY DEF Booked, Part
  <2>3. \A t \in DOMAIN all : Part(all[t], w) \in Int
    BY <1>3, EffectType DEF Part
  <2>4. n \in DOMAIN all
    BY <1>2
  <2> QED
    BY <1>1, <1>2, <2>1, <2>2, <2>3, <2>4
<1>5. \A t \in DOMAIN table : Booked(table, w)[t] \in Int
  BY <1>2, <1>4
<1>6. SumFunctionOnSet(Booked(all, w), DOMAIN table) = Total(table, w)
  BY <1>2, <1>4, <1>5, SumSame DEF Total
<1>7. Total(all, w) = Part(row, w) + Total(table, w)
  BY <1>2, <1>4, <1>6, SumAdd DEF Total
<1>8. Total(table, w) \in Int
  BY <1>2, <1>5, SumType DEF Total
<1>9. Part(row, w) \in Int
  BY EffectType DEF Part
<1>10. /\ IsFiniteSet(KeepsHalf(table, w)) /\ n \notin KeepsHalf(table, w)
       /\ IsFiniteSet(LosesHalf(table, w)) /\ n \notin LosesHalf(table, w)
       /\ IsFiniteSet(LosesHalf(all, w))
  <2>1. /\ KeepsHalf(table, w) \in SUBSET DOMAIN table
        /\ LosesHalf(table, w) \in SUBSET DOMAIN table
        /\ LosesHalf(all, w) \in SUBSET DOMAIN all
    BY DEF KeepsHalf, LosesHalf
  <2>2. IsFiniteSet(DOMAIN all)
    BY <1>2, FS_AddElement
  <2> QED
    BY <1>2, <2>1, <2>2, FS_Subset
<1>11. /\ Cardinality(KeepsHalf(table, w)) \in Nat
       /\ Cardinality(LosesHalf(table, w)) \in Nat
       /\ Cardinality(LosesHalf(all, w)) \in Nat
  BY <1>10, FS_CardinalityType
<1>12. Cardinality(KeepsHalf(all, w)) = Cardinality(KeepsHalf(table, w)) + Half(row, w)
  <2> DEFINE keeps == row.wallet = w /\ (row.type = "DEBIT" \/ Shortfall(row, w) < 0)
  <2>1. CASE keeps
    <3>1. KeepsHalf(all, w) = KeepsHalf(table, w) \cup {n}
      BY <1>1, <1>2, <2>1 DEF KeepsHalf
    <3>2. Cardinality(KeepsHalf(table, w) \cup {n}) = Cardinality(KeepsHalf(table, w)) + 1
      BY <1>10, FS_AddElement
    <3> QED
      BY <2>1, <3>1, <3>2 DEF Half
  <2>2. CASE ~keeps
    <3>1. KeepsHalf(all, w) = KeepsHalf(table, w)
      BY <1>1, <1>2, <2>2 DEF KeepsHalf
    <3> QED
      BY <1>11, <2>2, <3>1 DEF Half
  <2> QED
    BY <2>1, <2>2
<1>13. /\ Shortfalls(all, w) \in Int /\ Shortfalls(table, w) \in Int
       /\ Shortfalls(table, w) <= 0
       /\ Shortfalls(all, w) <= Shortfalls(table, w)
  <2>1. Extends(all, table)
    BY <1>1, <1>2 DEF Extends
  <2> QED
    BY <1>1, <2>1, ShortfallsType, ShortfallsLater
<1>14. Cardinality(LosesHalf(all, w)) >= Cardinality(LosesHalf(table, w)) + Lost(table, row, w)
  <2>1. LosesHalf(table, w) \in SUBSET LosesHalf(all, w)
    BY <1>1, <1>2, <1>13 DEF LosesHalf
  <2>2. CASE Lost(table, row, w) = 1
    <3>1. n \in LosesHalf(all, w)
      BY <1>1, <1>2, <1>13, <2>2 DEF Lost, LosesHalf
    <3>2. LosesHalf(table, w) \cup {n} \in SUBSET LosesHalf(all, w)
      BY <2>1, <3>1
    <3>3. Cardinality(LosesHalf(table, w) \cup {n}) = Cardinality(LosesHalf(table, w)) + 1
      BY <1>10, FS_AddElement
    <3>4. Cardinality(LosesHalf(table, w) \cup {n}) <= Cardinality(LosesHalf(all, w))
      BY <1>10, <3>2, FS_Subset
    <3> QED
      BY <2>2, <3>3, <3>4
  <2>3. CASE Lost(table, row, w) = 0
    <3>1. Cardinality(LosesHalf(table, w)) <= Cardinality(LosesHalf(all, w))
      BY <1>10, <2>1, FS_Subset
    <3> QED
      BY <1>11, <2>3, <3>1
  <2> QED
    BY <2>2, <2>3 DEF Lost
<1> QED
  BY <1>1, <1>7, <1>8, <1>9, <1>11, <1>12, <1>13, <1>14 DEF all

\* A row is booked with what is added to the wallets.
LEMMA MatchAppended ==
    ASSUME NEW b \in [Wallet -> Int], NEW c \in [Wallet -> Int],
           NEW table \in Seq(Row), NEW row \in Row,
           Match(b, table),
           \A w \in Wallet : c[w] - b[w] - Part(row, w) \in -Lost(table, row, w) .. Half(row, w)
    PROVE  Match(c, Append(table, row))
<1> SUFFICES ASSUME NEW w \in Wallet
             PROVE  c[w] - Opening[w] - Total(Append(table, row), w) \in
                        -Cardinality(LosesHalf(Append(table, row), w)) ..
                            Cardinality(KeepsHalf(Append(table, row), w))
  BY DEF Match
<1> DEFINE old == Total(table, w)
           new == Total(Append(table, row), w)
           keeps == Cardinality(KeepsHalf(table, w))
           more == Cardinality(KeepsHalf(Append(table, row), w))
           loses == Cardinality(LosesHalf(table, w))
           less == Cardinality(LosesHalf(Append(table, row), w))
<1>1. /\ old \in Int /\ new = old + Part(row, w)
      /\ keeps \in Nat /\ more = keeps + Half(row, w)
      /\ loses \in Nat /\ less \in Nat /\ less >= loses + Lost(table, row, w)
  BY OneMoreRow
<1>2. /\ b[w] - Opening[w] - old \in -loses .. keeps
      /\ c[w] - b[w] - Part(row, w) \in -Lost(table, row, w) .. Half(row, w)
  BY DEF Match
<1>3. /\ Part(row, w) \in Int /\ Half(row, w) \in {0, 1} /\ Lost(table, row, w) \in {0, 1}
      /\ b[w] \in Int /\ c[w] \in Int /\ Opening[w] \in Int
  BY EffectType, TablesOK DEF Part, Half, Lost, Wallet
<1> HIDE DEF old, new, keeps, more, loses, less
<1>4. c[w] - Opening[w] - new \in -less .. more
  <2> DEFINE half == Half(row, w)
             lost == Lost(table, row, w)
             part == Part(row, w)
             x == b[w]
             y == c[w]
             o == Opening[w]
  <2>0. /\ part \in Int /\ half \in {0, 1} /\ lost \in {0, 1}
        /\ x \in Int /\ y \in Int /\ o \in Int
    BY <1>3
  <2>1. /\ old \in Int /\ new = old + part /\ keeps \in Nat /\ more = keeps + half
        /\ loses \in Nat /\ less \in Nat /\ less >= loses + lost
    BY <1>1
  <2>3. x - o - old \in -loses .. keeps /\ y - x - part \in -lost .. half
    BY <1>2
  <2> HIDE DEF half, lost, part, x, y, o
  <2>2. y - o - new \in -less .. more
    BY <2>0, <2>1, <2>3
  <2> QED
    BY <2>2 DEF y, o
<1> QED
  BY <1>4 DEF new, more, less

\* A row is replaced by one of its type, for the same wallet.
LEMMA MatchReplaced ==
    ASSUME NEW b \in [Wallet -> Int], NEW c \in [Wallet -> Int],
           NEW table \in Seq(Row), NEW new \in Seq(Row), NEW t \in DOMAIN table,
           DOMAIN new = DOMAIN table,
           \A n \in DOMAIN table : n # t => new[n] = table[n],
           new[t].type = table[t].type, new[t].wallet = table[t].wallet,
           new[t].amount = table[t].amount,
           Match(b, table),
           \A w \in Wallet : c[w] - b[w] = Part(new[t], w) - Part(table[t], w)
    PROVE  Match(c, new)
<1> SUFFICES ASSUME NEW w \in Wallet
             PROVE  c[w] - Opening[w] - Total(new, w) \in
                        -Cardinality(LosesHalf(new, w)) .. Cardinality(KeepsHalf(new, w))
  BY DEF Match
<1>1. DOMAIN table = 1 .. Len(table) /\ DOMAIN new = 1 .. Len(new) /\ Len(table) \in Nat
  BY LenProperties
<1>2. IsFiniteSet(DOMAIN table)
  BY <1>1, FS_Interval
<1>3. \A n \in DOMAIN table : table[n] \in Row /\ new[n] \in Row
  BY <1>1, ElementOfSeq
<1>4. /\ \A n \in DOMAIN table : Booked(table, w)[n] \in Int /\ Booked(new, w)[n] \in Int
      /\ \A n \in DOMAIN table \ {t} : Booked(new, w)[n] = Booked(table, w)[n]
      /\ Booked(new, w)[t] = Part(new[t], w) /\ Booked(table, w)[t] = Part(table[t], w)
  <2>1. \A n \in DOMAIN table : Effect(table[n]) \in Int /\ Effect(new[n]) \in Int
    BY <1>3, EffectType
  <2> QED
    BY <2>1 DEF Booked, Part
<1>5. Total(new, w) = Total(table, w) + (Part(new[t], w) - Part(table[t], w))
  <2> DEFINE f == Booked(table, w)
             g == Booked(new, w)
             S == DOMAIN table
  <2>1. /\ IsFiniteSet(S) /\ t \in S /\ \A n \in S : f[n] \in Int /\ g[n] \in Int
        /\ \A n \in S \ {t} : g[n] = f[n]
    BY <1>2, <1>4
  <2> HIDE DEF f, g, S
  <2>2. SumFunctionOnSet(g, S) = SumFunctionOnSet(f, S) + (g[t] - f[t])
    BY <2>1, SumChange
  <2> QED
    BY <1>4, <2>2 DEF Total, f, g, S
<1>6. Total(table, w) \in Int
  BY <1>2, <1>4, SumType DEF Total
<1>7. KeepsHalf(new, w) = KeepsHalf(table, w) /\ LosesHalf(new, w) = LosesHalf(table, w)
  <2>1. Extends(new, table)
    BY DEF Extends
  <2>2. Shortfalls(new, w) = Shortfalls(table, w)
    BY <2>1, ShortfallsLater
  <2>3. \A n \in DOMAIN table : Shortfall(new[n], w) = Shortfall(table[n], w)
    BY <2>1 DEF Shortfall, Extends
  <2> QED
    BY <2>1, <2>2, <2>3 DEF KeepsHalf, LosesHalf, Extends
<1>8. /\ Part(new[t], w) \in Int /\ Part(table[t], w) \in Int
      /\ b[w] \in Int /\ c[w] \in Int /\ Opening[w] \in Int
  BY <1>3, EffectType, TablesOK DEF Part, Wallet
<1>9. c[w] - Opening[w] - Total(new, w) = b[w] - Opening[w] - Total(table, w)
  BY <1>5, <1>6, <1>8
<1>10. b[w] - Opening[w] - Total(table, w)
          \in -Cardinality(LosesHalf(table, w)) .. Cardinality(KeepsHalf(table, w))
  BY DEF Match
<1> QED
  BY <1>7, <1>9, <1>10

\* Two rows, one after the other or together.
LEMMA AppendTwo ==
    ASSUME NEW table \in Seq(Row), NEW a \in Row, NEW b \in Row
    PROVE  Append(Append(table, a), b) = table \o <<a, b>>
<1> DEFINE one == <<a>>
           two == <<b>>
           both == <<a, b>>
<1>1. /\ one \in Seq(Row) /\ Len(one) = 1 /\ one[1] = a
      /\ two \in Seq(Row) /\ Len(two) = 1 /\ two[1] = b
      /\ both \in Seq(Row) /\ Len(both) = 2 /\ both[1] = a /\ both[2] = b
  OBVIOUS
<1>2. Append(table, a) = table \o <<a>>
  BY AppendIsConcat
<1>3. Append(Append(table, a), b) = Append(table, a) \o <<b>>
  BY AppendProperties, AppendIsConcat
<1>4. Append(table, a) = table \o one /\ Append(Append(table, a), b) = Append(table, a) \o two
  BY Zenon, <1>2, <1>3
<1> HIDE DEF one, two, both
<1>5. one \o two = both
  <2> DEFINE all == one \o two
  <2>1. /\ all \in Seq(Row) /\ Len(all) = Len(one) + Len(two)
        /\ \A i \in 1 .. Len(one) + Len(two) :
             all[i] = IF i <= Len(one) THEN one[i] ELSE two[i - Len(one)]
    BY <1>1, ConcatProperties
  <2> HIDE DEF all
  <2>2. Len(all) = 2 /\ all[1] = a /\ all[2] = b
    BY <1>1, <2>1
  <2>3. \A i \in 1 .. Len(all) : all[i] = both[i]
    BY <1>1, <2>2
  <2>4. all = both
    BY <1>1, <2>1, <2>2, <2>3, SeqEqual
  <2> QED
    BY <2>4 DEF all
<1>6. (table \o one) \o two = table \o (one \o two)
  <2> DEFINE S == Row
  <2>1. table \in Seq(S) /\ one \in Seq(S) /\ two \in Seq(S)
    BY <1>1
  <2> HIDE DEF S
  <2> QED
    BY ONLY <2>1, ConcatAssociative
<1>7. Append(Append(table, a), b) = table \o both
  BY Zenon, <1>4, <1>5, <1>6
<1> QED
  BY Zenon, <1>7 DEF both

\* Where the row of a debit, a credit or a transfer and the wallet differ.
LEMMA DebitRounds ==
    ASSUME NEW x \in Int, NEW usd \in Nat \ {0}, NEW rate \in Nat \ {0}
    PROVE  /\ Tokens(usd, rate) \in Int /\ Gained(x, -usd, rate) \in Int
           /\ Gained(x, -usd, rate) + Tokens(usd, rate) \in 0 .. 1
<1>1. PICK n \in Int : n = -usd
  OBVIOUS
<1>2. n < 0 /\ usd \in Int
  BY <1>1
<1>3. Rounded(usd, rate) \in Int /\ Rounded(n, rate) = -Rounded(usd, rate)
  <2>1. Rounded(usd, rate) = (2 * usd + rate) \div (2 * rate)
    BY DEF Rounded
  <2>2. Rounded(n, rate) = -((rate - 2 * n) \div (2 * rate))
    BY <1>2 DEF Rounded
  <2>3. rate - 2 * n = 2 * usd + rate
    BY <1>1
  <2>4. Rounded(usd, rate) \in Int
    BY <1>2, RoundedType
  <2> QED
    BY <2>1, <2>2, <2>3, <2>4
<1>4. /\ Gained(x, n, rate) \in Int
      /\ Gained(x, n, rate) - Rounded(n, rate) <= 1
      /\ Gained(x, n, rate) - Rounded(n, rate) >= 0
  BY <1>2, GainedIs
<1> QED
  BY <1>1, <1>3, <1>4 DEF Tokens

LEMMA CreditRounds ==
    ASSUME NEW x \in Int, NEW usd \in Int, NEW rate \in Nat \ {0}
    PROVE  /\ Tokens(usd, rate) \in Int /\ Gained(x, usd, rate) \in Int
           /\ Gained(x, usd, rate) - Tokens(usd, rate) <= IF Tokens(usd, rate) < 0 THEN 1 ELSE 0
           /\ Gained(x, usd, rate) - Tokens(usd, rate) >= IF x < 0 THEN -1 ELSE 0
<1> DEFINE g == Gained(x, usd, rate)
           t == Tokens(usd, rate)
<1>1. g \in Int /\ t \in Int
  BY GainedIs, RoundedType DEF Tokens
<1>2. /\ g - t <= IF usd < 0 THEN 1 ELSE 0
      /\ g - t >= IF usd >= 0 /\ x < 0 THEN -1 ELSE 0
      /\ usd < 0 /\ t = 0 => g <= 0
  BY GainedIs DEF Tokens
<1>3. usd < 0 => t <= 0
  BY RoundedDown DEF Tokens
<1> HIDE DEF g, t
<1>4. /\ g - t <= IF t < 0 THEN 1 ELSE 0
      /\ g - t >= IF x < 0 THEN -1 ELSE 0
  BY <1>1, <1>2, <1>3
<1> QED
  BY <1>1, <1>4 DEF g, t

LEMMA TransferRounds ==
    ASSUME NEW x \in Int, NEW amount \in Nat, NEW a \in Nat \ {0}, NEW b \in Nat \ {0}
    PROVE  /\ Converted(amount, a, b) \in Int /\ Gained(x, amount * a, b) \in Int
           /\ Gained(x, amount * a, b) - Converted(amount, a, b)
                 \in -(IF x < 0 THEN 1 ELSE 0) .. 0
<1>1. PICK n \in Nat : n = amount * a
  OBVIOUS
<1>2. n \in Int /\ n >= 0
  OBVIOUS
<1> DEFINE g == Gained(x, n, b)
           r == Rounded(n, b)
<1>3. g \in Int /\ r \in Int
  BY <1>2, GainedIs, RoundedType
<1>4. /\ g - r <= IF n < 0 THEN 1 ELSE 0
      /\ g - r >= IF n >= 0 /\ x < 0 THEN -1 ELSE 0
  BY <1>2, GainedIs
<1> HIDE DEF g, r
<1>5. g - r \in -(IF x < 0 THEN 1 ELSE 0) .. 0
  BY <1>2, <1>3, <1>4
<1> QED
  BY <1>1, <1>3, <1>5 DEF g, r, Converted

\* A commit that moves money books what it moves.
LEMMA MovesMatch ==
    ASSUME LedgerInv, Match(balance, rows), NEW tx, Moving(tx),
           NEW c \in [Wallet -> Int], \A w \in Wallet : c[w] = balance[w] + tx.changes[w]
    PROVE  Match(c, rows \o tx.entries)
<1>1. balance \in [Wallet -> Int] /\ rows \in Seq(Row)
  BY DEF LedgerInv, TypeOK
<1>2. ASSUME NEW w \in Wallet, NEW d \in Int, NEW row \in Row, row.wallet = w,
             d - Effect(row) \in -Lost(rows, row, w) .. Half(row, w),
             tx.changes = Change(w, d), tx.entries = <<row>>
      PROVE  Match(c, rows \o tx.entries)
  <2>1. \A x \in Wallet : c[x] - balance[x] - Part(row, x) \in -Lost(rows, row, x) .. Half(row, x)
    <3> SUFFICES ASSUME NEW x \in Wallet
                 PROVE  c[x] - balance[x] - Part(row, x) \in -Lost(rows, row, x) .. Half(row, x)
      OBVIOUS
    <3>1. c[x] = balance[x] + Change(w, d)[x] /\ balance[x] \in Int
      BY <1>1, <1>2
    <3>2. CASE x = w
      <4>1. Change(w, d)[x] = d /\ Part(row, x) = Effect(row)
        BY <1>2, <3>2, ChangeType DEF Part
      <4>2. Effect(row) \in Int
        BY EffectType
      <4>3. c[x] - balance[x] = d
        BY <3>1, <4>1
      <4> QED
        BY <1>2, <3>2, <4>1, <4>3
    <3>3. CASE x # w
      <4>1. /\ Change(w, d)[x] = 0 /\ Part(row, x) = 0
            /\ Half(row, x) = 0 /\ Lost(rows, row, x) = 0
        BY <1>2, <3>3, ChangeType DEF Part, Half, Lost
      <4> QED
        BY <3>1, <4>1
    <3> QED
      BY <3>2, <3>3
  <2>2. Match(c, Append(rows, row))
    BY <1>1, <2>1, MatchAppended
  <2> DEFINE new == <<row>>
  <2>3. tx.entries = new /\ Append(rows, row) = rows \o new
    <3>1. Append(rows, row) = rows \o <<row>>
      BY <1>1, <1>2, AppendIsConcat
    <3> QED
      BY Zenon, <1>2, <3>1
  <2> HIDE DEF new
  <2> QED
    BY <2>2, <2>3
<1>3. CASE Withdraws(tx)
  <2>1. PICK w \in Wallet, amount \in Amounts, status \in {"PENDING", "COMPLETED"} :
          /\ tx.changes = Change(w, -amount)
          /\ tx.entries = <<Entry("WITHDRAWAL", status, w, amount)>>
    BY <1>3 DEF Withdraws
  <2> DEFINE row == Entry("WITHDRAWAL", status, w, amount)
  <2>2. amount \in Int /\ -amount \in Int
    BY TablesOK
  <2>3. /\ row \in Row /\ row.type = "WITHDRAWAL" /\ row.amount = amount
        /\ row.wallet = w /\ row.status = status
    BY <2>2, EntryType DEF Types, Entry
  <2> HIDE DEF row
  <2>4. Effect(row) = -amount
    BY <2>3, EffectOf
  <2>5. Half(row, w) = 0 /\ Lost(rows, row, w) = 0
    BY <2>3 DEF Half, Lost, Shortfall
  <2>6. (-amount) - Effect(row) \in -Lost(rows, row, w) .. Half(row, w)
    BY <2>2, <2>4, <2>5
  <2>7. tx.entries = <<row>>
    BY <2>1 DEF row
  <2> QED
    BY <1>2, <2>1, <2>2, <2>3, <2>6, <2>7
<1>4. CASE Adjusts(tx)
  <2>1. PICK w \in Wallet, amount \in Adjustments :
          /\ tx.changes = Change(w, amount)
          /\ tx.entries = <<Entry("ADJUSTMENT", "COMPLETED", w, amount)>>
    BY <1>4 DEF Adjusts
  <2> DEFINE row == Entry("ADJUSTMENT", "COMPLETED", w, amount)
  <2>2. amount \in Int
    BY TablesOK
  <2>3. /\ row \in Row /\ row.type = "ADJUSTMENT" /\ row.amount = amount
        /\ row.wallet = w
    BY <2>2, EntryType DEF Types, Entry
  <2> HIDE DEF row
  <2>4. Effect(row) = amount
    BY <2>3, EffectOf
  <2>5. Half(row, w) = 0 /\ Lost(rows, row, w) = 0
    BY <2>3 DEF Half, Lost, Shortfall
  <2>6. amount - Effect(row) \in -Lost(rows, row, w) .. Half(row, w)
    BY <2>2, <2>4, <2>5
  <2>7. tx.entries = <<row>>
    BY <2>1 DEF row
  <2> QED
    BY <1>2, <2>1, <2>2, <2>3, <2>6, <2>7
<1>5. CASE Debits(tx)
  <2>1. PICK w \in Wallet, usd \in Amounts : \E rate \in Rates[w[2]] :
          /\ tx.changes = Change(w, Gained(balance[w], -usd, rate))
          /\ tx.entries = <<Entry("DEBIT", "COMPLETED", w, Tokens(usd, rate))>>
    BY <1>5 DEF Debits
  <2>2. PICK rate \in Rates[w[2]] :
          /\ tx.changes = Change(w, Gained(balance[w], -usd, rate))
          /\ tx.entries = <<Entry("DEBIT", "COMPLETED", w, Tokens(usd, rate))>>
    BY <2>1
  <2> DEFINE tokens == Tokens(usd, rate)
             gain == Gained(balance[w], -usd, rate)
             row == Entry("DEBIT", "COMPLETED", w, tokens)
  <2>3. usd \in Nat \ {0} /\ rate \in Nat \ {0} /\ balance[w] \in Int
    BY <1>1, TablesOK DEF Wallet
  <2>4. /\ tokens \in Int /\ gain \in Int
        /\ gain + tokens \in 0 .. 1
    BY <2>3, DebitRounds
  <2>5. tx.changes = Change(w, gain) /\ tx.entries = <<row>>
    BY <2>2
  <2> HIDE DEF tokens, gain
  <2>6. /\ row \in Row /\ row.type = "DEBIT" /\ row.amount = tokens
        /\ row.wallet = w
    BY <2>4, EntryType DEF Types, Entry
  <2> HIDE DEF row
  <2>7. Effect(row) = -tokens
    BY <2>6, EffectOf
  <2>8. Half(row, w) = 1 /\ Lost(rows, row, w) = 0
    BY <2>6 DEF Half, Lost
  <2>9. gain - Effect(row) \in -Lost(rows, row, w) .. Half(row, w)
    BY <2>4, <2>7, <2>8
  <2> QED
    BY <1>2, <2>4, <2>5, <2>6, <2>9
<1>6. CASE Credits(tx)
  <2>1. PICK w \in Wallet, usd \in Payouts : \E rate \in Rates[w[2]] :
          /\ tx.changes = Change(w, Gained(balance[w], usd, rate))
          /\ tx.entries = <<Entry("CREDIT", "COMPLETED", w, Tokens(usd, rate))>>
    BY <1>6 DEF Credits
  <2>2. PICK rate \in Rates[w[2]] :
          /\ tx.changes = Change(w, Gained(balance[w], usd, rate))
          /\ tx.entries = <<Entry("CREDIT", "COMPLETED", w, Tokens(usd, rate))>>
    BY <2>1
  <2> DEFINE tokens == Tokens(usd, rate)
             gain == Gained(balance[w], usd, rate)
             row == Entry("CREDIT", "COMPLETED", w, tokens)
  <2>3. usd \in Int /\ rate \in Nat \ {0} /\ balance[w] \in Int
    BY <1>1, TablesOK DEF Wallet
  <2>4. /\ tokens \in Int /\ gain \in Int
        /\ gain - tokens <= IF tokens < 0 THEN 1 ELSE 0
        /\ gain - tokens >= IF balance[w] < 0 THEN -1 ELSE 0
    BY <2>3, CreditRounds
  <2>5. tx.changes = Change(w, gain) /\ tx.entries = <<row>>
    BY <2>2
  <2> HIDE DEF tokens, gain
  <2>6. /\ row \in Row /\ row.type = "CREDIT" /\ row.amount = tokens
        /\ row.wallet = w
    BY <2>4, EntryType DEF Types, Entry
  <2> HIDE DEF row
  <2>7. Effect(row) = tokens
    BY <2>6, EffectOf
  <2>8. /\ Half(row, w) = IF tokens < 0 THEN 1 ELSE 0
        /\ Lost(rows, row, w) = IF Shortfalls(rows, w) < 0 THEN 1 ELSE 0
    BY <2>6 DEF Half, Lost, Shortfall
  <2>9. balance[w] < 0 => Shortfalls(rows, w) < 0
    BY BalanceCovered
  <2>10. gain - Effect(row) \in -Lost(rows, row, w) .. Half(row, w)
    <3> DEFINE lost == Lost(rows, row, w)
               half == Half(row, w)
               diff == gain - tokens
    <3>1. diff \in Int /\ gain - Effect(row) = diff
      BY <2>4, <2>7
    <3>2. half \in {0, 1} /\ diff <= half
      BY <2>4, <2>8
    <3>3. lost \in {0, 1} /\ diff >= -lost
      BY <2>4, <2>8, <2>9
    <3> HIDE DEF lost, half, diff
    <3>4. diff \in -lost .. half
      BY <3>1, <3>2, <3>3
    <3> QED
      BY <3>1, <3>4 DEF lost, half
  <2> QED
    BY <1>2, <2>4, <2>5, <2>6, <2>10
<1>7. CASE Transfers(tx)
  <2>1. PICK w \in Wallet, amount \in Amounts : \E v \in Wallet \ {w}, a \in Rates[w[2]] :
          \E b \in Rates[v[2]] : Moved(tx, w, v, amount, a, b)
    BY <1>7 DEF Transfers
  <2>2. PICK v \in Wallet \ {w}, a \in Rates[w[2]] :
          \E b \in Rates[v[2]] : Moved(tx, w, v, amount, a, b)
    BY <2>1
  <2>3. PICK b \in Rates[v[2]] : Moved(tx, w, v, amount, a, b)
    BY <2>2
  <2> DEFINE credit == Converted(amount, a, b)
             gain == Gained(balance[v], amount * a, b)
             out == Entry("TRANSFER_OUT", "COMPLETED", w, amount)
             inn == Entry("TRANSFER_IN", "COMPLETED", v, credit)
             mid == [x \in Wallet |-> IF x = w THEN balance[x] - amount ELSE balance[x]]
  <2>4. /\ amount \in Nat /\ credit \in Int /\ gain \in Int
        /\ gain - credit \in -(IF balance[v] < 0 THEN 1 ELSE 0) .. 0
    <3>1. amount \in Nat /\ a \in Nat \ {0} /\ b \in Nat \ {0} /\ balance[v] \in Int
      BY <1>1, TablesOK DEF Wallet
    <3> QED
      BY <3>1, TransferRounds
  <2>5. /\ tx.changes = TransferChange(w, v, amount, gain)
        /\ tx.entries = <<out, inn>>
    BY <2>3 DEF Moved, TransferEntries
  <2> HIDE DEF credit, gain
  <2>6. /\ out \in Row /\ out.type = "TRANSFER_OUT" /\ out.amount = amount /\ out.wallet = w
        /\ inn \in Row /\ inn.type = "TRANSFER_IN" /\ inn.amount = credit /\ inn.wallet = v
    BY <2>4, EntryType DEF Types, Entry
  <2> HIDE DEF out, inn
  <2>7. Effect(out) = -amount /\ Effect(inn) = credit
    BY <2>6, EffectOf
  <2> DEFINE table == Append(rows, out)
  <2>8. /\ \A x : Half(out, x) = 0 /\ Half(inn, x) = 0 /\ Lost(rows, out, x) = 0
        /\ \A x : x # v => Lost(table, inn, x) = 0
        /\ Lost(table, inn, v) = IF Shortfalls(table, v) < 0 THEN 1 ELSE 0
    BY <2>6 DEF Half, Lost, Shortfall
  <2>9. mid \in [Wallet -> Int]
    BY <1>1, <2>4
  <2>10. \A x \in Wallet :
            mid[x] - balance[x] - Part(out, x) \in -Lost(rows, out, x) .. Half(out, x)
    BY <1>1, <2>4, <2>6, <2>7, <2>8 DEF Part
  <2>11. Match(mid, table)
    BY <1>1, <2>6, <2>9, <2>10, MatchAppended
  <2>12. /\ table \in Seq(Row)
         /\ Shortfalls(table, v) \in Int /\ Shortfalls(table, v) <= Shortfalls(rows, v)
    BY <1>1, <2>6, OneMoreRow
  <2> HIDE DEF table
  <2>13. gain - credit \in -Lost(table, inn, v) .. 0
    <3>1. /\ balance[v] \in Int /\ Shortfalls(rows, v) \in Int
          /\ balance[v] >= Shortfalls(rows, v)
      BY BalanceCovered
    <3>2. balance[v] < 0 => Shortfalls(table, v) < 0
      BY <2>12, <3>1
    <3> QED
      BY <2>4, <2>8, <3>2
  <2>14. \A x \in Wallet : c[x] - mid[x] - Part(inn, x) \in -Lost(table, inn, x) .. Half(inn, x)
    <3> SUFFICES ASSUME NEW x \in Wallet
                 PROVE  c[x] - mid[x] - Part(inn, x) \in -Lost(table, inn, x) .. Half(inn, x)
      OBVIOUS
    <3>1. c[x] = balance[x] + TransferChange(w, v, amount, gain)[x] /\ balance[x] \in Int
      BY <1>1, <2>5
    <3>2. TransferChange(w, v, amount, gain)[x] =
            IF x = w THEN -amount ELSE IF x = v THEN gain ELSE 0
      BY DEF TransferChange
    <3>3. c[x] - mid[x] = IF x = v THEN gain ELSE 0
      BY <2>3, <2>4, <3>1, <3>2
    <3>4. Part(inn, x) = IF x = v THEN credit ELSE 0
      BY <2>6, <2>7 DEF Part
    <3>5. CASE x = v
      BY <2>8, <2>13, <3>3, <3>4, <3>5
    <3>6. CASE x # v
      BY <2>8, <3>3, <3>4, <3>6
    <3> QED
      BY <3>5, <3>6
  <2> HIDE DEF mid
  <2>15. Match(c, Append(table, inn))
    BY <2>6, <2>9, <2>11, <2>12, <2>14, MatchAppended
  <2>16. Append(table, inn) = rows \o <<out, inn>>
    BY <1>1, <2>6, AppendTwo DEF table
  <2> QED
    BY <2>5, <2>15, <2>16
<1> QED
  BY <1>3, <1>4, <1>5, <1>6, <1>7 DEF Moving

\* What settling a row changes of what it says.
LEMMA SettledEffect ==
    ASSUME NEW row \in Row, NEW new \in Row, NEW verdict \in Verdicts,
           row.status = "PENDING", new.status = TxStatus(verdict),
           new.type = row.type, new.amount = row.amount
    PROVE  Effect(new) - Effect(row) = IF PaysWallet(row, verdict) THEN row.amount ELSE 0
<1>1. row.amount \in Int /\ row.type \in Types
  BY DEF Row
<1>2. new.status = IF verdict = "confirm" THEN "COMPLETED" ELSE "CANCELLED"
  BY DEF TxStatus
<1>3. CASE row.type = "DEPOSIT"
  BY <1>1, <1>2, <1>3, EffectOf DEF PaysWallet, Verdicts
<1>4. CASE row.type = "WITHDRAWAL"
  BY <1>1, <1>2, <1>4, EffectOf DEF PaysWallet, Verdicts
<1>5. CASE row.type \notin {"DEPOSIT", "WITHDRAWAL"}
  <2>1. ~PaysWallet(row, verdict)
    BY <1>5 DEF PaysWallet
  <2>2. Effect(new) = Effect(row)
    BY <1>1, <1>5, EffectOf DEF Types
  <2>3. Effect(row) \in Int
    BY EffectType
  <2> QED
    BY <2>1, <2>2, <2>3
<1> QED
  BY <1>3, <1>4, <1>5

\* A commit of confirm or reject books what it pays, and the bonus it credits.
LEMMA SettlesMatch ==
    ASSUME LedgerInv, PaymentsMatchSubscriptions, Match(balance, rows),
           NEW tx \in Transaction, Settling(tx), tx.next = "commit",
           balance' = [w \in Wallet |-> IF w \in tx.saves THEN balance[w] + tx.changes[w]
                                        ELSE balance[w]],
           rows' = Saved(tx) \o tx.entries
    PROVE  Match(balance', rows')
<1> DEFINE t   == tx.t
           row == rows[t]
           u   == row.wallet[1]
           new == Saved(tx)
           paid == [w \in Wallet |-> IF PaysWallet(row, tx.kind) /\ w = row.wallet
                                    THEN balance[w] + row.amount ELSE balance[w]]
<1>1. /\ TypeOK /\ balance \in [Wallet -> Int] /\ rows \in Seq(Row)
      /\ t \in DOMAIN rows /\ t # 0 /\ tx.kind \in Verdicts /\ row.status = "PENDING"
      /\ \A w \in Wallet : tx.changes[w] \in Int
  BY DEF LedgerInv, TypeOK, Settling, Transaction
<1>2. /\ new \in Seq(Row) /\ DOMAIN new = DOMAIN rows
      /\ \A n \in DOMAIN rows : n # t => new[n] = rows[n]
  BY <1>1, SettledInStep
<1>3. row \in Row /\ new[t] \in Row
  BY <1>1, <1>2, LenProperties, ElementOfSeq
<1>4. /\ new[t].type = row.type /\ new[t].wallet = row.wallet /\ new[t].amount = row.amount
  BY <1>1, SavedType
<1>5. new[t].status = TxStatus(tx.kind)
  BY <1>1, <1>3 DEF Saved, Row
<1>6. row.amount \in Int /\ row.wallet \in Wallet
  BY <1>3 DEF Row
<1> HIDE DEF new, row
<1>7. Effect(new[t]) - Effect(row) = IF PaysWallet(row, tx.kind) THEN row.amount ELSE 0
  BY <1>1, <1>3, <1>4, <1>5, SettledEffect
<1>8. paid \in [Wallet -> Int]
  BY <1>1, <1>6
<1>9. \A w \in Wallet : paid[w] - balance[w] = Part(new[t], w) - Part(row, w)
  <2>1. Effect(new[t]) \in Int /\ Effect(row) \in Int
    BY <1>3, EffectType
  <2> QED
    BY <1>1, <1>4, <1>6, <1>7, <2>1 DEF Part
<1> HIDE DEF paid
<1>10. Match(paid, new)
  BY <1>1, <1>2, <1>4, <1>8, <1>9, MatchReplaced DEF row
<1>11. CASE Rewards(tx)
  <2>1. /\ tx.saves = {ReferrerWallet(u)} /\ tx.changes = Change(ReferrerWallet(u), Bonus)
        /\ tx.entries = <<BonusEntry(u)>> /\ Earns(u, referral) /\ Takes(row)
    BY <1>11 DEF Rewards, Owes, row
  <2>2. /\ ReferrerWallet(u) \in Wallet /\ Bonus \in Int
    BY <1>6, <2>1, TablesOK, BonusIsNat DEF Earns, ReferrerWallet, Wallet
  <2>3. ~PaysWallet(row, tx.kind)
    BY <2>1 DEF Takes, PaysWallet
  <2>4. paid = balance
    BY <1>1, <2>3 DEF paid
  <2> DEFINE e == BonusEntry(u)
             v == ReferrerWallet(u)
  <2>5. /\ e \in Row /\ e.type = "REFERRAL_BONUS" /\ e.amount = Bonus /\ e.wallet = v
    BY <2>2, EntryType DEF BonusEntry, Types, Entry
  <2> HIDE DEF e, v
  <2>6. Effect(e) = Bonus /\ \A w : Half(e, w) = 0 /\ Lost(new, e, w) = 0
    BY <2>5, EffectOf DEF Half, Lost, Shortfall
  <2>7. \A w \in Wallet : balance'[w] - paid[w] - Part(e, w) \in -Lost(new, e, w) .. Half(e, w)
    <3> SUFFICES ASSUME NEW w \in Wallet
                 PROVE  balance'[w] - paid[w] - Part(e, w) \in -Lost(new, e, w) .. Half(e, w)
      OBVIOUS
    <3>1. Change(v, Bonus)[w] = IF w = v THEN Bonus ELSE 0
      BY DEF Change
    <3>2. balance'[w] = IF w = v THEN balance[w] + Bonus ELSE balance[w]
      BY <2>1, <3>1 DEF v
    <3>3. balance'[w] - paid[w] = IF w = v THEN Bonus ELSE 0
      BY <1>1, <2>2, <2>4, <3>2
    <3>4. Part(e, w) = IF w = v THEN Bonus ELSE 0
      BY <2>5, <2>6 DEF Part
    <3> QED
      BY <2>2, <2>6, <3>3, <3>4
  <2>8. balance' \in [Wallet -> Int]
    BY <1>1
  <2>9. Match(balance', Append(new, e))
    BY <1>2, <1>8, <1>10, <2>5, <2>7, <2>8, MatchAppended
  <2>10. Append(new, e) = rows'
    <3>1. Append(new, e) = new \o <<e>>
      BY <1>2, <2>5, AppendIsConcat
    <3> QED
      BY Zenon, <2>1, <3>1 DEF e, new
  <2> QED
    BY <2>9, <2>10
<1>12. CASE ~Rewards(tx)
  <2>1. Pays(tx) \/ Leaves(tx) \/ Switches(tx)
    BY <1>12 DEF Settling
  <2>2. tx.entries = <<>>
    BY <2>1 DEF Pays, Leaves, Switches, Untouched
  <2>3. balance' = paid
    <3>1. CASE Pays(tx)
      <4>1. /\ PaysWallet(row, tx.kind) /\ tx.saves = {row.wallet}
            /\ tx.changes = Change(row.wallet, row.amount)
        BY <3>1 DEF Pays, row
      <4>2. Change(row.wallet, row.amount)[row.wallet] = row.amount
        BY <1>6, ChangeType
      <4> QED
        BY <4>1, <4>2 DEF paid
    <3>2. CASE Leaves(tx) \/ Switches(tx)
      <4>1. tx.saves = {} /\ ~PaysWallet(row, tx.kind)
        BY <3>2 DEF Leaves, Switches, Untouched, Takes, PaysWallet, row
      <4> QED
        BY <4>1 DEF paid
    <3> QED
      BY <2>1, <3>1, <3>2
  <2>4. rows' = new
    BY <1>2, <2>2, ConcatEmptySeq DEF new
  <2> QED
    BY <1>10, <2>3, <2>4
<1> QED
  BY <1>11, <1>12

AddsNothing(row) ==
    row.type = "SUBSCRIPTION" \/ (row.type = "DEPOSIT" /\ row.status = "PENDING")

\* A request no admin has confirmed says nothing was added.
LEMMA InsertMatches ==
    ASSUME TypeOK, Match(balance, rows), NEW row \in Row, Insert(row),
           AddsNothing(row)
    PROVE  Match(balance', rows')
<1>1. balance \in [Wallet -> Int] /\ rows \in Seq(Row)
  BY DEF TypeOK
<1>2. Effect(row) = 0 /\ \A w : Half(row, w) = 0 /\ Lost(rows, row, w) = 0
  BY EffectOf DEF AddsNothing, Half, Lost, Shortfall
<1>3. \A w \in Wallet :
        balance[w] - balance[w] - Part(row, w) \in -Lost(rows, row, w) .. Half(row, w)
  BY <1>1, <1>2 DEF Part
<1>4. Match(balance, Append(rows, row))
  BY <1>1, <1>3, MatchAppended
<1> QED
  BY <1>4 DEF Insert

BalanceInv == GatedInv /\ BalancesMatchRows

LEMMA BalanceNext ==
    ASSUME Gated, BalanceInv, [Next]_vars
    PROVE  BalancesMatchRows'
<1>1. GatedInv /\ TypeOK /\ balance \in [Wallet -> Int] /\ rows \in Seq(Row)
  BY DEF BalanceInv, GatedInv, LedgerInv, TypeOK
<1>2. Match(balance, rows)
  BY MatchBalances DEF BalanceInv
<1> SUFFICES Match(balance', rows')
  BY DEF BalancesMatchRows, Match, Total
<1>3. CASE UNCHANGED <<balance, rows>>
  BY <1>2, <1>3
<1>4. ASSUME NEW p \in Handlers, Commit(p)
      PROVE  Match(balance', rows')
  <2> DEFINE tx == open[p]
  <2>1. /\ tx \in Transaction /\ tx.next = "commit"
        /\ (tx.t = 0 /\ Moving(tx)) \/ Settling(tx)
        /\ balance' = [w \in Wallet |-> IF w \in tx.saves THEN balance[w] + tx.changes[w]
                                        ELSE balance[w]]
        /\ rows' = Saved(tx) \o tx.entries
    BY <1>1, <1>4, CommitFacts DEF GatedInv, Commit
  <2> HIDE DEF tx
  <2>2. CASE tx.t = 0 /\ Moving(tx)
    <3>1. \A w \in Wallet : tx.changes[w] \in Int /\ (w \notin tx.saves => tx.changes[w] = 0)
      BY <2>1, <2>2 DEF Moving, Transaction
    <3>2. /\ balance' \in [Wallet -> Int]
          /\ \A w \in Wallet : balance'[w] = balance[w] + tx.changes[w]
      BY <1>1, <2>1, <3>1
    <3>3. rows' = rows \o tx.entries
      BY <2>1, <2>2 DEF Saved
    <3>4. Match(balance', rows \o tx.entries)
      BY <1>1, <1>2, <2>2, <3>2, MovesMatch DEF GatedInv
    <3> QED
      BY <3>3, <3>4
  <2>3. CASE Settling(tx)
    BY <1>1, <1>2, <2>1, <2>3, SettlesMatch DEF GatedInv
  <2> QED
    BY <2>1, <2>2, <2>3
<1>5. ASSUME NEW p \in Handlers, Request(p) \/ Step(p)
      PROVE  Match(balance', rows')
  <2>1. CASE Request(p)
    BY <1>1, <1>3, <2>1, RequestOnlyReads
  <2>2. CASE Step(p) /\ ~Commit(p)
    BY <1>3, <2>2 DEF Step, ReadWallet, ReadSubscription, SaveSubscription,
                      CreditReferrer, Rollback
  <2> QED
    BY <1>4, <1>5, <2>1, <2>2
<1>6. ASSUME NEW w \in Wallet, NEW amount \in Amounts, RequestDeposit(w, amount)
      PROVE  Match(balance', rows')
  <2> DEFINE row == Entry("DEPOSIT", "PENDING", w, amount)
  <2>1. amount \in Int
    BY TablesOK
  <2>2. row \in Row /\ row.type = "DEPOSIT" /\ row.status = "PENDING"
    BY <2>1, EntryType DEF Types, Entry
  <2> HIDE DEF row
  <2>3. Insert(row) /\ AddsNothing(row)
    BY <1>6, <2>2 DEF RequestDeposit, AddsNothing, row
  <2> QED
    BY <1>1, <1>2, <2>2, <2>3, InsertMatches
<1>7. ASSUME NEW u \in Users, NEW s \in Symbols, Subscribe(u, s)
      PROVE  Match(balance', rows')
  <2> DEFINE e == Entry("SUBSCRIPTION", "PENDING", <<u, s>>, Fee)
             row == SubscriptionEntry(u, s)
  <2>1. e \in Row /\ e.type = "SUBSCRIPTION"
    BY TablesOK, EntryType DEF Types, Wallet
  <2>2. row = [e EXCEPT !.sub = "PENDING"]
    BY DEF SubscriptionEntry
  <2> HIDE DEF e, row
  <2>3. row \in Row /\ row.type = "SUBSCRIPTION"
    BY <2>1, <2>2 DEF Row
  <2>4. Insert(row) /\ AddsNothing(row)
    BY <1>7, <2>3 DEF Subscribe, AddsNothing, row
  <2> QED
    BY <1>1, <1>2, <2>3, <2>4, InsertMatches
<1>8. ASSUME NEW t \in DOMAIN rows, Remove(t)
      PROVE  Match(balance', rows')
  <2> DEFINE row == [rows[t] EXCEPT !.deleted = TRUE]
  <2>1. rows[t] \in Row /\ t \in 1 .. Len(rows) /\ DOMAIN rows = 1 .. Len(rows)
    BY <1>1, LenProperties, ElementOfSeq
  <2>2. /\ row \in Row /\ row.type = rows[t].type /\ row.wallet = rows[t].wallet
        /\ row.status = rows[t].status /\ row.amount = rows[t].amount
    BY <2>1 DEF Row
  <2>3. rows' = [rows EXCEPT ![t] = row] /\ UNCHANGED balance
    BY <1>8 DEF Remove
  <2> HIDE DEF row
  <2>4. Effect(row) = Effect(rows[t])
    BY <2>1, <2>2, EffectOf DEF Row, Types
  <2>5. \A w \in Wallet : balance[w] - balance[w] = Part(row, w) - Part(rows[t], w)
    <3>1. Effect(row) \in Int
      BY <2>2, EffectType
    <3> QED
      BY <1>1, <2>2, <2>4, <3>1 DEF Part
  <2>6. /\ rows' \in Seq(Row) /\ Len(rows') = Len(rows)
        /\ \A n \in 1 .. Len(rows) : rows'[n] = IF n = t THEN row ELSE rows[n]
    BY <1>1, <2>1, <2>2, <2>3, ExceptSeq
  <2>7. DOMAIN rows' = DOMAIN rows
    BY <2>3
  <2> DEFINE new == rows'
  <2>8. /\ new \in Seq(Row) /\ DOMAIN new = DOMAIN rows /\ new[t] = row
        /\ \A n \in DOMAIN rows : n # t => new[n] = rows[n]
    BY <2>1, <2>6, <2>7
  <2> HIDE DEF new
  <2>9. Match(balance, new)
    BY <1>1, <1>2, <2>2, <2>5, <2>8, MatchReplaced
  <2> QED
    BY <2>3, <2>9 DEF new
<1> QED
  BY <1>3, <1>5, <1>6, <1>7, <1>8 DEF Next, vars

-----------------------------------------------------------------------------
(* The theorems.                                                           *)

LEMMA GatedInit == Init => GatedInv
<1> SUFFICES ASSUME Init PROVE GatedInv
  OBVIOUS
<1>1. LedgerInv
  BY LedgerInit
<1>2. AllFaithful
  BY NoneIsFaithful DEF Init, AllFaithful
<1>3. PaymentsMatchSubscriptions
  BY EmptySeq DEF Init, PaymentsMatchSubscriptions
<1> QED
  BY <1>1, <1>2, <1>3 DEF GatedInv

LEMMA GatedNext == ASSUME Gated PROVE GatedInv /\ [Next]_vars => GatedInv'
BY LedgerNext, FaithNext, RowsNext DEF GatedInv, RowsFollow

\* Behind the gate the handlers of wallets.service.ts, transactions.service.ts
\* and subscriptions.service.ts happen as a whole, though each reads, checks
\* and saves in statements of its own: Ledger implements AtomicLedger.
THEOREM HandlersActAtOnce == ASSUME Gated PROVE Spec => HandlersAreAtomic
<1>1. Init => GatedInv
  BY GatedInit
<1>2. GatedInv /\ [Next]_vars => GatedInv'
  BY GatedNext
<1>3. Init => Atomic!Init
  BY DEF Init, Atomic!Init
<1>4. GatedInv /\ [Next]_vars => [Atomic!Next]_(Atomic!vars)
  BY StepIsAtomic DEF GatedInv
<1> QED
  BY <1>1, <1>2, <1>3, <1>4, PTL DEF Spec, HandlersAreAtomic, Atomic!Spec

\* Behind the gate confirm and reject settle a row once: "Only pending
\* transactions can be confirmed", which the unlocked check does not give alone.
THEOREM SettledOnce == ASSUME Gated PROVE Spec => SettledIsFinal
<1>1. Init => GatedInv
  BY GatedInit
<1>2. GatedInv /\ [Next]_vars => GatedInv'
  BY GatedNext
<1>3. GatedInv /\ [Next]_vars =>
        [\A t \in DOMAIN rows :
            rows[t].status # "PENDING" => rows'[t].status = rows[t].status]_vars
  BY RowsNext DEF RowsFollow
<1> QED
  BY <1>1, <1>2, <1>3, PTL DEF Spec, SettledIsFinal

\* Behind the gate a payment and the subscription it is for are settled
\* together, by confirm and by reject, and never by halves.
THEOREM PaymentsFollowed == ASSUME Gated PROVE Spec => []PaymentsMatchSubscriptions
<1>1. Init => GatedInv
  BY GatedInit
<1>2. GatedInv /\ [Next]_vars => GatedInv'
  BY GatedNext
<1>3. GatedInv => PaymentsMatchSubscriptions
  BY DEF GatedInv
<1> QED
  BY <1>1, <1>2, <1>3, PTL DEF Spec

\* Behind the gate a referrer is paid one bonus for each referral marked as
\* paid, though maybeCreditReferralBonus looks at the mark in one statement and
\* sets it in a later one.
THEOREM OneBonusPerReferral == ASSUME Gated PROVE Spec => []BonusesMatchReferrals
<1>1. Init => BonusInv
  <2> SUFFICES ASSUME Init PROVE BonusInv
    OBVIOUS
  <2>1. GatedInv /\ rows = <<>> /\ referral = {}
    BY GatedInit DEF Init
  <2>2. \A r : Bonuses(rows, r) = {} /\ Paid(r) = {}
    BY <2>1 DEF Bonuses, Paid
  <2>3. BonusesMatchReferrals
    BY <2>2, MatchBonuses
  <2> QED
    BY <2>1, <2>3, FS_EmptySet DEF BonusInv
<1>2. BonusInv /\ [Next]_vars => BonusInv'
  BY BonusNext
<1>3. BonusInv => BonusesMatchReferrals
  BY DEF BonusInv
<1> QED
  BY <1>1, <1>2, <1>3, PTL DEF Spec

\* Behind the gate no update of a wallet is lost, doubled or left out, though a
\* handler reads a balance, checks it and saves the sum in three statements:
\* every balance is what the rows of its wallet add up to, but for the half
\* unit a row and the balance may round apart.
THEOREM BalancesAddUp == ASSUME Gated PROVE Spec => []BalancesMatchRows
<1>1. Init => BalanceInv
  <2> SUFFICES ASSUME Init PROVE BalanceInv
    OBVIOUS
  <2>1. balance = Opening /\ DOMAIN rows = {} /\ rows = <<>>
    BY EmptySeq DEF Init
  <2>2. ASSUME NEW w \in Wallet
        PROVE  balance[w] - Opening[w] - SumFunctionOnSet(Booked(rows, w), DOMAIN rows)
                   \in -Cardinality(LosesHalf(rows, w)) .. Cardinality(KeepsHalf(rows, w))
    <3>1. KeepsHalf(rows, w) = {} /\ LosesHalf(rows, w) = {}
      BY <2>1 DEF KeepsHalf, LosesHalf
    <3>2. SumFunctionOnSet(Booked(rows, w), DOMAIN rows) = 0
      BY <2>1, SumEmpty
    <3>3. Cardinality(KeepsHalf(rows, w)) = 0 /\ Cardinality(LosesHalf(rows, w)) = 0
      BY <3>1, FS_EmptySet
    <3>4. balance[w] = Opening[w] /\ Opening[w] \in Int
      BY <2>1, TablesOK DEF Wallet
    <3> QED
      BY <3>2, <3>3, <3>4
  <2>3. BalancesMatchRows
    BY <2>2 DEF BalancesMatchRows
  <2> QED
    BY <2>3, GatedInit DEF BalanceInv
<1>2. BalanceInv /\ [Next]_vars => BalanceInv'
  BY GatedNext, BalanceNext DEF BalanceInv
<1>3. BalanceInv => BalancesMatchRows
  BY DEF BalanceInv
<1> QED
  BY <1>1, <1>2, <1>3, PTL DEF Spec

=============================================================================
