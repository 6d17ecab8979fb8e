---------------------------- MODULE AtomicLedger ----------------------------
(***************************************************************************)
(* What the handlers of wallets.service.ts, transactions.service.ts and    *)
(* subscriptions.service.ts promise together: each of them happens as a    *)
(* whole, at one moment, on the tables as they are at that moment.         *)
(***************************************************************************)
EXTENDS LedgerTables

VARIABLES
    balance,  \* the wallets table
    rows,     \* the transactions table, in the order of insertion
    referral  \* users whose Referral row has a triggerEvent

vars == <<balance, rows, referral>>

Init ==
    /\ balance = Opening
    /\ rows = <<>>
    /\ referral = {}

\* Books entries and changes the balances they are about.
Post(change, entries) ==
    /\ balance' = [w \in Wallet |-> balance[w] + change[w]]
    /\ rows' = rows \o entries
    /\ UNCHANGED referral

RequestDeposit(w, amount) ==
    /\ rows' = Append(rows, Entry("DEPOSIT", "PENDING", w, amount))
    /\ UNCHANGED <<balance, referral>>

Subscribe(u, s) ==
    /\ rows' = Append(rows, SubscriptionEntry(u, s))
    /\ UNCHANGED <<balance, referral>>

RequestWithdrawal(w, amount, status) ==
    /\ balance[w] >= amount
    /\ Post(Change(w, -amount), <<Entry("WITHDRAWAL", status, w, amount)>>)

Transfer(w, v, amount, a, b) ==
    /\ balance[w] >= amount
    /\ Post(TransferChange(w, v, amount, Gained(balance[v], amount * a, b)),
            TransferEntries(w, v, amount, Converted(amount, a, b)))

Adjust(w, amount) ==
    /\ balance[w] + amount >= 0
    /\ Post(Change(w, amount), <<Entry("ADJUSTMENT", "COMPLETED", w, amount)>>)

Debit(w, usd, rate) ==
    /\ balance[w] * rate >= usd
    /\ Post(Change(w, Gained(balance[w], -usd, rate)),
            <<Entry("DEBIT", "COMPLETED", w, Tokens(usd, rate))>>)

\* Of any sign, whatever the wallet holds.
Credit(w, usd, rate) ==
    Post(Change(w, Gained(balance[w], usd, rate)),
         <<Entry("CREDIT", "COMPLETED", w, Tokens(usd, rate))>>)

Settle(verdict, t) ==
    LET row   == rows[t]
        u     == row.wallet[1]
        takes == row.type = "SUBSCRIPTION" /\ row.sub = "PENDING"
        earns == takes /\ verdict = "confirm" /\ Earns(u, referral)
    IN
    /\ row.status = "PENDING" /\ ~row.deleted
    /\ balance' =
         IF PaysWallet(row, verdict) THEN [balance EXCEPT ![row.wallet] = @ + row.amount]
         ELSE IF earns THEN [balance EXCEPT ![ReferrerWallet(u)] = @ + Bonus]
         ELSE balance
    /\ rows' = [rows EXCEPT ![t].status = TxStatus(verdict),
                            ![t].sub = IF takes THEN SubStatus(verdict) ELSE @]
               \o (IF earns THEN <<BonusEntry(u)>> ELSE <<>>)
    /\ referral' = IF earns THEN referral \cup {u} ELSE referral

Remove(t) ==
    /\ ~rows[t].deleted
    /\ rows' = [rows EXCEPT ![t].deleted = TRUE]
    /\ UNCHANGED <<balance, referral>>

Next ==
    \/ \E w \in Wallet, amount \in Amounts :
         \/ RequestDeposit(w, amount)
         \/ \E status \in {"PENDING", "COMPLETED"} : RequestWithdrawal(w, amount, status)
         \/ \E v \in Wallet \ {w}, a \in Rates[w[2]] : \E b \in Rates[v[2]] :
              v[1] = w[1] /\ Transfer(w, v, amount, a, b)
         \/ \E rate \in Rates[w[2]] : Debit(w, amount, rate)
    \/ \E w \in Wallet, usd \in Payouts : \E rate \in Rates[w[2]] : Credit(w, usd, rate)
    \/ \E w \in Wallet, amount \in Adjustments : Adjust(w, amount)
    \/ \E u \in Users, s \in Symbols : Subscribe(u, s)
    \/ \E t \in DOMAIN rows :
         \/ \E verdict \in Verdicts : Settle(verdict, t)
         \/ Remove(t)

Spec == Init /\ [][Next]_vars

=============================================================================
