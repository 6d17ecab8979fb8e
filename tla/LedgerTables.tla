---------------------------- MODULE LedgerTables ----------------------------
(***************************************************************************)
(* The rows the money of src/backend is kept in: wallets, transactions,    *)
(* subscriptions and referrals, and what each operation of                 *)
(* wallets.service.ts, transactions.service.ts and                         *)
(* subscriptions.service.ts means for them.                                *)
(*                                                                         *)
(* A wallet is a user and a symbol.  getOrCreateWallet makes the row when  *)
(* it is first needed; a wallet without a row counts here as one that      *)
(* holds nothing, which no handler tells apart once the asset is enabled.  *)
(* Amounts are whole numbers of the smallest unit (8 decimals).            *)
(***************************************************************************)
EXTENDS Integers, Sequences

CONSTANTS
    Users,
    Symbols,       \* enabled assets
    Fiat,          \* fiat_usd: bonuses are paid there
    NoUser,        \* the referrer of a user nobody referred
    Referrer,      \* the referrals table: who referred a user
    Opening,       \* balances when the history begins, its rows deleted since
    Rates,         \* the prices an asset may have, in USD per unit
    Amounts,       \* amounts of a token, or of USD, within the limits of the settings
    Payouts,       \* USD to credit: below zero when manual accruals took lockedAmount there
    Adjustments,   \* amounts admins adjust by
    Fee,           \* feePaidUsd of a subscription
    BonusPercent   \* setting referral_bonus_percent

ASSUME TablesOK ==
    /\ Fiat \in Symbols
    /\ Opening \in [Users \X Symbols -> Nat]
    /\ NoUser \notin Users
    /\ Referrer \in [Users -> Users \cup {NoUser}]
    /\ \A u \in Users : Referrer[u] # u
    /\ Rates \in [Symbols -> SUBSET (Nat \ {0})]
    /\ Amounts \subseteq Nat \ {0}
    /\ Payouts \subseteq Int
    /\ Adjustments \subseteq Int \ {0}
    /\ Fee \in Nat /\ BonusPercent \in Nat

Wallet == Users \X Symbols

-----------------------------------------------------------------------------
(* Rows of the transactions table, with the subscription they pay for.     *)

Types == {"DEPOSIT", "WITHDRAWAL", "SUBSCRIPTION", "TRANSFER_OUT",
          "TRANSFER_IN", "ADJUSTMENT", "DEBIT", "CREDIT", "REFERRAL_BONUS"}

\* sub is the status of the related subscription; deleted rows are history.
Row == [type : Types, status : {"PENDING", "COMPLETED", "CANCELLED"},
        wallet : Wallet, amount : Int,
        sub : {"NONE", "PENDING", "ACTIVE", "CANCELLED"}, deleted : BOOLEAN]

Entry(type, status, w, amount) ==
    [type |-> type, status |-> status, wallet |-> w, amount |-> amount,
     sub |-> "NONE", deleted |-> FALSE]

\* subscribe() quotes a fee; nothing is debited.
SubscriptionEntry(u, s) ==
    [Entry("SUBSCRIPTION", "PENDING", <<u, s>>, Fee) EXCEPT !.sub = "PENDING"]

TransferEntries(w, v, amount, credit) ==
    << Entry("TRANSFER_OUT", "COMPLETED", w, amount),
       Entry("TRANSFER_IN", "COMPLETED", v, credit) >>

-----------------------------------------------------------------------------
(* What an operation adds to the wallets it touches.                       *)

Change(w, amount) == [x \in Wallet |-> IF x = w THEN amount ELSE 0]

TransferChange(w, v, amount, gain) ==
    [x \in Wallet |-> IF x = w THEN -amount ELSE IF x = v THEN gain ELSE 0]

\* n / d in toFixed(8): half a unit is rounded away from zero.
Rounded(n, d) == IF n >= 0 THEN (2 * n + d) \div (2 * d)
                 ELSE -((d - 2 * n) \div (2 * d))

\* A row keeps the amount in its token, rounded.
Converted(amount, fromRate, toRate) == Rounded(amount * fromRate, toRate)
Tokens(usd, rate) == Rounded(usd, rate)

\* A wallet keeps balance.plus(n / d), rounded: what that adds to it.
Gained(held, n, d) == Rounded(held * d + n, d) - held

Verdicts == {"confirm", "reject"}

\* Confirming a deposit credits it; rejecting a withdrawal refunds it.
PaysWallet(row, verdict) ==
    <<row.type, verdict>> \in {<<"DEPOSIT", "confirm">>, <<"WITHDRAWAL", "reject">>}

\* Mutant of TxStatus: the retired status, which "no code should write".
TxRejected(verdict) == IF verdict = "confirm" THEN "COMPLETED" ELSE "REJECTED"

TxStatus(verdict)  == IF verdict = "confirm" THEN "COMPLETED" ELSE "CANCELLED"
SubStatus(verdict) == IF verdict = "confirm" THEN "ACTIVE" ELSE "CANCELLED"

-----------------------------------------------------------------------------
(* maybeCreditReferralBonus.                                               *)

Bonus == Converted(Fee, BonusPercent, 100)

\* Whether u's subscription earns a bonus, if these referrals were paid.
Earns(u, paid) == Referrer[u] # NoUser /\ u \notin paid /\ Fee * BonusPercent > 0

ReferrerWallet(u) == <<Referrer[u], Fiat>>

BonusEntry(u) == Entry("REFERRAL_BONUS", "COMPLETED", ReferrerWallet(u), Bonus)

=============================================================================
