---------------------------- MODULE LedgerProofs ----------------------------
(* What holds of Ledger for every value of its constants: on both          *)
(* databases, or behind the gate where a theorem assumes Gated.            *)
EXTENDS Ledger, SequenceTheorems, SumTheorems, TLAPS

-----------------------------------------------------------------------------
(* Lemmas about the operators of LedgerTables.                             *)

\* toFixed(8), where n / d is not negative and where it is.
LEMMA RoundedUp ==
    ASSUME NEW n \in Int, NEW d \in Nat \ {0}, n >= 0
    PROVE  /\ Rounded(n, d) \in Nat
           /\ 2 * d * Rounded(n, d) <= 2 * n + d
           /\ 2 * n + d < 2 * d * Rounded(n, d) + 2 * d
<1>1. PICK e \in Nat \ {0} : e = 2 * d
  OBVIOUS
<1>2. PICK m \in Nat : m = 2 * n + d
  OBVIOUS
<1>3. m \div e \in Nat /\ e * (m \div e) <= m /\ m < e * (m \div e) + e
  OBVIOUS
<1>4. Rounded(n, d) = m \div e
  BY <1>1, <1>2 DEF Rounded
<1> QED
  BY <1>1, <1>2, <1>3, <1>4

LEMMA RoundedDown ==
    ASSUME NEW n \in Int, NEW d \in Nat \ {0}, n < 0
    PROVE  /\ Rounded(n, d) \in Int /\ Rounded(n, d) <= 0
           /\ 2 * d * Rounded(n, d) >= 2 * n - d
           /\ 2 * n - d > 2 * d * Rounded(n, d) - 2 * d
<1>1. PICK e \in Nat \ {0} : e = 2 * d
  OBVIOUS
<1>2. PICK m \in Nat : m = d - 2 * n
  OBVIOUS
<1> DEFINE q == m \div e
<1>3. q \in Nat /\ e * q <= m /\ m < e * q + e
  OBVIOUS
<1>4. Rounded(n, d) = -q
  BY <1>1, <1>2 DEF Rounded
<1> HIDE DEF q
<1>5. e * (-q) = -(e * q) /\ e * q \in Int
  BY <1>3
<1>6. Rounded(n, d) \in Int /\ Rounded(n, d) <= 0
  BY <1>3, <1>4
<1>7. e * Rounded(n, d) = -(e * q)
  BY <1>4, <1>5
<1>8. e * Rounded(n, d) >= -m /\ -m > e * Rounded(n, d) - e
  BY <1>3, <1>5, <1>7
<1> QED
  BY <1>1, <1>2, <1>6, <1>8

LEMMA RoundedType ==
    ASSUME NEW n \in Int, NEW d \in Nat \ {0}
    PROVE  Rounded(n, d) \in Int
BY RoundedUp, RoundedDown

\* A number between whole numbers that are less than one apart from k.
LEMMA Between ==
    ASSUME NEW e \in Nat \ {0}, NEW k \in Int, NEW c \in Int, e * k < e * c + e
    PROVE  k <= c
<1> SUFFICES ASSUME k >= c + 1 PROVE FALSE
  OBVIOUS
<1>1. PICK m \in Nat : k = c + 1 + m
  <2>1. k - (c + 1) \in Nat /\ k = c + 1 + (k - (c + 1))
    OBVIOUS
  <2> QED
    BY <2>1
<1>2. e * k = e * c + e + e * m /\ e * m \in Nat /\ e * c \in Int
  BY <1>1
<1> QED
  BY <1>2

\* What a wallet that holds x gains by n / d differs from the row's n / d by at
\* most the one unit to which half a unit is rounded, and has its sign.
LEMMA GainedIs ==
    ASSUME NEW x \in Int, NEW n \in Int, NEW d \in Nat \ {0}
    PROVE  /\ Gained(x, n, d) \in Int
           /\ x + Gained(x, n, d) = Rounded(x * d + n, d)
           /\ n >= 0 => Gained(x, n, d) >= 0
           /\ Gained(x, n, d) - Rounded(n, d) <= IF n < 0 THEN 1 ELSE 0
           /\ Gained(x, n, d) - Rounded(n, d) >= IF n >= 0 /\ x < 0 THEN -1 ELSE 0
           /\ n < 0 /\ Rounded(n, d) = 0 => Gained(x, n, d) <= 0
<1> DEFINE e == 2 * d
           r == Rounded(n, d)
           s == Rounded(x * d + n, d)
           k == s - x - r
<1>1. e \in Nat \ {0} /\ x * d \in Int /\ x * d + n \in Int
  OBVIOUS
<1>2. r \in Int /\ s \in Int
  BY <1>1, RoundedType
<1>3. k \in Int /\ Gained(x, n, d) = s - x /\ Gained(x, n, d) - r = k
  BY <1>2 DEF Gained
<1>4. /\ n >= 0 => r >= 0 /\ e * r <= 2 * n + d /\ 2 * n + d < e * r + e
      /\ n < 0 => r <= 0 /\ e * r >= 2 * n - d /\ 2 * n - d > e * r - e
  BY RoundedUp, RoundedDown
<1>5. /\ x * d + n >= 0 => /\ e * s <= 2 * (x * d) + 2 * n + d
                           /\ 2 * (x * d) + 2 * n + d < e * s + e
      /\ x * d + n < 0 => /\ e * s >= 2 * (x * d) + 2 * n - d
                          /\ 2 * (x * d) + 2 * n - d > e * s - e
  <2> DEFINE m == x * d + n
  <2>1. /\ m >= 0 => e * s <= 2 * m + d /\ 2 * m + d < e * s + e
        /\ m < 0 => e * s >= 2 * m - d /\ 2 * m - d > e * s - e
    BY <1>1, RoundedUp, RoundedDown
  <2>2. 2 * m = 2 * (x * d) + 2 * n
    BY <1>1
  <2> QED
    BY <2>1, <2>2
<1>6. e * x = 2 * (x * d)
  BY <1>1
<1>7. x >= 0 => x * d >= 0
  OBVIOUS
<1> HIDE DEF r, s
<1>8. /\ e * k = e * s - e * x - e * r
      /\ e * s \in Int /\ e * x \in Int /\ e * r \in Int
      /\ e * (-k) = -(e * k) /\ e * (-1) = -e /\ e * 0 = 0 /\ e * 1 = e
      /\ e * (x - s) = e * x - e * s
  BY <1>1, <1>2
<1> DEFINE xd == x * d
           es == e * s
           er == e * r
           ek == e * k
<1>9. /\ xd \in Int /\ es \in Int /\ er \in Int /\ ek \in Int /\ d \in Int
      /\ ek = es - 2 * xd - er /\ e = 2 * d
      /\ n >= 0 => er <= 2 * n + d /\ 2 * n + d < er + e
      /\ n < 0 => er >= 2 * n - d /\ 2 * n - d > er - e
      /\ xd + n >= 0 => es <= 2 * xd + 2 * n + d /\ 2 * xd + 2 * n + d < es + e
      /\ xd + n < 0 => es >= 2 * xd + 2 * n - d /\ 2 * xd + 2 * n - d > es - e
      /\ x >= 0 => xd >= 0
  BY <1>1, <1>2, <1>3, <1>4, <1>5, <1>6, <1>7, <1>8
<1> HIDE DEF xd, es, er, ek, k, e
<1>10. n >= 0 => s >= x
  <2> SUFFICES ASSUME n >= 0 PROVE x - s <= 0
    BY <1>2
  <2>1. 2 * xd - es < 0 + e
    BY <1>9
  <2>2. e * (x - s) < e * 0 + e
    BY <1>6, <1>8, <2>1 DEF xd, es
  <2> QED
    BY <1>1, <1>2, <2>2, Between
<1>11. k <= IF n < 0 THEN 1 ELSE 0
  <2>1. n >= 0 => ek < 0 + e
    BY <1>9
  <2>2. n < 0 => ek < e + e
    BY <1>9
  <2>3. n >= 0 => e * k < e * 0 + e
    BY <1>8, <2>1 DEF ek
  <2>4. n < 0 => e * k < e * 1 + e
    BY <1>8, <2>2 DEF ek
  <2> QED
    BY <1>1, <1>3, <2>3, <2>4, Between
<1>12. k >= IF n >= 0 /\ x < 0 THEN -1 ELSE 0
  <2>1. n >= 0 /\ x < 0 => -ek < e + e
    BY <1>9
  <2>2. ~(n >= 0 /\ x < 0) => -ek < 0 + e
    BY <1>9
  <2>3. n >= 0 /\ x < 0 => e * (-k) < e * 1 + e
    BY <1>8, <2>1 DEF ek
  <2>4. ~(n >= 0 /\ x < 0) => e * (-k) < e * 0 + e
    BY <1>8, <2>2 DEF ek
  <2>5. n >= 0 /\ x < 0 => -k <= 1
    BY <1>1, <1>3, <2>3, Between
  <2>6. ~(n >= 0 /\ x < 0) => -k <= 0
    BY <1>1, <1>3, <2>4, Between
  <2> QED
    BY <1>3, <2>5, <2>6
<1>13. s - x \in Int /\ (n >= 0 => s - x >= 0)
  BY <1>2, <1>10
<1>14. x + Gained(x, n, d) = s
  BY <1>2, <1>3
<1>15. n < 0 /\ r = 0 => k <= 0
  <2> SUFFICES ASSUME n < 0, r = 0 PROVE k <= 0
    OBVIOUS
  <2>1. er = 0
    BY <1>8 DEF er
  <2>2. ek < 0 + e
    BY <1>9, <2>1
  <2>3. e * k < e * 0 + e
    BY <1>8, <2>2 DEF ek
  <2> QED
    BY <1>1, <1>3, <2>3, Between
<1>16. n < 0 /\ r = 0 => s - x <= 0
  BY <1>2, <1>15 DEF k
<1> QED
  BY <1>3, <1>11, <1>12, <1>13, <1>14, <1>16 DEF r, s

\* A debit that the balance covers leaves it covered.
LEMMA DebitCovered ==
    ASSUME NEW x \in Int, NEW usd \in Int, NEW rate \in Nat \ {0}, x * rate >= usd
    PROVE  Gained(x, -usd, rate) \in Int /\ x + Gained(x, -usd, rate) >= 0
<1>1. PICK n \in Int : n = -usd
  OBVIOUS
<1>2. PICK m \in Nat : m = x * rate + n
  BY <1>1
<1>3. Rounded(m, rate) \in Nat
  BY RoundedUp
<1>4. Gained(x, n, rate) \in Int /\ x + Gained(x, n, rate) = Rounded(x * rate + n, rate)
  BY GainedIs
<1> QED
  BY <1>1, <1>2, <1>3, <1>4

LEMMA GainedFromMore ==
    ASSUME NEW x \in Int, NEW n \in Nat, NEW d \in Nat \ {0}
    PROVE  Gained(x, n, d) \in Int /\ Gained(x, n, d) >= 0
<1>1. n \in Int /\ n >= 0
  OBVIOUS
<1> QED
  BY <1>1, GainedIs

\* A credit takes no more than its row says, and adds when that is not negative.
LEMMA CreditBooked ==
    ASSUME NEW x \in Int, NEW usd \in Int, NEW rate \in Nat \ {0}
    PROVE  /\ Gained(x, usd, rate) \in Int /\ Tokens(usd, rate) \in Int
           /\ Tokens(usd, rate) < 0 => Gained(x, usd, rate) >= Tokens(usd, rate)
           /\ Tokens(usd, rate) >= 0 => Gained(x, usd, rate) >= 0
<1> DEFINE g == Gained(x, usd, rate)
           t == Tokens(usd, rate)
<1>1. g \in Int /\ t \in Int
  BY GainedIs, RoundedType DEF Tokens
<1>2. /\ usd >= 0 => g >= 0
      /\ g - t >= IF usd >= 0 /\ x < 0 THEN -1 ELSE 0
  BY GainedIs DEF Tokens
<1>3. (usd < 0 => t <= 0) /\ (usd >= 0 => t >= 0)
  BY RoundedUp, RoundedDown DEF Tokens
<1> HIDE DEF g, t
<1>4. (t < 0 => g >= t) /\ (t >= 0 => g >= 0)
  BY <1>1, <1>2, <1>3
<1> QED
  BY <1>1, <1>4 DEF g, t

LEMMA ConvertedIsNat ==
    ASSUME NEW amount \in Nat, NEW a \in Nat \ {0}, NEW b \in Nat \ {0}
    PROVE  amount * a \in Nat /\ Converted(amount, a, b) \in Nat
<1>1. PICK n \in Nat : n = amount * a
  OBVIOUS
<1> QED
  BY <1>1, RoundedUp DEF Converted

LEMMA BonusIsNat == Bonus \in Nat
<1>1. CASE BonusPercent = 0
  <2>1. Fee * BonusPercent = 0 /\ 100 \in Nat \ {0}
    BY <1>1, TablesOK
  <2> QED
    BY <2>1, RoundedUp DEF Bonus, Converted
<1>2. CASE BonusPercent # 0
  BY <1>2, TablesOK, ConvertedIsNat DEF Bonus
<1> QED
  BY <1>1, <1>2

LEMMA ChangeType ==
    ASSUME NEW w \in Wallet, NEW amount \in Int
    PROVE  /\ Change(w, amount) \in [Wallet -> Int]
           /\ Change(w, amount)[w] = amount
           /\ \A x \in Wallet : x # w => Change(w, amount)[x] = 0
BY DEF Change

LEMMA TransferChangeType ==
    ASSUME NEW w \in Wallet, NEW v \in Wallet, v # w,
           NEW amount \in Int, NEW credit \in Int
    PROVE  /\ TransferChange(w, v, amount, credit) \in [Wallet -> Int]
           /\ TransferChange(w, v, amount, credit)[w] = -amount
           /\ TransferChange(w, v, amount, credit)[v] = credit
           /\ \A x \in Wallet : x \notin {w, v} =>
                TransferChange(w, v, amount, credit)[x] = 0
BY DEF TransferChange

\* Rows that may be paid later have an amount that is not negative.
Payable(row) == row.type \in {"DEPOSIT", "WITHDRAWAL"} => row.amount >= 0

LEMMA EntryType ==
    ASSUME NEW type \in Types, NEW status \in {"PENDING", "COMPLETED", "CANCELLED"},
           NEW w \in Wallet, NEW amount \in Int
    PROVE  /\ Entry(type, status, w, amount) \in Row
           /\ Entry(type, status, w, amount).type = type
           /\ Entry(type, status, w, amount).amount = amount
BY DEF Entry, Row

\* Saving row t as tx does keeps the table a table, and every amount and type.
LEMMA SavedType ==
    ASSUME NEW tx \in Transaction, rows \in Seq(Row),
           tx.t # 0 => tx.t \in DOMAIN rows /\ tx.kind \in Verdicts
    PROVE  /\ Saved(tx) \in Seq(Row)
           /\ DOMAIN Saved(tx) = DOMAIN rows
           /\ \A t \in DOMAIN rows : /\ Saved(tx)[t].type = rows[t].type
                                     /\ Saved(tx)[t].wallet = rows[t].wallet
                                     /\ Saved(tx)[t].amount = rows[t].amount
<1>1. CASE tx.t = 0
  BY <1>1 DEF Saved
<1>2. CASE tx.t # 0
  <2> DEFINE t   == tx.t
             row == [rows[t] EXCEPT !.status = TxStatus(tx.kind),
                                    !.sub = IF tx.holds THEN SubStatus(tx.kind) ELSE @,
                                    !.deleted = FALSE]
  <2>1. t \in 1 .. Len(rows) /\ rows[t] \in Row
    BY <1>2, LenProperties, ElementOfSeq
  <2>2. /\ row \in Row
        /\ row.type = rows[t].type /\ row.wallet = rows[t].wallet
        /\ row.amount = rows[t].amount
    BY <1>2, <2>1 DEF Row, TxStatus, SubStatus, Verdicts
  <2>3. Saved(tx) = [rows EXCEPT ![t] = row]
    BY <1>2, <2>1, LenProperties DEF Saved, Row
  <2> HIDE DEF row, t
  <2>4. /\ Saved(tx) \in Seq(Row)
        /\ Len(Saved(tx)) = Len(rows)
        /\ \A n \in 1 .. Len(rows) : Saved(tx)[n] = IF n = t THEN row ELSE rows[n]
    BY <2>1, <2>2, <2>3, ExceptSeq
  <2>5. DOMAIN rows = 1 .. Len(rows) /\ DOMAIN Saved(tx) = 1 .. Len(Saved(tx))
    BY <2>4, LenProperties
  <2> QED
    BY <2>2, <2>4, <2>5
<1> QED
  BY <1>1, <1>2

-----------------------------------------------------------------------------
(* A request that moves money begins a transaction with a plan like this.  *)

Planned(kind, w, saves, change, entries) ==
    /\ kind \in Moves
    /\ saves \in SUBSET Wallet /\ w \in saves
    /\ change \in [Wallet -> Int]
    /\ \A x \in saves \ {w} : kind = "transfer" /\ change[x] >= 0
    /\ entries \in Seq(Row)
    /\ \A n \in DOMAIN entries : Payable(entries[n])
    /\ \/ /\ kind # "credit"
          /\ balance[w] + change[w] >= 0
          /\ \A n \in DOMAIN entries : entries[n].type # "CREDIT"
       \/ /\ kind = "credit" /\ saves = {w}
          /\ \E row \in Row : entries = <<row>> /\ change[w] >= Shortfall(row, w)

\* A request with one entry that compares the balance first, as all but a
\* credit do.
LEMMA OneEntryPlanned ==
    ASSUME NEW kind \in Moves, kind # "credit", NEW w \in Wallet, NEW amount \in Int,
           NEW row \in Row, Payable(row), row.type # "CREDIT",
           balance[w] + amount >= 0
    PROVE  Planned(kind, w, {w}, Change(w, amount), <<row>>)
<1> DEFINE entries == <<row>>
<1>1. /\ entries \in Seq(Row)
      /\ \A n \in DOMAIN entries : Payable(entries[n]) /\ entries[n].type # "CREDIT"
  OBVIOUS
<1> HIDE DEF entries
<1>2. Planned(kind, w, {w}, Change(w, amount), entries)
  BY <1>1, ChangeType DEF Planned
<1> QED
  BY <1>2 DEF entries

LEMMA CreditPlanned ==
    ASSUME NEW w \in Wallet, NEW amount \in Int, NEW row \in Row, row.type = "CREDIT",
           amount >= Shortfall(row, w)
    PROVE  Planned("credit", w, {w}, Change(w, amount), <<row>>)
<1> DEFINE entries == <<row>>
<1>1. /\ entries \in Seq(Row)
      /\ \A n \in DOMAIN entries : Payable(entries[n])
      /\ \E r \in Row : entries = <<r>> /\ amount >= Shortfall(r, w)
  BY DEF Payable
<1> HIDE DEF entries
<1>2. Planned("credit", w, {w}, Change(w, amount), entries)
  BY <1>1, ChangeType DEF Planned, Moves
<1> QED
  BY <1>2 DEF entries

LEMMA RequestPlan ==
    ASSUME TypeOK, NEW p \in Handlers, Request(p)
    PROVE  \/ \E kind, w, saves, change, entries :
                /\ Planned(kind, w, saves, change, entries)
                /\ BeginMove(p, kind, w, saves, change, entries)
           \/ \E t \in DOMAIN rows, verdict \in Verdicts : Settle(p, verdict, t)
<1>0. \A w \in Wallet : balance[w] \in Int
  BY DEF TypeOK
<1>1. ASSUME NEW w \in Wallet, NEW amount \in Amounts,
             NEW status \in {"PENDING", "COMPLETED"},
             RequestWithdrawal(p, w, amount, status)
      PROVE  \E kind, u, saves, change, entries :
                /\ Planned(kind, u, saves, change, entries)
                /\ BeginMove(p, kind, u, saves, change, entries)
  <2>1. amount \in Nat /\ -amount \in Int
    BY TablesOK
  <2> DEFINE row == Entry("WITHDRAWAL", status, w, amount)
  <2>2. row \in Row /\ Payable(row) /\ row.type # "CREDIT"
    BY <2>1, EntryType DEF Types, Payable
  <2>3. balance[w] + (-amount) >= 0
    BY <1>0, <1>1, <2>1 DEF RequestWithdrawal, Covers
  <2>4. Planned("withdraw", w, {w}, Change(w, -amount), <<row>>)
    BY <2>1, <2>2, <2>3, OneEntryPlanned DEF Moves
  <2> QED
    BY <1>1, <2>4 DEF RequestWithdrawal
<1>2. ASSUME NEW w \in Wallet, NEW amount \in Amounts, NEW v \in Wallet \ {w},
             NEW a \in Rates[w[2]], NEW b \in Rates[v[2]],
             Transfer(p, w, v, amount, a, b)
      PROVE  \E kind, u, saves, change, entries :
                /\ Planned(kind, u, saves, change, entries)
                /\ BeginMove(p, kind, u, saves, change, entries)
  <2> DEFINE credit == Converted(amount, a, b)
             gain == Gained(balance[v], amount * a, b)
             out == Entry("TRANSFER_OUT", "COMPLETED", w, amount)
             inn == Entry("TRANSFER_IN", "COMPLETED", v, credit)
             entries == TransferEntries(w, v, amount, credit)
             change == TransferChange(w, v, amount, gain)
  <2>1. amount \in Nat /\ a \in Nat \ {0} /\ b \in Nat \ {0}
    BY TablesOK DEF Wallet
  <2>2. credit \in Nat /\ amount * a \in Nat
    BY <2>1, ConvertedIsNat
  <2>3. gain \in Int /\ gain >= 0
    <3>1. PICK n \in Nat : n = amount * a
      BY <2>2
    <3>2. balance[v] \in Int
      BY <1>0
    <3>3. Gained(balance[v], n, b) \in Int /\ Gained(balance[v], n, b) >= 0
      BY <2>1, <3>2, GainedFromMore
    <3> QED
      BY <3>1, <3>3
  <2>4. BeginMove(p, "transfer", w, {w, v}, change, entries)
    BY <1>2 DEF Transfer
  <2>5. balance[w] + (-amount) >= 0
    BY <1>0, <1>2, <2>1 DEF Transfer, Covers
  <2> HIDE DEF credit, gain
  <2>6. /\ out \in Row /\ Payable(out) /\ out.type # "CREDIT"
        /\ inn \in Row /\ Payable(inn) /\ inn.type # "CREDIT"
    BY <2>1, <2>2, EntryType DEF Types, Payable
  <2>7. entries = <<out, inn>>
    BY DEF TransferEntries
  <2> HIDE DEF out, inn, entries
  <2>8. /\ entries \in Seq(Row)
        /\ \A n \in DOMAIN entries : Payable(entries[n]) /\ entries[n].type # "CREDIT"
    BY <2>6, <2>7
  <2>9. /\ change \in [Wallet -> Int] /\ change[w] = -amount /\ change[v] = gain
    BY <2>1, <2>3, TransferChangeType
  <2> HIDE DEF change
  <2>10. Planned("transfer", w, {w, v}, change, entries)
    BY <2>3, <2>5, <2>8, <2>9 DEF Planned, Moves
  <2> QED
    BY <2>4, <2>10
<1>3. ASSUME NEW w \in Wallet, NEW usd \in Amounts, NEW rate \in Rates[w[2]],
             DebitWalletUsdValue(p, w, usd, rate)
      PROVE  \E kind, u, saves, change, entries :
                /\ Planned(kind, u, saves, change, entries)
                /\ BeginMove(p, kind, u, saves, change, entries)
  <2> DEFINE tokens == Tokens(usd, rate)
             gain   == Gained(balance[w], -usd, rate)
             out    == Entry("DEBIT", "COMPLETED", w, tokens)
  <2>1. /\ usd \in Nat \ {0} /\ rate \in Nat \ {0} /\ -usd \in Int
        /\ balance[w] \in Int /\ balance[w] * rate >= usd
    BY <1>0, <1>3, TablesOK DEF Wallet, DebitWalletUsdValue
  <2>2. tokens \in Int
    BY <2>1, RoundedType DEF Tokens
  <2>3. gain \in Int /\ balance[w] + gain >= 0
    BY <2>1, DebitCovered
  <2>4. BeginMove(p, "debit", w, {w}, Change(w, gain), <<out>>)
    BY <1>3 DEF DebitWalletUsdValue
  <2> HIDE DEF tokens, gain
  <2>5. out \in Row /\ Payable(out) /\ out.type # "CREDIT"
    BY <2>2, EntryType DEF Types, Payable
  <2>6. Planned("debit", w, {w}, Change(w, gain), <<out>>)
    BY <2>3, <2>5, OneEntryPlanned DEF Moves
  <2> QED
    BY <2>4, <2>6
<1>4. ASSUME NEW w \in Wallet, NEW usd \in Payouts, NEW rate \in Rates[w[2]],
             CreditWalletUsdValue(p, w, usd, rate)
      PROVE  \E kind, u, saves, change, entries :
                /\ Planned(kind, u, saves, change, entries)
                /\ BeginMove(p, kind, u, saves, change, entries)
  <2> DEFINE tokens == Tokens(usd, rate)
             gain   == Gained(balance[w], usd, rate)
             inn    == Entry("CREDIT", "COMPLETED", w, tokens)
  <2>1. usd \in Int /\ rate \in Nat \ {0} /\ balance[w] \in Int
    BY <1>0, TablesOK DEF Wallet
  <2>2. /\ tokens \in Int /\ gain \in Int
        /\ tokens < 0 => gain >= tokens
        /\ tokens >= 0 => gain >= 0
    BY <2>1, CreditBooked
  <2>3. BeginMove(p, "credit", w, {w}, Change(w, gain), <<inn>>)
    BY <1>4 DEF CreditWalletUsdValue
  <2> HIDE DEF tokens, gain
  <2>4. inn \in Row /\ inn.type = "CREDIT" /\ inn.amount = tokens /\ inn.wallet = w
    BY <2>2, EntryType DEF Types, Entry
  <2> HIDE DEF inn
  <2>5. gain >= Shortfall(inn, w)
    <3>1. Shortfall(inn, w) = IF tokens < 0 THEN tokens ELSE 0
      BY <2>4 DEF Shortfall
    <3> QED
      BY <2>2, <3>1
  <2>6. Planned("credit", w, {w}, Change(w, gain), <<inn>>)
    BY <2>2, <2>4, <2>5, CreditPlanned
  <2> QED
    BY <2>3, <2>6 DEF inn
<1>5. ASSUME NEW w \in Wallet, NEW amount \in Adjustments,
             AdminAdjustBalance(p, w, amount)
      PROVE  \E kind, u, saves, change, entries :
                /\ Planned(kind, u, saves, change, entries)
                /\ BeginMove(p, kind, u, saves, change, entries)
  <2>1. amount \in Int
    BY TablesOK
  <2> DEFINE row == Entry("ADJUSTMENT", "COMPLETED", w, amount)
  <2>2. row \in Row /\ Payable(row) /\ row.type # "CREDIT"
    BY <2>1, EntryType DEF Types, Payable
  <2>3. balance[w] + amount >= 0
    BY <1>0, <1>5, <2>1 DEF AdminAdjustBalance, Covers
  <2>4. Planned("adjust", w, {w}, Change(w, amount), <<row>>)
    BY <2>1, <2>2, <2>3, OneEntryPlanned DEF Moves
  <2> QED
    BY <1>5, <2>4 DEF AdminAdjustBalance
<1> QED
  BY <1>1, <1>2, <1>3, <1>4, <1>5 DEF Request

-----------------------------------------------------------------------------
(* Payouts below zero.                                                     *)

LEMMA ShortfallType ==
    ASSUME NEW row \in Row, NEW w
    PROVE  Shortfall(row, w) \in Int /\ Shortfall(row, w) <= 0
BY DEF Shortfall, Row

LEMMA ShortfallsType ==
    ASSUME NEW table \in Seq(Row), NEW w
    PROVE  Shortfalls(table, w) \in Int /\ Shortfalls(table, w) <= 0
<1> DEFINE f == [t \in DOMAIN table |-> Shortfall(table[t], w)]
           T == DOMAIN table
<1>1. IsFiniteSet(T)
  BY FS_Interval, LenProperties
<1>2. \A t \in T : f[t] \in Int /\ f[t] <= 0
  BY ShortfallType, ElementOfSeq, LenProperties
<1>3. Shortfalls(table, w) = SumFunctionOnSet(f, T)
  BY DEF Shortfalls
<1> HIDE DEF f, T
<1>4. SumFunctionOnSet(f, T) <= SumFunctionOnSet(f, {})
  BY <1>1, <1>2, SumMore
<1> QED
  BY <1>1, <1>2, <1>3, <1>4, SumType, SumEmpty

\* A table keeps the rows of an older one, though not their status.
Extends(new, table) ==
    /\ DOMAIN table \subseteq DOMAIN new
    /\ \A t \in DOMAIN table : /\ new[t].type = table[t].type
                               /\ new[t].wallet = table[t].wallet
                               /\ new[t].amount = table[t].amount

\* Payouts below zero are not forgotten, and only rows that are such payouts
\* add to them.
LEMMA ShortfallsLater ==
    ASSUME NEW table \in Seq(Row), NEW new \in Seq(Row), Extends(new, table), NEW w
    PROVE  /\ Shortfalls(new, w) <= Shortfalls(table, w)
           /\ (\A t \in DOMAIN new \ DOMAIN table : Shortfall(new[t], w) = 0) =>
                Shortfalls(new, w) = Shortfalls(table, w)
           /\ \A t : DOMAIN new = DOMAIN table \cup {t} /\ t \notin DOMAIN table =>
                Shortfalls(new, w) = Shortfalls(table, w) + Shortfall(new[t], w)
<1> DEFINE f == [t \in DOMAIN table |-> Shortfall(table[t], w)]
           g == [t \in DOMAIN new |-> Shortfall(new[t], w)]
           S == DOMAIN table
           T == DOMAIN new
<1>1. IsFiniteSet(S) /\ IsFiniteSet(T) /\ S \in SUBSET T
  BY FS_Interval, LenProperties DEF Extends
<1>2. /\ \A t \in T : new[t] \in Row
      /\ \A t \in S : table[t] \in Row
  BY ElementOfSeq, LenProperties
<1>3. /\ \A t \in T : g[t] = Shortfall(new[t], w) /\ g[t] \in Int /\ g[t] <= 0
      /\ \A t \in S : f[t] = g[t] /\ f[t] \in Int
  <2>1. \A t \in T : g[t] = Shortfall(new[t], w) /\ g[t] \in Int /\ g[t] <= 0
    BY <1>2, ShortfallType
  <2>2. \A t \in S : f[t] = Shortfall(table[t], w) /\ f[t] \in Int
    BY <1>2, ShortfallType
  <2>3. \A t \in S : Shortfall(table[t], w) = Shortfall(new[t], w)
    BY DEF Shortfall, Extends
  <2> QED
    BY <1>1, <2>1, <2>2, <2>3
<1>4. Shortfalls(table, w) = SumFunctionOnSet(f, S) /\ Shortfalls(new, w) = SumFunctionOnSet(g, T)
  BY DEF Shortfalls
<1> HIDE DEF f, g
<1>5. SumFunctionOnSet(f, S) = SumFunctionOnSet(g, S)
  BY <1>1, <1>3, SumSame
<1>6. /\ SumFunctionOnSet(g, T) <= SumFunctionOnSet(g, S)
      /\ (\A t \in T \ S : g[t] = 0) => SumFunctionOnSet(g, T) = SumFunctionOnSet(g, S)
  <2> HIDE DEF S, T
  <2> QED
    BY <1>1, <1>3, SumMore
<1>7. ASSUME NEW t, T = S \cup {t}, t \notin S
      PROVE  SumFunctionOnSet(g, T) = SumFunctionOnSet(g, S) + g[t]
  <2> HIDE DEF S, T
  <2>1. SumFunctionOnSet(g, S \cup {t}) = g[t] + SumFunctionOnSet(g, S)
    BY <1>1, <1>3, <1>7, SumAdd
  <2>2. SumFunctionOnSet(g, S) \in Int /\ g[t] \in Int
    BY <1>1, <1>3, <1>7, SumType
  <2> QED
    BY <1>7, <2>1, <2>2
<1>8. (\A t \in T \ S : Shortfall(new[t], w) = 0) => Shortfalls(new, w) = Shortfalls(table, w)
  BY <1>3, <1>4, <1>5, <1>6
<1>9. \A t : T = S \cup {t} /\ t \notin S =>
        Shortfalls(new, w) = Shortfalls(table, w) + Shortfall(new[t], w)
  BY <1>3, <1>4, <1>5, <1>7
<1> QED
  BY <1>4, <1>5, <1>6, <1>8, <1>9

-----------------------------------------------------------------------------
(* The inductive invariant.                                                *)

\* What an open transaction will save is not below zero by more than payouts
\* were, the one it makes included.
Solvent(tx) ==
    IF tx.kind = "credit"
    THEN \E w \in Wallet, row \in Row :
            /\ tx.saves = {w} /\ tx.entries = <<row>> /\ tx.t = 0
            /\ tx.seen[w] + tx.changes[w] >= Shortfalls(rows, w) + Shortfall(row, w)
    ELSE /\ \A n \in DOMAIN tx.entries : tx.entries[n].type # "CREDIT"
         /\ \A w \in tx.saves : tx.seen[w] + tx.changes[w] >= Shortfalls(rows, w)

\* What holds of an open transaction: it settles a row that is there, and what
\* it read FOR UPDATE is current and locked.
Sound(tx) ==
    /\ Solvent(tx)
    /\ tx.t # 0 => tx.t \in DOMAIN rows /\ tx.kind \in Verdicts
    /\ tx.next \notin {"none", "commit"} =>
         /\ tx.t # 0
         /\ ~tx.pays /\ tx.locks = {} /\ tx.saves = {} /\ tx.entries = <<>>
    /\ tx.next = "wallet" => rows[tx.t].type \in {"DEPOSIT", "WITHDRAWAL"}
    /\ tx.next = "bonus" => Referrer[rows[tx.t].wallet[1]] # NoUser
    /\ tx.pays => tx.t # 0
    /\ \A n \in DOMAIN tx.entries : Payable(tx.entries[n])
    /\ \A w \in ReadForUpdate(tx) : balance[w] = tx.seen[w]
    /\ ~Gated => ReadForUpdate(tx) \subseteq tx.locks

RowsPayable == \A t \in DOMAIN rows : Payable(rows[t])

OneHolder ==
    \A p, q \in Handlers : p # q => open[p].locks \cap open[q].locks = {}

OneAtATime ==
    Gated => \A p, q \in Handlers : p # q => open[p] = None \/ open[q] = None

LedgerInv ==
    /\ TypeOK
    /\ RowsPayable
    /\ NeverOverdrawn
    /\ \A p \in Handlers : Sound(open[p])
    /\ OneHolder
    /\ OneAtATime

LEMMA NoneIsSound ==
    /\ None \in Transaction
    /\ Sound(None)
<1>1. None \in Transaction
  BY EmptySeq DEF None, Transaction, NoChange
<1>2. Sound(None)
  BY DEF None, Sound, Solvent, ReadForUpdate
<1> QED
  BY <1>1, <1>2

LEMMA LedgerInit == Init => LedgerInv
<1> SUFFICES ASSUME Init PROVE LedgerInv
  OBVIOUS
<1>1. TypeOK
  BY NoneIsSound, EmptySeq, TablesOK DEF Init, TypeOK, Wallet
<1>2. RowsPayable
  BY EmptySeq DEF Init, RowsPayable
<1>3. NeverOverdrawn
  <2>1. rows = <<>> /\ <<>> \in Seq(Row)
    BY EmptySeq DEF Init
  <2>2. \A w : Shortfalls(rows, w) <= 0 /\ Shortfalls(rows, w) \in Int
    BY <2>1, ShortfallsType
  <2>3. \A w \in Wallet : balance[w] \in Nat
    BY TablesOK DEF Init, Wallet
  <2> QED
    BY <2>2, <2>3 DEF NeverOverdrawn
<1>4. \A p \in Handlers : Sound(open[p])
  BY NoneIsSound DEF Init
<1>5. OneHolder /\ OneAtATime
  BY DEF Init, OneHolder, OneAtATime, None
<1> QED
  BY <1>1, <1>2, <1>3, <1>4, <1>5 DEF LedgerInv

\* A step of p that only opens, or goes on with, a transaction.
LEMMA OpenStep ==
    ASSUME LedgerInv, NEW p \in Handlers, NEW tx \in Transaction,
           open' = [open EXCEPT ![p] = tx],
           UNCHANGED <<balance, rows, referral>>,
           Sound(tx),
           \A w \in tx.locks : Unlocked(p, w),
           Gated => \A q \in Handlers \ {p} : open[q] = None
    PROVE  LedgerInv'
<1>1. open \in [Handlers -> Transaction]
  BY DEF LedgerInv, TypeOK
<1>2. TypeOK'
  BY <1>1 DEF LedgerInv, TypeOK
<1>3. RowsPayable' /\ NeverOverdrawn'
  BY DEF LedgerInv, RowsPayable, NeverOverdrawn
<1>4. \A t : Sound(t)' <=> Sound(t)
  BY DEF Sound, Solvent
<1>5. (\A q \in Handlers : Sound(open[q]))'
  BY <1>1, <1>4 DEF LedgerInv
<1>6. OneHolder'
  BY <1>1 DEF LedgerInv, OneHolder, Unlocked
<1>7. OneAtATime'
  BY <1>1 DEF LedgerInv, OneAtATime
<1> QED
  BY <1>2, <1>3, <1>5, <1>6, <1>7 DEF LedgerInv

-----------------------------------------------------------------------------
(* The steps that read.                                                    *)

LEMMA ReadType == ASSUME TypeOK, NEW S \in SUBSET Wallet
                  PROVE  /\ Read(S) \in [Wallet -> Int]
                         /\ \A w \in S : Read(S)[w] = balance[w]
BY DEF TypeOK, Read

LEMMA BalanceCovered ==
    ASSUME LedgerInv, NEW w \in Wallet
    PROVE  /\ balance[w] \in Int /\ Shortfalls(rows, w) \in Int
           /\ Shortfalls(rows, w) <= 0 /\ balance[w] >= Shortfalls(rows, w)
BY ShortfallsType DEF LedgerInv, TypeOK, NeverOverdrawn

LEMMA BeginMoveKeeps ==
    ASSUME LedgerInv, NEW p \in Handlers,
           NEW kind, NEW w, NEW saves, NEW change, NEW entries,
           Planned(kind, w, saves, change, entries),
           BeginMove(p, kind, w, saves, change, entries)
    PROVE  LedgerInv'
<1> DEFINE tx == [None EXCEPT !.kind = kind, !.next = "commit",
                      !.locks = IF Gated THEN {} ELSE LocksRow(kind, w),
                      !.saves = saves, !.seen = Read(saves),
                      !.changes = change, !.entries = entries]
<1>1. /\ kind \in Moves /\ saves \in SUBSET Wallet /\ w \in saves
      /\ change \in [Wallet -> Int]
      /\ entries \in Seq(Row)
  BY DEF Planned
<1>2. /\ Read(saves) \in [Wallet -> Int]
      /\ \A x \in saves : Read(saves)[x] = balance[x]
  BY <1>1, ReadType DEF LedgerInv
<1>3. /\ tx.kind = kind /\ tx.next = "commit" /\ tx.t = 0 /\ ~tx.pays
      /\ tx.locks = IF Gated THEN {} ELSE LocksRow(kind, w)
      /\ tx.saves = saves /\ tx.seen = Read(saves)
      /\ tx.changes = change /\ tx.entries = entries
  BY DEF None
<1>4. tx \in Transaction
  <2>1. LocksRow(kind, w) \in SUBSET Wallet
    BY <1>1 DEF LocksRow
  <2>2. tx = [None EXCEPT !.kind = tx.kind, !.next = tx.next, !.locks = tx.locks,
                          !.saves = tx.saves, !.seen = tx.seen,
                          !.changes = tx.changes, !.entries = tx.entries]
    BY DEF None
  <2>3. tx.locks \in SUBSET Wallet
    BY <1>3, <2>1
  <2> HIDE DEF tx
  <2> QED
    BY <1>1, <1>2, <1>3, <2>2, <2>3, NoneIsSound DEF Transaction
<1>5. Solvent(tx)
  <2>1. \A x \in saves : /\ change[x] \in Int /\ balance[x] \in Int
                         /\ Shortfalls(rows, x) \in Int /\ Shortfalls(rows, x) <= 0
                         /\ balance[x] >= Shortfalls(rows, x)
    BY <1>1, BalanceCovered
  <2>2. \A x \in saves : tx.seen[x] = balance[x] /\ tx.changes[x] = change[x]
    BY <1>2, <1>3
  <2> HIDE DEF tx
  <2>3. CASE kind # "credit"
    <3>1. balance[w] + change[w] >= 0
      BY <2>3 DEF Planned
    <3>2. \A n \in DOMAIN tx.entries : tx.entries[n].type # "CREDIT"
      BY <1>3, <2>3 DEF Planned
    <3>3. \A x \in saves : x # w => change[x] >= 0
      BY DEF Planned
    <3>4. \A x \in saves : balance[x] + change[x] >= Shortfalls(rows, x)
      BY <1>1, <2>1, <3>1, <3>3
    <3> QED
      BY <1>3, <2>2, <2>3, <3>2, <3>4 DEF Solvent
  <2>4. CASE kind = "credit"
    <3>1. PICK row \in Row : entries = <<row>> /\ change[w] >= Shortfall(row, w)
      BY <2>4 DEF Planned
    <3>2. saves = {w}
      BY <2>4 DEF Planned
    <3>3. Shortfall(row, w) \in Int
      BY ShortfallType
    <3>4. balance[w] + change[w] >= Shortfalls(rows, w) + Shortfall(row, w)
      BY <1>1, <2>1, <3>1, <3>3
    <3>5. tx.seen[w] + tx.changes[w] >= Shortfalls(rows, w) + Shortfall(row, w)
      BY <1>1, <2>2, <3>4
    <3>6. tx.entries = <<row>>
      BY <1>3, <3>1
    <3> QED
      BY <1>1, <1>3, <2>4, <3>2, <3>5, <3>6 DEF Solvent
  <2> QED
    BY <2>3, <2>4
<1>6. ~Gated => ReadForUpdate(tx) \subseteq tx.locks
  <2>1. ASSUME ~Gated, NEW x \in ReadForUpdate(tx), x # w
        PROVE  FALSE
    <3>1. kind = "transfer" /\ change[x] >= 0 /\ change[x] \in Int
      BY <1>1, <1>3, <2>1 DEF ReadForUpdate, Planned
    <3> QED
      BY <1>3, <2>1, <3>1 DEF ReadForUpdate
  <2>2. kind = "adjust" => ReadForUpdate(tx) = {}
    BY <1>3 DEF ReadForUpdate
  <2> HIDE DEF tx
  <2> QED
    BY <1>3, <2>1, <2>2 DEF LocksRow
<1>7. \A x \in ReadForUpdate(tx) : balance[x] = tx.seen[x]
  BY <1>2, <1>3 DEF ReadForUpdate
<1>8. \A n \in DOMAIN tx.entries : Payable(tx.entries[n])
  BY <1>3 DEF Planned
<1>9. \A x \in tx.locks : Unlocked(p, x)
  BY <1>3 DEF BeginMove
<1>10. Gated => \A q \in Handlers \ {p} : open[q] = None
  BY DEF BeginMove, MayBegin
<1>11. open' = [open EXCEPT ![p] = tx] /\ UNCHANGED <<balance, rows, referral>>
  BY DEF BeginMove
<1> HIDE DEF tx
<1>12. Sound(tx)
  BY <1>3, <1>5, <1>6, <1>7, <1>8 DEF Sound
<1> QED
  BY <1>4, <1>9, <1>10, <1>11, <1>12, OpenStep

LEMMA SettleKeeps ==
    ASSUME LedgerInv, NEW p \in Handlers, NEW verdict \in Verdicts,
           NEW t \in DOMAIN rows, Settle(p, verdict, t)
    PROVE  LedgerInv'
<1>1. PICK next \in {"wallet", "subscription", "commit"} :
        /\ next = "wallet" => rows[t].type \in {"DEPOSIT", "WITHDRAWAL"}
        /\ open' = [open EXCEPT ![p] =
                      [None EXCEPT !.kind = verdict, !.t = t, !.next = next]]
        /\ UNCHANGED <<balance, rows, referral>>
  BY DEF Settle, PaysWallet
<1> DEFINE tx == [None EXCEPT !.kind = verdict, !.t = t, !.next = next]
<1>2. /\ tx.kind = verdict /\ tx.t = t /\ tx.next = next /\ ~tx.pays
      /\ tx.locks = {} /\ tx.saves = {} /\ tx.entries = <<>>
  BY DEF None
<1>3. tx \in Transaction
  <2>1. t \in Nat
    BY LenProperties DEF LedgerInv, TypeOK
  <2> QED
    BY <2>1, NoneIsSound DEF Transaction
<1>4. t # 0
  BY LenProperties DEF LedgerInv, TypeOK
<1>5. Gated => \A q \in Handlers \ {p} : open[q] = None
  BY DEF Settle, MayBegin
<1>6. open' = [open EXCEPT ![p] = tx]
  BY <1>1
<1> HIDE DEF tx
<1>7. Sound(tx)
  BY <1>1, <1>2, <1>4, EmptySeq DEF Sound, Solvent, ReadForUpdate, Verdicts
<1> QED
  BY <1>1, <1>2, <1>3, <1>5, <1>6, <1>7, OpenStep

\* What a step of p that goes on with its transaction can use.
LEMMA OngoingStep ==
    ASSUME LedgerInv, NEW p \in Handlers, open[p].next # "none"
    PROVE  /\ open[p] \in Transaction /\ Sound(open[p])
           /\ open \in [Handlers -> Transaction]
           /\ Gated => \A q \in Handlers \ {p} : open[q] = None
BY DEF LedgerInv, TypeOK, OneAtATime, None

LEMMA ReadWalletKeeps ==
    ASSUME LedgerInv, NEW p \in Handlers, ReadWallet(p)
    PROVE  LedgerInv'
<1> DEFINE row == rows[open[p].t]
           tx == [open[p] EXCEPT !.next = "commit", !.saves = {row.wallet},
                                 !.seen = Read({row.wallet}),
                                 !.changes = Change(row.wallet, row.amount)]
<1>1. open[p].next = "wallet"
  BY DEF ReadWallet
<1>2. /\ open[p] \in Transaction /\ Sound(open[p])
      /\ Gated => \A q \in Handlers \ {p} : open[q] = None
  BY <1>1, OngoingStep
<1>3. /\ open[p].t \in DOMAIN rows /\ open[p].t # 0 /\ open[p].kind \in Verdicts
      /\ ~open[p].pays /\ open[p].locks = {} /\ open[p].entries = <<>>
      /\ row.type \in {"DEPOSIT", "WITHDRAWAL"}
  BY <1>1, <1>2 DEF Sound
<1>4. row \in Row /\ row.wallet \in Wallet /\ row.amount \in Int /\ row.amount >= 0
  <2>1. row \in Row
    BY <1>3, LenProperties, ElementOfSeq DEF LedgerInv, TypeOK
  <2> QED
    BY <1>3, <2>1 DEF LedgerInv, RowsPayable, Payable, Row
<1>5. /\ Read({row.wallet}) \in [Wallet -> Int]
      /\ Read({row.wallet})[row.wallet] = balance[row.wallet]
      /\ balance[row.wallet] \in Int /\ Shortfalls(rows, row.wallet) \in Int
      /\ balance[row.wallet] >= Shortfalls(rows, row.wallet)
  <2>1. {row.wallet} \in SUBSET Wallet /\ TypeOK
    BY <1>4 DEF LedgerInv
  <2> HIDE DEF row
  <2> QED
    BY <1>4, <2>1, ReadType, BalanceCovered
<1>6. /\ Change(row.wallet, row.amount) \in [Wallet -> Int]
      /\ Change(row.wallet, row.amount)[row.wallet] = row.amount
  BY <1>4, ChangeType
<1>7. open' = [open EXCEPT ![p] = tx] /\ UNCHANGED <<balance, rows, referral>>
  BY DEF ReadWallet
<1> HIDE DEF row
<1>8. tx \in Transaction
  BY <1>2, <1>4, <1>5, <1>6 DEF Transaction
<1>9. /\ tx.t = open[p].t /\ tx.kind = open[p].kind /\ tx.next = "commit" /\ ~tx.pays
      /\ tx.locks = {} /\ tx.entries = <<>>
      /\ tx.saves = {row.wallet} /\ tx.seen = Read({row.wallet})
      /\ tx.changes = Change(row.wallet, row.amount)
  BY <1>2, <1>3 DEF Transaction
<1> HIDE DEF tx
<1>10. ReadForUpdate(tx) = {}
  BY <1>3, <1>9 DEF ReadForUpdate, Verdicts
<1>11. Sound(tx)
  <2>1. \A x \in tx.saves : tx.seen[x] + tx.changes[x] >= Shortfalls(rows, x)
    <3>1. balance[row.wallet] + row.amount >= Shortfalls(rows, row.wallet)
      BY <1>4, <1>5
    <3>2. \A x \in tx.saves : /\ x = row.wallet
                              /\ tx.seen[x] = balance[row.wallet]
                              /\ tx.changes[x] = row.amount
      BY <1>5, <1>6, <1>9
    <3> QED
      BY <3>1, <3>2
  <2>2. DOMAIN tx.entries = {}
    BY <1>9, EmptySeq
  <2>3. Solvent(tx)
    BY <1>3, <1>9, <2>1, <2>2 DEF Solvent, Verdicts
  <2> QED
    BY <1>3, <1>9, <1>10, <2>2, <2>3 DEF Sound
<1> QED
  BY <1>2, <1>7, <1>8, <1>9, <1>11, OpenStep

LEMMA SubscriptionStepKeeps ==
    ASSUME LedgerInv, NEW p \in Handlers, ReadSubscription(p) \/ SaveSubscription(p)
    PROVE  LedgerInv'
<1>1. open[p].next \in {"subscription", "save"}
  BY DEF ReadSubscription, SaveSubscription
<1>2. /\ open[p] \in Transaction /\ Sound(open[p])
      /\ open \in [Handlers -> Transaction]
      /\ Gated => \A q \in Handlers \ {p} : open[q] = None
  BY <1>1, OngoingStep
<1>3. /\ open[p].t \in DOMAIN rows /\ open[p].t # 0 /\ open[p].kind \in Verdicts
      /\ ~open[p].pays /\ open[p].locks = {}
      /\ open[p].saves = {} /\ open[p].entries = <<>>
  BY <1>1, <1>2 DEF Sound
<1>4. PICK next \in {"save", "bonus", "commit"}, holds \in BOOLEAN :
        /\ next = "bonus" => Referrer[rows[open[p].t].wallet[1]] # NoUser
        /\ open' = [open EXCEPT ![p] = [open[p] EXCEPT !.next = next, !.holds = holds]]
  <2>1. CASE ReadSubscription(p)
    <3>1. open[p] = [open[p] EXCEPT !.holds = open[p].holds] /\ open[p].holds \in BOOLEAN
      BY <1>2 DEF Transaction
    <3>2. \A n : [open[p] EXCEPT !.next = n]
                   = [open[p] EXCEPT !.next = n, !.holds = open[p].holds]
      BY <1>2 DEF Transaction
    <3> QED
      BY <1>2, <2>1, <3>1, <3>2 DEF ReadSubscription
  <2>2. CASE SaveSubscription(p)
    <3>1. \A n : [open[p] EXCEPT !.holds = TRUE, !.next = n]
                   = [open[p] EXCEPT !.next = n, !.holds = TRUE]
      BY <1>2 DEF Transaction
    <3> QED
      BY <1>2, <2>2, <3>1 DEF SaveSubscription, Due, Earns
  <2> QED
    BY <2>1, <2>2
<1> DEFINE tx == [open[p] EXCEPT !.next = next, !.holds = holds]
<1>5. /\ tx \in Transaction
      /\ tx.t = open[p].t /\ tx.kind = open[p].kind /\ tx.next = next
      /\ ~tx.pays /\ tx.locks = {} /\ tx.saves = {} /\ tx.entries = <<>>
  BY <1>2, <1>3, <1>4 DEF Transaction
<1>6. open' = [open EXCEPT ![p] = tx]
  BY <1>4
<1> HIDE DEF tx
<1>7. Sound(tx)
  BY <1>3, <1>4, <1>5, EmptySeq DEF Sound, Solvent, ReadForUpdate, Verdicts
<1>8. UNCHANGED <<balance, rows, referral>>
  BY DEF ReadSubscription, SaveSubscription
<1> QED
  BY <1>2, <1>5, <1>6, <1>7, <1>8, OpenStep

LEMMA CreditReferrerKeeps ==
    ASSUME LedgerInv, NEW p \in Handlers, CreditReferrer(p)
    PROVE  LedgerInv'
<1> DEFINE u == rows[open[p].t].wallet[1]
           w == ReferrerWallet(u)
           tx == [open[p] EXCEPT !.next = "commit", !.pays = TRUE,
                   !.locks = IF Gated THEN {} ELSE {w}, !.saves = {w},
                   !.seen = Read({w}), !.changes = Change(w, Bonus),
                   !.entries = <<BonusEntry(u)>>]
<1>1. open[p].next = "bonus" /\ Unlocked(p, w)
  BY DEF CreditReferrer
<1>2. /\ open[p] \in Transaction /\ Sound(open[p])
      /\ Gated => \A q \in Handlers \ {p} : open[q] = None
  BY <1>1, OngoingStep
<1>3. open[p].t \in DOMAIN rows /\ open[p].t # 0 /\ open[p].kind \in Verdicts
  BY <1>1, <1>2 DEF Sound
<1>4. w \in Wallet
  <2>1. u \in Users
    <3>1. rows[open[p].t] \in Row
      BY <1>3, LenProperties, ElementOfSeq DEF LedgerInv, TypeOK
    <3> QED
      BY <3>1 DEF Row, Wallet
  <2>2. Referrer[u] # NoUser
    BY <1>1, <1>2 DEF Sound
  <2> QED
    BY <2>1, <2>2, TablesOK DEF ReferrerWallet, Wallet
<1>5. Bonus \in Nat
  BY BonusIsNat
<1>6. /\ BonusEntry(u) \in Row /\ Payable(BonusEntry(u))
      /\ BonusEntry(u).type # "CREDIT"
  BY <1>4, <1>5, EntryType DEF BonusEntry, Types, Payable
<1>7. open' = [open EXCEPT ![p] = tx] /\ UNCHANGED <<balance, rows, referral>>
  BY DEF CreditReferrer
<1> HIDE DEF u, w
<1>8. /\ Read({w}) \in [Wallet -> Int] /\ Read({w})[w] = balance[w]
      /\ balance[w] \in Int /\ Shortfalls(rows, w) \in Int
      /\ balance[w] >= Shortfalls(rows, w)
  BY <1>4, ReadType, BalanceCovered DEF LedgerInv
<1>9. Change(w, Bonus) \in [Wallet -> Int] /\ Change(w, Bonus)[w] = Bonus
  BY <1>4, <1>5, ChangeType
<1>10. /\ tx.t = open[p].t /\ tx.kind = open[p].kind /\ tx.next = "commit"
       /\ tx.pays = TRUE /\ tx.locks = IF Gated THEN {} ELSE {w}
       /\ tx.saves = {w} /\ tx.seen = Read({w}) /\ tx.changes = Change(w, Bonus)
       /\ tx.entries = <<BonusEntry(u)>> /\ tx.holds = open[p].holds
  BY <1>2 DEF Transaction
<1>11. tx \in Transaction
  <2>1. tx = [open[p] EXCEPT !.next = tx.next, !.pays = tx.pays, !.locks = tx.locks,
                !.saves = tx.saves, !.seen = tx.seen, !.changes = tx.changes,
                !.entries = tx.entries]
    BY <1>2 DEF Transaction
  <2>2. tx.entries \in Seq(Row) /\ tx.locks \in SUBSET Wallet
    BY <1>4, <1>6, <1>10
  <2> HIDE DEF tx
  <2> QED
    BY ZenonT(60), <1>2, <1>4, <1>8, <1>9, <1>10, <2>1, <2>2 DEF Transaction
<1> HIDE DEF tx
<1>12. ReadForUpdate(tx) \subseteq {w}
  BY <1>10 DEF ReadForUpdate
<1>13. \A n \in DOMAIN tx.entries : /\ Payable(tx.entries[n])
                                     /\ tx.entries[n].type # "CREDIT"
  BY <1>6, <1>10
<1>14. Sound(tx)
  <2>0. \A x \in tx.saves : tx.seen[x] + tx.changes[x] >= Shortfalls(rows, x)
    BY <1>5, <1>8, <1>9, <1>10
  <2>1. Solvent(tx)
    BY <1>3, <1>10, <1>13, <2>0 DEF Solvent, Verdicts
  <2>2. \A x \in ReadForUpdate(tx) : balance[x] = tx.seen[x]
    BY <1>8, <1>10, <1>12
  <2>3. ~Gated => ReadForUpdate(tx) \subseteq tx.locks
    BY <1>10, <1>12
  <2> QED
    BY <1>3, <1>10, <1>13, <2>1, <2>2, <2>3 DEF Sound
<1>15. \A x \in tx.locks : Unlocked(p, x)
  BY <1>1, <1>10
<1> QED
  BY <1>2, <1>7, <1>11, <1>14, <1>15, OpenStep

-----------------------------------------------------------------------------
(* The steps that write.                                                   *)

\* Transactions stay sound when rows are kept and what they read for update is
\* not written.
LEMMA SoundLater ==
    ASSUME rows \in Seq(Row), rows' \in Seq(Row), Extends(rows', rows)
    PROVE  \A tx \in Transaction :
                   /\ Sound(tx)
                   /\ \A w \in ReadForUpdate(tx) : balance'[w] = balance[w]
                   => Sound(tx)'
<1> SUFFICES ASSUME NEW tx \in Transaction, Sound(tx),
                    \A w \in ReadForUpdate(tx) : balance'[w] = balance[w]
             PROVE  Sound(tx)'
  OBVIOUS
<1>1. ReadForUpdate(tx)' = ReadForUpdate(tx)
  BY DEF ReadForUpdate
<1>2. \A w : /\ Shortfalls(rows, w) \in Int /\ Shortfalls(rows', w) \in Int
             /\ Shortfalls(rows', w) <= Shortfalls(rows, w)
  BY ShortfallsType, ShortfallsLater
<1>3. \A w \in Wallet : tx.seen[w] \in Int /\ tx.changes[w] \in Int
  BY DEF Transaction
<1>4. Solvent(tx)'
  <2>1. CASE tx.kind = "credit"
    <3>1. PICK w \in Wallet, row \in Row :
            /\ tx.saves = {w} /\ tx.entries = <<row>> /\ tx.t = 0
            /\ tx.seen[w] + tx.changes[w] >= Shortfalls(rows, w) + Shortfall(row, w)
      BY <2>1 DEF Sound, Solvent
    <3>2. Shortfall(row, w) \in Int
      BY ShortfallType
    <3>3. tx.seen[w] + tx.changes[w] >= Shortfalls(rows', w) + Shortfall(row, w)
      BY <1>2, <1>3, <3>1, <3>2
    <3> QED
      BY <2>1, <3>1, <3>3 DEF Solvent
  <2>2. CASE tx.kind # "credit"
    <3>1. /\ \A n \in DOMAIN tx.entries : tx.entries[n].type # "CREDIT"
          /\ \A w \in tx.saves : tx.seen[w] + tx.changes[w] >= Shortfalls(rows, w)
      BY <2>2 DEF Sound, Solvent
    <3>2. \A w \in tx.saves : w \in Wallet
      BY DEF Transaction
    <3>3. \A w \in tx.saves : tx.seen[w] + tx.changes[w] >= Shortfalls(rows', w)
      BY <1>2, <1>3, <3>1, <3>2
    <3> QED
      BY <2>2, <3>1, <3>3 DEF Solvent
  <2> QED
    BY <2>1, <2>2
<1> QED
  BY <1>1, <1>4 DEF Extends, Sound

\* Wallets stay covered when none is written and rows are kept.
LEMMA CoveredLater ==
    ASSUME LedgerInv, rows' \in Seq(Row), Extends(rows', rows), UNCHANGED balance
    PROVE  NeverOverdrawn'
<1> SUFFICES ASSUME NEW w \in Wallet PROVE balance[w] >= Shortfalls(rows', w)
  BY DEF NeverOverdrawn
<1>1. Shortfalls(rows', w) \in Int /\ Shortfalls(rows', w) <= Shortfalls(rows, w)
  BY ShortfallsType, ShortfallsLater DEF LedgerInv, TypeOK
<1> QED
  BY <1>1, BalanceCovered

LEMMA InsertKeeps ==
    ASSUME LedgerInv, NEW row \in Row, Payable(row), Insert(row)
    PROVE  LedgerInv'
<1>1. rows \in Seq(Row)
  BY DEF LedgerInv, TypeOK
<1>2. /\ rows' \in Seq(Row)
      /\ DOMAIN rows' = 1 .. Len(rows) + 1 /\ DOMAIN rows = 1 .. Len(rows)
      /\ Len(rows) \in Nat
      /\ \A n \in 1 .. Len(rows) : rows'[n] = rows[n]
      /\ rows'[Len(rows) + 1] = row
  BY <1>1, AppendProperties, LenProperties DEF Insert
<1>3. UNCHANGED <<balance, referral, open>>
  BY DEF Insert
<1>4. RowsPayable'
  <2> SUFFICES ASSUME NEW n \in 1 .. Len(rows) + 1 PROVE Payable(rows'[n])
    BY <1>2 DEF RowsPayable, Payable
  <2>1. CASE n \in 1 .. Len(rows)
    BY <1>2, <2>1 DEF LedgerInv, RowsPayable
  <2>2. CASE n = Len(rows) + 1
    BY <1>2, <2>2
  <2> QED
    BY <1>2, <2>1, <2>2
<1>5. ASSUME NEW p \in Handlers
      PROVE  Sound(open[p])'
  <2>1. Extends(rows', rows)
    BY <1>2 DEF Extends
  <2>2. Sound(open[p]) /\ open[p] \in Transaction
    BY DEF LedgerInv, TypeOK
  <2> QED
    BY <1>1, <1>2, <1>3, <2>1, <2>2, SoundLater
<1>6. NeverOverdrawn'
  <2>1. Extends(rows', rows)
    BY <1>2 DEF Extends
  <2> QED
    BY <1>2, <1>3, <2>1, CoveredLater
<1> QED
  BY <1>2, <1>3, <1>4, <1>5, <1>6 DEF LedgerInv, TypeOK, OneHolder, OneAtATime

LEMMA RemoveKeeps ==
    ASSUME LedgerInv, NEW t \in DOMAIN rows, Remove(t)
    PROVE  LedgerInv'
<1> DEFINE row == [rows[t] EXCEPT !.deleted = TRUE]
<1>1. rows \in Seq(Row) /\ t \in 1 .. Len(rows)
  BY LenProperties DEF LedgerInv, TypeOK
<1>2. rows[t] \in Row
  BY <1>1, ElementOfSeq
<1>3. /\ row \in Row /\ row.type = rows[t].type /\ row.wallet = rows[t].wallet
      /\ row.amount = rows[t].amount
  BY <1>2 DEF Row
<1>4. rows' = [rows EXCEPT ![t] = row] /\ UNCHANGED <<balance, referral, open>>
  BY <1>1, LenProperties DEF Remove
<1> HIDE DEF row
<1>5. /\ rows' \in Seq(Row) /\ Len(rows') = Len(rows)
      /\ \A n \in 1 .. Len(rows) : rows'[n] = IF n = t THEN row ELSE rows[n]
  BY <1>1, <1>3, <1>4, ExceptSeq
<1>6. DOMAIN rows = 1 .. Len(rows) /\ DOMAIN rows' = 1 .. Len(rows)
  BY <1>1, <1>5, LenProperties
<1>7. Extends(rows', rows)
  BY <1>3, <1>5, <1>6 DEF Extends
<1>8. RowsPayable'
  BY <1>3, <1>5, <1>6 DEF LedgerInv, RowsPayable, Payable
<1>9. ASSUME NEW p \in Handlers
      PROVE  Sound(open[p])'
  BY <1>1, <1>4, <1>5, <1>7, SoundLater DEF LedgerInv, TypeOK
<1>10. NeverOverdrawn'
  BY <1>4, <1>5, <1>7, CoveredLater
<1> QED
  BY <1>4, <1>5, <1>8, <1>9, <1>10 DEF LedgerInv, TypeOK, OneHolder, OneAtATime

\* The table a transaction leaves: rows it saves, then rows it inserts.
LEMMA CommitRows ==
    ASSUME LedgerInv, NEW p \in Handlers, Commit(p)
    PROVE  /\ rows' \in Seq(Row) /\ Extends(rows', rows) /\ RowsPayable'
           /\ \A w : (\A n \in DOMAIN open[p].entries : Shortfall(open[p].entries[n], w) = 0)
                      => Shortfalls(rows', w) = Shortfalls(rows, w)
           /\ \A w, row : open[p].entries = <<row>> =>
                 Shortfalls(rows', w) = Shortfalls(rows, w) + Shortfall(row, w)
<1> DEFINE tx == open[p]
           old == Saved(tx)
           new == tx.entries
<1>1. tx \in Transaction /\ Sound(tx)
  BY OngoingStep DEF Commit
<1>2. /\ rows \in Seq(Row) /\ new \in Seq(Row)
      /\ \A n \in DOMAIN new : Payable(new[n])
      /\ \A n \in DOMAIN rows : Payable(rows[n])
  BY <1>1 DEF LedgerInv, TypeOK, Transaction, Sound, RowsPayable
<1>3. /\ old \in Seq(Row) /\ DOMAIN old = DOMAIN rows
      /\ \A t \in DOMAIN rows : /\ old[t].type = rows[t].type
                                /\ old[t].wallet = rows[t].wallet
                                /\ old[t].amount = rows[t].amount
  BY <1>1, <1>2, SavedType DEF Sound
<1>4. rows' = old \o new
  BY DEF Commit
<1> HIDE DEF tx, old, new
<1>5. /\ rows' \in Seq(Row)
      /\ Len(rows') = Len(old) + Len(new)
      /\ \A n \in 1 .. Len(old) + Len(new) :
           rows'[n] = IF n <= Len(old) THEN old[n] ELSE new[n - Len(old)]
  BY <1>2, <1>3, <1>4, ConcatProperties
<1>6. /\ Len(old) \in Nat /\ Len(new) \in Nat
      /\ DOMAIN rows = 1 .. Len(old) /\ DOMAIN new = 1 .. Len(new)
      /\ DOMAIN rows' = 1 .. Len(old) + Len(new)
  BY <1>2, <1>3, <1>5, LenProperties
<1>7. Extends(rows', rows)
  <2> SUFFICES ASSUME NEW t \in 1 .. Len(old)
               PROVE  t \in 1 .. Len(old) + Len(new) /\ rows'[t] = old[t]
    BY <1>3, <1>6 DEF Extends
  <2> QED
    BY <1>5, <1>6
<1>8. RowsPayable'
  <2> SUFFICES ASSUME NEW n \in 1 .. Len(old) + Len(new) PROVE Payable(rows'[n])
    BY <1>6 DEF RowsPayable, Payable
  <2>1. CASE n <= Len(old)
    <3>1. n \in DOMAIN rows /\ rows'[n] = old[n]
      BY <1>5, <1>6, <2>1
    <3> QED
      BY <1>2, <1>3, <3>1 DEF Payable
  <2>2. CASE n > Len(old)
    <3>1. n - Len(old) \in DOMAIN new /\ rows'[n] = new[n - Len(old)]
      BY <1>5, <1>6, <2>2
    <3> QED
      BY <1>2, <3>1
  <2> QED
    BY <1>6, <2>1, <2>2
<1>9. ASSUME NEW w, \A n \in DOMAIN new : Shortfall(new[n], w) = 0
      PROVE  Shortfalls(rows', w) = Shortfalls(rows, w)
  <2>1. ASSUME NEW n \in DOMAIN rows' \ DOMAIN rows
        PROVE  Shortfall(rows'[n], w) = 0
    <3>1. n - Len(old) \in DOMAIN new /\ rows'[n] = new[n - Len(old)]
      BY <1>5, <1>6, <2>1
    <3> QED
      BY <1>9, <3>1
  <2> QED
    BY <1>2, <1>5, <1>7, <2>1, ShortfallsLater
<1>10. ASSUME NEW w, NEW row, new = <<row>>
       PROVE  Shortfalls(rows', w) = Shortfalls(rows, w) + Shortfall(row, w)
  <2> DEFINE n == Len(old) + 1
  <2>1. Len(new) = 1 /\ new[1] = row
    BY <1>10
  <2>2. /\ DOMAIN rows' = DOMAIN rows \cup {n} /\ n \notin DOMAIN rows
        /\ rows'[n] = row
    BY <1>5, <1>6, <2>1
  <2> HIDE DEF n
  <2> QED
    BY <1>2, <1>5, <1>7, <2>2, ShortfallsLater
<1> QED
  BY <1>5, <1>7, <1>8, <1>9, <1>10 DEF new, tx

LEMMA CommitKeeps ==
    ASSUME LedgerInv, NEW p \in Handlers, Commit(p)
    PROVE  LedgerInv'
<1> DEFINE tx == open[p]
<1>1. /\ tx \in Transaction /\ Sound(tx)
      /\ open \in [Handlers -> Transaction]
      /\ Gated => \A q \in Handlers \ {p} : open[q] = None
  BY OngoingStep DEF Commit
<1>2. rows' \in Seq(Row) /\ Extends(rows', rows) /\ RowsPayable'
  BY CommitRows
<1>3. open' = [open EXCEPT ![p] = None]
  BY DEF Commit
<1>4. balance' \in [Wallet -> Int] /\ NeverOverdrawn'
  <2> SUFFICES ASSUME NEW w \in Wallet
               PROVE  balance'[w] \in Int /\ balance'[w] >= Shortfalls(rows', w)
    BY DEF Commit, NeverOverdrawn
  <2>0. /\ balance[w] \in Int /\ Shortfalls(rows, w) \in Int
        /\ balance[w] >= Shortfalls(rows, w)
        /\ Shortfalls(rows', w) \in Int /\ Shortfalls(rows', w) <= Shortfalls(rows, w)
    BY <1>2, BalanceCovered, ShortfallsType, ShortfallsLater DEF LedgerInv, TypeOK
  <2>1. CASE w \in tx.saves /\ tx.kind # "credit"
    <3>1. balance'[w] = tx.seen[w] + tx.changes[w]
      BY <2>1 DEF Commit
    <3>2. tx.seen[w] + tx.changes[w] >= Shortfalls(rows, w)
      BY <1>1, <2>1 DEF Sound, Solvent
    <3>3. tx.seen[w] \in Int /\ tx.changes[w] \in Int
      BY <1>1 DEF Transaction
    <3> QED
      BY <2>0, <3>1, <3>2, <3>3
  <2>2. CASE w \in tx.saves /\ tx.kind = "credit"
    <3>1. balance'[w] = tx.seen[w] + tx.changes[w]
      BY <2>2 DEF Commit
    <3>2. PICK row \in Row :
            /\ tx.entries = <<row>>
            /\ tx.seen[w] + tx.changes[w] >= Shortfalls(rows, w) + Shortfall(row, w)
      BY <1>1, <2>2 DEF Sound, Solvent
    <3>3. tx.seen[w] \in Int /\ tx.changes[w] \in Int
      BY <1>1 DEF Transaction
    <3>4. Shortfalls(rows', w) = Shortfalls(rows, w) + Shortfall(row, w)
      BY <3>2, CommitRows
    <3> QED
      BY <3>1, <3>2, <3>3, <3>4
  <2>3. CASE w \notin tx.saves
    <3>1. balance'[w] = balance[w]
      BY <2>3 DEF Commit
    <3> QED
      BY <2>0, <3>1
  <2> QED
    BY <2>1, <2>2, <2>3
<1>5. referral' \subseteq Users
  <2>1. tx.pays => rows[tx.t].wallet[1] \in Users
    <3>1. tx.pays => rows[tx.t] \in Row
      BY <1>1, LenProperties, ElementOfSeq DEF Sound, LedgerInv, TypeOK
    <3> QED
      BY <3>1 DEF Row, Wallet
  <2> QED
    BY <2>1 DEF Commit, LedgerInv, TypeOK
<1>6. open' \in [Handlers -> Transaction]
  BY <1>1, <1>3, NoneIsSound
<1>7. ASSUME NEW q \in Handlers
      PROVE  Sound(open[q])'
  <2>0. Sound(None)'
    BY DEF None, Sound, Solvent, ReadForUpdate
  <2>1. CASE q = p
    BY <1>1, <1>3, <2>0, <2>1
  <2>2. CASE q # p /\ Gated
    BY <1>1, <1>3, <2>0, <2>2
  <2>3. CASE q # p /\ ~Gated
    <3>1. Sound(open[q]) /\ open[q] \in Transaction /\ open'[q] = open[q]
      BY <1>1, <1>3, <2>3 DEF LedgerInv
    <3>2. \A w \in ReadForUpdate(open[q]) : w \in Wallet /\ w \notin tx.saves
      BY <2>3, <3>1 DEF Commit, Unlocked, Sound, Transaction, ReadForUpdate
    <3>3. \A w \in ReadForUpdate(open[q]) : balance'[w] = balance[w]
      BY <3>2 DEF Commit
    <3> QED
      BY <1>2, <3>1, <3>3, SoundLater DEF LedgerInv, TypeOK
  <2> QED
    BY <2>1, <2>2, <2>3
<1>8. OneHolder' /\ OneAtATime'
  BY <1>1, <1>3 DEF LedgerInv, OneHolder, OneAtATime, None
<1> QED
  BY <1>2, <1>4, <1>5, <1>6, <1>7, <1>8 DEF LedgerInv, TypeOK

LEMMA RollbackKeeps ==
    ASSUME LedgerInv, NEW p \in Handlers, Rollback(p)
    PROVE  LedgerInv'
<1>1. open' = [open EXCEPT ![p] = None] /\ UNCHANGED <<balance, rows, referral>>
  BY DEF Rollback
<1>2. Gated => \A q \in Handlers \ {p} : open[q] = None
  BY DEF Rollback, LedgerInv, OneAtATime
<1>3. None.locks = {}
  BY DEF None
<1> QED
  BY <1>1, <1>2, <1>3, NoneIsSound, OpenStep

-----------------------------------------------------------------------------
(* The theorems.                                                           *)

LEMMA LedgerNext == LedgerInv /\ [Next]_vars => LedgerInv'
<1> SUFFICES ASSUME LedgerInv, [Next]_vars PROVE LedgerInv'
  OBVIOUS
<1>1. ASSUME NEW p \in Handlers, Request(p)
      PROVE  LedgerInv'
  BY <1>1, RequestPlan, BeginMoveKeeps, SettleKeeps DEF LedgerInv
<1>2. ASSUME NEW p \in Handlers, Step(p)
      PROVE  LedgerInv'
  BY <1>2, ReadWalletKeeps, SubscriptionStepKeeps, CreditReferrerKeeps, CommitKeeps,
     RollbackKeeps DEF Step
<1>3. ASSUME NEW w \in Wallet, NEW amount \in Amounts, RequestDeposit(w, amount)
      PROVE  LedgerInv'
  <2> DEFINE row == Entry("DEPOSIT", "PENDING", w, amount)
  <2>1. amount \in Nat
    BY TablesOK
  <2>2. row \in Row /\ Payable(row)
    BY <2>1, EntryType DEF Types, Payable
  <2> QED
    BY <1>3, <2>2, InsertKeeps DEF RequestDeposit
<1>4. ASSUME NEW u \in Users, NEW s \in Symbols, Subscribe(u, s)
      PROVE  LedgerInv'
  <2>1. /\ SubscriptionEntry(u, s) \in Row
        /\ Payable(SubscriptionEntry(u, s))
    <3> DEFINE e == Entry("SUBSCRIPTION", "PENDING", <<u, s>>, Fee)
    <3>1. <<u, s>> \in Wallet /\ Fee \in Int
      BY TablesOK DEF Wallet
    <3>2. e \in Row /\ e.type = "SUBSCRIPTION"
      BY <3>1, EntryType DEF Types
    <3>3. SubscriptionEntry(u, s) = [e EXCEPT !.sub = "PENDING"]
      BY DEF SubscriptionEntry
    <3> HIDE DEF e
    <3> QED
      BY <3>2, <3>3 DEF Row, Payable
  <2> QED
    BY <1>4, <2>1, InsertKeeps DEF Subscribe
<1>5. ASSUME NEW t \in DOMAIN rows, Remove(t)
      PROVE  LedgerInv'
  BY <1>5, RemoveKeeps
<1>6. CASE UNCHANGED vars
  <2>1. \A tx : Sound(tx)' <=> Sound(tx)
    BY <1>6 DEF vars, Sound, Solvent, ReadForUpdate
  <2> QED
    BY <1>6, <2>1 DEF vars, LedgerInv, TypeOK, RowsPayable, NeverOverdrawn,
                      OneHolder, OneAtATime
<1> QED
  BY <1>1, <1>2, <1>3, <1>4, <1>5, <1>6 DEF Next

\* The tables stay well formed, on both databases: no handler writes a balance
\* that is not a number, a row of an unknown kind or a referral of nobody.
THEOREM LedgerTypeCorrect == Spec => []TypeOK
<1>1. Init => LedgerInv
  BY LedgerInit
<1>2. LedgerInv /\ [Next]_vars => LedgerInv'
  BY LedgerNext
<1>3. LedgerInv => TypeOK
  BY DEF LedgerInv
<1> QED
  BY <1>1, <1>2, <1>3, PTL DEF Spec

\* A wallet is below zero by no more than the payouts below zero it was given,
\* however many handlers interleave and though some write wallets they have not
\* locked: withdrawals, transfers and debits compare a balance they hold the
\* lock of, an adjustment is checked against the balance it saves, and only
\* creditWalletUsdValue takes what a wallet does not hold.
THEOREM OverdrawnByPayoutsOnly == Spec => []NeverOverdrawn
<1>1. Init => LedgerInv
  BY LedgerInit
<1>2. LedgerInv /\ [Next]_vars => LedgerInv'
  BY LedgerNext
<1>3. LedgerInv => NeverOverdrawn
  BY DEF LedgerInv
<1> QED
  BY <1>1, <1>2, <1>3, PTL DEF Spec

\* The pessimistic locks of wallets.service.ts and subscriptions.service.ts do
\* what their comments ask of them: a balance read with one is not written by
\* another handler before it is saved.
THEOREM LockedReadsAreCurrent == Spec => []LockedReadIsCurrent
<1>1. Init => LedgerInv
  BY LedgerInit
<1>2. LedgerInv /\ [Next]_vars => LedgerInv'
  BY LedgerNext
<1>3. LedgerInv => LockedReadIsCurrent
  BY DEF LedgerInv, Sound, LockedReadIsCurrent
<1> QED
  BY <1>1, <1>2, <1>3, PTL DEF Spec

=============================================================================
