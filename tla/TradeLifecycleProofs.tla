------------------------ MODULE TradeLifecycleProofs ------------------------
(* What holds of TradeLifecycle for every value of its constants.          *)
EXTENDS TradeLifecycle, SumTheorems, TLAPS

-----------------------------------------------------------------------------
(* Lemmas about the operators of accrual.                                  *)

\* Every nonempty set of naturals has a least element, which Min chooses.
LEMMA MinOfNaturals ==
    ASSUME NEW S, S \subseteq Nat, S # {}
    PROVE  Min(S) \in S /\ \A k \in S : Min(S) <= k
<1>1. PICK x \in S : \A y \in S : ~(<<y, x>> \in OpToRel(<, Nat))
  BY NatLessThanWellFounded, WFMin
<1>2. \A y \in S : x <= y
  <2> SUFFICES ASSUME NEW y \in S PROVE x <= y
    OBVIOUS
  <2>1. x \in Nat /\ y \in Nat
    OBVIOUS
  <2>2. ~(y < x)
    BY <1>1, <2>1 DEF OpToRel
  <2> QED
    BY <2>1, <2>2
<1> QED
  BY <1>2 DEF Min

\* applyScheduledAccruals credits a natural number of periods, each of which
\* passes the condition of its loop.
LEMMA DuePeriodsLoop ==
    ASSUME NEW row \in Row
    PROVE  /\ DuePeriods(row) \in Nat
           /\ \A k \in Nat : k < DuePeriods(row) => LoopRuns(row, k)
           /\ row.status # "ACTIVE" => DuePeriods(row) = 0
<1> DEFINE S == {k \in 0 .. MaxPeriodsPerPass : ~LoopRuns(row, k)}
<1>1. MaxPeriodsPerPass \in Nat
  BY ConstantsOK
<1>2. MaxPeriodsPerPass \in S
  BY <1>1 DEF LoopRuns
<1>3. S \subseteq Nat
  BY <1>1
<1>4. Min(S) \in S /\ \A k \in S : Min(S) <= k
  <2> HIDE DEF S
  <2> QED
    BY <1>2, <1>3, MinOfNaturals
<1>5. \A k \in Nat : k < Min(S) => LoopRuns(row, k)
  <2> SUFFICES ASSUME NEW k \in Nat, k < Min(S), ~LoopRuns(row, k) PROVE FALSE
    OBVIOUS
  <2>1. Min(S) \in Nat /\ Min(S) <= MaxPeriodsPerPass
    BY <1>1, <1>2, <1>3, <1>4
  <2>2. k \in S
    BY <1>1, <2>1
  <2> QED
    BY <1>4, <2>1, <2>2
<1>6. DuePeriods(row) \in {0, Min(S)}
  BY DEF DuePeriods
<1> QED
  BY <1>3, <1>4, <1>5, <1>6 DEF DuePeriods

\* A pass earns an integer amount.
LEMMA ProfitsAreIntegers ==
    ASSUME NEW row \in Row, NEW n \in Nat, NEW profit \in PassProfits(row, n)
    PROVE  profit \in Int
<1>1. row.principal \in Int /\ MinRate \in Int /\ MaxRate \in Int
  BY ConstantsOK DEF Row
<1>2. Profit(row.principal, MinRate) \in Int /\ Profit(row.principal, MaxRate) \in Int
  <2>1. row.principal * MinRate \in Int /\ row.principal * MaxRate \in Int
    BY <1>1
  <2> QED
    BY <2>1 DEF Profit
<1> QED
  BY <1>2 DEF PassProfits

\* A pass changes lockedAmount, profitAccrued, the periods and nextAccrualAt,
\* and nothing when no period is due.
LEMMA PassChanges ==
    ASSUME NEW row \in Row, NEW n \in Nat, NEW profit \in Int
    PROVE  LET after == AfterPass(row, n, profit) IN
           /\ after \in Row
           /\ n = 0 => after = row
           /\ n # 0 => /\ after.locked = row.locked + profit
                       /\ after.accrued = row.accrued + profit
                       /\ after.periods = row.periods + n
                       /\ after.next = NextAfter(row, n)
           /\ after.status = row.status /\ after.userId = row.userId
           /\ after.principal = row.principal /\ after.paid = row.paid
           /\ after.payFrequency = row.payFrequency
           /\ after.start = row.start /\ after.end = row.end
<1>1. row.next \in Nat /\ row.payFrequency \in Nat /\ row.end \in Nat \cup {Never}
  BY DEF Row
<1>2. n * row.payFrequency \in Nat
  BY <1>1
<1>3. NextAfter(row, n) \in Nat
  BY <1>1, <1>2 DEF NextAfter, Never
<1>4. CASE n = 0
  BY <1>4 DEF AfterPass
<1>5. CASE n # 0
  <2> DEFINE after == [row EXCEPT !.locked = @ + profit, !.accrued = @ + profit,
                                  !.periods = @ + n, !.next = NextAfter(row, n)]
  <2>1. AfterPass(row, n, profit) = after
    BY <1>5 DEF AfterPass
  <2>2. after \in Row
    <3>1. /\ row.locked + profit \in Int /\ row.accrued + profit \in Int
          /\ row.periods + n \in Nat
      BY DEF Row
    <3>2. \A a, b \in Int, c, d \in Nat :
            [row EXCEPT !.locked = a, !.accrued = b, !.periods = c, !.next = d] \in Row
      BY DEF Row
    <3> QED
      BY <1>3, <3>1, <3>2
  <2>3. /\ after.locked = row.locked + profit /\ after.accrued = row.accrued + profit
        /\ after.periods = row.periods + n   /\ after.next = NextAfter(row, n)
        /\ after.status = row.status         /\ after.userId = row.userId
        /\ after.principal = row.principal   /\ after.paid = row.paid
        /\ after.payFrequency = row.payFrequency
        /\ after.start = row.start           /\ after.end = row.end
    BY DEF Row
  <2> HIDE DEF after
  <2> QED
    BY <1>5, <2>1, <2>2, <2>3
<1> QED
  BY <1>4, <1>5

\* The other changes of a row keep it a row, and its schedule as it is.
LEMMA RowChanges ==
    ASSUME NEW row \in Row
    PROVE  /\ Syncing(row) \in Row /\ Completed(row) \in Row /\ Cancelled(row) \in Row
           /\ \A s \in Statuses : [row EXCEPT !.status = s] \in Row
           /\ \A a \in Int : [row EXCEPT !.locked = row.locked + a,
                                         !.accrued = row.accrued + a] \in Row
<1>1. \A s \in Statuses : [row EXCEPT !.status = s] \in Row
  BY DEF Row
<1>2. \A s \in Statuses, a \in Int :
        [row EXCEPT !.status = s, !.locked = a] \in Row
  BY DEF Row
<1>3. \A s \in Statuses, a, b \in Int :
        [row EXCEPT !.status = s, !.locked = a, !.paid = b] \in Row
  BY DEF Row
<1>4. \A a, b \in Int : [row EXCEPT !.locked = a, !.accrued = b] \in Row
  BY DEF Row
<1>5. row.locked \in Int /\ row.accrued \in Int
  BY DEF Row
<1>6. {"SYNCING", "COMPLETED", "CANCELLED"} \subseteq Statuses /\ 0 \in Int
  BY DEF Statuses, Live, Ended
<1>7. Syncing(row) \in Row
  BY <1>1, <1>6 DEF Syncing
<1>8. Completed(row) \in Row
  BY <1>3, <1>5, <1>6 DEF Completed
<1>9. Cancelled(row) \in Row
  BY <1>2, <1>6 DEF Cancelled
<1>10. ASSUME NEW a \in Int
       PROVE  [row EXCEPT !.locked = row.locked + a, !.accrued = row.accrued + a] \in Row
  <2>1. row.locked + a \in Int /\ row.accrued + a \in Int
    BY <1>5
  <2> QED
    BY <1>4, <2>1
<1> QED
  BY <1>1, <1>7, <1>8, <1>9, <1>10

\* The rows of the table and of start() have the columns of the entity.
LEMMA NewRows ==
    /\ NoRow \in Row
    /\ \A u \in Users, plan \in Plans, principal \in Principals, b \in BOOLEAN :
         now \in Nat =>
           NewRow(u, plan, principal, IF b THEN "AWAITING" ELSE "ACTIVE") \in Row
<1>1. NoRow \in Row
  <2>1. (CHOOSE u \in Users : TRUE) \in Users
    BY ConstantsOK
  <2> QED
    BY <2>1 DEF NoRow, Row, Statuses, Live, Ended
<1>2. ASSUME NEW u \in Users, NEW plan \in Plans, NEW principal \in Principals,
             NEW b \in BOOLEAN, now \in Nat
      PROVE  NewRow(u, plan, principal, IF b THEN "AWAITING" ELSE "ACTIVE") \in Row
  <2>1. plan.payFrequency \in Nat /\ plan.minTerm \in Nat /\ plan.term \in Nat \cup {Never}
    BY ConstantsOK DEF Plan
  <2>2. principal \in Int
    BY ConstantsOK
  <2>3. (IF b THEN "AWAITING" ELSE "ACTIVE") \in Statuses
    BY DEF Statuses, Live
  <2> QED
    BY <1>2, <2>1, <2>2, <2>3 DEF NewRow, Row, Never
<1> QED
  BY <1>1, <1>2

\* The referrer's cut is an integer amount.
LEMMA CommissionIsInteger ==
    ASSUME NEW row \in Row PROVE Commission(row) \in Int
<1>1. row.accrued \in Int /\ CommissionPercent \in Int
  BY ConstantsOK DEF Row
<1>2. row.accrued * CommissionPercent \in Int
  BY <1>1
<1> QED
  BY <1>2 DEF Commission

-----------------------------------------------------------------------------
(* Type correctness.                                                       *)

\* Every handler, sweep, failure and restart keeps the variables well typed.
THEOREM TypeCorrect == Spec => []TypeOK
<1>1. Init => TypeOK
  BY NewRows, ConstantsOK DEF Init, TypeOK, SweepState, Asleep
<1>2. TypeOK /\ [Next]_vars => TypeOK'
  <2> SUFFICES ASSUME TypeOK, [Next]_vars PROVE TypeOK'
    OBVIOUS
  <2> USE DEF TypeOK
  <2>1. ASSUME NEW u \in Users, NEW i \in Trades, NEW plan \in Plans,
               NEW principal \in Principals, NEW b \in BOOLEAN,
               Start(u, i, plan, principal, b)
        PROVE  TypeOK'
    <3>1. NewRow(u, plan, principal, IF b THEN "AWAITING" ELSE "ACTIVE") \in Row
      BY NewRows
    <3>2. wallet[u] - principal \in Int
      BY ConstantsOK
    <3> QED
      BY <2>1, <3>1, <3>2 DEF Start
  <2>2. ASSUME NEW a \in Admins \cup Clients, NEW op \in Ops, NEW i \in Trades,
               Receive(a, op, i)
        PROVE  TypeOK'
    <3>1. (IF op \in WriteBackOps THEN inv[i] ELSE NoRow) \in Row
      BY NewRows
    <3> QED
      BY <2>2, <3>1 DEF Receive, Request
  <2>3. ASSUME NEW r \in inflight, Commit(r)
        PROVE  TypeOK'
    <3> r \in Request /\ r.trade \in Trades /\ r.row \in Row
      BY DEF Request
    <3> inflight \ {r} \subseteq Request
      OBVIOUS
    <3> DEFINE row == inv[r.trade]
    <3> row \in Row
      OBVIOUS
    <3>1. CASE End(r)
      <4>1. PICK profit \in PassProfits(row, DuePeriods(row)) :
              inv' = [inv EXCEPT ![r.trade] =
                        Syncing(AfterPass(row, DuePeriods(row), profit))]
        BY <3>1 DEF End
      <4>2. Syncing(AfterPass(row, DuePeriods(row), profit)) \in Row
        BY ZenonT(60), DuePeriodsLoop, ProfitsAreIntegers, PassChanges, RowChanges
      <4> QED
        BY <3>1, <4>1, <4>2 DEF End, Finish
    <3>2. CASE Complete(r)
      <4>1. PICK profit \in PassProfits(row, DuePeriods(row)) :
              LET due == AfterPass(row, DuePeriods(row), profit) IN
              /\ inv' = [inv EXCEPT ![r.trade] = Completed(due)]
              /\ Release(due)
              /\ commission' = [commission EXCEPT ![r.trade] = @ + Commission(due)]
        BY <3>2 DEF Complete
      <4> DEFINE due == AfterPass(row, DuePeriods(row), profit)
      <4>2. due \in Row
        BY DuePeriodsLoop, ProfitsAreIntegers, PassChanges
      <4> HIDE DEF due
      <4>3. due.userId \in Users /\ due.locked \in Int
        BY <4>2 DEF Row
      <4>4. inv' \in [Trades -> Row]
        BY <4>1, <4>2, RowChanges DEF due
      <4>5. wallet' \in [Users -> Int]
        BY <4>1, <4>3 DEF due, Release
      <4>6. commission' \in [Trades -> Int]
        BY <4>1, <4>2, CommissionIsInteger DEF due
      <4>7. payouts' \in [Trades -> [completed : Nat, cancelled : Nat]]
        BY <3>2 DEF Complete
      <4> QED
        BY <3>2, <4>4, <4>5, <4>6, <4>7 DEF Complete, Finish
    <3>3. CASE CompleteTooLate(r)
      BY <3>3 DEF CompleteTooLate, Finish
    <3>4. CASE Cancel(r)
      <4>1. Cancelled(r.row) \in Row
        BY RowChanges
      <4>2. r.row.userId \in Users /\ r.row.locked \in Int
        BY DEF Row
      <4> QED
        BY <3>4, <4>1, <4>2 DEF Cancel, Release, Finish
    <3>5. CASE SetStatus(r)
      <4>1. (IF r.op = "activate" THEN "ACTIVE" ELSE "AWAITING") \in Statuses
        BY DEF Statuses, Live
      <4> QED
        BY <3>5, <4>1, RowChanges DEF SetStatus, Finish
    <3>6. CASE Accrue(r)
      <4>1. CASE UNCHANGED inv
        BY <3>6, <4>1 DEF Accrue, Finish
      <4>2. ASSUME NEW amount \in ManualAmounts,
                   inv' = [inv EXCEPT ![r.trade].locked = @ + amount,
                                      ![r.trade].accrued = @ + amount]
            PROVE  TypeOK'
        <5>1. amount \in Int
          BY ConstantsOK
        <5>2. inv' = [inv EXCEPT ![r.trade] =
                        [row EXCEPT !.locked = row.locked + amount,
                                    !.accrued = row.accrued + amount]]
          BY <4>2
        <5> QED
          BY <3>6, <5>1, <5>2, RowChanges DEF Accrue, Finish
      <4> QED
        BY <3>6, <4>1, <4>2 DEF Accrue
    <3>7. CASE Remove(r)
      <4>1. inv' = [inv EXCEPT ![r.trade] = [row EXCEPT !.status = "REMOVED"]]
        BY <3>7 DEF Remove
      <4>2. [row EXCEPT !.status = "REMOVED"] \in Row
        BY RowChanges DEF Statuses
      <4> QED
        BY <3>7, <4>1, <4>2 DEF Remove, Finish
    <3>8. CASE Fail(r)
      BY <3>8 DEF Fail, Finish
    <3> QED
      BY <2>3, <3>1, <3>2, <3>3, <3>4, <3>5, <3>6, <3>7, <3>8 DEF Commit
  <2>4. ASSUME NEW s \in Sweeps, SweepStep(s)
        PROVE  TypeOK'
    <3> sweep[s] \in SweepState
      OBVIOUS
    <3>1. CASE SweepStart(s)
      BY <3>1 DEF SweepStart, SweepState, DueForAccrual
    <3>2. CASE SweepSelect(s)
      BY <3>2 DEF SweepSelect, SweepState, DueForCompletion
    <3>3. CASE SweepDone(s)
      BY <3>3 DEF SweepDone, SweepState, Asleep
    <3>4. ASSUME NEW i \in Trades, Drop(s, i)
          PROVE  sweep' \in [Sweeps -> SweepState]
      BY <3>4 DEF Drop, SweepState
    <3>5. ASSUME NEW i \in Trades, SweepAccrue(s, i)
          PROVE  TypeOK'
      <4>1. PICK profit \in PassProfits(inv[i], DuePeriods(inv[i])) :
              inv' = [inv EXCEPT ![i] = AfterPass(inv[i], DuePeriods(inv[i]), profit)]
        BY <3>5 DEF SweepAccrue
      <4>2. inv' \in [Trades -> Row]
        BY ZenonT(60), <4>1, DuePeriodsLoop, ProfitsAreIntegers, PassChanges
      <4> QED
        BY <3>4, <3>5, <4>2 DEF SweepAccrue
    <3>6. ASSUME NEW i \in Trades, SweepMark(s, i)
          PROVE  TypeOK'
      BY <3>4, <3>6, RowChanges DEF SweepMark
    <3>7. ASSUME NEW i \in Trades, SweepFail(s, i)
          PROVE  TypeOK'
      BY <3>4, <3>7 DEF SweepFail
    <3> QED
      BY <2>4, <3>1, <3>2, <3>3, <3>5, <3>6, <3>7 DEF SweepStep
  <2>5. CASE Restart
    BY <2>5 DEF Restart, SweepState, Asleep
  <2>6. CASE Tick
    BY <2>6 DEF Tick
  <2>7. CASE UNCHANGED vars
    BY <2>7 DEF vars
  <2>8. ASSUME NEW a \in Admins, NEW op \in AdminOps, NEW i \in Trades,
               AdminRequest(a, op, i)
        PROVE  TypeOK'
    BY <2>2, <2>8 DEF AdminRequest, Ops
  <2>9. ASSUME NEW c \in Clients, NEW i \in Trades, EndRequest(c, i)
        PROVE  TypeOK'
    BY <2>2, <2>9 DEF EndRequest, Ops
  <2> HIDE DEF TypeOK
  <2> QED
    BY <2>1, <2>3, <2>4, <2>5, <2>6, <2>7, <2>8, <2>9 DEF Next
<1> QED
  BY <1>1, <1>2, PTL DEF Spec

-----------------------------------------------------------------------------
(* What one step may do to one row and to the pending requests.            *)

\* A row stays, is inserted, is credited the due periods (and frozen or paid
\* out with it), is frozen, is overwritten by a request's copy, is credited
\* by hand, or is deleted.
RowStep(i) ==
    \/ inv'[i] = inv[i]
    \/ \E u \in Users, plan \in Plans, principal \in Principals, b \in BOOLEAN :
         /\ inv[i].status = "NONE"
         /\ inv'[i] = NewRow(u, plan, principal, IF b THEN "AWAITING" ELSE "ACTIVE")
    \/ \E profit \in Int :
         LET due == AfterPass(inv[i], DuePeriods(inv[i]), profit) IN
         \/ inv'[i] = due
         \/ inv'[i] = Syncing(due)
         \/ inv[i].status \in {"ACTIVE", "SYNCING"} /\ inv'[i] = Completed(due)
    \/ inv'[i] = Syncing(inv[i])
    \/ \E r \in inflight :
         /\ r.trade = i
         /\ \/ r.op = "cancel" /\ inv'[i] = Cancelled(r.row)
            \/ /\ r.op \in {"activate", "await"}
               /\ \E s \in {"ACTIVE", "AWAITING"} : inv'[i] = [r.row EXCEPT !.status = s]
            \/ r.op = "remove" /\ inv'[i] = [inv[i] EXCEPT !.status = "REMOVED"]
    \/ \E amount \in Int :
         /\ inv[i].status = "ACTIVE"
         /\ inv'[i] = [inv[i] EXCEPT !.locked = inv[i].locked + amount,
                                     !.accrued = inv[i].accrued + amount]

\* A request is an old one, or a new one whose first read was accepted.
NewRequest(r) ==
    /\ Idle(r.by)
    /\ r.by \in Admins => r.op \in AdminOps
    /\ r.by \in Clients => r.op = "end"
    /\ r.trade \in Trades
    /\ Accepts(r.op, inv[r.trade])
    /\ r.row = IF r.op \in WriteBackOps THEN inv[r.trade] ELSE NoRow
    /\ inv' = inv /\ payouts' = payouts

LEMMA TableStep ==
    ASSUME TypeOK, [Next]_vars
    PROVE  /\ \A i \in Trades : RowStep(i)
           /\ \A r \in inflight' : r \in inflight \/ NewRequest(r)
           /\ now <= now'
<1> USE DEF TypeOK
<1> DEFINE Goal == /\ \A i \in Trades : RowStep(i)
                   /\ \A r \in inflight' : r \in inflight \/ NewRequest(r)
                   /\ now <= now'
<1> SUFFICES Goal
  OBVIOUS
<1>1. ASSUME NEW u \in Users, NEW i \in Trades, NEW plan \in Plans,
             NEW principal \in Principals, NEW b \in BOOLEAN,
             Start(u, i, plan, principal, b)
      PROVE  Goal
  <2>1. /\ inv[i].status = "NONE"
        /\ inv' = [inv EXCEPT ![i] =
             NewRow(u, plan, principal, IF b THEN "AWAITING" ELSE "ACTIVE")]
        /\ inflight' = inflight /\ now' = now
    BY <1>1 DEF Start
  <2>2. RowStep(i)
    BY <2>1 DEF RowStep
  <2>3. \A j \in Trades \ {i} : RowStep(j)
    BY <2>1 DEF RowStep
  <2> QED
    BY <2>1, <2>2, <2>3
<1>2. ASSUME NEW a \in Admins \cup Clients, NEW op \in Ops, NEW i \in Trades,
             Receive(a, op, i), a \in Admins => op \in AdminOps,
             a \in Clients => op = "end"
      PROVE  Goal
  <2>1. \A j \in Trades : RowStep(j)
    BY <1>2 DEF Receive, RowStep
  <2>2. \A r \in inflight' : r \in inflight \/ NewRequest(r)
    <3> SUFFICES ASSUME NEW r \in inflight', r \notin inflight PROVE NewRequest(r)
      OBVIOUS
    <3>1. r = [by |-> a, op |-> op, trade |-> i,
               row |-> IF op \in WriteBackOps THEN inv[i] ELSE NoRow]
      BY <1>2 DEF Receive
    <3>2. r.by = a /\ r.op = op /\ r.trade = i
          /\ r.row = IF op \in WriteBackOps THEN inv[i] ELSE NoRow
      BY <3>1
    <3>3. Idle(a) /\ Accepts(op, inv[i]) /\ inv' = inv /\ payouts' = payouts
      BY <1>2 DEF Receive
    <3> QED
      BY <1>2, <3>2, <3>3 DEF NewRequest
  <2> QED
    BY <1>2, <2>1, <2>2 DEF Receive
<1>3. ASSUME NEW r \in inflight, Commit(r)
      PROVE  Goal
  <2> r.trade \in Trades
    BY DEF Request
  <2>1. inflight' \subseteq inflight /\ now' = now
    BY <1>3 DEF Commit, End, Complete, CompleteTooLate, Cancel, SetStatus, Accrue,
                Remove, Fail, Finish
  <2>2. ASSUME NEW i \in Trades
        PROVE  RowStep(i)
    <3>1. CASE End(r)
      BY ZenonT(60), <3>1, ProfitsAreIntegers, DuePeriodsLoop DEF End, RowStep
    <3>2. CASE Complete(r)
      <4>1. PICK profit \in PassProfits(inv[r.trade], DuePeriods(inv[r.trade])) :
              inv' = [inv EXCEPT ![r.trade] = Completed(
                        AfterPass(inv[r.trade], DuePeriods(inv[r.trade]), profit))]
        BY <3>2 DEF Complete
      <4>2. profit \in Int
        BY ProfitsAreIntegers, DuePeriodsLoop
      <4>3. inv[r.trade].status \in {"ACTIVE", "SYNCING"}
        BY <3>2 DEF Complete
      <4>4. CASE i = r.trade
        BY <4>1, <4>2, <4>3, <4>4 DEF RowStep
      <4>5. CASE i # r.trade
        BY <4>1, <4>5 DEF RowStep
      <4> QED
        BY <4>4, <4>5
    <3>3. CASE CompleteTooLate(r) \/ Fail(r)
      BY <3>3 DEF CompleteTooLate, Fail, RowStep
    <3>4. CASE Cancel(r)
      BY <3>4 DEF Cancel, RowStep
    <3>5. CASE SetStatus(r)
      BY <3>5 DEF SetStatus, RowStep
    <3>6. CASE Accrue(r)
      <4>1. CASE inv' = inv
        BY <4>1 DEF RowStep
      <4>2. ASSUME NEW amount \in ManualAmounts, inv[r.trade].status = "ACTIVE",
                   inv' = [inv EXCEPT ![r.trade].locked = @ + amount,
                                      ![r.trade].accrued = @ + amount]
            PROVE  RowStep(i)
        <5>1. amount \in Int
          BY ConstantsOK
        <5>2. inv' = [inv EXCEPT ![r.trade] =
                        [inv[r.trade] EXCEPT !.locked = inv[r.trade].locked + amount,
                                             !.accrued = inv[r.trade].accrued + amount]]
          BY <4>2
        <5> QED
          BY <4>2, <5>1, <5>2 DEF RowStep
      <4> QED
        BY <3>6, <4>1, <4>2 DEF Accrue
    <3>7. CASE Remove(r)
      BY <3>7 DEF Remove, RowStep
    <3> QED
      BY <1>3, <3>1, <3>2, <3>3, <3>4, <3>5, <3>6, <3>7 DEF Commit
  <2> QED
    BY <2>1, <2>2
<1>4. ASSUME NEW s \in Sweeps, SweepStep(s)
      PROVE  Goal
  <2>1. inflight' = inflight /\ now' = now
    BY <1>4 DEF SweepStep, SweepStart, SweepSelect, SweepDone, SweepAccrue,
                SweepMark, SweepFail
  <2>2. ASSUME NEW i \in Trades
        PROVE  RowStep(i)
    <3>1. CASE UNCHANGED inv
      BY <3>1 DEF RowStep
    <3>2. ASSUME NEW j \in Trades, SweepAccrue(s, j)
          PROVE  RowStep(i)
      BY ZenonT(60), <3>2, ProfitsAreIntegers, DuePeriodsLoop DEF SweepAccrue, RowStep
    <3>3. ASSUME NEW j \in Trades, SweepMark(s, j)
          PROVE  RowStep(i)
      BY <3>3 DEF SweepMark, RowStep
    <3> QED
      BY <1>4, <3>1, <3>2, <3>3
      DEF SweepStep, SweepStart, SweepSelect, SweepDone, SweepFail
  <2> QED
    BY <2>1, <2>2
<1>5. CASE Restart
  BY <1>5 DEF Restart, RowStep
<1>6. CASE Tick
  BY <1>6 DEF Tick, RowStep
<1>7. CASE UNCHANGED vars
  BY <1>7 DEF vars, RowStep
<1>8. ASSUME NEW a \in Admins, NEW op \in AdminOps, NEW i \in Trades,
             AdminRequest(a, op, i)
      PROVE  Goal
  BY <1>2, <1>8, ConstantsOK DEF AdminRequest, Ops
<1>9. ASSUME NEW c \in Clients, NEW i \in Trades, EndRequest(c, i)
      PROVE  Goal
  BY <1>2, <1>9, ConstantsOK DEF EndRequest, Ops
<1> HIDE DEF Goal
<1> QED
  BY <1>1, <1>3, <1>4, <1>5, <1>6, <1>7, <1>8, <1>9 DEF Next

-----------------------------------------------------------------------------
(* The books of a row.                                                     *)

\* A copy that will be saved was accepted by the check of its handler.
CopyAccepted(r) ==
    /\ r.op = "cancel" => r.row.status = "ACTIVE"
    /\ r.op \in {"activate", "await"} => r.row.status \in {"ACTIVE", "AWAITING"}

BooksInv == BooksBalance /\ \A r \in inflight : CopyAccepted(r)

\* A pass keeps the books of a row.
LEMMA PassBalances ==
    ASSUME NEW row \in Row, RowBalances(row), NEW profit \in Int
    PROVE  LET due == AfterPass(row, DuePeriods(row), profit) IN
           due \in Row /\ RowBalances(due) /\ due.status = row.status
<1> USE DEF RowBalances, Live, Ended
<1> DEFINE due == AfterPass(row, DuePeriods(row), profit)
<1>1. DuePeriods(row) \in Nat /\ (row.status # "ACTIVE" => DuePeriods(row) = 0)
  BY DuePeriodsLoop
<1>2. CASE DuePeriods(row) = 0
  BY <1>1, <1>2, PassChanges
<1>3. CASE DuePeriods(row) # 0
  <2>1. /\ due \in Row /\ due.status = "ACTIVE" /\ row.status = "ACTIVE"
        /\ due.locked = row.locked + profit /\ due.accrued = row.accrued + profit
        /\ due.principal = row.principal /\ due.paid = row.paid
    BY <1>1, <1>3, PassChanges
  <2>2. row.locked = row.principal + row.accrued /\ row.paid = 0
    BY <2>1
  <2>3. row.locked \in Int /\ row.principal \in Int /\ row.accrued \in Int
    BY DEF Row
  <2> QED
    BY <2>1, <2>2, <2>3
<1> QED
  BY <1>2, <1>3

\* No step unbalances a row.
LEMMA RowStepBalances ==
    ASSUME TypeOK, BooksInv, NEW i \in Trades, RowStep(i)
    PROVE  RowBalances(inv'[i])
<1> DEFINE row == inv[i]
<1> USE DEF RowBalances, Live, Ended
<1>1. row \in Row /\ RowBalances(row)
  BY DEF TypeOK, BooksInv, BooksBalance
<1>2. CASE inv'[i] = row
  BY <1>1, <1>2
<1>3. ASSUME NEW u \in Users, NEW plan \in Plans, NEW principal \in Principals,
             NEW b \in BOOLEAN,
             inv'[i] = NewRow(u, plan, principal, IF b THEN "AWAITING" ELSE "ACTIVE")
      PROVE  RowBalances(inv'[i])
  <2>1. principal \in Int
    BY ConstantsOK
  <2> QED
    BY <1>3, <2>1 DEF NewRow
<1>4. ASSUME NEW profit \in Int,
             LET due == AfterPass(row, DuePeriods(row), profit) IN
             \/ inv'[i] = due
             \/ inv'[i] = Syncing(due)
             \/ row.status \in {"ACTIVE", "SYNCING"} /\ inv'[i] = Completed(due)
      PROVE  RowBalances(inv'[i])
  <2> DEFINE due == AfterPass(row, DuePeriods(row), profit)
  <2>1. due \in Row /\ RowBalances(due) /\ due.status = row.status
    BY <1>1, PassBalances
  <2> HIDE DEF due
  <2>2. CASE inv'[i] = due
    BY <2>1, <2>2
  <2>3. CASE inv'[i] = Syncing(due)
    BY <2>1, <2>3 DEF Syncing, Row
  <2>4. CASE inv'[i] = Completed(due)
    BY <2>1, <2>4 DEF Completed, Row
  <2> QED
    BY <1>4, <2>2, <2>3, <2>4 DEF due
<1>5. CASE inv'[i] = Syncing(row)
  BY <1>1, <1>5 DEF Syncing, Row
<1>6. ASSUME NEW r \in inflight, r.trade = i,
             \/ r.op = "cancel" /\ inv'[i] = Cancelled(r.row)
             \/ /\ r.op \in {"activate", "await"}
                /\ \E s \in {"ACTIVE", "AWAITING"} : inv'[i] = [r.row EXCEPT !.status = s]
             \/ r.op = "remove" /\ inv'[i] = [row EXCEPT !.status = "REMOVED"]
      PROVE  RowBalances(inv'[i])
  <2>1. r.row \in Row /\ RowBalances(r.row) /\ CopyAccepted(r)
    BY DEF TypeOK, Request, BooksInv, BooksBalance
  <2>2. CASE r.op = "cancel" /\ inv'[i] = Cancelled(r.row)
    BY <2>1, <2>2 DEF Cancelled, CopyAccepted, Row
  <2>3. ASSUME NEW s \in {"ACTIVE", "AWAITING"}, r.op \in {"activate", "await"},
               inv'[i] = [r.row EXCEPT !.status = s]
        PROVE  RowBalances(inv'[i])
    BY <2>1, <2>3 DEF CopyAccepted, Row
  <2>4. CASE inv'[i] = [row EXCEPT !.status = "REMOVED"]
    BY <1>1, <2>4 DEF Row
  <2> QED
    BY <1>6, <2>2, <2>3, <2>4
<1>7. ASSUME NEW amount \in Int, row.status = "ACTIVE",
             inv'[i] = [row EXCEPT !.locked = row.locked + amount,
                                   !.accrued = row.accrued + amount]
      PROVE  RowBalances(inv'[i])
  BY <1>1, <1>7 DEF Row
<1> QED
  BY <1>2, <1>3, <1>4, <1>5, <1>6, <1>7 DEF RowStep

\* The books balance, and every copy was accepted, in every reachable state.
LEMMA BooksInvHolds == Spec => []BooksInv
<1>1. Init => BooksInv
  BY DEF Init, BooksInv, BooksBalance, RowBalances, NoRow, Live, Ended
<1>2. TypeOK /\ BooksInv /\ [Next]_vars => BooksInv'
  <2> SUFFICES ASSUME TypeOK, BooksInv, [Next]_vars PROVE BooksInv'
    OBVIOUS
  <2>1. \A i \in Trades : RowBalances(inv'[i])
    BY TableStep, RowStepBalances
  <2>2. ASSUME NEW r \in inflight'
        PROVE  RowBalances(r.row) /\ CopyAccepted(r)
    <3>1. CASE r \in inflight
      BY <3>1 DEF BooksInv, BooksBalance
    <3>2. CASE NewRequest(r)
      <4>1. RowBalances(NoRow)
        BY DEF RowBalances, NoRow, Live, Ended
      <4>2. RowBalances(r.row)
        BY <3>2, <4>1 DEF NewRequest, BooksInv, BooksBalance
      <4>3. CopyAccepted(r)
        BY <3>2 DEF NewRequest, CopyAccepted, Accepts, WriteBackOps
      <4> QED
        BY <4>2, <4>3
    <3> QED
      BY <3>1, <3>2, TableStep
  <2> QED
    BY <2>1, <2>2 DEF BooksInv, BooksBalance
<1> QED
  BY <1>1, <1>2, TypeCorrect, PTL DEF Spec

\* lockedAmount is principal plus profit exactly while the trade lives, in
\* every stored row and every copy, for any number of overlapping admins,
\* users and sweeps.
THEOREM BooksAlwaysBalance == Spec => []BooksBalance
<1>1. BooksInv => BooksBalance
  BY DEF BooksInv
<1> QED
  BY <1>1, BooksInvHolds, PTL

-----------------------------------------------------------------------------
(* The schedule of a row.                                                  *)

\* n periods after the one numbered m end n periods later.
LEMMA DueTimesAdd ==
    ASSUME NEW row \in Row, NEW m \in Nat, NEW n \in Nat
    PROVE  /\ DueTime(row, m) \in Nat
           /\ DueTime(row, m + n) = DueTime(row, m) + n * row.payFrequency
<1>1. row.start \in Nat /\ row.payFrequency \in Nat
  BY DEF Row
<1>2. /\ m * row.payFrequency \in Nat
      /\ (m + n) * row.payFrequency = m * row.payFrequency + n * row.payFrequency
  BY <1>1
<1> QED
  BY <1>1, <1>2 DEF DueTime

\* A credited period stays in the past as time goes on.
LEMMA ScheduleInTime ==
    ASSUME NEW row \in Row, NEW s \in Nat, NEW t \in Nat, s <= t, RowOnSchedule(row, s)
    PROVE  RowOnSchedule(row, t)
<1>1. row.periods \in Nat
  BY DEF Row
<1>2. DueTime(row, row.periods) \in Nat
  BY <1>1, DueTimesAdd
<1> QED
  BY <1>2 DEF RowOnSchedule

\* Only these columns matter to the schedule.
LEMMA SameSchedule ==
    ASSUME NEW row, NEW other, NEW t,
           other.periods = row.periods, other.payFrequency = row.payFrequency,
           other.start = row.start, other.end = row.end, other.next = row.next,
           RowOnSchedule(row, t)
    PROVE  RowOnSchedule(other, t)
BY DEF RowOnSchedule, DueTime

\* The loop of applyScheduledAccruals credits the periods from nextAccrualAt
\* on, all of them elapsed, and moves nextAccrualAt past them.
LEMMA PassOnSchedule ==
    ASSUME now \in Nat, NEW row \in Row, RowOnSchedule(row, now), NEW profit \in Int
    PROVE  RowOnSchedule(AfterPass(row, DuePeriods(row), profit), now)
<1> DEFINE n == DuePeriods(row)
           after == AfterPass(row, n, profit)
<1>1. n \in Nat /\ \A k \in Nat : k < n => LoopRuns(row, k)
  BY DuePeriodsLoop
<1>2. CASE n = 0
  BY <1>1, <1>2, PassChanges
<1>3. CASE n # 0
  <2>1. /\ after.periods = row.periods + n /\ after.next = NextAfter(row, n)
        /\ after.payFrequency = row.payFrequency
        /\ after.start = row.start /\ after.end = row.end
    BY <1>1, <1>3, PassChanges
  <2> HIDE DEF n, after
  <2>2. /\ row.next \in Nat /\ row.end \in Nat \cup {Never} /\ row.periods \in Nat
        /\ row.payFrequency \in Nat
    BY DEF Row
  <2>3. /\ row.next + 0 * row.payFrequency <= now
        /\ row.end = Never \/ row.next + 0 * row.payFrequency < row.end
    BY <1>1, <1>3 DEF LoopRuns
  <2>4. /\ row.next + (n - 1) * row.payFrequency <= now
        /\ row.end = Never \/ row.next + (n - 1) * row.payFrequency < row.end
    BY <1>1, <1>3 DEF LoopRuns
  <2>5. row.next = DueTime(row, row.periods + 1)
    BY <2>2, <2>3 DEF RowOnSchedule, Never
  <2>6. /\ DueTime(row, row.periods + n) = row.next + (n - 1) * row.payFrequency
        /\ DueTime(row, row.periods + n) \in Nat
    <3>1. row.periods + 1 \in Nat /\ n - 1 \in Nat
          /\ (row.periods + 1) + (n - 1) = row.periods + n
      BY <1>1, <1>3, <2>2
    <3>2. /\ DueTime(row, (row.periods + 1) + (n - 1))
             = DueTime(row, row.periods + 1) + (n - 1) * row.payFrequency
          /\ DueTime(row, (row.periods + 1) + (n - 1)) \in Nat
      <4>1. \A p, q \in Nat : /\ DueTime(row, p + q) = DueTime(row, p) + q * row.payFrequency
                              /\ DueTime(row, p + q) \in Nat
        <5> TAKE p, q \in Nat
        <5>1. p + q \in Nat
          OBVIOUS
        <5> QED
          BY <5>1, DueTimesAdd
      <4> QED
        BY <3>1, <4>1
    <3> QED
      BY <2>5, <3>1, <3>2
  <2>7. DueTime(row, row.periods + n + 1) = row.next + n * row.payFrequency
    <3>1. row.periods + 1 \in Nat
          /\ (row.periods + 1) + n = row.periods + n + 1
      BY <1>1, <2>2
    <3>2. \A p, q \in Nat : DueTime(row, p + q) = DueTime(row, p) + q * row.payFrequency
      BY DueTimesAdd
    <3>3. DueTime(row, (row.periods + 1) + n) = DueTime(row, row.periods + 1) + n * row.payFrequency
      BY <1>1, <3>1, <3>2
    <3> QED
      BY <2>5, <3>1, <3>3
  <2>8. \A m : DueTime(after, m) = DueTime(row, m)
    BY <2>1 DEF DueTime
  <2>9. \/ after.next = DueTime(after, after.periods + 1)
        \/ after.next = after.end /\ after.end < DueTime(after, after.periods + 1)
    <3>1. DueTime(after, after.periods + 1) = row.next + n * row.payFrequency
      BY <2>1, <2>7, <2>8
    <3> QED
      BY <2>1, <3>1 DEF NextAfter
  <2>10. /\ DueTime(after, after.periods) <= now
         /\ after.end # Never => DueTime(after, after.periods) < after.end
    BY <2>1, <2>4, <2>6, <2>8
  <2>11. RowOnSchedule(after, now)
    BY <2>9, <2>10 DEF RowOnSchedule
  <2> QED
    BY <2>11 DEF after, n
<1> QED
  BY <1>2, <1>3

\* No step credits a period early or again.
LEMMA RowStepOnSchedule ==
    ASSUME TypeOK, NoPeriodPaidTwice, NEW i \in Trades, RowStep(i)
    PROVE  RowOnSchedule(inv'[i], now)
<1> DEFINE row == inv[i]
<1>1. row \in Row /\ RowOnSchedule(row, now) /\ now \in Nat
  BY DEF TypeOK, NoPeriodPaidTwice
<1>2. CASE inv'[i] = row
  BY <1>1, <1>2
<1>3. ASSUME NEW u \in Users, NEW plan \in Plans, NEW principal \in Principals,
             NEW b \in BOOLEAN,
             inv'[i] = NewRow(u, plan, principal, IF b THEN "AWAITING" ELSE "ACTIVE")
      PROVE  RowOnSchedule(inv'[i], now)
  <2>1. plan.payFrequency \in Nat
    BY ConstantsOK DEF Plan
  <2>2. /\ inv'[i].periods = 0 /\ inv'[i].start = now
        /\ inv'[i].payFrequency = plan.payFrequency
        /\ inv'[i].next = now + plan.payFrequency
    BY <1>3 DEF NewRow
  <2>3. (0 + 1) * plan.payFrequency = plan.payFrequency
    BY <2>1
  <2> QED
    BY <2>2, <2>3 DEF RowOnSchedule, DueTime
<1>4. ASSUME NEW profit \in Int,
             LET due == AfterPass(row, DuePeriods(row), profit) IN
             \/ inv'[i] = due
             \/ inv'[i] = Syncing(due)
             \/ row.status \in {"ACTIVE", "SYNCING"} /\ inv'[i] = Completed(due)
      PROVE  RowOnSchedule(inv'[i], now)
  <2> DEFINE due == AfterPass(row, DuePeriods(row), profit)
  <2>1. due \in Row /\ RowOnSchedule(due, now)
    BY <1>1, DuePeriodsLoop, PassChanges, PassOnSchedule
  <2> HIDE DEF due
  <2>2. \/ inv'[i] = due \/ inv'[i] = Syncing(due) \/ inv'[i] = Completed(due)
    BY <1>4 DEF due
  <2>3. /\ inv'[i].periods = due.periods /\ inv'[i].payFrequency = due.payFrequency
        /\ inv'[i].start = due.start /\ inv'[i].end = due.end /\ inv'[i].next = due.next
    BY <2>1, <2>2 DEF Syncing, Completed, Row
  <2> QED
    BY <2>1, <2>3, SameSchedule
<1>5. CASE inv'[i] = Syncing(row)
  <2>1. /\ inv'[i].periods = row.periods /\ inv'[i].payFrequency = row.payFrequency
        /\ inv'[i].start = row.start /\ inv'[i].end = row.end /\ inv'[i].next = row.next
    BY <1>1, <1>5 DEF Syncing, Row
  <2> QED
    BY <1>1, <2>1, SameSchedule
<1>6. ASSUME NEW r \in inflight, r.trade = i,
             \/ r.op = "cancel" /\ inv'[i] = Cancelled(r.row)
             \/ /\ r.op \in {"activate", "await"}
                /\ \E s \in {"ACTIVE", "AWAITING"} : inv'[i] = [r.row EXCEPT !.status = s]
             \/ r.op = "remove" /\ inv'[i] = [row EXCEPT !.status = "REMOVED"]
      PROVE  RowOnSchedule(inv'[i], now)
  <2>1. PICK old \in {row, r.row} :
          \/ inv'[i] = Cancelled(old)
          \/ \E s \in Statuses : inv'[i] = [old EXCEPT !.status = s]
    BY <1>6 DEF Statuses, Live, Ended
  <2>2. old \in Row /\ RowOnSchedule(old, now)
    BY <1>1 DEF TypeOK, Request, NoPeriodPaidTwice
  <2>3. /\ inv'[i].periods = old.periods /\ inv'[i].payFrequency = old.payFrequency
        /\ inv'[i].start = old.start /\ inv'[i].end = old.end /\ inv'[i].next = old.next
    BY <2>1, <2>2 DEF Cancelled, Row
  <2> QED
    BY <2>2, <2>3, SameSchedule
<1>7. ASSUME NEW amount \in Int,
             inv'[i] = [row EXCEPT !.locked = row.locked + amount,
                                   !.accrued = row.accrued + amount]
      PROVE  RowOnSchedule(inv'[i], now)
  <2>1. /\ inv'[i].periods = row.periods /\ inv'[i].payFrequency = row.payFrequency
        /\ inv'[i].start = row.start /\ inv'[i].end = row.end /\ inv'[i].next = row.next
    BY <1>1, <1>7 DEF Row
  <2> QED
    BY <1>1, <2>1, SameSchedule
<1> QED
  BY <1>2, <1>3, <1>4, <1>5, <1>6, <1>7 DEF RowStep

\* Every credited period has elapsed, lies before the end, and is the one
\* nextAccrualAt stood at: none is paid twice, whatever sweeps, users and
\* admins overlap and however stale the copies they save.
THEOREM PeriodsPaidOnce == Spec => []NoPeriodPaidTwice
<1>1. RowOnSchedule(NoRow, 0)
  BY DEF RowOnSchedule, DueTime, NoRow
<1>2. Init => NoPeriodPaidTwice
  BY <1>1 DEF Init, NoPeriodPaidTwice
<1>3. TypeOK /\ TypeOK' /\ NoPeriodPaidTwice /\ [Next]_vars => NoPeriodPaidTwice'
  <2> SUFFICES ASSUME TypeOK, TypeOK', NoPeriodPaidTwice, [Next]_vars
               PROVE  NoPeriodPaidTwice'
    OBVIOUS
  <2>1. now \in Nat /\ now' \in Nat /\ now <= now'
    BY TableStep DEF TypeOK
  <2>2. ASSUME NEW i \in Trades
        PROVE  RowOnSchedule(inv'[i], now')
    <3>1. inv'[i] \in Row
      BY DEF TypeOK
    <3>2. RowOnSchedule(inv'[i], now)
      BY TableStep, RowStepOnSchedule
    <3> QED
      BY <2>1, <3>1, <3>2, ScheduleInTime
  <2>3. ASSUME NEW r \in inflight'
        PROVE  RowOnSchedule(r.row, now')
    <3>1. r.row \in Row
      BY DEF TypeOK, Request
    <3>2. CASE r \in inflight
      BY <2>1, <3>1, <3>2, ScheduleInTime DEF NoPeriodPaidTwice
    <3>3. CASE NewRequest(r)
      <4>1. RowOnSchedule(NoRow, now)
        BY <1>1, <2>1, NewRows, ScheduleInTime
      <4>2. RowOnSchedule(r.row, now)
        BY <3>3, <4>1 DEF NewRequest, NoPeriodPaidTwice
      <4> QED
        BY <2>1, <3>1, <4>2, ScheduleInTime
    <3> QED
      BY <3>2, <3>3, TableStep
  <2> QED
    BY <2>2, <2>3 DEF NoPeriodPaidTwice
<1> QED
  BY <1>2, <1>3, TypeCorrect, PTL DEF Spec

-----------------------------------------------------------------------------
(* One admin.  What holds when no two admin requests overlap: a trade is   *)
(* paid out once, when it ends, stays ended, and earns its referrer one    *)
(* commission; no money appears or vanishes.  trade_two_admins.cfg shows   *)
(* that the assumption cannot be dropped.                                  *)

\* The console sends an admin request only after the one before it returned.
OneAdminAtATime == \A a, b \in Admins : a = b

-----------------------------------------------------------------------------
(* The invariant.                                                          *)

\* Only an admin's request saves a copy or pays, and there is one at most.
OneAdminRequest ==
    /\ \A r \in inflight : r.op # "end" => r.by \in Admins
    /\ \A q, r \in inflight : q.op # "end" /\ r.op # "end" => q = r

\* The row a request means to overwrite or delete is still the one it judged.
Secured(r) ==
    /\ r.op \in WriteBackOps => inv[r.trade].status \in Live
    /\ r.op = "remove" => inv[r.trade].status \in Ended

SerialInv ==
    /\ OneAdminRequest
    /\ \A r \in inflight : Secured(r)
    /\ PaidOnceIffEnded

-----------------------------------------------------------------------------
(* What a step may do to the status of a row and to its payouts.           *)

\* Everything but an admin's transaction keeps a live row live and a row that
\* has ended ended, and pays nothing.
Moves(old, new) ==
    \/ new = old
    \/ old \in Live \cup {"NONE"} /\ new \in Live

\* An admin's transaction on one row.
Settles(r) ==
    LET old == inv[r.trade].status
        new == inv'[r.trade].status
        paid == payouts'[r.trade].completed + payouts'[r.trade].cancelled
    IN
    /\ r.op # "end"
    /\ inflight' = inflight \ {r}
    /\ \A i \in Trades \ {r.trade} : inv'[i] = inv[i] /\ payouts'[i] = payouts[i]
    /\ \/ new = old /\ paid = Payouts(r.trade)
       \/ old \in Live /\ new = "COMPLETED" /\ paid = Payouts(r.trade) + 1
       \/ r.op = "cancel" /\ new = "CANCELLED" /\ paid = Payouts(r.trade) + 1
       \/ r.op \in WriteBackOps /\ new \in Live /\ paid = Payouts(r.trade)
       \/ r.op = "remove" /\ new = "REMOVED" /\ paid = Payouts(r.trade)

Quiet ==
    /\ payouts' = payouts
    /\ \A i \in Trades : Moves(inv[i].status, inv'[i].status)

\* A pass and a freeze only move a row between the statuses of a live one.
LEMMA PassMoves ==
    ASSUME NEW row \in Row, NEW profit \in Int
    PROVE  LET due == AfterPass(row, DuePeriods(row), profit) IN
           /\ due.status = row.status
           /\ Moves(row.status, due.status)
           /\ Moves(row.status, Syncing(due).status)
           /\ Moves(row.status, Syncing(row).status)
<1> DEFINE due == AfterPass(row, DuePeriods(row), profit)
<1>1. due \in Row /\ due.status = row.status
  BY DuePeriodsLoop, PassChanges
<1> HIDE DEF due
<1>2. \A other \in Row : Moves(other.status, Syncing(other).status)
  BY DEF Syncing, Moves, Live, Row
<1> QED
  BY <1>1, <1>2 DEF Moves, due

\* An admin's transaction settles its request.
LEMMA AdminCommit ==
    ASSUME TypeOK, NEW r \in inflight, Commit(r), r.op # "end", ~Fail(r)
    PROVE  Settles(r)
<1> DEFINE i == r.trade
           row == inv[i]
<1>1. /\ i \in Trades /\ row \in Row /\ r.row \in Row /\ inv \in [Trades -> Row]
      /\ payouts \in [Trades -> [completed : Nat, cancelled : Nat]]
  BY DEF TypeOK, Request
<1>2. CASE Complete(r)
  <2>1. PICK profit \in PassProfits(row, DuePeriods(row)) :
          inv' = [inv EXCEPT ![i] = Completed(AfterPass(row, DuePeriods(row), profit))]
    BY <1>2 DEF Complete
  <2>2. /\ row.status \in {"ACTIVE", "SYNCING"}
        /\ payouts' = [payouts EXCEPT ![i].completed = @ + 1]
        /\ inflight' = inflight \ {r}
    BY <1>2 DEF Complete, Finish
  <2>3. profit \in Int
    BY <1>1, ProfitsAreIntegers, DuePeriodsLoop
  <2>4. AfterPass(row, DuePeriods(row), profit) \in Row
    BY <1>1, <2>3, DuePeriodsLoop, PassChanges
  <2>5. \A other \in Row : Completed(other).status = "COMPLETED"
    BY DEF Completed, Row
  <2>6. inv'[i].status = "COMPLETED"
    BY <1>1, <2>1, <2>4, <2>5
  <2>7. payouts'[i].completed + payouts'[i].cancelled = Payouts(i) + 1
    <3>1. payouts'[i] = [payouts[i] EXCEPT !.completed = payouts[i].completed + 1]
      BY <1>1, <2>2
    <3>2. /\ payouts'[i].completed = payouts[i].completed + 1
          /\ payouts'[i].cancelled = payouts[i].cancelled
      BY <1>1, <3>1
    <3> QED
      BY <1>1, <3>2 DEF Payouts
  <2>8. \A j \in Trades \ {i} : inv'[j] = inv[j] /\ payouts'[j] = payouts[j]
    BY <1>1, <2>1, <2>2
  <2> QED
    BY <2>2, <2>6, <2>7, <2>8 DEF Settles, Live
<1>3. CASE CompleteTooLate(r)
  BY <1>3 DEF CompleteTooLate, Settles, Finish, Payouts
<1>4. CASE Cancel(r)
  <2>1. /\ r.op = "cancel" /\ inflight' = inflight \ {r}
        /\ inv' = [inv EXCEPT ![i] = Cancelled(r.row)]
        /\ payouts' = [payouts EXCEPT ![i].cancelled = @ + 1]
    BY <1>4 DEF Cancel, Finish
  <2>2. inv'[i].status = "CANCELLED"
    BY <1>1, <2>1 DEF Cancelled, Row
  <2>3. payouts'[i].completed + payouts'[i].cancelled = Payouts(i) + 1
    <3>1. payouts'[i] = [payouts[i] EXCEPT !.cancelled = payouts[i].cancelled + 1]
      BY <1>1, <2>1
    <3>2. /\ payouts'[i].cancelled = payouts[i].cancelled + 1
          /\ payouts'[i].completed = payouts[i].completed
      BY <1>1, <3>1
    <3> QED
      BY <1>1, <3>2 DEF Payouts
  <2>4. \A j \in Trades \ {i} : inv'[j] = inv[j] /\ payouts'[j] = payouts[j]
    BY <1>1, <2>1
  <2> QED
    BY <2>1, <2>2, <2>3, <2>4 DEF Settles
<1>5. CASE SetStatus(r)
  <2>1. PICK s \in {"ACTIVE", "AWAITING"} :
          inv' = [inv EXCEPT ![i] = [r.row EXCEPT !.status = s]]
    BY <1>5 DEF SetStatus
  <2>2. /\ r.op \in WriteBackOps /\ inflight' = inflight \ {r} /\ payouts' = payouts
    BY <1>5 DEF SetStatus, Finish, WriteBackOps
  <2>3. inv'[i].status \in Live
    BY <1>1, <2>1 DEF Row, Live
  <2>4. \A j \in Trades \ {i} : inv'[j] = inv[j]
    BY <1>1, <2>1
  <2> QED
    BY <2>2, <2>3, <2>4 DEF Settles, WriteBackOps, Payouts
<1>6. CASE Accrue(r)
  <2>1. inflight' = inflight \ {r} /\ payouts' = payouts
    BY <1>6 DEF Accrue, Finish
  <2>2. CASE inv' = inv
    BY <2>1, <2>2, <1>6 DEF Settles, Payouts, Accrue
  <2>3. ASSUME NEW amount \in ManualAmounts,
               inv' = [inv EXCEPT ![i].locked = @ + amount, ![i].accrued = @ + amount]
        PROVE  Settles(r)
    <3>1. inv' = [inv EXCEPT ![i] = [row EXCEPT !.locked = row.locked + amount,
                                                !.accrued = row.accrued + amount]]
      BY <2>3
    <3>2. \A a, b : [row EXCEPT !.locked = a, !.accrued = b].status = row.status
      BY <1>1 DEF Row
    <3>3. inv'[i].status = row.status /\ \A j \in Trades \ {i} : inv'[j] = inv[j]
      BY <1>1, <3>1, <3>2
    <3> QED
      BY <2>1, <3>3, <1>6 DEF Settles, Payouts, Accrue
  <2> QED
    BY <1>6, <2>2, <2>3 DEF Accrue
<1>7. CASE Remove(r)
  <2>1. /\ r.op = "remove" /\ inflight' = inflight \ {r} /\ payouts' = payouts
        /\ inv' = [inv EXCEPT ![i].status = "REMOVED"]
    BY <1>7 DEF Remove, Finish
  <2>2. inv'[i].status = "REMOVED" /\ \A j \in Trades \ {i} : inv'[j] = inv[j]
    BY <1>1, <2>1 DEF Row
  <2> QED
    BY <2>1, <2>2 DEF Settles, Payouts
<1> QED
  BY <1>2, <1>3, <1>4, <1>5, <1>6, <1>7 DEF Commit, End

\* Every step is quiet or settles one request, and at most one request is new.
LEMMA SerialStep ==
    ASSUME TypeOK, [Next]_vars
    PROVE  /\ Quiet \/ \E r \in inflight : Settles(r)
           /\ \A q, r \in inflight' \ inflight : q = r
<1> DEFINE OneNew == \A q, r \in inflight' \ inflight : q = r
           Goal == (Quiet \/ \E r \in inflight : Settles(r)) /\ OneNew
<1> SUFFICES Goal
  OBVIOUS
<1>1. ASSUME UNCHANGED <<inv, payouts>>
      PROVE  Quiet
  BY <1>1 DEF Quiet, Moves
<1>2. ASSUME NEW u \in Users, NEW i \in Trades, NEW plan \in Plans,
             NEW principal \in Principals, NEW b \in BOOLEAN,
             Start(u, i, plan, principal, b)
      PROVE  Quiet /\ OneNew
  <2>1. /\ inv[i].status = "NONE" /\ payouts' = payouts /\ inflight' = inflight
        /\ inv' = [inv EXCEPT ![i] =
             NewRow(u, plan, principal, IF b THEN "AWAITING" ELSE "ACTIVE")]
    BY <1>2 DEF Start
  <2>2. inv'[i].status \in Live
    BY <2>1 DEF TypeOK, NewRow, Live
  <2>3. \A j \in Trades : Moves(inv[j].status, inv'[j].status)
    BY <2>1, <2>2 DEF TypeOK, Moves
  <2> QED
    BY <2>1, <2>3 DEF Quiet
<1>3. ASSUME NEW a, NEW op, NEW i, Receive(a, op, i)
      PROVE  Quiet /\ OneNew
  BY <1>1, <1>3 DEF Receive
<1>4. ASSUME NEW r \in inflight, Commit(r)
      PROVE  (Quiet \/ Settles(r)) /\ OneNew
  <2>1. inflight' \subseteq inflight
    BY <1>4 DEF Commit, End, Complete, CompleteTooLate, Cancel, SetStatus, Accrue,
                Remove, Fail, Finish
  <2>2. CASE Fail(r)
    BY <1>1, <2>1, <2>2 DEF Fail
  <2>3. CASE r.op # "end" /\ ~Fail(r)
    BY <1>4, <2>1, <2>3, AdminCommit
  <2>4. CASE r.op = "end" /\ ~Fail(r)
    <3>1. End(r)
      BY <1>4, <2>4 DEF Commit, Complete, CompleteTooLate, Cancel, SetStatus, Accrue, Remove
    <3>2. r.trade \in Trades /\ inv[r.trade] \in Row
      BY DEF TypeOK, Request
    <3>3. PICK profit \in PassProfits(inv[r.trade], DuePeriods(inv[r.trade])) :
            inv' = [inv EXCEPT ![r.trade] =
                      Syncing(AfterPass(inv[r.trade], DuePeriods(inv[r.trade]), profit))]
      BY <3>1 DEF End
    <3>4. Moves(inv[r.trade].status, inv'[r.trade].status)
      <4>1. profit \in Int
        BY <3>2, ProfitsAreIntegers, DuePeriodsLoop
      <4> QED
        BY <3>2, <3>3, <4>1, PassMoves DEF TypeOK
    <3>5. \A j \in Trades : Moves(inv[j].status, inv'[j].status)
      BY <3>3, <3>4 DEF TypeOK, Moves
    <3> QED
      BY <2>1, <3>1, <3>5 DEF End, Quiet
  <2> QED
    BY <2>2, <2>3, <2>4
<1>5. ASSUME NEW s \in Sweeps, SweepStep(s)
      PROVE  Quiet /\ OneNew
  <2>1. payouts' = payouts /\ inflight' = inflight
    BY <1>5 DEF SweepStep, SweepStart, SweepSelect, SweepDone, SweepAccrue,
                SweepMark, SweepFail
  <2>2. CASE inv' = inv
    BY <1>1, <2>1, <2>2
  <2>3. ASSUME NEW i \in Trades, SweepAccrue(s, i)
        PROVE  Quiet
    <3>1. PICK profit \in PassProfits(inv[i], DuePeriods(inv[i])) :
            inv' = [inv EXCEPT ![i] = AfterPass(inv[i], DuePeriods(inv[i]), profit)]
      BY <2>3 DEF SweepAccrue
    <3>2. profit \in Int /\ inv[i] \in Row
      BY ProfitsAreIntegers, DuePeriodsLoop DEF TypeOK
    <3>3. Moves(inv[i].status, inv'[i].status)
      BY <3>1, <3>2, PassMoves DEF TypeOK
    <3> QED
      BY <2>1, <3>1, <3>3 DEF TypeOK, Moves, Quiet
  <2>4. ASSUME NEW i \in Trades, SweepMark(s, i)
        PROVE  Quiet
    <3>1. inv' = [inv EXCEPT ![i] = Syncing(inv[i])] /\ inv[i] \in Row
      BY <2>4 DEF SweepMark, TypeOK
    <3>2. Moves(inv[i].status, inv'[i].status)
      BY <3>1, PassMoves DEF TypeOK
    <3> QED
      BY <2>1, <3>1, <3>2 DEF TypeOK, Moves, Quiet
  <2> QED
    BY <1>5, <2>1, <2>2, <2>3, <2>4
    DEF SweepStep, SweepStart, SweepSelect, SweepDone, SweepFail
<1>6. CASE Restart
  BY <1>1, <1>6 DEF Restart
<1>7. CASE Tick
  BY <1>1, <1>7 DEF Tick
<1>8. CASE UNCHANGED vars
  BY <1>1, <1>8 DEF vars
<1>9. ASSUME NEW a, NEW op, NEW i, AdminRequest(a, op, i) \/ (op = "end" /\ EndRequest(a, i))
      PROVE  Goal
  BY <1>3, <1>9 DEF AdminRequest, EndRequest
<1>10. ASSUME NEW r \in inflight, Commit(r)
       PROVE  Goal
  BY <1>4, <1>10
<1> HIDE DEF Goal
<1>11. ASSUME NEW c \in Clients, NEW i \in Trades, EndRequest(c, i)
       PROVE  Goal
  <2>1. "end" = "end" /\ EndRequest(c, i)
    BY <1>11
  <2> QED
    BY <1>9, <2>1
<1>12. ASSUME NEW s \in Sweeps, SweepStep(s)
       PROVE  Goal
  BY <1>5, <1>12 DEF Goal
<1>13. ASSUME NEW u \in Users, NEW i \in Trades, NEW plan \in Plans,
              NEW principal \in Principals, NEW b \in BOOLEAN,
              Start(u, i, plan, principal, b)
       PROVE  Goal
  BY <1>2, <1>13 DEF Goal
<1> QED
  BY <1>6, <1>7, <1>8, <1>9, <1>10, <1>11, <1>12, <1>13 DEF Next

-----------------------------------------------------------------------------
(* The theorems.                                                           *)

\* With one admin request at a time, no step breaks the invariant.
LEMMA SerialInvInductive ==
    ASSUME OneAdminAtATime, TypeOK, TypeOK', SerialInv, [Next]_vars
    PROVE  SerialInv'
<1>1. ASSUME NEW r \in inflight' \ inflight
      PROVE  r.op # "end" => r.by \in Admins /\ \A q \in inflight : q.op = "end"
  <2>1. NewRequest(r) /\ r.by \in Admins \cup Clients
    BY <1>1, TableStep DEF TypeOK, Request
  <2> QED
    BY <1>1, <2>1 DEF NewRequest, Idle, SerialInv, OneAdminRequest, OneAdminAtATime
<1>2. OneAdminRequest'
  <2>1. \A r \in inflight' : r.op # "end" => r.by \in Admins
    BY <1>1 DEF SerialInv, OneAdminRequest
  <2>2. ASSUME NEW q \in inflight', NEW r \in inflight', q.op # "end", r.op # "end"
        PROVE  q = r
    <3>1. CASE q \in inflight /\ r \in inflight
      BY <2>2, <3>1 DEF SerialInv, OneAdminRequest
    <3>2. CASE q \notin inflight /\ r \notin inflight
      BY <3>2, SerialStep
    <3>3. CASE ~(q \in inflight <=> r \in inflight)
      BY <1>1, <2>2, <3>3
    <3> QED
      BY <3>1, <3>2, <3>3
  <2> QED
    BY <2>1, <2>2 DEF OneAdminRequest
<1>3. /\ \A r \in inflight : r.trade \in Trades
      /\ \A i \in Trades : Payouts(i) \in Nat
  BY DEF TypeOK, Request, Payouts
<1>4. CASE Quiet
  <2>1. ASSUME NEW r \in inflight' PROVE Secured(r)'
    <3>1. CASE r \in inflight
      BY <1>3, <1>4, <3>1 DEF SerialInv, Secured, Quiet, Moves, Live, Ended
    <3>2. CASE NewRequest(r)
      BY <3>2 DEF NewRequest, Accepts, Secured, WriteBackOps, Live, Ended
    <3> QED
      BY <3>1, <3>2, TableStep
  <2>2. PaidOnceIffEnded'
    BY <1>4 DEF SerialInv, PaidOnceIffEnded, Quiet, Moves, Payouts, Live, Ended
  <2> QED
    BY <1>2, <2>1, <2>2 DEF SerialInv
<1>5. ASSUME NEW r \in inflight, Settles(r)
      PROVE  SerialInv'
  <2>1. \A q \in inflight' : q.op = "end"
    BY <1>5 DEF Settles, SerialInv, OneAdminRequest
  <2>2. \A q \in inflight' : Secured(q)'
    BY <2>1 DEF Secured, WriteBackOps
  <2>3. ASSUME NEW i \in Trades
        PROVE  Payouts(i)' = IF inv'[i].status \in Ended \cup {"REMOVED"} THEN 1 ELSE 0
    <3>1. CASE i # r.trade
      BY <1>5, <3>1 DEF Settles, SerialInv, PaidOnceIffEnded, Payouts
    <3>2. CASE i = r.trade
      <4>1. Secured(r) /\ r.op # "end"
        BY <1>5 DEF SerialInv, Settles
      <4>2. Payouts(i) = IF inv[i].status \in Ended \cup {"REMOVED"} THEN 1 ELSE 0
        BY DEF SerialInv, PaidOnceIffEnded
      <4>3. Payouts(i)' = payouts'[i].completed + payouts'[i].cancelled
        BY DEF Payouts
      <4> QED
        BY <1>5, <3>2, <4>1, <4>2, <4>3 DEF Settles, Secured, WriteBackOps, Live, Ended
    <3> QED
      BY <3>1, <3>2
  <2> QED
    BY <1>2, <2>2, <2>3 DEF SerialInv, PaidOnceIffEnded
<1> QED
  BY <1>4, <1>5, SerialStep

\* It holds in every reachable state then.
LEMMA SerialInvHolds ==
    ASSUME OneAdminAtATime
    PROVE  Spec => []SerialInv
<1>1. Init => SerialInv
  BY DEF Init, SerialInv, OneAdminRequest, PaidOnceIffEnded, Payouts, NoRow, Ended
<1>2. TypeOK /\ TypeOK' /\ SerialInv /\ [Next]_vars => SerialInv'
  BY SerialInvInductive
<1> QED
  BY <1>1, <1>2, TypeCorrect, PTL DEF Spec

Over == Ended \cup {"REMOVED"}

\* A trade that is over keeps its row, but for the status of a deleted one.
LEMMA OverStaysOver ==
    ASSUME TypeOK, SerialInv, [Next]_vars, NEW i \in Trades, inv[i].status \in Over
    PROVE  inv'[i] \in {inv[i], [inv[i] EXCEPT !.status = "REMOVED"]}
<1>1. RowStep(i) /\ inv[i] \in Row
  BY TableStep DEF TypeOK
<1>2. \A profit \in Int : AfterPass(inv[i], DuePeriods(inv[i]), profit) = inv[i]
  BY <1>1, DuePeriodsLoop DEF AfterPass, Over, Ended
<1>3. Syncing(inv[i]) = inv[i]
  BY DEF Syncing, Over, Ended
<1>4. \A r \in inflight : r.trade = i => r.op \notin WriteBackOps
  BY DEF SerialInv, Secured, Live, Over, Ended
<1> QED
  BY <1>1, <1>2, <1>3, <1>4 DEF RowStep, WriteBackOps, Live, Over, Ended

\* If admin requests do not overlap, completion and cancellation credit the
\* wallet once for a trade that ended and not before, for any number of
\* trades, sweeps, owners, failures and restarts.
THEOREM PaidOnceWithOneAdmin ==
    ASSUME OneAdminAtATime
    PROVE  Spec => []PaidOnceIffEnded
<1>1. SerialInv => PaidOnceIffEnded
  BY DEF SerialInv
<1> QED
  BY <1>1, SerialInvHolds, PTL

\* The comment of maybeCreditReferralCommission is right as long as admin
\* requests do not overlap: no trade is completed a second time.
THEOREM CompletesOnceWithOneAdmin ==
    ASSUME OneAdminAtATime
    PROVE  Spec => []CompletesOnce
<1>1. TypeOK /\ PaidOnceIffEnded => CompletesOnce
  <2> SUFFICES ASSUME TypeOK, PaidOnceIffEnded, NEW i \in Trades
               PROVE  payouts[i].completed <= 1
    BY DEF CompletesOnce
  <2>1. payouts[i].completed \in Nat /\ payouts[i].cancelled \in Nat
    BY DEF TypeOK
  <2>2. payouts[i].completed + payouts[i].cancelled \in {0, 1}
    BY DEF PaidOnceIffEnded, Payouts
  <2> QED
    BY <2>1, <2>2
<1> QED
  BY <1>1, PaidOnceWithOneAdmin, TypeCorrect, PTL

\* If admin requests do not overlap, no sweep, owner or admin changes a trade
\* that was completed or cancelled, except by deleting it.
THEOREM EndedStaysEnded ==
    ASSUME OneAdminAtATime
    PROVE  Spec => EndedIsFinal
<1>1. ASSUME TypeOK, SerialInv, [Next]_vars, NEW i \in Trades, inv[i].status \in Ended
      PROVE  inv'[i] \in {inv[i], [inv[i] EXCEPT !.status = "REMOVED"]}
  BY <1>1, OverStaysOver DEF Over
<1>2. TypeOK /\ SerialInv /\ [Next]_vars =>
        [\A i \in Trades : inv[i].status \in Ended =>
           inv'[i] \in {inv[i], [inv[i] EXCEPT !.status = "REMOVED"]}]_vars
  BY <1>1
<1> QED
  BY <1>2, SerialInvHolds, TypeCorrect, PTL DEF Spec, EndedIsFinal

-----------------------------------------------------------------------------
(* The referrer's commission.                                              *)

\* Nothing is credited for a trade before it is over.
CommissionInv ==
    /\ \A i \in Trades : inv[i].status \notin Over => commission[i] = 0
    /\ CommissionAtMostOnce

\* Only a completion credits the referrer, for the row that it completes.
LEMMA CommissionStep ==
    ASSUME TypeOK, [Next]_vars, NEW i \in Trades
    PROVE  \/ commission'[i] = commission[i]
           \/ \E due \in Row :
                /\ inv[i].status \in {"ACTIVE", "SYNCING"}
                /\ inv'[i] = Completed(due)
                /\ commission'[i] = commission[i] + Commission(due)
<1>1. CASE commission' = commission
  BY <1>1
<1>2. ASSUME NEW r \in inflight, Complete(r)
      PROVE  \/ commission'[i] = commission[i]
             \/ \E due \in Row :
                  /\ inv[i].status \in {"ACTIVE", "SYNCING"}
                  /\ inv'[i] = Completed(due)
                  /\ commission'[i] = commission[i] + Commission(due)
  <2> DEFINE row == inv[r.trade]
             pass(profit) == AfterPass(row, DuePeriods(row), profit)
  <2>1. r.trade \in Trades /\ row \in Row
    BY DEF TypeOK, Request
  <2>2. PICK profit \in PassProfits(row, DuePeriods(row)) :
          /\ inv' = [inv EXCEPT ![r.trade] = Completed(pass(profit))]
          /\ commission' = [commission EXCEPT ![r.trade] = @ + Commission(pass(profit))]
    BY <1>2 DEF Complete
  <2>3. row.status \in {"ACTIVE", "SYNCING"}
    BY <1>2 DEF Complete
  <2>4. pass(profit) \in Row
    BY <2>1, ProfitsAreIntegers, DuePeriodsLoop, PassChanges
  <2> HIDE DEF pass
  <2>5. CASE i = r.trade
    BY <2>1, <2>2, <2>3, <2>4, <2>5 DEF TypeOK
  <2>6. CASE i # r.trade
    BY <2>1, <2>2, <2>6 DEF TypeOK
  <2> QED
    BY <2>5, <2>6
<1>3. CASE \E r \in inflight : Commit(r)
  BY <1>1, <1>2, <1>3 DEF Commit, End, CompleteTooLate, Cancel, SetStatus, Accrue,
                          Remove, Fail
<1>4. CASE \E s \in Sweeps : SweepStep(s)
  BY <1>1, <1>4 DEF SweepStep, SweepStart, SweepSelect, SweepDone, SweepAccrue,
                    SweepMark, SweepFail
<1> QED
  BY <1>1, <1>3, <1>4
  DEF Next, vars, Start, AdminRequest, EndRequest, Receive, Restart, Tick

\* Neither its completion nor its deletion changes what a row's referrer is due.
LEMMA CommissionOfRow ==
    ASSUME NEW row \in Row
    PROVE  /\ Commission([row EXCEPT !.status = "REMOVED"]) = Commission(row)
           /\ Commission(Completed(row)) = Commission(row)
           /\ Completed(row).status = "COMPLETED"
<1>1. \A other : other.accrued = row.accrued /\ other.userId = row.userId =>
                   Commission(other) = Commission(row)
  BY DEF Commission
<1>2. LET removed == [row EXCEPT !.status = "REMOVED"] IN
      removed.accrued = row.accrued /\ removed.userId = row.userId
  BY DEF Row
<1>3. /\ Completed(row).accrued = row.accrued /\ Completed(row).userId = row.userId
      /\ Completed(row).status = "COMPLETED"
  BY DEF Completed, Row
<1> QED
  BY <1>1, <1>2, <1>3

LEMMA CommissionInvInductive ==
    ASSUME TypeOK, SerialInv, CommissionInv, [Next]_vars
    PROVE  CommissionInv'
<1> SUFFICES ASSUME NEW i \in Trades
             PROVE  /\ inv'[i].status \notin Over => commission'[i] = 0
                    /\ commission'[i] \in {0, Commission(inv'[i])}
  BY DEF CommissionInv, CommissionAtMostOnce
<1>1. inv[i] \in Row
  BY DEF TypeOK
<1>2. CASE commission'[i] = commission[i]
  <2>1. CASE inv[i].status \notin Over
    BY <1>2, <2>1 DEF CommissionInv
  <2>2. CASE inv[i].status \in Over
    <3>1. inv'[i] \in {inv[i], [inv[i] EXCEPT !.status = "REMOVED"]}
      BY <2>2, OverStaysOver
    <3>2. inv'[i].status \in Over
      BY <1>1, <2>2, <3>1 DEF Over, Row
    <3>3. Commission(inv'[i]) = Commission(inv[i])
      BY <1>1, <3>1, CommissionOfRow
    <3> QED
      BY <1>2, <3>2, <3>3 DEF CommissionInv, CommissionAtMostOnce
  <2> QED
    BY <2>1, <2>2
<1>3. ASSUME NEW due \in Row, inv[i].status \in {"ACTIVE", "SYNCING"},
             inv'[i] = Completed(due), commission'[i] = commission[i] + Commission(due)
      PROVE  /\ inv'[i].status \notin Over => commission'[i] = 0
             /\ commission'[i] \in {0, Commission(inv'[i])}
  <2>1. commission[i] = 0
    BY <1>3 DEF CommissionInv, Over, Ended
  <2>2. commission'[i] = Commission(inv'[i]) /\ inv'[i].status = "COMPLETED"
    <3>1. commission'[i] = 0 + Commission(due) /\ Commission(due) \in Int
      BY <1>3, <2>1, CommissionIsInteger
    <3>2. commission'[i] = Commission(due)
      BY <3>1
    <3> QED
      BY <1>3, <3>2, CommissionOfRow
  <2> QED
    BY <2>2 DEF Over, Ended
<1> QED
  BY <1>2, <1>3, CommissionStep

\* If admin requests do not overlap, the referrer is credited for a trade at
\* most once, and then the cut of the profit that the trade was paid with.
THEOREM CommissionOnceWithOneAdmin ==
    ASSUME OneAdminAtATime
    PROVE  Spec => []CommissionAtMostOnce
<1>1. Init => CommissionInv
  BY DEF Init, CommissionInv, CommissionAtMostOnce
<1>2. TypeOK /\ SerialInv /\ CommissionInv /\ [Next]_vars => CommissionInv'
  BY CommissionInvInductive
<1>3. CommissionInv => CommissionAtMostOnce
  BY DEF CommissionInv
<1> QED
  BY <1>1, <1>2, <1>3, SerialInvHolds, TypeCorrect, PTL DEF Spec

-----------------------------------------------------------------------------
(* The escrow.  What a step may do to a trade as its owner sees it: open   *)
(* it, revalue it while it is open, or close it and pay it out; the rest   *)
(* changes neither a wallet nor a deal.                                    *)

Deals == [i \in Started |-> Deal(inv[i])]

\* A copy that will be saved is one of its trade, whose terms never change.
CopyOfTrade(r) ==
    r.op \in WriteBackOps =>
        /\ inv[r.trade].status # "NONE"
        /\ r.row.principal = inv[r.trade].principal
        /\ r.row.userId = inv[r.trade].userId

EscrowInv ==
    /\ \A i \in Trades : inv[i].status = "NONE" => inv[i].accrued = 0
    /\ \A r \in inflight : CopyOfTrade(r)

\* No step changes the owner or the principal of a trade once it is there.
LEMMA TermsKept ==
    ASSUME TypeOK, \A r \in inflight : CopyOfTrade(r),
           NEW i \in Trades, RowStep(i), inv[i].status # "NONE"
    PROVE  /\ inv'[i].status # "NONE"
           /\ inv'[i].principal = inv[i].principal /\ inv'[i].userId = inv[i].userId
<1> DEFINE row == inv[i]
           Kept(new) == /\ new.status # "NONE"
                        /\ new.principal = row.principal /\ new.userId = row.userId
<1>1. row \in Row /\ Kept(row)
  BY DEF TypeOK
<1>2. \A other \in Row : Kept(other) => Kept(Syncing(other)) /\ Kept(Completed(other))
  BY DEF Syncing, Completed, Row
<1>3. ASSUME NEW profit \in Int
      PROVE  LET due == AfterPass(row, DuePeriods(row), profit) IN
             due \in Row /\ Kept(due)
  BY <1>1, DuePeriodsLoop, PassChanges
<1>4. ASSUME NEW r \in inflight, r.trade = i
      PROVE  /\ r.op = "cancel" => Kept(Cancelled(r.row))
             /\ r.op \in {"activate", "await"} =>
                  \A s \in {"ACTIVE", "AWAITING"} : Kept([r.row EXCEPT !.status = s])
             /\ r.op = "remove" => Kept([row EXCEPT !.status = "REMOVED"])
  <2>1. r.row \in Row
    BY DEF TypeOK, Request
  <2>2. r.op \in WriteBackOps => /\ r.row.principal = row.principal
                                 /\ r.row.userId = row.userId
    BY <1>4 DEF CopyOfTrade
  <2>3. \A other \in Row : /\ Cancelled(other).status = "CANCELLED"
                           /\ Cancelled(other).principal = other.principal
                           /\ Cancelled(other).userId = other.userId
    BY DEF Cancelled, Row
  <2>4. \A other \in Row, s \in Statuses :
           /\ [other EXCEPT !.status = s].status = s
           /\ [other EXCEPT !.status = s].principal = other.principal
           /\ [other EXCEPT !.status = s].userId = other.userId
    BY DEF Row
  <2>5. {"ACTIVE", "AWAITING", "REMOVED"} \subseteq Statuses
    BY DEF Statuses, Live
  <2> QED
    BY <1>1, <2>1, <2>2, <2>3, <2>4, <2>5 DEF WriteBackOps
<1> SUFFICES Kept(inv'[i])
  OBVIOUS
<1> HIDE DEF Kept
<1>5. ASSUME NEW profit \in Int,
             LET due == AfterPass(row, DuePeriods(row), profit) IN
             \/ inv'[i] = due
             \/ inv'[i] = Syncing(due)
             \/ row.status \in {"ACTIVE", "SYNCING"} /\ inv'[i] = Completed(due)
      PROVE  Kept(inv'[i])
  BY <1>2, <1>3, <1>5
<1>6. ASSUME NEW r \in inflight, r.trade = i,
             \/ r.op = "cancel" /\ inv'[i] = Cancelled(r.row)
             \/ /\ r.op \in {"activate", "await"}
                /\ \E s \in {"ACTIVE", "AWAITING"} : inv'[i] = [r.row EXCEPT !.status = s]
             \/ r.op = "remove" /\ inv'[i] = [row EXCEPT !.status = "REMOVED"]
      PROVE  Kept(inv'[i])
  BY <1>4, <1>6
<1>7. CASE inv'[i] = row \/ inv'[i] = Syncing(row)
  BY <1>1, <1>2, <1>7
<1>8. ASSUME NEW amount \in Int,
             inv'[i] = [row EXCEPT !.locked = row.locked + amount,
                                   !.accrued = row.accrued + amount]
      PROVE  Kept(inv'[i])
  BY <1>1, <1>8 DEF Kept, Row
<1> QED
  BY <1>5, <1>6, <1>7, <1>8 DEF RowStep

\* Copies stay copies of their trades, whatever overlaps.
LEMMA EscrowInvHolds == Spec => []EscrowInv
<1>1. Init => EscrowInv
  BY DEF Init, EscrowInv, NoRow
<1>2. TypeOK /\ EscrowInv /\ [Next]_vars => EscrowInv'
  <2> SUFFICES ASSUME TypeOK, EscrowInv, [Next]_vars PROVE EscrowInv'
    OBVIOUS
  <2>1. ASSUME NEW i \in Trades, inv'[i].status = "NONE"
        PROVE  inv'[i].accrued = 0
    <3>1. RowStep(i) /\ inv[i] \in Row
      BY TableStep DEF TypeOK
    <3>2. inv[i].status = "NONE"
      BY <2>1, <3>1, TermsKept DEF EscrowInv
    <3>3. \A r \in inflight : r.trade = i => r.op \notin WriteBackOps
      BY <3>2 DEF EscrowInv, CopyOfTrade
    <3>4. inv'[i] = inv[i]
      <4>1. \A profit \in Int : AfterPass(inv[i], DuePeriods(inv[i]), profit) = inv[i]
        BY <3>1, <3>2, DuePeriodsLoop DEF AfterPass
      <4>2. Syncing(inv[i]) = inv[i]
        BY <3>2 DEF Syncing
      <4>3. \A u \in Users, plan \in Plans, principal \in Principals, b \in BOOLEAN :
              NewRow(u, plan, principal, IF b THEN "AWAITING" ELSE "ACTIVE").status # "NONE"
        BY DEF NewRow
      <4>4. [inv[i] EXCEPT !.status = "REMOVED"].status = "REMOVED"
        BY <3>1 DEF Row
      <4> QED
        BY <2>1, <3>1, <3>2, <3>3, <4>1, <4>2, <4>3, <4>4 DEF RowStep, WriteBackOps
    <3> QED
      BY <3>2, <3>4 DEF EscrowInv
  <2>2. ASSUME NEW r \in inflight'
        PROVE  CopyOfTrade(r)'
    <3>1. CASE r \in inflight
      <4>1. r.trade \in Trades /\ CopyOfTrade(r) /\ RowStep(r.trade)
        BY <3>1, TableStep DEF TypeOK, Request, EscrowInv
      <4> QED
        BY <4>1, TermsKept DEF CopyOfTrade, EscrowInv
    <3>2. CASE NewRequest(r)
      BY <3>2 DEF NewRequest, CopyOfTrade, Accepts, WriteBackOps
    <3> QED
      BY <3>1, <3>2, TableStep
  <2> QED
    BY <2>1, <2>2 DEF EscrowInv
<1> QED
  BY <1>1, <1>2, TypeCorrect, PTL DEF Spec

\* A change of one live row that leaves it live is profit earned.
LEMMA TradeEarns ==
    ASSUME TypeOK, TypeOK', EscrowInv, [Next]_vars, wallet' = wallet,
           NEW i \in Trades, \A j \in Trades \ {i} : inv'[j] = inv[j],
           inv[i].status \in Live, inv'[i].status \in Live
    PROVE  Escrow!Next
<1>1. /\ inv'[i].principal = inv[i].principal /\ inv'[i].userId = inv[i].userId
      /\ inv[i].status # "NONE" /\ inv'[i].status # "NONE"
  BY TermsKept, TableStep DEF EscrowInv, Live
<1>2. Started' = Started /\ i \in Started /\ Started \subseteq Trades
  BY <1>1 DEF Started
<1>3. Deals' = [Deals EXCEPT ![i].profit = inv'[i].accrued]
  <2>1. Deal(inv'[i]) = [Deal(inv[i]) EXCEPT !.profit = inv'[i].accrued]
    BY <1>1 DEF Deal
  <2>2. Deals' = [j \in Started |-> Deal(inv'[j])]
    BY <1>2 DEF Deals
  <2>3. \A j \in Started \ {i} : Deal(inv'[j]) = Deal(inv[j])
    BY <1>2
  <2> QED
    BY <1>2, <2>1, <2>2, <2>3 DEF Deals
<1>4. Deals[i].state = "open" /\ Deals'[i].profit = inv'[i].accrued
  BY <1>2 DEF Deals, Deal
<1>5. inv'[i].accrued \in Int
  BY DEF TypeOK, Row
<1>6. i \in DOMAIN Deals
  BY <1>2 DEF Deals
<1>7. Escrow!Earn(i, Deals'[i].profit)
  BY <1>3, <1>4 DEF Escrow!Earn, Deals
<1> QED
  BY <1>4, <1>5, <1>6, <1>7 DEF Escrow!Next, Deals

\* A live row that is over after a step whose wallet gains principal and
\* profit has been closed.
LEMMA TradeCloses ==
    ASSUME TypeOK, TypeOK', EscrowInv, [Next]_vars,
           NEW i \in Trades, \A j \in Trades \ {i} : inv'[j] = inv[j],
           inv[i].status \in Live, inv'[i].status \in Ended,
           wallet' = [wallet EXCEPT ![inv[i].userId] =
                        @ + inv[i].principal + inv'[i].accrued]
    PROVE  Escrow!Next
<1>1. /\ inv'[i].principal = inv[i].principal /\ inv'[i].userId = inv[i].userId
      /\ inv[i].status # "NONE" /\ inv'[i].status # "NONE"
      /\ inv'[i].status \notin Live
  BY TermsKept, TableStep DEF EscrowInv, Live, Ended
<1>2. Started' = Started /\ i \in Started /\ Started \subseteq Trades
  BY <1>1 DEF Started
<1>3. Deals' = [Deals EXCEPT ![i].state = "closed", ![i].profit = inv'[i].accrued]
  <2>1. Deal(inv'[i]) = [Deal(inv[i]) EXCEPT !.state = "closed", !.profit = inv'[i].accrued]
    <3> DEFINE old == Deal(inv[i])
               shut == [state |-> "closed", owner |-> inv[i].userId,
                        principal |-> inv[i].principal, profit |-> inv[i].accrued]
    <3>1. [old EXCEPT !.state = "closed"] = shut
      <4>1. old = [state |-> "open", owner |-> inv[i].userId,
                   principal |-> inv[i].principal, profit |-> inv[i].accrued]
        BY DEF Deal
      <4> HIDE DEF old
      <4> QED
        BY <4>1
    <3>2. [shut EXCEPT !.profit = inv'[i].accrued]
            = [state |-> "closed", owner |-> inv[i].userId,
               principal |-> inv[i].principal, profit |-> inv'[i].accrued]
      OBVIOUS
    <3> HIDE DEF old, shut
    <3>3. [old EXCEPT !.state = "closed", !.profit = inv'[i].accrued]
            = [[old EXCEPT !.state = "closed"] EXCEPT !.profit = inv'[i].accrued]
      OBVIOUS
    <3>4. Deal(inv'[i]) = [state |-> "closed", owner |-> inv[i].userId,
                           principal |-> inv[i].principal, profit |-> inv'[i].accrued]
      BY <1>1 DEF Deal
    <3>5. [old EXCEPT !.state = "closed", !.profit = inv'[i].accrued] = Deal(inv'[i])
      BY Zenon, <3>1, <3>2, <3>3, <3>4
    <3> QED
      BY <3>5 DEF old
  <2>2. Deals' = [j \in Started |-> Deal(inv'[j])]
    BY <1>2 DEF Deals
  <2>3. \A j \in Started \ {i} : Deal(inv'[j]) = Deal(inv[j])
    BY <1>2
  <2> QED
    BY <1>2, <2>1, <2>2, <2>3 DEF Deals
<1>4. /\ Deals[i].state = "open" /\ Deals'[i].profit = inv'[i].accrued
      /\ Deals[i].owner = inv[i].userId /\ Deals[i].principal = inv[i].principal
  BY <1>2, <1>3 DEF Deals, Deal
<1>5. inv'[i].accrued \in Int
  BY DEF TypeOK, Row
<1>6. i \in DOMAIN Deals
  BY <1>2 DEF Deals
<1>7. Escrow!Close(i, Deals'[i].profit)
  <2>1. wallet' = [wallet EXCEPT ![Deals[i].owner] =
                     @ + Deals[i].principal + Deals'[i].profit]
    BY <1>4
  <2> QED
    BY <1>3, <1>4, <2>1 DEF Escrow!Close, Deals
<1> QED
  BY <1>4, <1>5, <1>6, <1>7 DEF Escrow!Next, Deals

\* A row that is inserted for what its owner's wallet loses opens a trade.
LEMMA TradeOpens ==
    ASSUME TypeOK, NEW u \in Users, NEW i \in Trades, NEW plan \in Plans,
           NEW principal \in Principals, NEW b \in BOOLEAN,
           Start(u, i, plan, principal, b)
    PROVE  Escrow!Next
<1> DEFINE new == NewRow(u, plan, principal, IF b THEN "AWAITING" ELSE "ACTIVE")
           deal == [state |-> "open", owner |-> u, principal |-> principal, profit |-> 0]
<1>1. /\ inv[i].status = "NONE" /\ inv' = [inv EXCEPT ![i] = new]
      /\ wallet[u] >= principal /\ wallet' = [wallet EXCEPT ![u] = @ - principal]
  BY DEF Start
<1>2. Deal(new) = deal /\ new.status # "NONE"
  BY DEF Deal, NewRow, Live
<1> HIDE DEF new, deal
<1>3. inv'[i] = new /\ \A j \in Trades \ {i} : inv'[j] = inv[j]
  BY <1>1 DEF TypeOK
<1>4. Started' = Started \cup {i} /\ i \notin Started /\ Started \subseteq Trades
  BY <1>1, <1>2, <1>3 DEF Started
<1>5. Deals' = [j \in DOMAIN Deals \cup {i} |-> IF j = i THEN deal ELSE Deals[j]]
  <2>1. Deals' = [j \in Started \cup {i} |-> Deal(inv'[j])]
    BY <1>4 DEF Deals
  <2>2. \A j \in Started : Deal(inv'[j]) = Deals[j]
    BY <1>3, <1>4 DEF Deals
  <2>3. DOMAIN Deals = Started
    BY DEF Deals
  <2> QED
    BY <1>2, <1>3, <2>1, <2>2, <2>3
<1>6. i \notin DOMAIN Deals
  BY <1>4 DEF Deals
<1>7. Escrow!Open(u, i, principal)
  BY <1>1, <1>5, <1>6 DEF Escrow!Open, Deals, deal
<1> QED
  BY <1>7 DEF Escrow!Next

\* A change of one row that its owner does not see.
LEMMA TradeStays ==
    ASSUME TypeOK, wallet' = wallet,
           NEW i \in Trades, \A j \in Trades \ {i} : inv'[j] = inv[j],
           inv[i].status # "NONE", inv'[i].status # "NONE", Deal(inv'[i]) = Deal(inv[i])
    PROVE  UNCHANGED Escrow!vars
<1>1. Started' = Started /\ \A j \in Started : Deal(inv'[j]) = Deal(inv[j])
  BY DEF Started
<1>2. Deals' = Deals
  BY <1>1 DEF Deals
<1> QED
  BY <1>2 DEF Escrow!vars, Deals

\* A pass and a freeze leave a row that is not active alone.
LEMMA PassIsIdle ==
    ASSUME NEW row \in Row, NEW profit \in Int
    PROVE  LET due == AfterPass(row, DuePeriods(row), profit) IN
           /\ row.status # "ACTIVE" => due = row /\ Syncing(due) = row /\ Syncing(row) = row
           /\ row.status = "ACTIVE" => /\ due.status \in Live
                                       /\ Syncing(due).status \in Live
                                       /\ Syncing(row).status \in Live
<1> DEFINE due == AfterPass(row, DuePeriods(row), profit)
<1>1. /\ DuePeriods(row) \in Nat /\ (row.status # "ACTIVE" => DuePeriods(row) = 0)
      /\ due \in Row /\ due.status = row.status
      /\ DuePeriods(row) = 0 => due = row
  BY DuePeriodsLoop, PassChanges
<1> HIDE DEF due
<1>2. \A other \in Row : /\ other.status # "ACTIVE" => Syncing(other) = other
                         /\ other.status = "ACTIVE" => Syncing(other).status \in Live
  BY DEF Syncing, Live, Row
<1> QED
  BY <1>1, <1>2 DEF due, Live

\* With one admin request at a time, every step is one of the escrow's or one
\* that no owner sees.
LEMMA EscrowStep ==
    ASSUME TypeOK, TypeOK', BooksInv, SerialInv, EscrowInv, [Next]_vars
    PROVE  Escrow!Next \/ UNCHANGED Escrow!vars
<1> DEFINE Goal == Escrow!Next \/ UNCHANGED Escrow!vars
<1> SUFFICES Goal
  OBVIOUS
<1>1. /\ inv \in [Trades -> Row] /\ wallet \in [Users -> Int]
      /\ \A i \in Trades : inv[i] \in Row /\ RowBalances(inv[i])
      /\ \A r \in inflight : r.trade \in Trades /\ r.row \in Row /\ RowBalances(r.row)
  BY DEF TypeOK, Request, BooksInv, BooksBalance
<1>2. CASE inv' = inv /\ wallet' = wallet
  BY <1>2 DEF Escrow!vars, Started
<1>3. ASSUME NEW u \in Users, NEW i \in Trades, NEW plan \in Plans,
             NEW principal \in Principals, NEW b \in BOOLEAN,
             Start(u, i, plan, principal, b)
      PROVE  Goal
  BY <1>3, TradeOpens
\* A change of one row, live before and after, without a payout.
<1>4. ASSUME NEW i \in Trades, NEW new, inv' = [inv EXCEPT ![i] = new], wallet' = wallet,
             \/ new = inv[i]
             \/ inv[i].status \in Live /\ new.status \in Live
      PROVE  Goal
  <2>1. inv'[i] = new /\ \A j \in Trades \ {i} : inv'[j] = inv[j]
    BY <1>1, <1>4
  <2>2. CASE new = inv[i]
    BY <1>1, <1>2, <1>4, <2>2
  <2>3. CASE inv[i].status \in Live /\ new.status \in Live
    BY <1>4, <2>1, <2>3, TradeEarns
  <2> QED
    BY <1>4, <2>2, <2>3
\* A live row that is over as its owner gets what it held.
<1>5. ASSUME NEW i \in Trades, NEW row \in Row, RowBalances(row), row.status \in Live,
             inv[i].status \in Live,
             row.userId = inv[i].userId, row.principal = inv[i].principal,
             NEW new, new.status \in Ended, new.accrued = row.accrued,
             inv' = [inv EXCEPT ![i] = new], Release(row)
      PROVE  Goal
  <2>1. inv'[i] = new /\ \A j \in Trades \ {i} : inv'[j] = inv[j]
    BY <1>1, <1>5
  <2>2. wallet' = [wallet EXCEPT ![inv[i].userId] = @ + inv[i].principal + inv'[i].accrued]
    <3>1. /\ row.locked = row.principal + row.accrued /\ row.userId \in Users
          /\ row.principal \in Int /\ row.accrued \in Int
      BY <1>5 DEF RowBalances, Row
    <3>2. wallet[row.userId] \in Int
      BY <1>1, <3>1
    <3>3. wallet[row.userId] + row.locked = wallet[row.userId] + row.principal + row.accrued
      BY <3>1, <3>2
    <3>4. wallet' = [wallet EXCEPT ![row.userId] =
                       wallet[row.userId] + row.principal + row.accrued]
      BY <1>5, <3>3 DEF Release
    <3> QED
      BY <1>5, <2>1, <3>4
  <2> QED
    BY <1>5, <2>1, <2>2, TradeCloses
<1> HIDE DEF Goal
<1>6. ASSUME NEW r \in inflight, Commit(r)
      PROVE  Goal
  <2> DEFINE i == r.trade
             row == inv[i]
             pass(profit) == AfterPass(row, DuePeriods(row), profit)
  <2>1. CASE End(r)
    <3>1. PICK profit \in PassProfits(row, DuePeriods(row)) :
            inv' = [inv EXCEPT ![i] = Syncing(pass(profit))]
      BY <2>1 DEF End
    <3>2. profit \in Int
      BY <1>1, ProfitsAreIntegers, DuePeriodsLoop
    <3>3. \/ Syncing(pass(profit)) = row
          \/ row.status \in Live /\ Syncing(pass(profit)).status \in Live
      BY <1>1, <3>2, PassIsIdle DEF Live
    <3> HIDE DEF pass
    <3> QED
      BY <1>1, <1>4, <2>1, <3>1, <3>3 DEF End
  <2>2. CASE Complete(r)
    <3>1. PICK profit \in PassProfits(row, DuePeriods(row)) :
            /\ inv' = [inv EXCEPT ![i] = Completed(pass(profit))]
            /\ Release(pass(profit))
      BY <2>2 DEF Complete
    <3>2. row.status \in Live
      BY <2>2 DEF Complete, Live
    <3>3. profit \in Int
      BY <1>1, ProfitsAreIntegers, DuePeriodsLoop
    <3>4. /\ pass(profit) \in Row /\ pass(profit).status \in Live
          /\ RowBalances(pass(profit))
      BY <1>1, <3>2, <3>3, PassBalances
    <3>5. pass(profit).userId = row.userId /\ pass(profit).principal = row.principal
      BY <1>1, <3>3, DuePeriodsLoop, PassChanges
    <3> HIDE DEF pass
    <3>6. /\ Completed(pass(profit)).status \in Ended
          /\ Completed(pass(profit)).accrued = pass(profit).accrued
      BY <3>4 DEF Completed, Row, Ended
    <3> QED
      BY <1>1, <1>5, <3>1, <3>2, <3>4, <3>5, <3>6
  <2>3. CASE Cancel(r)
    <3>1. /\ r.op = "cancel" /\ inv' = [inv EXCEPT ![i] = Cancelled(r.row)]
          /\ Release(r.row)
      BY <2>3 DEF Cancel
    <3>2. /\ row.status \in Live /\ r.row.status \in Live
          /\ r.row.principal = row.principal /\ r.row.userId = row.userId
      BY <3>1 DEF SerialInv, Secured, BooksInv, CopyAccepted, EscrowInv, CopyOfTrade,
                  WriteBackOps, Live
    <3>3. /\ Cancelled(r.row).status \in Ended
          /\ Cancelled(r.row).accrued = r.row.accrued
      BY <1>1 DEF Cancelled, Row, Ended
    <3> QED
      BY <1>1, <1>5, <3>1, <3>2, <3>3
  <2>4. CASE SetStatus(r)
    <3>1. PICK s \in {"ACTIVE", "AWAITING"} :
            inv' = [inv EXCEPT ![i] = [r.row EXCEPT !.status = s]]
      BY <2>4 DEF SetStatus
    <3>2. row.status \in Live
      BY <2>4 DEF SetStatus, SerialInv, Secured, WriteBackOps
    <3>3. [r.row EXCEPT !.status = s].status \in Live
      BY <1>1 DEF Row, Live
    <3> QED
      BY <1>1, <1>4, <2>4, <3>1, <3>2, <3>3 DEF SetStatus
  <2>5. CASE Accrue(r)
    <3>1. wallet' = wallet
      BY <2>5 DEF Accrue
    <3>2. CASE inv' = inv
      BY <1>2, <3>1, <3>2
    <3>3. ASSUME NEW amount \in ManualAmounts, row.status = "ACTIVE",
                 inv' = [inv EXCEPT ![i].locked = @ + amount, ![i].accrued = @ + amount]
          PROVE  Goal
      <4> DEFINE new == [row EXCEPT !.locked = row.locked + amount,
                                    !.accrued = row.accrued + amount]
      <4>1. inv' = [inv EXCEPT ![i] = new]
        BY <3>3
      <4>2. row.status \in Live /\ new.status \in Live
        BY <1>1, <3>3 DEF Live, Row
      <4> HIDE DEF new
      <4> QED
        BY <1>1, <1>4, <3>1, <4>1, <4>2
    <3> QED
      BY <2>5, <3>2, <3>3 DEF Accrue
  <2>6. CASE Remove(r)
    <3>1. /\ r.op = "remove" /\ wallet' = wallet
          /\ inv' = [inv EXCEPT ![i] = [row EXCEPT !.status = "REMOVED"]]
      BY <2>6 DEF Remove
    <3>2. row.status \in Ended
      BY <3>1 DEF SerialInv, Secured
    <3>3. /\ inv'[i] = [row EXCEPT !.status = "REMOVED"] /\ inv'[i].status = "REMOVED"
          /\ \A j \in Trades \ {i} : inv'[j] = inv[j]
      BY <1>1, <3>1 DEF Row
    <3>4. Deal(inv'[i]) = Deal(row)
      BY <1>1, <3>2, <3>3 DEF Deal, Live, Ended, Row
    <3>5. UNCHANGED Escrow!vars
      BY <1>1, <3>1, <3>2, <3>3, <3>4, TradeStays DEF Ended
    <3> QED
      BY <3>5 DEF Goal
  <2>7. CASE CompleteTooLate(r) \/ Fail(r)
    BY <1>2, <2>7 DEF CompleteTooLate, Fail
  <2> QED
    BY <1>6, <2>1, <2>2, <2>3, <2>4, <2>5, <2>6, <2>7 DEF Commit
<1>7. ASSUME NEW s \in Sweeps, SweepStep(s)
      PROVE  Goal
  <2>1. wallet' = wallet
    BY <1>7 DEF SweepStep, SweepStart, SweepSelect, SweepDone, SweepAccrue,
                SweepMark, SweepFail
  <2>2. CASE inv' = inv
    BY <1>2, <2>1, <2>2
  <2>3. ASSUME NEW i \in Trades, SweepAccrue(s, i)
        PROVE  Goal
    <3> DEFINE pass(profit) == AfterPass(inv[i], DuePeriods(inv[i]), profit)
    <3>1. PICK profit \in PassProfits(inv[i], DuePeriods(inv[i])) :
            inv' = [inv EXCEPT ![i] = pass(profit)]
      BY <2>3 DEF SweepAccrue
    <3>2. profit \in Int
      BY <1>1, ProfitsAreIntegers, DuePeriodsLoop
    <3>3. \/ pass(profit) = inv[i]
          \/ inv[i].status \in Live /\ pass(profit).status \in Live
      BY <1>1, <3>2, PassIsIdle DEF Live
    <3> HIDE DEF pass
    <3> QED
      BY <1>4, <2>1, <3>1, <3>3
  <2>4. ASSUME NEW i \in Trades, SweepMark(s, i)
        PROVE  Goal
    <3>1. inv' = [inv EXCEPT ![i] = Syncing(inv[i])]
      BY <2>4 DEF SweepMark
    <3>2. \/ Syncing(inv[i]) = inv[i]
          \/ inv[i].status \in Live /\ Syncing(inv[i]).status \in Live
      BY <1>1 DEF Syncing, Live, Row
    <3> QED
      BY <1>4, <2>1, <3>1, <3>2
  <2> QED
    BY <1>7, <2>1, <2>2, <2>3, <2>4
    DEF SweepStep, SweepStart, SweepSelect, SweepDone, SweepFail
<1> QED
  BY <1>2, <1>3, <1>6, <1>7
  DEF Next, vars, AdminRequest, EndRequest, Receive, Restart, Tick

\* If admin requests do not overlap, trades are an escrow: the principal leaves
\* the wallet once, principal and profit come back once, and a trade that is
\* over is neither reopened, nor revalued, nor paid again, for any users,
\* trades, sweeps, failures and restarts.
THEOREM EscrowWithOneAdmin ==
    ASSUME OneAdminAtATime
    PROVE  Spec => TradesAreEscrowed
<1>1. Init => Escrow!Init
  <2> SUFFICES ASSUME Init PROVE Escrow!Init
    OBVIOUS
  <2>1. Started = {}
    BY DEF Init, Started, NoRow
  <2>2. [i \in Started |-> Deal(inv[i])] = [i \in {} |-> 0]
    BY <2>1
  <2> QED
    BY <2>2 DEF Init, Escrow!Init
<1>2. TypeOK /\ TypeOK' /\ BooksInv /\ SerialInv /\ EscrowInv /\ [Next]_vars
      => [Escrow!Next]_(Escrow!vars)
  BY EscrowStep
<1> QED
  BY <1>1, <1>2, TypeCorrect, BooksInvHolds, SerialInvHolds, EscrowInvHolds, PTL
  DEF Spec, TradesAreEscrowed, Escrow!Spec

-----------------------------------------------------------------------------
(* Conservation of money: what an escrow does to the sums.                 *)

\* A step takes d out of one wallet and puts it into one trade (d may be
\* negative), and leaves every other wallet and trade as it is.
MoneyMoves(u, i, d) ==
    /\ wallet' = [wallet EXCEPT ![u] = @ - d]
    /\ Held'[i] - Credited'[i] = Held[i] - Credited[i] + d
    /\ \A j \in Trades \ {i} : Held'[j] = Held[j] /\ Credited'[j] = Credited[j]

\* What a row holds and was credited can be told from its deal.
LEMMA RowHolds ==
    ASSUME NEW row \in Row, RowBalances(row)
    PROVE  LET held == IF row.status \in Live THEN row.locked ELSE 0 IN
           /\ held \in Int /\ row.accrued \in Int /\ row.principal \in Int
           /\ Deal(row).profit = row.accrued /\ Deal(row).principal = row.principal
           /\ Deal(row).state = "open" <=> row.status \in Live
           /\ Deal(row).state = "open" => held = Deal(row).principal + Deal(row).profit
           /\ Deal(row).state # "open" => held = 0
<1>1. row.locked \in Int /\ row.accrued \in Int /\ row.principal \in Int
  BY DEF Row
<1>2. /\ Deal(row).profit = row.accrued /\ Deal(row).principal = row.principal
      /\ Deal(row).state = "open" <=> row.status \in Live
  BY DEF Deal
<1>3. row.status \in Live => row.locked = row.principal + row.accrued
  BY DEF RowBalances
<1> QED
  BY <1>1, <1>2, <1>3

\* A trade whose deal stays holds the same and was credited the same.
LEMMA SameDealHolds ==
    ASSUME TypeOK, TypeOK', BooksBalance, BooksBalance', EscrowInv, EscrowInv',
           NEW j \in Trades, j \in Started' <=> j \in Started,
           j \in Started => Deal(inv'[j]) = Deal(inv[j])
    PROVE  Held'[j] = Held[j] /\ Credited'[j] = Credited[j]
<1>1. /\ inv[j] \in Row /\ inv'[j] \in Row
      /\ RowBalances(inv[j]) /\ RowBalances(inv'[j])
  BY DEF TypeOK, BooksBalance
<1>2. CASE j \in Started
  BY <1>1, <1>2, RowHolds DEF Held, Credited
<1>3. CASE j \notin Started
  BY <1>3 DEF Started, Held, Credited, EscrowInv, Live
<1> QED
  BY <1>2, <1>3

\* Every step of an escrow moves money between one wallet and one trade.
LEMMA EscrowMovesMoney ==
    ASSUME TypeOK, TypeOK', BooksBalance, BooksBalance', EscrowInv, EscrowInv',
           Escrow!Next
    PROVE  \E u \in Users, i \in Trades, d \in Int : MoneyMoves(u, i, d)
<1>1. /\ \A i \in Trades : /\ inv[i] \in Row /\ inv'[i] \in Row
                           /\ RowBalances(inv[i]) /\ RowBalances(inv'[i])
      /\ wallet \in [Users -> Int] /\ wallet' \in [Users -> Int]
  BY DEF TypeOK, BooksBalance
<1>2. DOMAIN Deals = Started /\ DOMAIN Deals' = Started' /\ Started \subseteq Trades
  BY DEF Deals, Started
<1>3. ASSUME NEW u \in Users, NEW i \in Trades, NEW principal \in Principals,
             Escrow!Open(u, i, principal)
      PROVE  MoneyMoves(u, i, principal)
  <2> DEFINE deal == [state |-> "open", owner |-> u, principal |-> principal, profit |-> 0]
  <2>1. /\ i \notin DOMAIN Deals
        /\ wallet' = [wallet EXCEPT ![u] = @ - principal]
        /\ Deals' = [j \in DOMAIN Deals \cup {i} |-> IF j = i THEN deal ELSE Deals[j]]
    BY <1>3 DEF Escrow!Open, Deals
  <2>2. deal.state = "open" /\ deal.profit = 0 /\ deal.principal = principal
    OBVIOUS
  <2> HIDE DEF deal
  <2>3. i \notin Started /\ Started' = Started \cup {i}
    BY <1>2, <2>1
  <2>4. Deals'[i] = deal /\ \A j \in Started : Deals'[j] = Deals[j]
    BY <1>2, <2>1, <2>3
  <2>5. /\ Deal(inv'[i]) = deal
        /\ \A j \in Started : Deal(inv'[j]) = Deal(inv[j])
    BY <2>3, <2>4 DEF Deals
  <2>6. \A j \in Trades \ {i} : Held'[j] = Held[j] /\ Credited'[j] = Credited[j]
    BY <2>3, <2>5, SameDealHolds
  <2>7. Held[i] = 0 /\ Credited[i] = 0
    BY <2>3 DEF Started, Held, Credited, EscrowInv, Live
  <2>8. Held'[i] = principal /\ Credited'[i] = 0 /\ principal \in Int
    <3>1. principal \in Int
      BY ConstantsOK
    <3>2. Held'[i] = deal.principal + deal.profit /\ Credited'[i] = deal.profit
      BY <1>1, <2>2, <2>5, RowHolds DEF Held, Credited
    <3> QED
      BY <2>2, <3>1, <3>2
  <2> QED
    BY <2>1, <2>6, <2>7, <2>8 DEF MoneyMoves
<1>4. ASSUME NEW i \in Started, Deals[i].state = "open", DOMAIN Deals' = DOMAIN Deals,
             Deals'[i].principal = Deals[i].principal,
             \A j \in Started \ {i} : Deals'[j] = Deals[j]
      PROVE  /\ \A j \in Trades \ {i} : Held'[j] = Held[j] /\ Credited'[j] = Credited[j]
             /\ Deals'[i].state = "open" =>
                  Held'[i] - Credited'[i] = Held[i] - Credited[i] + 0
             /\ Deals'[i].state = "closed" =>
                  Held'[i] - Credited'[i]
                    = Held[i] - Credited[i] + (0 - (Deals[i].principal + Deals'[i].profit))
  <2>1. /\ i \in Trades /\ Started' = Started
        /\ Deals[i] = Deal(inv[i]) /\ Deals'[i] = Deal(inv'[i])
    BY <1>2, <1>4 DEF Deals
  <2>2. \A j \in Started \ {i} : Deal(inv'[j]) = Deal(inv[j])
    BY <1>2, <1>4, <2>1 DEF Deals
  <2>3. \A j \in Trades \ {i} : Held'[j] = Held[j] /\ Credited'[j] = Credited[j]
    BY <2>1, <2>2, SameDealHolds
  <2>4. /\ Held[i] = Deals[i].principal + Deals[i].profit
        /\ Credited[i] = Deals[i].profit
        /\ Deals'[i].state = "open" => Held'[i] = Deals'[i].principal + Deals'[i].profit
        /\ Deals'[i].state # "open" => Held'[i] = 0
        /\ Credited'[i] = Deals'[i].profit
    BY <1>1, <1>4, <2>1, RowHolds DEF Held, Credited
  <2>5. Deals[i].principal \in Int /\ Deals[i].profit \in Int /\ Deals'[i].profit \in Int
    BY <1>1, <2>1, RowHolds
  <2> QED
    BY <1>4, <2>3, <2>4, <2>5
<1>5. ASSUME NEW i \in DOMAIN Deals, Escrow!Earn(i, Deals'[i].profit)
      PROVE  \E u \in Users : MoneyMoves(u, i, 0)
  <2>1. /\ Deals[i].state = "open" /\ wallet' = wallet
        /\ Deals' = [Deals EXCEPT ![i].profit = Deals'[i].profit]
    BY <1>5 DEF Escrow!Earn, Deals
  <2>2. /\ DOMAIN Deals' = DOMAIN Deals /\ \A j \in Started \ {i} : Deals'[j] = Deals[j]
        /\ Deals'[i] = [Deals[i] EXCEPT !.profit = Deals'[i].profit]
    BY <1>2, <2>1
  <2>3. Deals'[i].state = Deals[i].state /\ Deals'[i].principal = Deals[i].principal
    <3> DEFINE old == Deals[i]
               profit == Deals'[i].profit
    <3>1. \A x : /\ [old EXCEPT !.profit = x].state = old.state
                 /\ [old EXCEPT !.profit = x].principal = old.principal
      <4>1. old = Deal(inv[i])
        BY <1>2 DEF Deals
      <4> QED
        BY <4>1 DEF Deal
    <3>2. Deals'[i] = [old EXCEPT !.profit = profit]
      BY <2>2
    <3> HIDE DEF old, profit
    <3>3. Deals'[i].state = old.state /\ Deals'[i].principal = old.principal
      BY <3>1, <3>2
    <3> QED
      BY <3>3 DEF old
  <2>4. /\ Held'[i] - Credited'[i] = Held[i] - Credited[i] + 0
        /\ \A j \in Trades \ {i} : Held'[j] = Held[j] /\ Credited'[j] = Credited[j]
    BY <1>2, <1>4, <2>1, <2>2, <2>3
  <2>5. PICK u : u \in Users
    BY ConstantsOK
  <2>6. wallet' = [wallet EXCEPT ![u] = @ - 0]
    BY <1>1, <2>1, <2>5
  <2> QED
    BY <2>4, <2>5, <2>6 DEF MoneyMoves
<1>6. ASSUME NEW i \in DOMAIN Deals, Escrow!Close(i, Deals'[i].profit)
      PROVE  \E u \in Users, d \in Int : MoneyMoves(u, i, d)
  <2> DEFINE u == Deals[i].owner
             sum == Deals[i].principal + Deals'[i].profit
             d == 0 - sum
  <2>1. /\ Deals[i].state = "open"
        /\ wallet' = [wallet EXCEPT ![u] = @ + Deals[i].principal + Deals'[i].profit]
        /\ Deals' = [Deals EXCEPT ![i].state = "closed", ![i].profit = Deals'[i].profit]
    BY <1>6 DEF Escrow!Close, Deals
  <2>2. DOMAIN Deals' = DOMAIN Deals /\ \A j \in Started \ {i} : Deals'[j] = Deals[j]
    BY <1>2, <2>1
  <2>3. Deals'[i].state = "closed" /\ Deals'[i].principal = Deals[i].principal
    <3> DEFINE old == Deals[i]
               profit == Deals'[i].profit
    <3>1. \A x : /\ [old EXCEPT !.state = "closed", !.profit = x].state = "closed"
                 /\ [old EXCEPT !.state = "closed", !.profit = x].principal = old.principal
      <4>1. old = Deal(inv[i])
        BY <1>2 DEF Deals
      <4> QED
        BY <4>1 DEF Deal
    <3>2. Deals'[i] = [old EXCEPT !.state = "closed", !.profit = profit]
      BY <2>1
    <3> HIDE DEF old, profit
    <3>3. Deals'[i].state = "closed" /\ Deals'[i].principal = old.principal
      BY <3>1, <3>2
    <3> QED
      BY <3>3 DEF old
  <2>4. /\ Held'[i] - Credited'[i] = Held[i] - Credited[i] + d
        /\ \A j \in Trades \ {i} : Held'[j] = Held[j] /\ Credited'[j] = Credited[j]
    BY <1>2, <1>4, <2>1, <2>2, <2>3
  <2>5. /\ u \in Users /\ Deals[i].principal \in Int /\ Deals'[i].profit \in Int
    <3>1. i \in Trades /\ Deals[i] = Deal(inv[i]) /\ Deals'[i] = Deal(inv'[i])
      BY <1>2, <2>2 DEF Deals
    <3> QED
      BY <1>1, <3>1, RowHolds DEF Deal, Row
  <2>6. d \in Int /\ wallet' = [wallet EXCEPT ![u] = @ - d]
    <3> DEFINE a == Deals[i].principal
               b == Deals'[i].profit
               x == wallet[u]
    <3>1. x \in Int /\ a \in Int /\ b \in Int
      BY <1>1, <2>5
    <3>2. d = 0 - (a + b) /\ wallet' = [wallet EXCEPT ![u] = x + a + b]
      BY <2>1
    <3> HIDE DEF a, b, x, d
    <3>3. d \in Int /\ x + a + b = x - d
      BY <3>1, <3>2
    <3>4. wallet' = [wallet EXCEPT ![u] = x - d]
      BY <3>2, <3>3
    <3> QED
      BY <3>3, <3>4 DEF x
  <2> QED
    BY <2>4, <2>5, <2>6 DEF MoneyMoves
<1>7. \/ \E u \in Users, i \in Trades, principal \in Principals : Escrow!Open(u, i, principal)
      \/ \E i \in DOMAIN Deals : \/ Escrow!Earn(i, Deals'[i].profit)
                                 \/ Escrow!Close(i, Deals'[i].profit)
  BY DEF Escrow!Next, Deals
<1> QED
  BY <1>2, <1>3, <1>5, <1>6, <1>7, ConstantsOK

\* Moving money between a wallet and a trade changes no total.
LEMMA MovesConserve ==
    ASSUME TypeOK, TypeOK', MoneyConserved,
           NEW u \in Users, NEW i \in Trades, NEW d \in Int, MoneyMoves(u, i, d)
    PROVE  MoneyConserved'
<1>1. IsFiniteSet(Users) /\ IsFiniteSet(Trades)
  BY ConstantsOK
<1>2. /\ \A v \in Users : wallet[v] \in Int /\ wallet'[v] \in Int
      /\ \A j \in Trades : Held[j] \in Int /\ Held'[j] \in Int
      /\ \A j \in Trades : Credited[j] \in Int /\ Credited'[j] \in Int
  BY DEF TypeOK, Held, Credited, Row
<1>3. /\ \A v \in Users \ {u} : wallet'[v] = wallet[v]
      /\ wallet'[u] = wallet[u] - d
  BY DEF MoneyMoves, TypeOK
<1>4. \A j \in Trades \ {i} : Held'[j] = Held[j] /\ Credited'[j] = Credited[j]
  BY DEF MoneyMoves
<1>5. Held'[i] - Credited'[i] = Held[i] - Credited[i] + d
  BY DEF MoneyMoves
<1>6. SumFunctionOnSet(wallet', Users)
        = SumFunctionOnSet(wallet, Users) + (wallet'[u] - wallet[u])
  BY <1>1, <1>2, <1>3, SumChange
<1>7. SumFunctionOnSet(Held', Trades)
        = SumFunctionOnSet(Held, Trades) + (Held'[i] - Held[i])
  BY <1>1, <1>2, <1>4, SumChange
<1>8. SumFunctionOnSet(Credited', Trades)
        = SumFunctionOnSet(Credited, Trades) + (Credited'[i] - Credited[i])
  BY <1>1, <1>2, <1>4, SumChange
<1>9. /\ SumFunctionOnSet(wallet, Users) \in Int
      /\ SumFunctionOnSet(Held, Trades) \in Int
      /\ SumFunctionOnSet(Credited, Trades) \in Int
      /\ Cardinality(Users) * InitialBalance \in Int
  BY <1>1, <1>2, SumType, FS_CardinalityType, ConstantsOK
<1>10. SumFunctionOnSet(wallet', Users) = SumFunctionOnSet(wallet, Users) - d
  <2>1. wallet[u] \in Int
    BY <1>2
  <2> QED
    BY <1>3, <1>6, <1>9, <2>1
<1>11. SumFunctionOnSet(Held', Trades) - SumFunctionOnSet(Credited', Trades)
         = SumFunctionOnSet(Held, Trades) - SumFunctionOnSet(Credited, Trades) + d
  <2>1. /\ Held[i] \in Int /\ Held'[i] \in Int
        /\ Credited[i] \in Int /\ Credited'[i] \in Int
    BY <1>2
  <2> QED
    BY <1>5, <1>7, <1>8, <1>9, <2>1
<1>12. SumFunctionOnSet(Held', Trades) \in Int /\ SumFunctionOnSet(Credited', Trades) \in Int
  BY <1>1, <1>2, SumType
<1>13. SumFunctionOnSet(wallet', Users) + SumFunctionOnSet(Held', Trades)
         = Cardinality(Users) * InitialBalance + SumFunctionOnSet(Credited', Trades)
  BY <1>9, <1>10, <1>11, <1>12 DEF MoneyConserved
<1> QED
  BY <1>13 DEF MoneyConserved

\* If admin requests do not overlap, wallets and locked amounts add up to what
\* the users brought in plus the profit credited, for any number of users,
\* trades, sweeps, failures and restarts and any terms: no deletion and no
\* payout makes money vanish or appear.
THEOREM MoneyConservedWithOneAdmin ==
    ASSUME OneAdminAtATime
    PROVE  Spec => []MoneyConserved
<1>1. Init => MoneyConserved
  <2> SUFFICES ASSUME Init PROVE MoneyConserved
    OBVIOUS
  <2>1. IsFiniteSet(Users) /\ IsFiniteSet(Trades) /\ InitialBalance \in Int
    BY ConstantsOK
  <2>2. /\ \A u \in Users : wallet[u] = InitialBalance
        /\ \A i \in Trades : Held[i] = 0 /\ Credited[i] = 0
    BY DEF Init, Held, Credited, NoRow, Live
  <2>3. SumFunctionOnSet(wallet, Users) = Cardinality(Users) * InitialBalance
    BY <2>1, <2>2, SumConstant
  <2>4. SumFunctionOnSet(Held, Trades) = Cardinality(Trades) * 0
    BY <2>1, <2>2, SumConstant
  <2>5. SumFunctionOnSet(Credited, Trades) = Cardinality(Trades) * 0
    BY <2>1, <2>2, SumConstant
  <2>6. Cardinality(Users) \in Nat /\ Cardinality(Trades) \in Nat
    BY <2>1, FS_CardinalityType
  <2> QED
    BY <2>1, <2>3, <2>4, <2>5, <2>6 DEF MoneyConserved
<1>2. /\ TypeOK /\ TypeOK' /\ BooksInv /\ BooksInv' /\ SerialInv
      /\ EscrowInv /\ EscrowInv' /\ MoneyConserved /\ [Next]_vars
      => MoneyConserved'
  <2> SUFFICES ASSUME TypeOK, TypeOK', BooksInv, BooksInv', SerialInv,
                      EscrowInv, EscrowInv', MoneyConserved, [Next]_vars
               PROVE  MoneyConserved'
    OBVIOUS
  <2>1. BooksBalance /\ BooksBalance'
    BY DEF BooksInv
  <2>2. CASE Escrow!Next
    BY <2>1, <2>2, EscrowMovesMoney, MovesConserve
  <2>3. CASE UNCHANGED Escrow!vars
    <3>1. wallet' = wallet /\ Deals' = Deals
      BY <2>3 DEF Escrow!vars, Deals
    <3>2. Started' = Started
      <4>1. DOMAIN Deals = Started /\ DOMAIN Deals' = Started'
        BY DEF Deals
      <4> QED
        BY <3>1, <4>1
    <3>3. \A j \in Started : Deal(inv'[j]) = Deal(inv[j])
      <4>1. \A j \in Started : Deals[j] = Deal(inv[j]) /\ Deals'[j] = Deal(inv'[j])
        BY <3>2 DEF Deals
      <4> QED
        BY <3>1, <4>1
    <3>4. \A j \in Trades : Held'[j] = Held[j] /\ Credited'[j] = Credited[j]
      BY <2>1, <3>2, <3>3, SameDealHolds
    <3>5. Held' = Held /\ Credited' = Credited
      BY <3>4 DEF Held, Credited
    <3> QED
      BY <3>1, <3>5 DEF MoneyConserved
  <2> QED
    BY <2>2, <2>3, EscrowStep
<1> QED
  BY <1>1, <1>2, TypeCorrect, BooksInvHolds, SerialInvHolds, EscrowInvHolds, PTL DEF Spec

=============================================================================
