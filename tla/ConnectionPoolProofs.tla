------------------------ MODULE ConnectionPoolProofs ------------------------
(* What stops the server on PostgreSQL, for any pool, any users and any    *)
(* number of requests.                                                     *)
EXTENDS ConnectionPool, FiniteSetTheorems, SequenceTheorems, WellFoundedInduction, TLAPS

\* What the scripts are made of.
LEMMA ScriptsTyped == Scripts \subseteq Seq(Row \cup {Beside})
<1> DEFINE D == Row \cup {Beside}
<1>1. /\ Beside \in D
      /\ \A h \in Holdings : WalletOf(h) \in D /\ Account(h[1]) \in D
      /\ \A h \in Trades : TradeOf(h) \in D /\ h \in Holdings
      /\ \A u \in Users : Subscription(u) \in D
      /\ \A u \in Referred : WalletOf(Payee(u)) \in D /\ Account(Referrer[u]) \in D
  <2>1. \A h \in Holdings : h[1] \in Users
      BY PoolOK
  <2>2. \A u \in Referred : Payee(u) \in Holdings /\ Referrer[u] \in Users
      BY PoolOK DEF Payee, Referred
  <2> QED BY <2>1, <2>2, PoolOK DEF Row
<1> SUFFICES ASSUME NEW s \in Scripts PROVE s \in Seq(D)
    OBVIOUS
<1>3. \A row \in Row : row \in D
    OBVIOUS
<1> HIDE DEF D
<1>4. CASE s \in Statement
    BY <1>4 DEF Statement
<1>5. CASE s \in OneRow
  <2>1. PICK row \in Row : s = <<row>>
      BY <1>5 DEF OneRow, Row
  <2> QED BY <1>3, <2>1
<1>6. CASE s \in CreditBonus
  <2>1. PICK h \in Holdings : s = <<WalletOf(h), Account(h[1])>>
      BY <1>6 DEF CreditBonus
  <2> QED BY <1>1, <2>1
<1>7. CASE s \in Transfer
  <2>1. PICK p \in Holdings \X Holdings :
          s = <<WalletOf(p[1]), Account(p[1][1]), WalletOf(p[2])>>
      BY <1>7 DEF Transfer
  <2>2. p[1] \in Holdings /\ p[2] \in Holdings
      OBVIOUS
  <2> QED BY <1>1, <2>1, <2>2
<1>8. CASE s \in RequestWithdrawal
  <2>1. PICK h \in Holdings : s = <<WalletOf(h), Account(h[1]), Beside, Beside, Beside>>
      BY <1>8 DEF RequestWithdrawal
  <2> QED BY <1>1, <2>1
<1>9. CASE s \in Start
  <2>1. PICK h \in Holdings : s = <<WalletOf(h), Account(h[1]), Beside>>
      BY <1>9 DEF Start
  <2> QED BY <1>1, <2>1
<1>10. CASE s \in Accrue
  <2>1. PICK h \in Trades : s = <<Beside, TradeOf(h)>>
      BY <1>10 DEF Accrue
  <2> QED BY <1>1, <2>1
<1>11. CASE s \in AdminCancel
  <2>1. PICK h \in Trades : s = <<WalletOf(h), Account(h[1]), TradeOf(h)>>
      BY <1>11 DEF AdminCancel
  <2> QED BY <1>1, <2>1
<1>12. CASE s \in AdminComplete
  <2>1. PICK h \in Trades :
          \/ s = <<Beside, TradeOf(h), WalletOf(h), Account(h[1])>>
          \/ s = <<Beside, WalletOf(h), Account(h[1]), TradeOf(h)>>
      BY <1>12 DEF AdminComplete
  <2>2. CASE s = <<Beside, TradeOf(h), WalletOf(h), Account(h[1])>>
      BY <1>1, <2>2
  <2>3. CASE s = <<Beside, WalletOf(h), Account(h[1]), TradeOf(h)>>
      BY <1>1, <2>3
  <2> QED BY <2>1, <2>2, <2>3
<1>13. CASE s \in AdminCompletePays
  <2>1. PICK h \in Trades :
          /\ h[1] \in Referred
          /\ \/ s = <<Beside, TradeOf(h), WalletOf(h), Account(h[1]),
                      Beside, WalletOf(Payee(h[1])), Account(Referrer[h[1]])>>
             \/ s = <<Beside, WalletOf(h), Account(h[1]), TradeOf(h),
                      Beside, WalletOf(Payee(h[1])), Account(Referrer[h[1]])>>
      BY <1>13 DEF AdminCompletePays
  <2>2. /\ TradeOf(h) \in D /\ WalletOf(h) \in D /\ Account(h[1]) \in D /\ Beside \in D
        /\ WalletOf(Payee(h[1])) \in D /\ Account(Referrer[h[1]]) \in D
      BY <1>1, <2>1
  <2>3. \A b, t, w, a, v, c \in D : /\ <<b, t, w, a, b, v, c>> \in Seq(D)
                                    /\ <<b, w, a, t, b, v, c>> \in Seq(D)
      OBVIOUS
  <2>4. /\ <<Beside, TradeOf(h), WalletOf(h), Account(h[1]),
             Beside, WalletOf(Payee(h[1])), Account(Referrer[h[1]])>> \in Seq(D)
        /\ <<Beside, WalletOf(h), Account(h[1]), TradeOf(h),
             Beside, WalletOf(Payee(h[1])), Account(Referrer[h[1]])>> \in Seq(D)
      BY <2>2, <2>3
  <2> QED BY <2>1, <2>4
<1>14. CASE s \in ConfirmSubscription
  <2>1. PICK u \in Referred :
          s = <<Subscription(u), Beside, WalletOf(Payee(u)), Account(Referrer[u])>>
      BY <1>14 DEF ConfirmSubscription
  <2>2. u \in Users
      BY DEF Referred
  <2> QED BY <1>1, <2>1, <2>2
<1> QED BY <1>4, <1>5, <1>6, <1>7, <1>8, <1>9, <1>10, <1>11, <1>12, <1>13, <1>14 DEF Scripts

-----------------------------------------------------------------------------
(* The invariant.                                                          *)

\* Nobody waits while a connection is idle, nobody waits twice, and no request
\* has more than two connections, or more than one while it waits.
Sharing(u, q) ==
    /\ u \in [Connections -> Requests \cup {Nobody, Ping}]
    /\ q \in Seq(Requests \cup {Ping})
    /\ q # <<>> => \A c \in Connections : u[c] # Nobody
    /\ \A i, j \in 1 .. Len(q) : q[i] \in Requests /\ q[i] = q[j] => i = j
    /\ \A r \in Requests, c, d, e \in Connections :
         u[c] = r /\ u[d] = r /\ u[e] = r => c = d \/ d = e \/ c = e
    /\ \A r \in Requests, i \in 1 .. Len(q) : q[i] = r =>
         \A c, d \in Connections : u[c] = r /\ u[d] = r => c = d

\* A request is somewhere in a script.
InScript ==
    /\ job \in [Requests -> Job]
    /\ \A r \in Requests : job[r].script \in Scripts

\* Who has locked w has a connection, and has come to w in its script.
Holder(w) ==
    locks[w] # Nobody =>
        /\ Has(locks[w]) # {}
        /\ \E i \in Nat : /\ 1 <= i /\ i < job[locks[w]].at
                          /\ i <= Len(job[locks[w]].script)
                          /\ job[locks[w]].script[i] = w

PoolInv ==
    /\ Sharing(use, queue)
    /\ InScript
    /\ locks \in [Row -> Requests \cup {Nobody}]
    /\ \A w \in Row : Holder(w)

LEMMA SharingTyped ==
    ASSUME PoolInv
    PROVE  TypeOK
<1>1. DOMAIN queue = 1 .. Len(queue)
    BY DEF PoolInv, Sharing
<1> QED BY <1>1 DEF PoolInv, Sharing, InScript, TypeOK, Queued

-----------------------------------------------------------------------------
(* Connections change hands.                                               *)

LEMMA AsksShares ==
    ASSUME Sharing(use, queue), NEW r \in Requests, ~Queued(r), Asks(r),
           \A c, d \in Connections : use[c] = r /\ use[d] = r => c = d
    PROVE  /\ Sharing(use', queue')
           /\ \A c \in Connections : use'[c] # use[c] => use[c] = Nobody /\ use'[c] = r
<1>1. CASE Idle # {}
  <2>1. PICK c \in Idle : use' = [use EXCEPT ![c] = r] /\ queue' = queue
      BY <1>1 DEF Asks
  <2>2. c \in Connections /\ use[c] = Nobody /\ queue = <<>>
      BY DEF Idle, Sharing
  <2>3. use' \in [Connections -> Requests \cup {Nobody, Ping}] /\ use'[c] = r
        /\ \A d \in Connections : d # c => use'[d] = use[d]
      BY <2>1, <2>2 DEF Sharing
  <2>4. Len(queue') = 0
      BY <2>1, <2>2
  <2>5. ASSUME NEW p \in Requests, NEW d \in Connections, NEW e \in Connections,
               NEW f \in Connections, use'[d] = p, use'[e] = p, use'[f] = p
        PROVE  d = e \/ e = f \/ d = f
    <3>1. CASE p # r
        BY <2>3, <2>5, <3>1 DEF Sharing
    <3>2. CASE p = r
        BY <2>3, <2>5, <3>2
    <3> QED BY <3>1, <3>2
  <2>6. Sharing(use', queue')
      BY <2>1, <2>2, <2>3, <2>4, <2>5 DEF Sharing
  <2> QED BY <2>2, <2>3, <2>6
<1>2. CASE Idle = {}
  <2>1. use' = use /\ queue' = Append(queue, r)
      BY <1>2 DEF Asks
  <2>2. queue' \in Seq(Requests \cup {Ping}) /\ Len(queue') = Len(queue) + 1
        /\ queue'[Len(queue) + 1] = r
        /\ \A i \in 1 .. Len(queue) : queue'[i] = queue[i]
      BY <2>1 DEF Sharing
  <2>3. \A i \in 1 .. Len(queue) : queue[i] # r
      BY DEF Queued, Sharing
  <2>4. \A c \in Connections : use'[c] # Nobody
      BY <1>2, <2>1 DEF Idle
  <2>5. ASSUME NEW i \in 1 .. Len(queue'), NEW j \in 1 .. Len(queue'),
               queue'[i] \in Requests, queue'[i] = queue'[j]
        PROVE  i = j
    <3>1. CASE i \in 1 .. Len(queue) /\ j \in 1 .. Len(queue)
        BY <2>2, <2>5, <3>1 DEF Sharing
    <3>2. CASE i = Len(queue) + 1 \/ j = Len(queue) + 1
        BY <2>2, <2>3, <2>5, <3>2 DEF Sharing
    <3> QED BY <2>2, <3>1, <3>2 DEF Sharing
  <2>6. ASSUME NEW p \in Requests, NEW i \in 1 .. Len(queue'), queue'[i] = p,
               NEW c \in Connections, NEW d \in Connections, use'[c] = p, use'[d] = p
        PROVE  c = d
    <3>1. CASE i \in 1 .. Len(queue)
        BY <2>1, <2>2, <2>6, <3>1 DEF Sharing
    <3>2. CASE i = Len(queue) + 1
        BY <2>1, <2>2, <2>6, <3>2
    <3> QED BY <2>2, <3>1, <3>2 DEF Sharing
  <2>7. Sharing(use', queue')
      BY <2>1, <2>2, <2>4, <2>5, <2>6 DEF Sharing
  <2> QED BY <2>1, <2>7
<1> QED BY <1>1, <1>2

LEMMA TailShares ==
    ASSUME Sharing(use, queue), queue # <<>>
    PROVE  /\ Sharing(use, Tail(queue))
           /\ Head(queue) \in Requests \cup {Ping}
           /\ \A i \in 1 .. Len(Tail(queue)) :
                Head(queue) \in Requests => Tail(queue)[i] # Head(queue)
<1>1. /\ Tail(queue) \in Seq(Requests \cup {Ping})
      /\ Len(Tail(queue)) = Len(queue) - 1 /\ Len(queue) \in Nat
      /\ \A i \in 1 .. Len(Tail(queue)) : Tail(queue)[i] = queue[i + 1]
      /\ Head(queue) = queue[1] /\ Len(queue) >= 1
    BY DEF Sharing
<1>2. Sharing(use, Tail(queue))
    BY <1>1 DEF Sharing
<1> QED BY <1>1, <1>2 DEF Sharing

LEMMA HandsOnShares ==
    ASSUME NEW q, Sharing(use, q), NEW c \in Connections, use[c] # Nobody, HandsOn(c, q)
    PROVE  /\ Sharing(use', queue')
           /\ \A d \in Connections : d # c => use'[d] = use[d]
<1>1. CASE q = <<>>
  <2>1. use' = [use EXCEPT ![c] = Nobody] /\ queue' = <<>>
      BY <1>1 DEF HandsOn
  <2>2. /\ use' \in [Connections -> Requests \cup {Nobody, Ping}]
        /\ \A d \in Connections : d # c => use'[d] = use[d]
        /\ use'[c] \notin Requests
      BY <2>1, PoolOK DEF Sharing
  <2>3. queue' \in Seq(Requests \cup {Ping}) /\ Len(queue') = 0
      BY <2>1
  <2>4. ASSUME NEW p \in Requests, NEW d \in Connections, NEW e \in Connections,
               NEW f \in Connections, use'[d] = p, use'[e] = p, use'[f] = p
        PROVE  d = e \/ e = f \/ d = f
      BY <2>2, <2>4 DEF Sharing
  <2>5. Sharing(use', queue')
      BY <2>1, <2>2, <2>3, <2>4 DEF Sharing
  <2> QED BY <2>2, <2>5
<1>2. CASE q # <<>>
  <2>1. use' = [use EXCEPT ![c] = Head(q)] /\ queue' = Tail(q)
      BY <1>2 DEF HandsOn
  <2>2. /\ Tail(q) \in Seq(Requests \cup {Ping})
        /\ Len(Tail(q)) = Len(q) - 1 /\ Len(q) \in Nat /\ Len(q) >= 1
        /\ \A i \in 1 .. Len(Tail(q)) : Tail(q)[i] = q[i + 1]
        /\ Head(q) = q[1] /\ q[1] \in Requests \cup {Ping}
      BY <1>2 DEF Sharing
  <2>3. /\ use' \in [Connections -> Requests \cup {Nobody, Ping}]
        /\ \A d \in Connections : d # c => use'[d] = use[d]
        /\ use'[c] = q[1]
      BY <2>1, <2>2 DEF Sharing
  <2>4. \A d \in Connections : use'[d] # Nobody
      BY <1>2, <2>2, <2>3, PoolOK DEF Sharing
  <2>5. ASSUME NEW p \in Requests, NEW d \in Connections, NEW e \in Connections,
               NEW f \in Connections, use'[d] = p, use'[e] = p, use'[f] = p
        PROVE  d = e \/ e = f \/ d = f
    <3>1. CASE p = q[1]
      <4>1. \A g, h \in Connections : use[g] = p /\ use[h] = p => g = h
          BY <2>2, <3>1 DEF Sharing
      <4> QED BY <2>3, <2>5, <4>1
    <3>2. CASE p # q[1]
        BY <2>3, <2>5, <3>2 DEF Sharing
    <3> QED BY <3>1, <3>2
  <2>6. ASSUME NEW p \in Requests, NEW i \in 1 .. Len(queue'), queue'[i] = p,
               NEW d \in Connections, NEW e \in Connections, use'[d] = p, use'[e] = p
        PROVE  d = e
    <3>1. i + 1 \in 1 .. Len(q) /\ q[i + 1] = p /\ 1 \in 1 .. Len(q) /\ i + 1 # 1
        BY <2>1, <2>2, <2>6
    <3>2. p # q[1]
        BY <3>1 DEF Sharing
    <3>3. use[d] = p /\ use[e] = p
        BY <2>3, <2>6, <3>2
    <3> QED BY <3>1, <3>3 DEF Sharing
  <2>7. ASSUME NEW i \in 1 .. Len(queue'), NEW j \in 1 .. Len(queue'),
               queue'[i] \in Requests, queue'[i] = queue'[j]
        PROVE  i = j
    <3>1. i + 1 \in 1 .. Len(q) /\ j + 1 \in 1 .. Len(q)
          /\ q[i + 1] = queue'[i] /\ q[j + 1] = queue'[j]
        BY <2>1, <2>2
    <3>2. i + 1 = j + 1
        BY <2>7, <3>1 DEF Sharing
    <3> QED BY <3>2
  <2>8. Sharing(use', queue')
      BY <2>1, <2>2, <2>3, <2>4, <2>5, <2>6, <2>7 DEF Sharing
  <2> QED BY <2>3, <2>8
<1> QED BY <1>1, <1>2

-----------------------------------------------------------------------------
(* The invariant is inductive: one lemma per kind of step.                 *)

\* A lock is kept by a request that keeps a connection and goes no step back.
LEMMA HolderKept ==
    ASSUME NEW w \in Row, Holder(w), locks'[w] = locks[w],
           locks[w] # Nobody =>
             /\ \E c \in Connections : use'[c] = locks[w]
             /\ job'[locks[w]].script = job[locks[w]].script
             /\ job[locks[w]].at \in Nat /\ job'[locks[w]].at \in Nat
             /\ job'[locks[w]].at >= job[locks[w]].at
    PROVE  Holder(w)'
BY DEF Holder, Has

\* Whoever has a connection keeps it, but for c.
LEMMA OthersKeep ==
    ASSUME NEW p, NEW c \in Connections, use[c] # p, Has(p) # {},
           \A d \in Connections : d # c => use'[d] = use[d]
    PROVE  \E d \in Connections : use'[d] = p
BY DEF Has

LEMMA NoJobTyped == NoJob \in Job /\ NoJob.script \in Scripts
<1>1. <<>> \in Scripts
    BY DEF Scripts, Statement
<1>2. NoJob \in Job
    BY DEF NoJob, Job
<1> QED BY <1>1, <1>2 DEF NoJob

LEMMA BeginStep ==
    ASSUME PoolInv, NEW r \in Requests, NEW s \in Scripts, Begin(r, s)
    PROVE  PoolInv'
<1>1. /\ ~Queued(r) /\ Asks(r) /\ locks' = locks
      /\ \A c \in Connections : use[c] # r
      /\ job' = [job EXCEPT ![r] = [script |-> s, at |-> 1]]
    BY DEF Begin, AtRest, Has
<1>2. /\ Sharing(use', queue')
      /\ \A c \in Connections : use'[c] # use[c] => use[c] = Nobody /\ use'[c] = r
    BY <1>1, AsksShares DEF PoolInv
<1>3. [script |-> s, at |-> 1] \in Job
    BY ScriptsTyped DEF Job
<1>4. InScript'
    BY <1>1, <1>3 DEF PoolInv, InScript
<1>5. ASSUME NEW w \in Row
      PROVE  Holder(w)'
  <2>1. Holder(w) /\ locks[w] # r
    <3>1. Holder(w) /\ r # Nobody
        BY PoolOK DEF PoolInv
    <3> QED BY <1>1, <3>1 DEF Holder, Has
  <2>2. locks[w] # Nobody => \E c \in Connections : use'[c] = locks[w]
      BY <1>2, <2>1 DEF Holder, Has
  <2>3. locks[w] # Nobody => locks[w] \in Requests /\ job'[locks[w]] = job[locks[w]]
      BY <1>1, <2>1 DEF PoolInv, InScript
  <2>4. locks[w] # Nobody => job[locks[w]].at \in Nat
      BY <2>3 DEF PoolInv, InScript, Job
  <2> QED BY <1>1, <2>1, <2>2, <2>3, <2>4, HolderKept
<1> QED BY <1>1, <1>2, <1>4, <1>5 DEF PoolInv

LEMMA AskBesideStep ==
    ASSUME PoolInv, NEW r \in Requests, AskBeside(r)
    PROVE  PoolInv'
<1>1. /\ ~Queued(r) /\ Asks(r) /\ locks' = locks /\ job' = job
      /\ \A c, d \in Connections : use[c] = r /\ use[d] = r => c = d
    BY DEF AskBeside, Running, Has
<1>2. /\ Sharing(use', queue')
      /\ \A c \in Connections : use'[c] # use[c] => use[c] = Nobody /\ use'[c] = r
    BY <1>1, AsksShares DEF PoolInv
<1>3. ASSUME NEW w \in Row
      PROVE  Holder(w)'
  <2>1. Holder(w)
      BY DEF PoolInv
  <2>2. locks[w] # Nobody => \E c \in Connections : use'[c] = locks[w]
      BY <1>2, <2>1 DEF Holder, Has
  <2>3. locks[w] # Nobody => locks[w] \in Requests /\ job[locks[w]].at \in Nat
      BY DEF PoolInv, InScript, Job
  <2> QED BY <1>1, <2>1, <2>2, <2>3, HolderKept
<1>4. InScript'
    BY <1>1 DEF PoolInv, InScript
<1> QED BY <1>1, <1>2, <1>3, <1>4 DEF PoolInv

\* Advance leaves r in its script.
LEMMA AdvanceTyped ==
    ASSUME InScript, NEW r \in Requests, Advance(r)
    PROVE  /\ InScript'
           /\ \A p \in Requests : /\ job'[p].script = job[p].script
                                  /\ job[p].at \in Nat /\ job'[p].at \in Nat
                                  /\ job'[p].at >= job[p].at
           /\ job'[r].at = job[r].at + 1
<1>1. job[r].at \in Nat \ {0} /\ job[r].script \in Seq(Row \cup {Beside})
    BY DEF InScript, Job
<1>2. job' = [job EXCEPT ![r] = [script |-> job[r].script, at |-> job[r].at + 1]]
  <2>1. job[r] = [script |-> job[r].script, at |-> job[r].at]
      BY DEF InScript, Job
  <2>2. [job[r] EXCEPT !.at = @ + 1] = [script |-> job[r].script, at |-> job[r].at + 1]
      BY <2>1
  <2> QED BY <2>2 DEF Advance, InScript
<1>3. [script |-> job[r].script, at |-> job[r].at + 1] \in Job
    BY <1>1 DEF Job
<1>4. InScript'
    BY <1>2, <1>3 DEF InScript
<1>5. \A p \in Requests : job[p].at \in Nat
    BY DEF InScript, Job
<1> QED BY <1>1, <1>2, <1>4, <1>5 DEF InScript

LEMMA ReadBesideStep ==
    ASSUME PoolInv, NEW r \in Requests, ReadBeside(r)
    PROVE  PoolInv'
<1>1. PICK c \in Has(r), d \in Has(r) : c # d /\ HandsOn(c, queue)
    BY DEF ReadBeside
<1>2. Advance(r) /\ locks' = locks
    BY DEF ReadBeside
<1>3. c \in Connections /\ d \in Connections /\ use[c] = r /\ use[d] = r
    BY DEF Has
<1>4. use[c] # Nobody
    BY <1>3, PoolOK
<1>5. /\ Sharing(use', queue')
      /\ \A e \in Connections : e # c => use'[e] = use[e]
    BY <1>1, <1>3, <1>4, HandsOnShares DEF PoolInv
<1>6. ASSUME NEW w \in Row
      PROVE  Holder(w)'
  <2>1. Holder(w)
      BY DEF PoolInv
  <2>2. CASE locks[w] = Nobody
      BY <1>2, <2>1, <2>2 DEF Holder
  <2>3. CASE locks[w] # Nobody
    <3>1. locks[w] \in Requests
        BY <2>3 DEF PoolInv
    <3>2. \E e \in Connections : use'[e] = locks[w]
        BY <1>1, <1>3, <1>5, <2>1, <2>3 DEF Holder, Has
    <3> QED BY <1>2, <2>1, <3>1, <3>2, AdvanceTyped, HolderKept DEF PoolInv
  <2> QED BY <2>2, <2>3
<1> QED BY <1>2, <1>5, <1>6, AdvanceTyped DEF PoolInv

LEMMA LockStep ==
    ASSUME PoolInv, NEW r \in Requests, Lock(r)
    PROVE  PoolInv'
<1> DEFINE v == NextStep(r)
<1>1. /\ v \in Row /\ locks[v] = Nobody /\ locks' = [locks EXCEPT ![v] = r]
      /\ Advance(r) /\ use' = use /\ queue' = queue
      /\ \E c \in Connections : use[c] = r
      /\ ~Over(r)
    BY DEF Lock, Running, Has
<1>2. job[r].at \in Nat /\ 1 <= job[r].at /\ job[r].at <= Len(job[r].script)
      /\ job[r].script[job[r].at] = v
    BY <1>1 DEF PoolInv, InScript, Job, Over, NextStep
<1> HIDE DEF v
<1>3. ASSUME NEW w \in Row
      PROVE  Holder(w)'
  <2>1. CASE w = v
    <3>1. locks'[w] = r
        BY <1>1, <2>1 DEF PoolInv
    <3>2. job'[r].script = job[r].script /\ job'[r].at = job[r].at + 1
        BY <1>1, AdvanceTyped DEF PoolInv
    <3> QED BY SMTT(30), <1>1, <1>2, <2>1, <3>1, <3>2 DEF Holder, Has
  <2>2. CASE w # v
    <3>1. locks'[w] = locks[w] /\ Holder(w)
        BY <1>1, <2>2 DEF PoolInv
    <3>2. locks[w] # Nobody => locks[w] \in Requests
                               /\ \E c \in Connections : use'[c] = locks[w]
        BY <1>1, <3>1 DEF PoolInv, Holder, Has
    <3> QED BY <1>1, <3>1, <3>2, AdvanceTyped, HolderKept DEF PoolInv
  <2> QED BY <2>1, <2>2
<1>4. locks' \in [Row -> Requests \cup {Nobody}]
    BY <1>1 DEF PoolInv
<1>5. Sharing(use', queue')
    BY <1>1 DEF PoolInv
<1> QED BY <1>1, <1>3, <1>4, <1>5, AdvanceTyped DEF PoolInv

\* r leaves its locks, and a connection no other request has changes hands.
LEMMA LeavesOthers ==
    ASSUME PoolInv, NEW r \in Requests, Sharing(use', queue'),
           job' = [job EXCEPT ![r] = NoJob], Unlocks(r),
           \A p \in Requests \ {r} :
             Has(p) # {} => \E c \in Connections : use'[c] = p
    PROVE  PoolInv'
<1>1. InScript'
    BY NoJobTyped DEF PoolInv, InScript
<1>2. locks' \in [Row -> Requests \cup {Nobody}]
    BY DEF PoolInv, Unlocks
<1>3. ASSUME NEW w \in Row
      PROVE  Holder(w)'
  <2>1. CASE locks[w] = r \/ locks[w] = Nobody
    <3>1. locks'[w] = Nobody
        BY <2>1, PoolOK DEF Unlocks
    <3> QED BY <3>1 DEF Holder
  <2>2. CASE locks[w] # r /\ locks[w] # Nobody
    <3>1. /\ locks'[w] = locks[w] /\ Holder(w)
          /\ locks[w] \in Requests \ {r} /\ job'[locks[w]] = job[locks[w]]
          /\ Has(locks[w]) # {}
        BY <2>2 DEF PoolInv, InScript, Holder, Unlocks
    <3>2. job[locks[w]].at \in Nat
        BY <3>1 DEF PoolInv, InScript, Job
    <3> QED BY <3>1, <3>2, HolderKept
  <2> QED BY <2>1, <2>2
<1> QED BY <1>1, <1>2, <1>3 DEF PoolInv

LEMMA EndsStep ==
    ASSUME PoolInv, NEW r \in Requests, Ends(r)
    PROVE  PoolInv'
<1>1. PICK c \in Has(r) : HandsOn(c, queue)
    BY DEF Ends
<1>2. c \in Connections /\ use[c] = r /\ use[c] # Nobody
    BY PoolOK DEF Has
<1>3. /\ Sharing(use', queue')
      /\ \A e \in Connections : e # c => use'[e] = use[e]
    BY <1>1, <1>2, HandsOnShares DEF PoolInv
<1>4. \A p \in Requests \ {r} : Has(p) # {} => \E e \in Connections : use'[e] = p
    BY <1>2, <1>3, OthersKeep
<1> QED BY <1>3, <1>4, LeavesOthers DEF Ends

LEMMA ExpireStep ==
    ASSUME PoolInv, Expire
    PROVE  PoolInv'
<1> DEFINE x == Head(queue)
<1>1. queue # <<>> /\ Sharing(use, Tail(queue)) /\ x \in Requests \cup {Ping}
    BY TailShares DEF PoolInv, Expire
<1>2. CASE x \in Requests
  <2>1. job' = [job EXCEPT ![x] = NoJob] /\ Unlocks(x)
      BY <1>2 DEF Expire
  <2>2. CASE Has(x) = {}
    <3>1. use' = use /\ queue' = Tail(queue)
        BY <1>2, <2>2 DEF Expire
    <3>2. \A p \in Requests \ {x} : Has(p) # {} => \E e \in Connections : use'[e] = p
        BY <3>1 DEF Has
    <3>3. Sharing(use', queue')
        BY <1>1, <3>1
    <3> HIDE DEF x
    <3> QED BY <1>2, <2>1, <3>2, <3>3, LeavesOthers
  <2>3. CASE Has(x) # {}
    <3>1. PICK c \in Has(x) : HandsOn(c, Tail(queue))
        BY <1>2, <2>3 DEF Expire
    <3>2. c \in Connections /\ use[c] = x /\ use[c] # Nobody
        BY <1>2, PoolOK DEF Has
    <3>3. /\ Sharing(use', queue')
          /\ \A e \in Connections : e # c => use'[e] = use[e]
        BY <1>1, <3>1, <3>2, HandsOnShares
    <3>4. \A p \in Requests \ {x} : Has(p) # {} => \E e \in Connections : use'[e] = p
        BY <3>2, <3>3, OthersKeep
    <3> HIDE DEF x
    <3> QED BY <1>2, <2>1, <3>3, <3>4, LeavesOthers
  <2> QED BY <2>2, <2>3
<1>3. CASE x \notin Requests
  <2>1. use' = use /\ queue' = Tail(queue) /\ job' = job /\ locks' = locks
      BY <1>3 DEF Expire
  <2>2. \A w \in Row : Holder(w)'
      BY <2>1 DEF PoolInv, Holder, Has
  <2>3. Sharing(use', queue') /\ InScript'
      BY <1>1, <2>1 DEF PoolInv, InScript
  <2> QED BY <2>1, <2>2, <2>3 DEF PoolInv
<1> QED BY <1>2, <1>3

LEMMA PingedStep ==
    ASSUME PoolInv, NEW c \in Connections, Pinged(c)
    PROVE  PoolInv'
<1>1. /\ HandsOn(c, queue) /\ job' = job /\ locks' = locks
      /\ use[c] # Nobody /\ use[c] \notin Requests
    BY PoolOK DEF Pinged
<1>2. /\ Sharing(use', queue')
      /\ \A e \in Connections : e # c => use'[e] = use[e]
    BY <1>1, HandsOnShares DEF PoolInv
<1>3. ASSUME NEW w \in Row
      PROVE  Holder(w)'
  <2>1. Holder(w) /\ locks[w] \in Requests \cup {Nobody}
      BY DEF PoolInv
  <2>2. CASE locks[w] = Nobody
      BY <1>1, <2>2 DEF Holder
  <2>3. CASE locks[w] # Nobody
    <3>1. \E e \in Connections : use'[e] = locks[w]
        BY <1>1, <1>2, <2>1, <2>3, OthersKeep DEF Holder
    <3>2. job[locks[w]].at \in Nat
        BY <2>1, <2>3 DEF PoolInv, InScript, Job
    <3> QED BY <1>1, <2>1, <3>1, <3>2, HolderKept
  <2> QED BY <2>2, <2>3
<1>4. InScript'
    BY <1>1 DEF PoolInv, InScript
<1> QED BY <1>1, <1>2, <1>3, <1>4 DEF PoolInv

LEMMA KeepAliveStep ==
    ASSUME PoolInv, KeepAlive
    PROVE  PoolInv'
<1>1. PICK S \in SUBSET Idle :
        /\ Cardinality(S) = Pings \/ S = Idle
        /\ Cardinality(S) <= Pings
        /\ use' = [c \in Connections |-> IF c \in S THEN Ping ELSE use[c]]
        /\ queue' = queue \o [i \in 1 .. (Pings - Cardinality(S)) |-> Ping]
    BY DEF KeepAlive
<1>2. job' = job /\ locks' = locks
    BY DEF KeepAlive
<1> DEFINE n == Pings - Cardinality(S)
           more == [i \in 1 .. n |-> Ping]
<1>3. S \subseteq Connections /\ \A c \in S : use[c] = Nobody
    BY DEF Idle
<1>4. n \in Nat
  <2>1. IsFiniteSet(S)
      BY <1>3, PoolOK, FS_Subset
  <2> QED BY <1>1, <2>1, PoolOK, FS_CardinalityType
<1>5. use' \in [Connections -> Requests \cup {Nobody, Ping}]
    BY <1>1, <1>3 DEF PoolInv, Sharing
<1>6. /\ queue' \in Seq(Requests \cup {Ping})
      /\ Len(queue') = Len(queue) + n /\ Len(queue) \in Nat
      /\ \A i \in 1 .. Len(queue) : queue'[i] = queue[i]
      /\ \A i \in 1 .. Len(queue') : i > Len(queue) => queue'[i] = Ping
  <2>1. more \in Seq(Requests \cup {Ping}) /\ Len(more) = n
        /\ \A i \in 1 .. n : more[i] = Ping
      BY <1>4
  <2>2. queue' = queue \o more /\ queue \in Seq(Requests \cup {Ping})
      BY <1>1 DEF PoolInv, Sharing
  <2> HIDE DEF more, n
  <2>3. queue' \in Seq(Requests \cup {Ping}) /\ Len(queue') = Len(queue) + n
        /\ \A i \in 1 .. Len(queue') :
             queue'[i] = IF i <= Len(queue) THEN queue[i] ELSE more[i - Len(queue)]
      BY <2>1, <2>2, ConcatProperties
  <2>4. Len(queue) \in Nat
      BY <2>2
  <2>5. \A i \in 1 .. Len(queue') : i > Len(queue) => i - Len(queue) \in 1 .. n
      BY <1>4, <2>3, <2>4
  <2> QED BY <1>4, <2>1, <2>3, <2>4, <2>5
<1>7. ASSUME queue' # <<>>, NEW c \in Connections
      PROVE  use'[c] # Nobody
  <2>1. CASE queue # <<>>
      BY <1>1, <2>1, PoolOK DEF PoolInv, Sharing
  <2>2. CASE queue = <<>>
    <3>1. n # 0
        BY <1>6, <1>7, <2>2
    <3>2. S = Idle
        BY <1>1, <3>1, PoolOK, <1>4
    <3> QED BY <1>1, <3>2, PoolOK DEF Idle
  <2> QED BY <2>1, <2>2
<1> HIDE DEF n, more
<1>8. ASSUME NEW i \in 1 .. Len(queue'), queue'[i] \in Requests
      PROVE  i \in 1 .. Len(queue) /\ queue'[i] = queue[i]
    BY <1>4, <1>6, <1>8, PoolOK
<1>9. \A r \in Requests, c \in Connections : use'[c] = r => use[c] = r
    BY <1>1, PoolOK
<1>10. ASSUME NEW p \in Requests, NEW d \in Connections, NEW e \in Connections,
              NEW f \in Connections, use'[d] = p, use'[e] = p, use'[f] = p
       PROVE  d = e \/ e = f \/ d = f
    BY <1>9, <1>10 DEF PoolInv, Sharing
<1>11. ASSUME NEW i \in 1 .. Len(queue'), NEW j \in 1 .. Len(queue'),
              queue'[i] \in Requests, queue'[i] = queue'[j]
       PROVE  i = j
    BY <1>8, <1>11 DEF PoolInv, Sharing
<1>12. ASSUME NEW p \in Requests, NEW i \in 1 .. Len(queue'), queue'[i] = p,
              NEW d \in Connections, NEW e \in Connections, use'[d] = p, use'[e] = p
       PROVE  d = e
    BY <1>8, <1>9, <1>12 DEF PoolInv, Sharing
<1>13. Sharing(use', queue')
    BY <1>5, <1>6, <1>7, <1>10, <1>11, <1>12 DEF Sharing
<1>14. ASSUME NEW w \in Row
       PROVE  Holder(w)'
  <2>1. locks[w] # Nobody => \A c \in Connections : use[c] = locks[w] => use'[c] = locks[w]
      BY <1>1, <1>3
  <2> QED BY <1>2, <2>1 DEF PoolInv, Holder, Has
<1>15. InScript'
    BY <1>2 DEF PoolInv, InScript
<1> QED BY <1>2, <1>13, <1>14, <1>15 DEF PoolInv

LEMMA PoolInvInductive == Spec => []PoolInv
<1>1. Init => PoolInv
  <2>1. SUFFICES ASSUME Init PROVE PoolInv
      OBVIOUS
  <2>2. /\ use \in [Connections -> Requests \cup {Nobody, Ping}]
        /\ \A c \in Connections : use[c] \notin Requests
        /\ queue = <<>> /\ Len(queue) = 0 /\ queue \in Seq(Requests \cup {Ping})
      BY <2>1, PoolOK DEF Init
  <2>3. Sharing(use, queue)
      BY <2>2 DEF Sharing
  <2>4. InScript
      BY <2>1, NoJobTyped DEF Init, InScript
  <2>5. locks \in [Row -> Requests \cup {Nobody}] /\ \A w \in Row : Holder(w)
      BY <2>1 DEF Init, Holder
  <2> QED BY <2>3, <2>4, <2>5 DEF PoolInv
<1>2. PoolInv /\ [Next]_vars => PoolInv'
  <2> SUFFICES ASSUME PoolInv, [Next]_vars PROVE PoolInv'
      OBVIOUS
  <2>1. CASE \E r \in Requests, script \in Scripts : Begin(r, script)
      BY <2>1, BeginStep
  <2>2. CASE \E r \in Requests : Proceed(r) \/ Lock(r) \/ Leave(r)
      BY <2>2, AskBesideStep, ReadBesideStep, LockStep, EndsStep
      DEF Proceed, Commit, Leave
  <2>3. CASE Expire
      BY <2>3, ExpireStep
  <2>4. CASE KeepAlive
      BY <2>4, KeepAliveStep
  <2>5. CASE \E c \in Connections : Pinged(c)
      BY <2>5, PingedStep
  <2>6. CASE UNCHANGED vars
    <3>1. use' = use /\ queue' = queue /\ job' = job /\ locks' = locks
        BY <2>6 DEF vars
    <3>2. \A w \in Row : Holder(w)'
        BY <3>1 DEF PoolInv, Holder, Has
    <3> QED BY <3>1, <3>2 DEF PoolInv, InScript
  <2> QED BY <2>1, <2>2, <2>3, <2>4, <2>5, <2>6 DEF Next
<1> QED BY <1>1, <1>2, PTL DEF Spec

\* TypeOK: at most two connections to a request, at most one while it waits,
\* however many requests and pings ask the pool.
THEOREM PoolTypeCorrect == Spec => []TypeOK
BY PoolInvInductive, SharingTyped, PTL

-----------------------------------------------------------------------------
(* The order in which the scripts lock rows.                               *)

\* What is true of row when a transaction that has locked the rows B goes on
\* to it: it is of the user of these rows or of the referrer; a wallet is
\* followed by its user's account, a trade by its wallet, and an account only
\* by another wallet of the user, or by a trade whose wallet is locked.
Follows(B, row) ==
    /\ row \notin B
    /\ \A v \in B : \/ UserOf(row) = UserOf(v)
                    \/ UserOf(row) = Referrer[UserOf(v)] /\ UserOf(row) # NoUser
    /\ Account(UserOf(row)) \in B =>
         \/ row[1] = "wallet"
         \/ row[1] = "trade" /\ WalletOf(<<row[2], row[3]>>) \in B
    /\ \A v \in B : UserOf(v) = UserOf(row) =>
         /\ v[1] # "subscription"
         /\ v[1] = "wallet" /\ Account(UserOf(row)) \notin B => row = Account(UserOf(row))
         /\ v[1] = "trade" /\ WalletOf(<<v[2], v[3]>>) \notin B =>
              row = WalletOf(<<v[2], v[3]>>)

\* The rows a script locks before its step j.
Before(s, j) == {s[i] : i \in {k \in 1 .. Len(s) : k < j}} \ {Beside}

Orderly(s) == \A j \in 1 .. Len(s) : s[j] # Beside => Follows(Before(s, j), s[j])

\* The kinds of rows, and whose they are.
LEMMA RowShapes ==
    /\ \A h \in Holdings : /\ h = <<h[1], h[2]>> /\ h[1] \in Users
                           /\ WalletOf(h) \in Row
    /\ \A h \in Trades : h \in Holdings /\ TradeOf(h) \in Row
    /\ \A u \in Users : Account(u) \in Row /\ Subscription(u) \in Row
    /\ \A row \in Row : row # Beside
    /\ \A h : WalletOf(h)[1] = "wallet" /\ WalletOf(h)[2] = h[1] /\ WalletOf(h)[3] = h[2]
    /\ \A h : TradeOf(h)[1] = "trade" /\ TradeOf(h)[2] = h[1] /\ TradeOf(h)[3] = h[2]
    /\ \A u : Account(u)[1] = "account" /\ Account(u)[2] = u
    /\ \A u : Subscription(u)[1] = "subscription" /\ Subscription(u)[2] = u
BY PoolOK, BesideIsNoRow DEF Row, WalletOf, TradeOf, Account, Subscription

\* Nobody refers themselves.
LEMMA ReferrersDiffer ==
    \A u \in Referred : /\ u \in Users /\ Referrer[u] \in Users
                        /\ Referrer[u] # u /\ Referrer[u] # NoUser
                        /\ Payee(u) \in Holdings /\ Payee(u)[1] = Referrer[u]
                        /\ Payee(u) = <<Referrer[u], Fiat>>
<1> SUFFICES ASSUME NEW u \in Referred
             PROVE  /\ u \in Users /\ Referrer[u] \in Users
                    /\ Referrer[u] # u /\ Referrer[u] # NoUser
                    /\ Payee(u) \in Holdings /\ Payee(u)[1] = Referrer[u]
                    /\ Payee(u) = <<Referrer[u], Fiat>>
    OBVIOUS
<1>1. u \in Users /\ Referrer[u] # NoUser /\ Referrer[u] \in Users
    BY PoolOK DEF Referred
<1>2. PICK depth \in [Users -> 0 .. Cardinality(Users)] : \A v \in Users :
        Referrer[v] # NoUser => depth[Referrer[v]] < depth[v]
    BY PoolOK
<1>3. Cardinality(Users) \in Nat
    BY PoolOK, FS_CardinalityType
<1>4. depth[Referrer[u]] \in Nat /\ depth[u] \in Nat /\ depth[Referrer[u]] < depth[u]
    BY <1>1, <1>2, <1>3
<1>5. Referrer[u] # u
    BY <1>4
<1>6. Payee(u) \in Holdings
    BY <1>1, PoolOK DEF Payee
<1> QED BY <1>1, <1>5, <1>6 DEF Payee

LEMMA FirstFollows == \A row : Follows({}, row)
BY DEF Follows

LEMMA OwnFollows ==
    ASSUME NEW h \in Holdings
    PROVE  /\ Follows({WalletOf(h)}, Account(h[1]))
           /\ Follows({TradeOf(h)}, WalletOf(h))
           /\ Follows({WalletOf(h), Account(h[1])}, TradeOf(h))
           /\ Follows({TradeOf(h), WalletOf(h)}, Account(h[1]))
           /\ \A g \in Holdings : g[1] = h[1] /\ g # h =>
                Follows({WalletOf(h), Account(h[1])}, WalletOf(g))
<1> DEFINE w == WalletOf(h)
           t == TradeOf(h)
           a == Account(h[1])
<1>1. /\ w[1] = "wallet" /\ w[2] = h[1]
      /\ t[1] = "trade" /\ t[2] = h[1] /\ t[3] = h[2]
      /\ a[1] = "account" /\ a[2] = h[1]
    BY RowShapes
<1>2. Account(w[2]) = a /\ Account(t[2]) = a /\ Account(a[2]) = a
    BY <1>1
<1>3. WalletOf(<<t[2], t[3]>>) = w
    BY <1>1, RowShapes
<1>4. ASSUME NEW g \in Holdings, g[1] = h[1], g # h
      PROVE  Follows({w, a}, WalletOf(g))
  <2>1. WalletOf(g)[1] = "wallet" /\ WalletOf(g)[2] = g[1] /\ WalletOf(g)[3] = g[2]
        /\ WalletOf(h)[3] = h[2] /\ g = <<g[1], g[2]>> /\ h = <<h[1], h[2]>>
      BY RowShapes
  <2>2. WalletOf(g) # w
      BY <1>4, <2>1
  <2> HIDE DEF w, t, a
  <2> QED BY <1>1, <1>2, <1>4, <2>1, <2>2 DEF Follows, UserOf
<1> HIDE DEF w, t, a
<1>5. Follows({w}, a)
    BY <1>1, <1>2 DEF Follows, UserOf
<1>6. Follows({t}, w)
    BY <1>1, <1>2, <1>3 DEF Follows, UserOf
<1>7. Follows({w, a}, t)
    BY <1>1, <1>2, <1>3 DEF Follows, UserOf
<1>8. Follows({t, w}, a)
    BY <1>1, <1>2, <1>3 DEF Follows, UserOf
<1> QED BY <1>4, <1>5, <1>6, <1>7, <1>8 DEF w, t, a

LEMMA ReferrerFollows ==
    ASSUME NEW u \in Referred, NEW h \in Holdings, h[1] = u
    PROVE  /\ Follows({Subscription(u)}, WalletOf(Payee(u)))
           /\ Follows({Subscription(u), WalletOf(Payee(u))}, Account(Referrer[u]))
           /\ Follows({WalletOf(h), Account(u), TradeOf(h)}, WalletOf(Payee(u)))
           /\ Follows({WalletOf(h), Account(u), TradeOf(h), WalletOf(Payee(u))},
                      Account(Referrer[u]))
<1> DEFINE w == WalletOf(Payee(u))
           a == Account(Referrer[u])
<1>1. w[1] = "wallet" /\ w[2] = Referrer[u] /\ a[1] = "account" /\ a[2] = Referrer[u]
      /\ Referrer[u] # u /\ Referrer[u] # NoUser /\ Account(w[2]) = a
    BY RowShapes, ReferrersDiffer
<1>2. /\ Subscription(u)[1] = "subscription" /\ Subscription(u)[2] = u
      /\ WalletOf(h)[2] = u /\ Account(u)[2] = u /\ TradeOf(h)[2] = u
    BY RowShapes
<1> HIDE DEF w, a
<1>3. Follows({Subscription(u)}, w)
    BY <1>1, <1>2 DEF Follows, UserOf
<1>4. Follows({Subscription(u), w}, a)
    BY <1>1, <1>2 DEF Follows, UserOf
<1>5. Follows({WalletOf(h), Account(u), TradeOf(h)}, w)
    BY <1>1, <1>2 DEF Follows, UserOf
<1>6. Follows({WalletOf(h), Account(u), TradeOf(h), w}, a)
    BY <1>1, <1>2 DEF Follows, UserOf
<1> QED BY <1>3, <1>4, <1>5, <1>6 DEF w, a

\* The script s is orderly, and B is what it locks.
Locks(B, s) ==
    /\ s \in Seq(Row \cup {Beside})
    /\ Orderly(s)
    /\ Before(s, Len(s) + 1) = B

\* z is s, and then e.
Extends(z, s, e) ==
    /\ z \in Seq(Row \cup {Beside})
    /\ Len(z) = Len(s) + 1
    /\ z[Len(s) + 1] = e
    /\ \A i \in 1 .. Len(s) : z[i] = s[i]

LEMMA GoesOn ==
    ASSUME NEW B, NEW s, Locks(B, s), NEW e \in Row \cup {Beside},
           e # Beside => Follows(B, e), NEW z, Extends(z, s, e)
    PROVE  Locks(B \cup ({e} \ {Beside}), z)
<1> DEFINE n == Len(s)
<1>1. /\ z \in Seq(Row \cup {Beside}) /\ n \in Nat /\ Len(z) = n + 1 /\ z[n + 1] = e
      /\ \A i \in 1 .. n : z[i] = s[i]
    BY DEF Locks, Extends
<1> HIDE DEF n
<1>2. ASSUME NEW j \in 1 .. (n + 1)
      PROVE  Before(z, j) = Before(s, j)
  <2>1. \A i \in Nat : 1 <= i /\ i < j => z[i] = s[i]
      BY <1>1
  <2>2. {k \in 1 .. Len(z) : k < j} = {k \in 1 .. Len(s) : k < j}
      BY <1>1 DEF n
  <2>3. \A i \in {k \in 1 .. Len(s) : k < j} : z[i] = s[i]
      BY <1>1, <2>1 DEF n
  <2> QED BY <2>2, <2>3 DEF Before
<1>3. Before(s, n + 1) = B
    BY DEF Locks, n
<1>4. ASSUME NEW j \in 1 .. Len(z), z[j] # Beside
      PROVE  Follows(Before(z, j), z[j])
  <2>1. CASE j = n + 1
      BY <1>1, <1>2, <1>3, <1>4, <2>1
  <2>2. CASE j \in 1 .. n
      BY <1>1, <1>2, <1>4, <2>2 DEF Locks, Orderly, n
  <2> QED BY <1>1, <2>1, <2>2
<1>5. Before(z, n + 2) = B \cup ({e} \ {Beside})
  <2>1. {k \in 1 .. Len(z) : k < n + 2} = {k \in 1 .. n : k < n + 1} \cup {n + 1}
      BY <1>1
  <2>2. B = {s[i] : i \in {k \in 1 .. n : k < n + 1}} \ {Beside}
      BY <1>3 DEF Before, n
  <2>3. \A i \in {k \in 1 .. n : k < n + 1} : z[i] = s[i]
      BY <1>1
  <2> QED BY <1>1, <2>1, <2>2, <2>3 DEF Before
<1>6. Len(z) + 1 = n + 2
    BY <1>1
<1> QED BY <1>1, <1>4, <1>5, <1>6 DEF Locks, Orderly

LEMMA LocksRow ==
    ASSUME NEW B, NEW s, Locks(B, s), NEW row \in Row, Follows(B, row),
           NEW z, Extends(z, s, row)
    PROVE  Locks(B \cup {row}, z)
<1>1. row # Beside
    BY BesideIsNoRow
<1>2. Locks(B \cup ({row} \ {Beside}), z)
    BY GoesOn
<1>3. B \cup ({row} \ {Beside}) = B \cup {row}
    BY <1>1
<1> QED BY <1>2, <1>3

LEMMA LocksBeside ==
    ASSUME NEW B, NEW s, Locks(B, s), NEW z, Extends(z, s, Beside)
    PROVE  Locks(B, z)
<1>1. Locks(B \cup ({Beside} \ {Beside}), z)
    BY GoesOn
<1>2. B \cup ({Beside} \ {Beside}) = B
    OBVIOUS
<1> QED BY <1>1, <1>2

LEMMA LocksNothing == Locks({}, <<>>)
BY DEF Locks, Orderly, Before

\* Scripts that begin alike.
LEMMA LocksFew ==
    ASSUME NEW a \in Row
    PROVE  /\ Locks({}, <<Beside>>)
           /\ Locks({a}, <<a>>)
           /\ Locks({a}, <<Beside, a>>)
           /\ \A b \in Row : Follows({a}, b) =>
                /\ Locks({a, b}, <<a, b>>)
                /\ Locks({a, b}, <<a, b, Beside>>)
                /\ Locks({a, b}, <<a, b, Beside, Beside, Beside>>)
                /\ Locks({a, b}, <<Beside, a, b>>)
<1>1. Locks({}, <<Beside>>)
  <2>1. Extends(<<Beside>>, <<>>, Beside)
      BY DEF Extends
  <2> QED BY <2>1, LocksNothing, LocksBeside
<1>2. Locks({a}, <<a>>)
  <2>1. Extends(<<a>>, <<>>, a)
      BY DEF Extends
  <2>2. Locks({} \cup {a}, <<a>>)
      BY <2>1, LocksNothing, FirstFollows, LocksRow
  <2>3. {} \cup {a} = {a}
      OBVIOUS
  <2> QED BY <2>2, <2>3
<1>3. Locks({a}, <<Beside, a>>)
  <2>1. Extends(<<Beside, a>>, <<Beside>>, a)
      BY DEF Extends
  <2>2. Locks({} \cup {a}, <<Beside, a>>)
      BY <1>1, <2>1, FirstFollows, LocksRow
  <2>3. {} \cup {a} = {a}
      OBVIOUS
  <2> QED BY <2>2, <2>3
<1>4. ASSUME NEW b \in Row, Follows({a}, b)
      PROVE  /\ Locks({a, b}, <<a, b>>)
             /\ Locks({a, b}, <<a, b, Beside>>)
             /\ Locks({a, b}, <<a, b, Beside, Beside, Beside>>)
             /\ Locks({a, b}, <<Beside, a, b>>)
  <2>0. {a} \cup {b} = {a, b}
      OBVIOUS
  <2>1. /\ Extends(<<a, b>>, <<a>>, b)
        /\ Extends(<<Beside, a, b>>, <<Beside, a>>, b)
        /\ Extends(<<a, b, Beside>>, <<a, b>>, Beside)
        /\ Extends(<<a, b, Beside, Beside>>, <<a, b, Beside>>, Beside)
        /\ Extends(<<a, b, Beside, Beside, Beside>>, <<a, b, Beside, Beside>>, Beside)
      BY DEF Extends
  <2>2. Locks({a} \cup {b}, <<a, b>>)
      BY <1>2, <1>4, <2>1, LocksRow
  <2>3. Locks({a, b}, <<a, b>>)
      BY <2>0, <2>2
  <2>4. Locks({a, b}, <<a, b, Beside>>)
      BY <2>1, <2>3, LocksBeside
  <2>5. Locks({a, b}, <<a, b, Beside, Beside>>)
      BY <2>1, <2>4, LocksBeside
  <2>6. Locks({a, b}, <<a, b, Beside, Beside, Beside>>)
      BY <2>1, <2>5, LocksBeside
  <2>7. Locks({a} \cup {b}, <<Beside, a, b>>)
      BY <1>3, <1>4, <2>1, LocksRow
  <2> QED BY <2>0, <2>3, <2>4, <2>6, <2>7
<1> QED BY <1>1, <1>2, <1>3, <1>4

LEMMA LocksThree ==
    ASSUME NEW a \in Row, NEW b \in Row, NEW c \in Row, Follows({a}, b), Follows({a, b}, c)
    PROVE  /\ Locks({a, b, c}, <<a, b, c>>)
           /\ Locks({a, b, c}, <<Beside, a, b, c>>)
           /\ Locks({a, b, c}, <<a, Beside, b, c>>)
           /\ Locks({a, b, c}, <<Beside, a, b, c, Beside>>)
<1>0. {a} \cup {b} = {a, b} /\ {a, b} \cup {c} = {a, b, c}
    OBVIOUS
<1>1. /\ Extends(<<a, b, c>>, <<a, b>>, c)
      /\ Extends(<<Beside, a, b, c>>, <<Beside, a, b>>, c)
      /\ Extends(<<a, Beside>>, <<a>>, Beside)
      /\ Extends(<<a, Beside, b>>, <<a, Beside>>, b)
      /\ Extends(<<a, Beside, b, c>>, <<a, Beside, b>>, c)
      /\ Extends(<<Beside, a, b, c, Beside>>, <<Beside, a, b, c>>, Beside)
    BY DEF Extends
<1>2. Locks({a, b}, <<a, b>>) /\ Locks({a, b}, <<Beside, a, b>>) /\ Locks({a}, <<a>>)
    BY LocksFew
<1>3. /\ Locks({a, b} \cup {c}, <<a, b, c>>)
      /\ Locks({a, b} \cup {c}, <<Beside, a, b, c>>)
    BY <1>1, <1>2, LocksRow
<1>4. Locks({a}, <<a, Beside>>)
    BY <1>1, <1>2, LocksBeside
<1>5. Locks({a} \cup {b}, <<a, Beside, b>>)
    BY <1>1, <1>4, LocksRow
<1>6. Locks({a, b}, <<a, Beside, b>>)
    BY <1>0, <1>5
<1>7. Locks({a, b} \cup {c}, <<a, Beside, b, c>>)
    BY <1>1, <1>6, LocksRow
<1>8. Locks({a, b, c}, <<Beside, a, b, c>>)
    BY <1>0, <1>3
<1>9. Locks({a, b, c}, <<Beside, a, b, c, Beside>>)
    BY <1>1, <1>8, LocksBeside
<1> QED BY <1>0, <1>3, <1>7, <1>8, <1>9

LEMMA LocksFive ==
    ASSUME NEW a \in Row, NEW b \in Row, NEW c \in Row, NEW d \in Row, NEW e \in Row,
           Follows({a}, b), Follows({a, b}, c), Follows({a, b, c}, d),
           Follows({a, b, c, d}, e)
    PROVE  Locks({a, b, c, d, e}, <<Beside, a, b, c, Beside, d, e>>)
<1>0. {a, b, c} \cup {d} = {a, b, c, d} /\ {a, b, c, d} \cup {e} = {a, b, c, d, e}
    OBVIOUS
<1>1. /\ Extends(<<Beside, a, b, c, Beside, d>>, <<Beside, a, b, c, Beside>>, d)
      /\ Extends(<<Beside, a, b, c, Beside, d, e>>, <<Beside, a, b, c, Beside, d>>, e)
    BY DEF Extends
<1>2. Locks({a, b, c}, <<Beside, a, b, c, Beside>>)
    BY LocksThree
<1>3. Locks({a, b, c} \cup {d}, <<Beside, a, b, c, Beside, d>>)
    BY <1>1, <1>2, LocksRow
<1>4. Locks({a, b, c, d}, <<Beside, a, b, c, Beside, d>>)
    BY <1>0, <1>3
<1>5. Locks({a, b, c, d} \cup {e}, <<Beside, a, b, c, Beside, d, e>>)
    BY <1>1, <1>4, LocksRow
<1> QED BY <1>0, <1>5

LEMMA ScriptsOrderly == \A s \in Scripts : Orderly(s)
<1> SUFFICES ASSUME NEW s \in Scripts PROVE Orderly(s)
    OBVIOUS
<1>1. \A h \in Holdings : WalletOf(h) \in Row /\ Account(h[1]) \in Row
    BY RowShapes
<1>2. \A h \in Trades : h \in Holdings /\ TradeOf(h) \in Row
    BY RowShapes
<1>3. \A h \in Holdings : Locks({WalletOf(h), Account(h[1])}, <<WalletOf(h), Account(h[1])>>)
    BY <1>1, LocksFew, OwnFollows
<1>4. CASE s \in Statement
    BY <1>4, LocksNothing DEF Statement, Locks
<1>5. CASE s \in OneRow
  <2>1. PICK row \in Row : s = <<row>>
      BY <1>5 DEF OneRow, Row
  <2>2. Locks({row}, <<row>>)
      BY LocksFew
  <2> QED BY <2>1, <2>2 DEF Locks
<1>6. CASE s \in CreditBonus
  <2>1. PICK h \in Holdings : s = <<WalletOf(h), Account(h[1])>>
      BY <1>6 DEF CreditBonus
  <2> QED BY <1>3, <2>1 DEF Locks
<1>7. CASE s \in Transfer
  <2>1. PICK p \in Holdings \X Holdings :
          /\ p[1][1] = p[2][1] /\ p[1] # p[2]
          /\ s = <<WalletOf(p[1]), Account(p[1][1]), WalletOf(p[2])>>
      BY <1>7 DEF Transfer
  <2>2. p[1] \in Holdings /\ p[2] \in Holdings
      OBVIOUS
  <2>3. /\ WalletOf(p[1]) \in Row /\ Account(p[1][1]) \in Row /\ WalletOf(p[2]) \in Row
      BY <1>1, <2>2
  <2>4. /\ Follows({WalletOf(p[1])}, Account(p[1][1]))
        /\ Follows({WalletOf(p[1]), Account(p[1][1])}, WalletOf(p[2]))
      BY <2>1, <2>2, OwnFollows
  <2>5. Locks({WalletOf(p[1]), Account(p[1][1]), WalletOf(p[2])}, s)
      BY <2>1, <2>3, <2>4, LocksThree
  <2> QED BY <2>5 DEF Locks
<1>8. CASE s \in RequestWithdrawal
  <2>1. PICK h \in Holdings : s = <<WalletOf(h), Account(h[1]), Beside, Beside, Beside>>
      BY <1>8 DEF RequestWithdrawal
  <2>2. Locks({WalletOf(h), Account(h[1])}, s)
      BY <1>1, <2>1, LocksFew, OwnFollows
  <2> QED BY <2>2 DEF Locks
<1>9. CASE s \in Start
  <2>1. PICK h \in Holdings : s = <<WalletOf(h), Account(h[1]), Beside>>
      BY <1>9 DEF Start
  <2>2. Locks({WalletOf(h), Account(h[1])}, s)
      BY <1>1, <2>1, LocksFew, OwnFollows
  <2> QED BY <2>2 DEF Locks
<1>10. CASE s \in Accrue
  <2>1. PICK h \in Trades : s = <<Beside, TradeOf(h)>>
      BY <1>10 DEF Accrue
  <2>2. Locks({TradeOf(h)}, s)
      BY <1>2, <2>1, LocksFew
  <2> QED BY <2>2 DEF Locks
<1>11. CASE s \in AdminCancel
  <2>1. PICK h \in Trades : s = <<WalletOf(h), Account(h[1]), TradeOf(h)>>
      BY <1>11 DEF AdminCancel
  <2>2. Locks({WalletOf(h), Account(h[1]), TradeOf(h)}, s)
      BY <1>1, <1>2, <2>1, LocksThree, OwnFollows
  <2> QED BY <2>2 DEF Locks
<1>12. CASE s \in AdminComplete
  <2>1. PICK h \in Trades :
          \/ s = <<Beside, TradeOf(h), WalletOf(h), Account(h[1])>>
          \/ s = <<Beside, WalletOf(h), Account(h[1]), TradeOf(h)>>
      BY <1>12 DEF AdminComplete
  <2>2. /\ Locks({TradeOf(h), WalletOf(h), Account(h[1])},
                 <<Beside, TradeOf(h), WalletOf(h), Account(h[1])>>)
        /\ Locks({WalletOf(h), Account(h[1]), TradeOf(h)},
                 <<Beside, WalletOf(h), Account(h[1]), TradeOf(h)>>)
      BY <1>1, <1>2, LocksThree, OwnFollows
  <2> QED BY <2>1, <2>2 DEF Locks
<1>13. CASE s \in AdminCompletePays
  <2>1. PICK h \in Trades :
          /\ h[1] \in Referred
          /\ \/ s = <<Beside, TradeOf(h), WalletOf(h), Account(h[1]),
                      Beside, WalletOf(Payee(h[1])), Account(Referrer[h[1]])>>
             \/ s = <<Beside, WalletOf(h), Account(h[1]), TradeOf(h),
                      Beside, WalletOf(Payee(h[1])), Account(Referrer[h[1]])>>
      BY <1>13 DEF AdminCompletePays
  <2> DEFINE w == WalletOf(h)
             a == Account(h[1])
             t == TradeOf(h)
             v == WalletOf(Payee(h[1]))
             c == Account(Referrer[h[1]])
  <2>2. w \in Row /\ a \in Row /\ t \in Row /\ v \in Row /\ c \in Row
      BY <1>1, <1>2, <2>1, ReferrersDiffer, RowShapes
  <2>3. /\ Follows({w}, a) /\ Follows({t}, w)
        /\ Follows({w, a}, t) /\ Follows({t, w}, a)
      BY <1>2, OwnFollows
  <2>4. Follows({w, a, t}, v) /\ Follows({w, a, t, v}, c)
      BY <1>2, <2>1, ReferrerFollows
  <2>5. s = <<Beside, t, w, a, Beside, v, c>> \/ s = <<Beside, w, a, t, Beside, v, c>>
      BY <2>1
  <2> HIDE DEF w, a, t, v, c
  <2>6. {t, w, a} = {w, a, t} /\ {t, w, a, v} = {w, a, t, v}
      OBVIOUS
  <2>7. Locks({t, w, a, v, c}, <<Beside, t, w, a, Beside, v, c>>)
      BY <2>2, <2>3, <2>4, <2>6, LocksFive
  <2>8. Locks({w, a, t, v, c}, <<Beside, w, a, t, Beside, v, c>>)
      BY <2>2, <2>3, <2>4, LocksFive
  <2> QED BY <2>5, <2>7, <2>8 DEF Locks
<1>14. CASE s \in ConfirmSubscription
  <2>1. PICK u \in Referred :
          s = <<Subscription(u), Beside, WalletOf(Payee(u)), Account(Referrer[u])>>
      BY <1>14 DEF ConfirmSubscription
  <2>2. /\ Subscription(u) \in Row /\ WalletOf(Payee(u)) \in Row
        /\ Account(Referrer[u]) \in Row
      BY ReferrersDiffer, RowShapes
  <2>3. <<u, Fiat>> \in Holdings /\ <<u, Fiat>>[1] = u
      BY ReferrersDiffer, PoolOK
  <2>4. /\ Follows({Subscription(u)}, WalletOf(Payee(u)))
        /\ Follows({Subscription(u), WalletOf(Payee(u))}, Account(Referrer[u]))
      BY <2>3, ReferrerFollows
  <2>5. Locks({Subscription(u), WalletOf(Payee(u)), Account(Referrer[u])}, s)
      BY <2>1, <2>2, <2>4, LocksThree
  <2> QED BY <2>5 DEF Locks
<1> QED BY <1>4, <1>5, <1>6, <1>7, <1>8, <1>9, <1>10, <1>11, <1>12, <1>13, <1>14 DEF Scripts

-----------------------------------------------------------------------------
(* A transaction holds every row it has come by.                           *)

KeepsLocks ==
    \A r \in Requests, i \in Nat :
        1 <= i /\ i < job[r].at /\ i <= Len(job[r].script) /\ job[r].script[i] \in Row
        => locks[job[r].script[i]] = r

\* A step of r leaves the locks and the scripts of the others alone.
LEMMA KeptByOthers ==
    ASSUME PoolInv, KeepsLocks, NEW r \in Requests,
           \A p \in Requests \ {r} : job'[p] = job[p],
           \A row \in Row : locks[row] \notin {r, Nobody} => locks'[row] = locks[row],
           \A i \in Nat :
             1 <= i /\ i < job'[r].at /\ i <= Len(job'[r].script) /\ job'[r].script[i] \in Row
             => locks'[job'[r].script[i]] = r
    PROVE  KeepsLocks'
<1> SUFFICES ASSUME NEW p \in Requests, NEW i \in Nat, p # r,
                    1 <= i, i < job[p].at, i <= Len(job[p].script), job[p].script[i] \in Row
             PROVE  locks'[job[p].script[i]] = p
    BY SMTT(30) DEF KeepsLocks
<1>1. locks[job[p].script[i]] = p
    BY DEF KeepsLocks
<1> QED BY <1>1, PoolOK

\* A request that starts anew, or is over, has come by nothing.
LEMMA KeptAtFirstStep ==
    ASSUME PoolInv, KeepsLocks, NEW r \in Requests, NEW s,
           job' = [job EXCEPT ![r] = [script |-> s, at |-> 1]],
           \A row \in Row : locks[row] \notin {r, Nobody} => locks'[row] = locks[row]
    PROVE  KeepsLocks'
<1>1. \A p \in Requests \ {r} : job'[p] = job[p]
    BY DEF PoolInv, InScript
<1>2. job'[r].at = 1
    BY DEF PoolInv, InScript
<1> QED BY <1>1, <1>2, KeptByOthers

LEMMA KeptByUnlocks ==
    ASSUME PoolInv, KeepsLocks, NEW r \in Requests,
           job' = [job EXCEPT ![r] = NoJob], Unlocks(r)
    PROVE  KeepsLocks'
<1>1. \A row \in Row : locks[row] \notin {r, Nobody} => locks'[row] = locks[row]
    BY DEF Unlocks
<1> QED BY <1>1, KeptAtFirstStep DEF NoJob

LEMMA KeptUnchanged ==
    ASSUME KeepsLocks, UNCHANGED <<job, locks>>
    PROVE  KeepsLocks'
BY DEF KeepsLocks

LEMMA KeepsLocksInductive == Spec => []KeepsLocks
<1>1. Init => KeepsLocks
    BY DEF Init, KeepsLocks, NoJob
<1>2. PoolInv /\ KeepsLocks /\ [Next]_vars => KeepsLocks'
  <2> SUFFICES ASSUME PoolInv, KeepsLocks, [Next]_vars PROVE KeepsLocks'
      OBVIOUS
  <2>1. ASSUME NEW r \in Requests, NEW s \in Scripts, Begin(r, s)
        PROVE  KeepsLocks'
    <3>1. job' = [job EXCEPT ![r] = [script |-> s, at |-> 1]] /\ locks' = locks
        BY <2>1 DEF Begin
    <3> QED BY <3>1, KeptAtFirstStep
  <2>2. ASSUME NEW r \in Requests, AskBeside(r)
        PROVE  KeepsLocks'
      BY <2>2, KeptUnchanged DEF AskBeside
  <2>3. ASSUME NEW r \in Requests, ReadBeside(r) \/ Lock(r)
        PROVE  KeepsLocks'
    <3>1. Advance(r) /\ ~Over(r)
        BY <2>3 DEF ReadBeside, Lock
    <3>2. /\ job'[r].script = job[r].script /\ job'[r].at = job[r].at + 1
          /\ job[r].at \in Nat
        BY <3>1, AdvanceTyped DEF PoolInv
    <3>3. \A p \in Requests \ {r} : job'[p] = job[p]
        BY <3>1 DEF Advance, PoolInv, InScript
    <3>4. /\ \A row \in Row : locks[row] # Nobody => locks'[row] = locks[row]
          /\ NextStep(r) \in Row => locks'[NextStep(r)] = r
      <4>1. CASE ReadBeside(r)
          BY <4>1, BesideIsNoRow DEF ReadBeside
      <4>2. CASE Lock(r)
          BY <4>2 DEF Lock, PoolInv
      <4> QED BY <2>3, <4>1, <4>2
    <3>5. ASSUME NEW i \in Nat, 1 <= i, i < job'[r].at, i <= Len(job'[r].script),
                 job'[r].script[i] \in Row
          PROVE  locks'[job'[r].script[i]] = r
      <4>1. CASE i = job[r].at
          BY <3>2, <3>4, <3>5, <4>1 DEF NextStep
      <4>2. CASE i < job[r].at
        <5>1. locks[job[r].script[i]] = r /\ r # Nobody
            BY <3>2, <3>5, <4>2, PoolOK DEF KeepsLocks
        <5> QED BY <3>2, <3>4, <3>5, <5>1
      <4> QED BY <3>2, <3>5, <4>1, <4>2
    <3> QED BY <3>3, <3>4, <3>5, KeptByOthers
  <2>4. ASSUME NEW r \in Requests, Ends(r)
        PROVE  KeepsLocks'
      BY <2>4, KeptByUnlocks DEF Ends
  <2>5. CASE Expire
    <3> DEFINE x == Head(queue)
    <3>1. CASE x \in Requests
        BY <2>5, <3>1, KeptByUnlocks DEF Expire
    <3>2. CASE x \notin Requests
        BY <2>5, <3>2, KeptUnchanged DEF Expire
    <3> QED BY <3>1, <3>2
  <2>6. CASE KeepAlive \/ (\E c \in Connections : Pinged(c)) \/ UNCHANGED vars
      BY <2>6, KeptUnchanged DEF KeepAlive, Pinged, vars
  <2> QED BY <2>1, <2>2, <2>3, <2>4, <2>5, <2>6
      DEF Next, Proceed, Commit, Leave
<1> QED BY <1>1, <1>2, PoolInvInductive, PTL DEF Spec

-----------------------------------------------------------------------------
(* The standstill.                                                         *)

\* Among some users there is one whose referrer is not among them.
LEMMA Uppermost ==
    ASSUME NEW S, S \subseteq Users, S # {}
    PROVE  \E u \in S : Referrer[u] # NoUser => Referrer[u] \notin S
<1>1. PICK depth \in [Users -> 0 .. Cardinality(Users)] : \A u \in Users :
        Referrer[u] # NoUser => depth[Referrer[u]] < depth[u]
    BY PoolOK
<1>2. Cardinality(Users) \in Nat
    BY PoolOK, FS_CardinalityType
<1>3. \A u \in Users : depth[u] \in Nat
    BY <1>1, <1>2
<1> DEFINE D == {depth[u] : u \in S}
<1>4. D \subseteq Nat /\ D # {}
    BY <1>3
<1>5. PICK x \in D : \A y \in D : ~(<<y, x>> \in OpToRel(<, Nat))
  <2> HIDE DEF D
  <2> QED BY <1>4, NatLessThanWellFounded, WFMin
<1>6. PICK u \in S : depth[u] = x
    OBVIOUS
<1>7. ASSUME Referrer[u] # NoUser, Referrer[u] \in S
      PROVE  FALSE
  <2>1. depth[Referrer[u]] < depth[u]
      BY <1>1, <1>7
  <2>2. depth[Referrer[u]] \in D /\ depth[Referrer[u]] \in Nat /\ x \in Nat
      BY <1>3, <1>4, <1>7
  <2> QED BY <1>5, <1>6, <2>1, <2>2 DEF OpToRel
<1> QED BY <1>6, <1>7

Held(r) == {row \in Row : locks[row] = r}

\* A blocked transaction waits for a row that follows those it holds.
LEMMA BlockedFollows ==
    ASSUME PoolInv, KeepsLocks, NEW q \in Requests, Blocked(q)
    PROVE  NextStep(q) \in Row /\ Follows(Held(q), NextStep(q))
<1> DEFINE s == job[q].script
           j == job[q].at
<1>1. s \in Scripts /\ j \in Nat \ {0} /\ s \in Seq(Row \cup {Beside}) /\ Len(s) \in Nat
    BY DEF PoolInv, InScript, Job
<1>2. j \in 1 .. Len(s) /\ s[j] = NextStep(q) /\ NextStep(q) \in Row
    BY <1>1 DEF Blocked, Over, NextStep
<1>3. s[j] # Beside
    BY <1>2, BesideIsNoRow
<1>4. Before(s, j) = Held(q)
  <2>1. ASSUME NEW i \in {k \in 1 .. Len(s) : k < j}, s[i] # Beside
        PROVE  s[i] \in Held(q)
    <3>1. s[i] \in Row
        BY <1>1, <2>1
    <3> QED BY <1>1, <2>1, <3>1 DEF KeepsLocks, Held
  <2>2. ASSUME NEW row \in Held(q)
        PROVE  row \in Before(s, j)
    <3>1. row \in Row /\ locks[row] = q /\ q # Nobody /\ row # Beside
        BY <2>2, PoolOK, BesideIsNoRow DEF Held
    <3>2. PICK i \in Nat : 1 <= i /\ i < j /\ i <= Len(s) /\ s[i] = row
        BY <3>1 DEF PoolInv, Holder
    <3> QED BY <1>1, <3>1, <3>2 DEF Before
  <2> QED BY <2>1, <2>2 DEF Before
<1>5. Orderly(s)
    BY <1>1, ScriptsOrderly
<1> QED BY <1>2, <1>3, <1>4, <1>5 DEF Orderly

LEMMA RowKinds ==
    ASSUME NEW row \in Row
    PROVE  /\ UserOf(row) \in Users
           /\ \/ row[1] \in {"wallet", "trade", "subscription"}
              \/ row = Account(UserOf(row))
<1>1. \A h \in Holdings : h[1] \in Users /\ WalletOf(h)[2] = h[1] /\ TradeOf(h)[2] = h[1]
    BY RowShapes
<1>2. CASE \E h \in Holdings : row = WalletOf(h)
  <2>1. PICK h \in Holdings : row = WalletOf(h)
      BY <1>2
  <2> QED BY <1>1, <2>1, RowShapes DEF UserOf
<1>3. CASE \E h \in Trades : row = TradeOf(h)
  <2>1. PICK h \in Trades : row = TradeOf(h)
      BY <1>3
  <2> QED BY <1>1, <2>1, RowShapes DEF UserOf
<1>4. CASE \E v \in Users : row = Account(v)
  <2>1. PICK v \in Users : row = Account(v)
      BY <1>4
  <2> QED BY <1>1, <2>1, RowShapes DEF UserOf
<1>5. CASE \E v \in Users : row = Subscription(v)
  <2>1. PICK v \in Users : row = Subscription(v)
      BY <1>5
  <2> QED BY <1>1, <2>1, RowShapes DEF UserOf
<1> QED BY <1>2, <1>3, <1>4, <1>5 DEF Row

\* If the locks are all that is waited for, two transactions cross.  Of the
\* users whose rows are waited for, take one whose referrer is not among them:
\* every transaction that holds a row of this user waits for another, and the
\* one that holds the account's row is one of two that cross.
LEMMA LocksCross ==
    ASSUME PoolInv, KeepsLocks, NEW p \in Requests, Blocked(p),
           \A q \in Requests : Has(q) # {} => Blocked(q)
    PROVE  Crossed
<1> DEFINE S == {u \in Users : \E q \in Requests : Blocked(q) /\ UserOf(NextStep(q)) = u}
<1>1. \A q \in Requests : Blocked(q) =>
        NextStep(q) \in Row /\ UserOf(NextStep(q)) \in S
    BY BlockedFollows, RowKinds
<1>2. PICK u \in S : Referrer[u] # NoUser => Referrer[u] \notin S
  <2>1. S # {} /\ S \subseteq Users
      BY <1>1
  <2> HIDE DEF S
  <2> QED BY <2>1, Uppermost
<1> DEFINE Inside(q) == q \in Requests /\ Blocked(q) /\ UserOf(NextStep(q)) = u
\* Who holds what such a request waits for is such a request.
<1>3. ASSUME NEW q, Inside(q)
      PROVE  Inside(locks[NextStep(q)]) /\ NextStep(q) \in Held(locks[NextStep(q)])
  <2> DEFINE v == NextStep(q)
             h == locks[v]
  <2>1. v \in Row /\ UserOf(v) = u /\ h # Nobody
      BY <1>1, <1>3 DEF Blocked
  <2>2. h \in Requests /\ Has(h) # {}
      BY <2>1 DEF PoolInv, Holder
  <2>3. Blocked(h) /\ v \in Held(h)
      BY <2>1, <2>2 DEF Held
  <2>4. Follows(Held(h), NextStep(h))
      BY <2>2, <2>3, BlockedFollows
  <2>5. \/ UserOf(NextStep(h)) = u
        \/ UserOf(NextStep(h)) = Referrer[u] /\ UserOf(NextStep(h)) # NoUser
    <3> HIDE DEF h, v
    <3> QED BY <2>1, <2>3, <2>4 DEF Follows
  <2>6. UserOf(NextStep(h)) \in S
      BY <1>1, <2>2, <2>3
  <2> QED BY <1>2, <2>2, <2>3, <2>5, <2>6
<1>4. \A q : Inside(q) => Follows(Held(q), NextStep(q)) /\ NextStep(q) \in Row
    BY BlockedFollows
<1> HIDE DEF S
<1>5. ASSUME NEW h, Inside(h), NEW v \in Held(h), UserOf(v) = u, v[1] = "wallet"
      PROVE  \E g : Inside(g) /\ Account(u) \in Held(g)
  <2>1. CASE Account(u) \in Held(h)
      BY <1>5, <2>1
  <2>2. CASE Account(u) \notin Held(h)
    <3>1. NextStep(h) = Account(u)
        BY <1>4, <1>5, <2>2 DEF Follows
    <3> QED BY <1>3, <1>5, <3>1
  <2> QED BY <2>1, <2>2
<1>6. ASSUME NEW h, Inside(h), NEW v \in Held(h), UserOf(v) = u, v[1] = "trade"
      PROVE  \E g : Inside(g) /\ Account(u) \in Held(g)
  <2> DEFINE w == WalletOf(<<v[2], v[3]>>)
  <2>1. w[1] = "wallet" /\ UserOf(w) = u
      BY <1>6, RowShapes DEF UserOf
  <2>2. CASE w \in Held(h)
    <3> HIDE DEF w
    <3> QED BY <1>5, <1>6, <2>1, <2>2
  <2>3. CASE w \notin Held(h)
    <3>1. NextStep(h) = w
        BY <1>4, <1>6, <2>3 DEF Follows
    <3> HIDE DEF w
    <3>2. Inside(locks[NextStep(h)]) /\ w \in Held(locks[NextStep(h)])
        BY <1>3, <1>6, <3>1
    <3> QED BY <1>5, <2>1, <3>2
  <2> QED BY <2>2, <2>3
<1>7. PICK h : Inside(h) /\ Account(u) \in Held(h)
  <2>1. PICK q \in Requests : Inside(q)
      BY <1>2 DEF S
  <2> DEFINE v == NextStep(q)
             g == locks[v]
  <2>2. Inside(g) /\ v \in Held(g) /\ UserOf(v) = u /\ v \in Row
      BY <1>3, <1>4, <2>1
  <2>3. v[1] # "subscription"
    <3>1. Follows(Held(g), NextStep(g)) /\ UserOf(NextStep(g)) = u
        BY <1>4, <2>2
    <3> HIDE DEF v, g
    <3> QED BY <2>2, <3>1 DEF Follows
  <2>4. v[1] \in {"wallet", "trade"} \/ v = Account(u)
      BY <2>2, <2>3, RowKinds
  <2> HIDE DEF v, g, Inside
  <2> QED BY <1>5, <1>6, <2>2, <2>4
<1> DEFINE q == locks[NextStep(h)]
<1>8. Inside(q) /\ NextStep(h) \in Held(q)
    BY <1>3, <1>7
<1>9. /\ Follows(Held(h), NextStep(h)) /\ Follows(Held(q), NextStep(q))
      /\ UserOf(NextStep(h)) = u /\ UserOf(NextStep(q)) = u
    BY <1>4, <1>7, <1>8
<1>10. q # h
    BY <1>8, <1>9 DEF Follows
<1>11. locks[Account(u)] = h /\ Account(u) \notin Held(q)
    BY <1>7, <1>10 DEF Held
<1>12. locks[NextStep(q)] = h
  <2> DEFINE v == NextStep(h)
             w == WalletOf(<<v[2], v[3]>>)
  <2>1. v[1] = "wallet" \/ (v[1] = "trade" /\ w \in Held(h))
      BY <1>7, <1>9 DEF Follows
  <2>2. CASE v[1] = "wallet"
    <3>1. NextStep(q) = Account(u)
      <4> HIDE DEF q
      <4> QED BY <1>8, <1>9, <1>11, <2>2 DEF Follows
    <3> QED BY <1>11, <3>1
  <2>3. CASE v[1] = "trade" /\ w \in Held(h)
    <3>1. locks[w] = h /\ w \notin Held(q)
        BY <1>10, <2>3 DEF Held
    <3>2. NextStep(q) = w
      <4> HIDE DEF q
      <4> QED BY <1>8, <1>9, <2>3, <3>1 DEF Follows
    <3> QED BY <3>1, <3>2
  <2> QED BY <2>1, <2>2, <2>3
<1> QED BY <1>7, <1>8, <1>9, <1>10, <1>12 DEF Crossed

LEMMA StuckShape ==
    ASSUME PoolInv, KeepsLocks
    PROVE  StuckForTwoReasons
<1> SUFFICES ASSUME Stuck, ~Crossed PROVE Starved
    BY DEF StuckForTwoReasons
<1>1. \A q \in Requests : Has(q) # {} => Queued(q) \/ Blocked(q)
    BY DEF Stuck, AtRest
<1>2. ASSUME NEW q \in Requests, Queued(q)
      PROVE  \A c \in Connections : use[c] \in Requests
  <2>1. queue # <<>>
      BY <1>2 DEF Queued
  <2> QED BY <2>1 DEF PoolInv, Sharing, Stuck
<1>3. PICK r \in Requests : Queued(r) /\ Has(r) # {}
  <2> SUFFICES ASSUME \A q \in Requests : Queued(q) => Has(q) = {} PROVE FALSE
      OBVIOUS
  <2>1. \A q \in Requests : ~Blocked(q)
      BY <1>1, LocksCross
  <2>2. PICK q \in Requests : Queued(q)
      BY <2>1 DEF Stuck
  <2>3. PICK c \in Connections : use[c] \in Requests
      BY <1>2, <2>2, PoolOK
  <2> QED BY <1>1, <2>1, <2>3 DEF Has
<1>4. \A c \in Connections : use[c] \in Requests
    BY <1>2, <1>3
<1>5. ASSUME NEW c \in Connections, NEW d \in Connections, use[c] = use[d]
      PROVE  c = d
  <2>1. use[c] \in Requests /\ Has(use[c]) # {} /\ c \in Has(use[c]) /\ d \in Has(use[c])
      BY <1>4, <1>5 DEF Has
  <2>2. CASE Queued(use[c])
      BY <1>5, <2>1, <2>2 DEF PoolInv, Sharing, Queued
  <2>3. CASE Blocked(use[c])
      BY <2>1, <2>3 DEF Blocked, Running
  <2> QED BY <1>1, <2>1, <2>2, <2>3
<1> QED BY <1>3, <1>4, <1>5 DEF Starved

\* StuckForTwoReasons: whatever the size of the pool, the number of users and
\* the length of the chains of referrers, the server stands still only when as
\* many transactions as there are connections have one each and one of them
\* reads beside itself, or when two transactions on one user's rows cross.
THEOREM OnlyTwoReasons == Spec => []StuckForTwoReasons
BY PoolInvInductive, KeepsLocksInductive, StuckShape, PTL

==============================================================================
