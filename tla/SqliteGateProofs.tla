-------------------------- MODULE SqliteGateProofs --------------------------
(* What holds of SqliteGate for every set of works and every nesting.      *)
EXTENDS SqliteGate, FiniteSetTheorems, SequenceTheorems, WellFoundedInduction, TLAPS

-----------------------------------------------------------------------------
(* The invariant.                                                          *)

Started(w) == pc[w] \in {"running", "settled", "done"}

\* The chain holds, once each, the works that made a token of their own.
ChainOfTokens ==
    /\ \A n \in 1 .. Len(chain) : token[chain[n]] = chain[n]
    /\ \A w \in Works : token[w] = w => \E n \in 1 .. Len(chain) : chain[n] = w
    /\ \A m, n \in 1 .. Len(chain) : chain[m] = chain[n] => m = n

\* Its works are started one by one: all before a started one are done.
OneByOne ==
    \A m, n \in 1 .. Len(chain) :
        m < n /\ Started(chain[n]) => pc[chain[m]] = "done"

\* A token is active until the work that made it is done.
TokensActive == active = {w \in Works : token[w] = w /\ pc[w] # "done"}

\* How far a work is says whose token it has.
TokenOf(w) ==
    /\ pc[w] = "idle" <=> token[w] = NoWork
    /\ pc[w] \in {"waiting", "settled"} => token[w] = w
    /\ token[w] # NoWork =>
         /\ token[token[w]] = token[w]
         /\ token[w] # w => Started(token[w])
         /\ \A S \in SUBSET Works : Family(S) => (w \in S <=> token[w] \in S)

\* A work that runs straight through does so while its caller runs, and the
\* caller of a call that was made has itself been started.
CallerOf(w) ==
    /\ pc[w] = "running" /\ token[w] # w =>
         /\ w \notin Legs
         /\ CallerIs(w, {"running"})
         /\ token[w] = token[Within[w]]
    /\ pc[w] # "idle" /\ Within[w] # NoWork => Started(Within[w])

\* The turn a running work runs in has not ended.
TurnLasts(w) == pc[w] = "running" => pc[token[w]] = "running"

GateInv ==
    /\ TypeOK
    /\ ChainOfTokens
    /\ OneByOne
    /\ TokensActive
    /\ \A w \in Works : TokenOf(w) /\ CallerOf(w) /\ TurnLasts(w)
    /\ NestingNeverWaits

-----------------------------------------------------------------------------
(* A caller outlives what it awaits.                                       *)

\* Some work of a nonempty set is nested no deeper than the others.
LEMMA Shallowest ==
    ASSUME NEW S, S \subseteq Works, S # {}
    PROVE  \E w \in S : Within[w] \notin S
<1>1. PICK depth \in [Works -> 0 .. Cardinality(Works)] : \A w \in Works :
        Within[w] # NoWork => depth[Within[w]] < depth[w]
  BY GateConstantsOK
<1>2. Cardinality(Works) \in Nat
  BY GateConstantsOK, FS_CardinalityType
<1>3. \A w \in Works : depth[w] \in Nat
  BY <1>1, <1>2
<1> DEFINE D == {depth[w] : w \in S}
<1>4. D \subseteq Nat /\ D # {}
  BY <1>3
<1>5. PICK x \in D : \A y \in D : ~(<<y, x>> \in OpToRel(<, Nat))
  <2> HIDE DEF D
  <2> QED
    BY <1>4, NatLessThanWellFounded, WFMin
<1>6. PICK w \in S : depth[w] = x
  OBVIOUS
<1>7. ASSUME Within[w] \in S
      PROVE  FALSE
  <2>1. depth[Within[w]] < depth[w]
    BY <1>1, <1>7, GateConstantsOK
  <2>2. depth[Within[w]] \in D /\ depth[Within[w]] \in Nat /\ x \in Nat
    BY <1>3, <1>4, <1>7
  <2> QED
    BY <1>5, <1>6, <2>1, <2>2 DEF OpToRel
<1> QED
  BY <1>6, <1>7

\* When a handler that awaits nothing has the turn, nothing else runs in it.
LEMMA TurnIsOver ==
    ASSUME GateInv, NEW h \in Works, token[h] = h,
           \A call \in Works \ Legs : ~Awaits(h, call)
    PROVE  \A w \in Works \ {h} : ~(pc[w] = "running" /\ token[w] = h)
<1> DEFINE S == {w \in Works \ {h} : pc[w] = "running" /\ token[w] = h}
<1> SUFFICES ASSUME S # {} PROVE FALSE
  OBVIOUS
<1>1. PICK w \in S : Within[w] \notin S
  <2> HIDE DEF S
  <2> QED
    BY Shallowest DEF S
<1>2. /\ w \in Works \ Legs /\ Within[w] \in Works
      /\ pc[Within[w]] = "running" /\ token[Within[w]] = h
  BY <1>1, GateConstantsOK DEF GateInv, CallerOf, CallerIs
<1>3. Within[w] = h
  BY <1>1, <1>2
<1> QED
  BY <1>1, <1>2, <1>3 DEF Awaits

-----------------------------------------------------------------------------
(* The invariant is inductive: one lemma per kind of step.                 *)

LEMMA TypeStep == TypeOK /\ [Next]_vars => TypeOK'
<1> SUFFICES ASSUME TypeOK, [Next]_vars PROVE TypeOK'
  OBVIOUS
<1> USE DEF TypeOK, States
<1>1. ASSUME NEW w \in Works, Enter(w) \/ EnterQuery(w)
      PROVE  TypeOK'
  BY <1>1 DEF Enter, EnterQuery, Enters
<1>2. ASSUME NEW w \in Works, Enqueue(w)
      PROVE  TypeOK'
  BY <1>2 DEF Enqueue
<1>3. ASSUME NEW w \in Works, Start(w) \/ Return(w) \/ Throw(w) \/ Release(w)
      PROVE  TypeOK'
  BY <1>3 DEF Start, Return, Throw, Settle, Release
<1>4. ASSUME NEW w \in Works, Statement(w)
      PROVE  TypeOK'
  <2>1. left[w] - 1 \in Nat
    BY <1>4 DEF Statement
  <2> QED
    BY <1>4, <2>1 DEF Statement
<1>5. CASE UNCHANGED vars
  BY <1>5 DEF vars
<1> QED
  BY <1>1, <1>2, <1>3, <1>4, <1>5 DEF Next, Call, Run

\* A call that runs straight through joins the turn of its caller.
LEMMA EnterStep ==
    ASSUME GateInv, TypeOK', NEW w \in Works, Enter(w) \/ EnterQuery(w)
    PROVE  GateInv'
<1> DEFINE t == Context(w)
           new == IF w \in Legs THEN "done" ELSE "running"
<1> USE GateConstantsOK
<1>1. /\ pc[w] = "idle" /\ Reached(w) /\ t \in active
      /\ pc' = [pc EXCEPT ![w] = new] /\ token' = [token EXCEPT ![w] = t]
      /\ active' = active /\ chain' = chain
  BY DEF Enter, EnterQuery, Enters, Reached
<1>2. /\ TypeOK /\ ChainOfTokens /\ OneByOne /\ TokensActive /\ NestingNeverWaits
      /\ \A v \in Works : TokenOf(v) /\ CallerOf(v) /\ TurnLasts(v)
  BY DEF GateInv
<1>3. /\ t \in Works /\ token[t] = t /\ pc[t] # "done" /\ t # w /\ pc[t] # "idle"
      /\ Within[w] \in Works /\ t = token[Within[w]] /\ token[w] = NoWork
  BY <1>1, <1>2 DEF TypeOK, TokensActive, TokenOf, Context
<1>4. /\ pc[Within[w]] \in {"running", "settled", "done"}
      /\ w \notin Legs => pc[Within[w]] = "running"
  BY <1>1, <1>3 DEF Reached, CallerIs, Enter, EnterQuery
<1>5. /\ \A v \in Works \ {w} : pc'[v] = pc[v] /\ token'[v] = token[v]
      /\ pc'[w] = new /\ token'[w] = t
  BY <1>1, <1>2 DEF TypeOK
<1>6. \A n \in 1 .. Len(chain) : chain[n] \in Works \ {w}
  <2>1. \A n \in 1 .. Len(chain) : chain[n] \in Works
    BY <1>2 DEF TypeOK
  <2>2. \A n \in 1 .. Len(chain) : chain[n] # w
    BY <1>2, <1>3 DEF ChainOfTokens
  <2> QED
    BY <2>1, <2>2
<1> HIDE DEF t, new
<1>7. Started(t)
  BY <1>2, <1>3, <1>4 DEF TokenOf, Started
<1>8. \A v \in Works : Within[v] = w => pc[v] = "idle" /\ v # w
  <2>1. \A v \in Works : Within[v] = w => pc[v] = "idle"
    BY <1>1, <1>2 DEF CallerOf, Started
  <2> QED
    BY <1>3, <1>4, <1>1, <2>1
<1>9. new \in {"running", "done"}
  BY DEF new
<1>10. ChainOfTokens' /\ OneByOne'
  BY SMTT(30), <1>1, <1>2, <1>3, <1>5, <1>6 DEF ChainOfTokens, OneByOne, Started
<1>11. TokensActive'
  BY <1>1, <1>2, <1>3, <1>5 DEF TokensActive
<1>12. ASSUME NEW v \in Works PROVE TokenOf(v)'
  <2>1. CASE v = w
    <3>1. \A S \in SUBSET Works : Family(S) => (w \in S <=> t \in S)
      BY <1>2, <1>3 DEF TokenOf, Family
    <3> QED
      BY <1>3, <1>5, <1>7, <1>9, <2>1, <3>1 DEF TokenOf, Family, Started
  <2>2. CASE v # w
    <3>1. token[v] # w
      BY <1>1, <1>2, <1>3 DEF TokenOf
    <3>2. token[v] \in Works \cup {NoWork}
      BY <1>2 DEF TypeOK
    <3> QED
      BY <1>2, <1>5, <2>2, <3>1, <3>2 DEF TokenOf, Family, Started
  <2> QED
    BY <2>1, <2>2
<1>13. ASSUME NEW v \in Works PROVE CallerOf(v)'
  <2>1. CASE v = w
    BY <1>3, <1>4, <1>5, <1>8, <2>1 DEF CallerOf, CallerIs, Started, new
  <2>2. CASE v # w
    BY <1>1, <1>2, <1>5, <1>8, <2>2 DEF CallerOf, CallerIs, Started
  <2> QED
    BY <2>1, <2>2
<1>14. ASSUME NEW v \in Works PROVE TurnLasts(v)'
  <2>1. CASE v = w
    BY <1>2, <1>3, <1>4, <1>5, <2>1 DEF TurnLasts, new
  <2>2. CASE v # w
    BY <1>1, <1>2, <1>5, <2>2 DEF TurnLasts, TypeOK
  <2> QED
    BY <2>1, <2>2
<1>15. NestingNeverWaits'
  BY <1>2, <1>5, <1>8, <1>9 DEF NestingNeverWaits, CallerIs
<1> QED
  BY <1>10, <1>11, <1>12, <1>13, <1>14, <1>15 DEF GateInv

\* A call that queues has no running caller: that one's turn still lasts.
LEMMA EnqueueStep ==
    ASSUME GateInv, TypeOK', NEW w \in Works, Enqueue(w)
    PROVE  GateInv'
<1> USE GateConstantsOK
<1>1. /\ pc[w] = "idle" /\ Reached(w) /\ Context(w) \notin active
      /\ pc' = [pc EXCEPT ![w] = "waiting"] /\ token' = [token EXCEPT ![w] = w]
      /\ active' = active \cup {w} /\ chain' = Append(chain, w)
  BY DEF Enqueue, Enters, Reached
<1>2. /\ TypeOK /\ ChainOfTokens /\ OneByOne /\ TokensActive /\ NestingNeverWaits
      /\ \A v \in Works : TokenOf(v) /\ CallerOf(v) /\ TurnLasts(v)
  BY DEF GateInv
<1>3. token[w] = NoWork
  BY <1>1, <1>2 DEF TokenOf
<1>4. /\ \A v \in Works \ {w} : pc'[v] = pc[v] /\ token'[v] = token[v]
      /\ pc'[w] = "waiting" /\ token'[w] = w
  BY <1>1, <1>2 DEF TypeOK
<1>5. ~CallerIs(w, {"running"})
  <2> SUFFICES ASSUME Within[w] \in Works, pc[Within[w]] = "running" PROVE FALSE
    BY DEF CallerIs
  <2>1. Context(w) = token[Within[w]]
    BY DEF Context
  <2>2. /\ token[Within[w]] \in Works /\ pc[token[Within[w]]] = "running"
        /\ token[token[Within[w]]] = token[Within[w]]
    BY <1>2 DEF TypeOK, TokenOf, TurnLasts
  <2> QED
    BY <1>1, <1>2, <2>1, <2>2 DEF TokensActive
<1>6. \A v \in Works : Within[v] = w => pc[v] = "idle"
  BY <1>1, <1>2 DEF CallerOf, Started
<1>7. Within[w] # w /\ (Within[w] # NoWork => Started(Within[w]))
  BY <1>1 DEF Reached, CallerIs, Started
<1>8. /\ Len(chain') = Len(chain) + 1 /\ Len(chain) \in Nat
      /\ \A n \in 1 .. Len(chain) : /\ chain'[n] = chain[n]
                                    /\ chain[n] \in Works
                                    /\ chain[n] # w
      /\ chain'[Len(chain) + 1] = w
  <2>1. chain \in Seq(Works)
    BY <1>2 DEF TypeOK
  <2>2. \A n \in 1 .. Len(chain) : chain[n] # w
    BY SMTT(30), <1>2, <1>3 DEF ChainOfTokens
  <2> QED
    BY <1>1, <2>1, <2>2
<1>9. \A n : n \in 1 .. Len(chain') <=> n \in 1 .. Len(chain) \/ n = Len(chain) + 1
  BY <1>8
<1>10. ChainOfTokens' /\ OneByOne'
  <2>1. ASSUME NEW n \in 1 .. Len(chain') PROVE token'[chain'[n]] = chain'[n]
    <3>1. CASE n \in 1 .. Len(chain)
      <4>1. token[chain[n]] = chain[n]
        BY <1>2, <3>1 DEF ChainOfTokens
      <4> QED
        BY <1>4, <1>8, <3>1, <4>1
    <3>2. CASE n = Len(chain) + 1
      BY <1>4, <1>8, <3>2
    <3> QED
      BY <1>9, <3>1, <3>2
  <2>2. ASSUME NEW v \in Works, token'[v] = v
        PROVE  \E n \in 1 .. Len(chain') : chain'[n] = v
    <3>1. CASE v = w
      BY <1>8, <1>9, <3>1
    <3>2. CASE v # w
      <4>1. PICK n \in 1 .. Len(chain) : chain[n] = v
        BY <1>2, <1>4, <2>2, <3>2 DEF ChainOfTokens
      <4> QED
        BY <1>8, <1>9, <4>1
    <3> QED
      BY <3>1, <3>2
  <2>3. ASSUME NEW m \in 1 .. Len(chain'), NEW n \in 1 .. Len(chain'),
               chain'[m] = chain'[n]
        PROVE  m = n
    <3>1. CASE m \in 1 .. Len(chain) /\ n \in 1 .. Len(chain)
      BY <1>2, <1>8, <2>3, <3>1 DEF ChainOfTokens
    <3>2. CASE m = Len(chain) + 1 \/ n = Len(chain) + 1
      BY <1>8, <1>9, <2>3, <3>2
    <3> QED
      BY <1>9, <3>1, <3>2
  <2>4. ASSUME NEW m \in 1 .. Len(chain'), NEW n \in 1 .. Len(chain'),
               m < n, Started(chain[n])'
        PROVE  pc'[chain'[m]] = "done"
    <3>1. n \in 1 .. Len(chain)
      BY <1>4, <1>8, <1>9, <2>4 DEF Started
    <3>2. m \in 1 .. Len(chain)
      BY <1>8, <1>9, <2>4, <3>1
    <3>3. Started(chain[n])
      BY <1>4, <1>8, <2>4, <3>1 DEF Started
    <3> QED
      BY SMTT(30), <1>2, <1>4, <1>8, <2>4, <3>1, <3>2, <3>3 DEF OneByOne
  <2> QED
    BY <2>1, <2>2, <2>3, <2>4 DEF ChainOfTokens, OneByOne
<1>11. TokensActive'
  BY <1>1, <1>2, <1>4 DEF TokensActive
<1>12. ASSUME NEW v \in Works PROVE TokenOf(v)'
  <2>1. CASE v = w
    BY <1>4, <2>1 DEF TokenOf
  <2>2. CASE v # w
    <3>1. token[v] # w /\ token[v] \in Works \cup {NoWork}
      BY <1>2, <1>3 DEF TokenOf, TypeOK
    <3> QED
      BY <1>2, <1>4, <2>2, <3>1 DEF TokenOf, Started
  <2> QED
    BY <2>1, <2>2
<1>13. ASSUME NEW v \in Works PROVE CallerOf(v)'
  <2>1. CASE v = w
    BY <1>4, <1>7, <2>1 DEF CallerOf, Started
  <2>2. CASE v # w
    BY <1>2, <1>4, <1>6, <2>2 DEF CallerOf, CallerIs, Started
  <2> QED
    BY <2>1, <2>2
<1>14. ASSUME NEW v \in Works PROVE TurnLasts(v)'
  BY <1>1, <1>2, <1>4 DEF TurnLasts, TypeOK
<1>15. NestingNeverWaits'
  BY <1>2, <1>4, <1>5, <1>6, <1>7 DEF NestingNeverWaits, CallerIs
<1> QED
  BY <1>10, <1>11, <1>12, <1>13, <1>14, <1>15 DEF GateInv

\* A queued work starts when all that queued before it is done.
LEMMA StartStep ==
    ASSUME GateInv, TypeOK', NEW w \in Works, Start(w)
    PROVE  GateInv'
<1> USE GateConstantsOK
<1>1. /\ pc[w] = "waiting" /\ pc' = [pc EXCEPT ![w] = "running"]
      /\ token' = token /\ active' = active /\ chain' = chain
      /\ \A n \in 2 .. Len(chain) : chain[n] = w => pc[chain[n - 1]] = "done"
  BY DEF Start, Resolved
<1>2. /\ TypeOK /\ ChainOfTokens /\ OneByOne /\ TokensActive /\ NestingNeverWaits
      /\ \A v \in Works : TokenOf(v) /\ CallerOf(v) /\ TurnLasts(v)
  BY DEF GateInv
<1>3. /\ \A v \in Works \ {w} : pc'[v] = pc[v]
      /\ pc'[w] = "running" /\ token[w] = w
  BY <1>1, <1>2 DEF TypeOK, TokenOf
<1>4. \A v \in Works : Within[v] = w => pc[v] = "idle"
  BY <1>1, <1>2 DEF CallerOf, Started
<1>5. Len(chain) \in Nat /\ \A n \in 1 .. Len(chain) : chain[n] \in Works
  BY <1>2 DEF TypeOK
<1>6. ASSUME NEW m \in 1 .. Len(chain), NEW n \in 1 .. Len(chain), m < n, chain[n] = w
      PROVE  pc[chain[m]] = "done"
  <2>1. n - 1 \in 1 .. Len(chain) /\ n \in 2 .. Len(chain)
    BY <1>5, <1>6
  <2>2. pc[chain[n - 1]] = "done"
    BY <1>1, <1>6, <2>1
  <2>3. CASE m = n - 1
    BY <2>2, <2>3
  <2>4. CASE m < n - 1
    BY <1>2, <2>1, <2>2, <2>4 DEF OneByOne, Started
  <2> QED
    BY <1>5, <1>6, <2>3, <2>4
<1>7. OneByOne'
  <2> SUFFICES ASSUME NEW m \in 1 .. Len(chain), NEW n \in 1 .. Len(chain),
                      m < n, Started(chain[n])'
               PROVE  pc'[chain[m]] = "done"
    BY <1>1 DEF OneByOne
  <2>1. pc[chain[m]] = "done"
    BY <1>1, <1>2, <1>3, <1>5, <1>6 DEF OneByOne, Started
  <2> QED
    BY <1>1, <1>3, <1>5, <2>1
<1>8. ChainOfTokens' /\ TokensActive'
  BY <1>1, <1>2, <1>3 DEF ChainOfTokens, TokensActive
<1>9. ASSUME NEW v \in Works PROVE TokenOf(v)' /\ TurnLasts(v)'
  BY <1>1, <1>2, <1>3 DEF TokenOf, TurnLasts, TypeOK, Started
<1>10. ASSUME NEW v \in Works PROVE CallerOf(v)'
  BY <1>1, <1>2, <1>3, <1>4 DEF CallerOf, CallerIs, Started
<1>11. NestingNeverWaits'
  BY <1>1, <1>2, <1>3, <1>4 DEF NestingNeverWaits, CallerIs
<1> QED
  BY <1>7, <1>8, <1>9, <1>10, <1>11 DEF GateInv

\* A statement changes no turn.
LEMMA StatementStep ==
    ASSUME GateInv, TypeOK', NEW w \in Works, Statement(w)
    PROVE  GateInv'
<1>1. pc' = pc /\ token' = token /\ active' = active /\ chain' = chain
  BY DEF Statement
<1> QED
  BY <1>1 DEF GateInv, ChainOfTokens, OneByOne, TokensActive, TokenOf, CallerOf,
              TurnLasts, NestingNeverWaits, CallerIs, Started

\* A work that ends its turn leaves nothing running in it.
LEMMA SettleStep ==
    ASSUME GateInv, TypeOK', NEW w \in Works, Return(w) \/ Throw(w)
    PROVE  GateInv'
<1> USE GateConstantsOK
<1> DEFINE new == IF token[w] = w THEN "settled" ELSE "done"
<1>1. /\ pc[w] = "running" /\ pc' = [pc EXCEPT ![w] = new]
      /\ token' = token /\ active' = active /\ chain' = chain
      /\ \A call \in Works \ Legs : ~Awaits(w, call)
  BY DEF Return, Throw, Settle, Awaits
<1>2. /\ TypeOK /\ ChainOfTokens /\ OneByOne /\ TokensActive /\ NestingNeverWaits
      /\ \A v \in Works : TokenOf(v) /\ CallerOf(v) /\ TurnLasts(v)
  BY DEF GateInv
<1>3. /\ \A v \in Works \ {w} : pc'[v] = pc[v]
      /\ pc'[w] = new
  BY <1>1, <1>2 DEF TypeOK
<1>4. /\ new \in {"settled", "done"}
      /\ new = "settled" <=> token[w] = w
  OBVIOUS
<1> HIDE DEF new
<1>5. /\ Len(chain) \in Nat
      /\ \A n \in 1 .. Len(chain) : chain[n] \in Works /\ token[chain[n]] = chain[n]
  BY <1>2 DEF TypeOK, ChainOfTokens
<1>6. ChainOfTokens' /\ TokensActive'
  BY <1>1, <1>2, <1>3, <1>4 DEF ChainOfTokens, TokensActive
<1>7. OneByOne'
  <2> SUFFICES ASSUME NEW m \in 1 .. Len(chain), NEW n \in 1 .. Len(chain),
                      m < n, Started(chain[n])'
               PROVE  pc'[chain[m]] = "done"
    BY <1>1 DEF OneByOne
  <2>1. Started(chain[n])
    BY <1>1, <1>3, <1>5 DEF Started
  <2>2. pc[chain[m]] = "done"
    BY <1>2, <2>1 DEF OneByOne
  <2> QED
    BY <1>1, <1>3, <1>5, <2>2
<1>8. ASSUME NEW v \in Works PROVE TokenOf(v)'
  <2>1. Started(token[v]) => Started(token[v])'
    BY <1>1, <1>2, <1>3, <1>4 DEF Started, TypeOK
  <2> QED
    BY <1>1, <1>2, <1>3, <1>4, <2>1 DEF TokenOf
<1>9. ASSUME NEW v \in Works PROVE CallerOf(v)'
  BY <1>1, <1>2, <1>3, <1>4 DEF CallerOf, CallerIs, Started, Awaits
<1>10. ASSUME NEW v \in Works PROVE TurnLasts(v)'
  <2> SUFFICES ASSUME v # w, pc[v] = "running" PROVE token[v] # w
    BY <1>1, <1>2, <1>3, <1>4 DEF TurnLasts, TypeOK
  <2> SUFFICES ASSUME token[v] = w PROVE FALSE
    OBVIOUS
  <2>1. token[w] = w
    BY <1>2 DEF TokenOf
  <2> QED
    BY <1>1, <2>1, TurnIsOver
<1>11. NestingNeverWaits'
  BY <1>1, <1>2, <1>3, <1>4 DEF NestingNeverWaits, CallerIs
<1> QED
  BY <1>6, <1>7, <1>8, <1>9, <1>10, <1>11 DEF GateInv

\* The token goes inactive with nothing running in its turn.
LEMMA ReleaseStep ==
    ASSUME GateInv, TypeOK', NEW w \in Works, Release(w)
    PROVE  GateInv'
<1> USE GateConstantsOK
<1>1. /\ pc[w] = "settled" /\ pc' = [pc EXCEPT ![w] = "done"]
      /\ token' = token /\ active' = active \ {w} /\ chain' = chain
  BY DEF Release
<1>2. /\ TypeOK /\ ChainOfTokens /\ OneByOne /\ TokensActive /\ NestingNeverWaits
      /\ \A v \in Works : TokenOf(v) /\ CallerOf(v) /\ TurnLasts(v)
  BY DEF GateInv
<1>3. /\ \A v \in Works \ {w} : pc'[v] = pc[v]
      /\ pc'[w] = "done"
  BY <1>1, <1>2 DEF TypeOK
<1>4. Len(chain) \in Nat /\ \A n \in 1 .. Len(chain) : chain[n] \in Works
  BY <1>2 DEF TypeOK
<1>5. ChainOfTokens' /\ TokensActive'
  BY <1>1, <1>2, <1>3 DEF ChainOfTokens, TokensActive
<1>6. OneByOne'
  <2> SUFFICES ASSUME NEW m \in 1 .. Len(chain), NEW n \in 1 .. Len(chain),
                      m < n, Started(chain[n])'
               PROVE  pc'[chain[m]] = "done"
    BY <1>1 DEF OneByOne
  <2>1. Started(chain[n])
    BY <1>1, <1>3, <1>4 DEF Started
  <2>2. pc[chain[m]] = "done"
    BY <1>2, <2>1 DEF OneByOne
  <2> QED
    BY <1>1, <1>3, <1>4, <2>2
<1>7. ASSUME NEW v \in Works PROVE TokenOf(v)'
  <2>1. Started(token[v]) => Started(token[v])'
    BY <1>1, <1>2, <1>3 DEF Started, TypeOK
  <2> QED
    BY <1>1, <1>2, <1>3, <2>1 DEF TokenOf
<1>8. ASSUME NEW v \in Works PROVE CallerOf(v)' /\ TurnLasts(v)'
  BY <1>1, <1>2, <1>3 DEF CallerOf, CallerIs, TurnLasts, Started, TypeOK
<1>9. NestingNeverWaits'
  BY <1>1, <1>2, <1>3 DEF NestingNeverWaits, CallerIs
<1> QED
  BY <1>5, <1>6, <1>7, <1>8, <1>9 DEF GateInv

-----------------------------------------------------------------------------
(* The theorems.                                                           *)

LEMMA GateInvHolds == Spec => []GateInv
<1>1. Init => GateInv
  <2> SUFFICES ASSUME Init PROVE GateInv
    OBVIOUS
  <2>1. TypeOK
    BY GateConstantsOK DEF Init, TypeOK, States
  <2>2. Len(chain) = 0 /\ \A w \in Works : pc[w] = "idle" /\ token[w] = NoWork
    BY DEF Init
  <2>3. ChainOfTokens /\ OneByOne /\ TokensActive
    BY <2>2, GateConstantsOK DEF Init, ChainOfTokens, OneByOne, TokensActive
  <2>4. NestingNeverWaits
    BY <2>2 DEF NestingNeverWaits
  <2>5. \A w \in Works : TokenOf(w) /\ CallerOf(w) /\ TurnLasts(w)
    BY <2>2 DEF TokenOf, CallerOf, TurnLasts
  <2> QED
    BY <2>1, <2>3, <2>4, <2>5 DEF GateInv
<1>2. GateInv /\ [Next]_vars => GateInv'
  <2> SUFFICES ASSUME GateInv, [Next]_vars PROVE GateInv'
    OBVIOUS
  <2>1. TypeOK'
    BY TypeStep DEF GateInv
  <2> QED
    <3>1. CASE UNCHANGED vars
      BY <3>1 DEF vars, GateInv, TypeOK, ChainOfTokens, OneByOne, TokensActive, TokenOf,
                  CallerOf, TurnLasts, NestingNeverWaits, CallerIs, Started
    <3>2. ASSUME NEW w \in Works, Call(w) \/ Run(w)
          PROVE  GateInv'
      BY <2>1, <3>2, EnterStep, EnqueueStep, StartStep, StatementStep, SettleStep,
         ReleaseStep
      DEF Call, Run
    <3> QED
      BY <3>1, <3>2 DEF Next
<1> QED
  BY <1>1, <1>2, PTL DEF Spec

\* Type correctness of the gate.
THEOREM GateTypeCorrect == Spec => []TypeOK
<1>1. GateInv => TypeOK
  BY DEF GateInv
<1> QED
  BY <1>1, GateInvHolds, PTL

\* The comment of installSqliteGate, "nesting cannot deadlock": no running
\* handler ever awaits a call that queues, however calls nest.
THEOREM NestingCannotDeadlock == Spec => []NestingNeverWaits
<1>1. GateInv => NestingNeverWaits
  BY DEF GateInv
<1> QED
  BY <1>1, GateInvHolds, PTL

\* Some work of a nonempty set makes none of the calls in it.
LEMMA Deepest ==
    ASSUME NEW S, S \subseteq Works, S # {}
    PROVE  \E w \in S : \A v \in S : Within[v] # w
<1>1. PICK depth \in [Works -> 0 .. Cardinality(Works)] : \A w \in Works :
        Within[w] # NoWork => depth[Within[w]] < depth[w]
  BY GateConstantsOK
<1>2. Cardinality(Works) \in Nat
  BY GateConstantsOK, FS_CardinalityType
<1> DEFINE Height(w) == Cardinality(Works) - depth[w]
           H == {Height(w) : w \in S}
<1>3. \A w \in Works : depth[w] \in Nat /\ Height(w) \in Nat
  BY <1>1, <1>2
<1>4. H \subseteq Nat /\ H # {}
  BY <1>3
<1>5. PICK x \in H : \A y \in H : ~(<<y, x>> \in OpToRel(<, Nat))
  <2> HIDE DEF H
  <2> QED
    BY <1>4, NatLessThanWellFounded, WFMin
<1>6. PICK w \in S : Height(w) = x
  OBVIOUS
<1>7. ASSUME NEW v \in S, Within[v] = w
      PROVE  FALSE
  <2>1. depth[w] < depth[v]
    BY <1>1, <1>7, GateConstantsOK
  <2>2. Height(v) < x /\ Height(v) \in H /\ Height(v) \in Nat /\ x \in Nat
    BY <1>2, <1>3, <1>6, <2>1
  <2> QED
    BY <1>5, <2>2 DEF OpToRel
<1> QED
  BY <1>6, <1>7

\* A handler that waits for a call of the set waits for one that runs, until
\* the deepest; a queued work waits, through the chain, for one that runs.
LEMMA CirclesBreak == GateInv => NoCircularWait
<1> SUFFICES ASSUME GateInv, NEW S \in SUBSET Works, S # {},
                    \A w \in S : \E v \in S : WaitsFor(w, v)
             PROVE  FALSE
  BY DEF NoCircularWait
<1>1. TypeOK /\ ChainOfTokens /\ NestingNeverWaits
  BY DEF GateInv
<1>2. \A w \in S : pc[w] \in {"waiting", "running"}
  BY DEF WaitsFor
<1> DEFINE Running == {w \in S : pc[w] = "running"}
<1>3. ASSUME Running # {}
      PROVE  FALSE
  <2>1. PICK w \in Running : \A v \in Running : Within[v] # w
    <3> HIDE DEF Running
    <3>1. Running \subseteq Works
      BY DEF Running
    <3> QED
      BY <1>3, <3>1, Deepest
  <2>2. PICK v \in S : Awaits(w, v)
    BY <2>1 DEF WaitsFor
  <2>3. Within[v] = w /\ pc[v] # "waiting"
    BY <1>1, <2>1, <2>2, GateConstantsOK DEF Awaits, NestingNeverWaits, CallerIs
  <2> QED
    BY <1>2, <2>1, <2>2, <2>3
<1>4. ASSUME Running = {}
      PROVE  FALSE
  <2> DEFINE P == {n \in 1 .. Len(chain) : chain[n] \in S}
  <2>1. Len(chain) \in Nat /\ P \subseteq Nat
    BY <1>1, LenProperties DEF TypeOK
  <2>2. ASSUME NEW w \in S
        PROVE  \E n \in 2 .. Len(chain) : chain[n] = w /\ chain[n - 1] \in S
    <3>1. PICK v \in S : WaitsFor(w, v)
      OBVIOUS
    <3>2. pc[w] # "running"
      BY <1>4
    <3> QED
      BY <3>1, <3>2 DEF WaitsFor
  <2>3. P # {}
    <3>1. PICK w \in S : TRUE
      OBVIOUS
    <3>2. PICK n \in 2 .. Len(chain) : chain[n] = w /\ chain[n - 1] \in S
      BY <2>2
    <3> QED
      BY <2>1, <3>1, <3>2
  <2>4. PICK m \in P : \A n \in P : ~(<<n, m>> \in OpToRel(<, Nat))
    <3> HIDE DEF P
    <3> QED
      BY <2>1, <2>3, NatLessThanWellFounded, WFMin
  <2>5. PICK n \in 2 .. Len(chain) : chain[n] = chain[m] /\ chain[n - 1] \in S
    BY <2>2
  <2>6. n = m
    BY <1>1, <2>1, <2>5 DEF ChainOfTokens
  <2>7. m - 1 \in P /\ m - 1 < m /\ m - 1 \in Nat /\ m \in Nat
    BY <2>1, <2>5, <2>6
  <2> QED
    BY <2>4, <2>7 DEF OpToRel
<1> QED
  BY <1>3, <1>4

\* The gate cannot deadlock: whatever is nested, late or rejected, the calls
\* that wait never wait in a circle, so one of them, or what it waits for, can
\* go on.
THEOREM WaitingEnds == Spec => []NoCircularWait
<1>1. GateInv => NoCircularWait
  BY CirclesBreak
<1> QED
  BY <1>1, GateInvHolds, PTL

\* Two works that have the turn have the same one.
LEMMA OneTurn ==
    ASSUME GateInv, NEW s \in Works, NEW t \in Works, token[s] = s, token[t] = t,
           Started(s), Started(t), pc[s] # "done", pc[t] # "done"
    PROVE  s = t
<1>1. PICK m \in 1 .. Len(chain), n \in 1 .. Len(chain) : chain[m] = s /\ chain[n] = t
  BY DEF GateInv, ChainOfTokens
<1>2. ~(m < n) /\ ~(n < m)
  BY <1>1 DEF GateInv, OneByOne
<1>3. Len(chain) \in Nat
  BY DEF GateInv, TypeOK
<1> QED
  BY <1>1, <1>2, <1>3

\* While a transaction is open, only calls that come from inside it reach the
\* connection, whatever nests, throws or calls late: overlapping transactions
\* never run inside each other.
THEOREM TransactionsAreIsolated == Spec => NoStrangerStatement
<1> DEFINE Isolated == \A w, v \in Works : left'[w] # left[w] /\ Open(v) => Kin(w, v)
<1>1. GateInv /\ [Next]_vars => [Isolated]_vars
  <2> SUFFICES ASSUME GateInv, Next, NEW w \in Works, NEW v \in Works,
                      left'[w] # left[w], Open(v)
               PROVE  Kin(w, v)
    OBVIOUS
  <2>1. /\ token[v] \in Works /\ token[token[v]] = token[v] /\ pc[token[v]] = "running"
        /\ \A S \in SUBSET Works : Family(S) => (v \in S <=> token[v] \in S)
    BY GateConstantsOK DEF GateInv, TypeOK, TokenOf, TurnLasts, Open
  <2>2. ASSUME Statement(w)
        PROVE  Kin(w, v)
    <3>1. /\ token[w] \in Works /\ token[token[w]] = token[w] /\ pc[token[w]] = "running"
          /\ \A S \in SUBSET Works : Family(S) => (w \in S <=> token[w] \in S)
      BY <2>2, GateConstantsOK DEF GateInv, TypeOK, TokenOf, TurnLasts, Statement
    <3>2. token[w] = token[v]
      BY <2>1, <3>1, OneTurn DEF Started
    <3> QED
      BY <2>1, <3>1, <3>2 DEF Kin
  <2>3. ASSUME EnterQuery(w)
        PROVE  Kin(w, v)
    <3> DEFINE p == Within[w]
               t == token[p]
    <3>1. /\ p \in Works /\ t \in Works /\ token[t] = t /\ pc[t] # "done"
          /\ Started(p)
      BY <2>3, GateConstantsOK
      DEF EnterQuery, Reached, CallerIs, Enters, Context, Started, GateInv, TokensActive
    <3>2. /\ Started(t)
          /\ \A S \in SUBSET Works : Family(S) => (p \in S <=> t \in S)
      BY <3>1, GateConstantsOK DEF GateInv, TokenOf
    <3>3. t = token[v]
      BY <2>1, <3>1, <3>2, OneTurn DEF Started
    <3>4. \A S \in SUBSET Works : Family(S) => (w \in S <=> p \in S)
      BY <3>1, GateConstantsOK DEF Family
    <3> QED
      BY <2>1, <3>2, <3>3, <3>4 DEF Kin
  <2>4. PICK x \in Works : Statement(x) \/ EnterQuery(x)
    <3>1. left' # left
      OBVIOUS
    <3> QED
      BY <3>1 DEF Next, Call, Run, Enter, Enqueue, Start, Return, Throw, Settle, Release
  <2>5. x = w
    BY <2>4 DEF Statement, EnterQuery, GateInv, TypeOK
  <2> QED
    BY <2>2, <2>3, <2>4, <2>5
<1> QED
  BY <1>1, GateInvHolds, PTL DEF Spec, NoStrangerStatement

-----------------------------------------------------------------------------
(* The queue: what is behind the works of the chain that have begun.       *)

\* The first k works of the chain have begun, no other.
BegunAre(k) ==
    /\ k \in 0 .. Len(chain)
    /\ \A n \in 1 .. Len(chain) : pc[chain[n]] # "waiting" <=> n <= k

LEMMA BegunCount ==
    ASSUME chain \in Seq(Works), NEW k, BegunAre(k)
    PROVE  Begun = k
<1>1. Len(chain) \in Nat
  BY LenProperties
<1>2. {n \in 1 .. Len(chain) : pc[chain[n]] # "waiting"} = 1 .. k
  BY <1>1 DEF BegunAre
<1>3. Cardinality(1 .. k) = k
  BY <1>1, FS_Interval DEF BegunAre
<1> QED
  BY <1>2, <1>3 DEF Begun

\* OneByOne in other words.
LEMMA BegunFirst ==
    ASSUME GateInv
    PROVE  \E k : BegunAre(k)
<1>1. /\ Len(chain) \in Nat /\ OneByOne
      /\ \A n \in 1 .. Len(chain) : chain[n] \in Works /\ pc[chain[n]] # "idle"
  <2>1. chain \in Seq(Works) /\ ChainOfTokens /\ OneByOne /\ \A w \in Works : TokenOf(w)
    BY DEF GateInv, TypeOK
  <2>2. Len(chain) \in Nat /\ \A n \in 1 .. Len(chain) : chain[n] \in Works
    BY <2>1, LenProperties, ElementOfSeq
  <2> QED
    BY <2>1, <2>2, GateConstantsOK DEF ChainOfTokens, TokenOf
<1>2. \A w \in Works : pc[w] \in States
  BY DEF GateInv, TypeOK
<1> DEFINE W == {n \in 1 .. Len(chain) : pc[chain[n]] = "waiting"}
<1>3. CASE W = {}
  <2>1. BegunAre(Len(chain))
    BY <1>1, <1>3 DEF BegunAre
  <2> QED
    BY <2>1
<1>4. CASE W # {}
  <2>1. W \subseteq Nat
    BY <1>1
  <2>2. PICK m \in W : \A n \in W : ~(<<n, m>> \in OpToRel(<, Nat))
    <3> HIDE DEF W
    <3> QED
      BY <1>4, <2>1, NatLessThanWellFounded, WFMin
  <2>3. \A n \in W : ~(n < m)
    BY <2>1, <2>2 DEF OpToRel
  <2>4. m \in 1 .. Len(chain) /\ pc[chain[m]] = "waiting"
    OBVIOUS
  <2>5. \A n \in 1 .. Len(chain) : m <= n => pc[chain[n]] = "waiting"
    <3> SUFFICES ASSUME NEW n \in 1 .. Len(chain), m < n, pc[chain[n]] # "waiting"
                 PROVE  FALSE
      BY <1>1, <2>4
    <3>1. Started(chain[n])
      BY <1>1, <1>2 DEF Started, States
    <3>2. pc[chain[m]] = "done"
      BY <1>1, <2>4, <3>1 DEF OneByOne
    <3> QED
      BY <2>4, <3>2
  <2>6. \A n \in 1 .. Len(chain) : n < m => pc[chain[n]] # "waiting"
    BY <2>3
  <2>7. BegunAre(m - 1)
    BY <1>1, <2>4, <2>5, <2>6 DEF BegunAre
  <2> QED
    BY <2>7
<1> QED
  BY <1>3, <1>4

-----------------------------------------------------------------------------
(* Each step is a step of SerialExecutor, or none.                         *)

Queue == SubSeq(chain, Begun + 1, Len(chain))
Submitted == {w \in Works : token[w] = w}

\* A step that makes nobody wait or begin changes no queue.
LEMMA SameQueue ==
    ASSUME UNCHANGED chain, NEW w \in Works, GateInv,
           \A v \in Works \ {w} : pc'[v] = pc[v],
           (pc[w] # "waiting" /\ pc'[w] # "waiting") \/ token[w] # w
    PROVE  Queue' = Queue
<1>1. \A n \in 1 .. Len(chain) : chain[n] \in Works /\ token[chain[n]] = chain[n]
  BY ElementOfSeq DEF GateInv, TypeOK, ChainOfTokens
<1>2. \A n \in 1 .. Len(chain) : pc'[chain[n]] # "waiting" <=> pc[chain[n]] # "waiting"
  BY <1>1
<1>3. {n \in 1 .. Len(chain) : pc'[chain[n]] # "waiting"}
        = {n \in 1 .. Len(chain) : pc[chain[n]] # "waiting"}
  BY <1>2
<1> QED
  BY <1>3 DEF Queue, Begun

LEMMA EnqueueSubmits ==
    ASSUME GateInv, NEW w \in Works, Enqueue(w)
    PROVE  Abstract!Submit(w)
<1>1. /\ pc[w] = "idle"
      /\ pc' = [pc EXCEPT ![w] = "waiting"] /\ token' = [token EXCEPT ![w] = w]
      /\ chain' = Append(chain, w)
  BY DEF Enqueue, Reached
<1>2. TypeOK /\ chain \in Seq(Works) /\ ChainOfTokens /\ token[w] = NoWork
  BY <1>1 DEF GateInv, TypeOK, TokenOf
<1>3. /\ \A v \in Works \ {w} : pc'[v] = pc[v] /\ token'[v] = token[v]
      /\ pc'[w] = "waiting" /\ token'[w] = w
  BY <1>1, <1>2 DEF TypeOK
<1>4. w \notin Submitted /\ Submitted' = Submitted \cup {w}
  BY <1>2, <1>3, GateConstantsOK DEF Submitted
<1>5. Holders' = Holders
  BY <1>1, <1>2, <1>3, GateConstantsOK DEF Holders
<1>6. PICK k : BegunAre(k)
  BY BegunFirst
<1>7. /\ Len(chain) \in Nat /\ k \in 0 .. Len(chain) /\ Len(chain') = Len(chain) + 1
      /\ chain' \in Seq(Works)
      /\ \A n \in 1 .. Len(chain) : /\ chain'[n] = chain[n]
                                    /\ chain[n] \in Works \ {w}
      /\ chain'[Len(chain) + 1] = w
  <2>1. \A n \in 1 .. Len(chain) : chain[n] # w /\ chain[n] \in Works
    BY <1>2, GateConstantsOK, ElementOfSeq DEF ChainOfTokens
  <2> QED
    BY <1>1, <1>2, <1>6, <2>1, AppendProperties, LenProperties DEF BegunAre
<1>8. \A n \in 1 .. Len(chain') : pc'[chain'[n]] # "waiting" <=> n <= k
  <2> SUFFICES ASSUME NEW n \in 1 .. Len(chain) + 1
               PROVE  pc'[chain'[n]] # "waiting" <=> n <= k
    BY <1>7
  <2>1. CASE n \in 1 .. Len(chain)
    BY <1>3, <1>6, <1>7, <2>1 DEF BegunAre
  <2>2. CASE n = Len(chain) + 1
    BY <1>3, <1>7, <2>2
  <2> QED
    BY <1>7, <2>1, <2>2
<1>9. Begun = k
  BY <1>2, <1>6, BegunCount
<1>10. Begun' = k
  <2>1. {n \in 1 .. Len(chain') : pc'[chain'[n]] # "waiting"} = 1 .. k
    BY <1>7, <1>8
  <2>2. Cardinality(1 .. k) = k
    BY <1>7, FS_Interval
  <2> QED
    BY <2>1, <2>2 DEF Begun
<1>11. SubSeq(chain', k + 1, Len(chain')) = Append(SubSeq(chain, k + 1, Len(chain)), w)
  <2> DEFINE N == Len(chain)
             old == SubSeq(chain, k + 1, N)
             new == SubSeq(chain', k + 1, N + 1)
  <2>1. /\ old \in Seq(Works) /\ Len(old) = N - k
        /\ \A i \in 1 .. N - k : old[i] = chain[k + i]
    BY <1>7, SubSeqProperties
  <2>2. \A i \in k + 1 .. N + 1 : chain'[i] \in Works
    BY <1>7
  <2>3. /\ new \in Seq(Works) /\ Len(new) = N - k + 1
        /\ \A i \in 1 .. N - k + 1 : new[i] = chain'[k + i]
    BY <1>7, <2>2, SubSeqProperties
  <2> HIDE DEF old, new
  <2> DEFINE more == Append(old, w)
  <2>4. /\ more \in Seq(Works) /\ Len(more) = Len(old) + 1
        /\ \A i \in 1 .. Len(old) : more[i] = old[i]
        /\ more[Len(old) + 1] = w
    BY <2>1, AppendProperties
  <2> HIDE DEF more
  <2>5. ASSUME NEW i \in 1 .. N - k + 1
        PROVE  new[i] = more[i]
    <3>1. CASE i = N - k + 1
      <4>1. new[i] = chain'[N + 1] /\ more[i] = w
        BY <1>7, <2>1, <2>3, <2>4, <3>1
      <4> QED
        BY <1>7, <4>1
    <3>2. CASE i # N - k + 1
      <4>1. i \in 1 .. N - k /\ k + i \in 1 .. N
        BY <1>7, <3>2
      <4>2. new[i] = chain'[k + i] /\ more[i] = old[i] /\ old[i] = chain[k + i]
        BY <2>1, <2>3, <2>4, <4>1
      <4> QED
        BY <1>7, <4>1, <4>2
    <3> QED
      BY <3>1, <3>2
  <2>6. Len(new) = N - k + 1 /\ Len(new) = Len(more)
    BY <1>7, <2>1, <2>3, <2>4
  <2>7. new = more
    BY <2>3, <2>4, <2>5, <2>6, SeqEqual
  <2> QED
    BY <1>7, <2>7 DEF old, new, more
<1>12. Queue' = Append(Queue, w)
  BY <1>9, <1>10, <1>11 DEF Queue
<1> QED
  BY <1>4, <1>5, <1>12 DEF Abstract!Submit, Submitted, Queue

LEMMA StartBegins ==
    ASSUME GateInv, GateInv', NEW w \in Works, Start(w)
    PROVE  Abstract!Begin(w)
<1>1. /\ pc[w] = "waiting" /\ pc' = [pc EXCEPT ![w] = "running"]
      /\ UNCHANGED <<token, chain>>
  BY DEF Start
<1>2. /\ TypeOK /\ chain \in Seq(Works) /\ ChainOfTokens /\ OneByOne
      /\ token[w] = w
  BY <1>1 DEF GateInv, TypeOK, TokenOf
<1>3. /\ \A v \in Works \ {w} : pc'[v] = pc[v]
      /\ pc'[w] = "running"
  BY <1>1, <1>2 DEF TypeOK
<1>4. Len(chain) \in Nat /\ \A n \in 1 .. Len(chain) : chain[n] \in Works
  BY <1>2, LenProperties, ElementOfSeq
<1>5. PICK k : BegunAre(k)
  BY BegunFirst
<1>6. PICK p \in 1 .. Len(chain) : chain[p] = w
  BY <1>2 DEF ChainOfTokens
<1>7. ASSUME NEW n \in 1 .. Len(chain), n < p
      PROVE  pc[chain[n]] = "done"
  <2>1. pc'[chain[n]] = "done"
    <3>1. \A i, j \in 1 .. Len(chain) :
             i < j /\ pc'[chain[j]] \in {"running", "settled", "done"} => pc'[chain[i]] = "done"
      BY <1>1 DEF GateInv, OneByOne, Started
    <3> QED
      BY <1>3, <1>6, <1>7, <3>1
  <2> QED
    BY <1>3, <1>4, <2>1
<1>8. p = k + 1
  <2>1. k < p
    BY <1>1, <1>4, <1>5, <1>6 DEF BegunAre
  <2>2. CASE k + 1 < p
    <3>1. k + 1 \in 1 .. Len(chain)
      BY <1>4, <1>5, <2>2 DEF BegunAre
    <3>2. pc[chain[k + 1]] = "done"
      BY <1>7, <2>2, <3>1
    <3> QED
      BY <1>4, <1>5, <3>1, <3>2 DEF BegunAre
  <2> QED
    BY <1>4, <1>5, <2>1, <2>2 DEF BegunAre
<1>9. k \in 0 .. Len(chain) /\ k + 1 \in 1 .. Len(chain)
  BY <1>5, <1>6, <1>8 DEF BegunAre
<1>10. Begun = k
  BY <1>2, <1>5, BegunCount
<1>11. \A n \in 1 .. Len(chain) : pc'[chain[n]] # "waiting" <=> n <= k + 1
  <2> SUFFICES ASSUME NEW n \in 1 .. Len(chain)
               PROVE  pc'[chain[n]] # "waiting" <=> n <= k + 1
    OBVIOUS
  <2>1. CASE n = p
    BY <1>3, <1>6, <1>8, <1>9, <2>1
  <2>2. CASE n # p
    <3>1. chain[n] # w /\ chain[n] \in Works
      BY <1>2, <1>4, <1>6, <2>2 DEF ChainOfTokens
    <3> QED
      BY <1>3, <1>5, <1>8, <1>9, <2>2, <3>1 DEF BegunAre
  <2> QED
    BY <2>1, <2>2
<1>12. Begun' = k + 1
  <2>1. {n \in 1 .. Len(chain) : pc'[chain[n]] # "waiting"} = 1 .. k + 1
    BY <1>4, <1>9, <1>11
  <2>2. Cardinality(1 .. k + 1) = k + 1
    BY <1>9, FS_Interval
  <2> QED
    BY <1>1, <2>1, <2>2 DEF Begun
<1>13. Holders = {}
  <2> SUFFICES ASSUME NEW h \in Works, token[h] = h, pc[h] \in {"running", "settled"}
               PROVE  FALSE
    BY DEF Holders
  <2>1. PICK n \in 1 .. Len(chain) : chain[n] = h
    BY <1>2 DEF ChainOfTokens
  <2>2. pc[chain[n]] # "waiting" /\ pc[chain[n]] # "done"
    BY <2>1
  <2>3. n <= k
    BY <1>5, <2>2 DEF BegunAre
  <2> QED
    BY <1>7, <1>8, <1>9, <2>2, <2>3
<1>14. Holders' = {w}
  BY <1>1, <1>2, <1>3, <1>13 DEF Holders
<1>15. Submitted' = Submitted
  BY <1>1 DEF Submitted
<1> DEFINE N == Len(chain)
           old == SubSeq(chain, k + 1, N)
<1>16. /\ Head(old) = chain[k + 1] /\ Tail(old) = SubSeq(chain, k + 1 + 1, N)
  BY <1>2, <1>4, <1>9, HeadTailOfSubSeq
<1>17. old # <<>>
  <2>1. Len(old) = N - (k + 1) + 1
    BY <1>4, <1>9, SubSeqProperties
  <2> HIDE DEF old
  <2> QED
    BY <1>4, <1>9, <2>1
<1>18. Queue = old /\ Queue' = Tail(old) /\ Head(old) = w
  BY <1>1, <1>6, <1>8, <1>10, <1>12, <1>16 DEF Queue
<1> HIDE DEF old
<1> QED
  BY <1>13, <1>14, <1>15, <1>17, <1>18 DEF Abstract!Begin, Submitted, Queue

LEMMA ReleaseEnds ==
    ASSUME GateInv, NEW w \in Works, Release(w)
    PROVE  Abstract!End(w)
<1>1. /\ pc[w] = "settled" /\ pc' = [pc EXCEPT ![w] = "done"]
      /\ UNCHANGED <<token, chain>>
  BY DEF Release
<1>2. TypeOK /\ token[w] = w
  BY <1>1 DEF GateInv, TokenOf
<1>3. /\ \A v \in Works \ {w} : pc'[v] = pc[v]
      /\ pc'[w] = "done"
  BY <1>1, <1>2 DEF TypeOK
<1>4. w \in Holders /\ Holders' = Holders \ {w}
  BY <1>1, <1>2, <1>3 DEF Holders
<1>5. Queue' = Queue
  BY <1>1, <1>3, SameQueue
<1>6. Submitted' = Submitted
  BY <1>1 DEF Submitted
<1> QED
  BY <1>4, <1>5, <1>6 DEF Abstract!End, Submitted, Queue

\* The turns change with no other step.
LEMMA InsideTurn ==
    ASSUME GateInv, NEW w \in Works,
           Enter(w) \/ EnterQuery(w) \/ Statement(w) \/ Return(w) \/ Throw(w)
    PROVE  UNCHANGED Abstract!vars
<1> SUFFICES Submitted' = Submitted /\ Queue' = Queue /\ Holders' = Holders
  BY DEF Abstract!vars, Submitted, Queue
<1>1. TypeOK /\ TokenOf(w)
  BY DEF GateInv
<1>2. CASE Enter(w) \/ EnterQuery(w)
  <2> DEFINE t == Context(w)
             new == IF w \in Legs THEN "done" ELSE "running"
  <2>1. /\ pc[w] = "idle" /\ t \in active /\ UNCHANGED chain
        /\ pc' = [pc EXCEPT ![w] = new] /\ token' = [token EXCEPT ![w] = t]
    BY <1>2 DEF Enter, EnterQuery, Enters, Reached
  <2> HIDE DEF t, new
  <2>2. t \in Works /\ t # w /\ token[w] = NoWork
    BY <1>1, <2>1, GateConstantsOK DEF GateInv, TokensActive, TokenOf
  <2>3. /\ \A v \in Works \ {w} : pc'[v] = pc[v] /\ token'[v] = token[v]
        /\ token'[w] = t
    BY <1>1, <2>1 DEF TypeOK
  <2>4. token[w] # w
    BY <2>2, GateConstantsOK
  <2> QED
    BY <2>1, <2>2, <2>3, <2>4, SameQueue DEF Submitted, Holders
<1>3. CASE Statement(w)
  BY <1>3 DEF Statement, Submitted, Holders, Queue, Begun
<1>4. CASE Return(w) \/ Throw(w)
  <2>1. /\ pc[w] = "running" /\ UNCHANGED <<token, chain>>
        /\ pc' = [pc EXCEPT ![w] = IF token[w] = w THEN "settled" ELSE "done"]
    BY <1>4 DEF Return, Throw, Settle
  <2>2. /\ \A v \in Works \ {w} : pc'[v] = pc[v]
        /\ pc'[w] = IF token[w] = w THEN "settled" ELSE "done"
    BY <1>1, <2>1 DEF TypeOK
  <2>3. Queue' = Queue
    BY <2>1, <2>2, SameQueue
  <2>4. Holders' = Holders
    BY <2>1, <2>2 DEF Holders
  <2> QED
    BY <2>1, <2>3, <2>4 DEF Submitted
<1> QED
  BY <1>2, <1>3, <1>4

\* The gate serves in turn: who asked first is served first, one at a time, and
\* no turn begins before the one before it has ended, however calls nest, throw
\* or come late.  SqliteGate implements SerialExecutor but for its fairness.
THEOREM GateServesInTurn == Spec => Abstract!Safety
<1>1. Init => Abstract!Init
  <2> SUFFICES ASSUME Init PROVE Abstract!Init
    OBVIOUS
  <2>1. /\ chain = <<>> /\ Len(chain) = 0
        /\ \A w \in Works : token[w] = NoWork
    BY DEF Init
  <2>2. Submitted = {} /\ Holders = {}
    BY <2>1, GateConstantsOK DEF Submitted, Holders
  <2>3. Begun = 0
    <3>1. {n \in 1 .. Len(chain) : pc[chain[n]] # "waiting"} = {}
      BY <2>1
    <3> QED
      BY <3>1, FS_EmptySet DEF Begun
  <2>4. Queue = <<>>
    BY <2>1, <2>3, SubSeqEmpty DEF Queue
  <2> QED
    BY <2>2, <2>4 DEF Abstract!Init, Submitted, Queue
<1>2. GateInv /\ GateInv' /\ [Next]_vars => [Abstract!Next]_(Abstract!vars)
  <2> SUFFICES ASSUME GateInv, GateInv', [Next]_vars
               PROVE  [Abstract!Next]_(Abstract!vars)
    OBVIOUS
  <2>1. CASE UNCHANGED vars
    BY <2>1 DEF vars, Abstract!vars, Holders, Begun
  <2>2. ASSUME NEW w \in Works, Call(w) \/ Run(w)
        PROVE  [Abstract!Next]_(Abstract!vars)
    BY <2>2, EnqueueSubmits, StartBegins, ReleaseEnds, InsideTurn
    DEF Call, Run, Abstract!Next
  <2> QED
    BY <2>1, <2>2 DEF Next
<1> QED
  BY <1>1, <1>2, GateInvHolds, PTL DEF Spec, Abstract!Safety

=============================================================================
