---------------------------- MODULE TradeEscrow -----------------------------
(* What investments.service.ts promises the owner of a trade: the principal *)
(* leaves the wallet once, the profit changes while the trade is open, and  *)
(* principal and profit come back once, together, when it closes for good.  *)
EXTENDS Integers

CONSTANTS
    Trades,         \* ids of trades
    Users,          \* their owners
    Principals,     \* amounts a user asks to invest
    InitialBalance  \* what every purse holds at first

VARIABLES
    purse, \* money of each user outside of trades
    deal   \* the trades that were ever opened

vars == <<purse, deal>>

Init ==
    /\ purse = [u \in Users |-> InitialBalance]
    /\ deal = [i \in {} |-> 0]

Open(u, i, principal) ==
    /\ i \notin DOMAIN deal
    /\ purse[u] >= principal
    /\ purse' = [purse EXCEPT ![u] = @ - principal]
    /\ deal' = [j \in DOMAIN deal \cup {i} |->
         IF j = i
         THEN [state |-> "open", owner |-> u, principal |-> principal, profit |-> 0]
         ELSE deal[j]]

\* Rates are drawn and manual accruals have a sign: profit moves either way.
Earn(i, profit) ==
    /\ deal[i].state = "open"
    /\ deal' = [deal EXCEPT ![i].profit = profit]
    /\ UNCHANGED purse

Close(i, profit) ==
    /\ deal[i].state = "open"
    /\ deal' = [deal EXCEPT ![i].state = "closed", ![i].profit = profit]
    /\ purse' = [purse EXCEPT ![deal[i].owner] = @ + deal[i].principal + profit]

Next ==
    \/ \E u \in Users, i \in Trades, principal \in Principals : Open(u, i, principal)
    \/ \E i \in DOMAIN deal :
         LET profit == deal'[i].profit IN
         profit \in Int /\ (Earn(i, profit) \/ Close(i, profit))

Spec == Init /\ [][Next]_vars

=============================================================================
