------------------------------ MODULE MCLedger ------------------------------
(* A trader, the user who referred them, two assets and two requests at    *)
(* once.                                                                   *)
EXTENDS Ledger

CONSTANTS trader, referrer, usd, btc

MCUsers    == {trader, referrer}
MCReferrer == [u \in MCUsers |-> IF u = trader THEN referrer ELSE NoUser]
MCSymbols  == {usd, btc}

\* The trader has two dollars and one unit of btc.
MCOpening  == [w \in MCUsers \X MCSymbols |->
                 CASE w = <<trader, usd>> -> 2
                   [] w = <<trader, btc>> -> 1
                   [] OTHER               -> 0]

\* btc trades at one of two prices, so a conversion rounds; at 4, two
\* dollars are half a unit.  A payout may be of less than nothing.
MCRates       == [s \in MCSymbols |-> IF s = usd THEN {1} ELSE {3, 4}]
MCAmounts     == {2}
MCPayouts     == {2, -2}
MCAdjustments == {1, -1}

=============================================================================
