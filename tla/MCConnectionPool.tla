-------------------------- MODULE MCConnectionPool --------------------------
(* A trader with two wallets and a trade, and the user who referred them.  *)
EXTENDS ConnectionPool

CONSTANTS trader, referrer, usd, btc

MCUsers    == {trader, referrer}
MCReferrer == [u \in MCUsers |-> IF u = trader THEN referrer ELSE NoUser]
MCSymbols  == {usd, btc}
MCHoldings == {<<trader, usd>>, <<trader, btc>>, <<referrer, usd>>}
MCTrades   == {<<trader, btc>>}

=============================================================================
