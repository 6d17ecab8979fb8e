\* Two requests and the pings on two connections.
CONSTANTS
    trader = trader
    referrer = referrer
    usd = usd
    btc = btc
    NoUser = NoUser
    Nobody = Nobody
    Ping = Ping
    Beside = Beside
    Users <- MCUsers
    Referrer <- MCReferrer
    Symbols <- MCSymbols
    Holdings <- MCHoldings
    Trades <- MCTrades
    Fiat = usd
    Requests = {r1, r2}
    Connections = {c1, c2}
    Pings = 2
SPECIFICATION Spec
INVARIANTS
    TypeOK
    StuckForTwoReasons
PROPERTIES
    EveryRequestEnds
