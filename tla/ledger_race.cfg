\* PostgreSQL at READ COMMITTED: transactions overlap.
CONSTANTS
    trader = trader
    referrer = referrer
    usd = usd
    btc = btc
    NoUser = NoUser
    Users <- MCUsers
    Symbols <- MCSymbols
    Fiat = usd
    Referrer <- MCReferrer
    Opening <- MCOpening
    Rates <- MCRates
    Amounts <- MCAmounts
    Payouts <- MCPayouts
    Adjustments <- MCAdjustments
    Fee = 2
    BonusPercent = 50
    Handlers = {h1, h2}
    Gated = FALSE
    MaxRows = 2
SPECIFICATION Spec
PROPERTIES
    SettledIsFinal
\* The bound on rows stops every request in the end.
CHECK_DEADLOCK FALSE
