\* The SQLite deployment: one transaction at a time.
CONSTANTS
    trader = trader
    referrer = referrer
    usd = usd
    btc = btc
    NoUser = NoUser
    Users <- MCUsers
    Symbols <- MCSymbols
    Fiat = usd
    Referrer <- MCReferrer
    Opening <- MCOpening
    Rates <- MCRates
    Amounts <- MCAmounts
    Payouts <- MCPayouts
    Adjustments <- MCAdjustments
    Fee = 2
    BonusPercent = 50
    Handlers = {h1, h2}
    Gated = TRUE
    MaxRows = 2
SPECIFICATION Spec
INVARIANTS
    TypeOK
    BalancesMatchRows
    BonusesMatchReferrals
    PaymentsMatchSubscriptions
PROPERTIES
    SettledIsFinal
    HandlersAreAtomic
\* The bound on rows stops every request in the end.
CHECK_DEADLOCK FALSE
