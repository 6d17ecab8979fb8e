-------------------------- MODULE MCTradeLifecycle --------------------------
(* Small instances of TradeLifecycle for TLC.                              *)
EXTENDS TradeLifecycle

\* A fixed cycle of three daily periods, which may be ended after the first,
\* and a trade without a fixed cycle.
MCPlans == {[payFrequency |-> 1, term |-> 3, minTerm |-> 1],
            [payFrequency |-> 2, term |-> Never, minTerm |-> 0]}

\* One fixed cycle of two periods.
MCShortPlan == {[payFrequency |-> 1, term |-> 2, minTerm |-> 0]}

\* The DTO accepts a signed number.
MCManualAmounts == {-5}

=============================================================================
