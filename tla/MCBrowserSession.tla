-------------------------- MODULE MCBrowserSession --------------------------
(* Two tabs: one page makes two data calls at once, the other one.         *)
EXTENDS BrowserSession

CONSTANTS t1, t2

Two       == {t1, t2}
TwoAndOne == [t \in Two |-> IF t = t1 THEN 2 ELSE 1]

=============================================================================
