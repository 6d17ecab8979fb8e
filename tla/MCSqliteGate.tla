---------------------------- MODULE MCSqliteGate ----------------------------
(* completeInvestment as a transaction with a nested save and a            *)
(* Promise.all of two queries, and another transaction.                    *)
EXTENDS SqliteGate

CONSTANTS complete, save, readUser, readPlan, other

MCWorks == {complete, save, readUser, readPlan, other}
MCLegs  == {readUser, readPlan}

MCWithin ==
    [w \in MCWorks |-> IF w \in {save, readUser, readPlan} THEN complete ELSE NoWork]

MCStatements == [w \in MCWorks |-> IF w \in {complete, save, other} THEN 2 ELSE 1]

=============================================================================
