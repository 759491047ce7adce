------------------------------ MODULE MCEngine ------------------------------
(* WorkflowEngine on plans of one or two steps, two engines, one resumer.   *)
EXTENDS WorkflowEngine, TLC
CONSTANTS e1, e2, r1
MCEngine2 == {e1, e2}
MCResumer == {r1}
NoResumer == {}
MCUnit == JournalKeys
MCOutcome == WorkOutcome \cup {"accept", "reject"}
NoSteps == {}
FirstStep == {1}
SecondStep == {2}
EngineSymmetry == Permutations(Engine)
=============================================================================
