------------------------------- MODULE MCSpine -------------------------------
(* WorkflowSpine on small plans, with two engines and one or two resumers.  *)
EXTENDS WorkflowSpine, TLC
CONSTANTS e1, e2, r1, r2
TwoEngines == {e1, e2}
OneResumer == {r1}
TwoResumers == {r1, r2}
=============================================================================
