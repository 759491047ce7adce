----------------------------- MODULE MCDispatch -----------------------------
(* Steps of a few units; one of each two may be a child workflow. *)
EXTENDS ChildRun, TLC
CONSTANTS e1, e2, r1, r2
TwoEngines == {e1, e2}
OneResumer == {r1}
TwoResumers == {r1, r2}
MCUnit == Steps \X Item
TwoPlain == {<<1, 2>>, <<2, 1>>}
FirstStep == {1}
NoStepAtAll == {}
EngineSymmetry == Permutations(Engine)
=============================================================================
