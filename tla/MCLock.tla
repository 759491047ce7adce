------------------------------- MODULE MCLock -------------------------------
(* FileLock with a few PIDs and enough tokens to tell sentinels apart.      *)
EXTENDS FileLock, TLC
CONSTANTS p1, p2, p3, t1, t2, t3, t4, t5, t6, t7, t8
ThreeProcesses == {p1, p2, p3}
TwoProcesses == {p1, p2}
NobodyBlind == {}
OneBlind == {p3}
EightTokens == {t1, t2, t3, t4, t5, t6, t7, t8}
FiveTokens == {t1, t2, t3, t4, t5}
=============================================================================
