----------------------------- MODULE MCProposal -----------------------------
(* Two proposals on one asset, one of them within reach of the maintenance  *)
(* passes.                                                                  *)
EXTENDS ProposalTxn, TLC
CONSTANTS a, b, t1, t2
TwoProposals == {a, b}
OneProposal == {a}
OnlyB == {b}
Nobody == {}
TwoTxns == {t1, t2}
=============================================================================
