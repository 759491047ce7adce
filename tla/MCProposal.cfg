CONSTANTS
    a = a
    b = b
    t1 = t1
    t2 = t2
    Base = Base
    Edit = Edit
    None = None
    Proposal <- TwoProposals
    Txn <- TwoTxns
    Exposed <- OnlyB
    MaxCrashes = 2
    MaxEdits = 1
SPECIFICATION FairProposalSpec
INVARIANTS ProposalTypeOK AllOrNothing SavedIsKept DecisionHasEvent OneIrreversible
PROPERTIES DecisionIsFinal InterruptedFinishesUnlessStuck
