CONSTANTS
    a = a
    b = b
    t1 = t1
    t2 = t2
    Base = Base
    Edit = Edit
    None = None
    Proposal <- OneProposal
    Txn <- TwoTxns
    Exposed <- Nobody
    MaxCrashes = 2
    MaxEdits = 0
SPECIFICATION ProposalSpec
PROPERTY RollbackRepeats
