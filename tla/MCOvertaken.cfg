CONSTANTS
    a = a
    b = b
    t1 = t1
    t2 = t2
    Base = Base
    Edit = Edit
    None = None
    Proposal <- OneProposal
    Txn <- TwoTxns
    Exposed <- OneProposal
    MaxCrashes = 0
    MaxEdits = 0
SPECIFICATION ProposalSpec
PROPERTY PersistNeverRefused
