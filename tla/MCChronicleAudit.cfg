SPECIFICATION Spec
CONSTANTS
    Auditors = {a1, a2}
    MaxStored = 2
    Schemas <- MCSchemas
    CheckpointSchema = "v0"
    Labels <- MCLabels
    EntryLists <- MCEntryLists
    Sequences = {0, 1, 2}
    ExactLimit = 2
    Roots <- MCRoots
    Null <- Nothing
    Nothing = Nothing
    Digest <- MCDigest
    Preimage <- MCPreimage
INVARIANT TypeOK
INVARIANT SameHistory
INVARIANT HistoryIsComplete
INVARIANT AcceptedWasCreatable
PROPERTY ImplementsHistory
SYMMETRY Permuted
