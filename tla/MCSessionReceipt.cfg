SPECIFICATION Spec
CONSTANTS
    Busy = Busy
    Other = Other
    None = None
    Sessions <- MCSessions
    Before <- MCBefore
    MaxChanges = 2
    Changes <- MCChanges
    FilesOf <- MCFilesOf
    EmptyDiffs <- MCEmptyDiffs
    QuotedNames <- MCQuotedNames
    Modes <- MCModes
    Trees <- MCTrees
    MaxForks = 2
    MaxDropped = 1
INVARIANTS
    TypeOK
    ReceiptFollowsRoute
    ReceiptHashesListedFiles
PROPERTIES
    QuestionIsSettled
    ImplementsLatestRequestWins
