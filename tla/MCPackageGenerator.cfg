SPECIFICATION Spec
CONSTANTS
    Sources = {1, 2, 3, 4}
    Consistent = {1, 2, 3}
    Contracts = {1, 2, 3}
    Contract <- MCContract
    Data = {11, 13, 14}
    Datum <- MCDatum
    Pin <- MCPin
    Specs = {s1, s2}
    Missing = Missing
    Torn = Torn
    None = None
INVARIANTS
    TypeOK
    AcceptedIsOneGeneration
    CompletedWriteIsAccepted
    UpToDateSurvivesCrash
    CheckedIsVerified
