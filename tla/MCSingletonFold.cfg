SPECIFICATION Spec
CONSTANTS
    Contents <- MCContents
    Refs <- MCRefs
    Null <- Nothing
    Nothing = Nothing
    Junk = Junk
    name = name
    Malformed = Malformed
    Pending = Pending
    Threw = Threw
    Inputs <- MCInputs
    Digest <- MCDigest
INVARIANT TypeOK
INVARIANT AcceptsExactlyTheDerived
INVARIANT AgreesWithAdmission
PROPERTY ImplementsFirstFailure
CHECK_DEADLOCK FALSE
