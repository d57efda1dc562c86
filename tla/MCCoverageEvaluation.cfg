SPECIFICATION Spec
CONSTANTS
    Segments = {"a", "b", "c"}
    Malformed = Malformed
    Null = Null
    Absent = Absent
    Bad = Bad
    Leaves = {0, 1, Bad}
    Uncomparable = {Bad}
    Inherited = Inherited
    InheritedPaths = {}
    MaxDeclarations = 2
    CoverageInputs <- MCProfileInputs
    WalkOrder <- MCWalkOrder
    Artifacts <- MCArtifacts
    Normalize <- MCNormalize
INVARIANTS
    TypeOK
    SurvivingDifferenceIsDeclared
    VerdictFollowsResolution
    ResolutionIsUnique
CHECK_DEADLOCK FALSE
