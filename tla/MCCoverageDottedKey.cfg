SPECIFICATION Spec
CONSTANTS
    Segments = {"a", "b", "c"}
    Malformed = Malformed
    Null = Null
    Absent = Absent
    Bad = Bad
    Leaves = {0, 1, Bad}
    Uncomparable = {Bad}
    Inherited = Inherited
    InheritedPaths = {}
    MaxDeclarations = 0
    CoverageInputs <- MCProfileInputs
    WalkOrder <- MCDottedKey
    Artifacts <- MCArtifacts
    Normalize <- MCNormalize
INVARIANT UndeclaredMeansIdentical
CHECK_DEADLOCK FALSE
