\* The v1 schedules over the ten members, with the frozen worker script.
CONSTANTS
    Null = Null
    Members <- CanonicalMembers
    Mismatches = {"wrong"}
    Schedules <- FrozenSchedulesV1
    Subjects <- AllDefects
    Observe <- DefectObserve
    Scripts = {"frozen"}
    DistinctPids = FALSE
SPECIFICATION Spec
INVARIANTS DefectsAreDetected OrderDefectsAreDetectedByV0
