\* Every interleaving of coordinator, worker and timer, on three orders.
CONSTANTS
    Null = Null
    Members <- SmallMembers
    Mismatches = {"wrong"}
    Schedules <- SmallSchedules
    Subjects <- AllDefects
    Observe <- DefectObserve
    Scripts = {"frozen", "silent", "noisy", "misrouted", "deaf"}
    DistinctPids = TRUE
SPECIFICATION FairSpec
INVARIANTS TypeOK NoOrphan
PROPERTIES ImplementsCampaign TimeoutIsFinal EventuallySettles
