\* Two thresholds, a memory limit and none, estimates that fit gc_est and do not,
\* addresses that are tracked again after a sweep; four entries give the
\* partition every pattern of live and garbage with one swap and the two
\* ends of its inner loop.
SPECIFICATION Spec
CONSTANTS
    Object = {o1, o2, o3, o4}
    Est = {1, 3}
    EstMax = 2
    Threshold = {1, 2}
    Limit = {0, 3}
    MaxAllocated = 4
SYMMETRY Symmetry
INVARIANTS
    IndexIsPlace
    Partition
    UsageCoversRegistry
PROPERTIES
    SweepKeepsMarked
    AskedAfterThreshold
