SPECIFICATION RuntimeSpec
CONSTANTS
    Processes = {p1, p2, p3}
    Starts = {"absent", "broken"}
SYMMETRY Same
CHECK_DEADLOCK FALSE
INVARIANT ParallelRunsGetAlong
PROPERTIES RunsVerified ReleaseStays
