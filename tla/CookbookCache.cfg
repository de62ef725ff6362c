SPECIFICATION Spec
CONSTANTS
    Procs = {p1, p2, p3}
    Files = {f1, f2}
    Dirs = {d1, d2, d3, d4}
    None = None
SYMMETRY Same
CHECK_DEADLOCK FALSE
INVARIANTS EarlierRunsDoNoHarm LateRunsDoNoHarm
