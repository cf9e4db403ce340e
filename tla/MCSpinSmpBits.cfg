CONSTANTS
    Cpus = {c1, c2}
    Handlers = FALSE
SPECIFICATION Spec
INVARIANTS
    MutualExclusion
