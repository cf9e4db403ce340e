CONSTANTS
    Cpus = {c1, c2}
    Handlers = TRUE
SPECIFICATION Spec
INVARIANTS
    NoSelfDeadlock
PROPERTIES
    LockIsTaken
