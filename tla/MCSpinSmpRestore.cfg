CONSTANTS
    Cpus = {c1, c2}
    Handlers = FALSE
SPECIFICATION Spec
PROPERTIES
    InterruptsComeBack
