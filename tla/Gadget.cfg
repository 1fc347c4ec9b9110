\* One thread that binds and unbinds, two requests that eject, every failure.
SPECIFICATION Spec
CONSTANTS
    Cutover = cutover
    Ejectors = {e1, e2}
    Tries = 2
INVARIANTS TypeOK MediumReadOnly Unobstructed
PROPERTY OneStepOperations
