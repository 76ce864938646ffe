\* A child that writes up to two bytes to each of its pipes, one of them open.
CONSTANTS
    Capacity = 2
    InputSizes = {0, 1}
    MaxOutput = 2
    MaxCalls = 2
SPECIFICATION Spec
INVARIANT
    OutputIsWhole
CHECK_DEADLOCK FALSE
