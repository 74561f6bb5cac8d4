CONSTANTS
    MaxLines = 3
    MaxEvents = 1
SPECIFICATION Spec
CONSTANTS SpuriousWakeup = TRUE
INVARIANT NeverFull
CHECK_DEADLOCK FALSE
