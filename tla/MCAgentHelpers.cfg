CONSTANTS
    U32s <- MCU32s
    Durations <- MCDurations
SPECIFICATION Spec
INVARIANTS
    UnitTestVector
    HashMatchesEqOrd
    RoundsToMinuteStart
\* The helpers are pure functions: a call ends with no successor once its
\* result is computed.
CHECK_DEADLOCK FALSE
