SPECIFICATION Spec

CONSTANTS
    MaxSeq = 4
    FrameUnits = 2
    MaxUnits = 9
    MaxFaults = 2

INVARIANT NonceOnce
INVARIANT InOrder
INVARIANT WholeWhenQuiet

\* The stream may end, or wait for an end that the transport lost.
CHECK_DEADLOCK FALSE
