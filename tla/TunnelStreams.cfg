SPECIFICATION TunnelSpec

CONSTANTS
    Cap = 1
    Asks = 1
    Answers = 2

INVARIANT OnlyItsOwnPort
INVARIANT WholeWhenHeard
INVARIANT EndsForAReason
PROPERTY EverybodyHangsUp
PROPERTY HandshakeEnds

\* Once everybody has hung up, nothing is left to do.
CHECK_DEADLOCK FALSE
