SPECIFICATION ShareSpec

CONSTANTS
    MaxShift = 1
    Requests = {q1, q2}
    MaxTunnels = 1

INVARIANT ShareInv
INVARIANT PeerInv
PROPERTY NothingOutlivesRun
PROPERTY ComesBack
PROPERTY KillIsFinal
PROPERTY KeepsItsCalls

\* Serve returns, and then nothing is left to do.
CHECK_DEADLOCK FALSE
