SPECIFICATION Spec
CONSTANTS
    Seats = {s1, s2}
    Confs <- ResumeConfs
    MaxCmds = 3
    MaxHands = 1
    MaxRestarts = 1
    MaxLost = 1
INVARIANT FreshState
