SPECIFICATION Spec
CONSTANTS
    Seats = {s1, s2}
    Confs <- SeededConfs
    MaxCmds = 2
    MaxHands = 2
    MaxRestarts = 0
    MaxLost = 1
INVARIANT SeedHiddenDuringHand
