SPECIFICATION LiveSpec
CONSTANTS
    Seats = {s1, s2}
    Confs <- LiveConfs
    MaxCmds = 2
    MaxHands = 2
    MaxRestarts = 0
    MaxLost = 1
PROPERTIES
    EveryCommandAnswered
    AutopilotDeals
