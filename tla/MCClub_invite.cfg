SPECIFICATION Spec
CONSTANTS
    a = a
    b = b
    t = t
    House = house
    Members = {a, b}
    Tables = {t}
    Calls = {c1, c2}
    Requests <- MCRequests
    Confs <- InviteConfs
    Opening = 3
    Reserve = 1
    Staked0 = 2
    RakeBps = 5000
    MaxCrashes = 1
    MaxTicks = 2
CHECK_DEADLOCK FALSE
SYMMETRY Slots
PROPERTY EntriesKept
