SPECIFICATION Spec
CONSTANTS
    Seats = {s1, s2}
    Confs <- MCConfs
    MaxCmds = 2
    MaxHands = 2
    MaxRestarts = 1
    MaxLost = 1
SYMMETRY Players
INVARIANTS
    TypeOK
    FreshState
    DrawsVerifiable
    NoDrawReuse
    NoOrphanBinding
    AutopilotKeepsUp
PROPERTIES
    ServesInOrder
    SecretWhileDrawn
