SPECIFICATION Spec
CONSTANTS
    Members = {m1, m2, m3}
    Nobody = nobody
    Templates = {"quick", "long"}
    Width = 2
    Crits <- MCCrits
    Confs <- MCConfs
SYMMETRY Regulars
CHECK_DEADLOCK FALSE
INVARIANTS
    OneAnswer
    NothingMissed
    TablesGetAlong
    SeatedOnce
    LedgerFree
