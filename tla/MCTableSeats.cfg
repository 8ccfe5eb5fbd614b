SPECIFICATION Spec
CONSTANTS
    Conns = {c1, c2, c3}
    NumSeats = 2
    Ids = {"h", "a", "b"}
    Keys = {"kh", "ka", "kb"}
    Hellos <- MCHellos
    Host <- MCHost
    Holders <- MCHolders
    MaxDevices = 2
    Confs <- MCConfs
    MaxSeq = 1
    MaxRestarts = 1
SYMMETRY Devices
INVARIANTS
    DevicesConsistent
PROPERTIES
    AdmittedProvesKey
    BoundSeatKept
    ReservedForHolder
