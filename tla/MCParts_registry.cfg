INIT PartsInit
NEXT PartsNext
CONSTANTS
    Parts = {"dealers"}
    OfcConfs <- MCOfcConfs
    Showdowns <- MCShowdowns
    Points = 4
    HomePoints = 2
    DieFaces = 2
    MaxCube = 4
    Placing <- MCPlacing
    BgConfs <- MCBgConfs
    d1 = d1
    d2 = d2
    d3 = d3
    g1 = g1
    Devices <- MCDevices
    NoDevice = nodevice
    SyncConfs <- MCSyncConfs
    Guests <- MCGuests
    Keeper = keeper
    MailConfs <- MCMailConfs
    Owners <- MCOwners
    First = d1
    Nowhere = nowhere
    TakenRetries = 1
    ReopenConfs <- MCReopenConfs
    t1 = t1
    t2 = t2
    TableIds <- MCTableIds
    Slots = {1, 2}
    DealerConfs <- OverlapConfs
    r1 = r1
    r2 = r2
    k1 = k1
    k2 = k2
    Roots <- MCRoots
    Paired <- MCPaired
    NoRoot = noroot
    Publishers = {1, 2}
    GrantConfs <- MCGrantConfs
    Doors = {1, 2, 3}
    Visitors <- MCVisitors
    Founder <- MCFounder
    Invites = {"invite"}
    Certificates = {"certificate"}
    ChipRequests = {"request"}
    NoVisitor = novisitor
    NoInvite = noinvite
    NoMember = nomember
    NoBook = nobook
    DoorConfs <- MCDoorConfs
CHECK_DEADLOCK FALSE
INVARIANT TablesComeBack
