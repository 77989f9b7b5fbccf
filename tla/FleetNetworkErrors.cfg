SPECIFICATION FleetSpec
CONSTANTS
    u1 = u1
    n1 = n1
    None = None
    Uid = {u1}
    Name = {n1}
    Addr = {a1, a2, a3}
    Session = {}
    Conn = {}
    Domain = {}
    Port = {0}
    Publishes <- PublishesNothing
    Proc = {p1}
    Config <- SameName
    MaxFaults = 1
INVARIANTS
    RetriesOnNetworkErrors
CHECK_DEADLOCK FALSE
