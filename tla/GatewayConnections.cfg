SPECIFICATION FairSpec
CONSTANTS
    u1 = u1
    d1 = d1
    None = None
    Uid = {u1}
    Name = {n1}
    Addr = {a1, a2}
    Session = {s1}
    Conn = {c1, c2}
    Domain = {d1}
    Port = {0, 443}
    Publishes <- PublishesNothing
PROPERTIES
    OnlyUnansweredLeak
    DisconnectNoticed
