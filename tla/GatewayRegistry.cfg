SPECIFICATION Spec
CONSTANTS
    u1 = u1
    d1 = d1
    None = None
    Uid = {u1}
    Name = {n1, n2}
    Addr = {a1, a2}
    Session = {s1}
    Conn = {c1, c2}
    Domain = {d1}
    Port = {0, 443}
    Publishes <- PublishesOfOne
SYMMETRY Symmetric
INVARIANTS
    TypeOK
    GhostsWereClosed
    ReclaimedUsers
    RoutableHosts
    CertsFollowRegistration
    BridgedToTarget
PROPERTIES
    RegistrationStable
    ForgottenOnlyWithLastAgent
CHECK_DEADLOCK FALSE
