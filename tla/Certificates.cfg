SPECIFICATION FairCertSpec
CONSTANTS
    u1 = u1
    n1 = n1
    n2 = n2
    Agent <- TwoAgents
    Domain = {d1}
    MaxQueue = 1
    MaxCrashes = 1
INVARIANTS
    CertTypeOK
    StoreConsistent
PROPERTIES
    OrdersPaced
    DomainsServed
    RenewedInTime
