CONSTANTS
    w1 = w1
    w2 = w2
    k1 = k1
    k2 = k2
    p1 = p1
    p2 = p2
    h1 = h1
    l1 = l1
    l2 = l2
    l3 = l3
    None = None
    Workers <- TwoWorkers
    Keys <- TwoKeys
    Payloads <- TwoPayloads
    Holds <- OneHold
    LeaseIds <- ThreeLeases
    MAX_ATTEMPTS = 3
SPECIFICATION Spec
SYMMETRY Symmetry
INVARIANTS TypeOK JobsConsistent HeldRunReruns ClaimIsCurrent
PROPERTIES HoldsKept PlacesKept ImplementsTriggers
CONSTRAINT SecondWaits
