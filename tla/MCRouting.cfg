SPECIFICATION RoutingSpec
CONSTANTS
    n1 = n1
    n2 = n2
    n3 = n3
    n4 = n4
    svc = svc
    data = data
    Node <- MCNode
    TicksPerSecond = 1
    MaxContacts = 5
    Queries <- MCQueries
    Service = {svc}
    Payload = {data}
    TicksPerMs = 1
    MaxDuration = 8
    Self = n1
    Bundles <- MCBundles
    Instants = {1, 3, 4}
INVARIANTS
    SearchInv
    NeverBeaten
    StoreInv
PROPERTIES
    ImplementsOracle
    SettledIsFinal
    Returns
    NoReturn
    KeepsOrder
