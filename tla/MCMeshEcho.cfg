SPECIFICATION FairSpec
CONSTANTS
    g = g
    h = h
    s = s
    t = t
    x = x
    svc = svc
    data = data
    Node <- MCNode
    Service = {svc}
    Payload = {data}
    TicksPerMs = 1
    TicksPerSecond = 1
    MaxDuration = 1000
    Plan <- MCPlan
    Injections <- EchoInjections
    MaxInjections = 3
    MaxRuns = 1
    MaxEvents = 10
    HandlerNodes = {g, h}
    AppInit = 0
    Handle <- Echo
INVARIANTS
    OneCustodian
PROPERTIES
    TraceInOrder
    RunReturns
CHECK_DEADLOCK FALSE
