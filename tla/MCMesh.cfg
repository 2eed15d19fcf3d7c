SPECIFICATION Spec
CONSTANTS
    g = g
    h = h
    s = s
    t = t
    x = x
    svc = svc
    data = data
    Node <- MCNode
    Service = {svc}
    Payload = {data}
    TicksPerMs = 1
    TicksPerSecond = 1
    MaxDuration = 1000
    Plan <- MCPlan
    Injections <- MCInjections
    MaxInjections = 3
    MaxRuns = 2
    MaxEvents = 40
    HandlerNodes = {}
    AppInit = 0
    Handle <- NoReply
INVARIANTS
    StoresHoldStranded
    NoHopLosesTime
    StrandedOnlyAtEntry
    PromiseKept
PROPERTIES
    ImplementsCustody
CHECK_DEADLOCK FALSE
