SPECIFICATION BridgeSpec
CONSTANTS
    g = g
    h = h
    s = s
    svc = svc
    m1 = m1
    s1 = s1
    r1 = r1
    r2 = r2
    stats = stats
    mask = mask
    builtin = builtin
    low = low
    high = high
    bright = bright
    Node <- MCNode
    Service = {svc}
    Payload <- Message
    TicksPerMs = 1
    TicksPerSecond = 1
    MaxDuration = 1000
    Plan <- MCPlan
    Injections <- MCInjections
    MaxInjections = 3
    MaxRuns = 1
    MaxEvents = 40
    HandlerNodes = {s}
    AppInit <- Aboard
    Handle <- Respond
    ModelID = {m1}
    SceneID = {s1}
    RequestID = {r1, r2}
    Kind = {stats, mask}
    Factory = {builtin}
    Params = {low, high}
    Refused = {}
    Scene = {bright}
    Unusable = {}
    Clients <- Together
    Tasks <- MCTasks
    ReplyLifetime = 20
    DefaultLifetime = 30
    Hour = 20
    WallClock = 50
    SizeOf <- MCSizeOf
    Launch <- MCLaunch
INVARIANTS
    AnsweredOnce
    AnswersAreCurrent
    IDsIdentify
CHECK_DEADLOCK FALSE
