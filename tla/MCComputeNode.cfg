SPECIFICATION FairSpec
CONSTANTS
    m1 = m1
    s1 = s1
    r1 = r1
    stats = stats
    mask = mask
    builtin = builtin
    custom = custom
    low = low
    high = high
    bright = bright
    empty = empty
    ModelID = {m1}
    SceneID = {s1}
    RequestID = {r1}
    Kind = {stats, mask}
    Factory = {builtin, custom}
    Params = {low, high}
    Refused <- MCRefused
    Scene = {bright, empty}
    Unusable = {empty}
    Goroutine = {g1, g2}
    Calls <- MCCalls
    Launch <- MCLaunch
PROPERTIES
    Linearizable
    CallsReturn
