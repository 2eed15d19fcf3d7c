SPECIFICATION TrackSpec
CONSTANTS
  Turn = 12
  MaxAzimuthRate = 1
  MaxElevationRate = 1
  MinElevation = 0
  MaxElevation = 3
  Ticks = {1, 2}
  AzimuthInputs <- MCAzimuths
  ElevationInputs <- MCElevations
  Parkings <- MCParkings
  NaN = NaN
  Passes <- MCPasses
  NoLook = NoLook
  Aos = 0
  Ends = {4, 5}
  Dt = 2
  Leads = {0, 1, 2}
  AcquireTicks = 3
  Tolerance = 50000000
  Cosine <- MCCosine
INVARIANTS ReportIsHonest FollowsThePass SteersToLastAccepted
PROPERTIES MeetsContract RunsEnd
