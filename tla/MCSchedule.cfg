SPECIFICATION Spec
CONSTANTS
  Mask = 6
  Start = 0
  Step = 4
  H = 1
  Looks = 3
  Fault = Fault
  Skies <- MCSkies
  Ends = {14, 16}
  Node <- MCNode
  TicksPerSecond = 1
  Stations <- MCStations
  Satellite = "sat"
  Rate = 2
  Light <- MCLight
  Unit = 3
  Epoch = 100
  Handwritten <- MCHandwritten
  NoName = ""
INVARIANTS WindowsAreThePasses PlanIsRight RouterSeesThePasses LoadsWhatItSays
CHECK_DEADLOCK FALSE
