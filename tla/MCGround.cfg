SPECIFICATION GroundSpec
CONSTANTS
  ElementSets <- MCElementSets
  Glyphs <- MCGlyphs
  Dates <- MCDates
  Drafts <- MCDrafts
  Specs <- MCSpecs
  ApidSpan = 3
  CountSpan = 3
  LengthSpan = 4
  Lengths = {0, 1, 3, 4, 5}
  Octets = {"a", "b"}
  Orbits <- MCOrbits
  Waves <- MCWaves
  Times <- MCTimes
  MaxCalls = 2
INVARIANTS OnlyWhatWasWritten StartsOnTheRightDay PacketsSurvive FillsThePlanes AnswersFromEpoch
PROPERTIES CallsReturn
CHECK_DEADLOCK FALSE
