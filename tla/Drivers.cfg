SPECIFICATION SumSpec
CHECK_DEADLOCK FALSE
CONSTANTS
  MaxPolls = 2
  PadAddrs = {1, 2}
  PadKinds <- MCPadKinds
  PadReports <- MCPadReports
  MaxDepth = 2
  MaxInsts = 2
  HidDevices <- MCDevices
  StackDepth = 2
  UsageDepth = 3
  MaxPaths = 4
  MaxItems = 8
  MaxReportIds = 3
  Mice <- MCMice
  MouseMoves <- MCMoves
  MouseSpeeds <- MCSpeeds
  MAX_SPEED = 9
  MIN_SPEED = 2
  POLL = 6
  LoopTimes = {1, 3}
  Hold = 6
  HalfPeriods = {1, 3}
  PollTimes = {1, 2}
  Glyph <- MCGlyph
  Drawings <- MCPages
  Width = 13
  Height = 8
  FontWidth = 2
  FontHeight = 2
  Kerning = 1
  Stops = {5, 13}
  StickKinds = {"hid", "ps4", "xbox"}
  StickReports <- MCStickReports
  MaxZone = 15
  LogDepth = 2
  LogLines = 2
  SerialPeriod = 3
  TimerPeriod = 3
INVARIANTS
  DirectionsCurrent
  PadsSound
  TableTrue
  PictureTrue
  KeysNamed
PROPERTIES
  SetupEnds
  HandFollowed
  SwitchedByHold
  PulsesGoOn
  TiltShown
