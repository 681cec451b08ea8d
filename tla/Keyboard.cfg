SPECIFICATION Spec
CONSTANTS
  Keyboards <- MCKeyboards
  Reports <- MCReports
  KeyMap <- MCKeyMap
  LedRid <- MCLedRid
INVARIANTS
  KeysMatchHeld
  LedTrue
PROPERTIES
  CaptureIsolated
  Rearmed
