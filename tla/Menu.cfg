SPECIFICATION Spec
CONSTANTS
  Groups <- MCGroups
  RemapKeys <- MCRemapKeys
  CaptureKeys <- MCCaptureKeys
  Images <- MCImages
  MaxChanges = 1
INVARIANTS
  ModesBelong
  EntryMeant
  ScreenTrue
PROPERTIES
  SettingsSaved
  SavesDurably
