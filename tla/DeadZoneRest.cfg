SPECIFICATION Spec
CONSTANTS
  Devices = {"hid"}
  Reports <- MCReports
  MaxZone = 15
PROPERTY
  RestSilent
