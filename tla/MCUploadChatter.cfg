CONSTANTS
  Base = 4
  Width = 2
  Magic <- MCMagic
  Capacity = 3
  Images <- MCImages
  BakedByte = 0
  Chatter = {"R", "K", "E"}
  Line = 3
  MaxFaults = 0
  MaxResets = 0
  MaxAttempts = 1
SPECIFICATION UploadSpec
INVARIANT DoneMeansLoaded
CHECK_DEADLOCK FALSE
