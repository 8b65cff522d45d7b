CONSTANTS
  Base = 4
  Width = 2
  Magic <- MCMagic
  Capacity = 3
  Images <- MCImages
  BakedByte = 0
  Chatter = {"R", "K", "E"}
  Line = 3
  MaxFaults = 1
  MaxResets = 2
  MaxAttempts = 2
SPECIFICATION UploadSpec
INVARIANTS UploadTypeOK RunsCheckedImage CleanIsAccepted DamageIsRefused
PROPERTY LoaderEnds
CHECK_DEADLOCK FALSE
