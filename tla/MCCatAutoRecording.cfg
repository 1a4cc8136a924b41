SPECIFICATION FairSpec
CONSTANTS
  sub = sub
  main = main
  NoProfile = NoProfile
  Profile = {sub, main}
  MaxEvents = 2
PROPERTIES
  StartIsDurable
  ActiveIsKept
  GivenUpIsOverdue
  RecordingsAreRegistered
