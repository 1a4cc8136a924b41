SPECIFICATION Spec
CONSTANTS
  sub = sub
  main = main
  NoProfile = NoProfile
  Profile = {sub, main}
  MaxEvents = 2
PROPERTIES
  LostStartIsRecovered
