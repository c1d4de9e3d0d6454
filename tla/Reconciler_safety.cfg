\* Two managed namespaces and a foreign one, every kind of disturbance.
SPECIFICATION Spec
CONSTANTS
  a = a
  b = b
  x = x
  NoName = NoName
  Name <- Three
  Managed <- Managed2
  Present <- Three
  Version = {1}
  Disturbances = {"edit", "external", "crash"}
  MaxDisturbances = 3
SYMMETRY Symmetry
INVARIANTS
  TypeOK
  PassCovers
  CreatingIsUnderWay
  ForeignIgnored
PROPERTIES
  PendingUpdateApplied
  FollowsLifecycle
  NoPlaceholderLeft
