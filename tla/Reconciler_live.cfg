\* One namespace, two versions, under fairness.
SPECIFICATION FairSpec
CONSTANTS
  a = a
  b = b
  x = x
  NoName = NoName
  Name <- Managed1
  Managed <- Managed1
  Present <- Managed1
  Version = {1, 2}
  Disturbances = {"edit", "external", "crash"}
  MaxDisturbances = 3
PROPERTIES
  ImplementsLifecycle
  
  FailedIsRetried
