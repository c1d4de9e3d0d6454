\* Requirement 4.2: a restarted namespace.
SPECIFICATION FairSpec
CONSTANTS
  a = a
  NoName = NoName
  Name <- Managed1
  Managed <- Managed1
  Version = {1}
  CleanupOnShutdown = FALSE
  Methods = {"restart"}
  MaxDisturbances = 1
PROPERTIES
  RestartCompletes
