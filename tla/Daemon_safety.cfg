\* One namespace, every D-Bus call, edits and a shutdown with cleanup.
SPECIFICATION Spec
CONSTANTS
  a = a
  NoName = NoName
  Name <- Managed1
  Managed <- Managed1
  Version = {1}
  CleanupOnShutdown = TRUE
  Methods = {"delete", "restart", "reload"}
  MaxDisturbances = 3
INVARIANTS
  TypeOK
  UnderWayIsCreating
PROPERTIES
  PassIsolated
