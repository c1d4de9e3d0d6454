\* docs/configuration.md: cleanup_on_shutdown.
SPECIFICATION Spec
CONSTANTS
  a = a
  NoName = NoName
  Name <- Managed1
  Managed <- Managed1
  Version = {1}
  CleanupOnShutdown = TRUE
  Methods = {}
  MaxDisturbances = 0
PROPERTIES
  ShutdownCleans
