\* The threads run fairly: shutdown, signals and convergence.
SPECIFICATION FairSpec
CONSTANTS
  a = a
  NoName = NoName
  Name <- Managed1
  Managed <- Managed1
  Version = {1}
  CleanupOnShutdown = TRUE
  Methods = {"delete", "restart"}
  MaxDisturbances = 1
PROPERTIES
  ShutdownTerminates
  CreatedIsSignalled
  ConfiguredIsTracked
