\* The library of files, a rival for an interface, and two events out of
\* edits, faults, deletions and processes inside.
SPECIFICATION Spec
CONSTANTS
  Var = {"v0", "v1", "v2", "v3", "loop", "blank", "system", "unset"}
  ProcessEnv <- System
  MaxIterations = 5
  Namespace = {"web", "dns"}
  Library <- Files
  Revision <- Revisions
  Imports <- WgImports
  PrefixLength = 4
  Physical <- HostLinks
  MaxEvents = 2
INVARIANTS
  TypeOK
  LoadedIsSound
  
  ImportIsFaithful
  
PROPERTIES
  NoneTaken
  
CHECK_DEADLOCK FALSE
