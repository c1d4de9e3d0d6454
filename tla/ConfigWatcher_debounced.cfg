\* A file written in place, as most programs write one.
SPECIFICATION Spec
CONSTANTS
  Path = {"web", "dns"}
  Master = "outside"
  Prefix = {"sw"}
  NoPrefix = "none"
  Base = {"w", "d"}
  NameOf <- Own
  Disturbances = {"rewrite"}
  MaxEdits = 2
INVARIANTS
  EditIsLoaded
CHECK_DEADLOCK FALSE
