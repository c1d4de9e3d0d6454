\* Edits of every kind, at any moment, two daemons' prefixes, one master file.
SPECIFICATION Spec
CONSTANTS
  Path = {"web", "dns", "daemon"}
  Master = "daemon"
  Prefix = {"sw", "lab"}
  NoPrefix = "none"
  Base = {"w"}
  NameOf <- Contending
  Disturbances = {"replace", "delete", "move", "rewrite", "names", "hasty", "gap", "failure"}
  MaxEdits = 2
INVARIANTS
  TypeOK
  
PROPERTIES
  BrokenKeepsLoaded
CHECK_DEADLOCK FALSE
