\* Edits that keep a distance of a second, two files, fairness.
SPECIFICATION FairSpec
CONSTANTS
  Path = {"web", "dns"}
  Master = "outside"
  Prefix = {"sw"}
  NoPrefix = "none"
  Base = {"w", "d"}
  NameOf <- Own
  Disturbances = {"replace", "delete"}
  MaxEdits = 4
INVARIANTS
  QuietAgrees
PROPERTIES
  Mirrors
CHECK_DEADLOCK FALSE
