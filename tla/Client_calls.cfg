\* Single commands with two events around them, and two commands at a time.
SPECIFICATION FairSpec
CONSTANTS
  Client = {"alice", "root"}
  Superuser = {"root"}
  Name <- Names
  FullName <- Prefixed
  Configured = {"sw-web"}
  WellFormed = {"web", "sw-web"}
  Scene <- Scenes
  MaxTries = 3
INVARIANTS
  TypeOK
  RunsWhereGranted
  OnlyPermitted
  OverdueChangesNothing
  VerdictIsTrue
PROPERTIES
  CommandEnds
CHECK_DEADLOCK FALSE
