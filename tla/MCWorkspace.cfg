SPECIFICATION PrepareSpec
CONSTANTS
  Path = {".git", "SKILL.md", "src"}
  READY_MARKERS = {".git", "SKILL.md"}
INVARIANTS WorkspaceOK
PROPERTIES DeadlineWorks
CHECK_DEADLOCK FALSE
