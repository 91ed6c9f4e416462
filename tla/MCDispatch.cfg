SPECIFICATION Spec
CONSTANTS
  Person = {"owner", "guest"}
  Bot = {"app[bot]"}
  AllowedSenders = {"owner"}
  Account = {"owner", "app[bot]"}
  Label = {"gh-issue-tracking:direct-body", "orchestration:next", "implementation:ready", "bug"}
  MaxActs = 2
  acp_denied_tools = TRUE
INVARIANTS TypeOK PromptIsRight PermissionsHold NoEcho
CHECK_DEADLOCK FALSE
