SPECIFICATION Spec
CONSTANTS
  a1 = a1
  a2 = a2
  Agents <- MCAgents
  Owner <- MCOwner
  Blank = {2}
  PageSize = 1
  DatasetAgent <- MCDatasetAgent
  Contents <- MCContents
  Logs = {1, 2}
  MaxCalls = 2
  HistoryCap = 3
  OldKeys = {1, 2}
  NewKeys = {3}
  Paid = {"starter", "pro"}
  Members = {1, 2, 3}
  MaxAttempts = 3
  Lines = {"x", "y"}
  MaxReply = 4
  MaxLines = 3
  Providers = {"openai", "anthropic"}
  MaxKeys = 2
  None = None
INVARIANTS OwnDatasets
CHECK_DEADLOCK FALSE
