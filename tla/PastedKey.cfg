SPECIFICATION Spec
CONSTANTS
  Providers = {"openai", "anthropic"}
  MaxKeys = 2
  None = None
INVARIANTS PastedIsServed
CHECK_DEADLOCK FALSE
