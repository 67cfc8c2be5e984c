SPECIFICATION Spec
CONSTANTS
  Backends = {"hf", "vllm"}
  Chars = {"a", "b", "c", "A", "B", "?"}
  Incomplete = "?"
  Lower <- MCLower
  Triggers <- MCTriggers
  MaxDelta = 2
  MaxText = 5
INVARIANT StopsOnAnyTrigger
CHECK_DEADLOCK FALSE
