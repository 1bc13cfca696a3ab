SPECIFICATION Spec
CONSTANTS
  flow = flow
  pitch = pitch
  Hooks = {flow, pitch}
  Kind <- MCKind
  Logging = FALSE
  Leftovers <- MCLeftovers
INVARIANTS
  InstructionKept
  CheckedIsHooked
  CodeIsFresh
