CONSTANTS
  a1 = a1
  a2 = a2
  r1 = r1
  r2 = r2
  Askers = {a1, a2}
  Repliers = {r1, r2}
  QueueLimit = 2
  Uses <- BothUses
SPECIFICATION Spec
INVARIANTS TypeOK ResolvedOnce PromptActivityIsExact SteerIsAccountedFor
PROPERTY PromptsSettle
CHECK_DEADLOCK FALSE
