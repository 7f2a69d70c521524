SPECIFICATION Spec
CONSTANTS
  Requests = {r1, r2, r3}
  r1 = r1
  r2 = r2
  r3 = r3
  Backends = {"aiohttp", "pyfetch", "urllib"}
  MaxConcurrency = 2
  RetryAfters <- Headers
  Attempts = 3
INVARIANTS
  TypeOK
  BlameIsRight
  NoExtraPressure
PROPERTIES
  QuietOnceClosed
  EveryRequestEnds
