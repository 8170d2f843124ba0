\* Two instances with different rates and clocks; two producers and four rows, of
\* which two fit, and the large one only alone.  Two callers, a setter with a
\* transaction and one without, and another instance; two writes.
CONSTANTS
  w1 = w1
  w2 = w2
  Workers = {w1, w2}
  Rate <- MCRate
  Ceiling = 2
  Skew <- MCSkew
  Batch = 2
  MaxClock = 3
  j1 = j1
  j2 = j2
  j3 = j3
  j4 = j4
  p1 = p1
  p2 = p2
  Producers = {p1, p2}
  Jobs = {j1, j2, j3, j4}
  Size <- MCSize
  MaxJobs = 2
  MaxBytes = 3
  c1 = c1
  c2 = c2
  s1 = s1
  s2 = s2
  e1 = e1
  e2 = e2
  Callers = {c1, c2}
  Setters = {s1, s2}
  InTx = {s2}
  InHook = {}
  ttl_ms = 1
  Slots = {e1, e2}
  MaxWrites = 2
  MaxVersion = 2
  MaxTime = 1
  Null = null
SPECIFICATION ReadThenActSpec
SYMMETRY Symmetry
INVARIANTS Sustained RowsBounded BytesBounded CacheSound
PROPERTY RefusalIsLocal
