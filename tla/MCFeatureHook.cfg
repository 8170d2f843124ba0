\* Two callers, a setter in a before-hook and one in a transaction.
CONSTANTS
  Callers = {c1, c2}
  Setters = {s1, s2}
  InTx = {s2}
  InHook = {s1}
  ttl_ms = 2
  Slots = {e1, e2, e3, e4}
  MaxWrites = 2
  MaxVersion = 3
  MaxTime = 3
  Null = null
SPECIFICATION CacheSpec
INVARIANT NeverStale
