\* Two clients, two keys and payloads, one live receipt allowed, and three old
\* ones that are cleaned up one by one.  Two jobs of a queue with aborted cycles,
\* retries and backoff, where every cycle ends within the timeout.
\* A run ends at the bounds.
CONSTANTS
  c1 = c1
  c2 = c2
  k1 = k1
  k2 = k2
  p1 = p1
  p2 = p2
  o1 = o1
  o2 = o2
  o3 = o3
  None = none
  Clients = {c1, c2}
  Keys = {k1, k2}
  Payloads = {p1, p2}
  Old = {o1, o2, o3}
  MaxEntries = 1
  Retention = 2
  CleanupBatch = 1
  MaxClock = 3
  MaxEffects = 3
  j1 = j1
  j2 = j2
  w1 = w1
  q1 = q1
  Jobs = {j1, j2}
  Queues = {q1}
  Priority <- After1s
  Rated = {}
  VisibilityTimeout <- After2s
  DoneTtl <- After1s
  MaxAttempts <- After2s
  Backoff = {1}
  Schedule = {0}
  Registered = {j1}
  Workers = {w1}
  Drains <- DrainsAll
  Concurrency <- OneEach
  Drift = 1
  MaxRun = 1
  MaxPoll = 1
  MaxGeneration = 4
  MaxAborts = 2
SPECIFICATION WorkSpec
PROPERTIES OncePerRetention AnswersMatch LedgerShrinks EveryJobEnds
CHECK_DEADLOCK FALSE
