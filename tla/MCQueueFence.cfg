\* Overrun handlers, reclaims and late completions: nothing is assumed of the timeout.
SPECIFICATION Spec
CONSTANTS
  j1 = j1
  j2 = j2
  w1 = w1
  w2 = w2
  q1 = q1
  q2 = q2
  Jobs = {j1}
  Queues = {q1}
  Priority <- AllNormal
  Rated = {q1}
  VisibilityTimeout <- After2s
  DoneTtl <- After1s
  MaxAttempts <- TwoAttempts
  Backoff = {0, 1}
  Schedule = {0, 1}
  Registered = {j1}
  Workers = {w1, w2}
  Drains <- DrainsAll
  Concurrency <- OneEach
  Drift = 1
  MaxRun = 3
  MaxPoll = 3
  MaxGeneration = 4
  MaxAborts = 1
INVARIANTS NoLostAttempt FailureReportedOnce
PROPERTY KeepsContract
