\* A poll cycle always ends within the visibility timeout.
SPECIFICATION Spec
CONSTANTS
  j1 = j1
  j2 = j2
  w1 = w1
  w2 = w2
  q1 = q1
  q2 = q2
  Jobs = {j1, j2}
  Queues = {q1, q2}
  Priority <- HighFirst
  Rated = {}
  VisibilityTimeout <- After3s
  DoneTtl <- After1s
  MaxAttempts <- OneAttempt
  Backoff = {0}
  Schedule = {0}
  Registered = {j1, j2}
  Workers = {w1, w2}
  Drains <- DrainsAll
  Concurrency <- TwoAndOne
  Drift = 1
  MaxRun = 1
  MaxPoll = 1
  MaxGeneration = 2
  MaxAborts = 1
SYMMETRY JobSymmetry
INVARIANT DispatchSound
PROPERTY StrictPriority
