\* Two pool threads, a ring of one, a budget that three tasks and a request overrun.
\* Two scheduler workers for a job that is always due, a cron job and a shared one.
\* Both are stopped at any time, and then nothing happens.
CONSTANTS
  t1 = t1
  t2 = t2
  t3 = t3
  Tasks = {t1, t2, t3}
  Submits = {t3}
  Parent <- MCParent
  Outside = outside
  Size <- MCSize
  MaxAttempts = 2
  Threads = {w1, w2}
  Capacity = 1
  Requests = {r1}
  Free = free
  MaxRequests = 1
  MaxWork = 3
  MaxJobBytes = 3
  always = always
  cron = cron
  shared = shared
  NoJob = none
  Jobs <- MCJobs
  Delays <- MCDelays
  Retires = {cron}
  Distributed = {shared}
  Poll = 1
  FireCap = 3
  Workers = {w1, w2}
  BackoffCap = 1
  MaxFailures = 1
  MaxWait = 1
SPECIFICATION ThreadsSpec
INVARIANTS PoolSound SchedulerSound
PROPERTY ThreadsEnd
CHECK_DEADLOCK FALSE
