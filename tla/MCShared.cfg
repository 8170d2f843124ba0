\* Two instances with different leases and one that disagrees on the definition;
\* three occurrences, crashes and retries.  Two writers of a journal of two entries
\* and three bytes, whose entries expire, a reader, and one restored backup.
\* The run ends when the schedule is retired or a bound is reached.
CONSTANTS
  i1 = i1
  i2 = i2
  i3 = i3
  Instances = {i1, i2, i3}
  Definition <- MCDefinition
  Lease <- MCLease
  Fires = {1, 3, 4}
  RetryDelay <- MCRetryDelay
  MaxFailures = 2
  MaxGeneration = 5
  Latest = 6
  a1 = a1
  a2 = a2
  r1 = r1
  posts = posts
  drafts = drafts
  Writers = {a1, a2}
  Readers = {r1}
  Collections = {posts, drafts}
  Watches <- MCWatches
  FrameSizes = {1, 2}
  Times = {0, 1}
  Limits = {1}
  max_entries = 2
  max_bytes = 3
  retention_seconds = 1
  MaxSequence = 3
  MaxSecret = 1
  NoTx = notx
  NoCursor = nocursor
SPECIFICATION SharedSpec
INVARIANTS LeaseExclusive GapFree
PROPERTIES CompletedOnce OccurrencesAdvance Recovered ReplayAnswers
CHECK_DEADLOCK FALSE
