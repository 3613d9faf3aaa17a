SPECIFICATION PoolSpec
CONSTANTS
  q1 = q1
  q2 = q2
  q3 = q3
  q4 = q4
  q5 = q5
  Requests = {q1, q2, q3, q4, q5}
  Public = {q1}
  Threads = 2
  Connections = 3
INVARIANT
  ThreadsNeverStarve
