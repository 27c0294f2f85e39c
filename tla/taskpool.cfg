SPECIFICATION FairSpec
CONSTANTS
  w1 = w1
  w2 = w2
  c1 = c1
  x1 = x1
  x2 = x2
  x3 = x3
  x4 = x4
  Workers <- MCWorkers
  Callers <- MCCallers
  Functions <- MCFunctions
  Delay <- MCDelay
  MinCapacity = 2
CHECK_DEADLOCK FALSE
INVARIANTS TypeOK RingIntact OneClosureEach
PROPERTIES EveryFunctionRuns JoinReturnsIfClean DestructorReturns
