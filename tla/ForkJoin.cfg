SPECIFICATION FairSpec
CONSTANTS
  m = m
  w1 = w1
  w2 = w2
  Workers <- ThreeThreads
  MainThread = m
  Forking <- Deep
  Conservative <- RightHalf
  Loop = Loop
  Main = Main
INVARIANTS DequesMatchStacks NoDanglingJobs
PROPERTIES ImplementsTaskTree AllWorkersLeave
