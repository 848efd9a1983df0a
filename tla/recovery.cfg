SPECIFICATION Spec
CONSTANTS
  t1 = t1  t2 = t2  g1 = g1  g2 = g2  g3 = g3  c1 = c1  c2 = c2  c3 = c3
  NoTask = NoTask  NoCont = NoCont  NoPath = NoPath  NoTime = NoTime
  Tasks = {t1}
  Goroutines = {g1, g2}
  MaxWorkers = 1
  Conts = {c1, c2, c3}
  TimedTasks = {t1}
  MaxFaults = 1
  MaxClock = 0
  TaskExpires = 1
  MaxStops = 1
  MaxDeletes = 0
  MaxKills = 2
  Sig <- OneSig
  ScheduledAt <- AtOnce
SYMMETRY Symmetry
INVARIANTS SlotAccounting OneRunnerPerTask DrainComplete LiveContainerIsWatched QueuedHasInput
PROPERTY LifecycleRefined
