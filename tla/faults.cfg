SPECIFICATION Spec
CONSTANTS
  t1 = t1  t2 = t2  g1 = g1  g2 = g2  g3 = g3  c1 = c1  c2 = c2  c3 = c3
  NoTask = NoTask  NoCont = NoCont  NoPath = NoPath  NoTime = NoTime
  Tasks = {t1, t2}
  Goroutines = {g1, g2}
  MaxWorkers = 2
  Conts = {c1, c2}
  TimedTasks = {}
  MaxFaults = 2
  MaxClock = 1
  TaskExpires = 1
  MaxStops = 0
  MaxDeletes = 0
  MaxKills = 0
  Sig <- OneSig
  ScheduledAt <- OneLater
SYMMETRY Symmetry
INVARIANTS OneRunnerPerTask SlotAccounting CompletedServesResult TimersSound
