SPECIFICATION Spec
CONSTANTS
  m1 = m1  m2 = m2  f1 = f1  r1 = r1  r2 = r2  r3 = r3  s1 = s1  s2 = s2
  Absent = Absent  NoImage = NoImage
  Models = {m1}
  Foreign = {f1}
  Requests = {r1, r2, r3}
  Remote = {f1}
  Starts = {s1}
  GpuStarts = {s1}
  MaxFailures = 1
  MaxRestarts = 1
SYMMETRY Symmetry
INVARIANTS RegistryTypeOK BuiltModelHasImage NoImageLeftOver
PROPERTY StartIsOneStep
CHECK_DEADLOCK FALSE
