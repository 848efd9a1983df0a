SPECIFICATION Spec
CONSTANTS
  n1 = n1  n2 = n2  c1 = c1  c2 = c2  None = None
  Forms <- MCForms
  FileParts <- MCFileParts
  MaxCPUByTask = 3
  DefaultTaskTimeoutSec = 3
  IntHalf = 4
  MaxParts = 3
  MaxAccepted = 2
  MaxTasks = 6
  InitialTasks = 5
  PageSizes <- MCPageSizes
  DefaultPageSize = 2
INVARIANTS FormTypeOK HashCoversInput SignatureIdentifiesRun SameTaskSameSignature HiddenOnlyByDeletion RepeatedOnlyByCreation
CHECK_DEADLOCK FALSE
