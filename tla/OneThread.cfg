\* One application thread; frames are recycled in nextFrame(), as in the examples.
CONSTANTS
  Apps = {main}
  Sources = {s1}
  None = None
  NumBuffers = 3
  QueueCapacity = 3
  Configurers = {main}
  Starters = {main}
  Stoppers = {main}
  Releasers = {main}
  Recyclers = {s1}
  InputUsers = {main}
  Faults = {}
  DropAtStop = TRUE
  SplitRead = TRUE
  PatientStop = TRUE
SPECIFICATION Spec
INVARIANTS
  NoFrameLost
  ReadyToStart
CHECK_DEADLOCK FALSE
