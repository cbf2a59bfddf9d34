\* The camera keeps delivering, the worker keeps recycling, and "main" may
\* replace the callback between two captures.
CONSTANTS
  Apps = {main, worker}
  Sources = {s1, s2}
  None = None
  NumBuffers = 2
  QueueCapacity = 2
  Configurers = {main}
  Starters = {main}
  Stoppers = {main}
  Releasers = {main}
  Recyclers = {worker}
  InputUsers = {}
  Faults = {"streamon", "callback", "convert"}
  DropAtStop = TRUE
  SplitRead = FALSE
  PatientStop = TRUE
SPECIFICATION LiveSpec
INVARIANTS
  QuietWhenStopped
  FailedStartRollsBack
PROPERTIES
  CallsReturn
  ImplementsLiveSession
CHECK_DEADLOCK FALSE
