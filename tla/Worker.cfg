\* A worker thread recycles frames while "main" starts, stops and releases; the
\* callback recycles and stops the capture as well, and everything may fail.
CONSTANTS
  Apps = {main, worker}
  Sources = {s1}
  None = None
  NumBuffers = 2
  QueueCapacity = 2
  Configurers = {main}
  Starters = {main}
  Stoppers = {main, s1}
  Releasers = {main}
  Recyclers = {worker, s1}
  InputUsers = {main}
  Faults = {"streamon", "dqbuf", "callback", "convert"}
  DropAtStop = TRUE
  SplitRead = FALSE
  PatientStop = TRUE
SPECIFICATION Spec
INVARIANTS
  DriverHasBuffer
  FrameHasOneUser
  HeldFramesUsable
  NoNativeCallAfterFree
PROPERTIES
  ImplementsSession
CHECK_DEADLOCK FALSE
