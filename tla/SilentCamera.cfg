CONSTANTS
  Apps = {main}
  Sources = {s1}
  None = None
  NumBuffers = 1
  QueueCapacity = 1
  Configurers = {main}
  Starters = {main}
  Stoppers = {main}
  Releasers = {}
  Recyclers = {}
  InputUsers = {}
  Faults = {}
  DropAtStop = TRUE
  SplitRead = FALSE
  PatientStop = TRUE
SPECIFICATION SilentDeviceSpec
PROPERTIES
  StopReturns
CHECK_DEADLOCK FALSE
