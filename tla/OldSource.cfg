\* The callback of a source that was replaced is still running and may stop
\* the capture of its successor.
CONSTANTS
  Apps = {main}
  Sources = {s1, s2}
  None = None
  NumBuffers = 1
  QueueCapacity = 1
  Configurers = {main}
  Starters = {main}
  Stoppers = {main, s1, s2}
  Releasers = {main}
  Recyclers = {s1}
  InputUsers = {}
  Faults = {"callback"}
  DropAtStop = TRUE
  SplitRead = FALSE
  PatientStop = FALSE
SPECIFICATION Spec
INVARIANTS
  TypeOK
  UsersCounted
  NoLostWakeup
CHECK_DEADLOCK FALSE
