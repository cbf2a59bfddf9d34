\* Three threads share a device, use a slider and a text control of its list, and
\* release what they were given; all of them keep to the rules.
CONSTANTS
  Threads = {t1, t2, t3}
  None = None
  Faults = {"init", "release", "interrupt"}
  AskTwice = FALSE
  MaxUses = 2
  Sliders = {slider}
  Buttons = {}
  Texts = {text}
  CallFaults = {}
SPECIFICATION ControlsLiveSpec
INVARIANTS
  ControlUsesCounted
  ControlWaitersWoken
  UsesCounted
  ReleaseWaits
  NoLostWakeup
  NativeCallsSafe
  ReleaseAllOrNothing
PROPERTIES
  CallsReturn
  ImplementsDevice
CHECK_DEADLOCK FALSE
