\* Two threads that press buttons, set write-only controls, ask for second grabbers and are interrupted in the
\* releases; grabbers, control lists and releases of the device may fail, as when v4l4j cannot describe the device or its controls.
CONSTANTS
  Threads = {t1, t2}
  None = None
  Faults = {"init", "release", "controls", "describe", "interrupt"}
  AskTwice = TRUE
  MaxUses = 1
  Sliders = {slider}
  Buttons = {button}
  Texts = {}
  CallFaults = {"get", "set", "increase", "interrupt"}
SPECIFICATION ControlsSpec
INVARIANTS
  ControlsBacked
  HandlesBacked
CHECK_DEADLOCK FALSE
