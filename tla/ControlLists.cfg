SPECIFICATION Spec
CONSTANTS
    Drivers <- MCDrivers
    MaxChanges = 2
INVARIANTS ControlsListed ValuesAdvertised
CHECK_DEADLOCK FALSE
