SPECIFICATION Spec
CONSTANT Users = {wlan, bt}
INVARIANT WaitsForSomebody
CHECK_DEADLOCK FALSE
