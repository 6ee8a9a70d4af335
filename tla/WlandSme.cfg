SPECIFICATION Spec
CONSTANTS
    None = "none"
    Networks = {"n1"}
    Named = {{"bssid", "channel"}, {}}
    Careless = FALSE
    Retries = 2
    MaxCount = 2
    MaxQueue = 2
    Budgets <- MCBudgets
INVARIANTS TypeOK OneOwner BusyMeansScanning LinkIsKnown
PROPERTIES CallsReturn ScansEnd
CHECK_DEADLOCK FALSE
