SPECIFICATION Spec
CONSTANTS
    None = "none"
    Networks = {"n1"}
    Named = {{"bssid", "channel"}, {}}
    Careless = TRUE
    Retries = 2
    MaxCount = 2
    MaxQueue = 2
    Budgets <- BusyBudgets
INVARIANT BusyMeansScanning
CHECK_DEADLOCK FALSE
