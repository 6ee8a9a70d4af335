SPECIFICATION Spec
CONSTANTS
    None = "none"
    Networks = {"n1"}
    Named = {{"bssid", "channel"}, {}}
    Careless = FALSE
    Retries = 2
    MaxCount = 2
    MaxQueue = 2
    Budgets <- SsidBudgets
PROPERTY JoinsNamedNetwork
CHECK_DEADLOCK FALSE
