\* Active calls only: a call starts and ends between two passes.
SPECIFICATION FairSpec
CONSTANTS
    t1 = t1
    t2 = t2
    Unparsable = Unparsable
    Collectors = {"lens.active_calls"}
    TenantIDs <- Discovery
    AllTenants <- MCTenants
    Devices = {1, 2, 3}
    TenantOf <- MCTenantOf
    Subscribed = {1}
    LastDetected <- MCLastDetected
    PageSize = 2
    MaxDevices = 2
    MaxChanges = 2
    MaxFailures = 1
INVARIANT
    ActiveCallsExact
