\* Discovered tenants, pages of one or two devices, a cap of two of three devices.
SPECIFICATION FairSpec
CONSTANTS
    t1 = t1
    t2 = t2
    Unparsable = Unparsable
    Collectors = {"lens.devices", "lens.active_calls", "lens.firmware"}
    TenantIDs <- Discovery
    AllTenants <- MCTenants
    Devices = {1, 2, 3}
    TenantOf <- MCTenantOf
    Subscribed = {1}
    LastDetected <- MCLastDetected
    PageSize = 2
    MaxDevices = 2
    MaxChanges = 2
    MaxFailures = 1
INVARIANTS
    TypeOK
    PassShowsSteady
    CapHolds
PROPERTY
    ConnectedConverges
