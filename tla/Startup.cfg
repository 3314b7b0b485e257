SPECIFICATION FairSpec
CONSTANTS
    Configs <- MCConfigs
    Number <- MCNumber
    Hosts = {"localhost"}
    Devices = {"sdc"}
    Foreign = {5000, 5001}
    Update = {u1, u2}
    MaxStarts = 2
 
INVARIANT AckedKept
PROPERTY StartsOrStops
CHECK_DEADLOCK FALSE
