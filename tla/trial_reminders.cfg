SPECIFICATION Spec
CONSTANTS
    N = 3
    Trial = 3
    Week = 2
    Batch = 2
    Traffic <- MCTraffic
    MaxSuspended = 1
    MaxVip = 1
    MaxDeaths = 1
    MaxReverts = 1
INVARIANT EachGoesOutOnce
 
