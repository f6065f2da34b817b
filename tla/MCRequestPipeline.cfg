SPECIFICATION FairSpec
CONSTANTS
    c1 = c1
    c2 = c2
    Call = {c1, c2}
    Asks <- AnyAndRead
    MaxRetries = 1
    MaxStops = 1
INVARIANTS BodilessRunOnce CreatedOnce
 
CHECK_DEADLOCK FALSE
