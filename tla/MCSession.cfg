SPECIFICATION FairSpec
CONSTANTS
    ThreadCount = 2
    QueryRates <- TwoLevels
    Laufzeit = 1
    RoundTrips = {1, 2}
    MaxUnlimited = 0
    MaxDuplicates = 1
INVARIANTS EvenShares ReportedOnce LostExplained StatusMonotone 
PROPERTIES SessionEnds
