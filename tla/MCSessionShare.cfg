SPECIFICATION Spec
CONSTANTS
    ThreadCount = 2
    QueryRates <- OnePacket
    Laufzeit = 1
    RoundTrips = {1}
    MaxUnlimited = 2
    MaxDuplicates = 0
INVARIANTS RateRespected
