\* Every test of the three suites, alone and after another test of its suite.
SPECIFICATION Spec
CONSTANTS
    Adapters = {"atomic", "readThenWrite"}
    Options <- MCOptions
    Grace = 1
    Ttl = 3
    MaxTime = 1
    MaxRuns = 2
    MaxRounds = 2
    Null = null
INVARIANTS
    TypeOK
    FailuresAreEarned
    StaleWinsAreCaught
    PassedRacesHadLosers
