SPECIFICATION FairSpec
CONSTANTS
    Donations = {d1}
    Workers = {w1, w2}
    NoSession = NoSession
    MaxFaults = 2
PROPERTIES
    EmittedIsAcked
    PaidIsRecorded
