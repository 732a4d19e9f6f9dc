SPECIFICATION FairSpec
CONSTANTS
    None = None
    c1 = c1
    c2 = c2
    Apis = {a1, a2}
    Workers = {w1, w2}
    Cases = {c1, c2}
    Bucket <- Buckets
    Settings = {20, 21, 101}
    FirstSetting = 20
    MaxDeploys = 1
    MaxStops = 1
INVARIANTS
    TypeOK
    OneAssignmentPerCase
    UnmovedCaseKeepsArm
    ResultsCoverAssignments
    ExperimentIsThere
PROPERTIES
    ApiComesUp
