SPECIFICATION Spec
CONSTANTS
    MaxJobs = 3
    MaxDesired = 3
    MaxGeneric = 2
    Claim = 2
    JobBytes = 1
    WorkerBytes = 1
    MetadataCap = 6
    k = k
    Keys <- MCKeys
    NoKey = NoKey
INVARIANTS AdmittedExactly MemoryAdmitted OutcomeFaithful
PROPERTY CallReturns
