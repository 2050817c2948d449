CONSTANTS
    job1 = job1
    job2 = job2
    job3 = job3
    Jobs = {job1, job2, job3}
    NoJob = NoJob
    Torn = Torn
    MaxHeight = 2
    MaxFaults = 3
    Mixes <- JobMixes
    Actors = {job1, job2, job3}
    MaxMishaps = 2
    Roles <- ActorMixes
    Histories <- Lives
SPECIFICATION Spec
INVARIANTS CompleteIsWhole ReadsWhole BackupsHold CopiesHold
PROPERTY ImplementsPromises
CHECK_DEADLOCK FALSE
