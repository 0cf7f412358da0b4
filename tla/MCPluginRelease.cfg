SPECIFICATION Spec
CONSTANTS
    a = a
    b = b
    Runs <- MCRuns
    Jobs <- MCJobs
    Locks = {1}
    GetAttempts = 2
    MaxHistory = 2
    MaxReruns = 1
    MaxReverts = 1
INVARIANTS PublishedOnce
PROPERTIES PublishesForward PublishesWhatWasTested
CHECK_DEADLOCK FALSE
