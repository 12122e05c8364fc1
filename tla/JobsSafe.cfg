\* Two jobs, one key, a stream and a restart of the server.
SPECIFICATION FairSpec
CONSTANTS
    Job = {j1, j2}
    Key = {k1}
    NoKey = NoKey
    NoJob = NoJob
    Stream = {s1}
    MaxEvents = 2
    MaxRestarts = 1
INVARIANTS
    TypeOK
    OneWorkerPerKey
    WorkIsVisible
    StreamTold
PROPERTIES
    ImplementsService
    StreamEnds
    CancelResolved
\* Every job ends and starts nothing: the system may stop.
CHECK_DEADLOCK FALSE
