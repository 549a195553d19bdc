SPECIFICATION FairSpec
CONSTANT
    MaxPid = 3
PROPERTIES
    SteadyDaemonIsFound
    StartReportsTruth
    StopReportsTruth
    ReadyDaemonIsNotKilled
    
CHECK_DEADLOCK FALSE
