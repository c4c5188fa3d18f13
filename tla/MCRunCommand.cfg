CONSTANTS
    VUsers = 2
    RampUp = TRUE
    BufSize = 1
    MaxRequests = 3
    MaxSnapshots = 2
    Files <- MCFiles
    VUserFlags <- MCVUserFlags
    DurationFlags <- MCDurationFlags
    RampUpFlags <- MCRampUpFlags
    ThresholdLists <- MCThresholdLists
    FormatLists <- MCFormatLists
    LatencyValues <- MCLatencyValues
SPECIFICATION CmdFairSpec
INVARIANTS
    NoSendOnClosed
    ResultsAccounted
    ReportIsFinal
    SnapshotSkew
    WindowsPartition
    LoadMeansRunnable
    ExitTellsTheRun
PROPERTIES
    PipeSpec
    CommandEnds
\* A command ends.
CHECK_DEADLOCK FALSE
