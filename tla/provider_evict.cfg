CONSTANTS
    Peers = {p}
    JobIds = {j1, j2}
    MsgIds = {1, 2, 3}
    MsgExpiry <- MCMsgExpiry
    StreamIds = {1}
    MaxLen = 1
    QuoteTTL = 2
    Slack = 3
    Window = 9
    MaxNow = 3
    MaxRunners = 2
    MaxInvoices = 1
    MaxJobs = 1
    ReplayMax = 6
CONSTRAINT MsgIdsInOrder
SPECIFICATION FairSpec
INVARIANT StoresBounded
PROPERTIES
    PaidJobsKept
    RunnersTerminate
CHECK_DEADLOCK FALSE
