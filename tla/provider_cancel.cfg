CONSTANTS
    Peers = {p}
    JobIds = {j}
    MsgIds = {1, 2, 3, 4, 5, 6}
    MsgExpiry <- MCMsgExpiry
    StreamIds = {1}
    MaxLen = 1
    QuoteTTL = 2
    Slack = 1
    Window = 10
    MaxNow = 4
    MaxRunners = 2
    MaxInvoices = 2
    MaxJobs = 2
    ReplayMax = 8
CONSTRAINT MsgIdsInOrder
SPECIFICATION Spec
INVARIANT CancelStopsWork
CHECK_DEADLOCK FALSE
