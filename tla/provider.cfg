CONSTANTS
    Peers = {p}
    JobIds = {j}
    MsgIds = {1, 2, 3}
    MsgExpiry <- MCLongMsgExpiry
    StreamIds = {1}
    MaxLen = 1
    QuoteTTL = 1
    Slack = 0
    Window = 0
    MaxNow = 3
    MaxRunners = 2
    MaxInvoices = 2
    MaxJobs = 2
    ReplayMax = 8
CONSTRAINTS NewMsgIdsInOrder LastSecondQuiet
SPECIFICATION Spec
INVARIANTS
    TypeOK
    ExecutesOnlyAfterSettlement
    TermsBinding
    CancelEntriesLive
    DuplicateMintsNoInvoice
PROPERTIES QuoteStable ImplementsSale
CHECK_DEADLOCK FALSE
