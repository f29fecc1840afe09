SPECIFICATION GatewaySpec
CONSTANTS
    h1 = h1
    j1 = j1
    j2 = j2
    chat = chat
    m1 = m1
    NoJob = NoJob
    Requests <- MCRequests
    Calls <- MCCalls
    Peers = {1, 2}
    Advertised <- MCAdvertised
    Want <- MCWant
    Configs <- MCConfigs
    Prices = {1, 2}
    Jobs = {j1, j2}
    MaxEntries = 1
    QuoteTTL = 1
    Offers <- MCOffers
    Skew = 0
    MaxTime = 1
INVARIANTS PaidWithinLimit OkMeansPaid
PROPERTIES EveryRequestEnds AbandonedIsCancelled
CHECK_DEADLOCK FALSE
