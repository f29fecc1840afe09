CONSTANTS
    MaxUint64 = 1023
    MaxInt64 = 511
    MaxUint32 = 31
    TokensPerMillion = 6
    MultiplierOne = 4
    DefaultMaxBps = 12
    BytesPerToken = 4
    MsatPerSat = 10
    Configs <- MCConfigs
    Requests <- MCRequests
    MaxInFlight = 31
SPECIFICATION Spec
INVARIANTS
    QuoteExact
    InvoiceCarriesPrice
PROPERTY LoadNeverCheaper
