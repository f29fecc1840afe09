CONSTANTS
    s1 = s1
    s2 = s2
    None = None
    Quote = Quote
    Streams = {s1, s2}
    Callers = {c1, c2}
    MaxLen = 1
    EventBuffer = 1
    Results <- MCResults
SPECIFICATION FairSpec
INVARIANTS ResultVouchedFor NoDeadEntries InboundNotStuck
PROPERTIES OutcomeKept WaitersReturn
