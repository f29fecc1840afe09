CONSTANTS
    Jobs = {j1, j2, j3}
    Calls = {c1, c2}
    MaxEntries = 2
    QuoteTTL = 1
    Skew = 0
    MaxTime = 2
    Offers <- MCOffers
SYMMETRY Symmetry
CONSTRAINT OneJobPaid
SPECIFICATION Spec
INVARIANTS  DoneMeansPaid NoOrphanedJob
PROPERTIES ExpiredGoFirst ImplementsSale
