\* Two documents, two pairs, every age on both sides of each threshold.
SPECIFICATION FeedSpec
CONSTANTS
    Doc = {1, 2}
    Pair = {eurusd, gbpusd}
    StaleAfter = 0
    ExpireAfter = 1
    MaxSessions = 2
    Reports = {"MISSING", "STALE", "AMBIGUOUS"}
    MaxAdmitted = 1
    QuoteStaleAfter = 0
SYMMETRY PairSymmetry
VIEW FeedView
INVARIANTS FeedTypeOK ConnectedIsServed ReportsMatchLease
