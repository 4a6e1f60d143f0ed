\* A document and an unnumbered feed share a cache of two entries.
SPECIFICATION Spec
CONSTANTS
    Session = {doc, wire}
    Pair = {eurusd}
    Visible = {doc}
    Sequenced = {}
    MaxEntries = 3
    Ttl = 0
    StateMaxAge = 0
    MaxSkew = 0
    MaxDelay = 0
    Policies <- DefaultAndStrict
    Time = {0, 1}
    Price = {1, 2}
    MaxSequence = 2
    MaxTicks = 3
INVARIANTS TypeOK CacheSound NewestRemembered SidesCarried
PROPERTY OrderedTicks
