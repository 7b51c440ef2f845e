SPECIFICATION Spec
CONSTANTS
    Fetchers = {f1, f2, f3, f4, f5}
    Mixes <- CrowdOrPair
    Proxies = {Url, BadUrl}
    BadProxies = {BadUrl}
    Url = Url
    BadUrl = BadUrl
    Five = Five
    Hundred = Hundred
    Sizes = {Five, Hundred}
    Limit = 2
    Scan = 1
    Refresh = 2
    Default = Default
    External = External
    Foreign = Foreign
    DefaultSize = Hundred
    ExternalSize = Hundred
    ExternalProxy = ExternalProxy
    Unset = Unset
    Empty = Empty
    NoProxy = NoProxy
    Negative = Negative
SYMMETRY FetcherSymmetry
INVARIANTS
    LockDiscipline
    CacheConsistent
    OptionsHonoured
    ClosedOnlyIfEvicted
    NoneForgotten
PROPERTY CacheSpec
CHECK_DEADLOCK FALSE
