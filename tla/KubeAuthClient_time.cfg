INIT Init
NEXT Next
CONSTANTS
    Requests = {r1, r2}
    t = t
    u = u
    g1 = g1
    g2 = g2
    a = a
    aud = aud
    other = other
    Tokens = {t}
    Usernames = {u}
    GroupLists = {g1, g2}
    Attrs = {a}
    Audiences = {aud, other}
    RequestedAudiences = {aud}
    Digest <- MCDigest
    Worlds <- ChangingWorlds
    TTL = 1
    Capacity = 1
    MaxReply = 1
    MaxTime = 3
    Granted = Granted
    Rejected = Rejected
    None = None
SYMMETRY Symmetric
INVARIANTS
    Fresh
    CacheIsTrue
    SingleFlight
    NobodyForgotten
    AuthorizeFindsClient
PROPERTIES
    NewestAnswerWins
    ContractSafety
