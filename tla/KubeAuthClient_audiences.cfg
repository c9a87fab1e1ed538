INIT Init
NEXT Next
CONSTANTS
    Requests = {r1, r2, r3}
    t = t
    u = u
    g1 = g1
    g2 = g2
    a = a
    aud = aud
    other = other
    Tokens = {t}
    Usernames = {u}
    GroupLists = {g1, g2}
    Attrs = {a}
    Audiences = {aud, other}
    RequestedAudiences = {aud}
    Digest <- MCDigest
    Worlds <- RevokingWorlds
    TTL = 1
    Capacity = 0
    MaxReply = 1
    MaxTime = 1
    Granted = Granted
    Rejected = Rejected
    None = None
INVARIANTS
    AudiencesArePassed
