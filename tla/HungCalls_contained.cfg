SPECIFICATION HungSpec
CONSTANTS
    Requests = {r1, r2}
    t1 = t1
    t2 = t2
    Tokens = {t1, t2}
    Usernames <- MCUsers
    GroupLists <- MCGroups
    Attrs <- MCAttrs
    Audiences = {"aud"}
    RequestedAudiences = {"aud"}
    Worlds <- HungWorlds
    Digest <- MCDigest
    TTL = 1
    Capacity = 0
    MaxReply = 0
    MaxTime = 1
    Granted = Granted
    Rejected = Rejected
    None = None
    Files <- MCFiles
    Incoming <- HungIncoming
    UserHeader = "x-remote-user"
    GroupsHeader = "x-remote-groups"
    Delimiter = "|"
    Unprintable = {"bob"}
    UpstreamStatuses = {}
    MaxRequests = 3
    Hung <- HungReviews
INVARIANTS
    TypeOK
    HeldByOwnQuestion
PROPERTIES
    HangIsContained
CHECK_DEADLOCK FALSE
