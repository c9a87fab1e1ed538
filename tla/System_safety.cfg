INIT SysInit
NEXT SysNext
CONSTANTS
    Requests = {r1, r2}
    t1 = t1
    t2 = t2
    Tokens = {t1, t2}
    Usernames <- MCUsers
    GroupLists <- MCGroups
    Attrs <- MCAttrs
    Audiences = {"aud"}
    RequestedAudiences = {"aud"}
    Worlds <- MCWorlds
    Digest <- MCDigest
    TTL = 1
    Capacity = 2
    MaxReply = 0
    MaxTime = 2
    Granted = Granted
    Rejected = Rejected
    None = None
    Files <- MCFiles
    Incoming <- MCIncoming
    UserHeader = "x-remote-user"
    GroupsHeader = "x-remote-groups"
    Delimiter = "|"
    Unprintable = {"bob"}
    UpstreamStatuses = {200}
    MaxRequests = 2
SYMMETRY Symmetric
PROPERTIES
    ImplementsGateway
CHECK_DEADLOCK FALSE
