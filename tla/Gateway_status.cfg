INIT Init
NEXT Next
CONSTANTS
    Requests = {r1, r2}
    t = t
    Tokens = {t}
    Usernames <- MCUsers
    GroupLists <- MCGroups
    Attrs <- MCAttrs
    Audiences = {"aud"}
    RequestedAudiences = {"aud"}
    Worlds <- MCWorlds
    TTL = 1
    MaxReply = 0
    None = None
    Files <- MCFiles
    Incoming <- MCIncoming
    UserHeader = "x-remote-user"
    GroupsHeader = "x-remote-groups"
    Delimiter = "|"
    Unprintable = {"bob"}
    UpstreamStatuses = {200}
    MaxTime = 2
    MaxRequests = 2
SYMMETRY Symmetric
INVARIANTS
    UnauthenticatedIs401
CHECK_DEADLOCK FALSE
