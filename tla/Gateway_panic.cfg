INIT Init
NEXT Next
CONSTANTS
    Requests = {r1, r2}
    t = t
    Tokens = {t}
    Usernames <- MCUsers
    GroupLists <- MCGroups
    Attrs <- MCAttrs
    Audiences = {"aud"}
    RequestedAudiences = {"aud"}
    Worlds <- MCWorlds
    TTL = 0
    MaxReply = 0
    None = None
    Files <- MCFiles
    Incoming <- MCIncoming
    UserHeader = "x-remote-user"
    GroupsHeader = "x-remote-groups"
    Delimiter = "|"
    Unprintable = {"bob"}
    UpstreamStatuses = {200}
    MaxTime = 1
    MaxRequests = 2
INVARIANTS
    EveryRequestAnswered
CHECK_DEADLOCK FALSE
