CONSTANTS
    Resolvers = {r1}
    Users = {u1, u2}
    TTL = 2
    CallsStall = FALSE
    MaxTime = 6
SPECIFICATION IdentitySpec
PROPERTIES ServedIsRecent
