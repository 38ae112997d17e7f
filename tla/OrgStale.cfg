SPECIFICATION MCSpec
CONSTANTS
    u1 = u1
    u2 = u2
    u3 = u3
    o1 = o1
    o2 = o2
    b1 = b1
    b2 = b2
    d1 = d1
    d2 = d2
    d3 = d3
    Users = {u1, u2, u3}
    Orgs = {o1, o2}
    Homes <- MCHomes
    Parts = {"org"}
    r1 = r1
    r2 = r2
    Requests = {r1, r2}
    Fresh = FALSE
    MaxInvites = 2
    Worlds <- MCWorlds
    Askers = {r1, r2}
    Plans <- MCPlans
    MaxTokens = 2
    MaxSeats = 2
    Limits <- MCLimits
    Browsers = {b1, b2}
    Addresses = {d2, d3}
    Settings <- MCSettings
    CodeLimit = 2
    Cap = 3
    Steps = {1, 2}
    CodeIds = {1}
    Steady = TRUE
    MaxPrompts = 1
    Visits <- MCVisits
SYMMETRY Symmetry
INVARIANTS AdminRemains
