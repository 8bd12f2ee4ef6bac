SPECIFICATION Spec
CONSTANTS
    c1 = c1
    c2 = c2
    a1 = a1
    a2 = a2
    t1 = t1
    t2 = t2
    here = here
    there = there
    b1 = b1
    b2 = b2
    d1 = d1
    w1 = w1
    w2 = w2
    q1 = q1
    Stop = Stop
    Clerk = Clerk
    Ids = {c1, c2}
    Agents = {a1, a2}
    Clash <- Clash1
    MaxCalls = 3
    Cuts = 1
    Tasks = {t1, t2}
    Project <- Project2
    MaxClock = 2
    MaxUse = 1
    MaxClerk = 1
    Overlaps = FALSE
    Branches = {b1, b2}
    Paths = {d1}
    Slug <- Slug1
    Workers = {w1, w2}
    Cleaners = {q1}
    MaxCommits = 2
    Window = 3
    Offset = 1
    Rearm = 4
    Hooks = {Stop}
    Horizon = 7
    MaxFails = 1
    r1 = r1
    r2 = r2
    r3 = r3
    listed = listed
    Runs = {r1, r2, r3}
    Cards = {listed}
    Allowed = {listed}
    MaxAttempts = 1
    MaxPerDay = 1
    Expires = 1
    LastDay = 2
    Slots = 2
    MaxTears = 1
INVARIANTS ClaimsKeepApart NothingLost IsolatedIsAlone DiscardsJudged  StaysWarm SpendBounded
PROPERTIES  KeepsBudget
CHECK_DEADLOCK FALSE
