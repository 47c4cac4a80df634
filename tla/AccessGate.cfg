\* One request at a time beside everything that changes what it presents.
CONSTANTS
    admin = admin
    staff = staff
    ann = ann
    here = here
    there = there
    Users = {ann}
    Groups = {admin}
    Prefixes = {p1}
    States = {s1, s2}
    Addresses = {here, there}
    SessionLife = 2
    StateLife = 1
    Window = 1
    Candidates = 1
    Limit = 2
    MaxRecords = 1
    Zones <- MCZones
    MaxToken = 1
    MaxKeys = 2
    MaxClock = 3
    Mixes <- MCMixes
    Workers = {w1}
    Requests <- MCAllRequests
    Settings <- MCSettings
    NoOne = noone
    MaxHops = 3
SPECIFICATION GateSpec
INVARIANTS ServedRightly RedirectsEnd StatesWait LimitHolds
PROPERTY KeysKeepWorking
CHECK_DEADLOCK FALSE
