\* Two requests at a time on an empty database; attempts, saves and fetches may fail.
CONSTANTS
    i1 = i1
    staff = staff
    roles = roles
    Workers = {w1, w2}
    Issuers = {i1}
    Off = off
    Names = {ann}
    Groups = {admin, staff}
    DefaultGroup = admin
    Claims = {groups, roles}
    DefaultClaim = groups
    Blank = blank
    Forms <- MCForms
    NoConfig = noconfig
    Nothing = nothing
    SaveFails = TRUE
    Losses = {}
    FetchFails = TRUE
    Restarts = FALSE
SPECIFICATION SetupSpec
SYMMETRY Symmetry
INVARIANT SetupOrLogin
PROPERTY WizardMakesAnAdmin
