\* Two requests at a time; saves and fetches may fail, the process may restart, and then load a part of the settings.
CONSTANTS
    i1 = i1
    i2 = i2
    staff = staff
    roles = roles
    Issuers = {i1, i2}
    Off = off
    Groups = {admin, staff}
    DefaultGroup = admin
    Claims = {groups, roles}
    DefaultClaim = groups
    Blank = blank
    NoConfig = noconfig
    Nothing = nothing
    Workers = {w1, w2}
    Names = {ann}
    Forms <- MCForms
    SaveFails = TRUE
    Losses <- MCLosses
    FetchFails = TRUE
    Restarts = TRUE
SPECIFICATION Spec
SYMMETRY Symmetry
CONSTRAINT MCMixedAlone
INVARIANTS WholeForms ModeIsApplied TableIsMemory ProviderIsConfigured
PROPERTY ApplyKeepsSettings
