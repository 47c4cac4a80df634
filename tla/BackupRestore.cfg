\* Settings saved and restored at once, through restarts with three keys; and
\* preferences saved and restored while accounts come and go.
CONSTANTS
    Plain = {plain, prefixed, bare}
    Prefixed = {prefixed, bare}
    Bare = bare
    EnvKey = ke
    MadeKeys = {k1, k2}
    NoKey = nokey
    NoSecret = nosecret
    Workers = {w1, w2}
    Methods <- MCMethods
    Local = local
    oidc = oidc
    Names = {ann, bob}
    MaxId = 2
    MaxStarts = 3
    Focuses = {"keys", "settings", "preferences"}
    None = none
SPECIFICATION BackupSpec
SYMMETRY MCSymmetry
INVARIANTS  PrefsAreOwn 
CHECK_DEADLOCK FALSE
