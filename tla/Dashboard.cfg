\* Health rounds, edits of overrides, pages, refreshes with a token, and parsed lists,
\* each with what changes beside it.
CONSTANTS
    docker = docker
    caddy = caddy
    h1 = h1
    h2 = h2
    none = none
    Urls = {a, b}
    OverriddenUrls = {a, b}
    Sources = {docker, caddy}
    SourceOrder <- MCSourceOrder
    Replies <- MCReplies
    Overrides <- MCOverrides
    Saved <- MCSaved
    NoOverride = none
    Editors = {e1, e2}
    Focuses = {"health", "overrides", "page", "npm", "ldap", "lists"}
    Moving = {a}
    MaxChanges = 1
    NpmHosts = {h1, h2}
    Changing = {h1}
    Loop = loop
    Refreshers = {r1}
    Askers = {a1, a2}
    Contents = {full}
    Nobody = nobody
    NoToken = none
    Inputs <- MCInputs
    HandlerLists <- MCHandlerLists
    SkippedPaths = {"/"}
    None = none
SPECIFICATION DashboardSpec
INVARIANTS OverridesAgree  TokensAccepted ListIsRight
PROPERTIES HealthSettles NpmSettles
CHECK_DEADLOCK FALSE
