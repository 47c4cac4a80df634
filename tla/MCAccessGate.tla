---------------------------- MODULE MCAccessGate ----------------------------
(* Instances of AccessGate for TLC.                                         *)
EXTENDS AccessGate

CONSTANTS admin, staff, ann, here, there

Off == [local |-> FALSE, ldap |-> FALSE, oidc |-> FALSE, proxy |-> FALSE, keys |-> FALSE,
        trusted |-> FALSE, admins |-> {admin}, fresh |-> FALSE]

MCFresh == {[Off EXCEPT !.fresh = TRUE]}

\* Nothing set up; local accounts; the directory alone; a proxy beside local accounts;
\* API keys beside OIDC.
MCSettings == MCFresh \cup {
    [Off EXCEPT !.local = TRUE],
    [Off EXCEPT !.ldap = TRUE, !.admins = {staff}],
    [Off EXCEPT !.local = TRUE, !.proxy = TRUE, !.trusted = TRUE],
    [Off EXCEPT !.oidc = TRUE, !.keys = TRUE]}

Visit(page, cookie) == [NoRequest EXCEPT !.page = page, !.cookie = cookie]

MCRequests ==
    {Visit("/", NoToken)} \cup {Visit(p, 1) : p \in {"/", "/login", "/setup", "/api/admin"}}
    \cup {[NoRequest EXCEPT !.page = "/api/admin", !.key = k, !.bearer = TRUE,
                            !.post = TRUE] : k \in 1..2}
    \cup {[NoRequest EXCEPT !.page = "/api/admin", !.post = TRUE, !.header = ann,
                            !.groups = {admin}, !.cookie = 1, !.csrf = c, !.behindProxy = b]
            : c \in BOOLEAN, b \in BOOLEAN}

\* Attempts from two addresses, with and without a CSRF token; one by way of the API.
MCAttempts ==
    {[NoRequest EXCEPT !.page = "/login", !.post = TRUE, !.csrf = c, !.address = a]
        : c \in BOOLEAN, a \in {here, there}}
    \cup {[NoRequest EXCEPT !.page = "/api/auth/login", !.post = TRUE, !.csrf = TRUE,
                            !.address = here]}

MCAllRequests == MCRequests \cup MCAttempts

MCMixes == {{"sessions"}, {"keys"}, {"oidc"}, {"attempts"}, {"settings"}}
MCZones == {-1, 0, 1}
=============================================================================
