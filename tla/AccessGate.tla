----------------------------- MODULE AccessGate -----------------------------
(***************************************************************************)
(* Who a request is and where it is sent: the chain of middleware around   *)
(* every handler, GetAuthenticatedUser, and the handlers that answer with  *)
(* a redirect, composed with the credentials that expire meanwhile.        *)
(*                                                                         *)
(* A request authenticates twice, in AutoLoginRedirect (stage "gate") and  *)
(* again in its handler (stage "handler").  Each time it reads the         *)
(* settings, looks for a key, a header and a session, and asks which group *)
(* administers, one critical section or statement after the other.         *)
(***************************************************************************)
EXTENDS Credentials

CONSTANTS
    Workers,       \* goroutines serving requests
    Requests,      \* the requests that are made
    Settings,      \* the settings the system may have
    NoOne,         \* no name, no address
    MaxHops        \* bound: redirects a browser follows

\* Keys and tokens are numbered from 1.
NoKey == 0
NoToken == 0

VARIABLES
    settings,  \* app.SystemConfig
    mode,      \* AuthConfig.Mode, which ApplySystemConfig derives
    pc,
    req,       \* what each goroutine works on: request, stage, flags read, identity
    hops,      \* redirects the browser has followed
    witness    \* for the properties: see Watch

gate == <<settings, mode, pc, req, hops, witness>>
vars == <<credentials, gate>>

-----------------------------------------------------------------------------
(* Settings and redirects.                                                  *)

ModeOf(s) == IF s.local THEN (IF s.proxy THEN "hybrid" ELSE "local") ELSE "authelia"
LocalMode(m) == m \in {"local", "hybrid"}

\* Mode is read without the mutex where redirects are decided: beside an
\* ApplySystemConfig the two words of the string may not belong together.
ModesRead == {mode} \cup (IF mode = ModeOf(settings) THEN {} ELSE {"torn"})

\* Mutant: any mode but authelia's leads back to the dashboard.
GetAuthRedirectURLHome(m) == IF m = "authelia" THEN "/auth/oidc" ELSE "/"

GetAuthRedirectURL(m) == IF m = "authelia" THEN "/auth/oidc" ELSE "/login"

LoginAvailable == settings.local \/ settings.ldap \/ settings.oidc \/ LocalMode(mode)

Redirects == {"/", "/login", "/setup", "/auth/oidc"}
Pages == Redirects \cup {"/api/auth/login", "/api/admin"}

\* The prefixes of AutoLoginRedirect; /api/auth/login has none of them.
Public(page) == page \in {"/login", "/setup", "/auth/oidc"}
IsApi(page) == page \in {"/api/auth/login", "/api/admin"}

-----------------------------------------------------------------------------
(* Identities.                                                              *)

SettingsRead == [proxy |-> settings.proxy \/ mode \in {"authelia", "hybrid"},
                 session |-> settings.local \/ settings.ldap \/ settings.oidc
                                \/ LocalMode(mode)]
NoFlags == [proxy |-> FALSE, session |-> FALSE]

KeyWorks(r) == settings.keys /\ r.key # NoKey /\ Found(r.key)
HeaderWorks(r) == r.header # NoOne /\ settings.trusted /\ r.behindProxy
SessionWorks(r) == r.cookie # NoToken /\ Honoured(r.cookie)
Holder(r) == sessions[r.cookie].user

\* Beside GetAuthenticatedUser, which asks in turn, what holds in one instant: the
\* credentials of a request that name somebody, and those that name an administrator.
\* A session is good until it expires.
Ways == {"key", "header", "session"}
Ahead(c) == CASE c = "key" -> {} [] c = "header" -> {"key"} [] c = "session" -> {"key", "header"}

InLife(t) == t \in DOMAIN sessions /\ sessions[t].expires > clock

Works(c, r) ==
    CASE c = "key" -> KeyWorks(r)
      [] c = "header" -> SettingsRead.proxy /\ HeaderWorks(r)
      [] c = "session" -> SettingsRead.session /\ InLife(r.cookie)

GroupsBy(c, r) ==
    CASE c = "key" -> keys[r.key].groups
      [] c = "header" -> r.groups
      [] c = "session" -> users[Holder(r)]

Missing(r) == {c \in Ways : ~Works(c, r)}
Administering(r) == {c \in Ways : Works(c, r) /\ GroupsBy(c, r) \cap settings.admins # {}}

-----------------------------------------------------------------------------
Limited(r) == r.post /\ r.page \in {"/login", "/api/auth/login"}

RequestType ==
    [page : Pages, post : BOOLEAN, csrf : BOOLEAN, bearer : BOOLEAN,
     address : Addresses \cup {NoOne}, key : Nat, header : Users \cup {NoOne},
     behindProxy : BOOLEAN, groups : SUBSET Groups, cookie : Nat]

ASSUME GateConstants ==
    /\ \A r \in Requests : r \in RequestType /\ (Limited(r) => r.address \in Addresses)
    /\ MaxHops \in Nat

NoRequest == [page |-> "/", post |-> FALSE, csrf |-> FALSE, bearer |-> FALSE,
              address |-> NoOne, key |-> NoKey, header |-> NoOne, behindProxy |-> FALSE,
              groups |-> {}, cookie |-> NoToken]
Idle == [r |-> NoRequest, stage |-> "gate", flags |-> NoFlags, who |-> {}, answer |-> "none"]

Unwatched == [missed |-> {}, once |-> FALSE, by |-> Ways, steady |-> TRUE]

GateInit ==
    /\ CredentialsInit
    /\ settings \in Settings
    /\ mode = ModeOf(settings)
    /\ pc = [w \in Workers |-> "idle"]
    /\ req = [w \in Workers |-> Idle]
    /\ hops = [w \in Workers |-> 0]
    /\ witness = [w \in Workers |-> Unwatched]

Goto(w, label, what) ==
    /\ pc' = [pc EXCEPT ![w] = label]
    /\ req' = [req EXCEPT ![w] = what]

Moves(w, label, what) ==
    /\ Goto(w, label, what)
    /\ UNCHANGED <<credentials, settings, mode, hops>>

Answers(w, answer) == Moves(w, "answered", [req[w] EXCEPT !.answer = answer])

\* AutoLoginRedirect lets a public page through and authenticates any other.
Enter(w, r) ==
    Goto(w, IF Public(r.page) THEN "filter" ELSE "flags",
         [Idle EXCEPT !.r = r, !.stage = IF Public(r.page) THEN "handler" ELSE "gate"])

\* A client presents what it was given before: keys and tokens that were issued.
Arrive(w, r) ==
    /\ pc[w] = "idle"
    /\ Limited(r) = ("attempts" \in mix)
    /\ r.key = NoKey \/ r.key \in DOMAIN keys
    /\ r.cookie = NoToken \/ r.cookie \in 1..issued
    /\ Enter(w, r)
    /\ UNCHANGED <<credentials, settings, mode, hops>>

\* GetAuthenticatedUser: the flags, in one critical section.
ReadFlags(w) ==
    /\ pc[w] = "flags"
    /\ Moves(w, "key", [req[w] EXCEPT !.flags = SettingsRead])

\* Somebody was found: at the gate that is enough, a handler asks for the groups.
Identified(w, groups) ==
    IF req[w].stage = "gate"
    THEN Moves(w, "filter", [req[w] EXCEPT !.stage = "handler"])
    ELSE Moves(w, "rights", [req[w] EXCEPT !.who = groups])

\* GetAPIKeyUser: the flag of API keys, then the rows of the prefix.
ByKey(w) ==
    /\ pc[w] = "key"
    /\ IF KeyWorks(req[w].r)
       THEN Identified(w, keys[req[w].r.key].groups)
       ELSE Moves(w, "header", req[w])

\* GetAutheliaUser: a header counts when it comes from a trusted proxy.
ByHeader(w) ==
    /\ pc[w] = "header"
    /\ IF req[w].flags.proxy /\ HeaderWorks(req[w].r)
       THEN Identified(w, req[w].r.groups)
       ELSE Moves(w, "session", req[w])

\* GetLocalUser: session, expiry and account in one statement.
BySession(w) ==
    /\ pc[w] = "session"
    /\ IF req[w].flags.session /\ SessionWorks(req[w].r)
       THEN Identified(w, users[Holder(req[w].r)])
       ELSE Moves(w, "nobody", req[w])

\* Nobody was found: AutoLoginRedirect redirects a browser and refuses an API call,
\* the login page is shown, the other handlers redirect in two modes and refuse in
\* the third.
Nobody(w) ==
    LET page == req[w].r.page
    IN  /\ pc[w] = "nobody"
        /\ IF req[w].stage = "gate"
           THEN IF IsApi(page) THEN Answers(w, "401")
                ELSE \E m \in ModesRead : Answers(w, GetAuthRedirectURL(m))
           ELSE IF page = "/login" THEN Answers(w, "page")
                ELSE \E m \in IF page = "/" THEN ModesRead ELSE {mode} :
                        Answers(w, IF LocalMode(m) THEN "/login" ELSE "401")

\* CheckIsAdmin, and what the handler does with somebody.
Rights(w) ==
    LET page == req[w].r.page
    IN  /\ pc[w] = "rights"
        /\ Answers(w, CASE page \in {"/login", "/api/auth/login"} -> "/"
                        [] page = "/" -> "page"
                        [] page = "/api/admin" ->
                              IF req[w].who \cap settings.admins # {}
                              THEN "served" ELSE "403")

\* CSRFProtection: a foreign origin or a missing or wrong token; a key in the
\* Authorization header needs none.
PassesCsrf(r) == r.post => r.bearer \/ r.csrf

\* The handlers that answer without asking who it is; the others authenticate.
Dispatch(w) ==
    LET page == req[w].r.page
    IN  CASE page \in {"/login", "/api/auth/login"} ->
                IF req[w].r.post THEN Goto(w, "answered", [req[w] EXCEPT !.answer = "login"])
                ELSE IF LoginAvailable THEN Goto(w, "flags", req[w])
                ELSE Goto(w, "answered", [req[w] EXCEPT !.answer = "/"])
          [] page = "/setup" ->
                Goto(w, "answered",
                     [req[w] EXCEPT !.answer = IF settings.fresh THEN "page" ELSE "/"])
          [] page = "/auth/oidc" ->
                \E a \in {"503"} \cup (IF settings.oidc THEN {"provider"} ELSE {}) :
                    Goto(w, "answered", [req[w] EXCEPT !.answer = a])
          [] page = "/" /\ settings.fresh ->
                Goto(w, "answered", [req[w] EXCEPT !.answer = "/setup"])
          [] OTHER -> Goto(w, "flags", req[w])

\* CSRFProtection, then LimitPath, then the handler.
Filter(w) ==
    LET r == req[w].r
    IN  /\ pc[w] = "filter"
        /\ UNCHANGED <<clock, zone, mix, identityVars, oidcVars, settings, mode, hops>>
        /\ IF ~PassesCsrf(r)
           THEN Goto(w, "answered", [req[w] EXCEPT !.answer = "403"])
                /\ UNCHANGED limiterVars
           ELSE IF Limited(r)
           THEN /\ LimitAttempt(r.address)
                /\ IF Admits(r.address) THEN Dispatch(w)
                   ELSE Goto(w, "answered", [req[w] EXCEPT !.answer = "429"])
           ELSE Dispatch(w) /\ UNCHANGED limiterVars

\* The browser follows a redirect ...
Follow(w) ==
    /\ pc[w] = "answered" /\ req[w].answer \in Redirects
    /\ hops[w] < MaxHops
    /\ Enter(w, [req[w].r EXCEPT !.page = req[w].answer, !.post = FALSE])
    /\ hops' = [hops EXCEPT ![w] = @ + 1]
    /\ UNCHANGED <<credentials, settings, mode>>

\* ... or is done.
Finish(w) ==
    /\ pc[w] = "answered"
    /\ Goto(w, "idle", Idle)
    /\ hops' = [hops EXCEPT ![w] = 0]
    /\ UNCHANGED <<credentials, settings, mode>>

-----------------------------------------------------------------------------
(* The settings change under the requests: memory first, the mode later.    *)

ChangeSettings(s) ==
    /\ "settings" \in mix
    /\ s # settings
    /\ settings' = s
    /\ UNCHANGED <<credentials, mode, pc, req, hops>>

ApplySettings ==
    /\ mode # ModeOf(settings)
    /\ mode' = ModeOf(settings)
    /\ UNCHANGED <<credentials, settings, pc, req, hops>>

\* What the properties remember of a request: which credentials named nobody at some
\* instant since it arrived (missed); whether one was an administrator's when each that
\* is asked before it had been missed (once); which was the first to name somebody, an
\* administrator, at every instant (by); whether the settings stayed (steady).
Watch ==
    witness' = [w \in Workers |->
        IF pc'[w] = "idle" THEN Unwatched
        ELSE LET missed == witness[w].missed \cup Missing(req[w].r)'
             IN  [missed |-> missed,
                  once   |-> \/ witness[w].once
                             \/ \E c \in Administering(req[w].r)' : Ahead(c) \subseteq missed,
                  by     |-> {c \in witness[w].by \cap Administering(req[w].r)' :
                                 Ahead(c) \subseteq Missing(req[w].r)'},
                  steady |-> witness[w].steady /\ UNCHANGED <<settings, mode>>]]

Serve(w) ==
    \/ \E r \in Requests : Arrive(w, r)
    \/ ReadFlags(w) \/ ByKey(w) \/ ByHeader(w) \/ BySession(w) \/ Nobody(w)
    \/ Rights(w) \/ Filter(w) \/ Follow(w) \/ Finish(w)

GateNext ==
    /\ \/ \E w \in Workers : Serve(w)
       \/ \E s \in Settings : ChangeSettings(s)
       \/ ApplySettings
       \/ CredentialsNext /\ UNCHANGED <<settings, mode, pc, req, hops>>
    /\ Watch

GateSpec == GateInit /\ [][GateNext]_vars

-----------------------------------------------------------------------------
(* Properties.                                                              *)

\* An administration handler runs only for a request of which, since it arrived, some
\* credential was an administrator's at an instant by which each asked before it had
\* named nobody, and refuses none that was by the same credential all along, however
\* sessions, accounts and keys change while it is looked at (a change of the settings
\* apart).  East of UTC a session outlives its expiry, west of it it ends early.
ServedRightly ==
    \A w \in Workers :
        pc[w] = "answered" /\ req[w].r.page = "/api/admin" /\ witness[w].steady =>
            IF req[w].answer = "served" THEN zone <= 0 => witness[w].once
            ELSE zone >= 0 /\ PassesCsrf(req[w].r) => witness[w].by = {}

\* A browser that follows redirects arrives after at most two, whatever becomes of
\* its session on the way, as long as the settings stay.  (A browser sends no API key;
\* one that begins and ceases to be found on the way leads to and fro once more.)
RedirectsEnd ==
    \A w \in Workers : witness[w].steady /\ req[w].r.key = NoKey => hops[w] <= 2
=============================================================================
