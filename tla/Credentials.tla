---------------------------- MODULE Credentials ----------------------------
(***************************************************************************)
(* Everything that lets a request in for a limited time, and the clock it  *)
(* is compared with: sessions, API keys, the states of OIDC logins under   *)
(* way, and the counters of login attempts.                                *)
(*                                                                         *)
(* SessionStore models how sessions come and go, statement by statement;   *)
(* here a login is one action, and what matters is until when it is good.  *)
(* Tokens, keys and states are drawn at random and never repeat.           *)
(***************************************************************************)
EXTENDS Integers, FiniteSets, Sequences

CONSTANTS
    Users, Groups,
    Prefixes,      \* first eight characters of API keys
    States,        \* values of the state parameter
    Addresses,     \* where login attempts come from
    SessionLife, StateLife, Window,   \* in ticks: SessionDays, 10 and 15 minutes
    Candidates,    \* how many keys of one prefix are tried: 3
    Limit,         \* attempts in a window: LOGIN_RATE_LIMIT, or 5
    MaxRecords,    \* addresses the limiter keeps: 10000
    Zones,         \* hours the server's time zone may be ahead of UTC
    MaxToken, MaxKeys, MaxClock,      \* bounds on logins, keys and ticks
    Mixes          \* bound: which kinds of credentials a behaviour uses

ASSUME CredentialConstants ==
    /\ SessionLife \in Nat \ {0} /\ StateLife \in Nat /\ Window \in Nat
    /\ Candidates \in Nat /\ Limit \in Nat \ {0} /\ MaxRecords \in Nat
    /\ MaxToken \in Nat /\ MaxKeys \in Nat /\ MaxClock \in Nat
    /\ Zones \subseteq Int
    /\ Mixes \subseteq SUBSET {"sessions", "keys", "oidc", "attempts", "settings"}

VARIABLES
    clock,
    zone,      \* of this process
    mix,       \* of this behaviour
    users,     \* table users: from name to groups
    sessions,  \* table sessions: from token to row
    issued,    \* tokens are 1..issued
    keys,      \* table api_keys in order of id; a deleted row stays, not live
    states,    \* table oidc_states: from state to created_at
    begun,     \* when each OIDC login was begun (for the properties)
    returned,  \* the states that a callback has found
    sweeping,  \* an OIDC login is still to delete the old states
    attempts,  \* RateLimiter.attempts
    passed,    \* when attempts were let through, in order (for the properties)
    wiped      \* the limiter has dropped counters that still counted (likewise)

identityVars == <<users, sessions, issued, keys>>
oidcVars == <<states, begun, returned, sweeping>>
limiterVars == <<attempts, passed, wiped>>
credentials == <<clock, zone, mix, identityVars, oidcVars, limiterVars>>

Time == 0..MaxClock
Never == MaxClock + 1

\* A table or map f in which the row of x is v.
With(f, x, v) == [y \in DOMAIN f \cup {x} |-> IF y = x THEN v ELSE f[y]]

-----------------------------------------------------------------------------
CredentialsInit ==
    /\ clock = 0
    /\ mix \in Mixes
    /\ zone \in IF "sessions" \in mix THEN Zones ELSE {0}
    /\ users = [u \in Users |-> {}]
    /\ sessions = <<>> /\ issued = 0
    /\ keys = <<>>
    /\ states = <<>> /\ begun = <<>> /\ returned = {} /\ sweeping = FALSE
    /\ attempts = <<>> /\ wiped = FALSE
    /\ passed = [a \in Addresses |-> <<>>]

Tick ==
    /\ clock < MaxClock
    /\ clock' = clock + 1
    /\ UNCHANGED <<zone, mix, identityVars, oidcVars, limiterVars>>

-----------------------------------------------------------------------------
(* Accounts and sessions.                                                   *)

\* Mutant: the expiry of a session is not looked at.
HonouredForever(t) == t \in DOMAIN sessions

\* A row is stored in the server's zone, offset included, and compared as text with
\* datetime('now'), which is UTC.
Honoured(t) == t \in DOMAIN sessions /\ sessions[t].expires + zone > clock

OpenSession(u) ==
    /\ "sessions" \in mix
    /\ u \in DOMAIN users
    /\ issued < MaxToken
    /\ issued' = issued + 1
    /\ sessions' = With(sessions, issued', [user |-> u, expires |-> clock + SessionLife])
    /\ UNCHANGED <<clock, zone, mix, users, keys, oidcVars, limiterVars>>

Keep(ts) ==
    /\ sessions' = [t \in ts |-> sessions[t]]
    /\ UNCHANGED <<clock, zone, mix, issued, keys, oidcVars, limiterVars>>

\* Logout, and every other operation that ends sessions.
EndSession(t) ==
    /\ t \in DOMAIN sessions
    /\ Keep(DOMAIN sessions \ {t})
    /\ UNCHANGED users

\* The hourly cleanup: both times are in the server's zone.
CleanupExpiredSessions ==
    /\ \E t \in DOMAIN sessions : sessions[t].expires < clock
    /\ Keep({t \in DOMAIN sessions : sessions[t].expires >= clock})
    /\ UNCHANGED users

ChangeGroups(u, gs) ==
    /\ "sessions" \in mix
    /\ u \in DOMAIN users /\ gs # users[u]
    /\ users' = [users EXCEPT ![u] = gs]
    /\ UNCHANGED <<clock, zone, mix, sessions, issued, keys, oidcVars, limiterVars>>

\* The sessions of a deleted account go with it.
DeleteAccount(u) ==
    /\ "sessions" \in mix
    /\ u \in DOMAIN users
    /\ users' = [v \in DOMAIN users \ {u} |-> users[v]]
    /\ Keep({t \in DOMAIN sessions : sessions[t].user # u})

-----------------------------------------------------------------------------
(* API keys.                                                                *)

\* ExpiresIn is a number of days, or 0 for a key that does not expire.
CreateKey(p, gs, expires) ==
    /\ "keys" \in mix
    /\ Len(keys) < MaxKeys
    /\ keys' = Append(keys, [prefix |-> p, groups |-> gs, expires |-> expires,
                             live |-> TRUE])
    /\ UNCHANGED <<clock, zone, mix, users, sessions, issued, oidcVars, limiterVars>>

DeleteKey(k) ==
    /\ k \in DOMAIN keys /\ keys[k].live
    /\ keys' = [keys EXCEPT ![k].live = FALSE]
    /\ UNCHANGED <<clock, zone, mix, users, sessions, issued, oidcVars, limiterVars>>

\* The rows of a prefix are tried in order of id until one matches; expired ones are
\* passed over and do not count, and at most Candidates are tried.
Usable(k) == k \in DOMAIN keys /\ keys[k].live /\ clock <= keys[k].expires
Before(k) == {j \in 1..(k - 1) : Usable(j) /\ keys[j].prefix = keys[k].prefix}

\* Mutant: the newest keys of a prefix are tried first.
FoundNewestFirst(k) ==
    Usable(k) /\ Cardinality({j \in k + 1..Len(keys) :
                                Usable(j) /\ keys[j].prefix = keys[k].prefix}) < Candidates

Found(k) == Usable(k) /\ Cardinality(Before(k)) < Candidates

-----------------------------------------------------------------------------
(* OIDC logins, between the redirect to the provider and the callback.      *)

BeginOidc(s) ==
    /\ "oidc" \in mix
    /\ s \notin DOMAIN begun
    /\ states' = With(states, s, clock)
    /\ begun' = With(begun, s, clock)
    /\ sweeping' = TRUE
    /\ UNCHANGED <<clock, zone, mix, identityVars, returned, limiterVars>>

\* Mutant: the cutoff is on the wrong side of now.
SweepStatesEarly ==
    /\ sweeping
    /\ \/ states' = [s \in {s \in DOMAIN states : states[s] >= clock} |-> states[s]]
       \/ UNCHANGED states
    /\ sweeping' = FALSE
    /\ UNCHANGED <<clock, zone, mix, identityVars, begun, returned, limiterVars>>

\* The second statement of a login that begins deletes what is older than ten
\* minutes; its error is ignored.
SweepStates ==
    /\ sweeping
    /\ \/ states' = [s \in {s \in DOMAIN states : states[s] >= clock - StateLife}
                        |-> states[s]]
       \/ UNCHANGED states
    /\ sweeping' = FALSE
    /\ UNCHANGED <<clock, zone, mix, identityVars, begun, returned, limiterVars>>

\* SELECT redirect_url: the age of the state is not looked at.
Callback(s) ==
    /\ s \in DOMAIN states
    /\ returned' = returned \cup {s}
    /\ UNCHANGED <<clock, zone, mix, identityVars, states, begun, sweeping, limiterVars>>

\* DELETE in a statement of its own, whose error is ignored: until then a second
\* callback finds the state as well, and has only the provider to refuse its code.
DropState(s) ==
    /\ s \in returned \cap DOMAIN states
    /\ states' = [r \in DOMAIN states \ {s} |-> states[r]]
    /\ UNCHANGED <<clock, zone, mix, identityVars, begun, returned, sweeping, limiterVars>>

-----------------------------------------------------------------------------
(* The limiter of login attempts.                                           *)

\* Mutant: a record is over at its resetAt.
OverEarly(a) == a \notin DOMAIN attempts \/ clock >= attempts[a].resetAt

\* A record is over strictly after its resetAt.
Over(a) == a \notin DOMAIN attempts \/ clock > attempts[a].resetAt

\* A count beyond Limit makes no difference and is kept at Limit + 1.
Counted(a) ==
    IF Over(a)
    THEN [count |-> 1, resetAt |-> clock + Window]
    ELSE [attempts[a] EXCEPT !.count = IF @ > Limit THEN @ ELSE @ + 1]

Admits(a) == Counted(a).count <= Limit

LimitAttempt(a) ==
    /\ attempts' = With(attempts, a, Counted(a))
    /\ passed' = IF Admits(a) /\ ~wiped
                 THEN [passed EXCEPT ![a] = Append(@, clock)] ELSE passed
    /\ UNCHANGED wiped

\* Every five minutes: what is over goes; then everything, if there is too much.
SweepAttempts ==
    LET kept == {a \in DOMAIN attempts : ~Over(a)}
    IN  /\ attempts # <<>>
        /\ IF Cardinality(kept) > MaxRecords
           THEN attempts' = <<>> /\ wiped' = TRUE
           ELSE attempts' = [a \in kept |-> attempts[a]] /\ UNCHANGED wiped
        /\ UNCHANGED <<clock, zone, mix, identityVars, oidcVars, passed>>

-----------------------------------------------------------------------------
CredentialsNext ==
    \/ Tick \/ CleanupExpiredSessions \/ SweepStates \/ SweepAttempts
    \/ \E u \in Users : OpenSession(u) \/ DeleteAccount(u)
    \/ \E u \in Users, gs \in SUBSET Groups : ChangeGroups(u, gs)
    \/ \E t \in 1..issued : EndSession(t)
    \/ \E p \in Prefixes, gs \in SUBSET Groups, e \in {clock + 1, Never} :
          CreateKey(p, gs, e)
    \/ \E k \in 1..MaxKeys : DeleteKey(k)
    \/ \E s \in States : BeginOidc(s) \/ Callback(s) \/ DropState(s)

-----------------------------------------------------------------------------
(* Properties.                                                              *)

\* An OIDC login that comes back within ten minutes for the first time finds its
\* state, whoever else begins, returns or sweeps meanwhile.
StatesWait ==
    \A s \in DOMAIN begun :
        clock - begun[s] <= StateLife /\ s \notin returned => s \in DOMAIN states

\* An API key that works keeps working until it expires or is deleted: keys created
\* later never push it out of the few that are tried.
KeysKeepWorking ==
    [][\A k \in DOMAIN keys : Found(k) /\ Usable(k)' => Found(k)']_credentials

\* Of one address, fewer than two windows' worth of attempts get through within the
\* length of a window, unless the limiter was wiped: of so many, the last comes more than
\* a window after the first.
LimitHolds ==
    wiped \/ \A a \in Addresses : \A i \in 1..Len(passed[a]) - (2 * Limit - 1) :
        passed[a][i + (2 * Limit - 1)] - passed[a][i] > Window
=============================================================================
