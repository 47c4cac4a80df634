--------------------------- MODULE UpstreamTokens ---------------------------
(***************************************************************************)
(* The two upstream services that want a token: Nginx Proxy Manager, asked *)
(* for its proxy hosts by the discovery loop and by manual refreshes, and  *)
(* LLDAP, asked for users and groups.                                      *)
(*                                                                         *)
(* The NPM token is guarded by a mutex held across the login request; the  *)
(* LLDAP one by a mutex given up between the check and the login.          *)
(*                                                                         *)
(* Time is the age of tokens: 0, then too old to be used (within five      *)
(* minutes of its expiry for NPM, 55 minutes after it was stored for       *)
(* LLDAP), then refused by the service.                                    *)
(***************************************************************************)
EXTENDS Naturals, FiniteSets

CONSTANTS
    NpmHosts,      \* values of SystemConfig.NPMUrl
    Changing,      \* bound: those whose manager changes or stops answering
    Loop,          \* the goroutine of the NPM discovery loop
    Refreshers,    \* and those of POST /api/admin/npm-discovery
    Askers,        \* goroutines serving the LLDAP pages
    Contents,      \* what a manager may have as its list of proxy hosts
    Nobody, NoToken

ASSUME TokenConstants ==
    /\ Changing \subseteq NpmHosts
    /\ Loop \notin Refreshers
    /\ Nobody \notin {Loop} \cup Refreshers \cup Askers
    /\ NoToken \notin [by : NpmHosts, age : 0..2] \cup [age : 0..2]
    /\ NpmHosts # {}

VARIABLES
    manager,    \* what each manager holds, and whether it answers
    npmUrl,     \* SystemConfig.NPMUrl
    npmOn,      \* NPMDiscovery.Enabled
    npmPut,     \* PUT under way: "none", or what is left of it: "start" or "wait"
    npmToken,   \* app.NPMToken, with its expiry
    npmMu,      \* app.NPMTokenMu: who holds it
    npmList,    \* what the source has published
    refresh,    \* DiscoverNPMApps under way
    ldapToken,  \* LLDAPConfig.Token, with its expiry
    ask         \* GraphQL requests under way

npmVars == <<manager, npmUrl, npmOn, npmPut, npmToken, npmMu, npmList, refresh>>
ldapVars == <<ldapToken, ask>>
tokenVars == <<npmVars, ldapVars>>

Callers == {Loop} \cup Refreshers
NoRefresh == [pc |-> "idle", host |-> CHOOSE h \in NpmHosts : TRUE,
              login |-> CHOOSE h \in NpmHosts : TRUE, token |-> NoToken, late |-> FALSE, list |-> {}]
NoAsk == [pc |-> "idle", token |-> NoToken, late |-> FALSE]

TokensInit ==
    /\ manager = [h \in NpmHosts |-> [list |-> {}, up |-> TRUE]]
    /\ npmUrl = NoRefresh.host  \* whichever: the source is off
    /\ npmOn = FALSE /\ npmPut = "none"
    /\ npmToken = NoToken /\ npmMu = Nobody
    /\ npmList = {}
    /\ refresh = [c \in Callers |-> NoRefresh]
    /\ ldapToken = NoToken
    /\ ask = [a \in Askers |-> NoAsk]

-----------------------------------------------------------------------------
(* Nginx Proxy Manager.                                                     *)

\* The switch is on, and the address is read.  (Whether the loop notices that it is to
\* stop is the matter of DiscoveryLoop; here it goes on until StopNPMDiscoveryLoop ends.)
RefreshBegin(c) ==
    /\ refresh[c].pc = "idle" /\ npmOn
    /\ refresh' = [refresh EXCEPT ![c] = [NoRefresh EXCEPT !.pc = "token", !.host = npmUrl]]
    /\ UNCHANGED <<manager, npmUrl, npmOn, npmPut, npmToken, npmMu, npmList, ldapVars>>

\* Mutant: a token is used for as long as it is there.
UsableAlways(token) == token # NoToken

\* Mutant: a token is used until its expiry, without five minutes to spare.
UsableToTheEnd(token) == token # NoToken /\ token.age < 2

Usable(token) == token # NoToken /\ token.age = 0

\* NPMGetToken: the stored token, or the mutex kept for a login at the address of now.
RefreshToken(c) ==
    /\ refresh[c].pc = "token" /\ npmMu = Nobody
    /\ IF Usable(npmToken)
       THEN /\ refresh' = [refresh EXCEPT ![c].pc = "send", ![c].token = npmToken]
            /\ UNCHANGED npmMu
       ELSE /\ refresh' = [refresh EXCEPT ![c].pc = "login", ![c].login = npmUrl]
            /\ npmMu' = c
    /\ UNCHANGED <<manager, npmUrl, npmOn, npmPut, npmToken, npmList, ldapVars>>

\* npmRefreshTokenLocked: the answer; no answer, or not a good one, ends the refresh.
RefreshLogin(c) ==
    LET token == [by |-> refresh[c].login, age |-> 0]
    IN  /\ refresh[c].pc = "login"
        /\ npmMu' = Nobody
        /\ IF manager[refresh[c].login].up
           THEN /\ npmToken' = token
                /\ refresh' = [refresh EXCEPT ![c].pc = "send", ![c].token = token]
           ELSE /\ refresh' = [refresh EXCEPT ![c] = NoRefresh]
                /\ UNCHANGED npmToken
        /\ UNCHANGED <<manager, npmUrl, npmOn, npmPut, npmList, ldapVars>>

\* A manager refuses the token of another one and its own after the expiry.  A refused
\* token stays stored.
RefreshSend(c) ==
    LET r == refresh[c]
    IN  /\ r.pc = "send"
        /\ refresh' = [refresh EXCEPT ![c] =
              IF manager[r.host].up /\ r.token.by = r.host /\ r.token.age < 2
              THEN [r EXCEPT !.pc = "publish", !.token = NoToken, !.late = FALSE, !.list = manager[r.host].list]
              ELSE NoRefresh]
        /\ UNCHANGED <<manager, npmUrl, npmOn, npmPut, npmToken, npmMu, npmList, ldapVars>>

RefreshPublish(c) ==
    /\ refresh[c].pc = "publish"
    /\ npmList' = refresh[c].list
    /\ refresh' = [refresh EXCEPT ![c] = NoRefresh]
    /\ UNCHANGED <<manager, npmUrl, npmOn, npmPut, npmToken, npmMu, ldapVars>>

RefreshGoesOn(c) ==
    RefreshToken(c) \/ RefreshLogin(c) \/ RefreshSend(c) \/ RefreshPublish(c)

\* PUT /api/admin/npm-discovery: the settings, then the loop, unless saving fails.
PutSave(h, on) ==
    /\ npmPut = "none"
    /\ npmUrl' = h
    /\ npmPut' \in {IF on THEN "start" ELSE "wait", "none"}
    /\ UNCHANGED <<manager, npmOn, npmToken, npmMu, npmList, refresh, ldapVars>>

\* StartNPMDiscoveryLoop: nothing but the switch if a loop is there.
PutStart ==
    /\ npmPut = "start"
    /\ npmOn' = TRUE /\ npmPut' = "none"
    /\ UNCHANGED <<manager, npmUrl, npmToken, npmMu, npmList, refresh, ldapVars>>

\* StopNPMDiscoveryLoop: once the loop has ended, and with the mutex of the token.
PutStop ==
    /\ npmPut = "wait" /\ refresh[Loop].pc = "idle" /\ npmMu = Nobody
    /\ npmOn' = FALSE /\ npmPut' = "none"
    /\ npmList' = {} /\ npmToken' = NoToken
    /\ UNCHANGED <<manager, npmUrl, npmMu, refresh, ldapVars>>

ManagerChanges(h, list, up) ==
    /\ manager' = [manager EXCEPT ![h] = [list |-> list, up |-> up]]
    /\ UNCHANGED <<npmUrl, npmOn, npmPut, npmToken, npmMu, npmList, refresh, ldapVars>>

-----------------------------------------------------------------------------
(* LLDAP.                                                                   *)

AskBegin(a) ==
    /\ ask[a].pc = "idle"
    /\ ask' = [ask EXCEPT ![a] = IF Usable(ldapToken)
                                 THEN [NoAsk EXCEPT !.pc = "send", !.token = ldapToken]
                                 ELSE [NoAsk EXCEPT !.pc = "login"]]
    /\ UNCHANGED <<npmVars, ldapToken>>

\* RefreshToken, of as many at once as found the token too old: LLDAP has issued one, or
\* answered well without one, which is not looked at; or the request has failed.
AskLogin(a) ==
    /\ ask[a].pc = "login"
    /\ \/ \E token \in {[age |-> 0], NoToken} :
             ask' = [ask EXCEPT ![a] = [NoAsk EXCEPT !.pc = "store", !.token = token]]
       \/ ask' = [ask EXCEPT ![a] = NoAsk]
    /\ UNCHANGED <<npmVars, ldapToken>>

\* The token is stored, over whatever another has stored, and 55 minutes begin.
AskStore(a) ==
    /\ ask[a].pc = "store"
    /\ ldapToken' = ask[a].token
    /\ ask' = [ask EXCEPT ![a] = [NoAsk EXCEPT !.pc = "reread"]]
    /\ UNCHANGED npmVars

\* What is stored by now is sent.
AskReread(a) ==
    /\ ask[a].pc = "reread"
    /\ ask' = [ask EXCEPT ![a] = [NoAsk EXCEPT !.pc = "send", !.token = ldapToken]]
    /\ UNCHANGED <<npmVars, ldapToken>>

AskSend(a) ==
    /\ ask[a].pc = "send"
    /\ ask' = [ask EXCEPT ![a] = NoAsk]
    /\ UNCHANGED <<npmVars, ldapToken>>

AskStep(a) == AskBegin(a) \/ AskLogin(a) \/ AskStore(a) \/ AskReread(a) \/ AskSend(a)

-----------------------------------------------------------------------------
Older(token) == IF token = NoToken THEN token ELSE [token EXCEPT !.age = IF @ = 2 THEN 2 ELSE @ + 1]

\* Minutes do not pass twice (late) while a token is in the hands of one request: the
\* HTTP client gives up after five seconds.  Nor do they between LLDAP's answer and the
\* reading of what is stored.
InTime ==
    /\ \A c \in Callers : ~refresh[c].late
    /\ \A a \in Askers : ~ask[a].late /\ ask[a].pc \notin {"store", "reread"}

Aged(request) == [request EXCEPT !.token = Older(@), !.late = request.token # NoToken]

Tick ==
    /\ InTime
    /\ npmToken' = Older(npmToken)
    /\ refresh' = [c \in Callers |-> Aged(refresh[c])]
    /\ ldapToken' = Older(ldapToken)
    /\ ask' = [a \in Askers |-> Aged(ask[a])]
    /\ UNCHANGED <<manager, npmUrl, npmOn, npmPut, npmMu, npmList>>

NpmStep ==
    \/ \E c \in Callers : RefreshBegin(c) \/ RefreshGoesOn(c)
    \/ \E h \in NpmHosts, on \in BOOLEAN : PutSave(h, on)
    \/ PutStart \/ PutStop \/ Tick
    \/ \E h \in Changing, list \in Contents, up \in BOOLEAN : ManagerChanges(h, list, up)

LdapStep == Tick \/ \E a \in Askers : AskStep(a)

\* Both services by themselves; Dashboard composes them with what does not depend on them.
TokensSpec == TokensInit /\ [][NpmStep \/ LdapStep]_tokenVars

-----------------------------------------------------------------------------
\* Every token sent to the service that issued it is one it still accepts, whoever has
\* refreshed or cleared the stored one meanwhile.  (LLDAP is sent none where it has
\* answered a login without one.)
TokensAccepted ==
    /\ \A c \in Callers : refresh[c].pc = "send" /\ refresh[c].token.by = refresh[c].host =>
          refresh[c].token.age < 2
    /\ \A a \in Askers : ask[a].pc = "send" /\ ask[a].token # NoToken => ask[a].token.age < 2

\* See NpmSettles in Dashboard.
NpmFollows ==
    \A h \in NpmHosts, list \in Contents :
        <>[](npmOn /\ npmPut = "none" /\ npmUrl = h /\ manager[h] = [list |-> list, up |-> TRUE])
            => <>[](npmList = list)
=============================================================================
