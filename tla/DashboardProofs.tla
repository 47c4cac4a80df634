--------------------------- MODULE DashboardProofs ---------------------------
(***************************************************************************)
(* Proofs about what stands behind a page, for any applications, sources,  *)
(* overrides, goroutines and services: the overrides in memory, the tokens *)
(* of the upstream services, the page itself, and in the end the whole.    *)
(*                                                                         *)
(* Dashboard composes the specifications proved about here with one        *)
(* another and with the parsers; a step of it is a step of one of them and *)
(* leaves the others alone.                                                *)
(***************************************************************************)
EXTENDS Dashboard, ParserProofs, FiniteSetTheorems, SequenceTheorems, TLAPS

-----------------------------------------------------------------------------
(* Overrides.                                                               *)

\* (There may be no URL that can be overridden.)
EditType == [pc : {"idle", "table", "cache"}, url : OverriddenUrls \cup {NoEdit.url},
             value : Overrides \cup {NoOverride}]

\* Whoever edits a URL alone finds in the table what it has written there.
EditsInv ==
    /\ editing \in [Editors -> EditType]
    /\ DOMAIN table = OverriddenUrls /\ DOMAIN cache = OverriddenUrls
    /\ \A u \in OverriddenUrls \ collided :
          /\ \A d, e \in Editors :
                Busy(d) /\ Busy(e) /\ editing[d].url = u /\ editing[e].url = u => d = e
          /\ \A e \in Editors :
                editing[e].pc = "cache" /\ editing[e].url = u => table[u] = editing[e].value
    /\ OverridesAgree

LEMMA NoEditType == NoEdit \in EditType /\ NoEdit.pc = "idle"
  BY DEF NoEdit, EditType

LEMMA EditsInit ==
    ASSUME OverridesInit, cache = table, DOMAIN table = OverriddenUrls
    PROVE  EditsInv
BY NoEditType DEF OverridesInit, EditsInv, EditType, Busy, OverridesAgree, Loaded

LEMMA EditBeginKeeps ==
    ASSUME EditsInv, NEW e \in Editors, NEW u \in OverriddenUrls,
           NEW value \in Overrides \cup {NoOverride}, EditBegin(e, u, value)
    PROVE  EditsInv'
<1> DEFINE edit == [pc |-> "table", url |-> u, value |-> value]
<1>1. /\ ~Busy(e) /\ editing' = [editing EXCEPT ![e] = edit]
      /\ UNCHANGED <<table, cache, unread>> /\ collided \subseteq collided'
      /\ u \notin collided' => \A d \in Editors : ~(Busy(d) /\ editing[d].url = u)
  BY DEF EditBegin
<1>2. edit \in EditType
  BY DEF EditType
<1>3. editing' \in [Editors -> EditType]
  BY <1>1, <1>2 DEF EditsInv, EditType
<1>4. \A d \in Editors : editing'[d] = IF d = e THEN edit ELSE editing[d]
  BY <1>1 DEF EditsInv
<1>5. edit.pc = "table" /\ edit.url = u
  OBVIOUS
<1> HIDE DEF edit
<1>6. ASSUME NEW v \in OverriddenUrls \ collided'
      PROVE  /\ \A c, d \in Editors :
                   Busy(c)' /\ Busy(d)' /\ editing'[c].url = v /\ editing'[d].url = v => c = d
             /\ \A d \in Editors :
                   editing'[d].pc = "cache" /\ editing'[d].url = v => table'[v] = editing'[d].value
             /\ \/ cache'[v] = Loaded(v)'
                \/ \E d \in Editors : editing'[d].pc = "cache" /\ editing'[d].url = v
  <2>1. v \in OverriddenUrls \ collided
    BY <1>1, <1>6
  <2>2. editing[e].pc # "cache"
    BY <1>1 DEF Busy
  <2>3. \A c, d \in Editors :
           Busy(c)' /\ Busy(d)' /\ editing'[c].url = v /\ editing'[d].url = v => c = d
    BY <1>1, <1>4, <1>5, <1>6, <2>1 DEF EditsInv, Busy
  <2>4. \A d \in Editors :
           editing'[d].pc = "cache" /\ editing'[d].url = v => table'[v] = editing'[d].value
    BY <1>1, <1>4, <1>5, <2>1 DEF EditsInv
  <2>5. \/ cache'[v] = Loaded(v)'
        \/ \E d \in Editors : editing'[d].pc = "cache" /\ editing'[d].url = v
    BY <1>1, <1>4, <2>1, <2>2 DEF EditsInv, OverridesAgree, Loaded
  <2>. QED
    BY <2>3, <2>4, <2>5
<1>. QED
  BY <1>1, <1>3, <1>6 DEF EditsInv, EditType, OverridesAgree, Loaded

LEMMA EditTableKeeps ==
    ASSUME EditsInv, NEW e \in Editors, EditTable(e)
    PROVE  EditsInv'
<1> DEFINE url == editing[e].url
<1>1. editing \in [Editors -> EditType] /\ editing[e].pc = "table" /\ Busy(e)
  BY DEF EditTable, EditsInv, EditType, Busy
<1>2. CASE EditDone(e) /\ UNCHANGED table
  <2>1. /\ \A d \in Editors : editing'[d] = IF d = e THEN NoEdit ELSE editing[d]
        /\ editing' \in [Editors -> EditType]
    BY <1>1, <1>2, NoEditType DEF EditDone
  <2>2. UNCHANGED <<table, cache, collided, unread>>
    BY <1>2 DEF EditTable
  <2>. QED
    BY <1>1, <2>1, <2>2, NoEditType DEF EditsInv, EditType, OverridesAgree, Loaded, Busy
<1>3. CASE /\ table' = [table EXCEPT ![url] = editing[e].value]
           /\ editing' = [editing EXCEPT ![e].pc = "cache"]
  <2>1. /\ \A d \in Editors : d # e => editing'[d] = editing[d]
        /\ editing'[e].pc = "cache" /\ editing'[e].url = url
        /\ editing'[e].value = editing[e].value
        /\ editing' \in [Editors -> EditType]
    BY <1>1, <1>3 DEF EditType
  <2>2. UNCHANGED <<cache, collided, unread>> /\ DOMAIN table' = OverriddenUrls
    BY <1>3 DEF EditTable, EditsInv
  <2>3. ASSUME NEW v \in OverriddenUrls \ collided
        PROVE  /\ \A c, d \in Editors :
                     Busy(c)' /\ Busy(d)' /\ editing'[c].url = v /\ editing'[d].url = v => c = d
               /\ \A d \in Editors :
                     editing'[d].pc = "cache" /\ editing'[d].url = v
                        => table'[v] = editing'[d].value
               /\ \/ cache'[v] = Loaded(v)'
                  \/ \E d \in Editors : editing'[d].pc = "cache" /\ editing'[d].url = v
    <3>1. \A c \in Editors : (Busy(c)' <=> Busy(c)) /\ editing'[c].url = editing[c].url
      BY <1>1, <2>1 DEF Busy
    <3>2. \A c, d \in Editors :
             Busy(c) /\ Busy(d) /\ editing[c].url = v /\ editing[d].url = v => c = d
      BY <2>3 DEF EditsInv
    <3>3. CASE v = url
      <4>1. table'[v] = editing[e].value
        BY <1>3, <2>3, <3>3 DEF EditsInv
      <4>2. \A d \in Editors : editing'[d].pc = "cache" /\ editing'[d].url = v => d = e
        BY <1>1, <2>1, <3>2, <3>3 DEF Busy
      <4>. QED
        BY <2>1, <3>1, <3>2, <3>3, <4>1, <4>2
    <3>4. CASE v # url
      <4>1. table'[v] = table[v]
        BY <1>3, <2>3, <3>4 DEF EditsInv
      <4>2. \A d \in Editors : editing'[d].url = v => d # e /\ editing'[d] = editing[d]
        BY <2>1, <3>4
      <4>3. \A d \in Editors : editing[d].url = v => d # e /\ editing'[d] = editing[d]
        BY <2>1, <3>4
      <4>4. \A d \in Editors :
               editing'[d].pc = "cache" /\ editing'[d].url = v => table'[v] = editing'[d].value
        BY <2>3, <4>1, <4>2 DEF EditsInv
      <4>5. \/ cache'[v] = Loaded(v)'
            \/ \E d \in Editors : editing'[d].pc = "cache" /\ editing'[d].url = v
        BY <2>2, <2>3, <4>1, <4>3 DEF EditsInv, OverridesAgree, Loaded
      <4>. QED
        BY <3>1, <3>2, <4>4, <4>5
    <3>. QED
      BY <3>3, <3>4
  <2>. QED
    BY <2>1, <2>2, <2>3 DEF EditsInv, EditType, OverridesAgree
<1>. QED
  BY <1>2, <1>3 DEF EditTable

LEMMA EditCacheKeeps ==
    ASSUME EditsInv, NEW e \in Editors, EditCache(e)
    PROVE  EditsInv'
<1> DEFINE url == editing[e].url
<1>1. /\ editing \in [Editors -> EditType] /\ editing[e].pc = "cache"
      /\ cache' = [cache EXCEPT ![url] = editing[e].value]
      /\ unread' = unread \ {url} /\ UNCHANGED <<table, collided>>
  BY DEF EditCache, EditsInv, EditType
<1>2. /\ \A d \in Editors : editing'[d] = IF d = e THEN NoEdit ELSE editing[d]
      /\ editing' \in [Editors -> EditType]
  BY <1>1, NoEditType DEF EditCache, EditDone
<1>3. DOMAIN cache' = OverriddenUrls
  BY <1>1 DEF EditsInv
<1>4. ASSUME NEW v \in OverriddenUrls \ collided
      PROVE  \/ cache'[v] = Loaded(v)'
             \/ \E d \in Editors : editing'[d].pc = "cache" /\ editing'[d].url = v
  <2>1. CASE v = url
    BY <1>1, <1>4, <2>1 DEF EditsInv, Loaded
  <2>2. CASE v # url
    <3>1. cache'[v] = cache[v] /\ (v \in unread' <=> v \in unread)
      BY <1>1, <1>4, <2>2 DEF EditsInv
    <3>. QED
      BY <1>1, <1>2, <1>4, <2>2, <3>1 DEF EditsInv, OverridesAgree, Loaded
  <2>. QED
    BY <2>1, <2>2
<1>5. ASSUME NEW v \in OverriddenUrls \ collided
      PROVE  /\ \A c, d \in Editors :
                   Busy(c)' /\ Busy(d)' /\ editing'[c].url = v /\ editing'[d].url = v => c = d
             /\ \A d \in Editors :
                   editing'[d].pc = "cache" /\ editing'[d].url = v => table'[v] = editing'[d].value
  BY <1>1, <1>2, <1>5, NoEditType DEF EditsInv, Busy
<1>. QED
  BY <1>1, <1>2, <1>3, <1>4, <1>5 DEF EditsInv, EditType, OverridesAgree, Loaded

LEMMA EditsUnchanged ==
    ASSUME EditsInv, UNCHANGED overrideVars
    PROVE  EditsInv'
BY DEF EditsInv, overrideVars, OverridesAgree, Loaded, Busy

LEMMA OverridesStep ==
    ASSUME EditsInv, [ViewNext]_vars
    PROVE  EditsInv'
<1> USE OverrideConstants, ViewConstants
<1>1. CASE OverridesRestart
  <2>1. /\ \A d \in Editors : editing'[d] = NoEdit
        /\ editing' \in [Editors -> EditType]
        /\ DOMAIN cache' = OverriddenUrls /\ table' = table
        /\ \A u \in OverriddenUrls : cache'[u] = Loaded(u)'
    BY <1>1, NoEditType DEF OverridesRestart, Loaded
  <2>. QED
    BY <2>1, NoEditType DEF EditsInv, EditType, Busy, OverridesAgree
<1>2. CASE OverrideSteps
  BY <1>1, <1>2, EditBeginKeeps, EditTableKeeps, EditCacheKeeps
     DEF OverrideSteps, OverridesNext
<1>3. CASE PageChanges
  <2>1. CASE UNCHANGED overrideVars
    BY <2>1, EditsUnchanged
  <2>2. CASE ~UNCHANGED overrideVars
    <3>1. \/ \E e \in Editors, u \in Moving, o \in Overrides \cup {NoOverride} : EditBegin(e, u, o)
          \/ \E e \in Editors : EditTable(e) \/ EditCache(e)
      BY <1>3, <2>2 DEF PageChanges, overrideVars
    <3>. QED
      BY <3>1, EditBeginKeeps, EditTableKeeps, EditCacheKeeps
  <2>. QED
    BY <2>1, <2>2
<1>4. CASE HealthSteps \/ HealthChanges \/ PageSteps \/ UNCHANGED vars
  <2>1. UNCHANGED overrideVars
    BY <1>4 DEF HealthSteps, HealthAlone, HealthChanges, PageSteps, vars
  <2>. QED
    BY <2>1, EditsUnchanged
<1>. QED
  BY <1>2, <1>3, <1>4 DEF ViewNext

\* The overrides in memory are those of the table, except where an edit stands between the
\* two, where the start has failed to load a row that is then missing until its next edit,
\* or where edits of one URL have overlapped since the start, whatever fails or restarts.
THEOREM CacheAgrees == ViewSpec => []OverridesAgree
<1>1. ViewInit => EditsInv
  <2> SUFFICES ASSUME ViewInit PROVE EditsInv
    OBVIOUS
  <2>1. DOMAIN table = OverriddenUrls
    BY ViewConstants DEF ViewInit
  <2>. QED
    BY <2>1, EditsInit DEF ViewInit
<1>2. EditsInv /\ [ViewNext]_vars => EditsInv'
  BY OverridesStep
<1>3. EditsInv => OverridesAgree
  BY DEF EditsInv
<1>. QED
  BY <1>1, <1>2, <1>3, PTL DEF ViewSpec
-----------------------------------------------------------------------------
(* Tokens.                                                                  *)

NpmTokens  == [by : NpmHosts, age : 0..2]
LdapTokens == [age : 0..2]

\* A token in the hands of a request was of age 0 when the request took it, and minutes
\* have passed at most once since.
Fresh(request) ==
    /\ request.token # NoToken
    /\ request.token.age = IF request.late THEN 1 ELSE 0

Refreshes == [pc : {"idle", "token", "login", "send", "publish"}, host : NpmHosts,
              login : NpmHosts, token : NpmTokens \cup {NoToken}, late : BOOLEAN,
              list : Contents \cup {{}}]

Asks == [pc : {"idle", "login", "store", "reread", "send"},
         token : LdapTokens \cup {NoToken}, late : BOOLEAN]

RefreshOK(r) ==
    /\ r \in Refreshes
    /\ r.pc = "send" => Fresh(r)
    /\ r.pc # "send" => r.token = NoToken /\ ~r.late

NpmInv ==
    /\ manager \in [NpmHosts -> [list : Contents \cup {{}}, up : BOOLEAN]]
    /\ npmUrl \in NpmHosts
    /\ npmToken \in NpmTokens \cup {NoToken}
    /\ refresh \in [Callers -> Refreshes]
    /\ \A c \in Callers : RefreshOK(refresh[c])

\* Between the answer of LLDAP and the reading of what is stored no minutes pass, and so
\* what is read, if anything, is as fresh as what was answered, whoever stored it.
AskOK(r, stored) ==
    /\ r \in Asks
    /\ r.pc = "store" => r.token \in {[age |-> 0], NoToken} /\ ~r.late
    /\ r.pc = "reread" => stored = NoToken \/ stored.age = 0
    /\ r.pc = "send" => Fresh(r) \/ (r.token = NoToken /\ ~r.late)
    /\ r.pc \notin {"store", "send"} => r.token = NoToken /\ ~r.late

LdapInv ==
    /\ ldapToken \in LdapTokens \cup {NoToken}
    /\ ask \in [Askers -> Asks]
    /\ \A a \in Askers : AskOK(ask[a], ldapToken)

LEMMA NoRefreshOK == RefreshOK(NoRefresh) /\ NoRefresh.pc = "idle"
<1>1. (CHOOSE h \in NpmHosts : TRUE) \in NpmHosts
  BY TokenConstants
<1>. QED
  BY <1>1 DEF NoRefresh, RefreshOK, Refreshes

LEMMA NoAskOK ==
    ASSUME NEW stored
    PROVE  AskOK(NoAsk, stored)
BY DEF NoAsk, AskOK, Asks

LEMMA TokensStart == TokensInit => NpmInv /\ LdapInv
<1> SUFFICES ASSUME TokensInit PROVE NpmInv /\ LdapInv
  OBVIOUS
<1>1. NpmInv
  BY NoRefreshOK DEF TokensInit, NpmInv, RefreshOK, Refreshes
<1>2. LdapInv
  BY NoAskOK DEF TokensInit, LdapInv, AskOK
<1>. QED
  BY <1>1, <1>2

\* A step of one refresh that leaves it in order leaves all in order.
LEMMA RefreshMoves ==
    ASSUME NpmInv, NEW c \in Callers, NEW r, RefreshOK(r),
           refresh' = [refresh EXCEPT ![c] = r], UNCHANGED <<manager, npmUrl>>,
           npmToken' \in NpmTokens \cup {NoToken}
    PROVE  NpmInv'
<1>1. refresh' \in [Callers -> Refreshes]
  BY DEF NpmInv, RefreshOK
<1>2. \A d \in Callers : RefreshOK(refresh'[d])
  BY DEF NpmInv
<1>. QED
  BY <1>1, <1>2 DEF NpmInv

LEMMA RefreshKeeps ==
    ASSUME NpmInv, NEW c \in Callers, RefreshBegin(c) \/ RefreshGoesOn(c)
    PROVE  NpmInv'
<1> DEFINE r == refresh[c]
<1>0. /\ RefreshOK(r) /\ r \in Refreshes /\ npmToken \in NpmTokens \cup {NoToken}
      /\ npmUrl \in NpmHosts /\ refresh \in [Callers -> Refreshes]
  BY DEF NpmInv
<1>1. CASE RefreshBegin(c)
  <2> DEFINE q == [NoRefresh EXCEPT !.pc = "token", !.host = npmUrl]
  <2>1. RefreshOK(q)
    BY <1>0, NoRefreshOK DEF RefreshOK, Refreshes
  <2>. QED
    BY <1>0, <1>1, <2>1, RefreshMoves DEF RefreshBegin
<1>2. CASE RefreshToken(c)
  <2>1. CASE Usable(npmToken)
    <3> DEFINE q == [r EXCEPT !.pc = "send", !.token = npmToken]
    <3>1. /\ q \in Refreshes /\ q.pc = "send" /\ q.token = npmToken /\ q.late = r.late
      BY <1>0, <2>1 DEF Refreshes
    <3>2. RefreshOK(q)
      BY <1>0, <1>2, <2>1, <3>1 DEF RefreshToken, RefreshOK, Fresh, Usable
    <3>3. refresh' = [refresh EXCEPT ![c] = q]
      BY <1>0, <1>2, <2>1 DEF RefreshToken
    <3>. QED
      BY <1>0, <1>2, <3>2, <3>3, RefreshMoves DEF RefreshToken
  <2>2. CASE ~Usable(npmToken)
    <3> DEFINE q == [r EXCEPT !.pc = "login", !.login = npmUrl]
    <3>1. /\ q \in Refreshes /\ q.pc = "login" /\ q.token = r.token /\ q.late = r.late
      BY <1>0 DEF Refreshes
    <3>2. RefreshOK(q)
      BY <1>0, <1>2, <3>1 DEF RefreshToken, RefreshOK
    <3>3. refresh' = [refresh EXCEPT ![c] = q]
      BY <1>0, <1>2, <2>2 DEF RefreshToken
    <3>. QED
      BY <1>0, <1>2, <3>2, <3>3, RefreshMoves DEF RefreshToken
  <2>. QED
    BY <2>1, <2>2
<1>3. CASE RefreshLogin(c)
  <2> DEFINE token == [by |-> r.login, age |-> 0]
  <2>1. token \in NpmTokens /\ token # NoToken /\ token.age = 0
    BY <1>0, TokenConstants DEF NpmTokens, Refreshes
  <2>2. CASE manager[r.login].up
    <3> DEFINE q == [r EXCEPT !.pc = "send", !.token = token]
    <3>1. /\ q \in Refreshes /\ q.pc = "send" /\ q.token = token /\ q.late = r.late
      BY <1>0, <2>1 DEF Refreshes
    <3>2. RefreshOK(q)
      BY <1>0, <1>3, <2>1, <3>1 DEF RefreshLogin, RefreshOK, Fresh
    <3>3. refresh' = [refresh EXCEPT ![c] = q] /\ npmToken' = token
      BY <1>0, <1>3, <2>2 DEF RefreshLogin
    <3>. QED
      BY <1>3, <2>1, <3>2, <3>3, RefreshMoves DEF RefreshLogin
  <2>3. CASE ~manager[r.login].up
    BY <1>0, <1>3, <2>3, NoRefreshOK, RefreshMoves DEF RefreshLogin
  <2>. QED
    BY <2>2, <2>3
<1>4. CASE RefreshSend(c)
  <2> DEFINE accepted == manager[r.host].up /\ r.token.by = r.host /\ r.token.age < 2
             q == [r EXCEPT !.pc = "publish", !.token = NoToken, !.late = FALSE,
                            !.list = manager[r.host].list]
  <2>1. manager[r.host].list \in Contents \cup {{}}
    BY <1>0 DEF NpmInv, Refreshes
  <2>2. RefreshOK(q)
    <3>1. q \in Refreshes /\ q.pc = "publish" /\ q.token = NoToken /\ q.late = FALSE
      BY <1>0, <2>1 DEF Refreshes
    <3>. QED
      BY <3>1 DEF RefreshOK
  <2>3. refresh' = [refresh EXCEPT ![c] = IF accepted THEN q ELSE NoRefresh]
    BY <1>4 DEF RefreshSend
  <2> HIDE DEF accepted, q
  <2>. QED
    BY <1>0, <1>4, <2>2, <2>3, NoRefreshOK, RefreshMoves DEF RefreshSend
<1>5. CASE RefreshPublish(c)
  BY <1>0, <1>5, NoRefreshOK, RefreshMoves DEF RefreshPublish
<1>. QED
  BY <1>1, <1>2, <1>3, <1>4, <1>5 DEF RefreshGoesOn

LEMMA OlderNpm ==
    ASSUME NEW token \in NpmTokens \cup {NoToken}
    PROVE  /\ Older(token) \in NpmTokens \cup {NoToken}
           /\ token = NoToken => Older(token) = NoToken
           /\ token # NoToken /\ token.age = 0 => Older(token) # NoToken /\ Older(token).age = 1
BY TokenConstants DEF Older, NpmTokens

LEMMA OlderLdap ==
    ASSUME NEW token \in LdapTokens \cup {NoToken}
    PROVE  /\ Older(token) \in LdapTokens \cup {NoToken}
           /\ token = NoToken => Older(token) = NoToken
           /\ token # NoToken /\ token.age = 0 => Older(token) # NoToken /\ Older(token).age = 1
BY TokenConstants DEF Older, LdapTokens

LEMMA TickKeepsNpm ==
    ASSUME NpmInv, Tick
    PROVE  NpmInv'
<1>1. ASSUME NEW c \in Callers
      PROVE  RefreshOK(Aged(refresh[c]))
  <2> DEFINE r == refresh[c]
             q == Aged(r)
  <2>1. RefreshOK(r) /\ r \in Refreshes /\ ~r.late /\ r.token \in NpmTokens \cup {NoToken}
    BY <1>1 DEF NpmInv, Tick, InTime, Refreshes
  <2>2. /\ q \in Refreshes /\ q.pc = r.pc /\ q.token = Older(r.token)
        /\ q.late = (r.token # NoToken)
    BY <2>1, OlderNpm DEF Aged, Refreshes
  <2>3. r.pc = "send" => Fresh(q)
    BY <2>1, <2>2, OlderNpm DEF RefreshOK, Fresh
  <2>4. r.pc # "send" => q.token = NoToken /\ ~q.late
    BY <2>1, <2>2, OlderNpm DEF RefreshOK
  <2>. QED
    BY <2>2, <2>3, <2>4 DEF RefreshOK
<1>2. npmToken' \in NpmTokens \cup {NoToken}
  BY OlderNpm DEF NpmInv, Tick
<1>3. /\ refresh' \in [Callers -> Refreshes]
      /\ \A c \in Callers : RefreshOK(refresh'[c])
  BY <1>1 DEF Tick, RefreshOK
<1>. QED
  BY <1>2, <1>3 DEF NpmInv, Tick

LEMMA TickKeepsLdap ==
    ASSUME LdapInv, Tick
    PROVE  LdapInv'
<1>1. ASSUME NEW a \in Askers
      PROVE  AskOK(Aged(ask[a]), ldapToken')
  <2> DEFINE r == ask[a]
             q == Aged(r)
  <2>1. /\ AskOK(r, ldapToken) /\ r \in Asks /\ ~r.late /\ r.pc \notin {"store", "reread"}
        /\ r.token \in LdapTokens \cup {NoToken}
    BY <1>1 DEF LdapInv, Tick, InTime, Asks
  <2>2. /\ q \in Asks /\ q.pc = r.pc /\ q.token = Older(r.token)
        /\ q.late = (r.token # NoToken)
    BY <2>1, OlderLdap DEF Aged, Asks
  <2>3. r.pc = "send" => Fresh(q) \/ (q.token = NoToken /\ ~q.late)
    BY <2>1, <2>2, OlderLdap DEF AskOK, Fresh
  <2>4. r.pc # "send" => q.token = NoToken /\ ~q.late
    BY <2>1, <2>2, OlderLdap DEF AskOK
  <2>. QED
    BY <2>1, <2>2, <2>3, <2>4 DEF AskOK
<1>2. ldapToken' \in LdapTokens \cup {NoToken}
  BY OlderLdap DEF LdapInv, Tick
<1>3. /\ ask' \in [Askers -> Asks]
      /\ \A a \in Askers : AskOK(ask'[a], ldapToken')
  BY <1>1 DEF Tick, AskOK
<1>. QED
  BY <1>2, <1>3 DEF LdapInv

LEMMA AskKeeps ==
    ASSUME LdapInv, NEW a \in Askers, AskStep(a)
    PROVE  LdapInv'
<1> DEFINE r == ask[a]
<1>0. /\ AskOK(r, ldapToken) /\ r \in Asks /\ ldapToken \in LdapTokens \cup {NoToken}
      /\ ask \in [Askers -> Asks]
  BY DEF LdapInv
<1>1. ASSUME NEW q, AskOK(q, ldapToken), ask' = [ask EXCEPT ![a] = q], UNCHANGED ldapToken
      PROVE  LdapInv'
  BY <1>0, <1>1 DEF LdapInv, AskOK
<1>2. CASE AskBegin(a)
  <2> DEFINE q == IF Usable(ldapToken) THEN [NoAsk EXCEPT !.pc = "send", !.token = ldapToken]
                  ELSE [NoAsk EXCEPT !.pc = "login"]
  <2>1. AskOK(q, ldapToken)
    BY <1>0 DEF NoAsk, AskOK, Asks, Usable, Fresh
  <2>2. ask' = [ask EXCEPT ![a] = q] /\ UNCHANGED ldapToken
    BY <1>2 DEF AskBegin
  <2> HIDE DEF q
  <2>. QED
    BY <1>1, <2>1, <2>2
<1>3. CASE AskLogin(a)
  <2>1. ASSUME NEW token \in {[age |-> 0], NoToken}
        PROVE  AskOK([NoAsk EXCEPT !.pc = "store", !.token = token], ldapToken)
    <3>1. PICK t \in LdapTokens \cup {NoToken} : t = token
      <4>1. [age |-> 0] \in LdapTokens
        BY DEF LdapTokens
      <4>. QED
        BY <4>1, Zenon
    <3> DEFINE p == [NoAsk EXCEPT !.pc = "store", !.token = t]
    <3>2. p.pc = "store" /\ p.token = t
      BY DEF NoAsk
    <3>3. ~p.late
      BY DEF NoAsk
    <3>4. p \in Asks
      BY DEF NoAsk, Asks
    <3> HIDE DEF p
    <3>5. AskOK(p, ldapToken)
      BY <2>1, <3>1, <3>2, <3>3, <3>4 DEF AskOK
    <3>. QED
      BY <3>1, <3>5 DEF p
  <2>. QED
    BY <1>1, <1>3, <2>1, NoAskOK DEF AskLogin
<1>4. CASE AskStore(a)
  <2>1. r.token \in {[age |-> 0], NoToken} /\ r.token \in LdapTokens \cup {NoToken}
    BY <1>0, <1>4 DEF AskStore, AskOK, Asks
  <2>2. ldapToken' \in LdapTokens \cup {NoToken} /\ (ldapToken' = NoToken \/ ldapToken'.age = 0)
    BY <1>4, <2>1 DEF AskStore
  <2> DEFINE q == [NoAsk EXCEPT !.pc = "reread"]
  <2>3. AskOK(q, ldapToken')
    BY <2>2 DEF NoAsk, AskOK, Asks
  <2>4. ask' = [ask EXCEPT ![a] = q]
    BY <1>4 DEF AskStore
  <2> HIDE DEF q
  <2>5. ask' \in [Askers -> Asks]
    BY <1>0, <2>3, <2>4 DEF AskOK
  <2>6. ASSUME NEW b \in Askers PROVE AskOK(ask'[b], ldapToken')
    BY <1>0, <2>2, <2>3, <2>4, <2>6 DEF LdapInv, AskOK
  <2>. QED
    BY <2>2, <2>5, <2>6 DEF LdapInv
<1>5. CASE AskReread(a)
  <2> DEFINE q == [NoAsk EXCEPT !.pc = "send", !.token = ldapToken]
  <2>1. ldapToken = NoToken \/ ldapToken.age = 0
    BY <1>0, <1>5 DEF AskReread, AskOK
  <2>2. AskOK(q, ldapToken)
    BY <1>0, <2>1 DEF NoAsk, AskOK, Asks, Fresh
  <2>. QED
    BY <1>1, <1>5, <2>2 DEF AskReread
<1>6. CASE AskSend(a)
  BY <1>1, <1>6, NoAskOK DEF AskSend
<1>. QED
  BY <1>2, <1>3, <1>4, <1>5, <1>6 DEF AskStep

LEMMA TokensStep == NpmInv /\ LdapInv /\ [NpmStep \/ LdapStep]_tokenVars => NpmInv' /\ LdapInv'
<1> SUFFICES ASSUME NpmInv, LdapInv, [NpmStep \/ LdapStep]_tokenVars PROVE NpmInv' /\ LdapInv'
  OBVIOUS
<1>1. ASSUME UNCHANGED ldapVars PROVE LdapInv'
  BY <1>1 DEF LdapInv, ldapVars
<1>2. ASSUME UNCHANGED npmVars PROVE NpmInv'
  BY <1>2 DEF NpmInv, npmVars
<1>3. CASE Tick
  BY <1>3, TickKeepsNpm, TickKeepsLdap
<1>4. CASE \E c \in Callers : RefreshBegin(c) \/ RefreshGoesOn(c)
  <2>1. UNCHANGED ldapVars
    BY <1>4 DEF RefreshBegin, RefreshGoesOn, RefreshToken, RefreshLogin, RefreshSend,
                RefreshPublish
  <2>. QED
    BY <1>1, <1>4, <2>1, RefreshKeeps
<1>5. CASE \E h \in NpmHosts, on \in BOOLEAN : PutSave(h, on)
  BY <1>1, <1>5 DEF PutSave, NpmInv
<1>6. CASE PutStart \/ PutStop
  BY <1>1, <1>6 DEF PutStart, PutStop, NpmInv
<1>7. CASE \E h \in Changing, list \in Contents, up \in BOOLEAN : ManagerChanges(h, list, up)
  BY <1>1, <1>7, TokenConstants DEF ManagerChanges, NpmInv
<1>8. CASE \E a \in Askers : AskStep(a)
  <2>1. UNCHANGED npmVars
    BY <1>8 DEF AskStep, AskBegin, AskLogin, AskStore, AskReread, AskSend
  <2>. QED
    BY <1>2, <1>8, <2>1, AskKeeps
<1>9. CASE UNCHANGED tokenVars
  BY <1>1, <1>2, <1>9 DEF tokenVars
<1>. QED
  BY <1>3, <1>4, <1>5, <1>6, <1>7, <1>8, <1>9 DEF NpmStep, LdapStep

\* A token that is sent to the service that issued it has not expired, whoever has
\* refreshed, stored or cleared the one in memory since it was taken.
THEOREM SentTokensAccepted == TokensSpec => []TokensAccepted
<1>1. NpmInv /\ LdapInv => TokensAccepted
  BY DEF NpmInv, RefreshOK, LdapInv, AskOK, Fresh, TokensAccepted
<1>. QED
  BY <1>1, TokensStart, TokensStep, PTL DEF TokensSpec
-----------------------------------------------------------------------------
(* Sequences.                                                               *)

\* A sequence without repetitions, and one more at its end.
LEMMA AppendIs ==
    ASSUME NEW T, NEW s \in Seq(T), NEW e \in T, IsInjective(s), e \notin ToSet(s)
    PROVE  /\ Append(s, e) \in Seq(T) /\ IsInjective(Append(s, e))
           /\ ToSet(Append(s, e)) = ToSet(s) \cup {e}
<1> DEFINE c == Append(s, e)
           n == Len(s)
<1>1. /\ c \in Seq(T) /\ DOMAIN c = 1..n + 1 /\ DOMAIN s = 1..n /\ n \in Nat
      /\ \A i \in 1..n : c[i] = s[i]
      /\ c[n + 1] = e
  BY AppendProperties
<1> HIDE DEF c, n
<1>2. \A i \in 1..n + 1 : i \in 1..n \/ i = n + 1
  BY <1>1
<1>3. \A i \in 1..n : i \in 1..n + 1 /\ s[i] \in ToSet(s)
  BY <1>1 DEF ToSet
<1>4. IsInjective(c)
  BY <1>1, <1>2, <1>3 DEF IsInjective
<1>5. ToSet(c) \subseteq ToSet(s) \cup {e}
  BY <1>1, <1>2, <1>3 DEF ToSet
<1>6. ToSet(s) \cup {e} \subseteq ToSet(c)
  <2>1. n + 1 \in 1..n + 1
    BY <1>1
  <2>. QED
    BY <1>1, <1>3, <2>1 DEF ToSet
<1>. QED
  BY <1>1, <1>4, <1>5, <1>6 DEF c

-----------------------------------------------------------------------------
(* The page.                                                                *)

ArrayOK ==
    /\ cells \in Seq(Urls) /\ size \in 0..Len(cells)
    /\ \A i, j \in 1..size : cells[i] = cells[j] => i = j
    /\ listed \in [Sources -> SUBSET Urls]

\* The applications the page reads are still those of the catalogue, whatever has been
\* appended and wherever the array has moved; and what it owes is visible.
Owes ==
    /\ page.admin \in BOOLEAN /\ page.length \in 0..size
    /\ \A i \in 1..page.length : Cell(i) = cells[i]
    /\ page.throughout \subseteq Visible[page.admin]

\* What it owes it has still to come to, or has put on the page.
Begun ==
    /\ page.shown \in Seq(Urls \X Via) /\ IsInjective(page.shown)
    /\ \A x \in page.throughout :
          /\ x[2] = "catalogue" => \E i \in 1..page.length : Cell(i) = x[1]
          /\ x[2] # "catalogue" => x[1] \notin page.config

Filtering ==
    page.pc = "catalogue" =>
        /\ page.next \in 1..page.length + 1
        /\ \A u \in page.config : \E i \in 1..page.next - 1 : Cell(i) = u
        /\ \A x \in ToSet(page.shown) : x[2] = "catalogue" /\ x[1] \in page.config
        /\ \A x \in page.throughout : \A i \in 1..page.next - 1 :
              x[2] = "catalogue" /\ Cell(i) = x[1] => x \in ToSet(page.shown)

Asked(s) == \E i \in 1..page.next - 1 : SourceOrder[i] = s

\* Of the sources asked, what they had found is on the page as far as it is owed, or its
\* override is still to be looked up.
Discovering ==
    page.pc = "discovered" =>
        /\ page.next \in 1..Len(SourceOrder) + 1 /\ page.found \subseteq Urls
        /\ page.found # {} => page.next # 1
        /\ \A x \in ToSet(page.shown) :
              x[2] # "catalogue" => /\ x[1] \notin page.config /\ Asked(x[2])
                                    /\ x[1] \in page.found => x[2] # Current
        /\ \A x \in page.throughout :
              x[2] = "catalogue" \/ Asked(x[2]) =>
                  x \in ToSet(page.shown) \/ (x[1] \in page.found /\ x[2] = Current)

Fields == {"pc", "admin", "apps", "length", "next", "found", "config", "shown", "throughout",
           "shifted"}

PageInv ==
    /\ DOMAIN page = Fields
    /\ page.pc \in {"idle", "catalogue", "discovered", "done"}
    /\ page.pc # "discovered" => page.found = {}
    /\ focus # "page" => page.pc = "idle"
    /\ focus = "page" => ArrayOK
    /\ page.pc # "idle" /\ ~page.shifted =>
          Owes /\ Begun /\ Filtering /\ Discovering /\ PageIsRight

LEMMA NoPageIs == DOMAIN NoPage = Fields /\ NoPage.pc = "idle" /\ NoPage.found = {}
  BY DEF NoPage, Fields

LEMMA VisibleIs ==
    ASSUME NEW admin \in BOOLEAN, NEW x
    PROVE  x \in Visible[admin] <=>
             \/ \E u \in Catalogue : InCatalogue(u, admin) /\ x = <<u, "catalogue">>
             \/ /\ x \in Urls \X Sources /\ x[1] \in listed[x[2]]
                /\ ~(x[1] \in Catalogue /\ InCatalogue(x[1], admin))
                /\ MayDiscover(x[1], admin)
BY DEF Visible

\* An application is appended after those there are, in the same array or a new one.
LEMMA AddKeepsArray ==
    ASSUME ArrayOK, NEW u \in Urls, AddApp(u)
    PROVE  ArrayOK' /\ size' = size + 1 /\ \A i \in 1..size : cells'[i] = cells[i]
<1> DEFINE before == SubSeq(cells, 1, size)
           after == SubSeq(cells, size + 2, Len(cells))
           upto == before \o <<u>>
<1>1. size \in Nat /\ Len(cells) \in Nat /\ \A i \in 1..Len(cells) : cells[i] \in Urls
  BY DEF ArrayOK
<1>2. /\ before \in Seq(Urls) /\ Len(before) = size
      /\ \A i \in 1..size : before[i] = cells[i]
  BY <1>1, SubSeqProperties DEF ArrayOK
<1>3. after \in Seq(Urls)
  BY <1>1, SubSeqProperties DEF ArrayOK
<1> HIDE DEF before, after
<1>4. /\ upto \in Seq(Urls) /\ Len(upto) = size + 1
      /\ \A i \in 1..size : upto[i] = cells[i]
      /\ upto[size + 1] = u
  BY <1>1, <1>2
<1> HIDE DEF upto
<1>5. cells' = upto \o after /\ size' = size + 1 /\ u \notin Catalogue /\ listed' = listed
  BY DEF AddApp, upto, before, after
<1>6. cells' \in Seq(Urls) /\ size + 1 \in 0..Len(cells')
  BY <1>1, <1>3, <1>4, <1>5, ConcatProperties
<1>7. \A i \in 1..size + 1 : cells'[i] = upto[i]
  BY <1>1, <1>3, <1>4, <1>5, ConcatProperties
<1>8. \A i, j \in 1..size' : cells'[i] = cells'[j] => i = j
  BY <1>1, <1>4, <1>5, <1>7 DEF ArrayOK, Catalogue
<1>. QED
  BY <1>1, <1>4, <1>5, <1>6, <1>7, <1>8 DEF ArrayOK

LEMMA RemoveKeepsArray ==
    ASSUME ArrayOK, NEW k \in 1..size, RemoveApp(k)
    PROVE  ArrayOK'
<1>1. size \in Nat /\ Len(cells) \in Nat /\ size <= Len(cells) /\ DOMAIN cells = 1..Len(cells)
      /\ \A i \in 1..Len(cells) : cells[i] \in Urls
  BY DEF ArrayOK
<1>2. size' = size - 1 /\ listed' = listed
  BY DEF RemoveApp
<1>3. CASE size = 1
  BY <1>2, <1>3 DEF ArrayOK, RemoveApp
<1>4. CASE size # 1
  <2> DEFINE at(j) == IF k <= j /\ j < size THEN cells[j + 1] ELSE cells[j]
  <2>1. cells' = [j \in 1..Len(cells) |-> at(j)]
    BY <1>1, <1>4 DEF RemoveApp
  <2>2. \A j \in 1..Len(cells) : at(j) \in Urls
    BY <1>1
  <2>3. cells' \in Seq(Urls) /\ Len(cells') = Len(cells)
    BY <1>1, <2>1, <2>2, IsASeq
  <2>4. ASSUME NEW i \in 1..size - 1, NEW j \in 1..size - 1, cells'[i] = cells'[j] PROVE i = j
    BY <1>1, <2>1, <2>4 DEF ArrayOK
  <2>. QED
    BY <1>1, <1>2, <2>3, <2>4 DEF ArrayOK
<1>. QED
  BY <1>3, <1>4

\* The application that is edited goes to the end.
LEMMA EditKeepsArray ==
    ASSUME ArrayOK, NEW k \in 1..size, NEW u \in Urls, EditApp(k, u)
    PROVE  ArrayOK'
<1>1. size \in Nat /\ Len(cells) \in Nat /\ size <= Len(cells) /\ DOMAIN cells = 1..Len(cells)
      /\ \A i \in 1..Len(cells) : cells[i] \in Urls
  BY DEF ArrayOK
<1>2. size' = size /\ listed' = listed
  BY DEF EditApp
<1>3. CASE size = 1
  <2>1. cells' = <<u>>
    BY <1>3 DEF EditApp
  <2>. QED
    BY <1>2, <1>3, <2>1 DEF ArrayOK
<1>4. CASE size # 1
  <2> DEFINE at(j) == IF j = size THEN u
                      ELSE IF k <= j /\ j < size THEN cells[j + 1] ELSE cells[j]
  <2>1. cells' = [j \in 1..Len(cells) |-> at(j)]
    BY <1>1, <1>4 DEF EditApp
  <2>2. \A j \in 1..Len(cells) : at(j) \in Urls
    BY <1>1
  <2>3. cells' \in Seq(Urls) /\ Len(cells') = Len(cells)
    BY <1>1, <2>1, <2>2, IsASeq
  <2>4. \A j \in 1..size : j # k => cells[j] # u
    <3>1. CASE u \notin Catalogue
      BY <3>1 DEF Catalogue
    <3>2. CASE u = cells[k]
      BY <3>2 DEF ArrayOK
    <3>. QED
      BY <3>1, <3>2 DEF EditApp
  <2>5. \A j \in 1..size : j # size => at(j) # u
    <3> SUFFICES ASSUME NEW j \in 1..size, j # size PROVE at(j) # u
      OBVIOUS
    <3>1. CASE k <= j
      BY <1>1, <2>4, <3>1
    <3>2. CASE ~(k <= j)
      BY <1>1, <2>4, <3>2
    <3>. QED
      BY <3>1, <3>2
  <2>6. \A j \in 1..size : cells'[j] = at(j)
    BY <1>1, <2>1
  <2>7. ASSUME NEW i \in 1..size, NEW j \in 1..size, i # size, j # size, at(i) = at(j)
        PROVE  i = j
    BY <1>1, <2>7 DEF ArrayOK
  <2>8. at(size) = u
    OBVIOUS
  <2> HIDE DEF at
  <2>9. ASSUME NEW i \in 1..size, NEW j \in 1..size, cells'[i] = cells'[j] PROVE i = j
    BY <2>5, <2>6, <2>7, <2>8, <2>9
  <2>. QED
    BY <1>1, <1>2, <2>3, <2>9 DEF ArrayOK
<1>. QED
  BY <1>3, <1>4

LEMMA PageInit == ViewInit => PageInv
<1> SUFFICES ASSUME ViewInit PROVE PageInv
  OBVIOUS
<1>1. page = NoPage /\ size = Len(cells)
  BY DEF ViewInit
<1>2. CASE focus = "page"
  <2>1. PICK n \in 0..Cardinality(Urls) : cells \in [1..n -> Urls] /\ IsInjective(cells)
    BY <1>2 DEF ViewInit
  <2>2. n \in Nat
    BY <2>1, ViewConstants, FS_CardinalityType
  <2>3. cells \in Seq(Urls) /\ Len(cells) = n /\ DOMAIN cells = 1..n
    BY <2>1, <2>2, SeqDef
  <2>4. listed \in [Sources -> SUBSET Urls]
    BY <1>2, ViewConstants DEF ViewInit
  <2>5. ArrayOK
    BY <1>1, <2>1, <2>2, <2>3, <2>4 DEF ArrayOK, IsInjective
  <2>. QED
    BY <1>1, <1>2, <2>5, NoPageIs DEF PageInv
<1>. QED
  BY <1>1, <1>2, NoPageIs DEF PageInv

\* A page begins: it owes what is visible.
LEMMA PageBeginKeeps ==
    ASSUME PageInv, focus = "page", NEW admin \in BOOLEAN, PageBegin(admin),
           UNCHANGED <<healthVars, overrideVars, focus, admitted>>
    PROVE  PageInv'
<1>1. /\ page'.pc = "catalogue" /\ page'.admin = admin /\ page'.length = size
      /\ page'.apps = Shared /\ page'.next = 1 /\ page'.found = {} /\ page'.config = {} /\ page'.shown = <<>>
      /\ page'.throughout = Visible[admin] /\ DOMAIN page' = Fields
  BY DEF PageBegin, NoPage, Fields
<1>2. ArrayOK /\ ArrayOK' /\ size \in Nat
  BY DEF PageInv, ArrayOK, healthVars
<1>3. Visible' = Visible
  BY DEF Visible, Catalogue, InCatalogue, MayDiscover, healthVars, overrideVars
<1>4. \A i : Cell(i)' = cells[i] /\ cells'[i] = cells[i]
  BY <1>1 DEF Cell, healthVars
<1>5. Owes'
  BY <1>1, <1>2, <1>3, <1>4 DEF Owes, healthVars
<1>6. Begun'
  <2>1. ASSUME NEW x \in Visible[admin], x[2] = "catalogue"
        PROVE  \E i \in 1..size : cells[i] = x[1]
    <3>1. ~(x \in Urls \X Sources)
      BY <2>1, ViewConstants
    <3>2. PICK u \in Catalogue : x = <<u, "catalogue">>
      BY <2>1, <3>1, VisibleIs
    <3>. QED
      BY <3>2 DEF Catalogue
  <2>2. <<>> \in Seq(Urls \X Via) /\ IsInjective(<<>>)
    BY DEF IsInjective
  <2>. QED
    BY <1>1, <1>4, <2>1, <2>2 DEF Begun
<1>7. ToSet(page'.shown) = {}
  BY <1>1 DEF ToSet
<1>8. Filtering' /\ Discovering' /\ PageIsRight'
  BY <1>1, <1>2, <1>7 DEF Filtering, Discovering, PageIsRight
<1>. QED
  BY <1>1, <1>2, <1>5, <1>6, <1>8 DEF PageInv

\* What a step of the page leaves alone.
LEMMA PageStands ==
    ASSUME Owes, UNCHANGED <<healthVars, overrideVars, admitted>>, page'.admin = page.admin,
           page'.length = page.length, page'.apps = page.apps, page'.throughout = page.throughout
    PROVE  Owes' /\ \A i : Cell(i)' = Cell(i)
<1>1. Visible' = Visible
  BY DEF Visible, Catalogue, InCatalogue, MayDiscover, healthVars, overrideVars
<1>2. \A i : Cell(i)' = Cell(i)
  BY DEF Cell, healthVars
<1>. QED
  BY <1>1, <1>2 DEF Owes, healthVars

LEMMA PageFilterKeeps ==
    ASSUME PageInv, focus = "page", PageFilter,
           UNCHANGED <<healthVars, overrideVars, focus, admitted>>
    PROVE  PageInv'
<1> DEFINE u == Cell(page.next)
           n == page.next
<1>1. /\ page.pc = "catalogue" /\ n <= page.length /\ DOMAIN page = Fields /\ page.found = {}
      /\ page' = IF InCatalogue(u, page.admin)
                 THEN [page EXCEPT !.next = @ + 1, !.config = @ \cup {u},
                                   !.shown = Append(@, <<u, "catalogue">>)]
                 ELSE [page EXCEPT !.next = @ + 1]
  BY DEF PageFilter, PageInv
<1>2. /\ page'.pc = "catalogue" /\ page'.admin = page.admin /\ page'.length = page.length
      /\ page'.apps = page.apps /\ page'.throughout = page.throughout /\ page'.next = n + 1
      /\ page'.shifted = page.shifted /\ page'.found = {} /\ DOMAIN page' = Fields
  BY <1>1 DEF Fields
<1>3. \/ /\ InCatalogue(u, page.admin) /\ page'.config = page.config \cup {u}
         /\ page'.shown = Append(page.shown, <<u, "catalogue">>)
      \/ /\ ~InCatalogue(u, page.admin) /\ page'.config = page.config
         /\ page'.shown = page.shown
  BY <1>1 DEF Fields
<1>4. ArrayOK'
  BY DEF PageInv, ArrayOK, healthVars
<1>5. ASSUME ~page.shifted PROVE Owes' /\ Begun' /\ Filtering' /\ Discovering' /\ PageIsRight'
  <2>1. ArrayOK /\ Owes /\ Begun /\ Filtering
    BY <1>1, <1>5 DEF PageInv
  <2>2. n \in 1..page.length /\ page.length \in 0..size /\ size \in Nat /\ u = cells[n]
        /\ page.admin \in BOOLEAN
    BY <1>1, <2>1 DEF Filtering, Owes, ArrayOK
  <2>3. Owes' /\ \A i : Cell(i)' = Cell(i)
    BY <1>2, <2>1, PageStands
  <2>4. u \in Urls /\ u \in Catalogue
    BY <2>1, <2>2 DEF ArrayOK, Catalogue
  <2>5. u \notin page.config
    <3>1. \A i \in 1..n - 1 : Cell(i) = cells[i] /\ i \in 1..size /\ i # n
      BY <2>1, <2>2 DEF Owes
    <3>2. \A i \in 1..n - 1 : Cell(i) # u
      BY <2>1, <2>2, <3>1 DEF ArrayOK
    <3>. QED
      BY <1>1, <2>1, <3>2 DEF Filtering
  <2>6. \A x \in ToSet(page.shown) : x[2] = "catalogue" /\ x[1] \in page.config
    BY <1>1, <2>1 DEF Filtering
  <2> DEFINE e == <<u, "catalogue">>
  <2>7. e \in Urls \X Via /\ e \notin ToSet(page.shown) /\ e[1] = u /\ e[2] = "catalogue"
    BY <2>4, <2>5, <2>6 DEF Via
  <2>8. /\ page'.shown \in Seq(Urls \X Via) /\ IsInjective(page'.shown)
        /\ ToSet(page'.shown) = IF InCatalogue(u, page.admin) THEN ToSet(page.shown) \cup {e}
                                ELSE ToSet(page.shown)
    <3> HIDE DEF e
    <3>1. /\ Append(page.shown, e) \in Seq(Urls \X Via) /\ IsInjective(Append(page.shown, e))
          /\ ToSet(Append(page.shown, e)) = ToSet(page.shown) \cup {e}
      BY <2>1, <2>7, AppendIs DEF Begun
    <3>. QED
      BY <1>3, <2>1, <3>1 DEF Begun, e
  <2>9. \A x \in page.throughout : x \in Visible[page.admin]
    BY <2>1 DEF Owes
  <2>10. ASSUME NEW x \in page.throughout
         PROVE  /\ x[2] = "catalogue" /\ x[1] = u => InCatalogue(u, page.admin) /\ x = e
                /\ x[2] # "catalogue" /\ x[1] = u => ~InCatalogue(u, page.admin)
    <3>1. CASE \E v \in Catalogue : InCatalogue(v, page.admin) /\ x = <<v, "catalogue">>
      BY <3>1
    <3>2. CASE /\ x \in Urls \X Sources
               /\ ~(x[1] \in Catalogue /\ InCatalogue(x[1], page.admin))
      BY <2>4, <3>2, ViewConstants
    <3>. QED
      BY <2>2, <2>9, <3>1, <3>2, VisibleIs
  <2> HIDE DEF u, e, n
  <2>11. Begun'
    <3>1. ASSUME NEW x \in page.throughout
          PROVE  /\ x[2] = "catalogue" => \E i \in 1..page.length : Cell(i)' = x[1]
                 /\ x[2] # "catalogue" => x[1] \notin page'.config
      BY <1>3, <2>1, <2>3, <2>10, <3>1 DEF Begun
    <3>. QED
      BY <1>2, <2>8, <3>1 DEF Begun
  <2>12. Filtering'
    <3>1. page'.next \in 1..page'.length + 1 /\ page'.next - 1 = n
      BY <1>2, <2>2
    <3>2. \A i \in 1..n : i = n \/ i \in 1..n - 1
      BY <2>2
    <3>3. \A v \in page'.config : \E i \in 1..n : Cell(i)' = v
      <4>1. \A v \in page.config : \E i \in 1..n - 1 : Cell(i) = v
        BY <1>1, <2>1 DEF Filtering, n
      <4>2. n \in 1..n /\ \A i \in 1..n - 1 : i \in 1..n
        BY <2>2
      <4>3. Cell(n) = u
        BY DEF n, u
      <4>. QED
        BY <1>3, <2>3, <4>1, <4>2, <4>3
    <3>4. \A x \in ToSet(page'.shown) : x[2] = "catalogue" /\ x[1] \in page'.config
      BY <1>3, <2>6, <2>7, <2>8
    <3>5. ASSUME NEW x \in page'.throughout, NEW i \in 1..n,
                 x[2] = "catalogue", Cell(i)' = x[1]
          PROVE  x \in ToSet(page'.shown)
      <4>1. CASE i = n
        <5>1. x[1] = u
          BY <2>3, <3>5, <4>1 DEF u, n
        <5>. QED
          BY <1>2, <2>8, <2>10, <3>5, <5>1
      <4>2. CASE i \in 1..n - 1
        <5>1. x \in ToSet(page.shown)
          BY <1>1, <1>2, <2>1, <2>3, <3>5, <4>2 DEF Filtering, n
        <5>. QED
          BY <2>8, <5>1
      <4>. QED
        BY <3>2, <4>1, <4>2
    <3>. QED
      BY <3>1, <3>3, <3>4, <3>5 DEF Filtering
  <2>13. Discovering' /\ PageIsRight'
    BY <1>2 DEF Discovering, PageIsRight
  <2>. QED
    BY <2>3, <2>11, <2>12, <2>13
<1>. QED
  BY <1>2, <1>4, <1>5 DEF PageInv

LEMMA PageFilteredKeeps ==
    ASSUME PageInv, focus = "page", PageFiltered,
           UNCHANGED <<healthVars, overrideVars, focus, admitted>>
    PROVE  PageInv'
<1>1. page.pc = "catalogue" /\ page.next > page.length /\ DOMAIN page = Fields
      /\ page.found = {}
  BY DEF PageFiltered, PageInv
<1>2. /\ page'.pc = "discovered" /\ page'.admin = page.admin /\ page'.length = page.length
      /\ page'.apps = page.apps /\ page'.throughout = page.throughout /\ page'.next = 1
      /\ page'.config = page.config /\ page'.shown = page.shown
      /\ page'.shifted = page.shifted /\ page'.found = {} /\ DOMAIN page' = Fields
  BY <1>1 DEF PageFiltered, Fields
<1>3. ArrayOK'
  BY DEF PageInv, ArrayOK, healthVars
<1>4. ASSUME ~page.shifted PROVE Owes' /\ Begun' /\ Filtering' /\ Discovering' /\ PageIsRight'
  <2>1. Owes /\ Begun /\ Filtering
    BY <1>1, <1>4 DEF PageInv
  <2>2. Owes' /\ \A i : Cell(i)' = Cell(i)
    BY <1>2, <2>1, PageStands
  <2>3. Begun'
    BY <1>2, <2>1, <2>2 DEF Begun
  <2>4. page.next - 1 = page.length /\ Len(SourceOrder) \in Nat
    BY <1>1, <2>1, HealthConstants DEF Filtering, Owes
  <2>5. \A x \in page.throughout : x[2] = "catalogue" => x \in ToSet(page.shown)
    BY <1>1, <2>1, <2>4 DEF Begun, Filtering
  <2>6. \A x \in ToSet(page.shown) : x[2] = "catalogue"
    BY <1>1, <2>1 DEF Filtering
  <2>7. \A s : ~Asked(s)'
    BY <1>2 DEF Asked
  <2>8. Discovering'
    BY <1>2, <2>4, <2>5, <2>6, <2>7 DEF Discovering
  <2>. QED
    BY <1>2, <2>2, <2>3, <2>8 DEF Filtering, PageIsRight
<1>. QED
  BY <1>2, <1>3, <1>4 DEF PageInv

\* The list of a source is copied: what is owed of it has still to be looked up.
LEMMA PageSourceKeeps ==
    ASSUME PageInv, focus = "page", PageSource,
           UNCHANGED <<healthVars, overrideVars, focus, admitted>>
    PROVE  PageInv'
<1> DEFINE s == SourceOrder[page.next]
           n == page.next
<1>1. page.pc = "discovered" /\ n <= Len(SourceOrder) /\ DOMAIN page = Fields
      /\ page' = [page EXCEPT !.next = @ + 1, !.found = listed[s]] /\ page.found = {}
  BY DEF PageSource, PageInv
<1>2. /\ page'.pc = "discovered" /\ page'.admin = page.admin /\ page'.length = page.length
      /\ page'.apps = page.apps /\ page'.throughout = page.throughout /\ page'.next = n + 1
      /\ page'.config = page.config /\ page'.shown = page.shown /\ page'.found = listed[s]
      /\ page'.shifted = page.shifted /\ DOMAIN page' = Fields
  BY <1>1 DEF Fields
<1>3. ArrayOK'
  BY DEF PageInv, ArrayOK, healthVars
<1>4. ASSUME ~page.shifted PROVE Owes' /\ Begun' /\ Filtering' /\ Discovering' /\ PageIsRight'
  <2>1. ArrayOK /\ Owes /\ Begun /\ Discovering
    BY <1>1, <1>4 DEF PageInv
  <2>2. Owes' /\ \A i : Cell(i)' = Cell(i)
    BY <1>2, <2>1, PageStands
  <2>3. n \in 1..Len(SourceOrder) /\ n + 1 \in 1..Len(SourceOrder) + 1 /\ s \in Sources
        /\ page.admin \in BOOLEAN /\ Len(SourceOrder) \in Nat
    BY <1>1, <2>1, HealthConstants DEF Discovering, Owes
  <2>4. listed[s] \subseteq Urls /\ s # "catalogue"
    BY <2>1, <2>3, ViewConstants DEF ArrayOK
  <2>5. Current' = s
    <3>1. page'.next - 1 = n
      BY <1>2, <2>3
    <3>. QED
      BY <3>1 DEF Current
  <2>6. ~Asked(s) /\ \A t : Asked(t)' <=> Asked(t) \/ t = s
    <3>1. \A i \in 1..n - 1 : i \in DOMAIN SourceOrder /\ n \in DOMAIN SourceOrder /\ i # n
      BY <2>3, HealthConstants
    <3>2. ~Asked(s)
      BY <3>1, HealthConstants DEF Asked
    <3>3. \A i : i \in 1..page'.next - 1 <=> i \in 1..n - 1 \/ i = n
      BY <1>2, <2>3
    <3>4. ASSUME NEW t PROVE Asked(t)' <=> Asked(t) \/ t = s
      BY <3>3 DEF Asked
    <3>. QED
      BY <3>2, <3>4
  <2>7. Begun'
    BY <1>2, <2>1, <2>2 DEF Begun
  <2>8. ASSUME NEW x \in page.throughout, x[2] = s PROVE x[1] \in listed[s]
    <3>1. x \in Visible[page.admin]
      BY <2>1 DEF Owes
    <3>. QED
      BY <2>3, <2>4, <2>8, <3>1, VisibleIs
  <2> HIDE DEF s, n
  <2>9. ASSUME NEW x \in ToSet(page'.shown), x[2] # "catalogue"
        PROVE  /\ x[1] \notin page'.config /\ Asked(x[2])'
               /\ x[1] \in page'.found => x[2] # Current'
    BY <1>1, <1>2, <2>1, <2>5, <2>6, <2>9 DEF Discovering
  <2>10. ASSUME NEW x \in page'.throughout, x[2] = "catalogue" \/ Asked(x[2])'
         PROVE  x \in ToSet(page'.shown) \/ (x[1] \in page'.found /\ x[2] = Current')
    <3>1. CASE x[2] = s
      BY <1>2, <2>5, <2>8, <2>10, <3>1
    <3>2. CASE x[2] # s
      BY <1>1, <1>2, <2>1, <2>6, <2>10, <3>2 DEF Discovering
    <3>. QED
      BY <3>1, <3>2
  <2>11. page'.next \in 1..Len(SourceOrder) + 1 /\ page'.next # 1 /\ page'.found \subseteq Urls
    BY <1>2, <2>3, <2>4
  <2>12. Discovering'
    BY <2>9, <2>10, <2>11 DEF Discovering
  <2>. QED
    BY <1>2, <2>2, <2>7, <2>12 DEF Filtering, PageIsRight
<1>. QED
  BY <1>2, <1>3, <1>4 DEF PageInv

\* The override of one URL of the list is looked up: if it is owed, it is shown.
LEMMA PageOverrideKeeps ==
    ASSUME PageInv, focus = "page", NEW u \in Urls, PageOverride(u),
           UNCHANGED <<healthVars, overrideVars, focus, admitted>>
    PROVE  PageInv'
<1> DEFINE e == <<u, Current>>
           fits == u \notin page.config /\ MayDiscover(u, page.admin)
<1>1. page.pc = "discovered" /\ u \in page.found /\ DOMAIN page = Fields
      /\ page' = [page EXCEPT !.found = @ \ {u}, !.shown = IF fits THEN Append(@, e) ELSE @]
  BY DEF PageOverride, PageInv
<1>2. /\ page'.pc = "discovered" /\ page'.admin = page.admin /\ page'.length = page.length
      /\ page'.apps = page.apps /\ page'.throughout = page.throughout
      /\ page'.next = page.next /\ page'.config = page.config
      /\ page'.found = page.found \ {u} /\ page'.shifted = page.shifted
      /\ page'.shown = IF fits THEN Append(page.shown, e) ELSE page.shown
      /\ DOMAIN page' = Fields
  BY <1>1 DEF Fields
<1>3. ArrayOK'
  BY DEF PageInv, ArrayOK, healthVars
<1>4. ASSUME ~page.shifted PROVE Owes' /\ Begun' /\ Filtering' /\ Discovering' /\ PageIsRight'
  <2>1. Owes /\ Begun /\ Discovering
    BY <1>1, <1>4 DEF PageInv
  <2>2. Owes' /\ \A i : Cell(i)' = Cell(i)
    BY <1>2, <2>1, PageStands
  <2>3. page.next - 1 \in 1..Len(SourceOrder) /\ page.next \in 1..Len(SourceOrder) + 1
        /\ page.admin \in BOOLEAN /\ page.found \subseteq Urls /\ page.next # 1
    BY <1>1, <2>1, HealthConstants DEF Discovering, Owes
  <2>4. Current \in Sources /\ Current # "catalogue" /\ Asked(Current)
    BY <2>3, HealthConstants, ViewConstants DEF Current, Asked
  <2>5. Current' = Current /\ \A t : Asked(t)' <=> Asked(t)
    BY <1>2 DEF Current, Asked
  <2>6. e \in Urls \X Via /\ e \notin ToSet(page.shown) /\ e[1] = u /\ e[2] = Current
    BY <1>1, <2>1, <2>4 DEF Via, Discovering
  <2>7. ASSUME NEW x \in page.throughout, x[1] = u, x[2] = Current PROVE fits /\ x = e
    <3>1. x \in Visible[page.admin] /\ u \notin page.config
      BY <2>1, <2>4, <2>7 DEF Owes, Begun
    <3>. QED
      BY <2>3, <2>4, <2>7, <3>1, VisibleIs
  <2> HIDE DEF e
  <2>8. /\ page'.shown \in Seq(Urls \X Via) /\ IsInjective(page'.shown)
        /\ ToSet(page'.shown) = IF fits THEN ToSet(page.shown) \cup {e} ELSE ToSet(page.shown)
    <3>1. /\ Append(page.shown, e) \in Seq(Urls \X Via) /\ IsInjective(Append(page.shown, e))
          /\ ToSet(Append(page.shown, e)) = ToSet(page.shown) \cup {e}
      BY <2>1, <2>6, AppendIs DEF Begun
    <3>. QED
      BY <1>2, <2>1, <3>1 DEF Begun
  <2>9. fits => u \notin page.config
    OBVIOUS
  <2> HIDE DEF fits
  <2>10. Begun'
    BY <1>2, <2>1, <2>2, <2>8 DEF Begun
  <2>11. ASSUME NEW x \in ToSet(page'.shown), x[2] # "catalogue"
         PROVE  /\ x[1] \notin page'.config /\ Asked(x[2])'
                /\ x[1] \in page'.found => x[2] # Current'
    <3>1. CASE x \in ToSet(page.shown)
      BY <1>1, <1>2, <2>1, <2>5, <2>11, <3>1 DEF Discovering
    <3>2. CASE fits /\ x = e
      BY <1>2, <2>4, <2>5, <2>6, <2>9, <3>2
    <3>. QED
      BY <2>8, <2>11, <3>1, <3>2
  <2>12. ASSUME NEW x \in page'.throughout, x[2] = "catalogue" \/ Asked(x[2])'
         PROVE  x \in ToSet(page'.shown) \/ (x[1] \in page'.found /\ x[2] = Current')
    <3>1. x \in ToSet(page.shown) \/ (x[1] \in page.found /\ x[2] = Current)
      BY <1>1, <1>2, <2>1, <2>5, <2>12 DEF Discovering
    <3>2. CASE x[1] = u /\ x[2] = Current
      BY <1>2, <2>7, <2>8, <2>12, <3>2
    <3>3. CASE ~(x[1] = u /\ x[2] = Current)
      BY <1>2, <2>5, <2>8, <3>1, <3>3
    <3>. QED
      BY <3>2, <3>3
  <2>13. page'.next \in 1..Len(SourceOrder) + 1 /\ page'.next # 1 /\ page'.found \subseteq Urls
    BY <1>2, <2>3
  <2>14. Discovering'
    BY <2>11, <2>12, <2>13 DEF Discovering
  <2>. QED
    BY <1>2, <2>2, <2>10, <2>14 DEF Filtering, PageIsRight
<1>. QED
  BY <1>2, <1>3, <1>4 DEF PageInv

LEMMA PageDoneKeeps ==
    ASSUME PageInv, focus = "page", PageDone,
           UNCHANGED <<healthVars, overrideVars, focus, admitted>>
    PROVE  PageInv'
<1>1. page.pc = "discovered" /\ page.next > Len(SourceOrder) /\ DOMAIN page = Fields
      /\ page.found = {}
  BY DEF PageDone, PageInv
<1>2. /\ page'.pc = "done" /\ page'.admin = page.admin /\ page'.length = page.length
      /\ page'.apps = page.apps /\ page'.throughout = page.throughout
      /\ page'.config = page.config /\ page'.shown = page.shown
      /\ page'.shifted = page.shifted /\ page'.found = {} /\ DOMAIN page' = Fields
  BY <1>1 DEF PageDone, Fields
<1>3. ArrayOK'
  BY DEF PageInv, ArrayOK, healthVars
<1>4. ASSUME ~page.shifted PROVE Owes' /\ Begun' /\ Filtering' /\ Discovering' /\ PageIsRight'
  <2>1. Owes /\ Begun /\ Discovering
    BY <1>1, <1>4 DEF PageInv
  <2>2. Owes' /\ \A i : Cell(i)' = Cell(i)
    BY <1>2, <2>1, PageStands
  <2>3. Begun'
    BY <1>2, <2>1, <2>2 DEF Begun
  <2>4. \A s \in Sources : Asked(s)
    <3>1. page.next - 1 = Len(SourceOrder)
      BY <1>1, <2>1, HealthConstants DEF Discovering
    <3>. QED
      BY <3>1, HealthConstants DEF Asked
  <2>5. ASSUME NEW x \in page.throughout PROVE x \in ToSet(page.shown)
    <3>1. x[2] = "catalogue" \/ x[2] \in Sources
      BY <2>1, VisibleIs DEF Owes
    <3>. QED
      BY <1>1, <2>1, <2>4, <3>1 DEF Discovering
  <2>6. \A x \in ToSet(page.shown) : x[2] # "catalogue" => x[1] \notin page.config
    BY <1>1, <2>1 DEF Discovering
  <2>7. PageIsRight'
    BY <1>2, <2>1, <2>5, <2>6 DEF PageIsRight, Begun
  <2>. QED
    BY <1>2, <2>2, <2>3, <2>7 DEF Filtering, Discovering
<1>. QED
  BY <1>2, <1>3, <1>4 DEF PageInv

\* Edits beside a page: the array it reads keeps what it has still to read, and what is
\* not visible any more is not owed.
LEMMA DetachKeeps ==
    ASSUME PageInv, focus = "page", page.pc \in {"catalogue", "discovered"}, ArrayOK',
           NEW moved \in BOOLEAN, NEW deleted \in BOOLEAN, Detach(moved, deleted), UNCHANGED focus,
           ~deleted => /\ size <= size' /\ \A i \in 1..size : cells'[i] = cells[i]
    PROVE  PageInv'
<1>1. /\ DOMAIN page = Fields
      /\ page' = [page EXCEPT !.apps = IF moved /\ @ = Shared THEN cells ELSE @,
                              !.throughout = @ \cap Visible'[page.admin],
                              !.shifted = @ \/ deleted]
  BY DEF Detach, PageInv
<1>2. /\ page'.pc = page.pc /\ page'.admin = page.admin /\ page'.length = page.length
      /\ page'.next = page.next /\ page'.config = page.config /\ page'.shown = page.shown
      /\ page'.found = page.found
      /\ page'.apps = IF moved /\ page.apps = Shared THEN cells ELSE page.apps
      /\ page'.throughout = page.throughout \cap Visible'[page.admin]
      /\ DOMAIN page' = Fields
  BY <1>1 DEF Fields
<1>3. page'.shifted = (page.shifted \/ deleted)
  BY <1>1 DEF Fields
<1>4. ASSUME ~page'.shifted
      PROVE  Owes' /\ Begun' /\ Filtering' /\ Discovering' /\ PageIsRight'
  <2>1. ~page.shifted /\ ~deleted
    BY <1>3, <1>4
  <2>2. ArrayOK /\ Owes /\ Begun /\ Filtering /\ Discovering
    BY <2>1 DEF PageInv
  <2>3. size \in Nat /\ size' \in Nat /\ page.length \in 0..size /\ page.length \in 0..size'
        /\ \A i \in 1..page.length : i \in 1..size
    BY <2>1, <2>2 DEF ArrayOK, Owes
  <2>4. \A i \in 1..page.length : Cell(i) = cells[i] /\ cells'[i] = cells[i]
    BY <2>1, <2>2, <2>3 DEF Owes
  <2>5. ASSUME NEW i \in 1..page.length PROVE Cell(i)' = Cell(i)
    <3>1. CASE page.apps # Shared
      BY <1>2, <3>1 DEF Cell
    <3>2. CASE page.apps = Shared /\ moved
      <4>1. cells # Shared
        <5>1. cells[1] \in Urls
          BY <2>2, <2>3, <2>5 DEF ArrayOK
        <5>. QED
          BY <5>1, ViewConstants DEF Shared
      <4>2. page'.apps = cells
        BY <1>2, <3>2
      <4>. QED
        BY <2>4, <3>2, <4>1, <4>2 DEF Cell
    <3>3. CASE page.apps = Shared /\ ~moved
      <4>1. page'.apps = Shared
        BY <1>2, <3>3
      <4>. QED
        BY <2>4, <3>3, <4>1 DEF Cell
    <3>. QED
      BY <3>1, <3>2, <3>3
  <2>6. page'.throughout \subseteq page.throughout
        /\ page'.throughout \subseteq Visible'[page'.admin]
    BY <1>2
  <2>7. Owes'
    <3>1. \A i \in 1..page'.length : Cell(i)' = cells'[i]
      BY <1>2, <2>4, <2>5
    <3>. QED
      BY <1>2, <2>2, <2>3, <2>6, <3>1 DEF Owes
  <2>8. Begun'
    BY <1>2, <2>2, <2>5, <2>6 DEF Begun
  <2>9. Filtering'
    <3> SUFFICES ASSUME page.pc = "catalogue" PROVE Filtering'
      BY <1>2 DEF Filtering
    <3>1. \A i \in 1..page.next - 1 : i \in 1..page.length /\ Cell(i)' = Cell(i)
      BY <2>2, <2>3, <2>5 DEF Filtering
    <3>. QED
      BY <1>2, <2>2, <2>6, <3>1 DEF Filtering
  <2>10. Discovering'
    <3>1. Current' = Current /\ \A s : Asked(s)' <=> Asked(s)
      BY <1>2 DEF Asked, Current
    <3>. QED
      BY <1>2, <2>2, <2>6, <3>1 DEF Discovering
  <2>. QED
    BY <1>2, <2>7, <2>8, <2>9, <2>10 DEF PageIsRight
<1>. QED
  BY <1>2, <1>4 DEF PageInv

LEMMA PageChangesKeep == PageInv /\ PageChanges => PageInv'
<1> SUFFICES ASSUME PageInv, PageChanges PROVE PageInv'
  OBVIOUS
<1>1. /\ focus = "page" /\ page.pc \in {"catalogue", "discovered"} /\ UNCHANGED focus
      /\ ArrayOK /\ Moving \subseteq Urls
  BY ViewConstants DEF PageChanges, PageInv
<1>2. size \in Nat /\ NewArray \in BOOLEAN /\ (size = 1) \in BOOLEAN
  BY <1>1 DEF ArrayOK, NewArray
<1>3. ASSUME NEW moved \in BOOLEAN, Detach(moved, FALSE), ArrayOK', size <= size',
             \A i \in 1..size : cells'[i] = cells[i]
      PROVE  PageInv'
  <2> DEFINE deleted == FALSE
  <2>1. deleted \in BOOLEAN /\ ~deleted /\ Detach(moved, deleted)
    BY <1>3
  <2> HIDE DEF deleted
  <2>. QED
    BY <1>1, <1>3, <2>1, DetachKeeps
<1>4. ASSUME NEW u \in Urls, AddApp(u), Detach(NewArray, FALSE) PROVE PageInv'
  <2>1. ArrayOK' /\ size <= size' /\ \A i \in 1..size : cells'[i] = cells[i]
    BY <1>1, <1>2, <1>4, AddKeepsArray
  <2>. QED
    BY <1>2, <1>3, <1>4, <2>1
<1>5. ASSUME NEW i \in 1..size, RemoveApp(i), Detach(size = 1, TRUE) PROVE PageInv'
  BY <1>1, <1>2, <1>5, RemoveKeepsArray, DetachKeeps
<1>6. ASSUME ArrayOK', UNCHANGED catalogueVars, Detach(FALSE, FALSE) PROVE PageInv'
  <2> DEFINE moved == FALSE
  <2>1. moved \in BOOLEAN /\ Detach(moved, FALSE)
    BY <1>6
  <2>2. size <= size' /\ \A i \in 1..size : cells'[i] = cells[i]
    BY <1>2, <1>6 DEF catalogueVars
  <2> HIDE DEF moved
  <2>. QED
    BY <1>3, <1>6, <2>1, <2>2
<1>7. ASSUME NEW s \in Sources, NEW us \in SUBSET Moving, Publish(s, us), Detach(FALSE, FALSE)
      PROVE  PageInv'
  <2>1. ArrayOK' /\ UNCHANGED catalogueVars
    BY <1>1, <1>7 DEF ArrayOK, Publish, catalogueVars
  <2>. QED
    BY <1>6, <1>7, <2>1
<1>8. ASSUME UNCHANGED healthVars, Detach(FALSE, FALSE) PROVE PageInv'
  BY <1>1, <1>6, <1>8 DEF ArrayOK, healthVars, catalogueVars
<1>9. ASSUME NEW i \in 1..size, NEW u \in Urls, EditApp(i, u), Detach(size = 1, TRUE)
      PROVE  PageInv'
  BY <1>1, <1>2, <1>9, EditKeepsArray, DetachKeeps
<1>. QED
  BY <1>4, <1>5, <1>7, <1>8, <1>9 DEF PageChanges

LEMMA PageStep == PageInv /\ [ViewNext]_vars => PageInv'
<1> SUFFICES ASSUME PageInv, [ViewNext]_vars PROVE PageInv'
  OBVIOUS
<1>1. CASE focus # "page" /\ UNCHANGED <<focus, page>>
  BY <1>1 DEF PageInv
<1>2. CASE HealthChanges
  <2>1. page.pc = "idle" /\ focus = "health" /\ UNCHANGED focus
    BY <1>2 DEF HealthChanges, PageInv
  <2>2. UNCHANGED page
    BY <1>2, <2>1 DEF HealthChanges, Detach
  <2>. QED
    BY <1>1, <2>1, <2>2
<1>3. CASE HealthSteps \/ OverrideSteps
  BY <1>1, <1>3 DEF HealthSteps, HealthAlone, OverrideSteps, viewVars
<1>4. CASE PageSteps
  <2>1. focus = "page" /\ UNCHANGED <<healthVars, overrideVars, focus, admitted>>
    BY <1>4 DEF PageSteps
  <2>2. CASE PageSent
    BY <2>1, <2>2, NoPageIs DEF PageSent, PageInv, ArrayOK, healthVars
  <2>. QED
    BY <1>4, <2>1, <2>2, PageBeginKeeps, PageFilterKeeps, PageFilteredKeeps, PageSourceKeeps,
       PageOverrideKeeps, PageDoneKeeps DEF PageSteps
<1>5. CASE PageChanges
  BY <1>5, PageChangesKeep
<1>6. CASE UNCHANGED vars
  <2>1. UNCHANGED <<focus, page, cells, size, listed, cache, admitted>>
    BY <1>6 DEF vars, healthVars, overrideVars, viewVars
  <2>2. Visible' = Visible /\ \A i : Cell(i)' = Cell(i)
    BY <2>1 DEF Visible, Catalogue, InCatalogue, MayDiscover, Cell
  <2>. QED
    BY <2>1, <2>2 DEF PageInv, ArrayOK, Owes, Begun, Filtering, Discovering, Asked, Current,
          PageIsRight
<1>. QED
  BY <1>2, <1>3, <1>4, <1>5, <1>6 DEF ViewNext

\* A page that is ready shows nothing twice of the catalogue or of one source, nothing
\* discovered that the catalogue has given it, and all that was visible in one way all the
\* while, whatever is added, published, overridden and admitted meanwhile: unless an
\* application was deleted or edited.
THEOREM PagesAreRight == ViewSpec => []PageIsRight
<1>1. ViewInit => PageInv
  BY PageInit
<1>2. PageInv /\ [ViewNext]_vars => PageInv'
  BY PageStep
<1>3. PageInv => PageIsRight
  BY DEF PageInv, PageIsRight
<1>. QED
  BY <1>1, <1>2, <1>3, PTL DEF ViewSpec
-----------------------------------------------------------------------------
(* The dashboard as a whole.                                                *)

\* What is found is among what can be found, and what is published is what the source
\* makes of it.
ListInv ==
    /\ focus = "lists" => input \in Inputs
    /\ output # None => focus = "lists" /\ output \in Published

LEMMA ListInvIsRight == ListInv => ListIsRight
<1>1. ASSUME ListInv, output # None PROVE ListIsRight
  BY <1>1, ParsersAreRight DEF ListInv
<1>. QED
  BY <1>1 DEF ListIsRight

LEMMA FocusStays == [ViewNext]_vars => focus' = focus
BY DEF ViewNext, HealthSteps, HealthAlone, HealthChanges, OverrideSteps, PageSteps, PageChanges,
       vars, viewVars

LEMMA ListStep == ListInv /\ [DashboardNext]_dashboardVars => ListInv'
<1> SUFFICES ASSUME ListInv, [DashboardNext]_dashboardVars PROVE ListInv'
  OBVIOUS
<1>1. Published' = Published \/ input' # input
  BY DEF Published
<1>2. CASE UNCHANGED <<focus, parseVars>>
  BY <1>1, <1>2 DEF ListInv, parseVars
<1>3. CASE focus = "lists" /\ Discover /\ UNCHANGED <<vars, tokenVars>>
  <2>1. UNCHANGED <<focus, input>> /\ output' \in Published
    BY <1>3, FocusStays DEF Discover
  <2>. QED
    BY <1>1, <1>3, <2>1 DEF ListInv
<1>4. CASE (ViewNext \/ UNCHANGED vars) /\ UNCHANGED parseVars
  BY <1>2, <1>4, FocusStays
<1>. QED
  BY <1>3, <1>4 DEF DashboardNext, dashboardVars, Npm

\* The list a source publishes holds what the source holds, once where the code does away
\* with repetitions, and nothing else: for all containers, routers, proxy hosts,
\* configuration files with their includes, and servers with their nested handlers, in
\* whatever order these are walked.
THEOREM ListsAreRight == DashboardSpec => []ListIsRight
<1>1. DashboardInit => ListInv
  BY DEF DashboardInit, ParseInit, ListInv
<1>. QED
  BY <1>1, ListStep, ListInvIsRight, PTL DEF DashboardSpec

\* Put together, the parts do what each does by itself: a step of Dashboard is a step of
\* the page and its surroundings or leaves them alone, and the same of the tokens.
THEOREM DashboardImplements == DashboardSpec => ViewSpec /\ TokensSpec
<1>1. DashboardInit => ViewInit /\ TokensInit
  BY DEF DashboardInit
<1>2. [DashboardNext]_dashboardVars => [ViewNext]_vars /\ [NpmStep \/ LdapStep]_tokenVars
  BY DEF DashboardNext, dashboardVars, Npm
<1>. QED
  BY <1>1, <1>2, PTL DEF DashboardSpec, ViewSpec, TokensSpec

\* So whatever is proved of a part holds of the whole: overrides, tokens, pages and lists
\* are right together.
THEOREM DashboardIsRight ==
    DashboardSpec => [](OverridesAgree /\ TokensAccepted /\ PageIsRight /\ ListIsRight)
BY DashboardImplements, CacheAgrees, SentTokensAccepted, PagesAreRight, ListsAreRight, PTL
==============================================================================
