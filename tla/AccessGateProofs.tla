-------------------------- MODULE AccessGateProofs --------------------------
(***************************************************************************)
(* Proofs about Credentials and AccessGate, for any number of requests at  *)
(* once, any settings, any limits and life times, and any mix of           *)
(* credentials.                                                            *)
(***************************************************************************)
EXTENDS AccessGate, FiniteSetTheorems, TLAPS

KeyRow == [prefix : Prefixes, groups : SUBSET Groups, expires : Nat, live : BOOLEAN]

IdentityOK ==
    /\ clock \in Nat /\ zone \in Int /\ issued \in Nat
    /\ DOMAIN sessions \subseteq 1..issued
    /\ \A t \in DOMAIN sessions : sessions[t] \in [user : DOMAIN users, expires : Int]
    /\ \A u \in DOMAIN users : users[u] \subseteq Groups
    /\ keys \in Seq(KeyRow)

Labels == {"idle", "filter", "flags", "key", "header", "session", "nobody", "rights",
           "answered"}

Asked == {r \in RequestType : Limited(r) => r.address \in Addresses}

Outcomes == Redirects \cup {"none", "page", "served", "login", "provider",
                             "401", "403", "429", "503"}

Work == [r : Asked, stage : {"gate", "handler"}, flags : [proxy : BOOLEAN, session : BOOLEAN],
         who : SUBSET Groups, answer : Outcomes]

Observation == [missed : SUBSET Ways, once : BOOLEAN, by : SUBSET Ways, steady : BOOLEAN]

Authenticating == {"flags", "key", "header", "session", "nobody", "rights"}

\* AutoLoginRedirect authenticates no public page, and two handlers nobody at all.
PageOK(w) ==
    /\ req[w].stage = "gate" => ~Public(req[w].r.page)
    /\ pc[w] \in Authenticating => req[w].r.page \notin {"/setup", "/auth/oidc"}

GateTypes ==
    /\ pc \in [Workers -> Labels]
    /\ req \in [Workers -> Work]
    /\ hops \in [Workers -> Nat]
    /\ witness \in [Workers -> Observation]
    /\ mode \in {"local", "hybrid", "authelia"}
    /\ \A w \in Workers : PageOK(w)

TypeOK == IdentityOK /\ GateTypes

-----------------------------------------------------------------------------
(* The kinds of steps.                                                      *)

\* No request changes an account, a session, a key or an OIDC state, nor the settings.
OnlyServes == UNCHANGED <<clock, zone, mix, identityVars, oidcVars, settings, mode>>

LEMMA ServeOnly ==
    ASSUME NEW w \in Workers, Serve(w)
    PROVE  OnlyServes
<1> USE DEF OnlyServes, Moves, Goto, Enter, credentials
<1>1. ASSUME NEW r \in Requests, Arrive(w, r) PROVE OnlyServes
  BY <1>1 DEF Arrive
<1>2. CASE ReadFlags(w)
  BY <1>2 DEF ReadFlags
<1>3. CASE ByKey(w)
  BY <1>3 DEF ByKey, Identified
<1>4. CASE ByHeader(w)
  BY <1>4 DEF ByHeader, Identified
<1>5. CASE BySession(w)
  BY <1>5 DEF BySession, Identified
<1>6. CASE Nobody(w)
  <2> DEFINE D(a) == Answers(w, a)
  <2>1. \E a : D(a)
    BY <1>6, Zenon DEF Nobody
  <2>. QED
    BY <2>1 DEF Answers
<1>7. CASE Rights(w)
  <2>1. \E a : Answers(w, a)
    BY <1>7, Zenon DEF Rights
  <2>. QED
    BY <2>1 DEF Answers
<1>8. CASE Filter(w)
  BY <1>8, Zenon DEF Filter
<1>9. CASE Follow(w)
  BY <1>9 DEF Follow
<1>10. CASE Finish(w)
  BY <1>10 DEF Finish
<1>. QED
  BY <1>1, <1>2, <1>3, <1>4, <1>5, <1>6, <1>7, <1>8, <1>9, <1>10, Zenon DEF Serve

\* Beside CredentialsNext the credentials change in the limiter only.
LEMMA Kinds ==
    ASSUME [GateNext]_vars
    PROVE  \/ \E w \in Workers : Serve(w) /\ OnlyServes /\ Watch
           \/ /\ UNCHANGED <<credentials, pc, req, hops>> /\ Watch
              /\ ApplySettings \/ \E s \in Settings : ChangeSettings(s)
           \/ CredentialsNext /\ Watch /\ UNCHANGED <<settings, mode, pc, req, hops>>
           \/ UNCHANGED vars
<1>1. CASE \E w \in Workers : Serve(w) /\ Watch
  BY <1>1, ServeOnly
<1>2. CASE Watch /\ ApplySettings
  BY <1>2 DEF ApplySettings
<1>3. ASSUME Watch, NEW s \in Settings, ChangeSettings(s)
      PROVE  UNCHANGED <<credentials, pc, req, hops>>
  BY <1>3 DEF ChangeSettings
<1>. QED
  BY <1>1, <1>2, <1>3 DEF GateNext

-----------------------------------------------------------------------------
(* Accounts, sessions and keys.                                             *)

LEMMA IdentityInit == CredentialsInit => IdentityOK
<1> SUFFICES ASSUME CredentialsInit PROVE IdentityOK
  OBVIOUS
<1>1. zone \in Int
  BY CredentialConstants DEF CredentialsInit
<1>. QED
  BY <1>1 DEF CredentialsInit, IdentityOK

\* What no step does: move the clock back, change a key but for deleting it, or bring
\* a session back.
Forward ==
    /\ clock <= clock' /\ zone' = zone
    /\ Len(keys) <= Len(keys')
    /\ \A k \in DOMAIN keys :
          /\ keys'[k].prefix = keys[k].prefix /\ keys'[k].groups = keys[k].groups
          /\ keys'[k].expires = keys[k].expires
          /\ keys'[k].live => keys[k].live
    /\ issued <= issued'
    /\ \A t \in 1..issued : t \in DOMAIN sessions' =>
          t \in DOMAIN sessions /\ sessions'[t].expires = sessions[t].expires

LEMMA SameIdentity ==
    ASSUME IdentityOK, UNCHANGED <<clock, zone, identityVars>>
    PROVE  IdentityOK' /\ Forward
BY DEF IdentityOK, Forward, identityVars

\* Sessions end, accounts of no remaining session may go with them.
LEMMA SessionsEnd ==
    ASSUME IdentityOK, NEW ts \in SUBSET DOMAIN sessions, Keep(ts),
           DOMAIN users' \subseteq DOMAIN users,
           \A u \in DOMAIN users' : users'[u] = users[u],
           \A t \in ts : sessions[t].user \in DOMAIN users'
    PROVE  IdentityOK' /\ Forward
BY DEF IdentityOK, Forward, Keep

LEMMA CredentialsStep ==
    ASSUME IdentityOK, CredentialsNext
    PROVE  IdentityOK' /\ Forward
<1> USE CredentialConstants
<1>1. CASE Tick
  BY <1>1 DEF Tick, IdentityOK, Forward, identityVars
<1>2. CASE CleanupExpiredSessions
  <2>1. \A t \in DOMAIN sessions : sessions[t].user \in DOMAIN users
    BY DEF IdentityOK
  <2>. QED
    BY <1>2, <2>1, SessionsEnd DEF CleanupExpiredSessions
<1>3. CASE SweepStates
  BY <1>3, SameIdentity DEF SweepStates
<1>4. CASE SweepAttempts
  BY <1>4, SameIdentity DEF SweepAttempts
<1>5. ASSUME NEW u \in Users, OpenSession(u) PROVE IdentityOK' /\ Forward
  <2>1. /\ issued' = issued + 1 /\ issued \in Nat
        /\ DOMAIN sessions' = DOMAIN sessions \cup {issued + 1}
        /\ \A t \in DOMAIN sessions : t # issued + 1 => sessions'[t] = sessions[t]
        /\ sessions'[issued + 1] = [user |-> u, expires |-> clock + SessionLife]
        /\ UNCHANGED <<clock, zone, users, keys>>
    BY <1>5 DEF OpenSession, With, IdentityOK
  <2>2. issued + 1 \notin DOMAIN sessions /\ u \in DOMAIN users
    BY <1>5, <2>1 DEF IdentityOK, OpenSession
  <2>3. \A t \in DOMAIN sessions' : sessions'[t] \in [user : DOMAIN users, expires : Int]
    BY <2>1, <2>2 DEF IdentityOK
  <2>. QED
    BY <2>1, <2>2, <2>3 DEF IdentityOK, Forward
<1>6. ASSUME NEW u \in Users, DeleteAccount(u) PROVE IdentityOK' /\ Forward
  <2> DEFINE ts == {t \in DOMAIN sessions : sessions[t].user # u}
  <2>1. \A t \in ts : sessions[t].user \in DOMAIN users \ {u}
    BY DEF IdentityOK
  <2>2. Keep(ts) /\ users' = [v \in DOMAIN users \ {u} |-> users[v]]
    BY <1>6 DEF DeleteAccount
  <2>. QED
    BY <2>1, <2>2, SessionsEnd
<1>7. ASSUME NEW u \in Users, NEW gs \in SUBSET Groups, ChangeGroups(u, gs)
      PROVE  IdentityOK' /\ Forward
  BY <1>7 DEF ChangeGroups, IdentityOK, Forward
<1>8. ASSUME NEW t \in 1..issued, EndSession(t) PROVE IdentityOK' /\ Forward
  <2>1. \A v \in DOMAIN sessions : sessions[v].user \in DOMAIN users
    BY DEF IdentityOK
  <2>. QED
    BY <1>8, <2>1, SessionsEnd DEF EndSession
<1>9. ASSUME NEW p \in Prefixes, NEW gs \in SUBSET Groups, NEW e \in {clock + 1, Never},
             CreateKey(p, gs, e)
      PROVE  IdentityOK' /\ Forward
  <2> DEFINE row == [prefix |-> p, groups |-> gs, expires |-> e, live |-> TRUE]
  <2>1. row \in KeyRow /\ keys \in Seq(KeyRow)
    BY DEF KeyRow, Never, IdentityOK
  <2>2. keys' = Append(keys, row) /\ UNCHANGED <<clock, zone, users, sessions, issued>>
    BY <1>9 DEF CreateKey
  <2> HIDE DEF row
  <2>3. keys' \in Seq(KeyRow) /\ Len(keys') = Len(keys) + 1
        /\ \A k \in DOMAIN keys : keys'[k] = keys[k]
    BY <2>1, <2>2
  <2>. QED
    BY <2>1, <2>2, <2>3 DEF IdentityOK, Forward
<1>10. ASSUME NEW k \in 1..MaxKeys, DeleteKey(k) PROVE IdentityOK' /\ Forward
  <2> DEFINE row == [keys[k] EXCEPT !.live = FALSE]
  <2>1. keys' = [keys EXCEPT ![k] = row] /\ k \in DOMAIN keys /\ keys \in Seq(KeyRow)
        /\ UNCHANGED <<clock, zone, users, sessions, issued>>
    BY <1>10 DEF DeleteKey, IdentityOK
  <2>2. keys[k] \in KeyRow
    BY <2>1
  <2>3. row \in KeyRow /\ row.prefix = keys[k].prefix /\ row.groups = keys[k].groups
        /\ row.expires = keys[k].expires
    BY <2>2 DEF KeyRow
  <2>4. row.live = FALSE
    BY <2>2 DEF KeyRow
  <2> HIDE DEF row
  <2>5. keys' \in Seq(KeyRow) /\ Len(keys') = Len(keys)
    BY <2>1, <2>3
  <2>6. \A j \in DOMAIN keys : keys'[j] = IF j = k THEN row ELSE keys[j]
    BY <2>1
  <2>. QED
    BY <2>1, <2>3, <2>4, <2>5, <2>6 DEF IdentityOK, Forward
<1>11. ASSUME NEW s \in States, BeginOidc(s) PROVE IdentityOK' /\ Forward
  BY <1>11, SameIdentity DEF BeginOidc
<1>12. ASSUME NEW s \in States, Callback(s) PROVE IdentityOK' /\ Forward
  BY <1>12, SameIdentity DEF Callback
<1>13. ASSUME NEW s \in States, DropState(s) PROVE IdentityOK' /\ Forward
  BY <1>13, SameIdentity DEF DropState
<1>. QED
  BY <1>1, <1>2, <1>3, <1>4, <1>5, <1>6, <1>7, <1>8, <1>9, <1>10, <1>11, <1>12, <1>13,
     Zenon DEF CredentialsNext

LEMMA IdentityStep ==
    ASSUME IdentityOK, [GateNext]_vars
    PROVE  IdentityOK' /\ Forward
<1>1. CASE OnlyServes
  BY <1>1, SameIdentity DEF OnlyServes
<1>2. CASE UNCHANGED credentials
  BY <1>2, SameIdentity DEF credentials
<1>. QED
  BY <1>1, <1>2, CredentialsStep, Kinds DEF vars

\* The accounts, sessions and keys are well-formed: the part of the type invariant
\* that the credentials need by themselves.
LEMMA IdentityAlways == GateSpec => []IdentityOK
<1>1. GateInit => IdentityOK
  BY IdentityInit DEF GateInit
<1>. QED
  BY <1>1, IdentityStep, PTL DEF GateSpec

-----------------------------------------------------------------------------
(* API keys.                                                                *)

\* A key made before that is usable now was usable before, and among the same prefix.
LEMMA UsableBefore ==
    ASSUME IdentityOK, IdentityOK', Forward, NEW k \in DOMAIN keys, Usable(k)'
    PROVE  Usable(k)
<1>1. keys[k] \in KeyRow /\ clock \in Nat /\ clock' \in Nat
  BY DEF IdentityOK
<1>2. keys[k].expires \in Nat
  BY <1>1 DEF KeyRow
<1>3. keys'[k].live /\ clock' <= keys'[k].expires
  BY DEF Usable
<1>4. keys'[k].expires = keys[k].expires /\ (keys'[k].live => keys[k].live)
      /\ clock <= clock'
  BY DEF Forward
<1>5. keys[k].live
  BY <1>3, <1>4
<1>6. clock <= keys[k].expires
  BY <1>1, <1>2, <1>3, <1>4
<1>. QED
  BY <1>5, <1>6 DEF Usable

LEMMA BeforeFinite ==
    ASSUME NEW k \in Nat
    PROVE  IsFiniteSet(Before(k))
<1>1. IsFiniteSet(1..(k - 1))
  BY FS_Interval
<1>. QED
  BY <1>1, FS_Subset DEF Before

\* The keys before a key get fewer: later ones go behind it.
LEMMA BeforeShrinks ==
    ASSUME IdentityOK, IdentityOK', Forward, NEW k \in DOMAIN keys
    PROVE  Before(k)' \subseteq Before(k)
<1>1. /\ DOMAIN keys = 1..Len(keys) /\ Len(keys) \in Nat
      /\ DOMAIN keys' = 1..Len(keys') /\ Len(keys') \in Nat
  BY DEF IdentityOK
<1>2. SUFFICES ASSUME NEW j \in Before(k)' PROVE j \in Before(k)
  OBVIOUS
<1>3. j \in 1..(k - 1) /\ Usable(j)' /\ keys'[j].prefix = keys'[k].prefix
  BY <1>2 DEF Before
<1>4. j \in DOMAIN keys
  BY <1>1, <1>3
<1>5. Usable(j)
  BY <1>3, <1>4, UsableBefore
<1>6. keys[j].prefix = keys[k].prefix
  BY <1>3, <1>4 DEF Forward
<1>. QED
  BY <1>3, <1>5, <1>6 DEF Before

LEMMA FoundStays ==
    ASSUME IdentityOK, IdentityOK', Forward, NEW k \in DOMAIN keys, Found(k), Usable(k)'
    PROVE  Found(k)'
<1>1. k \in Nat
  BY DEF IdentityOK
<1>2. IsFiniteSet(Before(k))
  BY <1>1, BeforeFinite
<1>3. Before(k)' \in SUBSET Before(k)
  BY BeforeShrinks
<1>4. /\ Cardinality(Before(k)') <= Cardinality(Before(k))
      /\ IsFiniteSet(Before(k)')
  BY <1>2, <1>3, FS_Subset
<1>5. Cardinality(Before(k)') \in Nat /\ Cardinality(Before(k)) \in Nat
  BY <1>2, <1>4, FS_CardinalityType
<1>. QED
  BY <1>4, <1>5, CredentialConstants DEF Found

\* KeysKeepWorking: an API key that is found goes on being found until it expires or
\* is deleted, whatever keys are made meanwhile and however few are tried.
THEOREM KeysAlwaysKeepWorking == GateSpec => KeysKeepWorking
<1>1. ASSUME IdentityOK, [GateNext]_vars
      PROVE  [\A k \in DOMAIN keys : Found(k) /\ Usable(k)' => Found(k)']_credentials
  <2>1. IdentityOK' /\ Forward
    BY <1>1, IdentityStep
  <2>. QED
    BY <1>1, <2>1, FoundStays
<1>. QED
  BY <1>1, IdentityAlways, PTL DEF GateSpec, KeysKeepWorking

-----------------------------------------------------------------------------
(* OIDC states.                                                             *)

\* The table holds what was begun, under the time at which it was begun; what is young
\* and has not returned is there.
StatesInv ==
    /\ DOMAIN states \subseteq DOMAIN begun
    /\ \A s \in DOMAIN states : states[s] = begun[s]
    /\ \A s \in DOMAIN begun : begun[s] \in Nat
    /\ StatesWait

LEMMA StatesInit == GateInit => StatesInv
BY DEF GateInit, CredentialsInit, StatesInv, StatesWait

LEMMA SameStates ==
    ASSUME IdentityOK, Forward, IdentityOK', StatesInv, UNCHANGED oidcVars
    PROVE  StatesInv'
BY CredentialConstants DEF StatesInv, StatesWait, oidcVars, IdentityOK, Forward

LEMMA StatesStep ==
    ASSUME IdentityOK, StatesInv, [GateNext]_vars
    PROVE  StatesInv'
<1> USE CredentialConstants
<1>0. IdentityOK' /\ Forward
  BY IdentityStep
<1>1. CASE UNCHANGED oidcVars
  BY <1>0, <1>1, SameStates
<1>2. CASE SweepStates
  BY <1>2 DEF SweepStates, StatesInv, StatesWait, IdentityOK
<1>3. ASSUME NEW s \in States, BeginOidc(s) PROVE StatesInv'
  <2>1. /\ DOMAIN states' = DOMAIN states \cup {s} /\ DOMAIN begun' = DOMAIN begun \cup {s}
        /\ states'[s] = clock /\ begun'[s] = clock
        /\ \A r \in DOMAIN states : r # s => states'[r] = states[r]
        /\ \A r \in DOMAIN begun : r # s => begun'[r] = begun[r]
        /\ s \notin DOMAIN begun /\ UNCHANGED <<clock, returned>>
    BY <1>3 DEF BeginOidc, With
  <2>. QED
    BY <2>1 DEF StatesInv, StatesWait, IdentityOK
<1>4. ASSUME NEW s \in States, Callback(s) PROVE StatesInv'
  BY <1>4 DEF Callback, StatesInv, StatesWait, IdentityOK
<1>5. ASSUME NEW s \in States, DropState(s) PROVE StatesInv'
  BY <1>5 DEF DropState, StatesInv, StatesWait, IdentityOK
<1>6. CASE CredentialsNext
  <2>1. CASE Tick \/ CleanupExpiredSessions \/ SweepAttempts
    BY <1>1, <2>1 DEF Tick, CleanupExpiredSessions, Keep, SweepAttempts
  <2>2. ASSUME NEW u \in Users, OpenSession(u) \/ DeleteAccount(u) PROVE StatesInv'
    BY <1>1, <2>2 DEF OpenSession, DeleteAccount, Keep
  <2>3. ASSUME NEW u \in Users, NEW gs \in SUBSET Groups, ChangeGroups(u, gs)
        PROVE  StatesInv'
    BY <1>1, <2>3 DEF ChangeGroups
  <2>4. ASSUME NEW t \in 1..issued, EndSession(t) PROVE StatesInv'
    BY <1>1, <2>4 DEF EndSession, Keep
  <2>5. ASSUME NEW p \in Prefixes, NEW gs \in SUBSET Groups, NEW e \in {clock + 1, Never},
               CreateKey(p, gs, e)
        PROVE  StatesInv'
    BY <1>1, <2>5 DEF CreateKey
  <2>6. ASSUME NEW k \in 1..MaxKeys, DeleteKey(k) PROVE StatesInv'
    BY <1>1, <2>6 DEF DeleteKey
  <2>. QED
    BY <1>2, <1>3, <1>4, <1>5, <1>6, <2>1, <2>2, <2>3, <2>4, <2>5, <2>6, Zenon
       DEF CredentialsNext
<1>. QED
  BY <1>1, <1>6, Kinds DEF OnlyServes, vars, credentials

\* StatesWait: an OIDC login that comes back in time for the first time finds its
\* state, however many others begin, return and sweep meanwhile.
THEOREM StatesAlwaysWait == GateSpec => []StatesWait
<1>1. StatesInv => StatesWait
  BY DEF StatesInv
<1>. QED
  BY <1>1, IdentityAlways, StatesInit, StatesStep, PTL DEF GateSpec

-----------------------------------------------------------------------------
(* What each goroutine works on.                                            *)

LEMMA IdleWork == Idle \in Work
<1>1. NoRequest \in RequestType
  BY DEF NoRequest, RequestType, Pages, Redirects, NoKey, NoToken
<1>2. ~Limited(NoRequest)
  BY DEF NoRequest, Limited
<1>3. NoRequest \in Asked /\ NoFlags \in [proxy : BOOLEAN, session : BOOLEAN]
  BY <1>1, <1>2 DEF Asked, NoFlags
<1>4. "none" \in Outcomes
  BY DEF Outcomes
<1>. QED
  BY <1>3, <1>4 DEF Idle, Work

\* A goroutine goes on with something else; the others do not move.
LEMMA GotoEffect ==
    ASSUME GateTypes, NEW w \in Workers, NEW label, NEW what, Goto(w, label, what)
    PROVE  /\ pc'[w] = label /\ req'[w] = what
           /\ \A v \in Workers : v # w => pc'[v] = pc[v] /\ req'[v] = req[v]
           /\ label \in Labels => pc' \in [Workers -> Labels]
           /\ what \in Work => req' \in [Workers -> Work]
BY DEF Goto, GateTypes

LEMMA SettingsReadType == SettingsRead \in [proxy : BOOLEAN, session : BOOLEAN]
BY DEF SettingsRead

\* What a request becomes in each kind of step.
LEMMA WorkAnswer ==
    ASSUME NEW q \in Work, NEW a \in Outcomes
    PROVE  /\ [q EXCEPT !.answer = a] \in Work
           /\ [q EXCEPT !.answer = a].answer = a /\ [q EXCEPT !.answer = a].r = q.r
           /\ [q EXCEPT !.answer = a].stage = q.stage
           /\ [q EXCEPT !.answer = a].flags = q.flags
           /\ [q EXCEPT !.answer = a].who = q.who
BY DEF Work

LEMMA WorkFlags ==
    ASSUME NEW q \in Work, NEW f \in [proxy : BOOLEAN, session : BOOLEAN]
    PROVE  /\ [q EXCEPT !.flags = f] \in Work
           /\ [q EXCEPT !.flags = f].flags = f /\ [q EXCEPT !.flags = f].r = q.r
           /\ [q EXCEPT !.flags = f].stage = q.stage
BY DEF Work

LEMMA WorkStage ==
    ASSUME NEW q \in Work
    PROVE  /\ [q EXCEPT !.stage = "handler"] \in Work
           /\ [q EXCEPT !.stage = "handler"].r = q.r
BY DEF Work

LEMMA WorkWho ==
    ASSUME NEW q \in Work, NEW gs \in SUBSET Groups
    PROVE  /\ [q EXCEPT !.who = gs] \in Work
           /\ [q EXCEPT !.who = gs].who = gs /\ [q EXCEPT !.who = gs].r = q.r
           /\ [q EXCEPT !.who = gs].stage = q.stage
BY DEF Work

\* A request that arrives, or that a browser makes because it was told to.
LEMMA EnterEffect ==
    ASSUME GateTypes, NEW w \in Workers, NEW r \in Asked, Enter(w, r)
    PROVE  /\ pc'[w] = IF Public(r.page) THEN "filter" ELSE "flags"
           /\ req'[w].r = r
           /\ \A v \in Workers : v # w => pc'[v] = pc[v] /\ req'[v] = req[v]
           /\ pc' \in [Workers -> Labels] /\ req' \in [Workers -> Work]
<1> DEFINE q == [Idle EXCEPT !.r = r, !.stage = IF Public(r.page) THEN "handler" ELSE "gate"]
<1>1. q \in Work /\ q.r = r
  BY IdleWork DEF Work
<1>2. Goto(w, IF Public(r.page) THEN "filter" ELSE "flags", q)
  BY DEF Enter
<1> HIDE DEF q
<1>. QED
  BY <1>1, <1>2, GotoEffect DEF Labels

\* The groups of whoever a credential names.
LEMMA GroupsFound ==
    ASSUME IdentityOK, NEW r \in Asked
    PROVE  /\ KeyWorks(r) => keys[r.key].groups \in SUBSET Groups
           /\ r.groups \in SUBSET Groups
           /\ SessionWorks(r) => users[Holder(r)] \in SUBSET Groups
<1>1. KeyWorks(r) => keys[r.key] \in KeyRow
  BY DEF KeyWorks, Found, Usable, IdentityOK
<1>2. SessionWorks(r) => sessions[r.cookie] \in [user : DOMAIN users, expires : Int]
  BY DEF SessionWorks, Honoured, IdentityOK
<1>. QED
  BY <1>1, <1>2 DEF KeyRow, Asked, RequestType, Holder, IdentityOK

\* The request is answered: by Goto as Filter does it, or by Answers.
LEMMA AnswerEffect ==
    ASSUME GateTypes, NEW w \in Workers, NEW a \in Outcomes,
           Goto(w, "answered", [req[w] EXCEPT !.answer = a])
    PROVE  /\ pc'[w] = "answered" /\ req'[w].answer = a /\ req'[w].r = req[w].r
           /\ \A v \in Workers : v # w => pc'[v] = pc[v] /\ req'[v] = req[v]
           /\ pc' \in [Workers -> Labels] /\ req' \in [Workers -> Work]
<1> DEFINE q == [req[w] EXCEPT !.answer = a]
<1>1. req[w] \in Work
  BY DEF GateTypes
<1>2. q \in Work /\ q.answer = a /\ q.r = req[w].r
  BY <1>1, WorkAnswer
<1>3. Goto(w, "answered", q)
  OBVIOUS
<1> HIDE DEF q
<1>. QED
  BY <1>2, <1>3, GotoEffect DEF Labels

\* The answers a handler gives when it found nobody, or somebody.
LEMMA NobodyAnswers ==
    ASSUME NEW w \in Workers, Nobody(w)
    PROVE  \E a \in Outcomes : Answers(w, a) /\
              \/ /\ req[w].stage = "gate" /\ IsApi(req[w].r.page) /\ a = "401"
              \/ /\ req[w].stage = "gate" /\ ~IsApi(req[w].r.page)
                 /\ \E m \in ModesRead : a = GetAuthRedirectURL(m)
              \/ req[w].stage # "gate" /\ req[w].r.page = "/login" /\ a = "page"
              \/ /\ req[w].stage # "gate" /\ req[w].r.page # "/login"
                 /\ \E m \in ModesRead : a = IF LocalMode(m) THEN "/login" ELSE "401"
<1> DEFINE page == req[w].r.page
<1>1. CASE req[w].stage = "gate" /\ IsApi(page)
  BY <1>1 DEF Nobody, Outcomes
<1>2. CASE req[w].stage = "gate" /\ ~IsApi(page)
  <2>1. \E m \in ModesRead : Answers(w, GetAuthRedirectURL(m))
    BY <1>2, Zenon DEF Nobody
  <2>2. \A m : GetAuthRedirectURL(m) \in Outcomes
    BY DEF GetAuthRedirectURL, Outcomes, Redirects
  <2>. QED
    BY <1>2, <2>1, <2>2
<1>3. CASE req[w].stage # "gate" /\ page = "/login"
  BY <1>3 DEF Nobody, Outcomes
<1>4. CASE req[w].stage # "gate" /\ page # "/login"
  <2>1. PICK m \in ModesRead : Answers(w, IF LocalMode(m) THEN "/login" ELSE "401")
    BY <1>4, Zenon DEF Nobody, ModesRead
  <2> DEFINE a == IF LocalMode(m) THEN "/login" ELSE "401"
  <2>2. a \in Outcomes
    BY DEF Outcomes, Redirects
  <2>. QED
    BY <1>4, <2>1, <2>2
<1>. QED
  BY <1>1, <1>2, <1>3, <1>4

LEMMA RightsAnswers ==
    ASSUME GateTypes, NEW w \in Workers, Rights(w)
    PROVE  \E a \in Outcomes : Answers(w, a) /\
              \/ req[w].r.page \in {"/login", "/api/auth/login"} /\ a = "/"
              \/ req[w].r.page = "/" /\ a = "page"
              \/ /\ req[w].r.page = "/api/admin"
                 /\ a = IF req[w].who \cap settings.admins # {} THEN "served" ELSE "403"
<1> DEFINE page == req[w].r.page
<1>1. req[w].r \in RequestType /\ pc[w] = "rights" /\ PageOK(w)
  BY DEF GateTypes, Work, Asked, Rights
<1>2. page \in Pages
  BY <1>1 DEF RequestType
<1>3. CASE page \in {"/login", "/api/auth/login"}
  BY <1>3 DEF Rights, Outcomes, Redirects
<1>4. CASE page = "/"
  BY <1>4 DEF Rights, Outcomes
<1>5. CASE page = "/api/admin"
  <2> DEFINE a == IF req[w].who \cap settings.admins # {} THEN "served" ELSE "403"
  <2>1. Answers(w, a)
    BY <1>5, Zenon DEF Rights
  <2>2. a \in Outcomes
    BY DEF Outcomes
  <2>. QED
    BY <1>5, <2>1, <2>2
<1>. QED
  BY <1>1, <1>2, <1>3, <1>4, <1>5 DEF PageOK, Authenticating, Pages, Redirects

\* The handlers that answer, and those that ask who it is.
Dispatched(w) ==
    LET page == req[w].r.page
    IN  \/ \E a \in Outcomes :
              /\ Goto(w, "answered", [req[w] EXCEPT !.answer = a])
              /\ \/ req[w].r.post /\ page \in {"/login", "/api/auth/login"} /\ a = "login"
                 \/ ~LoginAvailable /\ page \in {"/login", "/api/auth/login"} /\ a = "/"
                 \/ page = "/setup" /\ a = IF settings.fresh THEN "page" ELSE "/"
                 \/ page = "/auth/oidc" /\ a \in {"503", "provider"}
                 \/ page = "/" /\ settings.fresh /\ a = "/setup"
        \/ /\ Goto(w, "flags", req[w])
           /\ page \notin {"/setup", "/auth/oidc"}
           /\ page = "/login" => LoginAvailable

LEMMA DispatchCases ==
    ASSUME NEW w \in Workers, Dispatch(w)
    PROVE  Dispatched(w)
<1> DEFINE page == req[w].r.page
<1> USE DEF Outcomes, Redirects
<1>1. CASE page \in {"/login", "/api/auth/login"}
  BY <1>1 DEF Dispatch, Dispatched
<1>2. CASE page = "/setup"
  <2> DEFINE a == IF settings.fresh THEN "page" ELSE "/"
  <2>1. Goto(w, "answered", [req[w] EXCEPT !.answer = a])
    BY <1>2, Zenon DEF Dispatch
  <2>. QED
    BY <1>2, <2>1 DEF Dispatched
<1>3. CASE page = "/auth/oidc"
  <2>1. PICK a \in {"503", "provider"} : Goto(w, "answered", [req[w] EXCEPT !.answer = a])
    BY <1>3 DEF Dispatch
  <2>. QED
    BY <1>3, <2>1 DEF Dispatched
<1>4. CASE page = "/" /\ settings.fresh
  BY <1>4 DEF Dispatch, Dispatched
<1>5. CASE /\ page \notin {"/login", "/api/auth/login", "/setup", "/auth/oidc"}
           /\ ~(page = "/" /\ settings.fresh)
  BY <1>5 DEF Dispatch, Dispatched
<1>. QED
  BY <1>1, <1>2, <1>3, <1>4, <1>5

LEMMA FilterCases ==
    ASSUME NEW w \in Workers, Filter(w)
    PROVE  /\ pc[w] = "filter"
           /\ \/ /\ ~PassesCsrf(req[w].r)
                 /\ Goto(w, "answered", [req[w] EXCEPT !.answer = "403"])
              \/ /\ Limited(req[w].r)
                 /\ Goto(w, "answered", [req[w] EXCEPT !.answer = "429"])
              \/ PassesCsrf(req[w].r) /\ Dispatched(w)
           /\ \/ UNCHANGED limiterVars
              \/ Limited(req[w].r) /\ LimitAttempt(req[w].r.address)
           /\ UNCHANGED hops
<1>1. Dispatch(w) => Dispatched(w)
  BY DispatchCases
<1>. QED
  BY <1>1, Zenon DEF Filter

\* A goroutine goes on with the same request; its stage can only become "handler".
LEMMA MoveTypes ==
    ASSUME GateTypes, NEW w \in Workers, NEW label \in Labels, NEW q \in Work,
           Goto(w, label, q), q.r = req[w].r, q.stage \in {req[w].stage, "handler"},
           label \in Authenticating => req[w].r.page \notin {"/setup", "/auth/oidc"}
    PROVE  /\ pc' \in [Workers -> Labels] /\ req' \in [Workers -> Work]
           /\ \A v \in Workers : PageOK(v)'
<1>1. /\ pc' \in [Workers -> Labels] /\ req' \in [Workers -> Work]
      /\ pc'[w] = label /\ req'[w] = q
      /\ \A v \in Workers : v # w => pc'[v] = pc[v] /\ req'[v] = req[v]
  BY GotoEffect
<1>2. \A v \in Workers : PageOK(v)
  BY DEF GateTypes
<1>3. PageOK(w)'
  BY <1>1, <1>2 DEF PageOK
<1>4. ASSUME NEW v \in Workers, v # w PROVE PageOK(v)'
  BY <1>1, <1>2, <1>4 DEF PageOK
<1>. QED
  BY <1>1, <1>3, <1>4

\* What the steps have in common once pc and req are known.
Placed == /\ pc' \in [Workers -> Labels] /\ req' \in [Workers -> Work]
          /\ \A v \in Workers : PageOK(v)'

LEMMA AnswerPlaced ==
    ASSUME GateTypes, NEW w \in Workers, NEW a \in Outcomes,
           Goto(w, "answered", [req[w] EXCEPT !.answer = a])
    PROVE  Placed
<1> DEFINE q == [req[w] EXCEPT !.answer = a]
<1>1. req[w] \in Work
  BY DEF GateTypes
<1>2. q \in Work /\ q.r = req[w].r /\ q.stage = req[w].stage /\ Goto(w, "answered", q)
  BY <1>1, WorkAnswer
<1> HIDE DEF q
<1>. QED
  BY <1>2, MoveTypes DEF Placed, Labels, Authenticating

LEMMA EnterPlaced ==
    ASSUME GateTypes, NEW w \in Workers, NEW r \in Asked, Enter(w, r)
    PROVE  Placed
<1> DEFINE label == IF Public(r.page) THEN "filter" ELSE "flags"
           q == [Idle EXCEPT !.r = r, !.stage = IF Public(r.page) THEN "handler" ELSE "gate"]
<1>1. q \in Work /\ q.r = r /\ q.stage = IF Public(r.page) THEN "handler" ELSE "gate"
  BY IdleWork DEF Work
<1>2. label \in Labels /\ Goto(w, label, q)
  BY DEF Enter, Labels
<1>3. label \in Authenticating => ~Public(r.page)
  BY DEF Authenticating
<1>4. label \in Authenticating => r.page \notin {"/setup", "/auth/oidc"}
  BY <1>3 DEF Public
<1> HIDE DEF q, label
<1>5. /\ pc' \in [Workers -> Labels] /\ req' \in [Workers -> Work]
      /\ pc'[w] = label /\ req'[w] = q
      /\ \A v \in Workers : v # w => pc'[v] = pc[v] /\ req'[v] = req[v]
  BY <1>1, <1>2, GotoEffect
<1>6. \A v \in Workers : PageOK(v)
  BY DEF GateTypes
<1>7. PageOK(w)'
  BY <1>1, <1>4, <1>5 DEF PageOK
<1>8. ASSUME NEW v \in Workers, v # w PROVE PageOK(v)'
  BY <1>5, <1>6, <1>8 DEF PageOK
<1>. QED
  BY <1>5, <1>7, <1>8 DEF Placed

LEMMA IdentifiedPlaced ==
    ASSUME GateTypes, NEW w \in Workers, NEW gs \in SUBSET Groups, Identified(w, gs),
           pc[w] \in Authenticating
    PROVE  Placed
<1>0. req[w] \in Work /\ req[w].r.page \notin {"/setup", "/auth/oidc"}
  BY DEF GateTypes, PageOK
<1>1. CASE req[w].stage = "gate"
  <2> DEFINE q == [req[w] EXCEPT !.stage = "handler"]
  <2>1. q \in Work /\ Goto(w, "filter", q) /\ q.r = req[w].r /\ q.stage = "handler"
    BY <1>0, <1>1, WorkStage DEF Identified, Moves, Work
  <2> HIDE DEF q
  <2>. QED
    BY <2>1, <1>0, MoveTypes DEF Placed, Labels
<1>2. CASE req[w].stage # "gate"
  <2> DEFINE q == [req[w] EXCEPT !.who = gs]
  <2>1. q \in Work /\ Goto(w, "rights", q) /\ q.r = req[w].r /\ q.stage = req[w].stage
    BY <1>0, <1>2, WorkWho DEF Identified, Moves
  <2> HIDE DEF q
  <2>. QED
    BY <2>1, <1>0, MoveTypes DEF Placed, Labels
<1>. QED
  BY <1>1, <1>2

LEMMA SamePlaced ==
    ASSUME GateTypes, NEW w \in Workers, NEW label \in Labels, Goto(w, label, req[w]),
           label \in Authenticating => req[w].r.page \notin {"/setup", "/auth/oidc"}
    PROVE  Placed
<1>1. req[w] \in Work
  BY DEF GateTypes
<1>. QED
  BY <1>1, MoveTypes DEF Placed

LEMMA ServePlaced ==
    ASSUME TypeOK, NEW w \in Workers, Serve(w)
    PROVE  Placed
<1> USE DEF TypeOK
<1>0. req[w] \in Work /\ req[w].r \in Asked /\ PageOK(w)
  BY DEF GateTypes, Work
<1>1. ASSUME NEW r \in Requests, Arrive(w, r) PROVE Placed
  <2>1. r \in Asked /\ Enter(w, r)
    BY <1>1, GateConstants DEF Asked, Arrive
  <2>. QED
    BY <2>1, EnterPlaced
<1>2. CASE ReadFlags(w)
  <2> DEFINE q == [req[w] EXCEPT !.flags = SettingsRead]
  <2>1. q \in Work /\ q.r = req[w].r /\ q.stage = req[w].stage
    BY <1>0, WorkFlags, SettingsReadType
  <2>2. Goto(w, "key", q) /\ pc[w] = "flags"
    BY <1>2 DEF ReadFlags, Moves
  <2> HIDE DEF q
  <2>. QED
    BY <1>0, <2>1, <2>2, MoveTypes DEF Placed, Labels, PageOK, Authenticating
<1>3. CASE ByKey(w)
  BY <1>0, <1>3, GroupsFound, IdentifiedPlaced, SamePlaced
     DEF ByKey, Moves, Labels, Authenticating, PageOK
<1>4. CASE ByHeader(w)
  BY <1>0, <1>4, GroupsFound, IdentifiedPlaced, SamePlaced
     DEF ByHeader, Moves, Labels, Authenticating, PageOK
<1>5. CASE BySession(w)
  BY <1>0, <1>5, GroupsFound, IdentifiedPlaced, SamePlaced
     DEF BySession, Moves, Labels, Authenticating, PageOK
<1>6. CASE Nobody(w)
  BY <1>6, NobodyAnswers, AnswerPlaced DEF Answers, Moves
<1>7. CASE Rights(w)
  BY <1>7, RightsAnswers, AnswerPlaced DEF Answers, Moves
<1>8. CASE Filter(w)
  BY <1>8, FilterCases, AnswerPlaced, SamePlaced DEF Dispatched, Outcomes, Labels
<1>9. CASE Follow(w)
  <2> DEFINE r == [req[w].r EXCEPT !.page = req[w].answer, !.post = FALSE]
  <2>1. r \in RequestType
    BY <1>0, <1>9 DEF Follow, Asked, RequestType, Pages
  <2>2. r.post = FALSE
    BY <1>0 DEF Asked, RequestType
  <2>3. Enter(w, r)
    BY <1>9 DEF Follow
  <2> HIDE DEF r
  <2>. QED
    BY <2>1, <2>2, <2>3, EnterPlaced DEF Asked, Limited
<1>10. CASE Finish(w)
  <2>1. Goto(w, "idle", Idle)
    BY <1>10 DEF Finish
  <2>2. /\ pc' \in [Workers -> Labels] /\ req' \in [Workers -> Work]
        /\ pc'[w] = "idle" /\ req'[w] = Idle
        /\ \A v \in Workers : v # w => pc'[v] = pc[v] /\ req'[v] = req[v]
    BY <2>1, IdleWork, GotoEffect DEF Labels
  <2>3. PageOK(w)'
    BY <2>2 DEF PageOK, Authenticating, Idle, NoRequest, Public
  <2>4. ASSUME NEW v \in Workers, v # w PROVE PageOK(v)'
    BY <2>2, <2>4 DEF GateTypes, PageOK
  <2>. QED
    BY <2>2, <2>3, <2>4 DEF Placed
<1>. QED
  BY <1>1, <1>2, <1>3, <1>4, <1>5, <1>6, <1>7, <1>8, <1>9, <1>10, Zenon DEF Serve

-----------------------------------------------------------------------------
(* What the properties remember.                                            *)

LEMMA WatchEffect ==
    ASSUME GateTypes, Watch, NEW w \in Workers, pc'[w] # "idle"
    PROVE  /\ witness'[w].missed = witness[w].missed \cup Missing(req[w].r)'
           /\ witness'[w].once <=>
                 \/ witness[w].once
                 \/ \E c \in Administering(req[w].r)' : Ahead(c) \subseteq witness'[w].missed
           /\ witness'[w].by = {c \in witness[w].by \cap Administering(req[w].r)' :
                                   Ahead(c) \subseteq Missing(req[w].r)'}
           /\ witness'[w].steady => witness[w].steady /\ UNCHANGED <<settings, mode>>
<1>1. witness[w] \in Observation
  BY DEF GateTypes
<1>. QED
  BY <1>1 DEF Watch, Observation

LEMMA WatchTypes ==
    ASSUME GateTypes, Watch
    PROVE  witness' \in [Workers -> Observation]
<1>1. SUFFICES ASSUME NEW w \in Workers
               PROVE (IF pc'[w] = "idle" THEN Unwatched
                      ELSE LET missed == witness[w].missed \cup Missing(req[w].r)'
             IN  [missed |-> missed,
                  once   |-> \/ witness[w].once
                             \/ \E c \in Administering(req[w].r)' : Ahead(c) \subseteq missed,
                  by     |-> {c \in witness[w].by \cap Administering(req[w].r)' :
                                 Ahead(c) \subseteq Missing(req[w].r)'},
                  steady |-> witness[w].steady /\ UNCHANGED <<settings, mode>>])
                     \in Observation
  BY Zenon DEF Watch
<1>2. witness[w] \in Observation
  BY DEF GateTypes
<1>3. Missing(req[w].r)' \subseteq Ways
  BY DEF Missing
<1>4. witness[w].by \subseteq Ways
  BY <1>2 DEF Observation
<1>. QED
  BY <1>2, <1>3, <1>4 DEF Observation, Unwatched

LEMMA ModeTypes ==
    ASSUME GateTypes, [GateNext]_vars
    PROVE  mode' \in {"local", "hybrid", "authelia"}
<1>1. CASE ApplySettings
  BY <1>1 DEF ApplySettings, ModeOf
<1>2. CASE mode' = mode
  BY <1>2 DEF GateTypes
<1>. QED
  BY <1>1, <1>2, Kinds DEF OnlyServes, ChangeSettings, vars, gate

LEMMA HopsTypes ==
    ASSUME GateTypes, NEW w \in Workers, Serve(w)
    PROVE  hops' \in [Workers -> Nat]
<1>0. hops \in [Workers -> Nat]
  BY DEF GateTypes
<1>1. CASE UNCHANGED hops
  BY <1>0, <1>1
<1>2. CASE Follow(w)
  BY <1>0, <1>2 DEF Follow
<1>3. CASE Finish(w)
  BY <1>0, <1>3 DEF Finish
<1>4. ASSUME NEW r \in Requests, Arrive(w, r) PROVE UNCHANGED hops
  BY <1>4 DEF Arrive
<1>5. ReadFlags(w) \/ ByKey(w) \/ ByHeader(w) \/ BySession(w) => UNCHANGED hops
  BY DEF ReadFlags, ByKey, ByHeader, BySession, Identified, Moves
<1>6. Nobody(w) \/ Rights(w) => UNCHANGED hops
  BY NobodyAnswers, RightsAnswers DEF Answers, Moves
<1>7. Filter(w) => UNCHANGED hops
  BY FilterCases
<1>. QED
  BY <1>1, <1>2, <1>3, <1>4, <1>5, <1>6, <1>7, Zenon DEF Serve

LEMMA TypeInit == GateInit => TypeOK
<1> SUFFICES ASSUME GateInit PROVE TypeOK
  OBVIOUS
<1>1. IdentityOK
  BY IdentityInit DEF GateInit
<1>2. req \in [Workers -> Work] /\ pc \in [Workers -> Labels] /\ hops \in [Workers -> Nat]
  BY IdleWork DEF GateInit, Labels
<1>3. witness \in [Workers -> Observation]
  BY DEF GateInit, Observation, Unwatched
<1>4. mode \in {"local", "hybrid", "authelia"}
  BY DEF GateInit, ModeOf
<1>5. \A w \in Workers : PageOK(w)
  BY DEF GateInit, PageOK, Authenticating, Idle, NoRequest, Public
<1>. QED
  BY <1>1, <1>2, <1>3, <1>4, <1>5 DEF TypeOK, GateTypes

LEMMA TypeStep ==
    ASSUME TypeOK, [GateNext]_vars
    PROVE  TypeOK'
<1>1. IdentityOK'
  BY IdentityStep DEF TypeOK
<1>2. mode' \in {"local", "hybrid", "authelia"}
  BY ModeTypes DEF TypeOK
<1>3. ASSUME NEW w \in Workers, Serve(w), Watch PROVE GateTypes'
  <2>1. Placed /\ hops' \in [Workers -> Nat] /\ witness' \in [Workers -> Observation]
    BY <1>3, ServePlaced, HopsTypes, WatchTypes DEF TypeOK
  <2>. QED
    BY <1>2, <2>1 DEF Placed, GateTypes
<1>4. ASSUME UNCHANGED <<pc, req, hops>>, Watch PROVE GateTypes'
  <2>1. witness' \in [Workers -> Observation]
    BY <1>4, WatchTypes DEF TypeOK
  <2>. QED
    BY <1>2, <1>4, <2>1 DEF GateTypes, TypeOK, PageOK
<1>5. ASSUME UNCHANGED vars PROVE GateTypes'
  BY <1>2, <1>5 DEF GateTypes, TypeOK, PageOK, vars, gate
<1>. QED
  BY <1>1, <1>3, <1>4, <1>5, Kinds DEF TypeOK

\* Requests are answered from typed pieces: what the gate works on is always one of its
\* pages, labels and outcomes, and names groups that exist.
THEOREM TypeCorrect == GateSpec => []TypeOK
  BY TypeInit, TypeStep, PTL DEF GateSpec

-----------------------------------------------------------------------------
(* The limiter.                                                             *)

\* Of n attempts let through, at the times g, those from the f-th on came in the last
\* window, which began at s with the first of them.  They are no more than the limit, those
\* before them came before it, and the first of a full window before is out of reach of it.
Fits(g, n, f, s) ==
    /\ f \in 1..n /\ n - f < Limit
    /\ g[f] = s
    /\ \A i \in 1..n :
          /\ i >= f => s <= g[i] /\ g[i] <= s + Window
          /\ i < f => g[i] < s
          /\ i <= f - Limit => s - g[i] > Window

\* As many attempts as can pass within the length of a window.
Most == 2 * Limit - 1

Spaced(g, n) == \A i \in 1..n - Most : g[i + Most] - g[i] > Window

\* What the record of a says of the last window.
LastWindow(a, f, s) ==
    /\ Fits(passed[a], Len(passed[a]), f, s) /\ s <= clock
    /\ IF a \in DOMAIN attempts
       THEN /\ attempts[a].resetAt = s + Window
            /\ attempts[a].count <= Limit => attempts[a].count = Len(passed[a]) - f + 1
       ELSE clock > s + Window

Windows(a) == \/ passed[a] = <<>> /\ a \notin DOMAIN attempts
              \/ \E f, s \in Nat : LastWindow(a, f, s)

LimitInv ==
    /\ passed \in [Addresses -> Seq(Nat)]
    /\ \A a \in DOMAIN attempts : attempts[a] \in [count : Nat, resetAt : Nat]
    /\ wiped \/ \A a \in Addresses : Windows(a)
    /\ LimitHolds

LEMMA LimitInit == GateInit => LimitInv
<1> SUFFICES ASSUME GateInit PROVE LimitInv
  OBVIOUS
<1>1. \A a \in Addresses : passed[a] = <<>> /\ Len(passed[a]) = 0
  BY DEF GateInit, CredentialsInit
<1>2. DOMAIN attempts = {}
  BY DEF GateInit, CredentialsInit
<1>3. LimitHolds
  BY <1>1, CredentialConstants DEF LimitHolds
<1>. QED
  BY <1>1, <1>2, <1>3 DEF GateInit, CredentialsInit, LimitInv, Windows

LEMMA LimitBounds == Limit \in Nat /\ Limit >= 1 /\ Window \in Nat
  BY CredentialConstants

\* The first attempt of a window begins one in which it is alone.
LEMMA FitsNew ==
    ASSUME NEW n \in Nat, NEW g, NEW h, NEW t \in Nat,
           \A i \in 1..n : g[i] \in Nat /\ h[i] = g[i], h[n + 1] = t,
           n = 0 \/ \E f, s \in Nat : Fits(g, n, f, s) /\ t > s + Window,
           Spaced(g, n)
    PROVE  Fits(h, n + 1, n + 1, t) /\ Spaced(h, n + 1)
<1>. USE DEF Most
<1>0. Limit \in Nat /\ Limit >= 1 /\ Window \in Nat
  BY LimitBounds
<1>1. ASSUME NEW i \in 1..n PROVE g[i] < t /\ (i <= n + 1 - Limit => t - g[i] > Window)
  <2>1. PICK f \in Nat, s \in Nat : Fits(g, n, f, s) /\ t > s + Window
    BY <1>1
  <2>2. g[i] \in Nat /\ n - f < Limit
    BY <2>1 DEF Fits
  <2>3. CASE i >= f
    <3>1. g[i] <= s + Window /\ g[f] = s /\ f \in 1..n
      BY <2>1, <2>3 DEF Fits
    <3>2. i <= n + 1 - Limit => i = f
      BY <1>0, <2>2, <2>3, <3>1
    <3>. QED
      BY <1>0, <2>1, <2>2, <2>3, <3>1, <3>2
  <2>4. CASE i < f
    <3>1. g[i] < s
      BY <2>1, <2>4 DEF Fits
    <3>. QED
      BY <1>0, <2>1, <2>2, <3>1
  <2>. QED
    BY <2>3, <2>4
<1>2. ASSUME NEW i \in 1..n + 1
      PROVE  /\ i >= n + 1 => t <= h[i] /\ h[i] <= t + Window
             /\ i < n + 1 => h[i] < t
             /\ i <= n + 1 - Limit => t - h[i] > Window
  <2>1. CASE i = n + 1
    BY <1>0, <2>1
  <2>2. CASE i # n + 1
    <3>1. i \in 1..n
      BY <2>2
    <3>. QED
      BY <1>1, <3>1
  <2>. QED
    BY <2>1, <2>2
<1>3. Fits(h, n + 1, n + 1, t)
  BY <1>0, <1>2 DEF Fits
<1>4. ASSUME NEW i \in 1..(n + 1) - Most PROVE h[i + Most] - h[i] > Window
  <2>1. i \in 1..n /\ i <= n + 1 - Limit
    BY <1>0
  <2>2. CASE i + Most = n + 1
    <3>1. h[i + Most] = t
      BY <2>2
    <3>. QED
      BY <1>1, <2>1, <3>1
  <2>3. CASE i + Most # n + 1
    <3>1. i \in 1..n - Most /\ i + Most \in 1..n
      BY <1>0, <2>3
    <3>2. g[i + Most] - g[i] > Window
      BY <3>1 DEF Spaced
    <3>. QED
      BY <2>1, <3>1, <3>2
  <2>. QED
    BY <2>2, <2>3
<1>. QED
  BY <1>3, <1>4 DEF Spaced

\* A further attempt within the last window and the limit stays within them.
LEMMA FitsMore ==
    ASSUME NEW n \in Nat, NEW g, NEW h, NEW t \in Nat, NEW f \in Nat, NEW s \in Nat,
           \A i \in 1..n : g[i] \in Nat /\ h[i] = g[i], h[n + 1] = t,
           Fits(g, n, f, s), s <= t, t <= s + Window, n + 1 - f < Limit,
           Spaced(g, n)
    PROVE  Fits(h, n + 1, f, s) /\ Spaced(h, n + 1)
<1>. USE DEF Most
<1>0. Limit \in Nat /\ Limit >= 1 /\ Window \in Nat /\ f \in 1..n
  BY LimitBounds DEF Fits
<1>1. ASSUME NEW i \in 1..n + 1
      PROVE  /\ i >= f => s <= h[i] /\ h[i] <= s + Window
             /\ i < f => h[i] < s
             /\ i <= f - Limit => s - h[i] > Window
  <2>1. CASE i = n + 1
    BY <1>0, <2>1
  <2>2. CASE i # n + 1
    <3>1. i \in 1..n /\ h[i] = g[i]
      BY <2>2
    <3>. QED
      BY <3>1 DEF Fits
  <2>. QED
    BY <2>1, <2>2
<1>2. Fits(h, n + 1, f, s)
  BY <1>0, <1>1 DEF Fits
<1>3. ASSUME NEW i \in 1..(n + 1) - Most PROVE h[i + Most] - h[i] > Window
  <2>1. i \in 1..n /\ h[i] = g[i] /\ g[i] \in Nat
    BY <1>0
  <2>2. CASE i + Most = n + 1
    <3>1. h[i + Most] = t /\ i <= f - Limit
      BY <1>0, <2>2
    <3>2. s - g[i] > Window
      BY <2>1, <3>1 DEF Fits
    <3>. QED
      BY <1>0, <2>1, <3>1, <3>2
  <2>3. CASE i + Most # n + 1
    <3>1. i \in 1..n - Most /\ i + Most \in 1..n
      BY <1>0, <2>3
    <3>2. g[i + Most] - g[i] > Window
      BY <3>1 DEF Spaced
    <3>. QED
      BY <2>1, <3>1, <3>2
  <2>. QED
    BY <2>2, <2>3
<1>. QED
  BY <1>2, <1>3 DEF Spaced

\* The record an attempt leaves.
LEMMA CountedType ==
    ASSUME IdentityOK, LimitInv, NEW a
    PROVE  /\ Counted(a) \in [count : Nat, resetAt : Nat]
           /\ Over(a) => Counted(a).count = 1 /\ Counted(a).resetAt = clock + Window
           /\ ~Over(a) => /\ Counted(a).resetAt = attempts[a].resetAt
                          /\ Counted(a).count = IF attempts[a].count > Limit
                                                THEN attempts[a].count
                                                ELSE attempts[a].count + 1
<1>0. Limit \in Nat /\ Window \in Nat /\ clock \in Nat
  BY LimitBounds DEF IdentityOK
<1>1. CASE Over(a)
  BY <1>0, <1>1 DEF Counted
<1>2. CASE ~Over(a)
  <2>1. attempts[a] \in [count : Nat, resetAt : Nat]
    BY <1>2 DEF LimitInv, Over
  <2>2. Counted(a) = [attempts[a] EXCEPT !.count = IF @ > Limit THEN @ ELSE @ + 1]
    BY <1>2 DEF Counted
  <2>. QED
    BY <1>0, <1>2, <2>1, <2>2
<1>. QED
  BY <1>1, <1>2

\* Where nothing is let through and no record changes, the last window stays.
LEMMA WindowStays ==
    ASSUME IdentityOK, LimitInv, NEW a \in Addresses, Windows(a), passed'[a] = passed[a],
           clock \in Nat, clock' \in Nat, clock <= clock',
           a \in DOMAIN attempts' => a \in DOMAIN attempts,
           a \in DOMAIN attempts' => attempts'[a] = attempts[a],
           a \in DOMAIN attempts /\ a \notin DOMAIN attempts' => Over(a)
    PROVE  Windows(a)'
<1>0. Window \in Nat
  BY LimitBounds
<1>1. CASE passed[a] = <<>> /\ a \notin DOMAIN attempts
  BY <1>1 DEF Windows
<1>2. ASSUME NEW f \in Nat, NEW s \in Nat, LastWindow(a, f, s) PROVE LastWindow(a, f, s)'
  <2>1. Fits(passed[a], Len(passed[a]), f, s)' /\ s <= clock'
    BY <1>2 DEF LastWindow, Fits
  <2>2. CASE a \in DOMAIN attempts'
    BY <1>2, <2>1, <2>2 DEF LastWindow
  <2>3. CASE a \notin DOMAIN attempts'
    <3>1. clock > s + Window
      BY <1>2, <2>3 DEF LastWindow, Over
    <3>2. clock' > s + Window
      BY <1>0, <3>1
    <3>. QED
      BY <2>1, <2>3, <3>2 DEF LastWindow
  <2>. QED
    BY <2>2, <2>3
<1>. QED
  BY <1>1, <1>2 DEF Windows

LEMMA AttemptStep ==
    ASSUME IdentityOK, LimitInv, NEW a \in Addresses, LimitAttempt(a), clock' = clock
    PROVE  LimitInv'
<1>0. /\ Limit \in Nat /\ Limit >= 1 /\ Window \in Nat /\ clock \in Nat
      /\ passed \in [Addresses -> Seq(Nat)] /\ wiped' = wiped
  BY LimitBounds DEF IdentityOK, LimitInv, LimitAttempt
<1>1. /\ DOMAIN attempts' = DOMAIN attempts \cup {a} /\ attempts'[a] = Counted(a)
      /\ \A b \in DOMAIN attempts : b # a => attempts'[b] = attempts[b]
  BY DEF LimitAttempt, With
<1>2. \A b \in DOMAIN attempts' : attempts'[b] \in [count : Nat, resetAt : Nat]
  BY <1>1, CountedType DEF LimitInv
<1>3. ASSUME ~(Admits(a) /\ ~wiped) PROVE LimitInv'
  <2>1. passed' = passed
    BY <1>3 DEF LimitAttempt
  <2>2. LimitHolds'
    BY <1>0, <2>1 DEF LimitInv, LimitHolds
  <2>3. ASSUME ~wiped, NEW b \in Addresses, b # a PROVE Windows(b)'
    <3>1. Windows(b)
      BY <2>3 DEF LimitInv
    <3>. QED
      BY <1>0, <1>1, <2>1, <2>3, <3>1 DEF Windows, LastWindow
  <2>4. ASSUME ~wiped PROVE Windows(a)'
    <3>1. ~Over(a) /\ attempts'[a].count > Limit /\ attempts'[a].resetAt = attempts[a].resetAt
      BY <1>0, <1>1, <1>3, <2>4, CountedType DEF Admits
    <3>2. a \in DOMAIN attempts
      BY <3>1 DEF Over
    <3>3. PICK f \in Nat, s \in Nat : LastWindow(a, f, s)
      BY <2>4, <3>2 DEF LimitInv, Windows
    <3>4. attempts'[a].count \in Nat
      BY <1>1, <1>2
    <3>5. LastWindow(a, f, s)'
      BY <1>0, <1>1, <2>1, <3>1, <3>2, <3>3, <3>4 DEF LastWindow, Fits
    <3>. QED
      BY <3>5 DEF Windows
  <2>. QED
    BY <1>0, <1>2, <2>1, <2>2, <2>3, <2>4 DEF LimitInv
<1>4. ASSUME Admits(a), ~wiped PROVE LimitInv'
  <2>1. PICK n \in Nat, t \in Nat : n = Len(passed[a]) /\ t = clock
    BY <1>0
  <2>2. passed' = [passed EXCEPT ![a] = Append(@, clock)]
    BY <1>4 DEF LimitAttempt
  <2>3. /\ passed' \in [Addresses -> Seq(Nat)]
        /\ \A b \in Addresses : b # a => passed'[b] = passed[b]
        /\ passed'[a] = Append(passed[a], t)
    BY <1>0, <2>1, <2>2
  <2>4. /\ Len(passed'[a]) = n + 1 /\ passed'[a][n + 1] = t
        /\ \A i \in 1..n : passed[a][i] \in Nat /\ passed'[a][i] = passed[a][i]
    BY <1>0, <2>1, <2>3
  <2>5. Spaced(passed[a], n)
    BY <1>4, <2>1 DEF LimitInv, LimitHolds, Spaced, Most
  <2>6. Windows(a)
    BY <1>4 DEF LimitInv
  <2>7. ASSUME Over(a) PROVE Windows(a)' /\ Spaced(passed'[a], n + 1)
    <3>1. n = 0 \/ \E f, s \in Nat : Fits(passed[a], n, f, s) /\ t > s + Window
      BY <2>1, <2>6, <2>7 DEF Windows, LastWindow, Over
    <3>2. Fits(passed'[a], n + 1, n + 1, t) /\ Spaced(passed'[a], n + 1)
      BY <2>4, <2>5, <3>1, FitsNew
    <3>3. PICK m \in Nat : m = n + 1
      OBVIOUS
    <3>4. attempts'[a].count = 1 /\ attempts'[a].resetAt = t + Window
      BY <1>1, <2>1, <2>7, CountedType
    <3>5. LastWindow(a, m, t)'
      BY <1>1, <2>1, <2>4, <3>2, <3>3, <3>4 DEF LastWindow
    <3>. QED
      BY <3>2, <3>5 DEF Windows
  <2>8. ASSUME ~Over(a) PROVE Windows(a)' /\ Spaced(passed'[a], n + 1)
    <3>1. a \in DOMAIN attempts /\ t <= attempts[a].resetAt
          /\ attempts[a] \in [count : Nat, resetAt : Nat]
      BY <2>1, <2>8 DEF Over, LimitInv
    <3>2. PICK f \in Nat, s \in Nat : LastWindow(a, f, s)
      BY <2>6, <3>1 DEF Windows
    <3>3. attempts[a].count < Limit /\ attempts'[a].count = attempts[a].count + 1
          /\ attempts'[a].resetAt = attempts[a].resetAt
      BY <1>0, <1>1, <1>4, <2>8, <3>1, CountedType DEF Admits
    <3>4. /\ Fits(passed[a], n, f, s) /\ s <= t /\ attempts[a].resetAt = s + Window
          /\ attempts[a].count = n - f + 1
      BY <1>0, <2>1, <3>1, <3>2, <3>3 DEF LastWindow
    <3>5. t <= s + Window /\ n + 1 - f < Limit
      BY <1>0, <3>1, <3>3, <3>4
    <3>6. Fits(passed'[a], n + 1, f, s) /\ Spaced(passed'[a], n + 1)
      BY <2>4, <2>5, <3>4, <3>5, FitsMore
    <3>7. LastWindow(a, f, s)'
      BY <1>1, <2>1, <2>4, <3>1, <3>3, <3>4, <3>6 DEF LastWindow
    <3>. QED
      BY <3>6, <3>7 DEF Windows
  <2>9. Windows(a)' /\ Spaced(passed'[a], n + 1)
    BY <2>7, <2>8
  <2>10. ASSUME NEW b \in Addresses, b # a PROVE Windows(b)'
    <3>1. Windows(b)
      BY <1>4, <2>10 DEF LimitInv
    <3>. QED
      BY <1>0, <1>1, <2>3, <2>10, <3>1 DEF Windows, LastWindow
  <2>11. LimitHolds'
    <3>1. ASSUME NEW b \in Addresses
          PROVE  \A i \in 1..Len(passed'[b]) - Most :
                    passed'[b][i + Most] - passed'[b][i] > Window
      <4>1. CASE b = a
        BY <2>4, <2>9, <4>1 DEF Spaced, Most
      <4>2. CASE b # a
        BY <1>4, <2>3, <4>2 DEF LimitInv, LimitHolds, Most
      <4>. QED
        BY <4>1, <4>2
    <3>. QED
      BY <3>1 DEF LimitHolds, Most
  <2>. QED
    BY <1>2, <2>3, <2>9, <2>10, <2>11 DEF LimitInv
<1>. QED
  BY <1>3, <1>4

LEMMA SameLimits ==
    ASSUME IdentityOK, LimitInv, clock' \in Nat, clock <= clock', UNCHANGED limiterVars
    PROVE  LimitInv'
<1>0. clock \in Nat
  BY DEF IdentityOK
<1>1. UNCHANGED <<attempts, passed, wiped>>
  BY DEF limiterVars
<1>2. ASSUME ~wiped, NEW a \in Addresses PROVE Windows(a)'
  BY <1>0, <1>1, <1>2, WindowStays DEF LimitInv
<1>3. LimitHolds'
  BY <1>1 DEF LimitInv, LimitHolds
<1>. QED
  BY <1>1, <1>2, <1>3 DEF LimitInv

LEMMA SweepStep ==
    ASSUME IdentityOK, LimitInv, SweepAttempts
    PROVE  LimitInv'
<1> DEFINE kept == {a \in DOMAIN attempts : ~Over(a)}
<1>0. UNCHANGED <<clock, passed>> /\ clock \in Nat /\ passed \in [Addresses -> Seq(Nat)]
  BY DEF SweepAttempts, IdentityOK, LimitInv
<1>1. CASE attempts' = <<>> /\ wiped' = TRUE
  BY <1>0, <1>1 DEF LimitInv, LimitHolds
<1>2. CASE attempts' = [a \in kept |-> attempts[a]] /\ UNCHANGED wiped
  <2>1. DOMAIN attempts' = kept /\ \A a \in kept : attempts'[a] = attempts[a]
    BY <1>2
  <2>2. ASSUME ~wiped, NEW a \in Addresses PROVE Windows(a)'
    BY <1>0, <2>1, <2>2, WindowStays DEF LimitInv
  <2>3. LimitHolds'
    BY <1>0, <1>2 DEF LimitInv, LimitHolds
  <2>. QED
    BY <1>0, <1>2, <2>1, <2>2, <2>3 DEF LimitInv
<1>. QED
  BY <1>1, <1>2 DEF SweepAttempts

\* An attempt is counted for an address.
LEMMA ServeLimits ==
    ASSUME TypeOK, NEW w \in Workers, Serve(w)
    PROVE  UNCHANGED limiterVars \/ \E a \in Addresses : LimitAttempt(a)
<1>1. CASE Filter(w)
  <2>1. req[w].r \in Asked
    BY DEF TypeOK, GateTypes, Work
  <2>. QED
    BY <1>1, <2>1, FilterCases DEF Asked
<1>2. ASSUME NEW r \in Requests, Arrive(w, r) PROVE UNCHANGED limiterVars
  BY <1>2 DEF Arrive, credentials
<1>3. ReadFlags(w) \/ ByKey(w) \/ ByHeader(w) \/ BySession(w) => UNCHANGED limiterVars
  BY DEF ReadFlags, ByKey, ByHeader, BySession, Identified, Moves, credentials
<1>4. ASSUME Nobody(w) \/ Rights(w) PROVE UNCHANGED limiterVars
  <2>1. \E a : Answers(w, a)
    BY <1>4, NobodyAnswers, RightsAnswers DEF TypeOK
  <2>. QED
    BY <2>1 DEF Answers, Moves, credentials
<1>5. Follow(w) \/ Finish(w) => UNCHANGED limiterVars
  BY DEF Follow, Finish, credentials
<1>. QED
  BY <1>1, <1>2, <1>3, <1>4, <1>5, Zenon DEF Serve

LEMMA CredentialsLimits ==
    ASSUME CredentialsNext
    PROVE  UNCHANGED limiterVars \/ SweepAttempts
<1>1. Tick \/ CleanupExpiredSessions \/ SweepStates => UNCHANGED limiterVars
  BY DEF Tick, CleanupExpiredSessions, Keep, SweepStates
<1>2. ASSUME NEW u, OpenSession(u) \/ DeleteAccount(u) PROVE UNCHANGED limiterVars
  BY <1>2 DEF OpenSession, DeleteAccount, Keep
<1>3. ASSUME NEW u, NEW gs, ChangeGroups(u, gs) PROVE UNCHANGED limiterVars
  BY <1>3 DEF ChangeGroups
<1>4. ASSUME NEW t, EndSession(t) PROVE UNCHANGED limiterVars
  BY <1>4 DEF EndSession, Keep
<1>5. ASSUME NEW p, NEW gs, NEW e, CreateKey(p, gs, e) PROVE UNCHANGED limiterVars
  BY <1>5 DEF CreateKey
<1>6. ASSUME NEW k, DeleteKey(k) PROVE UNCHANGED limiterVars
  BY <1>6 DEF DeleteKey
<1>7. ASSUME NEW s, BeginOidc(s) \/ Callback(s) \/ DropState(s) PROVE UNCHANGED limiterVars
  BY <1>7 DEF BeginOidc, Callback, DropState
<1>. QED
  BY <1>1, <1>2, <1>3, <1>4, <1>5, <1>6, <1>7, Zenon DEF CredentialsNext

LEMMA LimitStep ==
    ASSUME TypeOK, LimitInv, [GateNext]_vars
    PROVE  LimitInv'
<1>0. IdentityOK /\ clock' \in Nat /\ clock <= clock'
  BY IdentityStep DEF TypeOK, IdentityOK, Forward
<1>1. CASE UNCHANGED limiterVars
  BY <1>0, <1>1, SameLimits
<1>2. CASE CredentialsNext
  BY <1>0, <1>1, <1>2, CredentialsLimits, SweepStep
<1>3. ASSUME NEW w \in Workers, Serve(w), OnlyServes PROVE LimitInv'
  BY <1>0, <1>1, <1>3, ServeLimits, AttemptStep DEF OnlyServes
<1>. QED
  BY <1>1, <1>2, <1>3, Kinds DEF vars, credentials

\* LimitHolds: of as many attempts that an address gets through as two windows hold, the
\* last comes more than a window after the first, whatever the records of other addresses
\* and the sweeps do, as long as the records are not all dropped.
THEOREM LimitAlwaysHolds == GateSpec => []LimitHolds
<1>1. LimitInv => LimitHolds
  BY DEF LimitInv
<1>. QED
  BY <1>1, TypeCorrect, LimitInit, LimitStep, PTL DEF GateSpec

-----------------------------------------------------------------------------
(* Whom an administration handler serves.                                   *)

\* What a request can show does not depend on what the goroutine is doing.
LEMMA ShownStays ==
    ASSUME OnlyServes, NEW w \in Workers, NEW r, req'[w].r = r
    PROVE  /\ Missing(req[w].r)' = Missing(r)
           /\ Administering(req[w].r)' = Administering(r)
<1>0. UNCHANGED <<clock, users, sessions, keys, settings, mode>>
  BY DEF OnlyServes, identityVars
<1>1. KeyWorks(req[w].r)' <=> KeyWorks(r)
  <2>1. Before(r.key)' = Before(r.key) /\ Usable(r.key)' = Usable(r.key)
    BY <1>0 DEF Before, Usable
  <2>2. Found(r.key)' <=> Found(r.key)
    BY <2>1 DEF Found
  <2>3. (KeyWorks(req[w].r))' <=> settings'.keys /\ req'[w].r.key # NoKey /\ Found(r.key)'
    BY DEF KeyWorks
  <2>. QED
    BY <1>0, <2>2, <2>3 DEF KeyWorks
<1>2. (SettingsRead.proxy /\ HeaderWorks(req[w].r))' <=> SettingsRead.proxy /\ HeaderWorks(r)
  BY <1>0 DEF SettingsRead, HeaderWorks
<1>3. (SettingsRead.session /\ InLife(req[w].r.cookie))'
         <=> SettingsRead.session /\ InLife(r.cookie)
  BY <1>0 DEF SettingsRead, InLife, LocalMode
<1>4. \A c \in Ways : Works(c, req[w].r)' <=> Works(c, r)
  BY <1>1, <1>2, <1>3 DEF Works, Ways
<1>5. \A c \in Ways : GroupsBy(c, req[w].r)' = GroupsBy(c, r)
  BY <1>0 DEF GroupsBy, Ways, Holder
<1>. QED
  BY <1>0, <1>4, <1>5 DEF Missing, Administering

\* What a request under way has established about itself while the settings stayed:
\* the credentials asked in vain had named nobody when they were asked; groups that
\* administer were those of an administrator; and a credential that was the first to
\* name an administrator all along has not been asked in vain.
Established(w) ==
    /\ pc[w] \in {"key", "header", "session", "nobody"} => req[w].flags = SettingsRead
    /\ pc[w] \in {"header", "session", "nobody"} => "key" \in witness[w].missed
    /\ pc[w] \in {"session", "nobody"} => "header" \in witness[w].missed
    /\ zone <= 0 =>
          /\ pc[w] = "rights" /\ req[w].who \cap settings.admins # {} => witness[w].once
          /\ pc[w] = "answered" /\ req[w].answer = "served" => witness[w].once
    /\ pc[w] = "header" => "key" \notin witness[w].by
    /\ pc[w] = "session" => witness[w].by \subseteq {"session"}
    /\ zone >= 0 =>
          /\ pc[w] = "nobody" => witness[w].by = {}
          /\ pc[w] = "rights" /\ req[w].who \cap settings.admins = {} => witness[w].by = {}
          /\ pc[w] = "answered" /\ req[w].r.page = "/api/admin"
                /\ req[w].answer # "served" /\ PassesCsrf(req[w].r) => witness[w].by = {}

ServedInv ==
    \A w \in Workers : pc[w] # "idle" /\ witness[w].steady => Established(w)

\* While the settings stay, what is remembered is only added to.
LEMMA Remembered ==
    ASSUME GateTypes, Watch, NEW w \in Workers, pc'[w] # "idle", witness'[w].steady
    PROVE  /\ witness[w].steady /\ UNCHANGED <<settings, mode>>
           /\ witness[w].missed \subseteq witness'[w].missed
           /\ witness[w].once => witness'[w].once
           /\ witness'[w].by \subseteq witness[w].by
           /\ SettingsRead' = SettingsRead
<1>1. /\ witness[w].steady /\ UNCHANGED <<settings, mode>>
      /\ witness[w].missed \subseteq witness'[w].missed
      /\ witness[w].once => witness'[w].once
      /\ witness'[w].by \subseteq witness[w].by
  BY WatchEffect
<1>. QED
  BY <1>1 DEF SettingsRead

LEMMA StaysEstablished ==
    ASSUME GateTypes, ServedInv, Watch, NEW w \in Workers, pc'[w] = pc[w], req'[w] = req[w],
           zone' = zone, pc'[w] # "idle", witness'[w].steady
    PROVE  Established(w)'
<1>1. /\ witness[w].steady /\ UNCHANGED <<settings, mode>>
      /\ witness[w].missed \subseteq witness'[w].missed
      /\ witness[w].once => witness'[w].once
      /\ witness'[w].by \subseteq witness[w].by
      /\ SettingsRead' = SettingsRead
  BY Remembered
<1>2. Established(w)
  BY <1>1 DEF ServedInv
<1>. QED
  BY <1>1, <1>2 DEF Established, PassesCsrf

\* What a step of a request adds to what is remembered of it.
LEMMA StepRemembered ==
    ASSUME GateTypes, OnlyServes, Watch, NEW w \in Workers, pc'[w] # "idle",
           witness'[w].steady, NEW r, req'[w].r = r
    PROVE  /\ witness[w].missed \cup Missing(r) \subseteq witness'[w].missed
           /\ \A c \in Administering(r) :
                 Ahead(c) \subseteq witness'[w].missed => witness'[w].once
           /\ witness'[w].by = {c \in witness[w].by \cap Administering(r) :
                                   Ahead(c) \subseteq Missing(r)}
<1>1. /\ Missing(req[w].r)' = Missing(r)
      /\ Administering(req[w].r)' = Administering(r)
  BY ShownStays
<1>. QED
  BY <1>1, WatchEffect

\* A request that was neither idle nor steadily observed before has nothing established.
LEMMA Blank ==
    ASSUME NEW w \in Workers, pc'[w] \in {"filter", "flags"}
    PROVE  Established(w)'
BY DEF Established

LEMMA IdentifiedBlank ==
    ASSUME GateTypes, NEW w \in Workers, NEW gs \in SUBSET Groups, Identified(w, gs)
    PROVE  \/ req[w].stage = "gate" /\ pc'[w] = "filter"
           \/ /\ req[w].stage # "gate" /\ pc'[w] = "rights"
              /\ req'[w].who = gs /\ req'[w].r = req[w].r
<1>0. req[w] \in Work
  BY DEF GateTypes
<1>1. CASE req[w].stage = "gate"
  <2>1. \E q : Goto(w, "filter", q)
    BY <1>1 DEF Identified, Moves
  <2>. QED
    BY <1>1, <2>1, GotoEffect
<1>2. CASE req[w].stage # "gate"
  <2> DEFINE q == [req[w] EXCEPT !.who = gs]
  <2>1. q.who = gs /\ Goto(w, "rights", q) /\ q.r = req[w].r
    BY <1>0, <1>2, WorkWho DEF Identified, Moves
  <2> HIDE DEF q
  <2>. QED
    BY <1>2, <2>1, GotoEffect
<1>. QED
  BY <1>1, <1>2

\* Either way it stays the same request.
LEMMA IdentifiedKeeps ==
    ASSUME GateTypes, NEW w \in Workers, NEW gs \in SUBSET Groups, Identified(w, gs)
    PROVE  pc'[w] \in {"filter", "rights"} /\ req'[w].r = req[w].r
<1>0. req[w] \in Work
  BY DEF GateTypes
<1>1. CASE req[w].stage = "gate"
  <2> DEFINE q == [req[w] EXCEPT !.stage = "handler"]
  <2>1. Goto(w, "filter", q) /\ q.r = req[w].r
    BY <1>0, <1>1, WorkStage DEF Identified, Moves
  <2> HIDE DEF q
  <2>. QED
    BY <2>1, GotoEffect
<1>2. CASE req[w].stage # "gate"
  BY <1>2, IdentifiedBlank
<1>. QED
  BY <1>1, <1>2

\* The three credentials, and which are asked before which.
LEMMA WaysShown ==
    ASSUME NEW r
    PROVE  /\ "key" \in Missing(r) <=> ~KeyWorks(r)
           /\ "header" \in Missing(r) <=> ~(SettingsRead.proxy /\ HeaderWorks(r))
           /\ "key" \in Administering(r)
                 <=> KeyWorks(r) /\ keys[r.key].groups \cap settings.admins # {}
           /\ "header" \in Administering(r)
                 <=> /\ SettingsRead.proxy /\ HeaderWorks(r)
                     /\ r.groups \cap settings.admins # {}
           /\ "session" \in Administering(r)
                 <=> /\ SettingsRead.session /\ InLife(r.cookie)
                     /\ users[Holder(r)] \cap settings.admins # {}
           /\ Administering(r) \subseteq {"key", "header", "session"}
           /\ Ahead("key") = {} /\ Ahead("header") = {"key"}
           /\ Ahead("session") = {"key", "header"}
BY DEF Missing, Administering, Ways, Works, GroupsBy, Ahead

\* A goroutine goes on to the next label with nothing but what it had.
LEMMA GoesOn ==
    ASSUME GateTypes, NEW w \in Workers, NEW label, Moves(w, label, req[w])
    PROVE  pc'[w] = label /\ req'[w] = req[w]
BY GotoEffect DEF Moves

LEMMA KeyEstablishes ==
    ASSUME TypeOK, ServedInv, OnlyServes, Watch, NEW w \in Workers, ByKey(w),
           pc'[w] # "idle", witness'[w].steady
    PROVE  Established(w)'
<1> DEFINE r == req[w].r
<1>0. GateTypes /\ IdentityOK /\ r \in Asked /\ req[w] \in Work /\ pc[w] = "key"
  BY DEF TypeOK, GateTypes, Work, ByKey
<1>1. /\ UNCHANGED <<settings, mode>> /\ witness[w].steady /\ SettingsRead' = SettingsRead
  BY <1>0, Remembered
<1>2. CASE KeyWorks(r)
  <2>1. Identified(w, keys[r.key].groups) /\ keys[r.key].groups \in SUBSET Groups
    BY <1>0, <1>2, GroupsFound DEF ByKey
  <2>2. CASE pc'[w] = "filter"
    BY <2>2, Blank
  <2>3. CASE pc'[w] = "rights" /\ req'[w].who = keys[r.key].groups /\ req'[w].r = r
    <3>1. /\ \A c \in Administering(r) :
                Ahead(c) \subseteq witness'[w].missed => witness'[w].once
          /\ witness'[w].by = {c \in witness[w].by \cap Administering(r) :
                                  Ahead(c) \subseteq Missing(r)}
      BY <1>0, <2>3, StepRemembered
    <3>2. req'[w].who \cap settings.admins # {} => witness'[w].once
      BY <1>2, <2>3, <3>1, WaysShown
    <3>3. req'[w].who \cap settings.admins = {} => witness'[w].by = {}
      BY <1>2, <2>3, <3>1, WaysShown
    <3>. QED
      BY <1>1, <2>3, <3>2, <3>3 DEF Established
  <2>. QED
    BY <1>0, <2>1, <2>2, <2>3, IdentifiedBlank
<1>3. CASE ~KeyWorks(r)
  <2>1. pc'[w] = "header" /\ req'[w] = req[w]
    BY <1>0, <1>3, GoesOn DEF ByKey
  <2>2. /\ witness[w].missed \cup Missing(r) \subseteq witness'[w].missed
        /\ witness'[w].by = {c \in witness[w].by \cap Administering(r) :
                                Ahead(c) \subseteq Missing(r)}
    BY <1>0, <2>1, StepRemembered
  <2>3. "key" \in witness'[w].missed /\ "key" \notin witness'[w].by
    BY <1>3, <2>2, WaysShown
  <2>4. req[w].flags = SettingsRead
    BY <1>0, <1>1 DEF ServedInv, Established
  <2>. QED
    BY <1>1, <2>1, <2>3, <2>4 DEF Established
<1>. QED
  BY <1>2, <1>3

LEMMA HeaderEstablishes ==
    ASSUME TypeOK, ServedInv, OnlyServes, Watch, NEW w \in Workers, ByHeader(w),
           pc'[w] # "idle", witness'[w].steady
    PROVE  Established(w)'
<1> DEFINE r == req[w].r
<1>0. GateTypes /\ IdentityOK /\ r \in Asked /\ req[w] \in Work /\ pc[w] = "header"
  BY DEF TypeOK, GateTypes, Work, ByHeader
<1>1. /\ UNCHANGED <<settings, mode>> /\ witness[w].steady /\ SettingsRead' = SettingsRead
  BY <1>0, Remembered
<1>2. /\ req[w].flags = SettingsRead /\ "key" \in witness[w].missed
      /\ "key" \notin witness[w].by
  BY <1>0, <1>1 DEF ServedInv, Established
<1>3. CASE req[w].flags.proxy /\ HeaderWorks(r)
  <2>1. Identified(w, r.groups) /\ r.groups \in SUBSET Groups
    BY <1>0, <1>3, GroupsFound DEF ByHeader
  <2>2. CASE pc'[w] = "filter"
    BY <2>2, Blank
  <2>3. CASE pc'[w] = "rights" /\ req'[w].who = r.groups /\ req'[w].r = r
    <3>1. /\ witness[w].missed \cup Missing(r) \subseteq witness'[w].missed
          /\ \A c \in Administering(r) :
                Ahead(c) \subseteq witness'[w].missed => witness'[w].once
          /\ witness'[w].by = {c \in witness[w].by \cap Administering(r) :
                                  Ahead(c) \subseteq Missing(r)}
      BY <1>0, <2>3, StepRemembered
    <3>2. req'[w].who \cap settings.admins # {} => witness'[w].once
      BY <1>2, <1>3, <2>3, <3>1, WaysShown
    <3>3. req'[w].who \cap settings.admins = {} => witness'[w].by = {}
      BY <1>2, <1>3, <2>3, <3>1, WaysShown
    <3>. QED
      BY <1>1, <2>3, <3>2, <3>3 DEF Established
  <2>. QED
    BY <1>0, <2>1, <2>2, <2>3, IdentifiedBlank
<1>4. CASE ~(req[w].flags.proxy /\ HeaderWorks(r))
  <2>1. pc'[w] = "session" /\ req'[w] = req[w]
    BY <1>0, <1>4, GoesOn DEF ByHeader
  <2>2. /\ witness[w].missed \cup Missing(r) \subseteq witness'[w].missed
        /\ witness'[w].by = {c \in witness[w].by \cap Administering(r) :
                                Ahead(c) \subseteq Missing(r)}
    BY <1>0, <2>1, StepRemembered
  <2>3. /\ "key" \in witness'[w].missed /\ "header" \in witness'[w].missed
        /\ witness'[w].by \subseteq {"session"}
    BY <1>2, <1>4, <2>2, WaysShown
  <2>. QED
    BY <1>1, <1>2, <2>1, <2>3 DEF Established
<1>. QED
  BY <1>3, <1>4

\* In the zone of UTC or west of it only a session in its life names somebody ...
LEMMA HonouredInLife ==
    ASSUME IdentityOK, zone <= 0, NEW t, Honoured(t)
    PROVE  InLife(t)
<1>1. t \in DOMAIN sessions /\ sessions[t].expires + zone > clock
      /\ sessions[t] \in [user : DOMAIN users, expires : Int]
  BY DEF Honoured, IdentityOK
<1>. QED
  BY <1>1 DEF InLife, IdentityOK

\* ... and in that zone or east of it every one does.
LEMMA InLifeHonoured ==
    ASSUME IdentityOK, zone >= 0, NEW t, InLife(t)
    PROVE  Honoured(t)
<1>1. t \in DOMAIN sessions /\ sessions[t].expires > clock
      /\ sessions[t] \in [user : DOMAIN users, expires : Int]
  BY DEF InLife, IdentityOK
<1>. QED
  BY <1>1 DEF Honoured, IdentityOK

LEMMA SessionEstablishes ==
    ASSUME TypeOK, ServedInv, OnlyServes, Watch, NEW w \in Workers, BySession(w),
           pc'[w] # "idle", witness'[w].steady
    PROVE  Established(w)'
<1> DEFINE r == req[w].r
<1>0. /\ GateTypes /\ IdentityOK /\ r \in Asked /\ req[w] \in Work /\ pc[w] = "session"
      /\ zone' = zone
  BY DEF TypeOK, GateTypes, Work, BySession, OnlyServes
<1>1. /\ UNCHANGED <<settings, mode>> /\ witness[w].steady /\ SettingsRead' = SettingsRead
  BY <1>0, Remembered
<1>2. /\ req[w].flags = SettingsRead
      /\ "key" \in witness[w].missed /\ "header" \in witness[w].missed
      /\ witness[w].by \subseteq {"session"}
  BY <1>0, <1>1 DEF ServedInv, Established
<1>3. CASE req[w].flags.session /\ SessionWorks(r)
  <2>1. Identified(w, users[Holder(r)]) /\ users[Holder(r)] \in SUBSET Groups
    BY <1>0, <1>3, GroupsFound DEF BySession
  <2>2. CASE pc'[w] = "filter"
    BY <2>2, Blank
  <2>3. CASE pc'[w] = "rights" /\ req'[w].who = users[Holder(r)] /\ req'[w].r = r
    <3>1. /\ witness[w].missed \cup Missing(r) \subseteq witness'[w].missed
          /\ \A c \in Administering(r) :
                Ahead(c) \subseteq witness'[w].missed => witness'[w].once
          /\ witness'[w].by = {c \in witness[w].by \cap Administering(r) :
                                  Ahead(c) \subseteq Missing(r)}
      BY <1>0, <2>3, StepRemembered
    <3>2. ASSUME zone <= 0, req'[w].who \cap settings.admins # {} PROVE witness'[w].once
      <4>1. InLife(r.cookie)
        BY <1>0, <1>3, <3>2, HonouredInLife DEF SessionWorks
      <4>2. "session" \in Administering(r)
        BY <1>2, <1>3, <2>3, <3>2, <4>1, WaysShown
      <4>. QED
        BY <1>2, <3>1, <4>2, WaysShown
    <3>3. req'[w].who \cap settings.admins = {} => witness'[w].by = {}
      BY <1>2, <2>3, <3>1, WaysShown
    <3>. QED
      BY <1>0, <1>1, <2>3, <3>2, <3>3 DEF Established
  <2>. QED
    BY <1>0, <2>1, <2>2, <2>3, IdentifiedBlank
<1>4. CASE ~(req[w].flags.session /\ SessionWorks(r))
  <2>1. pc'[w] = "nobody" /\ req'[w] = req[w]
    BY <1>0, <1>4, GoesOn DEF BySession
  <2>2. /\ witness[w].missed \cup Missing(r) \subseteq witness'[w].missed
        /\ witness'[w].by = {c \in witness[w].by \cap Administering(r) :
                                Ahead(c) \subseteq Missing(r)}
    BY <1>0, <2>1, StepRemembered
  <2>3. ASSUME zone >= 0 PROVE witness'[w].by = {}
    <3>1. ~(SettingsRead.session /\ InLife(r.cookie))
      BY <1>0, <1>2, <1>4, <2>3, InLifeHonoured
         DEF SessionWorks, InLife, IdentityOK, NoToken
    <3>. QED
      BY <1>2, <2>2, <3>1, WaysShown
  <2>. QED
    BY <1>0, <1>1, <1>2, <2>1, <2>2, <2>3 DEF Established
<1>. QED
  BY <1>3, <1>4

\* The request is answered; what counts is whether an administration handler served.
LEMMA AnswerEstablishes ==
    ASSUME GateTypes, Watch, NEW w \in Workers, NEW a \in Outcomes,
           Goto(w, "answered", [req[w] EXCEPT !.answer = a]), witness'[w].steady, zone' = zone,
           zone <= 0 => (a = "served" => witness[w].once),
           zone >= 0 => (req[w].r.page = "/api/admin" /\ a # "served" /\ PassesCsrf(req[w].r)
                            => witness[w].by = {})
    PROVE  Established(w)'
<1>1. pc'[w] = "answered" /\ req'[w].answer = a /\ req'[w].r = req[w].r
  BY AnswerEffect
<1>2. /\ UNCHANGED <<settings, mode>>
      /\ witness[w].once => witness'[w].once
      /\ witness'[w].by \subseteq witness[w].by
  BY <1>1, Remembered
<1>. QED
  BY <1>1, <1>2 DEF Established, PassesCsrf

LEMMA ServeEstablishes ==
    ASSUME TypeOK, ServedInv, OnlyServes, Watch, NEW w \in Workers, Serve(w),
           pc'[w] # "idle", witness'[w].steady
    PROVE  Established(w)'
<1> DEFINE r == req[w].r
<1>0. /\ GateTypes /\ zone' = zone /\ req[w] \in Work
  BY DEF TypeOK, GateTypes, OnlyServes
<1>1. /\ UNCHANGED <<settings, mode>> /\ witness[w].steady /\ SettingsRead' = SettingsRead
  BY <1>0, Remembered
<1>2. pc[w] # "idle" => Established(w)
  BY <1>1 DEF ServedInv
<1>3. ASSUME NEW r1 \in Requests, Arrive(w, r1) PROVE Established(w)'
  <2>1. r1 \in Asked /\ Enter(w, r1)
    BY <1>3, GateConstants DEF Asked, Arrive
  <2>. QED
    BY <1>0, <2>1, EnterEffect, Blank
<1>4. CASE ReadFlags(w)
  <2> DEFINE q == [req[w] EXCEPT !.flags = SettingsRead]
  <2>1. q.flags = SettingsRead /\ Goto(w, "key", q)
    BY <1>0, <1>4, WorkFlags, SettingsReadType DEF ReadFlags, Moves
  <2> HIDE DEF q
  <2>2. pc'[w] = "key" /\ req'[w].flags = SettingsRead
    BY <1>0, <2>1, GotoEffect
  <2>. QED
    BY <1>1, <2>2 DEF Established
<1>5. CASE Nobody(w)
  <2>1. PICK a \in Outcomes : /\ Goto(w, "answered", [req[w] EXCEPT !.answer = a])
                              /\ a # "served"
    <3>1. PICK a \in Outcomes : Answers(w, a) /\
              \/ a \in {"401", "page", "/login"}
              \/ \E m \in ModesRead : a = GetAuthRedirectURL(m)
      BY <1>5, NobodyAnswers
    <3>2. a # "served"
      BY <3>1 DEF GetAuthRedirectURL
    <3>. QED
      BY <3>1, <3>2 DEF Answers, Moves
  <2>2. zone >= 0 => witness[w].by = {}
    BY <1>2, <1>5 DEF Nobody, Established
  <2>. QED
    BY <1>0, <2>1, <2>2, AnswerEstablishes
<1>6. CASE Rights(w)
  <2>1. PICK a \in Outcomes : Answers(w, a) /\
              \/ r.page # "/api/admin" /\ a # "served"
              \/ /\ r.page = "/api/admin"
                 /\ a = IF req[w].who \cap settings.admins # {} THEN "served" ELSE "403"
    BY <1>0, <1>6, RightsAnswers
  <2>2. Goto(w, "answered", [req[w] EXCEPT !.answer = a])
    BY <2>1 DEF Answers, Moves
  <2>3. zone <= 0 => (a = "served" => witness[w].once)
    BY <1>2, <1>6, <2>1 DEF Rights, Established
  <2>4. zone >= 0 => (r.page = "/api/admin" /\ a # "served" => witness[w].by = {})
    BY <1>2, <1>6, <2>1 DEF Rights, Established
  <2>. QED
    BY <1>0, <2>2, <2>3, <2>4, AnswerEstablishes
<1>7. CASE Filter(w)
  <2>1. ASSUME NEW a \in Outcomes, Goto(w, "answered", [req[w] EXCEPT !.answer = a]),
               a # "served", r.page = "/api/admin" => ~PassesCsrf(r)
        PROVE  Established(w)'
    BY <1>0, <2>1, AnswerEstablishes
  <2>2. CASE ~PassesCsrf(r) /\ Goto(w, "answered", [req[w] EXCEPT !.answer = "403"])
    BY <2>1, <2>2 DEF Outcomes
  <2>3. CASE Limited(r) /\ Goto(w, "answered", [req[w] EXCEPT !.answer = "429"])
    BY <2>1, <2>3 DEF Outcomes, Limited
  <2>4. CASE Dispatched(w)
    <3>1. CASE Goto(w, "flags", req[w])
      BY <1>0, <3>1, GotoEffect, Blank
    <3>2. ASSUME ~Goto(w, "flags", req[w])
          PROVE  \E a \in Outcomes :
                    /\ Goto(w, "answered", [req[w] EXCEPT !.answer = a])
                    /\ a # "served" /\ r.page # "/api/admin"
      BY <2>4, <3>2 DEF Dispatched
    <3>. QED
      BY <2>1, <3>1, <3>2
  <2>. QED
    BY <1>7, <2>2, <2>3, <2>4, FilterCases
<1>8. CASE Follow(w)
  <2>1. \E q : Goto(w, "filter", q) \/ Goto(w, "flags", q)
    BY <1>8 DEF Follow, Enter
  <2>. QED
    BY <1>0, <2>1, GotoEffect, Blank
<1>9. CASE Finish(w)
  <2>1. \E q : Goto(w, "idle", q)
    BY <1>9 DEF Finish
  <2>. QED
    BY <1>0, <2>1, GotoEffect
<1>. QED
  BY <1>3, <1>4, <1>5, <1>6, <1>7, <1>8, <1>9, KeyEstablishes, HeaderEstablishes,
     SessionEstablishes, Zenon DEF Serve

\* A step of one goroutine leaves the others where they are.
LEMMA ServeAlone ==
    ASSUME TypeOK, NEW w \in Workers, Serve(w), NEW v \in Workers, v # w
    PROVE  pc'[v] = pc[v] /\ req'[v] = req[v] /\ hops'[v] = hops[v]
<1>0. GateTypes /\ hops \in [Workers -> Nat]
  BY DEF TypeOK, GateTypes
<1>1. \E label, q : Goto(w, label, q)
  <2>1. ASSUME NEW r \in Requests, Arrive(w, r) PROVE \E label, q : Goto(w, label, q)
    BY <2>1 DEF Arrive, Enter
  <2>2. ReadFlags(w) \/ ByKey(w) \/ ByHeader(w) \/ BySession(w)
           => \E label, q : Goto(w, label, q)
    BY Zenon DEF ReadFlags, ByKey, ByHeader, BySession, Identified, Moves
  <2>3. Nobody(w) \/ Rights(w) => \E label, q : Goto(w, label, q)
    BY <1>0, NobodyAnswers, RightsAnswers DEF Answers, Moves
  <2>4. Filter(w) => \E label, q : Goto(w, label, q)
    BY FilterCases DEF Dispatched
  <2>5. Follow(w) \/ Finish(w) => \E label, q : Goto(w, label, q)
    BY DEF Follow, Finish, Enter
  <2>. QED
    BY <2>1, <2>2, <2>3, <2>4, <2>5, Zenon DEF Serve
<1>2. hops'[v] = hops[v]
  <2>1. ASSUME NEW r \in Requests, Arrive(w, r) PROVE UNCHANGED hops
    BY <2>1 DEF Arrive
  <2>2. ReadFlags(w) \/ ByKey(w) \/ ByHeader(w) \/ BySession(w) => UNCHANGED hops
    BY DEF ReadFlags, ByKey, ByHeader, BySession, Identified, Moves
  <2>3. Nobody(w) \/ Rights(w) => UNCHANGED hops
    BY <1>0, NobodyAnswers, RightsAnswers DEF Answers, Moves
  <2>4. Filter(w) => UNCHANGED hops
    BY FilterCases
  <2>5. Follow(w) \/ Finish(w) => hops'[v] = hops[v]
    BY <1>0 DEF Follow, Finish
  <2>. QED
    BY <2>1, <2>2, <2>3, <2>4, <2>5, Zenon DEF Serve
<1>. QED
  BY <1>0, <1>1, <1>2, GotoEffect

LEMMA ServedInit == GateInit => ServedInv
BY DEF GateInit, ServedInv

LEMMA ServedStep ==
    ASSUME TypeOK, ServedInv, [GateNext]_vars
    PROVE  ServedInv'
<1>0. GateTypes /\ zone' = zone
  BY IdentityStep DEF TypeOK, Forward
<1>1. ASSUME NEW w \in Workers, Serve(w), OnlyServes, Watch,
             NEW v \in Workers, pc'[v] # "idle", witness'[v].steady
      PROVE  Established(v)'
  <2>1. CASE v = w
    BY <1>1, <2>1, ServeEstablishes
  <2>2. CASE v # w
    BY <1>0, <1>1, <2>2, ServeAlone, StaysEstablished
  <2>. QED
    BY <2>1, <2>2
<1>2. ASSUME UNCHANGED <<pc, req>>, Watch,
             NEW v \in Workers, pc'[v] # "idle", witness'[v].steady
      PROVE  Established(v)'
  BY <1>0, <1>2, StaysEstablished
<1>3. ASSUME UNCHANGED vars PROVE ServedInv'
  BY <1>3 DEF ServedInv, Established, SettingsRead, PassesCsrf, vars, gate, credentials
<1>. QED
  BY <1>1, <1>2, <1>3, Kinds DEF ServedInv

\* ServedRightly: an administration handler serves only a request of which a credential
\* was an administrator's when those asked before it had named nobody, and refuses none
\* that was by the same credential all along, whatever ends, begins or expires meanwhile.
THEOREM AlwaysServedRightly == GateSpec => []ServedRightly
<1>1. ServedInv => ServedRightly
  BY DEF ServedInv, ServedRightly, Established
<1>. QED
  BY <1>1, TypeCorrect, ServedInit, ServedStep, PTL DEF GateSpec

-----------------------------------------------------------------------------
(* Where a browser is sent.                                                 *)

\* Neither the header nor the session of a request names anybody: for good, as long as
\* the settings stay, because a session that has ended does not come back.
Lost(r) ==
    /\ ~(SettingsRead.proxy /\ HeaderWorks(r))
    /\ ~(SettingsRead.session /\ SessionWorks(r))

\* The way of a browser: to the login page it is sent only when it is lost, from there
\* nowhere else; to the setup only in a fresh system; and to the second redirect only
\* from the dashboard, not to it.
Route(w) ==
    LET r == req[w].r
        answer == req[w].answer
    IN  /\ hops[w] <= 2
        /\ hops[w] >= 1 =>
              /\ r.page \in Redirects
              /\ r.page = "/login" => Lost(r) /\ LoginAvailable
              /\ r.page = "/setup" => settings.fresh
        /\ hops[w] = 2 => r.page # "/"
        /\ pc[w] \in {"key", "header", "session", "nobody"} => req[w].flags = SettingsRead
        /\ pc[w] \in {"session", "nobody"} => ~(SettingsRead.proxy /\ HeaderWorks(r))
        /\ pc[w] = "nobody" => Lost(r)
        /\ pc[w] = "rights" => ~(r.page = "/login" /\ hops[w] >= 1)
        /\ pc[w] = "answered" =>
              /\ answer = "/login" => Lost(r) /\ LoginAvailable
              /\ answer = "/setup" => settings.fresh
              /\ answer \in Redirects /\ hops[w] >= 1 => r.page = "/"
              /\ answer = "/" => r.page # "/"

RouteInv ==
    \A w \in Workers :
        /\ req[w].r.cookie \in 0..issued
        /\ pc[w] = "idle" => hops[w] = 0
        /\ pc[w] # "idle" /\ witness[w].steady /\ req[w].r.key = NoKey => Route(w)

LEMMA LostStays ==
    ASSUME IdentityOK, IdentityOK', Forward, UNCHANGED <<settings, mode>>,
           NEW r, r.cookie \in 0..issued, Lost(r)
    PROVE  Lost(r)'
<1>1. Honoured(r.cookie)' /\ r.cookie # NoToken => Honoured(r.cookie)
  <2> SUFFICES ASSUME Honoured(r.cookie)', r.cookie # NoToken PROVE Honoured(r.cookie)
    OBVIOUS
  <2>1. r.cookie \in 1..issued /\ r.cookie \in DOMAIN sessions'
    BY DEF NoToken, IdentityOK, Honoured
  <2>2. r.cookie \in DOMAIN sessions /\ sessions'[r.cookie].expires = sessions[r.cookie].expires
        /\ clock <= clock' /\ zone' = zone
    BY <2>1 DEF Forward
  <2>3. sessions'[r.cookie].expires + zone' > clock'
    BY DEF Honoured
  <2>4. sessions[r.cookie].expires \in Int /\ clock \in Int /\ clock' \in Int /\ zone \in Int
    BY <2>2 DEF IdentityOK
  <2>. QED
    BY <2>2, <2>3, <2>4 DEF Honoured
<1>2. SettingsRead' = SettingsRead
  BY DEF SettingsRead
<1>. QED
  BY <1>1, <1>2 DEF Lost, SessionWorks, HeaderWorks

\* Where the settings stay and the request does not move, its way stays what it is.
LEMMA RouteStays ==
    ASSUME IdentityOK, IdentityOK', Forward, UNCHANGED <<settings, mode>>, NEW w \in Workers,
           req[w].r.cookie \in 0..issued, Route(w),
           pc'[w] = pc[w], req'[w] = req[w], hops'[w] = hops[w]
    PROVE  Route(w)'
<1>1. Lost(req[w].r) => Lost(req[w].r)'
  BY LostStays
<1>2. SettingsRead' = SettingsRead /\ (LoginAvailable' <=> LoginAvailable)
  BY DEF SettingsRead, LoginAvailable
<1>3. HeaderWorks(req[w].r)' <=> HeaderWorks(req[w].r)
  BY DEF HeaderWorks
<1>. QED
  BY <1>1, <1>2, <1>3 DEF Route

LEMMA LostSame ==
    ASSUME OnlyServes, NEW w \in Workers, NEW r, req'[w].r.cookie = r.cookie,
           req'[w].r.header = r.header, req'[w].r.behindProxy = r.behindProxy
    PROVE  /\ Lost(req[w].r)' <=> Lost(r)
           /\ SettingsRead' = SettingsRead /\ (LoginAvailable' <=> LoginAvailable)
           /\ HeaderWorks(req[w].r)' <=> HeaderWorks(r)
<1>0. UNCHANGED <<clock, zone, sessions, settings, mode>>
  BY DEF OnlyServes, identityVars
<1>1. SettingsRead' = SettingsRead /\ (LoginAvailable' <=> LoginAvailable)
  BY <1>0 DEF SettingsRead, LoginAvailable
<1>2. HeaderWorks(req[w].r)' <=> HeaderWorks(r)
  BY <1>0 DEF HeaderWorks
<1>3. SessionWorks(req[w].r)' <=> SessionWorks(r)
  BY <1>0 DEF SessionWorks, Honoured
<1>. QED
  BY <1>1, <1>2, <1>3 DEF Lost

\* The request is answered: all that matters is where the answer leads.
LEMMA AnswerRoute ==
    ASSUME GateTypes, OnlyServes, NEW w \in Workers, NEW a \in Outcomes,
           Goto(w, "answered", [req[w] EXCEPT !.answer = a]), UNCHANGED hops, Route(w),
           a = "/login" => Lost(req[w].r) /\ LoginAvailable,
           a = "/setup" => settings.fresh,
           a \in Redirects /\ hops[w] >= 1 => req[w].r.page = "/",
           a = "/" => req[w].r.page # "/"
    PROVE  Route(w)'
<1>1. pc'[w] = "answered" /\ req'[w].answer = a /\ req'[w].r = req[w].r
  BY AnswerEffect
<1>2. /\ Lost(req[w].r)' <=> Lost(req[w].r)
      /\ LoginAvailable' <=> LoginAvailable
  BY <1>1, LostSame
<1>3. settings' = settings
  BY DEF OnlyServes
<1>. QED
  BY <1>1, <1>2, <1>3 DEF Route

\* The request goes on, and knows now what the label asks for.
LEMMA GoesOnRoute ==
    ASSUME GateTypes, OnlyServes, NEW w \in Workers, Route(w), UNCHANGED hops,
           pc'[w] # "answered", req'[w].r = req[w].r,
           pc'[w] \in {"key", "header", "session", "nobody"} => req'[w].flags = SettingsRead,
           pc'[w] \in {"session", "nobody"}
              => ~(SettingsRead.proxy /\ HeaderWorks(req[w].r)),
           pc'[w] = "nobody" => Lost(req[w].r),
           pc'[w] = "rights" => ~(req[w].r.page = "/login" /\ hops[w] >= 1)
    PROVE  Route(w)'
<1>1. /\ Lost(req[w].r)' <=> Lost(req[w].r)
      /\ LoginAvailable' <=> LoginAvailable
      /\ SettingsRead' = SettingsRead
      /\ HeaderWorks(req[w].r)' <=> HeaderWorks(req[w].r)
  BY LostSame
<1>2. settings' = settings
  BY DEF OnlyServes
<1>. QED
  BY <1>1, <1>2 DEF Route

\* Somebody was found who is not lost: at the login page only without a redirect.
LEMMA IdentifiedRoute ==
    ASSUME GateTypes, OnlyServes, NEW w \in Workers, Route(w), UNCHANGED hops,
           NEW gs \in SUBSET Groups, Identified(w, gs), ~Lost(req[w].r)
    PROVE  Route(w)'
<1>1. pc'[w] \in {"filter", "rights"} /\ req'[w].r = req[w].r
  BY IdentifiedKeeps
<1>2. ~(req[w].r.page = "/login" /\ hops[w] >= 1)
  BY DEF Route
<1>. QED
  BY <1>1, <1>2, GoesOnRoute

\* Nobody is sent to a login page that leads back, even by a torn read of the mode.
LEMMA LoginLeadsSomewhere ==
    ASSUME GateTypes, NEW m \in ModesRead, GetAuthRedirectURL(m) = "/login" \/ LocalMode(m)
    PROVE  LoginAvailable
<1>1. mode \in {"local", "hybrid", "authelia"}
  BY DEF GateTypes
<1>2. CASE LocalMode(mode)
  BY <1>2 DEF LoginAvailable
<1>3. CASE ~LocalMode(mode)
  <2>1. mode = "authelia"
    BY <1>1, <1>3 DEF LocalMode
  <2>2. m # mode
    BY <1>3, <2>1 DEF GetAuthRedirectURL
  <2>3. mode # ModeOf(settings)
    BY <2>2 DEF ModesRead
  <2>. QED
    BY <2>1, <2>3 DEF ModeOf, LoginAvailable
<1>. QED
  BY <1>2, <1>3

\* What is found nowhere is lost; what AutoLoginRedirect keeps from its handler is the
\* dashboard or an API.
LEMMA NobodyRoute ==
    ASSUME GateTypes, OnlyServes, NEW w \in Workers, Route(w), Nobody(w)
    PROVE  Route(w)'
<1> DEFINE r == req[w].r
<1>1. /\ pc[w] = "nobody" /\ Lost(r) /\ PageOK(w) /\ r.page \in Pages /\ hops[w] \in Nat
      /\ hops[w] >= 1 => r.page \in Redirects
  BY DEF Nobody, Route, GateTypes, Work, Asked, RequestType
<1>2. r.page \notin {"/setup", "/auth/oidc"} /\ (req[w].stage = "gate" => ~Public(r.page))
  BY <1>1 DEF PageOK, Authenticating
<1>3. PICK a \in Outcomes : Answers(w, a) /\
              \/ a = "401" \/ a = "page"
              \/ /\ req[w].stage = "gate" /\ ~IsApi(r.page)
                 /\ \E m \in ModesRead : a = GetAuthRedirectURL(m)
              \/ /\ req[w].stage # "gate" /\ r.page # "/login"
                 /\ \E m \in ModesRead : a = IF LocalMode(m) THEN "/login" ELSE "401"
  BY NobodyAnswers
<1>4. Goto(w, "answered", [req[w] EXCEPT !.answer = a]) /\ UNCHANGED hops
  BY <1>3 DEF Answers, Moves
<1>5. a \in {"401", "page", "/login", "/auth/oidc"}
  BY <1>3 DEF GetAuthRedirectURL
<1>6. a = "/login" => LoginAvailable
  BY <1>3, LoginLeadsSomewhere
<1>7. a \in Redirects /\ hops[w] >= 1 => r.page = "/"
  BY <1>1, <1>2, <1>3 DEF Redirects, Public, IsApi, Pages
<1>. QED
  BY <1>1, <1>4, <1>5, <1>6, <1>7, AnswerRoute

LEMMA RightsRoute ==
    ASSUME GateTypes, OnlyServes, NEW w \in Workers, Route(w), Rights(w)
    PROVE  Route(w)'
<1> DEFINE r == req[w].r
<1>1. /\ pc[w] = "rights" /\ ~(r.page = "/login" /\ hops[w] >= 1)
      /\ hops[w] >= 1 => r.page \in Redirects
  BY DEF Rights, Route
<1>2. PICK a \in Outcomes : Answers(w, a) /\
              \/ r.page \in {"/login", "/api/auth/login"} /\ a = "/"
              \/ a \in {"page", "served", "403"}
  BY RightsAnswers
<1>3. Goto(w, "answered", [req[w] EXCEPT !.answer = a]) /\ UNCHANGED hops
  BY <1>2 DEF Answers, Moves
<1>. QED
  BY <1>1, <1>2, <1>3, AnswerRoute DEF Redirects

LEMMA FilterRoute ==
    ASSUME GateTypes, OnlyServes, NEW w \in Workers, Route(w), Filter(w)
    PROVE  Route(w)'
<1> DEFINE r == req[w].r
<1>1. /\ hops[w] >= 1 => r.page \in Redirects
      /\ hops[w] >= 1 /\ r.page = "/login" => LoginAvailable
      /\ hops[w] >= 1 /\ r.page = "/setup" => settings.fresh
  BY DEF Route
<1>2. UNCHANGED hops
  BY FilterCases
<1>3. ASSUME NEW a \in {"403", "429"}, Goto(w, "answered", [req[w] EXCEPT !.answer = a])
      PROVE  Route(w)'
  BY <1>2, <1>3, AnswerRoute DEF Outcomes, Redirects
<1>4. ASSUME Dispatched(w) PROVE Route(w)'
  <2>1. CASE Goto(w, "flags", req[w])
    BY <1>2, <2>1, GotoEffect, GoesOnRoute
  <2>2. CASE ~Goto(w, "flags", req[w])
    <3>1. PICK a \in Outcomes :
              /\ Goto(w, "answered", [req[w] EXCEPT !.answer = a])
              /\ \/ a = "login"
                 \/ ~LoginAvailable /\ r.page \in {"/login", "/api/auth/login"} /\ a = "/"
                 \/ r.page = "/setup" /\ a = IF settings.fresh THEN "page" ELSE "/"
                 \/ a \in {"503", "provider"}
                 \/ r.page = "/" /\ settings.fresh /\ a = "/setup"
      BY <1>4, <2>2 DEF Dispatched
    <3>2. a = "/setup" => settings.fresh /\ r.page = "/"
      BY <3>1
    <3>3. a = "/" => r.page # "/" /\ ~(hops[w] >= 1)
      BY <1>1, <3>1 DEF Redirects
    <3>4. a # "/login" /\ a # "/auth/oidc"
      BY <3>1
    <3>5. a \in Redirects /\ hops[w] >= 1 => r.page = "/"
      BY <3>2, <3>3, <3>4 DEF Redirects
    <3>. QED
      BY <1>2, <3>1, <3>2, <3>3, <3>4, <3>5, AnswerRoute
  <2>. QED
    BY <2>1, <2>2
<1>. QED
  BY <1>3, <1>4, FilterCases

LEMMA FollowRoute ==
    ASSUME GateTypes, OnlyServes, NEW w \in Workers, Route(w), Follow(w)
    PROVE  Route(w)'
<1> DEFINE r == [req[w].r EXCEPT !.page = req[w].answer, !.post = FALSE]
           answer == req[w].answer
<1>1. req[w].r \in RequestType /\ hops \in [Workers -> Nat]
  BY DEF GateTypes, Work, Asked
<1>2. /\ pc[w] = "answered" /\ answer \in Redirects /\ Enter(w, r)
      /\ hops'[w] = hops[w] + 1 /\ hops[w] \in Nat
  BY <1>1 DEF Follow
<1>3. r.cookie = req[w].r.cookie /\ r.header = req[w].r.header
      /\ r.behindProxy = req[w].r.behindProxy /\ r.page = answer
  BY <1>1 DEF RequestType
<1>4. r \in RequestType
  BY <1>1, <1>2 DEF RequestType, Pages
<1>5. r.post = FALSE
  BY <1>1 DEF RequestType
<1> HIDE DEF r
<1>6. r \in Asked
  BY <1>4, <1>5 DEF Asked, Limited
<1>7. pc'[w] \in {"filter", "flags"} /\ req'[w].r = r
  BY <1>2, <1>6, EnterEffect
<1>8. /\ Lost(req[w].r)' <=> Lost(req[w].r)
      /\ LoginAvailable' <=> LoginAvailable
  BY <1>3, <1>7, LostSame
<1>9. hops[w] # 2 /\ (hops[w] = 1 => answer # "/")
  BY <1>2 DEF Route
<1>10. hops'[w] <= 2 /\ (hops'[w] = 2 => answer # "/")
  BY <1>2, <1>9 DEF Route
<1>11. /\ answer = "/login" => Lost(req[w].r)' /\ LoginAvailable'
       /\ answer = "/setup" => settings'.fresh
  BY <1>2, <1>8 DEF Route, OnlyServes
<1>. QED
  BY <1>2, <1>3, <1>7, <1>10, <1>11 DEF Route

LEMMA ServeRoute ==
    ASSUME TypeOK, RouteInv, OnlyServes, Watch, NEW w \in Workers, Serve(w),
           pc'[w] # "idle", witness'[w].steady, req'[w].r.key = NoKey
    PROVE  Route(w)'
<1> DEFINE r == req[w].r
<1>0. /\ GateTypes /\ IdentityOK /\ req[w] \in Work /\ r \in Asked /\ PageOK(w)
      /\ SettingsRead' = SettingsRead /\ witness[w].steady
  BY Remembered DEF TypeOK, GateTypes, Work
<1>1. pc[w] # "idle" /\ r.key = NoKey => Route(w)
  BY <1>0 DEF RouteInv
<1>2. ASSUME NEW r1 \in Requests, Arrive(w, r1) PROVE Route(w)'
  <2>1. r1 \in Asked /\ Enter(w, r1) /\ UNCHANGED hops /\ pc[w] = "idle"
    BY <1>2, GateConstants DEF Asked, Arrive
  <2>2. pc'[w] \in {"filter", "flags"} /\ hops'[w] = 0
    BY <1>0, <2>1, EnterEffect DEF RouteInv
  <2>. QED
    BY <2>2 DEF Route
<1>3. CASE ReadFlags(w)
  <2> DEFINE q == [req[w] EXCEPT !.flags = SettingsRead]
  <2>1. q.flags = SettingsRead /\ q.r = r /\ Goto(w, "key", q) /\ UNCHANGED hops
        /\ pc[w] = "flags"
    BY <1>0, <1>3, WorkFlags, SettingsReadType DEF ReadFlags, Moves
  <2> HIDE DEF q
  <2>2. pc'[w] = "key" /\ req'[w].flags = SettingsRead /\ req'[w].r = r
    BY <1>0, <2>1, GotoEffect
  <2>. QED
    BY <1>0, <1>1, <2>1, <2>2, GoesOnRoute
<1>4. ASSUME NEW gs \in SUBSET Groups, Identified(w, gs) PROVE req'[w].r = r
  BY <1>0, <1>4, IdentifiedKeeps
<1>5. CASE ByKey(w)
  <2>0. pc[w] = "key" /\ UNCHANGED hops
    BY <1>5 DEF ByKey, Identified, Moves
  <2>1. CASE KeyWorks(r)
    <3>1. Identified(w, keys[r.key].groups) /\ keys[r.key].groups \in SUBSET Groups
      BY <1>0, <1>5, <2>1, GroupsFound DEF ByKey
    <3>2. req'[w].r = r
      BY <1>4, <3>1
    <3>. QED
      BY <2>1, <3>2 DEF KeyWorks
  <2>2. CASE ~KeyWorks(r)
    <3>1. pc'[w] = "header" /\ req'[w] = req[w]
      BY <1>0, <1>5, <2>2, GoesOn DEF ByKey
    <3>2. Route(w) /\ req[w].flags = SettingsRead
      BY <1>1, <2>0, <3>1 DEF Route
    <3>. QED
      BY <1>0, <2>0, <3>1, <3>2, GoesOnRoute
  <2>. QED
    BY <2>1, <2>2
<1>6. CASE ByHeader(w)
  <2>0. pc[w] = "header" /\ UNCHANGED hops
    BY <1>6 DEF ByHeader, Identified, Moves
  <2>1. CASE req[w].flags.proxy /\ HeaderWorks(r)
    <3>1. Identified(w, r.groups) /\ r.groups \in SUBSET Groups
      BY <1>0, <1>6, <2>1, GroupsFound DEF ByHeader
    <3>2. Route(w)
      BY <1>1, <1>4, <2>0, <3>1
    <3>3. ~Lost(r)
      BY <2>0, <2>1, <3>2 DEF Route, Lost
    <3>. QED
      BY <1>0, <2>0, <3>1, <3>2, <3>3, IdentifiedRoute
  <2>2. CASE ~(req[w].flags.proxy /\ HeaderWorks(r))
    <3>1. pc'[w] = "session" /\ req'[w] = req[w]
      BY <1>0, <1>6, <2>2, GoesOn DEF ByHeader
    <3>2. Route(w) /\ req[w].flags = SettingsRead
      BY <1>1, <2>0, <3>1 DEF Route
    <3>. QED
      BY <1>0, <2>0, <2>2, <3>1, <3>2, GoesOnRoute
  <2>. QED
    BY <2>1, <2>2
<1>7. CASE BySession(w)
  <2>0. pc[w] = "session" /\ UNCHANGED hops
    BY <1>7 DEF BySession, Identified, Moves
  <2>1. CASE req[w].flags.session /\ SessionWorks(r)
    <3>1. Identified(w, users[Holder(r)]) /\ users[Holder(r)] \in SUBSET Groups
      BY <1>0, <1>7, <2>1, GroupsFound DEF BySession
    <3>2. Route(w)
      BY <1>1, <1>4, <2>0, <3>1
    <3>3. ~Lost(r)
      BY <2>0, <2>1, <3>2 DEF Route, Lost
    <3>. QED
      BY <1>0, <2>0, <3>1, <3>2, <3>3, IdentifiedRoute
  <2>2. CASE ~(req[w].flags.session /\ SessionWorks(r))
    <3>1. pc'[w] = "nobody" /\ req'[w] = req[w]
      BY <1>0, <1>7, <2>2, GoesOn DEF BySession
    <3>2. /\ Route(w) /\ req[w].flags = SettingsRead
          /\ ~(SettingsRead.proxy /\ HeaderWorks(r))
      BY <1>1, <2>0, <3>1 DEF Route
    <3>3. Lost(r)
      BY <2>2, <3>2 DEF Lost
    <3>. QED
      BY <1>0, <2>0, <3>1, <3>2, <3>3, GoesOnRoute
  <2>. QED
    BY <2>1, <2>2
<1>8. ASSUME NEW a \in Outcomes, Goto(w, "answered", [req[w] EXCEPT !.answer = a])
      PROVE  req'[w].r = r
  BY <1>0, <1>8, AnswerEffect
<1>9. CASE Nobody(w)
  <2>1. pc[w] = "nobody" /\ \E a \in Outcomes : Answers(w, a)
    BY <1>9, NobodyAnswers DEF Nobody
  <2>. QED
    BY <1>0, <1>1, <1>8, <1>9, <2>1, NobodyRoute DEF Answers, Moves
<1>10. CASE Rights(w)
  <2>1. pc[w] = "rights" /\ \E a \in Outcomes : Answers(w, a)
    BY <1>0, <1>10, RightsAnswers DEF Rights
  <2>. QED
    BY <1>0, <1>1, <1>8, <1>10, <2>1, RightsRoute DEF Answers, Moves
<1>11. CASE Filter(w)
  <2>1. /\ pc[w] = "filter"
        /\ \/ \E a \in Outcomes : Goto(w, "answered", [req[w] EXCEPT !.answer = a])
           \/ Goto(w, "flags", req[w])
    BY <1>11, FilterCases DEF Dispatched, Outcomes
  <2>2. req'[w].r = r
    BY <1>0, <1>8, <2>1, GotoEffect
  <2>. QED
    BY <1>0, <1>1, <1>11, <2>1, <2>2, FilterRoute
<1>12. CASE Follow(w)
  <2> DEFINE q == [r EXCEPT !.page = req[w].answer, !.post = FALSE]
  <2>1. r \in RequestType /\ pc[w] = "answered" /\ req[w].answer \in Redirects /\ Enter(w, q)
    BY <1>0, <1>12 DEF Follow, Asked
  <2>2. q.key = r.key /\ q \in RequestType
    BY <2>1 DEF RequestType, Pages
  <2>3. q.post = FALSE
    BY <2>1 DEF RequestType
  <2> HIDE DEF q
  <2>4. req'[w].r = q
    BY <1>0, <2>1, <2>2, <2>3, EnterEffect DEF Asked, Limited
  <2>. QED
    BY <1>0, <1>1, <1>12, <2>1, <2>2, <2>4, FollowRoute
<1>13. CASE Finish(w)
  <2>1. \E q : Goto(w, "idle", q)
    BY <1>13 DEF Finish
  <2>. QED
    BY <1>0, <2>1, GotoEffect
<1>. QED
  BY <1>2, <1>3, <1>5, <1>6, <1>7, <1>9, <1>10, <1>11, <1>12, <1>13, Zenon DEF Serve

\* A goroutine never holds a token that was not issued.
LEMMA CookieStays ==
    ASSUME TypeOK, RouteInv, NEW w \in Workers, Serve(w), issued' = issued
    PROVE  req'[w].r.cookie \in 0..issued'
<1> DEFINE r == req[w].r
<1>0. /\ GateTypes /\ IdentityOK /\ req[w] \in Work /\ r \in Asked /\ r.cookie \in 0..issued
  BY DEF TypeOK, GateTypes, Work, RouteInv
<1>1. ASSUME NEW r1 \in Requests, Arrive(w, r1) PROVE req'[w].r.cookie \in 0..issued'
  <2>1. r1 \in Asked /\ Enter(w, r1) /\ (r1.cookie = NoToken \/ r1.cookie \in 1..issued)
    BY <1>1, GateConstants DEF Asked, Arrive
  <2>2. req'[w].r = r1
    BY <1>0, <2>1, EnterEffect
  <2>. QED
    BY <1>0, <2>1, <2>2 DEF NoToken, IdentityOK
<1>2. ASSUME NEW gs \in SUBSET Groups, Identified(w, gs) PROVE req'[w].r = r
  BY <1>0, <1>2, IdentifiedKeeps
<1>3. ASSUME NEW label, Moves(w, label, req[w]) PROVE req'[w].r = r
  BY <1>0, <1>3, GoesOn
<1>4. ASSUME NEW a \in Outcomes, Goto(w, "answered", [req[w] EXCEPT !.answer = a])
      PROVE  req'[w].r = r
  BY <1>0, <1>4, AnswerEffect
<1>5. CASE ReadFlags(w)
  <2> DEFINE q == [req[w] EXCEPT !.flags = SettingsRead]
  <2>1. q.r = r /\ Goto(w, "key", q)
    BY <1>0, <1>5, WorkFlags, SettingsReadType DEF ReadFlags, Moves
  <2> HIDE DEF q
  <2>. QED
    BY <1>0, <2>1, GotoEffect
<1>6. CASE ByKey(w)
  BY <1>0, <1>2, <1>3, <1>6, GroupsFound DEF ByKey
<1>7. CASE ByHeader(w)
  BY <1>0, <1>2, <1>3, <1>7, GroupsFound DEF ByHeader
<1>8. CASE BySession(w)
  BY <1>0, <1>2, <1>3, <1>8, GroupsFound DEF BySession
<1>9. CASE Nobody(w) \/ Rights(w)
  <2>1. \E a \in Outcomes : Answers(w, a)
    BY <1>0, <1>9, NobodyAnswers, RightsAnswers
  <2>. QED
    BY <1>0, <1>4, <2>1 DEF Answers, Moves
<1>10. CASE Filter(w)
  <2>1. \/ \E a \in Outcomes : Goto(w, "answered", [req[w] EXCEPT !.answer = a])
        \/ Goto(w, "flags", req[w])
    BY <1>10, FilterCases DEF Dispatched, Outcomes
  <2>. QED
    BY <1>0, <1>4, <2>1, GotoEffect
<1>11. CASE Follow(w)
  <2> DEFINE q == [r EXCEPT !.page = req[w].answer, !.post = FALSE]
  <2>1. r \in RequestType /\ req[w].answer \in Redirects /\ Enter(w, q)
    BY <1>0, <1>11 DEF Follow, Asked
  <2>2. q.cookie = r.cookie /\ q \in RequestType
    BY <2>1 DEF RequestType, Pages
  <2>3. q.post = FALSE
    BY <2>1 DEF RequestType
  <2> HIDE DEF q
  <2>4. req'[w].r = q
    BY <1>0, <2>1, <2>2, <2>3, EnterEffect DEF Asked, Limited
  <2>. QED
    BY <1>0, <2>2, <2>4
<1>12. CASE Finish(w)
  <2>1. req'[w].r.cookie = 0
    BY <1>0, <1>12, GotoEffect DEF Finish, Idle, NoRequest, NoToken
  <2>. QED
    BY <1>0, <2>1 DEF IdentityOK
<1>. QED
  BY <1>0, <1>1, <1>5, <1>6, <1>7, <1>8, <1>9, <1>10, <1>11, <1>12, Zenon DEF Serve

LEMMA OnlyFinishIdles ==
    ASSUME GateTypes, NEW w \in Workers, Serve(w), pc'[w] = "idle"
    PROVE  hops'[w] = 0
<1>0. hops \in [Workers -> Nat]
  BY DEF GateTypes
<1>1. ASSUME NEW label, label # "idle", NEW q, Goto(w, label, q) PROVE FALSE
  BY <1>1, GotoEffect
<1>2. ASSUME NEW r \in Requests, Arrive(w, r) PROVE FALSE
  <2>1. \E label, q : Goto(w, label, q) /\ label # "idle"
    BY <1>2 DEF Arrive, Enter
  <2>. QED
    BY <1>1, <2>1
<1>3. ASSUME ReadFlags(w) \/ ByKey(w) \/ ByHeader(w) \/ BySession(w) PROVE FALSE
  <2>1. ReadFlags(w) => \E q : Goto(w, "key", q)
    BY DEF ReadFlags, Moves
  <2>2. ASSUME NEW gs, Identified(w, gs) PROVE FALSE
    <3>1. \E q : Goto(w, "filter", q) \/ Goto(w, "rights", q)
      BY <2>2, Zenon DEF Identified, Moves
    <3>. QED
      BY <1>1, <3>1
  <2>3. ByKey(w) => Goto(w, "header", req[w]) \/ \E gs : Identified(w, gs)
    BY DEF ByKey, Moves
  <2>4. ByHeader(w) => Goto(w, "session", req[w]) \/ \E gs : Identified(w, gs)
    BY DEF ByHeader, Moves
  <2>5. BySession(w) => Goto(w, "nobody", req[w]) \/ \E gs : Identified(w, gs)
    BY DEF BySession, Moves
  <2>. QED
    BY <1>1, <1>3, <2>1, <2>2, <2>3, <2>4, <2>5
<1>4. ASSUME Nobody(w) \/ Rights(w) PROVE FALSE
  <2>1. \E a \in Outcomes : Answers(w, a)
    BY <1>4, NobodyAnswers, RightsAnswers
  <2>. QED
    BY <1>1, <2>1 DEF Answers, Moves
<1>5. ASSUME Filter(w) PROVE FALSE
  <2>1. \E q : Goto(w, "answered", q) \/ Goto(w, "flags", q)
    BY <1>5, FilterCases, Zenon DEF Dispatched
  <2>. QED
    BY <1>1, <2>1
<1>6. ASSUME Follow(w) PROVE FALSE
  <2>1. \E label, q : Goto(w, label, q) /\ label # "idle"
    BY <1>6 DEF Follow, Enter
  <2>. QED
    BY <1>1, <2>1
<1>7. Finish(w) => hops'[w] = 0
  BY <1>0 DEF Finish
<1>. QED
  BY <1>2, <1>3, <1>4, <1>5, <1>6, <1>7, Zenon DEF Serve

LEMMA RouteInit == GateInit => RouteInv
<1> SUFFICES ASSUME GateInit, NEW w \in Workers
             PROVE  req[w].r.cookie \in 0..issued /\ pc[w] = "idle" /\ hops[w] = 0
  BY DEF RouteInv
<1>. QED
  BY DEF GateInit, CredentialsInit, Idle, NoRequest, NoToken

LEMMA RouteStep ==
    ASSUME TypeOK, RouteInv, [GateNext]_vars
    PROVE  RouteInv'
<1>0. GateTypes /\ IdentityOK /\ IdentityOK' /\ Forward
  BY IdentityStep DEF TypeOK
<1>1. ASSUME NEW v \in Workers, req'[v] = req[v] PROVE req'[v].r.cookie \in 0..issued'
  <2>1. req[v].r.cookie \in 0..issued /\ issued \in Nat /\ issued' \in Nat /\ issued <= issued'
    BY <1>0 DEF RouteInv, IdentityOK, Forward
  <2>. QED
    BY <1>1, <2>1
<1>2. ASSUME Watch, NEW v \in Workers, pc'[v] = pc[v], req'[v] = req[v], hops'[v] = hops[v],
             pc'[v] # "idle", witness'[v].steady, req'[v].r.key = NoKey
      PROVE  Route(v)'
  <2>1. witness[v].steady /\ UNCHANGED <<settings, mode>>
    BY <1>0, <1>2, Remembered
  <2>2. req[v].r.cookie \in 0..issued /\ Route(v)
    BY <1>2, <2>1 DEF RouteInv
  <2>. QED
    BY <1>0, <1>2, <2>1, <2>2, RouteStays
<1>3. ASSUME NEW w \in Workers, Serve(w), OnlyServes, Watch PROVE RouteInv'
  <2>1. ASSUME NEW v \in Workers
        PROVE  /\ req'[v].r.cookie \in 0..issued'
               /\ pc'[v] = "idle" => hops'[v] = 0
               /\ pc'[v] # "idle" /\ witness'[v].steady /\ req'[v].r.key = NoKey => Route(v)'
    <3>1. CASE v = w
      <4>1. req'[w].r.cookie \in 0..issued'
        BY <1>3, CookieStays DEF OnlyServes, identityVars
      <4>2. pc'[w] = "idle" => hops'[w] = 0
        BY <1>0, <1>3, OnlyFinishIdles
      <4>3. pc'[w] # "idle" /\ witness'[w].steady /\ req'[w].r.key = NoKey => Route(w)'
        BY <1>3, ServeRoute
      <4>. QED
        BY <3>1, <4>1, <4>2, <4>3
    <3>2. CASE v # w
      <4>1. pc'[v] = pc[v] /\ req'[v] = req[v] /\ hops'[v] = hops[v]
        BY <1>3, <3>2, ServeAlone
      <4>. QED
        BY <1>1, <1>2, <1>3, <4>1 DEF RouteInv
    <3>. QED
      BY <3>1, <3>2
  <2>. QED
    BY <2>1 DEF RouteInv
<1>4. ASSUME UNCHANGED <<pc, req, hops>>, Watch PROVE RouteInv'
  <2>1. ASSUME NEW v \in Workers
        PROVE  /\ req'[v].r.cookie \in 0..issued'
               /\ pc'[v] = "idle" => hops'[v] = 0
               /\ pc'[v] # "idle" /\ witness'[v].steady /\ req'[v].r.key = NoKey => Route(v)'
    BY <1>1, <1>2, <1>4 DEF RouteInv
  <2>. QED
    BY <2>1 DEF RouteInv
<1>5. ASSUME UNCHANGED vars PROVE RouteInv'
  <2>1. UNCHANGED <<issued, pc, req, hops, witness, settings, mode>>
    BY <1>5 DEF vars, gate, credentials, identityVars
  <2>2. ASSUME NEW v \in Workers, Route(v) PROVE Route(v)'
    BY <1>0, <2>1, <2>2, RouteStays DEF RouteInv
  <2>. QED
    BY <2>1, <2>2 DEF RouteInv
<1>. QED
  BY <1>3, <1>4, <1>5, Kinds

\* RedirectsEnd: while the settings stay, a browser follows no more than two redirects,
\* even if its session ends on the way and the mode is read torn.
THEOREM RedirectsAlwaysEnd == GateSpec => []RedirectsEnd
<1>1. RouteInv => RedirectsEnd
  BY DEF RouteInv, RedirectsEnd, Route
<1>. QED
  BY <1>1, TypeCorrect, RouteInit, RouteStep, PTL DEF GateSpec
=============================================================================
