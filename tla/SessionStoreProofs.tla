------------------------- MODULE SessionStoreProofs -------------------------
(***************************************************************************)
(* Proofs about SessionStore, for any number of workers, names, passwords  *)
(* and identifiers, with and without interruptions.                        *)
(*                                                                         *)
(* The argument rests on one fact about the tables: an identifier that was *)
(* handed out names the same user for ever, or nobody (IdsForLife).  What  *)
(* a handler has read about an identifier stays true while other requests  *)
(* run, and that is all its later statements need.                         *)
(*                                                                         *)
(* Two properties need more than that: with requests one at a time         *)
(* (OneAtATime) what a handler has read about passwords and roles is still *)
(* true when it writes.                                                    *)
(***************************************************************************)
EXTENDS SessionStore, TLAPS

TablesOK ==
    /\ lastId \in Ids
    /\ DOMAIN users \subseteq 1..lastId
    /\ \A i \in DOMAIN users : users[i] \in Accounts
    /\ sessions \subseteq Sessions
    /\ issued \in 0..MaxToken
    /\ NamesUnique
    /\ SessionsBelong

\* What the statements a handler has run so far established, and still holds.
WorkerOK(w) ==
    /\ pc[w] \in LoginPcs \cup {"create"} => req[w].name \in Names
    /\ pc[w] \in {"invalidate", "insert"} =>
          /\ req[w].uid \in 1..lastId
          /\ req[w].uid \in DOMAIN users => users[req[w].uid].name = req[w].name
    /\ pc[w] = "updTarget" => req[w].name = Nobody
    /\ pc[w] = "update" /\ req[w].name # Nobody =>
          /\ req[w].uid \in 1..lastId
          /\ req[w].uid \in DOMAIN users => users[req[w].uid].name = req[w].name
          /\ req[w].name = req[w].actor => req[w].admin
    /\ pc[w] \in {"drop", "delDrop", "delete"} => req[w].uid \in 1..lastId
    /\ pc[w] \in {"delDrop", "delete"} => ~AboutSelf(w)

SessionInv ==
    /\ TablesOK
    /\ pc \in [Workers -> {"idle"} \cup LoginPcs \cup AdminPcs]
    /\ req \in [Workers -> Requests]
    /\ \A w \in Workers : WorkerOK(w)

\* A step keeps the name of every identifier handed out so far.
NamesKept ==
    /\ lastId' \in Nat /\ lastId <= lastId'
    /\ \A i \in 1..lastId : i \in DOMAIN users' =>
          i \in DOMAIN users /\ users'[i].name = users[i].name

-----------------------------------------------------------------------------
LEMMA NoRequestOK == NoRequest \in Requests
  BY SessionConstants DEF NoRequest, Requests

LEMMA SessionInit == Init => SessionInv
<1> SUFFICES ASSUME Init PROVE SessionInv
  OBVIOUS
<1> USE SessionConstants
<1>1. TablesOK
  BY DEF Init, TablesOK, Ids, Accounts, Sessions, NamesUnique, SessionsBelong
<1>2. pc \in [Workers -> {"idle"} \cup LoginPcs \cup AdminPcs]
      /\ req \in [Workers -> Requests]
  BY NoRequestOK DEF Init
<1>3. \A w \in Workers : WorkerOK(w)
  BY DEF Init, WorkerOK, LoginPcs
<1>. QED
  BY <1>1, <1>2, <1>3 DEF SessionInv

-----------------------------------------------------------------------------
(* How the statements change the tables.                                    *)

\* INSERT INTO users of a row whose name is not taken.
LEMMA AddAccountKeeps ==
    ASSUME TablesOK, NEW row \in Accounts, IdsOf(row.name) = {},
           AddAccount(row), UNCHANGED <<sessions, issued>>
    PROVE  TablesOK' /\ NamesKept
<1> USE SessionConstants
<1>1. /\ lastId' = lastId + 1 /\ lastId < MaxId /\ lastId \in Nat
      /\ DOMAIN users' = DOMAIN users \cup {lastId + 1}
      /\ \A i \in DOMAIN users : i # lastId + 1 => users'[i] = users[i]
      /\ users'[lastId + 1] = row
  BY DEF AddAccount, TablesOK, Ids
<1>2. lastId + 1 \notin DOMAIN users
  BY <1>1 DEF TablesOK
<1>3. NamesKept
  BY <1>1, <1>2 DEF NamesKept
<1>4. NamesUnique'
  BY <1>1, <1>2 DEF TablesOK, NamesUnique, IdsOf
<1>5. SessionsBelong'
  BY <1>1, <1>2 DEF TablesOK, SessionsBelong
<1>6. lastId' \in Ids /\ DOMAIN users' \subseteq 1..lastId'
      /\ \A i \in DOMAIN users' : users'[i] \in Accounts
  BY <1>1, <1>2 DEF TablesOK, Ids
<1>. QED
  BY <1>3, <1>4, <1>5, <1>6 DEF TablesOK

\* UPDATE users: rows change, but not their names.
LEMMA UpdateKeeps ==
    ASSUME TablesOK, DOMAIN users' = DOMAIN users,
           \A i \in DOMAIN users : users'[i] \in Accounts /\ users'[i].name = users[i].name,
           UNCHANGED <<lastId, sessions, issued>>
    PROVE  TablesOK' /\ NamesKept
BY DEF TablesOK, NamesKept, NamesUnique, SessionsBelong, Ids

\* DELETE FROM sessions.
LEMMA DropKeeps ==
    ASSUME TablesOK, sessions' \subseteq sessions, UNCHANGED <<users, lastId, issued>>
    PROVE  TablesOK' /\ NamesKept
BY DEF TablesOK, NamesKept, NamesUnique, SessionsBelong, Ids

-----------------------------------------------------------------------------
(* Workers.                                                                 *)

\* A worker that does not move keeps what it knows.
LEMMA OthersKeep ==
    ASSUME SessionInv, NamesKept, NEW v \in Workers, pc'[v] = pc[v], req'[v] = req[v]
    PROVE  WorkerOK(v)'
<1>1. lastId \in Nat /\ lastId' \in Nat /\ 1..lastId \subseteq 1..lastId'
  BY SessionConstants DEF SessionInv, TablesOK, NamesKept, Ids
<1>2. WorkerOK(v)
  BY DEF SessionInv
<1>3. AboutSelf(v)' /\ req[v].uid \in 1..lastId => AboutSelf(v)
  BY DEF AboutSelf, NamesKept
<1>4. (pc[v] \in {"invalidate", "insert"} =>
          /\ req[v].uid \in 1..lastId
          /\ req[v].uid \in DOMAIN users => users[req[v].uid].name = req[v].name)'
  BY <1>1, <1>2 DEF WorkerOK, NamesKept
<1>5. (pc[v] = "update" /\ req[v].name # Nobody =>
          /\ req[v].uid \in 1..lastId
          /\ req[v].uid \in DOMAIN users => users[req[v].uid].name = req[v].name
          /\ req[v].name = req[v].actor => req[v].admin)'
  BY <1>1, <1>2 DEF WorkerOK, NamesKept
<1>6. /\ (pc[v] \in {"drop", "delDrop", "delete"} => req[v].uid \in 1..lastId)'
      /\ (pc[v] \in {"delDrop", "delete"} => ~AboutSelf(v))'
  BY <1>1, <1>2, <1>3 DEF WorkerOK
<1>7. (/\ pc[v] \in LoginPcs \cup {"create"} => req[v].name \in Names
       /\ pc[v] = "updTarget" => req[v].name = Nobody)'
  BY <1>2 DEF WorkerOK
<1>. QED
  BY <1>4, <1>5, <1>6, <1>7 DEF WorkerOK

\* A worker that answers has nothing to keep, and the others are unaffected.
LEMMA AnswerKeeps ==
    ASSUME SessionInv, TablesOK', NamesKept, NEW w \in Workers, Answer(w)
    PROVE  SessionInv'
<1>1. pc'[w] = "idle" /\ \A v \in Workers : v # w => pc'[v] = pc[v] /\ req'[v] = req[v]
  BY DEF Answer, Goto, SessionInv
<1>2. WorkerOK(w)'
  BY <1>1 DEF WorkerOK, LoginPcs
<1>3. \A v \in Workers : WorkerOK(v)'
  BY <1>1, <1>2, OthersKeep
<1>4. pc' \in [Workers -> {"idle"} \cup LoginPcs \cup AdminPcs]
      /\ req' \in [Workers -> Requests]
  BY NoRequestOK DEF Answer, Goto, SessionInv
<1>. QED
  BY <1>3, <1>4 DEF SessionInv

\* A worker that goes on must establish what its next statement relies on.
LEMMA GotoKeeps ==
    ASSUME SessionInv, TablesOK', NamesKept, NEW w \in Workers,
           NEW label \in LoginPcs \cup AdminPcs, Goto(w, label),
           NEW r \in Requests, req' = [req EXCEPT ![w] = r], WorkerOK(w)'
    PROVE  SessionInv'
<1>1. \A v \in Workers : v # w => pc'[v] = pc[v] /\ req'[v] = req[v]
  BY DEF Goto, SessionInv
<1>2. \A v \in Workers : WorkerOK(v)'
  BY <1>1, OthersKeep
<1>3. pc' \in [Workers -> {"idle"} \cup LoginPcs \cup AdminPcs]
      /\ req' \in [Workers -> Requests]
  BY DEF Goto, SessionInv
<1>. QED
  BY <1>2, <1>3 DEF SessionInv

\* Statements that leave the tables alone.
LEMMA TablesUnchanged ==
    ASSUME TablesOK, UNCHANGED tables
    PROVE  TablesOK' /\ NamesKept
BY DEF tables, TablesOK, NamesKept, NamesUnique, SessionsBelong, Ids
-----------------------------------------------------------------------------
LEMMA BeginKeeps ==
    ASSUME SessionInv, NEW w \in Workers, Begin(w)
    PROVE  SessionInv' /\ NamesKept
<1> USE SessionConstants
<1>1. PICK label \in LoginPcs \cup AdminPcs, r \in Requests :
         /\ Start(w, label, r)
         /\ \/ /\ label \in {"local", "upsert", "create"}
               /\ r.name \in Names
            \/ label = "updTarget" /\ r.name = Nobody
            \/ label \in {"delTarget", "reset"}
  <2>1. ASSUME NEW n \in Names, NEW p \in Passwords, LoginBegin(w, n, p)
        PROVE  \E r \in Requests : Start(w, "local", r) /\ r.name \in Names
    <3>1. [NoRequest EXCEPT !.name = n, !.pw = p] \in Requests
      BY NoRequestOK DEF NoRequest, Requests
    <3>. QED
      BY <2>1, <3>1 DEF LoginBegin, NoRequest
  <2>2. ASSUME NEW n \in Names, NEW admin \in BOOLEAN, NEW mail \in Mails,
               OidcCallback(w, n, admin, mail)
        PROVE  \E r \in Requests : Start(w, "upsert", r) /\ r.name \in Names
    <3>1. [NoRequest EXCEPT !.name = n, !.pw = Directory, !.admin = admin, !.mail = mail]
             \in Requests
      BY NoRequestOK DEF NoRequest, Requests
    <3>. QED
      BY <2>2, <3>1 DEF OidcCallback, NoRequest
  <2>3. ASSUME NEW actor \in Names, NEW n \in Names, NEW p \in Passwords,
               NEW admin \in BOOLEAN, NEW mail \in Mails,
               CreateBegin(w, actor, n, p, admin, mail)
        PROVE  \E r \in Requests : Start(w, "create", r) /\ r.name \in Names
    <3>1. [NoRequest EXCEPT !.actor = actor, !.name = n, !.pw = p, !.admin = admin,
                            !.mail = mail] \in Requests
      BY NoRequestOK DEF NoRequest, Requests
    <3>. QED
      BY <2>3, <3>1 DEF CreateBegin, NoRequest
  <2>4. ASSUME NEW actor \in Names, NEW u \in Ids, NEW admin \in BOOLEAN,
               NEW mail \in Mails, UpdateBegin(w, actor, u, admin, mail)
        PROVE  \E r \in Requests : Start(w, "updTarget", r) /\ r.name = Nobody
    <3> DEFINE r == [NoRequest EXCEPT !.actor = actor, !.uid = u, !.admin = admin, !.mail = mail]
    <3>1. r \in Requests /\ r.name = Nobody
      <4>1. u \in 0..MaxId
        BY DEF Ids
      <4>. QED
        BY <4>1, NoRequestOK DEF NoRequest, Requests
    <3>. QED
      BY <2>4, <3>1 DEF UpdateBegin
  <2>5. ASSUME NEW actor \in Names, NEW u \in Ids, DeleteBegin(w, actor, u)
        PROVE  \E r \in Requests : Start(w, "delTarget", r)
    <3> DEFINE r == [NoRequest EXCEPT !.actor = actor, !.uid = u]
    <3>1. r \in Requests /\ r.name = Nobody
      <4>1. u \in 0..MaxId
        BY DEF Ids
      <4>. QED
        BY <4>1, NoRequestOK DEF NoRequest, Requests
    <3>. QED
      BY <2>5, <3>1 DEF DeleteBegin
  <2>6. ASSUME NEW actor \in Names, NEW u \in Ids, NEW p \in Passwords,
               ResetBegin(w, actor, u, p)
        PROVE  \E r \in Requests : Start(w, "reset", r)
    <3> DEFINE r == [NoRequest EXCEPT !.actor = actor, !.uid = u, !.pw = p]
    <3>1. r \in Requests /\ r.name = Nobody
      <4>1. u \in 0..MaxId
        BY DEF Ids
      <4>. QED
        BY <4>1, NoRequestOK DEF NoRequest, Requests
    <3>. QED
      BY <2>6, <3>1 DEF ResetBegin
  <2>7. \/ \E label \in {"local", "upsert", "create"}, r \in Requests :
              Start(w, label, r) /\ r.name \in Names
        \/ \E r \in Requests : Start(w, "updTarget", r) /\ r.name = Nobody
        \/ \E label \in {"delTarget", "reset"}, r \in Requests : Start(w, label, r)
    BY <2>1, <2>2, <2>3, <2>4, <2>5, <2>6 DEF Begin
  <2>. QED
    BY <2>7 DEF LoginPcs, AdminPcs
<1>2. TablesOK' /\ NamesKept
  BY <1>1, TablesUnchanged DEF Start, SessionInv
<1>3. pc'[w] = label /\ req'[w] = r /\ lastId' = lastId
  BY <1>1 DEF Start, Goto, SessionInv, tables
<1>4. WorkerOK(w)'
  BY <1>1, <1>3 DEF WorkerOK, LoginPcs
<1>5. SessionInv'
  BY <1>1, <1>2, <1>4, GotoKeeps DEF Start
<1>. QED
  BY <1>2, <1>5

LEMMA LoginKeeps ==
    ASSUME SessionInv, NEW w \in Workers, LoginStep(w)
    PROVE  SessionInv' /\ NamesKept
<1> USE SessionConstants
<1> DEFINE r == req[w]
<1>0. TablesOK /\ WorkerOK(w) /\ r \in Requests
  BY DEF SessionInv
<1>1. CASE LocalCheck(w)
  <2>1. TablesOK' /\ NamesKept
    BY <1>0, <1>1, TablesUnchanged DEF LocalCheck
  <2>2. r.name \in Names /\ UNCHANGED <<users, lastId>>
    BY <1>0, <1>1 DEF WorkerOK, LocalCheck, LoginPcs, tables
  <2>3. CASE Answer(w)
    BY <2>1, <2>3, AnswerKeeps
  <2>4. ASSUME NEW i \in IdsOf(r.name), req' = [req EXCEPT ![w].uid = i],
               Goto(w, "invalidate")
        PROVE  SessionInv'
    <3>1. i \in 1..lastId /\ users[i].name = r.name /\ i \in Ids
      BY <1>0 DEF IdsOf, TablesOK, Ids
    <3>2. [r EXCEPT !.uid = i] \in Requests /\ req' = [req EXCEPT ![w] = [r EXCEPT !.uid = i]]
      BY <1>0, <2>4, <3>1 DEF Requests, Ids
    <3>3. req'[w].uid = i /\ req'[w].name = r.name /\ pc'[w] = "invalidate"
      BY <1>0, <2>4 DEF Goto, SessionInv, Requests
    <3>4. WorkerOK(w)'
      BY <2>2, <3>1, <3>3 DEF WorkerOK
    <3>. QED
      BY <2>1, <2>4, <3>2, <3>4, GotoKeeps DEF LoginPcs
  <2>5. ASSUME NEW admin \in BOOLEAN, NEW mail \in Mails, Goto(w, "upsert"),
               req' = [req EXCEPT ![w].pw = Directory, ![w].admin = admin, ![w].mail = mail]
        PROVE  SessionInv'
    <3> DEFINE q == [r EXCEPT !.pw = Directory, !.admin = admin, !.mail = mail]
    <3>1. q \in Requests /\ q.name = r.name
      BY <1>0 DEF Requests
    <3>2. req' = [req EXCEPT ![w] = q]
      BY <2>5 DEF SessionInv
    <3>3. pc'[w] = "upsert" /\ req'[w].name = r.name
      BY <2>5, <3>1, <3>2 DEF Goto, SessionInv
    <3>4. WorkerOK(w)'
      BY <2>2, <3>3 DEF WorkerOK
    <3>. QED
      BY <2>1, <2>5, <3>1, <3>2, <3>4, GotoKeeps DEF LoginPcs
  <2>. QED
    BY <1>1, <2>1, <2>3, <2>4, <2>5 DEF LocalCheck
<1>2. CASE Upsert(w)
  <2>1. r.name \in Names
    BY <1>0, <1>2 DEF WorkerOK, Upsert, LoginPcs
  <2>2. TablesOK' /\ NamesKept
    <3>1. CASE UNCHANGED tables
      BY <1>0, <3>1, TablesUnchanged
    <3>2. ASSUME IdsOf(r.name) = {},
                 AddAccount([name |-> r.name, pw |-> Directory, admin |-> r.admin,
                             mail |-> r.mail])
          PROVE  TablesOK' /\ NamesKept
      <4> DEFINE row == [name |-> r.name, pw |-> Directory, admin |-> r.admin,
                         mail |-> r.mail]
      <4>1. row \in Accounts /\ row.name = r.name
        BY <1>0, <2>1 DEF Accounts, Requests
      <4>. QED
        BY <1>0, <1>2, <3>2, <4>1, AddAccountKeeps DEF Upsert
    <3>3. ASSUME users' = [i \in DOMAIN users |->
                              IF i \in IdsOf(r.name)
                              THEN [users[i] EXCEPT !.admin = r.admin, !.mail = r.mail]
                              ELSE users[i]],
                 UNCHANGED lastId
          PROVE  TablesOK' /\ NamesKept
      <4>1. ASSUME NEW i \in DOMAIN users
            PROVE  [users[i] EXCEPT !.admin = r.admin, !.mail = r.mail] \in Accounts
                   /\ [users[i] EXCEPT !.admin = r.admin, !.mail = r.mail].name
                        = users[i].name
        BY <1>0 DEF TablesOK, Accounts, Requests
      <4>2. DOMAIN users' = DOMAIN users
            /\ \A i \in DOMAIN users :
                  users'[i] \in Accounts /\ users'[i].name = users[i].name
        BY <1>0, <3>3, <4>1 DEF TablesOK
      <4>. QED
        BY <1>0, <1>2, <3>3, <4>2, UpdateKeeps DEF Upsert
    <3>. QED
      BY <1>2, <3>1, <3>2, <3>3 DEF Upsert, tables
  <2>3. CASE Answer(w)
    BY <2>2, <2>3, AnswerKeeps
  <2>4. CASE Goto(w, "select") /\ UNCHANGED req
    <3>1. WorkerOK(w)'
      BY <2>1, <2>4 DEF WorkerOK, Goto, SessionInv
    <3>2. req' = [req EXCEPT ![w] = r]
      BY <2>4 DEF SessionInv
    <3>. QED
      BY <1>0, <2>2, <2>4, <3>1, <3>2, GotoKeeps DEF LoginPcs
  <2>. QED
    BY <1>2, <2>2, <2>3, <2>4 DEF Upsert
<1>3. CASE SelectId(w)
  <2>1. TablesOK' /\ NamesKept
    BY <1>0, <1>3, TablesUnchanged DEF SelectId
  <2>2. r.name \in Names /\ UNCHANGED <<users, lastId>>
    BY <1>0, <1>3 DEF WorkerOK, SelectId, LoginPcs, tables
  <2>3. CASE Answer(w)
    BY <2>1, <2>3, AnswerKeeps
  <2>4. ASSUME NEW i \in IdsOf(r.name), req' = [req EXCEPT ![w].uid = i],
               Goto(w, "invalidate")
        PROVE  SessionInv'
    <3>1. i \in 1..lastId /\ users[i].name = r.name /\ i \in Ids
      BY <1>0 DEF IdsOf, TablesOK, Ids
    <3>2. [r EXCEPT !.uid = i] \in Requests /\ req' = [req EXCEPT ![w] = [r EXCEPT !.uid = i]]
      BY <1>0, <2>4, <3>1 DEF Requests, Ids
    <3>3. req'[w].uid = i /\ req'[w].name = r.name /\ pc'[w] = "invalidate"
      BY <1>0, <2>4 DEF Goto, SessionInv, Requests
    <3>4. WorkerOK(w)'
      BY <2>2, <3>1, <3>3 DEF WorkerOK
    <3>. QED
      BY <2>1, <2>4, <3>2, <3>4, GotoKeeps DEF LoginPcs
  <2>. QED
    BY <1>3, <2>1, <2>3, <2>4 DEF SelectId
<1>4. CASE Invalidate(w)
  <2>1. TablesOK' /\ NamesKept
    BY <1>0, <1>4, DropKeeps DEF Invalidate
  <2>2. WorkerOK(w)'
    BY <1>0, <1>4 DEF WorkerOK, LoginPcs, Invalidate, Goto, SessionInv
  <2>3. req' = [req EXCEPT ![w] = r]
    BY <1>4 DEF Invalidate, SessionInv
  <2>4. SessionInv'
    BY <1>0, <1>4, <2>1, <2>2, <2>3, GotoKeeps DEF Invalidate, LoginPcs
  <2>. QED
    BY <2>1, <2>4
<1>5. CASE InsertSession(w)
  <2>1. /\ r.name \in Names /\ r.uid \in 1..lastId
        /\ r.uid \in DOMAIN users => users[r.uid].name = r.name
    BY <1>0, <1>5 DEF WorkerOK, InsertSession, LoginPcs
  <2>2. issued' \in Tokens /\ issued' \in 0..MaxToken
    BY <1>0, <1>5 DEF InsertSession, TablesOK, Tokens
  <2> DEFINE s == [token |-> issued', uid |-> r.uid, loginName |-> r.name,
                   loginPw |-> r.pw]
  <2>3. s \in Sessions
    BY <1>0, <2>1, <2>2 DEF Sessions, Requests, TablesOK, Ids
  <2>4. sessions' \subseteq Sessions
    BY <1>0, <1>5, <2>3 DEF InsertSession, TablesOK
  <2>5. SessionsBelong'
    BY <1>0, <1>5, <2>1 DEF InsertSession, TablesOK, SessionsBelong
  <2>6. TablesOK' /\ NamesKept
    BY <1>0, <1>5, <2>2, <2>4, <2>5
       DEF InsertSession, TablesOK, NamesKept, NamesUnique, Ids
  <2>. QED
    BY <1>5, <2>6, AnswerKeeps DEF InsertSession
<1>. QED
  BY <1>1, <1>2, <1>3, <1>4, <1>5 DEF LoginStep

-----------------------------------------------------------------------------
LEMMA AdminKeeps ==
    ASSUME SessionInv, NEW w \in Workers, AdminStep(w)
    PROVE  SessionInv' /\ NamesKept
<1> USE SessionConstants
<1> DEFINE r == req[w]
<1>0. TablesOK /\ WorkerOK(w) /\ r \in Requests /\ req = [req EXCEPT ![w] = r]
  BY DEF SessionInv
<1>1. CASE CreateUser(w)
  <2>1. r.name \in Names
    BY <1>0, <1>1 DEF WorkerOK, CreateUser
  <2>2. TablesOK' /\ NamesKept
    <3>1. CASE UNCHANGED <<users, lastId>>
      BY <1>0, <1>1, <3>1, TablesUnchanged DEF CreateUser, tables
    <3>2. CASE ~UNCHANGED <<users, lastId>>
      <4> DEFINE row == [name |-> r.name, pw |-> r.pw, admin |-> r.admin,
                         mail |-> r.mail]
      <4>1. row \in Accounts /\ row.name = r.name
        BY <1>0, <2>1 DEF Accounts, Requests
      <4>2. IdsOf(r.name) = {} /\ AddAccount(row) /\ UNCHANGED <<sessions, issued>>
        BY <1>1, <3>2 DEF CreateUser
      <4>. QED
        BY <1>0, <4>1, <4>2, AddAccountKeeps
    <3>. QED
      BY <3>1, <3>2
  <2>. QED
    BY <1>1, <2>2, AnswerKeeps DEF CreateUser
<1>2. CASE UpdateTarget(w)
  <2>1. TablesOK' /\ NamesKept
    BY <1>0, <1>2, TablesUnchanged DEF UpdateTarget
  <2>2. pc[w] = "updTarget" /\ users' = users /\ lastId' = lastId
    BY <1>2 DEF UpdateTarget, tables
  <2>3. CASE Answer(w)
    BY <2>1, <2>3, AnswerKeeps
  <2>4. CASE Goto(w, "update") /\ UNCHANGED req
    <3>1. pc'[w] = "update" /\ req'[w] = r
      BY <2>4 DEF Goto, SessionInv
    <3>2. r.name = Nobody
      BY <1>0, <2>2 DEF WorkerOK
    <3>3. WorkerOK(w)'
      BY <3>1, <3>2 DEF WorkerOK, LoginPcs
    <3>. QED
      BY <1>0, <2>1, <2>4, <3>3, GotoKeeps DEF AdminPcs
  <2>5. ASSUME r.uid \in DOMAIN users, ~(AboutSelf(w) /\ ~r.admin), Goto(w, "update"),
               req' = [req EXCEPT ![w].name = users[r.uid].name]
        PROVE  SessionInv'
    <3> DEFINE q == [r EXCEPT !.name = users[r.uid].name]
    <3>1. users[r.uid].name \in Names /\ r.uid \in 1..lastId
      BY <1>0, <2>5 DEF TablesOK, Accounts
    <3>2. q \in Requests /\ req' = [req EXCEPT ![w] = q]
      BY <1>0, <2>5, <3>1 DEF Requests
    <3>3. /\ q.name = users[r.uid].name /\ q.uid = r.uid
          /\ q.actor = r.actor /\ q.admin = r.admin
      BY <1>0 DEF Requests
    <3>4. pc'[w] = "update" /\ req'[w] = q
      BY <2>5, <3>2 DEF Goto, SessionInv
    <3>5. r.admin \/ users[r.uid].name # r.actor
      BY <2>5 DEF AboutSelf
    <3>6. WorkerOK(w)'
      BY <2>2, <3>1, <3>3, <3>4, <3>5 DEF WorkerOK, LoginPcs
    <3>. QED
      BY <1>0, <2>1, <2>5, <3>2, <3>6, GotoKeeps DEF AdminPcs
  <2>. QED
    BY <1>2, <2>1, <2>3, <2>4, <2>5 DEF UpdateTarget
<1>3. CASE UpdateUser(w)
  <2> DEFINE u == r.uid
  <2>1. u \in DOMAIN users => u \in 1..lastId
    BY <1>0 DEF TablesOK
  <2>2. CASE Answer(w) /\ UNCHANGED users
    <3>1. TablesOK' /\ NamesKept
      BY <1>0, <1>3, <2>2, TablesUnchanged DEF UpdateUser, tables
    <3>. QED
      BY <2>2, <3>1, AnswerKeeps
  <2>3. CASE /\ u \in DOMAIN users
             /\ users' = [users EXCEPT ![u].admin = r.admin, ![u].mail = r.mail]
             /\ Goto(w, "drop") /\ UNCHANGED req
    <3>1. /\ [users[u] EXCEPT !.admin = r.admin, !.mail = r.mail] \in Accounts
          /\ [users[u] EXCEPT !.admin = r.admin, !.mail = r.mail].name = users[u].name
      BY <1>0, <2>3 DEF TablesOK, Accounts, Requests
    <3>2. /\ DOMAIN users' = DOMAIN users
          /\ \A i \in DOMAIN users :
                users'[i] \in Accounts /\ users'[i].name = users[i].name
      BY <1>0, <2>3, <3>1 DEF TablesOK
    <3>3. TablesOK' /\ NamesKept
      BY <1>0, <1>3, <3>2, UpdateKeeps DEF UpdateUser
    <3>4. WorkerOK(w)'
      BY <1>3, <2>1, <2>3 DEF WorkerOK, LoginPcs, Goto, SessionInv, UpdateUser
    <3>. QED
      BY <1>0, <2>3, <3>3, <3>4, GotoKeeps DEF AdminPcs
  <2>. QED
    BY <1>3, <2>2, <2>3 DEF UpdateUser
<1>4. CASE ResetPassword(w)
  <2> DEFINE u == r.uid
  <2>1. u \in DOMAIN users => u \in 1..lastId
    BY <1>0 DEF TablesOK
  <2>2. CASE Answer(w) /\ UNCHANGED users
    <3>1. TablesOK' /\ NamesKept
      BY <1>0, <1>4, <2>2, TablesUnchanged DEF ResetPassword, tables
    <3>. QED
      BY <2>2, <3>1, AnswerKeeps
  <2>3. CASE /\ u \in DOMAIN users
             /\ users' = [users EXCEPT ![u].pw = r.pw]
             /\ Goto(w, "drop") /\ UNCHANGED req
    <3>1. /\ [users[u] EXCEPT !.pw = r.pw] \in Accounts
          /\ [users[u] EXCEPT !.pw = r.pw].name = users[u].name
      BY <1>0, <2>3 DEF TablesOK, Accounts, Requests
    <3>2. /\ DOMAIN users' = DOMAIN users
          /\ \A i \in DOMAIN users :
                users'[i] \in Accounts /\ users'[i].name = users[i].name
      BY <1>0, <2>3, <3>1 DEF TablesOK
    <3>3. TablesOK' /\ NamesKept
      BY <1>0, <1>4, <3>2, UpdateKeeps DEF ResetPassword
    <3>4. WorkerOK(w)'
      BY <1>4, <2>1, <2>3 DEF WorkerOK, LoginPcs, Goto, SessionInv,
                              ResetPassword
    <3>. QED
      BY <1>0, <2>3, <3>3, <3>4, GotoKeeps DEF AdminPcs
  <2>. QED
    BY <1>4, <2>2, <2>3 DEF ResetPassword
<1>5. CASE DropSessions(w)
  <2>1. TablesOK' /\ NamesKept
    BY <1>0, <1>5, DropKeeps DEF DropSessions
  <2>. QED
    BY <1>5, <2>1, AnswerKeeps DEF DropSessions
<1>6. CASE DeleteTarget(w)
  <2>1. TablesOK' /\ NamesKept
    BY <1>0, <1>6, TablesUnchanged DEF DeleteTarget
  <2>2. CASE r.uid \notin DOMAIN users \/ AboutSelf(w)
    BY <1>6, <2>1, <2>2, AnswerKeeps DEF DeleteTarget
  <2>3. CASE ~(r.uid \notin DOMAIN users \/ AboutSelf(w))
    <3>1. Goto(w, "delDrop") /\ req' = req /\ users' = users /\ lastId' = lastId
      BY <1>6, <2>3 DEF DeleteTarget, tables
    <3>2. r.uid \in 1..lastId /\ pc'[w] = "delDrop"
      BY <1>0, <2>3, <3>1 DEF TablesOK, Goto, SessionInv
    <3>3. WorkerOK(w)'
      BY <2>3, <3>1, <3>2 DEF WorkerOK, AboutSelf, LoginPcs
    <3>. QED
      BY <1>0, <2>1, <3>1, <3>3, GotoKeeps DEF AdminPcs
  <2>. QED
    BY <2>1, <2>2, <2>3
<1>7. CASE DeleteDrop(w)
  <2>1. TablesOK' /\ NamesKept
    BY <1>0, <1>7, DropKeeps DEF DeleteDrop
  <2>2. r.uid \in 1..lastId /\ ~AboutSelf(w)
    BY <1>0, <1>7 DEF WorkerOK, DeleteDrop
  <2>3. WorkerOK(w)'
    BY <1>7, <2>2 DEF WorkerOK, AboutSelf, LoginPcs, DeleteDrop, Goto,
                      SessionInv
  <2>. QED
    BY <1>0, <1>7, <2>1, <2>3, GotoKeeps DEF DeleteDrop, AdminPcs
<1>8. CASE DeleteUser(w)
  <2>1. TablesOK' /\ NamesKept
    BY <1>0, <1>8 DEF DeleteUser, TablesOK, NamesKept, NamesUnique, SessionsBelong,
                      SessionsOf, Ids
  <2>. QED
    BY <1>8, <2>1, AnswerKeeps DEF DeleteUser
<1>. QED
  BY <1>1, <1>2, <1>3, <1>4, <1>5, <1>6, <1>7, <1>8 DEF AdminStep

LEMMA SessionStep == SessionInv /\ [Next]_vars => SessionInv'
<1> SUFFICES ASSUME SessionInv, [Next]_vars PROVE SessionInv'
  OBVIOUS
<1>1. ASSUME NEW w \in Workers, Interrupt(w)
      PROVE  SessionInv'
  BY <1>1, TablesUnchanged, AnswerKeeps DEF Interrupt, SessionInv
<1>2. ASSUME sessions' \subseteq sessions, UNCHANGED <<users, lastId, issued, pc, req>>
      PROVE  SessionInv'
  <2>1. TablesOK' /\ NamesKept
    BY <1>2, DropKeeps DEF SessionInv
  <2>2. \A v \in Workers : WorkerOK(v)'
    BY <1>2, <2>1, OthersKeep
  <2>. QED
    BY <1>2, <2>1, <2>2 DEF SessionInv
<1>3. ASSUME NEW s \in sessions, Logout(s)
      PROVE  SessionInv'
  BY <1>2, <1>3 DEF Logout
<1>4. ASSUME NEW expired \in SUBSET sessions, CleanupExpiredSessions(expired)
      PROVE  SessionInv'
  BY <1>2, <1>4 DEF CleanupExpiredSessions
<1>5. CASE UNCHANGED vars
  BY <1>2, <1>5 DEF vars
<1>. QED
  BY <1>1, <1>3, <1>4, <1>5, BeginKeeps, LoginKeeps, AdminKeeps DEF Next

-----------------------------------------------------------------------------
\* The invariant of accounts, sessions and what the handlers know of them.
THEOREM SessionsCorrect == Spec => []SessionInv
  BY SessionInit, SessionStep, PTL DEF Spec

\* Tables and requests keep their types under every interleaving.
THEOREM SessionTypes == Spec => []TypeOK
<1>1. SessionInv => TypeOK
  BY DEF SessionInv, TablesOK, TypeOK
<1>. QED
  BY <1>1, SessionsCorrect, PTL

\* A session never names an account other than the one whose owner logged in.
THEOREM SessionsBelongToTheirOwner == Spec => []SessionsBelong
<1>1. SessionInv => SessionsBelong
  BY DEF SessionInv, TablesOK
<1>. QED
  BY <1>1, SessionsCorrect, PTL

\* A username selects at most one account.
THEOREM NamesStayUnique == Spec => []NamesUnique
<1>1. SessionInv => NamesUnique
  BY DEF SessionInv, TablesOK
<1>. QED
  BY <1>1, SessionsCorrect, PTL

\* No administrator's request deletes the account it was made from; nor does it take the
\* role from it, if the look-up of whose account it updates gave one.
THEOREM AdministratorsKeepThemselves == Spec => SelfProtection
<1>1. ASSUME SessionInv, NEW w \in Workers, NEW i \in DOMAIN users
      PROVE  /\ DeleteUser(w) /\ users[i].name = req[w].actor => i \in DOMAIN users'
             /\ UpdateUser(w) /\ OwnAdmin(w, i) /\ ~Blind(w) => users'[i].admin
  <2>1. WorkerOK(w)
    BY <1>1 DEF SessionInv
  <2>2. ASSUME DeleteUser(w), users[i].name = req[w].actor
        PROVE  i \in DOMAIN users'
    BY <1>1, <2>1, <2>2 DEF DeleteUser, WorkerOK, AboutSelf
  <2>3. ASSUME UpdateUser(w), users[i].name = req[w].actor, users[i].admin, ~Blind(w)
        PROVE  users'[i].admin
    <3> DEFINE u == req[w].uid
    <3>1. CASE users' = users
      BY <2>3, <3>1
    <3>2. CASE u \in DOMAIN users
               /\ users' = [users EXCEPT ![u].admin = req[w].admin, ![u].mail = req[w].mail]
      <4>1. CASE i = u
        <5>1. pc[w] = "update" /\ req[w].name # Nobody
          BY <2>3 DEF UpdateUser, Blind
        <5>2. req[w].admin
          BY <2>1, <2>3, <3>2, <4>1, <5>1 DEF WorkerOK
        <5>3. users'[i].admin = req[w].admin
          BY <1>1, <3>2, <4>1 DEF SessionInv, TablesOK, Accounts
        <5>. QED
          BY <5>2, <5>3
      <4>2. CASE i # u
        BY <1>1, <2>3, <3>2, <4>2
      <4>. QED
        BY <4>1, <4>2
    <3>. QED
      BY <2>3, <3>1, <3>2 DEF UpdateUser
  <2>. QED
    BY <2>2, <2>3 DEF OwnAdmin
<1>2. SessionInv /\ [Next]_vars =>
        [\A w \in Workers : \A i \in DOMAIN users :
           /\ DeleteUser(w) /\ users[i].name = req[w].actor => i \in DOMAIN users'
           /\ UpdateUser(w) /\ OwnAdmin(w, i) /\ ~Blind(w) => users'[i].admin]_vars
  BY <1>1
<1>. QED
  BY <1>2, SessionsCorrect, PTL DEF Spec, SelfProtection
-----------------------------------------------------------------------------
(* Requests one at a time, with sessions ending by themselves meanwhile.    *)

OneAtATime == \E w : Workers = {w}

\* A session of a local account was opened with the password the account has.
Current(s) == s.loginPw # Directory => s.loginPw = users[s.uid].pw

\* The password a login was let in with is still the account's; and only between the
\* new password and the end of the sessions is one of the old password left.
PasswordKnown(w) ==
    /\ \A s \in sessions : Current(s) \/ (pc[w] = "drop" /\ s.uid = req[w].uid)
    /\ pc[w] \in {"upsert", "select"} => req[w].pw = Directory
    /\ pc[w] \in {"invalidate", "insert"} =>
          \/ req[w].pw = Directory
          \/ req[w].uid \in DOMAIN users /\ users[req[w].uid].pw = req[w].pw

PasswordInv == SessionInv /\ \A w \in Workers : PasswordKnown(w)

LEMMA PasswordInit == Init => PasswordInv
<1>. SUFFICES ASSUME Init, NEW w \in Workers PROVE PasswordKnown(w)
  BY SessionInit DEF PasswordInv
<1>. QED
  BY DEF Init, PasswordKnown

\* Rows of accounts that have sessions are changed by a reset only.
LEMMA PasswordsKept ==
    ASSUME SessionInv, sessions' \subseteq sessions,
           \A i \in DOMAIN users : i \in DOMAIN users' => users'[i].pw = users[i].pw,
           \A s \in sessions' : s.uid \in DOMAIN users'
    PROVE  \A s \in sessions' : Current(s) => Current(s)'
  BY DEF SessionInv, TablesOK, SessionsBelong, Current

LEMMA PasswordLogin ==
    ASSUME OneAtATime, ~Interruptions, PasswordInv, NEW w \in Workers, LoginStep(w)
    PROVE  PasswordKnown(w)'
<1> USE SessionConstants
<1> DEFINE r == req[w]
<1>0. SessionInv /\ PasswordKnown(w) /\ r \in Requests /\ TablesOK /\ TablesOK' /\ SessionInv'
  BY LoginKeeps DEF PasswordInv, SessionInv
<1>1. pc[w] # "drop" /\ \A s \in sessions : Current(s)
  BY <1>0 DEF LoginStep, LocalCheck, Upsert, SelectId, Invalidate, InsertSession, PasswordKnown
<1>2. \A s \in sessions' : s.uid \in DOMAIN users'
  BY <1>0 DEF TablesOK, SessionsBelong
<1>3. ASSUME sessions' \subseteq sessions,
             \A i \in DOMAIN users : i \in DOMAIN users' => users'[i].pw = users[i].pw
      PROVE  \A s \in sessions' : Current(s)'
  BY <1>0, <1>1, <1>2, <1>3, PasswordsKept
<1>4. CASE LocalCheck(w)
  <2>1. \A s \in sessions' : Current(s)'
    BY <1>3, <1>4 DEF LocalCheck, tables
  <2>2. \/ pc'[w] = "idle"
        \/ pc'[w] = "upsert" /\ req'[w].pw = Directory
        \/ /\ pc'[w] = "invalidate"
           /\ req'[w].uid \in DOMAIN users /\ users[req'[w].uid].pw = req'[w].pw
    <3>1. CASE Answer(w)
      BY <1>0, <3>1 DEF Answer, Goto, SessionInv
    <3>2. ASSUME NEW i \in IdsOf(r.name), users[i].pw = r.pw,
                 req' = [req EXCEPT ![w].uid = i], Goto(w, "invalidate")
          PROVE  /\ pc'[w] = "invalidate"
                 /\ req'[w].uid \in DOMAIN users /\ users[req'[w].uid].pw = req'[w].pw
      BY <1>0, <3>2 DEF Goto, SessionInv, Requests, IdsOf
    <3>3. ASSUME NEW admin \in BOOLEAN, NEW mail \in Mails, Goto(w, "upsert"),
                 req' = [req EXCEPT ![w].pw = Directory, ![w].admin = admin, ![w].mail = mail]
          PROVE  pc'[w] = "upsert" /\ req'[w].pw = Directory
      BY <1>0, <3>3 DEF Goto, SessionInv, Requests
    <3>. QED
      BY <1>4, <3>1, <3>2, <3>3 DEF LocalCheck
  <2>3. users' = users
    BY <1>4 DEF LocalCheck, tables
  <2>. QED
    BY <2>1, <2>2, <2>3 DEF PasswordKnown
<1>5. CASE Upsert(w)
  <2>1. ASSUME NEW i \in DOMAIN users, i \in DOMAIN users' PROVE users'[i].pw = users[i].pw
    <3>1. users[i] \in Accounts /\ i \in 1..lastId /\ lastId \in Nat
      BY <1>0, <2>1 DEF TablesOK, Ids
    <3>2. ASSUME NEW row, AddAccount(row) PROVE users'[i].pw = users[i].pw
      BY <2>1, <3>1, <3>2 DEF AddAccount
    <3>3. [users[i] EXCEPT !.admin = r.admin, !.mail = r.mail].pw = users[i].pw
      BY <3>1 DEF Accounts
    <3>. QED
      BY <1>5, <2>1, <3>2, <3>3 DEF Upsert
  <2>2. \A s \in sessions' : Current(s)'
    BY <1>3, <1>5, <2>1 DEF Upsert
  <2>3. pc'[w] = "idle" \/ (pc'[w] = "select" /\ req'[w].pw = Directory)
    BY <1>0, <1>5 DEF Upsert, Answer, Goto, SessionInv, PasswordKnown
  <2>. QED
    BY <2>2, <2>3 DEF PasswordKnown
<1>6. CASE SelectId(w)
  <2>1. \A s \in sessions' : Current(s)'
    BY <1>3, <1>6 DEF SelectId, tables
  <2>2. pc'[w] = "idle" \/ (pc'[w] = "invalidate" /\ req'[w].pw = Directory)
    BY <1>0, <1>6 DEF SelectId, Answer, Goto, SessionInv, Requests, PasswordKnown
  <2>. QED
    BY <2>1, <2>2 DEF PasswordKnown
<1>7. CASE Invalidate(w)
  <2>1. \A s \in sessions' : Current(s)'
    BY <1>3, <1>7 DEF Invalidate
  <2>2. pc'[w] = "insert" /\ req' = req /\ users' = users
    BY <1>0, <1>7 DEF Invalidate, Goto, SessionInv
  <2>. QED
    BY <1>0, <1>7, <2>1, <2>2 DEF PasswordKnown, Invalidate
<1>8. CASE InsertSession(w)
  <2>1. pc'[w] = "idle" /\ users' = users
    BY <1>0, <1>8 DEF InsertSession, Answer, Goto, SessionInv
  <2>2. r.pw = Directory \/ (r.uid \in DOMAIN users /\ users[r.uid].pw = r.pw)
    BY <1>0, <1>8 DEF InsertSession, PasswordKnown
  <2>3. \A s \in sessions' : Current(s)'
    BY <1>1, <1>8, <2>1, <2>2 DEF InsertSession, Current
  <2>. QED
    BY <2>1, <2>3 DEF PasswordKnown
<1>. QED
  BY <1>4, <1>5, <1>6, <1>7, <1>8 DEF LoginStep

LEMMA PasswordAdmin ==
    ASSUME OneAtATime, ~Interruptions, PasswordInv, NEW w \in Workers, AdminStep(w)
    PROVE  PasswordKnown(w)'
<1> USE SessionConstants
<1> DEFINE r == req[w]
<1>0. SessionInv /\ PasswordKnown(w) /\ r \in Requests /\ TablesOK /\ TablesOK' /\ SessionInv'
  BY AdminKeeps DEF PasswordInv, SessionInv
<1>2. \A s \in sessions' : s.uid \in DOMAIN users'
  BY <1>0 DEF TablesOK, SessionsBelong
<1>3. ASSUME pc[w] # "drop", sessions' \subseteq sessions,
             \A i \in DOMAIN users : i \in DOMAIN users' => users'[i].pw = users[i].pw
      PROVE  \A s \in sessions' : Current(s)'
  BY <1>0, <1>2, <1>3, PasswordsKept DEF PasswordKnown
<1>4. CASE CreateUser(w)
  <2>1. ASSUME NEW i \in DOMAIN users, i \in DOMAIN users' PROVE users'[i].pw = users[i].pw
    <3>1. i \in 1..lastId /\ lastId \in Nat
      BY <1>0 DEF TablesOK, Ids
    <3>2. ASSUME NEW row, AddAccount(row) PROVE users'[i].pw = users[i].pw
      BY <2>1, <3>1, <3>2 DEF AddAccount
    <3>. QED
      BY <1>4, <3>2 DEF CreateUser
  <2>2. pc[w] # "drop" /\ pc'[w] = "idle" /\ sessions' = sessions
    BY <1>0, <1>4 DEF CreateUser, Answer, Goto, SessionInv
  <2>. QED
    BY <1>3, <2>1, <2>2 DEF PasswordKnown
<1>5. CASE UpdateTarget(w) \/ DeleteTarget(w) \/ DeleteDrop(w)
  <2>1. /\ pc[w] # "drop" /\ pc'[w] \in {"idle", "update", "delDrop", "delete"}
        /\ sessions' \subseteq sessions /\ users' = users
    BY <1>0, <1>5 DEF UpdateTarget, DeleteTarget, DeleteDrop, Answer, Goto, SessionInv, tables
  <2>. QED
    BY <1>3, <2>1 DEF PasswordKnown
<1>6. CASE UpdateUser(w)
  <2>1. ASSUME NEW i \in DOMAIN users PROVE users'[i].pw = users[i].pw
    BY <1>0, <1>6 DEF UpdateUser, TablesOK, Accounts
  <2>2. pc[w] # "drop" /\ pc'[w] \in {"idle", "drop"} /\ sessions' = sessions
    BY <1>0, <1>6 DEF UpdateUser, Answer, Goto, SessionInv
  <2>. QED
    BY <1>3, <2>1, <2>2 DEF PasswordKnown
<1>7. CASE ResetPassword(w)
  <2>1. \A s \in sessions : Current(s)
    BY <1>0, <1>7 DEF ResetPassword, PasswordKnown
  <2>2. CASE Answer(w) /\ UNCHANGED users
    BY <1>0, <1>7, <2>1, <2>2 DEF ResetPassword, Answer, Goto, SessionInv, PasswordKnown, Current
  <2>3. CASE users' = [users EXCEPT ![r.uid].pw = r.pw] /\ Goto(w, "drop") /\ UNCHANGED req
    <3>1. \A i \in DOMAIN users : i # r.uid => users'[i] = users[i]
      BY <2>3
    <3>2. \A s \in sessions : s.uid # r.uid => Current(s)'
      BY <1>0, <2>1, <3>1 DEF Current, TablesOK, SessionsBelong
    <3>3. pc'[w] = "drop" /\ req' = req /\ sessions' = sessions
      BY <1>0, <1>7, <2>3 DEF ResetPassword, Goto, SessionInv
    <3>. QED
      BY <3>2, <3>3 DEF PasswordKnown
  <2>. QED
    BY <1>7, <2>2, <2>3 DEF ResetPassword
<1>8. CASE DropSessions(w)
  <2>1. /\ pc'[w] = "idle" /\ users' = users
        /\ \A s \in sessions' : s \in sessions /\ s.uid # r.uid
    BY <1>0, <1>8 DEF DropSessions, Answer, Goto, SessionInv, SessionsOf
  <2>2. \A s \in sessions' : Current(s)'
    BY <1>0, <2>1 DEF PasswordKnown, Current
  <2>. QED
    BY <2>1, <2>2 DEF PasswordKnown
<1>9. CASE DeleteUser(w)
  <2>1. pc[w] # "drop" /\ pc'[w] = "idle" /\ sessions' \subseteq sessions
    BY <1>0, <1>9 DEF DeleteUser, Answer, Goto, SessionInv
  <2>2. \A i \in DOMAIN users : i \in DOMAIN users' => users'[i].pw = users[i].pw
    BY <1>9 DEF DeleteUser
  <2>. QED
    BY <1>3, <2>1, <2>2 DEF PasswordKnown
<1>. QED
  BY <1>4, <1>5, <1>6, <1>7, <1>8, <1>9 DEF AdminStep

LEMMA PasswordBegin ==
    ASSUME PasswordInv, NEW w \in Workers, Begin(w)
    PROVE  PasswordKnown(w)'
<1>1. SessionInv /\ PasswordKnown(w) /\ NoRequest \in Requests
  BY NoRequestOK DEF PasswordInv
<1>2. pc[w] = "idle" /\ UNCHANGED <<users, sessions>>
  BY DEF Begin, LoginBegin, OidcCallback, CreateBegin, UpdateBegin, DeleteBegin, ResetBegin,
         Start, tables
<1>3. \/ pc'[w] \in {"local", "create", "updTarget", "delTarget", "reset"}
      \/ pc'[w] = "upsert" /\ req'[w].pw = Directory
  BY <1>1 DEF Begin, LoginBegin, OidcCallback, CreateBegin, UpdateBegin, DeleteBegin,
              ResetBegin, Start, Goto, SessionInv, NoRequest
<1>. QED
  BY <1>1, <1>2, <1>3 DEF PasswordKnown, Current

LEMMA PasswordStep ==
    ASSUME OneAtATime, ~Interruptions, PasswordInv, [Next]_vars
    PROVE  PasswordInv'
<1>1. SessionInv'
  BY SessionStep DEF PasswordInv
<1>2. PICK w : Workers = {w}
  BY DEF OneAtATime
<1>3. ASSUME sessions' \subseteq sessions, UNCHANGED <<users, pc, req>>
      PROVE  PasswordKnown(w)'
  BY <1>2, <1>3 DEF PasswordInv, PasswordKnown, Current
<1>4. ASSUME UNCHANGED vars
      PROVE  PasswordKnown(w)'
  BY <1>3, <1>4 DEF vars
<1>5. ASSUME NEW s \in sessions, Logout(s)
      PROVE  PasswordKnown(w)'
  BY <1>3, <1>5 DEF Logout
<1>6. ASSUME NEW expired \in SUBSET sessions, CleanupExpiredSessions(expired)
      PROVE  PasswordKnown(w)'
  BY <1>3, <1>6 DEF CleanupExpiredSessions
<1>7. PasswordKnown(w)'
  BY <1>2, <1>4, <1>5, <1>6, PasswordBegin, PasswordLogin, PasswordAdmin DEF Next, Interrupt
<1>. QED
  BY <1>1, <1>2, <1>7 DEF PasswordInv

\* With requests one at a time, and none of them cut short: once no request is under way,
\* a session of a local account was opened with the password the account has now.
THEOREM ResetEndsOldSessions ==
    ASSUME OneAtATime, ~Interruptions
    PROVE  Spec => []PasswordIsCurrent
<1>1. PasswordInv /\ [Next]_vars => PasswordInv'
  BY PasswordStep
<1>2. PasswordInv => PasswordIsCurrent
  BY DEF PasswordInv, PasswordIsCurrent, PasswordKnown, AllIdle, Current, OneAtATime
<1>. QED
  BY PasswordInit, <1>1, <1>2, PTL DEF Spec
-----------------------------------------------------------------------------
\* The administrator a request was let in for is an account, and still one.  (Who is
\* administrator by a proxy or a key has no account to protect.)
ActorStands(w) ==
    pc[w] \in {"updTarget", "update", "delTarget", "delDrop", "delete"} =>
        \E i \in DOMAIN users : users[i].name = req[w].actor /\ users[i].admin

ActorInv == SessionInv /\ \A w \in Workers : ActorStands(w)

LEMMA ActorInit == Init => ActorInv
  BY SessionInit DEF Init, ActorInv, ActorStands

LEMMA ActorBegin ==
    ASSUME ExternalAdmins = {}, ActorInv, NEW w \in Workers, Begin(w)
    PROVE  ActorStands(w)'
<1>1. SessionInv /\ NoRequest \in Requests /\ users' = users
  BY NoRequestOK DEF ActorInv, Begin, LoginBegin, OidcCallback, CreateBegin, UpdateBegin,
                     DeleteBegin, ResetBegin, Start, tables
<1>2. ASSUME NEW actor \in Administrators
      PROVE  \E i \in DOMAIN users : users[i].name = actor /\ users[i].admin
  BY <1>1, <1>2 DEF Administrators, SessionInv, TablesOK, SessionsBelong
<1>3. \/ pc'[w] \notin {"updTarget", "update", "delTarget", "delDrop", "delete"}
      \/ req'[w].actor \in Administrators
  BY <1>1 DEF Begin, LoginBegin, OidcCallback, CreateBegin, UpdateBegin, DeleteBegin,
              ResetBegin, Start, Goto, SessionInv, NoRequest
<1>. QED
  BY <1>1, <1>2, <1>3 DEF ActorStands

LEMMA ActorStep ==
    ASSUME OneAtATime, ExternalAdmins = {}, ActorInv, [Next]_vars
    PROVE  ActorInv'
<1>1. SessionInv'
  BY SessionStep DEF ActorInv
<1>2. PICK w : Workers = {w}
  BY DEF OneAtATime
<1>3. ActorStands(w) /\ SessionInv
  BY <1>2 DEF ActorInv
<1>4. ASSUME UNCHANGED <<users, pc, req>>
      PROVE  ActorStands(w)'
  BY <1>3, <1>4 DEF ActorStands
<1>5. ASSUME UNCHANGED vars \/ (\E s \in sessions : Logout(s))
             \/ (\E expired \in SUBSET sessions : CleanupExpiredSessions(expired))
      PROVE  ActorStands(w)'
  BY <1>4, <1>5 DEF vars, Logout, CleanupExpiredSessions
<1>6. ASSUME LoginStep(w) \/ Interrupt(w) \/ CreateUser(w) \/ UpdateUser(w)
             \/ ResetPassword(w) \/ DropSessions(w) \/ DeleteUser(w)
      PROVE  ActorStands(w)'
  <2>1. pc'[w] \in {"idle", "upsert", "select", "invalidate", "insert", "drop"}
    BY <1>2, <1>3, <1>6
       DEF LoginStep, LocalCheck, Upsert, SelectId, Invalidate, InsertSession, Interrupt,
           CreateUser, UpdateUser, ResetPassword, DropSessions, DeleteUser, Answer, Goto,
           SessionInv
  <2>. QED
    BY <2>1 DEF ActorStands
<1>7. ASSUME UpdateTarget(w) \/ DeleteTarget(w) \/ DeleteDrop(w)
      PROVE  ActorStands(w)'
  <2>1. pc'[w] = "idle" \/ (req'[w].actor = req[w].actor /\ users' = users)
    <3>1. req[w] \in Requests
      BY <1>2, <1>3 DEF SessionInv
    <3>2. ASSUME req' = [req EXCEPT ![w].name = users[req[w].uid].name]
          PROVE  req'[w].actor = req[w].actor
      BY <1>2, <1>3, <3>1, <3>2 DEF SessionInv, Requests
    <3>. QED
      BY <1>2, <1>3, <1>7, <3>2 DEF UpdateTarget, DeleteTarget, DeleteDrop, Answer, Goto,
                                    SessionInv, tables
  <2>2. pc[w] \in {"updTarget", "delTarget", "delDrop"}
    BY <1>7 DEF UpdateTarget, DeleteTarget, DeleteDrop
  <2>. QED
    BY <1>3, <2>1, <2>2 DEF ActorStands
<1>8. ActorStands(w)'
  BY <1>2, <1>5, <1>6, <1>7, ActorBegin DEF Next, AdminStep, ActorInv
<1>. QED
  BY <1>1, <1>2, <1>8 DEF ActorInv

\* With requests one at a time and every administrator an account: no request of the panel
\* takes the last administrator away, not even one that is cut short, unless the look-up
\* of whose account it updates gave nothing.
THEOREM PanelStaysReachable ==
    ASSUME OneAtATime, ExternalAdmins = {}
    PROVE  Spec => PanelKeepsAnAdmin
<1>1. ASSUME ActorInv, NEW w \in Workers, AdminStep(w), ~Blind(w), SomeAdmin
      PROVE  SomeAdmin'
  <2> DEFINE r == req[w]
  <2>1. SessionInv /\ WorkerOK(w) /\ ActorStands(w) /\ TablesOK /\ r \in Requests
    BY <1>1 DEF ActorInv, SessionInv
  <2>2. CASE CreateUser(w)
    <3>1. lastId \in Nat /\ \A i \in DOMAIN users : i # lastId + 1
      BY <2>1, SessionConstants DEF TablesOK, Ids
    <3>2. ASSUME NEW row, AddAccount(row) PROVE SomeAdmin'
      BY <1>1, <3>1, <3>2 DEF SomeAdmin, AddAccount
    <3>. QED
      BY <1>1, <2>2, <3>2 DEF CreateUser, SomeAdmin
  <2>3. CASE users' = users
    BY <1>1, <2>3 DEF SomeAdmin
  <2>4. CASE UpdateUser(w) /\ users' # users
    <3>1. users' = [users EXCEPT ![r.uid].admin = r.admin, ![r.uid].mail = r.mail]
          /\ r.uid \in DOMAIN users
      BY <2>4 DEF UpdateUser
    <3>2. PICK i \in DOMAIN users : users[i].name = r.actor /\ users[i].admin
      BY <2>1, <2>4 DEF ActorStands, UpdateUser
    <3>3. CASE i = r.uid
      <4>1. r.admin
        <5>1. pc[w] = "update" /\ r.name # Nobody
          BY <1>1, <2>4 DEF UpdateUser, Blind
        <5>. QED
          BY <2>1, <3>1, <3>2, <3>3, <5>1 DEF WorkerOK
      <4>2. users'[i].admin = r.admin /\ i \in DOMAIN users'
        BY <2>1, <3>1, <3>3 DEF TablesOK, Accounts
      <4>. QED
        BY <4>1, <4>2 DEF SomeAdmin
    <3>4. CASE i # r.uid
      BY <3>1, <3>2, <3>4 DEF SomeAdmin
    <3>. QED
      BY <3>3, <3>4
  <2>5. CASE ResetPassword(w) /\ users' # users
    <3>1. users' = [users EXCEPT ![r.uid].pw = r.pw]
      BY <2>5 DEF ResetPassword
    <3>2. \A i \in DOMAIN users : users'[i].admin = users[i].admin
      BY <2>1, <3>1 DEF TablesOK, Accounts
    <3>. QED
      BY <1>1, <3>1, <3>2 DEF SomeAdmin
  <2>6. CASE DeleteUser(w)
    <3>1. PICK i \in DOMAIN users : users[i].name = r.actor /\ users[i].admin
      BY <2>1, <2>6 DEF ActorStands, DeleteUser
    <3>2. i # r.uid
      BY <2>1, <2>6, <3>1 DEF WorkerOK, AboutSelf, DeleteUser
    <3>. QED
      BY <2>6, <3>1, <3>2 DEF SomeAdmin, DeleteUser
  <2>. QED
    BY <1>1, <2>2, <2>3, <2>4, <2>5, <2>6
       DEF AdminStep, UpdateTarget, DropSessions, DeleteTarget, DeleteDrop, tables
<1>2. ActorInv /\ [Next]_vars =>
        [\A w \in Workers : AdminStep(w) /\ ~Blind(w) /\ SomeAdmin => SomeAdmin']_vars
  BY <1>1
<1>3. ActorInv /\ [Next]_vars => ActorInv'
  BY ActorStep
<1>. QED
  BY ActorInit, <1>2, <1>3, PTL DEF Spec, PanelKeepsAnAdmin
=============================================================================
