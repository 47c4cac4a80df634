---------------------------- MODULE SessionStore ----------------------------
(***************************************************************************)
(* The accounts and the sessions of DashGate: the tables users and         *)
(* sessions, and the request handlers that read and write them.            *)
(*                                                                         *)
(* No handler opens a transaction, and the pool holds one connection, so   *)
(* each SQL statement is atomic and the statements of two requests         *)
(* interleave freely.  A request is served by one of Workers; each of its  *)
(* statements is one action, guarded by that worker's program counter.     *)
(*                                                                         *)
(* Of a session the module also remembers who logged in, and with which    *)
(* password (loginName, loginPw): the table has no such columns, they are  *)
(* there for the properties to compare with the account the row points to. *)
(*                                                                         *)
(* LDAP and OIDC differ only in how an identity is verified; both then run *)
(* the same upsert, and are the directory here.  Expiry is SessionClock's. *)
(***************************************************************************)
EXTENDS Naturals, FiniteSets

CONSTANTS
    Workers,         \* goroutines that serve login and administration requests
    Names,           \* usernames
    Root,            \* the administrator the setup wizard created
    DirectoryNames,  \* who LDAP or OIDC can vouch for
    ExternalAdmins,  \* administrators without a session (proxy header, API key)
    Passwords,
    FirstPassword,   \* the password the setup wizard stored
    Directory,       \* password_hash of an account an upsert made: matches no password
    Nobody,          \* no username
    Mails,           \* "own": one's own address; "none": the empty string
    Interruptions,   \* requests may end early: a failing statement, a crash
    MaxId,           \* bound: AUTOINCREMENT identifiers handed out
    MaxToken         \* bound: sessions ever created

ASSUME SessionConstants ==
    /\ Root \in Names
    /\ DirectoryNames \subseteq Names
    /\ FirstPassword \in Passwords /\ Directory \notin Passwords
    /\ Nobody \notin Names
    /\ Mails \subseteq {"own", "none"}
    /\ Interruptions \in BOOLEAN
    /\ MaxId \in Nat \ {0} /\ MaxToken \in Nat


VARIABLES
    users,     \* table users: a function from id to row
    lastId,    \* AUTOINCREMENT: the largest id ever handed out
    sessions,  \* table sessions: a set of rows
    issued,    \* how many tokens were issued: names the next one
    pc,        \* the next statement of each worker
    req        \* the request each worker serves

tables == <<users, lastId, sessions, issued>>
vars == <<users, lastId, sessions, issued, pc, req>>

Ids    == 1..MaxId
Tokens == 1..MaxToken

Accounts == [name : Names, pw : Passwords \cup {Directory}, admin : BOOLEAN,
             mail : {"own", "none"}]
Sessions == [token : Tokens, uid : Ids, loginName : Names,
             loginPw : Passwords \cup {Directory}]

\* actor: the administrator, for an administration request; uid: the account the
\* request is about, once known (0: not yet).
Requests == [actor : Names \cup {Nobody}, name : Names \cup {Nobody}, uid : 0..MaxId,
             pw : Passwords \cup {Directory}, admin : BOOLEAN, mail : {"own", "none"}]
NoRequest == [actor |-> Nobody, name |-> Nobody, uid |-> 0, pw |-> FirstPassword,
              admin |-> FALSE, mail |-> "own"]

LoginPcs == {"local", "upsert", "select", "invalidate", "insert"}
AdminPcs == {"create", "updTarget", "update", "reset", "drop", "delTarget",
             "delDrop", "delete"}

\* The ids of the rows that WHERE username = n selects.
IdsOf(n) == {i \in DOMAIN users : users[i].name = n}

\* UNIQUE on email: every row stores a string, the empty one included.
MailTaken(mail, others) == mail = "none" /\ \E i \in others : users[i].mail = "none"

SessionsOf(u) == {s \in sessions : s.uid = u}

Goto(w, label) == pc' = [pc EXCEPT ![w] = label]

\* The handler answers: its goroutine forgets the request.
Answer(w) ==
    /\ Goto(w, "idle")
    /\ req' = [req EXCEPT ![w] = NoRequest]

Start(w, label, r) ==
    /\ pc[w] = "idle"
    /\ Goto(w, label)
    /\ req' = [req EXCEPT ![w] = r]
    /\ UNCHANGED tables

\* INSERT INTO users: AUTOINCREMENT never hands an id out twice.
AddAccount(row) ==
    /\ lastId < MaxId
    /\ lastId' = lastId + 1
    /\ users' = [i \in DOMAIN users \cup {lastId'} |->
                    IF i = lastId' THEN row ELSE users[i]]

-----------------------------------------------------------------------------
\* The setup wizard has run: one local administrator, nobody is logged in.
Init ==
    /\ users = [i \in {1} |-> [name |-> Root, pw |-> FirstPassword, admin |-> TRUE,
                               mail |-> "own"]]
    /\ lastId = 1
    /\ sessions = {}
    /\ issued = 0
    /\ pc = [w \in Workers |-> "idle"]
    /\ req = [w \in Workers |-> NoRequest]

-----------------------------------------------------------------------------
(* Logging in.                                                              *)

\* POST /api/auth/login with a well-formed body.
LoginBegin(w, n, p) == Start(w, "local", [NoRequest EXCEPT !.name = n, !.pw = p])

\* The OIDC provider vouched for n; what follows is LDAP's code once more.
OidcCallback(w, n, admin, mail) ==
    /\ n \in DirectoryNames
    /\ Start(w, "upsert", [NoRequest EXCEPT !.name = n, !.pw = Directory,
                                            !.admin = admin, !.mail = mail])

\* SELECT from users and CheckPassword, then an LDAP bind when that failed.
LocalCheck(w) ==
    LET n     == req[w].name
        match == {i \in IdsOf(n) : users[i].pw = req[w].pw}
    IN  /\ pc[w] = "local"
        /\ UNCHANGED tables
        /\ \/ \E i \in match :
                /\ req' = [req EXCEPT ![w].uid = i]
                /\ Goto(w, "invalidate")
           \/ /\ match = {}
              /\ n \in DirectoryNames
              /\ \E admin \in BOOLEAN, mail \in Mails :
                    req' = [req EXCEPT ![w].pw = Directory, ![w].admin = admin,
                                       ![w].mail = mail]
              /\ Goto(w, "upsert")
           \/ match = {} /\ Answer(w)

\* INSERT ... ON CONFLICT(username) DO UPDATE: an existing row keeps its password.
\* A conflict on email is not handled: the statement fails and so does the login.
Upsert(w) ==
    LET n   == req[w].name
        own == IdsOf(n)
    IN  /\ pc[w] = "upsert"
        /\ UNCHANGED <<sessions, issued>>
        /\ \/ /\ MailTaken(req[w].mail, DOMAIN users \ own)
              /\ Answer(w)
              /\ UNCHANGED <<users, lastId>>
           \/ /\ ~MailTaken(req[w].mail, DOMAIN users \ own)
              /\ IF own = {}
                 THEN AddAccount([name |-> n, pw |-> Directory, admin |-> req[w].admin,
                                  mail |-> req[w].mail])
                 ELSE /\ users' = [i \in DOMAIN users |->
                                     IF i \in own
                                     THEN [users[i] EXCEPT !.admin = req[w].admin,
                                                           !.mail = req[w].mail]
                                     ELSE users[i]]
                      /\ UNCHANGED lastId
              /\ Goto(w, "select")
              /\ UNCHANGED req

\* SELECT id FROM users WHERE username = ?
SelectId(w) ==
    /\ pc[w] = "select"
    /\ UNCHANGED tables
    /\ \/ \E i \in IdsOf(req[w].name) :
             /\ req' = [req EXCEPT ![w].uid = i]
             /\ Goto(w, "invalidate")
       \/ IdsOf(req[w].name) = {} /\ Answer(w)

\* DELETE FROM sessions WHERE user_id = ?; its error is logged and ignored.
Invalidate(w) ==
    /\ pc[w] = "invalidate"
    /\ Goto(w, "insert")
    /\ \/ sessions' = sessions \ SessionsOf(req[w].uid)
       \/ Interruptions /\ UNCHANGED sessions
    /\ UNCHANGED <<users, lastId, issued, req>>

\* Mutant: sessions has no foreign key, the row is inserted in any case.
InsertSessionUnchecked(w) ==
    /\ pc[w] = "insert"
    /\ issued < MaxToken
    /\ issued' = issued + 1
    /\ sessions' = sessions \cup {[token |-> issued', uid |-> req[w].uid,
                                   loginName |-> req[w].name, loginPw |-> req[w].pw]}
    /\ Answer(w)
    /\ UNCHANGED <<users, lastId>>

\* INSERT INTO sessions: the foreign key refuses an account that is gone.
InsertSession(w) ==
    /\ pc[w] = "insert"
    /\ issued < MaxToken
    /\ issued' = issued + 1
    /\ sessions' = IF req[w].uid \in DOMAIN users
                   THEN sessions \cup {[token |-> issued', uid |-> req[w].uid,
                                        loginName |-> req[w].name,
                                        loginPw |-> req[w].pw]}
                   ELSE sessions
    /\ Answer(w)
    /\ UNCHANGED <<users, lastId>>

\* POST /api/auth/logout: one statement.
Logout(s) ==
    /\ sessions' = sessions \ {s}
    /\ UNCHANGED <<users, lastId, issued, pc, req>>

\* The hourly cleanup: which sessions have expired is a matter of time.
CleanupExpiredSessions(expired) ==
    /\ sessions' = sessions \ expired
    /\ UNCHANGED <<users, lastId, issued, pc, req>>

-----------------------------------------------------------------------------
(* Administration.  RequireAdmin resolves the actor once, when the request   *)
(* arrives; the handler does not look again.                                 *)

Administrators ==
    {users[s.uid].name : s \in {t \in sessions : users[t.uid].admin}}
        \cup ExternalAdmins

CreateBegin(w, actor, n, p, admin, mail) ==
    /\ actor \in Administrators
    /\ Start(w, "create", [NoRequest EXCEPT !.actor = actor, !.name = n, !.pw = p,
                                            !.admin = admin, !.mail = mail])

\* Any number is taken for an account, also one that was not handed out yet.
UpdateBegin(w, actor, u, admin, mail) ==
    /\ actor \in Administrators
    /\ Start(w, "updTarget", [NoRequest EXCEPT !.actor = actor, !.uid = u,
                                               !.admin = admin, !.mail = mail])

DeleteBegin(w, actor, u) ==
    /\ actor \in Administrators
    /\ Start(w, "delTarget", [NoRequest EXCEPT !.actor = actor, !.uid = u])

ResetBegin(w, actor, u, p) ==
    /\ actor \in Administrators
    /\ Start(w, "reset", [NoRequest EXCEPT !.actor = actor, !.uid = u, !.pw = p])

\* createLocalUser: UNIQUE on username and on email.
CreateUser(w) ==
    /\ pc[w] = "create"
    /\ Answer(w)
    /\ UNCHANGED <<sessions, issued>>
    /\ \/ /\ IdsOf(req[w].name) # {} \/ MailTaken(req[w].mail, DOMAIN users)
          /\ UNCHANGED <<users, lastId>>
       \/ /\ IdsOf(req[w].name) = {} /\ ~MailTaken(req[w].mail, DOMAIN users)
          /\ AddAccount([name |-> req[w].name, pw |-> req[w].pw,
                         admin |-> req[w].admin, mail |-> req[w].mail])

\* The request is about the actor's own account.
AboutSelf(w) ==
    /\ req[w].uid \in DOMAIN users
    /\ users[req[w].uid].name = req[w].actor

\* Mutant: the check looks at the stored role instead of the requested one.
UpdateTargetStored(w) ==
    /\ pc[w] = "updTarget"
    /\ UNCHANGED tables
    /\ \/ /\ req[w].uid \in DOMAIN users
          /\ IF AboutSelf(w) /\ ~users[req[w].uid].admin
             THEN Answer(w)
             ELSE /\ Goto(w, "update")
                  /\ req' = [req EXCEPT ![w].name = users[req[w].uid].name]
       \/ /\ req[w].uid \notin DOMAIN users
          /\ Goto(w, "update") /\ UNCHANGED req

\* updateLocalUser: an administrator cannot take the role from the own account.  The
\* error of the SELECT is ignored: without a row, and when the statement fails, the
\* target stays Nobody, who is not the actor.
UpdateTarget(w) ==
    /\ pc[w] = "updTarget"
    /\ UNCHANGED tables
    /\ \/ /\ req[w].uid \in DOMAIN users
          /\ IF AboutSelf(w) /\ ~req[w].admin
             THEN Answer(w)
             ELSE /\ Goto(w, "update")
                  /\ req' = [req EXCEPT ![w].name = users[req[w].uid].name]
       \/ /\ req[w].uid \notin DOMAIN users \/ Interruptions
          /\ Goto(w, "update") /\ UNCHANGED req

\* UPDATE users SET email, display_name, groups.
UpdateUser(w) ==
    LET u == req[w].uid
    IN  /\ pc[w] = "update"
        /\ UNCHANGED <<lastId, sessions, issued>>
        /\ IF u \in DOMAIN users /\ ~MailTaken(req[w].mail, DOMAIN users \ {u})
           THEN /\ users' = [users EXCEPT ![u].admin = req[w].admin,
                                          ![u].mail = req[w].mail]
                /\ Goto(w, "drop")
                /\ UNCHANGED req
           ELSE Answer(w) /\ UNCHANGED users

\* resetUserPassword: UPDATE users SET password_hash.
ResetPassword(w) ==
    LET u == req[w].uid
    IN  /\ pc[w] = "reset"
        /\ UNCHANGED <<lastId, sessions, issued>>
        /\ IF u \in DOMAIN users
           THEN /\ users' = [users EXCEPT ![u].pw = req[w].pw]
                /\ Goto(w, "drop")
                /\ UNCHANGED req
           ELSE Answer(w) /\ UNCHANGED users

\* Mutant: the sessions survive a change of the account.
DropSessionsSkipped(w) ==
    /\ pc[w] = "drop"
    /\ Answer(w)
    /\ UNCHANGED tables

\* InvalidateUserSessions after an update or a reset; its error is ignored.
DropSessions(w) ==
    /\ pc[w] = "drop"
    /\ Answer(w)
    /\ \/ sessions' = sessions \ SessionsOf(req[w].uid)
       \/ Interruptions /\ UNCHANGED sessions
    /\ UNCHANGED <<users, lastId, issued>>

\* Mutant: the self-deletion check is missing.
DeleteTargetUnchecked(w) ==
    /\ pc[w] = "delTarget"
    /\ UNCHANGED tables
    /\ IF req[w].uid \notin DOMAIN users
       THEN Answer(w)
       ELSE Goto(w, "delDrop") /\ UNCHANGED req

\* deleteLocalUser: the account exists and is not the actor's own.
DeleteTarget(w) ==
    /\ pc[w] = "delTarget"
    /\ UNCHANGED tables
    /\ IF req[w].uid \notin DOMAIN users \/ AboutSelf(w)
       THEN Answer(w)
       ELSE Goto(w, "delDrop") /\ UNCHANGED req

\* InvalidateUserSessions before the deletion.
DeleteDrop(w) ==
    /\ pc[w] = "delDrop"
    /\ Goto(w, "delete")
    /\ \/ sessions' = sessions \ SessionsOf(req[w].uid)
       \/ Interruptions /\ UNCHANGED sessions
    /\ UNCHANGED <<users, lastId, issued, req>>

\* Mutant: the id column is not AUTOINCREMENT, the largest free id is used again.
DeleteUserFreesId(w) ==
    LET u == req[w].uid
    IN  /\ pc[w] = "delete"
        /\ users' = [i \in DOMAIN users \ {u} |-> users[i]]
        /\ sessions' = sessions \ SessionsOf(u)
        /\ lastId' = IF u = lastId THEN lastId - 1 ELSE lastId
        /\ Answer(w)
        /\ UNCHANGED issued

\* Mutant: identifiers are the number of rows plus one.
DeleteUserCountsRows(w) ==
    LET u == req[w].uid
    IN  /\ pc[w] = "delete"
        /\ users' = [i \in DOMAIN users \ {u} |-> users[i]]
        /\ sessions' = sessions \ SessionsOf(u)
        /\ lastId' = IF u \in DOMAIN users THEN lastId - 1 ELSE lastId
        /\ Answer(w)
        /\ UNCHANGED issued

\* DELETE FROM users: ON DELETE CASCADE takes the sessions along.
DeleteUser(w) ==
    LET u == req[w].uid
    IN  /\ pc[w] = "delete"
        /\ users' = [i \in DOMAIN users \ {u} |-> users[i]]
        /\ sessions' = sessions \ SessionsOf(u)
        /\ Answer(w)
        /\ UNCHANGED <<lastId, issued>>

\* A statement fails, or the process stops: the rest of the request does not run.
Interrupt(w) ==
    /\ Interruptions
    /\ pc[w] # "idle"
    /\ Answer(w)
    /\ UNCHANGED tables

-----------------------------------------------------------------------------
LoginStep(w) ==
    \/ LocalCheck(w) \/ Upsert(w) \/ SelectId(w) \/ Invalidate(w) \/ InsertSession(w)

AdminStep(w) ==
    \/ CreateUser(w) \/ UpdateTarget(w) \/ UpdateUser(w) \/ ResetPassword(w)
    \/ DropSessions(w) \/ DeleteTarget(w) \/ DeleteDrop(w) \/ DeleteUser(w)

Begin(w) ==
    \/ \E n \in Names, p \in Passwords : LoginBegin(w, n, p)
    \/ \E n \in Names, admin \in BOOLEAN, mail \in Mails : OidcCallback(w, n, admin, mail)
    \/ \E actor, n \in Names, p \in Passwords, admin \in BOOLEAN, mail \in Mails :
          CreateBegin(w, actor, n, p, admin, mail)
    \/ \E actor \in Names, u \in Ids, admin \in BOOLEAN, mail \in Mails :
          UpdateBegin(w, actor, u, admin, mail)
    \/ \E actor \in Names, u \in Ids : DeleteBegin(w, actor, u)
    \/ \E actor \in Names, u \in Ids, p \in Passwords : ResetBegin(w, actor, u, p)

Next ==
    \/ \E w \in Workers : Begin(w) \/ LoginStep(w) \/ AdminStep(w) \/ Interrupt(w)
    \/ \E s \in sessions : Logout(s)
    \/ \E expired \in SUBSET sessions : CleanupExpiredSessions(expired)

Spec == Init /\ [][Next]_vars

-----------------------------------------------------------------------------
(* Properties.                                                              *)

TypeOK ==
    /\ DOMAIN users \subseteq 1..lastId
    /\ \A i \in DOMAIN users : users[i] \in Accounts
    /\ lastId \in Ids
    /\ sessions \subseteq Sessions
    /\ issued \in 0..MaxToken
    /\ pc \in [Workers -> {"idle"} \cup LoginPcs \cup AdminPcs]
    /\ req \in [Workers -> Requests]

\* A session belongs to a live account, and to the very account whose owner logged
\* in: however logins, deletions and re-creations interleave, a token never ends up
\* naming somebody else (GetLocalUser joins sessions with users by id alone).
SessionsBelong ==
    \A s \in sessions :
        /\ s.uid \in DOMAIN users
        /\ users[s.uid].name = s.loginName

\* UNIQUE(username): the upsert and the panel never make two accounts of one name,
\* which WHERE username = ? would then choose from.
NamesUnique ==
    \A i, j \in DOMAIN users : users[i].name = users[j].name => i = j

\* The actor's account is about to be changed or deleted, and was an administrator's.
OwnAdmin(w, i) == i \in DOMAIN users /\ users[i].name = req[w].actor /\ users[i].admin

\* The request does not know whose account it updates: its SELECT gave nothing.
Blind(w) == pc[w] = "update" /\ req[w].name = Nobody

\* No request of an administrator deletes the account it was made from, whatever failed
\* or happened between its check and its write; nor does it take the role from it, if
\* its check saw an account at all: the error of that SELECT is ignored, so that after
\* a failure it does, against the comment at admin_users.go:188.
SelfProtection ==
    [][\A w \in Workers : \A i \in DOMAIN users :
          /\ DeleteUser(w) /\ users[i].name = req[w].actor => i \in DOMAIN users'
          /\ UpdateUser(w) /\ OwnAdmin(w, i) /\ ~Blind(w) => users'[i].admin]_vars

\* With requests one at a time, no request of the panel takes the last administrator
\* away, wherever statements fail, unless it is the look-up of whose account it updates:
\* the self-protection checks are enough to keep the panel reachable.  (The directory
\* may still revoke the role of its own accounts at their next login.)
SomeAdmin == \E i \in DOMAIN users : users[i].admin
PanelKeepsAnAdmin ==
    [][\A w \in Workers : AdminStep(w) /\ ~Blind(w) /\ SomeAdmin => SomeAdmin']_vars

\* Once no request is in progress, every session of a local account was opened with
\* the password the account has now: a reset ends the sessions of the old one.
AllIdle == \A w \in Workers : pc[w] = "idle"
PasswordIsCurrent ==
    AllIdle => \A s \in sessions :
                  s.loginPw # Directory => s.loginPw = users[s.uid].pw
=============================================================================
