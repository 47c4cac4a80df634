--------------------------- MODULE BackupRestore ---------------------------
(***************************************************************************)
(* The backup of settings and preferences, its restoration, and what both  *)
(* meet: settings saved by others, accounts that come and go, preferences  *)
(* saved by their users, and restarts with another encryption key.         *)
(*                                                                         *)
(* Of the settings two stand for all: the sign-in methods, which a backup  *)
(* holds and a restoration brings back, and one secret, which it does not. *)
(* (Others, the OIDC scopes among them, are in the backup and checked, but *)
(* not brought back: to a restoration they are like the secret.)           *)
(*                                                                         *)
(* Neither whose preferences a row holds nor what is meant by a secret is  *)
(* state of the program: both are carried along for the properties.        *)
(***************************************************************************)
EXTENDS Secrets, Naturals, FiniteSets

CONSTANTS
    Workers,     \* goroutines that serve PUT system-config and the restoration
    Methods,     \* what the sign-in methods may be: sets; {} among them
    Local,       \* the method that needs an account
    Names,       \* of users
    MaxId,       \* bound: of accounts
    MaxStarts,   \* bound: starts of the process
    Focuses,     \* bound: what a behaviour is about
    None

ASSUME BackupConstants ==
    /\ {} \in Methods /\ None \notin Names \cup Methods
    /\ MaxId \in Nat /\ MaxStarts \in Nat
    /\ Focuses \subseteq {"keys", "settings", "preferences"}

Ids == 1..MaxId

VARIABLES
    mem, table,   \* settings, in memory and in system_config
    accounts,     \* table users: the name that an id has
    lastId,       \* sqlite_sequence
    prefs,        \* table user_preferences: by id, whose they are
    saving,       \* PUT of preferences under way: the id that was looked up
    copy,         \* backup under way: the preferences it has read
    file,         \* the backup an administrator has at hand
    worker,       \* what each goroutine does
    starts,
    promised,     \* the methods that the last restoration has reported as restored
    focus

accountVars == <<accounts, lastId, prefs, saving>>
backupVars == <<keyVars, mem, table, accountVars, copy, file, worker, starts, promised, focus>>

NoPrefs == [i \in Ids |-> None]
Idle == [pc |-> "idle", form |-> None, snapshot |-> None, left |-> {},
         saved |-> FALSE, alone |-> FALSE]

\* The system was set up: it has a method, and an administrator.
BackupInit ==
    /\ KeysInit
    /\ \E m \in Methods \ {{}} :
          mem = [methods |-> m, secret |-> NoSecret, meant |-> NoSecret]
    /\ table = mem
    /\ \E n \in Names : accounts = [NoPrefs EXCEPT ![1] = n]
    /\ lastId = 1 /\ prefs = NoPrefs
    /\ saving = [n \in Names |-> None]
    /\ copy = None /\ file = None /\ promised = None
    /\ worker = [w \in Workers |-> Idle]
    /\ starts = 0
    /\ focus \in Focuses

\* LoadSystemConfig after InitEncryptionKey; before the first start nothing is served.
Start ==
    /\ starts < MaxStarts /\ starts' = starts + 1
    /\ InitEncryptionKey /\ (focus # "keys" => key' = EnvKey)
    /\ mem' = [table EXCEPT !.secret = DecryptValue(key', @)]
    /\ worker' = [w \in Workers |-> Idle]
    /\ saving' = [n \in Names |-> None]
    /\ copy' = None
    /\ UNCHANGED <<table, accounts, lastId, prefs, file, promised, focus>>

-----------------------------------------------------------------------------
(* PUT /api/admin/system-config and POST /api/admin/restore.                *)

Forms == [methods : Methods, secret : Plain \cup {NoSecret}]

\* A request is alone as long as no other overlaps it.
Begin(w, form, restores) ==
    /\ worker[w].pc = "idle"
    /\ worker' = [v \in Workers |->
          IF v # w THEN [worker[v] EXCEPT !.alone = FALSE]
          ELSE [Idle EXCEPT !.pc = IF restores THEN "restore" ELSE "change", !.form = form,
                            !.alone = \A u \in Workers : worker[u].pc = "idle"]]

\* Local authentication cannot be switched on while nobody has a local account.
PutConfig(w, form) ==
    /\ ~(Local \in form.methods \ mem.methods /\ accounts = NoPrefs)
    /\ Begin(w, form, FALSE)
    /\ promised' = None
    /\ UNCHANGED <<mem, table>>

\* A blank secret keeps the one there was.
Change(w) ==
    /\ worker[w].pc = "change"
    /\ LET form == worker[w].form IN
       mem' = IF form.secret = NoSecret THEN [mem EXCEPT !.methods = form.methods]
              ELSE [methods |-> form.methods, secret |-> form.secret, meant |-> form.secret]
    /\ worker' = [worker EXCEPT ![w].pc = "snapshot"]
    /\ UNCHANGED <<table, promised>>

\* A backup with every method switched off is turned down.
RestoreBegin(w) ==
    /\ file # None /\ file.methods # {}
    /\ Begin(w, file, TRUE)
    /\ promised' = None
    /\ UNCHANGED <<mem, table>>

\* Mutant: what was restored is not saved.
RestoreChangeUnsaved(w) ==
    /\ worker[w].pc = "restore"
    /\ mem' = [mem EXCEPT !.methods = worker[w].form.methods]
    /\ worker' = [worker EXCEPT ![w].pc = "prefs", ![w].saved = TRUE]
    /\ UNCHANGED <<table, promised>>

RestoreChange(w) ==
    /\ worker[w].pc = "restore"
    /\ mem' = [mem EXCEPT !.methods = worker[w].form.methods]
    /\ worker' = [worker EXCEPT ![w].pc = "snapshot"]
    /\ UNCHANGED <<table, promised>>

\* SaveSystemConfig: the settings under the read lock, then their encryption.
Snapshot(w) ==
    /\ worker[w].pc = "snapshot"
    /\ worker' = [worker EXCEPT ![w].pc = "commit",
                    ![w].snapshot = [mem EXCEPT !.secret = EncryptValue(@)]]
    /\ UNCHANGED <<mem, table, promised>>

Restores(w) == worker[w].form \notin Forms

\* The transaction, which may fail: a PUT answers 500 then, a restoration goes on.
Commit(w) ==
    /\ worker[w].pc = "commit"
    /\ \E ok \in BOOLEAN :
          /\ table' = IF ok THEN worker[w].snapshot ELSE table
          /\ worker' = [worker EXCEPT ![w] =
                IF Restores(w)
                THEN [@ EXCEPT !.pc = "prefs", !.saved = ok, !.snapshot = None,
                               !.left = {i \in Ids : worker[w].form.prefs[i] # None}]
                ELSE Idle]
    /\ UNCHANGED <<mem, promised>>

\* One statement for each row of the backup; one whose account has gone is refused by
\* the foreign key, and skipped.
RestorePref(w) ==
    /\ worker[w].pc = "prefs"
    /\ \E i \in worker[w].left :
       /\ \A j \in worker[w].left : i <= j
       /\ prefs' = IF accounts[i] = None THEN prefs
                   ELSE [prefs EXCEPT ![i] = worker[w].form.prefs[i]]
       /\ worker' = [worker EXCEPT ![w].left = @ \ {i}]
    /\ UNCHANGED <<mem, table, promised>>

RestoreAnswer(w) ==
    /\ worker[w].pc = "prefs" /\ worker[w].left = {}
    /\ promised' = IF worker[w].saved /\ worker[w].alone THEN worker[w].form.methods ELSE None
    /\ worker' = [worker EXCEPT ![w] = Idle]
    /\ UNCHANGED <<mem, table>>

-----------------------------------------------------------------------------
(* GET /api/admin/backup.                                                   *)

\* The rows of preferences are read first; when that fails the backup has none.
BackupPreferences ==
    /\ copy = None
    /\ copy' \in {prefs, NoPrefs}
    /\ UNCHANGED file

\* Then the settings, under the read lock.
BackupSettings ==
    /\ copy # None
    /\ file' = [methods |-> mem.methods, prefs |-> copy]
    /\ copy' = None

-----------------------------------------------------------------------------
(* Accounts, and the preferences of their users.                            *)

\* Mutant: without AUTOINCREMENT the number after the highest in use is taken.
CreateAccountReusesId(n) ==
    /\ \A i \in Ids : accounts[i] # n
    /\ \E i \in Ids :
          /\ \A j \in Ids : j >= i => accounts[j] = None
          /\ i > 1 => accounts[i - 1] # None
          /\ accounts' = [accounts EXCEPT ![i] = n]
    /\ UNCHANGED <<lastId, prefs, saving>>

\* A number is never used twice.
CreateAccount(n) ==
    /\ \A i \in Ids : accounts[i] # n
    /\ lastId < MaxId /\ lastId' = lastId + 1
    /\ accounts' = [accounts EXCEPT ![lastId'] = n]
    /\ UNCHANGED <<prefs, saving>>

\* ON DELETE CASCADE.
DeleteAccount(i) ==
    /\ accounts[i] # None
    /\ accounts' = [accounts EXCEPT ![i] = None]
    /\ prefs' = [prefs EXCEPT ![i] = None]
    /\ UNCHANGED <<lastId, saving>>

\* PUT /api/user/preferences: the number of the user is looked up, ...
SaveLookup(n) ==
    /\ saving[n] = None
    /\ \E i \in Ids : accounts[i] = n /\ saving' = [saving EXCEPT ![n] = i]
    /\ UNCHANGED <<accounts, lastId, prefs>>

\* ... then the row is replaced, which the foreign key refuses if the account has gone.
\* (A user without an account is given the number -1, which it always refuses.)
SaveStore(n) ==
    /\ saving[n] # None
    /\ prefs' = IF accounts[saving[n]] = None THEN prefs
                ELSE [prefs EXCEPT ![saving[n]] = n]
    /\ saving' = [saving EXCEPT ![n] = None]
    /\ UNCHANGED <<accounts, lastId>>

-----------------------------------------------------------------------------
Settle(w) ==
    \/ \E form \in Forms :
          /\ focus = "keys" => form.methods = mem.methods
          /\ focus = "settings" => form.secret = NoSecret
          /\ focus # "preferences" /\ PutConfig(w, form)
    \/ Change(w) \/ RestoreBegin(w) \/ RestoreChange(w) \/ Snapshot(w) \/ Commit(w)
    \/ RestoreAnswer(w)

Account ==
    \/ focus # "keys" /\ \E i \in Ids : DeleteAccount(i)
    \/ /\ focus = "preferences"
       /\ \E n \in Names : CreateAccount(n) \/ SaveLookup(n) \/ SaveStore(n)

BackupNext ==
    \/ Start
    \/ /\ starts > 0
       /\ \/ \E w \in Workers : Settle(w) /\ UNCHANGED <<accountVars, copy, file>>
          \/ \E w \in Workers : RestorePref(w)
                                /\ UNCHANGED <<accounts, lastId, saving, copy, file>>
          \/ focus # "keys" /\ (BackupPreferences \/ BackupSettings)
             /\ UNCHANGED <<mem, table, accountVars, worker, promised>>
          \/ Account /\ UNCHANGED <<mem, table, copy, file, worker, promised>>
       /\ UNCHANGED <<keyVars, starts, focus>>

BackupSpec == BackupInit /\ [][BackupNext]_backupVars

-----------------------------------------------------------------------------
(* Properties.                                                              *)

\* The keys a secret may have met.  One that a start made and could not store, or that
\* another has replaced, is gone with its process: where none is, made is {dbKey} at most.
KeysMet == {EnvKey} \cup made

\* What was meant, or one encryption of it.
IsOnce(setting, keys) ==
    setting.meant # Bare =>
        \/ setting.secret = setting.meant
        \/ \E k \in keys : setting.secret = [by |-> k, of |-> setting.meant]

\* A secret comes back with the key it was encrypted with: through any number of saves and
\* restarts, with whatever key each start finds, what the table holds is what was meant or
\* one encryption of it with a key that some start has found or made, and what memory holds
\* is what was meant or one encryption of it with another key than the one in use.  Except
\* the secret that is nothing but the prefix, which a start reads as none.
SecretComesBack == IsOnce(table, KeysMet) /\ IsOnce(mem, KeysMet \ {key})

\* Nobody meets the preferences of somebody else: whichever account was deleted or made
\* while a save or a restoration was under way, or since the backup was taken, the row of
\* an account was saved by the user whose account it is.
PrefsAreOwn == \A i \in Ids : prefs[i] # None => prefs[i] = accounts[i]

\* What a restoration has reported as restored stays, in memory and through restarts,
\* until somebody asks for other settings, unless another request overlapped it.
RestoreIsKept ==
    promised # None => mem.methods = promised /\ table.methods = promised
=============================================================================
