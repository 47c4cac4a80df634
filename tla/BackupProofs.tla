---------------------------- MODULE BackupProofs ----------------------------
(***************************************************************************)
(* Proofs about BackupRestore, for any workers, users, methods, keys and   *)
(* numbers of accounts and starts.                                         *)
(*                                                                         *)
(* PrefsAreOwn rests on every number that a request or a backup carries    *)
(* having been given to the user it is carried for, and to nobody since;   *)
(* SecretComesBack on what is encrypted never being encrypted again;       *)
(* RestoreIsKept on a request that nobody overlaps finding at each step    *)
(* what it left at the one before.                                         *)
(***************************************************************************)
EXTENDS BackupRestore, TLAPS

Rows == [Ids -> Names \cup {None}]
Files == [methods : Methods, prefs : Rows]
Settings == [methods : Methods, secret : Plain \cup {NoSecret} \cup Sealed,
             meant : Plain \cup {NoSecret}]
Pcs == {"idle", "change", "restore", "snapshot", "commit", "prefs"}
Records == [pc : Pcs, form : Forms \cup Files \cup {None}, snapshot : Settings \cup {None},
            left : SUBSET Ids, saved : BOOLEAN, alone : BOOLEAN]

\* A goroutine carries what its next step reads.
Carries(r) ==
    /\ r.pc # "idle" => r.form \in Forms \cup Files
    /\ r.pc = "change" => r.form \in Forms
    /\ r.pc \in {"restore", "prefs"} => r.form \in Files
    /\ r.pc = "commit" => r.snapshot \in Settings

KeysType ==
    made \subseteq MadeKeys /\ key \in {EnvKey, NoKey} \cup made /\ dbKey \in {NoKey} \cup made

WorkersType == worker \in [Workers -> Records] /\ \A w \in Workers : Carries(worker[w])

TypeInv ==
    /\ KeysType
    /\ mem \in Settings /\ table \in Settings
    /\ accounts \in Rows /\ prefs \in Rows
    /\ lastId \in Nat
    /\ saving \in [Names -> Ids \cup {None}]
    /\ copy \in Rows \cup {None} /\ file \in Files \cup {None}
    /\ WorkersType

-----------------------------------------------------------------------------
(* Types.                                                                   *)

LEMMA IdleType == Idle \in Records /\ Carries(Idle)
  BY DEF Idle, Records, Pcs, Carries

LEMMA FormsAreNotFiles == ASSUME NEW f \in Files PROVE f \notin Forms
<1>1. DOMAIN f = {"methods", "prefs"}
  BY DEF Files
<1>2. ASSUME f \in Forms
      PROVE  DOMAIN f = {"methods", "secret"}
  BY <1>2 DEF Forms
<1>3. "secret" \notin {"methods", "prefs"}
  OBVIOUS
<1>. QED
  BY <1>1, <1>2, <1>3

\* One goroutine takes a step, the others stay.
LEMMA MoveType ==
    ASSUME WorkersType, NEW w \in Workers, NEW r \in Records, Carries(r),
           worker' = [worker EXCEPT ![w] = r]
    PROVE  WorkersType'
<1>1. worker' \in [Workers -> Records]
  BY DEF WorkersType
<1>2. \A v \in Workers : worker'[v] = IF v = w THEN r ELSE worker[v]
  BY DEF WorkersType
<1>3. \A v \in Workers : Carries(worker'[v])
  BY <1>2 DEF WorkersType
<1>. QED
  BY <1>1, <1>3 DEF WorkersType

LEMMA OverlappedType ==
    ASSUME NEW r \in Records, Carries(r)
    PROVE  [r EXCEPT !.alone = FALSE] \in Records /\ Carries([r EXCEPT !.alone = FALSE])
<1> DEFINE q == [r EXCEPT !.alone = FALSE]
<1>1. q \in Records
  BY DEF Records
<1>2. q.pc = r.pc /\ q.form = r.form /\ q.snapshot = r.snapshot
  BY DEF Records
<1>3. Carries(q)
  BY <1>2 DEF Carries
<1>. QED
  BY <1>1, <1>3

\* A request begins, and no other is alone any more.
LEMMA BeginType ==
    ASSUME WorkersType, NEW w \in Workers, NEW form, NEW restores \in BOOLEAN,
           form \in (IF restores THEN Files ELSE Forms), Begin(w, form, restores)
    PROVE  /\ WorkersType'
           /\ worker'[w].form = form
           /\ worker'[w].pc = IF restores THEN "restore" ELSE "change"
           /\ worker'[w].alone => \A u \in Workers : worker[u].pc = "idle"
           /\ \A v \in Workers \ {w} : worker'[v] = [worker[v] EXCEPT !.alone = FALSE]
<1> DEFINE r == [Idle EXCEPT !.pc = IF restores THEN "restore" ELSE "change", !.form = form,
                             !.alone = \A u \in Workers : worker[u].pc = "idle"]
<1>1. r \in Records /\ Carries(r)
  BY DEF Idle, Records, Pcs, Carries
<1>2. worker'[w] = r
  BY DEF Begin
<1>3. \A v \in Workers \ {w} : worker'[v] = [worker[v] EXCEPT !.alone = FALSE]
  BY DEF Begin
<1>4. \A v \in Workers \ {w} : worker'[v] \in Records /\ Carries(worker'[v])
  BY <1>3, OverlappedType DEF WorkersType
<1>5. DOMAIN worker' = Workers
  BY DEF Begin
<1>6. worker' = [v \in Workers |-> worker'[v]]
  BY DEF Begin
<1>7. \A v \in Workers : worker'[v] \in Records /\ Carries(worker'[v])
  BY <1>1, <1>2, <1>4
<1>8. worker' \in [Workers -> Records]
  BY <1>6, <1>7
<1>. QED
  BY <1>2, <1>3, <1>7, <1>8 DEF WorkersType, Idle

\* What EncryptValue and DecryptValue return.
LEMMA EncryptType ==
    ASSUME KeysType, NEW v \in Plain \cup {NoSecret} \cup Sealed
    PROVE  EncryptValue(v) \in Plain \cup {NoSecret} \cup Sealed
BY DEF KeysType, EncryptValue, Encrypted, Sealed, Keys

LEMMA DecryptType ==
    ASSUME NEW k, NEW v \in Plain \cup {NoSecret} \cup Sealed
    PROVE  DecryptValue(k, v) \in Plain \cup {NoSecret} \cup Sealed
BY DEF DecryptValue, Sealed

LEMMA KeysTypeKept == ASSUME KeysType, InitEncryptionKey PROVE KeysType'
BY DEF KeysType, InitEncryptionKey, Keys

-----------------------------------------------------------------------------
\* The steps, one by one, and what they leave alone.
LEMMA StepCases ==
    ASSUME [BackupNext]_backupVars
    PROVE  \/ Start
           \/ \E w \in Workers : Settle(w) /\ UNCHANGED <<keyVars, accountVars, copy, file>>
           \/ \E w \in Workers :
                 RestorePref(w) /\ UNCHANGED <<keyVars, accounts, lastId, saving, copy, file>>
           \/ /\ BackupPreferences \/ BackupSettings
              /\ UNCHANGED <<keyVars, mem, table, accountVars, worker, promised>>
           \/ Account /\ UNCHANGED <<keyVars, mem, table, copy, file, worker, promised>>
           \/ UNCHANGED backupVars
BY DEF BackupNext

LEMMA SettleCases ==
    ASSUME NEW w \in Workers, Settle(w)
    PROVE  \/ \E form \in Forms : PutConfig(w, form)
           \/ Change(w) \/ RestoreBegin(w) \/ RestoreChange(w) \/ Snapshot(w) \/ Commit(w)
           \/ RestoreAnswer(w)
BY DEF Settle

\* A start: nobody works, and memory is what the table says.
LEMMA StartEffect ==
    ASSUME TypeInv, Start
    PROVE  /\ \A w \in Workers : worker'[w] = Idle
           /\ mem' \in Settings
           /\ mem'.methods = table.methods /\ mem'.meant = table.meant
           /\ mem'.secret = DecryptValue(key', table.secret)
           /\ WorkersType'
<1>1. worker' = [w \in Workers |-> Idle]
      /\ mem' = [table EXCEPT !.secret = DecryptValue(key', @)]
  BY DEF Start
<1>2. DecryptValue(key', table.secret) \in Plain \cup {NoSecret} \cup Sealed
  <2>1. table.secret \in Plain \cup {NoSecret} \cup Sealed
    BY DEF TypeInv, Settings
  <2>. QED
    BY <2>1, DecryptType
<1>3. table \in Settings
  BY DEF TypeInv
<1>4. mem' \in Settings /\ mem'.methods = table.methods /\ mem'.meant = table.meant
      /\ mem'.secret = DecryptValue(key', table.secret)
  BY <1>1, <1>2, <1>3 DEF Settings
<1>5. \A w \in Workers : worker'[w] = Idle
  BY <1>1
<1>6. WorkersType'
  BY <1>1, IdleType DEF WorkersType
<1>. QED
  BY <1>4, <1>5, <1>6

\* What each step of a request does to the goroutine that takes it.
LEMMA ChangeEffect ==
    ASSUME TypeInv, NEW w \in Workers, Change(w)
    PROVE  LET r == [worker[w] EXCEPT !.pc = "snapshot"] IN
           /\ r \in Records /\ Carries(r) /\ worker' = [worker EXCEPT ![w] = r]
           /\ worker[w].form \in Forms /\ mem' \in Settings
<1> DEFINE r == [worker[w] EXCEPT !.pc = "snapshot"]
<1>1. worker[w] \in Records /\ Carries(worker[w]) /\ worker[w].pc = "change"
  BY DEF TypeInv, WorkersType, Change
<1>2. worker[w].form \in Forms
  BY <1>1 DEF Carries
<1>3. r \in Records /\ r.pc = "snapshot" /\ r.form = worker[w].form
  BY <1>1 DEF Records, Pcs
<1>4. Carries(r)
  BY <1>2, <1>3 DEF Carries
<1>5. mem' \in Settings
  BY <1>2 DEF Change, Forms, Settings, TypeInv
<1>6. worker' = [worker EXCEPT ![w] = r]
  BY DEF Change
<1>. QED
  BY <1>2, <1>3, <1>4, <1>5, <1>6

LEMMA RestoreChangeEffect ==
    ASSUME TypeInv, NEW w \in Workers, RestoreChange(w)
    PROVE  LET r == [worker[w] EXCEPT !.pc = "snapshot"] IN
           /\ r \in Records /\ Carries(r) /\ worker' = [worker EXCEPT ![w] = r]
           /\ worker[w].form \in Files /\ mem' \in Settings
<1> DEFINE r == [worker[w] EXCEPT !.pc = "snapshot"]
<1>1. worker[w] \in Records /\ Carries(worker[w]) /\ worker[w].pc = "restore"
  BY DEF TypeInv, WorkersType, RestoreChange
<1>2. worker[w].form \in Files
  BY <1>1 DEF Carries
<1>3. r \in Records /\ r.pc = "snapshot" /\ r.form = worker[w].form
  BY <1>1 DEF Records, Pcs
<1>4. Carries(r)
  BY <1>2, <1>3 DEF Carries
<1>5. mem' \in Settings
  BY <1>2 DEF RestoreChange, Files, Settings, TypeInv
<1>6. worker' = [worker EXCEPT ![w] = r]
  BY DEF RestoreChange
<1>. QED
  BY <1>2, <1>3, <1>4, <1>5, <1>6

LEMMA SnapshotEffect ==
    ASSUME TypeInv, NEW w \in Workers, Snapshot(w)
    PROVE  LET s == [mem EXCEPT !.secret = EncryptValue(@)]
               r == [worker[w] EXCEPT !.pc = "commit", !.snapshot = s] IN
           /\ s \in Settings /\ r \in Records /\ Carries(r)
           /\ worker' = [worker EXCEPT ![w] = r]
<1> DEFINE s == [mem EXCEPT !.secret = EncryptValue(@)]
           r == [worker[w] EXCEPT !.pc = "commit", !.snapshot = s]
<1>1. worker[w] \in Records /\ Carries(worker[w]) /\ worker[w].pc = "snapshot"
  BY DEF TypeInv, WorkersType, Snapshot
<1>2. s \in Settings
  <2>1. mem \in Settings /\ KeysType
    BY DEF TypeInv
  <2>2. EncryptValue(mem.secret) \in Plain \cup {NoSecret} \cup Sealed
    BY <2>1, EncryptType DEF Settings
  <2>. QED
    BY <2>1, <2>2 DEF Settings
<1>3. worker' = [worker EXCEPT ![w] = r]
  BY DEF Snapshot
<1>. HIDE DEF s
<1>4. r \in Records /\ r.pc = "commit" /\ r.form = worker[w].form /\ r.snapshot = s
  BY <1>1, <1>2 DEF Records, Pcs
<1>5. Carries(r)
  BY <1>1, <1>2, <1>4 DEF Carries
<1>. QED
  BY <1>2, <1>3, <1>4, <1>5 DEF s

LEMMA CommitEffect ==
    ASSUME TypeInv, NEW w \in Workers, Commit(w)
    PROVE  \E ok \in BOOLEAN, r \in Records :
             /\ Carries(r) /\ worker' = [worker EXCEPT ![w] = r]
             /\ table' = (IF ok THEN worker[w].snapshot ELSE table) /\ table' \in Settings
             /\ \/ r = Idle
                \/ /\ r.pc = "prefs" /\ r.form = worker[w].form /\ r.alone = worker[w].alone
                   /\ r.saved = ok /\ r.left = {i \in Ids : r.form.prefs[i] # None}
<1>1. worker[w] \in Records /\ Carries(worker[w]) /\ worker[w].pc = "commit"
  BY DEF TypeInv, WorkersType, Commit
<1>2. PICK ok \in BOOLEAN :
         /\ table' = (IF ok THEN worker[w].snapshot ELSE table)
         /\ worker' = [worker EXCEPT ![w] =
                IF Restores(w)
                THEN [@ EXCEPT !.pc = "prefs", !.saved = ok, !.snapshot = None,
                               !.left = {i \in Ids : worker[w].form.prefs[i] # None}]
                ELSE Idle]
  BY DEF Commit
<1>3. table' \in Settings
  BY <1>1, <1>2 DEF TypeInv, Carries
<1>4. CASE ~Restores(w)
  BY <1>2, <1>3, <1>4, IdleType
<1>5. CASE Restores(w)
  <2> DEFINE l == {i \in Ids : worker[w].form.prefs[i] # None}
             r == [worker[w] EXCEPT !.pc = "prefs", !.saved = ok, !.snapshot = None, !.left = l]
  <2>1. worker[w].form \in Files
    BY <1>1, <1>5 DEF Restores, Carries
  <2>2. worker' = [worker EXCEPT ![w] = r]
    BY <1>2, <1>5
  <2>3. l \in SUBSET Ids
    OBVIOUS
  <2>. HIDE DEF l
  <2>4. r \in Records
    BY <1>1, <2>3 DEF Records, Pcs
  <2>5. r.pc = "prefs" /\ r.form = worker[w].form /\ r.saved = ok /\ r.left = l
        /\ r.alone = worker[w].alone
    BY <1>1 DEF Records
  <2>6. Carries(r)
    BY <2>1, <2>5 DEF Carries
  <2>7. r.left = {i \in Ids : r.form.prefs[i] # None}
    BY <2>5 DEF l
  <2>. HIDE DEF r
  <2>. QED
    BY <1>2, <1>3, <2>2, <2>4, <2>5, <2>6, <2>7
<1>. QED
  BY <1>4, <1>5

LEMMA PrefEffect ==
    ASSUME TypeInv, NEW w \in Workers, RestorePref(w)
    PROVE  \E i \in worker[w].left : LET r == [worker[w] EXCEPT !.left = @ \ {i}] IN
             /\ i \in Ids /\ worker[w].form \in Files
             /\ r \in Records /\ Carries(r) /\ worker' = [worker EXCEPT ![w] = r]
             /\ prefs' = IF accounts[i] = None THEN prefs
                         ELSE [prefs EXCEPT ![i] = worker[w].form.prefs[i]]
<1>1. worker[w] \in Records /\ Carries(worker[w]) /\ worker[w].pc = "prefs"
  BY DEF TypeInv, WorkersType, RestorePref
<1>2. PICK i \in worker[w].left :
         /\ prefs' = IF accounts[i] = None THEN prefs
                     ELSE [prefs EXCEPT ![i] = worker[w].form.prefs[i]]
         /\ worker' = [worker EXCEPT ![w].left = @ \ {i}]
  BY DEF RestorePref
<1> DEFINE r == [worker[w] EXCEPT !.left = @ \ {i}]
<1>3. i \in Ids /\ worker[w].form \in Files
  BY <1>1, <1>2 DEF Records, Carries
<1>4. r \in Records /\ r.pc = worker[w].pc /\ r.form = worker[w].form
      /\ r.snapshot = worker[w].snapshot
  BY <1>1 DEF Records
<1>5. Carries(r)
  BY <1>1, <1>4 DEF Carries
<1>. QED
  BY <1>2, <1>3, <1>4, <1>5

LEMMA TypeInit == BackupInit => TypeInv
<1> SUFFICES ASSUME BackupInit PROVE TypeInv
  OBVIOUS
<1>1. KeysType
  BY DEF BackupInit, KeysInit, KeysType
<1>2. mem \in Settings /\ table \in Settings
  BY DEF BackupInit, Settings
<1>3. NoPrefs \in Rows
  BY DEF NoPrefs, Rows
<1>4. accounts \in Rows /\ prefs \in Rows
  BY <1>3 DEF BackupInit, Rows
<1>5. WorkersType
  BY IdleType DEF BackupInit, WorkersType
<1>6. lastId \in Nat /\ saving \in [Names -> Ids \cup {None}]
      /\ copy \in Rows \cup {None} /\ file \in Files \cup {None}
  BY DEF BackupInit
<1>. QED
  BY <1>1, <1>2, <1>4, <1>5, <1>6 DEF TypeInv

LEMMA TypeStep ==
    ASSUME TypeInv, [BackupNext]_backupVars
    PROVE  TypeInv'
<1>0. KeysType /\ WorkersType
  BY DEF TypeInv
<1>1. CASE Start
  <2>1. KeysType'
    BY <1>0, <1>1, KeysTypeKept DEF Start
  <2>2. mem' \in Settings /\ WorkersType'
    BY <1>1, StartEffect
  <2>. QED
    BY <1>1, <2>1, <2>2 DEF Start, TypeInv
<1>2. ASSUME NEW w \in Workers, Settle(w), UNCHANGED <<keyVars, accountVars, copy, file>>
      PROVE  TypeInv'
  <2>1. mem' \in Settings /\ table' \in Settings /\ WorkersType'
    <3>1. ASSUME NEW form \in Forms, PutConfig(w, form)
          PROVE  mem' \in Settings /\ table' \in Settings /\ WorkersType'
      BY <1>0, <3>1, BeginType DEF PutConfig, TypeInv
    <3>2. CASE Change(w)
      BY <1>0, <3>2, ChangeEffect, MoveType DEF Change, TypeInv
    <3>3. CASE RestoreBegin(w)
      BY <1>0, <3>3, BeginType DEF RestoreBegin, TypeInv
    <3>4. CASE RestoreChange(w)
      BY <1>0, <3>4, RestoreChangeEffect, MoveType DEF RestoreChange, TypeInv
    <3>5. CASE Snapshot(w)
      BY <1>0, <3>5, SnapshotEffect, MoveType DEF Snapshot, TypeInv
    <3>6. CASE Commit(w)
      BY <1>0, <3>6, CommitEffect, MoveType DEF Commit, TypeInv
    <3>7. CASE RestoreAnswer(w)
      BY <1>0, <3>7, IdleType, MoveType DEF RestoreAnswer, TypeInv
    <3>. QED
      BY <1>2, <3>1, <3>2, <3>3, <3>4, <3>5, <3>6, <3>7, SettleCases
  <2>2. KeysType'
    BY <1>0, <1>2 DEF KeysType, keyVars
  <2>. QED
    BY <1>2, <2>1, <2>2 DEF TypeInv, accountVars
<1>3. ASSUME NEW w \in Workers, RestorePref(w),
             UNCHANGED <<keyVars, accounts, lastId, saving, copy, file>>
      PROVE  TypeInv'
  <2>1. PICK i \in Ids : LET r == [worker[w] EXCEPT !.left = @ \ {i}] IN
           /\ worker[w].form \in Files
           /\ r \in Records /\ Carries(r) /\ worker' = [worker EXCEPT ![w] = r]
           /\ prefs' = IF accounts[i] = None THEN prefs
                       ELSE [prefs EXCEPT ![i] = worker[w].form.prefs[i]]
    BY <1>3, PrefEffect
  <2>2. WorkersType'
    BY <1>0, <2>1, MoveType
  <2>3. prefs' \in Rows
    BY <2>1 DEF TypeInv, Files, Rows
  <2>4. KeysType'
    BY <1>0, <1>3 DEF KeysType, keyVars
  <2>. QED
    BY <1>3, <2>2, <2>3, <2>4 DEF TypeInv, RestorePref
<1>4. ASSUME BackupPreferences \/ BackupSettings,
             UNCHANGED <<keyVars, mem, table, accountVars, worker, promised>>
      PROVE  TypeInv'
  <2>1. KeysType' /\ WorkersType'
    BY <1>0, <1>4 DEF KeysType, keyVars, WorkersType
  <2>2. CASE BackupPreferences
    BY <1>4, <2>1, <2>2 DEF BackupPreferences, NoPrefs, TypeInv, Rows, accountVars
  <2>3. CASE BackupSettings
    BY <1>4, <2>1, <2>3 DEF BackupSettings, TypeInv, Files, Settings, accountVars
  <2>. QED
    BY <1>4, <2>2, <2>3
<1>5. ASSUME Account, UNCHANGED <<keyVars, mem, table, copy, file, worker, promised>>
      PROVE  TypeInv'
  <2>1. KeysType' /\ WorkersType'
    BY <1>0, <1>5 DEF KeysType, keyVars, WorkersType
  <2>2. accounts' \in Rows /\ prefs' \in Rows /\ lastId' \in Nat
        /\ saving' \in [Names -> Ids \cup {None}]
    <3>1. ASSUME NEW i \in Ids, DeleteAccount(i)
          PROVE  accounts' \in Rows /\ prefs' \in Rows /\ UNCHANGED <<lastId, saving>>
      BY <3>1 DEF DeleteAccount, TypeInv, Rows
    <3>2. ASSUME NEW n \in Names, CreateAccount(n)
          PROVE  accounts' \in Rows /\ lastId' \in Nat /\ UNCHANGED <<prefs, saving>>
      <4>1. lastId' = lastId + 1 /\ lastId' \in Nat
        BY <3>2 DEF CreateAccount, TypeInv
      <4>2. accounts' = [accounts EXCEPT ![lastId'] = n] /\ UNCHANGED <<prefs, saving>>
        BY <3>2 DEF CreateAccount
      <4>. QED
        BY <4>1, <4>2 DEF TypeInv, Rows
    <3>3. ASSUME NEW n \in Names, SaveLookup(n)
          PROVE  /\ saving' \in [Names -> Ids \cup {None}]
                 /\ UNCHANGED <<accounts, lastId, prefs>>
      BY <3>3 DEF SaveLookup, TypeInv
    <3>4. ASSUME NEW n \in Names, SaveStore(n)
          PROVE  /\ prefs' \in Rows /\ saving' \in [Names -> Ids \cup {None}]
                 /\ UNCHANGED <<accounts, lastId>>
      BY <3>4 DEF SaveStore, TypeInv, Rows
    <3>. QED
      BY <1>5, <3>1, <3>2, <3>3, <3>4 DEF Account, TypeInv
  <2>. QED
    BY <1>5, <2>1, <2>2 DEF TypeInv
<1>6. CASE UNCHANGED backupVars
  <2>1. KeysType' /\ WorkersType'
    BY <1>0, <1>6 DEF KeysType, keyVars, WorkersType, backupVars
  <2>. QED
    BY <1>6, <2>1 DEF TypeInv, backupVars, accountVars
<1>. QED
  BY <1>1, <1>2, <1>3, <1>4, <1>5, <1>6, StepCases

\* Settings, tables, backups and what every goroutine carries have their types.
THEOREM BackupTypes == BackupSpec => []TypeInv
<1>. QED
  BY TypeInit, TypeStep, PTL DEF BackupSpec

-----------------------------------------------------------------------------
(* Preferences.                                                             *)

\* The number was given to the name, and to no other since.
Owned(i, n) == i <= lastId /\ accounts[i] \in {None, n}
RowsOwned(rows) == \A i \in Ids : rows[i] # None => Owned(i, rows[i])

RestoresOwned(r) ==
    r.pc # "idle" /\ r.form \in Files =>
        /\ RowsOwned(r.form.prefs)
        /\ r.pc = "prefs" => \A i \in r.left : r.form.prefs[i] # None

OwnInv ==
    /\ \A i \in Ids : accounts[i] # None => i <= lastId
    /\ PrefsAreOwn
    /\ \A n \in Names : saving[n] # None => Owned(saving[n], n)
    /\ copy # None => RowsOwned(copy)
    /\ file # None => RowsOwned(file.prefs)
    /\ \A w \in Workers : RestoresOwned(worker[w])

\* Numbers are not used again, names are not changed.
AccountsKept ==
    /\ lastId <= lastId'
    /\ \A i \in Ids : i <= lastId => accounts'[i] \in {None, accounts[i]}

LEMMA OwnedKept ==
    ASSUME TypeInv, TypeInv', AccountsKept, NEW i \in Ids, NEW n, Owned(i, n)
    PROVE  Owned(i, n)'
BY BackupConstants DEF TypeInv, AccountsKept, Owned, Ids

LEMMA RowsOwnedKept ==
    ASSUME TypeInv, TypeInv', AccountsKept, NEW rows, RowsOwned(rows)
    PROVE  RowsOwned(rows)'
BY OwnedKept DEF RowsOwned

LEMMA OthersOwned ==
    ASSUME TypeInv, TypeInv', AccountsKept, NEW r, RestoresOwned(r)
    PROVE  RestoresOwned(r)'
BY RowsOwnedKept DEF RestoresOwned

LEMMA IdleOwned == RestoresOwned(Idle)
  BY DEF RestoresOwned, Idle

LEMMA OwnInit == BackupInit => OwnInv
<1> SUFFICES ASSUME BackupInit PROVE OwnInv
  OBVIOUS
<1>1. PICK n \in Names : accounts = [NoPrefs EXCEPT ![1] = n]
  BY DEF BackupInit
<1>2. \A i \in Ids : accounts[i] # None => i <= lastId
  BY <1>1 DEF BackupInit, NoPrefs, Ids
<1>3. PrefsAreOwn
  BY DEF BackupInit, NoPrefs, PrefsAreOwn
<1>4. \A w \in Workers : RestoresOwned(worker[w])
  BY IdleOwned DEF BackupInit
<1>. QED
  BY <1>2, <1>3, <1>4 DEF BackupInit, OwnInv

\* One goroutine takes a step, nothing else happens to preferences.
LEMMA MoveOwned ==
    ASSUME TypeInv, TypeInv', OwnInv, NEW w \in Workers, NEW r,
           worker' = [worker EXCEPT ![w] = r], RestoresOwned(r),
           UNCHANGED <<accounts, lastId, saving, copy, file>>, PrefsAreOwn'
    PROVE  OwnInv'
<1>1. AccountsKept
  BY DEF AccountsKept, TypeInv, Rows
<1>2. \A v \in Workers : worker'[v] = IF v = w THEN r ELSE worker[v]
  BY DEF TypeInv, WorkersType
<1>3. \A v \in Workers : RestoresOwned(worker'[v])
  BY <1>2 DEF OwnInv
<1>4. \A v \in Workers : RestoresOwned(worker[v])'
  BY <1>3 DEF RestoresOwned, RowsOwned, Owned
<1>. QED
  BY <1>4 DEF OwnInv, Owned, RowsOwned

LEMMA SettleOwned ==
    ASSUME TypeInv, TypeInv', OwnInv, NEW w \in Workers, Settle(w),
           UNCHANGED <<accountVars, copy, file>>
    PROVE  OwnInv'
<1>0. PrefsAreOwn' /\ UNCHANGED <<accounts, lastId, saving, copy, file>>
  BY DEF OwnInv, PrefsAreOwn, accountVars
<1>1. RestoresOwned(worker[w]) /\ worker[w] \in Records
  BY DEF OwnInv, TypeInv, WorkersType
<1>2. ASSUME NEW form, NEW restores \in BOOLEAN, Begin(w, form, restores),
             form \in (IF restores THEN Files ELSE Forms),
             restores => RowsOwned(form.prefs)
      PROVE  OwnInv'
  <2>0. WorkersType
    BY DEF TypeInv
  <2>1. /\ worker'[w].form = form
        /\ worker'[w].pc = IF restores THEN "restore" ELSE "change"
        /\ \A v \in Workers \ {w} : worker'[v] = [worker[v] EXCEPT !.alone = FALSE]
    BY <1>2, <2>0, BeginType
  <2>2. RestoresOwned(worker'[w])
    BY <1>2, <2>1, FormsAreNotFiles DEF RestoresOwned
  <2>3. ASSUME NEW v \in Workers \ {w}
        PROVE  RestoresOwned(worker'[v])
    <3>1. worker'[v].pc = worker[v].pc /\ worker'[v].form = worker[v].form
          /\ worker'[v].left = worker[v].left
      BY <2>0, <2>1 DEF WorkersType, Records
    <3>. QED
      BY <3>1 DEF OwnInv, RestoresOwned
  <2>4. \A v \in Workers : RestoresOwned(worker[v])'
    BY <1>0, <2>2, <2>3 DEF RestoresOwned, RowsOwned, Owned
  <2>. QED
    BY <1>0, <2>4 DEF OwnInv, Owned, RowsOwned
<1>3. ASSUME NEW form \in Forms, PutConfig(w, form)
      PROVE  OwnInv'
  BY <1>2, <1>3 DEF PutConfig
<1>4. CASE RestoreBegin(w)
  BY <1>2, <1>4 DEF RestoreBegin, OwnInv, TypeInv
<1>5. ASSUME NEW r, worker' = [worker EXCEPT ![w] = r], r.form = worker[w].form,
             r.pc # "prefs", worker[w].pc # "idle"
      PROVE  OwnInv'
  <2>1. RestoresOwned(r)
    BY <1>1, <1>5 DEF RestoresOwned
  <2>. QED
    BY <1>0, <1>5, <2>1, MoveOwned
<1>6. CASE Change(w) \/ RestoreChange(w)
  <2> DEFINE r == [worker[w] EXCEPT !.pc = "snapshot"]
  <2>1. r.form = worker[w].form /\ r.pc = "snapshot" /\ worker[w].pc # "idle"
    BY <1>1, <1>6 DEF Records, Change, RestoreChange
  <2>2. worker' = [worker EXCEPT ![w] = r]
    BY <1>6, ChangeEffect, RestoreChangeEffect
  <2>. HIDE DEF r
  <2>. QED
    BY <1>5, <2>1, <2>2
<1>7. CASE Snapshot(w)
  <2> DEFINE r == [worker[w] EXCEPT !.pc = "commit",
                                    !.snapshot = [mem EXCEPT !.secret = EncryptValue(@)]]
  <2>1. r.form = worker[w].form /\ r.pc = "commit" /\ worker[w].pc # "idle"
    BY <1>1, <1>7 DEF Records, Snapshot
  <2>2. worker' = [worker EXCEPT ![w] = r]
    BY <1>7, SnapshotEffect
  <2>. HIDE DEF r
  <2>. QED
    BY <1>5, <2>1, <2>2
<1>8. CASE Commit(w)
  <2>1. PICK r \in Records :
          /\ worker' = [worker EXCEPT ![w] = r]
          /\ \/ r = Idle
             \/ /\ r.pc = "prefs" /\ r.form = worker[w].form
                /\ r.left = {i \in Ids : r.form.prefs[i] # None}
    BY <1>8, CommitEffect
  <2>2. worker[w].pc # "idle"
    BY <1>8 DEF Commit
  <2>3. RestoresOwned(r)
    BY <1>1, <2>1, <2>2, IdleOwned DEF RestoresOwned
  <2>. QED
    BY <1>0, <2>1, <2>3, MoveOwned
<1>9. CASE RestoreAnswer(w)
  BY <1>0, <1>9, IdleOwned, MoveOwned DEF RestoreAnswer
<1>. QED
  BY <1>3, <1>4, <1>6, <1>7, <1>8, <1>9, SettleCases

LEMMA PrefOwned ==
    ASSUME TypeInv, TypeInv', OwnInv, NEW w \in Workers, RestorePref(w),
           UNCHANGED <<accounts, lastId, saving, copy, file>>
    PROVE  OwnInv'
<1>1. PICK i \in worker[w].left : LET r == [worker[w] EXCEPT !.left = @ \ {i}] IN
         /\ i \in Ids /\ worker[w].form \in Files
         /\ worker' = [worker EXCEPT ![w] = r]
         /\ prefs' = IF accounts[i] = None THEN prefs
                     ELSE [prefs EXCEPT ![i] = worker[w].form.prefs[i]]
  BY PrefEffect
<1> DEFINE f == worker[w].form
           r == [worker[w] EXCEPT !.left = @ \ {i}]
<1>2. RowsOwned(f.prefs) /\ f.prefs[i] # None
  BY <1>1 DEF OwnInv, RestoresOwned, RestorePref
<1>3. accounts[i] \in {None, f.prefs[i]}
  BY <1>1, <1>2 DEF RowsOwned, Owned
<1>4. PrefsAreOwn'
  BY <1>1, <1>3 DEF OwnInv, PrefsAreOwn, TypeInv, Rows
<1>5. r.pc = worker[w].pc /\ r.form = f /\ r.left \subseteq worker[w].left
  BY DEF TypeInv, WorkersType, Records
<1>6. RestoresOwned(worker[w])
  BY DEF OwnInv
<1>7. RestoresOwned(r)
  BY <1>5, <1>6 DEF RestoresOwned
<1>8. worker' = [worker EXCEPT ![w] = r]
  BY <1>1
<1>. QED
  BY <1>4, <1>7, <1>8, MoveOwned

LEMMA AccountOwned ==
    ASSUME TypeInv, TypeInv', OwnInv, Account, UNCHANGED <<copy, file, worker>>
    PROVE  OwnInv'
<1> USE BackupConstants
<1>1. /\ AccountsKept /\ PrefsAreOwn'
      /\ \A i \in Ids : accounts'[i] # None => i <= lastId'
      /\ \A n \in Names : saving'[n] # None =>
            saving'[n] = saving[n] \/ Owned(saving[n], n)'
  <2>1. ASSUME NEW i \in Ids, DeleteAccount(i)
        PROVE  <1>1!:
    <3>1. /\ accounts' = [accounts EXCEPT ![i] = None]
          /\ prefs' = [prefs EXCEPT ![i] = None]
          /\ UNCHANGED <<lastId, saving>>
      BY <2>1 DEF DeleteAccount
    <3>2. /\ \A j \in Ids : accounts'[j] = IF j = i THEN None ELSE accounts[j]
          /\ \A j \in Ids : prefs'[j] = IF j = i THEN None ELSE prefs[j]
      BY <3>1 DEF TypeInv, Rows
    <3>3. AccountsKept
      BY <3>1, <3>2 DEF AccountsKept, TypeInv
    <3>4. PrefsAreOwn'
      BY <3>2 DEF PrefsAreOwn, OwnInv
    <3>5. \A j \in Ids : accounts'[j] # None => j <= lastId'
      BY <3>1, <3>2 DEF OwnInv
    <3>. QED
      BY <3>1, <3>3, <3>4, <3>5
  <2>2. ASSUME NEW n \in Names, CreateAccount(n)
        PROVE  <1>1!:
    <3>1. lastId' = lastId + 1 /\ lastId \in Nat /\ lastId' \in Ids
      BY <2>2 DEF CreateAccount, TypeInv, Ids
    <3>2. accounts' = [accounts EXCEPT ![lastId + 1] = n] /\ UNCHANGED <<prefs, saving>>
      BY <2>2, <3>1 DEF CreateAccount
    <3>3. accounts[lastId + 1] = None
      BY <3>1 DEF OwnInv
    <3>4. prefs[lastId + 1] = None
      BY <3>1, <3>3 DEF OwnInv, PrefsAreOwn
    <3>5. \A j \in Ids : accounts'[j] = IF j = lastId + 1 THEN n ELSE accounts[j]
      BY <3>1, <3>2 DEF TypeInv, Rows
    <3>6. AccountsKept
      BY <3>1, <3>5 DEF AccountsKept, Ids
    <3>7. PrefsAreOwn'
      BY <3>2, <3>3, <3>4, <3>5 DEF PrefsAreOwn, OwnInv
    <3>8. \A j \in Ids : accounts'[j] # None => j <= lastId'
      BY <3>1, <3>5 DEF OwnInv, Ids
    <3>. QED
      BY <3>2, <3>6, <3>7, <3>8
  <2>3. ASSUME NEW n \in Names, SaveLookup(n)
        PROVE  <1>1!:
    <3>1. PICK i \in Ids : accounts[i] = n /\ saving' = [saving EXCEPT ![n] = i]
      BY <2>3 DEF SaveLookup
    <3>2. UNCHANGED <<accounts, lastId, prefs>>
      BY <2>3 DEF SaveLookup
    <3>3. Owned(i, n)'
      BY <3>1, <3>2 DEF Owned, OwnInv
    <3>4. AccountsKept /\ PrefsAreOwn'
      BY <3>2 DEF AccountsKept, PrefsAreOwn, OwnInv, TypeInv
    <3>5. \A m \in Names : saving'[m] # None => saving'[m] = saving[m] \/ Owned(saving[m], m)'
      BY <3>1, <3>3 DEF TypeInv
    <3>. QED
      BY <3>2, <3>4, <3>5 DEF OwnInv
  <2>4. ASSUME NEW n \in Names, SaveStore(n)
        PROVE  <1>1!:
    <3>1. accounts[saving[n]] \in {None, n}
      BY <2>4 DEF SaveStore, OwnInv, Owned
    <3>2. /\ prefs' = IF accounts[saving[n]] = None THEN prefs
                      ELSE [prefs EXCEPT ![saving[n]] = n]
          /\ saving' = [saving EXCEPT ![n] = None]
          /\ UNCHANGED <<accounts, lastId>>
      BY <2>4 DEF SaveStore
    <3>3. PrefsAreOwn'
      BY <3>1, <3>2 DEF OwnInv, PrefsAreOwn, TypeInv, Rows
    <3>4. AccountsKept
      BY <3>2 DEF AccountsKept, TypeInv
    <3>5. \A m \in Names : saving'[m] # None => saving'[m] = saving[m]
      BY <3>2 DEF TypeInv
    <3>. QED
      BY <3>2, <3>3, <3>4, <3>5 DEF OwnInv
  <2>. QED
    BY <2>1, <2>2, <2>3, <2>4 DEF Account
<1>2. \A n \in Names : saving'[n] # None => Owned(saving[n], n)'
  <2>1. ASSUME NEW n \in Names, saving'[n] # None, saving'[n] = saving[n]
        PROVE  Owned(saving[n], n)'
    <3>1. saving[n] \in Ids /\ Owned(saving[n], n)
      BY <2>1 DEF TypeInv, OwnInv
    <3>. QED
      BY <1>1, <2>1, <3>1 DEF Owned, AccountsKept, TypeInv, Ids
  <2>2. ASSUME NEW n \in Names, saving'[n] # None
        PROVE  saving'[n] = saving[n] \/ Owned(saving[n], n)'
    BY <1>1, <2>2
  <2>. QED
    BY <2>1, <2>2
<1>3. /\ copy' # None => RowsOwned(copy)'
      /\ file' # None => RowsOwned(file.prefs)'
  BY <1>1, RowsOwnedKept DEF OwnInv
<1>4. \A w \in Workers : RestoresOwned(worker[w])'
  BY <1>1, OthersOwned DEF OwnInv
<1>. QED
  BY <1>1, <1>2, <1>3, <1>4 DEF OwnInv

LEMMA OwnStep ==
    ASSUME TypeInv, TypeInv', OwnInv, [BackupNext]_backupVars
    PROVE  OwnInv'
<1>1. CASE Start
  <2>1. \A w \in Workers : worker'[w] = Idle
    BY <1>1, StartEffect
  <2>2. \A w \in Workers : RestoresOwned(worker[w])'
    BY <2>1 DEF RestoresOwned, Idle
  <2>3. UNCHANGED <<accounts, lastId, prefs, file>> /\ copy' = None
        /\ saving' = [n \in Names |-> None]
    BY <1>1 DEF Start
  <2>. QED
    BY <2>2, <2>3 DEF OwnInv, PrefsAreOwn, RowsOwned, Owned
<1>2. ASSUME BackupPreferences \/ BackupSettings, UNCHANGED <<accountVars, worker>>
      PROVE  OwnInv'
  <2>1. \A w \in Workers : RestoresOwned(worker[w])'
    BY <1>2 DEF OwnInv, RestoresOwned, RowsOwned, Owned, accountVars
  <2>2. RowsOwned(NoPrefs) /\ RowsOwned(prefs)
    BY DEF OwnInv, PrefsAreOwn, RowsOwned, Owned, NoPrefs
  <2>3. /\ copy' # None => RowsOwned(copy')
        /\ file' # None => RowsOwned(file'.prefs)
    BY <1>2, <2>2 DEF BackupPreferences, BackupSettings, OwnInv
  <2>4. /\ copy' # None => RowsOwned(copy)'
        /\ file' # None => RowsOwned(file.prefs)'
    BY <1>2, <2>3 DEF RowsOwned, Owned, accountVars
  <2>. QED
    BY <1>2, <2>1, <2>4 DEF OwnInv, PrefsAreOwn, Owned, accountVars
<1>3. CASE UNCHANGED backupVars
  BY <1>3 DEF OwnInv, PrefsAreOwn, RestoresOwned, RowsOwned, Owned, backupVars, accountVars
<1>. QED
  BY <1>1, <1>2, <1>3, StepCases, SettleOwned, PrefOwned, AccountOwned

\* Whoever is deleted or made while preferences are saved, backed up or restored, a row
\* belongs to the user who saved it: an account's number is not given away again, and
\* the foreign key refuses one whose account has gone.
THEOREM PreferencesAreOwn == BackupSpec => []PrefsAreOwn
<1>1. OwnInv => PrefsAreOwn
  BY DEF OwnInv
<1>. QED
  BY <1>1, BackupTypes, OwnInit, OwnStep, PTL DEF BackupSpec

-----------------------------------------------------------------------------
(* Secrets.                                                                 *)

\* What is kept is what is meant, or one encryption of it with one of the keys; of the
\* bare prefix nothing is said.
Recoverable(s, ks) ==
    \/ s.meant = Bare
    \/ s.secret = s.meant
    \/ s.meant \in Plain /\ s.secret \in {[by |-> k, of |-> s.meant] : k \in ks}

Saves(r) == r.pc = "commit" => Recoverable(r.snapshot, KeysMet)

SecretInv ==
    /\ Recoverable(table, KeysMet)
    /\ Recoverable(mem, KeysMet \ {key})
    /\ \A w \in Workers : Saves(worker[w])

\* One encryption is enough: with the key it was made with the secret is what was meant.
LEMMA DecryptRecovers ==
    ASSUME NEW k, NEW s \in Settings, NEW t, NEW ks \in SUBSET Keys, Recoverable(s, ks),
           t.meant = s.meant, t.secret = DecryptValue(k, s.secret)
    PROVE  Recoverable(t, ks \ {k})
<1> USE SecretConstants
<1>1. CASE s.meant = Bare
  BY <1>1 DEF Recoverable
<1>2. CASE s.meant # Bare /\ s.secret = s.meant
  BY <1>2 DEF DecryptValue, Settings, Recoverable
<1>3. ASSUME s.meant \in Plain, NEW j \in ks, s.secret = [by |-> j, of |-> s.meant]
      PROVE  Recoverable(t, ks \ {k})
  <2>1. s.secret \in Sealed
    BY <1>3 DEF Sealed
  <2>2. s.secret \notin Plain \cup {NoSecret} /\ s.secret # Bare
    BY <2>1
  <2>3. s.secret.by = j /\ s.secret.of = s.meant
    BY <1>3
  <2>4. CASE j = k
    BY <2>2, <2>3, <2>4 DEF DecryptValue, Recoverable
  <2>5. CASE j # k
    BY <1>3, <2>2, <2>3, <2>5 DEF DecryptValue, Recoverable
  <2>. QED
    BY <2>4, <2>5
<1>. QED
  BY <1>1, <1>2, <1>3 DEF Recoverable

\* What is encrypted already is not encrypted again.
LEMMA EncryptRecovers ==
    ASSUME KeysType, NEW s \in Settings, NEW t, Recoverable(s, KeysMet \ {key}),
           t.meant = s.meant, t.secret = EncryptValue(s.secret)
    PROVE  Recoverable(t, KeysMet)
<1> USE SecretConstants
<1>1. CASE t.secret = s.secret
  BY <1>1 DEF Recoverable
<1>2. CASE key # NoKey /\ s.secret \in Plain /\ t.secret = [by |-> key, of |-> s.secret]
  <2>1. key \in KeysMet /\ KeysMet \subseteq Keys
    BY <1>2 DEF KeysType, KeysMet, Keys
  <2>2. s.meant = Bare \/ s.secret = s.meant
    <3>1. ASSUME NEW k \in KeysMet, s.meant \in Plain, s.secret = [by |-> k, of |-> s.meant]
          PROVE  FALSE
      BY <1>2, <2>1, <3>1 DEF Sealed
    <3>. QED
      BY <3>1 DEF Recoverable
  <2>. QED
    BY <1>2, <2>1, <2>2 DEF Recoverable
<1>. QED
  BY <1>1, <1>2 DEF EncryptValue, Encrypted

LEMMA MoveSaves ==
    ASSUME TypeInv, SecretInv, UNCHANGED made, NEW w \in Workers, NEW r, Saves(r),
           worker' = [worker EXCEPT ![w] = r]
    PROVE  \A v \in Workers : Saves(worker[v])'
<1>1. \A v \in Workers : worker'[v] = IF v = w THEN r ELSE worker[v]
  BY DEF TypeInv, WorkersType
<1>2. \A v \in Workers : Saves(worker'[v])
  BY <1>1 DEF SecretInv
<1>. QED
  BY <1>2 DEF Saves, Recoverable, KeysMet

LEMMA SecretInit == BackupInit => SecretInv
<1> SUFFICES ASSUME BackupInit PROVE SecretInv
  OBVIOUS
<1>1. mem.secret = mem.meant /\ table = mem
  BY DEF BackupInit
<1>2. \A w \in Workers : Saves(worker[w])
  BY DEF BackupInit, Idle, Saves
<1>. QED
  BY <1>1, <1>2 DEF SecretInv, Recoverable, KeysMet

LEMMA SettleSecret ==
    ASSUME TypeInv, SecretInv, NEW w \in Workers, Settle(w), UNCHANGED <<key, made>>
    PROVE  SecretInv'
<1>0. Saves(worker[w]) /\ worker[w] \in Records /\ WorkersType
  BY DEF SecretInv, TypeInv, WorkersType
<1>1. ASSUME NEW form, NEW restores \in BOOLEAN, Begin(w, form, restores),
             form \in (IF restores THEN Files ELSE Forms), UNCHANGED <<mem, table>>
      PROVE  SecretInv'
  <2>1. /\ worker'[w].pc = IF restores THEN "restore" ELSE "change"
        /\ \A v \in Workers \ {w} : worker'[v] = [worker[v] EXCEPT !.alone = FALSE]
    BY <1>0, <1>1, BeginType
  <2>2. ASSUME NEW v \in Workers \ {w}
        PROVE  Saves(worker'[v])
    <3>1. worker'[v].pc = worker[v].pc /\ worker'[v].snapshot = worker[v].snapshot
      BY <1>0, <2>1 DEF WorkersType, Records
    <3>. QED
      BY <3>1 DEF SecretInv, Saves
  <2>3. Saves(worker'[w])
    BY <2>1 DEF Saves
  <2>4. \A v \in Workers : Saves(worker[v])'
    BY <2>2, <2>3 DEF Saves, Recoverable, KeysMet
  <2>. QED
    BY <1>1, <2>4 DEF SecretInv, Recoverable, KeysMet
<1>2. ASSUME NEW form \in Forms, PutConfig(w, form)
      PROVE  SecretInv'
  BY <1>1, <1>2 DEF PutConfig
<1>3. CASE RestoreBegin(w)
  BY <1>1, <1>3 DEF RestoreBegin, TypeInv
<1>4. CASE Change(w)
  <2> DEFINE r == [worker[w] EXCEPT !.pc = "snapshot"]
  <2>1. r.pc = "snapshot" /\ worker' = [worker EXCEPT ![w] = r] /\ worker[w].form \in Forms
    BY <1>0, <1>4, ChangeEffect DEF Records
  <2>2. \A v \in Workers : Saves(worker[v])'
    BY <2>1, MoveSaves DEF Saves
  <2>3. (mem'.secret = mem.secret /\ mem'.meant = mem.meant) \/ mem'.secret = mem'.meant
    BY <1>4 DEF Change, TypeInv, Settings
  <2>4. Recoverable(mem', KeysMet \ {key})
    BY <2>3 DEF SecretInv, Recoverable, KeysMet
  <2>. QED
    BY <1>4, <2>2, <2>4 DEF SecretInv, Change, Recoverable, KeysMet
<1>5. CASE RestoreChange(w)
  <2> DEFINE r == [worker[w] EXCEPT !.pc = "snapshot"]
  <2>1. r.pc = "snapshot" /\ worker' = [worker EXCEPT ![w] = r]
    BY <1>0, <1>5, RestoreChangeEffect DEF Records
  <2>2. \A v \in Workers : Saves(worker[v])'
    BY <2>1, MoveSaves DEF Saves
  <2>3. mem'.secret = mem.secret /\ mem'.meant = mem.meant
    BY <1>5 DEF RestoreChange, TypeInv, Settings
  <2>4. Recoverable(mem', KeysMet \ {key})
    BY <2>3 DEF SecretInv, Recoverable, KeysMet
  <2>. QED
    BY <1>5, <2>2, <2>4 DEF SecretInv, RestoreChange, Recoverable, KeysMet
<1>6. CASE Snapshot(w)
  <2> DEFINE s == [mem EXCEPT !.secret = EncryptValue(@)]
             r == [worker[w] EXCEPT !.pc = "commit", !.snapshot = s]
  <2>1. r.snapshot = s /\ worker' = [worker EXCEPT ![w] = r]
    BY <1>0, <1>6, SnapshotEffect DEF Records
  <2>2. s.meant = mem.meant /\ s.secret = EncryptValue(mem.secret)
    BY DEF TypeInv, Settings
  <2>3. mem \in Settings /\ KeysType /\ Recoverable(mem, KeysMet \ {key})
    BY DEF TypeInv, SecretInv
  <2>. HIDE DEF s
  <2>4. Recoverable(s, KeysMet)
    BY <2>2, <2>3, EncryptRecovers
  <2>5. Saves(r)
    BY <2>1, <2>4 DEF Saves
  <2>6. \A v \in Workers : Saves(worker[v])'
    BY <2>1, <2>5, MoveSaves
  <2>. QED
    BY <1>6, <2>6 DEF SecretInv, Snapshot, Recoverable, KeysMet
<1>7. CASE Commit(w)
  <2>1. PICK ok \in BOOLEAN, r \in Records :
          /\ worker' = [worker EXCEPT ![w] = r]
          /\ table' = (IF ok THEN worker[w].snapshot ELSE table)
          /\ r = Idle \/ r.pc = "prefs"
    BY <1>7, CommitEffect
  <2>2. Saves(r)
    BY <2>1 DEF Saves, Idle
  <2>3. Recoverable(table', KeysMet)
    BY <1>0, <1>7, <2>1 DEF Commit, Saves, SecretInv
  <2>4. \A v \in Workers : Saves(worker[v])'
    BY <2>1, <2>2, MoveSaves
  <2>. QED
    BY <1>7, <2>3, <2>4 DEF SecretInv, Commit, Recoverable, KeysMet
<1>8. CASE RestoreAnswer(w)
  <2>1. Saves(Idle)
    BY DEF Saves, Idle
  <2>2. \A v \in Workers : Saves(worker[v])'
    BY <1>8, <2>1, MoveSaves DEF RestoreAnswer
  <2>. QED
    BY <1>8, <2>2 DEF SecretInv, RestoreAnswer, Recoverable, KeysMet
<1>. QED
  BY <1>2, <1>3, <1>4, <1>5, <1>6, <1>7, <1>8, SettleCases

LEMMA SecretStep ==
    ASSUME TypeInv, SecretInv, [BackupNext]_backupVars
    PROVE  SecretInv'
<1>1. CASE Start
  <2>1. /\ \A w \in Workers : worker'[w] = Idle
        /\ mem'.meant = table.meant /\ mem'.secret = DecryptValue(key', table.secret)
    BY <1>1, StartEffect
  <2>2. KeysMet \in SUBSET Keys /\ KeysMet \subseteq KeysMet'
    <3>1. made \subseteq MadeKeys /\ made \subseteq made'
      BY <1>1 DEF TypeInv, KeysType, Start, InitEncryptionKey
    <3>. QED
      BY <3>1 DEF KeysMet, Keys
  <2>4. Recoverable(mem', KeysMet \ {key'}) /\ Recoverable(table, KeysMet)
    BY <2>1, <2>2, DecryptRecovers DEF TypeInv, SecretInv
  <2>5. Recoverable(mem', KeysMet' \ {key'}) /\ Recoverable(table, KeysMet')
    BY <2>2, <2>4 DEF Recoverable, KeysMet
  <2>3. \A w \in Workers : Saves(worker[w])'
    BY <2>1 DEF Saves, Idle
  <2>. QED
    BY <1>1, <2>3, <2>5 DEF SecretInv, Start, Recoverable, KeysMet
<1>2. ASSUME NEW w \in Workers, Settle(w), UNCHANGED keyVars
      PROVE  SecretInv'
  BY <1>2, SettleSecret DEF keyVars
<1>3. ASSUME NEW w \in Workers, RestorePref(w), UNCHANGED keyVars
      PROVE  SecretInv'
  <2>1. PICK i \in worker[w].left :
          worker' = [worker EXCEPT ![w] = [worker[w] EXCEPT !.left = @ \ {i}]]
    BY <1>3, PrefEffect
  <2>2. Saves([worker[w] EXCEPT !.left = @ \ {i}])
    BY <1>3 DEF RestorePref, Saves, TypeInv, WorkersType, Records
  <2>3. \A v \in Workers : Saves(worker[v])'
    BY <1>3, <2>1, <2>2, MoveSaves DEF keyVars
  <2>. QED
    BY <1>3, <2>3 DEF SecretInv, RestorePref, Recoverable, KeysMet, keyVars
<1>4. CASE UNCHANGED <<keyVars, mem, table, worker>>
  BY <1>4 DEF SecretInv, Saves, Recoverable, KeysMet, keyVars
<1>. QED
  BY <1>1, <1>2, <1>3, <1>4, StepCases DEF backupVars

\* However often saved and read again, with whichever keys, a secret is kept as it was meant
\* or encrypted once with a key that a start has had: except the one that is nothing but the
\* prefix.
THEOREM SecretsComeBack == BackupSpec => []SecretComesBack
<1>1. SecretInv => SecretComesBack
  BY DEF SecretInv, SecretComesBack, IsOnce, Recoverable, KeysMet
<1>. QED
  BY <1>1, BackupTypes, SecretInit, SecretStep, PTL DEF BackupSpec

-----------------------------------------------------------------------------
(* What a restoration has reported.                                         *)

\* What a request that nothing overlaps may rely on at each of its steps.
Undisturbed(w) ==
    worker[w].alone =>
        /\ \A u \in Workers \ {w} : worker[u].pc = "idle"
        /\ worker[w].pc \in {"snapshot", "commit", "prefs"} =>
              mem.methods = worker[w].form.methods
        /\ worker[w].pc = "commit" => worker[w].snapshot.methods = worker[w].form.methods
        /\ worker[w].pc = "prefs" /\ worker[w].saved => table.methods = worker[w].form.methods

Promised ==
    promised # None =>
        /\ \A w \in Workers : worker[w].pc = "idle"
        /\ mem.methods = promised /\ table.methods = promised

KeptInv == Promised /\ \A w \in Workers : Undisturbed(w)

LEMMA KeptInit == BackupInit => KeptInv
BY DEF BackupInit, Idle, KeptInv, Promised, Undisturbed

\* One goroutine goes on: if it is alone nobody else has anything to rely on, and if
\* another one is, that one would have found it idle.
LEMMA MoveKept ==
    ASSUME TypeInv, KeptInv, NEW w \in Workers, NEW r,
           worker' = [worker EXCEPT ![w] = r], worker[w].pc # "idle",
           r.alone => worker[w].alone, Undisturbed(w)', UNCHANGED promised
    PROVE  KeptInv'
<1>1. \A v \in Workers : worker'[v] = IF v = w THEN r ELSE worker[v]
  BY DEF TypeInv, WorkersType
<1>2. promised = None
  BY DEF KeptInv, Promised
<1>3. \A v \in Workers \ {w} : ~worker[v].alone
  BY DEF KeptInv, Undisturbed
<1>4. \A v \in Workers : Undisturbed(v)'
  BY <1>1, <1>3 DEF Undisturbed
<1>. QED
  BY <1>2, <1>4 DEF KeptInv, Promised

LEMMA SettleKept ==
    ASSUME TypeInv, KeptInv, NEW w \in Workers, Settle(w)
    PROVE  KeptInv'
<1>0. /\ Undisturbed(w) /\ worker[w] \in Records /\ WorkersType
      /\ mem \in Settings
  BY DEF KeptInv, TypeInv, WorkersType
<1>1. ASSUME NEW form, NEW restores \in BOOLEAN, Begin(w, form, restores),
             form \in (IF restores THEN Files ELSE Forms), promised' = None
      PROVE  KeptInv'
  <2>1. /\ worker'[w].pc = IF restores THEN "restore" ELSE "change"
        /\ worker'[w].alone => \A u \in Workers : worker[u].pc = "idle"
        /\ \A v \in Workers \ {w} : worker'[v] = [worker[v] EXCEPT !.alone = FALSE]
    BY <1>0, <1>1, BeginType
  <2>2. \A v \in Workers \ {w} : worker'[v].pc = worker[v].pc /\ ~worker'[v].alone
    <3> SUFFICES ASSUME NEW v \in Workers \ {w}
                 PROVE  worker'[v].pc = worker[v].pc /\ ~worker'[v].alone
      OBVIOUS
    <3>1. worker[v] \in Records /\ worker'[v] = [worker[v] EXCEPT !.alone = FALSE]
      BY <1>0, <2>1 DEF WorkersType
    <3>2. worker'[v].pc = worker[v].pc
      BY <3>1 DEF Records
    <3>3. worker'[v].alone = FALSE
      BY <3>1 DEF Records
    <3>. QED
      BY <3>2, <3>3
  <2>3. \A v \in Workers \ {w} : Undisturbed(v)'
    BY <2>2 DEF Undisturbed
  <2>4. Undisturbed(w)'
    BY <2>1, <2>2 DEF Undisturbed
  <2>. QED
    BY <1>1, <2>3, <2>4 DEF KeptInv, Promised
<1>2. ASSUME NEW form \in Forms, PutConfig(w, form)
      PROVE  KeptInv'
  BY <1>1, <1>2 DEF PutConfig
<1>3. CASE RestoreBegin(w)
  BY <1>1, <1>3 DEF RestoreBegin, TypeInv
<1>4. CASE Change(w) \/ RestoreChange(w)
  <2> DEFINE r == [worker[w] EXCEPT !.pc = "snapshot"]
  <2>1. /\ r.pc = "snapshot" /\ r.form = worker[w].form /\ r.alone = worker[w].alone
        /\ worker' = [worker EXCEPT ![w] = r]
    BY <1>0, <1>4, ChangeEffect, RestoreChangeEffect DEF Records
  <2>2. mem'.methods = worker[w].form.methods
    BY <1>0, <1>4 DEF Change, RestoreChange, Settings
  <2>3. worker[w].pc # "idle" /\ UNCHANGED promised
    BY <1>4 DEF Change, RestoreChange
  <2>. HIDE DEF r
  <2>4. worker'[w] = r /\ \A u \in Workers \ {w} : worker'[u] = worker[u]
    BY <1>0, <2>1 DEF WorkersType
  <2>5. Undisturbed(w)'
    BY <1>0, <2>1, <2>2, <2>4 DEF Undisturbed
  <2>. QED
    BY <2>1, <2>3, <2>5, MoveKept
<1>5. CASE Snapshot(w)
  <2> DEFINE s == [mem EXCEPT !.secret = EncryptValue(@)]
             r == [worker[w] EXCEPT !.pc = "commit", !.snapshot = s]
  <2>1. s.methods = mem.methods
    BY <1>0 DEF Settings
  <2>2. worker' = [worker EXCEPT ![w] = r]
    BY <1>5, SnapshotEffect
  <2>. HIDE DEF s
  <2>3. r.pc = "commit" /\ r.form = worker[w].form /\ r.alone = worker[w].alone
        /\ r.snapshot = s
    BY <1>0 DEF Records
  <2>. HIDE DEF r
  <2>4. worker'[w] = r /\ \A u \in Workers \ {w} : worker'[u] = worker[u]
    BY <1>0, <2>2 DEF WorkersType
  <2>5. worker[w].pc = "snapshot" /\ UNCHANGED <<promised, mem, table>>
    BY <1>5 DEF Snapshot
  <2>6. Undisturbed(w)'
    BY <1>0, <2>1, <2>3, <2>4, <2>5 DEF Undisturbed
  <2>. QED
    BY <2>2, <2>3, <2>5, <2>6, MoveKept
<1>6. CASE Commit(w)
  <2>1. PICK ok \in BOOLEAN, r \in Records :
          /\ worker' = [worker EXCEPT ![w] = r]
          /\ table' = (IF ok THEN worker[w].snapshot ELSE table)
          /\ \/ r = Idle
             \/ /\ r.pc = "prefs" /\ r.form = worker[w].form /\ r.alone = worker[w].alone
                /\ r.saved = ok
    BY <1>6, CommitEffect
  <2>2. worker[w].pc = "commit" /\ UNCHANGED <<promised, mem>>
    BY <1>6 DEF Commit
  <2>3. worker'[w] = r /\ \A u \in Workers \ {w} : worker'[u] = worker[u]
    BY <1>0, <2>1 DEF WorkersType
  <2>4. CASE r = Idle
    <3>1. ~r.alone
      BY <2>4 DEF Idle
    <3>2. Undisturbed(w)'
      BY <2>3, <3>1 DEF Undisturbed
    <3>. QED
      BY <2>1, <2>2, <3>1, <3>2, MoveKept
  <2>5. CASE r.pc = "prefs" /\ r.form = worker[w].form /\ r.alone = worker[w].alone
             /\ r.saved = ok
    <3>1. r.alone /\ r.saved => table' = worker[w].snapshot
      BY <2>1, <2>5
    <3>2. Undisturbed(w)'
      BY <1>0, <2>2, <2>3, <2>5, <3>1 DEF Undisturbed
    <3>. QED
      BY <2>1, <2>2, <2>5, <3>2, MoveKept
  <2>. QED
    BY <2>1, <2>4, <2>5
<1>7. CASE RestoreAnswer(w)
  <2>1. /\ worker[w].pc = "prefs" /\ UNCHANGED <<mem, table>>
        /\ promised' = IF worker[w].saved /\ worker[w].alone
                       THEN worker[w].form.methods ELSE None
        /\ worker' = [worker EXCEPT ![w] = Idle]
    BY <1>7 DEF RestoreAnswer
  <2>2. worker'[w] = Idle /\ \A u \in Workers \ {w} : worker'[u] = worker[u]
    BY <1>0, <2>1 DEF WorkersType
  <2>3. Promised'
    BY <1>0, <2>1, <2>2 DEF Promised, Undisturbed, Idle
  <2>4. \A v \in Workers \ {w} : ~worker[v].alone
    BY <2>1 DEF KeptInv, Undisturbed
  <2>5. \A v \in Workers : Undisturbed(v)'
    BY <2>2, <2>4 DEF Undisturbed, Idle
  <2>. QED
    BY <2>3, <2>5 DEF KeptInv
<1>. QED
  BY <1>2, <1>3, <1>4, <1>5, <1>6, <1>7, SettleCases

LEMMA KeptStep ==
    ASSUME TypeInv, KeptInv, [BackupNext]_backupVars
    PROVE  KeptInv'
<1>1. CASE Start
  <2>1. /\ \A w \in Workers : worker'[w] = Idle
        /\ mem'.methods = table.methods /\ UNCHANGED <<table, promised>>
    BY <1>1, StartEffect DEF Start
  <2>. QED
    BY <2>1 DEF KeptInv, Promised, Undisturbed, Idle
<1>2. ASSUME NEW w \in Workers, RestorePref(w)
      PROVE  KeptInv'
  <2>1. PICK i \in worker[w].left :
          worker' = [worker EXCEPT ![w] = [worker[w] EXCEPT !.left = @ \ {i}]]
    BY <1>2, PrefEffect
  <2> DEFINE r == [worker[w] EXCEPT !.left = @ \ {i}]
  <2>2. r.pc = worker[w].pc /\ r.form = worker[w].form /\ r.saved = worker[w].saved
        /\ r.alone = worker[w].alone /\ r.snapshot = worker[w].snapshot
    BY DEF TypeInv, WorkersType, Records
  <2>3. worker' = [worker EXCEPT ![w] = r]
    BY <2>1
  <2>. HIDE DEF r
  <2>4. worker'[w] = r /\ \A u \in Workers \ {w} : worker'[u] = worker[u]
    BY <2>3 DEF TypeInv, WorkersType
  <2>5. worker[w].pc = "prefs" /\ UNCHANGED <<mem, table, promised>>
    BY <1>2 DEF RestorePref
  <2>6. Undisturbed(w)'
    BY <2>2, <2>4, <2>5 DEF KeptInv, Undisturbed
  <2>. QED
    BY <2>2, <2>3, <2>5, <2>6, MoveKept
<1>3. CASE UNCHANGED <<mem, table, worker, promised>>
  BY <1>3 DEF KeptInv, Promised, Undisturbed
<1>. QED
  BY <1>1, <1>2, <1>3, SettleKept, StepCases DEF backupVars

\* A restoration that reports success, and that no other request overlapped, has put the
\* same methods into memory and into the table, and neither a restart nor an account or a
\* backup changes them.
THEOREM RestorationIsKept == BackupSpec => []RestoreIsKept
<1>1. KeptInv => RestoreIsKept
  BY DEF KeptInv, Promised, RestoreIsKept
<1>. QED
  BY <1>1, BackupTypes, KeptInit, KeptStep, PTL DEF BackupSpec
=============================================================================
