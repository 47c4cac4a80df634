------------------------- MODULE SystemConfigStore -------------------------
(***************************************************************************)
(* The system configuration of DashGate: SystemConfig in memory, its copy  *)
(* in the table system_config, and what is derived from it at run time     *)
(* (the authentication mode, the trusted networks, the OIDC provider).     *)
(*                                                                         *)
(* A request changes memory under SysConfigMu, gives the mutex up, takes a *)
(* snapshot under it, writes the snapshot in one transaction, and then     *)
(* applies whatever memory holds by then.  Fetching the OIDC provider is a *)
(* network call made with the mutex released; its result is stored later.  *)
(* Each of these critical sections is one action.                          *)
(*                                                                         *)
(* Settings are reduced to those the properties tell apart: the flags that *)
(* decide the mode, one list (trusted proxies), the OIDC issuer (Off when  *)
(* OIDC is not enabled) with its groups claim, the administrators' group,  *)
(* one discovery flag, and SetupCompleted.  LDAP is applied as the mode is.*)
(*                                                                         *)
(* mishaps is no state of the program: it remembers what went wrong since  *)
(* the process started, for the promises that are made for calm days only. *)
(***************************************************************************)
CONSTANTS
    Workers,      \* goroutines that serve administration requests
    Issuers,      \* OIDC issuers
    Off,          \* no issuer: OIDC is not enabled
    Names,        \* usernames
    Groups,       \* group names; DefaultGroup among them
    DefaultGroup, \* "admin"
    Claims,       \* groups claims; DefaultClaim among them
    DefaultClaim, \* "groups"
    Blank,        \* an empty form field
    Forms,        \* what an administrator may submit
    NoConfig,     \* table system_config is empty
    Nothing,      \* a goroutine holds nothing
    SaveFails,    \* statements of the database may fail
    Losses,       \* bound: the settings a start whose load fails may go without
    FetchFails,   \* the issuer may not answer
    Restarts      \* the process may stop at any point and start again

FormType == [proxy : BOOLEAN, local : BOOLEAN, trusted : {"none", "listed"},
             issuer : Issuers \cup {Off}, claim : Claims \cup {Blank},
             group : Groups \cup {Blank}]

ASSUME ConfigConstants ==
    /\ Off \notin Issuers /\ Blank \notin Claims \cup Groups
    /\ DefaultGroup \in Groups /\ DefaultClaim \in Claims
    /\ Forms \subseteq FormType
    /\ {SaveFails, FetchFails, Restarts} \subseteq BOOLEAN

Settings == [proxy : BOOLEAN, local : BOOLEAN, trusted : {"none", "listed", "private"},
             issuer : Issuers \cup {Off}, claim : Claims \cup {Blank},
             group : Groups \cup {Blank}, docker : BOOLEAN, setup : BOOLEAN]

ASSUME ConfigMarkers == NoConfig \notin Settings

Accounts == [name : Names, group : Groups \cup {Blank}]

VARIABLES
    mem,       \* app.SystemConfig
    table,     \* table system_config
    runtime,   \* AuthConfig.Mode, TrustedProxyNets, OIDCProvider
    accounts,  \* table users: the name and the group of each row
    pc,        \* the next critical section of each worker
    held,      \* what its goroutine carries there: form, snapshot or provider
    mishaps    \* "overlap": two requests at once; "save", "fetch", "count", "load": one
               \* failed; "mixed": a load has failed, in this process or an earlier one

stores == <<mem, table, runtime, accounts>>
vars == <<mem, table, runtime, accounts, pc, held, mishaps>>

Mishaps == {"overlap", "save", "fetch", "count", "load", "mixed"}

Modes == {"local", "hybrid", "authelia"}
Runtime == [mode : Modes, trusted : {"none", "listed", "private"},
            provider : Issuers \cup {Off}]

Goto(w, label, what) ==
    /\ pc' = [pc EXCEPT ![w] = label]
    /\ held' = [held EXCEPT ![w] = what]

Answer(w) == Goto(w, "idle", Nothing)

Overlapping == IF \A v \in Workers : pc[v] = "idle" THEN {} ELSE {"overlap"}

\* A request arrives; failed: what its first look at the tables has failed at.
Begin(w, label, what, failed) ==
    /\ pc[w] = "idle"
    /\ Goto(w, label, what)
    /\ mishaps' = mishaps \cup failed \cup Overlapping

\* Memory before anything was ever saved.
Defaults == [proxy |-> FALSE, local |-> FALSE, trusted |-> "none", issuer |-> Off,
             claim |-> Blank, group |-> Blank, docker |-> FALSE, setup |-> FALSE]

ModeOf(s) == IF s.local THEN IF s.proxy THEN "hybrid" ELSE "local" ELSE "authelia"

\* ApplySystemConfig, the part under the mutex: a provider goes at once when OIDC is
\* off, and stays until the next one is there when it is on.
Applied(r, s) == [mode |-> ModeOf(s), trusted |-> s.trusted,
                  provider |-> IF s.issuer = Off THEN Off ELSE r.provider]

\* A process that has not started yet has no provider.
Stopped == [mode |-> "authelia", trusted |-> "none", provider |-> Off]

\* InitOIDCProvider writes the claim it used back into memory.
ClaimUsed(c) == IF c = Blank THEN DefaultClaim ELSE c

\* Mutant: the handler forgets one field of the form.
SubmittedKeepsIssuer(s, f) ==
    [s EXCEPT !.proxy = f.proxy, !.local = f.local, !.trusted = f.trusted,
              !.claim = f.claim, !.setup = TRUE,
              !.group = IF f.group = Blank THEN s.group ELSE f.group]

\* A form replaces every field it has; a blank group keeps the one there was.
Submitted(s, f) ==
    [s EXCEPT !.proxy = f.proxy, !.local = f.local, !.trusted = f.trusted,
              !.issuer = f.issuer, !.claim = f.claim, !.setup = TRUE,
              !.group = IF f.group = Blank THEN s.group ELSE f.group]

-----------------------------------------------------------------------------
(* Starting.                                                                *)

WhollyLoaded(t) == IF t = NoConfig THEN Defaults ELSE t

\* LoadSystemConfig takes row after row, in no particular order: when it fails, which is
\* only logged, the settings whose rows did not come keep their defaults.
Loads(t) ==
    {WhollyLoaded(t)}
    \cup {[x \in DOMAIN Defaults |-> IF x \in lost THEN Defaults[x] ELSE WhollyLoaded(t)[x]] :
             lost \in Losses}

\* Apply what was loaded; a proxy without trusted networks is given the private ones,
\* which is saved and applied in turn.  Nothing is served before this is over.
Boot(t, loaded, fetch1, fetch2, saves) ==
    LET online   == fetch1 /\ loaded.issuer # Off
        first    == IF online THEN [loaded EXCEPT !.claim = ClaimUsed(@)] ELSE loaded
        r1       == [Applied(Stopped, loaded) EXCEPT
                        !.provider = IF online THEN loaded.issuer ELSE Off]
        migrates == first.setup /\ first.proxy /\ first.trusted = "none"
        second   == IF migrates THEN [first EXCEPT !.trusted = "private"] ELSE first
        online2  == migrates /\ saves /\ fetch2 /\ second.issuer # Off
    IN  /\ mem' = IF online2 THEN [second EXCEPT !.claim = ClaimUsed(@)] ELSE second
        /\ table' = IF migrates /\ saves THEN second ELSE t
        /\ runtime' = IF migrates /\ saves
                      THEN [Applied(r1, second) EXCEPT
                              !.provider = IF online2 THEN second.issuer ELSE @]
                      ELSE r1
        /\ mishaps' = {m \in {"save", "fetch"} :
                         \/ m = "save" /\ migrates /\ ~saves
                         \/ m = "fetch" /\ loaded.issuer # Off /\ ~(fetch1 /\ fetch2)}
                    \cup IF loaded = WhollyLoaded(t) THEN mishaps \cap {"mixed"}
                         ELSE {"load", "mixed"}

\* The process stops and starts again: every request is gone, the table stays.
Restart ==
    /\ Restarts
    /\ \E loaded \in Loads(table), fetch1, fetch2, saves \in BOOLEAN :
          /\ ~FetchFails => fetch1 /\ fetch2
          /\ ~SaveFails => saves
          /\ Boot(table, loaded, fetch1, fetch2, saves)
    /\ pc' = [w \in Workers |-> "idle"]
    /\ held' = [w \in Workers |-> Nothing]
    /\ UNCHANGED accounts

\* A system that was set up and has just started: everything agrees.
Configured(f) == [Submitted(Defaults, f) EXCEPT
                    !.claim = IF f.issuer = Off THEN @ ELSE ClaimUsed(@)]

Init ==
    /\ \E f \in Forms :
          /\ f.proxy => f.trusted # "none"
          /\ mem = Configured(f)
    /\ table = mem
    /\ runtime = [mode |-> ModeOf(mem), trusted |-> mem.trusted, provider |-> mem.issuer]
    /\ accounts \in {{}} \cup {{a} : a \in [name : Names, group : {DefaultGroup}]}
    /\ pc = [w \in Workers |-> "idle"]
    /\ held = [w \in Workers |-> Nothing]
    /\ mishaps = {}

-----------------------------------------------------------------------------
(* Changing settings.                                                       *)

\* An administrator can be let in once there was a setup: by a session, the headers of a
\* proxy, or a key, which needs none of the settings a start may have failed to load.
Served == mem.setup \/ table # NoConfig

\* PUT /api/admin/system-config: local authentication cannot be switched on while
\* nobody has a local account; when they cannot be counted it can.
PutConfig(w, f) ==
    LET refused == f.local /\ ~mem.local /\ accounts = {}
    IN  /\ Served
        /\ refused => SaveFails
        /\ Begin(w, "change", f, IF refused THEN {"count"} ELSE {})
        /\ UNCHANGED stores

ChangeConfig(w) ==
    /\ pc[w] = "change"
    /\ mem' = Submitted(mem, held[w])
    /\ Goto(w, "snapshot", Nothing)
    /\ UNCHANGED <<table, runtime, accounts, mishaps>>

\* Mutant: the source is switched in memory only.
PutDiscoveryUnsaved(w, enabled) ==
    /\ pc[w] = "idle"
    /\ Served
    /\ mem' = [mem EXCEPT !.docker = enabled]
    /\ UNCHANGED <<table, runtime, accounts, pc, held, mishaps>>

\* PUT on a discovery source: one flag, and the whole configuration is saved.
PutDiscovery(w, enabled) ==
    /\ Served
    /\ mem' = [mem EXCEPT !.docker = enabled]
    /\ Begin(w, "snapshot", Nothing, {})
    /\ UNCHANGED <<table, runtime, accounts>>

-----------------------------------------------------------------------------
(* SaveSystemConfig.                                                        *)

\* All fields at once, under the read lock; encrypting the secrets is Secrets' matter.
Snapshot(w) ==
    /\ pc[w] = "snapshot"
    /\ Goto(w, "commit", mem)
    /\ UNCHANGED <<stores, mishaps>>

\* One transaction; when it fails the handler answers 500 and applies nothing.
Commit(w) ==
    /\ pc[w] = "commit"
    /\ \/ /\ table' = held[w]
          /\ Goto(w, "apply", Nothing)
          /\ UNCHANGED mishaps
       \/ /\ SaveFails
          /\ Answer(w)
          /\ mishaps' = mishaps \cup {"save"}
          /\ UNCHANGED table
    /\ UNCHANGED <<mem, runtime, accounts>>

\* Mutant: OIDC that was switched off keeps its provider.
ApplyKeepsProvider(w) ==
    /\ pc[w] = "apply"
    /\ runtime' = [Applied(runtime, mem) EXCEPT !.provider = runtime.provider]
    /\ IF mem.issuer = Off
       THEN Answer(w)
       ELSE Goto(w, "fetch", [issuer |-> mem.issuer, claim |-> mem.claim])
    /\ UNCHANGED <<mem, table, accounts, mishaps>>

\* Mutant: what was saved is applied, not what memory holds by now.
ApplySnapshot(w) ==
    /\ pc[w] = "apply"
    /\ runtime' = Applied(runtime, table)
    /\ IF table.issuer = Off
       THEN Answer(w)
       ELSE Goto(w, "fetch", [issuer |-> table.issuer, claim |-> table.claim])
    /\ UNCHANGED <<mem, table, accounts, mishaps>>

\* ApplySystemConfig: under the mutex, up to the network call.
Apply(w) ==
    /\ pc[w] = "apply"
    /\ runtime' = Applied(runtime, mem)
    /\ IF mem.issuer = Off
       THEN Answer(w)
       ELSE Goto(w, "fetch", [issuer |-> mem.issuer, claim |-> mem.claim])
    /\ UNCHANGED <<mem, table, accounts, mishaps>>

\* Mutant: the write of the claim goes to a default even when one was configured.
StoreProviderDefault(w) ==
    /\ pc[w] = "fetch"
    /\ runtime' = [runtime EXCEPT !.provider = held[w].issuer]
    /\ mem' = [mem EXCEPT !.claim = DefaultClaim]
    /\ Answer(w)
    /\ UNCHANGED <<table, accounts, mishaps>>

\* InitOIDCProvider: the issuer answered, or it did not and all stays as it was.
StoreProvider(w) ==
    /\ pc[w] = "fetch"
    /\ \/ /\ runtime' = [runtime EXCEPT !.provider = held[w].issuer]
          /\ mem' = [mem EXCEPT !.claim = ClaimUsed(held[w].claim)]
          /\ UNCHANGED mishaps
       \/ /\ FetchFails
          /\ mishaps' = mishaps \cup {"fetch"}
          /\ UNCHANGED <<mem, runtime>>
    /\ Answer(w)
    /\ UNCHANGED <<table, accounts>>

-----------------------------------------------------------------------------
Save(w) == Snapshot(w) \/ Commit(w) \/ Apply(w) \/ StoreProvider(w)

Request(w) ==
    \/ \E f \in Forms : PutConfig(w, f)
    \/ \E enabled \in BOOLEAN : PutDiscovery(w, enabled)

Next ==
    \/ \E w \in Workers : Request(w) \/ ChangeConfig(w) \/ Save(w)
    \/ Restart

Spec == Init /\ [][Next]_vars

-----------------------------------------------------------------------------
(* Properties.                                                              *)

Providers == [issuer : Issuers, claim : Claims \cup {Blank}]

StorePcs == {"change", "snapshot", "commit", "apply", "fetch"}

TypeOK ==
    /\ mem \in Settings
    /\ table \in Settings \cup {NoConfig}
    /\ runtime \in Runtime
    /\ accounts \subseteq Accounts
    /\ mishaps \subseteq Mishaps
    /\ pc \in [Workers -> {"idle"} \cup StorePcs]
    /\ \A w \in Workers :
          /\ pc[w] = "change" => held[w] \in Forms
          /\ pc[w] = "commit" => held[w] \in Settings
          /\ pc[w] = "fetch" => held[w] \in Providers

\* What one administrator submitted is saved whole: neither two concurrent saves,
\* nor a failed one, nor a restart ever leaves the providers of one form beside the
\* issuer or the networks of another, unless a start was served half of the settings,
\* which the next save writes.  (The boot migration may have filled in the private
\* networks.)
FromOneForm(s) ==
    \E f \in Forms :
        /\ s.proxy = f.proxy /\ s.local = f.local /\ s.issuer = f.issuer
        /\ \/ s.trusted = f.trusted
           \/ f.trusted = "none" /\ f.proxy /\ s.trusted = "private"
WholeForms ==
    "mixed" \notin mishaps =>
        /\ mem.setup => FromOneForm(mem)
        /\ table # NoConfig => FromOneForm(table)

\* Once every request was answered and no save failed, the mode and the trusted
\* networks in force are those of the settings in memory: whatever the order in
\* which concurrent saves ended, and after every restart, even one that loaded half.
AllIdle == \A w \in Workers : pc[w] = "idle"
ModeIsApplied ==
    AllIdle /\ "save" \notin mishaps =>
        /\ runtime.mode = ModeOf(mem)
        /\ runtime.trusted = mem.trusted

\* Once every request was answered, a restart would bring back the settings in force,
\* unless two requests overlapped, or a save or the load failed.
TableIsMemory ==
    AllIdle /\ mishaps \cap {"overlap", "save", "load"} = {} =>
        \/ table = mem
        \/ /\ table # NoConfig
           /\ [table EXCEPT !.claim = ClaimUsed(@)] = mem

\* Once every request was answered, users are sent to the issuer that is configured,
\* unless a save or a fetch failed or requests overlapped since the process started.
ProviderIsConfigured ==
    AllIdle /\ mishaps \cap {"overlap", "save", "fetch"} = {} =>
        runtime.provider = mem.issuer

\* Applying the settings does not change them (only a blank claim is filled in),
\* unless another request was there to change them meanwhile.
ApplyKeepsSettings ==
    [][\A w \in Workers :
         StoreProvider(w) /\ mem.claim # Blank /\ "overlap" \notin mishaps =>
             UNCHANGED mem]_vars
=============================================================================
