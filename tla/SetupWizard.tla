---------------------------- MODULE SetupWizard ----------------------------
(***************************************************************************)
(* The first-time setup wizard, composed with the system configuration it  *)
(* creates: POST /setup on an empty database, several of them at once,     *)
(* beside the requests of the administrators it lets in.                   *)
(*                                                                         *)
(* The wizard checks that nothing is set up, sets the administrators'      *)
(* group in memory, creates the first account, completes the settings, and *)
(* joins SaveSystemConfig; each is a critical section or a statement of    *)
(* its own.                                                                *)
(***************************************************************************)
EXTENDS SystemConfigStore

\* The load finds no configuration, and ApplySystemConfig derives the mode from the
\* defaults: the one that AUTH_MODE asked for is overwritten.
SetupInit ==
    /\ mem = Defaults
    /\ table = NoConfig
    /\ runtime = Applied(Stopped, Defaults)
    /\ accounts = {}
    /\ pc = [w \in Workers |-> "idle"]
    /\ held = [w \in Workers |-> Nothing]
    /\ mishaps = {}

NeedsSetup == ~mem.setup /\ accounts = {}

-----------------------------------------------------------------------------
\* POST /setup, NeedsSetup: the flag is read under the mutex ...
SetupBegin(w, f) ==
    /\ ~mem.setup
    /\ f.proxy \/ f.local \/ f.issuer # Off
    /\ Begin(w, "count", f, {})
    /\ UNCHANGED stores

\* ... and the accounts are counted by a query of their own: when it fails, the setup is
\* taken to be needed.
SetupCount(w) ==
    /\ pc[w] = "count"
    /\ \/ (accounts = {} \/ SaveFails) /\ Goto(w, "group", held[w])
       \/ accounts # {} /\ Answer(w)
    /\ UNCHANGED <<stores, mishaps>>

\* The administrators' group is set early; a local setup without usable credentials
\* ends here and leaves the group behind.
SetupGroup(w) ==
    LET group == IF held[w].group = Blank THEN DefaultGroup ELSE held[w].group
    IN  /\ pc[w] = "group"
        /\ mem' = [mem EXCEPT !.group = group]
        /\ \/ Goto(w, IF held[w].local THEN "create" ELSE "complete", held[w])
           \/ held[w].local /\ Answer(w)
        /\ UNCHANGED <<table, runtime, accounts, mishaps>>

\* Mutant: a failure to create the account is not checked.
SetupCreateUnchecked(w) ==
    /\ pc[w] = "create"
    /\ \/ \E n \in Names :
             /\ \A a \in accounts : a.name # n
             /\ accounts' = accounts \cup {[name |-> n, group |-> mem.group]}
       \/ UNCHANGED accounts
    /\ Goto(w, "complete", held[w])
    /\ UNCHANGED <<mem, table, runtime, mishaps>>

\* CreateAdminUser: the account gets the group memory has now.  (Nothing that can
\* happen between its read of the group and its INSERT depends on either.)
SetupCreate(w) ==
    /\ pc[w] = "create"
    /\ \/ \E n \in Names :
             /\ \A a \in accounts : a.name # n
             /\ accounts' = accounts \cup {[name |-> n, group |-> mem.group]}
             /\ Goto(w, "complete", held[w])
       \/ /\ SaveFails \/ accounts # {}
          /\ UNCHANGED accounts
          /\ Answer(w)
    /\ UNCHANGED <<mem, table, runtime, mishaps>>

\* Mutant: the flag of local authentication is not taken over from the form.
SetupCompleteWithoutLocal(w) ==
    /\ pc[w] = "complete"
    /\ mem' = [Submitted(mem, held[w]) EXCEPT !.group = mem.group, !.local = FALSE]
    /\ Goto(w, "snapshot", Nothing)
    /\ UNCHANGED <<table, runtime, accounts, mishaps>>

\* Everything else of the form, then SaveSystemConfig.  Settings of a provider that
\* is not enabled are left alone; the claim of one that is gets its default.
SetupComplete(w) ==
    LET f == held[w]
    IN  /\ pc[w] = "complete"
        /\ mem' = [Submitted(mem, f) EXCEPT
                     !.group = mem.group,
                     !.claim = IF f.issuer = Off THEN mem.claim ELSE ClaimUsed(f.claim)]
        /\ Goto(w, "snapshot", Nothing)
        /\ UNCHANGED <<table, runtime, accounts, mishaps>>

-----------------------------------------------------------------------------
Setup(w) ==
    \/ \E f \in Forms : SetupBegin(w, f)
    \/ SetupCount(w) \/ SetupGroup(w) \/ SetupCreate(w) \/ SetupComplete(w)

SetupNext == Next \/ \E w \in Workers : Setup(w)

SetupSpec == SetupInit /\ [][SetupNext]_vars

-----------------------------------------------------------------------------
(* Properties.                                                              *)

\* Somebody can sign in: with an account and its password; through the proxy, from the
\* networks in force; or at an issuer, with the provider that is in force.
CanSignIn ==
    \/ mem.local /\ accounts # {}
    \/ mem.proxy /\ mem.trusted # "none" /\ runtime.trusted # "none"
    \/ mem.issuer # Off /\ runtime.provider # Off

\* The wizard never leaves the system in a state where it is closed and nobody can sign
\* in, whatever its refused attempts left in memory, unless a save, the fetch of a
\* provider or a count of the accounts failed; and local authentication is never on
\* without an account, whatever save or fetch failed.
SetupOrLogin ==
    AllIdle =>
        /\ mishaps \cap {"save", "fetch", "count"} = {} => NeedsSetup \/ CanSignIn
        /\ "count" \notin mishaps /\ mem.local => accounts # {}

\* When the wizard completes a setup with local accounts, one of them is in the
\* administrators' group it configures, unless it met another request: somebody can
\* administer the system, whatever group failed attempts left behind.
WizardMakesAnAdmin ==
    [][\A w \in Workers :
         SetupComplete(w) /\ held[w].local /\ "overlap" \notin mishaps =>
             \E a \in accounts : a.group = mem'.group]_vars
=============================================================================
