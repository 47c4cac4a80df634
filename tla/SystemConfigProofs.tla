------------------------ MODULE SystemConfigProofs -------------------------
(***************************************************************************)
(* Proofs about SystemConfigStore and, behind them, about SetupWizard, for *)
(* any workers, forms, issuers and claims, any number of attempts and any  *)
(* failures.                                                               *)
(*                                                                         *)
(* FormsAreWhole needs no assumption: memory, snapshot and table are each  *)
(* replaced as a whole.  ModeFollows rests on every change of memory being *)
(* followed by an Apply in the same request, which a failing save skips.   *)
(* OneAdministrator rests on nobody changing memory between the steps of a *)
(* request, so it is stated for one request at a time.                     *)
(*                                                                         *)
(* That the wizard is open or somebody can sign in rests on what follows   *)
(* the INSERT of an account: nothing that can fail, up to the flag that    *)
(* closes the wizard.  A restart in between would break it, and so would   *)
(* an administrator who switches every provider off, which the settings    *)
(* handler accepts; the theorem says so in its hypotheses.                 *)
(***************************************************************************)
EXTENDS SetupWizard, TLAPS

Held == Forms \cup Settings \cup Providers \cup {Nothing}

TypeInv == TypeOK /\ held \in [Workers -> Held]

-----------------------------------------------------------------------------
(* Types.                                                                   *)

LEMMA DefaultsType == Defaults \in Settings
  BY DEF Defaults, Settings

LEMMA SubmittedType ==
    ASSUME NEW s \in Settings, NEW f \in Forms
    PROVE  Submitted(s, f) \in Settings
BY ConfigConstants DEF Submitted, Settings, FormType

LEMMA ClaimUsedType ==
    ASSUME NEW s \in Settings
    PROVE  [s EXCEPT !.claim = ClaimUsed(@)] \in Settings
BY ConfigConstants DEF ClaimUsed, Settings

LEMMA AppliedType ==
    ASSUME NEW r, r.provider \in Issuers \cup {Off}, NEW s \in Settings
    PROVE  Applied(r, s) \in Runtime
BY DEF Applied, Runtime, Settings, ModeOf, Modes

LEMMA ConfiguredType ==
    ASSUME NEW f \in Forms
    PROVE  Configured(f) \in Settings
<1>1. Submitted(Defaults, f) \in Settings
  BY DefaultsType, SubmittedType
<1>. QED
  BY <1>1, ConfigConstants DEF Configured, ClaimUsed, Settings

LEMMA WhollyLoads ==
    ASSUME table \in Settings \cup {NoConfig}
    PROVE  WhollyLoaded(table) \in Settings
BY DefaultsType DEF WhollyLoaded

\* What a start loads, all of the settings or a part of them.
LEMMA LoadsType ==
    ASSUME table \in Settings \cup {NoConfig}, NEW loaded \in Loads(table)
    PROVE  loaded \in Settings
<1> DEFINE whole == WhollyLoaded(table)
<1>1. whole \in Settings
  BY WhollyLoads
<1>2. CASE loaded = whole
  BY <1>1, <1>2
<1>3. CASE loaded # whole
  <2>1. PICK lost : loaded = [x \in DOMAIN Defaults |->
                                IF x \in lost THEN Defaults[x] ELSE whole[x]]
    BY <1>3 DEF Loads
  <2> HIDE DEF whole
  <2>2. loaded = [proxy |-> loaded.proxy, local |-> loaded.local, trusted |-> loaded.trusted,
                  issuer |-> loaded.issuer, claim |-> loaded.claim, group |-> loaded.group,
                  docker |-> loaded.docker, setup |-> loaded.setup]
    BY <2>1 DEF Defaults
  <2>3. /\ loaded.proxy \in {whole.proxy, Defaults.proxy}
        /\ loaded.local \in {whole.local, Defaults.local}
        /\ loaded.trusted \in {whole.trusted, Defaults.trusted}
        /\ loaded.issuer \in {whole.issuer, Defaults.issuer}
        /\ loaded.claim \in {whole.claim, Defaults.claim}
        /\ loaded.group \in {whole.group, Defaults.group}
        /\ loaded.docker \in {whole.docker, Defaults.docker}
        /\ loaded.setup \in {whole.setup, Defaults.setup}
    BY <2>1 DEF Defaults
  <2>4. /\ loaded.proxy \in BOOLEAN /\ loaded.local \in BOOLEAN
        /\ loaded.trusted \in {"none", "listed", "private"}
        /\ loaded.issuer \in Issuers \cup {Off} /\ loaded.claim \in Claims \cup {Blank}
        /\ loaded.group \in Groups \cup {Blank}
        /\ loaded.docker \in BOOLEAN /\ loaded.setup \in BOOLEAN
    BY <1>1, <2>3, DefaultsType DEF Settings
  <2>. QED
    BY <2>2, <2>4 DEF Settings
<1>. QED
  BY <1>2, <1>3

\* A restart boots from settings.
LEMMA RestartBoots ==
    ASSUME table \in Settings \cup {NoConfig}, Restart
    PROVE  \E loaded \in Settings, fetch1, fetch2, saves \in BOOLEAN :
              Boot(table, loaded, fetch1, fetch2, saves)
BY LoadsType DEF Restart

LEMMA BootType ==
    ASSUME table \in Settings \cup {NoConfig}, NEW loaded \in Settings,
           NEW fetch1 \in BOOLEAN, NEW fetch2 \in BOOLEAN, NEW saves \in BOOLEAN,
           Boot(table, loaded, fetch1, fetch2, saves), mishaps \subseteq Mishaps
    PROVE  /\ mem' \in Settings
           /\ table' \in Settings \cup {NoConfig}
           /\ runtime' \in Runtime
           /\ mishaps' \subseteq Mishaps
<1> DEFINE online == fetch1 /\ loaded.issuer # Off
           first  == IF online THEN [loaded EXCEPT !.claim = ClaimUsed(@)] ELSE loaded
           r1     == [Applied(Stopped, loaded) EXCEPT
                         !.provider = IF online THEN loaded.issuer ELSE Off]
           migrates == first.setup /\ first.proxy /\ first.trusted = "none"
           second == IF migrates THEN [first EXCEPT !.trusted = "private"] ELSE first
           online2 == migrates /\ saves /\ fetch2 /\ second.issuer # Off
<1>2. first \in Settings
  BY ClaimUsedType
<1>3. second \in Settings
  BY <1>2 DEF Settings
<1>4. r1 \in Runtime
  BY AppliedType DEF Stopped, Runtime, Settings
<1>5. /\ mem' = (IF online2 THEN [second EXCEPT !.claim = ClaimUsed(@)] ELSE second)
      /\ table' = (IF migrates /\ saves THEN second ELSE table)
      /\ runtime' = (IF migrates /\ saves
                     THEN [Applied(r1, second) EXCEPT
                             !.provider = IF online2 THEN second.issuer ELSE @]
                     ELSE r1)
      /\ mishaps' \subseteq Mishaps
  BY DEF Boot, Mishaps
<1> HIDE DEF second, r1
<1>6. mem' \in Settings
  BY <1>3, <1>5, ClaimUsedType
<1>7. Applied(r1, second) \in Runtime
  BY <1>3, <1>4, AppliedType DEF Runtime
<1>8. runtime' \in Runtime
  BY <1>3, <1>4, <1>5, <1>7 DEF Runtime, Settings
<1>. QED
  BY <1>3, <1>5, <1>6, <1>8

LEMMA InitTypes == Init => TypeInv
<1> SUFFICES ASSUME Init PROVE TypeInv
  OBVIOUS
<1>1. mem \in Settings
  BY ConfiguredType DEF Init
<1>2. runtime \in Runtime
  BY <1>1 DEF Init, Runtime, Settings, ModeOf, Modes
<1>3. accounts \subseteq Accounts
  BY ConfigConstants DEF Init, Accounts
<1>. QED
  BY <1>1, <1>2, <1>3 DEF Init, TypeInv, TypeOK, Held, StorePcs, Mishaps

\* A worker takes along something of the kind its next step reads.
Fits(label, what) ==
    /\ label \in {"idle"} \cup StorePcs
    /\ what \in Held
    /\ label = "change" => what \in Forms
    /\ label = "commit" => what \in Settings
    /\ label = "fetch" => what \in Providers

LEMMA GotoType ==
    ASSUME TypeInv, NEW w \in Workers, NEW label, NEW what, Fits(label, what),
           Goto(w, label, what),
           mem' \in Settings, table' \in Settings \cup {NoConfig}, runtime' \in Runtime,
           UNCHANGED accounts, mishaps' \subseteq Mishaps
    PROVE  TypeInv'
<1>1. pc' \in [Workers -> {"idle"} \cup StorePcs] /\ held' \in [Workers -> Held]
  BY DEF TypeInv, TypeOK, Goto, Fits
<1>2. \A v \in Workers : /\ pc'[v] = "change" => held'[v] \in Forms
                         /\ pc'[v] = "commit" => held'[v] \in Settings
                         /\ pc'[v] = "fetch" => held'[v] \in Providers
  BY DEF TypeInv, TypeOK, Goto, Fits
<1>. QED
  BY <1>1, <1>2 DEF TypeInv, TypeOK

LEMMA BeginGoes ==
    ASSUME NEW w \in Workers, NEW label, NEW what, mishaps \subseteq Mishaps,
           NEW failed \in SUBSET {"count"}, Begin(w, label, what, failed)
    PROVE  Goto(w, label, what) /\ mishaps' \subseteq Mishaps
BY DEF Begin, Overlapping, Mishaps

LEMMA StepTypes == TypeInv /\ [Next]_vars => TypeInv'
<1> SUFFICES ASSUME TypeInv, [Next]_vars PROVE TypeInv'
  OBVIOUS
<1>0. /\ mishaps \subseteq Mishaps
      /\ mem \in Settings /\ table \in Settings \cup {NoConfig} /\ runtime \in Runtime
      /\ Fits("idle", Nothing) /\ Fits("snapshot", Nothing) /\ Fits("apply", Nothing)
  BY DEF TypeInv, TypeOK, Fits, StorePcs, Held
<1>1. ASSUME NEW w \in Workers, NEW f \in Forms, PutConfig(w, f) PROVE TypeInv'
  <2>1. Fits("change", f)
    BY DEF Fits, StorePcs, Held
  <2>. QED
    BY <1>0, <1>1, <2>1, BeginGoes, GotoType DEF PutConfig, stores
<1>2. ASSUME NEW w \in Workers, ChangeConfig(w) PROVE TypeInv'
  <2>1. held[w] \in Forms
    BY <1>2 DEF TypeInv, TypeOK, ChangeConfig
  <2>2. mem' \in Settings
    BY <1>0, <1>2, <2>1, SubmittedType DEF ChangeConfig
  <2>. QED
    BY <1>0, <1>2, <2>2, GotoType DEF ChangeConfig
<1>3. ASSUME NEW w \in Workers, NEW enabled \in BOOLEAN, PutDiscovery(w, enabled)
      PROVE  TypeInv'
  <2>1. mem' \in Settings
    BY <1>0, <1>3 DEF PutDiscovery, Settings
  <2>. QED
    BY <1>0, <1>3, <2>1, BeginGoes, GotoType DEF PutDiscovery
<1>4. ASSUME NEW w \in Workers, Snapshot(w) PROVE TypeInv'
  <2>1. Fits("commit", mem)
    BY <1>0 DEF Fits, StorePcs, Held
  <2>. QED
    BY <1>0, <1>4, <2>1, GotoType DEF Snapshot, stores
<1>5. ASSUME NEW w \in Workers, Commit(w) PROVE TypeInv'
  <2>1. held[w] \in Settings
    BY <1>5 DEF TypeInv, TypeOK, Commit
  <2>2. CASE table' = held[w] /\ Goto(w, "apply", Nothing) /\ UNCHANGED mishaps
    BY <1>0, <1>5, <2>1, <2>2, GotoType DEF Commit
  <2>3. CASE UNCHANGED table /\ Answer(w) /\ mishaps' = mishaps \cup {"save"}
    BY <1>0, <1>5, <2>3, GotoType DEF Commit, Answer, Mishaps
  <2>. QED
    BY <1>5, <2>2, <2>3 DEF Commit
<1>6. ASSUME NEW w \in Workers, Apply(w) PROVE TypeInv'
  <2>1. runtime' \in Runtime
    BY <1>0, <1>6, AppliedType DEF Apply, Runtime
  <2>2. CASE mem.issuer = Off
    BY <1>0, <1>6, <2>1, <2>2, GotoType DEF Apply, Answer
  <2>3. CASE mem.issuer # Off
    <3>1. Fits("fetch", [issuer |-> mem.issuer, claim |-> mem.claim])
      BY <1>0, <2>3 DEF Fits, StorePcs, Held, Providers, Settings
    <3>. QED
      BY <1>0, <1>6, <2>1, <2>3, <3>1, GotoType DEF Apply
  <2>. QED
    BY <2>2, <2>3
<1>7. ASSUME NEW w \in Workers, StoreProvider(w) PROVE TypeInv'
  <2>1. held[w] \in Providers
    BY <1>7 DEF TypeInv, TypeOK, StoreProvider
  <2>2. mem' \in Settings /\ runtime' \in Runtime
    BY <1>0, <1>7, <2>1, ConfigConstants
       DEF StoreProvider, Settings, Runtime, Providers, ClaimUsed
  <2>. QED
    BY <1>0, <1>7, <2>2, GotoType DEF StoreProvider, Answer, Mishaps
<1>8. ASSUME Restart PROVE TypeInv'
  <2>1. PICK loaded \in Settings, fetch1, fetch2, saves \in BOOLEAN :
           Boot(table, loaded, fetch1, fetch2, saves)
    BY <1>0, <1>8, RestartBoots
  <2>2. /\ mem' \in Settings /\ table' \in Settings \cup {NoConfig}
        /\ runtime' \in Runtime /\ mishaps' \subseteq Mishaps
    BY <1>0, <2>1, BootType
  <2>. QED
    BY <1>8, <2>2 DEF Restart, TypeInv, TypeOK, Held, StorePcs
<1>9. CASE UNCHANGED vars
  BY <1>9 DEF vars, TypeInv, TypeOK
<1>. QED
  BY <1>1, <1>2, <1>3, <1>4, <1>5, <1>6, <1>7, <1>8, <1>9 DEF Next, Request, Save

\* Memory, the table and what each request carries along always have the shape the
\* code gives them.
THEOREM StoreTypes == Spec => []TypeOK
<1>1. TypeInv => TypeOK
  BY DEF TypeInv
<1>. QED
  BY <1>1, InitTypes, StepTypes, PTL DEF Spec

-----------------------------------------------------------------------------
(* Forms are saved whole.                                                   *)

Whole(s) == s \in Settings /\ s.setup /\ FromOneForm(s)

\* Whatever a save may still write is as whole as what was written.
WholeInv ==
    /\ table # NoConfig
    /\ "mixed" \notin mishaps =>
          /\ Whole(mem)
          /\ Whole(table)
          /\ \A w \in Workers : pc[w] = "commit" => Whole(held[w])

LEMMA SubmittedWhole ==
    ASSUME NEW s \in Settings, NEW f \in Forms
    PROVE  Whole(Submitted(s, f))
<1>1. Submitted(s, f) \in Settings
  BY SubmittedType
<1>. QED
  BY <1>1 DEF Submitted, Whole, FromOneForm, Settings

LEMMA ClaimKeepsWhole ==
    ASSUME NEW s, Whole(s), NEW c \in Claims \cup {Blank}
    PROVE  Whole([s EXCEPT !.claim = c])
BY DEF Whole, FromOneForm, Settings

LEMMA MigrationKeepsWhole ==
    ASSUME NEW s, Whole(s), s.proxy, s.trusted = "none"
    PROVE  Whole([s EXCEPT !.trusted = "private"])
<1>1. PICK f \in Forms : /\ s.proxy = f.proxy /\ s.local = f.local /\ s.issuer = f.issuer
                         /\ s.trusted = f.trusted
  BY DEF Whole, FromOneForm
<1>. QED
  BY <1>1 DEF Whole, FromOneForm, Settings

LEMMA BootKeepsWhole ==
    ASSUME Whole(table), NEW loaded \in Settings,
           NEW fetch1 \in BOOLEAN, NEW fetch2 \in BOOLEAN, NEW saves \in BOOLEAN,
           Boot(table, loaded, fetch1, fetch2, saves), "mixed" \notin mishaps'
    PROVE  Whole(mem') /\ Whole(table')
<1> DEFINE online == fetch1 /\ loaded.issuer # Off
           first  == IF online THEN [loaded EXCEPT !.claim = ClaimUsed(@)] ELSE loaded
           migrates == first.setup /\ first.proxy /\ first.trusted = "none"
           second == IF migrates THEN [first EXCEPT !.trusted = "private"] ELSE first
           online2 == migrates /\ saves /\ fetch2 /\ second.issuer # Off
<1>1. loaded = table
  BY ConfigMarkers DEF Whole, Boot, WhollyLoaded
<1>2. Whole(first)
  BY <1>1, ClaimKeepsWhole, ConfigConstants DEF Whole, Settings, ClaimUsed
<1>3. Whole(second)
  BY <1>2, MigrationKeepsWhole
<1>4. /\ mem' = (IF online2 THEN [second EXCEPT !.claim = ClaimUsed(@)] ELSE second)
      /\ table' = (IF migrates /\ saves THEN second ELSE table)
  BY DEF Boot
<1> HIDE DEF second
<1>5. Whole([second EXCEPT !.claim = ClaimUsed(@)])
  BY <1>3, ClaimKeepsWhole, ConfigConstants DEF Whole, Settings, ClaimUsed
<1>. QED
  BY <1>3, <1>4, <1>5

\* What a start saves are settings, of whatever load.
LEMMA BootKeepsTable ==
    ASSUME table \in Settings, NEW loaded \in Settings,
           NEW fetch1 \in BOOLEAN, NEW fetch2 \in BOOLEAN, NEW saves \in BOOLEAN,
           Boot(table, loaded, fetch1, fetch2, saves)
    PROVE  table' # NoConfig
<1> DEFINE first == IF fetch1 /\ loaded.issuer # Off
                    THEN [loaded EXCEPT !.claim = ClaimUsed(@)] ELSE loaded
<1>1. first \in Settings
  BY ClaimUsedType
<1>2. [first EXCEPT !.trusted = "private"] \in Settings
  BY <1>1 DEF Settings
<1>. QED
  BY <1>1, <1>2, ConfigMarkers DEF Boot

LEMMA WholeInit == Init => WholeInv
<1> SUFFICES ASSUME Init PROVE WholeInv
  OBVIOUS
<1>1. PICK f \in Forms : mem = Configured(f)
  BY DEF Init
<1>2. Whole(Submitted(Defaults, f))
  BY DefaultsType, SubmittedWhole
<1>3. Whole(mem)
  BY <1>1, <1>2, ClaimKeepsWhole, ConfigConstants DEF Configured, ClaimUsed, Whole, Settings
<1>. QED
  BY <1>3, ConfigMarkers DEF Init, WholeInv, Whole

LEMMA WholeStep == TypeInv /\ WholeInv /\ [Next]_vars => WholeInv'
<1> SUFFICES ASSUME TypeInv, WholeInv, [Next]_vars PROVE WholeInv'
  OBVIOUS
<1>0. /\ mem \in Settings /\ pc \in [Workers -> {"idle"} \cup StorePcs]
      /\ table \in Settings \cup {NoConfig} /\ held \in [Workers -> Held]
      /\ mishaps \subseteq Mishaps
  BY DEF TypeInv, TypeOK
<1>1. ASSUME NEW w \in Workers, NEW f \in Forms, PutConfig(w, f) PROVE WholeInv'
  BY <1>0, <1>1 DEF PutConfig, Begin, Goto, stores, WholeInv
<1>2. ASSUME NEW w \in Workers, ChangeConfig(w) PROVE WholeInv'
  <2>1. held[w] \in Forms
    BY <1>2 DEF TypeInv, TypeOK, ChangeConfig
  <2>2. Whole(mem')
    BY <1>0, <1>2, <2>1, SubmittedWhole DEF ChangeConfig
  <2>. QED
    BY <1>0, <1>2, <2>2 DEF ChangeConfig, Goto, WholeInv
<1>3. ASSUME NEW w \in Workers, NEW enabled \in BOOLEAN, PutDiscovery(w, enabled)
      PROVE  WholeInv'
  <2>1. Whole(mem) => Whole(mem')
    BY <1>3 DEF PutDiscovery, Whole, FromOneForm, Settings
  <2>. QED
    BY <1>0, <1>3, <2>1 DEF PutDiscovery, Begin, Goto, WholeInv
<1>4. ASSUME NEW w \in Workers, Snapshot(w) PROVE WholeInv'
  BY <1>0, <1>4 DEF Snapshot, Goto, stores, WholeInv
<1>5. ASSUME NEW w \in Workers, Commit(w) PROVE WholeInv'
  <2>1. held[w] \in Settings
    BY <1>5 DEF TypeInv, TypeOK, Commit
  <2>. QED
    BY <1>0, <1>5, <2>1, ConfigMarkers DEF Commit, Goto, Answer, WholeInv
<1>6. ASSUME NEW w \in Workers, Apply(w) PROVE WholeInv'
  BY <1>0, <1>6 DEF Apply, Goto, Answer, WholeInv
<1>7. ASSUME NEW w \in Workers, StoreProvider(w) PROVE WholeInv'
  <2>1. held[w] \in Providers
    BY <1>7 DEF TypeInv, TypeOK, StoreProvider
  <2>2. Whole(mem) => Whole(mem')
    BY <1>7, <2>1, ClaimKeepsWhole, ConfigConstants
       DEF StoreProvider, Providers, ClaimUsed
  <2>. QED
    BY <1>0, <1>7, <2>2 DEF StoreProvider, Goto, Answer, WholeInv
<1>8. ASSUME Restart PROVE WholeInv'
  <2>1. PICK loaded \in Settings, fetch1, fetch2, saves \in BOOLEAN :
           Boot(table, loaded, fetch1, fetch2, saves)
    BY <1>0, <1>8, RestartBoots
  <2>2. table \in Settings /\ ("mixed" \notin mishaps' => "mixed" \notin mishaps)
    BY <1>0, <2>1 DEF WholeInv, Boot
  <2>3. table' # NoConfig
    BY <2>1, <2>2, BootKeepsTable
  <2>4. "mixed" \notin mishaps' => Whole(mem') /\ Whole(table')
    BY <2>1, <2>2, BootKeepsWhole DEF WholeInv
  <2>. QED
    BY <1>8, <2>3, <2>4 DEF Restart, WholeInv
<1>9. CASE UNCHANGED vars
  BY <1>9 DEF vars, WholeInv
<1>. QED
  BY <1>1, <1>2, <1>3, <1>4, <1>5, <1>6, <1>7, <1>8, <1>9 DEF Next, Request, Save

\* Unless a load has failed, neither two concurrent saves, nor a failed one, nor a restart
\* ever leaves the providers of one form beside the issuer or the networks of another.
THEOREM FormsAreWhole == Spec => []WholeForms
<1>1. WholeInv => WholeForms
  BY DEF WholeInv, Whole, WholeForms
<1>. QED
  BY <1>1, InitTypes, StepTypes, WholeInit, WholeStep, PTL DEF Spec

-----------------------------------------------------------------------------
(* The mode follows the settings.                                           *)

Follows == runtime.mode = ModeOf(mem) /\ runtime.trusted = mem.trusted

\* Someone will still apply the settings that memory holds.
Pending == \E w \in Workers : pc[w] \in {"snapshot", "commit", "apply"}

ModeInv == "save" \in mishaps \/ Follows \/ Pending

LEMMA BootFollows ==
    ASSUME NEW loaded \in Settings,
           NEW fetch1 \in BOOLEAN, NEW fetch2 \in BOOLEAN, NEW saves \in BOOLEAN,
           Boot(table, loaded, fetch1, fetch2, saves)
    PROVE  "save" \in mishaps' \/ Follows'
<1> DEFINE online == fetch1 /\ loaded.issuer # Off
           first  == IF online THEN [loaded EXCEPT !.claim = ClaimUsed(@)] ELSE loaded
           r1     == [Applied(Stopped, loaded) EXCEPT
                         !.provider = IF online THEN loaded.issuer ELSE Off]
           migrates == first.setup /\ first.proxy /\ first.trusted = "none"
           second == IF migrates THEN [first EXCEPT !.trusted = "private"] ELSE first
           online2 == migrates /\ saves /\ fetch2 /\ second.issuer # Off
<1>2. first \in Settings /\ ModeOf(first) = ModeOf(loaded) /\ first.trusted = loaded.trusted
  BY ClaimUsedType DEF Settings, ModeOf
<1>3. r1.mode = ModeOf(first) /\ r1.trusted = first.trusted
  BY <1>2 DEF Applied
<1>4. second \in Settings
  BY <1>2 DEF Settings
<1>5. /\ mem' = (IF online2 THEN [second EXCEPT !.claim = ClaimUsed(@)] ELSE second)
      /\ runtime' = (IF migrates /\ saves
                     THEN [Applied(r1, second) EXCEPT
                             !.provider = IF online2 THEN second.issuer ELSE @]
                     ELSE r1)
      /\ migrates /\ ~saves => "save" \in mishaps'
  BY DEF Boot
<1>6. ~migrates => second = first
  OBVIOUS
<1> HIDE DEF second, r1, migrates, online2, first
<1>7. ModeOf(mem') = ModeOf(second) /\ mem'.trusted = second.trusted
  BY <1>4, <1>5 DEF ModeOf, Settings
<1>8. migrates /\ saves => runtime'.mode = ModeOf(second) /\ runtime'.trusted = second.trusted
  BY <1>5 DEF Applied
<1>9. ModeOf(mem)' = ModeOf(mem')
  BY DEF ModeOf
<1>. QED
  BY <1>3, <1>5, <1>6, <1>7, <1>8, <1>9 DEF Follows

LEMMA ModeInit == Init => ModeInv
  BY DEF Init, ModeInv, Follows

LEMMA ModeStep == TypeInv /\ ModeInv /\ [Next]_vars => ModeInv'
<1> SUFFICES ASSUME TypeInv, ModeInv, [Next]_vars PROVE ModeInv'
  OBVIOUS
<1>0. /\ mem \in Settings /\ runtime \in Runtime /\ table \in Settings \cup {NoConfig}
      /\ pc \in [Workers -> {"idle"} \cup StorePcs]
  BY DEF TypeInv, TypeOK
<1>1. ASSUME NEW w \in Workers, NEW f \in Forms, PutConfig(w, f) PROVE ModeInv'
  BY <1>0, <1>1 DEF PutConfig, Begin, Goto, stores, ModeInv, Follows, Pending, ModeOf
<1>2. ASSUME NEW w \in Workers, ChangeConfig(w) PROVE ModeInv'
  BY <1>0, <1>2 DEF ChangeConfig, Goto, ModeInv, Pending
<1>3. ASSUME NEW w \in Workers, NEW enabled \in BOOLEAN, PutDiscovery(w, enabled)
      PROVE  ModeInv'
  BY <1>0, <1>3 DEF PutDiscovery, Begin, Goto, ModeInv, Pending
<1>4. ASSUME NEW w \in Workers, Snapshot(w) PROVE ModeInv'
  BY <1>0, <1>4 DEF Snapshot, Goto, ModeInv, Pending
<1>5. ASSUME NEW w \in Workers, Commit(w) PROVE ModeInv'
  BY <1>0, <1>5 DEF Commit, Goto, ModeInv, Pending
<1>6. ASSUME NEW w \in Workers, Apply(w) PROVE ModeInv'
  BY <1>0, <1>6 DEF Apply, Applied, ModeInv, Follows, ModeOf
<1>7. ASSUME NEW w \in Workers, StoreProvider(w) PROVE ModeInv'
  <2>1. Follows => Follows'
    BY <1>0, <1>7 DEF StoreProvider, Follows, ModeOf, Settings, Runtime
  <2>2. Pending => Pending'
    BY <1>0, <1>7 DEF StoreProvider, Pending, Goto, Answer
  <2>. QED
    BY <1>7, <2>1, <2>2 DEF StoreProvider, ModeInv
<1>8. ASSUME Restart PROVE ModeInv'
  BY <1>0, <1>8, RestartBoots, BootFollows DEF ModeInv
<1>9. CASE UNCHANGED vars
  BY <1>9 DEF vars, ModeInv, Follows, Pending, ModeOf
<1>. QED
  BY <1>1, <1>2, <1>3, <1>4, <1>5, <1>6, <1>7, <1>8, <1>9 DEF Next, Request, Save

\* Unless a save failed, the mode and the trusted networks in force are those of the
\* settings in memory once every request was answered.
THEOREM ModeFollows == Spec => []ModeIsApplied
<1>1. ModeInv => ModeIsApplied
  BY DEF ModeInv, Follows, Pending, AllIdle, ModeIsApplied
<1>. QED
  BY <1>1, InitTypes, StepTypes, ModeInit, ModeStep, PTL DEF Spec

-----------------------------------------------------------------------------
(* Calm days: requests that do not overlap.                                 *)

Alone == \A v, w \in Workers : pc[v] # "idle" /\ pc[w] # "idle" => v = w

\* What a restart would load is what memory holds.
Agree ==
    \/ table = mem
    \/ /\ table # NoConfig
       /\ [table EXCEPT !.claim = ClaimUsed(@)] = mem

\* Nobody changes memory under a request that is being served: the snapshot it
\* commits and the values it fetches a provider for are those memory still holds.
FetchIsMem ==
    \A w \in Workers :
        pc[w] = "fetch" => held[w] = [issuer |-> mem.issuer, claim |-> mem.claim]

SaveIsMem ==
    /\ \A w \in Workers : /\ pc[w] = "commit" => held[w] = mem
                          /\ pc[w] \in {"apply", "fetch"} => table = mem
    /\ Agree \/ \E w \in Workers : pc[w] \in {"snapshot", "commit"}

ProviderComes ==
    \/ runtime.provider = mem.issuer
    \/ \E w \in Workers : pc[w] \in {"snapshot", "commit", "apply", "fetch"}

CalmInv ==
    /\ "overlap" \notin mishaps => Alone /\ FetchIsMem
    /\ mishaps \cap {"overlap", "save", "load"} = {} => SaveIsMem
    /\ mishaps \cap {"overlap", "save", "fetch"} = {} => ProviderComes

LEMMA BootAgrees ==
    ASSUME table \in Settings, NEW loaded \in Settings,
           NEW fetch1 \in BOOLEAN, NEW fetch2 \in BOOLEAN, NEW saves \in BOOLEAN,
           Boot(table, loaded, fetch1, fetch2, saves)
    PROVE  /\ mishaps' \cap {"save", "load"} = {} => Agree'
           /\ mishaps' \cap {"save", "fetch"} = {} => (runtime.provider = mem.issuer)'
           /\ "overlap" \notin mishaps'
<1> DEFINE online == fetch1 /\ loaded.issuer # Off
           first  == IF online THEN [loaded EXCEPT !.claim = ClaimUsed(@)] ELSE loaded
           r1     == [Applied(Stopped, loaded) EXCEPT
                         !.provider = IF online THEN loaded.issuer ELSE Off]
           migrates == first.setup /\ first.proxy /\ first.trusted = "none"
           second == IF migrates THEN [first EXCEPT !.trusted = "private"] ELSE first
           online2 == migrates /\ saves /\ fetch2 /\ second.issuer # Off
<1>1. table # NoConfig /\ WhollyLoaded(table) = table
  BY ConfigMarkers DEF WhollyLoaded
<1>2. /\ mem' = (IF online2 THEN [second EXCEPT !.claim = ClaimUsed(@)] ELSE second)
      /\ table' = (IF migrates /\ saves THEN second ELSE table)
      /\ runtime' = (IF migrates /\ saves
                     THEN [Applied(r1, second) EXCEPT
                             !.provider = IF online2 THEN second.issuer ELSE @]
                     ELSE r1)
      /\ migrates /\ ~saves => "save" \in mishaps'
      /\ loaded.issuer # Off /\ ~(fetch1 /\ fetch2) => "fetch" \in mishaps'
      /\ loaded # table => "load" \in mishaps'
      /\ "overlap" \notin mishaps'
  BY <1>1 DEF Boot
<1>3. first \in Settings /\ first.issuer = loaded.issuer
  BY ClaimUsedType DEF Settings
<1>4. second \in Settings /\ second.issuer = loaded.issuer
  BY <1>3 DEF Settings
<1>5. mem'.issuer = loaded.issuer
  BY <1>2, <1>4 DEF Settings
<1>6. r1.provider = IF online THEN loaded.issuer ELSE Off
  BY DEF Applied
<1>7. Applied(r1, second).provider = IF loaded.issuer = Off THEN Off ELSE r1.provider
  BY <1>4 DEF Applied
<1>8. ~migrates => second = first
  OBVIOUS
<1>9. Applied(r1, second) = [mode |-> ModeOf(second), trusted |-> second.trusted,
                             provider |-> Applied(r1, second).provider]
  BY DEF Applied
<1>a. mishaps' \cap {"save", "load"} = {} => Agree'
  <2> SUFFICES ASSUME "save" \notin mishaps', "load" \notin mishaps' PROVE Agree'
    OBVIOUS
  <2>1. CASE migrates /\ saves
    BY <1>2, <1>4, <2>1, ConfigMarkers DEF Agree, ClaimUsed
  <2>2. CASE ~migrates
    BY <1>1, <1>2, <1>8, <2>2 DEF Agree, ClaimUsed
  <2>. QED
    BY <1>2, <2>1, <2>2
<1> HIDE DEF second, r1, migrates, first
<1>b. mishaps' \cap {"save", "fetch"} = {} => runtime'.provider = loaded.issuer
  <2> SUFFICES ASSUME "fetch" \notin mishaps' PROVE runtime'.provider = loaded.issuer
    OBVIOUS
  <2>1. loaded.issuer # Off => fetch1 /\ fetch2
    BY <1>2
  <2>2. CASE migrates /\ saves
    BY <1>2, <1>4, <1>7, <1>9, <2>1, <2>2
  <2>3. CASE ~(migrates /\ saves)
    BY <1>2, <1>6, <2>1, <2>3
  <2>. QED
    BY <2>2, <2>3
<1>. QED
  BY <1>2, <1>5, <1>a, <1>b

LEMMA CalmInit == Init => CalmInv
<1> SUFFICES ASSUME Init PROVE CalmInv
  OBVIOUS
<1>. QED
  BY DEF Init, CalmInv, Alone, FetchIsMem, SaveIsMem, Agree, ProviderComes

\* A request that has begun without an overlap is the only one.
LEMMA BeginAlone ==
    ASSUME TypeInv, CalmInv, NEW w \in Workers, NEW label \in StorePcs, NEW what,
           NEW failed \in SUBSET {"count"}, Begin(w, label, what, failed)
    PROVE  /\ mishaps' = mishaps \cup failed \cup Overlapping
           /\ "overlap" \notin mishaps' =>
                 \A v \in Workers : pc[v] = "idle" /\ (v # w => pc'[v] = "idle")
BY DEF TypeInv, TypeOK, CalmInv, Begin, Goto, Overlapping

LEMMA CalmStep == TypeInv /\ WholeInv /\ CalmInv /\ [Next]_vars => CalmInv'
<1> SUFFICES ASSUME TypeInv, WholeInv, CalmInv, [Next]_vars PROVE CalmInv'
  OBVIOUS
<1> USE DEF CalmInv, Alone, FetchIsMem, SaveIsMem, Agree, ProviderComes
<1>0. /\ mem \in Settings /\ table \in Settings /\ runtime \in Runtime
      /\ pc \in [Workers -> {"idle"} \cup StorePcs]
      /\ held \in [Workers -> Held]
      /\ mishaps \subseteq Mishaps
  BY DEF TypeInv, TypeOK, WholeInv
<1>1. ASSUME NEW w \in Workers, NEW f \in Forms, PutConfig(w, f) PROVE CalmInv'
  <2>1. PICK failed \in SUBSET {"count"} : Begin(w, "change", f, failed)
    BY <1>1 DEF PutConfig
  <2>2. "change" \in StorePcs /\ Goto(w, "change", f) /\ UNCHANGED stores
    BY <1>1, <2>1 DEF PutConfig, StorePcs, Begin
  <2>3. /\ mishaps' = mishaps \cup failed \cup Overlapping
        /\ "overlap" \notin mishaps' =>
              \A v \in Workers : pc[v] = "idle" /\ (v # w => pc'[v] = "idle")
    BY <2>1, <2>2, BeginAlone
  <2>. QED
    BY <1>0, <2>2, <2>3 DEF Goto, stores
<1>2. ASSUME NEW w \in Workers, ChangeConfig(w) PROVE CalmInv'
  BY <1>0, <1>2 DEF ChangeConfig, Goto
<1>3. ASSUME NEW w \in Workers, NEW enabled \in BOOLEAN, PutDiscovery(w, enabled)
      PROVE  CalmInv'
  <2>1. Begin(w, "snapshot", Nothing, {}) /\ "snapshot" \in StorePcs
    BY <1>3 DEF PutDiscovery, StorePcs
  <2>2. /\ mishaps' = mishaps \cup Overlapping
        /\ "overlap" \notin mishaps' =>
              \A v \in Workers : pc[v] = "idle" /\ (v # w => pc'[v] = "idle")
    BY <2>1, BeginAlone
  <2>3. /\ mem' = [mem EXCEPT !.docker = enabled] /\ table' = table /\ runtime' = runtime
        /\ Goto(w, "snapshot", Nothing)
    BY <1>3, <2>1 DEF PutDiscovery, Begin
  <2>4. mem'.issuer = mem.issuer /\ mem'.claim = mem.claim
    BY <1>0, <2>3 DEF Settings
  <2>. QED
    BY <1>0, <2>2, <2>3, <2>4 DEF Goto
<1>4. ASSUME NEW w \in Workers, Snapshot(w) PROVE CalmInv'
  BY <1>0, <1>4 DEF Snapshot, Goto, stores
<1>5. ASSUME NEW w \in Workers, Commit(w) PROVE CalmInv'
  <2>1. CASE table' = held[w] /\ Goto(w, "apply", Nothing) /\ UNCHANGED mishaps
    BY <1>0, <1>5, <2>1 DEF Commit, Goto
  <2>2. CASE UNCHANGED table /\ Answer(w) /\ mishaps' = mishaps \cup {"save"}
    BY <1>0, <1>5, <2>2 DEF Commit, Goto, Answer
  <2>. QED
    BY <1>5, <2>1, <2>2 DEF Commit
<1>6. ASSUME NEW w \in Workers, Apply(w) PROVE CalmInv'
  <2>1. CASE mem.issuer = Off
    BY <1>0, <1>6, <2>1 DEF Apply, Applied, Goto, Answer
  <2>2. CASE mem.issuer # Off
    BY <1>0, <1>6, <2>2 DEF Apply, Goto
  <2>. QED
    BY <2>1, <2>2
<1>7. ASSUME NEW w \in Workers, StoreProvider(w) PROVE CalmInv'
  <2>1. CASE /\ runtime' = [runtime EXCEPT !.provider = held[w].issuer]
             /\ mem' = [mem EXCEPT !.claim = ClaimUsed(held[w].claim)]
             /\ UNCHANGED mishaps
    <3>1. "overlap" \notin mishaps =>
            /\ \A v \in Workers : pc'[v] = "idle"
            /\ held[w].issuer = mem.issuer /\ held[w].claim = mem.claim
      BY <1>0, <1>7 DEF StoreProvider, Answer, Goto
    <3>2. mem'.issuer = mem.issuer /\ runtime'.provider = held[w].issuer
      BY <1>0, <2>1 DEF Settings, Runtime
    <3>3. mishaps \cap {"overlap", "save", "load"} = {} => Agree'
      BY <1>0, <1>7, <2>1, <3>1, ConfigMarkers DEF StoreProvider, ClaimUsed
    <3>. QED
      BY <2>1, <3>1, <3>2, <3>3
  <2>2. CASE mishaps' = mishaps \cup {"fetch"} /\ UNCHANGED <<mem, runtime>>
    BY <1>0, <1>7, <2>2 DEF StoreProvider, Answer, Goto
  <2>. QED
    BY <1>7, <2>1, <2>2 DEF StoreProvider
<1>8. ASSUME Restart PROVE CalmInv'
  <2>1. PICK loaded \in Settings, fetch1, fetch2, saves \in BOOLEAN :
           Boot(table, loaded, fetch1, fetch2, saves)
    BY <1>0, <1>8, RestartBoots
  <2>2. /\ mishaps' \cap {"save", "load"} = {} => Agree'
        /\ mishaps' \cap {"save", "fetch"} = {} => (runtime.provider = mem.issuer)'
    BY <1>0, <2>1, BootAgrees
  <2>. QED
    BY <1>8, <2>2 DEF Restart
<1>9. CASE UNCHANGED vars
  BY <1>9 DEF vars
<1>. QED
  BY <1>1, <1>2, <1>3, <1>4, <1>5, <1>6, <1>7, <1>8, <1>9 DEF Next, Request, Save

THEOREM CalmCorrect == Spec => [](TypeInv /\ WholeInv /\ CalmInv)
  BY InitTypes, StepTypes, WholeInit, WholeStep, CalmInit, CalmStep, PTL DEF Spec

\* Unless two requests overlapped, or a save or the load failed, a restart would bring
\* back the settings in force once every request was answered.
THEOREM TableAgrees == Spec => []TableIsMemory
<1>1. CalmInv => TableIsMemory
  BY DEF CalmInv, SaveIsMem, Agree, AllIdle, TableIsMemory
<1>. QED
  BY <1>1, CalmCorrect, PTL

\* Unless requests overlapped, or a save or a fetch failed, users are sent to the configured issuer
\* once every request was answered.
THEOREM ProviderAgrees == Spec => []ProviderIsConfigured
<1>1. CalmInv => ProviderIsConfigured
  BY DEF CalmInv, ProviderComes, AllIdle, ProviderIsConfigured
<1>. QED
  BY <1>1, CalmCorrect, PTL

\* Unless two requests overlapped, storing the provider that was fetched leaves a
\* configured groups claim, and everything else, as it is.
THEOREM SettingsSurviveApply == Spec => ApplyKeepsSettings
<1>1. ASSUME TypeInv, CalmInv, NEW w \in Workers, StoreProvider(w), mem.claim # Blank,
             "overlap" \notin mishaps
      PROVE  UNCHANGED mem
  <2>1. held[w].claim = mem.claim
    BY <1>1 DEF CalmInv, FetchIsMem, StoreProvider
  <2>. QED
    BY <1>1, <2>1 DEF StoreProvider, ClaimUsed, TypeInv, TypeOK, Settings
<1>2. TypeInv /\ CalmInv =>
        [\A w \in Workers :
           StoreProvider(w) /\ mem.claim # Blank /\ "overlap" \notin mishaps =>
               UNCHANGED mem]_vars
  BY <1>1
<1>. QED
  BY <1>2, CalmCorrect, PTL DEF ApplyKeepsSettings
-----------------------------------------------------------------------------
(* The wizard.                                                              *)

SetupPcs == {"count", "group", "create", "complete"}

\* Where the goroutine holds what its request submitted.
FormPcs == {"change"} \cup SetupPcs

SetupTypes ==
    /\ mem \in Settings
    /\ table \in Settings \cup {NoConfig}
    /\ accounts \subseteq Accounts
    /\ runtime \in Runtime /\ mishaps \subseteq Mishaps
    /\ pc \in [Workers -> {"idle"} \cup StorePcs \cup SetupPcs]
    /\ held \in [Workers -> Held]
    /\ \A w \in Workers :
          /\ pc[w] \in FormPcs => held[w] \in Forms
          /\ pc[w] = "commit" => held[w] \in Settings
          /\ pc[w] = "fetch" => held[w] \in Providers

-----------------------------------------------------------------------------
(* Steps, flattened.                                                        *)

\* A worker takes along something of the kind its next step reads.
Takes(label, what) ==
    /\ label \in {"idle"} \cup StorePcs \cup SetupPcs
    /\ what \in Held
    /\ label \in FormPcs => what \in Forms
    /\ label = "commit" => what \in Settings
    /\ label = "fetch" => what \in Providers

LEMMA GotoTakes ==
    ASSUME SetupTypes, NEW w \in Workers, NEW label, NEW what, Takes(label, what),
           Goto(w, label, what),
           mem' \in Settings, table' \in Settings \cup {NoConfig}, accounts' \subseteq Accounts,
           runtime' \in Runtime, mishaps' \subseteq Mishaps
    PROVE  SetupTypes'
<1>1. /\ pc' \in [Workers -> {"idle"} \cup StorePcs \cup SetupPcs]
      /\ held' \in [Workers -> Held]
  BY DEF SetupTypes, Goto, Takes
<1>2. \A v \in Workers : /\ pc'[v] \in FormPcs => held'[v] \in Forms
                         /\ pc'[v] = "commit" => held'[v] \in Settings
                         /\ pc'[v] = "fetch" => held'[v] \in Providers
  BY DEF SetupTypes, Goto, Takes
<1>. QED
  BY <1>1, <1>2 DEF SetupTypes

LEMMA StepTaken ==
    ASSUME SetupTypes, NEW w \in Workers,
           Request(w) \/ ChangeConfig(w) \/ Save(w) \/ Setup(w)
    PROVE  \E label, what : Takes(label, what) /\ Goto(w, label, what)
<1>1. Takes("idle", Nothing) /\ Takes("snapshot", Nothing) /\ Takes("apply", Nothing)
  BY DEF Takes, Held, StorePcs, FormPcs, SetupPcs
<1>2. ASSUME NEW f \in Forms, NEW label \in FormPcs PROVE Takes(label, f)
  BY <1>2 DEF Takes, Held, StorePcs, FormPcs, SetupPcs
<1>3. CASE Request(w)
  BY <1>1, <1>2, <1>3 DEF Request, PutConfig, PutDiscovery, Begin, FormPcs
<1>4. CASE ChangeConfig(w)
  BY <1>1, <1>4 DEF ChangeConfig
<1>5. CASE Save(w)
  <2>1. Takes("commit", mem)
    BY DEF SetupTypes, Takes, Held, StorePcs, FormPcs, SetupPcs
  <2>2. mem.issuer # Off => Takes("fetch", [issuer |-> mem.issuer, claim |-> mem.claim])
    BY DEF SetupTypes, Takes, Held, StorePcs, FormPcs, SetupPcs, Providers, Settings
  <2>. QED
    BY <1>1, <1>5, <2>1, <2>2 DEF Save, Snapshot, Commit, Apply, StoreProvider, Answer
<1>6. CASE Setup(w)
  <2>1. ASSUME pc[w] \in SetupPcs, NEW label \in FormPcs PROVE Takes(label, held[w])
    BY <1>2, <2>1 DEF SetupTypes, FormPcs
  <2>2. CASE \E f \in Forms : SetupBegin(w, f)
    BY <1>2, <2>2 DEF SetupBegin, Begin, FormPcs, SetupPcs
  <2>3. CASE SetupCount(w)
    BY <1>1, <2>1, <2>3 DEF SetupCount, Answer, FormPcs, SetupPcs
  <2>4. CASE SetupGroup(w)
    BY <1>1, <2>1, <2>4 DEF SetupGroup, Answer, FormPcs, SetupPcs
  <2>5. CASE SetupCreate(w)
    BY <1>1, <2>1, <2>5 DEF SetupCreate, Answer, FormPcs, SetupPcs
  <2>6. CASE SetupComplete(w)
    BY <1>1, <2>6 DEF SetupComplete
  <2>. QED
    BY <1>6, <2>2, <2>3, <2>4, <2>5, <2>6 DEF Setup
<1>. QED
  BY <1>3, <1>4, <1>5, <1>6

\* What becomes of the settings of the administrators' group, of the flag and of the ways
\* of signing in when the wizard completes.
LEMMA CompletedType ==
    ASSUME mem \in Settings, NEW w \in Workers, held[w] \in Forms, SetupComplete(w)
    PROVE  /\ mem' \in Settings /\ mem'.setup /\ mem'.group = mem.group
           /\ mem'.proxy = held[w].proxy /\ mem'.local = held[w].local
           /\ mem'.issuer = held[w].issuer /\ mem'.trusted = held[w].trusted
<1> DEFINE s == Submitted(mem, held[w])
           c == IF held[w].issuer = Off THEN mem.claim ELSE ClaimUsed(held[w].claim)
<1>0. s \in Settings
  BY SubmittedType
<1>1. /\ s \in Settings /\ s.setup /\ s.proxy = held[w].proxy /\ s.local = held[w].local
      /\ s.issuer = held[w].issuer /\ s.trusted = held[w].trusted
  BY <1>0 DEF Submitted, Settings
<1>2. c \in Claims \cup {Blank} /\ mem.group \in Groups \cup {Blank}
  BY ConfigConstants DEF ClaimUsed, FormType, Settings
<1> HIDE DEF s, c
<1>3. mem' = [s EXCEPT !.group = mem.group, !.claim = c]
  BY DEF SetupComplete, s, c
<1>4. mem.group \in Groups \cup {Blank} /\ c \in Claims \cup {Blank}
      => [s EXCEPT !.group = mem.group, !.claim = c] \in Settings
  BY <1>1 DEF Settings
<1>5. /\ mem'.setup = s.setup /\ mem'.group = mem.group /\ mem'.proxy = s.proxy
      /\ mem'.local = s.local /\ mem'.issuer = s.issuer /\ mem'.trusted = s.trusted
  BY <1>1, <1>3 DEF Settings
<1>. QED
  BY <1>1, <1>2, <1>3, <1>4, <1>5

LEMMA ChangedType ==
    ASSUME mem \in Settings, NEW w \in Workers, held[w] \in Forms, ChangeConfig(w)
    PROVE  /\ mem' \in Settings /\ mem'.setup
           /\ mem'.proxy = held[w].proxy /\ mem'.local = held[w].local
           /\ mem'.issuer = held[w].issuer /\ mem'.trusted = held[w].trusted
<1>1. Submitted(mem, held[w]) \in Settings
  BY SubmittedType
<1>. QED
  BY <1>1 DEF ChangeConfig, Submitted, Settings

\* Everything else that touches the settings leaves the flag and the providers alone.
LEMMA OtherSettings ==
    ASSUME SetupTypes, NEW w \in Workers,
           Request(w) \/ Save(w) \/ (Setup(w) /\ ~SetupComplete(w))
    PROVE  /\ mem' \in Settings /\ mem'.setup = mem.setup
           /\ mem'.proxy = mem.proxy /\ mem'.local = mem.local /\ mem'.issuer = mem.issuer
           /\ mem'.trusted = mem.trusted
<1>. USE DEF SetupTypes
<1>1. CASE Request(w)
  BY <1>1 DEF Request, PutConfig, PutDiscovery, stores, Settings
<1>2. CASE Save(w)
  <2>1. CASE StoreProvider(w)
    <3>1. held[w].claim \in Claims \cup {Blank}
      BY <2>1 DEF StoreProvider, Providers
    <3>2. ClaimUsed(held[w].claim) \in Claims \cup {Blank}
      BY <3>1, ConfigConstants DEF ClaimUsed
    <3>. QED
      BY <2>1, <3>2 DEF StoreProvider, Settings
  <2>2. CASE ~StoreProvider(w)
    BY <1>2, <2>2 DEF Save, Snapshot, Commit, Apply, stores
  <2>. QED
    BY <2>1, <2>2
<1>3. CASE Setup(w) /\ ~SetupComplete(w)
  <2>1. CASE SetupGroup(w)
    <3>1. held[w] \in Forms
      BY <2>1 DEF SetupGroup, FormPcs, SetupPcs
    <3>2. (IF held[w].group = Blank THEN DefaultGroup ELSE held[w].group) \in Groups
      BY <3>1, ConfigConstants DEF FormType
    <3>. QED
      BY <2>1, <3>2 DEF SetupGroup, Settings
  <2>2. CASE ~SetupGroup(w)
    BY <1>3, <2>2 DEF Setup, SetupBegin, SetupCount, SetupCreate, stores
  <2>. QED
    BY <2>1, <2>2
<1>. QED
  BY <1>1, <1>2, <1>3

LEMMA TablesTyped ==
    ASSUME SetupTypes, NEW w \in Workers,
           Request(w) \/ ChangeConfig(w) \/ Save(w) \/ Setup(w)
    PROVE  /\ mem' \in Settings
           /\ table' \in Settings \cup {NoConfig}
           /\ accounts' \subseteq Accounts
           /\ runtime' \in Runtime
           /\ mishaps' \subseteq Mishaps
<1>. USE DEF SetupTypes
<1>1. mem' \in Settings
  <2>1. CASE ChangeConfig(w)
    <3>1. held[w] \in Forms
      BY <2>1 DEF ChangeConfig, FormPcs
    <3>. QED
      BY <2>1, <3>1, ChangedType
  <2>2. CASE SetupComplete(w)
    <3>1. held[w] \in Forms
      BY <2>2 DEF SetupComplete, FormPcs, SetupPcs
    <3>. QED
      BY <2>2, <3>1, CompletedType
  <2>3. CASE ~ChangeConfig(w) /\ ~SetupComplete(w)
    BY <2>3, OtherSettings
  <2>. QED
    BY <2>1, <2>2, <2>3
<1>2. table' \in Settings \cup {NoConfig}
  <2>1. CASE Commit(w)
    BY <2>1 DEF Commit
  <2>2. CASE ~Commit(w)
    BY <2>2 DEF Request, PutConfig, PutDiscovery, ChangeConfig, Save, Snapshot, Apply,
                StoreProvider, Setup, SetupBegin, SetupCount, SetupGroup, SetupCreate,
                SetupComplete, stores
  <2>. QED
    BY <2>1, <2>2
<1>3. accounts' \subseteq Accounts
  <2>1. CASE SetupCreate(w)
    BY <2>1 DEF SetupCreate, Accounts, Settings
  <2>2. CASE ~SetupCreate(w)
    BY <2>2 DEF Request, PutConfig, PutDiscovery, ChangeConfig, Save, Snapshot, Commit, Apply,
                StoreProvider, Setup, SetupBegin, SetupCount, SetupGroup, SetupComplete, stores
  <2>. QED
    BY <2>1, <2>2
<1>4. runtime' \in Runtime
  <2>1. CASE Apply(w)
    BY <2>1, AppliedType DEF Apply, Runtime
  <2>2. CASE StoreProvider(w)
    <3>1. held[w].issuer \in Issuers
      BY <2>2 DEF StoreProvider, Providers
    <3>. QED
      BY <2>2, <3>1 DEF StoreProvider, Runtime
  <2>3. CASE ~Apply(w) /\ ~StoreProvider(w)
    BY <2>3 DEF Request, PutConfig, PutDiscovery, ChangeConfig, Save, Snapshot, Commit, Setup,
                SetupBegin, SetupCount, SetupGroup, SetupCreate, SetupComplete, stores
  <2>. QED
    BY <2>1, <2>2, <2>3
<1>5. mishaps' \subseteq Mishaps
  <2>1. CASE Request(w) \/ Setup(w)
    BY <2>1 DEF Request, PutConfig, PutDiscovery, Begin, Overlapping, Mishaps, Setup, SetupBegin,
                SetupCount, SetupGroup, SetupCreate, SetupComplete
  <2>2. CASE ChangeConfig(w) \/ Save(w)
    BY <2>2 DEF ChangeConfig, Save, Snapshot, Commit, Apply, StoreProvider, Mishaps
  <2>. QED
    BY <2>1, <2>2
<1>. QED
  BY <1>1, <1>2, <1>3, <1>4, <1>5

LEMMA SetupTypesInit == SetupInit => SetupTypes
<1> SUFFICES ASSUME SetupInit PROVE SetupTypes
  OBVIOUS
<1>1. runtime \in Runtime
  <2>1. Stopped \in Runtime
    BY DEF Stopped, Runtime, Modes
  <2>. QED
    BY <2>1, DefaultsType, AppliedType DEF SetupInit, Runtime
<1>. QED
  BY <1>1, DefaultsType DEF SetupInit, SetupTypes, Held, FormPcs, SetupPcs

LEMMA SetupTypesStep == SetupTypes /\ [SetupNext]_vars => SetupTypes'
<1> SUFFICES ASSUME SetupTypes, [SetupNext]_vars PROVE SetupTypes'
  OBVIOUS
<1>1. ASSUME NEW w \in Workers, Request(w) \/ ChangeConfig(w) \/ Save(w) \/ Setup(w)
      PROVE  SetupTypes'
  BY <1>1, StepTaken, TablesTyped, GotoTakes
<1>2. CASE Restart
  <2>1. PICK loaded \in Settings, fetch1, fetch2, saves \in BOOLEAN :
           Boot(table, loaded, fetch1, fetch2, saves)
    BY <1>2, RestartBoots DEF SetupTypes
  <2>2. /\ mem' \in Settings /\ table' \in Settings \cup {NoConfig}
        /\ runtime' \in Runtime /\ mishaps' \subseteq Mishaps
    BY <2>1, BootType DEF SetupTypes
  <2>. QED
    BY <1>2, <2>2 DEF Restart, SetupTypes, Held, FormPcs, SetupPcs
<1>3. CASE UNCHANGED vars
  BY <1>3 DEF vars, SetupTypes
<1>. QED
  BY <1>1, <1>2, <1>3 DEF SetupNext, Next

-----------------------------------------------------------------------------
(* The wizard is open, or somebody can sign in.                             *)

\* A way of signing in with what it needs: a proxy has networks to be trusted from.
Usable(s) == s.local \/ (s.proxy /\ s.trusted # "none") \/ s.issuer # Off

\* Neither the wizard nor the settings handler refuses a proxy without networks, and the
\* settings handler accepts a form that switches everything off.
FormsUsable == \A f \in Forms : Usable(f)

PutDiscoveryStep(w) == \E enabled \in BOOLEAN : PutDiscovery(w, enabled)

\* Someone will still fetch the provider of the issuer that memory has.
Fetching == \E w \in Workers : pc[w] \in {"snapshot", "commit", "apply", "fetch"}

\* Local authentication is on, or will be, only where there is an account.
LocalInv ==
    "count" \notin mishaps =>
        /\ mem.local => accounts # {}
        /\ \A w \in Workers : pc[w] \in {"complete", "change"} /\ held[w].local
                              => accounts # {}

ProviderInv ==
    mishaps \cap {"save", "fetch"} = {} =>
        mem.issuer = Off \/ runtime.provider # Off \/ Fetching

\* Who has made an account before the wizard is closed goes on to close it.
ClosedInv ==
    /\ mem.setup => Usable(mem)
    /\ mem.setup \/ accounts = {} \/ \E w \in Workers : pc[w] = "complete"

OpenInv == SetupTypes /\ ClosedInv /\ LocalInv /\ ModeInv /\ ProviderInv

LEMMA OpenInit == SetupInit => OpenInv
<1> SUFFICES ASSUME SetupInit PROVE OpenInv
  OBVIOUS
<1>1. ClosedInv /\ LocalInv /\ ProviderInv
  BY DEF SetupInit, ClosedInv, LocalInv, ProviderInv, Defaults
<1>2. ModeInv
  BY DEF SetupInit, ModeInv, Follows, Applied, Defaults
<1>. QED
  BY <1>1, <1>2, SetupTypesInit DEF OpenInv

LEMMA ClosedStep ==
    ASSUME FormsUsable, ~Restarts, OpenInv, [SetupNext]_vars
    PROVE  ClosedInv'
<1>1. SetupTypes /\ SetupTypes'
  BY SetupTypesStep DEF OpenInv
<1>2. ASSUME NEW w \in Workers, ChangeConfig(w) \/ SetupComplete(w)
      PROVE  ClosedInv'
  <2>1. held[w] \in Forms /\ Usable(held[w])
    BY <1>1, <1>2 DEF SetupTypes, ChangeConfig, SetupComplete, FormPcs, SetupPcs, FormsUsable
  <2>2. mem'.setup /\ Usable(mem')
    BY <1>1, <1>2, <2>1, ChangedType, CompletedType DEF SetupTypes, Usable
  <2>. QED
    BY <2>2 DEF ClosedInv, Usable
<1>3. ASSUME NEW w \in Workers,
             Request(w) \/ Save(w) \/ (Setup(w) /\ ~SetupComplete(w))
      PROVE  ClosedInv'
  <2>1. /\ mem'.setup = mem.setup
        /\ Usable(mem)' = Usable(mem)
    BY <1>1, <1>3, OtherSettings DEF Usable
  <2>2. \A v \in Workers : pc[v] = "complete" => pc'[v] = "complete"
    <3>1. pc[w] # "complete"
      BY <1>3 DEF Request, PutConfig, PutDiscovery, Begin, Save, Snapshot, Commit, Apply,
                  StoreProvider, Setup, SetupBegin, SetupCount, SetupGroup, SetupCreate
    <3>2. \E label, what : Goto(w, label, what)
      BY <1>1, <1>3, StepTaken
    <3>. QED
      BY <1>1, <3>1, <3>2 DEF Goto, SetupTypes
  <2>3. accounts' = accounts \/ pc'[w] = "complete"
    <3>1. CASE SetupCreate(w)
      BY <1>1, <3>1 DEF SetupCreate, Goto, SetupTypes
    <3>2. CASE ~SetupCreate(w)
      BY <1>3, <3>2 DEF Request, PutConfig, PutDiscovery, Save, Snapshot, Commit, Apply,
                        StoreProvider, Setup, SetupBegin, SetupCount, SetupGroup, stores
    <3>. QED
      BY <3>1, <3>2
  <2>. QED
    BY <2>1, <2>2, <2>3 DEF OpenInv, ClosedInv
<1>4. CASE UNCHANGED vars
  BY <1>4 DEF vars, OpenInv, ClosedInv, Usable
<1>. QED
  BY <1>2, <1>3, <1>4 DEF SetupNext, Next, Setup, Restart

\* Only a step of a worker of its own changes what it holds.
LEMMA OthersStay ==
    ASSUME SetupTypes, NEW w \in Workers,
           Request(w) \/ ChangeConfig(w) \/ Save(w) \/ Setup(w)
    PROVE  \A v \in Workers : v # w => pc'[v] = pc[v] /\ held'[v] = held[v]
<1>1. \E label, what : Goto(w, label, what)
  BY StepTaken
<1>. QED
  BY <1>1 DEF Goto, SetupTypes

\* No step takes an account away, nor forgets that a count failed.
LEMMA AccountsStay ==
    ASSUME NEW w \in Workers, Request(w) \/ ChangeConfig(w) \/ Save(w) \/ Setup(w)
    PROVE  accounts \subseteq accounts' /\ mishaps \subseteq mishaps'
<1>1. CASE Request(w)
  BY <1>1 DEF Request, PutConfig, PutDiscovery, Begin, stores
<1>2. CASE ChangeConfig(w) \/ Save(w)
  BY <1>2 DEF ChangeConfig, Save, Snapshot, Commit, Apply, StoreProvider, stores
<1>3. CASE Setup(w)
  BY <1>3 DEF Setup, SetupBegin, SetupCount, SetupGroup, SetupCreate, SetupComplete, Begin,
              stores
<1>. QED
  BY <1>1, <1>2, <1>3

LEMMA LocalStep ==
    ASSUME ~Restarts, OpenInv, [SetupNext]_vars
    PROVE  LocalInv'
<1>1. SetupTypes
  BY DEF OpenInv
<1>2. ASSUME NEW w \in Workers, Request(w) \/ ChangeConfig(w) \/ Save(w) \/ Setup(w)
      PROVE  LocalInv'
  <2> SUFFICES ASSUME "count" \notin mishaps'
               PROVE  /\ mem'.local => accounts' # {}
                      /\ \A v \in Workers : pc'[v] \in {"complete", "change"} /\ held'[v].local
                                            => accounts' # {}
    BY DEF LocalInv
  <2>1. /\ accounts # {} => accounts' # {}
        /\ mem.local => accounts # {}
        /\ \A v \in Workers : pc[v] \in {"complete", "change"} /\ held[v].local
                              => accounts # {}
    BY <1>2, AccountsStay DEF OpenInv, LocalInv
  <2>2. mem'.local => accounts' # {}
    <3>1. CASE ChangeConfig(w)
      <4>1. held[w] \in Forms /\ pc[w] = "change"
        BY <1>1, <3>1 DEF ChangeConfig, SetupTypes, FormPcs
      <4>2. mem'.local = held[w].local
        BY <1>1, <3>1, <4>1, ChangedType DEF SetupTypes
      <4>. QED
        BY <2>1, <4>1, <4>2
    <3>2. CASE SetupComplete(w)
      <4>1. held[w] \in Forms /\ pc[w] = "complete"
        BY <1>1, <3>2 DEF SetupComplete, SetupTypes, FormPcs, SetupPcs
      <4>2. mem'.local = held[w].local
        BY <1>1, <3>2, <4>1, CompletedType DEF SetupTypes
      <4>. QED
        BY <2>1, <4>1, <4>2
    <3>3. CASE ~ChangeConfig(w) /\ ~SetupComplete(w)
      <4>1. mem'.local = mem.local
        BY <1>1, <1>2, <3>3, OtherSettings
      <4>. QED
        BY <2>1, <4>1
    <3>. QED
      BY <3>1, <3>2, <3>3
  <2>3. pc'[w] \in {"complete", "change"} /\ held'[w].local => accounts' # {}
    <3>1. CASE \E f \in Forms : PutConfig(w, f)
      <4>1. PICK f \in Forms : PutConfig(w, f)
        BY <3>1
      <4>2. "count" \notin (IF f.local /\ ~mem.local /\ accounts = {} THEN {"count"} ELSE {})
        BY <4>1 DEF PutConfig, Begin
      <4>3. held'[w] = f /\ accounts' = accounts
        BY <1>1, <4>1 DEF PutConfig, Begin, Goto, stores, SetupTypes
      <4>. QED
        BY <2>1, <4>2, <4>3
    <3>2. CASE SetupGroup(w)
      BY <1>1, <3>2 DEF SetupGroup, Goto, Answer, SetupTypes
    <3>3. CASE SetupCreate(w)
      BY <1>1, <3>3 DEF SetupCreate, Goto, Answer, SetupTypes
    <3>4. CASE ~(\E f \in Forms : PutConfig(w, f)) /\ ~SetupGroup(w) /\ ~SetupCreate(w)
      BY <1>1, <1>2, <3>4
         DEF Request, PutDiscovery, Begin, ChangeConfig, Save, Snapshot, Commit, Apply,
             StoreProvider, Setup, SetupBegin, SetupCount, SetupComplete, Goto, Answer,
             SetupTypes
    <3>. QED
      BY <3>1, <3>2, <3>3, <3>4
  <2>. QED
    BY <1>1, <1>2, <2>1, <2>2, <2>3, OthersStay
<1>3. CASE UNCHANGED vars
  BY <1>3 DEF vars, OpenInv, LocalInv
<1>. QED
  BY <1>2, <1>3 DEF SetupNext, Next, Restart

LEMMA ModeStaysStep ==
    ASSUME ~Restarts, OpenInv, [SetupNext]_vars
    PROVE  ModeInv'
<1>1. SetupTypes /\ ModeInv
  BY DEF OpenInv
<1>2. ASSUME NEW w \in Workers, ChangeConfig(w) \/ PutDiscoveryStep(w) \/ Snapshot(w)
                                \/ SetupComplete(w)
      PROVE  ModeInv'
  <2>1. pc'[w] \in {"snapshot", "commit"}
    BY <1>1, <1>2 DEF ChangeConfig, PutDiscoveryStep, PutDiscovery, Begin, Snapshot,
                      SetupComplete, Goto, SetupTypes
  <2>. QED
    BY <2>1 DEF ModeInv, Pending
<1>3. ASSUME NEW w \in Workers, Commit(w) PROVE ModeInv'
  BY <1>1, <1>3 DEF Commit, Goto, Answer, ModeInv, Pending, SetupTypes, Follows, ModeOf
<1>4. ASSUME NEW w \in Workers, Apply(w) PROVE ModeInv'
  BY <1>1, <1>4 DEF Apply, Applied, ModeInv, Follows, ModeOf
<1>5. ASSUME NEW w \in Workers,
             \/ \E f \in Forms : PutConfig(w, f)
             \/ StoreProvider(w)
             \/ Setup(w) /\ ~SetupComplete(w)
      PROVE  ModeInv'
  <2>1. /\ mem'.local = mem.local /\ mem'.proxy = mem.proxy /\ mem'.trusted = mem.trusted
    BY <1>1, <1>5, OtherSettings DEF Request, Save
  <2>2. /\ runtime'.mode = runtime.mode /\ runtime'.trusted = runtime.trusted
        /\ mishaps \subseteq mishaps'
    <3>1. CASE StoreProvider(w)
      BY <1>1, <3>1 DEF StoreProvider, SetupTypes, Runtime
    <3>2. CASE ~StoreProvider(w)
      BY <1>5, <3>2 DEF PutConfig, Begin, Setup, SetupBegin, SetupCount, SetupGroup,
                        SetupCreate, stores
    <3>. QED
      BY <3>1, <3>2
  <2>3. ModeOf(mem)' = ModeOf(mem)
    BY <2>1 DEF ModeOf
  <2>4. Follows => Follows'
    BY <2>1, <2>2, <2>3 DEF Follows
  <2>5. pc[w] \notin {"snapshot", "commit", "apply"}
    BY <1>5 DEF PutConfig, Begin, StoreProvider, Setup, SetupBegin, SetupCount, SetupGroup,
                SetupCreate
  <2>6. \A v \in Workers : v # w => pc'[v] = pc[v]
    BY <1>1, <1>5, OthersStay DEF Request, Save
  <2>7. Pending => Pending'
    BY <2>5, <2>6 DEF Pending
  <2>. QED
    BY <1>1, <2>2, <2>4, <2>7 DEF ModeInv
<1>6. CASE UNCHANGED vars
  BY <1>1, <1>6 DEF vars, ModeInv, Follows, Pending, ModeOf
<1>. QED
  BY <1>2, <1>3, <1>4, <1>5, <1>6
     DEF SetupNext, Next, Request, PutDiscoveryStep, Save, Setup, Restart

LEMMA ProviderStep ==
    ASSUME ~Restarts, OpenInv, [SetupNext]_vars
    PROVE  ProviderInv'
<1>1. SetupTypes /\ ProviderInv
  BY DEF OpenInv
<1>2. ASSUME NEW w \in Workers, ChangeConfig(w) \/ PutDiscoveryStep(w) \/ Snapshot(w)
                                \/ SetupComplete(w)
      PROVE  ProviderInv'
  <2>1. pc'[w] \in {"snapshot", "commit"}
    BY <1>1, <1>2 DEF ChangeConfig, PutDiscoveryStep, PutDiscovery, Begin, Snapshot,
                      SetupComplete, Goto, SetupTypes
  <2>. QED
    BY <2>1 DEF ProviderInv, Fetching
<1>3. ASSUME NEW w \in Workers, Commit(w) PROVE ProviderInv'
  <2>1. CASE "save" \in mishaps'
    BY <2>1 DEF ProviderInv
  <2>2. CASE "save" \notin mishaps'
    <3>1. pc'[w] = "apply"
      BY <1>1, <1>3, <2>2 DEF Commit, Goto, SetupTypes
    <3>. QED
      BY <3>1 DEF ProviderInv, Fetching
  <2>. QED
    BY <2>1, <2>2
<1>4. ASSUME NEW w \in Workers, Apply(w) PROVE ProviderInv'
  <2>1. mem' = mem
    BY <1>4 DEF Apply
  <2>2. mem.issuer # Off => pc'[w] = "fetch"
    BY <1>1, <1>4 DEF Apply, Goto, SetupTypes
  <2>. QED
    BY <2>1, <2>2 DEF ProviderInv, Fetching
<1>5. ASSUME NEW w \in Workers, StoreProvider(w) PROVE ProviderInv'
  <2>1. CASE "fetch" \in mishaps'
    BY <2>1 DEF ProviderInv
  <2>2. CASE "fetch" \notin mishaps'
    <3>1. held[w].issuer \in Issuers
      BY <1>1, <1>5 DEF StoreProvider, SetupTypes, Providers
    <3>2. runtime'.provider = held[w].issuer
      BY <1>1, <1>5, <2>2 DEF StoreProvider, SetupTypes, Runtime
    <3>. QED
      BY <3>1, <3>2, ConfigConstants DEF ProviderInv
  <2>. QED
    BY <2>1, <2>2
<1>6. ASSUME NEW w \in Workers,
             (\E f \in Forms : PutConfig(w, f)) \/ (Setup(w) /\ ~SetupComplete(w))
      PROVE  ProviderInv'
  <2>1. mem'.issuer = mem.issuer
    BY <1>1, <1>6, OtherSettings DEF Request
  <2>2. runtime' = runtime /\ mishaps \subseteq mishaps'
    BY <1>6 DEF PutConfig, Begin, Setup, SetupBegin, SetupCount, SetupGroup, SetupCreate, stores
  <2>3. pc[w] \notin {"snapshot", "commit", "apply", "fetch"}
    BY <1>6 DEF PutConfig, Begin, Setup, SetupBegin, SetupCount, SetupGroup, SetupCreate
  <2>4. \A v \in Workers : v # w => pc'[v] = pc[v]
    BY <1>1, <1>6, OthersStay DEF Request
  <2>5. Fetching => Fetching'
    BY <2>3, <2>4 DEF Fetching
  <2>. QED
    BY <1>1, <2>1, <2>2, <2>5 DEF ProviderInv
<1>7. CASE UNCHANGED vars
  BY <1>1, <1>7 DEF vars, ProviderInv, Fetching
<1>. QED
  BY <1>2, <1>3, <1>4, <1>5, <1>6, <1>7
     DEF SetupNext, Next, Request, PutDiscoveryStep, Save, Setup, Restart

\* However attempts at the setup overlap and fail, and whatever administrators do beside
\* them: once all is answered, and no save, fetch or count has failed, the wizard is open,
\* or somebody can sign in with what is in force; and local authentication is on only
\* where there is an account, unless a count failed.  Provided that the process is not
\* restarted half-way, and that no form leaves every way of signing in unusable.
THEOREM WizardOrLogin ==
    ASSUME FormsUsable, ~Restarts
    PROVE  SetupSpec => []SetupOrLogin
<1>1. OpenInv /\ [SetupNext]_vars => OpenInv'
  BY SetupTypesStep, ClosedStep, LocalStep, ModeStaysStep, ProviderStep DEF OpenInv
<1>2. OpenInv => SetupOrLogin
  <2> SUFFICES ASSUME OpenInv, AllIdle PROVE SetupOrLogin
    BY DEF SetupOrLogin
  <2>1. "count" \notin mishaps => (mem.local => accounts # {})
    BY DEF OpenInv, LocalInv
  <2>2. ASSUME mishaps \cap {"save", "fetch", "count"} = {}, ~NeedsSetup
        PROVE  CanSignIn
    <3>1. mem.setup /\ Usable(mem)
      BY <2>2 DEF OpenInv, ClosedInv, AllIdle, NeedsSetup
    <3>2. Follows
      BY <2>2 DEF OpenInv, ModeInv, Pending, AllIdle
    <3>3. mem.issuer = Off \/ runtime.provider # Off
      BY <2>2 DEF OpenInv, ProviderInv, Fetching, AllIdle
    <3>. QED
      BY <2>1, <2>2, <3>1, <3>2, <3>3 DEF Usable, Follows, CanSignIn
  <2>. QED
    BY <2>1, <2>2 DEF SetupOrLogin
<1>. QED
  BY OpenInit, <1>1, <1>2, PTL DEF SetupSpec

-----------------------------------------------------------------------------
(* The account the wizard makes is an administrator.                        *)

\* While no requests overlap, the group of the account is still the one configured.
MadeInv ==
    /\ SetupTypes
    /\ "overlap" \notin mishaps =>
          /\ Alone
          /\ \A w \in Workers : pc[w] = "complete" /\ held[w].local =>
                \E a \in accounts : a.group = mem.group

LEMMA MadeInit == SetupInit => MadeInv
  BY SetupTypesInit DEF SetupInit, MadeInv, Alone

LEMMA MadeStep ==
    ASSUME MadeInv, [SetupNext]_vars
    PROVE  MadeInv'
<1>1. SetupTypes /\ SetupTypes'
  BY SetupTypesStep DEF MadeInv
<1>. SUFFICES ASSUME "overlap" \notin mishaps'
              PROVE  /\ Alone'
                     /\ \A w \in Workers : pc'[w] = "complete" /\ held'[w].local =>
                           \E a \in accounts' : a.group = mem'.group
  BY <1>1 DEF MadeInv
<1>2. ASSUME NEW w \in Workers, Request(w) \/ ChangeConfig(w) \/ Save(w) \/ Setup(w)
      PROVE  \A v \in Workers : v # w => pc'[v] = "idle"
  <2>1. \E label, what : Goto(w, label, what)
    BY <1>1, <1>2, StepTaken
  <2>2. "overlap" \notin mishaps
    BY <1>2 DEF Request, PutConfig, PutDiscovery, Begin, ChangeConfig, Save, Snapshot, Commit,
                Apply, StoreProvider, Setup, SetupBegin, SetupCount, SetupGroup, SetupCreate,
                SetupComplete
  <2>3. CASE pc[w] = "idle"
    <3>1. \E label, what, failed : Begin(w, label, what, failed)
      BY <1>2, <2>3 DEF Request, PutConfig, PutDiscovery, Begin, ChangeConfig, Save, Snapshot,
                  Commit, Apply, StoreProvider, Setup, SetupBegin, SetupCount, SetupGroup,
                  SetupCreate, SetupComplete
    <3>2. \A v \in Workers : pc[v] = "idle"
      BY <3>1 DEF Begin, Overlapping
    <3>. QED
      BY <1>1, <2>1, <3>2 DEF Goto, SetupTypes
  <2>4. CASE pc[w] # "idle"
    <3>1. \A v \in Workers : v # w => pc[v] = "idle"
      BY <2>2, <2>4 DEF MadeInv, Alone
    <3>. QED
      BY <1>1, <2>1, <3>1 DEF Goto, SetupTypes
  <2>. QED
    BY <2>3, <2>4
<1>3. ASSUME NEW w \in Workers, Request(w) \/ ChangeConfig(w) \/ Save(w) \/ Setup(w)
      PROVE  pc'[w] = "complete" /\ held'[w].local => \E a \in accounts' : a.group = mem'.group
  <2>1. CASE SetupCreate(w)
    <3>1. CASE Answer(w)
      BY <1>1, <3>1 DEF Goto, Answer, SetupTypes
    <3>2. CASE ~Answer(w)
      <4>1. PICK n \in Names : accounts' = accounts \cup {[name |-> n, group |-> mem.group]}
        BY <2>1, <3>2 DEF SetupCreate
      <4>2. [name |-> n, group |-> mem.group] \in accounts' /\ mem' = mem
        BY <2>1, <4>1 DEF SetupCreate
      <4>3. [name |-> n, group |-> mem.group].group = mem'.group
        BY <4>2
      <4>. QED
        BY <4>2, <4>3
    <3>. QED
      BY <3>1, <3>2
  <2>2. CASE SetupGroup(w)
    <3>1. CASE Answer(w)
      BY <1>1, <3>1 DEF Goto, Answer, SetupTypes
    <3>2. CASE ~Answer(w)
      <4>1. Goto(w, IF held[w].local THEN "create" ELSE "complete", held[w])
        BY <2>2, <3>2 DEF SetupGroup
      <4>2. pc'[w] = (IF held[w].local THEN "create" ELSE "complete") /\ held'[w] = held[w]
        BY <1>1, <4>1 DEF Goto, SetupTypes
      <4>. QED
        BY <4>2
    <3>. QED
      BY <3>1, <3>2
  <2>3. CASE ~SetupCreate(w) /\ ~SetupGroup(w)
    <3>1. pc'[w] # "complete"
      BY <1>1, <1>3, <2>3
         DEF Request, PutConfig, PutDiscovery, Begin, ChangeConfig, Save, Snapshot, Commit,
             Apply, StoreProvider, Setup, SetupBegin, SetupCount, SetupComplete,
             Goto, Answer, SetupTypes
    <3>. QED
      BY <3>1
  <2>. QED
    BY <2>1, <2>2, <2>3
<1>4. CASE \E w \in Workers : Request(w) \/ ChangeConfig(w) \/ Save(w) \/ Setup(w)
  <2>1. PICK w \in Workers : Request(w) \/ ChangeConfig(w) \/ Save(w) \/ Setup(w)
    BY <1>4
  <2>. QED
    BY <1>2, <1>3, <2>1 DEF Alone
<1>5. CASE Restart
  BY <1>5 DEF Restart, Alone
<1>6. CASE UNCHANGED vars
  BY <1>6 DEF vars, MadeInv, Alone
<1>. QED
  BY <1>4, <1>5, <1>6 DEF SetupNext, Next

\* The wizard that completes a setup with local accounts leaves one in the group it
\* configures as the administrators', whatever group earlier attempts left in memory,
\* unless it met another request.
THEOREM WizardLeavesAnAdmin == SetupSpec => WizardMakesAnAdmin
<1>1. ASSUME MadeInv, NEW w \in Workers, SetupComplete(w), held[w].local,
             "overlap" \notin mishaps
      PROVE  \E a \in accounts : a.group = mem'.group
  <2>1. mem'.group = mem.group
    BY <1>1, CompletedType DEF MadeInv, SetupTypes, SetupComplete, FormPcs, SetupPcs
  <2>. QED
    BY <1>1, <2>1 DEF MadeInv, SetupComplete
<1>2. MadeInv =>
        [\A w \in Workers :
           SetupComplete(w) /\ held[w].local /\ "overlap" \notin mishaps =>
               \E a \in accounts : a.group = mem'.group]_vars
  BY <1>1
<1>3. MadeInv /\ [SetupNext]_vars => MadeInv'
  BY MadeStep
<1>. QED
  BY MadeInit, <1>2, <1>3, PTL DEF SetupSpec, WizardMakesAnAdmin
=============================================================================
