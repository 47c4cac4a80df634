---------------------------- MODULE CatalogFile ----------------------------
(***************************************************************************)
(* The application catalogue of DashGate: categories and applications in   *)
(* memory (app.Config), the groups that may see an application             *)
(* (app.AppMappings), and the two YAML files that keep them.               *)
(*                                                                         *)
(* A request edits memory under a mutex and writes the files after giving  *)
(* the mutex up: config.yaml through the one temporary file all requests   *)
(* share, the mappings in place.  Every critical section and every call to *)
(* the file system is an action; os.WriteFile is two, since it empties the *)
(* file before it writes.  A process may die between any two of them.      *)
(*                                                                         *)
(* An application is its URL, which the handlers keep unique; its name,    *)
(* icon and default groups, and the groups a mapping gives, are left out.  *)
(* Categories keep their order, for two of them may share a name.          *)
(*                                                                         *)
(* trouble is no state of the program: it remembers the worst that ever    *)
(* happened, for the promises that are made for calm days only.            *)
(***************************************************************************)
EXTENDS Naturals, Sequences, SequencesExt, FiniteSetsExt

CONSTANTS
    Workers,  \* goroutines that serve administration requests
    Urls,     \* URLs of applications
    Cats,     \* names of categories
    MaxCats,  \* bound: categories in memory
    Patience, \* bound: a request begins while nothing worse than this happened,
              \* and beside another one while nothing as bad as this happened
    Torn,     \* content of a file that was not written whole
    Absent,   \* there is no temporary file
    Nothing,  \* a goroutine holds nothing
    Faults    \* calls to the file system may fail

Category == [name : Cats, apps : SUBSET Urls]
Catalogs == Seq(Category)

ASSUME CatalogConstants ==
    /\ MaxCats \in Nat /\ Patience \in Nat
    /\ Torn \notin Catalogs /\ Absent \notin Catalogs /\ Torn # Absent
    /\ \A us \in SUBSET Urls : Torn # us
    /\ Faults \in BOOLEAN

VARIABLES
    mem,      \* app.Config.Categories
    maps,     \* the URLs app.AppMappings has groups for
    config,   \* content of config.yaml
    tmp,      \* content of config.yaml.tmp
    mapFile,  \* content of the mappings file
    at,       \* where the file a worker opened is by now: renames carry it along
    pc,       \* the next step of each worker
    held,     \* what its goroutine carries there
    trouble   \* the worst that ever happened

files == <<config, tmp, mapFile, at>>
vars == <<mem, maps, config, tmp, mapFile, at, pc, held, trouble>>

\* Nothing; a call failed or a request died; two requests at once; a file that was to
\* repair memory was torn, or could not be read either.
Calm == 0
Failed == 1
Overlap == 2
Unread == 3
AtLeast(level) == IF trouble < level THEN level ELSE trouble

Goto(w, label, what) ==
    /\ pc' = [pc EXCEPT ![w] = label]
    /\ held' = [held EXCEPT ![w] = what]

Answer(w) == Goto(w, "idle", Nothing)

AllIdle == \A w \in Workers : pc[w] = "idle"

Begin(w, label, what) ==
    /\ pc[w] = "idle"
    /\ trouble <= Patience /\ (AllIdle \/ trouble # Patience)
    /\ Goto(w, label, what)
    /\ trouble' = AtLeast(IF AllIdle THEN Calm ELSE Overlap)

-----------------------------------------------------------------------------
(* Catalogues.                                                              *)

UrlsOf(c) == UNION {c[i].apps : i \in DOMAIN c}
Named(c, n) == {i \in DOMAIN c : c[i].name = n}

\* The application goes to the first category of that name, or to a new one.
With(c, u, n) ==
    IF Named(c, n) = {}
    THEN Append(c, [name |-> n, apps |-> {u}])
    ELSE [c EXCEPT ![Min(Named(c, n))].apps = @ \cup {u}]

\* A category goes with its last application.
Without(c, u) ==
    LET i == Min({j \in DOMAIN c : u \in c[j].apps})
    IN  IF c[i].apps = {u} THEN RemoveAt(c, i) ELSE [c EXCEPT ![i].apps = @ \ {u}]

\* Writing into a file after emptying it: what another request wrote there
\* meanwhile may be longer.
Over(old, new) == {new} \cup (IF old = Torn THEN {} ELSE {Torn})

\* What is left of a file that was cut short, where it still parses: of all the parts
\* it could be, none.
Fragment == <<>>

-----------------------------------------------------------------------------
(* Editing the catalogue: each handler up to its SaveConfig.                *)

Edit(w, c, label, what) ==
    /\ Begin(w, label, what)
    /\ Len(c) <= MaxCats
    /\ mem' = c
    /\ UNCHANGED files

AddApp(w, u, n) ==
    /\ u \notin UrlsOf(mem)
    /\ Edit(w, With(mem, u, n), "marshal", Nothing)
    /\ UNCHANGED maps

\* Mutant: the new URL may be that of another application.
MoveAppUnchecked(w, u, v, n) ==
    /\ u \in UrlsOf(mem)
    /\ Edit(w, With(Without(mem, u), v, n), IF v = u THEN "marshal" ELSE "mapSnap",
            IF v = u THEN Nothing ELSE [then |-> "marshal"])
    /\ maps' = IF u # v /\ u \in maps THEN (maps \ {u}) \cup {v} ELSE maps

\* PUT: another URL, another category; a mapping moves to the new URL.
MoveApp(w, u, v, n) ==
    /\ u \in UrlsOf(mem)
    /\ v # u => v \notin UrlsOf(mem)
    /\ Edit(w, With(Without(mem, u), v, n), IF v = u THEN "marshal" ELSE "mapSnap",
            IF v = u THEN Nothing ELSE [then |-> "marshal"])
    /\ maps' = IF u # v /\ u \in maps THEN (maps \ {u}) \cup {v} ELSE maps

\* Mutant: the mapping outlives the application.
DeleteAppKeepsMapping(w, u) ==
    /\ u \in UrlsOf(mem)
    /\ Edit(w, Without(mem, u), "marshal", Nothing)
    /\ UNCHANGED maps

DeleteApp(w, u) ==
    /\ u \in UrlsOf(mem)
    /\ Edit(w, Without(mem, u), "unmap", [url |-> u])
    /\ UNCHANGED maps

\* DELETE again, under the mutex of the mappings.
Unmap(w) ==
    /\ pc[w] = "unmap"
    /\ maps' = maps \ {held[w].url}
    /\ Goto(w, "mapSnap", [then |-> "marshal"])
    /\ UNCHANGED <<mem, files, trouble>>

AddCategory(w, n) ==
    /\ Named(mem, n) = {}
    /\ Edit(w, Append(mem, [name |-> n, apps |-> {}]), "marshal", Nothing)
    /\ UNCHANGED maps

\* Nothing keeps the new name from being one there is.
RenameCategory(w, m, n) ==
    /\ Named(mem, m) # {}
    /\ Edit(w, [mem EXCEPT ![Min(Named(mem, m))].name = n], "marshal", Nothing)
    /\ UNCHANGED maps

\* Mutant: every category of that name goes.
DeleteCategoryAll(w, n) ==
    /\ Named(mem, n) # {}
    /\ mem[Min(Named(mem, n))].apps = {}
    /\ Edit(w, SelectSeq(mem, LAMBDA k : k.name # n), "marshal", Nothing)
    /\ UNCHANGED maps

\* Only an empty category, the first of that name.
DeleteCategory(w, n) ==
    /\ Named(mem, n) # {}
    /\ mem[Min(Named(mem, n))].apps = {}
    /\ Edit(w, RemoveAt(mem, Min(Named(mem, n))), "marshal", Nothing)
    /\ UNCHANGED maps

-----------------------------------------------------------------------------
(* The mapping of an application, and the file of mappings.                 *)

\* AdminAppMappingHandler: the application is looked up under one mutex ...
MapBegin(w, u, on) ==
    /\ u \in UrlsOf(mem)
    /\ Begin(w, "mapSet", [url |-> u, on |-> on])
    /\ UNCHANGED <<mem, maps, files>>

\* ... and its mapping set, or dropped when no group is left, under another.
MapSet(w) ==
    /\ pc[w] = "mapSet"
    /\ maps' = IF held[w].on THEN maps \cup {held[w].url} ELSE maps \ {held[w].url}
    /\ Goto(w, "mapSnap", [then |-> "idle"])
    /\ UNCHANGED <<mem, files, trouble>>

\* SaveAppMappings: a snapshot under the read lock, then os.WriteFile.
MapSnapshot(w) ==
    /\ pc[w] = "mapSnap"
    /\ Goto(w, "mapOpen", [then |-> held[w].then, maps |-> maps])
    /\ UNCHANGED <<mem, maps, files, trouble>>

\* The application handlers go on whatever came of it.
MapDone(w) == IF held[w].then = "idle" THEN Answer(w) ELSE Goto(w, "marshal", Nothing)

MapFails(w) ==
    /\ Faults
    /\ MapDone(w)
    /\ trouble' = AtLeast(Failed)

MapOpen(w) ==
    /\ pc[w] = "mapOpen"
    /\ \/ /\ mapFile' = Torn
          /\ Goto(w, "mapWrite", held[w])
          /\ UNCHANGED trouble
       \/ MapFails(w) /\ UNCHANGED mapFile
    /\ UNCHANGED <<mem, maps, config, tmp, at>>

MapWrite(w) ==
    /\ pc[w] = "mapWrite"
    /\ \/ /\ mapFile' \in Over(mapFile, held[w].maps)
          /\ MapDone(w)
          /\ UNCHANGED trouble
       \/ MapFails(w) /\ UNCHANGED mapFile
    /\ UNCHANGED <<mem, maps, config, tmp, at>>

-----------------------------------------------------------------------------
(* SaveConfig.                                                              *)

\* Mutant: the goroutine forgets what it is to write.
MarshalForgotten(w) ==
    /\ pc[w] = "marshal"
    /\ Goto(w, "open", Nothing)
    /\ UNCHANGED <<mem, maps, files, trouble>>

Marshal(w) ==
    /\ pc[w] = "marshal"
    /\ Goto(w, "open", [catalog |-> mem])
    /\ UNCHANGED <<mem, maps, files, trouble>>

SaveFails(w) ==
    /\ Goto(w, "remove", Nothing)
    /\ trouble' = AtLeast(Failed)

\* Mutant: config.yaml is written in place.
OpenInPlace(w) ==
    /\ pc[w] = "open"
    /\ config' = Torn
    /\ at' = [at EXCEPT ![w] = "config"]
    /\ Goto(w, "write", held[w])
    /\ UNCHANGED <<mem, maps, tmp, mapFile, trouble>>

\* The temporary file is created, or emptied under whoever else has it open.
Open(w) ==
    /\ pc[w] = "open"
    /\ \/ /\ tmp' = Torn
          /\ at' = [at EXCEPT ![w] = "tmp"]
          /\ Goto(w, "write", held[w])
          /\ UNCHANGED trouble
       \/ Faults /\ SaveFails(w) /\ UNCHANGED <<tmp, at>>
    /\ UNCHANGED <<mem, maps, config, mapFile>>

Write(w) ==
    /\ pc[w] = "write"
    /\ \/ /\ Goto(w, "rename", Nothing)
          /\ \/ at[w] = "tmp" /\ tmp' \in Over(tmp, held[w].catalog) /\ UNCHANGED config
             \/ at[w] = "config" /\ config' \in Over(config, held[w].catalog) /\ UNCHANGED tmp
             \/ at[w] = "gone" /\ UNCHANGED <<tmp, config>>
          /\ UNCHANGED trouble
       \/ Faults /\ SaveFails(w) /\ UNCHANGED <<tmp, config>>
    /\ at' = [at EXCEPT ![w] = "none"]
    /\ UNCHANGED <<mem, maps, mapFile>>

\* The temporary file becomes config.yaml, even while another request writes it;
\* there may be none any more, when another request renamed it first.
Rename(w) ==
    /\ pc[w] = "rename"
    /\ \/ /\ tmp # Absent
          /\ config' = tmp
          /\ tmp' = Absent
          /\ at' = [v \in Workers |-> CASE at[v] = "tmp" -> "config"
                                        [] at[v] = "config" -> "gone"
                                        [] OTHER -> at[v]]
          /\ Answer(w)
          /\ UNCHANGED trouble
       \/ /\ tmp = Absent \/ Faults
          /\ SaveFails(w)
          /\ UNCHANGED <<config, tmp, at>>
    /\ UNCHANGED <<mem, maps, mapFile>>

\* Mutant: a request that failed leaves memory as it is.
RemoveTmpOnly(w) ==
    /\ pc[w] = "remove"
    /\ tmp' = Absent
    /\ at' = [v \in Workers |-> IF at[v] = "tmp" THEN "gone" ELSE at[v]]
    /\ Answer(w)
    /\ UNCHANGED <<mem, maps, config, mapFile, trouble>>

\* os.Remove, whoever created the file; should it fail, the file stays.
RemoveTmp(w) ==
    /\ pc[w] = "remove"
    /\ \/ /\ tmp' = Absent
          /\ at' = [v \in Workers |-> IF at[v] = "tmp" THEN "gone" ELSE at[v]]
       \/ Faults /\ UNCHANGED <<tmp, at>>
    /\ Goto(w, "reload", Nothing)
    /\ UNCHANGED <<mem, maps, config, mapFile, trouble>>

\* ReloadConfig: the file is read before the mutex is taken; when it cannot be read
\* memory stays as it is.
Reload(w) ==
    /\ pc[w] = "reload"
    /\ \/ Goto(w, "restore", [catalog |-> config]) /\ UNCHANGED trouble
       \/ Faults /\ Answer(w) /\ trouble' = AtLeast(Unread)
    /\ UNCHANGED <<mem, maps, files>>

\* What does not parse changes nothing.
Restore(w) ==
    /\ pc[w] = "restore"
    /\ \/ held[w].catalog # Torn /\ mem' = held[w].catalog /\ UNCHANGED trouble
       \/ held[w].catalog = Torn /\ mem' \in {mem, Fragment} /\ trouble' = AtLeast(Unread)
    /\ Answer(w)
    /\ UNCHANGED <<maps, files>>

-----------------------------------------------------------------------------
(* A new process.  It does not start at all from a config.yaml that does    *)
(* not parse; mappings that do not parse are none.                          *)
Restart ==
    /\ mem' = IF config = Torn THEN Fragment ELSE config
    /\ maps' = IF mapFile = Torn THEN {} ELSE mapFile
    /\ trouble' = AtLeast(IF config = Torn THEN Unread
                          ELSE IF AllIdle THEN Calm ELSE Failed)
    /\ at' = [w \in Workers |-> "none"]
    /\ pc' = [w \in Workers |-> "idle"]
    /\ held' = [w \in Workers |-> Nothing]
    /\ UNCHANGED <<config, tmp, mapFile>>

\* The default file of a first start, without mappings.
Init ==
    /\ mem = <<>> /\ config = <<>> /\ tmp = Absent
    /\ maps = {} /\ mapFile = {}
    /\ at = [w \in Workers |-> "none"]
    /\ pc = [w \in Workers |-> "idle"]
    /\ held = [w \in Workers |-> Nothing]
    /\ trouble = Calm

EditCategory(w) ==
    \E m, n \in Cats : AddCategory(w, n) \/ RenameCategory(w, m, n) \/ DeleteCategory(w, n)

EditApp(w) ==
    \E u, v \in Urls, n \in Cats :
        AddApp(w, u, n) \/ MoveApp(w, u, v, n) \/ DeleteApp(w, u)

SaveMappings(w) == MapSnapshot(w) \/ MapOpen(w) \/ MapWrite(w)

SaveConfig(w) ==
    \/ Marshal(w) \/ Open(w) \/ Write(w) \/ Rename(w)
    \/ RemoveTmp(w) \/ Reload(w) \/ Restore(w)

Next ==
    \/ \E w \in Workers :
          \/ EditCategory(w) \/ EditApp(w) \/ Unmap(w)
          \/ \E u \in Urls, on \in BOOLEAN : MapBegin(w, u, on)
          \/ MapSet(w) \/ SaveMappings(w) \/ SaveConfig(w)
    \/ Restart

Spec == Init /\ [][Next]_vars

-----------------------------------------------------------------------------
(* Properties.                                                              *)

Pcs == {"idle", "unmap", "mapSet", "mapSnap", "mapOpen", "mapWrite", "marshal",
        "open", "write", "rename", "remove", "reload", "restore"}

TypeOK ==
    /\ mem \in Catalogs
    /\ maps \subseteq Urls
    /\ config \in Catalogs \cup {Torn}
    /\ tmp \in Catalogs \cup {Torn, Absent}
    /\ mapFile = Torn \/ mapFile \subseteq Urls
    /\ at \in [Workers -> {"none", "tmp", "config", "gone"}]
    /\ pc \in [Workers -> Pcs]
    /\ trouble \in Calm .. Unread
    /\ \A w \in Workers :
          /\ pc[w] = "write" <=> at[w] # "none"
          /\ pc[w] \in {"open", "write"} => held[w] \in [catalog : Catalogs]
          /\ pc[w] = "restore" => held[w] \in [catalog : Catalogs \cup {Torn}]
          /\ pc[w] = "unmap" => held[w] \in [url : Urls]
          /\ pc[w] = "mapSet" => held[w] \in [url : Urls, on : BOOLEAN]
          /\ pc[w] = "mapSnap" => held[w] \in [then : {"idle", "marshal"}]
          /\ pc[w] \in {"mapOpen", "mapWrite"} =>
                held[w] \in [then : {"idle", "marshal"}, maps : SUBSET Urls]

\* A URL names one application: no two requests, failed saves or restarts ever put
\* it in two categories.  (A catalogue parsed from a torn file promises nothing.)
UrlsUnique ==
    trouble < Unread =>
        \A i, j \in DOMAIN mem : i # j => mem[i].apps \cap mem[j].apps = {}

\* config.yaml is whole at every moment, whichever call fails and wherever the
\* process dies, as long as requests do not overlap: SaveConfig writes a temporary
\* file first and renames it.
FileIsWhole == trouble < Overlap => config # Torn

\* Once every request was answered the file has what memory has, so that a restart
\* changes nothing: after a success, after a save that failed at any call and could
\* read the file back, after a crash, unless requests overlapped.
FileIsMemory == AllIdle /\ trouble < Overlap => config = mem

\* Once every request was answered, and nothing went wrong, the mappings in force
\* are those of the file and belong to applications of the catalogue: they follow
\* an application to its new URL and go with it.
MappingsFollow ==
    AllIdle /\ trouble = Calm => mapFile = maps /\ maps \subseteq UrlsOf(mem)

\* Editing categories never costs an application, though two of them may share a
\* name: an application goes only by its own handlers.
CategoriesKeepApps ==
    [][(\E w \in Workers : EditCategory(w)) => UrlsOf(mem') = UrlsOf(mem)]_vars
=============================================================================
