--------------------------- MODULE DiscoveryLoop ---------------------------
(***************************************************************************)
(* The lifecycle of one discovery source of DashGate: the DiscoveryManager *)
(* record, the background goroutine started and stopped for it, and the    *)
(* HTTP handlers that start it, stop it and ask for a manual refresh.      *)
(*                                                                         *)
(* The five sources (Docker, Traefik, Nginx, NPM, Caddy) are five copies   *)
(* of the same code; the module is written against docker.go and its       *)
(* handler, and holds for the other four.  What a source finds is abstract *)
(* (a member of AppLists).                                                 *)
(*                                                                         *)
(* Every critical section on DiscoveryMu is one action, so the mutex       *)
(* itself needs no variable.  The goroutine reads the Stop field WITHOUT   *)
(* that mutex each time it evaluates its select statement: this is the     *)
(* action LoopEval, interleaved with everything else.                      *)
(***************************************************************************)
EXTENDS Naturals, FiniteSets

CONSTANTS
    Handlers,    \* goroutines serving PUT requests of the discovery handler
    Others,      \* goroutines serving other requests that save the settings
    Refreshers,  \* goroutines spawned by POST (manual refresh)
    AppLists,    \* the lists of applications a discovery round can return
    NoApps,      \* the empty list
    MaxStarts    \* bound: how many enabling PUTs (and the boot) may start a loop

ASSUME DiscoveryConstants ==
    /\ IsFiniteSet(Handlers)
    /\ Handlers \cap Others = {}
    /\ NoApps \in AppLists
    /\ MaxStarts \in Nat \ {0}

Nil   == 0                \* the nil channel
Chans == 1..MaxStarts     \* the channel, and the goroutine, of the n-th start

VARIABLES
    envOverride, \* DockerDiscoveryEnvOverride: set at boot, never changed
    enabled,     \* DockerDiscovery.Enabled
    stop,        \* DockerDiscovery.Stop, Nil or the current channel
    closed,      \* the channels that were closed
    wg,          \* counter of DockerDiscovery.Wg
    apps,        \* DockerDiscovery.Apps
    cfg,         \* the setting in app.SystemConfig (enabled, and complete)
    saved,       \* the setting in the system_config table
    snap,        \* what each save under way is about to write ({}: none is)
    unsure,      \* history: the last PUT was answered with an error, an older
                 \* setting was written after it, or the boot could not load it
    started,     \* how many loops were started: names the next channel
    puts,        \* enabling PUTs accepted so far (MaxStarts bounds it)
    loopPc,      \* program counter of each background goroutine
    loopCh,      \* the channel its pending select waits on
    hpc,         \* program counter of each PUT handler
    hop,         \* whether that PUT enables
    rpc          \* program counter of each manual refresh

managerVars == <<enabled, stop, closed, wg, apps>>
saveVars    == <<saved, snap, unsure>>
configVars  == <<envOverride, cfg, saveVars>>
loopVars    == <<started, loopPc, loopCh>>
handlerVars == <<puts, hpc, hop>>
vars == <<managerVars, configVars, loopVars, handlerVars, rpc>>

LoopPcs    == {"none", "check", "fetch", "eval", "enter", "wait", "done"}
HandlerPcs == {"idle", "save", "commit", "start", "stop", "wgwait", "parked",
               "woken", "clear"}
RefreshPcs == {"idle", "check", "fetch"}

\* Goroutines that were spawned and have not run their deferred Wg.Done.
Live == {i \in Chans : loopPc[i] \notin {"none", "done"}}

-----------------------------------------------------------------------------
(* InitDockerDiscovery at boot: the loop runs from the start when the       *)
(* environment forces it or when the loaded configuration asks for it; a    *)
(* load that fails is logged and leaves the default.                        *)
Init ==
    /\ envOverride \in BOOLEAN
    /\ saved \in BOOLEAN
    /\ cfg \in {saved, FALSE}
    /\ unsure = (cfg # saved)
    /\ snap = [p \in Handlers \cup Others |-> {}]
    /\ enabled = (envOverride \/ cfg)
    /\ started = IF enabled THEN 1 ELSE 0
    /\ stop = started
    /\ wg = started
    /\ puts = started
    /\ closed = {}
    /\ apps = NoApps
    /\ loopPc = [i \in Chans |-> IF i <= started THEN "check" ELSE "none"]
    /\ loopCh = [i \in Chans |-> Nil]
    /\ hpc = [h \in Handlers |-> "idle"]
    /\ hop = [h \in Handlers |-> FALSE]
    /\ rpc = [r \in Refreshers |-> "idle"]

-----------------------------------------------------------------------------
(* The PUT handler.                                                         *)

\* A PUT arrives and passes its checks: the request is stored in SystemConfig.
PutBegin(h, enable) ==
    /\ hpc[h] = "idle"
    /\ ~envOverride
    /\ enable => puts < MaxStarts
    /\ puts' = IF enable THEN puts + 1 ELSE puts
    /\ cfg' = enable
    /\ hop' = [hop EXCEPT ![h] = enable]
    /\ hpc' = [hpc EXCEPT ![h] = "save"]
    /\ UNCHANGED <<managerVars, loopVars, envOverride, saveVars, rpc>>

\* SaveSystemConfig takes what SystemConfig holds now, which another PUT may have
\* changed since ...
PutSnapshot(h) ==
    /\ hpc[h] = "save"
    /\ snap' = [snap EXCEPT ![h] = {cfg}]
    /\ hpc' = [hpc EXCEPT ![h] = "commit"]
    /\ UNCHANGED <<managerVars, loopVars, envOverride, cfg, saved, unsure, puts, hop, rpc>>

\* Mutant: the return after a failed save is missing, and no error is answered.
PutCommitGoesOn(h) ==
    /\ hpc[h] = "commit"
    /\ saved' \in snap[h] \cup {saved}
    /\ unsure' = (snap[h] # {cfg})
    /\ hpc' = [hpc EXCEPT ![h] = IF hop[h] THEN "start" ELSE "stop"]
    /\ snap' = [snap EXCEPT ![h] = {}]
    /\ UNCHANGED <<managerVars, loopVars, envOverride, cfg, puts, hop, rpc>>

\* ... and writes it in a transaction; when that fails the handler gives up, and the
\* setting stays in memory.
PutCommit(h) ==
    /\ hpc[h] = "commit"
    /\ \/ /\ saved' \in snap[h]
          /\ unsure' = (snap[h] # {cfg})
          /\ hpc' = [hpc EXCEPT ![h] = IF hop[h] THEN "start" ELSE "stop"]
       \/ /\ unsure' = TRUE
          /\ hpc' = [hpc EXCEPT ![h] = "idle"]
          /\ UNCHANGED saved
    /\ snap' = [snap EXCEPT ![h] = {}]
    /\ UNCHANGED <<managerVars, loopVars, envOverride, cfg, puts, hop, rpc>>

\* Any other request that saves the settings (the admin panel, another source, a
\* restoration) writes this one along with its own, and starts or stops nothing here.
OtherSnapshot(o) ==
    /\ snap[o] = {}
    /\ snap' = [snap EXCEPT ![o] = {cfg}]
    /\ UNCHANGED <<managerVars, loopVars, envOverride, cfg, saved, unsure, handlerVars, rpc>>

OtherCommit(o) ==
    /\ \/ /\ saved' \in snap[o]
          /\ unsure' = (unsure \/ snap[o] # {cfg})
       \/ /\ snap[o] # {}
          /\ UNCHANGED <<saved, unsure>>
    /\ snap' = [snap EXCEPT ![o] = {}]
    /\ UNCHANGED <<managerVars, loopVars, envOverride, cfg, handlerVars, rpc>>

\* Mutant: Wg.Add(1) is forgotten.
StartLoopUncounted(h) ==
    /\ hpc[h] = "start"
    /\ hpc' = [hpc EXCEPT ![h] = "idle"]
    /\ IF stop # Nil
       THEN UNCHANGED <<managerVars, loopVars>>
       ELSE /\ enabled' = TRUE
            /\ started' = started + 1
            /\ stop' = started'
            /\ loopPc' = [loopPc EXCEPT ![started'] = "check"]
            /\ UNCHANGED <<closed, wg, apps, loopCh>>
    /\ UNCHANGED <<configVars, puts, hop, rpc>>

\* StartDockerDiscoveryLoop, whole: it runs under DiscoveryMu.
StartLoop(h) ==
    /\ hpc[h] = "start"
    /\ hpc' = [hpc EXCEPT ![h] = "idle"]
    /\ \/ /\ stop # Nil        \* already running
          /\ UNCHANGED <<managerVars, loopVars>>
       \/ /\ stop = Nil
          /\ enabled' = TRUE
          /\ started' = started + 1
          /\ stop' = started'
          /\ wg' = wg + 1
          /\ loopPc' = [loopPc EXCEPT ![started'] = "check"]
          /\ UNCHANGED <<closed, apps, loopCh>>
    /\ UNCHANGED <<configVars, puts, hop, rpc>>

\* Mutant: the closed channel stays in the Stop field.
StopCloseKeepsField(h) ==
    /\ hpc[h] = "stop"
    /\ hpc' = [hpc EXCEPT ![h] = "wgwait"]
    /\ closed' = IF stop # Nil THEN closed \cup {stop} ELSE closed
    /\ UNCHANGED <<enabled, stop, wg, apps, loopVars, configVars, puts, hop, rpc>>

\* StopDockerDiscoveryLoop, first critical section: close and forget the channel.
StopClose(h) ==
    /\ hpc[h] = "stop"
    /\ hpc' = [hpc EXCEPT ![h] = "wgwait"]
    /\ closed' = IF stop # Nil THEN closed \cup {stop} ELSE closed
    /\ stop' = Nil
    /\ UNCHANGED <<enabled, wg, apps, loopVars, configVars, puts, hop, rpc>>

\* Mutant: Stop does not wait for the goroutine.
StopWaitSkipped(h) ==
    /\ hpc[h] = "wgwait"
    /\ hpc' = [hpc EXCEPT ![h] = "clear"]
    /\ UNCHANGED <<managerVars, loopVars, configVars, puts, hop, rpc>>

\* Wg.Wait: return at once on a zero counter, else sleep until it drops to zero.
StopWait(h) ==
    /\ hpc[h] = "wgwait"
    /\ hpc' = [hpc EXCEPT ![h] = IF wg = 0 THEN "clear" ELSE "parked"]
    /\ UNCHANGED <<managerVars, loopVars, configVars, puts, hop, rpc>>

\* Mutant: a Stop that had to wait returns without disabling the source.
StopWokenGivesUp(h) ==
    /\ hpc[h] = "woken"
    /\ hpc' = [hpc EXCEPT ![h] = "idle"]
    /\ UNCHANGED <<managerVars, loopVars, configVars, puts, hop, rpc>>

\* A sleeping Wg.Wait was released.  When a new Add ran in between, sync.WaitGroup
\* panics ("reused before previous Wait has returned") and net/http ends the request.
StopWoken(h) ==
    /\ hpc[h] = "woken"
    /\ hpc' = [hpc EXCEPT ![h] = IF wg = 0 THEN "clear" ELSE "idle"]
    /\ UNCHANGED <<managerVars, loopVars, configVars, puts, hop, rpc>>

\* Mutant: the source is disabled but keeps its list.
StopClearKeepsApps(h) ==
    /\ hpc[h] = "clear"
    /\ enabled' = FALSE
    /\ hpc' = [hpc EXCEPT ![h] = "idle"]
    /\ UNCHANGED <<stop, closed, wg, apps, loopVars, configVars, puts, hop, rpc>>

\* Second critical section of Stop: disable the source and drop its apps.
StopClear(h) ==
    /\ hpc[h] = "clear"
    /\ enabled' = FALSE
    /\ apps' = NoApps
    /\ hpc' = [hpc EXCEPT ![h] = "idle"]
    /\ UNCHANGED <<stop, closed, wg, loopVars, configVars, puts, hop, rpc>>

-----------------------------------------------------------------------------
(* The background goroutine.                                                *)

\* DiscoverDockerApps looks at Enabled and returns at once when it is off.
LoopCheck(i) ==
    /\ loopPc[i] = "check"
    /\ loopPc' = [loopPc EXCEPT ![i] = IF enabled THEN "fetch" ELSE "eval"]
    /\ UNCHANGED <<managerVars, configVars, started, loopCh, handlerVars, rpc>>

\* The answer of the source: an error leaves Apps alone, a list replaces it.
LoopFetch(i) ==
    /\ loopPc[i] = "fetch"
    /\ loopPc' = [loopPc EXCEPT ![i] = "eval"]
    /\ \E found \in AppLists \cup {apps} : apps' = found
    /\ UNCHANGED <<enabled, stop, closed, wg, configVars, started, loopCh,
                   handlerVars, rpc>>

\* select evaluates its channel operands: the Stop field is read here, unlocked.
LoopEval(i) ==
    /\ loopPc[i] = "eval"
    /\ loopCh' = [loopCh EXCEPT ![i] = stop]
    /\ loopPc' = [loopPc EXCEPT ![i] = "enter"]
    /\ UNCHANGED <<managerVars, configVars, started, handlerVars, rpc>>

\* select finds no case ready and the goroutine sleeps.
LoopPark(i) ==
    /\ loopPc[i] = "enter"
    /\ loopCh[i] \notin closed
    /\ loopPc' = [loopPc EXCEPT ![i] = "wait"]
    /\ UNCHANGED <<managerVars, configVars, started, loopCh, handlerVars, rpc>>

\* The 60 s ticker.  A sleeping goroutine whose channel was closed is already
\* committed to its Stop case; one just entering select may still pick the tick.
LoopTick(i) ==
    /\ \/ loopPc[i] = "enter"
       \/ loopPc[i] = "wait" /\ loopCh[i] \notin closed
    /\ loopPc' = [loopPc EXCEPT ![i] = "check"]
    /\ UNCHANGED <<managerVars, configVars, started, loopCh, handlerVars, rpc>>

\* Mutant: Wg.Done runs twice, in the Stop case and in the deferred call.
LoopExitDoneTwice(i) ==
    /\ loopPc[i] \in {"enter", "wait"}
    /\ loopCh[i] \in closed
    /\ loopPc' = [loopPc EXCEPT ![i] = "done"]
    /\ wg' = wg - 2
    /\ UNCHANGED <<enabled, stop, closed, apps, configVars, started, loopCh,
                   handlerVars, rpc>>

\* Mutant: break instead of return, which leaves the select and not the loop.
LoopExitBreaks(i) ==
    /\ loopPc[i] \in {"enter", "wait"}
    /\ loopCh[i] \in closed
    /\ loopPc' = [loopPc EXCEPT ![i] = "eval"]
    /\ UNCHANGED <<managerVars, configVars, started, loopCh, handlerVars, rpc>>

\* The Stop case: return, and Wg.Done releases the sleeping waiters at zero.
\* Receiving from the nil channel never proceeds: Nil is never closed.
LoopExit(i) ==
    /\ loopPc[i] \in {"enter", "wait"}
    /\ loopCh[i] \in closed
    /\ loopPc' = [loopPc EXCEPT ![i] = "done"]
    /\ wg' = wg - 1
    /\ hpc' = IF wg' = 0
              THEN [h \in Handlers |-> IF hpc[h] = "parked" THEN "woken" ELSE hpc[h]]
              ELSE hpc
    /\ UNCHANGED <<enabled, stop, closed, apps, configVars, started, loopCh,
                   puts, hop, rpc>>

-----------------------------------------------------------------------------
(* Manual refresh: POST spawns a goroutine that Wg does not count.          *)

RefreshSpawn(r) ==
    /\ rpc[r] = "idle"
    /\ rpc' = [rpc EXCEPT ![r] = "check"]
    /\ UNCHANGED <<managerVars, configVars, loopVars, handlerVars>>

RefreshCheck(r) ==
    /\ rpc[r] = "check"
    /\ rpc' = [rpc EXCEPT ![r] = IF enabled THEN "fetch" ELSE "idle"]
    /\ UNCHANGED <<managerVars, configVars, loopVars, handlerVars>>

RefreshFetch(r) ==
    /\ rpc[r] = "fetch"
    /\ rpc' = [rpc EXCEPT ![r] = "idle"]
    /\ \E found \in AppLists \cup {apps} : apps' = found
    /\ UNCHANGED <<enabled, stop, closed, wg, configVars, loopVars, handlerVars>>

-----------------------------------------------------------------------------
HandlerStep(h) ==
    \/ PutSnapshot(h) \/ PutCommit(h) \/ StartLoop(h) \/ StopClose(h)
    \/ StopWait(h) \/ StopWoken(h) \/ StopClear(h)

LoopStep(i) ==
    \/ LoopCheck(i) \/ LoopFetch(i) \/ LoopEval(i) \/ LoopPark(i)
    \/ LoopTick(i) \/ LoopExit(i)

RefreshStep(r) == RefreshCheck(r) \/ RefreshFetch(r)

Next ==
    \/ \E h \in Handlers : HandlerStep(h)
    \/ \E h \in Handlers, enable \in BOOLEAN : PutBegin(h, enable)
    \/ \E o \in Others : OtherSnapshot(o) \/ OtherCommit(o)
    \/ \E i \in Chans : LoopStep(i)
    \/ \E r \in Refreshers : RefreshSpawn(r) \/ RefreshStep(r)

Spec == Init /\ [][Next]_vars

(* Goroutines are scheduled, calls to a source end (its HTTP clients have   *)
(* time-outs) and the ticker ticks; nobody owes the server a request.       *)
FairSpec ==
    /\ Spec
    /\ \A h \in Handlers : WF_vars(HandlerStep(h))
    /\ \A i \in Chans : WF_vars(LoopStep(i))
    /\ \A r \in Refreshers : WF_vars(RefreshStep(r))

-----------------------------------------------------------------------------
(* Properties.                                                              *)

TypeOK ==
    /\ envOverride \in BOOLEAN /\ enabled \in BOOLEAN
    /\ cfg \in BOOLEAN /\ saved \in BOOLEAN /\ unsure \in BOOLEAN
    /\ snap \in [Handlers \cup Others -> SUBSET BOOLEAN]
    /\ stop \in {Nil} \cup Chans
    /\ closed \subseteq Chans
    /\ wg \in 0..MaxStarts
    /\ apps \in AppLists
    /\ started \in 0..MaxStarts /\ puts \in 0..MaxStarts
    /\ loopPc \in [Chans -> LoopPcs]
    /\ loopCh \in [Chans -> {Nil} \cup Chans]
    /\ hpc \in [Handlers -> HandlerPcs]
    /\ hop \in [Handlers -> BOOLEAN]
    /\ rpc \in [Refreshers -> RefreshPcs]

\* close() is never applied to a closed channel (that would panic), whatever
\* starts and stops interleave: the channel in the Stop field is always open,
\* and a channel no start has created yet is not closed either.
StopFieldIsOpen ==
    /\ stop \notin closed
    /\ \A c \in closed : c <= started

\* The WaitGroup counts exactly the goroutines that still run, so a Wg.Wait that
\* returns means that none did at that moment, and the counter never goes negative
\* (a negative WaitGroup counter panics).
WgCountsLoops == wg = Cardinality(Live)

AllIdle == \A h \in Handlers : hpc[h] = "idle"

\* Once no PUT is in progress the source runs exactly when the database says that
\* it should, so a restart changes nothing: whatever other requests save meanwhile,
\* and again after every PUT that was answered without an error.  A PUT whose save
\* failed leaves its setting in memory, from where the next save of anything writes
\* it; one that overlaps another save may see an older setting written after its own.
\* (With the environment override no PUT is accepted and the source always runs.)
EnabledAsSaved == AllIdle /\ ~envOverride /\ ~unsure => enabled = saved

\* A source that is on has a loop that refreshes it, or a Stop under way that will
\* turn it off, whatever starts and stops interleave.  (The converse is false: a
\* Start may be disabled by a Stop that it overtook, docker.go:88.)
OnHasLoop ==
    enabled /\ stop = Nil =>
        \E h \in Handlers : hpc[h] \in {"wgwait", "parked", "woken", "clear"}

\* A source that is off lists no applications: health checks and the app count of
\* the admin panel read the list without looking at Enabled.
OffIsEmpty == ~enabled => apps = NoApps

\* The source as the rest of the server sees it: the loop, its start and its stop
\* implement the on/off service, in which only a source that is on publishes.
Service == INSTANCE DiscoveryService WITH on <- enabled, list <- apps
ImplementsService == Service!Spec

\* A PUT that disables the source always gets its answer: Stop returns.
StopReturns == \A h \in Handlers : hpc[h] = "stop" ~> hpc[h] = "idle"

\* Stop returns when it finds every loop asleep in its select statement.
AllAsleep == \A i \in Live : loopPc[i] = "wait" /\ loopCh[i] \in closed
StopReturnsFromSleep ==
    \A h \in Handlers :
        (hpc[h] \in {"wgwait", "parked"} /\ AllAsleep) ~> hpc[h] = "idle"
=============================================================================
