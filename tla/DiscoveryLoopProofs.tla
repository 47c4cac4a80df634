------------------------ MODULE DiscoveryLoopProofs ------------------------
(***************************************************************************)
(* Proofs about DiscoveryLoop, for any number of handlers, refreshers and  *)
(* starts.  LifecycleInv is the inductive invariant of the full            *)
(* interleaving; QuietInv strengthens it for one handler without manual    *)
(* refreshes, where the loop implements DiscoveryService, and AgreeInv for *)
(* one handler, where the switch follows the table.                        *)
(***************************************************************************)
EXTENDS DiscoveryLoop, FiniteSetTheorems, TLAPS

\* Enabling PUTs that were accepted and have not reached StartLoop.
PendingStarts == {h \in Handlers : hpc[h] \in {"save", "commit", "start"} /\ hop[h]}

\* Only a PUT that enables reaches StartLoop.
StartMeansEnable == \A h \in Handlers : hpc[h] = "start" => hop[h]

\* Every start was paid for by an accepted PUT (or the boot): channels never run out.
StartsAreCounted == started + Cardinality(PendingStarts) <= puts

\* Goroutines are numbered by the start that spawned them.
NumberedByStart == \A i \in Chans : loopPc[i] = "none" <=> i > started

\* The Stop field never names a channel that no start has made.
StopIsStarted == stop <= started

LifecycleInv ==
    /\ TypeOK
    /\ StartMeansEnable
    /\ StartsAreCounted
    /\ NumberedByStart
    /\ StopIsStarted
    /\ StopFieldIsOpen
    /\ WgCountsLoops

-----------------------------------------------------------------------------
(* Sets of handlers and of goroutines are finite. *)

LEMMA PendingFinite ==
    /\ IsFiniteSet(PendingStarts)
    /\ Cardinality(PendingStarts) \in Nat
<1>1. PendingStarts \in SUBSET Handlers
  BY DEF PendingStarts
<1>2. IsFiniteSet(PendingStarts)
  BY <1>1, DiscoveryConstants, FS_Subset
<1>. QED
  BY <1>2, FS_CardinalityType

LEMMA LiveFinite ==
    /\ IsFiniteSet(Live)
    /\ Cardinality(Live) \in 0..MaxStarts
<1>1. IsFiniteSet(Chans) /\ Cardinality(Chans) = MaxStarts
  BY DiscoveryConstants, FS_Interval DEF Chans
<1>2. Live \in SUBSET Chans
  BY DEF Live
<1>3. IsFiniteSet(Live) /\ Cardinality(Live) <= MaxStarts
  BY <1>1, <1>2, FS_Subset
<1>4. Cardinality(Live) \in Nat
  BY <1>3, FS_CardinalityType
<1>. QED
  BY <1>3, <1>4, DiscoveryConstants

-----------------------------------------------------------------------------
LEMMA LifecycleInit == Init => LifecycleInv
<1> SUFFICES ASSUME Init PROVE LifecycleInv
  OBVIOUS
<1> USE DiscoveryConstants
<1>1. started \in {0, 1} /\ stop = started /\ wg = started /\ puts = started
  BY DEF Init
<1>2. Live = 1..started
  BY <1>1 DEF Init, Live, Chans
<1>3. WgCountsLoops
  <2>1. Cardinality(1..started) = IF 1 > started THEN 0 ELSE started - 1 + 1
    BY <1>1, FS_Interval
  <2>. QED
    BY <1>1, <1>2, <2>1 DEF WgCountsLoops
<1>4. PendingStarts = {}
  BY DEF Init, PendingStarts
<1>5. StartsAreCounted
  BY <1>1, <1>4, FS_EmptySet DEF StartsAreCounted
<1>6. TypeOK
  <2>1. cfg \in BOOLEAN /\ unsure \in BOOLEAN /\ enabled \in BOOLEAN
    BY DEF Init
  <2>2. snap \in [Handlers \cup Others -> SUBSET BOOLEAN]
    BY DEF Init
  <2>. QED
    BY <1>1, <2>1, <2>2 DEF Init, TypeOK, Chans, Nil, LoopPcs, HandlerPcs, RefreshPcs
<1>7. StartMeansEnable /\ NumberedByStart /\ StopIsStarted /\ StopFieldIsOpen
  BY <1>1 DEF Init, StartMeansEnable, NumberedByStart, StopIsStarted,
              StopFieldIsOpen, Chans
<1>. QED
  BY <1>3, <1>5, <1>6, <1>7 DEF LifecycleInv

-----------------------------------------------------------------------------
(* Two frame lemmas: a step that leaves the relevant variables alone keeps  *)
(* the two counting parts of the invariant.                                 *)

LEMMA PendingShrinks ==
    ASSUME LifecycleInv, PendingStarts' \subseteq PendingStarts,
           started' = started, puts' \in Nat, puts' >= puts
    PROVE  StartsAreCounted'
<1>1. IsFiniteSet(PendingStarts) /\ Cardinality(PendingStarts) \in Nat
  BY PendingFinite
<1>2. IsFiniteSet(PendingStarts') /\ Cardinality(PendingStarts') <= Cardinality(PendingStarts)
  BY <1>1, FS_Subset
<1>3. Cardinality(PendingStarts') \in Nat
  BY <1>2, FS_CardinalityType
<1>4. started \in Nat /\ puts \in Nat
  BY DiscoveryConstants DEF LifecycleInv, TypeOK
<1>. QED
  BY <1>1, <1>2, <1>3, <1>4 DEF LifecycleInv, StartsAreCounted

LEMMA LiveUnchanged ==
    ASSUME LifecycleInv, UNCHANGED wg, Live' = Live
    PROVE  WgCountsLoops'
BY DEF LifecycleInv, WgCountsLoops

-----------------------------------------------------------------------------
LEMMA LifecycleStep == LifecycleInv /\ [Next]_vars => LifecycleInv'
<1> SUFFICES ASSUME LifecycleInv, [Next]_vars PROVE LifecycleInv'
  OBVIOUS
<1> USE DiscoveryConstants
<1>1. ASSUME NEW h \in Handlers, NEW enable \in BOOLEAN, PutBegin(h, enable)
      PROVE  LifecycleInv'
  <2>1. TypeOK' /\ StartMeansEnable'
    BY <1>1 DEF LifecycleInv, TypeOK, StartMeansEnable, PutBegin, HandlerPcs,
                managerVars, loopVars, saveVars, Chans
  <2>2. StartsAreCounted'
    <3>1. CASE enable
      <4>1. PendingStarts' = PendingStarts \cup {h} /\ h \notin PendingStarts
        BY <1>1, <3>1 DEF PendingStarts, PutBegin, LifecycleInv, TypeOK
      <4>2. Cardinality(PendingStarts') = Cardinality(PendingStarts) + 1
        BY <4>1, PendingFinite, FS_AddElement
      <4>3. started' = started /\ puts' = puts + 1 /\ started \in Nat /\ puts \in Nat
        BY <1>1, <3>1 DEF PutBegin, loopVars, LifecycleInv, TypeOK
      <4>. QED
        BY <4>2, <4>3, PendingFinite DEF LifecycleInv, StartsAreCounted
    <3>2. CASE ~enable
      <4>1. PendingStarts' \subseteq PendingStarts
        BY <1>1, <3>2 DEF PendingStarts, PutBegin, LifecycleInv, TypeOK
      <4>2. started' = started /\ puts' = puts /\ puts \in Nat
        BY <1>1, <3>2 DEF PutBegin, loopVars, LifecycleInv, TypeOK
      <4>. QED
        BY <4>1, <4>2, PendingShrinks
    <3>. QED
      BY <3>1, <3>2
  <2>3. NumberedByStart' /\ StopIsStarted' /\ StopFieldIsOpen'
    BY <1>1 DEF LifecycleInv, NumberedByStart, StopIsStarted, StopFieldIsOpen,
                PutBegin, managerVars, loopVars
  <2>4. WgCountsLoops'
    BY <1>1, LiveUnchanged DEF PutBegin, managerVars, loopVars, Live
  <2>. QED
    BY <2>1, <2>2, <2>3, <2>4 DEF LifecycleInv
<1>2. ASSUME NEW h \in Handlers,
             \/ PutSnapshot(h) \/ PutCommit(h) \/ StopClose(h) \/ StopWait(h)
             \/ StopWoken(h) \/ StopClear(h)
      PROVE  LifecycleInv'
  <2>1. TypeOK' /\ StartMeansEnable'
    <3>1. CASE PutSnapshot(h)
      BY <3>1 DEF LifecycleInv, TypeOK, StartMeansEnable, PutSnapshot, HandlerPcs,
                  managerVars, loopVars
    <3>2. CASE PutCommit(h)
      <4>1. saved' \in BOOLEAN /\ unsure' \in BOOLEAN
            /\ snap' \in [Handlers \cup Others -> SUBSET BOOLEAN]
        BY <3>2 DEF LifecycleInv, TypeOK, PutCommit
      <4>2. hpc' \in [Handlers -> HandlerPcs]
            /\ \A g \in Handlers : hpc'[g] = "start" => hop[g]
        BY <3>2 DEF LifecycleInv, TypeOK, StartMeansEnable, PutCommit, HandlerPcs
      <4>3. UNCHANGED <<managerVars, loopVars, envOverride, cfg, puts, hop, rpc>>
        BY <3>2 DEF PutCommit
      <4>. QED
        BY <4>1, <4>2, <4>3 DEF LifecycleInv, TypeOK, StartMeansEnable, managerVars, loopVars
    <3>3. CASE StopClose(h) \/ StopWait(h) \/ StopWoken(h) \/ StopClear(h)
      BY <3>3 DEF LifecycleInv, TypeOK, StartMeansEnable, StopClose, StopWait, StopWoken,
                  StopClear, HandlerPcs, managerVars, loopVars, configVars, saveVars, Chans,
                  Nil
    <3>. QED
      BY <1>2, <3>1, <3>2, <3>3
  <2>2. StartsAreCounted'
    <3>1. PendingStarts' \subseteq PendingStarts
      BY <1>2 DEF PendingStarts, PutSnapshot, PutCommit, StopClose, StopWait, StopWoken, StopClear,
                  LifecycleInv, TypeOK
    <3>2. started' = started /\ puts' = puts /\ puts \in Nat
      BY <1>2 DEF PutSnapshot, PutCommit, StopClose, StopWait, StopWoken, StopClear, loopVars,
                  LifecycleInv, TypeOK
    <3>. QED
      BY <3>1, <3>2, PendingShrinks
  <2>3. NumberedByStart'
    BY <1>2 DEF LifecycleInv, NumberedByStart, PutSnapshot, PutCommit, StopClose, StopWait,
                StopWoken, StopClear, loopVars
  <2>4. StopIsStarted' /\ StopFieldIsOpen'
    <3>1. CASE StopClose(h)
      <4>1. stop' = Nil /\ closed' \subseteq closed \cup {stop} /\ started' = started
            /\ (stop = Nil => closed' = closed)
        BY <3>1 DEF StopClose, loopVars
      <4>2. started \in Nat /\ Nil \notin closed'
        BY <4>1 DEF LifecycleInv, TypeOK, Chans, Nil
      <4>. QED
        BY <4>1, <4>2 DEF LifecycleInv, StopIsStarted, StopFieldIsOpen, Nil
    <3>2. CASE ~StopClose(h)
      <4>1. UNCHANGED <<stop, closed, started>>
        BY <1>2, <3>2 DEF PutSnapshot, PutCommit, StopWait, StopWoken, StopClear,
                          managerVars, loopVars
      <4>. QED
        BY <4>1 DEF LifecycleInv, StopIsStarted, StopFieldIsOpen
    <3>. QED
      BY <3>1, <3>2
  <2>5. WgCountsLoops'
    BY <1>2, LiveUnchanged DEF PutSnapshot, PutCommit, StopClose, StopWait, StopWoken, StopClear,
                               managerVars, loopVars, Live
  <2>. QED
    BY <2>1, <2>2, <2>3, <2>4, <2>5 DEF LifecycleInv
<1>3. ASSUME NEW h \in Handlers, StartLoop(h)
      PROVE  LifecycleInv'
  <2>1. CASE stop # Nil
    <3>1. UNCHANGED <<managerVars, loopVars, configVars, puts, hop, rpc>>
          /\ hpc' = [hpc EXCEPT ![h] = "idle"]
      BY <1>3, <2>1 DEF StartLoop
    <3>2. TypeOK' /\ StartMeansEnable'
      BY <3>1 DEF LifecycleInv, TypeOK, StartMeansEnable, HandlerPcs, managerVars,
                  loopVars, configVars, saveVars
    <3>3. PendingStarts' \subseteq PendingStarts
      BY <3>1 DEF PendingStarts, LifecycleInv, TypeOK
    <3>4. StartsAreCounted'
      BY <3>1, <3>3, PendingShrinks DEF loopVars, LifecycleInv, TypeOK
    <3>5. NumberedByStart' /\ StopIsStarted' /\ StopFieldIsOpen'
      BY <3>1 DEF LifecycleInv, NumberedByStart, StopIsStarted, StopFieldIsOpen,
                  managerVars, loopVars
    <3>6. WgCountsLoops'
      BY <3>1, LiveUnchanged DEF managerVars, loopVars, Live
    <3>. QED
      BY <3>2, <3>4, <3>5, <3>6 DEF LifecycleInv
  <2>2. CASE stop = Nil
    <3>1. /\ started' = started + 1 /\ stop' = started + 1 /\ wg' = wg + 1
          /\ enabled' = TRUE
          /\ loopPc' = [loopPc EXCEPT ![started + 1] = "check"]
          /\ hpc' = [hpc EXCEPT ![h] = "idle"] /\ hpc[h] = "start"
          /\ UNCHANGED <<closed, apps, loopCh, configVars, puts, hop, rpc>>
      BY <1>3, <2>2 DEF StartLoop
    <3>2. h \in PendingStarts /\ PendingStarts' = PendingStarts \ {h}
      BY <3>1 DEF PendingStarts, LifecycleInv, TypeOK, StartMeansEnable
    <3>3. Cardinality(PendingStarts') = Cardinality(PendingStarts) - 1
      BY <3>2, PendingFinite, FS_RemoveElement
    <3>4. Cardinality(PendingStarts) >= 1
      BY <3>2, PendingFinite, FS_EmptySet
    <3>5. started \in Nat /\ puts \in 0..MaxStarts
      BY DEF LifecycleInv, TypeOK
    <3>6. started + 1 <= MaxStarts
      BY <3>4, <3>5, PendingFinite DEF LifecycleInv, StartsAreCounted
    <3>7. StartsAreCounted'
      BY <3>1, <3>3, <3>5, PendingFinite DEF LifecycleInv, StartsAreCounted
    <3>8. started + 1 \in Chans
      BY <3>5, <3>6 DEF Chans
    <3>9. Live' = Live \cup {started + 1} /\ started + 1 \notin Live
      <4>1. loopPc[started + 1] = "none"
        BY <3>5, <3>8 DEF LifecycleInv, NumberedByStart
      <4>. QED
        BY <3>1, <3>8, <4>1 DEF Live, LifecycleInv, TypeOK
    <3>10. WgCountsLoops'
      <4>1. Cardinality(Live') = Cardinality(Live) + 1
        BY <3>9, LiveFinite, FS_AddElement
      <4>. QED
        BY <3>1, <4>1 DEF LifecycleInv, WgCountsLoops
    <3>11. wg' \in 0..MaxStarts
      <4>1. (Cardinality(Live) \in 0..MaxStarts)'
        BY LiveFinite, PTL
      <4>. QED
        BY <3>10, <4>1 DEF WgCountsLoops
    <3>12. TypeOK' /\ StartMeansEnable'
      BY <3>1, <3>5, <3>6, <3>8, <3>11
         DEF LifecycleInv, TypeOK, StartMeansEnable, HandlerPcs, LoopPcs, configVars, saveVars
    <3>13. NumberedByStart' /\ StopIsStarted' /\ StopFieldIsOpen'
      BY <3>1, <3>5, <3>8 DEF LifecycleInv, TypeOK, NumberedByStart, StopIsStarted,
                              StopFieldIsOpen, Chans, LoopPcs
    <3>. QED
      BY <3>7, <3>10, <3>12, <3>13 DEF LifecycleInv
  <2>. QED
    BY <2>1, <2>2
<1>4. ASSUME NEW i \in Chans,
             LoopCheck(i) \/ LoopFetch(i) \/ LoopEval(i) \/ LoopPark(i) \/ LoopTick(i)
      PROVE  LifecycleInv'
  <2>1. TypeOK' /\ StartMeansEnable'
    BY <1>4 DEF LifecycleInv, TypeOK, StartMeansEnable, LoopCheck, LoopFetch, LoopEval,
                LoopPark, LoopTick, LoopPcs, managerVars, configVars, saveVars, handlerVars
  <2>2. StartsAreCounted'
    <3>1. PendingStarts' = PendingStarts /\ started' = started /\ puts' = puts
      BY <1>4 DEF PendingStarts, LoopCheck, LoopFetch, LoopEval, LoopPark, LoopTick,
                  handlerVars
    <3>. QED
      BY <3>1, PendingShrinks DEF LifecycleInv, TypeOK
  <2>3. NumberedByStart' /\ StopIsStarted' /\ StopFieldIsOpen'
    BY <1>4 DEF LifecycleInv, TypeOK, NumberedByStart, StopIsStarted, StopFieldIsOpen,
                LoopCheck, LoopFetch, LoopEval, LoopPark, LoopTick, managerVars
  <2>4. WgCountsLoops'
    <3>1. UNCHANGED wg
      BY <1>4 DEF LoopCheck, LoopFetch, LoopEval, LoopPark, LoopTick, managerVars
    <3>2. Live' = Live
      BY <1>4 DEF LoopCheck, LoopFetch, LoopEval, LoopPark, LoopTick, managerVars, Live,
                  LifecycleInv, TypeOK
    <3>. QED
      BY <3>1, <3>2, LiveUnchanged
  <2>. QED
    BY <2>1, <2>2, <2>3, <2>4 DEF LifecycleInv
<1>5. ASSUME NEW i \in Chans, LoopExit(i)
      PROVE  LifecycleInv'
  <2>1. Live' = Live \ {i} /\ i \in Live
    BY <1>5 DEF LoopExit, Live, LifecycleInv, TypeOK
  <2>2. Cardinality(Live') = Cardinality(Live) - 1
    BY <2>1, LiveFinite, FS_RemoveElement
  <2>3. WgCountsLoops'
    BY <1>5, <2>2 DEF LifecycleInv, WgCountsLoops, LoopExit
  <2>4. wg' \in 0..MaxStarts
    <3>1. (Cardinality(Live) \in 0..MaxStarts)'
      BY LiveFinite, PTL
    <3>. QED
      BY <2>3, <3>1 DEF WgCountsLoops
  <2>5. hpc' \in [Handlers -> HandlerPcs]
        /\ \A h \in Handlers : hpc'[h] = hpc[h] \/ hpc'[h] = "woken"
    BY <1>5 DEF LifecycleInv, TypeOK, LoopExit, HandlerPcs
  <2>6. TypeOK' /\ StartMeansEnable'
    BY <1>5, <2>4, <2>5 DEF LifecycleInv, TypeOK, StartMeansEnable, LoopExit, LoopPcs,
                            configVars, saveVars
  <2>7. StartsAreCounted'
    <3>1. PendingStarts' \subseteq PendingStarts
      BY <1>5, <2>5 DEF PendingStarts, LoopExit
    <3>. QED
      BY <1>5, <3>1, PendingShrinks DEF LoopExit, LifecycleInv, TypeOK
  <2>8. NumberedByStart' /\ StopIsStarted' /\ StopFieldIsOpen'
    BY <1>5 DEF LifecycleInv, TypeOK, NumberedByStart, StopIsStarted, StopFieldIsOpen,
                LoopExit
  <2>. QED
    BY <2>3, <2>6, <2>7, <2>8 DEF LifecycleInv
<1>6. ASSUME NEW r \in Refreshers, RefreshSpawn(r) \/ RefreshStep(r)
      PROVE  LifecycleInv'
  <2>1. TypeOK'
    BY <1>6 DEF LifecycleInv, TypeOK, RefreshSpawn, RefreshStep, RefreshCheck,
                RefreshFetch, RefreshPcs, managerVars, configVars, saveVars, loopVars, handlerVars
  <2>2. StartMeansEnable' /\ NumberedByStart' /\ StopIsStarted' /\ StopFieldIsOpen'
    BY <1>6 DEF LifecycleInv, StartMeansEnable, NumberedByStart, StopIsStarted,
                StopFieldIsOpen, RefreshSpawn, RefreshStep, RefreshCheck, RefreshFetch,
                managerVars, loopVars, handlerVars
  <2>3. StartsAreCounted' /\ WgCountsLoops'
    BY <1>6 DEF LifecycleInv, StartsAreCounted, WgCountsLoops, PendingStarts, Live,
                RefreshSpawn, RefreshStep, RefreshCheck, RefreshFetch, managerVars,
                loopVars, handlerVars
  <2>. QED
    BY <2>1, <2>2, <2>3 DEF LifecycleInv
<1>8. ASSUME NEW o \in Others, OtherSnapshot(o) \/ OtherCommit(o)
      PROVE  LifecycleInv'
  <2>1. UNCHANGED <<managerVars, loopVars, envOverride, cfg, handlerVars, rpc>>
    BY <1>8 DEF OtherSnapshot, OtherCommit
  <2>2. saved' \in BOOLEAN /\ unsure' \in BOOLEAN
        /\ snap' \in [Handlers \cup Others -> SUBSET BOOLEAN]
    BY <1>8 DEF LifecycleInv, TypeOK, OtherSnapshot, OtherCommit
  <2>3. TypeOK'
    BY <2>1, <2>2 DEF LifecycleInv, TypeOK, managerVars, loopVars, handlerVars
  <2>. QED
    BY <2>1, <2>3 DEF LifecycleInv, StartMeansEnable, StartsAreCounted, PendingStarts,
                      NumberedByStart, StopIsStarted, StopFieldIsOpen, WgCountsLoops, Live,
                      managerVars, loopVars, handlerVars
<1>7. CASE UNCHANGED vars
  BY <1>7 DEF LifecycleInv, TypeOK, StartMeansEnable, StartsAreCounted, PendingStarts,
              NumberedByStart, StopIsStarted, StopFieldIsOpen, WgCountsLoops, Live,
              vars, managerVars, configVars, saveVars, loopVars, handlerVars
<1>. QED
  BY <1>1, <1>2, <1>3, <1>4, <1>5, <1>6, <1>7, <1>8 DEF Next, HandlerStep, LoopStep

-----------------------------------------------------------------------------
\* The invariant of the discovery lifecycle holds in every reachable state,
\* whatever starts, stops, ticks and refreshes interleave.
THEOREM LifecycleCorrect == Spec => []LifecycleInv
  BY LifecycleInit, LifecycleStep, PTL DEF Spec

\* Every variable keeps its type; in particular the WaitGroup counter stays within
\* 0..MaxStarts, so Wg.Done never makes it negative.
THEOREM TypeCorrect == Spec => []TypeOK
<1>1. LifecycleInv => TypeOK
  BY DEF LifecycleInv
<1>. QED
  BY <1>1, LifecycleCorrect, PTL

\* The channel in the Stop field is never a closed one: close() cannot panic.
THEOREM StopNeverClosesTwice == Spec => []StopFieldIsOpen
<1>1. LifecycleInv => StopFieldIsOpen
  BY DEF LifecycleInv
<1>. QED
  BY <1>1, LifecycleCorrect, PTL

\* The WaitGroup counts the goroutines that run: a Wg.Wait that finds zero really
\* found no goroutine of this source.
THEOREM WaitGroupIsExact == Spec => []WgCountsLoops
<1>1. LifecycleInv => WgCountsLoops
  BY DEF LifecycleInv
<1>. QED
  BY <1>1, LifecycleCorrect, PTL
-----------------------------------------------------------------------------
(* One administrator and no manual refresh: the source implements the on/off *)
(* service.  Both restrictions are needed, as the README explains.         *)

OneHandler == Refreshers = {} /\ \E h : Handlers = {h}

\* A round that is about to publish belongs to an enabled source.
FetchIsEnabled == \A i \in Chans : loopPc[i] = "fetch" => enabled

\* No goroutine runs when Stop is about to disable the source.
ClearIsQuiet ==
    \A h \in Handlers : hpc[h] = "clear" =>
        \A i \in Chans : loopPc[i] \in {"none", "done"}

QuietInv ==
    /\ LifecycleInv
    /\ FetchIsEnabled
    /\ ClearIsQuiet
    /\ OffIsEmpty

LEMMA QuietInit == Init => QuietInv
<1>1. Init => FetchIsEnabled /\ ClearIsQuiet /\ OffIsEmpty
  BY DEF Init, FetchIsEnabled, ClearIsQuiet, OffIsEmpty
<1>. QED
  BY <1>1, LifecycleInit DEF QuietInv

LEMMA QuietStep ==
    ASSUME OneHandler, QuietInv, [Next]_vars
    PROVE  QuietInv'
<1>1. LifecycleInv'
  BY LifecycleStep DEF QuietInv
<1>2. ASSUME NEW h \in Handlers, NEW enable \in BOOLEAN, PutBegin(h, enable)
      PROVE  FetchIsEnabled' /\ ClearIsQuiet' /\ OffIsEmpty'
  BY <1>2 DEF QuietInv, LifecycleInv, TypeOK, FetchIsEnabled, ClearIsQuiet, OffIsEmpty,
              PutBegin, managerVars, loopVars
<1>3. ASSUME NEW h \in Handlers,
             \/ PutSnapshot(h) \/ PutCommit(h) \/ StopClose(h) \/ StopWoken(h)
             \/ StopWait(h)
      PROVE  FetchIsEnabled' /\ ClearIsQuiet' /\ OffIsEmpty'
  <2>1. UNCHANGED <<enabled, apps, loopPc>>
    BY <1>3 DEF PutSnapshot, PutCommit, StopClose, StopWoken, StopWait, managerVars, loopVars
  <2>2. ClearIsQuiet'
    <3>1. CASE wg = 0
      <4>1. Live = {}
        BY <3>1, LiveFinite, FS_EmptySet DEF QuietInv, LifecycleInv, WgCountsLoops
      <4>. QED
        BY <2>1, <4>1 DEF ClearIsQuiet, Live
    <3>2. CASE wg # 0
      <4>1. \A g \in Handlers : hpc'[g] = "clear" => hpc[g] = "clear"
        BY <1>3, <3>2 DEF PutSnapshot, PutCommit, StopClose, StopWoken, StopWait, QuietInv,
                          LifecycleInv, TypeOK
      <4>. QED
        BY <2>1, <4>1 DEF QuietInv, ClearIsQuiet
    <3>. QED
      BY <3>1, <3>2
  <2>. QED
    BY <2>1, <2>2 DEF QuietInv, FetchIsEnabled, OffIsEmpty
<1>4. ASSUME NEW h \in Handlers, StartLoop(h)
      PROVE  FetchIsEnabled' /\ ClearIsQuiet' /\ OffIsEmpty'
  <2>1. ClearIsQuiet'
    BY <1>4 DEF OneHandler, StartLoop, QuietInv, LifecycleInv, TypeOK, ClearIsQuiet
  <2>2. FetchIsEnabled' /\ OffIsEmpty'
    BY <1>4 DEF StartLoop, QuietInv, LifecycleInv, TypeOK, FetchIsEnabled, OffIsEmpty,
                managerVars, loopVars
  <2>. QED
    BY <2>1, <2>2
<1>5. ASSUME NEW h \in Handlers, StopClear(h)
      PROVE  FetchIsEnabled' /\ ClearIsQuiet' /\ OffIsEmpty'
  BY <1>5 DEF StopClear, QuietInv, LifecycleInv, TypeOK, FetchIsEnabled, ClearIsQuiet,
              OffIsEmpty, loopVars
<1>6. ASSUME NEW i \in Chans, LoopStep(i)
      PROVE  FetchIsEnabled' /\ ClearIsQuiet' /\ OffIsEmpty'
  <2>1. enabled' = enabled /\ loopPc[i] \notin {"none", "done"}
        /\ \A h \in Handlers : hpc'[h] = "clear" => hpc[h] = "clear"
    BY <1>6 DEF LoopStep, LoopCheck, LoopFetch, LoopEval, LoopPark, LoopTick, LoopExit,
                managerVars, handlerVars, QuietInv, LifecycleInv, TypeOK
  <2>2. ClearIsQuiet'
    BY <2>1 DEF QuietInv, ClearIsQuiet
  <2>3. FetchIsEnabled'
    BY <1>6, <2>1 DEF LoopStep, LoopCheck, LoopFetch, LoopEval, LoopPark, LoopTick,
                      LoopExit, QuietInv, LifecycleInv, TypeOK, FetchIsEnabled
  <2>4. apps' = apps \/ enabled
    BY <1>6 DEF LoopStep, LoopCheck, LoopFetch, LoopEval, LoopPark, LoopTick, LoopExit,
                managerVars, QuietInv, FetchIsEnabled
  <2>. QED
    BY <2>1, <2>2, <2>3, <2>4 DEF QuietInv, OffIsEmpty
<1>9. ASSUME NEW o \in Others, OtherSnapshot(o) \/ OtherCommit(o)
      PROVE  FetchIsEnabled' /\ ClearIsQuiet' /\ OffIsEmpty'
  BY <1>9 DEF OtherSnapshot, OtherCommit, QuietInv, FetchIsEnabled, ClearIsQuiet, OffIsEmpty,
              managerVars, loopVars, handlerVars
<1>7. CASE UNCHANGED vars
  BY <1>1, <1>7 DEF QuietInv, FetchIsEnabled, ClearIsQuiet, OffIsEmpty, vars, managerVars,
              loopVars, handlerVars
<1>8. FetchIsEnabled' /\ ClearIsQuiet' /\ OffIsEmpty'
  <2>1. Next => \/ \E h \in Handlers : HandlerStep(h)
                \/ \E h \in Handlers, enable \in BOOLEAN : PutBegin(h, enable)
                \/ \E o \in Others : OtherSnapshot(o) \/ OtherCommit(o)
                \/ \E i \in Chans : LoopStep(i)
    BY DEF Next, OneHandler
  <2>. QED
    BY <1>2, <1>3, <1>4, <1>5, <1>6, <1>7, <1>9, <2>1 DEF HandlerStep, QuietInv
<1>. QED
  BY <1>1, <1>8 DEF QuietInv

\* With one administrator and no manual refresh a source that is off lists nothing,
\* however its ticks, answers, starts and stops interleave.
THEOREM OffListsNothing ==
    ASSUME OneHandler
    PROVE  Spec => []OffIsEmpty
<1>1. Init => QuietInv
  BY QuietInit
<1>2. QuietInv /\ [Next]_vars => QuietInv'
  BY QuietStep
<1>3. QuietInv => OffIsEmpty
  BY DEF QuietInv
<1>. QED
  BY <1>1, <1>2, <1>3, PTL DEF Spec

\* Under the same restriction the loop, its start and its stop implement the on/off
\* service: every step is a TurnOn, a TurnOff, a Publish of a source that is on, or
\* invisible to the readers of the list.
THEOREM ServiceImplemented ==
    ASSUME OneHandler
    PROVE  Spec => ImplementsService
<1>1. Init => Service!Init
  BY DEF Init, Service!Init
<1>2. ASSUME QuietInv, [Next]_vars
      PROVE  [Service!Next]_<<enabled, apps>>
  <2>1. ASSUME NEW h \in Handlers, NEW enable \in BOOLEAN, PutBegin(h, enable)
        PROVE  UNCHANGED <<enabled, apps>>
    BY <2>1 DEF PutBegin, managerVars
  <2>2. ASSUME NEW h \in Handlers, HandlerStep(h)
        PROVE  Service!TurnOn \/ Service!TurnOff \/ UNCHANGED <<enabled, apps>>
    BY <2>2 DEF HandlerStep, PutSnapshot, PutCommit, StartLoop, StopClose, StopWait, StopWoken,
                StopClear, managerVars, Service!TurnOn, Service!TurnOff
  <2>3. ASSUME NEW i \in Chans, LoopStep(i)
        PROVE  Service!Publish \/ UNCHANGED <<enabled, apps>>
    <3>1. CASE LoopFetch(i)
      <4>1. enabled /\ enabled' = enabled /\ apps' \in AppLists \cup {apps}
        BY <1>2, <3>1 DEF LoopFetch, QuietInv, FetchIsEnabled
      <4>2. apps \in AppLists
        BY <1>2 DEF QuietInv, LifecycleInv, TypeOK
      <4>. QED
        BY <4>1, <4>2 DEF Service!Publish
    <3>2. CASE ~LoopFetch(i)
      BY <2>3, <3>2 DEF LoopStep, LoopCheck, LoopEval, LoopPark, LoopTick, LoopExit,
                        managerVars
    <3>. QED
      BY <3>1, <3>2
  <2>4. CASE UNCHANGED vars
    BY <2>4 DEF vars, managerVars
  <2>5. ASSUME NEW o \in Others, OtherSnapshot(o) \/ OtherCommit(o)
        PROVE  UNCHANGED <<enabled, apps>>
    BY <2>5 DEF OtherSnapshot, OtherCommit, managerVars
  <2>. QED
    BY <1>2, <2>1, <2>2, <2>3, <2>4, <2>5 DEF Next, OneHandler, Service!Next
<1>3. Init => QuietInv
  BY QuietInit
<1>4. QuietInv /\ [Next]_vars => QuietInv'
  BY QuietStep
<1>5. QuietInv /\ [Next]_vars => [Service!Next]_<<enabled, apps>>
  BY <1>2
<1>. QED
  BY <1>1, <1>3, <1>4, <1>5, PTL DEF Spec, ImplementsService, Service!Spec
-----------------------------------------------------------------------------
(* One administrator, manual refreshes and other requests that save the     *)
(* settings at any time: the switch follows the table.  Two handlers may    *)
(* save in one order and switch in the other.                               *)

OneAdministrator == \E h : Handlers = {h}

\* Where a PUT stands between the table and the switch; in particular nobody starts a
\* loop between the release of a sleeping Wg.Wait and its return.
Stands(h) ==
    /\ hpc[h] \notin {"save", "commit"} /\ ~unsure => saved = cfg
    /\ hpc[h] = "idle" /\ ~unsure => enabled = cfg
    /\ hpc[h] # "idle" => cfg = hop[h]
    /\ hpc[h] = "commit" => snap[h] = {cfg}
    /\ hpc[h] = "start" => hop[h]
    /\ hpc[h] \in {"stop", "wgwait", "parked", "woken", "clear"} => ~hop[h]
    /\ hpc[h] \in {"idle", "save", "commit", "start", "stop"} => (enabled <=> stop # Nil)
    /\ hpc[h] \in {"wgwait", "parked", "woken", "clear"} => stop = Nil
    /\ hpc[h] = "woken" => wg = 0

AgreeInv ==
    /\ LifecycleInv
    /\ envOverride \/ \A h \in Handlers : Stands(h)

LEMMA AgreeInit == Init => AgreeInv
<1>. SUFFICES ASSUME Init, ~envOverride, NEW h \in Handlers
              PROVE  Stands(h)
  BY LifecycleInit DEF AgreeInv
<1>1. enabled = cfg /\ hpc[h] = "idle" /\ (enabled <=> stop # Nil)
  <2>1. hpc[h] = "idle"
    BY DEF Init
  <2>2. enabled <=> stop # Nil
    BY DEF Init, Nil
  <2>3. enabled \in BOOLEAN /\ cfg \in BOOLEAN /\ (enabled <=> cfg)
    BY DEF Init
  <2>. QED
    BY <2>1, <2>2, <2>3
<1>2. ~unsure => saved = cfg
  BY DEF Init
<1>. QED
  BY <1>1, <1>2 DEF Stands

LEMMA AgreeStep ==
    ASSUME OneAdministrator, AgreeInv, [Next]_vars
    PROVE  AgreeInv'
<1>1. LifecycleInv' /\ TypeOK
  BY LifecycleStep DEF AgreeInv, LifecycleInv
<1>2. envOverride' = envOverride
  BY DEF Next, HandlerStep, LoopStep, RefreshStep, PutBegin, PutSnapshot, PutCommit, StartLoop,
         StopClose, StopWait, StopWoken, StopClear, OtherSnapshot, OtherCommit, LoopCheck,
         LoopFetch, LoopEval, LoopPark, LoopTick, LoopExit, RefreshSpawn, RefreshCheck,
         RefreshFetch, vars, configVars, saveVars
<1>. SUFFICES ASSUME ~envOverride
              PROVE  \A h \in Handlers : Stands(h)'
  BY <1>1, <1>2 DEF AgreeInv
<1>3. PICK h : Handlers = {h}
  BY DEF OneAdministrator
<1>4. Stands(h) /\ hpc[h] \in HandlerPcs /\ hop[h] \in BOOLEAN
  BY <1>1, <1>3 DEF AgreeInv, TypeOK
<1>. SUFFICES Stands(h)'
  BY <1>3
<1>5. ASSUME NEW enable \in BOOLEAN, PutBegin(h, enable)
      PROVE  Stands(h)'
  BY <1>1, <1>3, <1>4, <1>5 DEF PutBegin, Stands, TypeOK, managerVars
<1>6. CASE PutSnapshot(h) \/ PutCommit(h)
  <2>1. UNCHANGED <<enabled, stop, wg, cfg, hop>>
    BY <1>6 DEF PutSnapshot, PutCommit, managerVars
  <2>2. CASE PutSnapshot(h)
    BY <1>1, <1>3, <1>4, <2>1, <2>2 DEF PutSnapshot, Stands, TypeOK
  <2>3. CASE PutCommit(h)
    BY <1>1, <1>3, <1>4, <2>1, <2>3 DEF PutCommit, Stands, TypeOK
  <2>. QED
    BY <1>6, <2>2, <2>3
<1>7. CASE StartLoop(h)
  <2>1. hpc' = [hpc EXCEPT ![h] = "idle"] /\ UNCHANGED <<saved, unsure, snap, cfg, hop>>
    BY <1>7 DEF StartLoop, configVars, saveVars
  <2>2. enabled' /\ stop' # Nil
    BY <1>1, <1>4, <1>7 DEF StartLoop, Stands, TypeOK, Nil, managerVars
  <2>. QED
    BY <1>1, <1>3, <1>4, <1>7, <2>1, <2>2 DEF StartLoop, Stands, TypeOK
<1>8. CASE StopClose(h)
  BY <1>1, <1>3, <1>4, <1>8 DEF StopClose, Stands, TypeOK, configVars, saveVars
<1>9. CASE StopWait(h)
  BY <1>1, <1>3, <1>4, <1>9 DEF StopWait, Stands, TypeOK, configVars, saveVars, managerVars
<1>10. CASE StopWoken(h)
  BY <1>1, <1>3, <1>4, <1>10 DEF StopWoken, Stands, TypeOK, configVars, saveVars, managerVars
<1>11. CASE StopClear(h)
  BY <1>1, <1>3, <1>4, <1>11 DEF StopClear, Stands, TypeOK, configVars, saveVars
<1>12. ASSUME NEW i \in Chans, LoopStep(i)
       PROVE  Stands(h)'
  <2>1. UNCHANGED <<enabled, stop, saved, unsure, snap, cfg, hop>>
    BY <1>12 DEF LoopStep, LoopCheck, LoopFetch, LoopEval, LoopPark, LoopTick, LoopExit,
                 managerVars, configVars, saveVars, handlerVars
  <2>2. CASE LoopExit(i)
    <3>1. wg > 0 /\ wg' = wg - 1
      BY <1>1, <2>2, DiscoveryConstants DEF LoopExit, LifecycleInv, TypeOK
    <3>2. hpc'[h] = IF wg' = 0 /\ hpc[h] = "parked" THEN "woken" ELSE hpc[h]
      BY <1>3, <2>2 DEF LoopExit
    <3>. QED
      BY <1>4, <2>1, <3>1, <3>2 DEF Stands
  <2>3. CASE ~LoopExit(i)
    BY <1>4, <1>12, <2>1, <2>3 DEF LoopStep, LoopCheck, LoopFetch, LoopEval, LoopPark,
                                   LoopTick, managerVars, handlerVars, Stands
  <2>. QED
    BY <2>2, <2>3
<1>13. ASSUME NEW r \in Refreshers, RefreshSpawn(r) \/ RefreshStep(r)
       PROVE  Stands(h)'
  BY <1>4, <1>13 DEF RefreshSpawn, RefreshStep, RefreshCheck, RefreshFetch, managerVars,
                     configVars, saveVars, handlerVars, Stands
<1>15. ASSUME NEW o \in Others, OtherSnapshot(o) \/ OtherCommit(o)
       PROVE  Stands(h)'
  <2>1. UNCHANGED <<enabled, stop, wg, cfg, hop, hpc>> /\ snap'[h] = snap[h]
    <3>1. o # h /\ h \in Handlers \cup Others
      BY <1>3, DiscoveryConstants
    <3>2. UNCHANGED <<managerVars, cfg, handlerVars>>
          /\ \E new : snap' = [snap EXCEPT ![o] = new]
      BY <1>15 DEF OtherSnapshot, OtherCommit
    <3>3. snap \in [Handlers \cup Others -> SUBSET BOOLEAN]
      BY <1>1 DEF TypeOK
    <3>. QED
      BY <3>1, <3>2, <3>3 DEF managerVars, handlerVars
  <2>2. ~unsure' => ~unsure /\ (saved' = saved \/ saved' = cfg)
    BY <1>1, <1>15 DEF OtherSnapshot, OtherCommit, TypeOK
  <2>. QED
    BY <1>4, <2>1, <2>2 DEF Stands
<1>14. CASE UNCHANGED vars
  BY <1>4, <1>14 DEF vars, managerVars, configVars, saveVars, handlerVars, Stands
<1>. QED
  BY <1>3, <1>5, <1>6, <1>7, <1>8, <1>9, <1>10, <1>11, <1>12, <1>13, <1>14,
     <1>15
     DEF Next, HandlerStep

\* With one administrator at a time, whatever manual refreshes and other saves run beside:
\* between two PUTs the source runs exactly when the table says that it should, unless the
\* last PUT was answered with an error or a save that overlapped it wrote an older setting.
THEOREM SwitchFollowsTable ==
    ASSUME OneAdministrator
    PROVE  Spec => []EnabledAsSaved
<1>1. AgreeInv /\ [Next]_vars => AgreeInv'
  BY AgreeStep
<1>2. AgreeInv => EnabledAsSaved
  BY DEF AgreeInv, EnabledAsSaved, AllIdle, Stands, OneAdministrator
<1>. QED
  BY AgreeInit, <1>1, <1>2, PTL DEF Spec

-----------------------------------------------------------------------------
(* Any number of administrators: what is on has a loop, or is being stopped. *)

\* While a loop without a Stop field runs, some Stop waits for it.
LoopIsAwaited ==
    stop = Nil /\ wg # 0 => \E h \in Handlers : hpc[h] \in {"wgwait", "parked"}

HasLoopInv == LifecycleInv /\ LoopIsAwaited /\ OnHasLoop

LEMMA HasLoopInit == Init => HasLoopInv
<1>1. Init => LoopIsAwaited /\ OnHasLoop
  BY DEF Init, LoopIsAwaited, OnHasLoop, Nil
<1>. QED
  BY <1>1, LifecycleInit DEF HasLoopInv

LEMMA HasLoopStep == HasLoopInv /\ [Next]_vars => HasLoopInv'
<1>. SUFFICES ASSUME HasLoopInv, [Next]_vars
              PROVE  LoopIsAwaited' /\ OnHasLoop'
  BY LifecycleStep DEF HasLoopInv
<1>1. TypeOK /\ LoopIsAwaited /\ OnHasLoop
  BY DEF HasLoopInv, LifecycleInv
<1> DEFINE Waits   == {"wgwait", "parked"}
           Stops   == {"wgwait", "parked", "woken", "clear"}
\* A step that leaves the manager alone and takes nobody out of a Stop.
<1>2. ASSUME UNCHANGED <<enabled, stop, wg>>,
             \A h \in Handlers : hpc[h] \in Stops => hpc'[h] = hpc[h]
      PROVE  LoopIsAwaited' /\ OnHasLoop'
  BY <1>1, <1>2 DEF LoopIsAwaited, OnHasLoop
<1>3. ASSUME NEW h \in Handlers, NEW enable \in BOOLEAN, PutBegin(h, enable)
      PROVE  LoopIsAwaited' /\ OnHasLoop'
  <2>1. UNCHANGED <<enabled, stop, wg>> /\ \A g \in Handlers : hpc[g] \in Stops => hpc'[g] = hpc[g]
    BY <1>1, <1>3 DEF PutBegin, TypeOK, managerVars
  <2>. QED
    BY <1>2, <2>1
<1>4. ASSUME NEW h \in Handlers, PutSnapshot(h) \/ PutCommit(h)
      PROVE  LoopIsAwaited' /\ OnHasLoop'
  <2>1. UNCHANGED <<enabled, stop, wg>> /\ \A g \in Handlers : hpc[g] \in Stops => hpc'[g] = hpc[g]
    BY <1>1, <1>4 DEF PutSnapshot, PutCommit, TypeOK, managerVars
  <2>. QED
    BY <1>2, <2>1
<1>5. ASSUME NEW h \in Handlers, StartLoop(h)
      PROVE  LoopIsAwaited' /\ OnHasLoop'
  <2>1. stop' # Nil
    BY <1>1, <1>5 DEF StartLoop, TypeOK, Nil, managerVars
  <2>. QED
    BY <2>1 DEF LoopIsAwaited, OnHasLoop
<1>6. ASSUME NEW h \in Handlers, StopClose(h)
      PROVE  LoopIsAwaited' /\ OnHasLoop'
  <2>1. hpc'[h] = "wgwait"
    BY <1>1, <1>6 DEF StopClose, TypeOK
  <2>. QED
    BY <2>1 DEF LoopIsAwaited, OnHasLoop
<1>7. ASSUME NEW h \in Handlers, StopWait(h)
      PROVE  LoopIsAwaited' /\ OnHasLoop'
  <2>1. UNCHANGED <<enabled, stop, wg>> /\ hpc'[h] = IF wg = 0 THEN "clear" ELSE "parked"
    BY <1>1, <1>7 DEF StopWait, TypeOK, managerVars
  <2>. QED
    BY <2>1 DEF LoopIsAwaited, OnHasLoop
<1>8. ASSUME NEW h \in Handlers, StopWoken(h)
      PROVE  LoopIsAwaited' /\ OnHasLoop'
  <2>1. /\ UNCHANGED <<enabled, stop, wg>> /\ hpc[h] = "woken"
        /\ hpc'[h] = IF wg = 0 THEN "clear" ELSE "idle"
        /\ \A g \in Handlers : g # h => hpc'[g] = hpc[g]
    BY <1>1, <1>8 DEF StopWoken, TypeOK, managerVars
  <2>2. LoopIsAwaited'
    BY <1>1, <2>1 DEF LoopIsAwaited
  <2>3. OnHasLoop'
    BY <2>1, <2>2 DEF LoopIsAwaited, OnHasLoop
  <2>. QED
    BY <2>2, <2>3
<1>9. ASSUME NEW h \in Handlers, StopClear(h)
      PROVE  LoopIsAwaited' /\ OnHasLoop'
  <2>1. /\ ~enabled' /\ UNCHANGED <<stop, wg>> /\ hpc[h] = "clear"
        /\ \A g \in Handlers : g # h => hpc'[g] = hpc[g]
    BY <1>1, <1>9 DEF StopClear, TypeOK
  <2>. QED
    BY <1>1, <2>1 DEF LoopIsAwaited, OnHasLoop
<1>10. ASSUME NEW i \in Chans, LoopStep(i)
       PROVE  LoopIsAwaited' /\ OnHasLoop'
  <2>1. CASE LoopExit(i)
    <3>1. /\ UNCHANGED <<enabled, stop>> /\ wg' = wg - 1 /\ wg \in Nat
          /\ \A h \in Handlers :
                hpc'[h] = IF wg' = 0 /\ hpc[h] = "parked" THEN "woken" ELSE hpc[h]
      BY <1>1, <2>1, DiscoveryConstants DEF LoopExit, TypeOK
    <3>2. wg # 0
      BY <2>1, LiveFinite, FS_EmptySet
         DEF LoopExit, Live, HasLoopInv, LifecycleInv, WgCountsLoops
    <3>. QED
      BY <1>1, <3>1, <3>2 DEF LoopIsAwaited, OnHasLoop
  <2>2. CASE ~LoopExit(i)
    <3>1. UNCHANGED <<enabled, stop, wg, hpc>>
      BY <1>10, <2>2 DEF LoopStep, LoopCheck, LoopFetch, LoopEval, LoopPark, LoopTick,
                         managerVars, handlerVars
    <3>. QED
      BY <1>2, <3>1
  <2>. QED
    BY <2>1, <2>2
<1>11. CASE \/ \E o \in Others : OtherSnapshot(o) \/ OtherCommit(o)
            \/ \E r \in Refreshers : RefreshSpawn(r) \/ RefreshStep(r)
            \/ UNCHANGED vars
  <2>1. UNCHANGED <<enabled, stop, wg, hpc>>
    BY <1>11 DEF OtherSnapshot, OtherCommit, RefreshSpawn, RefreshStep, RefreshCheck,
                 RefreshFetch, vars, managerVars, handlerVars
  <2>. QED
    BY <1>2, <2>1
<1>. QED
  BY <1>3, <1>4, <1>5, <1>6, <1>7, <1>8, <1>9, <1>10, <1>11 DEF Next, HandlerStep

\* However many administrators start and stop it at once, a source that is on has a loop,
\* or a Stop is under way that will turn it off: none is left on and never refreshed.
THEOREM OnAlwaysHasLoop == Spec => []OnHasLoop
<1>1. HasLoopInv => OnHasLoop
  BY DEF HasLoopInv
<1>. QED
  BY HasLoopInit, HasLoopStep, <1>1, PTL DEF Spec
=============================================================================
