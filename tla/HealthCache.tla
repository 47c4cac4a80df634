---------------------------- MODULE HealthCache ----------------------------
(***************************************************************************)
(* Which services answer: the cache of health statuses, the rounds that    *)
(* replace it every thirty seconds, and the single check that the addition *)
(* of an application starts.                                               *)
(*                                                                         *)
(* The applications of the catalogue are a Go slice: cells is its backing  *)
(* array and size the length that app.Config sees.  A deletion or an edit  *)
(* shifts the array in place, under whoever holds an older header of it.   *)
(***************************************************************************)
EXTENDS Naturals, Sequences, FiniteSets

CONSTANTS
    Urls,
    Sources,      \* of discovered applications
    SourceOrder,  \* the order in which they are asked
    Replies       \* how a service may answer: records of the statuses of HEAD and GET

ASSUME HealthConstants ==
    /\ SourceOrder \in Seq(Sources) /\ {SourceOrder[i] : i \in DOMAIN SourceOrder} = Sources
    /\ \A i, j \in DOMAIN SourceOrder : SourceOrder[i] = SourceOrder[j] => i = j
    /\ Replies \subseteq [head : Nat, get : Nat]

VARIABLES
    cells, size,   \* app.Config: backing array and length
    listed,        \* what each source has published
    service,       \* how each address answers
    health,        \* app.HealthCache
    round,         \* RunHealthChecks under way
    single         \* checks of new applications under way: from URL to status

catalogueVars == <<cells, size>>
healthVars == <<cells, size, listed, service, health, round, single>>

Catalogue == {cells[i] : i \in 1..size}
Discovered == UNION {listed[s] : s \in Sources}
Watched == Catalogue \cup Discovered

Idle == [pc |-> "idle", next |-> 1, urls |-> {}, results |-> <<>>]
Pending == "pending"
Statuses == {"online", "offline"}

HealthInit ==
    /\ service \in [Urls -> Replies]
    /\ health = <<>>
    /\ round = Idle
    /\ single = <<>>

-----------------------------------------------------------------------------
\* 401 and 403 come from a service that is up.
IsHealthy(code) == code \in 200..399 \cup {401, 403}

\* HEAD, and GET for a service that answered something else; no answer at all (0) is
\* final.
CheckHealth(reply) ==
    IF IsHealthy(reply.head) \/ (reply.head # 0 /\ IsHealthy(reply.get))
    THEN "online" ELSE "offline"

Set(f, u, value) == [v \in DOMAIN f \cup {u} |-> IF v = u THEN value ELSE f[v]]

-----------------------------------------------------------------------------
(* A round.                                                                 *)

RoundConfig ==
    /\ round.pc = "idle"
    /\ round' = [Idle EXCEPT !.pc = "discovered", !.urls = Catalogue]
    /\ UNCHANGED <<catalogueVars, listed, service, health, single>>

\* The sources one after the other.
RoundDiscovered ==
    /\ round.pc = "discovered"
    /\ round' = IF round.next > Len(SourceOrder) THEN [round EXCEPT !.pc = "check"]
                ELSE [round EXCEPT !.next = @ + 1,
                                   !.urls = @ \cup listed[SourceOrder[round.next]]]
    /\ UNCHANGED <<catalogueVars, listed, service, health, single>>

\* The checks run at once, at most twenty of them, and end in any order.
RoundCheck(u) ==
    /\ round.pc = "check"
    /\ u \in round.urls \ DOMAIN round.results
    /\ round' = [round EXCEPT !.results = Set(@, u, CheckHealth(service[u]))]
    /\ UNCHANGED <<catalogueVars, listed, service, health, single>>

\* Mutant: the results are added to the map of the moment.
RoundReplaceMerges ==
    /\ round.pc = "check"
    /\ round.urls = DOMAIN round.results
    /\ health' = [u \in DOMAIN health \cup round.urls |->
                    IF u \in round.urls THEN round.results[u] ELSE health[u]]
    /\ round' = Idle
    /\ UNCHANGED <<catalogueVars, listed, service, single>>

\* The results replace the whole map, what a single check wrote meanwhile included.
RoundReplace ==
    /\ round.pc = "check"
    /\ round.urls = DOMAIN round.results
    /\ health' = round.results
    /\ round' = Idle
    /\ UNCHANGED <<catalogueVars, listed, service, single>>

-----------------------------------------------------------------------------
(* The goroutine of a new application.                                      *)

SingleCheck(u) ==
    /\ u \in DOMAIN single /\ single[u] = Pending
    /\ single' = Set(single, u, CheckHealth(service[u]))
    /\ UNCHANGED <<catalogueVars, listed, service, health, round>>

SingleWrite(u) ==
    /\ u \in DOMAIN single /\ single[u] # Pending
    /\ health' = Set(health, u, single[u])
    /\ single' = [v \in DOMAIN single \ {u} |-> single[v]]
    /\ UNCHANGED <<catalogueVars, listed, service, round>>

-----------------------------------------------------------------------------
(* What changes beside them.                                                *)

\* append writes into a cell that a deletion has given up, or else moves to a new array;
\* a category that lost its last application is dropped and its array with it.
NewArray == size = Len(cells)

\* POST, saved; then a check.  (Of two checks of a URL under way the newer is followed.)
AddApp(u) ==
    /\ u \notin Catalogue
    /\ cells' = SubSeq(cells, 1, size) \o <<u>> \o SubSeq(cells, size + 2, Len(cells))
    /\ size' = size + 1
    /\ single' = Set(single, u, Pending)
    /\ UNCHANGED <<listed, service, health, round>>

\* DELETE: append(apps[:i], apps[i+1:]...) in place; the last cell keeps its content.
RemoveApp(i) ==
    /\ i \in 1..size
    /\ cells' = IF size = 1 THEN <<>> ELSE
                [j \in DOMAIN cells |-> IF i <= j /\ j < size THEN cells[j + 1] ELSE cells[j]]
    /\ size' = size - 1
    /\ UNCHANGED <<listed, service, health, round, single>>

\* PUT: taken out as by DELETE, and appended, with a new URL or the one it had, into the
\* cell that leaves.  No check is started.
EditApp(i, u) ==
    /\ i \in 1..size
    /\ u \notin Catalogue \/ u = cells[i]
    /\ cells' = IF size = 1 THEN <<u>> ELSE
                [j \in DOMAIN cells |-> IF j = size THEN u
                                       ELSE IF i <= j /\ j < size THEN cells[j + 1] ELSE cells[j]]
    /\ UNCHANGED <<size, listed, service, health, round, single>>

Publish(s, us) ==
    /\ listed' = [listed EXCEPT ![s] = us]
    /\ UNCHANGED <<catalogueVars, service, health, round, single>>

ServiceChanges(u, reply) ==
    /\ service' = [service EXCEPT ![u] = reply]
    /\ UNCHANGED <<catalogueVars, listed, health, round, single>>

RoundStep == RoundConfig \/ RoundDiscovered \/ RoundReplace
SingleStep(u) == SingleCheck(u) \/ SingleWrite(u)

-----------------------------------------------------------------------------
(* Properties.                                                              *)

\* See HealthSettles in Dashboard.
Settles ==
    \A u \in Urls :
        /\ \A reply \in Replies :
              (\/ <>[](u \in Catalogue /\ service[u] = reply)
               \/ \E s \in Sources : <>[](u \in listed[s] /\ service[u] = reply))
              => <>[](u \in DOMAIN health /\ health[u] = CheckHealth(reply))
        /\ <>[](u \notin Watched) => <>[](u \notin DOMAIN health)
=============================================================================
