-------------------------- MODULE DiscoveryService --------------------------
(***************************************************************************)
(* What a discovery source of DashGate promises to the rest of the server: *)
(* it is on or off, it lists applications only while it is on, and turning *)
(* it off empties the list.  The readers of the list (health checks, the   *)
(* dashboard's merge, the admin counters) rely on this and on no more.     *)
(***************************************************************************)
CONSTANTS AppLists, NoApps

VARIABLES
    on,    \* the source is on
    list   \* what GetApps returns

Init == on \in BOOLEAN /\ list = NoApps

TurnOn == on' = TRUE /\ UNCHANGED list

TurnOff == on' = FALSE /\ list' = NoApps

Publish == on /\ list' \in AppLists /\ UNCHANGED on

Next == TurnOn \/ TurnOff \/ Publish

Spec == Init /\ [][Next]_<<on, list>>
=============================================================================
