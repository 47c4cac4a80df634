----------------------------- MODULE Dashboard -----------------------------
(***************************************************************************)
(* What stands behind a page: the lists the sources make, the token that   *)
(* one of them needs, the health of what they hold, the overrides, and the *)
(* page itself.  A behaviour is about one of these (focus), with what      *)
(* changes beside it; the others stand still, as their steps share with it *)
(* nothing but what the changes stand for.                                 *)
(***************************************************************************)
EXTENDS DashboardView, UpstreamTokens, DiscoveryParsers

ASSUME DashboardFocuses ==
    Focuses \subseteq {"health", "overrides", "page", "npm", "ldap", "lists"}

dashboardVars == <<vars, tokenVars, parseVars>>

\* Inputs are parsed where a behaviour is about that.
DashboardInit ==
    /\ ViewInit /\ TokensInit
    /\ IF focus = "lists" THEN ParseInit ELSE input = None /\ output = None

Npm(A) == focus = "npm" /\ A /\ UNCHANGED <<vars, parseVars>>

DashboardNext ==
    \/ ViewNext /\ UNCHANGED <<tokenVars, parseVars>>
    \/ Npm(NpmStep)
    \/ focus = "ldap" /\ LdapStep /\ UNCHANGED <<vars, parseVars>>
    \/ focus = "lists" /\ Discover /\ UNCHANGED <<vars, tokenVars>>

Health(A) == HealthAlone /\ A /\ UNCHANGED <<tokenVars, parseVars>>

\* The rounds, the loop and every goroutine they or a request have started run, and time
\* passes; nobody has to edit, to ask or to look.
DashboardSpec ==
    /\ DashboardInit /\ [][DashboardNext]_dashboardVars
    /\ WF_dashboardVars(Health(RoundStep))
    /\ \A u \in Urls : WF_dashboardVars(Health(RoundCheck(u)))
                       /\ WF_dashboardVars(Health(SingleStep(u)))
    /\ WF_dashboardVars(Npm(Tick))
    /\ WF_dashboardVars(Npm(RefreshBegin(Loop) \/ RefreshGoesOn(Loop)))
    /\ \A c \in Refreshers : WF_dashboardVars(Npm(RefreshGoesOn(c)))

-----------------------------------------------------------------------------
(* Properties.                                                              *)

\* The cache settles on the truth: the status of an application that stays where it is,
\* and whose service keeps answering the same, ends up right for good, and one that has
\* gone ends up forgotten, whatever a round or a single check that began earlier writes
\* late.  (An application that keeps moving between the catalogue and a source may be
\* missed by every round.)
HealthSettles == focus = "health" => Settles

\* The list of Nginx Proxy Manager settles on what the manager holds: from the time the
\* source stays on, its address stays and the manager answers, whatever token of another
\* manager is still stored and whatever refresh that began before publishes late.
NpmSettles == focus = "npm" => NpmFollows
=============================================================================
