--------------------------- MODULE DashboardView ---------------------------
(***************************************************************************)
(* The page a user gets: the applications of the catalogue the user's      *)
(* groups admit, then the discovered ones that an override makes visible.  *)
(* It is put together while administrators edit both, and while the        *)
(* sources and the health rounds publish.                                  *)
(*                                                                         *)
(* One page is followed at a time; its user is an administrator or not.    *)
(* Of groups only what they decide for this user is modelled: admitted     *)
(* holds the URLs whose mapping admits them, and an override is open or    *)
(* not.                                                                    *)
(***************************************************************************)
EXTENDS HealthCache, OverridesCache, SequencesExt

CONSTANTS
    Focuses,       \* bound: what a behaviour is about
    Moving,        \* bound: the URLs that sources find, and that change
    MaxChanges     \* bound: what may change while a page is put together

ASSUME ViewConstants ==
    /\ OverriddenUrls = Urls /\ IsFiniteSet(Urls)
    /\ "shared" \notin Urls /\ "catalogue" \notin Sources
    /\ \A o \in Overrides : o.hidden \in BOOLEAN /\ o.open \in BOOLEAN
    /\ Moving \subseteq Urls

VARIABLES
    focus,
    admitted,  \* app.AppMappings and the groups of applications
    page,      \* the page being put together
    changes    \* how much has changed since it began

viewVars == <<focus, admitted, page, changes>>
vars == <<healthVars, overrideVars, viewVars>>

Via == {"catalogue"} \cup Sources

\* apps is the array a page reads, Shared while app.Config still uses it; length the
\* one of the slice header the page copied; found are the URLs of the list being read
\* whose override is still to be looked up.  throughout and shifted are for the property:
\* what was visible since the page began, and how; and whether an application has been
\* deleted or edited since.
Shared == <<"shared">>
NoPage == [pc |-> "idle", admin |-> FALSE, apps |-> Shared, length |-> 0, next |-> 1,
           found |-> {}, config |-> {}, shown |-> <<>>, throughout |-> {}, shifted |-> FALSE]

\* Almost an empty system for health rounds and edits; a page may meet any system.
ViewInit ==
    /\ focus \in Focuses
    /\ HealthInit /\ OverridesInit
    /\ focus = "health" \/ \A u \in Urls : service[u] = CHOOSE reply \in Replies : TRUE
    /\ IF focus = "page"
       THEN /\ cells \in {c \in UNION {[1..n -> Urls] : n \in 0..Cardinality(Urls)} :
                             IsInjective(c)}
            /\ listed \in [Sources -> SUBSET Moving]
            /\ table \in {t \in [Urls -> Overrides \cup {NoOverride}] :
                             \A u \in Urls \ Moving : t[u] = NoOverride}
            /\ admitted \in SUBSET Urls
       ELSE /\ cells = SetToSeq(IF focus = "health" THEN Urls \ Moving ELSE {})
            /\ listed = [s \in Sources |-> {}]
            /\ table = [u \in Urls |-> NoOverride]
            /\ admitted = {}
    /\ size = Len(cells)
    /\ cache = table
    /\ page = NoPage
    /\ changes = 0

-----------------------------------------------------------------------------
\* filterAppsByGroups: administrators see everything.
InCatalogue(u, admin) == admin \/ u \in admitted

\* DashboardHandler: shown only with an override, not a hidden one, to those whom its
\* groups admit.
MayDiscover(u, admin) ==
    cache[u] # NoOverride /\ ~cache[u].hidden /\ (admin \/ cache[u].open)

\* What the page should hold, and by which way, at this moment.
Visible ==
    [admin \in BOOLEAN |->
        LET shown == {u \in Catalogue : InCatalogue(u, admin)}
        IN  shown \X {"catalogue"} \cup
            {x \in Urls \X Sources :
                x[1] \in listed[x[2]] \ shown /\ MayDiscover(x[1], admin)}]

\* app.Config.Categories is copied, the arrays of applications are not.
PageBegin(admin) ==
    /\ page.pc = "idle"
    /\ changes = 0
    /\ page' = [NoPage EXCEPT !.pc = "catalogue", !.admin = admin, !.length = size,
                              !.throughout = Visible[admin]]

Cell(i) == IF page.apps = Shared THEN cells[i] ELSE page.apps[i]

\* filterAppsByGroups, application by application: the mapping and the health status
\* are looked up for each.
PageFilter ==
    LET u == Cell(page.next)
    IN  /\ page.pc = "catalogue" /\ page.next <= page.length
        /\ page' = IF InCatalogue(u, page.admin)
                   THEN [page EXCEPT !.next = @ + 1, !.config = @ \cup {u},
                                     !.shown = Append(@, <<u, "catalogue">>)]
                   ELSE [page EXCEPT !.next = @ + 1]

PageFiltered ==
    /\ page.pc = "catalogue" /\ page.next > page.length
    /\ page' = [page EXCEPT !.pc = "discovered", !.next = 1]

\* The list of one source is copied.
PageSource ==
    /\ page.pc = "discovered" /\ page.next <= Len(SourceOrder) /\ page.found = {}
    /\ page' = [page EXCEPT !.next = @ + 1, !.found = listed[SourceOrder[page.next]]]

Current == SourceOrder[page.next - 1]

\* Mutant: what the catalogue has already is not looked at.
PageOverrideAgain(u) ==
    /\ page.pc = "discovered" /\ u \in page.found
    /\ page' = [page EXCEPT !.found = @ \ {u},
                            !.shown = IF MayDiscover(u, page.admin) THEN Append(@, <<u, Current>>)
                                      ELSE @]

\* The override of one application of it is looked up, by which, and by what the
\* catalogue has given, it is shown or not.
PageOverride(u) ==
    /\ page.pc = "discovered" /\ u \in page.found
    /\ page' = [page EXCEPT !.found = @ \ {u},
                            !.shown = IF u \notin page.config /\ MayDiscover(u, page.admin)
                                      THEN Append(@, <<u, Current>>) ELSE @]

PageDone ==
    /\ page.pc = "discovered" /\ page.next > Len(SourceOrder) /\ page.found = {}
    /\ page' = [page EXCEPT !.pc = "done"]

PageSent ==
    /\ page.pc = "done"
    /\ page' = NoPage

\* A page that reads an array app.Config gives up keeps it as it is.
Detach(moved, deleted) ==
    page' = IF page.pc = "idle" THEN page
            ELSE [page EXCEPT !.apps = IF moved /\ @ = Shared THEN cells ELSE @,
                              !.throughout = @ \cap Visible'[page.admin],
                              !.shifted = @ \/ deleted]

-----------------------------------------------------------------------------
HealthAlone == focus = "health" /\ UNCHANGED <<overrideVars, viewVars>>

HealthSteps ==
    /\ HealthAlone
    /\ RoundStep \/ \E u \in Urls : RoundCheck(u) \/ SingleStep(u)

HealthChanges ==
    /\ focus = "health"
    /\ UNCHANGED <<overrideVars, focus, admitted, changes>>
    /\ \/ \E u \in Moving : AddApp(u) /\ Detach(NewArray, FALSE)
       \/ \E i \in 1..size : cells[i] \in Moving /\ RemoveApp(i) /\ Detach(size = 1, TRUE)
       \/ \E i \in 1..size, u \in Urls :
             (u = cells[i] \/ {u, cells[i]} \subseteq Moving) /\ EditApp(i, u)
             /\ Detach(size = 1, TRUE)
       \/ /\ \/ \E s \in Sources, us \in SUBSET Moving : Publish(s, us)
             \/ \E u \in Moving, reply \in Replies : ServiceChanges(u, reply)
          /\ UNCHANGED page

OverrideSteps ==
    /\ focus = "overrides"
    /\ OverridesNext
    /\ UNCHANGED <<healthVars, viewVars>>

PageSteps ==
    /\ focus = "page"
    /\ \/ \E admin \in BOOLEAN : PageBegin(admin)
       \/ PageFilter \/ PageFiltered \/ PageSource \/ (\E u \in Urls : PageOverride(u))
       \/ PageDone \/ PageSent
    /\ UNCHANGED <<healthVars, overrideVars, focus, admitted, changes>>

\* While a page is put together: at most MaxChanges, edits counted as they begin.
PageChanges ==
    /\ focus = "page" /\ page.pc \in {"catalogue", "discovered"}
    /\ UNCHANGED focus
    /\ \/ /\ changes < MaxChanges
          /\ changes' = changes + 1
          /\ \/ /\ UNCHANGED <<overrideVars, admitted>>
                /\ \/ \E u \in Urls : AddApp(u) /\ Detach(NewArray, FALSE)
                   \/ \E i \in 1..size : RemoveApp(i) /\ Detach(size = 1, TRUE)
                   \/ \E s \in Sources, us \in SUBSET Moving : Publish(s, us) /\ Detach(FALSE, FALSE)
             \/ /\ UNCHANGED overrideVars
                /\ \E i \in 1..size, u \in Urls :
                      /\ EditApp(i, u)
                      /\ admitted' \in {admitted \ {u}, admitted \cup {u}}
                      /\ Detach(size = 1, TRUE)
             \/ /\ UNCHANGED <<healthVars, admitted>>
                /\ \E e \in Editors, u \in Moving, o \in Overrides \cup {NoOverride} :
                      EditBegin(e, u, o) /\ Detach(FALSE, FALSE)
             \/ /\ UNCHANGED <<healthVars, overrideVars>>
                /\ \E u \in Urls : admitted' = SymDiff(admitted, {u})
                /\ Detach(FALSE, FALSE)
       \/ /\ UNCHANGED <<healthVars, admitted, changes>>
          /\ \E e \in Editors : (EditTable(e) \/ EditCache(e)) /\ Detach(FALSE, FALSE)

ViewNext ==
    HealthSteps \/ HealthChanges \/ OverrideSteps \/ PageSteps \/ PageChanges

\* By itself; Dashboard composes it with what it does not depend on.
ViewSpec == ViewInit /\ [][ViewNext]_vars

-----------------------------------------------------------------------------
(* Properties.                                                              *)

\* A page shows nothing twice of the catalogue or of one source, nothing of a source that
\* the catalogue has given it, and every application that was visible in one way all the
\* while: unless one of the catalogue was deleted or edited meanwhile, when the array that
\* the page is reading shifts under it.  (What two sources have found is shown for each.)
PageIsRight ==
    page.pc = "done" /\ ~page.shifted =>
        /\ IsInjective(page.shown)
        /\ page.throughout \subseteq ToSet(page.shown)
        /\ \A x \in ToSet(page.shown) : x[2] # "catalogue" => x[1] \notin page.config
=============================================================================
