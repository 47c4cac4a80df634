--------------------------- MODULE OverridesCache ---------------------------
(***************************************************************************)
(* The overrides that make a discovered application visible: the table     *)
(* discovered_app_overrides and its copy in memory, which every reader     *)
(* uses.  A save or a deletion is a statement and, later, a critical       *)
(* section.                                                                *)
(***************************************************************************)
EXTENDS Naturals, FiniteSets

CONSTANTS
    Editors,        \* goroutines serving PUT and DELETE
    OverriddenUrls,
    Overrides,      \* what may be saved for a URL
    Saved,          \* bound: what is
    NoOverride

ASSUME OverrideConstants == Saved \subseteq Overrides /\ NoOverride \notin Overrides

VARIABLES
    table,      \* discovered_app_overrides
    cache,      \* app.DiscoveredOverrides
    editing,    \* what each goroutine works on
    collided,   \* URLs two edits of which have been under way at once since the start
    unread      \* URLs whose rows the start has failed to load, and not edited since

overrideVars == <<table, cache, editing, collided, unread>>

Edit == [pc : {"idle", "table", "cache"}, url : OverriddenUrls,
         value : Overrides \cup {NoOverride}]

NoEdit == [pc |-> "idle", url |-> CHOOSE u \in OverriddenUrls : TRUE, value |-> NoOverride]

OverridesInit ==
    /\ editing = [e \in Editors |-> NoEdit]
    /\ collided = {} /\ unread = {}

Busy(e) == editing[e].pc # "idle"
EditDone(e) == editing' = [editing EXCEPT ![e] = NoEdit]

\* PUT with an override, or DELETE (NoOverride).
EditBegin(e, u, value) ==
    /\ ~Busy(e)
    /\ editing' = [editing EXCEPT ![e] = [pc |-> "table", url |-> u, value |-> value]]
    /\ collided' = IF \E d \in Editors : Busy(d) /\ editing[d].url = u
                  THEN collided \cup {u} ELSE collided
    /\ UNCHANGED <<table, cache, unread>>

\* The statement, which may fail: the request is answered and the cache left alone.
EditTable(e) ==
    /\ editing[e].pc = "table"
    /\ \/ /\ table' = [table EXCEPT ![editing[e].url] = editing[e].value]
          /\ editing' = [editing EXCEPT ![e].pc = "cache"]
       \/ /\ EditDone(e)
          /\ UNCHANGED table
    /\ UNCHANGED <<cache, collided, unread>>

\* Mutant: a deletion leaves the cache alone.
EditCacheSaves(e) ==
    /\ editing[e].pc = "cache"
    /\ cache' = IF editing[e].value = NoOverride THEN cache
                ELSE [cache EXCEPT ![editing[e].url] = editing[e].value]
    /\ unread' = unread \ {editing[e].url}
    /\ EditDone(e)
    /\ UNCHANGED <<table, collided>>

EditCache(e) ==
    /\ editing[e].pc = "cache"
    /\ cache' = [cache EXCEPT ![editing[e].url] = editing[e].value]
    /\ unread' = unread \ {editing[e].url}
    /\ EditDone(e)
    /\ UNCHANGED <<table, collided>>

\* The process stops, and the next one loads the table: or not, which is logged, and
\* starts with none.
OverridesRestart ==
    /\ unread' \in {{}, {u \in OverriddenUrls : table[u] # NoOverride}}
    /\ cache' = [u \in OverriddenUrls |-> IF u \in unread' THEN NoOverride ELSE table[u]]
    /\ editing' = [e \in Editors |-> NoEdit]
    /\ collided' = {}
    /\ UNCHANGED table

OverridesNext ==
    \/ \E e \in Editors :
        \/ \E u \in OverriddenUrls, value \in Saved \cup {NoOverride} :
              EditBegin(e, u, value)
        \/ EditTable(e) \/ EditCache(e)
    \/ OverridesRestart

-----------------------------------------------------------------------------
\* What the cache should hold for a URL.
Loaded(u) == IF u \in unread THEN NoOverride ELSE table[u]

\* Table and cache differ on a URL only where an edit of it stands between the two, or
\* where the start has failed to load its row, which is missing until its next edit; unless
\* edits of that URL have overlapped: the cache may then keep the older of two until the
\* next start.
OverridesAgree ==
    \A u \in OverriddenUrls \ collided :
        \/ cache[u] = Loaded(u)
        \/ \E e \in Editors : editing[e].pc = "cache" /\ editing[e].url = u
=============================================================================
