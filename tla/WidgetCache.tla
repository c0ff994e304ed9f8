----------------------------- MODULE WidgetCache -----------------------------
(***************************************************************************)
(* The conditional GET of the widget list                                  *)
(* (internal/api/handler/metadata_widgets.go) and the client that keeps    *)
(* the last answer: GetETagAndLastMod and List of the repository are two   *)
(* queries, and requests that change widgets commit between them; without  *)
(* a repository the handler asks the registry, whose List holds its lock.  *)
(*                                                                         *)
(* A row is its content, its tenants (kind) and updated_at, which is the   *)
(* time.Now() of the server that wrote it: it may commit after a row with  *)
(* a later one.  Times count half seconds, HTTP dates seconds.             *)
(***************************************************************************)
EXTENDS Naturals

CONSTANTS Widgets,    \* widget ids
          Contents,
          Times,      \* the instants at which rows may be written
          NoWidget, NoAnswer,
          MaxWrites   \* bound: writes in a behaviour

\* system: for all tenants; mine, others: for listed ones; open: none is listed.
Kinds == {"system", "mine", "others", "open"}
WidgetRow == [kind : Kinds, content : Contents, at : Times]

\* Every set of instants has a last one: there are finitely many.
ASSUME CacheAssumption ==
    /\ Times \subseteq Nat \ {0}
    /\ \A S \in (SUBSET Times) \ {{}} : \E t \in S : \A u \in S : t >= u
    /\ {NoWidget, NoAnswer} \cap WidgetRow = {}
    /\ MaxWrites \in Nat

VARIABLES source,   \* what answers: the repository (of a driver) or the registry
          widgets,  \* id -> row
          get,      \* the running request: what GetETagAndLastMod returned, and
                    \* (history) what List would have returned then
          cache,    \* the client's copy, with the history of what happened since
          writes    \* number of writes so far

cacheVars == <<source, widgets, get, cache, writes>>

\* applyFilters for the client's tenant.  array_length of an empty array is NULL
\* in PostgreSQL, so that a widget for no listed tenant is not found.
applyFilters(kind) ==
    kind \in {"system", "mine"} \cup IF source = "postgres" THEN {} ELSE {"open"}

Visible == {w \in Widgets : widgets[w] # NoWidget /\ applyFilters(widgets[w].kind)}
Items == [w \in Visible |-> widgets[w].content]

\* GetETagAndLastMod and computeStateHash: the hash is over ids, versions and
\* updated_at.  The registry's is over all its widgets.
Hashed == IF source = "registry" THEN {w \in Widgets : widgets[w] # NoWidget} ELSE Visible
ETag == {<<w, widgets[w].at>> : w \in Hashed}
LastMod ==
    LET times == {widgets[w].at : w \in Hashed}
    IN  IF times = {} THEN 0 ELSE CHOOSE t \in times : \A u \in times : t >= u

\* http.TimeFormat has seconds.
HTTPDate(t) == 2 * (t \div 2)

CacheInit ==
    /\ source \in {"postgres", "mysql", "registry"}
    /\ widgets = [w \in Widgets |-> NoWidget]
    /\ get = NoAnswer
    /\ cache = NoAnswer
    /\ writes = 0

\* Mutant: the dates are compared as they are sent.
notModified_Seconds(noneMatch, since, etag, last) ==
    \/ noneMatch /\ cache.etag = etag
    \/ since /\ HTTPDate(last) <= HTTPDate(cache.last)

\* checkNotModified: the client sends back the headers of its copy, either or
\* both; a date that matches is enough.  The zero time, which the registry gives
\* for no widgets, counts as no date, the tag of a registry before its first
\* change as no tag.
notModified(noneMatch, since, etag, last) ==
    \/ noneMatch /\ ~(source = "registry" /\ writes = 0) /\ cache.etag = etag
    \/ /\ since /\ ~(source = "registry" /\ cache.last = 0)
       /\ last <= HTTPDate(cache.last)

Answered(g) == [items |-> Items, etag |-> g.etag, last |-> g.last, since |-> g.since,
                torn |-> g.items # Items, gone |-> FALSE, late |-> FALSE, fresh |-> TRUE]

\* GET, up to checkNotModified; fresh says whether the copy is what a list would
\* return.
GetETagAndLastMod(noneMatch, since) ==
    LET g == [etag |-> ETag, last |-> LastMod, since |-> since, items |-> Items]
    IN  /\ get = NoAnswer
        /\ cache = NoAnswer => ~noneMatch /\ ~since
        /\ IF cache # NoAnswer /\ notModified(noneMatch, since, ETag, LastMod)
           THEN cache' = [cache EXCEPT !.fresh = cache.items = Items, !.since = since]
                /\ UNCHANGED get
           ELSE IF source = "registry" THEN cache' = Answered(g) /\ UNCHANGED get
           ELSE get' = g /\ UNCHANGED cache
        /\ UNCHANGED <<source, widgets, writes>>

ListWidgets ==
    /\ get # NoAnswer
    /\ cache' = Answered(get)
    /\ get' = NoAnswer
    /\ UNCHANGED <<source, widgets, writes>>

\* A widget is written or removed.  Two things can happen to a client's copy: a
\* row is no longer listed, or one is written no later than the copy's date.
UpsertWidget(w, row) ==
    LET seen == applyFilters(row.kind)
        was == w \in Visible
    IN  /\ writes < MaxWrites
        /\ writes' = writes + 1
        /\ widgets' = [widgets EXCEPT ![w] = row]
        /\ cache' = IF cache = NoAnswer THEN cache
                    ELSE [cache EXCEPT !.gone = @ \/ (was /\ ~seen),
                                       !.late = @ \/ ((seen \/ source = "registry") /\ row.at <= cache.last),
                                       !.fresh = TRUE]
        /\ UNCHANGED <<source, get>>

RemoveWidget(w) ==
    /\ writes < MaxWrites /\ widgets[w] # NoWidget
    /\ writes' = writes + 1
    /\ widgets' = [widgets EXCEPT ![w] = NoWidget]
    /\ cache' = IF cache = NoAnswer THEN cache
                ELSE [cache EXCEPT !.gone = @ \/ w \in Visible, !.fresh = TRUE]
    /\ UNCHANGED <<source, get>>

CacheNext ==
    \/ \E noneMatch, since \in BOOLEAN : GetETagAndLastMod(noneMatch, since)
    \/ ListWidgets
    \/ \E w \in Widgets : RemoveWidget(w) \/ \E row \in WidgetRow : UpsertWidget(w, row)

CacheSpec == CacheInit /\ [][CacheNext]_cacheVars

-----------------------------------------------------------------------------
\* "304 Not Modified" is answered to a client whose copy is out of date only
\* when the copy's ETag was read before a commit and its rows after it, when a
\* row was written at or before the date of the copy (a slow commit, the same
\* instant), or when the client sent a date and a row has gone since: the date
\* is that of the newest row left (checkNotModified, metadata_widgets.go:132).
NotModifiedExplained ==
    cache # NoAnswer /\ ~cache.fresh => cache.torn \/ cache.late \/ (cache.since /\ cache.gone)
=============================================================================
