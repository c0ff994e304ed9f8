------------------------------ MODULE Listings ------------------------------
(***************************************************************************)
(* The paged lists of the API while rows come and go: audit log entries by *)
(* a cursor of time and id (internal/api/handler/audit.go), targets by a   *)
(* cursor of keys (internal/adminapi/targets/routes.go) and users by page  *)
(* number (internal/api/handler/rbac.go); with WidgetCache, the cached     *)
(* list of widgets.  A client asks page after page until the answer says   *)
(* there is no more.                                                       *)
(*                                                                         *)
(* A row is in the list when it is in the table and its columns match the  *)
(* request's filters: a change of them joins or leaves the list too.  The  *)
(* filter on the number of changes of an audit entry is applied after the  *)
(* query, and is modelled.  Ids also stand for names and keys.             *)
(***************************************************************************)
EXTENDS WidgetCache, Sequences, SequencesExt

CONSTANTS Ids,
          Stamps,       \* values of applied_at and created_at
          Counts,       \* values of change_count
          Params,       \* requests: limit, bounds on change_count, sort and order
          Unset,        \* a bound that the request does not give
          DefaultLimit, \* 50 (audit, targets), 20 (users)
          MaxLimit,     \* 200 (audit, users)
          auditLogOverfetchMultiplier,
          MaxChanges    \* bound: rows that join or leave during a walk

ASSUME ListingAssumption ==
    /\ Ids \subseteq Nat \ {0} /\ IsFiniteSet(Ids)
    /\ Stamps \subseteq Nat /\ Counts \subseteq Nat
    /\ 0 < DefaultLimit /\ DefaultLimit <= MaxLimit
    /\ auditLogOverfetchMultiplier \in Nat \ {0}
    /\ MaxChanges \in Nat

VARIABLES list,     \* which list
          params,   \* the client's request
          stamp, count,  \* columns of the rows
          present,  \* the rows in the list
          walk      \* the client's walk through the pages

listVars == <<list, params, stamp, count, present, walk>>

-----------------------------------------------------------------------------
limitOf(p) ==
    IF p.limit <= 0 THEN DefaultLimit
    ELSE IF p.limit > MaxLimit /\ list # "targets" THEN MaxLimit
    ELSE p.limit

AtLeast0(v) == IF v < 0 THEN 0 ELSE v

EffMin(p) == IF p.min # Unset THEN AtLeast0(p.min)
             ELSE IF p.minAlias # Unset THEN AtLeast0(p.minAlias) ELSE Unset
EffMax(p) == IF p.max # Unset THEN AtLeast0(p.max)
             ELSE IF p.maxAlias # Unset THEN AtLeast0(p.maxAlias) ELSE Unset

pass(v) == /\ EffMin(params) # Unset => v >= EffMin(params)
           /\ EffMax(params) # Unset => v <= EffMax(params)

\* ORDER BY: two users created at one instant come in any order.
Before(a, b) ==
    CASE list = "audit" -> stamp[a] > stamp[b] \/ (stamp[a] = stamp[b] /\ a > b)
      [] list = "targets" -> a < b
      [] list = "users" -> LET up(x, y) == IF params.sort = "username" THEN x < y
                                           ELSE stamp[x] < stamp[y]
                           IN  IF params.order = "asc" THEN up(a, b) ELSE up(b, a)

Orders(S) ==
    {s \in SetToSeqs(S) : \A i, j \in DOMAIN s : i < j => ~Before(s[j], s[i])}

Least(a, b) == IF a < b THEN a ELSE b
Slice(s, from, n) == SubSeq(s, from, Least(from + n - 1, Len(s)))

-----------------------------------------------------------------------------
\* seen and twice are what the client has got; the rest is history: steady are
\* the rows in the list ever since the walk began, joined and left those that
\* came and went, late those that came between the last two queries of a page,
\* skipped what the last answers left out.
Start == [pc |-> "ask", cursor |-> 0, page |-> 1, total |-> 0, seen |-> {}, twice |-> {},
          steady |-> present, joined |-> {}, left |-> {}, late |-> {},
          skipped |-> {}, restarted |-> FALSE]

ListInit ==
    /\ CacheInit
    /\ list \in {"audit", "targets", "users", "widgets"}
    /\ list # "widgets" => source = "registry"
    /\ params \in {p \in Params : p.of = list}
    /\ stamp \in [Ids -> IF list \in {"audit", "users"} THEN Stamps ELSE {0}]
    /\ count \in [Ids -> IF list = "audit" THEN Counts ELSE {0}]
    /\ present \in IF list = "widgets" THEN {{}} ELSE SUBSET Ids
    /\ walk = Start

Got(items) == [walk EXCEPT !.seen = @ \cup Range(items),
                           !.twice = @ \cup (walk.seen \cap Range(items))]

\* Mutant: the cursor is compared with the time only.
Older_ThanTime(c, e) == stamp[e] < stamp[c]

\* Mutant: the row of the cursor is included.
Older_OrSame(c, e) == stamp[e] < stamp[c] \/ (stamp[e] = stamp[c] /\ e <= c)

\* The keyset condition of the cursor.
Older(c, e) == stamp[e] < stamp[c] \/ (stamp[e] = stamp[c] /\ e < c)

\* AuditHandler.list: a window of rows is read, filtered and cut at the limit;
\* there is a next page when the window has more that pass.
ListAudit ==
    LET limit == limitOf(params)
        rows == IF walk.cursor = 0 THEN present ELSE {e \in present : Older(walk.cursor, e)}
        window == Slice(CHOOSE s \in Orders(rows) : TRUE,
                        1, limit * auditLogOverfetchMultiplier + 1)
        passing == SelectSeq(window, LAMBDA e : pass(count[e]))
        items == Slice(passing, 1, limit)
        more == Len(passing) > limit
    IN  /\ list = "audit" /\ walk.pc = "ask"
        /\ walk' = [Got(items) EXCEPT !.cursor = IF more THEN Last(items) ELSE 0,
                                      !.pc = IF more THEN "ask" ELSE "done",
                                      !.skipped = rows \ Range(window)]

\* handler.list of the targets: the cursor is the first key that was not
\* returned, the page starts with the first key after it, or else with the first
\* of all.
ListTargets ==
    LET rows == CHOOSE s \in Orders(present) : TRUE
        after == {i \in DOMAIN rows : rows[i] > walk.cursor}
        start == IF walk.cursor = 0 \/ after = {} THEN 1 ELSE Min(after)
        items == Slice(rows, start, limitOf(params))
        next == start + Len(items)
        more == next <= Len(rows)
    IN  /\ list = "targets" /\ walk.pc = "ask"
        /\ walk' = [Got(items) EXCEPT
                      !.cursor = IF more THEN rows[next] ELSE 0,
                      !.pc = IF more THEN "ask" ELSE "done",
                      !.skipped = IF more THEN @ \cup {rows[next]} ELSE @,
                      !.restarted = @ \/ (walk.cursor # 0 /\ after = {})]

\* ListUsers: the count, then the rows of the page.
CountUsers ==
    /\ list = "users" /\ walk.pc = "ask"
    /\ walk' = [walk EXCEPT !.pc = "rows", !.total = Cardinality(present), !.late = {}]

ListUsers ==
    LET per == limitOf(params)
    IN  /\ list = "users" /\ walk.pc = "rows"
        /\ \E rows \in Orders(present) :
              walk' = [Got(Slice(rows, (walk.page - 1) * per + 1, per)) EXCEPT
                         !.page = @ + 1,
                         !.pc = IF walk.page * per >= walk.total THEN "done" ELSE "ask"]

-----------------------------------------------------------------------------
Changes == Cardinality(walk.joined) + Cardinality(walk.left)

\* An audit entry is written, a target or user is created or comes to match.
Join(e) ==
    /\ walk.pc # "done" /\ e \notin present \cup walk.joined /\ Changes < MaxChanges
    /\ present' = present \cup {e}
    /\ walk' = [walk EXCEPT !.joined = @ \cup {e}, !.late = @ \cup {e}]

\* Audit entries are never deleted.
Leave(e) ==
    /\ list # "audit" /\ walk.pc # "done"
    /\ e \in present \ walk.left /\ Changes < MaxChanges
    /\ present' = present \ {e}
    /\ walk' = [walk EXCEPT !.left = @ \cup {e}, !.steady = @ \ {e}]

ListStep ==
    \/ (ListAudit \/ ListTargets \/ CountUsers \/ ListUsers) /\ UNCHANGED present
    \/ \E e \in Ids : Join(e) \/ Leave(e)

ListNext ==
    \/ list # "widgets" /\ ListStep /\ UNCHANGED <<list, params, stamp, count, cacheVars>>
    \/ list = "widgets" /\ CacheNext /\ UNCHANGED listVars

ListSpec == ListInit /\ [][ListNext]_<<listVars, cacheVars>>

-----------------------------------------------------------------------------
Tied(e) == list = "users" /\ \E d \in Ids \ {e} : ~Before(d, e) /\ ~Before(e, d)
Ahead(S, e) == \E d \in S : Before(d, e)

\* More entries newer than e are filtered out than are read beyond the limit.
OverfetchSpent(e) ==
    Cardinality({d \in present : Before(d, e) /\ ~pass(count[d])})
        > limitOf(params) * (auditLogOverfetchMultiplier - 1)

\* A client that reads all pages misses a row that was in the list all along
\* only so: an audit entry behind the last window, and only if the filter by
\* number of changes took more from it than what was read beyond the limit; a
\* target whose key was a cursor; a user that another one ahead moved, by
\* leaving, or by joining between the count and the rows of the last page, or one
\* whose order is arbitrary
\* (audit.go:303, routes.go:357, rbac.go:300).
MissedExplained ==
    walk.pc = "done" =>
        \A e \in walk.steady \ walk.seen :
            CASE list = "audit" -> \/ ~pass(count[e])
                                   \/ e \in walk.skipped /\ OverfetchSpent(e)
              [] list = "targets" -> e \in walk.skipped
              [] list = "users" -> Ahead(walk.left, e) \/ Ahead(walk.late, e) \/ Tied(e)

\* A client gets a row twice only so: never an audit entry, whatever is written
\* meanwhile; a target when no key follows the cursor and the list starts anew; a
\* user that itself joined meanwhile or was moved by one that did, or whose order
\* is arbitrary (audit.go:291, routes.go:344, rbac.go:300).
RepeatedExplained ==
    \A e \in walk.twice :
        CASE list = "audit" -> FALSE
          [] list = "targets" -> walk.restarted
          [] list = "users" -> e \in walk.joined \/ Ahead(walk.joined, e) \/ Tied(e)
=============================================================================
