---------------------------- MODULE WidgetRegistry ----------------------------
(***************************************************************************)
(* The in-memory widget registry of one server                             *)
(* (internal/registry/widgets/registry.go) and one client of its event     *)
(* stream (WidgetHandler.Stream).                                          *)
(*                                                                         *)
(* ApplyDiff changes the items under the lock, copies the set of           *)
(* subscribers, and sends the events after it released the lock.  A send   *)
(* never blocks: a subscriber whose buffer is full loses the event.  Only  *)
(* the goroutine that feeds the registry (WidgetReplica, WidgetDirectory)  *)
(* calls ApplyDiff, so at most one call is sending.                        *)
(***************************************************************************)
EXTENDS Naturals, Sequences

CONSTANTS Ids, Names, NoWidget,
          SubBuffer              \* capacity of a subscriber's channel

ASSUME RegistryAssumption ==
    /\ SubBuffer \in Nat
    /\ NoWidget \notin [name : Names, enabled : BOOLEAN] \cup Ids

Widget == [name : Names, enabled : BOOLEAN]
\* A package or file that does not say "enabled" is enabled; a PATCH changes it.
Manifests == {w \in Widget : w.enabled}
Items == [Ids -> Widget \cup {NoWidget}]
Absent == [id \in Ids |-> NoWidget]

VARIABLES items,     \* the registry: id -> widget
          outbox,    \* the set of events the running ApplyDiff has still to send
          addressed, \* the client's channel is in the copy of subs it sends to
          sub,       \* the client's stream is open
          buf,       \* the client's channel
          view,      \* history: the items when it subscribed, changed by its events,
                     \* as long as none was dropped
          dropped    \* history: an event found the channel full

registryVars == <<items, outbox, addressed, sub, buf, view, dropped>>

RegistryInit ==
    /\ items = Absent
    /\ outbox = {} /\ addressed = FALSE
    /\ sub = FALSE /\ buf = <<>> /\ view = Absent /\ dropped = FALSE

\* Upsert events carry the item, remove events only the id.
eventsOf(upserts, removes) ==
    {[id |-> id, item |-> upserts[id]] : id \in DOMAIN upserts}
    \cup {[id |-> id, item |-> NoWidget] : id \in removes}

\* Mutant: the removes may be announced before the upserts.
nextEvents_AnyOrder == outbox

\* The upserts are sent first, in the order of the caller's list.  Lists come
\* from a query or a set of paths: any order is possible.
nextEvents ==
    LET upserts == {e \in outbox : e.item # NoWidget}
    IN  IF upserts # {} THEN upserts ELSE outbox

\* ApplyDiff up to the unlock: upserts, a function from ids to widgets, then
\* removes, a set of ids.
ApplyDiff(upserts, removes) ==
    /\ items' = [id \in Ids |-> IF id \in removes THEN NoWidget
                                ELSE IF id \in DOMAIN upserts THEN upserts[id] ELSE items[id]]
    /\ outbox' = eventsOf(upserts, removes)
    /\ addressed' = sub

Upsert(id, w) == ApplyDiff([i \in {id} |-> w], {})
Remove(id) == ApplyDiff([i \in {} |-> NoWidget], {id})

\* broadcast sends one event; the non-blocking send drops it when buf is full.
Broadcast ==
    /\ \E e \in nextEvents :
          /\ outbox' = outbox \ {e}
          /\ buf' = IF addressed /\ Len(buf) < SubBuffer THEN Append(buf, e) ELSE buf
    /\ dropped' = (dropped \/ (addressed /\ Len(buf) = SubBuffer))
    /\ view' = IF dropped' THEN Absent ELSE view
    /\ UNCHANGED <<items, addressed, sub>>

Subscribe ==
    /\ ~sub
    /\ sub' = TRUE /\ buf' = <<>> /\ view' = items /\ dropped' = FALSE
    /\ UNCHANGED <<items, outbox, addressed>>

\* The stream ends.  What is still sent to its channel, nobody reads.
Unsubscribe ==
    /\ sub
    /\ sub' = FALSE /\ buf' = <<>> /\ addressed' = FALSE
    /\ view' = Absent /\ dropped' = FALSE
    /\ UNCHANGED <<items, outbox>>

\* Stream writes the next event to the client.
Deliver ==
    /\ buf # <<>>
    /\ buf' = Tail(buf)
    /\ view' = IF dropped THEN view ELSE [view EXCEPT ![Head(buf).id] = Head(buf).item]
    /\ UNCHANGED <<items, outbox, addressed, sub, dropped>>

StreamNext == Broadcast \/ Subscribe \/ Unsubscribe \/ Deliver

-----------------------------------------------------------------------------
\* A stream that lost no event to a full channel and has nothing left to read
\* shows what the registry holds: the events that ApplyDiff sends after the
\* unlock reach every subscriber of that moment in the order of the changes.
StreamFollows ==
    sub /\ ~dropped /\ buf = <<>> /\ ~(addressed /\ outbox # {}) => view = items
=============================================================================
