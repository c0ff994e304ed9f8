---------------------------- MODULE WidgetReplica -----------------------------
(***************************************************************************)
(* A server's widget registry as a replica of the widgets table:           *)
(* setupPluginRoutes loads the table, RedisSubscriber then follows the     *)
(* messages that uploads, PATCH and DELETE (on any server) publish after   *)
(* their statement.  The table is the repository (PostgreSQL or MySQL);    *)
(* Redis publishes at most once, to the servers connected at the moment.   *)
(***************************************************************************)
EXTENDS WidgetRegistry

CONSTANTS TableIds,    \* bound: the ids that requests name
          Callers,     \* API requests in flight
          MaxWrites,   \* bound: statements that change the table
          MaxFaults,   \* bound: lost connections, failed reads and publishes
          MaxReloads   \* bound: reload messages

ASSUME ReplicaAssumption == TableIds \subseteq Ids

VARIABLES rows,    \* the widgets table: id -> row
          call,    \* caller -> where its request is
          conn,    \* subscriber: "start", "loaded", "up" or "down"
          chan,    \* messages received and not yet handled
          task,    \* what the subscriber has read and will apply next
          behind,  \* history: ids whose last notification the server missed
          writes, faults, reloads

replicaVars == <<rows, call, conn, chan, task, behind, writes, faults, reloads>>

Idle == [pc |-> "idle"]
NoTask == [pc |-> "wait"]

ReplicaInit ==
    /\ rows \in {r \in [Ids -> Manifests \cup {NoWidget}] : \A id \in Ids \ TableIds : r[id] = NoWidget}
    /\ call = [c \in Callers |-> Idle]
    /\ conn = "start" /\ chan = <<>> /\ task = NoTask
    /\ behind = {}
    /\ writes = 0 /\ faults = 0 /\ reloads = 0

Fault == faults < MaxFaults /\ faults' = faults + 1

\* The repository: one statement each.  Upsert replaces the whole row.
Present == {id \in Ids : rows[id] # NoWidget}
RepoList == [id \in Present |-> rows[id]]
RepoGetByID(id) == rows[id]
RepoUpsert(id, row) == rows' = [rows EXCEPT ![id] = row]
RepoRemove(id) == rows' = [rows EXCEPT ![id] = NoWidget]

-----------------------------------------------------------------------------
\* Mutant: nobody is notified of an upload or a PATCH.
Committed_UpsertsSilently(c, id, msg, answered) ==
    /\ writes < MaxWrites /\ writes' = writes + 1
    /\ answered
    /\ call' = [call EXCEPT ![c] = IF msg = "upsert" THEN Idle
                                   ELSE [pc |-> "publish", id |-> id, type |-> msg]]
    /\ UNCHANGED <<conn, chan, task, behind, faults, reloads>>

\* The handlers.  A statement that commits without its answer reaching the
\* server is an error to the handler, which then notifies nobody.
Committed(c, id, msg, answered) ==
    /\ writes < MaxWrites /\ writes' = writes + 1
    /\ IF answered
       THEN /\ call' = [call EXCEPT ![c] = [pc |-> "publish", id |-> id, type |-> msg]]
            /\ UNCHANGED <<behind, faults>>
       ELSE /\ Fault
            /\ call' = [call EXCEPT ![c] = Idle]
            /\ behind' = IF conn = "start" THEN behind ELSE behind \cup {id}
    /\ UNCHANGED <<conn, chan, task, reloads>>

\* HandleUpload, the manifest being valid: the row is replaced as a whole.
HandleUpload(c, id, w, answered) ==
    /\ call[c] = Idle
    /\ RepoUpsert(id, w)
    /\ Committed(c, id, "upsert", answered)

\* delete: removing a row that is not there is no error.
DeleteWidget(c, id, answered) ==
    /\ call[c] = Idle
    /\ RepoRemove(id)
    /\ Committed(c, id, "remove", answered)

\* patch reads the row, ...
PatchRead(c, id) ==
    /\ call[c] = Idle /\ writes < MaxWrites
    /\ id \in Present
    /\ call' = [call EXCEPT ![c] = [pc |-> "patch", id |-> id, row |-> RepoGetByID(id)]]
    /\ UNCHANGED <<rows, conn, chan, task, behind, writes, faults, reloads>>

\* Mutant: the attributes a patch does not name take their zero value.
patched_Zeroed(row, p) == [name |-> p.name, enabled |-> p.enabled = TRUE]

\* p.name and p.enabled are the body's attributes, NoWidget when missing.
patched(row, p) ==
    [name |-> IF p.name = NoWidget THEN row.name ELSE p.name,
     enabled |-> IF p.enabled = NoWidget THEN row.enabled ELSE p.enabled]

Patches == [name : Names, enabled : {NoWidget}] \cup [name : {NoWidget}, enabled : BOOLEAN]

\* ... and writes all of it back, creating it again if it was deleted.
PatchWrite(c, p, answered) ==
    /\ call[c].pc = "patch"
    /\ RepoUpsert(call[c].id, patched(call[c].row, p))
    /\ Committed(c, call[c].id, "upsert", answered)

\* NotifyWidgetChanged and NotifyWidgetRemoved; their error is ignored.  The
\* server is behind when it does not get the message, and also when a remove
\* comes after the row was created again: the message says nothing about when.
Publish(c) ==
    /\ call[c].pc = "publish"
    /\ call' = [call EXCEPT ![c] = Idle]
    /\ LET id == call[c].id
           stale == call[c].type = "remove" /\ rows[id] # NoWidget
           settles == call[c].type = "remove" /\ rows[id] = NoWidget
       IN  \/ /\ conn = "up"
              /\ chan' = Append(chan, [type |-> call[c].type, id |-> id])
              /\ behind' = IF stale THEN behind \cup {id}
                           ELSE IF settles THEN behind \ {id} ELSE behind
              /\ UNCHANGED faults
           \/ /\ conn # "up"
              /\ behind' = IF conn = "start" THEN behind ELSE behind \cup {id}
              /\ UNCHANGED <<chan, faults>>
           \/ /\ conn = "up"
              /\ Fault
              /\ behind' = behind \cup {id}
              /\ UNCHANGED chan
    /\ UNCHANGED <<rows, conn, task, writes, reloads>>

\* NotifyReload, for an operator.
PublishReload ==
    /\ conn = "up"
    /\ reloads < MaxReloads /\ reloads' = reloads + 1
    /\ chan' = Append(chan, [type |-> "reload"])
    /\ UNCHANGED <<rows, call, conn, task, behind, writes, faults>>

-----------------------------------------------------------------------------
\* setupPluginRoutes: the table is loaded before the subscription starts; when
\* the load fails the server runs with an empty registry.
Load ==
    /\ conn = "start" /\ conn' = "loaded"
    /\ ApplyDiff(RepoList, {})
    /\ UNCHANGED <<rows, call, chan, task, behind, writes, faults, reloads, sub, buf, view, dropped>>

LoadFails ==
    /\ conn = "start" /\ conn' = "loaded"
    /\ Fault
    /\ behind' = Present
    /\ UNCHANGED <<rows, call, chan, task, writes, reloads>>
    /\ UNCHANGED registryVars

\* loop: subscribe and ping.  Nothing is read from the table again.
Connect ==
    /\ conn \in {"loaded", "down"} /\ conn' = "up"
    /\ UNCHANGED <<rows, call, chan, task, behind, writes, faults, reloads>>

\* The connection breaks and what was on the way after the n-th message is lost.
Disconnect(n) ==
    /\ conn = "up" /\ conn' = "down"
    /\ Fault
    /\ n \in 0..Len(chan)
    /\ chan' = SubSeq(chan, 1, n)
    /\ behind' = behind \cup {chan[i].id : i \in {k \in n + 1 .. Len(chan) : chan[k].type # "reload"}}
    /\ UNCHANGED <<rows, call, task, writes, reloads>>

RemovesIn(s) == {s[i].id : i \in {k \in DOMAIN s : s[k].type = "remove"}}

\* The switch of loop, up to the read of the table.  The next message is taken
\* when the previous one has been applied and broadcast.
Take(next) ==
    /\ task = NoTask /\ outbox = {}
    /\ chan # <<>> /\ chan' = Tail(chan)
    /\ task' = next
    /\ UNCHANGED <<rows, call, conn, writes, reloads>>

TakeUpsert ==
    /\ chan # <<>> /\ Head(chan).type = "upsert"
    /\ LET id == Head(chan).id
       IN  /\ Take([pc |-> "upsert", id |-> id, row |-> RepoGetByID(id)])
           /\ behind' = behind \ ({id} \ RemovesIn(Tail(chan)))
           /\ UNCHANGED faults

\* Any error of GetByID counts as "no such row".
TakeUpsertFails ==
    /\ chan # <<>> /\ Head(chan).type = "upsert"
    /\ Fault
    /\ LET id == Head(chan).id
       IN  /\ Take([pc |-> "upsert", id |-> id, row |-> NoWidget])
           /\ behind' = behind \cup ({id} \cap Present)

TakeRemove ==
    /\ chan # <<>> /\ Head(chan).type = "remove"
    /\ Take([pc |-> "upsert", id |-> Head(chan).id, row |-> NoWidget])
    /\ UNCHANGED <<behind, faults>>

TakeReload ==
    /\ chan # <<>> /\ Head(chan).type = "reload"
    /\ Take([pc |-> "reload", rows |-> RepoList])
    /\ behind' = behind \ (Present \ RemovesIn(Tail(chan)))
    /\ UNCHANGED faults

TakeReloadFails ==
    /\ chan # <<>> /\ Head(chan).type = "reload"
    /\ Fault
    /\ Take(NoTask)
    /\ UNCHANGED behind

Take1 == TakeUpsert \/ TakeUpsertFails \/ TakeRemove \/ TakeReload \/ TakeReloadFails

\* Reg.Upsert, Reg.Remove or, after a reload, ApplyDiff without removes.
Apply ==
    /\ task # NoTask /\ task' = NoTask
    /\ \/ task.pc = "reload" /\ ApplyDiff(task.rows, {})
       \/ task.pc = "upsert" /\ task.row = NoWidget /\ Remove(task.id)
       \/ task.pc = "upsert" /\ task.row # NoWidget /\ Upsert(task.id, task.row)
    /\ UNCHANGED <<rows, call, conn, chan, behind, writes, faults, reloads, sub, buf, view, dropped>>

CallStep(c) ==
    \/ \E id \in TableIds, answered \in BOOLEAN :
          \/ \E w \in Manifests : HandleUpload(c, id, w, answered)
          \/ DeleteWidget(c, id, answered)
    \/ \E id \in TableIds : PatchRead(c, id)
    \/ \E p \in Patches, answered \in BOOLEAN : PatchWrite(c, p, answered)

ReplicaNext ==
    \/ /\ \/ \E c \in Callers : CallStep(c) \/ Publish(c)
          \/ PublishReload \/ Connect \/ (\E n \in 0..Len(chan) : Disconnect(n)) \/ Take1
       /\ UNCHANGED registryVars
    \/ Load \/ LoadFails \/ Apply

-----------------------------------------------------------------------------
\* Nothing about id is on its way to the registry.
Quiet(id) ==
    /\ \A c \in Callers : call[c].pc = "publish" => call[c].id # id
    /\ \A i \in DOMAIN chan : chan[i].type # "reload" => chan[i].id # id
    /\ task = NoTask

\* Once everything about a widget has been handled the registry shows the row of
\* the table, unless the server is behind: it missed the last notification (a
\* publish failed, the connection was down), the read after it failed, or a
\* remove was published after the row had been created again.  Messages handled
\* late or twice, overlapping requests and reloads never make it wrong.
ReplicaAgrees ==
    conn # "start" => \A id \in Ids : Quiet(id) /\ id \notin behind => items[id] = rows[id]

\* A PATCH changes an attribute it does not name only by writing back a row that
\* another request has changed since the PATCH read it.
PatchKeepsRest ==
    [][\A c \in Callers, p \in Patches, answered \in BOOLEAN :
         PatchWrite(c, p, answered) /\ call[c].row = rows[call[c].id] =>
             LET was == rows[call[c].id]  is == rows'[call[c].id]
             IN  /\ p.name = NoWidget => is.name = was.name
                 /\ p.enabled = NoWidget => is.enabled = was.enabled]_<<rows, call>>
=============================================================================
