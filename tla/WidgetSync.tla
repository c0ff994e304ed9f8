----------------------------- MODULE WidgetSync ------------------------------
(***************************************************************************)
(* One server's widget registry with its feed: the widgets table followed  *)
(* through Redis (WidgetReplica), or a directory of files                  *)
(* (WidgetDirectory).  Either feed is the only caller of ApplyDiff.        *)
(***************************************************************************)
EXTENDS WidgetReplica, WidgetDirectory

VARIABLE feed   \* "redis" or "directory", fixed

vars == <<registryVars, replicaVars, directoryVars, feed>>

Init ==
    /\ RegistryInit /\ ReplicaInit /\ DirectoryInit
    /\ feed \in {"redis", "directory"}
    /\ feed = "directory" => rows = Absent   \* no table

Next ==
    /\ UNCHANGED feed
    /\ \/ /\ conn # "start" \/ feed = "directory"   \* the server listens after the load
          /\ StreamNext
          /\ UNCHANGED <<replicaVars, directoryVars>>
       \/ feed = "redis" /\ ReplicaNext /\ UNCHANGED directoryVars
       \/ feed = "directory" /\ DirectoryNext /\ UNCHANGED replicaVars

Spec == Init /\ [][Next]_vars

\* When the watcher has nothing left to do the registry holds, for every id, the
\* widget of a file with that id, and nothing when there is no such file.  Three
\* things excuse a difference, and no other order of edits, events and ticks
\* leads to one: the file became invalid (the widget is kept), the id in it was
\* changed (the old id is kept), or a diff removed an id that a file still has
\* (a rename within one tick, two files with one id).
DirectoryFollowed ==
    feed = "directory" /\ changed = {} /\ ~scan.on =>
        \A id \in Ids : items[id] \in Wanted(id) \/ id \in orphans \cup clashes \/ KeptByBadFile(id)
=============================================================================
