---------------------------- MODULE TargetWatcher ----------------------------
(***************************************************************************)
(* The target watcher (sdk/target_watcher.go) between the meta store and   *)
(* the registry.                                                           *)
(*                                                                         *)
(* On every tick the watcher fetches the configuration with ListTargets,   *)
(* three queries outside a transaction, skips it when the version is the   *)
(* one it applied last, and otherwise hands it to ReplaceAll, prunes the   *)
(* breakers and remembers the version.  The admin API commits between any  *)
(* two of these steps.  ReplaceAll is the atomic swap that TargetRegistry  *)
(* implements, or a failure (a connector or a ping) that changes nothing.  *)
(***************************************************************************)
EXTENDS TargetStore

CONSTANT NoVersion  \* lastVer before the first success

ASSUME WatcherAssumption == NoVersion \notin Nat

VARIABLES pc,       \* the next step of the loop
          got,      \* what the running tick has read
          lastVer,  \* version of the configuration applied last
          live,     \* targets and default key of the registry
          torn      \* history: a commit fell between the queries for the rows
                    \* and the version, of the running fetch and of live

vars == <<rows, version, pc, got, lastVer, live, torn>>

\* What MetaDBProvider.Fetch makes of the rows.
Targets(rs) == [k \in Keys |-> IF rs[k] = NoRow THEN NoRow
                               ELSE [dsn |-> rs[k].dsn, labels |-> rs[k].labels]]
NoTargets == [k \in Keys |-> NoRow]
NothingGot == [targets |-> NoTargets, ver |-> NoVersion, def |-> NoKey]

Init ==
    /\ StoreInit
    /\ pc = "idle"
    /\ got = NothingGot
    /\ lastVer = NoVersion
    /\ live = [targets |-> NoTargets, def |-> NoKey]
    /\ torn = [got |-> FALSE, live |-> FALSE]

\* What a transaction of the admin API can make of the rows.
Changed ==
    {UpsertTarget(rows, k, row) : k \in Keys, row \in Row}
    \cup {DeleteTarget(rows, k) : k \in Keys}
    \cup {SetDefaultTarget(rows, k) : k \in Keys}
    \cup {rows}

Commit(rs) ==
    /\ OneDefault(rs)
    /\ rows' = rs
    /\ BumpTargetsVersion
    /\ torn' = [torn EXCEPT !.got = @ \/ pc = "version"]
    /\ UNCHANGED <<pc, got, lastVer, live>>

-----------------------------------------------------------------------------
\* What the tick has read goes out of scope.
TickEnds == pc' = "idle" /\ got' = NothingGot /\ torn' = [torn EXCEPT !.got = FALSE]

\* The tick: the first query.
FetchRows ==
    /\ pc = "idle"
    /\ got' = [NothingGot EXCEPT !.targets = Targets(rows)]
    /\ pc' = "version"
    /\ UNCHANGED <<rows, version, lastVer, live, torn>>

FetchVersion ==
    /\ pc = "version"
    /\ got' = [got EXCEPT !.ver = version]
    /\ pc' = "default"
    /\ UNCHANGED <<rows, version, lastVer, live, torn>>

\* Mutant: the version is remembered before it is applied.
FetchDefault_Remembers ==
    /\ pc = "default"
    /\ IF got.ver = lastVer THEN TickEnds
       ELSE /\ pc' = "apply" /\ got' = [got EXCEPT !.def = DefaultKey(rows)]
            /\ UNCHANGED torn
    /\ lastVer' = got.ver
    /\ UNCHANGED <<rows, version, live>>

\* The last query; an unchanged version ends the tick.
FetchDefault ==
    /\ pc = "default"
    /\ IF got.ver = lastVer THEN TickEnds
       ELSE /\ pc' = "apply" /\ got' = [got EXCEPT !.def = DefaultKey(rows)]
            /\ UNCHANGED torn
    /\ UNCHANGED <<rows, version, lastVer, live>>

\* A query fails, or ReplaceAll does: the tick is over.
TickFails ==
    /\ pc \in {"version", "default", "apply"}
    /\ TickEnds
    /\ UNCHANGED <<rows, version, lastVer, live>>

ReplaceTargets ==
    /\ pc = "apply"
    /\ live' = [targets |-> got.targets, def |-> got.def]
    /\ torn' = [torn EXCEPT !.live = torn.got]
    /\ pc' = "prune"
    /\ UNCHANGED <<rows, version, got, lastVer>>

\* Mutant: the current version is remembered, not the fetched one.
Remember_Current ==
    /\ pc = "prune"
    /\ lastVer' = version
    /\ TickEnds
    /\ UNCHANGED <<rows, version, live>>

\* health.prune (module Failover), then lastVer.
Remember ==
    /\ pc = "prune"
    /\ lastVer' = got.ver
    /\ TickEnds
    /\ UNCHANGED <<rows, version, live>>

Next ==
    \/ \E rs \in Changed : Commit(rs)
    \/ FetchRows \/ FetchVersion \/ FetchDefault \/ ReplaceTargets \/ Remember
    \/ TickFails

\* The ticker keeps firing; queries and ReplaceAll may fail, but not for ever.
Fairness ==
    /\ WF_vars(FetchRows) /\ WF_vars(Remember)
    /\ SF_vars(FetchVersion) /\ SF_vars(FetchDefault) /\ SF_vars(ReplaceTargets)

Spec == Init /\ [][Next]_vars /\ Fairness

-----------------------------------------------------------------------------
UpToDate == live = [targets |-> Targets(rows), def |-> DefaultKey(rows)]

\* A registry that believes it is current is current, except after a commit
\* between the first two queries of its fetch: commits anywhere else in the
\* tick, failed ticks and rejected configurations are all noticed by the next
\* one.
StaleOnlyIfTorn == lastVer = version /\ pc = "idle" => UpToDate \/ torn.live

\* Once the admin API is quiet the registry settles on the stored
\* configuration, unless its last fetch was torn.
SettlesUnlessTorn == <>[](UpToDate \/ torn.live)
=============================================================================
