--------------------------- MODULE TargetRegistry ---------------------------
(***************************************************************************)
(* The hot-reload target registry of the SDK (sdk/targets.go).             *)
(*                                                                         *)
(* Readers load one immutable snapshot through an atomic pointer and take  *)
(* no lock.  Writers open and ping their new connections outside the lock, *)
(* then lock, publish a new snapshot, and close what the new snapshot      *)
(* superseded: Unregister and Update while they still hold the lock,       *)
(* ReplaceAll after it released it.  A process is one goroutine inside one *)
(* of those calls; every step below ends where another goroutine can see   *)
(* its effect.                                                             *)
(*                                                                         *)
(* A connection is an identifier; conn records whether the registry opened *)
(* it (cfg.DB = nil, so its closer really closes), its label set (toSet)   *)
(* and how often Close was called on it.  The order of the key list is     *)
(* abstracted away: snap.keys is a set.                                    *)
(***************************************************************************)
EXTENDS Naturals, FiniteSets

CONSTANTS Keys,         \* target keys
          Labels,       \* normalised labels
          Procs,        \* goroutines that call the registry
          DefaultName,  \* the key "__default__"
          MaxConns,     \* bound: connections built in a behaviour
          NoKey,        \* the empty key ""
          NoProc

ASSUME RegistryAssumption ==
    /\ DefaultName \in Keys
    /\ NoKey \notin Keys
    /\ NoProc \notin Procs
    /\ MaxConns \in Nat \ {0}

VARIABLES snap,    \* the published *snapshot
          closer,  \* key -> connection whose close function is registered
          conn,    \* every TargetConn ever built
          next,    \* the next unused connection identifier
          lock,    \* holder of mu
          pc, op,  \* what each goroutine is doing
          leaked   \* history: connections dropped by a rejected call

vars == <<snap, closer, conn, next, lock, pc, op, leaked>>

NoConn == 0
ConnIds == 1..MaxConns
ConnMap == [Keys -> ConnIds \cup {NoConn}]
EmptyMap == [k \in Keys |-> NoConn]
NoOp == [kind |-> "none", key |-> NoKey, new |-> EmptyMap, rest |-> {}]

(***************************************************************************)
(* Who refers to a connection.                                             *)
(***************************************************************************)
Published == {snap.byKey[k] : k \in Keys} \ {NoConn}
Built(p) == {op[p].new[k] : k \in Keys} \ {NoConn}

(***************************************************************************)
(* The label index: an absent entry and an empty set of keys are the same. *)
(***************************************************************************)
addToIndex(idx, key, labels) ==
    [l \in Labels |-> IF l \in labels THEN idx[l] \cup {key} ELSE idx[l]]

removeFromIndex(idx, key, labels) ==
    [l \in Labels |-> IF l \in labels THEN idx[l] \ {key} ELSE idx[l]]

\* Mutant: the labels a target lost are not removed.
updateIndex_KeepsOld(idx, key, old, new) == addToIndex(idx, key, new)

updateIndex(idx, key, old, new) ==
    [l \in Labels |-> IF l \in old \ new THEN idx[l] \ {key}
                      ELSE IF l \in new \ old THEN idx[l] \cup {key}
                      ELSE idx[l]]

keysOf(m) ==
    [keys |-> {k \in Keys : m[k] # NoConn},
     idx  |-> [l \in Labels |->
                 {k \in Keys : m[k] # NoConn /\ l \in conn[m[k]].labels}]]

-----------------------------------------------------------------------------
(***************************************************************************)
(* NewHotReloadRegistry, with or without a default connection.  That       *)
(* connection belongs to the caller and gets no closer.                    *)
(***************************************************************************)
Init ==
    /\ \E given \in BOOLEAN, labels \in SUBSET Labels :
         /\ conn = [c \in ConnIds |->
                      [owned |-> FALSE, closes |-> 0,
                       labels |-> IF given /\ c = 1 THEN labels ELSE {}]]
         /\ next = IF given THEN 2 ELSE 1
         /\ snap = [byKey |-> [k \in Keys |->
                                 IF given /\ k = DefaultName THEN 1 ELSE NoConn],
                    defaultKey |-> IF given THEN DefaultName ELSE NoKey,
                    keys |-> IF given THEN {DefaultName} ELSE {},
                    labelIndex |-> [l \in Labels |->
                       IF given /\ l \in labels THEN {DefaultName} ELSE {}]]
    /\ closer = EmptyMap
    /\ lock = NoProc
    /\ pc = [p \in Procs |-> "idle"]
    /\ op = [p \in Procs |-> NoOp]
    /\ leaked = {}

Return(p) ==
    /\ pc' = [pc EXCEPT ![p] = "idle"]
    /\ op' = [op EXCEPT ![p] = NoOp]

\* Call the closers of a set of connections; that of a caller-provided DB is
\* a no-op.
CloseAll(S) ==
    conn' = [c \in ConnIds |->
               IF c \in S /\ conn[c].owned
               THEN [conn[c] EXCEPT !.closes = @ + 1]
               ELSE conn[c]]

(***************************************************************************)
(* Register, Update and ReplaceAll first build their connections, outside  *)
(* the lock.                                                               *)
(***************************************************************************)
\* buildConn: a fresh connection for key k of the calling goroutine.
buildConn(p, kind, k, owned, labels) ==
    /\ next \in ConnIds
    /\ conn' = [conn EXCEPT ![next] =
                  [owned |-> owned, labels |-> labels, closes |-> 0]]
    /\ next' = next + 1
    /\ op' = [op EXCEPT ![p] = [kind |-> kind, key |-> IF kind = "replace" THEN NoKey ELSE k,
                                new |-> [op[p].new EXCEPT ![k] = next], rest |-> {}]]
    /\ UNCHANGED <<snap, closer, lock, leaked>>

\* Register or Update up to its ping.  A connector that fails changes nothing.
BuildOne(p, kind, k, owned, labels) ==
    /\ pc[p] = "idle"
    /\ buildConn(p, kind, k, owned, labels)
    /\ pc' = [pc EXCEPT ![p] = "ping"]

\* The loop of ReplaceAll over its configurations, which are chosen as it runs.
BuildNext(p, k, owned, labels) ==
    /\ pc[p] \in {"idle", "build"}
    /\ op[p].new[k] = NoConn
    /\ buildConn(p, "replace", k, owned, labels)
    /\ pc' = [pc EXCEPT ![p] = "build"]

BuildDone(p) ==
    /\ pc[p] \in {"idle", "build"}
    /\ pc' = [pc EXCEPT ![p] = "ping"]
    /\ op' = [op EXCEPT ![p].kind = "replace"]
    /\ UNCHANGED <<snap, closer, conn, next, lock, leaked>>

\* Mutant: what was built before the failure is forgotten.
BuildFail_Forgets(p) ==
    /\ pc[p] = "build"
    /\ Return(p)
    /\ UNCHANGED <<snap, closer, conn, next, lock, leaked>>

\* The connector fails during the loop: everything built so far is closed.
BuildFail(p) ==
    /\ pc[p] = "build"
    /\ CloseAll(Built(p))
    /\ Return(p)
    /\ UNCHANGED <<snap, closer, next, lock, leaked>>

\* A ping fails (caller-provided connections are not pinged): everything this
\* call built is closed.
PingFail(p) ==
    /\ pc[p] = "ping"
    /\ \E c \in Built(p) : conn[c].owned
    /\ CloseAll(Built(p))
    /\ Return(p)
    /\ UNCHANGED <<snap, closer, next, lock, leaked>>

(***************************************************************************)
(* The critical sections.  Those that close nothing are one step.          *)
(***************************************************************************)
\* Register: publish the new key.
RegisterPublish(p) ==
    LET k == op[p].key
        c == op[p].new[k]
    IN  /\ pc[p] = "ping" /\ op[p].kind = "register"
        /\ lock = NoProc
        /\ snap.byKey[k] = NoConn
        /\ snap' = [snap EXCEPT
                      !.byKey[k] = c,
                      !.keys = @ \cup {k},
                      !.labelIndex = addToIndex(@, k, conn[c].labels)]
        /\ closer' = [closer EXCEPT ![k] = c]
        /\ Return(p)
        /\ UNCHANGED <<conn, next, lock, leaked>>

\* Register of a known key, Update of an unknown one: the call returns an
\* error and drops the connection it built without closing it.
Reject(p) ==
    LET k == op[p].key
    IN  /\ pc[p] = "ping"
        /\ lock = NoProc
        /\ \/ op[p].kind = "register" /\ snap.byKey[k] # NoConn
           \/ op[p].kind = "update" /\ snap.byKey[k] = NoConn
        /\ leaked' = leaked \cup Built(p)
        /\ Return(p)
        /\ UNCHANGED <<snap, closer, conn, next, lock>>

\* Mutant: nothing is closed.
CloseOrReturn_NoClose(p, S, held) == Return(p) /\ UNCHANGED lock

\* Enter the part of a call that closes superseded connections; a call with
\* nothing to close returns.
CloseOrReturn(p, S, held) ==
    IF S = {}
    THEN Return(p) /\ UNCHANGED lock
    ELSE /\ pc' = [pc EXCEPT ![p] = "close"]
         /\ op' = [op EXCEPT ![p].new = EmptyMap, ![p].rest = S]
         /\ lock' = IF held THEN p ELSE lock

\* Update: publish, then close the old connection under the lock.
UpdatePublish(p) ==
    LET k == op[p].key
        c == op[p].new[k]
        old == snap.byKey[k]
    IN  /\ pc[p] = "ping" /\ op[p].kind = "update"
        /\ lock = NoProc
        /\ old # NoConn
        /\ snap' = [snap EXCEPT
                      !.byKey[k] = c,
                      !.keys = @ \cup {k},
                      !.labelIndex = updateIndex(@, k, conn[old].labels, conn[c].labels)]
        /\ closer' = [closer EXCEPT ![k] = c]
        /\ CloseOrReturn(p, {closer[k]} \ {NoConn}, TRUE)
        /\ UNCHANGED <<conn, next, leaked>>

\* ReplaceAll: swap the whole snapshot and the closers, unlock, then close the
\* old connections.
ReplacePublish(p, d) ==
    LET new == op[p].new
    IN  /\ pc[p] = "ping" /\ op[p].kind = "replace"
        /\ lock = NoProc
        /\ snap' = [byKey |-> new, defaultKey |-> d,
                    keys |-> keysOf(new).keys, labelIndex |-> keysOf(new).idx]
        /\ closer' = new
        /\ CloseOrReturn(p, {closer[k] : k \in Keys} \ {NoConn}, FALSE)
        /\ UNCHANGED <<conn, next, leaked>>

\* Mutant: the default key survives its target.
DefaultWithout_Kept(k) == snap.defaultKey

DefaultWithout(k) == IF snap.defaultKey = k THEN NoKey ELSE snap.defaultKey

\* Unregister of a known key: publish, then close under the lock.  An unknown
\* key changes nothing.
UnregisterPublish(p, k) ==
    LET old == snap.byKey[k]
    IN  /\ pc[p] = "idle"
        /\ lock = NoProc
        /\ old # NoConn
        /\ snap' = [byKey |-> [snap.byKey EXCEPT ![k] = NoConn],
                    defaultKey |-> DefaultWithout(k),
                    keys |-> snap.keys \ {k},
                    labelIndex |-> removeFromIndex(snap.labelIndex, k, conn[old].labels)]
        /\ IF closer[k] = NoConn
           THEN UNCHANGED <<pc, op, lock>>
           ELSE /\ pc' = [pc EXCEPT ![p] = "close"]
                /\ op' = [op EXCEPT ![p] = [kind |-> "unregister", key |-> k,
                                            new |-> EmptyMap, rest |-> {closer[k]}]]
                /\ lock' = p
        /\ UNCHANGED <<closer, conn, next, leaked>>

\* Mutant: the closer of an unregistered key stays registered.
ClosersAfter_Kept(p) == closer

ClosersAfter(p) ==
    IF op[p].kind = "unregister" THEN [closer EXCEPT ![op[p].key] = NoConn] ELSE closer

Unlocked(p) == IF lock = p THEN NoProc ELSE lock

\* One superseded connection is closed.  After the last one Unregister deletes
\* the closer entry, and whoever still holds the lock releases it.
CloseOld(p, c) ==
    LET rest == op[p].rest \ {c}
    IN  /\ pc[p] = "close"
        /\ c \in op[p].rest
        /\ CloseAll({c})
        /\ closer' = ClosersAfter(p)
        /\ IF rest = {}
           THEN Return(p) /\ lock' = Unlocked(p)
           ELSE op' = [op EXCEPT ![p].rest = rest] /\ UNCHANGED <<pc, lock>>
        /\ UNCHANGED <<snap, next, leaked>>

\* SetDefault: ignored for an unknown non-empty key.
SetDefault(p, k) ==
    /\ pc[p] = "idle"
    /\ lock = NoProc
    /\ k # NoKey => snap.byKey[k] # NoConn
    /\ snap' = [snap EXCEPT !.defaultKey = k]
    /\ UNCHANGED <<closer, conn, next, lock, pc, op, leaked>>

-----------------------------------------------------------------------------
Finish(p) ==
    \/ pc[p] = "build" /\ BuildDone(p)
    \/ BuildFail(p) \/ PingFail(p)
    \/ RegisterPublish(p) \/ Reject(p) \/ UpdatePublish(p)
    \/ \E d \in Keys \cup {NoKey} : ReplacePublish(p, d)
    \/ \E c \in ConnIds : CloseOld(p, c)

Next ==
    \E p \in Procs :
        \/ \E k \in Keys, owned \in BOOLEAN, labels \in SUBSET Labels :
              \/ BuildNext(p, k, owned, labels)
              \/ \E kind \in {"register", "update"} :
                    BuildOne(p, kind, k, owned, labels)
        \/ BuildDone(p)
        \/ \E k \in Keys : UnregisterPublish(p, k)
        \/ \E k \in Keys \cup {NoKey} : SetDefault(p, k)
        \/ Finish(p)

Spec == Init /\ [][Next]_vars

\* A goroutine inside a call keeps running: connectors, pings and closes
\* return, and sync.RWMutex starves no waiter.
FairSpec == Spec /\ \A p \in Procs : WF_vars(Finish(p))

-----------------------------------------------------------------------------
\* Every variable has its type; in particular the label index of a snapshot stays
\* a map on the labels, whatever updateIndex and removeFromIndex do to it.
TypeOK ==
    /\ snap \in [byKey : ConnMap, defaultKey : Keys \cup {NoKey},
                 keys : SUBSET Keys, labelIndex : [Labels -> SUBSET Keys]]
    /\ closer \in ConnMap
    /\ conn \in [ConnIds -> [owned : BOOLEAN, labels : SUBSET Labels, closes : Nat]]
    /\ next \in 1..(MaxConns + 1)
    /\ lock \in Procs \cup {NoProc}
    /\ pc \in [Procs -> {"idle", "build", "ping", "close"}]
    /\ op \in [Procs -> [kind : {"none", "register", "update", "replace", "unregister"},
                         key : Keys \cup {NoKey}, new : ConnMap, rest : SUBSET ConnIds]]
    /\ leaked \in SUBSET ConnIds

\* The key list and the inverted label index of the published snapshot, both
\* maintained incrementally by Register, Update and Unregister, always say
\* what byKey says: FindByLabel and Keys answer from the current targets.
SnapshotConsistent ==
    /\ snap.keys = {k \in Keys : snap.byKey[k] # NoConn}
    /\ \A l \in Labels :
         snap.labelIndex[l] = {k \in Keys : /\ snap.byKey[k] # NoConn
                                            /\ l \in conn[snap.byKey[k]].labels}

\* What each goroutine holds matches where it is: between calls nothing, before
\* the swap what it built, after it what it has to close; and the lock is held
\* exactly while Update or Unregister closes the connection it superseded.
Controlled(p) ==
    /\ pc[p] = "idle" => op[p] = NoOp
    /\ pc[p] = "build" => op[p].kind = "replace"
    /\ pc[p] = "ping" => op[p].kind \in {"register", "update", "replace"}
    /\ pc[p] = "close" => /\ op[p].kind \in {"update", "replace", "unregister"}
                         /\ op[p].new = EmptyMap
    /\ pc[p] # "close" => op[p].rest = {}
    /\ op[p].kind \in {"register", "update", "unregister"} => op[p].key \in Keys
    /\ pc[p] = "ping" /\ op[p].kind # "replace"
       => \A k \in Keys : op[p].new[k] # NoConn <=> k = op[p].key
    /\ lock = p <=> pc[p] = "close" /\ op[p].kind # "replace"
Control == \A p \in Procs : Controlled(p)

\* Every connection in use has one owner and is open: it is published under one
\* key, or one goroutine built it for one key, or one goroutine has yet to
\* close it.  A registered closer belongs to the target published under its
\* key, except while Unregister closes that target.
Held(p) == Built(p) \cup op[p].rest
InUse(c) == c < next /\ conn[c].closes = 0
InjectiveMap(m) == \A j, k \in Keys : m[j] = m[k] /\ m[j] # NoConn => j = k
Unregistering(p, k) ==
    /\ pc[p] = "close" /\ op[p].kind = "unregister"
    /\ op[p].key = k /\ op[p].rest = {closer[k]}
Ownership ==
    /\ \A c \in Published : InUse(c)
    /\ \A p \in Procs : \A c \in Held(p) : InUse(c) /\ c \notin Published
    /\ \A p, q \in Procs : p # q => Held(p) \cap Held(q) = {}
    /\ InjectiveMap(snap.byKey)
    /\ \A p \in Procs : InjectiveMap(op[p].new)
    /\ \A k \in Keys : \/ closer[k] \in {NoConn, snap.byKey[k]}
                       \/ \E p \in Procs : Unregistering(p, k)

\* A target a reader can load from the current snapshot has never been closed:
\* every writer publishes first and closes afterwards ("The connection is
\* closed after publishing the snapshot", targets.go:140).
PublishedOpen == \A c \in Published : conn[c].closes = 0

\* Close is called at most once per connection, however Unregister, Update and
\* ReplaceAll interleave.
ClosedOnce == \A c \in ConnIds : conn[c].closes <= 1

\* The registry never hands out, closes twice or double-books a connection: the
\* inductive invariant that keeps every published connection open and every
\* closer called once, with the control state it rests on.
ConnectionDiscipline == TypeOK /\ Control /\ Ownership /\ PublishedOpen /\ ClosedOnce

\* A target whose connection the registry opened has its closer registered, and
\* the key an Unregister is closing stays without a target.
ClosersKept ==
    /\ \A k \in Keys : snap.byKey[k] # NoConn /\ conn[snap.byKey[k]].owned
                       => closer[k] = snap.byKey[k]
    /\ \A p \in Procs : pc[p] = "close" /\ op[p].kind = "unregister"
                        => snap.byKey[op[p].key] = NoConn

\* Resource accounting: an open connection the registry opened is published,
\* with a closer that will be called, or in the hands of a call, or was dropped
\* by a rejected Register or Update.  Those rejections are the only way to lose
\* one.
Accounted(c) == c \in Published \cup leaked \/ \E p \in Procs : c \in Held(p)
NoOtherLeak ==
    /\ ClosersKept
    /\ \A c \in ConnIds : InUse(c) /\ conn[c].owned => Accounted(c)

\* Every call returns, so that nobody waits for ever for the lock, and a
\* connection that has left the registry is eventually closed.
Superseded(c) ==
    /\ c < next
    /\ conn[c].owned
    /\ c \notin Published \cup leaked
    /\ \A p \in Procs : c \notin Built(p)
CallsFinish ==
    /\ \A p \in Procs : pc[p] # "idle" ~> pc[p] = "idle"
    /\ \A c \in ConnIds : Superseded(c) ~> conn[c].closes > 0

-----------------------------------------------------------------------------
(***************************************************************************)
(* What the registry promises: an atomic map (module TargetMap).           *)
(***************************************************************************)
AbsTargets == [k \in Keys |->
    IF snap.byKey[k] = NoConn THEN [conn |-> 0, labels |-> {}]
    ELSE [conn |-> snap.byKey[k], labels |-> conn[snap.byKey[k]].labels]]
AbsUsed == {c \in ConnIds : c < next /\ \A p \in Procs : c \notin Built(p)}
AbsClosed == {c \in ConnIds : c < next /\ conn[c].closes > 0}

Abstract == INSTANCE TargetMap WITH
    Conns <- ConnIds, targets <- AbsTargets, def <- snap.defaultKey,
    found <- snap.labelIndex, used <- AbsUsed, closed <- AbsClosed

\* Every step of the registry, seen by its lock-free readers, is one atomic
\* operation of the map or changes nothing they see: "ReplaceAll swaps the
\* registry contents atomically" (targets.go:216), and so does every other
\* writer; label lookups agree with the contents at every instant, and no
\* connection is published again after it was dropped or closed.
AtomicMap == Abstract!Spec
=============================================================================
