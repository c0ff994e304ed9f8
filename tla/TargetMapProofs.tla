-------------------------- MODULE TargetMapProofs ---------------------------
(***************************************************************************)
(* What a caller of the target registry relies on, proved for every set of *)
(* keys, labels and goroutines and any number of connections: the registry *)
(* implements the atomic map of TargetMap, every step being one operation  *)
(* of the map or changing nothing the map shows; and the label lookups,    *)
(* which work on the inverted index, find exactly the targets whose labels *)
(* satisfy the query.                                                      *)
(***************************************************************************)
EXTENDS TargetOwnershipProofs, TargetQuery

-----------------------------------------------------------------------------
(***************************************************************************)
(* The key list and the label index.                                       *)
(***************************************************************************)
\* A registry that starts with a default target has indexed it.
LEMMA InitSnapshot == Init => SnapshotConsistent
  BY RegistryAssumption DEF Init, SnapshotConsistent, ConnIds, NoConn

\* A step that leaves the snapshot alone, and the labels of the connections in
\* use, keeps the index right.
LEMMA SnapshotFrame ==
  ASSUME TypeOK, Ownership, SnapshotConsistent, snap'.byKey = snap.byKey,
         snap'.keys = snap.keys, snap'.labelIndex = snap.labelIndex,
         \A c \in ConnIds : c < next => conn'[c].labels = conn[c].labels
  PROVE  SnapshotConsistent'
  <1>1. \A k \in Keys : snap.byKey[k] # NoConn =>
           conn'[snap.byKey[k]].labels = conn[snap.byKey[k]].labels
    BY SMTT(30) DEF TypeOK, ConnMap, Ownership, Published, InUse
  <1> QED
    BY <1>1 DEF SnapshotConsistent

\* Every step that publishes a snapshot keeps its key list and index right.
LEMMA NextSnapshot ==
  TypeOK /\ Control /\ Ownership /\ SnapshotConsistent /\ [Next]_vars => SnapshotConsistent'
  <1> SUFFICES ASSUME TypeOK, Control, Ownership, SnapshotConsistent, [Next]_vars
               PROVE  SnapshotConsistent'
    OBVIOUS
  <1>1. CASE UNCHANGED vars
    BY <1>1, SnapshotFrame DEF vars
  <1>2. ASSUME NEW p \in Procs, NEW kind, NEW k \in Keys, NEW owned \in BOOLEAN,
               NEW labels \in SUBSET Labels, buildConn(p, kind, k, owned, labels)
        PROVE  SnapshotConsistent'
    <2>1. snap' = snap /\ \A c \in ConnIds : c < next => conn'[c].labels = conn[c].labels
      BY <1>2, SMTT(30) DEF buildConn, TypeOK, ConnIds
    <2> QED
      BY <2>1, SnapshotFrame, SMTT(30)
  <1>3. ASSUME NEW p \in Procs, NEW S \in SUBSET ConnIds, CloseAll(S), snap' = snap
        PROVE  SnapshotConsistent'
    BY <1>3, CloseAllEffect, SnapshotFrame
  <1>4. ASSUME conn' = conn, snap' = snap PROVE SnapshotConsistent'
    BY <1>4, SnapshotFrame
  <1>5. ASSUME NEW p \in Procs, RegisterPublish(p) PROVE SnapshotConsistent'
    <2>0. PICK k \in Keys, c \in ConnIds : k = op[p].key /\ c = op[p].new[k]
      BY <1>5, OwnKey, Zenon DEF RegisterPublish
    <2>1. /\ snap.byKey[k] = NoConn /\ c # NoConn /\ conn' = conn
          /\ snap'.byKey = [snap.byKey EXCEPT ![k] = c]
          /\ snap'.keys = snap.keys \cup {k}
          /\ snap'.labelIndex = addToIndex(snap.labelIndex, k, conn[c].labels)
      BY <1>5, <2>0 DEF RegisterPublish, TypeOK, ConnIds, NoConn
    <2>a. snap'.byKey[k] = c /\ \A j \in Keys : j # k => snap'.byKey[j] = snap.byKey[j]
      BY <2>1, SnapFacts, MapUpdate
    <2>b. /\ snap'.labelIndex \in [Labels -> SUBSET Keys]
          /\ \A l \in Labels, j \in Keys :
               j \in snap'.labelIndex[l] <=> j \in snap.labelIndex[l] \/ (j = k /\ l \in conn[c].labels)
      <3>1. snap.labelIndex \in [Labels -> SUBSET Keys]
        BY SnapFacts
      <3> QED
        BY <2>1, <3>1 DEF addToIndex
    <2>2. snap'.keys = {j \in Keys : snap'.byKey[j] # NoConn}
      BY <2>1, <2>a, Zenon DEF SnapshotConsistent
    <2>3. ASSUME NEW l \in Labels, NEW j \in Keys
          PROVE  j \in snap'.labelIndex[l] <=> /\ snap'.byKey[j] # NoConn
                                               /\ l \in conn[snap'.byKey[j]].labels
      <3>1. CASE j = k
        BY <2>1, <2>a, <2>b, <3>1 DEF SnapshotConsistent
      <3>2. CASE j # k
        BY <2>a, <2>b, <3>2 DEF SnapshotConsistent
      <3> QED
        BY <3>1, <3>2, Zenon
    <2>4. ASSUME NEW l \in Labels
          PROVE  snap'.labelIndex[l] = {j \in Keys : /\ snap'.byKey[j] # NoConn
                                                   /\ l \in conn[snap'.byKey[j]].labels}
      <3>1. snap'.labelIndex[l] \subseteq Keys
        BY <2>b, SMTT(30)
      <3> QED
        BY <2>3, <3>1, Zenon
    <2>5. conn' = conn
      BY <2>1, Zenon
    <2> QED
      BY <2>2, <2>4, <2>5, SMTT(30) DEF SnapshotConsistent
  <1>6. ASSUME NEW p \in Procs, UpdatePublish(p) PROVE SnapshotConsistent'
    <2>0. PICK k \in Keys, c \in ConnIds : k = op[p].key /\ c = op[p].new[k]
      BY <1>6, OwnKey, Zenon DEF UpdatePublish
    <2>1. /\ snap.byKey[k] # NoConn /\ c # NoConn /\ conn' = conn
          /\ snap'.byKey = [snap.byKey EXCEPT ![k] = c]
          /\ snap'.keys = snap.keys \cup {k}
          /\ snap'.labelIndex =
                updateIndex(snap.labelIndex, k, conn[snap.byKey[k]].labels, conn[c].labels)
      BY <1>6, <2>0, SMTT(30) DEF UpdatePublish, TypeOK, ConnIds, NoConn
    <2>a. snap'.byKey[k] = c /\ \A j \in Keys : j # k => snap'.byKey[j] = snap.byKey[j]
      BY <2>1, SnapFacts, MapUpdate
    <2>b. \A l \in Labels : k \in snap.labelIndex[l] <=> l \in conn[snap.byKey[k]].labels
      BY <2>1, SMTT(30) DEF SnapshotConsistent
    <2>c. /\ snap'.labelIndex \in [Labels -> SUBSET Keys]
          /\ \A l \in Labels, j \in Keys :
               j \in snap'.labelIndex[l]
               <=> IF j = k THEN l \in conn[c].labels ELSE j \in snap.labelIndex[l]
      <3>1. snap.labelIndex \in [Labels -> SUBSET Keys]
        BY SnapFacts
      <3> QED
        BY <2>1, <2>b, <3>1 DEF updateIndex
    <2>2. snap'.keys = {j \in Keys : snap'.byKey[j] # NoConn}
      BY <2>1, <2>a, SMTT(30) DEF SnapshotConsistent
    <2>3. ASSUME NEW l \in Labels, NEW j \in Keys
          PROVE  j \in snap'.labelIndex[l] <=> /\ snap'.byKey[j] # NoConn
                                               /\ l \in conn[snap'.byKey[j]].labels
      <3>1. CASE j = k
        BY <2>1, <2>a, <2>c, <3>1, Zenon
      <3>2. CASE j # k
        BY <2>a, <2>c, <3>2 DEF SnapshotConsistent
      <3> QED
        BY <3>1, <3>2, Zenon
    <2>4. ASSUME NEW l \in Labels
          PROVE  snap'.labelIndex[l] = {j \in Keys : /\ snap'.byKey[j] # NoConn
                                                   /\ l \in conn[snap'.byKey[j]].labels}
      <3>1. snap'.labelIndex[l] \subseteq Keys
        BY <2>c, SMTT(30)
      <3> QED
        BY <2>3, <3>1, Zenon
    <2>5. conn' = conn
      BY <2>1, Zenon
    <2> QED
      BY <2>2, <2>4, <2>5, SMTT(30) DEF SnapshotConsistent
  <1>7. ASSUME NEW p \in Procs, NEW d \in Keys \cup {NoKey}, ReplacePublish(p, d)
        PROVE  SnapshotConsistent'
    BY <1>7, Zenon DEF ReplacePublish, keysOf, SnapshotConsistent
  <1>8. ASSUME NEW p \in Procs, NEW k \in Keys, UnregisterPublish(p, k)
        PROVE  SnapshotConsistent'
    <2>1. /\ snap.byKey[k] # NoConn /\ conn' = conn
          /\ snap'.byKey = [snap.byKey EXCEPT ![k] = NoConn]
          /\ snap'.keys = snap.keys \ {k}
          /\ snap'.labelIndex =
                removeFromIndex(snap.labelIndex, k, conn[snap.byKey[k]].labels)
      BY <1>8, Zenon DEF UnregisterPublish
    <2>a. snap'.byKey[k] = NoConn /\ \A j \in Keys : j # k => snap'.byKey[j] = snap.byKey[j]
      BY <2>1, SnapFacts, MapUpdate
    <2>b. /\ snap'.labelIndex \in [Labels -> SUBSET Keys]
          /\ \A l \in Labels, j \in Keys :
               j \in snap'.labelIndex[l]
               <=> j \in snap.labelIndex[l] /\ ~(j = k /\ l \in conn[snap.byKey[k]].labels)
      <3>1. snap.labelIndex \in [Labels -> SUBSET Keys]
        BY SnapFacts
      <3> QED
        BY <2>1, <3>1 DEF removeFromIndex
    <2>2. snap'.keys = {j \in Keys : snap'.byKey[j] # NoConn}
      BY <2>1, <2>a, Zenon DEF SnapshotConsistent
    <2>3. ASSUME NEW l \in Labels, NEW j \in Keys
          PROVE  j \in snap'.labelIndex[l] <=> /\ snap'.byKey[j] # NoConn
                                               /\ l \in conn[snap'.byKey[j]].labels
      <3>1. CASE j = k
        BY <2>a, <2>b, <3>1, Zenon DEF SnapshotConsistent
      <3>2. CASE j # k
        BY <2>a, <2>b, <3>2 DEF SnapshotConsistent
      <3> QED
        BY <3>1, <3>2, Zenon
    <2>4. ASSUME NEW l \in Labels
          PROVE  snap'.labelIndex[l] = {j \in Keys : /\ snap'.byKey[j] # NoConn
                                                   /\ l \in conn[snap'.byKey[j]].labels}
      <3>1. snap'.labelIndex[l] \subseteq Keys
        BY <2>b
      <3> QED
        BY <2>3, <3>1, Zenon
    <2>5. conn' = conn
      BY <2>1, Zenon
    <2> QED
      BY <2>2, <2>4, <2>5, SMTT(30) DEF SnapshotConsistent
  <1>9. ASSUME NEW p \in Procs, BuildFail(p) \/ PingFail(p) \/ \E c \in ConnIds : CloseOld(p, c)
        PROVE  SnapshotConsistent'
    BY <1>3, <1>9, BuiltType, Zenon DEF BuildFail, PingFail, CloseOld
  <1>10. ASSUME NEW p \in Procs, NEW k \in Keys \cup {NoKey}, SetDefault(p, k)
         PROVE  SnapshotConsistent'
    BY <1>10, SnapshotFrame DEF SetDefault, TypeOK
  <1>11. ASSUME NEW p \in Procs, BuildDone(p) \/ Reject(p) PROVE SnapshotConsistent'
    BY <1>4, <1>11, Zenon DEF BuildDone, Reject
  <1>12. ASSUME NEW p \in Procs, NEW kind \in {"register", "update"}, NEW k \in Keys,
                NEW owned \in BOOLEAN, NEW labels \in SUBSET Labels,
                BuildNext(p, k, owned, labels) \/ BuildOne(p, kind, k, owned, labels)
         PROVE  SnapshotConsistent'
    BY <1>2, <1>12 DEF BuildNext, BuildOne
  <1> QED
    BY <1>1, <1>5, <1>6, <1>7, <1>8, <1>9, <1>10, <1>11, <1>12 DEF Next, Finish

\* At every instant the key list and the label index of the published snapshot
\* say what its map of targets says, so Keys and FindByLabel, which read only
\* them, answer from the current targets.
THEOREM IndexCorrect == Spec => []SnapshotConsistent
  <1> DEFINE IInv == TypeOK /\ Control /\ Ownership /\ ClosedOnce /\ SnapshotConsistent
  <1>1. Init => IInv
    BY InitType, InitControl, InitOwnership, InitSnapshot
  <1>2. IInv /\ [Next]_vars => IInv'
    BY NextType, NextControl, NextOwnership, NextSnapshot
  <1> QED
    BY <1>1, <1>2, PTL DEF Spec

-----------------------------------------------------------------------------
(***************************************************************************)
(* The atomic map.                                                         *)
(***************************************************************************)
\* The map's entry for a key, and when there is none.
LEMMA EntryFacts ==
  ASSUME TypeOK, NEW k \in Keys
  PROVE  /\ snap.byKey[k] = NoConn => /\ AbsTargets[k] = Abstract!Absent
                                      /\ AbsTargets[k].labels = {}
         /\ snap.byKey[k] # NoConn =>
              /\ AbsTargets[k] = [conn |-> snap.byKey[k], labels |-> conn[snap.byKey[k]].labels]
              /\ snap.byKey[k] \in ConnIds /\ AbsTargets[k] \in Abstract!Target
              /\ AbsTargets[k] # Abstract!Absent /\ AbsTargets[k].conn = snap.byKey[k]
              /\ AbsTargets[k].labels = conn[snap.byKey[k]].labels
  <1>1. CASE snap.byKey[k] = NoConn
    BY <1>1, Zenon DEF AbsTargets, Abstract!Absent
  <1>2. CASE snap.byKey[k] # NoConn
    <2>1. snap.byKey[k] \in ConnIds /\ conn[snap.byKey[k]].labels \in SUBSET Labels
      BY <1>2 DEF TypeOK, ConnMap
    <2>2. AbsTargets[k] = [conn |-> snap.byKey[k], labels |-> conn[snap.byKey[k]].labels]
      BY <1>2 DEF AbsTargets
    <2>3. AbsTargets[k].conn # Abstract!Absent.conn
      BY <2>1, <2>2 DEF Abstract!Absent, ConnIds
    <2> QED
      BY <1>2, <2>1, <2>2, <2>3 DEF Abstract!Target
  <1> QED
    BY <1>1, <1>2, Zenon

LEMMA MapEntries ==
  TypeOK => \A k \in Keys :
    /\ AbsTargets[k] \in Abstract!Target \cup {Abstract!Absent}
    /\ k \in Abstract!Present(AbsTargets) =>
         AbsTargets[k].conn = snap.byKey[k] /\ snap.byKey[k] # NoConn
  BY EntryFacts, Zenon DEF Abstract!Present

\* The connections in the map are the published ones.
LEMMA MapConns == TypeOK => Abstract!ConnsOf(AbsTargets) = Published
  <1> SUFFICES ASSUME TypeOK PROVE Abstract!ConnsOf(AbsTargets) = Published
    OBVIOUS
  <1>1. \A k \in Keys : k \in Abstract!Present(AbsTargets) <=> snap.byKey[k] # NoConn
    BY EntryFacts, Zenon DEF Abstract!Present
  <1>2. \A k \in Keys : snap.byKey[k] # NoConn => AbsTargets[k].conn = snap.byKey[k]
    BY EntryFacts, Zenon
  <1> QED
    BY <1>1, <1>2 DEF Abstract!ConnsOf, Abstract!Present, Published

\* The label index answers what the map would.
LEMMA MapAnswers == TypeOK /\ SnapshotConsistent => snap.labelIndex = Abstract!Answers(AbsTargets)
  <1> SUFFICES ASSUME TypeOK, SnapshotConsistent
               PROVE  snap.labelIndex = Abstract!Answers(AbsTargets)
    OBVIOUS
  <1>1. snap.labelIndex \in [Labels -> SUBSET Keys]
    BY SnapFacts
  <1>2. ASSUME NEW l \in Labels, NEW k \in Keys
        PROVE  k \in snap.labelIndex[l] <=> l \in AbsTargets[k].labels
    <2>1. k \in snap.labelIndex[l] <=> snap.byKey[k] # NoConn /\ l \in conn[snap.byKey[k]].labels
      BY Zenon DEF SnapshotConsistent
    <2>2. /\ snap.byKey[k] = NoConn => AbsTargets[k].labels = {}
          /\ snap.byKey[k] # NoConn => AbsTargets[k].labels = conn[snap.byKey[k]].labels
      BY EntryFacts, Zenon
    <2> QED
      BY <2>1, <2>2, Zenon
  <1>3. \A l \in Labels : snap.labelIndex[l] = {k \in Keys : l \in AbsTargets[k].labels}
    BY <1>1, <1>2
  <1> QED
    BY <1>1, <1>3, Zenon DEF Abstract!Answers

\* Every published connection is used, and none that somebody has yet to publish.
LEMMA MapUsed ==
  ASSUME TypeOK, Ownership
  PROVE  Published \subseteq AbsUsed
  BY PublishedType DEF Ownership, InUse, Held, AbsUsed

\* The registry starts as a map with at most the default target.
LEMMA InitMap == Init => Abstract!Init
  <1> SUFFICES ASSUME Init PROVE Abstract!Init
    OBVIOUS
  <1>1. TypeOK /\ SnapshotConsistent /\ Ownership
    BY InitType, InitSnapshot, InitOwnership
  <1>2. AbsTargets \in [Keys -> Abstract!Target \cup {Abstract!Absent}]
    <2>1. \A k \in Keys : AbsTargets[k] \in Abstract!Target \cup {Abstract!Absent}
      BY <1>1, EntryFacts, Zenon
    <2> QED
      BY <2>1, Zenon DEF AbsTargets
  <1>3. snap.defaultKey = NoKey \/ snap.defaultKey \in Abstract!Present(AbsTargets)
    <2>1. \/ snap.defaultKey = NoKey
          \/ snap.defaultKey \in Keys /\ snap.byKey[snap.defaultKey] # NoConn
      <3>1. PICK given \in BOOLEAN :
               /\ snap.defaultKey = IF given THEN DefaultName ELSE NoKey
               /\ snap.byKey = [k \in Keys |-> IF given /\ k = DefaultName THEN 1 ELSE NoConn]
        BY DEF Init
      <3>2. CASE given = TRUE
        <4>1. snap.byKey[DefaultName] = 1 /\ snap.defaultKey = DefaultName
          BY <3>1, <3>2, RegistryAssumption
        <4> QED
          BY <4>1, RegistryAssumption DEF NoConn
      <3>3. CASE given = FALSE
        <4>1. snap.defaultKey = NoKey
          BY <3>1, <3>3
        <4> QED
          BY <4>1
      <3> QED
        BY <3>2, <3>3, Zenon
    <2> QED
      BY <1>1, <2>1, EntryFacts, Zenon DEF Abstract!Present
  <1>4. AbsUsed = Abstract!ConnsOf(AbsTargets)
    <2>1. AbsUsed \subseteq Published
      BY RegistryAssumption DEF Init, AbsUsed, Published, ConnIds, NoConn
    <2> QED
      BY <1>1, <2>1, MapUsed, MapConns
  <1>5. AbsClosed = {}
    BY DEF Init, AbsClosed
  <1> QED
    BY <1>1, <1>2, <1>3, <1>4, <1>5, MapAnswers DEF Abstract!Init

\* The invariant every step keeps, before and after.
MapInv == TypeOK /\ Control /\ Ownership /\ SnapshotConsistent
MapStep == MapInv /\ MapInv'

\* A step that publishes exactly what its goroutine built turns one map into
\* the next.
LEMMA PublishBecomes ==
  ASSUME MapStep, NEW p \in Procs, conn' = conn, next' = next,
         \A q \in Procs \ {p} : Built(q)' = Built(q), Built(p)' = {},
         Published' \ Published \subseteq Built(p), Built(p) \subseteq Published'
  PROVE  Abstract!Become(AbsTargets', snap'.defaultKey)
  <1>1. TypeOK /\ TypeOK' /\ Ownership /\ Ownership' /\ SnapshotConsistent'
    BY DEF MapStep, MapInv
  <1>2. /\ Abstract!ConnsOf(AbsTargets) = Published
        /\ Abstract!ConnsOf(AbsTargets') = Published'
    <2>1. (TypeOK => Abstract!ConnsOf(AbsTargets) = Published)'
      BY MapConns, PTL
    <2> QED
      BY <1>1, <2>1, MapConns
  <1>3. snap'.labelIndex = Abstract!Answers(AbsTargets')
    <2>1. (TypeOK /\ SnapshotConsistent => snap.labelIndex = Abstract!Answers(AbsTargets))'
      BY MapAnswers, PTL
    <2> QED
      BY <1>1, <2>1
  <1>4. AbsUsed' = AbsUsed \cup Built(p)
    <2>1. \A c \in Built(p) : c \in ConnIds /\ c < next /\ \A q \in Procs \ {p} : c \notin Built(q)
      BY <1>1, BuiltType DEF Ownership, Held, InUse
    <2> QED
      BY <2>1 DEF AbsUsed
  <1>5. Built(p) \cap AbsUsed = {}
    BY DEF AbsUsed
  <1>6. Published \subseteq AbsUsed
    BY <1>1, MapUsed
  <1>7. AbsClosed' = AbsClosed
    BY DEF AbsClosed
  <1>8. AbsUsed' = AbsUsed \cup Published'
    BY <1>4, <1>6
  <1>9. (Published' \ Published) \cap AbsUsed = {}
    BY <1>5
  <1> QED
    BY <1>2, <1>3, <1>7, <1>8, <1>9 DEF Abstract!Become

\* What a goroutine has built, when its call returns or publishes.
LEMMA BuiltFrame ==
  ASSUME TypeOK, NEW p \in Procs, op'[p].new = EmptyMap,
         \A q \in Procs \ {p} : op'[q] = op[q]
  PROVE  Built(p)' = {} /\ \A q \in Procs \ {p} : Built(q)' = Built(q)
  BY DEF Built, EmptyMap

\* A call that fails only uses up what it built.
LEMMA FailDiscards ==
  ASSUME MapStep, NEW p \in Procs, Return(p), UNCHANGED <<snap, next>>,
         CloseAll(Built(p)) \/ UNCHANGED conn
  PROVE  \E S, T \in SUBSET ConnIds : Abstract!Discard(S, T)
  <1>1. TypeOK /\ Ownership
    BY DEF MapStep, MapInv
  <1>2. Built(p)' = {} /\ \A q \in Procs \ {p} : Built(q)' = Built(q)
    BY <1>1, ReturnHeld, BuiltFrame
  <1>3. Built(p) \subseteq ConnIds /\ Built(p) \cap AbsUsed = {}
    BY <1>1, BuiltType DEF AbsUsed
  <1>4. AbsUsed' = AbsUsed \cup Built(p)
    <2>1. \A c \in Built(p) : c \in ConnIds /\ c < next /\ \A q \in Procs \ {p} : c \notin Built(q)
      BY <1>1, BuiltType DEF Ownership, Held, InUse
    <2> QED
      BY <1>2, <2>1 DEF AbsUsed
  <1>5. \A c \in ConnIds : conn'[c].labels = conn[c].labels
    BY <1>1, <1>3, CloseAllEffect
  <1>6. AbsTargets' = AbsTargets
    <2>1. \A k \in Keys : snap.byKey[k] \in ConnIds \cup {NoConn}
      BY <1>1, SnapFacts
    <2> QED
      BY <1>5, <2>1, Zenon DEF AbsTargets
  <1>7. \E T \in SUBSET ConnIds : AbsClosed' = AbsClosed \cup (T \cap Built(p))
    <2>1. CASE UNCHANGED conn
      BY <2>1, Zenon DEF AbsClosed
    <2>2. CASE CloseAll(Built(p))
      <3> DEFINE T == {c \in ConnIds : conn[c].owned}
      <3>1. \A c \in ConnIds : conn'[c].closes > 0 <=>
               conn[c].closes > 0 \/ (c \in Built(p) /\ c \in T)
        BY <1>1, <2>2 DEF CloseAll, TypeOK
      <3>2. AbsClosed' = AbsClosed \cup (T \cap Built(p))
        BY <1>1, <1>3, <3>1 DEF AbsClosed, Ownership, Held, InUse
      <3> QED
        BY <3>2, Zenon
    <2> QED
      BY <2>1, <2>2
  <1>8. PICK T \in SUBSET ConnIds : AbsClosed' = AbsClosed \cup (T \cap Built(p))
    BY <1>7
  <1>9. Abstract!Discard(Built(p), T)
    BY <1>3, <1>4, <1>6, <1>8, SMTT(30) DEF Abstract!Discard
  <1> QED
    BY <1>3, <1>9

\* Register and Update put one new target into the map.
LEMMA PublishOne ==
  ASSUME MapStep, NEW p \in Procs, RegisterPublish(p) \/ UpdatePublish(p)
  PROVE  Abstract!Next
  <1> DEFINE k == op[p].key
             c == op[p].new[k]
             t == [conn |-> c, labels |-> conn[c].labels]
  <1>1. TypeOK /\ TypeOK' /\ Control /\ Ownership
    BY DEF MapStep, MapInv
  <1>2. /\ pc[p] = "ping" /\ op[p].kind \in {"register", "update"}
        /\ snap'.byKey = [snap.byKey EXCEPT ![k] = c] /\ snap'.defaultKey = snap.defaultKey
        /\ conn' = conn /\ next' = next
    BY <1>1, ZenonT(30) DEF RegisterPublish, UpdatePublish, TypeOK
  <1>3. k \in Keys /\ c \in ConnIds /\ Built(p) = {c}
    BY <1>1, <1>2, BuiltOne, Zenon
  <1>4. Built(p)' = {} /\ \A q \in Procs \ {p} : Built(q)' = Built(q)
    <2>1. CASE RegisterPublish(p)
      BY <1>1, <2>1, ReturnHeld, BuiltFrame, Zenon DEF RegisterPublish
    <2>2. CASE UpdatePublish(p)
      BY <1>1, <1>2, <2>2, CloseOrReturnHeld, BuiltFrame, ZenonT(30) DEF UpdatePublish
    <2> QED
      BY <2>1, <2>2
  <1>5. snap'.byKey[k] = c /\ \A j \in Keys : j # k => snap'.byKey[j] = snap.byKey[j]
    BY <1>1, <1>2, <1>3, SnapFacts, MapUpdate
  <1>6. Published' \ Published \subseteq Built(p) /\ Built(p) \subseteq Published'
    BY <1>3, <1>5 DEF Published, ConnIds, NoConn
  <1>7. Abstract!Become(AbsTargets', snap'.defaultKey)
    BY <1>2, <1>4, <1>6, PublishBecomes
  <1>8. AbsTargets' = [AbsTargets EXCEPT ![k] = t]
    <2>1. c # NoConn
      BY <1>3 DEF ConnIds, NoConn
    <2>2. AbsTargets'[k] = t
      BY <1>2, <1>3, <1>5, <2>1, ZenonT(30) DEF AbsTargets
    <2>3. \A j \in Keys : j # k => AbsTargets'[j] = AbsTargets[j]
      BY <1>2, <1>5, Zenon DEF AbsTargets
    <2>4. AbsTargets' = [j \in Keys |-> AbsTargets'[j]] /\ AbsTargets = [j \in Keys |-> AbsTargets[j]]
      BY Zenon DEF AbsTargets
    <2> HIDE DEF t
    <2> QED
      BY <1>3, <2>2, <2>3, <2>4, Zenon
  <1>9. t \in Abstract!Target /\ t.conn \notin AbsUsed
    BY <1>1, <1>3, SMTT(30) DEF Abstract!Target, AbsUsed, TypeOK
  <1>10. Abstract!Become([AbsTargets EXCEPT ![k] = t], snap.defaultKey)
    BY <1>2, <1>7, <1>8, ZenonT(30)
  <1>11. Abstract!Register(k, t) \/ Abstract!Update(k, t)
    BY <1>9, <1>10, ZenonT(30) DEF Abstract!Register, Abstract!Update
  <1> QED
    BY <1>3, <1>9, <1>11, Zenon DEF Abstract!Next

\* ReplaceAll swaps the whole map for one of fresh connections.
LEMMA ReplaceSwaps ==
  ASSUME MapStep, NEW p \in Procs, NEW d \in Keys \cup {NoKey}, ReplacePublish(p, d)
  PROVE  Abstract!Next
  <1>1. TypeOK /\ TypeOK' /\ Control /\ Ownership
    BY DEF MapStep, MapInv
  <1>2. /\ pc[p] = "ping" /\ conn' = conn /\ next' = next
        /\ snap'.byKey = op[p].new /\ snap'.defaultKey = d
    BY Zenon DEF ReplacePublish
  <1>3. Built(p)' = {} /\ \A q \in Procs \ {p} : Built(q)' = Built(q)
    BY <1>1, <1>2, CloseOrReturnHeld, BuiltFrame, Zenon DEF ReplacePublish
  <1>4. Published' = Built(p)
    BY <1>2 DEF Published, Built
  <1>5. Abstract!Become(AbsTargets', d)
    BY <1>2, <1>3, <1>4, PublishBecomes
  <1>6. /\ \A k \in Keys : AbsTargets'[k] \in Abstract!Target \cup {Abstract!Absent}
        /\ \A k \in Keys : k \in Abstract!Present(AbsTargets') =>
             AbsTargets'[k].conn = op[p].new[k] /\ op[p].new[k] # NoConn
    <2>1. (TypeOK => \A k \in Keys :
             /\ AbsTargets[k] \in Abstract!Target \cup {Abstract!Absent}
             /\ k \in Abstract!Present(AbsTargets) =>
                  AbsTargets[k].conn = snap.byKey[k] /\ snap.byKey[k] # NoConn)'
      BY MapEntries, PTL
    <2> QED
      BY <1>1, <1>2, <2>1
  <1>7. AbsTargets' \in [Keys -> Abstract!Target \cup {Abstract!Absent}]
    BY <1>6, Zenon DEF AbsTargets
  <1>8. Abstract!ConnsOf(AbsTargets') \cap AbsUsed = {}
    BY <1>6 DEF Abstract!ConnsOf, Abstract!Present, AbsUsed, Built
  <1>9. \A j, k \in Abstract!Present(AbsTargets') :
           AbsTargets'[j].conn = AbsTargets'[k].conn => j = k
    BY <1>1, <1>6 DEF Ownership, InjectiveMap, Abstract!Present
  <1>10. Abstract!ReplaceAll(AbsTargets', d)
    BY <1>5, <1>8, <1>9 DEF Abstract!ReplaceAll
  <1> QED
    BY <1>7, <1>10 DEF Abstract!Next

\* Unregister takes one target, and the default that named it, out of the map.
LEMMA UnregisterRemoves ==
  ASSUME MapStep, NEW p \in Procs, NEW k \in Keys, UnregisterPublish(p, k)
  PROVE  Abstract!Next
  <1>1. TypeOK /\ TypeOK' /\ Control
    BY DEF MapStep, MapInv
  <1>2. /\ pc[p] = "idle" /\ conn' = conn /\ next' = next /\ snap.byKey[k] # NoConn
        /\ snap'.byKey = [snap.byKey EXCEPT ![k] = NoConn]
        /\ snap'.defaultKey = DefaultWithout(k)
    BY Zenon DEF UnregisterPublish
  <1>3. op[p] = NoOp /\ op[p].new = EmptyMap
    <2>1. op[p] = NoOp
      BY <1>1, <1>2, SMTT(30) DEF Control, Controlled
    <2> QED
      BY <2>1 DEF NoOp
  <1>4. op'[p].new = EmptyMap /\ \A q \in Procs \ {p} : op'[q] = op[q]
    BY <1>1, <1>3 DEF UnregisterPublish, TypeOK
  <1>5. Built(p) = {} /\ Built(p)' = {} /\ \A q \in Procs \ {p} : Built(q)' = Built(q)
    BY <1>1, <1>3, <1>4, BuiltFrame DEF Built, EmptyMap
  <1>6. snap'.byKey[k] = NoConn /\ \A j \in Keys : j # k => snap'.byKey[j] = snap.byKey[j]
    BY <1>1, <1>2, SnapFacts, MapUpdate
  <1>7. Published' \subseteq Published
    BY <1>6 DEF Published
  <1>8. Abstract!Become(AbsTargets', snap'.defaultKey)
    BY <1>2, <1>5, <1>7, PublishBecomes
  <1>9. AbsTargets' = [AbsTargets EXCEPT ![k] = Abstract!Absent]
    BY <1>2, <1>6, ZenonT(30) DEF AbsTargets, Abstract!Absent
  <1>10. AbsTargets[k] # Abstract!Absent
    BY <1>1, <1>2, EntryFacts, Zenon
  <1>11. Abstract!Unregister(k)
    BY <1>2, <1>8, <1>9, <1>10 DEF Abstract!Unregister, DefaultWithout
  <1> QED
    BY <1>11 DEF Abstract!Next

\* SetDefault changes the default of the map and nothing else.
LEMMA SetDefaultSets ==
  ASSUME MapStep, NEW p \in Procs, NEW k \in Keys \cup {NoKey}, SetDefault(p, k)
  PROVE  Abstract!Next
  <1>1. TypeOK /\ Control
    BY DEF MapStep, MapInv
  <1>2. /\ pc[p] = "idle" /\ conn' = conn /\ next' = next /\ op' = op
        /\ snap'.byKey = snap.byKey /\ snap'.defaultKey = k
        /\ k # NoKey => snap.byKey[k] # NoConn
    BY <1>1 DEF SetDefault, TypeOK
  <1>3. Built(p) = {} /\ Built(p)' = {} /\ \A q \in Procs \ {p} : Built(q)' = Built(q)
    <2>1. op[p] = NoOp
      BY <1>1, <1>2 DEF Control, Controlled
    <2>2. op[p].new = EmptyMap
      BY <2>1 DEF NoOp
    <2> QED
      BY <1>2, <2>2 DEF Built, EmptyMap
  <1>4. Published' = Published /\ AbsTargets' = AbsTargets
    BY <1>2 DEF Published, AbsTargets
  <1>5. Abstract!Become(AbsTargets, k)
    <2>1. Abstract!Become(AbsTargets', snap'.defaultKey)
      BY <1>2, <1>3, <1>4, PublishBecomes
    <2> QED
      BY <1>2, <1>4, <2>1
  <1>6. k \in Abstract!Present(AbsTargets) \cup {NoKey}
    BY <1>1, <1>2, EntryFacts, Zenon DEF Abstract!Present
  <1>7. Abstract!SetDefault(k)
    BY <1>5, <1>6 DEF Abstract!SetDefault
  <1> QED
    BY <1>7 DEF Abstract!Next

\* Closing a superseded connection closes it in the map, or is the no-op
\* closer of a caller's connection.
LEMMA CloseOldCloses ==
  ASSUME MapStep, NEW p \in Procs, NEW c \in ConnIds, CloseOld(p, c)
  PROVE  Abstract!Next \/ UNCHANGED Abstract!vars
  <1>1. TypeOK /\ Control /\ Ownership
    BY DEF MapStep, MapInv
  <1>2. pc[p] = "close" /\ c \in op[p].rest /\ snap' = snap /\ next' = next /\ CloseAll({c})
    BY DEF CloseOld
  <1>3. op[p].new = EmptyMap
    BY <1>1, <1>2 DEF Control, Controlled
  <1>4. op'[p].new = EmptyMap /\ \A q \in Procs \ {p} : op'[q] = op[q]
    <2>1. CASE Return(p)
      BY <1>1, <2>1, ReturnHeld
    <2>2. CASE op' = [op EXCEPT ![p].rest = op[p].rest \ {c}]
      BY <1>1, <1>3, <2>2, SMTT(30) DEF TypeOK
    <2> QED
      BY <2>1, <2>2 DEF CloseOld
  <1>5. Built(p) = {} /\ Built(p)' = {} /\ \A q \in Procs \ {p} : Built(q)' = Built(q)
    BY <1>1, <1>3, <1>4, BuiltFrame DEF Built, EmptyMap
  <1>6. AbsUsed' = AbsUsed
    BY <1>2, <1>5 DEF AbsUsed
  <1>7. AbsTargets' = AbsTargets
    <2>1. \A d \in ConnIds : conn'[d].labels = conn[d].labels
      BY <1>1, <1>2, CloseAllEffect
    <2>2. \A k \in Keys : snap.byKey[k] \in ConnIds \cup {NoConn}
      BY <1>1, SnapFacts
    <2> QED
      BY <1>2, <2>1, <2>2, Zenon DEF AbsTargets
  <1>8. CASE conn[c].owned
    <2>1. AbsClosed' = AbsClosed \cup {c}
      <3>1. \A d \in ConnIds : conn'[d].closes > 0 <=> conn[d].closes > 0 \/ d = c
        BY <1>1, <1>2, <1>8 DEF CloseAll, TypeOK
      <3> QED
        BY <1>1, <1>2, <3>1 DEF AbsClosed, Ownership, Held, InUse
    <2>2. c < next /\ c \notin Published /\ c \notin AbsClosed /\ \A q \in Procs : c \notin Built(q)
      <3>1. InUse(c) /\ c \notin Published /\ \A q \in Procs \ {p} : c \notin Held(q)
        BY <1>1, <1>2 DEF Ownership, Held
      <3> QED
        BY <1>5, <3>1, SMTT(30) DEF InUse, Held, AbsClosed
    <2>3. c \in AbsUsed \ (Abstract!ConnsOf(AbsTargets) \cup AbsClosed)
      BY <1>1, <2>2, MapConns DEF AbsUsed
    <2>4. Abstract!Close(c)
      BY <1>2, <1>6, <1>7, <2>1, <2>3 DEF Abstract!Close
    <2> QED
      BY <2>4 DEF Abstract!Next
  <1>9. CASE ~conn[c].owned
    <2>1. conn' = conn
      BY <1>1, <1>2, <1>9 DEF CloseAll, TypeOK
    <2> QED
      BY <1>2, <1>6, <1>7, <2>1 DEF Abstract!vars, AbsClosed
  <1> QED
    BY <1>8, <1>9

\* Building a connection changes nothing a reader of the map can see.
LEMMA BuildHidden ==
  ASSUME MapStep, NEW p \in Procs, NEW kind, NEW k \in Keys, NEW owned \in BOOLEAN,
         NEW labels \in SUBSET Labels, buildConn(p, kind, k, owned, labels),
         op[p].new[k] = NoConn
  PROVE  UNCHANGED Abstract!vars
  <1>1. TypeOK /\ Ownership
    BY SMTT(30) DEF MapStep, MapInv
  <1>2. /\ next \in ConnIds /\ next' = next + 1 /\ snap' = snap
        /\ \A c \in ConnIds : c # next => conn'[c] = conn[c]
        /\ conn'[next].closes = 0
    BY <1>1, SMTT(30) DEF buildConn, TypeOK
  <1>3. op'[p].new = [op[p].new EXCEPT ![k] = next] /\ \A q \in Procs \ {p} : op'[q] = op[q]
    BY <1>1, Zenon DEF buildConn, TypeOK
  <1>4. Built(p)' = Built(p) \cup {next} /\ \A q \in Procs \ {p} : Built(q)' = Built(q)
    <2>1. op[p].new \in [Keys -> ConnIds \cup {NoConn}]
      BY <1>1 DEF TypeOK, ConnMap
    <2>2. op'[p].new[k] = next /\ \A j \in Keys : j # k => op'[p].new[j] = op[p].new[j]
      BY <1>3, <2>1, MapUpdate
    <2>3. next # NoConn
      BY <1>2 DEF ConnIds, NoConn
    <2> QED
      BY <1>3, <2>2, <2>3 DEF Built
  <1>5. AbsUsed' = AbsUsed
    <2>1. \A c \in ConnIds : c < next' <=> c < next \/ c = next
      BY <1>1, <1>2 DEF ConnIds, TypeOK
    <2>2. ~(next < next)
      BY <1>2, SMTT(30) DEF ConnIds
    <2> QED
      BY <1>4, <2>1, <2>2 DEF AbsUsed
  <1>6. AbsTargets' = AbsTargets
    <2>1. \A j \in Keys : snap.byKey[j] # NoConn => snap.byKey[j] \in ConnIds /\ snap.byKey[j] # next
      BY <1>1, <1>2, SnapFacts DEF Ownership, Published, InUse, ConnIds
    <2> QED
      BY <1>2, <2>1, SMTT(30) DEF AbsTargets
  <1>7. AbsClosed' = AbsClosed
    <2>1. \A c \in ConnIds : c < next' <=> c < next \/ c = next
      BY <1>1, <1>2 DEF ConnIds, TypeOK
    <2>2. ~(next < next)
      BY <1>2 DEF ConnIds
    <2> QED
      BY <1>2, <2>1, <2>2 DEF AbsClosed
  <1> QED
    BY <1>2, <1>5, <1>6, <1>7 DEF Abstract!vars

\* Every step of the registry is a step of the map or changes nothing it shows.
LEMMA NextMap == MapInv /\ MapInv' /\ [Next]_vars => [Abstract!Next]_(Abstract!vars)
  <1> SUFFICES ASSUME MapStep, [Next]_vars PROVE Abstract!Next \/ UNCHANGED Abstract!vars
    BY DEF MapStep
  <1>0. TypeOK /\ Control
    BY DEF MapStep, MapInv
  <1>1. ASSUME NEW p \in Procs, NEW k \in Keys, NEW owned \in BOOLEAN, NEW labels \in SUBSET Labels,
               BuildNext(p, k, owned, labels)
        PROVE  UNCHANGED Abstract!vars
    BY <1>1, BuildHidden DEF BuildNext
  <1>2. ASSUME NEW p \in Procs, NEW k \in Keys, NEW owned \in BOOLEAN, NEW labels \in SUBSET Labels,
               NEW kind \in {"register", "update"}, BuildOne(p, kind, k, owned, labels)
        PROVE  UNCHANGED Abstract!vars
    <2>1. op[p] = NoOp
      BY <1>0, <1>2 DEF BuildOne, Control, Controlled
    <2>2. op[p].new[k] = NoConn
      BY <2>1 DEF NoOp, EmptyMap
    <2> QED
      BY <1>2, <2>2, BuildHidden DEF BuildOne
  <1>3. ASSUME NEW p \in Procs, BuildDone(p)
        PROVE  UNCHANGED Abstract!vars
    <2>1. snap' = snap /\ conn' = conn /\ next' = next
      BY <1>3 DEF BuildDone
    <2>2. \A q \in Procs : op'[q].new = op[q].new
      BY <1>0, <1>3 DEF BuildDone, TypeOK
    <2>3. \A q \in Procs : Built(q)' = Built(q)
      BY <2>2, SMTT(30) DEF Built
    <2> QED
      BY <2>1, <2>3 DEF Abstract!vars, AbsTargets, AbsUsed, AbsClosed
  <1>4. ASSUME NEW p \in Procs, BuildFail(p) \/ PingFail(p) \/ Reject(p)
        PROVE  Abstract!Next
    BY <1>4, FailDiscards, Zenon DEF BuildFail, PingFail, Reject, Abstract!Next
  <1>5. ASSUME NEW p \in Procs, RegisterPublish(p) \/ UpdatePublish(p) PROVE Abstract!Next
    BY <1>5, PublishOne
  <1>6. ASSUME NEW p \in Procs, NEW d \in Keys \cup {NoKey}, ReplacePublish(p, d)
        PROVE  Abstract!Next
    BY <1>6, ReplaceSwaps
  <1>7. ASSUME NEW p \in Procs, NEW k \in Keys, UnregisterPublish(p, k) PROVE Abstract!Next
    BY <1>7, UnregisterRemoves
  <1>8. ASSUME NEW p \in Procs, NEW k \in Keys \cup {NoKey}, SetDefault(p, k) PROVE Abstract!Next
    BY <1>8, SetDefaultSets
  <1>9. ASSUME NEW p \in Procs, NEW c \in ConnIds, CloseOld(p, c)
        PROVE  Abstract!Next \/ UNCHANGED Abstract!vars
    BY <1>9, CloseOldCloses, SMTT(30)
  <1>10. ASSUME UNCHANGED vars PROVE UNCHANGED Abstract!vars
    BY <1>10 DEF vars, Abstract!vars, AbsTargets, AbsUsed, AbsClosed, Built
  <1> QED
    BY <1>1, <1>2, <1>3, <1>4, <1>5, <1>6, <1>7, <1>8, <1>9, <1>10 DEF Next, Finish

\* The registry implements the atomic map of TargetMap for every set of keys,
\* labels and goroutines: what a lock-free reader sees changes only by whole
\* operations of the map (targets.go: the stores of the snapshot pointer), and
\* no connection is published again once it was dropped or closed.
THEOREM RegistryIsAtomicMap == Spec => AtomicMap
  <1>1. Spec => []MapInv
    <2>1. Spec => [](TypeOK /\ Control)
      BY TypeCorrect
    <2>2. Spec => []ConnectionDiscipline
      BY ConnectionSafety
    <2>3. Spec => []SnapshotConsistent
      BY IndexCorrect
    <2> QED
      BY <2>1, <2>2, <2>3, PTL DEF MapInv, ConnectionDiscipline
  <1> QED
    BY <1>1, InitMap, NextMap, PTL DEF Spec, AtomicMap, Abstract!Spec

-----------------------------------------------------------------------------
(***************************************************************************)
(* The label lookups.                                                      *)
(***************************************************************************)
\* The index entry of a label, in terms of the targets.
LEMMA IndexEntry ==
  ASSUME SnapshotConsistent, NEW l \in Labels
  PROVE  snap.labelIndex[l] = {k \in Targets : l \in LabelsOf(k)}
  BY DEF SnapshotConsistent, Targets, LabelsOf

\* What the index holds for an expression is what the expression, its negation
\* apart, says of each target.
LEMMA LookupCorrect ==
  ASSUME SnapshotConsistent, NEW e, e.of \subseteq Labels
  PROVE  lookup(snap.labelIndex, e) = {k \in Targets : e.of \cap LabelsOf(k) # {}}
  <1>1. \A l \in e.of : snap.labelIndex[l] = {k \in Targets : l \in LabelsOf(k)}
    BY IndexEntry
  <1>2. ASSUME NEW k PROVE k \in lookup(snap.labelIndex, e)
                           <=> \E l \in e.of : k \in Targets /\ l \in LabelsOf(k)
    BY <1>1 DEF lookup, unionMany
  <1> QED
    BY <1>2

\* One conjunction finds the targets for which each of its expressions holds.
LEMMA AndCorrect ==
  ASSUME SnapshotConsistent, NEW exprs, \A e \in exprs : e.of \subseteq Labels
  PROVE  evalAnd(snap.labelIndex, snap.keys, exprs)
           = {k \in Targets : \A e \in exprs : Eval(e, LabelsOf(k))}
  <1> DEFINE idx == snap.labelIndex
             positives == {e \in exprs : e.kind # "not"}
             negatives == exprs \ positives
             found == intersectMany({lookup(idx, e) : e \in positives})
             res == IF positives = {} THEN snap.keys ELSE found
             excluded == unionMany({lookup(idx, e) : e \in negatives})
  <1> HIDE DEF idx
  <1>1. \A e \in exprs : lookup(idx, e) = {k \in Targets : e.of \cap LabelsOf(k) # {}}
    BY LookupCorrect DEF idx
  <1>2. snap.keys = Targets
    BY DEF SnapshotConsistent, Targets
  <1>3. ASSUME NEW k PROVE k \in excluded <=> \E e \in negatives : k \in lookup(idx, e)
    BY DEF unionMany
  <1>4. ASSUME NEW k PROVE k \in found <=> /\ positives # {}
                                           /\ \A e \in positives : k \in lookup(idx, e)
    BY DEF intersectMany
  <1>5. ASSUME NEW k PROVE k \in res <=> k \in Targets /\ \A e \in positives : k \in lookup(idx, e)
    <2>1. CASE positives = {}
      BY <2>1, <1>2
    <2>2. CASE positives # {}
      BY <2>2, <1>4, <1>1
    <2> QED
      BY <2>1, <2>2
  <1>6. evalAnd(idx, snap.keys, exprs) = res \ excluded
    BY DEF evalAnd, diffSet
  <1>7. ASSUME NEW k
        PROVE  k \in res \ excluded <=> k \in Targets /\ \A e \in exprs : Eval(e, LabelsOf(k))
    <2>1. \A e \in positives : Eval(e, LabelsOf(k)) <=> e.of \cap LabelsOf(k) # {}
      BY DEF Eval
    <2>2. \A e \in negatives : Eval(e, LabelsOf(k)) <=> e.of \cap LabelsOf(k) = {}
      BY DEF Eval
    <2>3. k \in Targets => \A e \in exprs : k \in lookup(idx, e) <=> e.of \cap LabelsOf(k) # {}
      BY <1>1
    <2> HIDE DEF res, excluded
    <2>4. k \in res \ excluded <=> /\ k \in Targets
                                   /\ \A e \in positives : k \in lookup(idx, e)
                                   /\ \A e \in negatives : k \notin lookup(idx, e)
      BY <1>3, <1>5
    <2> QED
      BY <2>1, <2>2, <2>3, <2>4
  <1> QED
    BY <1>6, <1>7 DEF idx

\* A part of a query string means what the conjunction parsed from it says.
LEMMA PartCorrect ==
  ASSUME SnapshotConsistent, NEW part \in SUBSET Tokens(Labels)
  PROVE  evalAnd(snap.labelIndex, snap.keys, parseAND(part))
           = {k \in Targets :
                \A t \in part : t.form # "blank" => Eval(parseExpr(t), LabelsOf(k))}
  <1>1. \A e \in parseAND(part) : e.of \subseteq Labels
    BY DEF parseAND, parseExpr, Tokens
  <1>2. \A k : (\A e \in parseAND(part) : Eval(e, LabelsOf(k)))
               <=> \A t \in part : t.form # "blank" => Eval(parseExpr(t), LabelsOf(k))
    BY DEF parseAND
  <1> QED
    BY <1>1, <1>2, AndCorrect

\* A query string finds the targets it is meant to find.
LEMMA TextCorrect ==
  ASSUME SnapshotConsistent, NEW text \in Texts
  PROVE  FindByQuery(ParseQuery(text)) = {k \in Targets : Meant(text, k)}
  <1> DEFINE evaluated(i) == evalAnd(snap.labelIndex, snap.keys, parseAND(text[i]))
             holds(i, k) == \A t \in text[i] : t.form # "blank" => Eval(parseExpr(t), LabelsOf(k))
  <1>1. /\ text \in Seq(SUBSET Tokens(Labels))
        /\ text # <<>>
    BY QueryAssumption
  <1>2. Len(text) \in Nat \ {0} /\ DOMAIN text = 1..Len(text)
    BY <1>1
  <1>3. \A i \in DOMAIN text : text[i] \in SUBSET Tokens(Labels)
    BY <1>1
  <1>4. \A i \in DOMAIN text : evaluated(i) = {k \in Targets : holds(i, k)}
    BY <1>3, PartCorrect
  <1>5. FindByQuery(ParseQuery(text)) = UNION {evaluated(i) : i \in DOMAIN text}
    <2>1. CASE Len(text) > 1
      <3> DEFINE q == ParseQuery(text)
      <3>1. q.OR = [i \in DOMAIN text |-> parseAND(text[i])]
        BY <2>1 DEF ParseQuery
      <3>2. DOMAIN q.OR = DOMAIN text /\ Len(q.OR) = Len(text)
        BY <3>1, <1>2
      <3>3. \A i \in DOMAIN text : q.OR[i] = parseAND(text[i])
        BY <3>1
      <3>4. filter(snap.labelIndex, snap.keys, q)
              = UNION {evalAnd(snap.labelIndex, snap.keys, q.OR[i]) : i \in DOMAIN q.OR}
        BY <3>2, <2>1 DEF filter, unionMany
      <3> QED
        BY <3>2, <3>3, <3>4 DEF FindByQuery
    <2>2. CASE ~(Len(text) > 1)
      <3>1. DOMAIN text = {1}
        BY <2>2, <1>2
      <3>2. FindByQuery(ParseQuery(text)) = evaluated(1)
        BY <2>2 DEF FindByQuery, ParseQuery, filter
      <3> QED
        BY <3>1, <3>2
    <2> QED
      BY <2>1, <2>2
  <1>6. ASSUME NEW k PROVE k \in UNION {evaluated(i) : i \in DOMAIN text}
                           <=> k \in Targets /\ \E i \in DOMAIN text : holds(i, k)
    BY <1>4
  <1> QED
    BY <1>5, <1>6 DEF Meant

\* Lookups by labels agree with each other and with the targets' labels.
LEMMA LabelsCorrect ==
  ASSUME SnapshotConsistent, NEW labels \in SUBSET Labels
  PROVE  /\ labels # {} =>
              /\ FindAllByLabels(snap.labelIndex, labels)
                   = {k \in Targets : labels \subseteq LabelsOf(k)}
              /\ FindAllByLabels(snap.labelIndex, labels)
                   = FindByQuery(QueryFromLabels(labels))
         /\ FindAnyByLabels(snap.labelIndex, labels)
              = {k \in Targets : labels \cap LabelsOf(k) # {}}
  <1> DEFINE exprs == {[kind |-> "has", of |-> {l}] : l \in labels}
  <1>1. \A l \in labels : snap.labelIndex[l] = {k \in Targets : l \in LabelsOf(k)}
    BY IndexEntry
  <1>2. FindAnyByLabels(snap.labelIndex, labels)
          = {k \in Targets : labels \cap LabelsOf(k) # {}}
    BY <1>1 DEF FindAnyByLabels, unionMany
  <1>3. labels # {} => FindAllByLabels(snap.labelIndex, labels)
                         = {k \in Targets : labels \subseteq LabelsOf(k)}
    BY <1>1 DEF FindAllByLabels, intersectMany
  <1>4. FindByQuery(QueryFromLabels(labels)) = evalAnd(snap.labelIndex, snap.keys, exprs)
    BY DEF FindByQuery, QueryFromLabels, filter
  <1>5. \A e \in exprs : e.of \subseteq Labels
    OBVIOUS
  <1>6. \A k : (\A e \in exprs : Eval(e, LabelsOf(k))) <=> labels \subseteq LabelsOf(k)
    <2>1. \A l, S : Eval([kind |-> "has", of |-> {l}], S) <=> l \in S
      BY DEF Eval
    <2>2. \A S : (\A e \in exprs : Eval(e, S))
                <=> \A l \in labels : Eval([kind |-> "has", of |-> {l}], S)
      OBVIOUS
    <2> QED
      BY <2>1, <2>2, Zenon
  <1>7. FindByQuery(QueryFromLabels(labels)) = {k \in Targets : labels \subseteq LabelsOf(k)}
    BY <1>4, <1>5, <1>6, AndCorrect, Zenon
  <1> QED
    BY <1>2, <1>3, <1>7

\* At every moment, and for every query string, the registry finds exactly the
\* targets whose own labels satisfy it, although Register, Update, Unregister and
\* ReplaceAll maintain the index it looks them up in label by label.
THEOREM QueryCorrect == Spec => []QueryMatchesEval
  <1>1. SnapshotConsistent => QueryMatchesEval
    BY TextCorrect, LabelsCorrect DEF QueryMatchesEval
  <1> QED
    BY <1>1, IndexCorrect, PTL

=============================================================================
