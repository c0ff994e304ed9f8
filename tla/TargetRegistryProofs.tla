------------------------ MODULE TargetRegistryProofs ------------------------
(***************************************************************************)
(* Type and control correctness of the target registry, for every set of   *)
(* keys, labels and goroutines and any number of connections; and what its *)
(* steps that build, publish or refuse do to the owners of connections.    *)
(***************************************************************************)
EXTENDS TargetRegistry, TLAPS

-----------------------------------------------------------------------------
(***************************************************************************)
(* Type correctness.                                                       *)
(***************************************************************************)
OpType == [kind : {"none", "register", "update", "replace", "unregister"},
           key : Keys \cup {NoKey}, new : ConnMap, rest : SUBSET ConnIds]

SnapType == [byKey : ConnMap, defaultKey : Keys \cup {NoKey},
             keys : SUBSET Keys, labelIndex : [Labels -> SUBSET Keys]]

\* The value of op between calls has the type of op.
LEMMA NoOpType == NoOp \in OpType /\ EmptyMap \in ConnMap
  BY Zenon DEF NoOp, OpType, EmptyMap, ConnMap

\* What the type invariant says of the snapshot, component by component.
LEMMA SnapFacts ==
  ASSUME TypeOK
  PROVE  /\ snap.byKey \in [Keys -> ConnIds \cup {NoConn}]
         /\ snap.labelIndex \in [Labels -> SUBSET Keys]
  BY Zenon DEF TypeOK, ConnMap

\* Changing one entry of a map of targets changes that entry only.
LEMMA MapUpdate ==
  ASSUME NEW m \in [Keys -> ConnIds \cup {NoConn}], NEW k \in Keys, NEW c
  PROVE  /\ [m EXCEPT ![k] = c][k] = c
         /\ \A j \in Keys : j # k => [m EXCEPT ![k] = c][j] = m[j]
  OBVIOUS

\* The connections a goroutine built are connections.
LEMMA BuiltType == ASSUME TypeOK, NEW p \in Procs PROVE Built(p) \subseteq ConnIds
  BY DEF TypeOK, Built, ConnMap

\* Return keeps the types of pc and op.
LEMMA ReturnType ==
  ASSUME TypeOK, NEW p \in Procs, Return(p)
  PROVE  /\ pc' \in [Procs -> {"idle", "build", "ping", "close"}]
         /\ op' \in [Procs -> OpType]
  BY NoOpType, Zenon DEF TypeOK, Return, OpType

\* Closing keeps the type of conn.
LEMMA CloseAllType ==
  ASSUME TypeOK, NEW S, CloseAll(S)
  PROVE  conn' \in [ConnIds -> [owned : BOOLEAN, labels : SUBSET Labels, closes : Nat]]
  BY SMTT(30) DEF TypeOK, CloseAll

\* NewHotReloadRegistry starts well typed.
LEMMA InitType == Init => TypeOK
  BY RegistryAssumption DEF Init, TypeOK, ConnMap, ConnIds, EmptyMap, NoConn, NoOp

\* Building a connection keeps the types.
LEMMA BuildType ==
  ASSUME TypeOK, NEW p \in Procs, NEW kind \in {"register", "update", "replace"},
         NEW k \in Keys, NEW owned \in BOOLEAN, NEW labels \in SUBSET Labels,
         buildConn(p, kind, k, owned, labels),
         pc' \in [Procs -> {"idle", "build", "ping", "close"}]
  PROVE  TypeOK'
  <1>1. conn' \in [ConnIds -> [owned : BOOLEAN, labels : SUBSET Labels, closes : Nat]]
    BY Zenon DEF TypeOK, buildConn
  <1>2. next' \in 1..(MaxConns + 1)
    BY RegistryAssumption DEF buildConn, ConnIds
  <1>3. op' \in [Procs -> OpType]
    BY Zenon DEF TypeOK, buildConn, OpType, ConnMap
  <1> QED
    BY <1>1, <1>2, <1>3, Zenon DEF TypeOK, buildConn, OpType

\* Entering the closing part of a call keeps the types of pc, op and lock.
LEMMA CloseOrReturnType ==
  ASSUME TypeOK, NEW p \in Procs, NEW S \in SUBSET ConnIds, NEW held \in BOOLEAN,
         CloseOrReturn(p, S, held)
  PROVE  /\ pc' \in [Procs -> {"idle", "build", "ping", "close"}]
         /\ op' \in [Procs -> OpType]
         /\ lock' \in Procs \cup {NoProc}
  BY ReturnType, NoOpType, SMTT(30) DEF TypeOK, CloseOrReturn, OpType

\* Every step of the registry keeps the types, given that goroutines hold what
\* their place in the code says.
LEMMA NextType == TypeOK /\ Control /\ [Next]_vars => TypeOK'
  <1> SUFFICES ASSUME TypeOK, Control, [Next]_vars PROVE TypeOK'
    OBVIOUS
  <1>1. CASE UNCHANGED vars
    BY <1>1, Zenon DEF vars, TypeOK, ConnMap
  <1>2. ASSUME NEW p \in Procs, NEW kind \in {"register", "update"}, NEW k \in Keys,
               NEW owned \in BOOLEAN, NEW labels \in SUBSET Labels,
               BuildOne(p, kind, k, owned, labels)
        PROVE  TypeOK'
    <2>1. pc' \in [Procs -> {"idle", "build", "ping", "close"}]
      BY <1>2, Zenon DEF BuildOne, TypeOK
    <2> QED
      BY <1>2, <2>1, BuildType DEF BuildOne
  <1>3. ASSUME NEW p \in Procs, NEW k \in Keys, NEW owned \in BOOLEAN,
               NEW labels \in SUBSET Labels, BuildNext(p, k, owned, labels)
        PROVE  TypeOK'
    <2>1. pc' \in [Procs -> {"idle", "build", "ping", "close"}]
      BY <1>3, Zenon DEF BuildNext, TypeOK
    <2> QED
      BY <1>3, <2>1, BuildType DEF BuildNext
  <1>4. ASSUME NEW p \in Procs, BuildDone(p) PROVE TypeOK'
    BY <1>4, SMTT(30) DEF BuildDone, TypeOK
  <1>5. ASSUME NEW p \in Procs, BuildFail(p) PROVE TypeOK'
    BY <1>5, ReturnType, CloseAllType, Zenon DEF BuildFail, TypeOK, OpType
  <1>6. ASSUME NEW p \in Procs, PingFail(p) PROVE TypeOK'
    BY <1>6, ReturnType, CloseAllType, Zenon DEF PingFail, TypeOK, OpType
  <1>7. ASSUME NEW p \in Procs, RegisterPublish(p) PROVE TypeOK'
    <2> DEFINE k == op[p].key
               c == op[p].new[k]
    <2>1. k \in Keys /\ c \in ConnIds
      BY <1>7, SMTT(30) DEF RegisterPublish, Control, Controlled, TypeOK, ConnMap
    <2>2. snap' \in SnapType
      BY <1>7, <2>1, ZenonT(30) DEF RegisterPublish, addToIndex, TypeOK, SnapType, ConnMap
    <2>3. closer' \in ConnMap
      BY <1>7, <2>1, Zenon DEF RegisterPublish, TypeOK, ConnMap
    <2> QED
      BY <1>7, <2>2, <2>3, ReturnType, Zenon DEF RegisterPublish, TypeOK, SnapType, OpType
  <1>8. ASSUME NEW p \in Procs, Reject(p) PROVE TypeOK'
    BY <1>8, ReturnType, BuiltType, Zenon DEF Reject, TypeOK, OpType
  <1>9. ASSUME NEW p \in Procs, UpdatePublish(p) PROVE TypeOK'
    <2> DEFINE k == op[p].key
               c == op[p].new[k]
    <2>0. pc[p] = "ping" /\ op[p].kind = "update" /\ Controlled(p)
      BY <1>9, Zenon DEF UpdatePublish, Control
    <2>1. k \in Keys /\ c \in ConnIds
      BY <2>0, SMTT(30) DEF Controlled, TypeOK, ConnMap
    <2>2. snap' \in SnapType
      BY <1>9, <2>1, ZenonT(30) DEF UpdatePublish, updateIndex, TypeOK, SnapType, ConnMap
    <2>3. closer' \in ConnMap /\ {closer[k]} \ {NoConn} \in SUBSET ConnIds
      BY <1>9, <2>1, Zenon DEF UpdatePublish, TypeOK, ConnMap
    <2>4. CloseOrReturn(p, {closer[k]} \ {NoConn}, TRUE)
      BY <1>9, Zenon DEF UpdatePublish
    <2> QED
      BY <1>9, <2>2, <2>3, CloseOrReturnType, ZenonT(30) DEF UpdatePublish, TypeOK, SnapType, OpType
  <1>10. ASSUME NEW p \in Procs, NEW d \in Keys \cup {NoKey}, ReplacePublish(p, d)
         PROVE  TypeOK'
    <2> DEFINE old == {closer[k] : k \in Keys} \ {NoConn}
    <2>1. snap' \in SnapType /\ closer' \in ConnMap
      BY <1>10, Zenon DEF ReplacePublish, keysOf, TypeOK, SnapType
    <2>2. old \in SUBSET ConnIds
      BY DEF TypeOK, ConnMap
    <2>3. CloseOrReturn(p, old, FALSE)
      BY <1>10, Zenon DEF ReplacePublish
    <2> QED
      BY <1>10, <2>1, <2>2, CloseOrReturnType, Zenon DEF ReplacePublish, TypeOK, SnapType, OpType
  <1>11. ASSUME NEW p \in Procs, NEW k \in Keys, UnregisterPublish(p, k) PROVE TypeOK'
    <2>1. snap' \in SnapType
      BY <1>11, Zenon DEF UnregisterPublish, DefaultWithout, removeFromIndex, TypeOK, SnapType,
                   ConnMap, NoConn
    <2>2. lock' \in Procs \cup {NoProc} /\ pc' \in [Procs -> {"idle", "build", "ping", "close"}]
      BY <1>11, Zenon DEF UnregisterPublish, TypeOK
    <2>3. op' \in [Procs -> OpType]
      <3>1. CASE closer[k] = NoConn
        BY <1>11, <3>1, Zenon DEF UnregisterPublish, TypeOK, OpType
      <3>2. CASE closer[k] # NoConn
        <4>1. [kind |-> "unregister", key |-> k, new |-> EmptyMap, rest |-> {closer[k]}] \in OpType
          BY <3>2, NoOpType DEF TypeOK, OpType, ConnMap
        <4> QED
          BY <1>11, <3>2, <4>1, Zenon DEF UnregisterPublish, TypeOK, OpType
      <3> QED
        BY <3>1, <3>2
    <2> QED
      BY <1>11, <2>1, <2>2, <2>3, Zenon DEF UnregisterPublish, TypeOK, SnapType, OpType
  <1>12. ASSUME NEW p \in Procs, NEW c \in ConnIds, CloseOld(p, c) PROVE TypeOK'
    <2>1. closer' \in ConnMap
      BY <1>12, Zenon DEF CloseOld, ClosersAfter, TypeOK, ConnMap
    <2>2. op' \in [Procs -> OpType] /\ lock' \in Procs \cup {NoProc}
          /\ pc' \in [Procs -> {"idle", "build", "ping", "close"}]
      BY <1>12, ReturnType, SMTT(30) DEF CloseOld, Unlocked, TypeOK, OpType
    <2>3. conn' \in [ConnIds -> [owned : BOOLEAN, labels : SUBSET Labels, closes : Nat]]
      BY <1>12, CloseAllType, Zenon DEF CloseOld
    <2> QED
      BY <1>12, <2>1, <2>2, <2>3, Zenon DEF CloseOld, TypeOK, OpType
  <1>13. ASSUME NEW p \in Procs, NEW k \in Keys \cup {NoKey}, SetDefault(p, k)
         PROVE  TypeOK'
    BY <1>13, Zenon DEF SetDefault, TypeOK
  <1> QED
    BY <1>1, <1>2, <1>3, <1>4, <1>5, <1>6, <1>7, <1>8, <1>9, <1>10, <1>11, <1>12, <1>13
       DEF Next, Finish

-----------------------------------------------------------------------------
(***************************************************************************)
(* Goroutines hold what their place in the code says.                      *)
(***************************************************************************)
\* Nobody is inside a call at the start.
LEMMA InitControl == Init => Control
  BY RegistryAssumption DEF Init, Control, Controlled, NoOp

\* A goroutine that returns, and so holds nothing, is in order; the others do
\* not notice.
LEMMA ReturnControl ==
  ASSUME TypeOK, Control, NEW p \in Procs, Return(p), UNCHANGED lock, lock # p
  PROVE  Control'
  BY DEF TypeOK, Control, Controlled, Return, NoOp

\* A goroutine that enters its closing part is in order.
LEMMA CloseOrReturnControl ==
  ASSUME TypeOK, Control, NEW p \in Procs, NEW S, NEW held \in BOOLEAN,
         CloseOrReturn(p, S, held), lock = NoProc, pc[p] = "ping",
         op[p].kind \in {"update", "replace"}, held <=> op[p].kind # "replace"
  PROVE  Control'
  <1>1. CASE S = {}
    BY <1>1, ReturnControl, RegistryAssumption DEF CloseOrReturn
  <1>2. CASE S # {}
    BY <1>2 DEF CloseOrReturn, TypeOK, Control, Controlled
  <1> QED
    BY <1>1, <1>2

\* Every step keeps this order.
LEMMA NextControl == TypeOK /\ Control /\ [Next]_vars => Control'
  <1> SUFFICES ASSUME TypeOK, Control, [Next]_vars PROVE Control'
    OBVIOUS
  <1>1. CASE UNCHANGED vars
    BY <1>1 DEF vars, Control, Controlled
  <1>2. ASSUME NEW p \in Procs, NEW kind \in {"register", "update"}, NEW k \in Keys,
               NEW owned \in BOOLEAN, NEW labels \in SUBSET Labels,
               BuildOne(p, kind, k, owned, labels)
        PROVE  Control'
    <2>1. /\ op' = [op EXCEPT ![p] = [kind |-> kind, key |-> k,
                                      new |-> [EmptyMap EXCEPT ![k] = next], rest |-> {}]]
          /\ pc' = [pc EXCEPT ![p] = "ping"] /\ lock' = lock /\ pc[p] = "idle"
      <3>1. op[p].new = EmptyMap
        BY <1>2 DEF BuildOne, Control, Controlled, NoOp
      <3>2. kind # "replace"
        OBVIOUS
      <3> QED
        BY <1>2, <3>1, <3>2, Zenon DEF BuildOne, buildConn
    <2>2. \A j \in Keys : [EmptyMap EXCEPT ![k] = next][j] # NoConn <=> j = k
      BY <1>2 DEF BuildOne, buildConn, EmptyMap, ConnIds, NoConn
    <2>3. Controlled(p)'
      BY <2>1, <2>2, Zenon DEF TypeOK, Control, Controlled
    <2>4. ASSUME NEW q \in Procs, q # p PROVE Controlled(q)'
      BY <2>1, <2>4 DEF Control, Controlled
    <2> QED
      BY <2>3, <2>4 DEF Control
  <1>3. ASSUME NEW p \in Procs, NEW k \in Keys, NEW owned \in BOOLEAN,
               NEW labels \in SUBSET Labels, BuildNext(p, k, owned, labels)
        PROVE  Control'
    BY <1>3 DEF BuildNext, buildConn, TypeOK, Control, Controlled
  <1>4. ASSUME NEW p \in Procs, BuildDone(p) PROVE Control'
    BY <1>4 DEF BuildDone, TypeOK, Control, Controlled
  <1>5. ASSUME NEW p \in Procs, BuildFail(p) PROVE Control'
    BY <1>5, ReturnControl, Zenon DEF BuildFail, Control, Controlled
  <1>6. ASSUME NEW p \in Procs, PingFail(p) PROVE Control'
    BY <1>6, ReturnControl, Zenon DEF PingFail, Control, Controlled
  <1>7. ASSUME NEW p \in Procs, RegisterPublish(p) PROVE Control'
    BY <1>7, ReturnControl, ZenonT(30) DEF RegisterPublish, Control, Controlled
  <1>8. ASSUME NEW p \in Procs, Reject(p) PROVE Control'
    BY <1>8, ReturnControl, Zenon DEF Reject, Control, Controlled
  <1>9. ASSUME NEW p \in Procs, UpdatePublish(p) PROVE Control'
    BY <1>9, CloseOrReturnControl, Zenon DEF UpdatePublish
  <1>10. ASSUME NEW p \in Procs, NEW d \in Keys \cup {NoKey}, ReplacePublish(p, d)
         PROVE  Control'
    BY <1>10, CloseOrReturnControl, Zenon DEF ReplacePublish
  <1>11. ASSUME NEW p \in Procs, NEW k \in Keys, UnregisterPublish(p, k) PROVE Control'
    <2>1. CASE closer[k] = NoConn
      BY <1>11, <2>1 DEF UnregisterPublish, Control, Controlled
    <2>2. CASE closer[k] # NoConn
      BY <1>11, RegistryAssumption DEF UnregisterPublish, TypeOK, Control, Controlled
    <2> QED
      BY <2>1, <2>2, SMTT(30)
  <1>12. ASSUME NEW p \in Procs, NEW c \in ConnIds, CloseOld(p, c) PROVE Control'
    <2>1. CASE op[p].rest \ {c} = {}
      BY <1>12, <2>1, RegistryAssumption
         DEF CloseOld, Unlocked, Return, NoOp, TypeOK, Control, Controlled
    <2>2. CASE op[p].rest \ {c} # {}
      BY <1>12, <2>2, SMTT(30) DEF CloseOld, TypeOK, Control, Controlled
    <2> QED
      BY <2>1, <2>2
  <1>13. ASSUME NEW p \in Procs, NEW k \in Keys \cup {NoKey}, SetDefault(p, k)
         PROVE  Control'
    BY <1>13 DEF SetDefault, Control, Controlled
  <1> QED
    BY <1>1, <1>2, <1>3, <1>4, <1>5, <1>6, <1>7, <1>8, <1>9, <1>10, <1>11, <1>12, <1>13
       DEF Next, Finish

\* Every reachable state of the registry is well typed, and every goroutine
\* holds exactly what its place in Register, Update, ReplaceAll or Unregister
\* says, the mutex included.
THEOREM TypeCorrect == Spec => [](TypeOK /\ Control)
  <1>1. Init => TypeOK /\ Control
    BY InitType, InitControl
  <1>2. TypeOK /\ Control /\ [Next]_vars => (TypeOK /\ Control)'
    BY NextType, NextControl
  <1> QED
    BY <1>1, <1>2, PTL DEF Spec

-----------------------------------------------------------------------------
(***************************************************************************)
(* Owners of connections: what building one and failing do to them.        *)
(***************************************************************************)
\* The only connection at the start is the caller's default.
LEMMA InitOwnership == Init => Ownership /\ ClosedOnce
  BY RegistryAssumption DEF Init, Ownership, ClosedOnce, Published, Held, Built, InUse,
     InjectiveMap, NoOp, EmptyMap, ConnIds

\* Where connections are: published and held ones have identifiers.
LEMMA HeldType == ASSUME TypeOK, NEW p \in Procs PROVE Held(p) \subseteq ConnIds
  BY DEF TypeOK, Held, Built, ConnMap

LEMMA PublishedType == ASSUME TypeOK PROVE Published \subseteq ConnIds
  BY DEF TypeOK, Published, ConnMap

\* A goroutine that returns holds nothing; the others hold what they held.
LEMMA ReturnHeld ==
  ASSUME TypeOK, NEW p \in Procs, Return(p)
  PROVE  /\ Held(p)' = {}
         /\ op'[p].new = EmptyMap
         /\ \A q \in Procs \ {p} : Held(q)' = Held(q) /\ op'[q] = op[q] /\ pc'[q] = pc[q]
  BY DEF TypeOK, Return, NoOp, EmptyMap, Held, Built

\* Closing touches only what is closed, and closes it once more at most.
LEMMA CloseAllEffect ==
  ASSUME TypeOK, NEW S \in SUBSET ConnIds, CloseAll(S)
  PROVE  /\ \A c \in ConnIds \ S : conn'[c] = conn[c]
         /\ \A c \in ConnIds : conn'[c].closes <= conn[c].closes + 1
         /\ \A c \in ConnIds : conn'[c].labels = conn[c].labels /\ conn'[c].owned = conn[c].owned
  BY DEF TypeOK, CloseAll

\* Nobody unregisters while the lock is free: every closer is the closer of
\* the target published under its key.
LEMMA ClosersWhenUnlocked ==
  ASSUME TypeOK, Control, Ownership, lock = NoProc
  PROVE  \A k \in Keys : closer[k] \in {NoConn, snap.byKey[k]}
  BY RegistryAssumption DEF Control, Controlled, Ownership, Unregistering

\* A connection just built belongs to the goroutine that built it.
LEMMA BuildOwnership ==
  ASSUME TypeOK, Control, Ownership, ClosedOnce, NEW p \in Procs, NEW kind, NEW k \in Keys,
         NEW owned \in BOOLEAN, NEW labels \in SUBSET Labels,
         buildConn(p, kind, k, owned, labels),
         pc[p] # "close", op[p].new[k] = NoConn, pc'[p] # "close",
         \A q \in Procs \ {p} : pc'[q] = pc[q]
  PROVE  Ownership' /\ ClosedOnce'
  <1> PICK n \in ConnIds : n = next
    BY Zenon DEF buildConn
  <1>1. /\ next' = n + 1
        /\ \A c \in ConnIds : c # n => conn'[c] = conn[c]
        /\ conn'[n].closes = 0
    BY Zenon DEF buildConn, TypeOK
  <1>2. Held(p)' \subseteq Held(p) \cup {n}
    BY DEF buildConn, Held, Built
  <1>3. \A q \in Procs \ {p} : Held(q)' = Held(q) /\ op'[q] = op[q]
    BY DEF buildConn, Held, Built
  <1>4. Published' = Published
    BY Zenon DEF buildConn, Published
  <1>5. \A c \in ConnIds : InUse(c) => InUse(c)' /\ c # n
    BY <1>1 DEF InUse, ConnIds
  <1>6. InUse(n)'
    BY <1>1 DEF InUse, ConnIds
  <1>7. n \notin Published /\ \A q \in Procs : n \notin Held(q)
    BY <1>5, <1>1, Zenon DEF Ownership
  <1>8. \A c \in Published' : InUse(c)'
    BY <1>4, <1>5, PublishedType, Zenon DEF Ownership
  <1>9. ASSUME NEW q \in Procs, NEW c \in Held(q)' PROVE InUse(c)' /\ c \notin Published'
    BY <1>2, <1>3, <1>4, <1>5, <1>6, HeldType, SMTT(30) DEF Ownership
  <1>10. ASSUME NEW q \in Procs, NEW r \in Procs, q # r PROVE Held(q)' \cap Held(r)' = {}
    BY <1>10, <1>2, <1>3, <1>7 DEF Ownership
  <1>11. InjectiveMap(snap.byKey)'
    BY Zenon DEF buildConn, Ownership, InjectiveMap
  <1>12. ASSUME NEW q \in Procs PROVE InjectiveMap(op[q].new)'
    <2>1. CASE q # p
      BY <1>3, <2>1, Zenon DEF Ownership
    <2>2. CASE q = p
      <3>1. \A j \in Keys : op[p].new[j] # n
        BY <1>7 DEF Held, Built, ConnIds, NoConn
      <3>2. op'[p].new = [op[p].new EXCEPT ![k] = n]
        BY Zenon DEF buildConn, TypeOK
      <3> QED
        BY <2>2, <3>1, <3>2 DEF Ownership, InjectiveMap
    <2> QED
      BY <2>1, <2>2, SMTT(30)
  <1>13. ASSUME NEW j \in Keys
         PROVE  \/ closer'[j] \in {NoConn, snap'.byKey[j]}
                \/ \E q \in Procs : Unregistering(q, j)'
    <2>1. closer' = closer /\ snap' = snap
      BY Zenon DEF buildConn
    <2>2. ASSUME NEW q \in Procs, Unregistering(q, j) PROVE Unregistering(q, j)'
      BY <1>3, <2>1, <2>2, Zenon DEF Unregistering
    <2> QED
      BY <2>1, <2>2, Zenon DEF Ownership
  <1>14. ClosedOnce'
    BY <1>1 DEF ClosedOnce
  <1> QED
    BY <1>8, <1>9, <1>10, <1>11, <1>12, <1>13, <1>14, Zenon DEF Ownership

\* A call that fails closes what it built and nothing else.
LEMMA FailOwnership ==
  ASSUME TypeOK, Control, Ownership, ClosedOnce, NEW p \in Procs, pc[p] # "close",
         CloseAll(Built(p)), Return(p), UNCHANGED <<snap, closer, next>>
  PROVE  Ownership' /\ ClosedOnce'
  <1>1. Built(p) = Held(p) /\ Held(p) \in SUBSET ConnIds
    BY HeldType, Zenon DEF Control, Controlled, Held
  <1>2. /\ \A c \in ConnIds \ Held(p) : conn'[c] = conn[c]
        /\ \A c \in ConnIds : conn'[c].closes <= conn[c].closes + 1
    BY <1>1, CloseAllEffect, Zenon
  <1>3. Published' = Published
    BY DEF Published
  <1>4. \A c \in ConnIds \ Held(p) : InUse(c) => InUse(c)'
    BY <1>2, Zenon DEF InUse
  <1>5. \A c \in Published' : InUse(c)'
    BY <1>3, <1>4, PublishedType, Zenon DEF Ownership
  <1>6. ASSUME NEW q \in Procs, NEW c \in Held(q)' PROVE InUse(c)' /\ c \notin Published'
    BY <1>3, <1>4, ReturnHeld, HeldType, Zenon DEF Ownership
  <1>7. ASSUME NEW q \in Procs, NEW r \in Procs, q # r PROVE Held(q)' \cap Held(r)' = {}
    BY <1>7, ReturnHeld, Zenon DEF Ownership
  <1>8. InjectiveMap(snap.byKey)'
    BY SMTT(30), Zenon DEF Ownership
  <1>9. ASSUME NEW q \in Procs PROVE InjectiveMap(op[q].new)'
    BY ReturnHeld DEF Ownership, InjectiveMap, EmptyMap
  <1>10. ASSUME NEW j \in Keys
         PROVE  \/ closer'[j] \in {NoConn, snap'.byKey[j]}
                \/ \E q \in Procs : Unregistering(q, j)'
    BY ReturnHeld DEF Ownership, Unregistering
  <1>11. ClosedOnce'
    BY <1>2 DEF Ownership, InUse, ClosedOnce
  <1> QED
    BY <1>5, <1>6, <1>7, <1>9, <1>10, <1>11, Zenon DEF Ownership

-----------------------------------------------------------------------------
\* Register hands the connection it built to the snapshot.
LEMMA RegisterOwnership ==
  ASSUME TypeOK, Control, Ownership, ClosedOnce, NEW p \in Procs, RegisterPublish(p)
  PROVE  Ownership' /\ ClosedOnce'
  <1> DEFINE k == op[p].key
  <1> PICK c \in ConnIds : c = op[p].new[k] /\ k \in Keys
    BY DEF RegisterPublish, Control, Controlled, TypeOK, ConnMap
  <1>1. /\ snap.byKey[k] = NoConn /\ lock = NoProc
        /\ snap'.byKey = [snap.byKey EXCEPT ![k] = c]
        /\ closer' = [closer EXCEPT ![k] = c]
        /\ conn' = conn /\ next' = next
        /\ Return(p)
    BY Zenon DEF RegisterPublish, TypeOK
  <1>2. c \in Held(p) /\ c # NoConn
    BY DEF Held, Built, ConnIds, NoConn
  <1>3. Published' \subseteq Published \cup {c}
    BY <1>1 DEF Published, TypeOK
  <1>4. \A d : InUse(d) => InUse(d)'
    BY <1>1, Zenon DEF InUse
  <1>5. \A d \in Published' : InUse(d)'
    BY <1>2, <1>3, <1>4, Zenon DEF Ownership
  <1>6. ASSUME NEW q \in Procs, NEW d \in Held(q)' PROVE InUse(d)' /\ d \notin Published'
    <2>1. q # p /\ d \in Held(q)
      BY <1>1, <1>6, ReturnHeld, Zenon
    <2> QED
      BY <2>1, <1>2, <1>3, <1>4, Zenon DEF Ownership
  <1>7. ASSUME NEW q \in Procs, NEW r \in Procs, q # r PROVE Held(q)' \cap Held(r)' = {}
    BY <1>1, <1>7, ReturnHeld, Zenon DEF Ownership
  <1>8. InjectiveMap(snap.byKey)'
    <2>1. \A j \in Keys : snap.byKey[j] # c
      BY <1>2, Zenon DEF Ownership, Published
    <2> QED
      BY <1>1, <2>1 DEF Ownership, InjectiveMap, TypeOK
  <1>9. ASSUME NEW q \in Procs PROVE InjectiveMap(op[q].new)'
    BY <1>1, ReturnHeld DEF Ownership, InjectiveMap, EmptyMap
  <1>10. ASSUME NEW j \in Keys PROVE closer'[j] \in {NoConn, snap'.byKey[j]}
    BY <1>1, ClosersWhenUnlocked DEF TypeOK, ConnMap
  <1>11. ClosedOnce'
    BY <1>1, Zenon DEF ClosedOnce
  <1> QED
    BY <1>5, <1>6, <1>7, <1>8, <1>9, <1>10, <1>11, Zenon DEF Ownership

\* A rejected call lets go of what it built.
LEMMA RejectOwnership ==
  ASSUME TypeOK, Control, Ownership, ClosedOnce, NEW p \in Procs, Reject(p)
  PROVE  Ownership' /\ ClosedOnce'
  <1>1. Return(p) /\ UNCHANGED <<snap, closer, conn, next>> /\ pc[p] = "ping"
    BY Zenon DEF Reject
  <1>2. Published' = Published /\ \A c : InUse(c)' <=> InUse(c)
    BY <1>1 DEF Published, InUse
  <1>3. ASSUME NEW q \in Procs PROVE Held(q)' \subseteq Held(q) /\ InjectiveMap(op[q].new)'
    BY <1>1, ReturnHeld DEF Ownership, InjectiveMap, EmptyMap
  <1>4. ASSUME NEW j \in Keys, NEW q \in Procs, Unregistering(q, j)
        PROVE  Unregistering(q, j)'
    BY <1>1, <1>4, ReturnHeld, Zenon DEF Unregistering
  <1> QED
    BY <1>1, <1>2, <1>3, <1>4, Zenon DEF Ownership, ClosedOnce

\* What becomes of a goroutine that goes on to close S: it holds S.
LEMMA CloseOrReturnHeld ==
  ASSUME TypeOK, Control, NEW p \in Procs, pc[p] = "ping", NEW S, NEW held \in BOOLEAN,
         CloseOrReturn(p, S, held)
  PROVE  /\ Held(p)' = S
         /\ op'[p].new = EmptyMap
         /\ \A q \in Procs \ {p} : Held(q)' = Held(q) /\ op'[q] = op[q] /\ pc'[q] = pc[q]
  <1>1. CASE S = {}
    BY <1>1, ReturnHeld DEF CloseOrReturn
  <1>2. CASE S # {}
    BY <1>2, SMTT(30) DEF CloseOrReturn, TypeOK, Held, Built, EmptyMap
  <1> QED
    BY <1>1, <1>2, Zenon

\* Register and Update publish, under the key they were given, what they built.
LEMMA OwnKey ==
  ASSUME TypeOK, Control, NEW p \in Procs, pc[p] = "ping", op[p].kind \in {"register", "update"}
  PROVE  op[p].key \in Keys /\ op[p].new[op[p].key] \in ConnIds
  <1>1. Controlled(p)
    BY Zenon DEF Control
  <1> QED
    BY <1>1 DEF Controlled, TypeOK, ConnMap

\* Update publishes the connection it built and takes over the superseded one.
LEMMA UpdateOwnership ==
  ASSUME TypeOK, Control, Ownership, ClosedOnce, NEW p \in Procs, UpdatePublish(p)
  PROVE  Ownership' /\ ClosedOnce'
  <1> DEFINE k == op[p].key
             S == {closer[k]} \ {NoConn}
  <1> PICK c \in ConnIds : c = op[p].new[k] /\ k \in Keys
    BY OwnKey, Zenon DEF UpdatePublish
  <1>1. /\ snap.byKey[k] # NoConn /\ lock = NoProc /\ pc[p] = "ping"
        /\ snap'.byKey = [snap.byKey EXCEPT ![k] = c]
        /\ closer' = [closer EXCEPT ![k] = c]
        /\ conn' = conn /\ next' = next
        /\ CloseOrReturn(p, S, TRUE)
    BY Zenon DEF UpdatePublish, TypeOK
  <1>2. c \in Held(p) /\ c # NoConn /\ c \notin Published
    BY DEF Held, Built, ConnIds, NoConn, Ownership
  <1>3. S \subseteq {snap.byKey[k]} /\ snap.byKey[k] \in Published
    BY <1>1, ClosersWhenUnlocked, Zenon DEF Published
  <1>4. Published' \subseteq (Published \ S) \cup {c}
    BY <1>1, <1>3, SMTT(30) DEF Published, TypeOK, ConnMap, Ownership, InjectiveMap
  <1>5. \A d : InUse(d) => InUse(d)'
    BY <1>1, Zenon DEF InUse
  <1>6. \A d \in Published' : InUse(d)'
    BY <1>2, <1>4, <1>5, Zenon DEF Ownership
  <1>7. /\ Held(p)' = S
        /\ op'[p].new = EmptyMap
        /\ \A q \in Procs \ {p} : Held(q)' = Held(q) /\ op'[q] = op[q]
    BY <1>1, CloseOrReturnHeld, Zenon
  <1>8. ASSUME NEW q \in Procs, NEW d \in Held(q)' PROVE InUse(d)' /\ d \notin Published'
    <2>1. CASE q = p
      BY <1>2, <1>3, <1>4, <1>5, <1>7 DEF Ownership
    <2>2. CASE q # p
      BY <2>2, <1>2, <1>4, <1>5, <1>7 DEF Ownership
    <2> QED
      BY <2>1, <2>2, Zenon
  <1>9. ASSUME NEW q \in Procs, NEW r \in Procs, q # r PROVE Held(q)' \cap Held(r)' = {}
    BY <1>9, <1>3, <1>7 DEF Ownership
  <1>10. InjectiveMap(snap.byKey)'
    <2>1. \A j \in Keys : snap.byKey[j] # c
      BY <1>2, Zenon DEF Published
    <2> QED
      BY <1>1, <2>1 DEF Ownership, InjectiveMap, TypeOK
  <1>11. ASSUME NEW q \in Procs PROVE InjectiveMap(op[q].new)'
    BY <1>7 DEF Ownership, InjectiveMap, EmptyMap
  <1>12. ASSUME NEW j \in Keys PROVE closer'[j] \in {NoConn, snap'.byKey[j]}
    BY <1>1, ClosersWhenUnlocked, Zenon DEF TypeOK, ConnMap
  <1>13. ClosedOnce'
    BY <1>1, Zenon DEF ClosedOnce
  <1> QED
    BY <1>6, <1>8, <1>9, <1>10, <1>11, <1>12, <1>13, Zenon DEF Ownership

=============================================================================
