----------------------- MODULE TargetOwnershipProofs ------------------------
(***************************************************************************)
(* Proofs that every connection of the target registry has one owner and   *)
(* that none it opened is lost, and that the key list and the label index  *)
(* of its snapshot agree with its targets, for every set of keys, labels   *)
(* and goroutines and any number of connections.                           *)
(***************************************************************************)
EXTENDS TargetRegistryProofs

-----------------------------------------------------------------------------
\* ReplaceAll publishes everything it built and takes over everything that was
\* published with a closer.
LEMMA ReplaceOwnership ==
  ASSUME TypeOK, Control, Ownership, ClosedOnce, NEW p \in Procs,
         NEW d \in Keys \cup {NoKey}, ReplacePublish(p, d)
  PROVE  Ownership' /\ ClosedOnce'
  <1> DEFINE S == {closer[k] : k \in Keys} \ {NoConn}
  <1>1. /\ lock = NoProc /\ pc[p] = "ping"
        /\ snap'.byKey = op[p].new /\ closer' = op[p].new
        /\ conn' = conn /\ next' = next
        /\ CloseOrReturn(p, S, FALSE)
    BY Zenon DEF ReplacePublish
  <1>2. Published' = Built(p) /\ Built(p) \subseteq Held(p)
    BY <1>1, Zenon DEF Published, Built, Held
  <1>3. S \subseteq Published
    BY <1>1, ClosersWhenUnlocked DEF Published
  <1>4. \A c : InUse(c) => InUse(c)'
    BY <1>1 DEF InUse
  <1>5. \A c \in Published' : InUse(c)'
    BY <1>2, <1>4 DEF Ownership
  <1>6. /\ Held(p)' = S
        /\ op'[p].new = EmptyMap
        /\ \A q \in Procs \ {p} : Held(q)' = Held(q) /\ op'[q] = op[q]
    BY <1>1, CloseOrReturnHeld, Zenon
  <1>7. ASSUME NEW q \in Procs, NEW c \in Held(q)' PROVE InUse(c)' /\ c \notin Published'
    <2>1. CASE q = p
      BY <2>1, <1>7, <1>2, <1>3, <1>4, <1>6 DEF Ownership
    <2>2. CASE q # p
      BY <2>2, <1>7, <1>2, <1>4, <1>6 DEF Ownership
    <2> QED
      BY <2>1, <2>2
  <1>8. ASSUME NEW q \in Procs, NEW r \in Procs, q # r PROVE Held(q)' \cap Held(r)' = {}
    BY <1>8, <1>3, <1>6 DEF Ownership
  <1>9. InjectiveMap(snap.byKey)'
    BY <1>1 DEF Ownership, InjectiveMap
  <1>10. ASSUME NEW q \in Procs PROVE InjectiveMap(op[q].new)'
    BY <1>6 DEF Ownership, InjectiveMap, EmptyMap
  <1>11. ASSUME NEW j \in Keys PROVE closer'[j] \in {NoConn, snap'.byKey[j]}
    BY <1>1
  <1>12. ClosedOnce'
    BY <1>1 DEF ClosedOnce
  <1> QED
    BY <1>5, <1>7, <1>8, <1>9, <1>10, <1>11, <1>12 DEF Ownership
\* Unregister withdraws a target and takes over its connection, if it has a
\* closer; the closer stays registered until the connection is closed.
LEMMA UnregisterOwnership ==
  ASSUME TypeOK, Control, Ownership, ClosedOnce, NEW p \in Procs, NEW k \in Keys,
         UnregisterPublish(p, k)
  PROVE  Ownership' /\ ClosedOnce'
  <1> DEFINE S == {closer[k]} \ {NoConn}
  <1>1. /\ snap.byKey[k] # NoConn /\ lock = NoProc /\ pc[p] = "idle"
        /\ snap'.byKey = [snap.byKey EXCEPT ![k] = NoConn]
        /\ closer' = closer /\ conn' = conn /\ next' = next
    BY Zenon DEF UnregisterPublish
  <1>2. S \subseteq {snap.byKey[k]} /\ snap.byKey[k] \in Published
    BY <1>1, ClosersWhenUnlocked, Zenon DEF Published
  <1>3. Published' \subseteq Published \ {snap.byKey[k]}
    BY <1>1 DEF Published, TypeOK, ConnMap, Ownership, InjectiveMap
  <1>4. \A d : InUse(d) => InUse(d)'
    BY <1>1 DEF InUse
  <1>5. /\ Held(p)' = S
        /\ op'[p].new = EmptyMap
        /\ \A q \in Procs \ {p} : Held(q)' = Held(q) /\ op'[q] = op[q] /\ pc'[q] = pc[q]
        /\ closer[k] # NoConn => Unregistering(p, k)'
    <2>1. CASE closer[k] = NoConn
      <3>1. op' = op /\ pc' = pc
        BY <2>1, Zenon DEF UnregisterPublish
      <3>2. op[p] = NoOp
        BY <1>1, Zenon DEF Control, Controlled
      <3>3. op[p].new = EmptyMap /\ op[p].rest = {}
        BY <3>2 DEF NoOp
      <3>4. Held(p) = {}
        BY <3>3 DEF Held, Built, EmptyMap
      <3>5. \A q : Held(q)' = Held(q)
        BY <3>1, SMTT(30) DEF Held, Built
      <3> QED
        BY <2>1, <3>1, <3>3, <3>4, <3>5
    <2>2. CASE closer[k] # NoConn
      BY <1>1, <2>2, SMTT(30) DEF UnregisterPublish, TypeOK, Held, Built, EmptyMap, Unregistering
    <2> QED
      BY <2>1, <2>2, Zenon
  <1>6. \A d \in Published' : InUse(d)'
    BY <1>3, <1>4 DEF Ownership
  <1>7. ASSUME NEW q \in Procs, NEW d \in Held(q)' PROVE InUse(d)' /\ d \notin Published'
    <2>1. CASE q = p
      BY <2>1, <1>7, <1>2, <1>3, <1>4, <1>5, Zenon DEF Ownership
    <2>2. CASE q # p
      BY <2>2, <1>7, <1>3, <1>4, <1>5 DEF Ownership
    <2> QED
      BY <2>1, <2>2
  <1>8. ASSUME NEW q \in Procs, NEW r \in Procs, q # r PROVE Held(q)' \cap Held(r)' = {}
    BY <1>8, <1>2, <1>5 DEF Ownership
  <1>9. InjectiveMap(snap.byKey)'
    <2>1. snap'.byKey[k] = NoConn /\ \A j \in Keys : j # k => snap'.byKey[j] = snap.byKey[j]
      BY <1>1, SnapFacts, MapUpdate
    <2> QED
      BY <2>1 DEF Ownership, InjectiveMap
  <1>10. ASSUME NEW q \in Procs PROVE InjectiveMap(op[q].new)'
    BY <1>5 DEF Ownership, InjectiveMap, EmptyMap
  <1>11. ASSUME NEW j \in Keys
         PROVE  \/ closer'[j] \in {NoConn, snap'.byKey[j]}
                \/ \E q \in Procs : Unregistering(q, j)'
    <2>1. j # k => snap'.byKey[j] = snap.byKey[j]
      BY <1>1, SnapFacts, MapUpdate
    <2>2. closer' = closer /\ closer[j] \in {NoConn, snap.byKey[j]}
      BY <1>1, ClosersWhenUnlocked, Zenon
    <2> QED
      BY <2>1, <2>2, <1>5, Zenon
  <1>12. ClosedOnce'
    BY <1>1, SMTT(30) DEF ClosedOnce
  <1> QED
    BY <1>6, <1>7, <1>8, <1>9, <1>10, <1>11, <1>12 DEF Ownership

\* Closing a superseded connection ends its use; Unregister then forgets its
\* closer.
LEMMA CloseOldOwnership ==
  ASSUME TypeOK, Control, Ownership, ClosedOnce, NEW p \in Procs, NEW c \in ConnIds,
         CloseOld(p, c)
  PROVE  Ownership' /\ ClosedOnce'
  <1>1. /\ pc[p] = "close" /\ c \in op[p].rest
        /\ CloseAll({c}) /\ closer' = ClosersAfter(p)
        /\ snap' = snap /\ next' = next
    BY Zenon DEF CloseOld
  <1>2. /\ \A d \in ConnIds \ {c} : conn'[d] = conn[d]
        /\ \A d \in ConnIds : conn'[d].closes <= conn[d].closes + 1
    BY <1>1, CloseAllEffect, SMTT(30)
  <1>3. c \in Held(p) /\ InUse(c) /\ Published' = Published
    BY <1>1, Zenon DEF Held, Ownership, Published
  <1>4. /\ Held(p)' \subseteq Held(p) \ {c}
        /\ op'[p].new = EmptyMap
        /\ \A q \in Procs \ {p} : Held(q)' = Held(q) /\ op'[q] = op[q] /\ pc'[q] = pc[q]
    <2>1. CASE op[p].rest \ {c} = {}
      BY <2>1, ReturnHeld DEF CloseOld
    <2>2. CASE op[p].rest \ {c} # {}
      BY <2>2, <1>1 DEF CloseOld, TypeOK, Control, Controlled, Held, Built, EmptyMap
    <2> QED
      BY <2>1, <2>2, Zenon
  <1>5. \A d \in ConnIds \ {c} : InUse(d) => InUse(d)'
    BY <1>1, <1>2 DEF InUse
  <1>6. \A d \in Published' : InUse(d)'
    BY <1>3, <1>5, PublishedType DEF Ownership
  <1>7. ASSUME NEW q \in Procs, NEW d \in Held(q)' PROVE InUse(d)' /\ d \notin Published'
    <2>1. d \in Held(q) /\ d # c
      BY <1>7, <1>3, <1>4 DEF Ownership
    <2> QED
      BY <2>1, <1>3, <1>5, HeldType DEF Ownership
  <1>8. ASSUME NEW q \in Procs, NEW r \in Procs, q # r PROVE Held(q)' \cap Held(r)' = {}
    BY <1>8, <1>4 DEF Ownership
  <1>9. InjectiveMap(snap.byKey)'
    BY <1>1, Zenon DEF Ownership, InjectiveMap
  <1>10. ASSUME NEW q \in Procs PROVE InjectiveMap(op[q].new)'
    BY <1>4 DEF Ownership, InjectiveMap, EmptyMap
  <1>11. ASSUME NEW j \in Keys
         PROVE  \/ closer'[j] \in {NoConn, snap'.byKey[j]}
                \/ \E q \in Procs : Unregistering(q, j)'
    <2>1. CASE closer[j] \in {NoConn, snap.byKey[j]}
      BY <1>1, <2>1 DEF ClosersAfter, TypeOK, ConnMap, Control, Controlled
    <2>2. ASSUME NEW q \in Procs, Unregistering(q, j), q = p
          PROVE  closer'[j] = NoConn
      BY <1>1, <2>2, SMTT(30) DEF ClosersAfter, Unregistering, TypeOK, ConnMap
    <2>3. ASSUME NEW q \in Procs, Unregistering(q, j), q # p
          PROVE  Unregistering(q, j)'
      <3>1. op[p].kind # "unregister"
        BY <1>1, <2>3, Zenon DEF Unregistering, Control, Controlled
      <3> QED
        BY <1>1, <1>4, <2>3, <3>1, Zenon DEF Unregistering, ClosersAfter
    <2> QED
      BY <2>1, <2>2, <2>3, Zenon DEF Ownership
  <1>12. ClosedOnce'
    BY <1>2, <1>3, CloseAllType, <1>1 DEF InUse, ClosedOnce, TypeOK
  <1> QED
    BY <1>6, <1>7, <1>8, <1>9, <1>10, <1>11, <1>12 DEF Ownership

\* Every step keeps one owner per connection and closes none twice.
LEMMA NextOwnership ==
  TypeOK /\ Control /\ Ownership /\ ClosedOnce /\ [Next]_vars => Ownership' /\ ClosedOnce'
  <1> SUFFICES ASSUME TypeOK, Control, Ownership, ClosedOnce, [Next]_vars
               PROVE  Ownership' /\ ClosedOnce'
    OBVIOUS
  <1>1. ASSUME UNCHANGED <<closer, conn, next>>, snap'.byKey = snap.byKey,
               \A q \in Procs : /\ op'[q].new = op[q].new /\ op'[q].rest = op[q].rest
                                /\ op'[q].key = op[q].key
                                /\ pc[q] = "close" => pc'[q] = pc[q] /\ op'[q].kind = op[q].kind
        PROVE  Ownership' /\ ClosedOnce'
    <2>1. /\ Published' = Published
          /\ \A q \in Procs : Held(q)' = Held(q)
          /\ \A c : InUse(c)' <=> InUse(c)
      <3>1. Published' = Published
        BY <1>1 DEF Published
      <3>2. ASSUME NEW q \in Procs PROVE Held(q)' = Held(q)
        BY <1>1 DEF Held, Built
      <3>3. \A c : InUse(c)' <=> InUse(c)
        BY <1>1 DEF InUse
      <3> QED
        BY <3>1, <3>2, <3>3
    <2>2. ASSUME NEW q \in Procs, NEW j \in Keys, Unregistering(q, j)
          PROVE  Unregistering(q, j)'
      BY <1>1, <2>2, Zenon DEF Unregistering
    <2> QED
      <3>1. InjectiveMap(snap.byKey)' /\ \A q \in Procs : InjectiveMap(op[q].new)'
        BY <1>1, SMTT(30) DEF Ownership, InjectiveMap
      <3>2. ASSUME NEW j \in Keys
            PROVE  \/ closer'[j] \in {NoConn, snap'.byKey[j]}
                   \/ \E q \in Procs : Unregistering(q, j)'
        BY <1>1, <2>2, ZenonT(30) DEF Ownership
      <3>3. ClosedOnce'
        BY <1>1 DEF ClosedOnce
      <3> QED
        BY <2>1, <3>1, <3>2, <3>3, SMTT(30) DEF Ownership
  <1>2. CASE UNCHANGED vars
    BY <1>1, <1>2 DEF vars
  <1>3. ASSUME NEW p \in Procs, NEW kind \in {"register", "update"}, NEW k \in Keys,
               NEW owned \in BOOLEAN, NEW labels \in SUBSET Labels,
               BuildOne(p, kind, k, owned, labels)
        PROVE  Ownership' /\ ClosedOnce'
    <2>1. /\ pc[p] # "close" /\ pc'[p] # "close" /\ op[p].new[k] = NoConn
          /\ \A q \in Procs \ {p} : pc'[q] = pc[q]
      BY <1>3 DEF BuildOne, TypeOK, Control, Controlled, NoOp, EmptyMap
    <2> QED
      BY <1>3, <2>1, BuildOwnership, SMTT(30) DEF BuildOne
  <1>4. ASSUME NEW p \in Procs, NEW k \in Keys, NEW owned \in BOOLEAN,
               NEW labels \in SUBSET Labels, BuildNext(p, k, owned, labels)
        PROVE  Ownership' /\ ClosedOnce'
    <2>1. /\ pc[p] # "close" /\ pc'[p] # "close" /\ op[p].new[k] = NoConn
          /\ \A q \in Procs \ {p} : pc'[q] = pc[q]
      BY <1>4 DEF BuildNext, TypeOK
    <2> QED
      BY <1>4, <2>1, BuildOwnership, Zenon DEF BuildNext
  <1>5. ASSUME NEW p \in Procs, BuildDone(p) PROVE Ownership' /\ ClosedOnce'
    BY <1>1, <1>5 DEF BuildDone, TypeOK
  <1>6. ASSUME NEW p \in Procs, BuildFail(p) \/ PingFail(p) PROVE Ownership' /\ ClosedOnce'
    BY <1>6, FailOwnership DEF BuildFail, PingFail
  <1>7. ASSUME NEW p \in Procs, NEW k \in Keys \cup {NoKey}, SetDefault(p, k)
        PROVE  Ownership' /\ ClosedOnce'
    BY <1>1, <1>7 DEF SetDefault, TypeOK
  <1> QED
    BY <1>2, <1>3, <1>4, <1>5, <1>6, <1>7, RegisterOwnership, RejectOwnership, UpdateOwnership,
       ReplaceOwnership, UnregisterOwnership, CloseOldOwnership
       DEF Next, Finish

\* Every connection in use has exactly one owner, a published target has never
\* been closed, and no connection is closed twice, however Register, Update,
\* Unregister and ReplaceAll interleave.
THEOREM ConnectionSafety == Spec => []ConnectionDiscipline
  <1> DEFINE IInv == TypeOK /\ Control /\ Ownership /\ ClosedOnce
  <1>1. Init => IInv
    BY InitType, InitControl, InitOwnership
  <1>2. IInv /\ [Next]_vars => IInv'
    BY NextType, NextControl, NextOwnership
  <1>3. IInv => ConnectionDiscipline
    BY Zenon DEF ConnectionDiscipline, Ownership, InUse, PublishedOpen
  <1> QED
    BY <1>1, <1>2, <1>3, PTL DEF Spec

\* Register and Update hold the one connection they built.
LEMMA BuiltOne ==
  ASSUME TypeOK, Control, NEW p \in Procs, pc[p] = "ping", op[p].kind \in {"register", "update"}
  PROVE  /\ op[p].key \in Keys /\ op[p].new[op[p].key] \in ConnIds
         /\ Held(p) = {op[p].new[op[p].key]} /\ Built(p) = Held(p)
  <1>1. /\ op[p].key \in Keys /\ op[p].rest = {}
        /\ \A j \in Keys : op[p].new[j] # NoConn <=> j = op[p].key
    BY Zenon DEF Control, Controlled
  <1>2. op[p].new \in [Keys -> ConnIds \cup {NoConn}]
    BY Zenon DEF TypeOK, ConnMap
  <1> QED
    BY <1>1, <1>2 DEF Held, Built

-----------------------------------------------------------------------------
(***************************************************************************)
(* No connection is lost.                                                  *)
(***************************************************************************)
\* A step of one goroutine p loses nothing if what was published or p held is
\* still published, held by p, dropped by a rejection, or need not be closed.
LEMMA KeepsAccount ==
  ASSUME TypeOK, NEW p \in Procs, NoOtherLeak, leaked \subseteq leaked',
         \A c \in ConnIds : InUse(c)' /\ conn'[c].owned =>
            \/ InUse(c) /\ conn[c].owned
            \/ c \in Held(p)',
         \A q \in Procs \ {p} : Held(q)' = Held(q),
         \A c \in ConnIds : (c \in Published \/ c \in Held(p)) /\ InUse(c)' /\ conn'[c].owned
            => c \in Published' \cup leaked' \cup Held(p)'
  PROVE  \A c \in ConnIds : InUse(c)' /\ conn'[c].owned => Accounted(c)'
  <1> SUFFICES ASSUME NEW c \in ConnIds, InUse(c)', conn'[c].owned PROVE Accounted(c)'
    BY Zenon
  <1>1. CASE c \in Held(p)'
    BY <1>1 DEF Accounted
  <1>2. CASE c \notin Held(p)'
    <2>1. Accounted(c)
      BY <1>2, Zenon DEF NoOtherLeak
    <2> QED
      BY <2>1 DEF Accounted
  <1> QED
    BY <1>1, <1>2

\* Building adds the new connection to what the goroutine holds.
LEMMA BuildAccount ==
  ASSUME TypeOK, Control, Ownership, NoOtherLeak, NEW p \in Procs, NEW kind, NEW k \in Keys,
         NEW owned \in BOOLEAN, NEW labels \in SUBSET Labels,
         buildConn(p, kind, k, owned, labels), op[p].new[k] = NoConn, pc[p] # "close",
         pc'[p] # "close", \A q \in Procs \ {p} : pc'[q] = pc[q]
  PROVE  NoOtherLeak'
  <1>0. PICK n \in ConnIds : n = next
    BY Zenon DEF buildConn
  <1>1. /\ next' = n + 1 /\ snap' = snap /\ closer' = closer /\ leaked' = leaked
        /\ \A c \in ConnIds : c # n => conn'[c] = conn[c]
        /\ op'[p].new = [op[p].new EXCEPT ![k] = n]
        /\ \A q \in Procs \ {p} : op'[q] = op[q]
    BY <1>0, Zenon DEF buildConn, TypeOK
  <1>2. Held(p) \subseteq Held(p)' /\ n \in Held(p)'
    <2>1. op[p].new \in [Keys -> ConnIds \cup {NoConn}] /\ op[p].rest = {}
      BY Zenon DEF TypeOK, ConnMap, Control, Controlled
    <2>2. n # NoConn
      BY DEF ConnIds, NoConn
    <2> QED
      BY <1>1, <2>1, <2>2 DEF Held, Built
  <1>3. \A q \in Procs \ {p} : Held(q)' = Held(q)
    BY <1>1 DEF Held, Built
  <1>4. \A c \in ConnIds : InUse(c)' /\ c # n => InUse(c)
    BY <1>0, <1>1 DEF InUse, ConnIds
  <1>5. Published' = Published
    BY <1>1 DEF Published
  <1>6. \A c \in ConnIds : InUse(c)' /\ conn'[c].owned => Accounted(c)'
    BY <1>1, <1>2, <1>3, <1>4, <1>5, KeepsAccount, Zenon
  <1>7. \A j \in Keys : snap.byKey[j] # NoConn => snap.byKey[j] \in ConnIds \ {n}
    BY <1>0 DEF Ownership, Published, InUse, TypeOK, ConnMap, ConnIds
  <1>8. ClosersKept'
    <2>1. ASSUME NEW j \in Keys, snap'.byKey[j] # NoConn, conn'[snap'.byKey[j]].owned
          PROVE  closer'[j] = snap'.byKey[j]
      BY <1>1, <1>7, <2>1 DEF NoOtherLeak, ClosersKept
    <2>2. ASSUME NEW q \in Procs, pc'[q] = "close", op'[q].kind = "unregister"
          PROVE  snap'.byKey[op'[q].key] = NoConn
      BY <1>1, <2>2 DEF NoOtherLeak, ClosersKept
    <2> QED
      BY <2>1, <2>2, Zenon DEF ClosersKept
  <1> QED
    BY <1>6, <1>8 DEF NoOtherLeak

\* A step that leaves targets and closers alone, the closers apart that an
\* Unregister forgets, and starts no Unregister, keeps every closer.
LEMMA ClosersFrame ==
  ASSUME TypeOK, ClosersKept, snap'.byKey = snap.byKey,
         \A c \in ConnIds : conn'[c].owned = conn[c].owned,
         \A k \in Keys : closer'[k] = closer[k] \/ snap.byKey[k] = NoConn,
         \A q \in Procs : pc'[q] = "close" /\ op'[q].kind = "unregister" =>
            pc[q] = "close" /\ op[q].kind = "unregister" /\ op'[q].key = op[q].key
  PROVE  ClosersKept'
  <1>1. ASSUME NEW j \in Keys, snap'.byKey[j] # NoConn, conn'[snap'.byKey[j]].owned
        PROVE  closer'[j] = snap'.byKey[j]
    <2>1. snap.byKey[j] \in ConnIds
      BY <1>1 DEF TypeOK, ConnMap
    <2> QED
      BY <1>1, <2>1 DEF ClosersKept
  <1>2. ASSUME NEW q \in Procs, pc'[q] = "close", op'[q].kind = "unregister"
        PROVE  snap'.byKey[op'[q].key] = NoConn
    BY <1>2, Zenon DEF ClosersKept
  <1> QED
    BY <1>1, <1>2, Zenon DEF ClosersKept

\* A call that fails closes what it opened and lets go of the rest.
LEMMA FailAccount ==
  ASSUME TypeOK, Control, NoOtherLeak, NEW p \in Procs, pc[p] # "close",
         CloseAll(Built(p)), Return(p), UNCHANGED <<snap, closer, next, leaked>>
  PROVE  NoOtherLeak'
  <1>1. Built(p) = Held(p) /\ Held(p) \in SUBSET ConnIds
    BY HeldType, Zenon DEF Control, Controlled, Held
  <1>2. /\ \A c \in ConnIds \ Held(p) : conn'[c] = conn[c]
        /\ \A c \in ConnIds : conn'[c].owned = conn[c].owned
    BY <1>1, CloseAllEffect, Zenon
  <1>3. \A c \in Held(p) : conn[c].owned => conn'[c].closes # 0
    BY <1>1, SMTT(30) DEF CloseAll, TypeOK
  <1>4. \A c \in ConnIds : InUse(c)' /\ conn'[c].owned => InUse(c) /\ conn[c].owned /\ c \notin Held(p)
    BY <1>2, <1>3 DEF InUse
  <1>5. Published' = Published
    BY DEF Published
  <1>6. \A c \in ConnIds : InUse(c)' /\ conn'[c].owned => Accounted(c)'
    BY <1>4, <1>5, ReturnHeld, KeepsAccount, Zenon
  <1>7. ClosersKept'
    BY <1>2, ReturnHeld, ClosersFrame, Zenon DEF NoOtherLeak, Return, TypeOK
  <1> QED
    BY <1>6, <1>7 DEF NoOtherLeak

\* A step that publishes, under a free lock, keeps every closer if each target
\* it leaves in place keeps its closer and each new one brings its own.
LEMMA ClosersPublished ==
  ASSUME TypeOK, Control, ClosersKept, NEW p \in Procs, lock = NoProc, conn' = conn,
         \A k \in Keys : \/ snap'.byKey[k] \in {NoConn, closer'[k]}
                         \/ snap'.byKey[k] = snap.byKey[k] /\ closer'[k] = closer[k],
         \A q \in Procs \ {p} : pc'[q] = pc[q] /\ op'[q] = op[q],
         pc'[p] = "close" /\ op'[p].kind = "unregister" => snap'.byKey[op'[p].key] = NoConn
  PROVE  ClosersKept'
  <1>1. ASSUME NEW j \in Keys, snap'.byKey[j] # NoConn, conn'[snap'.byKey[j]].owned
        PROVE  closer'[j] = snap'.byKey[j]
    BY <1>1 DEF ClosersKept
  <1>2. ASSUME NEW q \in Procs, pc'[q] = "close", op'[q].kind = "unregister"
        PROVE  snap'.byKey[op'[q].key] = NoConn
    BY <1>2, RegistryAssumption DEF Control, Controlled
  <1> QED
    BY <1>1, <1>2, Zenon DEF ClosersKept

\* A goroutine that goes on to close stays in its call.
LEMMA CloseOrReturnKind ==
  ASSUME TypeOK, NEW p \in Procs, NEW S, NEW held \in BOOLEAN, CloseOrReturn(p, S, held)
  PROVE  pc'[p] = "close" => op'[p].kind = op[p].kind
  <1>1. CASE S = {}
    BY <1>1 DEF CloseOrReturn, Return, TypeOK
  <1>2. CASE S # {}
    BY <1>2 DEF CloseOrReturn, TypeOK
  <1> QED
    BY <1>1, <1>2

\* Register and Update publish the one connection they built, and Update and
\* ReplaceAll take over what they supersede: nothing falls between.
LEMMA PublishAccount ==
  ASSUME TypeOK, Control, Ownership, NoOtherLeak, NEW p \in Procs,
         RegisterPublish(p) \/ UpdatePublish(p)
  PROVE  NoOtherLeak'
  <1> DEFINE k == op[p].key
             S == {closer[k]} \ {NoConn}
  <1>a. pc[p] = "ping" /\ op[p].kind \in {"register", "update"}
    BY Zenon DEF RegisterPublish, UpdatePublish
  <1>0. PICK c \in ConnIds : c = op[p].new[k] /\ k \in Keys
    BY <1>a, BuiltOne, Zenon
  <1>1. /\ lock = NoProc
        /\ snap'.byKey = [snap.byKey EXCEPT ![k] = c]
        /\ closer' = [closer EXCEPT ![k] = c]
        /\ conn' = conn /\ next' = next /\ leaked' = leaked
    BY <1>0, Zenon DEF RegisterPublish, UpdatePublish, TypeOK
  <1>2. Held(p) = {c}
    BY <1>a, <1>0, BuiltOne, Zenon
  <1>3. snap'.byKey[k] = c /\ \A j \in Keys : j # k => snap'.byKey[j] = snap.byKey[j]
    BY <1>0, <1>1, SnapFacts, MapUpdate
  <1>4. closer'[k] = c /\ \A j \in Keys : j # k => closer'[j] = closer[j]
    BY <1>0, <1>1, Zenon DEF TypeOK, ConnMap
  <1>5. c \in Published' /\ \A d \in Published : d \in Published' \/ d = snap.byKey[k]
    BY <1>0, <1>3 DEF Published, ConnIds, NoConn
  <1>6. /\ \A q \in Procs \ {p} : Held(q)' = Held(q) /\ op'[q] = op[q] /\ pc'[q] = pc[q]
        /\ snap.byKey[k] = NoConn \/ S \subseteq Held(p)'
        /\ pc'[p] = "close" => op'[p].kind # "unregister"
    <2>1. CASE RegisterPublish(p)
      BY <2>1, ReturnHeld, ZenonT(30) DEF RegisterPublish, Return, TypeOK
    <2>2. CASE UpdatePublish(p)
      <3>1. CloseOrReturn(p, S, TRUE)
        BY <2>2, Zenon DEF UpdatePublish
      <3>2. /\ Held(p)' = S
            /\ \A q \in Procs \ {p} : Held(q)' = Held(q) /\ op'[q] = op[q] /\ pc'[q] = pc[q]
        BY <1>a, <3>1, CloseOrReturnHeld, Zenon
      <3>3. pc'[p] = "close" => op'[p].kind # "unregister"
        BY <1>a, <3>1, CloseOrReturnKind, ZenonT(30)
      <3> QED
        BY <3>2, <3>3
    <2> QED
      BY <2>1, <2>2, Zenon
  <1>7. \A d \in ConnIds : InUse(d)' <=> InUse(d)
    BY <1>1 DEF InUse
  <1>8. \A d \in ConnIds : (d \in Published \/ d \in Held(p)) /\ conn[d].owned
           => d \in Published' \cup leaked' \cup Held(p)'
    <2>1. ASSUME NEW d \in ConnIds, conn[d].owned, d = snap.byKey[k] PROVE d \in Held(p)'
      BY <1>0, <1>6, <2>1, SMTT(30) DEF NoOtherLeak, ClosersKept, ConnIds, NoConn
    <2> QED
      BY <2>1, <1>2, <1>5, SMTT(30)
  <1>9. \A d \in ConnIds : InUse(d)' /\ conn'[d].owned => Accounted(d)'
    BY <1>1, <1>6, <1>7, <1>8, KeepsAccount, SMTT(30)
  <1>10. ClosersKept'
    <2>1. ClosersKept
      BY DEF NoOtherLeak
    <2>2. \A j \in Keys : \/ snap'.byKey[j] \in {NoConn, closer'[j]}
                          \/ snap'.byKey[j] = snap.byKey[j] /\ closer'[j] = closer[j]
      BY <1>3, <1>4, Zenon
    <2> QED
      BY <1>1, <1>6, <2>1, <2>2, ClosersPublished, ZenonT(30)
  <1> QED
    BY <1>9, <1>10 DEF NoOtherLeak

LEMMA ReplaceAccount ==
  ASSUME TypeOK, Control, Ownership, NoOtherLeak, NEW p \in Procs,
         NEW d \in Keys \cup {NoKey}, ReplacePublish(p, d)
  PROVE  NoOtherLeak'
  <1> DEFINE S == {closer[k] : k \in Keys} \ {NoConn}
  <1>1. /\ lock = NoProc /\ pc[p] = "ping" /\ op[p].kind = "replace"
        /\ snap'.byKey = op[p].new /\ closer' = op[p].new
        /\ conn' = conn /\ next' = next /\ leaked' = leaked
        /\ CloseOrReturn(p, S, FALSE)
    BY Zenon DEF ReplacePublish
  <1>2. Published' = Held(p)
    BY <1>1 DEF Published, Built, Held, Control, Controlled
  <1>3. /\ Held(p)' = S
        /\ \A q \in Procs \ {p} : Held(q)' = Held(q) /\ op'[q] = op[q] /\ pc'[q] = pc[q]
    BY <1>1, CloseOrReturnHeld, Zenon
  <1>4. \A c \in ConnIds : c \in Published /\ conn[c].owned => c \in S
    BY DEF Published, NoOtherLeak, ClosersKept
  <1>5. \A c \in ConnIds : InUse(c)' <=> InUse(c)
    BY <1>1, SMTT(30) DEF InUse
  <1>6. \A c \in ConnIds : InUse(c)' /\ conn'[c].owned => Accounted(c)'
    BY <1>1, <1>2, <1>3, <1>4, <1>5, KeepsAccount, Zenon
  <1>7. pc'[p] = "close" => op'[p].kind # "unregister"
    BY <1>1, CloseOrReturnKind, ZenonT(30)
  <1>8. ClosersKept'
    BY <1>1, <1>3, <1>7, ClosersPublished, Zenon DEF NoOtherLeak
  <1> QED
    BY <1>6, <1>8 DEF NoOtherLeak

\* Unregister takes over the connection it withdraws, if the registry opened it.
LEMMA UnregisterAccount ==
  ASSUME TypeOK, Control, NoOtherLeak, NEW p \in Procs, NEW k \in Keys, UnregisterPublish(p, k)
  PROVE  NoOtherLeak'
  <1>1. /\ lock = NoProc /\ pc[p] = "idle"
        /\ snap'.byKey = [snap.byKey EXCEPT ![k] = NoConn]
        /\ closer' = closer /\ conn' = conn /\ next' = next /\ leaked' = leaked
    BY Zenon DEF UnregisterPublish
  <1>2. snap'.byKey[k] = NoConn /\ \A j \in Keys : j # k => snap'.byKey[j] = snap.byKey[j]
    BY <1>1, SnapFacts, MapUpdate
  <1>3. Held(p) = {}
    BY <1>1 DEF Held, Built, Control, Controlled, NoOp, EmptyMap
  <1>4. /\ \A q \in Procs \ {p} : op'[q] = op[q] /\ pc'[q] = pc[q]
        /\ closer[k] # NoConn => closer[k] \in Held(p)'
        /\ pc'[p] = "close" => op'[p].key = k
    <2>1. CASE closer[k] = NoConn
      BY <1>1, <2>1, SMTT(30) DEF UnregisterPublish
    <2>2. CASE closer[k] # NoConn
      BY <2>2 DEF UnregisterPublish, TypeOK, Held
    <2> QED
      BY <2>1, <2>2, SMTT(30)
  <1>5. \A q \in Procs \ {p} : Held(q)' = Held(q)
    BY <1>4 DEF Held, Built
  <1>6. \A c \in Published : c \in Published' \/ c = snap.byKey[k]
    BY <1>2 DEF Published
  <1>7. \A c \in ConnIds : InUse(c)' <=> InUse(c)
    BY <1>1 DEF InUse
  <1>8. \A c \in ConnIds : c \in Published /\ conn[c].owned => c \in Published' \cup Held(p)'
    BY <1>4, <1>6, SMTT(30) DEF NoOtherLeak, ClosersKept, ConnIds, NoConn
  <1>9. \A c \in ConnIds : InUse(c)' /\ conn'[c].owned => Accounted(c)'
    BY <1>1, <1>3, <1>5, <1>7, <1>8, KeepsAccount, SMTT(30)
  <1>10. ClosersKept'
    BY <1>1, <1>2, <1>4, ClosersPublished, ZenonT(30) DEF NoOtherLeak
  <1> QED
    BY <1>9, <1>10, SMTT(30) DEF NoOtherLeak

\* A superseded connection leaves the hands of its goroutine when it is closed.
LEMMA CloseOldAccount ==
  ASSUME TypeOK, Control, NoOtherLeak, NEW p \in Procs, NEW c \in ConnIds, CloseOld(p, c)
  PROVE  NoOtherLeak'
  <1>1. /\ pc[p] = "close" /\ c \in op[p].rest /\ op[p].new = EmptyMap
        /\ CloseAll({c}) /\ closer' = ClosersAfter(p)
        /\ snap' = snap /\ next' = next /\ leaked' = leaked
    BY Zenon DEF CloseOld, Control, Controlled
  <1>2. /\ \A d \in ConnIds \ {c} : conn'[d] = conn[d]
        /\ \A d \in ConnIds : conn'[d].owned = conn[d].owned
    BY <1>1, CloseAllEffect, Zenon
  <1>3. conn[c].owned => conn'[c].closes # 0
    BY <1>1, SMTT(30) DEF CloseAll, TypeOK
  <1>4. Held(p) = op[p].rest
    BY <1>1, SMTT(30) DEF Held, Built, EmptyMap
  <1>5. /\ op[p].rest \ {c} \subseteq Held(p)'
        /\ \A q \in Procs \ {p} : Held(q)' = Held(q) /\ op'[q] = op[q] /\ pc'[q] = pc[q]
        /\ pc'[p] = "close" => op'[p].kind = op[p].kind /\ op'[p].key = op[p].key
    <2>1. CASE op[p].rest \ {c} = {}
      BY <2>1, ReturnHeld DEF CloseOld, Return, TypeOK
    <2>2. CASE op[p].rest \ {c} # {}
      BY <2>2, <1>1 DEF CloseOld, TypeOK, Held, Built
    <2> QED
      BY <2>1, <2>2, Zenon
  <1>6. \A d \in ConnIds : InUse(d)' /\ conn'[d].owned => InUse(d) /\ conn[d].owned /\ d # c
    BY <1>1, <1>2, <1>3, SMTT(30) DEF InUse
  <1>7. Published' = Published
    BY <1>1, SMTT(30) DEF Published
  <1>8. \A d \in ConnIds : InUse(d)' /\ conn'[d].owned => Accounted(d)'
    BY <1>1, <1>4, <1>5, <1>6, <1>7, KeepsAccount, SMTT(30)
  <1>9. \A k \in Keys : closer'[k] = closer[k] \/ snap.byKey[k] = NoConn
    BY <1>1, SMTT(30) DEF ClosersAfter, NoOtherLeak, ClosersKept, TypeOK, ConnMap
  <1>10. ClosersKept'
    <2>1. ClosersKept
      BY DEF NoOtherLeak
    <2>2. \A q \in Procs : pc'[q] = "close" /\ op'[q].kind = "unregister" =>
             pc[q] = "close" /\ op[q].kind = "unregister" /\ op'[q].key = op[q].key
      BY <1>1, <1>5
    <2> QED
      BY <1>1, <1>2, <1>9, <2>1, <2>2, ClosersFrame, ZenonT(30)
  <1> QED
    BY <1>8, <1>10 DEF NoOtherLeak

\* Every step accounts for every connection.
LEMMA NextAccount ==
  TypeOK /\ Control /\ Ownership /\ NoOtherLeak /\ [Next]_vars => NoOtherLeak'
  <1> SUFFICES ASSUME TypeOK, Control, Ownership, NoOtherLeak, [Next]_vars PROVE NoOtherLeak'
    OBVIOUS
  <1>1. ASSUME UNCHANGED <<closer, conn, next>>, snap'.byKey = snap.byKey,
               \A q \in Procs : /\ op'[q].new = op[q].new /\ op'[q].rest = op[q].rest
                                /\ op'[q].key = op[q].key
                                /\ pc'[q] = "close" => pc[q] = "close" /\ op'[q].kind = op[q].kind,
               leaked \subseteq leaked'
        PROVE  NoOtherLeak'
    <2>1. Published' = Published /\ \A c : InUse(c)' <=> InUse(c)
      BY <1>1 DEF Published, InUse
    <2>2. \A q \in Procs : Held(q)' = Held(q)
      BY <1>1 DEF Held, Built
    <2>3. \A c \in ConnIds : InUse(c)' /\ conn'[c].owned => Accounted(c)'
      BY <1>1, <2>1, <2>2 DEF NoOtherLeak, Accounted
    <2>4. ClosersKept'
      BY <1>1, ClosersFrame, Zenon DEF NoOtherLeak
    <2> QED
      BY <2>3, <2>4 DEF NoOtherLeak
  <1>2. CASE UNCHANGED vars
    BY <1>1, <1>2 DEF vars
  <1>3. ASSUME NEW p \in Procs, NEW kind, NEW k \in Keys,
               NEW owned \in BOOLEAN, NEW labels \in SUBSET Labels,
               BuildOne(p, kind, k, owned, labels) \/ BuildNext(p, k, owned, labels)
        PROVE  NoOtherLeak'
    <2>1. /\ pc[p] # "close" /\ pc'[p] # "close" /\ op[p].new[k] = NoConn
          /\ \A q \in Procs \ {p} : pc'[q] = pc[q]
      <3>1. pc[p] = "idle" => op[p].new = EmptyMap
        BY DEF Control, Controlled, NoOp
      <3>2. EmptyMap[k] = NoConn
        BY DEF EmptyMap
      <3>3. pc[p] \in {"idle", "build"} /\ (pc[p] = "build" => op[p].new[k] = NoConn)
        BY <1>3 DEF BuildOne, BuildNext
      <3>4. /\ pc'[p] # "close" /\ \A q \in Procs \ {p} : pc'[q] = pc[q]
        BY <1>3 DEF BuildOne, BuildNext, TypeOK
      <3> QED
        BY <3>1, <3>2, <3>3, <3>4
    <2> QED
      BY <1>3, <2>1, BuildAccount, SMTT(30) DEF BuildOne, BuildNext
  <1>4. ASSUME NEW p \in Procs, BuildDone(p) PROVE NoOtherLeak'
    BY <1>1, <1>4 DEF BuildDone, TypeOK
  <1>5. ASSUME NEW p \in Procs, BuildFail(p) \/ PingFail(p) PROVE NoOtherLeak'
    BY <1>5, FailAccount, SMTT(30) DEF BuildFail, PingFail
  <1>6. ASSUME NEW p \in Procs, Reject(p) PROVE NoOtherLeak'
    <2>1. /\ Return(p) /\ UNCHANGED <<snap, closer, conn, next>> /\ pc[p] = "ping"
          /\ leaked' = leaked \cup Built(p)
      BY <1>6, Zenon DEF Reject
    <2>2. Published' = Published /\ (\A c : InUse(c)' <=> InUse(c)) /\ Built(p) = Held(p)
      BY <2>1, SMTT(30) DEF Published, InUse, Held, Control, Controlled
    <2>3. \A c \in ConnIds : InUse(c)' /\ conn'[c].owned => Accounted(c)'
      BY <2>1, <2>2, ReturnHeld, KeepsAccount, SMTT(30)
    <2>4. ClosersKept'
      BY <2>1, ReturnHeld, ClosersFrame, Zenon DEF NoOtherLeak, Return, TypeOK
    <2> QED
      BY <2>3, <2>4 DEF NoOtherLeak
  <1>7. ASSUME NEW p \in Procs, NEW k \in Keys \cup {NoKey}, SetDefault(p, k)
        PROVE  NoOtherLeak'
    BY <1>1, <1>7 DEF SetDefault, TypeOK
  <1> QED
    BY <1>2, <1>3, <1>4, <1>5, <1>6, <1>7, PublishAccount, ReplaceAccount, UnregisterAccount,
       CloseOldAccount DEF Next, Finish

\* A connection the registry opened is closed, or published with its closer, or
\* in the hands of a call that will publish or close it, unless a rejected
\* Register or Update dropped it, however the calls interleave.
THEOREM NothingElseLeaks == Spec => []NoOtherLeak
  <1> DEFINE IInv == TypeOK /\ Control /\ Ownership /\ ClosedOnce /\ NoOtherLeak
  <1>1. Init => NoOtherLeak
    <2> SUFFICES ASSUME Init PROVE NoOtherLeak
      OBVIOUS
    <2>1. \A c \in ConnIds : ~conn[c].owned
      BY DEF Init
    <2>2. TypeOK /\ \A q \in Procs : pc[q] = "idle"
      BY InitType, Zenon DEF Init
    <2> QED
      BY <2>1, <2>2 DEF NoOtherLeak, ClosersKept, TypeOK, ConnMap
  <1>2. Init => IInv
    BY <1>1, InitType, InitControl, InitOwnership
  <1>3. IInv /\ [Next]_vars => IInv'
    BY NextType, NextControl, NextOwnership, NextAccount
  <1> QED
    BY <1>2, <1>3, PTL DEF Spec

=============================================================================
