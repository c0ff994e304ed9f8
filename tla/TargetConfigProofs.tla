------------------------- MODULE TargetConfigProofs -------------------------
(***************************************************************************)
(* Proofs that a registry which believes it is current is current, unless  *)
(* its fetch was torn, and that a call whose label query matches goes to a *)
(* match, unless the registry was replaced under it; for every set of keys *)
(* and labels and any number of commits.                                   *)
(***************************************************************************)
EXTENDS TargetSelection, FiniteSetTheorems, TLAPS

\* Versions only grow: the one applied last, the one a tick has read, and the
\* store's are in this order, and a tick that applies something has read a
\* version other than the last.
Ordered ==
    /\ version \in Nat /\ lastVer \in Nat \cup {NoVersion}
    /\ lastVer # NoVersion => lastVer <= version
    /\ pc \in {"idle", "version", "default", "apply", "prune"}
    /\ pc \in {"default", "apply", "prune"} =>
          /\ got.ver \in Nat /\ got.ver <= version
          /\ lastVer # NoVersion => lastVer <= got.ver
    /\ pc \in {"apply", "prune"} => lastVer # got.ver

\* What the tick has read, in the parts its program counter says, is what the
\* store holds while the version it has read is the store's.
Current ==
    LET rowsRead == got.targets = Targets(rows) \/ torn.got
    IN  /\ pc = "version" => rowsRead
        /\ pc = "default" /\ got.ver = version => rowsRead
        /\ pc = "apply" /\ got.ver = version =>
              rowsRead /\ got.def = DefaultKey(rows)
        /\ pc = "prune" /\ got.ver = version => UpToDate \/ torn.live
        /\ lastVer = version => UpToDate \/ torn.live

Shape ==
    /\ got = [targets |-> got.targets, ver |-> got.ver, def |-> got.def]
    /\ torn = [got |-> torn.got, live |-> torn.live]

WatcherInv == Ordered /\ Current /\ Shape

-----------------------------------------------------------------------------
LEMMA InitWatcher == Init => WatcherInv
  BY WatcherAssumption
     DEF Init, StoreInit, WatcherInv, Ordered, Current, Shape, NothingGot

\* A commit makes every version that was read an old one.
LEMMA CommitWatcher ==
  ASSUME WatcherInv, NEW rs, Commit(rs)
  PROVE  WatcherInv'
  <1>1. version' = version + 1 /\ lastVer' = lastVer /\ got' = got /\ pc' = pc /\ live' = live
    BY DEF Commit, BumpTargetsVersion
  <1>2. torn' = [got |-> torn.got \/ pc = "version", live |-> torn.live]
    BY DEF Commit, WatcherInv, Shape
  <1>3. Ordered' /\ lastVer' # version' /\ (pc' \in {"default", "apply", "prune"} => got'.ver # version')
    BY <1>1, WatcherAssumption DEF WatcherInv, Ordered
  <1> QED
    BY <1>1, <1>2, <1>3, Zenon DEF WatcherInv, Current, Shape

LEMMA NextWatcher == WatcherInv /\ [Next]_vars => WatcherInv'
  <1> SUFFICES ASSUME WatcherInv, [Next]_vars
               PROVE  WatcherInv'
    OBVIOUS
  <1>1. CASE UNCHANGED vars
    BY <1>1 DEF vars, WatcherInv, Ordered, Current, Shape, UpToDate
  <1>2. ASSUME NEW rs, Commit(rs) PROVE WatcherInv'
    BY <1>2, CommitWatcher
  <1>3. CASE FetchRows
    BY <1>3, Zenon DEF FetchRows, WatcherInv, Ordered, Current, Shape, UpToDate, NothingGot
  <1>4. CASE FetchVersion
    BY <1>4 DEF FetchVersion, WatcherInv, Ordered, Current, Shape, UpToDate
  <1>5. CASE FetchDefault
    BY <1>5 DEF FetchDefault, TickEnds, WatcherInv, Ordered, Current, Shape, UpToDate, NothingGot
  <1>6. CASE ReplaceTargets
    BY <1>6, WatcherAssumption DEF ReplaceTargets, WatcherInv, Ordered, Current, Shape, UpToDate
  <1>7. CASE Remember
    BY <1>7, WatcherAssumption, Zenon
       DEF Remember, TickEnds, WatcherInv, Ordered, Current, Shape, UpToDate, NothingGot
  <1>8. CASE TickFails
    BY <1>8, Zenon DEF TickFails, TickEnds, WatcherInv, Ordered, Current, Shape, UpToDate, NothingGot
  <1> QED
    BY <1>1, <1>2, <1>3, <1>4, <1>5, <1>6, <1>7, <1>8 DEF Next

\* StaleOnlyIfTorn for every set of keys and any number of commits: the watcher
\* misses a configuration only through a commit between its first two queries.
THEOREM WatcherNotStale == Spec => []StaleOnlyIfTorn
  <1>1. WatcherInv => StaleOnlyIfTorn
    BY DEF WatcherInv, Current, StaleOnlyIfTorn
  <1> QED
    BY InitWatcher, NextWatcher, <1>1, PTL DEF Spec

-----------------------------------------------------------------------------
(***************************************************************************)
(* How a call comes to its target.                                         *)
(***************************************************************************)
\* sorted(S) lists elements of S, and some if there are any: the number of
\* smaller elements is an injection of S into 0..Cardinality(S) - 1, and so
\* takes every value.
LEMMA SortedFacts ==
  ASSUME NEW S \in SUBSET Keys
  PROVE  sorted(S) \in Seq(S) /\ (S # {} => sorted(S) # <<>>)
  <1> DEFINE n == Cardinality(S)
             below(k) == {j \in S : j < k}
             rank == [k \in S |-> Cardinality(below(k))]
  <1>1. IsFiniteSet(S) /\ n \in Nat /\ S \subseteq Nat
    BY SelectionAssumption, FS_Subset, FS_CardinalityType, Zenon
  <1>2. ASSUME NEW k \in S
        PROVE  IsFiniteSet(below(k)) /\ rank[k] \in 0..n-1
    <2>1. below(k) \in SUBSET S /\ below(k) # S
      BY <1>1
    <2>2. /\ IsFiniteSet(below(k)) /\ Cardinality(below(k)) <= n
          /\ Cardinality(below(k)) # n
      BY <1>1, <2>1, FS_Subset
    <2>3. Cardinality(below(k)) \in Nat
      BY <2>2, FS_CardinalityType
    <2> QED
      BY <1>1, <2>2, <2>3
  <1>3. ASSUME NEW j \in S, NEW k \in S, j < k
        PROVE  rank[j] < rank[k]
    <2>1. below(j) \in SUBSET below(k) /\ below(j) # below(k)
      <3>1. j \in below(k) /\ j \notin below(j)
        BY <1>1, <1>3
      <3>2. \A i \in S : i < j => i < k
        BY <1>1, <1>3
      <3> QED
        BY <3>1, <3>2
    <2>2. IsFiniteSet(below(k)) /\ rank[j] \in Nat /\ rank[k] \in Nat
      BY <1>2
    <2>3. Cardinality(below(j)) <= Cardinality(below(k)) /\ Cardinality(below(j)) # Cardinality(below(k))
      BY <2>1, <2>2, FS_Subset
    <2> QED
      BY <2>2, <2>3
  <1>4. rank \in Injection(S, 0..n-1)
    <2>1. rank \in [S -> 0..n-1]
      BY <1>2
    <2>2. \A j, k \in S : rank[j] = rank[k] => j = k
      <3>1. SUFFICES ASSUME NEW j \in S, NEW k \in S, rank[j] = rank[k], j # k PROVE FALSE
        OBVIOUS
      <3>2. j < k \/ k < j
        BY <1>1, <3>1
      <3>3. rank[j] \in Int /\ rank[k] \in Int
        BY <1>2
      <3> HIDE DEF rank
      <3> QED
        BY <1>3, <3>1, <3>2, <3>3
    <2> HIDE DEF rank
    <2> QED
      BY <2>1, <2>2 DEF Injection, IsInjective
  <1>5. IsFiniteSet(0..n-1) /\ Cardinality(0..n-1) = n
    <2>1. 0 \in Int /\ n - 1 \in Int
      BY <1>1
    <2>2. IsFiniteSet(0..n-1) /\ Cardinality(0..n-1) = IF 0 > n - 1 THEN 0 ELSE (n - 1) - 0 + 1
      BY <2>1, FS_Interval
    <2> QED
      BY <1>1, <2>2
  <1>6. rank \in Surjection(S, 0..n-1)
    BY <1>4, <1>5, FS_Injection
  <1>7. \A i \in 1..n : \E k \in S : Cardinality(below(k)) = i - 1
    <2>1. \A i \in 1..n : \E k \in S : rank[k] = i - 1
      <3> HIDE DEF rank
      <3> QED
        BY <1>1, <1>6 DEF Surjection
    <2> QED
      BY <2>1
  <1>8. \A i \in 1..n : sorted(S)[i] \in S /\ Cardinality(below(sorted(S)[i])) = i - 1
    BY <1>7, SMTT(30) DEF sorted
  <1>9. sorted(S) \in [1..n -> S]
    BY <1>8, Zenon DEF sorted
  <1>10. S # {} => n # 0
    BY <1>1, FS_EmptySet
  <1> QED
    BY <1>1, <1>9, <1>10

\* The head of the order is one of the keys, with the preferred label if one of
\* them has it; there is no head only if no target has that label.
LEMMA ChosenFirst ==
  ASSUME NEW keys \in SUBSET Keys, keys # {}, NEW hint \in Hints
  PROVE  LET order == chooseOrder(keys, hint)
             label == prefer(hint)
             asked == strategy(hint) = "prefer" /\ label # NoLabel
         IN  /\ order = <<>> => asked /\ Index[label] = {}
             /\ order # <<>> => Head(order) \in keys
             /\ order # <<>> /\ asked /\ keys \cap Index[label] # {} =>
                   Head(order) \in keys \cap Index[label]
  <1> DEFINE order == chooseOrder(keys, hint)
             label == prefer(hint)
             asked == strategy(hint) = "prefer" /\ label # NoLabel
             preferred == Index[label]
             ks == sorted(keys)
             hash == IF hint.hash = 0 THEN Head(ks) ELSE hint.hash
             with == sorted(keys \cap preferred)
             without == sorted(keys \ preferred)
  <1> SUFFICES /\ order = <<>> => asked /\ preferred = {}
               /\ order # <<>> => Head(order) \in keys
               /\ order # <<>> /\ asked /\ keys \cap preferred # {} =>
                     Head(order) \in keys \cap preferred
    BY Zenon
  <1>1. /\ ks \in Seq(keys) /\ ks # <<>> /\ Head(ks) \in keys
        /\ Len(ks) \in Nat \ {0} /\ \A i \in 1..Len(ks) : ks[i] \in keys
    <2>1. ks \in Seq(keys) /\ ks # <<>>
      BY SortedFacts, Zenon
    <2> HIDE DEF ks
    <2> QED
      BY <2>1
  <1>2. /\ with \in Seq(keys \cap preferred) /\ (keys \cap preferred # {} => with # <<>>)
        /\ without \in Seq(keys \ preferred) /\ (keys \ preferred # {} => without # <<>>)
    <2>1. keys \cap preferred \in SUBSET Keys /\ keys \ preferred \in SUBSET Keys
      OBVIOUS
    <2> HIDE DEF preferred
    <2> QED
      BY <2>1, SortedFacts, Zenon
  <1>3. order = IF asked THEN IF preferred = {} THEN <<>> ELSE with \o without
                ELSE IF strategy(hint) = "hash" THEN rotate(ks, hash % Len(ks)) ELSE ks
    BY Zenon DEF chooseOrder
  <1>4. CASE asked /\ preferred = {}
    BY <1>3, <1>4
  <1>5. CASE asked /\ preferred # {}
    <2>1. order = with \o without
      BY <1>3, <1>5, Zenon
    <2> HIDE DEF order, with, without, preferred, ks
    <2>2. CASE keys \cap preferred # {}
      <3>1. order # <<>> /\ Head(order) = Head(with) /\ Head(with) \in keys \cap preferred
        BY <1>2, <2>1, <2>2
      <3> QED
        BY <1>5, <3>1
    <2>3. CASE keys \cap preferred = {}
      <3>1. with = <<>> /\ keys \ preferred # {}
        BY <1>2, <2>3
      <3>2. order # <<>> /\ Head(order) \in keys
        BY <1>2, <2>1, <3>1
      <3> QED
        BY <2>3, <3>2
    <2> QED
      BY <2>2, <2>3
  <1>6. CASE ~asked
    <2> HIDE DEF order, preferred, ks, asked
    <2>1. hash \in Nat
      <3>1. Head(ks) \in Nat /\ hint.hash \in Nat
        BY <1>1, SelectionAssumption, Zenon DEF Hints
      <3> QED
        BY <3>1
    <2> DEFINE n == hash % Len(ks)
    <2>2. n \in Nat /\ n < Len(ks)
      BY <1>1, <2>1
    <2> HIDE DEF n, hash
    <2>3. rotate(ks, n) # <<>> /\ Head(rotate(ks, n)) \in keys
      <3> DEFINE u == SubSeq(ks, n + 1, Len(ks))
                 v == SubSeq(ks, 1, n)
      <3>1. u \in Seq(keys) /\ v \in Seq(keys) /\ Len(u) = Len(ks) - n
        BY <1>1, <2>2
      <3> HIDE DEF u, v
      <3>2. u # <<>>
        <4>1. Len(u) # 0
          BY <1>1, <2>2, <3>1
        <4> QED
          BY <4>1
      <3>3. u \o v # <<>> /\ Head(u \o v) = Head(u) /\ Head(u) \in keys
        BY <3>1, <3>2
      <3> QED
        BY <3>3, Zenon DEF rotate, u, v
    <2>4. order = IF strategy(hint) = "hash" THEN rotate(ks, n) ELSE ks
      BY <1>3, <1>6 DEF n
    <2> QED
      BY <1>1, <1>6, <2>3, <2>4
  <1> QED
    BY <1>4, <1>5, <1>6, Zenon

\* What the index finds satisfies the query.
LEMMA FilterSatisfies ==
  ASSUME NEW q \in Queries, NEW k \in filter(Index, Present, q)
  PROVE  k \in Present /\ Satisfies(q, toSet(live.targets[k].labels))
  <1> DEFINE labels == toSet(live.targets[k].labels)
  <1>1. \A l \in Labels : k \in Index[l] <=> k \in Present /\ l \in labels
    BY DEF Index
  <1>2. ASSUME NEW exprs \in SUBSET Exprs, k \in evalAnd(Index, Present, exprs)
        PROVE  k \in Present /\ \A e \in exprs : Eval(e, labels)
    <2> DEFINE positives == {e \in exprs : e.kind # "not"}
               negatives == exprs \ positives
               res == IF positives = {} THEN Present
                      ELSE intersectMany({lookup(Index, e) : e \in positives})
    <2>1. k \in res /\ \A e \in negatives : k \notin lookup(Index, e)
      BY <1>2 DEF evalAnd, diffSet, unionMany
    <2>2. \A e \in exprs : k \in lookup(Index, e) <=> k \in Present /\ e.of \cap labels # {}
      <3> SUFFICES ASSUME NEW e \in exprs
                   PROVE  k \in lookup(Index, e) <=> k \in Present /\ e.of \cap labels # {}
        BY Zenon
      <3>1. e.of \subseteq Labels
        BY DEF Exprs
      <3>2. k \in lookup(Index, e) <=> \E l \in e.of : k \in Index[l]
        BY DEF lookup, unionMany
      <3> HIDE DEF labels
      <3> QED
        BY <1>1, <3>1, <3>2
    <2>3. \A e \in positives : k \in lookup(Index, e)
      BY <2>1 DEF intersectMany
    <2>4. k \in Present
      BY <2>1, <2>2, <2>3
    <2> HIDE DEF labels
    <2> QED
      BY <2>1, <2>2, <2>3, <2>4 DEF Eval
  <1> HIDE DEF labels
  <1>3. CASE Len(q.OR) > 0
    <2>1. q.OR \in Seq(SUBSET Exprs)
      BY DEF Queries
    <2>2. PICK i \in DOMAIN q.OR : k \in evalAnd(Index, Present, q.OR[i])
      BY <1>3 DEF filter, unionMany
    <2>3. q.OR[i] \in SUBSET Exprs /\ q.OR # <<>>
      BY <1>3, <2>1, <2>2
    <2> QED
      BY <1>2, <2>2, <2>3 DEF Satisfies, labels
  <1>4. CASE ~(Len(q.OR) > 0)
    <2>1. q.AND \in SUBSET Exprs /\ q.OR \in Seq(SUBSET Exprs)
      BY DEF Queries
    <2>2. k \in evalAnd(Index, Present, q.AND) /\ q.OR = <<>>
      BY <1>4, <2>1 DEF filter
    <2> QED
      BY <1>2, <2>1, <2>2 DEF Satisfies, labels
  <1> QED
    BY <1>3, <1>4

Matches(k) == Has(k) /\ Satisfies(task.dec.query, toSet(live.targets[k].labels))

TaskShape ==
    task = [pc |-> task.pc, kind |-> task.kind, dec |-> task.dec, key1 |-> task.key1,
            found |-> task.found, preferred |-> task.preferred, unanswered |-> task.unanswered,
            cand |-> task.cand, moved |-> task.moved, by |-> task.by, row |-> task.row]

\* A match stays one until the registry replaces its target, which the history
\* moved tells; the chosen match is one with the preferred label if there is
\* one; a call that went past a choice had no choice, or lost its target.
SelectionInv ==
    /\ TaskShape
    /\ task.dec.query \in Queries \cup {NoQuery} /\ task.dec.hint \in Hints
    /\ task.found \subseteq Keys
    /\ task.pc # "done" => task.by = "none"
    /\ task.pc \in {"idle", "key", "find"} => task.found = {}
    /\ task.pc = "find" => task.dec.query # NoQuery
    /\ task.pc = "choose" =>
          task.found # {} /\ \A k \in task.found : k \in task.moved \/ Matches(k)
    /\ task.pc = "get" =>
          /\ task.cand \in task.found /\ (task.cand \in task.moved \/ Matches(task.cand))
          /\ task.preferred # {} => task.cand \in task.preferred
    /\ task.pc \in {"v1", "default"} /\ task.found # {} =>
          task.unanswered \/ task.cand \in task.moved
    /\ SelectionExplained

LEMMA IdleSelection ==
  /\ Idle.found = {} /\ Idle.by = "none" /\ Idle.pc = "idle"
  /\ Idle.dec.query = NoQuery /\ Idle.dec.hint \in Hints
  BY Zenon DEF Idle, Fresh, Empty, ByKey, NoHint, Hints, Strategies

LEMMA InitSelection == SelectionInit => SelectionInv
  BY IdleSelection, Zenon DEF SelectionInit, Idle, Fresh, TaskShape, SelectionInv, SelectionExplained

\* A call that has asked no query yet, or none that found anything.
LEMMA NothingFound ==
  ASSUME TaskShape', task'.found = {}, task'.dec.query \in Queries \cup {NoQuery}, task'.dec.hint \in Hints,
         task'.pc \notin {"choose", "get"}, task'.pc # "done" => task'.by = "none",
         task'.pc = "find" => task'.dec.query # NoQuery
  PROVE  SelectionInv'
  BY Zenon DEF SelectionInv, SelectionExplained

LEMMA EnterStep ==
  ASSUME NEW d, d.query \in Queries \cup {NoQuery}, d.hint \in Hints, NEW kind, NEW key1,
         Enter(Fresh(kind, d, key1))
  PROVE  SelectionInv'
  <1> DEFINE t == Fresh(kind, d, key1)
  <1>1. task' = [t EXCEPT !.pc = First(t)]
    BY DEF Enter
  <1>2. t.dec = d /\ t.key1 = key1 /\ t.kind = kind
    BY Zenon DEF Fresh
  <1>3. First(t) \in {"key", "find", "done", "v1", "default"} /\ (First(t) = "find" => d.query # NoQuery)
    BY <1>2, Zenon DEF First, AfterQuery
  <1> DEFINE pc1 == First(t)
  <1>4. task' = [Fresh(kind, d, key1) EXCEPT !.pc = pc1]
    BY <1>1
  <1> HIDE DEF pc1
  <1>5. task' = [pc |-> pc1, kind |-> kind, dec |-> d, key1 |-> key1,
                 found |-> {}, preferred |-> {}, unanswered |-> FALSE, cand |-> NoKey,
                 moved |-> {}, by |-> "none", row |-> NoRow]
    BY <1>4, Zenon DEF Fresh
  <1>6. TaskShape' /\ task'.dec = d /\ task'.found = {} /\ task'.by = "none" /\ task'.pc = pc1
    BY <1>5, Zenon DEF TaskShape
  <1> QED
    BY <1>3, <1>6, NothingFound DEF pc1

LEMMA StartSelection ==
  ASSUME NEW c \in Calls,
         \/ c.kind = "pick" /\ pickTarget(c.dec, c.key1)
         \/ c.kind = "run" /\ resolveDecision(c.dec, c.key1)
  PROVE  SelectionInv'
  <1>1. \A k : ByKey(k).query \in Queries \cup {NoQuery} /\ ByKey(k).hint \in Hints
    BY Zenon DEF ByKey, NoHint, Hints, Strategies
  <1>2. c.dec # NoDecision => c.dec.query \in Queries \cup {NoQuery} /\ c.dec.hint \in Hints
    BY SelectionAssumption DEF Decisions
  <1>3. CASE pickTarget(c.dec, c.key1)
    <2> DEFINE d == IF c.dec = NoDecision THEN Empty ELSE c.dec
    <2>1. Enter(Fresh("pick", d, c.key1))
      BY <1>3 DEF pickTarget
    <2>2. d.query \in Queries \cup {NoQuery} /\ d.hint \in Hints
      BY <1>1, <1>2 DEF Empty
    <2> HIDE DEF d
    <2> QED
      BY <2>1, <2>2, EnterStep
  <1>4. CASE resolveDecision(c.dec, c.key1)
    <2>1. \/ c.dec # NoDecision /\ Enter(Fresh("run", c.dec, NoKey))
          \/ Enter(Fresh("run", ByKey(c.key1), NoKey))
          \/ Enter(Fresh("run", ByKey(live.def), NoKey))
      BY <1>4, Zenon DEF resolveDecision
    <2> QED
      BY <1>1, <1>2, <2>1, EnterStep
  <1> QED
    BY <1>3, <1>4

\* What a step of the call leaves alone.
LEMMA TaskKept ==
  ASSUME TaskShape, NEW pc1, task' = Reach(pc1)
  PROVE  /\ TaskShape' /\ task'.pc = pc1 /\ task'.dec = task.dec /\ task'.found = task.found
         /\ task'.moved = task.moved /\ task'.cand = task.cand /\ task'.by = task.by
         /\ task'.unanswered = task.unanswered /\ task'.preferred = task.preferred
  BY DEF TaskShape, Reach

LEMMA TaskFound ==
  ASSUME TaskShape, NEW k, NEW by, NEW c, task' = [Found(k, by) EXCEPT !.cand = c]
  PROVE  /\ TaskShape' /\ task'.pc = "done" /\ task'.dec = task.dec /\ task'.found = task.found
         /\ task'.moved = task.moved /\ task'.cand = c /\ task'.by = by
         /\ task'.row = live.targets[k] /\ task'.unanswered = task.unanswered
         /\ task'.preferred = task.preferred
  BY Zenon DEF TaskShape, Found

\* A lookup for which no query has found anything.
LEMMA BareLookup ==
  ASSUME SelectionInv, task.found = {}, UNCHANGED live,
         \/ \E pc1 : task' = Reach(pc1) /\ pc1 \in {"find", "v1", "default", "done"}
                     /\ (pc1 = "find" => task.dec.query # NoQuery) /\ task.by = "none"
         \/ \E k, by, c : task' = [Found(k, by) EXCEPT !.cand = c]
  PROVE  SelectionInv'
  <1>1. ASSUME NEW pc1, task' = Reach(pc1), pc1 \in {"find", "v1", "default", "done"},
               pc1 = "find" => task.dec.query # NoQuery, task.by = "none"
        PROVE  SelectionInv'
    BY <1>1, TaskKept, NothingFound, Zenon DEF SelectionInv
  <1>2. ASSUME NEW k, NEW by, NEW c, task' = [Found(k, by) EXCEPT !.cand = c] PROVE SelectionInv'
    BY <1>2, TaskFound, NothingFound, ZenonT(30) DEF SelectionInv
  <1> QED
    BY <1>1, <1>2

\* The call goes on past its query, to the next stage or to its end, because
\* there was no choice or the chosen target is gone.
LEMMA PastQuery ==
  ASSUME SelectionInv, task.pc \notin {"done", "idle", "key", "find"}, TaskShape',
         task'.pc \in {"v1", "default", "done"}, task'.dec = task.dec, task'.found = task.found,
         task'.by # "query", task'.pc # "done" => task'.by = "none",
         task'.found # {} => task'.unanswered \/ task'.cand \in task'.moved
  PROVE  SelectionInv'
  BY Zenon DEF SelectionInv, SelectionExplained

LEMMA AfterQueryFacts == AfterQuery(task) \in {"v1", "default", "done"}
  BY DEF AfterQuery

LEMMA FoundAsIs ==
  ASSUME TaskShape, NEW k, NEW by
  PROVE  Found(k, by) = [Found(k, by) EXCEPT !.cand = k]
  BY Zenon DEF TaskShape, Found

LEMMA KeyStep ==
  ASSUME SelectionInv, UNCHANGED live, GetKey
  PROVE  SelectionInv'
  <1>1. task.pc = "key" /\ task.found = {} /\ task.by = "none" /\ TaskShape
    BY Zenon DEF GetKey, SelectionInv
  <1>2. CASE Has(task.dec.key)
    <2>1. task' = Found(task.dec.key, "key")
      BY <1>2 DEF GetKey
    <2>2. task' = [Found(task.dec.key, "key") EXCEPT !.cand = task.dec.key]
      BY <1>1, <2>1, FoundAsIs, Zenon
    <2> QED
      BY <1>1, <2>2, BareLookup, Zenon
  <1>3. CASE ~Has(task.dec.key)
    <2>1. task' = Reach(AfterKey(task))
      BY <1>3 DEF GetKey
    <2>2. /\ AfterKey(task) \in {"find", "v1", "default", "done"}
          /\ AfterKey(task) = "find" => task.dec.query # NoQuery
      BY AfterQueryFacts DEF AfterKey
    <2> QED
      BY <1>1, <2>1, <2>2, BareLookup
  <1> QED
    BY <1>2, <1>3

LEMMA FindStep ==
  ASSUME SelectionInv, UNCHANGED live, FindByQuery
  PROVE  SelectionInv'
  <1> DEFINE keys == filter(Index, Present, task.dec.query)
  <1>1. /\ task.pc = "find" /\ task.found = {} /\ task.by = "none" /\ TaskShape
        /\ task.dec.query \in Queries /\ task.dec.hint \in Hints
    BY DEF FindByQuery, SelectionInv
  <1>2. CASE keys = {}
    <2>1. task' = Reach(AfterQuery(task))
      BY <1>2, SMTT(30) DEF FindByQuery
    <2> QED
      BY <1>1, <2>1, AfterQueryFacts, BareLookup
  <1>3. CASE keys # {}
    <2>1. task' = [task EXCEPT !.pc = "choose", !.found = keys]
      BY <1>3 DEF FindByQuery
    <2>2. \A k \in keys : k \in Keys /\ Matches(k)
      BY <1>1, FilterSatisfies DEF Matches, Present
    <2> HIDE DEF keys
    <2>3. /\ TaskShape' /\ task'.pc = "choose" /\ task'.found = keys /\ task'.dec = task.dec
          /\ task'.by = "none"
      BY <1>1, <2>1, Zenon DEF TaskShape
    <2>4. \A k \in keys : Matches(k)'
      BY <2>2, <2>3 DEF Matches, Has
    <2> QED
      BY <1>1, <1>3, <2>2, <2>3, <2>4, Zenon DEF SelectionInv, SelectionExplained
  <1> QED
    BY <1>2, <1>3

LEMMA ChooseStep ==
  ASSUME SelectionInv, UNCHANGED live, chooseOne
  PROVE  SelectionInv'
  <1> DEFINE hint == task.dec.hint
             order == chooseOrder(task.found, hint)
             label == prefer(hint)
             asked == strategy(hint) = "prefer" /\ label # NoLabel
             chosen == IF asked THEN task.found \cap Index[label] ELSE {}
  <1>1. /\ task.pc = "choose" /\ task.found # {} /\ task.found \in SUBSET Keys /\ hint \in Hints
        /\ TaskShape /\ task.by = "none" /\ task.dec.query \in Queries \cup {NoQuery}
        /\ \A k \in task.found : k \in task.moved \/ Matches(k)
    BY Zenon DEF chooseOne, SelectionInv
  <1>2. /\ order = <<>> => asked /\ Index[label] = {}
        /\ order # <<>> => Head(order) \in task.found
        /\ order # <<>> /\ asked /\ task.found \cap Index[label] # {} =>
              Head(order) \in task.found \cap Index[label]
    BY <1>1, ChosenFirst, Zenon
  <1>3. CASE order = <<>>
    <2>1. task' = [Reach(AfterQuery(task)) EXCEPT !.unanswered = (Index[label] = {})]
      BY <1>3 DEF chooseOne
    <2>2. (Index[label] = {}) = TRUE
      BY <1>2, <1>3
    <2> HIDE DEF label
    <2>3. /\ TaskShape' /\ task'.pc = AfterQuery(task) /\ task'.dec = task.dec /\ task'.found = task.found
          /\ task'.by = task.by /\ task'.unanswered
      BY <1>1, <2>1, <2>2, ZenonT(30) DEF TaskShape, Reach
    <2> QED
      BY <1>1, <2>3, AfterQueryFacts, PastQuery
  <1>4. CASE order # <<>>
    <2>1. task' = [task EXCEPT !.pc = "get", !.cand = Head(order), !.preferred = chosen]
      BY <1>4 DEF chooseOne
    <2>2. Head(order) \in task.found /\ (chosen # {} => Head(order) \in chosen)
      BY <1>2, <1>4, Zenon
    <2> HIDE DEF order, chosen
    <2>3. /\ TaskShape' /\ task'.pc = "get" /\ task'.dec = task.dec /\ task'.found = task.found
          /\ task'.by = task.by /\ task'.moved = task.moved /\ task'.cand = Head(order)
          /\ task'.preferred = chosen
      BY <1>1, <2>1, Zenon DEF TaskShape
    <2>4. \A k \in task.found : k \in task'.moved \/ Matches(k)'
      BY <1>1, <2>3, Zenon DEF Matches, Has
    <2> QED
      BY <1>1, <2>2, <2>3, <2>4, Zenon DEF SelectionInv, SelectionExplained
  <1> QED
    BY <1>3, <1>4

LEMMA ChosenStep ==
  ASSUME SelectionInv, UNCHANGED live, GetChosen
  PROVE  SelectionInv'
  <1>1. /\ task.pc = "get" /\ task.cand \in task.found /\ (task.cand \in task.moved \/ Matches(task.cand))
        /\ task.preferred # {} => task.cand \in task.preferred
        /\ TaskShape /\ task.by = "none"
    BY SMTT(30), Zenon DEF GetChosen, SelectionInv
  <1>2. CASE Has(task.cand)
    <2>1. task' = Found(task.cand, "query")
      BY <1>2 DEF GetChosen
    <2>2. /\ TaskShape' /\ task'.pc = "done" /\ task'.dec = task.dec /\ task'.found = task.found
          /\ task'.moved = task.moved /\ task'.cand = task.cand /\ task'.by = "query"
          /\ task'.row = live.targets[task.cand] /\ task'.preferred = task.preferred
      BY <1>1, <2>1, Zenon DEF TaskShape, Found
    <2> QED
      BY <1>1, <2>2, Zenon DEF SelectionInv, SelectionExplained, Matches
  <1>3. CASE ~Has(task.cand)
    <2>1. task' = Reach(AfterQuery(task)) /\ task.cand \in task.moved
      BY <1>1, <1>3 DEF GetChosen, Matches
    <2> QED
      BY <1>1, <2>1, TaskKept, AfterQueryFacts, PastQuery
  <1> QED
    BY <1>2, <1>3

LEMMA FallbackStep ==
  ASSUME SelectionInv, UNCHANGED live, GetV1 \/ Default
  PROVE  SelectionInv'
  <1>1. /\ task.pc \in {"v1", "default"} /\ TaskShape /\ task.by = "none"
        /\ task.found # {} => task.unanswered \/ task.cand \in task.moved
    BY Zenon DEF GetV1, Default, SelectionInv
  <1>2. \/ \E k, by : by \in {"v1", "default"} /\ task' = [Found(k, by) EXCEPT !.cand = task.cand]
        \/ task' = Reach("default")
        \/ task' = Reach("done")
    BY DEF GetV1, Default
  <1>3. ASSUME NEW k, NEW by \in {"v1", "default"}, task' = [Found(k, by) EXCEPT !.cand = task.cand]
        PROVE  SelectionInv'
    <2>1. /\ TaskShape' /\ task'.pc = "done" /\ task'.dec = task.dec /\ task'.found = task.found
          /\ task'.moved = task.moved /\ task'.cand = task.cand /\ task'.by = by
          /\ task'.unanswered = task.unanswered
      BY <1>1, <1>3, Zenon DEF TaskShape, Found
    <2> QED
      BY <1>1, <1>3, <2>1, PastQuery
  <1>4. ASSUME task' = Reach("default") \/ task' = Reach("done") PROVE SelectionInv'
    BY <1>1, <1>4, TaskKept, PastQuery
  <1> QED
    BY <1>2, <1>3, <1>4

\* A step of the watcher or of the admin API: what it replaces under a call
\* that has found its targets, moved records.
LEMMA ReplacedUnder ==
  ASSUME SelectionInv, task.pc # "done",
         task' = IF task.pc \notin {"choose", "get"} THEN task
                 ELSE [task EXCEPT !.moved = @ \cup {k \in Keys : live'.targets[k] # live.targets[k]}]
  PROVE  SelectionInv'
  <1> DEFINE new == {k \in Keys : live'.targets[k] # live.targets[k]}
  <1>1. CASE task.pc \notin {"choose", "get"}
    BY <1>1, Zenon DEF SelectionInv, SelectionExplained, TaskShape
  <1>2. CASE task.pc \in {"choose", "get"}
    <2>1. TaskShape /\ task' = [task EXCEPT !.moved = task.moved \cup new]
      BY <1>2 DEF SelectionInv
    <2>2. \A k \in Keys : k \notin new => live'.targets[k] = live.targets[k]
      OBVIOUS
    <2> HIDE DEF new
    <2>3. /\ TaskShape' /\ task'.pc = task.pc /\ task'.dec = task.dec /\ task'.found = task.found
          /\ task'.moved = task.moved \cup new /\ task'.cand = task.cand /\ task'.by = task.by
          /\ task'.preferred = task.preferred
      BY <2>1, Zenon DEF TaskShape
    <2>4. ASSUME NEW k \in task.found, k \in task.moved \/ Matches(k)
          PROVE  k \in task'.moved \/ Matches(k)'
      <3>1. k \in Keys
        BY DEF SelectionInv
      <3> QED
        BY <2>2, <2>3, <2>4, <3>1 DEF Matches, Has
    <2> QED
      BY <1>2, <2>3, <2>4, Zenon DEF SelectionInv, SelectionExplained
  <1> QED
    BY <1>1, <1>2

LEMMA NextSelection == SelectionInv /\ [SelectionNext]_<<vars, task>> => SelectionInv'
  <1> SUFFICES ASSUME SelectionInv, [SelectionNext]_<<vars, task>> PROVE SelectionInv'
    OBVIOUS
  <1>1. CASE UNCHANGED <<vars, task>>
    <2>1. live' = live /\ task' = task
      BY <1>1 DEF vars
    <2> QED
      BY <2>1, Zenon DEF SelectionInv, SelectionExplained, TaskShape, Matches, Has
  <1>2. CASE Call /\ UNCHANGED vars
    <2>1. live' = live
      BY <1>2 DEF vars
    <2>2. CASE Return
      <3>1. task' = Idle
        BY <2>2 DEF Return
      <3> QED
        BY <3>1, IdleSelection, NothingFound, Zenon DEF TaskShape, Idle, Fresh
    <2> QED
      BY <1>2, <2>1, <2>2, StartSelection, KeyStep, FindStep, ChooseStep, ChosenStep, FallbackStep
         DEF Call
  <1>3. CASE /\ task.pc # "done" /\ Next
             /\ task' = IF task.pc \notin {"choose", "get"} THEN task
                        ELSE [task EXCEPT !.moved = @ \cup
                                {k \in Keys : live'.targets[k] # live.targets[k]}]
    BY <1>3, ReplacedUnder
  <1> QED
    BY <1>1, <1>2, <1>3 DEF SelectionNext

\* SelectionExplained for every set of keys and labels, every decision and any
\* number of replacements under a call of pickTarget or RunWithTarget: a call
\* whose query matches goes to a match, with the preferred label if a match has
\* it, unless no target had that label or its target was replaced.
THEOREM SelectionSound == SelectionSpec => []SelectionExplained
  <1>1. SelectionInv => SelectionExplained
    BY Zenon DEF SelectionInv
  <1> QED
    BY InitSelection, NextSelection, <1>1, PTL DEF SelectionSpec
=============================================================================
