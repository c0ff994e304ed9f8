---------------------------- MODULE WidgetProofs ----------------------------
(***************************************************************************)
(* Proofs about one server's widgets, for every set of ids, names, paths   *)
(* and requests and every size of a subscriber's channel: what its feed    *)
(* brings to the registry, and what the registry brings to a client.       *)
(***************************************************************************)
EXTENDS WidgetSync, TLAPS

-----------------------------------------------------------------------------
(***************************************************************************)
(* What every step of the feeds and of the stream keeps.                   *)
(***************************************************************************)
Request == {Idle} \cup [pc : {"patch"}, id : Ids, row : Widget]
           \cup [pc : {"publish"}, id : Ids, type : {"upsert", "remove"}]
Message == [type : {"upsert", "remove"}, id : Ids] \cup [type : {"reload"}]
Task == {NoTask} \cup [pc : {"upsert"}, id : Ids, row : Widget \cup {NoWidget}]
        \cup [pc : {"reload"}, rows : UNION {[S -> Widget] : S \in SUBSET Ids}]
Event == [id : Ids, item : Widget \cup {NoWidget}]

FeedType ==
    /\ items \in Items /\ rows \in Items /\ behind \subseteq Ids
    /\ call \in [Callers -> Request] /\ chan \in Seq(Message) /\ task \in Task
    /\ files \in [Paths -> FileWidget \cup {NoFile, BadFile}] /\ changed \subseteq Paths
    /\ known \in [Paths -> Ids \cup {NoWidget}]
    /\ scan \in [on : BOOLEAN, todo : SUBSET Paths, upserts : Items, removes : SUBSET Ids]

\* A path from which id got the widget w, unless applyPaths has still to look at
\* it again or its file has become invalid.
Source(q, id, w) ==
    /\ known[q] = id
    /\ q \in changed \cup scan.todo \/ files[q] \in {BadFile, [id |-> id, w |-> w]}

\* A path that applyPaths has looked at since its last change, with a widget id.
Provides(q, id) ==
    q \notin changed \cup scan.todo /\ files[q] \in FileWidget /\ files[q].id = id

DirectoryInv ==
    /\ ~scan.on => scan = NoScan
    /\ \A id \in Upserted : \E q \in Paths \ scan.todo : Source(q, id, scan.upserts[id])
    /\ \A id \in Ids \ (orphans \cup clashes \cup scan.removes \cup Upserted) :
          items[id] # NoWidget => \E q \in Paths : Source(q, id, items[id])
    /\ \A id \in Ids \ (clashes \cup Upserted) :
          (\E q \in Paths : Provides(q, id)) => items[id] # NoWidget

About(i, id) == chan[i].type # "reload" /\ chan[i].id = id
\* The registry's item for id when the subscriber's task is done.
Shown(id) == IF task.pc = "upsert" /\ task.id = id THEN task.row
             ELSE IF task.pc = "reload" /\ id \in DOMAIN task.rows THEN task.rows[id]
             ELSE items[id]
\* The last message about id, or else the task, brings the row of the table.
LastBrings(id) ==
    \A i \in DOMAIN chan :
       About(i, id) /\ (\A j \in DOMAIN chan : About(j, id) => j <= i) =>
           chan[i].type = "upsert" \/ rows[id] = NoWidget
Following(id) ==
    LastBrings(id) /\ ((\A i \in DOMAIN chan : ~About(i, id)) => Shown(id) = rows[id])
Publishing(id) == \E c \in Callers : call[c].pc = "publish" /\ call[c].id = id

ReplicaInv ==
    /\ conn = "start" => items = Absent /\ chan = <<>> /\ task = NoTask
    /\ conn # "start" => \A id \in Ids \ behind : Publishing(id) \/ Following(id)

\* The last event about id in the client's channel has its item; without one the
\* client's view has it.
Streamed(id) ==
    /\ \A i \in DOMAIN buf :
          buf[i].id = id /\ (\A j \in DOMAIN buf : buf[j].id = id => j <= i) => buf[i].item = items[id]
    /\ (\A i \in DOMAIN buf : buf[i].id # id) => view[id] = items[id]

\* The events still to be sent agree with the registry, an upsert of an id that is
\* removed too counting with its remove; an id without one is streamed.
StreamInv ==
    /\ outbox \subseteq Event /\ buf \in Seq(Event) /\ Len(buf) <= SubBuffer
    /\ view \in Items /\ addressed \in BOOLEAN /\ dropped \in BOOLEAN /\ sub \in BOOLEAN
    /\ addressed => sub
    /\ feed = "redis" /\ conn = "start" => ~sub
    /\ (feed = "redis" /\ (conn = "start" \/ task # NoTask)) \/ (feed = "directory" /\ scan.on) => outbox = {}
    /\ \A e \in outbox :
          /\ e.item = NoWidget => items[e.id] = NoWidget
          /\ e.item # NoWidget =>
                e.item = items[e.id] \/ [id |-> e.id, item |-> NoWidget] \in outbox
    /\ sub /\ ~dropped => \A id \in Ids : (addressed /\ \E e \in outbox : e.id = id) \/ Streamed(id)

\* ApplyDiff: a removed id goes, even if it is upserted too.
LEMMA ApplyDiffItems ==
  ASSUME items \in Items, NEW upserts, NEW removes, ApplyDiff(upserts, removes),
         \A id \in DOMAIN upserts : upserts[id] \in Widget
  PROVE  /\ items' \in Items
         /\ \A id \in Ids : items'[id] = IF id \in removes THEN NoWidget
                                         ELSE IF id \in DOMAIN upserts THEN upserts[id]
                                         ELSE items[id]
  BY Zenon DEF ApplyDiff, Items

\* The first state is well typed.
LEMMA FeedTypeInit == Init => FeedType
  <1> SUFFICES ASSUME Init PROVE FeedType
    OBVIOUS
  <1>1. items \in Items /\ rows \in Items /\ behind \subseteq Ids
    BY Zenon DEF Init, RegistryInit, ReplicaInit, Items, Absent, Manifests
  <1>2. call \in [Callers -> Request] /\ chan \in Seq(Message) /\ task \in Task
    BY DEF Init, ReplicaInit, Request, Task
  <1>3. /\ files \in [Paths -> FileWidget \cup {NoFile, BadFile}] /\ changed \subseteq Paths
        /\ known \in [Paths -> Ids \cup {NoWidget}]
        /\ scan \in [on : BOOLEAN, todo : SUBSET Paths, upserts : Items, removes : SUBSET Ids]
    BY Zenon DEF Init, DirectoryInit, NoScan, Items, Absent
  <1> QED
    BY <1>1, <1>2, <1>3, Zenon DEF FeedType

-----------------------------------------------------------------------------
(***************************************************************************)
(* The directory.                                                          *)
(***************************************************************************)
DirectoryType ==
    /\ files \in [Paths -> FileWidget \cup {NoFile, BadFile}] /\ changed \subseteq Paths
    /\ known \in [Paths -> Ids \cup {NoWidget}]
    /\ scan \in [on : BOOLEAN, todo : SUBSET Paths, upserts : Items, removes : SUBSET Ids]

\* A change of the directory: every path whose file differs is in changed.
LEMMA EditStep ==
  ASSUME FeedType, DirectoryInv, NEW after \in [Paths -> FileWidget \cup {NoFile, BadFile}],
         Edit(after), UNCHANGED items
  PROVE  DirectoryType' /\ DirectoryInv'
  <1>1. /\ files' = after /\ changed' = changed \cup {p \in Paths : after[p] # files[p]}
        /\ UNCHANGED <<known, scan, orphans, clashes, items>>
    BY Zenon DEF Edit
  <1>2. \A q \in Paths : \A id, w : Source(q, id, w) => Source(q, id, w)'
    BY <1>1, Zenon DEF Source, FeedType
  <1>3. \A q \in Paths : \A id : Provides(q, id)' => Provides(q, id)
    BY <1>1, Zenon DEF Provides, FeedType
  <1>4. Upserted' = Upserted
    BY <1>1, Zenon DEF Upserted
  <1>5. DirectoryType'
    BY <1>1, Zenon DEF FeedType, DirectoryType
  <1> QED
    BY <1>1, <1>2, <1>3, <1>4, <1>5, Zenon DEF DirectoryInv

\* The tick hands paths over from the collected ones to applyPaths.
LEMMA TickStep ==
  ASSUME FeedType, DirectoryInv, NEW paths, Tick(paths), UNCHANGED items
  PROVE  DirectoryType' /\ DirectoryInv'
  <1>1. /\ scan = NoScan /\ scan' = [NoScan EXCEPT !.on = TRUE, !.todo = paths]
        /\ changed' = changed \ paths /\ paths \subseteq changed
        /\ UNCHANGED <<files, known, orphans, clashes, items>>
    BY Zenon DEF Tick, DirectoryInv
  <1>2. /\ scan.todo = {} /\ scan'.todo = paths /\ scan'.on
        /\ scan'.upserts = scan.upserts /\ scan'.removes = scan.removes
        /\ scan.upserts = Absent /\ scan.removes = {}
    BY <1>1, Zenon DEF NoScan
  <1>3. \A q \in Paths : \A id, w : Source(q, id, w) => Source(q, id, w)'
    BY <1>1, <1>2, Zenon DEF Source
  <1>4. \A q \in Paths : \A id : Provides(q, id)' => Provides(q, id)
    BY <1>1, <1>2, Zenon DEF Provides
  <1>5. Upserted' = {} /\ Upserted = {}
    BY <1>2, Zenon DEF Upserted, Absent
  <1>6. DirectoryType'
    BY <1>1, <1>2, Zenon DEF FeedType, DirectoryType, NoScan, Items, Absent
  <1> QED
    BY <1>1, <1>2, <1>3, <1>4, <1>5, <1>6, Zenon DEF DirectoryInv

\* applyPaths looks at one path and loads nothing from it.
LEMMA ScanUnloadedStep ==
  ASSUME FeedType, DirectoryInv, NEW p \in Paths, ScanGone(p) \/ ScanSkipped(p), UNCHANGED items
  PROVE  DirectoryType' /\ DirectoryInv'
  <1>1. /\ p \in scan.todo /\ scan'.todo = scan.todo \ {p} /\ scan'.on = scan.on
        /\ scan'.upserts = scan.upserts /\ files[p] \in {NoFile, BadFile}
        /\ UNCHANGED <<files, changed, orphans, clashes, items>>
        /\ \/ /\ scan'.removes = scan.removes \cup ({known[p]} \ {NoWidget})
              /\ known' = [known EXCEPT ![p] = NoWidget]
           \/ /\ scan'.removes = scan.removes /\ known' = known
              /\ files[p] = BadFile \/ p \in changed
    BY Zenon DEF ScanGone, ScanSkipped, FeedType
  <1>2. scan.on
    BY <1>1 DEF DirectoryInv, NoScan
  <1>3. DirectoryType'
    BY <1>1 DEF ScanGone, ScanSkipped, FeedType, DirectoryType
  <1>4. Upserted' = Upserted
    BY <1>1, Zenon DEF Upserted
  <1>5. \A q \in Paths \ {p} : \A id, w : Source(q, id, w) => Source(q, id, w)'
    BY <1>1, Zenon DEF Source, FeedType
  <1>6. \A id \in Ids : \A w : Source(p, id, w) => Source(p, id, w)' \/ id \in scan'.removes
    BY <1>1, RegistryAssumption, Zenon DEF Source, FeedType
  <1>7. \A q \in Paths : \A id : Provides(q, id)' => Provides(q, id)
    BY <1>1, DirectoryAssumption DEF Provides, FileWidget, Manifests
  <1>8. scan.removes \subseteq scan'.removes
    BY <1>1, Zenon
  <1> QED
    BY <1>1, <1>2, <1>3, <1>4, <1>5, <1>6, <1>7, <1>8 DEF DirectoryInv, Upserted

\* applyPaths loads the widget of one path, which becomes its source.
LEMMA ScanLoadedStep ==
  ASSUME FeedType, DirectoryInv, NEW p \in Paths, ScanLoaded(p), UNCHANGED items
  PROVE  DirectoryType' /\ DirectoryInv'
  <1> DEFINE f == files[p]
  <1>1. /\ p \in scan.todo /\ scan'.todo = scan.todo \ {p} /\ scan'.on = scan.on
        /\ scan'.upserts = [scan.upserts EXCEPT ![f.id] = f.w] /\ scan'.removes = scan.removes
        /\ f \in FileWidget /\ f \notin {NoFile, BadFile} /\ known' = [known EXCEPT ![p] = f.id]
        /\ orphans' = orphans \cup ({known[p]} \ {NoWidget, f.id})
        /\ UNCHANGED <<files, changed, clashes, items>>
    BY Zenon DEF ScanLoaded, FeedType
  <1>2. f.id \in Ids /\ f.w \in Widget /\ f.w # NoWidget /\ f = [id |-> f.id, w |-> f.w]
    BY <1>1, RegistryAssumption, Zenon DEF FileWidget, Manifests, Widget
  <1>3. scan.on
    BY <1>1 DEF DirectoryInv, NoScan
  <1>4. DirectoryType'
    BY <1>1, <1>2, Zenon DEF ScanLoaded, FeedType, DirectoryType, Items
  <1>5. /\ Upserted' = Upserted \cup {f.id} /\ scan'.upserts[f.id] = f.w
        /\ \A id \in Ids \ {f.id} : scan'.upserts[id] = scan.upserts[id]
    BY <1>1, <1>2 DEF Upserted, FeedType, Items
  <1>6. Source(p, f.id, f.w)'
    BY <1>1, <1>2, Zenon DEF Source, FeedType
  <1>7. \A q \in Paths \ {p} : \A id, w : Source(q, id, w) => Source(q, id, w)'
    BY <1>1, Zenon DEF Source, FeedType
  <1>8. \A id \in Ids : \A w : Source(p, id, w) => id \in orphans' \cup {f.id}
    BY <1>1, RegistryAssumption, Zenon DEF Source
  <1>9. \A q \in Paths : \A id : Provides(q, id)' => Provides(q, id) \/ id = f.id
    BY <1>1, Zenon DEF Provides
  <1>10. \A id \in Upserted' : \E q \in Paths \ scan'.todo : Source(q, id, scan.upserts[id])'
    <2> TAKE id \in Upserted'
    <2>1. CASE id = f.id
      BY <1>1, <1>5, <1>6, <2>1, Zenon
    <2>2. CASE id # f.id
      <3>1. PICK q \in Paths \ scan.todo : Source(q, id, scan.upserts[id])
        BY <1>5, <2>2, Zenon DEF DirectoryInv
      <3> QED
        BY <1>1, <1>5, <1>7, <2>2, <3>1, Zenon DEF Upserted
    <2> QED
      BY <2>1, <2>2, Zenon
  <1>11. ASSUME NEW id \in Ids \ (orphans' \cup clashes' \cup scan'.removes \cup Upserted'),
                items'[id] # NoWidget
         PROVE  \E q \in Paths : Source(q, id, items[id])'
    <2>1. PICK q \in Paths : Source(q, id, items[id])
      BY <1>1, <1>5, <1>11, Zenon DEF DirectoryInv
    <2> QED
      BY <1>1, <1>5, <1>7, <1>8, <1>11, <2>1
  <1> QED
    BY <1>1, <1>3, <1>4, <1>5, <1>9, <1>10, <1>11, Zenon DEF DirectoryInv

\* The end of applyPaths: an item that was loaded has its source, and one that
\* was removed although a path provides it is a clash.
LEMMA ScanEndsStep ==
  ASSUME FeedType, DirectoryInv, ScanEnds
  PROVE  DirectoryType' /\ items' \in Items /\ DirectoryInv'
  <1> DEFINE ups == [id \in Upserted |-> scan.upserts[id]]
  <1>1. /\ scan.todo = {} /\ scan' = NoScan
        /\ UNCHANGED <<files, changed, known>>
    BY Zenon DEF ScanEnds
  <1>2. scan'.todo = {} /\ scan'.removes = {} /\ Upserted' = {}
    BY <1>1, Zenon DEF NoScan, Upserted, Absent
  <1>3. DirectoryType'
    BY <1>1, Zenon DEF FeedType, DirectoryType, NoScan, Items, Absent
  <1>4. /\ \A q \in Paths : \A id, w : Source(q, id, w)' = Source(q, id, w)
        /\ \A q \in Paths : \A id : Provides(q, id)' = Provides(q, id)
    BY <1>1, <1>2, Zenon DEF Source, Provides
  <1>5. CASE Upserted \cup scan.removes = {}
    <2>1. UNCHANGED <<items, clashes, orphans>>
      BY <1>5, Zenon DEF ScanEnds
    <2> QED
      BY <1>1, <1>2, <1>3, <1>4, <1>5, <2>1 DEF DirectoryInv, FeedType
  <1>6. CASE Upserted \cup scan.removes # {}
    <2>1. /\ ApplyDiff(ups, scan.removes)
          /\ clashes' = (clashes \ Upserted) \cup {id \in scan.removes : id \in Upserted \/ Held(id) # {}}
          /\ orphans' = orphans \ (Upserted \cup scan.removes)
      BY <1>6, Zenon DEF ScanEnds
    <2>2. \A id \in DOMAIN ups : ups[id] \in Widget
      BY Zenon DEF FeedType, Items, Upserted
    <2>3. /\ items' \in Items
          /\ \A id \in Ids : items'[id] = IF id \in scan.removes THEN NoWidget
                                          ELSE IF id \in Upserted THEN scan.upserts[id]
                                          ELSE items[id]
      BY <2>1, <2>2, ApplyDiffItems DEF FeedType
    <2>4. \A id \in Ids \ (orphans' \cup clashes') :
             items'[id] # NoWidget => \E q \in Paths : Source(q, id, items'[id])
      <3> SUFFICES ASSUME NEW id \in Ids \ (orphans' \cup clashes'), items'[id] # NoWidget
                   PROVE  \E q \in Paths : Source(q, id, items'[id])
        BY Zenon
      <3>1. id \notin scan.removes
        BY <2>3, Zenon
      <3>2. CASE id \in Upserted
        BY <2>3, <3>1, <3>2, Zenon DEF DirectoryInv
      <3>3. CASE id \notin Upserted
        BY <2>1, <2>3, <3>1, <3>3, Zenon DEF DirectoryInv
      <3> QED
        BY <3>2, <3>3
    <2>5. \A id \in Ids \ clashes' : (\E q \in Paths : Provides(q, id)) => items'[id] # NoWidget
      <3> SUFFICES ASSUME NEW id \in Ids \ clashes', NEW q \in Paths, Provides(q, id)
                   PROVE  items'[id] # NoWidget
        OBVIOUS
      <3>1. Held(id) # {}
        BY DirectoryAssumption DEF Held, Provides, FileWidget, Manifests
      <3>2. id \notin scan.removes
        BY <2>1, <3>1, Zenon
      <3>3. CASE id \in Upserted
        BY <2>3, <3>2, <3>3, Zenon DEF Upserted
      <3>4. CASE id \notin Upserted
        BY <2>1, <2>3, <3>2, <3>4, Zenon DEF DirectoryInv
      <3> QED
        BY <3>3, <3>4
    <2> QED
      BY <1>1, <1>2, <1>3, <1>4, <2>3, <2>4, <2>5 DEF DirectoryInv
  <1> QED
    BY <1>5, <1>6

\* Every step of the watcher and of the directory keeps DirectoryInv.
LEMMA DirectoryStep ==
  ASSUME FeedType, DirectoryInv, DirectoryNext
  PROVE  DirectoryType' /\ items' \in Items /\ DirectoryInv'
  <1> DEFINE File == FileWidget \cup {NoFile, BadFile}
  <1>1. CASE ScanEnds
    BY <1>1, ScanEndsStep
  <1>2. CASE UNCHANGED registryVars /\ \E p \in Paths, f \in File : WriteFile(p, f)
    <2>1. PICK p \in Paths, f \in File : WriteFile(p, f)
      BY <1>2
    <2>2. [files EXCEPT ![p] = f] \in [Paths -> File] /\ UNCHANGED items
      BY <1>2, Zenon DEF FeedType, registryVars
    <2> QED
      BY <2>1, <2>2, EditStep, Zenon DEF WriteFile, FeedType
  <1>3. CASE UNCHANGED registryVars /\ \E p, q \in Paths : RenameFile(p, q)
    <2>1. PICK p \in Paths, q \in Paths : RenameFile(p, q)
      BY <1>3
    <2>2. [files EXCEPT ![p] = NoFile, ![q] = files[p]] \in [Paths -> File] /\ UNCHANGED items
      BY <1>3, Zenon DEF FeedType, registryVars
    <2> QED
      BY <2>1, <2>2, EditStep, Zenon DEF RenameFile, FeedType
  <1>4. CASE UNCHANGED registryVars /\ \E paths \in SUBSET changed : Tick(paths)
    BY <1>4, TickStep, Zenon DEF FeedType, registryVars
  <1>5. CASE UNCHANGED registryVars /\ \E p \in scan.todo : ScanGone(p) \/ ScanSkipped(p) \/ ScanLoaded(p)
    <2>1. PICK p \in Paths : ScanGone(p) \/ ScanSkipped(p) \/ ScanLoaded(p)
      BY <1>5, Zenon DEF FeedType
    <2> QED
      BY <1>5, <2>1, ScanUnloadedStep, ScanLoadedStep, Zenon DEF FeedType, registryVars
  <1>6. (\E p \in Paths : RemoveFile(p)) => \E p \in Paths, f \in File : WriteFile(p, f)
    BY Zenon DEF RemoveFile, WriteFile
  <1> QED
    BY <1>1, <1>2, <1>3, <1>4, <1>5, <1>6, Zenon DEF DirectoryNext

\* What DirectoryInv says of a watcher that has nothing left to do.
LEMMA DirectorySettled ==
  ASSUME FeedType, DirectoryInv, changed = {}, ~scan.on, NEW id \in Ids
  PROVE  items[id] \in Wanted(id) \/ id \in orphans \cup clashes \/ KeptByBadFile(id)
  <1>1. scan.todo = {} /\ scan.removes = {} /\ Upserted = {}
    BY DEF DirectoryInv, NoScan, Upserted, Absent
  <1> SUFFICES ASSUME id \notin orphans \cup clashes, ~KeptByBadFile(id)
               PROVE  items[id] \in Wanted(id)
    BY Zenon
  <1>2. CASE items[id] # NoWidget
    <2>1. PICK q \in Paths : Source(q, id, items[id])
      BY <1>1, <1>2, Zenon DEF DirectoryInv
    <2>2. files[q] = [id |-> id, w |-> items[id]]
      BY <1>1, <2>1, Zenon DEF Source, KeptByBadFile
    <2>3. files[q] \notin {NoFile, BadFile}
      BY <1>2, <2>2, DirectoryAssumption DEF FeedType, Items
    <2>4. items[id] \in Held(id)
      BY <2>2, <2>3 DEF Held
    <2> QED
      BY <2>4 DEF Wanted
  <1>3. CASE items[id] = NoWidget
    <2>1. \A q \in Paths : ~Provides(q, id)
      BY <1>1, <1>3, Zenon DEF DirectoryInv
    <2>2. Held(id) = {}
      BY <1>1, <2>1, Zenon DEF Held, Provides, FeedType
    <2> QED
      BY <1>3, <2>2 DEF Wanted
  <1> QED
    BY <1>2, <1>3, Zenon

-----------------------------------------------------------------------------
(***************************************************************************)
(* The replica of the widgets table.                                       *)
(***************************************************************************)
ReplicaType ==
    /\ rows \in Items /\ behind \subseteq Ids
    /\ call \in [Callers -> Request] /\ chan \in Seq(Message) /\ task \in Task

LEMMA RequestFacts ==
  ASSUME FeedType, NEW c \in Callers
  PROVE  /\ call[c].pc = "publish" => call[c].id \in Ids /\ call[c].type \in {"upsert", "remove"}
         /\ call[c].pc = "patch" => call[c].id \in Ids /\ call[c].row \in Widget
         /\ call[c] = Idle => call[c].pc = "idle"
  BY DEF FeedType, Request, Idle

LEMMA MessageFacts ==
  ASSUME FeedType, NEW i \in DOMAIN chan
  PROVE  /\ chan[i] \in Message /\ chan[i].type \in {"upsert", "remove", "reload"}
         /\ chan[i].type # "reload" => chan[i].id \in Ids
  BY DEF FeedType, Message

\* A request wrote the row of id; unless the server has yet to load the table it
\* is then about to notify, or the server is behind.
Wrote(c, id) ==
    /\ rows' \in Items /\ \A i \in Ids \ {id} : rows'[i] = rows[i]
    /\ call' \in [Callers -> Request] /\ \A d \in Callers \ {c} : call'[d] = call[d]
    /\ call[c].pc # "publish"
    /\ (call'[c].pc = "publish" /\ call'[c].id = id) \/ conn = "start" \/ id \in behind'
    /\ behind \subseteq behind' /\ behind' \subseteq Ids
    /\ UNCHANGED <<conn, chan, task>>

LEMMA CommittedFacts ==
  ASSUME FeedType, NEW c \in Callers, NEW id \in Ids, NEW row \in Widget \cup {NoWidget},
         NEW msg \in {"upsert", "remove"}, NEW answered,
         rows' = [rows EXCEPT ![id] = row], Committed(c, id, msg, answered), call[c].pc # "publish"
  PROVE  Wrote(c, id)
  <1> DEFINE pub == [pc |-> "publish", id |-> id, type |-> msg]
  <1>1. pub \in Request /\ pub.pc = "publish" /\ pub.id = id /\ Idle \in Request
    BY Zenon DEF Request
  <1>2. rows' \in Items /\ \A i \in Ids \ {id} : rows'[i] = rows[i]
    BY Zenon DEF FeedType, Items
  <1>3. /\ UNCHANGED <<conn, chan, task>>
        /\ \/ call' = [call EXCEPT ![c] = pub] /\ behind' = behind
           \/ /\ call' = [call EXCEPT ![c] = Idle]
              /\ behind' = IF conn = "start" THEN behind ELSE behind \cup {id}
    BY Zenon DEF Committed
  <1> QED
    BY <1>1, <1>2, <1>3 DEF Wrote, FeedType

LEMMA CallStepFacts ==
  ASSUME FeedType, NEW c \in Callers, CallStep(c)
  PROVE  \/ \E id \in Ids : Wrote(c, id)
         \/ /\ call' \in [Callers -> Request] /\ \A d \in Callers \ {c} : call'[d] = call[d]
            /\ call[c].pc # "publish"
            /\ UNCHANGED <<rows, conn, chan, task, behind>>
  <1>1. ASSUME NEW id \in TableIds, NEW answered \in BOOLEAN, NEW w \in Manifests,
               HandleUpload(c, id, w, answered)
        PROVE  \E i \in Ids : Wrote(c, i)
    <2>1. id \in Ids /\ w \in Widget /\ call[c].pc # "publish"
      BY <1>1, ReplicaAssumption, RequestFacts, Zenon DEF HandleUpload, Manifests
    <2> QED
      BY <1>1, <2>1, CommittedFacts, Zenon DEF HandleUpload, RepoUpsert
  <1>2. ASSUME NEW id \in TableIds, NEW answered \in BOOLEAN, DeleteWidget(c, id, answered)
        PROVE  \E i \in Ids : Wrote(c, i)
    <2>1. id \in Ids /\ call[c].pc # "publish"
      BY <1>2, ReplicaAssumption, RequestFacts, Zenon DEF DeleteWidget
    <2> QED
      BY <1>2, <2>1, CommittedFacts, Zenon DEF DeleteWidget, RepoRemove
  <1>3. ASSUME NEW p \in Patches, NEW answered \in BOOLEAN, PatchWrite(c, p, answered)
        PROVE  \E i \in Ids : Wrote(c, i)
    <2>1. call[c].pc = "patch" /\ call[c].id \in Ids /\ call[c].row \in Widget
      BY <1>3, RequestFacts, Zenon DEF PatchWrite
    <2>2. patched(call[c].row, p) \in Widget
      BY <1>3, <2>1, Zenon DEF patched, Patches, Widget
    <2> QED
      BY <1>3, <2>1, <2>2, CommittedFacts, Zenon DEF PatchWrite, RepoUpsert
  <1>4. ASSUME NEW id \in TableIds, PatchRead(c, id)
        PROVE  /\ call' \in [Callers -> Request] /\ \A d \in Callers \ {c} : call'[d] = call[d]
               /\ call[c].pc # "publish"
               /\ UNCHANGED <<rows, conn, chan, task, behind>>
    <2> DEFINE new == [pc |-> "patch", id |-> id, row |-> rows[id]]
    <2>1. /\ call' = [call EXCEPT ![c] = new] /\ id \in Present /\ call[c] = Idle
          /\ UNCHANGED <<rows, conn, chan, task, behind>>
      BY <1>4, Zenon DEF PatchRead, RepoGetByID
    <2>2. new \in Request
      BY <2>1, ReplicaAssumption, Zenon DEF Present, FeedType, Items, Request
    <2> QED
      BY <2>1, <2>2, RequestFacts, Zenon DEF FeedType
  <1> QED
    BY <1>1, <1>2, <1>3, <1>4, Zenon DEF CallStep

\* A change of the table leaves the other ids alone.
LEMMA CallStepAgrees ==
  ASSUME FeedType, ReplicaInv, NEW c \in Callers, CallStep(c), UNCHANGED items
  PROVE  ReplicaType' /\ ReplicaInv'
  <1>1. \A id \in Ids : Publishing(id) /\ (call[c].pc = "publish" => call[c].id # id)
                           /\ (\A d \in Callers \ {c} : call'[d] = call[d]) => Publishing(id)'
    BY Zenon DEF Publishing
  <1>2. \A id \in Ids : rows'[id] = rows[id] /\ UNCHANGED <<items, chan, task>> /\ Following(id) => Following(id)'
    BY Zenon DEF Following, LastBrings, Shown, About
  <1>3. CASE \E id \in Ids : Wrote(c, id)
    <2>1. PICK w \in Ids : Wrote(c, w)
      BY <1>3
    <2>2. /\ UNCHANGED <<conn, chan, task>> /\ call[c].pc # "publish"
          /\ \A d \in Callers \ {c} : call'[d] = call[d]
          /\ \A i \in Ids \ {w} : rows'[i] = rows[i]
          /\ behind \subseteq behind'
          /\ conn = "start" \/ w \in behind' \/ Publishing(w)'
      BY <2>1, Zenon DEF Wrote, Publishing
    <2>3. ReplicaType'
      BY <2>1, Zenon DEF Wrote, ReplicaType, FeedType
    <2>4. conn' # "start" => \A id \in Ids \ behind' : Publishing(id)' \/ Following(id)'
      BY <1>1, <1>2, <2>2, Zenon DEF ReplicaInv
    <2> QED
      BY <2>2, <2>3, <2>4, Zenon DEF ReplicaInv
  <1>4. CASE /\ call' \in [Callers -> Request] /\ \A d \in Callers \ {c} : call'[d] = call[d]
             /\ call[c].pc # "publish"
             /\ UNCHANGED <<rows, conn, chan, task, behind>>
    BY <1>1, <1>2, <1>4, Zenon DEF ReplicaInv, ReplicaType, FeedType
  <1> QED
    BY <1>3, <1>4, CallStepFacts, Zenon

\* One more message: it brings the row of the id it is about, and says nothing
\* about the others.
LEMMA AppendFollows ==
  ASSUME FeedType, NEW m \in Message, chan' = Append(chan, m), UNCHANGED <<rows, items, task>>,
         NEW id \in Ids
  PROVE  /\ (m.type = "reload" \/ m.id # id) /\ Following(id) => Following(id)'
         /\ m.type # "reload" /\ m.id = id /\ (m.type = "upsert" \/ rows[id] = NoWidget) => Following(id)'
  <1>1. /\ chan \in Seq(Message) /\ chan' \in Seq(Message) /\ Len(chan') = Len(chan) + 1
        /\ DOMAIN chan = 1..Len(chan) /\ DOMAIN chan' = 1..Len(chan)+1 /\ Len(chan) \in Nat
        /\ chan'[Len(chan) + 1] = m /\ \A i \in DOMAIN chan : chan'[i] = chan[i]
    BY DEF FeedType
  <1>2. /\ \A i \in DOMAIN chan : i \in DOMAIN chan' /\ (About(i, id)' <=> About(i, id))
        /\ \A i \in DOMAIN chan' : i \in DOMAIN chan \/ i = Len(chan) + 1
        /\ \A i : i = Len(chan) + 1 =>
              i \in DOMAIN chan' /\ (About(i, id)' <=> (m.type # "reload" /\ m.id = id))
        /\ Shown(id)' = Shown(id)
    BY <1>1 DEF About, Shown
  <1>3. ASSUME m.type = "reload" \/ m.id # id, Following(id)
        PROVE  Following(id)'
    <2>1. \A i \in DOMAIN chan' : About(i, id)' => i \in DOMAIN chan
      BY <1>1, <1>2, <1>3, Zenon
    <2>2. LastBrings(id)'
      BY <1>1, <1>2, <1>3, <2>1, Zenon DEF Following, LastBrings
    <2> QED
      BY <1>2, <1>3, <2>2, Zenon DEF Following
  <1>4. ASSUME m.type # "reload", m.id = id, m.type = "upsert" \/ rows[id] = NoWidget
        PROVE  Following(id)'
    <2>1. \A i \in DOMAIN chan' :
             (\A j \in DOMAIN chan' : About(j, id)' => j <= i) => i = Len(chan) + 1
      BY <1>1, <1>2, <1>4
    <2>2. LastBrings(id)'
      BY <1>1, <1>4, <2>1, Zenon DEF LastBrings
    <2> QED
      BY <1>2, <1>4, <2>2, Zenon DEF Following
  <1> QED
    BY <1>3, <1>4, Zenon

\* A request notifies the servers, or fails to and leaves this one behind.
LEMMA PublishAgrees ==
  ASSUME FeedType, ReplicaInv, NEW c \in Callers, Publish(c), UNCHANGED items
  PROVE  ReplicaType' /\ ReplicaInv'
  <1>0. PICK w \in Ids : w = call[c].id
    BY RequestFacts, Zenon DEF Publish
  <1> DEFINE m == [type |-> call[c].type, id |-> w]
             stale == call[c].type = "remove" /\ rows[w] # NoWidget
             settles == call[c].type = "remove" /\ rows[w] = NoWidget
  <1>1. /\ w \in Ids /\ call[c].type \in {"upsert", "remove"}
        /\ call' = [call EXCEPT ![c] = Idle] /\ UNCHANGED <<rows, conn, task>>
    BY <1>0, RequestFacts, Zenon DEF Publish
  <1>2. /\ call' \in [Callers -> Request]
        /\ \A id \in Ids \ {w} : Publishing(id)' <=> Publishing(id)
    BY <1>0, <1>1, Zenon DEF FeedType, Request, Publishing, Idle
  <1>3. CASE /\ conn = "up" /\ chan' = Append(chan, m)
             /\ behind' = IF stale THEN behind \cup {w} ELSE IF settles THEN behind \ {w} ELSE behind
    <2>1. m \in Message /\ m.type = call[c].type /\ m.id = w /\ m.type # "reload"
      BY <1>1, Zenon DEF Message
    <2>2. ReplicaType'
      BY <1>1, <1>2, <1>3, <2>1 DEF ReplicaType, FeedType
    <2>3. \A id \in Ids \ {w} : Following(id) => Following(id)'
      BY <1>1, <1>3, <2>1, AppendFollows, Zenon
    <2>4. ASSUME w \notin behind' PROVE Following(w)'
      <3>1. m.type = "upsert" \/ rows[w] = NoWidget
        BY <1>1, <1>3, <2>1, <2>4, Zenon
      <3> QED
        BY <1>1, <1>3, <2>1, <3>1, AppendFollows, Zenon
    <2>5. \A id \in Ids \ behind' : Publishing(id)' \/ Following(id)'
      BY <1>1, <1>2, <1>3, <2>3, <2>4, Zenon DEF ReplicaInv
    <2> QED
      BY <1>1, <1>3, <2>2, <2>5, Zenon DEF ReplicaInv
  <1>4. CASE /\ UNCHANGED chan
             /\ behind' = (IF conn = "start" THEN behind ELSE behind \cup {w})
    <2>1. ReplicaType'
      BY <1>1, <1>2, <1>4, Zenon DEF ReplicaType, FeedType
    <2>2. \A id \in Ids : Following(id) => Following(id)'
      BY <1>1, <1>4, Zenon DEF Following, LastBrings, Shown, About
    <2> QED
      BY <1>1, <1>2, <1>4, <2>1, <2>2, Zenon DEF ReplicaInv
  <1> QED
    BY <1>0, <1>3, <1>4, Zenon DEF Publish

\* A message to reload says nothing about any one id.
LEMMA PublishReloadAgrees ==
  ASSUME FeedType, ReplicaInv, PublishReload, UNCHANGED items
  PROVE  ReplicaType' /\ ReplicaInv'
  <1> DEFINE m == [type |-> "reload"]
  <1>1. /\ conn = "up" /\ chan' = Append(chan, m) /\ UNCHANGED <<rows, call, conn, task, behind>>
        /\ m \in Message /\ m.type = "reload"
    BY Zenon DEF PublishReload, Message
  <1>2. ReplicaType'
    BY <1>1 DEF ReplicaType, FeedType
  <1>3. \A id \in Ids : Following(id) => Following(id)'
    BY <1>1, AppendFollows, Zenon
  <1>4. \A id \in Ids : Publishing(id)' <=> Publishing(id)
    BY <1>1, Zenon DEF Publishing
  <1> QED
    BY <1>1, <1>2, <1>3, <1>4, Zenon DEF ReplicaInv

\* The messages that a broken connection loses leave the server behind.
LEMMA DisconnectAgrees ==
  ASSUME FeedType, ReplicaInv, NEW n \in 0..Len(chan), Disconnect(n), UNCHANGED items
  PROVE  ReplicaType' /\ ReplicaInv'
  <1> DEFINE lost == {chan[i].id : i \in {k \in n + 1 .. Len(chan) : chan[k].type # "reload"}}
  <1>1. /\ conn = "up" /\ conn' = "down" /\ chan' = SubSeq(chan, 1, n)
        /\ behind' = behind \cup lost
        /\ UNCHANGED <<rows, call, task>>
    BY Zenon DEF Disconnect
  <1>2. /\ Len(chan) \in Nat /\ DOMAIN chan = 1..Len(chan) /\ chan' \in Seq(Message)
        /\ DOMAIN chan' = 1..n /\ \A i \in 1..n : chan'[i] = chan[i]
    BY <1>1 DEF FeedType
  <1>3. lost \subseteq Ids
    BY <1>2, MessageFacts
  <1>4. \A id \in Ids \ lost : \A i \in DOMAIN chan : About(i, id) => i \in 1..n
    BY <1>2 DEF About
  <1>5. ASSUME NEW id \in Ids \ lost, Following(id)
        PROVE  Following(id)'
    <2>1. \A i \in 1..n : i \in DOMAIN chan /\ (About(i, id)' <=> About(i, id))
      BY <1>2 DEF About
    <2>2. LastBrings(id)'
      BY <1>1, <1>2, <1>4, <1>5, <2>1, Zenon DEF Following, LastBrings
    <2>3. (\A i \in DOMAIN chan' : ~About(i, id)') => Shown(id)' = rows'[id]
      BY <1>1, <1>2, <1>4, <1>5, <2>1, Zenon DEF Following, Shown
    <2> QED
      BY <2>2, <2>3, Zenon DEF Following
  <1>6. ReplicaType'
    BY <1>1, <1>2, <1>3, Zenon DEF ReplicaType, FeedType
  <1>7. \A id \in Ids : Publishing(id)' <=> Publishing(id)
    BY <1>1, Zenon DEF Publishing
  <1> QED
    BY <1>1, <1>5, <1>6, <1>7, Zenon DEF ReplicaInv

\* The first message is taken: what the others bring stays, and a remaining
\* message about an id that no remaining one removes brings its row.
LEMMA TailFollows ==
  ASSUME FeedType, chan # <<>>, chan' = Tail(chan), UNCHANGED rows, NEW id \in Ids
  PROVE  /\ chan' \in Seq(Message)
         /\ LastBrings(id) \/ id \notin RemovesIn(Tail(chan)) => LastBrings(id)'
         /\ (\A i \in DOMAIN chan' : ~About(i, id)') =>
               \A i \in DOMAIN chan : About(i, id) => i = 1
  <1>1. /\ Len(chan) \in Nat \ {0} /\ DOMAIN chan = 1..Len(chan) /\ chan' \in Seq(Message)
        /\ DOMAIN chan' = 1..Len(chan)-1 /\ \A i \in DOMAIN chan' : chan'[i] = chan[i + 1]
    BY DEF FeedType
  <1>2. \A i \in DOMAIN chan' : i + 1 \in DOMAIN chan /\ (About(i, id)' <=> About(i + 1, id))
    BY <1>1 DEF About
  <1>3. \A j \in DOMAIN chan : j = 1 \/ (j - 1 \in DOMAIN chan' /\ j = (j - 1) + 1)
    BY <1>1
  <1>4. ASSUME LastBrings(id) PROVE LastBrings(id)'
    <2> SUFFICES ASSUME NEW i \in DOMAIN chan', About(i, id)',
                        \A j \in DOMAIN chan' : About(j, id)' => j <= i
                 PROVE  chan'[i].type = "upsert" \/ rows'[id] = NoWidget
      BY Zenon DEF LastBrings
    <2>1. i + 1 \in DOMAIN chan /\ About(i + 1, id) /\ chan'[i] = chan[i + 1]
      BY <1>1, <1>2, Zenon
    <2>2. \A j \in DOMAIN chan : About(j, id) => j <= i + 1
      BY <1>1, <1>2, <1>3
    <2> QED
      BY <1>4, <2>1, <2>2, Zenon DEF LastBrings
  <1>5. ASSUME id \notin RemovesIn(Tail(chan)) PROVE LastBrings(id)'
    <2>1. \A i \in DOMAIN chan' : About(i, id)' => chan'[i].type = "upsert"
      BY <1>1, <1>5, MessageFacts DEF About, RemovesIn
    <2> QED
      BY <2>1, Zenon DEF LastBrings
  <1>6. ASSUME \A i \in DOMAIN chan' : ~About(i, id)'
        PROVE  \A i \in DOMAIN chan : About(i, id) => i = 1
    BY <1>1, <1>2, <1>3, <1>6, Zenon
  <1> QED
    BY <1>1, <1>4, <1>5, <1>6, Zenon

\* Taking a message keeps the server in step if the new task shows the row of
\* every id that the message was the last one about or that is behind no longer.
LEMMA TakeAgrees ==
  ASSUME FeedType, ReplicaInv, NEW next \in Task, Take(next), behind' \subseteq Ids, UNCHANGED items,
         \A id \in Ids \ behind' : id \in behind => id \notin RemovesIn(Tail(chan)),
         \A id \in Ids \ behind' :
            \/ task' # NoTask /\ Shown(id)' = rows[id]
            \/ id \notin behind /\ ~About(1, id) /\ Shown(id)' = items[id]
            \/ id \notin behind /\ About(1, id) /\ (chan[1].type = "upsert" \/ rows[id] = NoWidget => Shown(id)' = rows[id])
  PROVE  ReplicaType' /\ ReplicaInv'
  <1>1. /\ task = NoTask /\ chan # <<>> /\ chan' = Tail(chan) /\ task' = next
        /\ UNCHANGED <<rows, call, conn>>
    BY Zenon DEF Take
  <1>2. chan' \in Seq(Message) /\ conn # "start"
    BY <1>1 DEF ReplicaInv, FeedType
  <1>3. ReplicaType'
    BY <1>1, <1>2, Zenon DEF ReplicaType, FeedType
  <1>4. \A id \in Ids : Publishing(id)' <=> Publishing(id)
    BY <1>1, Zenon DEF Publishing
  <1>5. ASSUME NEW id \in Ids \ behind', ~Publishing(id)
        PROVE  Following(id)'
    <2>1. id \in behind \/ Following(id)
      BY <1>2, <1>5, Zenon DEF ReplicaInv
    <2>2. LastBrings(id)'
      BY <1>1, <1>5, <2>1, TailFollows, Zenon DEF Following
    <2>3. ASSUME \A i \in DOMAIN chan' : ~About(i, id)' PROVE Shown(id)' = rows'[id]
      <3>1. \A i \in DOMAIN chan : About(i, id) => i = 1
        BY <1>1, <1>5, <2>3, TailFollows, Zenon
      <3>2. 1 \in DOMAIN chan
        BY <1>1 DEF FeedType
      <3>3. CASE id \notin behind /\ ~About(1, id) /\ Shown(id)' = items[id]
        <4>1. Shown(id) = items[id]
          BY <1>1, Zenon DEF Shown, NoTask
        <4> QED
          BY <1>1, <2>1, <3>1, <3>3, <4>1, Zenon DEF Following
      <3>4. CASE id \notin behind /\ About(1, id) /\ (chan[1].type = "upsert" \/ rows[id] = NoWidget => Shown(id)' = rows[id])
        <4>1. chan[1].type = "upsert" \/ rows[id] = NoWidget
          BY <2>1, <3>1, <3>2, <3>4 DEF Following, LastBrings
        <4> QED
          BY <1>1, <3>4, <4>1, Zenon
      <3> QED
        BY <1>1, <1>5, <3>3, <3>4, Zenon
    <2> QED
      BY <2>2, <2>3, Zenon DEF Following
  <1> QED
    BY <1>1, <1>2, <1>3, <1>4, <1>5, Zenon DEF ReplicaInv

\* The five ways in which the subscriber takes a message.
LEMMA TakeStep ==
  ASSUME FeedType, ReplicaInv, Take1, UNCHANGED items
  PROVE  ReplicaType' /\ ReplicaInv'
  <1>1. /\ chan # <<>> /\ 1 \in DOMAIN chan /\ Head(chan) = chan[1] /\ UNCHANGED rows
        /\ chan[1].type # "reload" => chan[1].id \in Ids
    <2>1. chan # <<>> /\ UNCHANGED rows
      BY Zenon DEF Take1, TakeUpsert, TakeUpsertFails, TakeRemove, TakeReload, TakeReloadFails, Take
    <2>2. 1 \in DOMAIN chan /\ Head(chan) = chan[1]
      BY <2>1 DEF FeedType
    <2> QED
      BY <2>1, <2>2, MessageFacts
  <1>2. CASE Head(chan).type \in {"upsert", "remove"}
    <2>1. PICK w \in Ids : w = Head(chan).id
      BY <1>1, <1>2
    <2>2. \A id \in Ids : About(1, id) <=> id = w
      BY <1>1, <1>2, <2>1 DEF About
    <2>3. PICK row \in Widget \cup {NoWidget} :
             /\ Take([pc |-> "upsert", id |-> w, row |-> row])
             /\ \/ /\ row = rows[w] /\ behind' = behind \ ({w} \ RemovesIn(Tail(chan)))
                \/ /\ row = NoWidget /\ behind' = behind \cup ({w} \cap Present)
                \/ /\ row = NoWidget /\ behind' = behind /\ Head(chan).type = "remove"
      BY <1>2, <2>1, Zenon DEF Take1, TakeUpsert, TakeUpsertFails, TakeRemove, TakeReload, TakeReloadFails,
                        RepoGetByID, FeedType, Items
    <2> DEFINE next == [pc |-> "upsert", id |-> w, row |-> row]
    <2>4. next \in Task /\ task' = next /\ task' # NoTask
      BY <2>3, Zenon DEF Take, Task, NoTask
    <2>5. \A id \in Ids : Shown(id)' = IF id = w THEN row ELSE items[id]
      BY <2>4, Zenon DEF Shown
    <2>6. behind' \subseteq Ids /\ \A id \in Ids \ behind' : id \in behind => id \notin RemovesIn(Tail(chan))
      BY <2>3, Zenon DEF FeedType
    <2>7. \A id \in Ids \ (behind' \cup {w}) : id \notin behind
      BY <2>3, Zenon
    <2>8. \/ row = rows[w]
          \/ w \in behind'
          \/ w \notin behind /\ row = NoWidget /\ (Head(chan).type = "remove" \/ rows[w] = NoWidget)
      BY <2>3, Zenon DEF Present
    <2>9. Head(chan).type = "remove" => chan[1].type # "upsert"
      BY <1>1
    <2> QED
      BY <1>1, <2>2, <2>3, <2>4, <2>5, <2>6, <2>7, <2>8, <2>9, TakeAgrees, Zenon
  <1>3. CASE Head(chan).type = "reload" /\ TakeReload
    <2> DEFINE next == [pc |-> "reload", rows |-> RepoList]
    <2>1. Take(next) /\ behind' = behind \ (Present \ RemovesIn(Tail(chan)))
      BY <1>3, Zenon DEF TakeReload
    <2>2. RepoList \in [Present -> Widget] /\ Present \subseteq Ids
      BY Zenon DEF RepoList, Present, FeedType, Items
    <2>3. next \in Task /\ task' = next /\ task' # NoTask
      BY <2>1, <2>2, Zenon DEF Take, Task, NoTask
    <2>4. \A id \in Ids : Shown(id)' = IF id \in Present THEN rows[id] ELSE items[id]
      BY <2>3, Zenon DEF Shown, RepoList
    <2>5. \A id \in Ids : ~About(1, id)
      BY <1>1, <1>3 DEF About
    <2>6. behind' \subseteq Ids /\ \A id \in Ids \ behind' : id \in behind => id \in Present /\ id \notin RemovesIn(Tail(chan))
      BY <2>1, Zenon DEF FeedType
    <2> QED
      BY <2>1, <2>3, <2>4, <2>5, <2>6, TakeAgrees, Zenon
  <1>4. CASE Head(chan).type = "reload" /\ TakeReloadFails
    <2>1. Take(NoTask) /\ behind' = behind /\ NoTask \in Task /\ task' = NoTask
      BY <1>4, Zenon DEF TakeReloadFails, Take, Task
    <2>2. \A id \in Ids : ~About(1, id) /\ Shown(id)' = items[id]
      BY <1>1, <1>4, <2>1, Zenon DEF About, Shown, NoTask
    <2> QED
      BY <2>1, <2>2, TakeAgrees, Zenon DEF FeedType
  <1> QED
    BY <1>2, <1>3, <1>4, Zenon DEF Take1, TakeUpsert, TakeUpsertFails, TakeRemove, TakeReload, TakeReloadFails

\* The task is done: the registry shows what it was to show.
LEMMA ApplyStep ==
  ASSUME FeedType, ReplicaInv, Apply
  PROVE  ReplicaType' /\ items' \in Items /\ ReplicaInv'
  <1>1. /\ task # NoTask /\ task' = NoTask /\ UNCHANGED <<rows, call, conn, chan, behind>>
        /\ \/ task.pc = "reload" /\ ApplyDiff(task.rows, {})
           \/ task.pc = "upsert" /\ task.row = NoWidget /\ Remove(task.id)
           \/ task.pc = "upsert" /\ task.row # NoWidget /\ Upsert(task.id, task.row)
    BY Zenon DEF Apply
  <1>2. /\ items' \in Items /\ \A id \in Ids : items'[id] = Shown(id)
    <2>1. CASE task.pc = "reload" /\ ApplyDiff(task.rows, {})
      <3>1. \A id \in DOMAIN task.rows : task.rows[id] \in Widget
        BY <2>1 DEF FeedType, Task, NoTask
      <3> QED
        BY <2>1, <3>1, ApplyDiffItems DEF Shown, FeedType
    <2>2. CASE task.pc = "upsert" /\ task.row = NoWidget /\ Remove(task.id)
      <3> DEFINE none == [i \in {} |-> NoWidget]
      <3>1. ApplyDiff(none, {task.id}) /\ DOMAIN none = {}
        BY <2>2 DEF Remove
      <3>2. /\ items' \in Items
            /\ \A id \in Ids : items'[id] = IF id \in {task.id} THEN NoWidget
                                            ELSE IF id \in DOMAIN none THEN none[id] ELSE items[id]
        BY <3>1, ApplyDiffItems DEF FeedType
      <3> QED
        BY <2>2, <3>1, <3>2, Zenon DEF Shown
    <2>3. CASE task.pc = "upsert" /\ task.row # NoWidget /\ Upsert(task.id, task.row)
      <3> DEFINE one == [i \in {task.id} |-> task.row]
      <3>1. ApplyDiff(one, {}) /\ DOMAIN one = {task.id} /\ one[task.id] = task.row
        BY <2>3 DEF Upsert
      <3>2. task.row \in Widget
        BY <2>3 DEF FeedType, Task, NoTask
      <3>3. /\ items' \in Items
            /\ \A id \in Ids : items'[id] = IF id \in {} THEN NoWidget
                                            ELSE IF id \in DOMAIN one THEN one[id] ELSE items[id]
        BY <3>1, <3>2, ApplyDiffItems DEF FeedType
      <3> QED
        BY <2>3, <3>1, <3>3, Zenon DEF Shown
    <2> QED
      BY <1>1, <2>1, <2>2, <2>3, Zenon
  <1>3. ReplicaType'
    BY <1>1, Zenon DEF ReplicaType, FeedType, Task
  <1>4. \A id \in Ids : Shown(id)' = Shown(id)
    BY <1>1, <1>2, Zenon DEF Shown, NoTask
  <1>5. \A id \in Ids : (Publishing(id)' <=> Publishing(id)) /\ (Following(id) => Following(id)')
    BY <1>1, <1>4, Zenon DEF Publishing, Following, LastBrings, About
  <1>6. conn # "start"
    BY <1>1, Zenon DEF ReplicaInv
  <1> QED
    BY <1>1, <1>2, <1>3, <1>5, <1>6, Zenon DEF ReplicaInv

\* The server has loaded the table, or runs with an empty registry.
LEMMA LoadStep ==
  ASSUME FeedType, ReplicaInv, Load \/ LoadFails
  PROVE  ReplicaType' /\ items' \in Items /\ ReplicaInv'
  <1>1. /\ conn = "start" /\ conn' = "loaded" /\ UNCHANGED <<rows, call, chan, task>>
        /\ items = Absent /\ chan = <<>> /\ task = NoTask
    BY Zenon DEF Load, LoadFails, ReplicaInv
  <1>2. items' \in Items /\ behind' \subseteq Ids /\ \A id \in Ids \ behind' : items'[id] = rows[id]
    <2>1. CASE Load
      <3>1. /\ RepoList \in [Present -> Widget] /\ ApplyDiff(RepoList, {}) /\ behind' = behind
            /\ \A id \in Present : RepoList[id] = rows[id]
        BY <2>1, Zenon DEF Load, RepoList, Present, FeedType, Items
      <3> QED
        BY <1>1, <3>1, ApplyDiffItems DEF FeedType, Absent, Present
    <2>2. CASE LoadFails
      BY <1>1, <2>2, Zenon DEF LoadFails, registryVars, Present, FeedType, Absent
    <2> QED
      BY <2>1, <2>2
  <1>3. ReplicaType'
    BY <1>1, <1>2, Zenon DEF ReplicaType, FeedType
  <1>4. \A id \in Ids \ behind' : Following(id)'
    BY <1>1, <1>2 DEF Following, LastBrings, Shown, NoTask
  <1> QED
    BY <1>1, <1>2, <1>3, <1>4, Zenon DEF ReplicaInv

\* Every step of the replica keeps ReplicaInv.
LEMMA ReplicaStep ==
  ASSUME FeedType, ReplicaInv, ReplicaNext
  PROVE  ReplicaType' /\ items' \in Items /\ ReplicaInv'
  <1>1. CASE Load \/ LoadFails \/ Apply
    BY <1>1, LoadStep, ApplyStep
  <1>2. CASE /\ UNCHANGED registryVars
             /\ \/ \E c \in Callers : CallStep(c) \/ Publish(c)
                \/ PublishReload \/ (\E n \in 0..Len(chan) : Disconnect(n)) \/ Take1
    <2>1. UNCHANGED items /\ items' \in Items
      BY <1>2, Zenon DEF registryVars, FeedType
    <2> QED
      BY <1>2, <2>1, CallStepAgrees, PublishAgrees, PublishReloadAgrees, DisconnectAgrees, TakeStep, Zenon
  <1>3. CASE UNCHANGED registryVars /\ Connect
    <2>1. /\ UNCHANGED <<items, rows, call, chan, task, behind>>
          /\ conn \in {"loaded", "down"} /\ conn' = "up"
      BY <1>3 DEF Connect, registryVars
    <2>2. \A id \in Ids : (Publishing(id)' <=> Publishing(id)) /\ (Following(id)' <=> Following(id))
      BY <2>1, Zenon DEF Publishing, Following, LastBrings, About, Shown
    <2> QED
      BY <2>1, <2>2, Zenon DEF ReplicaInv, ReplicaType, FeedType
  <1> QED
    BY <1>1, <1>2, <1>3, Zenon DEF ReplicaNext

\* What ReplicaInv says of an id that nothing is in flight about.
LEMMA ReplicaSettled ==
  ASSUME FeedType, ReplicaInv
  PROVE  ReplicaAgrees
  <1> SUFFICES ASSUME conn # "start", NEW id \in Ids, Quiet(id), id \notin behind
               PROVE  items[id] = rows[id]
    BY DEF ReplicaAgrees
  <1>1. ~Publishing(id) /\ task = NoTask /\ \A i \in DOMAIN chan : ~About(i, id)
    BY Zenon DEF Quiet, Publishing, About
  <1>2. Shown(id) = rows[id]
    BY <1>1 DEF ReplicaInv, Following
  <1> QED
    BY <1>1, <1>2, Zenon DEF Shown, NoTask

-----------------------------------------------------------------------------
(***************************************************************************)
(* The stream of one client.                                               *)
(***************************************************************************)
\* Every step that fills the outbox is an ApplyDiff when nothing is being sent.
LEMMA ApplyDiffStream ==
  ASSUME FeedType, StreamInv, outbox = {}, items' \in Items, NEW upserts, NEW removes,
         ApplyDiff(upserts, removes), UNCHANGED <<sub, buf, view, dropped>>,
         DOMAIN upserts \subseteq Ids, removes \subseteq Ids,
         \A id \in DOMAIN upserts : upserts[id] \in Widget
  PROVE  /\ outbox' \subseteq Event /\ addressed' = sub
         /\ \A e \in outbox' :
               /\ e.item = NoWidget => items'[e.id] = NoWidget
               /\ e.item # NoWidget =>
                     e.item = items'[e.id] \/ [id |-> e.id, item |-> NoWidget] \in outbox'
         /\ sub /\ ~dropped => \A id \in Ids : (addressed' /\ \E e \in outbox' : e.id = id) \/ Streamed(id)'
  <1>1. /\ outbox' = {[id |-> id, item |-> upserts[id]] : id \in DOMAIN upserts}
                     \cup {[id |-> id, item |-> NoWidget] : id \in removes}
        /\ addressed' = sub
    BY Zenon DEF ApplyDiff, eventsOf
  <1>2. \A id \in Ids : items'[id] = IF id \in removes THEN NoWidget
                                     ELSE IF id \in DOMAIN upserts THEN upserts[id] ELSE items[id]
    BY ApplyDiffItems, Zenon DEF FeedType
  <1>3. outbox' \subseteq Event
    BY <1>1 DEF Event
  <1>4. ASSUME NEW e \in outbox'
        PROVE  /\ e.item = NoWidget => items'[e.id] = NoWidget
               /\ e.item # NoWidget =>
                     e.item = items'[e.id] \/ [id |-> e.id, item |-> NoWidget] \in outbox'
    <2>1. CASE \E id \in DOMAIN upserts : e = [id |-> id, item |-> upserts[id]]
      <3>1. PICK id \in DOMAIN upserts : e = [id |-> id, item |-> upserts[id]]
        BY <2>1, Zenon
      <3>2. e.id = id /\ e.item = upserts[id] /\ e.item # NoWidget /\ id \in Ids
        BY <3>1, RegistryAssumption, Zenon DEF Widget
      <3> QED
        BY <1>1, <1>2, <3>2, Zenon
    <2>2. CASE \E id \in removes : e = [id |-> id, item |-> NoWidget]
      BY <1>2, <2>2
    <2> QED
      BY <1>1, <1>4, <2>1, <2>2, Zenon
  <1>5. ASSUME sub, ~dropped, NEW id \in Ids, \A e \in outbox' : e.id # id
        PROVE  Streamed(id)'
    <2>1. id \notin removes /\ id \notin DOMAIN upserts
      <3>1. id \in removes => [id |-> id, item |-> NoWidget] \in outbox'
        BY <1>1, Zenon
      <3>2. id \in DOMAIN upserts => [id |-> id, item |-> upserts[id]] \in outbox'
        BY <1>1, Zenon
      <3> QED
        BY <1>5, <3>1, <3>2, Zenon
    <2>2. items'[id] = items[id] /\ Streamed(id)
      BY <1>2, <1>5, <2>1, Zenon DEF StreamInv
    <2> QED
      BY <2>2, Zenon DEF Streamed
  <1> QED
    BY <1>1, <1>3, <1>4, <1>5, Zenon

\* broadcast moves the event from the outbox to the channel or drops it; an
\* upsert that a remove contradicts goes first.
LEMMA BroadcastStream ==
  ASSUME FeedType, StreamInv, Broadcast, UNCHANGED <<feed, conn, task, scan>>
  PROVE  StreamInv'
  <1>1. PICK e \in nextEvents :
           /\ outbox' = outbox \ {e}
           /\ buf' = IF addressed /\ Len(buf) < SubBuffer THEN Append(buf, e) ELSE buf
    BY Zenon DEF Broadcast
  <1>2. /\ e \in outbox /\ e \in Event
        /\ e.item = NoWidget => \A f \in outbox : f.item = NoWidget
    BY <1>1, Zenon DEF nextEvents, StreamInv
  <1>3. /\ dropped' = (dropped \/ (addressed /\ Len(buf) = SubBuffer))
        /\ view' = (IF dropped' THEN Absent ELSE view)
        /\ UNCHANGED <<items, addressed, sub>>
    BY Zenon DEF Broadcast
  <1>4. /\ buf' \in Seq(Event) /\ Len(buf') <= SubBuffer /\ outbox' \subseteq Event
        /\ view' \in Items /\ dropped' \in BOOLEAN
    BY <1>1, <1>2, <1>3, RegistryAssumption DEF StreamInv, Items, Absent
  <1>5. ASSUME NEW f \in outbox'
        PROVE  /\ f.item = NoWidget => items'[f.id] = NoWidget
               /\ f.item # NoWidget =>
                     f.item = items'[f.id] \/ [id |-> f.id, item |-> NoWidget] \in outbox'
    BY <1>1, <1>2, <1>3 DEF StreamInv
  <1>6. ASSUME sub, ~dropped', NEW id \in Ids, ~(addressed /\ \E f \in outbox' : f.id = id)
        PROVE  Streamed(id)'
    <2>1. ~dropped /\ view' = view
      BY <1>3, <1>6, Zenon DEF StreamInv
    <2>2. CASE ~addressed \/ e.id # id
      <3>1. Streamed(id)
        BY <1>1, <1>6, <2>1, <2>2, Zenon DEF StreamInv
      <3>2. CASE buf' = buf
        BY <1>3, <2>1, <3>1, <3>2, Zenon DEF Streamed
      <3>3. CASE buf' = Append(buf, e) /\ e.id # id
        <4>1. /\ Len(buf) \in Nat /\ DOMAIN buf = 1..Len(buf) /\ DOMAIN buf' = 1..Len(buf)+1
              /\ buf'[Len(buf) + 1] = e /\ \A i \in DOMAIN buf : buf'[i] = buf[i]
          BY <3>3, <1>2 DEF StreamInv
        <4> QED
          BY <1>3, <2>1, <3>1, <3>3, <4>1 DEF Streamed
      <3> QED
        BY <1>1, <2>2, <3>2, <3>3
    <2>3. CASE addressed /\ e.id = id
      <3>1. buf' = Append(buf, e)
        <4>1. Len(buf) # SubBuffer
          BY <1>3, <1>6, <2>3, Zenon
        <4>2. Len(buf) < SubBuffer
          BY <4>1, RegistryAssumption DEF StreamInv
        <4> QED
          BY <1>1, <2>3, <4>2
      <3>2. /\ Len(buf) \in Nat /\ DOMAIN buf = 1..Len(buf) /\ DOMAIN buf' = 1..Len(buf)+1
            /\ buf'[Len(buf) + 1] = e
        BY <3>1, <1>2 DEF StreamInv
      <3>3. e.item = items[id]
        <4>1. CASE e.item = NoWidget
          BY <1>2, <2>3, <4>1, Zenon DEF StreamInv
        <4>2. CASE e.item # NoWidget /\ [id |-> id, item |-> NoWidget] \in outbox
          <5>1. [id |-> id, item |-> NoWidget] \in outbox'
            BY <1>1, <4>2
          <5> QED
            BY <1>6, <2>3, <5>1
        <4> QED
          BY <1>2, <2>3, <4>1, <4>2, Zenon DEF StreamInv
      <3>4. \A i \in DOMAIN buf' : (\A j \in DOMAIN buf' : buf'[j].id = id => j <= i) => i = Len(buf) + 1
        BY <2>3, <3>2
      <3> QED
        BY <1>3, <2>3, <3>2, <3>3, <3>4 DEF Streamed
    <2> QED
      BY <2>2, <2>3, Zenon DEF StreamInv
  <1> QED
    BY <1>1, <1>3, <1>4, <1>5, <1>6, Zenon DEF StreamInv

\* The client reads its next event, subscribes or leaves.
LEMMA ClientStream ==
  ASSUME FeedType, StreamInv, Deliver \/ Subscribe \/ Unsubscribe,
         conn # "start" \/ feed = "directory", UNCHANGED <<feed, conn, task, scan>>
  PROVE  StreamInv'
  <1>1. UNCHANGED <<items, outbox>>
    BY Zenon DEF Deliver, Subscribe, Unsubscribe
  <1>2. CASE Deliver
    <2>1. /\ buf # <<>> /\ buf' = Tail(buf)
          /\ view' = (IF dropped THEN view ELSE [view EXCEPT ![Head(buf).id] = Head(buf).item])
          /\ UNCHANGED <<addressed, sub, dropped>>
      BY <1>2, Zenon DEF Deliver
    <2>2. /\ Len(buf) \in Nat \ {0} /\ DOMAIN buf = 1..Len(buf) /\ buf' \in Seq(Event)
          /\ DOMAIN buf' = 1..Len(buf)-1 /\ Len(buf') = Len(buf) - 1
          /\ \A i \in DOMAIN buf' : buf'[i] = buf[i + 1]
          /\ Head(buf) = buf[1] /\ buf[1] \in Event
      BY <2>1 DEF StreamInv
    <2>3. view' \in Items /\ Len(buf') <= SubBuffer
      BY <2>1, <2>2, RegistryAssumption DEF StreamInv, Items, Event
    <2>4. ASSUME ~dropped, NEW id \in Ids, Streamed(id)
          PROVE  Streamed(id)'
      <3>1. \A j \in DOMAIN buf : j = 1 \/ (j - 1 \in DOMAIN buf' /\ buf'[j - 1] = buf[j])
        BY <2>2
      <3>2. ASSUME NEW i \in DOMAIN buf', buf'[i].id = id,
                   \A j \in DOMAIN buf' : buf'[j].id = id => j <= i
            PROVE  buf'[i].item = items[id]
        <4>1. i + 1 \in DOMAIN buf /\ buf[i + 1].id = id /\ buf'[i] = buf[i + 1]
          BY <2>2, <3>2
        <4>2. \A j \in DOMAIN buf : buf[j].id = id => j <= i + 1
          BY <2>2, <3>1, <3>2
        <4> QED
          BY <2>4, <4>1, <4>2, Zenon DEF Streamed
      <3>3. ASSUME \A i \in DOMAIN buf' : buf'[i].id # id
            PROVE  view'[id] = items[id]
        <4>1. \A j \in DOMAIN buf : buf[j].id = id => j = 1
          BY <3>1, <3>3
        <4>2. CASE buf[1].id = id
          <5>1. buf[1].item = items[id] /\ view'[id] = buf[1].item
            BY <2>1, <2>2, <2>4, <4>1, <4>2 DEF Streamed, StreamInv, Items
          <5> QED
            BY <5>1
        <4>3. CASE buf[1].id # id
          BY <2>1, <2>2, <2>4, <4>1, <4>3, Zenon DEF Streamed, StreamInv, Items
        <4> QED
          BY <4>2, <4>3
      <3> QED
        BY <1>1, <3>2, <3>3, Zenon DEF Streamed
    <2> QED
      BY <1>1, <2>1, <2>2, <2>3, <2>4, Zenon DEF StreamInv
  <1>3. CASE Subscribe
    <2>1. /\ sub' /\ buf' = <<>> /\ view' = items /\ ~dropped' /\ ~addressed'
          /\ dropped' \in BOOLEAN /\ sub' \in BOOLEAN /\ addressed' \in BOOLEAN
      BY <1>3, Zenon DEF Subscribe, StreamInv
    <2>2. \A id \in Ids : Streamed(id)'
      BY <1>1, <2>1 DEF Streamed
    <2> QED
      BY <1>1, <2>1, <2>2, RegistryAssumption DEF StreamInv, FeedType
  <1>4. CASE Unsubscribe
    <2>1. /\ ~sub' /\ buf' = <<>> /\ view' = Absent /\ ~addressed'
          /\ dropped' \in BOOLEAN /\ sub' \in BOOLEAN /\ addressed' \in BOOLEAN
      BY <1>4, Zenon DEF Unsubscribe
    <2>2. view' \in Items
      BY <2>1 DEF Absent, Items
    <2> QED
      BY <1>1, <2>1, <2>2, RegistryAssumption DEF StreamInv
  <1> QED
    BY <1>2, <1>3, <1>4

\* The feeds call ApplyDiff only when the previous call has sent its events.
LEMMA FeedStream ==
  ASSUME FeedType, FeedType', StreamInv, UNCHANGED feed,
         \/ feed = "redis" /\ ReplicaInv /\ ReplicaNext
         \/ feed = "directory" /\ DirectoryInv /\ DirectoryNext /\ UNCHANGED <<conn, task>>
  PROVE  StreamInv'
  <1> DEFINE Sends == /\ outbox = {} /\ UNCHANGED <<sub, buf, view, dropped>>
                      /\ \E upserts, removes :
                            /\ ApplyDiff(upserts, removes)
                            /\ DOMAIN upserts \subseteq Ids /\ removes \subseteq Ids
                            /\ \A id \in DOMAIN upserts : upserts[id] \in Widget
             Ready == (feed = "redis" /\ (conn = "start" \/ task # NoTask)) \/ (feed = "directory" /\ scan.on)
  <1>1. ASSUME Sends, ~Ready', feed = "redis" => conn' # "start" PROVE StreamInv'
    <2>1. PICK upserts, removes :
             /\ ApplyDiff(upserts, removes) /\ DOMAIN upserts \subseteq Ids /\ removes \subseteq Ids
             /\ \A id \in DOMAIN upserts : upserts[id] \in Widget
      BY <1>1, Zenon
    <2>2. items' \in Items /\ outbox = {} /\ UNCHANGED <<sub, buf, view, dropped>>
      BY <1>1, Zenon DEF FeedType
    <2> QED
      BY <1>1, <2>1, <2>2, ApplyDiffStream DEF StreamInv
  <1>2. ASSUME UNCHANGED registryVars, Ready' => outbox = {},
               feed = "redis" /\ conn' = "start" => conn = "start"
        PROVE  StreamInv'
    <2>1. UNCHANGED <<items, outbox, addressed, sub, buf, view, dropped>>
      BY <1>2, Zenon DEF registryVars
    <2>2. \A id \in Ids : Streamed(id) => Streamed(id)'
      BY <2>1, Zenon DEF Streamed
    <2> QED
      BY <1>2, <2>1, <2>2, Zenon DEF StreamInv
  <1>3. CASE feed = "redis" /\ ReplicaInv /\ ReplicaNext
    <2>0. /\ conn = "start" \/ task # NoTask => outbox = {}
          /\ Ready' <=> (conn' = "start" \/ task' # NoTask)
      BY <1>3, Zenon DEF StreamInv
    <2>1. CASE Load
      <3>1. /\ conn = "start" /\ conn' = "loaded" /\ task' = NoTask
            /\ ApplyDiff(RepoList, {}) /\ UNCHANGED <<sub, buf, view, dropped>>
        BY <1>3, <2>1, Zenon DEF Load, ReplicaInv
      <3>2. RepoList \in [Present -> Widget] /\ Present \subseteq Ids
        BY Zenon DEF RepoList, Present, FeedType, Items
      <3> QED
        BY <1>1, <2>0, <3>1, <3>2, Zenon
    <2>2. CASE Apply
      <3>1. /\ task # NoTask /\ task' = NoTask /\ conn # "start" /\ conn' = conn
            /\ UNCHANGED <<sub, buf, view, dropped>>
        BY <1>3, <2>2, Zenon DEF Apply, ReplicaInv
      <3>2. \E upserts, removes :
               /\ ApplyDiff(upserts, removes)
               /\ DOMAIN upserts \subseteq Ids /\ removes \subseteq Ids
               /\ \A id \in DOMAIN upserts : upserts[id] \in Widget
        <4>1. CASE task.pc = "reload" /\ ApplyDiff(task.rows, {})
          <5>1. DOMAIN task.rows \subseteq Ids /\ \A id \in DOMAIN task.rows : task.rows[id] \in Widget
            BY <4>1 DEF FeedType, Task, NoTask
          <5> QED
            BY <4>1, <5>1
        <4>2. CASE task.pc = "upsert" /\ task.row = NoWidget /\ Remove(task.id)
          <5>1. task.id \in Ids
            BY <4>2 DEF FeedType, Task, NoTask
          <5> QED
            BY <4>2, <5>1 DEF Remove
        <4>3. CASE task.pc = "upsert" /\ task.row # NoWidget /\ Upsert(task.id, task.row)
          <5>1. task.id \in Ids /\ task.row \in Widget
            BY <4>3 DEF FeedType, Task, NoTask
          <5> QED
            BY <4>3, <5>1 DEF Upsert
        <4> QED
          BY <2>2, <4>1, <4>2, <4>3, Zenon DEF Apply
      <3> QED
        BY <1>1, <2>0, <3>1, <3>2, Zenon
    <2>3. CASE LoadFails
      <3>1. UNCHANGED registryVars /\ conn' = "loaded" /\ task' = NoTask
        BY <1>3, <2>3, Zenon DEF LoadFails, ReplicaInv
      <3> QED
        BY <1>2, <2>0, <3>1
    <2>4. CASE /\ UNCHANGED registryVars
               /\ \/ \E c \in Callers : CallStep(c) \/ Publish(c)
                  \/ PublishReload \/ Connect \/ (\E n \in 0..Len(chan) : Disconnect(n)) \/ Take1
      <3>1. (conn' = "start" => conn = "start") /\ (task' = task \/ outbox = {})
        <4>1. ASSUME NEW c \in Callers, CallStep(c) PROVE UNCHANGED <<conn, task>>
          BY <4>1, CallStepFacts, Zenon DEF Wrote
        <4>2. ASSUME NEW c \in Callers, Publish(c) PROVE UNCHANGED <<conn, task>>
          BY <4>2, Zenon DEF Publish
        <4>3. ASSUME Take1 PROVE UNCHANGED conn /\ outbox = {}
          BY <4>3, Zenon DEF Take1, TakeUpsert, TakeUpsertFails, TakeRemove, TakeReload, TakeReloadFails, Take
        <4>4. ASSUME PublishReload \/ Connect \/ \E n \in 0..Len(chan) : Disconnect(n)
              PROVE  task' = task /\ (conn' = "start" => conn = "start")
          BY <4>4, Zenon DEF PublishReload, Connect, Disconnect
        <4> QED
          BY <2>4, <4>1, <4>2, <4>3, <4>4
      <3> QED
        BY <1>2, <2>0, <2>4, <3>1, Zenon
    <2> QED
      BY <1>3, <2>1, <2>2, <2>3, <2>4, Zenon DEF ReplicaNext
  <1>4. CASE feed = "directory" /\ DirectoryInv /\ DirectoryNext /\ UNCHANGED <<conn, task>>
    <2>0. (scan.on => outbox = {}) /\ (Ready' <=> scan'.on) /\ feed # "redis"
      BY <1>4, Zenon DEF StreamInv
    <2>1. CASE ScanEnds
      <3>1. ~scan'.on /\ scan.on /\ UNCHANGED <<sub, buf, view, dropped>>
        BY <2>1, Zenon DEF ScanEnds, NoScan
      <3>2. CASE Upserted \cup scan.removes = {}
        <4>1. UNCHANGED registryVars
          BY <2>1, <3>2, Zenon DEF ScanEnds, registryVars
        <4> QED
          BY <1>2, <2>0, <3>1, <4>1, Zenon
      <3>3. CASE Upserted \cup scan.removes # {}
        <4>1. ApplyDiff([id \in Upserted |-> scan.upserts[id]], scan.removes)
          BY <2>1, <3>3, Zenon DEF ScanEnds
        <4>2. Upserted \subseteq Ids /\ scan.removes \subseteq Ids /\ \A id \in Upserted : scan.upserts[id] \in Widget
          BY Zenon DEF Upserted, FeedType, Items
        <4> QED
          BY <1>1, <2>0, <3>1, <4>1, <4>2
      <3> QED
        BY <3>2, <3>3
    <2>2. CASE /\ UNCHANGED registryVars
               /\ \/ \E p \in Paths, f \in FileWidget \cup {BadFile} : WriteFile(p, f)
                  \/ \E p \in Paths : RemoveFile(p) \/ \E q \in Paths \ {p} : RenameFile(p, q)
                  \/ \E paths \in SUBSET changed : Tick(paths)
                  \/ \E p \in scan.todo : ScanGone(p) \/ ScanSkipped(p) \/ ScanLoaded(p)
      <3>1. scan' = scan \/ outbox = {} \/ scan.todo # {}
        BY <2>2, Zenon DEF WriteFile, RemoveFile, RenameFile, Edit, Tick
      <3>2. scan.todo # {} => scan.on
        BY <1>4 DEF DirectoryInv, NoScan
      <3> QED
        BY <1>2, <2>0, <2>2, <3>1, <3>2, Zenon
    <2> QED
      BY <1>4, <2>1, <2>2, Zenon DEF DirectoryNext
  <1> QED
    BY <1>3, <1>4

-----------------------------------------------------------------------------
(***************************************************************************)
(* One server's widgets.                                                   *)
(***************************************************************************)
WidgetInv ==
    /\ FeedType /\ StreamInv /\ feed \in {"redis", "directory"}
    /\ feed = "redis" => ReplicaInv
    /\ feed = "directory" => DirectoryInv /\ conn = "start"

LEMMA InitWidgets == Init => WidgetInv
  <1> SUFFICES ASSUME Init PROVE WidgetInv
    OBVIOUS
  <1>1. StreamInv
    <2>1. /\ ~sub /\ ~addressed /\ sub \in BOOLEAN /\ addressed \in BOOLEAN /\ dropped \in BOOLEAN
          /\ outbox = {} /\ buf = <<>> /\ view = Absent
      BY Zenon DEF Init, RegistryInit
    <2>2. view \in Items
      BY <2>1 DEF Items, Absent
    <2> QED
      BY <2>1, <2>2, RegistryAssumption DEF StreamInv
  <1>2. ReplicaInv
    BY Zenon DEF Init, RegistryInit, ReplicaInit, ReplicaInv
  <1>3. DirectoryInv
    <2>1. scan = NoScan /\ items = Absent /\ Upserted = {} /\ \A q \in Paths : files[q] = NoFile
      BY Zenon DEF Init, RegistryInit, DirectoryInit, NoScan, Upserted, Absent
    <2>2. \A q \in Paths : \A id : ~Provides(q, id)
      BY <2>1, DirectoryAssumption DEF Provides, FileWidget, Manifests
    <2> QED
      BY <2>1, <2>2 DEF DirectoryInv, Absent
  <1> QED
    BY <1>1, <1>2, <1>3, FeedTypeInit, Zenon DEF WidgetInv, Init, ReplicaInit

\* One disjunct of Next each: the stream, the replica, the directory.
LEMMA NextWidgets == WidgetInv /\ [Next]_vars => WidgetInv'
  <1> SUFFICES ASSUME WidgetInv, [Next]_vars PROVE WidgetInv'
    OBVIOUS
  <1> USE DEF WidgetInv
  <1>1. ASSUME UNCHANGED <<items, rows, call, conn, chan, task, behind, directoryVars, feed>>
        PROVE  /\ FeedType' /\ (feed' = "redis" => ReplicaInv') /\ (feed' = "directory" => DirectoryInv')
    <2>1. FeedType'
      BY <1>1, Zenon DEF FeedType, directoryVars
    <2>2. \A id \in Ids : (Publishing(id)' <=> Publishing(id)) /\ (Following(id)' <=> Following(id))
      BY <1>1, Zenon DEF Publishing, Following, LastBrings, About, Shown
    <2>3. ReplicaInv => ReplicaInv'
      BY <1>1, <2>2, Zenon DEF ReplicaInv
    <2>4. DirectoryInv => DirectoryInv'
      BY <1>1 DEF DirectoryInv, Source, Provides, Upserted, directoryVars
    <2> QED
      BY <1>1, <2>1, <2>3, <2>4
  <1>2. CASE UNCHANGED vars
    <2>1. UNCHANGED <<items, outbox, addressed, sub, buf, view, dropped, rows, call, conn, chan, task, behind, directoryVars, feed, scan>>
      BY <1>2, Zenon DEF vars, registryVars, replicaVars, directoryVars
    <2>2. \A id \in Ids : Streamed(id)' <=> Streamed(id)
      BY <2>1, Zenon DEF Streamed
    <2>3. StreamInv'
      BY <2>1, <2>2, Zenon DEF StreamInv
    <2> QED
      BY <1>1, <2>1, <2>3, Zenon
  <1>3. CASE /\ UNCHANGED feed
             /\ conn # "start" \/ feed = "directory"
             /\ StreamNext /\ UNCHANGED <<replicaVars, directoryVars>>
    <2>1. UNCHANGED <<rows, call, conn, chan, task, behind, directoryVars, feed, scan>>
      BY <1>3, Zenon DEF replicaVars, directoryVars
    <2>2. UNCHANGED items
      BY <1>3, Zenon DEF StreamNext, Broadcast, Subscribe, Unsubscribe, Deliver
    <2>3. StreamInv'
      BY <1>3, <2>1, BroadcastStream, ClientStream, Zenon DEF StreamNext
    <2> QED
      BY <1>1, <2>1, <2>2, <2>3, Zenon
  <1>4. CASE UNCHANGED feed /\ feed = "redis" /\ ReplicaNext /\ UNCHANGED directoryVars
    <2>1. ReplicaType' /\ items' \in Items /\ ReplicaInv'
      BY <1>4, ReplicaStep
    <2>2. FeedType'
      BY <1>4, <2>1, Zenon DEF FeedType, ReplicaType, directoryVars
    <2> QED
      BY <1>4, <2>1, <2>2, FeedStream
  <1>5. CASE UNCHANGED feed /\ feed = "directory" /\ DirectoryNext /\ UNCHANGED replicaVars
    <2>1. DirectoryType' /\ items' \in Items /\ DirectoryInv'
      BY <1>5, DirectoryStep
    <2>2. FeedType' /\ UNCHANGED <<conn, task, feed>>
      BY <1>5, <2>1, Zenon DEF FeedType, DirectoryType, replicaVars
    <2> QED
      BY <1>5, <2>1, <2>2, FeedStream
  <1> QED
    BY <1>2, <1>3, <1>4, <1>5, Zenon DEF Next

LEMMA WidgetsHold == Spec => []WidgetInv
  BY InitWidgets, NextWidgets, PTL DEF Spec

\* However the feed's calls of ApplyDiff, the sends after its unlock and the
\* client's reads, subscriptions and departures interleave: a stream that lost no
\* event to a full channel and has read all of them shows what the registry holds.
THEOREM StreamsFollow == Spec => []StreamFollows
  <1>1. WidgetInv => StreamFollows
    <2> SUFFICES ASSUME WidgetInv, sub, ~dropped, buf = <<>>, ~(addressed /\ outbox # {})
                 PROVE  view = items
      BY DEF StreamFollows
    <2>1. \A id \in Ids : Streamed(id)
      BY Zenon DEF WidgetInv, StreamInv
    <2>2. \A id \in Ids : view[id] = items[id]
      <3>1. DOMAIN buf = {}
        OBVIOUS
      <3> QED
        BY <2>1, <3>1, Zenon DEF Streamed
    <2> QED
      BY <2>2 DEF WidgetInv, StreamInv, FeedType, Items
  <1> QED
    BY <1>1, WidgetsHold, PTL

\* For every order of requests, notifications, broken connections, failed reads
\* and reloads: with everything about a widget handled, a server that is not
\* behind on it shows the row of the table.
THEOREM ReplicaSafe == Spec => []ReplicaAgrees
  <1>1. WidgetInv => ReplicaAgrees
    BY ReplicaSettled DEF WidgetInv, ReplicaAgrees
  <1> QED
    BY <1>1, WidgetsHold, PTL

\* A PATCH that writes back the row as it still is leaves the attributes it does
\* not name as they are.
THEOREM PatchSafe == Spec => PatchKeepsRest
  <1>1. WidgetInv /\ [Next]_vars =>
           [\A c \in Callers, p \in Patches, answered \in BOOLEAN :
              PatchWrite(c, p, answered) /\ call[c].row = rows[call[c].id] =>
                  LET was == rows[call[c].id]  is == rows'[call[c].id]
                  IN  /\ p.name = NoWidget => is.name = was.name
                      /\ p.enabled = NoWidget => is.enabled = was.enabled]_<<rows, call>>
    <2> SUFFICES ASSUME WidgetInv, NEW c \in Callers, NEW p \in Patches, NEW answered \in BOOLEAN,
                        PatchWrite(c, p, answered), call[c].row = rows[call[c].id]
                 PROVE  LET was == rows[call[c].id]  is == rows'[call[c].id]
                        IN  /\ p.name = NoWidget => is.name = was.name
                            /\ p.enabled = NoWidget => is.enabled = was.enabled
      BY Zenon
    <2>1. call[c].id \in Ids /\ rows \in Items
      BY RequestFacts, Zenon DEF PatchWrite, WidgetInv, FeedType
    <2>2. rows'[call[c].id] = patched(rows[call[c].id], p)
      BY <2>1, Zenon DEF PatchWrite, RepoUpsert, Items
    <2> QED
      BY <2>2 DEF patched
  <1> QED
    BY <1>1, WidgetsHold, PTL DEF Spec, PatchKeepsRest

\* For every order of edits, file events and ticks: a watcher with nothing left
\* to do has, for every id, the widget of a file, or an excuse: an invalid file, an
\* id that was changed, or a diff that removed what another file provides.
THEOREM DirectorySafe == Spec => []DirectoryFollowed
  <1>1. WidgetInv => DirectoryFollowed
    BY DirectorySettled DEF WidgetInv, DirectoryFollowed
  <1> QED
    BY <1>1, WidgetsHold, PTL
=============================================================================
