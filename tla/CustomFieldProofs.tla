-------------------------- MODULE CustomFieldProofs --------------------------
(***************************************************************************)
(* Proofs about custom fields: the calls and repairs of the SDK, and the   *)
(* requests to the server; for every set of fields, targets, databases and *)
(* tenants, and any number of callers.                                     *)
(***************************************************************************)
EXTENDS CustomFieldSync, FieldAdmin, TLAPS

-----------------------------------------------------------------------------
(***************************************************************************)
(* The requests on custom fields.                                          *)
(***************************************************************************)
Parts == {"pc", "op", "tenant", "id", "col", "row", "dsn", "seen", "old"}
Writing == {"load", "apply", "record"}

\* A request that has saved a row knows its column and database.
RequestOK(c) ==
    LET q == req[c]
    IN  /\ q = [x \in Parts |-> q[x]]
        /\ q.op = "delete" => q.row = Nil
        /\ q.pc \in {"lookup", "resolve", "old", "probe", "alter", "save"} \cup Writing =>
              /\ q.op \in {"create", "update", "delete", "scan"} /\ q.tenant \in Tenants
              /\ q.id \in Ids \/ (q.op = "delete" /\ q.pc = "old")
              /\ q.op # "scan" => q.col \in ColumnNames
        /\ q.pc \in {"alter"} \cup Writing => q.op # "scan"

Saved(c, k) == req[c].col = k /\ req[c].pc \in Writing
\* Record will write an entry.
Records(c, k) == ~(req[c].op = "delete" /\ req[c].old[k] = Nil)

\* Of the column k, whose changes all have an entry: one request at a time has
\* changed the row and not recorded it.
AuditOK(k) ==
    /\ audit[k] # NoEntry => audit[k].id \in Ids
    /\ k \notin unaudited =>
          /\ \A c, d \in Clients : Saved(c, k) /\ Saved(d, k) => c = d
          /\ \A c \in Clients : Saved(c, k) => field[<<req[c].id, DefaultTenant, k>>] = req[c].row
          /\ \/ \E c \in Clients : Saved(c, k) /\ Records(c, k)
             \/ audit[k] = NoEntry
             \/ field[<<audit[k].id, DefaultTenant, k>>] = audit[k].after

\* What a create or a scan has read is still so, or written to since.
ReadOK(c) ==
    LET q == req[c]
        key(k) == <<q.id, q.tenant, k>>
    IN  /\ q.op = "create" /\ q.pc \in {"resolve", "probe", "alter", "save"} =>
              key(q.col) \in dirty[c] \/ field[key(q.col)] = Nil
        /\ q.op = "scan" /\ q.pc = "save" =>
              \A k \in ColumnNames : key(k) \in dirty[c] \/ field[key(k)] = q.old[k]

FieldInv ==
    /\ site \in Sites
    /\ req = [c \in Clients |-> req[c]] /\ dirty = [c \in Clients |-> dirty[c]]
    /\ audit = [k \in ColumnNames |-> audit[k]]
    /\ \A c \in Clients : RequestOK(c) /\ ReadOK(c)
    /\ \A k \in ColumnNames : AuditOK(k)

LEMMA FieldInitial == FieldInit => FieldInv
  <1> SUFFICES ASSUME FieldInit PROVE FieldInv
    OBVIOUS
  <1>1. ASSUME NEW c \in Clients PROVE RequestOK(c) /\ ReadOK(c)
    <2>1. req[c] = NoRequest
      BY Zenon DEF FieldInit
    <2>2. NoRequest = [x \in Parts |-> NoRequest[x]]
      BY Zenon DEF NoRequest, Parts
    <2>3. NoRequest.pc = "idle" /\ NoRequest.row = Nil
      BY Zenon DEF NoRequest
    <2> QED
      BY <2>1, <2>2, <2>3, Zenon DEF RequestOK, ReadOK, Writing
  <1>2. ASSUME NEW k \in ColumnNames PROVE AuditOK(k)
    <2>1. \A c \in Clients : req[c].pc = "idle"
      BY Zenon DEF FieldInit, NoRequest
    <2> QED
      BY <2>1, Zenon DEF FieldInit, AuditOK, Saved, Writing
  <1> QED
    BY <1>1, <1>2, Zenon DEF FieldInit, FieldInv

\* A step that leaves the request of d where it is, or moves it on to use what
\* it has read, and takes down the rows it writes.
LEMMA ReadKept ==
  ASSUME NEW d \in Clients, RequestOK(d), ReadOK(d),
         req'[d].op = req[d].op, req'[d].id = req[d].id, req'[d].tenant = req[d].tenant,
         req'[d].col = req[d].col, req'[d].old = req[d].old,
         req[d].op = "create" /\ req'[d].pc \in {"resolve", "probe", "alter", "save"}
            => req[d].pc \in {"resolve", "probe", "alter", "save"},
         req[d].op = "scan" /\ req'[d].pc = "save" => req[d].pc = "save",
         req[d].op \in {"create", "scan"} =>
            \A k \in Keys : k \in dirty[d] \/ field'[k] # field[k] => k \in dirty'[d]
  PROVE  ReadOK(d)'
  <1>1. ASSUME req[d].op = "create", req'[d].pc \in {"resolve", "probe", "alter", "save"}
        PROVE  LET key == <<req[d].id, req[d].tenant, req[d].col>>
               IN  key \in dirty'[d] \/ field'[key] = Nil
    <2>1. <<req[d].id, req[d].tenant, req[d].col>> \in Keys
      BY <1>1, Zenon DEF RequestOK, Keys
    <2> QED
      BY <1>1, <2>1, Zenon DEF ReadOK
  <1>2. ASSUME req[d].op = "scan", req'[d].pc = "save", NEW k \in ColumnNames
        PROVE  LET key == <<req[d].id, req[d].tenant, k>>
               IN  key \in dirty'[d] \/ field'[key] = req[d].old[k]
    <2>1. <<req[d].id, req[d].tenant, k>> \in Keys
      BY <1>2, Zenon DEF RequestOK, Keys
    <2> QED
      BY <1>2, <2>1, Zenon DEF ReadOK
  <1> QED
    BY <1>1, <1>2, Zenon DEF ReadOK

\* A step that changes rows of a column, or who has saved one, only when the
\* column is then unaudited, and that records nothing.
LEMMA AuditKept ==
  ASSUME NEW k \in ColumnNames, AuditOK(k), FieldAdminAssumption, \A c \in Clients : RequestOK(c),
         audit'[k] = audit[k], unaudited \subseteq unaudited',
         k \notin unaudited' =>
            /\ \A i \in Ids : field'[<<i, DefaultTenant, k>>] = field[<<i, DefaultTenant, k>>]
            /\ \A c \in Clients :
                  /\ Saved(c, k)' <=> Saved(c, k)
                  /\ Saved(c, k) => /\ req'[c].id = req[c].id /\ req'[c].row = req[c].row
                                    /\ req'[c].op = req[c].op /\ req'[c].old = req[c].old
  PROVE  AuditOK(k)'
  <1> SUFFICES ASSUME k \notin unaudited' PROVE AuditOK(k)'
    BY Zenon DEF AuditOK
  <1>1. \A c \in Clients : Saved(c, k) => req[c].id \in Ids
    BY Zenon DEF RequestOK, Saved, Writing
  <1>2. \A c, d \in Clients : Saved(c, k)' /\ Saved(d, k)' => c = d
    BY Zenon DEF AuditOK
  <1>3. \A c \in Clients : Saved(c, k)' => field'[<<req'[c].id, DefaultTenant, k>>] = req'[c].row
    BY <1>1 DEF AuditOK
  <1>4. \/ \E c \in Clients : Saved(c, k)' /\ Records(c, k)'
        \/ audit'[k] = NoEntry
        \/ field'[<<audit'[k].id, DefaultTenant, k>>] = audit'[k].after
    BY DEF AuditOK, Records
  <1> QED
    BY <1>2, <1>3, <1>4, Zenon DEF AuditOK

LEMMA OthersKept ==
  ASSUME FieldInv, NEW c \in Clients, NEW r, req' = [req EXCEPT ![c] = r],
         \A d \in Clients \ {c} : req[d].op \in {"create", "scan"} =>
            \A k \in Keys : k \in dirty[d] \/ field'[k] # field[k] => k \in dirty'[d]
  PROVE  /\ req' = [d \in Clients |-> req'[d]] /\ req'[c] = r
         /\ \A d \in Clients \ {c} : req'[d] = req[d] /\ RequestOK(d)' /\ ReadOK(d)'
  <1>1. /\ req' = [d \in Clients |-> req'[d]] /\ req'[c] = r
        /\ \A d \in Clients \ {c} : req'[d] = req[d]
    BY Zenon DEF FieldInv
  <1>2. ASSUME NEW d \in Clients \ {c} PROVE RequestOK(d)' /\ ReadOK(d)'
    <2>1. RequestOK(d) /\ ReadOK(d) /\ req'[d] = req[d]
      BY <1>1, Zenon DEF FieldInv
    <2>2. RequestOK(d)'
      BY <2>1, Zenon DEF RequestOK
    <2> QED
      BY <2>1, <2>2, ReadKept, Zenon
  <1> QED
    BY <1>1, <1>2, Zenon

\* A step that only reads, and leaves the request with its column saved or not
\* as it was.
LEMMA ReadStep ==
  ASSUME FieldInv, FieldAdminAssumption, NEW c \in Clients, NEW r, req' = [req EXCEPT ![c] = r],
         UNCHANGED <<site, field, audit, unaudited>>, dirty' = [d \in Clients |-> dirty'[d]],
         \A d \in Clients \ {c} : req[d].op \in {"create", "scan"} => dirty[d] \subseteq dirty'[d],
         r.pc \in Writing <=> req[c].pc \in Writing,
         r.pc \in Writing => /\ r.id = req[c].id /\ r.row = req[c].row /\ r.col = req[c].col
                             /\ r.op = req[c].op /\ r.old = req[c].old,
         RequestOK(c)', ReadOK(c)'
  PROVE  FieldInv'
  <1>1. /\ req' = [d \in Clients |-> req'[d]] /\ req'[c] = r
        /\ \A d \in Clients \ {c} : req'[d] = req[d] /\ RequestOK(d)' /\ ReadOK(d)'
    BY OthersKept, Zenon
  <1>2. ASSUME NEW k \in ColumnNames PROVE AuditOK(k)'
    <2>1. \A d \in Clients :
             /\ Saved(d, k)' <=> Saved(d, k)
             /\ Saved(d, k) => /\ req'[d].id = req[d].id /\ req'[d].row = req[d].row
                               /\ req'[d].op = req[d].op /\ req'[d].old = req[d].old
      BY <1>1, Zenon DEF Saved
    <2> QED
      BY <2>1, AuditKept, Zenon DEF FieldInv
  <1> QED
    BY <1>1, <1>2, Zenon DEF FieldInv

\* The rows that other requests have read, when RowsWritten takes down keys.
LEMMA RowsWrittenFacts ==
  ASSUME FieldInv, NEW c \in Clients, NEW r, req' = [req EXCEPT ![c] = r], NEW keys, RowsWritten(keys)
  PROVE  /\ dirty' = [d \in Clients |-> dirty'[d]]
         /\ \A d \in Clients \ {c} : req[d].op \in {"create", "scan"} => dirty'[d] = dirty[d] \cup keys
         /\ r.op \in {"create", "scan"} => dirty'[c] = dirty[c] \cup keys
  BY Zenon DEF FieldInv, RowsWritten

LEMMA NothingWritten ==
  ASSUME FieldInv, NEW c \in Clients, NEW r, req' = [req EXCEPT ![c] = r], RowsWritten({})
  PROVE  /\ dirty' = [d \in Clients |-> dirty'[d]]
         /\ \A d \in Clients \ {c} : req[d].op \in {"create", "scan"} => dirty[d] \subseteq dirty'[d]
         /\ r.op \in {"create", "scan"} => dirty[c] \subseteq dirty'[c]
  BY Zenon DEF FieldInv, RowsWritten

LEMMA StartRequestStep ==
  ASSUME FieldInv, FieldAdminAssumption, UNCHANGED site, NEW c \in Clients, StartRequest(c)
  PROVE  FieldInv'
  <1>1. PICK op \in {"create", "update", "delete", "scan"}, t \in site.tenants, i \in Ids, k \in ColumnNames,
             rr \in Rows(site.validators) :
          req' = [req EXCEPT ![c] =
                     [NoRequest EXCEPT !.pc = First(op), !.op = op, !.tenant = t,
                                  !.id = IF op = "delete" THEN Nil ELSE i,
                                  !.col = IF op = "scan" THEN Nil ELSE k,
                                  !.row = IF op \in {"create", "update"} THEN rr ELSE Nil]]
    BY Zenon DEF StartRequest
  <1> DEFINE r == [NoRequest EXCEPT !.pc = First(op), !.op = op, !.tenant = t,
                                  !.id = IF op = "delete" THEN Nil ELSE i,
                                  !.col = IF op = "scan" THEN Nil ELSE k,
                                  !.row = IF op \in {"create", "update"} THEN rr ELSE Nil]
  <1>2. /\ r = [x \in Parts |-> r[x]] /\ r.op = op /\ r.tenant = t /\ r.pc = First(op)
        /\ r.id = (IF op = "delete" THEN Nil ELSE i) /\ r.col = (IF op = "scan" THEN Nil ELSE k)
        /\ op = "delete" => r.row = Nil
    BY Zenon DEF NoRequest, Parts
  <1>3. r.pc = IF op = "create" THEN "lookup" ELSE IF op = "delete" THEN "old" ELSE "resolve"
    BY <1>2 DEF First
  <1>4. t \in Tenants
    BY FieldAdminAssumption, Zenon DEF FieldInv
  <1> HIDE DEF r
  <1>5. req' = [req EXCEPT ![c] = r] /\ req'[c] = r
    BY <1>1, Zenon DEF FieldInv, r
  <1>6. RequestOK(c)' /\ ReadOK(c)'
    BY <1>2, <1>3, <1>4, <1>5 DEF RequestOK, ReadOK, Writing
  <1>7. req[c].pc \notin Writing /\ r.pc \notin Writing
    BY <1>3 DEF StartRequest, NoRequest, Writing
  <1>8. /\ UNCHANGED <<site, field, audit, unaudited>> /\ dirty' = [d \in Clients |-> dirty'[d]]
        /\ \A d \in Clients \ {c} : dirty'[d] = dirty[d]
    BY Zenon DEF StartRequest, FieldInv
  <1> QED
    BY <1>5, <1>6, <1>7, <1>8, ReadStep, Zenon

LEMMA NoRequestOK ==
  ASSUME NEW c, req'[c] = NoRequest
  PROVE  RequestOK(c)' /\ ReadOK(c)' /\ NoRequest.pc \notin Writing
  <1>1. NoRequest = [x \in Parts |-> NoRequest[x]]
    BY Zenon DEF NoRequest, Parts
  <1>2. NoRequest.pc = "idle" /\ NoRequest.row = Nil
    BY Zenon DEF NoRequest
  <1> QED
    BY <1>1, <1>2, Zenon DEF RequestOK, ReadOK, Writing

\* A request that has changed nothing is answered.
LEMMA GiveUp ==
  ASSUME FieldInv, FieldAdminAssumption, NEW c \in Clients, req[c].pc \notin Writing,
         req' = [req EXCEPT ![c] = NoRequest], UNCHANGED <<site, field, audit, unaudited>>,
         dirty' = [d \in Clients |-> dirty'[d]],
         \A d \in Clients \ {c} : req[d].op \in {"create", "scan"} => dirty[d] \subseteq dirty'[d]
  PROVE  FieldInv'
  <1>1. req'[c] = NoRequest
    BY Zenon DEF FieldInv
  <1> QED
    BY <1>1, NoRequestOK, ReadStep, Zenon

LEMMA LookupStep ==
  ASSUME FieldInv, FieldAdminAssumption, UNCHANGED site, NEW c \in Clients, Lookup(c)
  PROVE  FieldInv'
  <1> DEFINE q == req[c]  r == [q EXCEPT !.pc = "resolve"]
  <1>1. /\ q.pc = "lookup" /\ UNCHANGED <<site, field, audit, unaudited>>
        /\ dirty' = [d \in Clients |-> dirty'[d]] /\ \A d \in Clients \ {c} : dirty'[d] = dirty[d]
    BY Zenon DEF Lookup, At, FieldInv
  <1>2. CASE existsField(q.tenant, q.id, q.col)
    <2>1. req' = [req EXCEPT ![c] = NoRequest]
      BY <1>2, Zenon DEF Lookup, Goto
    <2> QED
      BY <1>1, <2>1, GiveUp, Zenon DEF Writing
  <1>3. CASE ~existsField(q.tenant, q.id, q.col)
    <2>1. req' = [req EXCEPT ![c] = r] /\ RequestOK(c)
      BY <1>3, Zenon DEF Lookup, Goto, FieldInv
    <2>2. /\ r = [x \in Parts |-> r[x]] /\ r.pc = "resolve"
          /\ r.op = q.op /\ r.tenant = q.tenant /\ r.id = q.id /\ r.col = q.col /\ r.row = q.row
      BY <2>1, Zenon DEF RequestOK, Parts
    <2> HIDE DEF r
    <2>3. req'[c] = r
      BY <2>1, Zenon DEF FieldInv
    <2>4. RequestOK(c)'
      BY <1>1, <2>1, <2>2, <2>3 DEF RequestOK, Writing
    <2>5. ReadOK(c)'
      BY <1>1, <1>3, <2>2, <2>3, Zenon DEF ReadOK, existsField
    <2> QED
      BY <1>1, <2>1, <2>2, <2>4, <2>5, ReadStep, Zenon DEF Writing
  <1> QED
    BY <1>2, <1>3, Zenon

\* A step that moves a request on with what it has read before.
LEMMA MoveOn ==
  ASSUME FieldInv, FieldAdminAssumption, NEW c \in Clients, NEW r, req' = [req EXCEPT ![c] = r],
         UNCHANGED <<site, field, audit, unaudited>>, dirty' = [d \in Clients |-> dirty'[d]],
         \A d \in Clients : req[d].op \in {"create", "scan"} => dirty[d] \subseteq dirty'[d],
         r = [x \in Parts |-> r[x]], r.op = req[c].op, r.tenant = req[c].tenant, r.id = req[c].id,
         r.col = req[c].col, r.row = req[c].row, r.old = req[c].old,
         \/ /\ req[c].pc \in {"resolve", "probe", "alter"}
            /\ r.pc \in {"old", "probe", "alter", "save"}
            /\ r.op = "scan" => r.pc \notin {"alter", "save"}
         \/ req[c].pc \in {"load", "apply"} /\ r.pc \in {"apply", "record"}
  PROVE  FieldInv'
  <1>1. req'[c] = r /\ RequestOK(c) /\ ReadOK(c)
    BY Zenon DEF FieldInv
  <1>2. RequestOK(c)'
    BY <1>1 DEF RequestOK, Writing
  <1>3. ReadOK(c)'
    BY <1>1, ReadKept, Zenon
  <1> QED
    BY <1>2, <1>3, ReadStep, Zenon DEF Writing

LEMMA ResolveStep ==
  ASSUME FieldInv, FieldAdminAssumption, UNCHANGED site, NEW c \in Clients, Resolve(c)
  PROVE  FieldInv'
  <1> DEFINE q == req[c]
             s == IF q.op = "scan" THEN ScanDSN(q.tenant, q.id) ELSE GetByID(q.tenant, q.id)
             r == [q EXCEPT !.pc = AfterResolve(q.op, s), !.dsn = s]
  <1>1. /\ q.pc = "resolve" /\ UNCHANGED <<site, field, audit, unaudited>> /\ RowsWritten({})
        /\ RequestOK(c)
    BY Zenon DEF Resolve, At, FieldInv
  <1>2. CASE s = Nil \/ (q.op = "scan" /\ s \in MongoServers)
    <2>1. req' = [req EXCEPT ![c] = NoRequest]
      BY <1>2, Zenon DEF Resolve, Goto
    <2> QED
      BY <1>1, <2>1, GiveUp, NothingWritten, Zenon DEF Writing
  <1>3. CASE ~(s = Nil \/ (q.op = "scan" /\ s \in MongoServers))
    <2>1. req' = [req EXCEPT ![c] = r]
      BY <1>3, Zenon DEF Resolve, Goto
    <2>2. /\ r = [x \in Parts |-> r[x]] /\ r.pc = AfterResolve(q.op, s) /\ r.old = q.old
          /\ r.op = q.op /\ r.tenant = q.tenant /\ r.id = q.id /\ r.col = q.col /\ r.row = q.row
      BY <1>1, Zenon DEF RequestOK, Parts
    <2>3. /\ AfterResolve(q.op, s) \in {"old", "probe", "alter", "save"}
          /\ q.op = "scan" => AfterResolve(q.op, s) \notin {"alter", "save"}
      BY <1>3, Zenon DEF AfterResolve
    <2> HIDE DEF r
    <2>4. /\ dirty' = [d \in Clients |-> dirty'[d]]
          /\ \A d \in Clients : req[d].op \in {"create", "scan"} => dirty[d] \subseteq dirty'[d]
      BY <1>1, <2>1, <2>2, NothingWritten, Zenon
    <2> QED
      BY <1>1, <2>1, <2>2, <2>3, <2>4, MoveOn, Zenon
  <1> QED
    BY <1>2, <1>3, Zenon

\* A request reads the row it will change.
LEMMA UpdateOldStep ==
  ASSUME FieldInv, FieldAdminAssumption, UNCHANGED site, NEW c \in Clients, UpdateOld(c)
  PROVE  FieldInv'
  <1> DEFINE q == req[c]
  <1>1. /\ q.pc = "old" /\ q.op = "update" /\ UNCHANGED <<site, field, audit, unaudited>> /\ RequestOK(c)
        /\ dirty' = [d \in Clients |-> dirty'[d]] /\ \A d \in Clients \ {c} : dirty'[d] = dirty[d]
    BY Zenon DEF UpdateOld, At, FieldInv
  <1> DEFINE p == IF q.dsn \in MongoServers THEN "save" ELSE "probe"
             o(t) == IF t = Nil THEN NoRows
                     ELSE [NoRows EXCEPT ![q.col] = Partial(field[<<q.id, t, q.col>>])]
  <1>2. PICK t : req' = [req EXCEPT ![c] = [q EXCEPT !.pc = p, !.old = o(t)]]
    BY Zenon DEF UpdateOld, Goto
  <1> DEFINE r == [q EXCEPT !.pc = p, !.old = o(t)]
  <1> HIDE DEF o
  <1>3. /\ r = [x \in Parts |-> r[x]] /\ r.pc \in {"save", "probe"}
        /\ r.op = q.op /\ r.tenant = q.tenant /\ r.id = q.id /\ r.col = q.col /\ r.row = q.row
    BY <1>1, Zenon DEF RequestOK, Parts
  <1> HIDE DEF r
  <1>4. req' = [req EXCEPT ![c] = r] /\ req'[c] = r
    BY <1>2, Zenon DEF FieldInv, r
  <1>5. RequestOK(c)' /\ ReadOK(c)'
    BY <1>1, <1>3, <1>4, Zenon DEF RequestOK, ReadOK, Writing
  <1> QED
    BY <1>1, <1>3, <1>4, <1>5, ReadStep, Zenon DEF Writing

LEMMA DeleteOldStep ==
  ASSUME FieldInv, FieldAdminAssumption, UNCHANGED site, NEW c \in Clients, DeleteOld(c)
  PROVE  FieldInv'
  <1> DEFINE q == req[c]
  <1>1. /\ q.pc = "old" /\ q.op = "delete" /\ UNCHANGED <<site, field, audit, unaudited>> /\ RequestOK(c)
        /\ dirty' = [d \in Clients |-> dirty'[d]] /\ \A d \in Clients \ {c} : dirty'[d] = dirty[d]
    BY Zenon DEF DeleteOld, At, FieldInv
  <1>2. PICK r : /\ req' = [req EXCEPT ![c] = r]
                /\ r = [x \in Parts |-> r[x]] /\ r.pc = "resolve" /\ r.id \in Ids
                /\ r.op = q.op /\ r.tenant = q.tenant /\ r.col = q.col /\ r.row = q.row
    <2>1. CASE Goto(c, [q EXCEPT !.pc = "resolve", !.id = DefaultDB])
      <3>1. LET r == [q EXCEPT !.pc = "resolve", !.id = DefaultDB]
            IN  /\ r = [x \in Parts |-> r[x]] /\ r.pc = "resolve" /\ r.id = DefaultDB
                /\ r.op = q.op /\ r.tenant = q.tenant /\ r.col = q.col /\ r.row = q.row
        BY <1>1, Zenon DEF RequestOK, Parts
      <3> QED
        BY <2>1, <3>1, FieldAdminAssumption, Zenon DEF Goto
    <2>2. ASSUME NEW k \in Keys, NEW o, Goto(c, [q EXCEPT !.pc = "resolve", !.id = k[1], !.old = o])
          PROVE  \E r : /\ req' = [req EXCEPT ![c] = r]
                       /\ r = [x \in Parts |-> r[x]] /\ r.pc = "resolve" /\ r.id \in Ids
                       /\ r.op = q.op /\ r.tenant = q.tenant /\ r.col = q.col /\ r.row = q.row
      <3>1. LET r == [q EXCEPT !.pc = "resolve", !.id = k[1], !.old = o]
            IN  /\ r = [x \in Parts |-> r[x]] /\ r.pc = "resolve" /\ r.id = k[1]
                /\ r.op = q.op /\ r.tenant = q.tenant /\ r.col = q.col /\ r.row = q.row
        BY <1>1, Zenon DEF RequestOK, Parts
      <3>2. k[1] \in Ids
        BY Zenon DEF Keys
      <3> QED
        BY <2>2, <3>1, <3>2, Zenon DEF Goto
    <2> QED
      BY <2>1, <2>2, Zenon DEF DeleteOld
  <1>4. req'[c] = r
    BY <1>2, Zenon DEF FieldInv
  <1>5. RequestOK(c)' /\ ReadOK(c)'
    BY <1>1, <1>2, <1>4, Zenon DEF RequestOK, ReadOK, Writing
  <1> QED
    BY <1>1, <1>2, <1>5, ReadStep, Zenon DEF Writing

LEMMA ScanLoadStep ==
  ASSUME FieldInv, FieldAdminAssumption, UNCHANGED site, NEW c \in Clients, ScanLoad(c)
  PROVE  FieldInv'
  <1> DEFINE q == req[c]  o == [k \in ColumnNames |-> field[<<q.id, q.tenant, k>>]]
             r == [q EXCEPT !.pc = "save", !.old = o]
  <1>1. /\ q.pc = "old" /\ q.op = "scan" /\ UNCHANGED <<site, field, audit, unaudited>> /\ RequestOK(c)
        /\ dirty' = [d \in Clients |-> dirty'[d]] /\ \A d \in Clients \ {c} : dirty'[d] = dirty[d]
        /\ req' = [req EXCEPT ![c] = r]
    BY Zenon DEF ScanLoad, At, Goto, FieldInv
  <1>3. /\ r = [x \in Parts |-> r[x]] /\ r.pc = "save" /\ r.old = o
        /\ r.op = q.op /\ r.tenant = q.tenant /\ r.id = q.id /\ r.col = q.col /\ r.row = q.row
    BY <1>1, Zenon DEF RequestOK, Parts
  <1> HIDE DEF r
  <1>4. req'[c] = r
    BY <1>1, Zenon DEF FieldInv
  <1>5. RequestOK(c)'
    BY <1>1, <1>3, <1>4 DEF RequestOK, Writing
  <1>6. ReadOK(c)'
    BY <1>1, <1>3, <1>4 DEF ReadOK
  <1> QED
    BY <1>1, <1>3, <1>5, <1>6, ReadStep, Zenon DEF Writing

\* Probe, Alter, Load and Apply work on the monitored database.
LEMMA WorkStep ==
  ASSUME FieldInv, FieldAdminAssumption, UNCHANGED site, NEW c \in Clients,
         Probe(c) \/ Alter(c) \/ Load(c) \/ Apply(c)
  PROVE  FieldInv'
  <1> DEFINE q == req[c]
  <1>1. /\ UNCHANGED <<site, field, audit, dirty, unaudited>> /\ RequestOK(c)
        /\ dirty' = [d \in Clients |-> dirty'[d]]
    BY Zenon DEF Probe, Alter, Load, Apply, FieldInv
  <1>2. PICK p, s :
           /\ req' = [req EXCEPT ![c] = [q EXCEPT !.pc = p, !.seen = s]]
           /\ \/ q.pc \in {"probe", "alter"} /\ p \in {"old", "alter", "save"}
                 /\ (q.op = "scan" => p \notin {"alter", "save"})
              \/ q.pc \in {"load", "apply"} /\ p \in {"apply", "record"}
    <2>1. CASE Probe(c)
      <3> DEFINE pp == IF q.op = "scan" THEN "old" ELSE "alter"
      <3>1. q.pc = "probe" /\ req' = [req EXCEPT ![c] = [q EXCEPT !.pc = pp, !.seen = phys[q.dsn]]]
        BY <2>1, Zenon DEF Probe, At, Goto
      <3>2. pp \in {"old", "alter", "save"} /\ (q.op = "scan" => pp \notin {"alter", "save"})
        BY Zenon
      <3> HIDE DEF pp
      <3> QED
        BY <3>1, <3>2, Zenon
    <2>2. CASE Alter(c)
      BY <2>2, <1>1, Zenon DEF Alter, At, Goto, RequestOK
    <2>3. CASE Load(c)
      BY <2>3, Zenon DEF Load, At, Goto
    <2>4. CASE Apply(c)
      BY <2>4, Zenon DEF Apply, At, Goto
    <2> QED
      BY <2>1, <2>2, <2>3, <2>4, Zenon
  <1> DEFINE r == [q EXCEPT !.pc = p, !.seen = s]
  <1>3. /\ r = [x \in Parts |-> r[x]] /\ r.pc = p /\ r.old = q.old
        /\ r.op = q.op /\ r.tenant = q.tenant /\ r.id = q.id /\ r.col = q.col /\ r.row = q.row
    BY <1>1, Zenon DEF RequestOK, Parts
  <1> HIDE DEF r
  <1>4. req' = [req EXCEPT ![c] = r]
    BY <1>2, Zenon DEF r
  <1>5. \/ /\ q.pc \in {"resolve", "probe", "alter"} /\ r.pc \in {"old", "probe", "alter", "save"}
           /\ r.op = "scan" => r.pc \notin {"alter", "save"}
        \/ q.pc \in {"load", "apply"} /\ r.pc \in {"apply", "record"}
    BY <1>2, <1>3, Zenon
  <1>6. \A d \in Clients : dirty[d] \subseteq dirty'[d]
    BY <1>1, Zenon
  <1> QED
    BY <1>1, <1>3, <1>4, <1>5, <1>6, MoveOn, Zenon

LEMMA AbandonStep ==
  ASSUME FieldInv, FieldAdminAssumption, UNCHANGED site, NEW c \in Clients, Abandon(c)
  PROVE  FieldInv'
  <1>1. /\ req[c].pc \notin Writing /\ req' = [req EXCEPT ![c] = NoRequest]
        /\ UNCHANGED <<site, field, audit, unaudited>> /\ RowsWritten({})
    BY Zenon DEF Abandon, Fail, Goto, Writing
  <1> QED
    BY <1>1, GiveUp, NothingWritten, Zenon

\* Steps on the monitored databases.
LEMMA DatabaseStep ==
  ASSUME FieldInv, UNCHANGED <<site, field, req, audit, dirty, unaudited>>
  PROVE  FieldInv'
  <1>1. ASSUME NEW c \in Clients PROVE RequestOK(c)' /\ ReadOK(c)'
    BY Zenon DEF FieldInv, RequestOK, ReadOK
  <1>2. ASSUME NEW k \in ColumnNames PROVE AuditOK(k)'
    <2>1. \A c \in Clients : (Saved(c, k)' <=> Saved(c, k)) /\ (Records(c, k)' <=> Records(c, k))
      BY Zenon DEF Saved, Records
    <2> QED
      BY <2>1, Zenon DEF FieldInv, AuditOK
  <1> QED
    BY <1>1, <1>2, Zenon DEF FieldInv

\* No request moves; rows change only in columns then unaudited.
LEMMA DeleteDatabaseStep ==
  ASSUME FieldInv, FieldAdminAssumption, UNCHANGED site, NEW t, NEW i, DeleteDatabase(t, i)
  PROVE  FieldInv'
  <1> DEFINE gone == {k \in Keys : k[1] = i /\ field[k] # Nil}
  <1>1. /\ UNCHANGED <<site, req, audit>> /\ RowsWritten(gone)
        /\ field' = [k \in Keys |-> IF k \in gone THEN Nil ELSE field[k]]
        /\ unaudited' = unaudited \cup {k[3] : k \in gone}
    BY Zenon DEF DeleteDatabase
  <1> HIDE DEF gone
  <1>2. /\ dirty' = [d \in Clients |-> dirty'[d]]
        /\ \A d \in Clients : req[d].op \in {"create", "scan"} => dirty'[d] = dirty[d] \cup gone
    BY <1>1, Zenon DEF RowsWritten
  <1>3. ASSUME NEW d \in Clients PROVE RequestOK(d)' /\ ReadOK(d)'
    <2>1. RequestOK(d) /\ ReadOK(d) /\ req'[d] = req[d]
      BY <1>1, Zenon DEF FieldInv
    <2>2. RequestOK(d)'
      BY <2>1, Zenon DEF RequestOK
    <2>3. req[d].op \in {"create", "scan"} =>
             \A k \in Keys : k \in dirty[d] \/ field'[k] # field[k] => k \in dirty'[d]
      BY <1>1, <1>2, Zenon
    <2> QED
      BY <2>1, <2>2, <2>3, ReadKept, Zenon
  <1>4. ASSUME NEW k \in ColumnNames PROVE AuditOK(k)'
    <2>1. k \notin unaudited' =>
             \A j \in Ids : field'[<<j, DefaultTenant, k>>] = field[<<j, DefaultTenant, k>>]
      <3> SUFFICES ASSUME k \notin unaudited', NEW j \in Ids
                   PROVE  field'[<<j, DefaultTenant, k>>] = field[<<j, DefaultTenant, k>>]
        BY Zenon
      <3>1. <<j, DefaultTenant, k>> \in Keys
        BY FieldAdminAssumption, Zenon DEF Keys
      <3>2. <<j, DefaultTenant, k>> \notin gone
        BY <1>1
      <3> QED
        BY <1>1, <3>1, <3>2, Zenon
    <2>2. \A c \in Clients : Saved(c, k)' <=> Saved(c, k)
      BY <1>1, Zenon DEF Saved
    <2> QED
      BY <1>1, <2>1, <2>2, AuditKept, Zenon DEF FieldInv
  <1> QED
    BY <1>1, <1>2, <1>3, <1>4, Zenon DEF FieldInv

\* A request is answered; what it has written is taken down, and its columns
\* are then unaudited.
LEMMA EndUnaudited ==
  ASSUME FieldInv, FieldAdminAssumption, NEW c \in Clients, NEW keys \in SUBSET Keys,
         UNCHANGED <<site, audit>>, req' = [req EXCEPT ![c] = NoRequest], RowsWritten(keys),
         \A k \in Keys \ keys : field'[k] = field[k],
         unaudited \subseteq unaudited', \A k \in keys : k[3] \in unaudited',
         req[c].pc \in Writing => req[c].col \in unaudited'
  PROVE  FieldInv'
  <1>1. /\ dirty' = [d \in Clients |-> dirty'[d]]
        /\ \A d \in Clients \ {c} : req[d].op \in {"create", "scan"} => dirty'[d] = dirty[d] \cup keys
    BY RowsWrittenFacts, Zenon
  <1>2. /\ req' = [d \in Clients |-> req'[d]] /\ req'[c] = NoRequest
        /\ \A d \in Clients \ {c} : req'[d] = req[d] /\ RequestOK(d)' /\ ReadOK(d)'
    <2>1. \A d \in Clients \ {c} : req[d].op \in {"create", "scan"} =>
             \A k \in Keys : k \in dirty[d] \/ field'[k] # field[k] => k \in dirty'[d]
      BY <1>1
    <2> QED
      BY <2>1, OthersKept, Zenon
  <1>3. RequestOK(c)' /\ ReadOK(c)' /\ NoRequest.pc \notin Writing
    BY <1>2, NoRequestOK, Zenon
  <1>4. ASSUME NEW k \in ColumnNames PROVE AuditOK(k)'
    <2>1. k \notin unaudited' =>
             \A j \in Ids : field'[<<j, DefaultTenant, k>>] = field[<<j, DefaultTenant, k>>]
      <3> SUFFICES ASSUME k \notin unaudited', NEW j \in Ids
                   PROVE  field'[<<j, DefaultTenant, k>>] = field[<<j, DefaultTenant, k>>]
        BY Zenon
      <3>1. <<j, DefaultTenant, k>> \in Keys
        BY FieldAdminAssumption, Zenon DEF Keys
      <3> QED
        BY <3>1, Zenon
    <2>2. k \notin unaudited' =>
             \A d \in Clients :
                /\ Saved(d, k)' <=> Saved(d, k)
                /\ Saved(d, k) => req'[d] = req[d]
      BY <1>2, <1>3 DEF Saved
    <2> QED
      BY <2>1, <2>2, AuditKept, Zenon DEF FieldInv
  <1> QED
    BY <1>1, <1>2, <1>3, <1>4, Zenon DEF FieldInv

LEMMA RecordFailsStep ==
  ASSUME FieldInv, FieldAdminAssumption, UNCHANGED site, NEW c \in Clients, RecordFails(c)
  PROVE  FieldInv'
  BY EndUnaudited, Zenon DEF RecordFails, Goto

LEMMA RollbackStep ==
  ASSUME FieldInv, FieldAdminAssumption, UNCHANGED site, NEW c \in Clients, Rollback(c)
  PROVE  FieldInv'
  <1> DEFINE q == req[c]
             rolled == IF q.op = "create" THEN {q.id} \X Tenants \X {q.col} ELSE {<<q.id, DefaultTenant, q.col>>}
  <1>1. /\ q.pc \in Writing /\ UNCHANGED <<site, audit>> /\ req' = [req EXCEPT ![c] = NoRequest]
        /\ unaudited' = unaudited \cup {q.col} /\ RequestOK(c)
    BY Zenon DEF Rollback, Goto, Writing, FieldInv
  <1>2. q.id \in Ids /\ q.col \in ColumnNames
    BY <1>1, Zenon DEF RequestOK, Writing
  <1>3. CASE UNCHANGED field /\ RowsWritten({})
    BY <1>1, <1>3, EndUnaudited, Zenon
  <1>4. CASE /\ field' = [k \in Keys |-> IF k \in rolled THEN RollbackRow(q) ELSE field[k]]
             /\ RowsWritten(rolled)
    <2>1. rolled \in SUBSET Keys /\ \A k \in rolled : k[3] = q.col
      BY <1>2, FieldAdminAssumption DEF Keys
    <2> HIDE DEF rolled
    <2>2. \A k \in Keys \ rolled : field'[k] = field[k]
      BY <1>4, Zenon
    <2> QED
      BY <1>1, <1>4, <2>1, <2>2, EndUnaudited, Zenon
  <1> QED
    BY <1>3, <1>4, Zenon DEF Rollback

LEMMA ScanSaveStep ==
  ASSUME FieldInv, FieldAdminAssumption, UNCHANGED site, NEW c \in Clients, ScanSave(c)
  PROVE  FieldInv'
  <1> DEFINE q == req[c]
             kept == {k \in ColumnNames : /\ q.seen[k] # Nil
                                          /\ mergeValidators(q.old, k) \in Registered \cup {Nil}}
             keys == {q.id} \X {q.tenant} \X kept
             row(k) == [type |-> q.seen[k], validator |-> mergeValidators(q.old, k)]
  <1>1. /\ q.pc = "save" /\ UNCHANGED <<site, audit>> /\ req' = [req EXCEPT ![c] = NoRequest]
        /\ unaudited' = unaudited \cup kept /\ RequestOK(c) /\ RowsWritten(keys)
        /\ field' = [k \in Keys |-> IF k \in keys THEN row(k[3]) ELSE field[k]]
    BY Zenon DEF ScanSave, At, Goto, FieldInv
  <1>2. q.id \in Ids /\ q.tenant \in Tenants
    BY <1>1, Zenon DEF RequestOK, ScanSave
  <1>3. keys \in SUBSET Keys /\ \A k \in keys : k[3] \in kept
    BY <1>2, Zenon DEF Keys
  <1> HIDE DEF keys, kept, row
  <1>4. \A k \in Keys \ keys : field'[k] = field[k]
    BY <1>1, Zenon
  <1>5. \A k \in keys : k[3] \in unaudited'
    BY <1>1, <1>3, Zenon
  <1> QED
    BY <1>1, <1>3, <1>4, <1>5, EndUnaudited, Zenon DEF Writing

\* What a save does to its column: it is the only one not recorded, and a delete
\* that records nothing has found nothing.
LEMMA SavedColumn ==
  ASSUME FieldInv, FieldAdminAssumption, NEW c \in Clients, Save(c), NEW r,
         req'[c] = r, \A d \in Clients \ {c} : req'[d] = req[d],
         r.op = req[c].op, r.id = req[c].id, r.col = req[c].col, r.row = req[c].row,
         r.old = req[c].old, r.pc \in Writing, req[c].id \in Ids, req[c].col \in ColumnNames
  PROVE  AuditOK(req[c].col)'
  <1> DEFINE q == req[c]  k == q.col  keys == SaveKeys(q)
             value == IF q.op = "delete" THEN Nil ELSE q.row
             hidden == q.op = "delete" /\ q.old[q.col] = Nil /\ \E j \in keys : field[j] # Nil
  <1>1. /\ q.pc = "save" /\ audit' = audit
        /\ field' = [j \in Keys |-> IF j \in keys THEN value ELSE field[j]]
        /\ unaudited' = unaudited \cup IF Unrecorded(c, k) \/ hidden THEN {k} ELSE {}
    BY Zenon DEF Save, At
  <1>2. AuditOK(k) /\ RequestOK(c)
    BY Zenon DEF FieldInv
  <1> SUFFICES ASSUME k \notin unaudited' PROVE AuditOK(k)'
    BY <1>1, <1>2, Zenon DEF AuditOK
  <1>3. k \notin unaudited /\ ~Unrecorded(c, k) /\ ~hidden
    BY <1>1, Zenon
  <1>4. \A d \in Clients : Saved(d, k)' => d = c
    BY <1>3, Zenon DEF Unrecorded, Saved, Writing
  <1>5. \A d \in Clients : ~Saved(d, k)
    BY <1>1, <1>3, Zenon DEF Unrecorded, Saved, Writing
  <1>6. <<q.id, DefaultTenant, k>> \in keys \cap Keys
    BY FieldAdminAssumption, Zenon DEF SaveKeys, Keys
  <1>7. value = q.row
    BY <1>2, Zenon DEF RequestOK
  <1> HIDE DEF keys, value
  <1>8. field'[<<q.id, DefaultTenant, k>>] = q.row
    BY <1>1, <1>6, <1>7, Zenon
  <1>9. audit[k] = NoEntry \/ (audit[k].id \in Ids /\ field[<<audit[k].id, DefaultTenant, k>>] = audit[k].after)
    BY <1>2, <1>3, <1>5, Zenon DEF AuditOK
  <1>10. CASE Records(c, k)'
    <2>1. Saved(c, k)'
      BY Zenon DEF Saved
    <2> QED
      BY <1>1, <1>4, <1>8, <1>9, <1>10, <2>1, Zenon DEF AuditOK
  <1>11. CASE ~Records(c, k)'
    <2>1. q.op = "delete" /\ q.old[k] = Nil
      BY <1>11, Zenon DEF Records
    <2>2. \A j \in keys : field[j] = Nil
      BY <1>3, <2>1, Zenon
    <2>3. value = Nil
      BY <2>1, Zenon DEF value
    <2>4. \A j \in Keys : field'[j] = field[j]
      BY <1>1, <2>2, <2>3, Zenon
    <2>5. \A i \in Ids : <<i, DefaultTenant, k>> \in Keys
      BY FieldAdminAssumption, Zenon DEF Keys
    <2>6. audit'[k] = NoEntry \/ field'[<<audit'[k].id, DefaultTenant, k>>] = audit'[k].after
      BY <1>1, <1>9, <2>4, <2>5, Zenon
    <2> QED
      BY <1>1, <1>4, <1>8, <1>9, <2>6, Zenon DEF AuditOK
  <1> QED
    BY <1>10, <1>11, Zenon

LEMMA SaveStep ==
  ASSUME FieldInv, FieldAdminAssumption, UNCHANGED site, NEW c \in Clients, Save(c)
  PROVE  FieldInv'
  <1> DEFINE q == req[c]  keys == SaveKeys(q)
             p == IF q.dsn \in MongoServers THEN "load" ELSE "record"
             r == [q EXCEPT !.pc = p]
             value == IF q.op = "delete" THEN Nil ELSE q.row
  <1>1. /\ q.pc = "save" /\ q.op # "scan" /\ UNCHANGED <<site, audit>> /\ RowsWritten(keys)
        /\ req' = [req EXCEPT ![c] = r] /\ unaudited \subseteq unaudited' /\ RequestOK(c)
        /\ field' = [j \in Keys |-> IF j \in keys THEN value ELSE field[j]]
    BY Zenon DEF Save, At, Goto, FieldInv
  <1>2. q.id \in Ids /\ q.col \in ColumnNames
    BY <1>1, Zenon DEF RequestOK
  <1>3. /\ r = [x \in Parts |-> r[x]] /\ r.pc \in Writing /\ r.old = q.old
        /\ r.op = q.op /\ r.tenant = q.tenant /\ r.id = q.id /\ r.col = q.col /\ r.row = q.row
    BY <1>1, Zenon DEF RequestOK, Parts, Writing
  <1>4. keys \in SUBSET Keys /\ \A j \in keys : j[3] = q.col
    BY <1>2, FieldAdminAssumption DEF Keys, SaveKeys
  <1> HIDE DEF r, keys, value
  <1>5. /\ dirty' = [d \in Clients |-> dirty'[d]]
        /\ \A d \in Clients \ {c} : req[d].op \in {"create", "scan"} => dirty'[d] = dirty[d] \cup keys
    BY <1>1, RowsWrittenFacts, Zenon
  <1>6. /\ req' = [d \in Clients |-> req'[d]] /\ req'[c] = r
        /\ \A d \in Clients \ {c} : req'[d] = req[d] /\ RequestOK(d)' /\ ReadOK(d)'
    <2>1. \A d \in Clients \ {c} : req[d].op \in {"create", "scan"} =>
             \A k \in Keys : k \in dirty[d] \/ field'[k] # field[k] => k \in dirty'[d]
      BY <1>1, <1>5, Zenon
    <2> QED
      BY <1>1, <2>1, OthersKept, Zenon
  <1>7. RequestOK(c)'
    BY <1>1, <1>2, <1>3, <1>6 DEF RequestOK, Writing
  <1>8. ReadOK(c)'
    BY <1>3, <1>6, Zenon DEF ReadOK, Writing
  <1>9. ASSUME NEW k \in ColumnNames PROVE AuditOK(k)'
    <2>1. CASE k = q.col
      BY <1>2, <1>3, <1>6, <2>1, SavedColumn, Zenon
    <2>2. CASE k # q.col
      <3>1. ASSUME NEW j \in Ids
            PROVE  field'[<<j, DefaultTenant, k>>] = field[<<j, DefaultTenant, k>>]
        <4>1. <<j, DefaultTenant, k>> \in Keys \ keys
          BY <1>4, <2>2, FieldAdminAssumption, Zenon DEF Keys
        <4> QED
          BY <1>1, <4>1, Zenon
      <3>2. \A d \in Clients : (Saved(d, k)' <=> Saved(d, k)) /\ (Saved(d, k) => req'[d] = req[d])
        BY <1>3, <1>6, <2>2, Zenon DEF Saved
      <3> QED
        BY <1>1, <3>1, <3>2, AuditKept, Zenon DEF FieldInv
    <2> QED
      BY <2>1, <2>2, Zenon
  <1> QED
    BY <1>1, <1>5, <1>6, <1>7, <1>8, <1>9, Zenon DEF FieldInv

LEMMA RecordStep ==
  ASSUME FieldInv, FieldAdminAssumption, UNCHANGED site, NEW c \in Clients, Record(c)
  PROVE  FieldInv'
  <1> DEFINE q == req[c]  entry == [id |-> q.id, after |-> q.row]
  <1>1. /\ q.pc = "record" /\ UNCHANGED <<site, field, unaudited>> /\ RowsWritten({})
        /\ req' = [req EXCEPT ![c] = NoRequest] /\ RequestOK(c)
        /\ audit' = IF q.op = "delete" /\ q.old[q.col] = Nil THEN audit ELSE [audit EXCEPT ![q.col] = entry]
    BY Zenon DEF Record, At, Goto, FieldInv
  <1>2. q.id \in Ids /\ q.col \in ColumnNames /\ Saved(c, q.col)
    BY <1>1, Zenon DEF RequestOK, Writing, Saved
  <1>3. entry.id = q.id /\ entry.after = q.row
    BY Zenon
  <1> HIDE DEF entry
  <1>4. /\ audit' = [k \in ColumnNames |-> audit'[k]] /\ \A k \in ColumnNames \ {q.col} : audit'[k] = audit[k]
        /\ audit'[q.col] = IF Records(c, q.col) THEN entry ELSE audit[q.col]
    BY <1>1, <1>2, Zenon DEF FieldInv, Records
  <1>5. dirty' = [d \in Clients |-> dirty'[d]]
        /\ \A d \in Clients \ {c} : req[d].op \in {"create", "scan"} => dirty[d] \subseteq dirty'[d]
    BY <1>1, NothingWritten, Zenon
  <1>6. /\ req' = [d \in Clients |-> req'[d]] /\ req'[c] = NoRequest
        /\ \A d \in Clients \ {c} : req'[d] = req[d] /\ RequestOK(d)' /\ ReadOK(d)'
    BY <1>1, <1>5, OthersKept, Zenon
  <1>7. RequestOK(c)' /\ ReadOK(c)' /\ NoRequest.pc \notin Writing
    BY <1>6, NoRequestOK, Zenon
  <1>8. ASSUME NEW k \in ColumnNames PROVE AuditOK(k)'
    <2>1. CASE k = q.col
      <3>1. AuditOK(k)
        BY Zenon DEF FieldInv
      <3>2. audit'[k] # NoEntry => audit'[k].id \in Ids
        BY <1>2, <1>3, <1>4, <2>1, <3>1, Zenon DEF AuditOK
      <3>3. ASSUME k \notin unaudited
            PROVE  /\ \A d \in Clients : ~Saved(d, k)'
                   /\ audit'[k] = NoEntry \/ field[<<audit'[k].id, DefaultTenant, k>>] = audit'[k].after
        <4>1. \A d \in Clients : Saved(d, k) => d = c
          BY <1>2, <2>1, <3>1, <3>3, Zenon DEF AuditOK
        <4>2. \A d \in Clients : ~Saved(d, k)'
          BY <1>6, <1>7, <4>1, Zenon DEF Saved
        <4>3. CASE Records(c, k)
          BY <1>2, <1>3, <1>4, <2>1, <3>1, <3>3, <4>2, <4>3 DEF AuditOK
        <4>4. CASE ~Records(c, k)
          BY <1>4, <2>1, <3>1, <3>3, <4>1, <4>2, <4>4, Zenon DEF AuditOK
        <4> QED
          BY <4>3, <4>4, Zenon
      <3> QED
        BY <1>1, <3>2, <3>3, Zenon DEF AuditOK
    <2>2. CASE k # q.col
      <3>1. \A d \in Clients : (Saved(d, k)' <=> Saved(d, k)) /\ (Saved(d, k) => req'[d] = req[d])
        BY <1>6, <1>7, <2>2, Zenon DEF Saved
      <3> QED
        BY <1>1, <1>4, <2>2, <3>1, AuditKept, Zenon DEF FieldInv
    <2> QED
      BY <2>1, <2>2
  <1> QED
    BY <1>1, <1>4, <1>5, <1>6, <1>7, <1>8 DEF FieldInv

LEMMA FieldKept ==
  ASSUME FieldInv, FieldAdminAssumption, [FieldNext]_fieldVars
  PROVE  FieldInv'
  <1>1. CASE UNCHANGED fieldVars
    BY <1>1, DatabaseStep, Zenon DEF fieldVars
  <1>2. CASE FieldNext
    <2>1. UNCHANGED site /\ FieldStep
      BY <1>2, Zenon DEF FieldNext
    <2>2. site.callers \subseteq Clients
      BY FieldAdminAssumption, Zenon DEF FieldInv
    <2>3. ASSUME NEW t \in site.tenants, NEW i \in Ids,
                 \/ \E s \in site.servers : CreateDatabase(t, i, s) \/ UpdateDatabase(t, i, s)
                 \/ DeleteDatabase(t, i) \/ EnsureExists(t, i)
          PROVE  FieldInv'
      BY <2>1, <2>3, DatabaseStep, DeleteDatabaseStep, Zenon
         DEF CreateDatabase, UpdateDatabase, EnsureExists
    <2>4. ASSUME NEW s \in site.servers, NEW k \in ColumnNames, NEW ty \in DataTypes, ForeignDDL(s, k, ty)
          PROVE  FieldInv'
      BY <2>1, <2>4, DatabaseStep, Zenon DEF ForeignDDL
    <2>5. ASSUME NEW c \in site.callers,
                 \/ StartRequest(c) \/ Lookup(c) \/ Resolve(c) \/ UpdateOld(c) \/ DeleteOld(c)
                 \/ Probe(c) \/ Alter(c) \/ Save(c) \/ Record(c) \/ RecordFails(c)
                 \/ Load(c) \/ Apply(c) \/ Rollback(c)
                 \/ ScanLoad(c) \/ ScanSave(c) \/ Abandon(c)
          PROVE  FieldInv'
      <3>1. c \in Clients
        BY <2>2
      <3> QED
        BY <2>1, <2>5, <3>1, StartRequestStep, LookupStep, ResolveStep, UpdateOldStep, DeleteOldStep,
           WorkStep, SaveStep, RecordStep, RecordFailsStep, RollbackStep, ScanLoadStep,
           ScanSaveStep, AbandonStep, Zenon
    <2> QED
      BY <2>1, <2>3, <2>4, <2>5, Zenon DEF FieldStep
  <1> QED
    BY <1>1, <1>2, Zenon

\* For every site, with any number of requests in flight: the last audit entry
\* about a column says what the registry holds, unless a change is known to have
\* no entry.
THEOREM AuditTruthful == FieldSpec => []AuditMatches
  <1>1. FieldInv => AuditMatches
    BY Zenon DEF FieldInv, AuditMatches, AuditOK, Saved, Writing
  <1> QED
    BY FieldInitial, FieldKept, FieldAdminAssumption, <1>1, PTL DEF FieldSpec

\* For every site: a scan changes a validator only of a row written after the scan
\* had loaded it.
THEOREM ScanSafe == FieldSpec => ScanKeepsLoaded
  <1>1. FieldInv /\ [FieldNext]_fieldVars =>
          [\A c \in Clients : ScanSave(c) => \A k \in Keys : Cleared(k) => k \in dirty[c]]_fieldVars
    <2> SUFFICES ASSUME FieldInv, NEW c \in Clients, ScanSave(c), NEW k \in Keys, Cleared(k), k \notin dirty[c]
                 PROVE  FALSE
      BY Zenon
    <2> DEFINE q == req[c]
               kept == {j \in ColumnNames : /\ q.seen[j] # Nil
                                            /\ mergeValidators(q.old, j) \in Registered \cup {Nil}}
               keys == {q.id} \X {q.tenant} \X kept
               row(j) == [type |-> q.seen[j], validator |-> mergeValidators(q.old, j)]
    <2>1. /\ q.pc = "save" /\ q.op = "scan" /\ ReadOK(c)
          /\ field' = [j \in Keys |-> IF j \in keys THEN row(j[3]) ELSE field[j]]
      BY Zenon DEF ScanSave, At, FieldInv
    <2>2. k \in keys
      BY <2>1, Zenon DEF Cleared
    <2>3. k = <<q.id, q.tenant, k[3]>> /\ k[3] \in ColumnNames
      BY <2>2
    <2>4. field'[k].validator = mergeValidators(q.old, k[3])
      <3>1. field'[k] = row(k[3])
        BY <2>1, <2>2, Zenon
      <3> QED
        BY <3>1
    <2> HIDE DEF keys
    <2>5. field[k] = q.old[k[3]]
      BY <2>1, <2>3, Zenon DEF ReadOK
    <2> QED
      BY <2>4, <2>5, Zenon DEF Cleared, mergeValidators
  <1> QED
    BY FieldInitial, FieldKept, FieldAdminAssumption, <1>1, PTL DEF FieldSpec, ScanKeepsLoaded

\* For every site: a create of the default tenant replaces a row only if it was
\* written after the create had looked for it.
THEOREM CreateSafe == FieldSpec => CreateOverwriteExplained
  <1>1. FieldInv /\ [FieldNext]_fieldVars =>
          [\A c \in Clients, k \in Keys :
              CreateSaves(c, k) /\ req[c].tenant = DefaultTenant => k \in dirty[c]]_fieldVars
    <2> SUFFICES ASSUME FieldInv, NEW c \in Clients, NEW k \in Keys, CreateSaves(c, k),
                        req[c].tenant = DefaultTenant, k \notin dirty[c]
                 PROVE  FALSE
      BY Zenon
    <2> DEFINE q == req[c]
    <2>1. /\ q.op = "create" /\ q.pc = "save" /\ ReadOK(c) /\ field[k] # Nil /\ field'[k] # field[k]
          /\ field' = [j \in Keys |-> IF j \in SaveKeys(q)
                                      THEN IF q.op = "delete" THEN Nil ELSE q.row ELSE field[j]]
      BY Zenon DEF CreateSaves, Save, At, FieldInv
    <2>2. k = <<q.id, q.tenant, q.col>>
      BY <2>1, Zenon DEF SaveKeys
    <2> QED
      BY <2>1, <2>2, Zenon DEF ReadOK
  <1> QED
    BY FieldInitial, FieldKept, FieldAdminAssumption, <1>1, PTL DEF FieldSpec, CreateOverwriteExplained

-----------------------------------------------------------------------------
Defs == [Fields -> Types \cup {None}]

Call == {c \in [pc : {"idle", "column", "meta", "stored"},
                kind : {"none", "create", "update", "delete"},
                field : Fields \cup {None}, type : Types \cup {None},
                tried : SUBSET Targets, clean : BOOLEAN] :
           c.pc # "idle" => /\ c.field \in Fields /\ c.kind # "none"
                            /\ c.kind = "delete" => c.type = None}

Report == {x \in [pc : {"idle", "read", "repair", "done"}, meta : Defs,
                  table : Tables \cup {NoTable}, missing : SUBSET Fields, todo : SUBSET Fields,
                  on : Targets \cup {None}, tried : SUBSET Targets,
                  from : Targets \cup {None}, alone : BOOLEAN] :
             /\ x.todo \subseteq x.missing
             /\ x.on = None => x.todo = x.missing
             /\ \A f \in x.missing : x.meta[f] # None}

SyncType ==
    /\ dep \in Deployments
    /\ col \in [Targets -> Defs] /\ stored \in [Targets -> Defs] /\ meta \in Defs
    /\ call \in [Callers -> Call] /\ rec \in [Reconcilers -> Report]
    /\ broken \subseteq Fields /\ used \in [Fields -> SUBSET Targets]

\* A running call has its field marked; a clean one is the only call of its
\* field, and what it has written so far is there.
CallSound(p) ==
    LET c == call[p]
    IN  /\ c.pc # "idle" => c.field \in broken
        /\ c.clean /\ c.pc # "idle" =>
             /\ \A q \in Callers \ {p} : call[q].field = c.field => call[q].pc = "idle"
             /\ c.pc \in {"meta", "stored"} =>
                  \A t \in Targets : used[c.field] \subseteq {t} => col[t][c.field] = c.type
             /\ c.pc = "stored" => meta[c.field] = c.type

\* What a reconciler that has the data to itself knows: what it read of the meta
\* database is current, ...
MetaCurrent(x) ==
    x.pc \in {"read", "repair"} =>
        \A f \in Fields : x.meta[f] = IF InTable(f, x.table) THEN meta[f] ELSE None

\* ... a field it does not have to repair has its column in the target it read,
\* one it has repaired is in the target it repairs, and the fields it found
\* missing there are missing or its own repairs.
RepairSound(x) ==
    x.pc = "repair" =>
        /\ x.from # None => \A f \in Fields \ x.missing : x.meta[f] # None =>
             \E g \in Fields : g[2] = f[2] /\ InTable(g, x.table) /\ stored[x.from][g] # None
        /\ \A f \in x.missing \ x.todo : x.on # None /\ stored[x.on][f] # None
        /\ x.from # None => \A f \in x.missing : stored[x.from][f] \in {None, x.meta[f]}

Complete(x) ==
    x.pc = "done" /\ x.from # None =>
        \A f \in Fields : InTable(f, x.table) /\ meta[f] # None =>
            \E t \in Targets, g \in Fields :
                g[2] = f[2] /\ InTable(g, x.table) /\ stored[t][g] # None

ReportSound(r) ==
    rec[r].alone => MetaCurrent(rec[r]) /\ RepairSound(rec[r]) /\ Complete(rec[r])

SyncInv ==
    /\ SyncType
    /\ AgreeOrBroken
    /\ \A p \in Callers : CallSound(p)
    /\ \A r \in Reconcilers : ReportSound(r)

-----------------------------------------------------------------------------
LEMMA IdleFacts == /\ Idle \in Call /\ Idle.pc = "idle" /\ Idle.clean = FALSE
                   /\ NoReport \in Report /\ NoReport.alone = FALSE /\ NoDefs \in Defs
  <1>1. NoDefs \in Defs
    BY DEF NoDefs, Defs
  <1> QED
    BY <1>1, Zenon DEF Idle, Call, NoReport, Report

LEMMA InitSync == Init => SyncInv
  <1> SUFFICES ASSUME Init PROVE SyncInv
    OBVIOUS
  <1>1. SyncType
    BY IdleFacts, Zenon DEF Init, SyncType
  <1>2. AgreeOrBroken
    BY DEF Init, AgreeOrBroken, NoDefs
  <1>3. ASSUME NEW p \in Callers PROVE CallSound(p)
    BY IdleFacts, Zenon DEF Init, CallSound
  <1>4. ASSUME NEW r \in Reconcilers PROVE ReportSound(r)
    BY IdleFacts, Zenon DEF Init, ReportSound
  <1> QED
    BY <1>1, <1>2, <1>3, <1>4 DEF SyncInv

-----------------------------------------------------------------------------
\* A write of a call leaves no reconciler with anything to show.
LEMMA Disturbed ==
  ASSUME SyncType, Disturb
  PROVE  rec' \in [Reconcilers -> Report] /\ \A r \in Reconcilers : ReportSound(r)'
  <1>1. ASSUME NEW r \in Reconcilers PROVE rec'[r] \in Report /\ rec'[r].alone = FALSE
    <2> DEFINE x == rec[r]
    <2>1. x \in Report /\ rec'[r] = [x EXCEPT !.alone = FALSE]
      BY DEF SyncType, Disturb
    <2> HIDE DEF x
    <2> QED
      BY <2>1, Zenon DEF Report
  <1>2. rec' = [r \in Reconcilers |-> rec'[r]]
    BY DEF Disturb
  <1> QED
    BY <1>1, <1>2, Zenon DEF ReportSound

LEMMA ReportsKept ==
  ASSUME SyncInv, UNCHANGED <<rec, stored, meta>>
  PROVE  \A r \in Reconcilers : ReportSound(r)'
  <1>1. rec' = rec /\ stored' = stored /\ meta' = meta
    OBVIOUS
  <1> QED
    BY <1>1, SMTT(30) DEF SyncInv, ReportSound, MetaCurrent, RepairSound, Complete

\* A reconciler's step that writes no field.
LEMMA ReportStep ==
  ASSUME SyncInv, NEW r \in Reconcilers, NEW x \in Report, rec' = [rec EXCEPT ![r] = x],
         UNCHANGED <<dep, col, stored, meta, call, broken, used>>,
         x.alone => MetaCurrent(x) /\ RepairSound(x) /\ Complete(x)
  PROVE  SyncInv'
  <1>1. /\ rec' \in [Reconcilers -> Report] /\ rec'[r] = x
        /\ \A q \in Reconcilers : q # r => rec'[q] = rec[q]
    BY Zenon DEF SyncInv, SyncType
  <1>2. SyncType'
    BY <1>1, Zenon DEF SyncInv, SyncType
  <1>3. AgreeOrBroken' /\ \A p \in Callers : CallSound(p)'
    BY Zenon DEF SyncInv, AgreeOrBroken, CallSound
  <1>4. stored' = stored /\ meta' = meta
    BY Zenon
  <1>5. ASSUME NEW q \in Reconcilers PROVE ReportSound(q)'
    <2>1. CASE q = r
      BY <1>1, <1>4, <2>1, SMTT(30) DEF ReportSound, MetaCurrent, RepairSound, Complete
    <2>2. CASE q # r
      <3>1. ReportSound(q) /\ rec'[q] = rec[q]
        BY <1>1, <2>2, Zenon DEF SyncInv
      <3> QED
        BY <1>4, <3>1, SMTT(30) DEF ReportSound, MetaCurrent, RepairSound, Complete
    <2> QED
      BY <2>1, <2>2
  <1> QED
    BY <1>2, <1>3, <1>5, Zenon DEF SyncInv

\* A step of a call on its field f, writing what it may: nothing about the other
\* fields, and nothing about the other clean calls, changes.
LEMMA CallStep ==
  ASSUME SyncInv, NEW p \in Callers, NEW f \in Fields, f = call[p].field, call[p].pc # "idle",
         NEW c \in Call, call' = [call EXCEPT ![p] = c],
         c.pc # "idle" => c.field = f,
         c.clean /\ c.pc # "idle" => call[p].clean,
         \A g \in Fields \ {f} :
            /\ used'[g] = used[g] /\ meta'[g] = meta[g]
            /\ \A t \in Targets : col'[t][g] = col[t][g] /\ stored'[t][g] = stored[t][g],
         \/ broken' = broken
         \/ /\ broken' = broken \ {f} /\ call[p].clean /\ c.pc = "idle"
            /\ \A t \in Targets : used'[f] \subseteq {t} =>
                                   meta'[f] = stored'[t][f] /\ meta'[f] = col'[t][f],
         c.clean /\ c.pc \in {"meta", "stored"} =>
            \A t \in Targets : used'[f] \subseteq {t} => col'[t][f] = c.type,
         c.clean /\ c.pc = "stored" => meta'[f] = c.type
  PROVE  AgreeOrBroken' /\ \A q \in Callers : CallSound(q)'
  <1>1. call'[p] = c /\ \A q \in Callers : q # p => call'[q] = call[q]
    BY Zenon DEF SyncInv, SyncType
  <1>2. f \in broken /\ CallSound(p)
    BY Zenon DEF SyncInv, CallSound
  <1>3. AgreeOrBroken'
    BY <1>2 DEF SyncInv, AgreeOrBroken
  <1>4. CallSound(p)'
    <2>1. c.pc # "idle" => c.field \in broken'
      BY <1>2, Zenon
    <2>2. c.clean /\ c.pc # "idle" =>
            \A q \in Callers \ {p} : call'[q].field = c.field => call'[q].pc = "idle"
      BY <1>1, <1>2 DEF CallSound
    <2> QED
      BY <1>1, <2>1, <2>2 DEF CallSound
  <1>5. ASSUME NEW q \in Callers, q # p PROVE CallSound(q)'
    <2> DEFINE d == call[q]
    <2>1. call'[q] = d /\ CallSound(q) /\ d \in Call
      BY <1>1, <1>5, SMTT(30) DEF SyncInv, SyncType
    <2>2. d.pc # "idle" => d.field \in Fields /\ d.field \in broken'
      BY <1>2, <1>5, <2>1, SMTT(30) DEF CallSound, Call
    <2>3. CASE d.clean /\ d.pc # "idle"
      <3>1. d.field # f /\ d.field \in Fields
        BY <1>5, <2>1, <2>2, <2>3, Zenon DEF CallSound
      <3>2. \A o \in Callers \ {q} : call'[o].field = d.field => call'[o].pc = "idle"
        BY <1>1, <2>1, <2>3, <3>1, SMTT(30) DEF CallSound
      <3>3. d.pc \in {"meta", "stored"} =>
              \A t \in Targets : used'[d.field] \subseteq {t} => col'[t][d.field] = d.type
        BY <2>1, <2>3, <3>1 DEF CallSound
      <3>4. d.pc = "stored" => meta'[d.field] = d.type
        BY <2>1, <2>3, <3>1, Zenon DEF CallSound
      <3> QED
        BY <2>1, <2>2, <3>2, <3>3, <3>4 DEF CallSound
    <2>4. CASE ~(d.clean /\ d.pc # "idle")
      BY <2>1, <2>2, <2>4, Zenon DEF CallSound
    <2> QED
      BY <2>3, <2>4, Zenon
  <1> QED
    BY <1>3, <1>4, <1>5, Zenon

-----------------------------------------------------------------------------
LEMMA Deployed ==
  ASSUME SyncType
  PROVE  /\ dep.callers \subseteq Callers /\ dep.targets \subseteq Targets
         /\ dep.types \subseteq Types /\ dep.tables \subseteq Tables
  BY SyncAssumption, Zenon DEF SyncType

LEMMA RunningCall ==
  ASSUME SyncType, NEW p \in Callers, call[p].pc # "idle"
  PROVE  /\ call[p] \in Call /\ call[p].field \in Fields /\ call[p].type \in Types \cup {None}
         /\ call[p].kind \in {"create", "update", "delete"}
         /\ call[p].kind = "delete" => call[p].type = None
  BY Zenon DEF SyncType, Call

\* What one attempt of RunWithTarget writes, of the call's field f.
Wrote(p, t, f) ==
    /\ col' \in [Targets -> Defs] /\ stored' \in [Targets -> Defs]
    /\ used' \in [Fields -> SUBSET Targets] /\ Disturb
    /\ used'[f] = used[f] \cup {t}
    /\ \A g \in Fields \ {f} :
          /\ used'[g] = used[g]
          /\ \A u \in Targets : col'[u][g] = col[u][g] /\ stored'[u][g] = stored[u][g]
    /\ call[p].pc = "column" => col'[t][f] = columnAfter(call[p].kind, col[t][f], call[p].type)
    /\ call[p].pc = "stored" => col' = col /\ stored'[t][f] = call[p].type

LEMMA Written ==
  ASSUME SyncType, NEW p \in Callers, NEW t \in Targets, NEW f, f = call[p].field,
         call[p].pc \in {"column", "stored"}, WriteTarget(p, t)
  PROVE  Wrote(p, t, f)
  <1>1. f \in Fields /\ call[p].type \in Types \cup {None}
    BY RunningCall, Zenon
  <1>2. /\ used' = [used EXCEPT ![f] = used[f] \cup {t}] /\ Disturb
        /\ used \in [Fields -> SUBSET Targets]
    BY SMTT(30), Zenon DEF WriteTarget, SyncType
  <1>3. CASE call[p].pc = "column"
    <2> DEFINE v == columnAfter(call[p].kind, col[t][f], call[p].type)
    <2>1. col' = [col EXCEPT ![t] = [col[t] EXCEPT ![f] = v]] /\ stored' = stored
      BY <1>3, Zenon DEF WriteTarget
    <2>2. col[t] \in Defs /\ col[t][f] \in Types \cup {None} /\ col \in [Targets -> Defs]
      BY <1>1 DEF SyncType, Defs
    <2>3. v \in Types \cup {None}
      BY <1>1, <2>2, RunningCall, Zenon DEF columnAfter
    <2> HIDE DEF v
    <2>4. [col[t] EXCEPT ![f] = v] \in Defs
      BY <1>1, <2>2, <2>3, Zenon DEF Defs
    <2>5. col' \in [Targets -> Defs] /\ col'[t] = [col[t] EXCEPT ![f] = v]
      BY <2>1, <2>2, <2>4, Zenon
    <2>6. \A u \in Targets : u # t => col'[u] = col[u]
      BY <2>1, <2>2, Zenon
    <2>7. col'[t][f] = v /\ \A g \in Fields \ {f} : col'[t][g] = col[t][g]
      BY <1>1, <2>2, <2>5, Zenon DEF Defs
    <2>8. stored' \in [Targets -> Defs]
      BY <2>1, Zenon DEF SyncType
    <2>9. \A g \in Fields \ {f} : \A u \in Targets : col'[u][g] = col[u][g]
      BY <2>6, <2>7, Zenon
    <2> QED
      BY <1>1, <1>2, <1>3, <2>1, <2>5, <2>7, <2>8, <2>9 DEF v, Wrote
  <1>4. CASE call[p].pc = "stored"
    <2> DEFINE v == call[p].type
    <2>1. stored' = [stored EXCEPT ![t] = [stored[t] EXCEPT ![f] = v]] /\ col' = col
      BY <1>4, Zenon DEF WriteTarget
    <2>2. stored[t] \in Defs /\ stored \in [Targets -> Defs]
      BY <1>1, Zenon DEF SyncType, Defs
    <2>4. [stored[t] EXCEPT ![f] = v] \in Defs
      BY <1>1, <2>2, Zenon DEF Defs
    <2>5. stored' \in [Targets -> Defs] /\ stored'[t] = [stored[t] EXCEPT ![f] = v]
      BY <2>1, <2>2, <2>4, Zenon
    <2>6. \A u \in Targets : u # t => stored'[u] = stored[u]
      BY <2>1, <2>2, Zenon
    <2>7. stored'[t][f] = v /\ \A g \in Fields \ {f} : stored'[t][g] = stored[t][g]
      BY <1>1, <2>2, <2>5, Zenon DEF Defs
    <2>8. col' \in [Targets -> Defs]
      BY <2>1, Zenon DEF SyncType
    <2>9. \A g \in Fields \ {f} : \A u \in Targets : stored'[u][g] = stored[u][g]
      BY <2>6, <2>7, Zenon
    <2> QED
      BY <1>1, <1>2, <1>4, <2>1, <2>5, <2>7, <2>8, <2>9 DEF Wrote
  <1> QED
    BY <1>3, <1>4

\* A call moves and the reconcilers are disturbed, or nothing they read changes.
LEMMA CallTypes ==
  ASSUME SyncInv, NEW p \in Callers, NEW c \in Call, call' = [call EXCEPT ![p] = c], UNCHANGED dep,
         col' \in [Targets -> Defs], stored' \in [Targets -> Defs], meta' \in Defs,
         used' \in [Fields -> SUBSET Targets], broken' \subseteq Fields,
         AgreeOrBroken', \A q \in Callers : CallSound(q)',
         Disturb \/ UNCHANGED <<rec, stored, meta>>
  PROVE  SyncInv'
  <1>1. call' \in [Callers -> Call]
    BY Zenon DEF SyncInv, SyncType
  <1>2. rec' \in [Reconcilers -> Report] /\ \A r \in Reconcilers : ReportSound(r)'
    BY Disturbed, ReportsKept, Zenon DEF SyncInv, SyncType
  <1>3. SyncType'
    BY <1>1, <1>2, Zenon DEF SyncInv, SyncType
  <1> QED
    BY <1>2, <1>3, Zenon DEF SyncInv

\* The call returns and its field stays marked.
LEMMA GivesUp ==
  ASSUME SyncInv, NEW p \in Callers, call[p].pc # "idle", call' = [call EXCEPT ![p] = Idle],
         UNCHANGED <<dep, col, stored, meta, rec, broken, used>>
  PROVE  SyncInv'
  <1> DEFINE f == call[p].field
  <1>1. f \in Fields /\ SyncType
    BY RunningCall, Zenon DEF SyncInv
  <1> HIDE DEF f
  <1>2. AgreeOrBroken' /\ \A q \in Callers : CallSound(q)'
    BY <1>1, CallStep, IdleFacts, Zenon DEF f
  <1> QED
    BY <1>1, <1>2, CallTypes, IdleFacts, Zenon DEF SyncType

LEMMA StartStep ==
  ASSUME SyncInv, UNCHANGED dep, NEW p \in Callers, NEW f \in Fields,
         NEW kind \in {"create", "update", "delete"}, NEW d \in Types \cup {None},
         kind = "delete" => d = None, Start(p, kind, f, d)
  PROVE  SyncInv'
  <1> DEFINE new == [pc |-> "column", kind |-> kind, field |-> f, type |-> d,
                     tried |-> {}, clean |-> Busy(f) = {}]
  <1>1. /\ call' = [Touched(f) EXCEPT ![p] = new] /\ broken' = broken \cup {f}
        /\ UNCHANGED <<col, stored, meta, rec, used>>
    BY Zenon DEF Start
  <1>2. new \in Call /\ new.pc = "column" /\ new.field = f /\ (new.clean => Busy(f) = {})
    BY Zenon DEF Call
  <1> HIDE DEF new
  <1>3. ASSUME NEW q \in Callers, q # p
        PROVE  /\ call'[q] \in Call /\ call'[q].pc = call[q].pc /\ call'[q].field = call[q].field
               /\ call'[q].type = call[q].type
               /\ call'[q].clean => call[q].clean /\ call[q].field # f
    <2> DEFINE c == call[q]
    <2>1. c \in Call /\ call'[q] = [c EXCEPT !.clean = c.clean /\ c.field # f]
      BY <1>1, <1>3, Zenon DEF SyncInv, SyncType, Touched
    <2> HIDE DEF c
    <2>2. /\ call'[q] \in Call /\ call'[q].pc = c.pc /\ call'[q].field = c.field
          /\ call'[q].type = c.type /\ (call'[q].clean => c.clean /\ c.field # f)
      BY <2>1, Zenon DEF Call
    <2> QED
      BY <2>2, Zenon DEF c
  <1>4. call'[p] = new
    BY <1>1, Zenon DEF Touched
  <1>5. call' \in [Callers -> Call]
    <2>1. \A q \in Callers : call'[q] \in Call
      BY <1>2, <1>3, <1>4, Zenon
    <2>2. call' = [q \in Callers |-> call'[q]]
      BY <1>1, Zenon DEF Touched
    <2> QED
      BY <2>1, <2>2
  <1>6. SyncType'
    BY <1>1, <1>5, Zenon DEF SyncInv, SyncType
  <1>7. AgreeOrBroken'
    BY <1>1, Zenon DEF SyncInv, AgreeOrBroken
  <1>8. CallSound(p)'
    BY <1>1, <1>2, <1>3, <1>4 DEF CallSound, Busy
  <1>9. ASSUME NEW q \in Callers, q # p PROVE CallSound(q)'
    <2>1. CallSound(q)
      BY DEF SyncInv
    <2>2. call'[q].clean /\ call'[q].pc # "idle" =>
            \A o \in Callers \ {q} : call'[o].field = call'[q].field => call'[o].pc = "idle"
      BY <1>2, <1>3, <1>4, <1>9, <2>1 DEF CallSound
    <2> QED
      BY <1>1, <1>3, <1>9, <2>1, <2>2 DEF CallSound
  <1> QED
    BY <1>1, <1>6, <1>7, <1>8, <1>9, ReportsKept DEF SyncInv

LEMMA MetaStep ==
  ASSUME SyncInv, UNCHANGED dep, NEW p \in Callers, WriteMeta(p)
  PROVE  SyncInv'
  <1> DEFINE f == call[p].field
             c == [call[p] EXCEPT !.pc = "stored"]
  <1>1. /\ call[p].pc = "meta" /\ meta' = [meta EXCEPT ![f] = call[p].type]
        /\ call' = [call EXCEPT ![p] = c] /\ Disturb /\ UNCHANGED <<col, stored, broken, used>>
    BY Zenon DEF WriteMeta, metaAfter
  <1>2. /\ f \in Fields /\ SyncType /\ call[p].type \in Types \cup {None} /\ meta \in Defs
        /\ CallSound(p)
    BY <1>1, RunningCall, Zenon DEF SyncInv, SyncType
  <1>3. /\ c \in Call /\ c.pc = "stored" /\ c.field = f /\ c.type = call[p].type
        /\ c.clean = call[p].clean
    BY <1>1, RunningCall, <1>2 DEF Call
  <1>4. meta' \in Defs /\ meta'[f] = call[p].type /\ \A g \in Fields \ {f} : meta'[g] = meta[g]
    BY <1>1, <1>2, Zenon DEF Defs
  <1>5. c.clean => \A t \in Targets : used[f] \subseteq {t} => col[t][f] = c.type
    BY <1>1, <1>2, <1>3, Zenon DEF CallSound
  <1>6. f = call[p].field
    OBVIOUS
  <1> HIDE DEF f, c
  <1>7. AgreeOrBroken' /\ \A q \in Callers : CallSound(q)'
    <2>1. call[p].pc # "idle" /\ \A g \in Fields \ {f} :
             /\ used'[g] = used[g] /\ meta'[g] = meta[g]
             /\ \A u \in Targets : col'[u][g] = col[u][g] /\ stored'[u][g] = stored[u][g]
      BY <1>1, <1>4, Zenon
    <2>2. /\ c.pc # "idle" => c.field = f
          /\ c.clean /\ c.pc # "idle" => call[p].clean
          /\ c.clean /\ c.pc \in {"meta", "stored"} =>
                \A u \in Targets : used'[f] \subseteq {u} => col'[u][f] = c.type
          /\ c.clean /\ c.pc = "stored" => meta'[f] = c.type
      BY <1>1, <1>3, <1>4, <1>5, Zenon
    <2>3. call' = [call EXCEPT ![p] = c] /\ broken' = broken
      BY <1>1
    <2> QED
      BY <1>2, <1>3, <1>6, <2>1, <2>2, <2>3, CallStep, Zenon
  <1> QED
    BY <1>1, <1>2, <1>3, <1>4, <1>7, CallTypes, Zenon DEF SyncType

LEMMA AttemptStep ==
  ASSUME SyncInv, UNCHANGED dep, NEW p \in Callers, NEW t \in Targets, Attempt(p, t)
  PROVE  SyncInv'
  <1> DEFINE f == call[p].field
             c == [call[p] EXCEPT !.pc = "meta", !.tried = {}, !.clean = call[p].clean /\ ~Adopts(p, t)]
  <1>0. f = call[p].field
    OBVIOUS
  <1>1. call[p].pc \in {"column", "stored"} /\ WriteTarget(p, t) /\ meta' = meta
    BY Zenon DEF Attempt
  <1>2. /\ f \in Fields /\ SyncType /\ meta' \in Defs /\ call[p] \in Call /\ CallSound(p)
        /\ call[p].kind \in {"create", "update", "delete"}
        /\ call[p].kind = "delete" => call[p].type = None
    BY <1>1, RunningCall, SMTT(30) DEF SyncInv, SyncType
  <1>3. Wrote(p, t, f)
    BY <1>0, <1>1, <1>2, Written, Zenon
  <1>4. CASE call[p].pc = "column"
    <2>1. call' = [call EXCEPT ![p] = c] /\ broken' = broken
      BY <1>4, Zenon DEF Attempt
    <2>2. /\ c \in Call /\ c.pc = "meta" /\ c.field = f /\ c.type = call[p].type
          /\ c.clean => call[p].clean /\ ~Adopts(p, t)
      BY <1>2, <1>4, Zenon DEF Call
    <2>3. c.clean => col'[t][f] = c.type
      <3> SUFFICES ASSUME c.clean PROVE columnAfter(call[p].kind, col[t][f], call[p].type) = call[p].type
        BY <1>3, <1>4, <2>2, Zenon DEF Wrote
      <3> QED
        BY <1>2, <2>2, Zenon DEF Adopts, columnAfter
    <2> HIDE DEF f, c
    <2>4. c.clean => \A u \in Targets : used'[f] \subseteq {u} => col'[u][f] = c.type
      BY <1>3, <2>3, Zenon DEF Wrote
    <2>5. call[p].pc # "idle" /\ \A g \in Fields \ {f} :
             /\ used'[g] = used[g] /\ meta'[g] = meta[g]
             /\ \A u \in Targets : col'[u][g] = col[u][g] /\ stored'[u][g] = stored[u][g]
      BY <1>1, <1>3, <1>4, Zenon DEF Wrote
    <2>6. AgreeOrBroken' /\ \A q \in Callers : CallSound(q)'
      <3>1. /\ c.pc # "idle" => c.field = f
            /\ c.clean /\ c.pc # "idle" => call[p].clean
            /\ c.clean /\ c.pc \in {"meta", "stored"} =>
                  \A u \in Targets : used'[f] \subseteq {u} => col'[u][f] = c.type
            /\ c.clean /\ c.pc = "stored" => meta'[f] = c.type
        BY <2>2, <2>4, Zenon
      <3> QED
        BY <1>0, <1>2, <2>1, <2>2, <2>5, <3>1, CallStep, Zenon
    <2> QED
      BY <1>1, <1>2, <1>3, <2>1, <2>2, <2>6, CallTypes, Zenon DEF SyncType, Wrote
  <1>5. CASE call[p].pc = "stored"
    <2>1. /\ call' = [call EXCEPT ![p] = Idle]
          /\ broken' = IF call[p].clean THEN broken \ {f} ELSE broken
      BY <1>5, Zenon DEF Attempt
    <2> HIDE DEF f
    <2>2. ASSUME call[p].clean, NEW u \in Targets, used'[f] \subseteq {u}
          PROVE  meta'[f] = stored'[u][f] /\ meta'[f] = col'[u][f]
      <3>1. u = t /\ used[f] \subseteq {t} /\ stored'[t][f] = call[p].type /\ col' = col
        BY <1>3, <1>5, <2>2, Zenon DEF Wrote
      <3>2. meta[f] = call[p].type /\ col[t][f] = call[p].type
        BY <1>0, <1>2, <1>5, <2>2, <3>1, Zenon DEF CallSound
      <3> QED
        BY <1>1, <3>1, <3>2
    <2>3. \/ broken' = broken
          \/ /\ broken' = broken \ {f} /\ call[p].clean
             /\ \A u \in Targets : used'[f] \subseteq {u} =>
                                    meta'[f] = stored'[u][f] /\ meta'[f] = col'[u][f]
      BY <2>1, <2>2, Zenon
    <2>4. call[p].pc # "idle" /\ \A g \in Fields \ {f} :
             /\ used'[g] = used[g] /\ meta'[g] = meta[g]
             /\ \A u \in Targets : col'[u][g] = col[u][g] /\ stored'[u][g] = stored[u][g]
      BY <1>1, <1>3, <1>5, Zenon DEF Wrote
    <2>5. AgreeOrBroken' /\ \A q \in Callers : CallSound(q)'
      <3>1. /\ Idle.pc # "idle" => Idle.field = f
            /\ Idle.clean /\ Idle.pc # "idle" => call[p].clean
            /\ Idle.clean /\ Idle.pc \in {"meta", "stored"} =>
                  \A u \in Targets : used'[f] \subseteq {u} => col'[u][f] = Idle.type
            /\ Idle.clean /\ Idle.pc = "stored" => meta'[f] = Idle.type
        BY IdleFacts
      <3> QED
        BY <1>0, <1>2, <2>1, <2>3, <2>4, <3>1, CallStep, IdleFacts, ZenonT(30)
    <2>6. broken' \subseteq Fields
      BY <1>2, <2>1, Zenon DEF SyncType
    <2> QED
      BY <1>1, <1>2, <1>3, <2>1, <2>5, <2>6, CallTypes, IdleFacts, Zenon DEF SyncType, Wrote
  <1> QED
    BY <1>1, <1>4, <1>5

LEMMA AttemptFailsStep ==
  ASSUME SyncInv, UNCHANGED dep, NEW p \in Callers, NEW t \in Targets,
         NEW applied \in BOOLEAN, NEW again \in BOOLEAN, AttemptFails(p, t, applied, again)
  PROVE  SyncInv'
  <1> DEFINE f == call[p].field
             c == IF again THEN [call[p] EXCEPT !.tried = call[p].tried \cup {t}, !.clean = FALSE] ELSE Idle
  <1>0. f = call[p].field
    OBVIOUS
  <1>1. /\ call[p].pc \in {"column", "stored"} /\ meta' = meta /\ broken' = broken
        /\ call' = [call EXCEPT ![p] = c]
        /\ WriteTarget(p, t) \/ UNCHANGED <<col, stored, rec, used>>
    BY DEF AttemptFails
  <1>2. f \in Fields /\ SyncType /\ call[p] \in Call
    BY <1>1, RunningCall, Zenon DEF SyncInv, SyncType
  <1>3. c \in Call /\ c.clean = FALSE /\ (c.pc # "idle" => c.field = f)
    BY <1>2, IdleFacts, ZenonT(30) DEF Call
  <1> HIDE DEF f, c
  <1>4. CASE WriteTarget(p, t)
    <2>1. Wrote(p, t, f)
      BY <1>0, <1>1, <1>2, <1>4, Written, Zenon
    <2>2. AgreeOrBroken' /\ \A q \in Callers : CallSound(q)'
      <3>1. call[p].pc # "idle" /\ \A g \in Fields \ {f} :
               /\ used'[g] = used[g] /\ meta'[g] = meta[g]
               /\ \A u \in Targets : col'[u][g] = col[u][g] /\ stored'[u][g] = stored[u][g]
        BY <1>1, <2>1, Zenon DEF Wrote
      <3>2. /\ c.clean /\ c.pc # "idle" => call[p].clean
            /\ c.clean /\ c.pc \in {"meta", "stored"} =>
                  \A u \in Targets : used'[f] \subseteq {u} => col'[u][f] = c.type
            /\ c.clean /\ c.pc = "stored" => meta'[f] = c.type
        BY <1>3, Zenon
      <3>3. call' = [call EXCEPT ![p] = c] /\ broken' = broken
        BY <1>1
      <3> QED
        BY <1>0, <1>2, <1>3, <3>1, <3>2, <3>3, CallStep, Zenon
    <2> QED
      BY <1>1, <1>2, <1>3, <2>1, <2>2, CallTypes, Zenon DEF SyncType, Wrote
  <1>5. CASE UNCHANGED <<col, stored, rec, used>>
    <2>1. AgreeOrBroken' /\ \A q \in Callers : CallSound(q)'
      BY <1>0, <1>1, <1>2, <1>3, <1>5, CallStep, Zenon
    <2> QED
      BY <1>0, <1>1, <1>2, <1>3, <1>5, <2>1, CallTypes, Zenon DEF SyncType
  <1> QED
    BY <1>1, <1>4, <1>5

-----------------------------------------------------------------------------
LEMMA ReportFacts ==
  ASSUME SyncInv, NEW r \in Reconcilers
  PROVE  /\ rec[r] \in Report /\ ReportSound(r) /\ SyncType
         /\ Finished(r) \in Report /\ Finished(r).pc = "done" /\ Finished(r).from = rec[r].from
         /\ Finished(r).alone = rec[r].alone /\ Finished(r).table = rec[r].table
  <1>1. rec[r] \in Report /\ ReportSound(r) /\ SyncType
    BY DEF SyncInv, SyncType
  <1>2. /\ Finished(r) \in Report /\ Finished(r).pc = "done" /\ Finished(r).from = rec[r].from
        /\ Finished(r).alone = rec[r].alone /\ Finished(r).table = rec[r].table
    BY <1>1, IdleFacts, Zenon DEF Finished, Report
  <1> QED
    BY <1>1, <1>2

LEMMA ReadMetaStep ==
  ASSUME SyncInv, UNCHANGED dep, NEW r \in Reconcilers, NEW table \in Tables \cup {NoTable},
         ReadMeta(r, table)
  PROVE  SyncInv'
  <1> DEFINE m == [f \in Fields |-> IF InTable(f, table) THEN meta[f] ELSE None]
             a == \A p \in Callers : call[p].pc = "idle"
             x == [NoReport EXCEPT !.pc = "read", !.table = table, !.meta = m, !.alone = a]
  <1>1. rec' = [rec EXCEPT ![r] = x] /\ UNCHANGED <<col, stored, meta, call, broken, used>>
    BY DEF ReadMeta
  <1>2. m \in Defs
    BY Zenon DEF SyncInv, SyncType, Defs
  <1>3. a \in BOOLEAN
    OBVIOUS
  <1>4. \A f \in Fields : m[f] = IF InTable(f, table) THEN meta[f] ELSE None
    OBVIOUS
  <1> HIDE DEF m, a
  <1>5. x \in Report /\ x.pc = "read" /\ x.table = table /\ x.meta = m
    BY <1>2, <1>3, IdleFacts, ZenonT(30) DEF NoReport, Report
  <1> HIDE DEF x
  <1>6. MetaCurrent(x) /\ RepairSound(x) /\ Complete(x)
    BY <1>4, <1>5, Zenon DEF MetaCurrent, RepairSound, Complete
  <1> QED
    BY <1>1, <1>5, <1>6, ReportStep, Zenon

LEMMA ReadTargetStep ==
  ASSUME SyncInv, UNCHANGED dep, NEW r \in Reconcilers, NEW t \in Targets, NEW ok \in BOOLEAN,
         ReadTarget(r, t, ok)
  PROVE  SyncInv'
  <1> DEFINE x == rec[r]
             tgt == [f \in Fields |-> IF ok /\ InTable(f, x.table) THEN stored[t][f] ELSE None]
             missing == MissingInTarget(x.meta, tgt)
             from == IF ok THEN t ELSE None
             y == [x EXCEPT !.pc = "repair", !.missing = missing, !.todo = missing]
             base == IF missing = {} THEN Finished(r) ELSE y
             new == [base EXCEPT !.from = from]
  <1>1. /\ x.pc = "read" /\ rec' = [rec EXCEPT ![r] = new]
        /\ UNCHANGED <<col, stored, meta, call, broken, used>>
    BY Zenon DEF ReadTarget
  <1>2. x \in Report /\ ReportSound(r) /\ SyncType /\ from \in Targets \cup {None}
    BY ReportFacts, Zenon
  <1>3. /\ missing \subseteq Fields /\ \A f \in missing : x.meta[f] # None
        /\ \A f \in missing : tgt[f] = None
        /\ \A f \in Fields \ missing : x.meta[f] # None =>
              \E g \in Fields : g[2] = f[2] /\ tgt[g] # None
    BY Zenon DEF MissingInTarget
  <1>4. \A g \in Fields : tgt[g] # None =>
           from = t /\ InTable(g, x.table) /\ stored[t][g] # None
    OBVIOUS
  <1>5. \A f \in Fields : from # None /\ tgt[f] = None /\ InTable(f, x.table) => stored[from][f] = None
    BY Zenon
  <1>6. x.alone => MetaCurrent(x)
    BY <1>2 DEF ReportSound
  <1> HIDE DEF tgt, missing, from
  <1>7. CASE missing = {}
    <2>1. /\ new \in Report /\ new.pc = "done" /\ new.from = from /\ new.table = x.table
          /\ new.alone = x.alone
      <3> DEFINE z == Finished(r)
      <3>1. z \in Report /\ z.pc = "done" /\ z.table = x.table /\ z.alone = x.alone
        BY ReportFacts, Zenon
      <3>2. new = [z EXCEPT !.from = from]
        BY <1>7
      <3> HIDE DEF z, new
      <3> QED
        BY <1>2, <3>1, <3>2 DEF Report
    <2> HIDE DEF new
    <2>2. ASSUME new.alone PROVE Complete(new)
      <3> SUFFICES ASSUME from # None, NEW f \in Fields, InTable(f, x.table), meta[f] # None
                   PROVE  \E u \in Targets, g \in Fields :
                             g[2] = f[2] /\ InTable(g, x.table) /\ stored[u][g] # None
        BY <2>1, Zenon DEF Complete
      <3>1. x.meta[f] # None
        BY <1>1, <1>6, <2>1, <2>2, Zenon DEF MetaCurrent
      <3>2. PICK g \in Fields : g[2] = f[2] /\ tgt[g] # None
        BY <1>3, <1>7, <3>1, Zenon
      <3> QED
        BY <1>4, <3>2, Zenon
    <2> QED
      BY <1>1, <2>1, <2>2, ReportStep, Zenon DEF MetaCurrent, RepairSound
  <1>8. CASE missing # {}
    <2>1. /\ new \in Report /\ new.pc = "repair" /\ new.from = from /\ new.table = x.table
          /\ new.alone = x.alone /\ new.meta = x.meta /\ new.missing = missing /\ new.todo = missing
      <3>1. new = [y EXCEPT !.from = from]
        BY <1>8, Zenon
      <3>2. /\ y \in Report /\ y.pc = "repair" /\ y.table = x.table /\ y.alone = x.alone
            /\ y.meta = x.meta /\ y.missing = missing /\ y.todo = missing
        BY <1>2, <1>3, Zenon DEF Report
      <3> HIDE DEF y, new
      <3> QED
        BY <1>2, <3>1, <3>2 DEF Report
    <2> HIDE DEF new
    <2>2. ASSUME new.alone PROVE MetaCurrent(new) /\ RepairSound(new)
      <3>1. MetaCurrent(new)
        BY <1>1, <1>6, <2>1, <2>2, Zenon DEF MetaCurrent
      <3>2. from # None => \A f \in Fields \ missing : x.meta[f] # None =>
              \E g \in Fields : g[2] = f[2] /\ InTable(g, x.table) /\ stored[from][g] # None
        BY <1>3, <1>4, SMTT(30)
      <3>3. \A f \in missing : InTable(f, x.table)
        BY <1>1, <1>3, <1>6, <2>1, <2>2, SMTT(30) DEF MetaCurrent
      <3>4. from # None => \A f \in missing : stored[from][f] = None
        BY <1>3, <1>5, <3>3, Zenon
      <3> QED
        BY <2>1, <3>1, <3>2, <3>4 DEF RepairSound
    <2> QED
      BY <1>1, <2>1, <2>2, ReportStep, Zenon DEF Complete
  <1> QED
    BY <1>7, <1>8

LEMMA PickTargetStep ==
  ASSUME SyncInv, UNCHANGED dep, NEW r \in Reconcilers, NEW t \in Targets, PickTarget(r, t)
  PROVE  SyncInv'
  <1> DEFINE x == rec[r]
             y == [x EXCEPT !.on = t]
  <1>1. /\ x.pc = "repair" /\ x.on = None /\ rec' = [rec EXCEPT ![r] = y]
        /\ UNCHANGED <<col, stored, meta, call, broken, used>>
    BY Zenon DEF PickTarget
  <1>2. x \in Report /\ ReportSound(r)
    BY ReportFacts
  <1>3. ReportSound(r) <=> x.alone => MetaCurrent(x) /\ RepairSound(x) /\ Complete(x)
    BY Zenon DEF ReportSound
  <1> HIDE DEF x
  <1>4. /\ y \in Report /\ y.pc = x.pc /\ y.on = t /\ y.from = x.from /\ y.table = x.table
        /\ y.alone = x.alone /\ y.meta = x.meta /\ y.missing = x.missing /\ y.todo = x.todo
        /\ x.todo = x.missing
    BY <1>1, <1>2, SMTT(30) DEF Report
  <1> HIDE DEF y
  <1>5. y.alone => MetaCurrent(x) /\ RepairSound(x)
    BY <1>2, <1>3, <1>4, Zenon
  <1>6. MetaCurrent(x) => MetaCurrent(y)
    BY <1>1, <1>4 DEF MetaCurrent
  <1>7. RepairSound(x) => RepairSound(y)
    BY <1>1, <1>4 DEF RepairSound
  <1>8. Complete(y)
    BY <1>1, <1>4, Zenon DEF Complete
  <1> QED
    BY <1>1, <1>4, <1>5, <1>6, <1>7, <1>8, ReportStep, Zenon

LEMMA RepairFailsStep ==
  ASSUME SyncInv, UNCHANGED dep, NEW r \in Reconcilers, NEW again \in BOOLEAN, RepairFails(r, again)
  PROVE  SyncInv'
  <1> DEFINE x == rec[r]
             y == [x EXCEPT !.tried = x.tried \cup {x.on}, !.on = None, !.todo = x.missing]
  <1>1. /\ x.pc = "repair" /\ UNCHANGED <<col, stored, meta, call, broken, used>>
        /\ again => x.on # None
        /\ rec' = [rec EXCEPT ![r] = IF again THEN y ELSE NoReport]
    BY Zenon DEF RepairFails
  <1>2. x \in Report /\ ReportSound(r)
    BY ReportFacts
  <1>3. ReportSound(r) <=> x.alone => MetaCurrent(x) /\ RepairSound(x) /\ Complete(x)
    BY Zenon DEF ReportSound
  <1> HIDE DEF x
  <1>4. CASE ~again
    <2>1. rec' = [rec EXCEPT ![r] = NoReport]
      BY <1>1, <1>4
    <2> QED
      BY <1>1, <2>1, ReportStep, IdleFacts, Zenon
  <1>5. CASE again
    <2>1. /\ y \in Report /\ y.pc = x.pc /\ y.on = None /\ y.from = x.from /\ y.table = x.table
          /\ y.alone = x.alone /\ y.meta = x.meta /\ y.missing = x.missing /\ y.todo = x.missing
      BY <1>1, <1>2, <1>5, ZenonT(30) DEF Report
    <2>2. rec' = [rec EXCEPT ![r] = y]
      BY <1>1, <1>5
    <2> HIDE DEF y
    <2>3. y.alone => MetaCurrent(x) /\ RepairSound(x)
      BY <1>2, <1>3, <2>1, Zenon
    <2>4. MetaCurrent(x) => MetaCurrent(y)
      BY <1>1, <2>1 DEF MetaCurrent
    <2>5. RepairSound(x) => RepairSound(y)
      BY <1>1, <2>1 DEF RepairSound
    <2>6. Complete(y)
      BY <1>1, <2>1, Zenon DEF Complete
    <2> QED
      BY <1>1, <2>1, <2>2, <2>3, <2>4, <2>5, <2>6, ReportStep, Zenon
  <1> QED
    BY <1>4, <1>5

\* A repair writes one field: calls on it are no longer clean, and reconcilers
\* other than its own have no longer the data to themselves.
LEMMA RepairStep ==
  ASSUME SyncInv, UNCHANGED dep, NEW r \in Reconcilers, NEW f \in Fields, Repair(r, f)
  PROVE  SyncInv'
  <1> DEFINE x == rec[r]
             t == x.on
             v == x.meta[f]
             rest == x.todo \ {f}
             y == [x EXCEPT !.todo = rest]
             z == IF rest = {} THEN Finished(r) ELSE y
  <1>1. /\ x.pc = "repair" /\ t # None /\ f \in x.todo
        /\ stored' = [stored EXCEPT ![t][f] = v]
        /\ used' = [used EXCEPT ![f] = used[f] \cup {t}]
        /\ broken' = IF x.alone THEN broken ELSE broken \cup {f}
        /\ call' = Touched(f) /\ col' = col /\ meta' = meta
        /\ rec' = [q \in Reconcilers |-> IF q = r THEN z ELSE [rec[q] EXCEPT !.alone = FALSE]]
    BY Zenon DEF Repair
  <1>2. x \in Report /\ ReportSound(r) /\ SyncType
    BY ReportFacts
  <1>3. ReportSound(r) <=> x.alone => MetaCurrent(x) /\ RepairSound(x) /\ Complete(x)
    BY Zenon DEF ReportSound
  <1>4. /\ Finished(r) \in Report /\ Finished(r).pc = "done" /\ Finished(r).from = x.from
        /\ Finished(r).alone = x.alone /\ Finished(r).table = x.table
    BY ReportFacts, Zenon
  <1>5. /\ t \in Targets /\ v \in Types \cup {None} /\ v # None /\ f \in x.missing
        /\ x.missing \subseteq Fields
    BY <1>1, <1>2, Zenon DEF Report, Defs
  <1>6. /\ stored' \in [Targets -> Defs] /\ stored'[t][f] = v
        /\ \A u \in Targets, g \in Fields : u # t \/ g # f => stored'[u][g] = stored[u][g]
    <2> DEFINE s == [stored[t] EXCEPT ![f] = v]
    <2>1. stored \in [Targets -> Defs] /\ stored' = [stored EXCEPT ![t] = s]
      BY <1>1, <1>2, Zenon DEF SyncType
    <2>2. s \in Defs /\ s[f] = v /\ \A g \in Fields : g # f => s[g] = stored[t][g]
      BY <1>5, <2>1, Zenon DEF Defs
    <2> HIDE DEF s
    <2> QED
      BY <1>5, <2>1, <2>2, Zenon
  <1>7. /\ used' \in [Fields -> SUBSET Targets] /\ used'[f] = used[f] \cup {t}
        /\ \A g \in Fields : g # f => used'[g] = used[g]
    BY <1>1, <1>2, <1>5, Zenon DEF SyncType
  <1>8. ASSUME NEW p \in Callers
        PROVE  /\ call'[p] \in Call /\ call'[p].pc = call[p].pc /\ call'[p].field = call[p].field
               /\ call'[p].type = call[p].type
               /\ call'[p].clean => call[p].clean /\ call[p].field # f
    <2> DEFINE c == call[p]
    <2>1. c \in Call /\ call'[p] = [c EXCEPT !.clean = c.clean /\ c.field # f]
      BY <1>1, <1>2, Zenon DEF SyncType, Touched
    <2> HIDE DEF c
    <2>2. /\ call'[p] \in Call /\ call'[p].pc = c.pc /\ call'[p].field = c.field
          /\ call'[p].type = c.type /\ (call'[p].clean => c.clean /\ c.field # f)
      BY <2>1, Zenon DEF Call
    <2> QED
      BY <2>2, Zenon DEF c
  <1>9. call' \in [Callers -> Call]
    BY <1>1, <1>8, Zenon DEF Touched
  <1>10. y \in Report /\ y.pc = "repair" /\ y.on = t /\ y.from = x.from /\ y.table = x.table
         /\ y.alone = x.alone /\ y.meta = x.meta /\ y.missing = x.missing /\ y.todo = rest
    BY <1>1, <1>2, Zenon DEF Report
  <1>11. ASSUME NEW q \in Reconcilers, q # r PROVE rec'[q] \in Report /\ rec'[q].alone = FALSE
    <2> DEFINE w == rec[q]
    <2>1. w \in Report /\ rec'[q] = [w EXCEPT !.alone = FALSE]
      BY <1>1, <1>2, <1>11, Zenon DEF SyncType
    <2> HIDE DEF w
    <2> QED
      BY <2>1, Zenon DEF Report
  <1>12. rec'[r] = z /\ rec' \in [Reconcilers -> Report]
    <2>1. z \in Report
      BY <1>4, <1>10, Zenon
    <2> HIDE DEF z
    <2>2. rec'[r] = z
      BY <1>1, Zenon
    <2>3. rec' = [q \in Reconcilers |-> rec'[q]]
      BY <1>1, Zenon
    <2> QED
      BY <1>11, <2>1, <2>2, <2>3, Zenon
  <1>13. SyncType'
    BY <1>1, <1>2, <1>6, <1>7, <1>9, <1>12, Zenon DEF SyncType
  <1>14. ASSUME NEW p \in Callers PROVE CallSound(p)'
    <2>1. CallSound(p) /\ broken \subseteq broken'
      BY <1>1, SMTT(30) DEF SyncInv
    <2>2. call'[p].clean /\ call'[p].pc # "idle" =>
            /\ call[p].clean /\ call[p].field \in Fields /\ used'[call[p].field] = used[call[p].field]
            /\ \A q \in Callers \ {p} : call'[q].field = call'[p].field => call'[q].pc = "idle"
      BY <1>2, <1>7, <1>8, <2>1, RunningCall, ZenonT(30) DEF CallSound
    <2> QED
      BY <1>1, <1>8, <2>1, <2>2 DEF CallSound
  <1>15. AgreeOrBroken'
    <2> SUFFICES ASSUME NEW g \in Fields \ broken', NEW u \in Targets, used'[g] \subseteq {u}
                 PROVE  meta[g] = stored'[u][g] /\ meta[g] = col[u][g]
      BY <1>1, Zenon DEF AgreeOrBroken
    <2>1. used[g] \subseteq {u}
      BY <1>7
    <2>2. meta[g] = stored[u][g] /\ meta[g] = col[u][g]
      BY <1>1, <2>1, SMTT(30) DEF SyncInv, AgreeOrBroken
    <2>3. CASE g = f
      <3>1. x.alone /\ u = t
        BY <1>1, <1>7, <2>3, Zenon
      <3>2. v = meta[f]
        BY <1>1, <1>2, <1>3, <1>5, <3>1, Zenon DEF MetaCurrent
      <3> QED
        BY <1>6, <2>2, <2>3, <3>1, <3>2, Zenon
    <2>4. CASE g # f
      BY <1>6, <2>2, <2>4, Zenon
    <2> QED
      BY <2>3, <2>4
  <1> HIDE DEF x, t, v, y
  <1>16. ASSUME x.alone
         PROVE  /\ \A g \in Fields : x.meta[g] = IF InTable(g, x.table) THEN meta[g] ELSE None
                /\ x.from # None => \A g \in Fields \ x.missing : x.meta[g] # None =>
                     \E h \in Fields : h[2] = g[2] /\ InTable(h, x.table) /\ stored'[x.from][h] # None
                /\ \A g \in x.missing \ rest : stored'[t][g] # None
                /\ x.from # None => \A g \in x.missing : stored'[x.from][g] \in {None, x.meta[g]}
    <2>1. MetaCurrent(x) /\ RepairSound(x)
      BY <1>2, <1>3, <1>16
    <2>2. x.from # None => x.from \in Targets
      BY <1>2 DEF Report
    <2>3. \A u \in Targets, g \in Fields : stored[u][g] # None => stored'[u][g] # None
      BY <1>5, <1>6
    <2>4. x.on = t /\ v = x.meta[f]
      BY DEF t, v
    <2>5. \A g \in x.missing \ rest : stored'[t][g] # None
      BY <1>1, <1>5, <1>6, <2>1, <2>3, <2>4 DEF RepairSound
    <2>6. x.from # None => \A g \in x.missing : stored'[x.from][g] \in {None, x.meta[g]}
      BY <1>1, <1>5, <1>6, <2>1, <2>2, <2>4 DEF RepairSound
    <2>7. x.from # None => \A g \in Fields \ x.missing : x.meta[g] # None =>
             \E h \in Fields : h[2] = g[2] /\ InTable(h, x.table) /\ stored'[x.from][h] # None
      BY <1>1, <2>1, <2>2, <2>3, Zenon DEF RepairSound
    <2> QED
      BY <1>1, <2>1, <2>5, <2>6, <2>7, Zenon DEF MetaCurrent
  <1>17. ReportSound(r)'
    <2>1. CASE rest # {}
      <3>1. rec'[r] = y
        BY <1>12, <2>1
      <3> QED
        BY <1>1, <1>10, <1>16, <3>1, SMTT(30) DEF ReportSound, MetaCurrent, RepairSound, Complete
    <2>2. CASE rest = {}
      <3>1. rec'[r] = Finished(r)
        BY <1>12, <2>2, SMTT(30)
      <3>2. ASSUME x.alone, x.from # None, NEW g \in Fields, InTable(g, x.table), meta[g] # None
            PROVE  \E u \in Targets, h \in Fields :
                      h[2] = g[2] /\ InTable(h, x.table) /\ stored'[u][h] # None
        <4>1. x.from \in Targets
          BY <1>2, <3>2, SMTT(30) DEF Report
        <4>2. x.meta[g] # None
          BY <1>16, <3>2, Zenon
        <4> QED
          BY <1>5, <1>16, <2>2, <3>2, <4>1, <4>2
      <3>3. meta' = meta
        BY <1>1
      <3>4. /\ rec'[r].pc = "done" /\ rec'[r].from = x.from /\ rec'[r].alone = x.alone
            /\ rec'[r].table = x.table
        BY <1>4, <3>1
      <3> QED
        BY <3>2, <3>3, <3>4, ZenonT(30) DEF ReportSound, MetaCurrent, RepairSound, Complete
    <2> QED
      BY <2>1, <2>2, SMTT(30)
  <1> QED
    BY <1>11, <1>13, <1>14, <1>15, <1>17, Zenon DEF SyncInv, ReportSound

LEMMA NextSync == SyncInv /\ [Next]_vars => SyncInv'
  <1> SUFFICES ASSUME SyncInv, [Next]_vars PROVE SyncInv'
    OBVIOUS
  <1>1. CASE UNCHANGED vars
    <2>1. SyncType' /\ AgreeOrBroken' /\ \A p \in Callers : CallSound(p)'
      BY <1>1 DEF vars, SyncInv, SyncType, AgreeOrBroken, CallSound
    <2>2. \A r \in Reconcilers : ReportSound(r)'
      BY <1>1, ReportsKept, SMTT(30) DEF vars
    <2> QED
      BY <2>1, <2>2, SMTT(30) DEF SyncInv
  <1>2. CASE Next
    <2> USE Deployed
    <2>1. UNCHANGED dep /\ SyncType /\ Step
      BY <1>2, SMTT(30) DEF Next, SyncInv
    <2>2. ASSUME NEW p \in Callers, NoCandidate(p) \/ WriteMetaFails(p) PROVE SyncInv'
      BY <2>1, <2>2, GivesUp, Zenon DEF NoCandidate, WriteMetaFails
    <2>3. ASSUME NEW p \in dep.callers, NEW f \in dep.tables \X Columns,
                 \/ \E d \in dep.types, kind \in {"create", "update"} : Start(p, kind, f, d)
                 \/ Start(p, "delete", f, None)
          PROVE  SyncInv'
      <3>1. p \in Callers /\ f \in Fields
        BY <2>1 DEF Fields
      <3> QED
        BY <2>1, <2>3, <3>1, StartStep
    <2>4. ASSUME NEW p \in dep.callers, NEW t \in dep.targets,
                 \/ Attempt(p, t)
                 \/ \E applied, again \in BOOLEAN : AttemptFails(p, t, applied, again)
          PROVE  SyncInv'
      BY <2>1, <2>4, AttemptStep, AttemptFailsStep
    <2>5. ASSUME NEW p \in dep.callers, NoCandidate(p) \/ WriteMeta(p) \/ WriteMetaFails(p)
          PROVE  SyncInv'
      BY <2>1, <2>2, <2>5, MetaStep
    <2>6. ASSUME NEW r \in Reconcilers, NEW table \in dep.tables \cup {NoTable}, ReadMeta(r, table)
          PROVE  SyncInv'
      BY <2>1, <2>6, ReadMetaStep
    <2>7. ASSUME NEW r \in Reconcilers, NEW t \in dep.targets,
                 (\E ok \in BOOLEAN : ReadTarget(r, t, ok)) \/ PickTarget(r, t)
          PROVE  SyncInv'
      BY <2>1, <2>7, ReadTargetStep, PickTargetStep
    <2>8. ASSUME NEW r \in Reconcilers,
                 \/ \E f \in Fields : Repair(r, f)
                 \/ \E again \in BOOLEAN : RepairFails(r, again)
          PROVE  SyncInv'
      BY <2>1, <2>8, RepairStep, RepairFailsStep
    <2> QED
      BY <2>1, <2>3, <2>4, <2>5, <2>6, <2>7, <2>8, ZenonT(30) DEF Step
  <1> QED
    BY <1>1, <1>2

-----------------------------------------------------------------------------
\* For every deployment, every number of concurrent calls and reconcilers and
\* every failure: a field whose last call succeeded alone on its only target is
\* the same in the column, the meta database and the target's custom_fields.
THEOREM FieldsAgree == Spec => []AgreeOrBroken
  <1>1. SyncInv => AgreeOrBroken
    BY DEF SyncInv
  <1> QED
    BY InitSync, NextSync, <1>1, PTL DEF Spec

\* For every deployment: a ReconcileCustomFields that repaired undisturbed, and
\* could read the target, leaves no definition of its table missing.
THEOREM RepairsComplete == Spec => []RepairComplete
  <1>1. SyncInv => RepairComplete
    <2> SUFFICES ASSUME SyncInv, NEW r \in Reconcilers,
                        rec[r].pc = "done" /\ rec[r].alone /\ rec[r].from # None,
                        NEW f \in Fields, rec[r].table \in {NoTable, f[1]} /\ meta[f] # None
                 PROVE  \E t \in Targets, table \in Tables :
                           /\ rec[r].table \in {NoTable, table}
                           /\ stored[t][<<table, f[2]>>] # None
      BY Zenon DEF RepairComplete
    <2>1. Complete(rec[r])
      BY Zenon DEF SyncInv, ReportSound
    <2>2. PICK t \in Targets, g \in Fields :
             g[2] = f[2] /\ InTable(g, rec[r].table) /\ stored[t][g] # None
      BY <2>1, Zenon DEF Complete, InTable
    <2>3. g[1] \in Tables /\ g = <<g[1], f[2]>>
      BY <2>2 DEF Fields
    <2> QED
      BY <2>2, <2>3 DEF InTable
  <1> QED
    BY InitSync, NextSync, <1>1, PTL DEF Spec

\* For every deployment: repairMissingInTarget overwrites a definition only on a
\* target it did not read, or after somebody else wrote.
THEOREM OverwritesExplained == Spec => OverwriteExplained
  <1>1. SyncInv /\ [Next]_vars =>
          [\A r \in Reconcilers, f \in Fields :
             Overwrites(r, f) => rec[r].from # rec[r].on \/ ~rec[r].alone]_vars
    <2> SUFFICES ASSUME SyncInv, NEW r \in Reconcilers, NEW f \in Fields, Overwrites(r, f),
                        rec[r].from = rec[r].on, rec[r].alone
                 PROVE  FALSE
      BY Zenon
    <2>1. /\ rec[r].pc = "repair" /\ rec[r].on # None /\ f \in rec[r].todo
          /\ stored[rec[r].on][f] \notin {None, rec[r].meta[f]}
      BY SMTT(30), Zenon DEF Overwrites, Repair
    <2>2. f \in rec[r].missing /\ RepairSound(rec[r])
      BY <2>1, ReportFacts, Zenon DEF Report, ReportSound
    <2> QED
      BY <2>1, <2>2, Zenon DEF RepairSound
  <1> QED
    BY InitSync, NextSync, <1>1, PTL, ZenonT(30) DEF Spec, OverwriteExplained
=============================================================================
