------------------------------ MODULE TargetMap ------------------------------
(***************************************************************************)
(* What the target registry promises its users: the TargetRegistry         *)
(* interface (sdk/targets.go) as one atomic map from keys to connections   *)
(* with a default key.  There is no lock, no key list, no label index and  *)
(* no half-done change: each operation takes effect at one instant, and    *)
(* label lookups are answered from the map as it is at that instant.  A    *)
(* connection enters the map once, fresh and open, and can be closed only  *)
(* after it has left the map.                                              *)
(***************************************************************************)
EXTENDS Naturals

CONSTANTS Keys, Labels, Conns, NoKey

VARIABLES targets,  \* key -> [conn, labels]; Absent when there is none
          def,      \* default key
          found,    \* label -> keys, the answers of FindByLabel
          used,     \* connections that are or can no longer be in the map
          closed    \* connections that were closed

vars == <<targets, def, found, used, closed>>

Absent == [conn |-> 0, labels |-> {}]
Target == [conn : Conns, labels : SUBSET Labels]
Present(ts) == {k \in Keys : ts[k] # Absent}
ConnsOf(ts) == {ts[k].conn : k \in Present(ts)}
Answers(ts) == [l \in Labels |-> {k \in Keys : l \in ts[k].labels}]

Init ==
    /\ targets \in [Keys -> Target \cup {Absent}]
    /\ def = NoKey \/ def \in Present(targets)
    /\ found = Answers(targets)
    /\ used = ConnsOf(targets)
    /\ closed = {}

\* The map becomes ts; only connections never used before may enter it.
Become(ts, d) ==
    /\ (ConnsOf(ts) \ ConnsOf(targets)) \cap used = {}
    /\ targets' = ts
    /\ def' = d
    /\ found' = Answers(ts)
    /\ used' = used \cup ConnsOf(ts)
    /\ UNCHANGED closed

Register(k, t) ==
    /\ targets[k] = Absent
    /\ t.conn \notin used
    /\ Become([targets EXCEPT ![k] = t], def)

Update(k, t) ==
    /\ targets[k] # Absent
    /\ t.conn \notin used
    /\ Become([targets EXCEPT ![k] = t], def)

Unregister(k) ==
    /\ targets[k] # Absent
    /\ Become([targets EXCEPT ![k] = Absent], IF def = k THEN NoKey ELSE def)

\* All connections are new: nothing of the old map survives.
ReplaceAll(ts, d) ==
    /\ ConnsOf(ts) \cap used = {}
    /\ \A j, k \in Present(ts) : ts[j].conn = ts[k].conn => j = k
    /\ Become(ts, d)

SetDefault(d) ==
    /\ d \in Present(targets) \cup {NoKey}
    /\ Become(targets, d)

\* A call fails: the connections it built never enter the map.
Discard(S, T) ==
    /\ S \cap used = {}
    /\ used' = used \cup S
    /\ closed' = closed \cup (T \cap S)
    /\ UNCHANGED <<targets, def, found>>

Close(c) ==
    /\ c \in used \ (ConnsOf(targets) \cup closed)
    /\ closed' = closed \cup {c}
    /\ UNCHANGED <<targets, def, found, used>>

Next ==
    \/ \E k \in Keys, t \in Target : Register(k, t) \/ Update(k, t)
    \/ \E k \in Keys : Unregister(k)
    \/ \E ts \in [Keys -> Target \cup {Absent}], d \in Keys \cup {NoKey} :
          ReplaceAll(ts, d)
    \/ \E d \in Keys \cup {NoKey} : SetDefault(d)
    \/ \E S, T \in SUBSET Conns : Discard(S, T)
    \/ \E c \in Conns : Close(c)

Spec == Init /\ [][Next]_vars
=============================================================================
