---------------------------- MODULE FailoverProofs ----------------------------
(***************************************************************************)
(* Proofs about the circuit breaker, for every set of targets and callers, *)
(* every policy and every classifier.                                      *)
(***************************************************************************)
EXTENDS Failover, FiniteSetTheorems, TLAPS

Health == [state : {"closed", "half_open", "open"},
           failures : Nat, openFor : Nat, halfProbe : Nat]

\* The lists orderCandidates makes; what they look like does not matter here.
Orders == {orderCandidates(keys, k, pref) :
             keys \in SUBSET Keys, k \in Keys \cup {NoKey}, pref \in SUBSET Keys}

Call == [pc : {"idle", "check", "get", "run"}, ordered : Orders \cup {<<>>}, i : Nat,
         attempts : Nat, isWrite : BOOLEAN]

BreakerType ==
    /\ health \in [Keys -> Health]
    /\ admitted \in [Keys -> Nat]
    /\ call \in [Procs -> Call]
    /\ registered \subseteq Keys

\* Somebody will settle a half-open breaker, or somebody has missed to.  This is
\* ProbedAgain without its condition that no probe is left, which is not
\* inductive: the last probe may be taken, and lost, after the first admission.
Awaited ==
    \A k \in Keys : health[k].state = "half_open" => Pending(k) # {} \/ k \in lost

BreakerInv == BreakerType /\ ProbeBudget /\ Awaited

-----------------------------------------------------------------------------
LEMMA PolicyFacts == Probes \in Nat /\ opened \in Health /\ OpenAfterFailures \in Nat
  BY FailoverAssumption DEF Probes, opened, Health

\* What the breaker is after a success and after a failure.
LEMMA Succeeded == \A h \in Health : onSuccess(h) \in Health /\ onSuccess(h).state = "closed"
  BY Zenon DEF Health, onSuccess

LEMMA Failed ==
  ASSUME NEW h \in Health, NEW transient \in BOOLEAN
  PROVE  /\ onFailure(h, transient) \in Health
         /\ onFailure(h, transient).state # "half_open"
         /\ h.state = "open" => onFailure(h, transient).state = "open"
  <1>1. CASE h.state = "half_open" \/ ~transient
    BY PolicyFacts, <1>1 DEF onFailure, opened
  <1>2. CASE ~(h.state = "half_open" \/ ~transient) /\ OpenAfterFailures > 0 /\ h.failures + 1 >= OpenAfterFailures
    BY PolicyFacts, <1>2 DEF onFailure, opened
  <1>3. CASE ~(h.state = "half_open" \/ ~transient) /\ ~(OpenAfterFailures > 0 /\ h.failures + 1 >= OpenAfterFailures)
    <2>1. onFailure(h, transient) = [h EXCEPT !.failures = @ + 1]
      BY <1>3 DEF onFailure
    <2> QED
      BY <2>1, <1>3 DEF Health
  <1> QED
    BY <1>1, <1>2, <1>3

\* What isAvailable answers, and what it leaves.
LEMMA Asked ==
  ASSUME NEW h \in Health
  PROVE  /\ isAvailable(h).next \in Health /\ isAvailable(h).ok \in BOOLEAN
         /\ h.state = "closed" => isAvailable(h).ok /\ isAvailable(h).next = h
         /\ h.state = "half_open" =>
               /\ isAvailable(h).next.state = "half_open"
               /\ isAvailable(h).next.halfProbe = h.halfProbe - (IF isAvailable(h).ok THEN 1 ELSE 0)
         /\ h.state = "open" /\ h.openFor # 0 => ~isAvailable(h).ok /\ isAvailable(h).next = h
         /\ h.state = "open" /\ h.openFor = 0 =>
               /\ isAvailable(h).ok /\ isAvailable(h).next.state = "half_open"
               /\ isAvailable(h).next.halfProbe = Probes
  <1>1. CASE h.state = "closed"
    <2>1. isAvailable(h) = [ok |-> TRUE, next |-> h]
      BY <1>1 DEF isAvailable
    <2> QED
      BY <1>1, <2>1
  <1>2. CASE h.state = "half_open"
    <2>1. isAvailable(h) = takeProbe(h)
      BY <1>2 DEF isAvailable
    <2>2. CASE h.halfProbe > 0
      <3>1. isAvailable(h) = [ok |-> TRUE, next |-> [h EXCEPT !.halfProbe = @ - 1]]
        BY <2>1, <2>2 DEF takeProbe
      <3>2. [h EXCEPT !.halfProbe = @ - 1] \in Health
        BY <2>2 DEF Health
      <3> QED
        BY <1>2, <3>1, <3>2 DEF Health
    <2>3. CASE ~(h.halfProbe > 0)
      <3>1. isAvailable(h) = [ok |-> FALSE, next |-> h]
        BY <2>1, <2>3 DEF takeProbe
      <3> QED
        BY <1>2, <3>1 DEF Health
    <2> QED
      BY <2>2, <2>3, Zenon
  <1>3. CASE h.state = "open"
    <2>1. CASE h.openFor = 0
      <3> DEFINE g == [h EXCEPT !.state = "half_open", !.halfProbe = Probes]
      <3>1. isAvailable(h) = [ok |-> TRUE, next |-> g]
        BY <1>3, <2>1 DEF isAvailable, expired
      <3>2. g \in Health /\ g.state = "half_open" /\ g.halfProbe = Probes
        BY PolicyFacts, Zenon DEF Health
      <3> HIDE DEF g
      <3> QED
        BY <1>3, <2>1, <3>1, <3>2, SMTT(30)
    <2>2. CASE h.openFor # 0
      <3>1. isAvailable(h) = [ok |-> FALSE, next |-> h]
        BY <1>3, <2>2 DEF isAvailable, expired
      <3> QED
        BY <1>3, <2>2, <3>1
    <2> QED
      BY <2>1, <2>2, Zenon
  <1> QED
    BY <1>1, <1>2, <1>3, Zenon DEF Health

LEMMA InitBreaker == Init => BreakerInv
  <1> SUFFICES ASSUME Init PROVE BreakerInv
    OBVIOUS
  <1>1. BreakerType
    BY FailoverAssumption, Zenon DEF Init, BreakerType, Health, targetHealth, Call, Idle
  <1>2. \A k \in Keys : health[k].state = "closed"
    BY DEF Init, targetHealth
  <1> QED
    BY <1>1, <1>2 DEF BreakerInv, ProbeBudget, Awaited

\* The updates of a call change what they say.
LEMMA CallUpdates ==
  ASSUME NEW c \in Call
  PROVE  /\ Idle \in Call /\ Idle.pc = "idle"
         /\ [c EXCEPT !.pc = "get"] \in Call /\ [c EXCEPT !.pc = "get"].pc = "get"
         /\ [c EXCEPT !.pc = "get"].ordered = c.ordered
         /\ [c EXCEPT !.pc = "get"].i = c.i
         /\ NextCandidate(c) \in Call /\ NextCandidate(c).pc = "check"
         /\ Attempt(c) \in Call /\ Attempt(c).pc = "run"
         /\ Attempt(c).ordered = c.ordered /\ Attempt(c).i = c.i
  <1>1. Idle \in Call /\ Idle.pc = "idle"
    BY DEF Call, Idle
  <1>2. /\ [c EXCEPT !.pc = "get"] \in Call /\ [c EXCEPT !.pc = "get"].pc = "get"
        /\ [c EXCEPT !.pc = "get"].ordered = c.ordered
        /\ [c EXCEPT !.pc = "get"].i = c.i
    BY DEF Call
  <1>3. NextCandidate(c) \in Call /\ NextCandidate(c).pc = "check"
    <2>0. c.i + 1 \in Nat
      BY DEF Call
    <2>1. ASSUME NEW n \in Nat
          PROVE  /\ [c EXCEPT !.pc = "check", !.i = n] \in Call
                 /\ [c EXCEPT !.pc = "check", !.i = n].pc = "check"
      BY Zenon DEF Call
    <2> QED
      BY <2>0, <2>1, Zenon DEF NextCandidate
  <1>4. /\ Attempt(c) \in Call /\ Attempt(c).pc = "run"
        /\ Attempt(c).ordered = c.ordered /\ Attempt(c).i = c.i
    <2>0. c.attempts + 1 \in Nat
      BY DEF Call
    <2>1. ASSUME NEW n \in Nat
          PROVE  LET d == [c EXCEPT !.pc = "run", !.attempts = n]
                 IN  d \in Call /\ d.pc = "run" /\ d.ordered = c.ordered /\ d.i = c.i
      BY Zenon DEF Call
    <2> QED
      BY <2>0, <2>1, Zenon DEF Attempt
  <1> QED
    BY <1>1, <1>2, <1>3, <1>4, Zenon

\* Who is awaited does not change for a breaker whose callers stay where they are.
LEMMA PendingFrame ==
  ASSUME NEW p \in Procs, NEW k \in Keys, \A q \in Procs : q # p => call'[q] = call[q],
         p \notin Pending(k)
  PROVE  Pending(k) \subseteq Pending(k)'
  BY Zenon DEF Pending, Current

\* A step that leaves the breakers alone, and no admission behind.
LEMMA QuietStep ==
  ASSUME BreakerInv, NEW p \in Procs, NEW c,
         UNCHANGED <<health, admitted, registered>>, lost \subseteq lost',
         call' = [call EXCEPT ![p] = c], c \in Call,
         call[p].pc \in {"get", "run"} => Current(p) \in lost' \/ (c.pc = "run" /\ Current(p)' = Current(p))
                                          \/ ~(Current(p) \in Keys /\ health[Current(p)].state = "half_open")
  PROVE  BreakerInv'
  <1>1. call' \in [Procs -> Call] /\ call'[p] = c /\ \A q \in Procs : q # p => call'[q] = call[q]
    BY Zenon DEF BreakerInv, BreakerType
  <1>2. BreakerType' /\ ProbeBudget'
    BY <1>1, Zenon DEF BreakerInv, BreakerType, ProbeBudget
  <1>3. ASSUME NEW k \in Keys, health[k].state = "half_open"
        PROVE  Pending(k)' # {} \/ k \in lost'
    <2>1. CASE k \in lost
      BY <2>1
    <2>2. CASE p \in Pending(k)
      BY <1>1, <1>3, <2>2, SMTT(30) DEF Pending
    <2>3. CASE k \notin lost /\ p \notin Pending(k)
      BY <1>1, <1>3, <2>3, PendingFrame, SMTT(30) DEF BreakerInv, Awaited
    <2> QED
      BY <2>1, <2>2, <2>3, SMTT(30)
  <1> QED
    BY <1>2, <1>3 DEF BreakerInv, Awaited

\* An outcome is reported: the breaker of k is not half-open any more.
LEMMA SettleStep ==
  ASSUME BreakerInv, NEW p \in Procs, NEW c, NEW h, NEW n \in Nat,
         call' = [call EXCEPT ![p] = c], c \in Call, lost' = lost \ {Current(p)},
         health' = [health EXCEPT ![Current(p)] = h],
         admitted' = [admitted EXCEPT ![Current(p)] = n],
         Current(p) \in Keys => h \in Health /\ h.state # "half_open",
         registered' = registered
  PROVE  BreakerInv'
  <1>1. call' \in [Procs -> Call] /\ \A q \in Procs : q # p => call'[q] = call[q]
    BY DEF BreakerInv, BreakerType
  <1>2. /\ health' \in [Keys -> Health] /\ admitted' \in [Keys -> Nat]
        /\ \A j \in Keys : j # Current(p) => health'[j] = health[j] /\ admitted'[j] = admitted[j]
        /\ Current(p) \in Keys => health'[Current(p)].state # "half_open"
    BY Zenon DEF BreakerInv, BreakerType
  <1>3. BreakerType' /\ ProbeBudget'
    BY <1>1, <1>2, Zenon DEF BreakerInv, BreakerType, ProbeBudget
  <1>4. ASSUME NEW j \in Keys, health'[j].state = "half_open"
        PROVE  Pending(j)' # {} \/ j \in lost'
    <2>1. j # Current(p) /\ health[j].state = "half_open"
      BY <1>2, <1>4
    <2>2. p \notin Pending(j)
      BY <2>1 DEF Pending
    <2> QED
      BY <1>1, <2>1, <2>2, PendingFrame, SMTT(30) DEF BreakerInv, Awaited
  <1> QED
    BY <1>3, <1>4 DEF BreakerInv, Awaited

LEMMA CheckStep ==
  ASSUME BreakerInv, NEW p \in Procs, Check(p)
  PROVE  BreakerInv'
  <1> DEFINE k == Current(p)
             a == isAvailable(health[k])
             c == IF a.ok THEN [call[p] EXCEPT !.pc = "get"] ELSE NextCandidate(call[p])
  <1>0. call[p] \in Call
    BY DEF BreakerInv, BreakerType
  <1>a. /\ [call[p] EXCEPT !.pc = "get"] \in Call /\ NextCandidate(call[p]) \in Call
        /\ [call[p] EXCEPT !.pc = "get"].pc = "get"
        /\ [call[p] EXCEPT !.pc = "get"].ordered = call[p].ordered
        /\ [call[p] EXCEPT !.pc = "get"].i = call[p].i
    BY <1>0, CallUpdates
  <1>c. /\ call' = [call EXCEPT ![p] = c] /\ lost' = lost /\ call[p].pc = "check"
        /\ registered' = registered
    BY Zenon DEF Check
  <1>1. /\ call' = [call EXCEPT ![p] = c] /\ c \in Call /\ lost' = lost /\ call[p].pc = "check"
        /\ a.ok => c.pc = "get" /\ c.ordered = call[p].ordered /\ c.i = call[p].i
    BY <1>a, <1>c, Zenon
  <1>2. /\ call' \in [Procs -> Call] /\ call'[p] = c
        /\ \A q \in Procs : q # p => call'[q] = call[q]
    BY <1>1, Zenon DEF BreakerInv, BreakerType
  <1>3. \A j \in Keys : p \notin Pending(j)
    BY <1>1, Zenon DEF Pending
  <1>4. CASE k \notin Keys
    <2>1. health' = health /\ admitted' = admitted
      BY <1>4, Zenon DEF Check, BreakerInv, BreakerType
    <2> QED
      BY <1>1, <1>c, <2>1, QuietStep, Zenon
  <1>5. CASE k \in Keys
    <2>1. /\ health[k] \in Health /\ a.next \in Health
          /\ health' = [health EXCEPT ![k] = a.next]
      BY <1>5, Asked, Zenon DEF Check, BreakerInv, BreakerType
    <2>2. admitted' = [admitted EXCEPT ![k] =
                          IF a.next.state # "half_open" THEN 0
                          ELSE IF health[k].state = "open" THEN 1
                          ELSE IF a.ok THEN admitted[k] + 1 ELSE admitted[k]]
      BY Zenon DEF Check
    <2>3. BreakerType'
      <3>1. health' \in [Keys -> Health]
        BY <2>1, Zenon DEF BreakerInv, BreakerType
      <3>2. admitted' \in [Keys -> Nat]
        BY <1>5, <2>2, SMTT(30) DEF BreakerInv, BreakerType
      <3> QED
        BY <1>2, <1>c, <3>1, <3>2, SMTT(30) DEF BreakerInv, BreakerType
    <2>4. a.next.state = "half_open" => admitted'[k] + a.next.halfProbe = Probes + 1
      <3>0. Probes \in Nat
        BY FailoverAssumption DEF Probes
      <3>1. CASE health[k].state = "closed"
        <4>1. a.next.state = "closed"
          BY <2>1, <3>1, Asked, SMTT(30)
        <4> QED
          BY <4>1
      <3>2. CASE health[k].state = "half_open"
        <4>1. admitted[k] + health[k].halfProbe = Probes + 1
          BY <1>5, <3>2 DEF BreakerInv, ProbeBudget
        <4>2. /\ a.next.state = "half_open" /\ a.ok \in BOOLEAN
              /\ a.next.halfProbe = health[k].halfProbe - (IF a.ok THEN 1 ELSE 0)
          BY <2>1, <3>2, Asked, SMTT(30)
        <4>3. admitted'[k] = IF a.ok THEN admitted[k] + 1 ELSE admitted[k]
          BY <1>5, <2>2, <3>2, <4>2, SMTT(30) DEF BreakerInv, BreakerType
        <4>4. admitted[k] \in Nat /\ health[k].halfProbe \in Nat
          BY <1>5, <2>1 DEF BreakerInv, BreakerType, Health
        <4> QED
          BY <3>0, <4>1, <4>2, <4>3, <4>4, SMTT(30)
      <3>3. CASE health[k].state = "open"
        <4>1. CASE health[k].openFor = 0
          <5>1. a.next.state = "half_open" /\ a.next.halfProbe = Probes
            BY <2>1, <3>3, <4>1, Asked, SMTT(30) DEF Health
          <5>2. admitted'[k] = 1
            BY <1>5, <2>2, <3>3, <5>1, SMTT(30) DEF BreakerInv, BreakerType
          <5> QED
            BY <3>0, <5>1, <5>2, SMTT(30)
        <4>2. CASE health[k].openFor # 0
          <5>1. a.next.state = "open"
            BY <2>1, <3>3, <4>2, Asked, Zenon
          <5> QED
            BY <5>1
        <4> QED
          BY <4>1, <4>2, Zenon
      <3> QED
        BY <2>1, <3>1, <3>2, <3>3, SMTT(30) DEF Health
    <2>5. ProbeBudget'
      <3>1. ASSUME NEW j \in Keys PROVE health'[j].state = "half_open" => admitted'[j] + health'[j].halfProbe = Probes + 1
        <4>1. CASE j = k
          BY <1>5, <2>1, <2>4, <4>1, SMTT(30) DEF BreakerInv, BreakerType
        <4>2. CASE j # k
          BY <2>1, <2>2, <4>2, Zenon DEF BreakerInv, BreakerType, ProbeBudget
        <4> QED
          BY <4>1, <4>2
      <3> QED
        BY <3>1 DEF ProbeBudget, Probes
    <2>6. ASSUME NEW j \in Keys, health'[j].state = "half_open"
          PROVE  Pending(j)' # {} \/ j \in lost'
      <3>1. CASE health[j].state = "half_open"
        BY <1>1, <1>2, <1>3, <3>1, PendingFrame, SMTT(30) DEF BreakerInv, Awaited
      <3>2. CASE health[j].state # "half_open"
        <4>1. j = k
          BY <2>1, <2>6, <3>2, SMTT(30) DEF BreakerInv, BreakerType
        <4>2. a.ok
          <5>1. a.next.state = "half_open" /\ health[k].state \in {"closed", "open"}
            BY <1>5, <2>1, <2>6, <3>2, <4>1, SMTT(30) DEF BreakerInv, BreakerType, Health
          <5> QED
            BY <2>1, <5>1, Asked, Zenon
        <4>3. call'[p].pc = "get" /\ Current(p)' = k
          BY <1>1, <1>2, <4>2, Zenon DEF Current
        <4> QED
          BY <4>1, <4>3 DEF Pending
      <3> QED
        BY <3>1, <3>2
    <2> QED
      BY <2>3, <2>5, <2>6, SMTT(30) DEF BreakerInv, Awaited
  <1> QED
    BY <1>4, <1>5

LEMMA PruneStep ==
  ASSUME BreakerInv, prune
  PROVE  BreakerInv'
  <1>1. /\ \A k \in Keys : IF k \in pruning.keep THEN health'[k] = health[k] /\ admitted'[k] = admitted[k]
                            ELSE health'[k].state = "closed"
        /\ lost' = lost \cap pruning.keep /\ call' = call
    BY Zenon DEF prune, targetHealth
  <1>2. BreakerType'
    BY Zenon DEF BreakerInv, BreakerType, prune, targetHealth, Health
  <1>3. ProbeBudget'
    BY <1>1 DEF BreakerInv, ProbeBudget
  <1>4. \A k \in Keys : Pending(k)' = Pending(k)
    BY <1>1 DEF Pending, Current
  <1>5. Awaited'
    BY <1>1, <1>4, SMTT(30) DEF BreakerInv, Awaited
  <1> QED
    BY <1>2, <1>3, <1>5 DEF BreakerInv

LEMMA TickStep ==
  ASSUME BreakerInv, Tick
  PROVE  BreakerInv'
  <1>1. ASSUME NEW k \in Keys
        PROVE  /\ health'[k] \in Health /\ health'[k].state = health[k].state
               /\ health'[k].halfProbe = health[k].halfProbe
    BY DEF Tick, BreakerInv, BreakerType, Health
  <1>2. BreakerType'
    BY <1>1, Zenon DEF BreakerInv, BreakerType, Tick
  <1>3. ProbeBudget'
    BY <1>1 DEF BreakerInv, ProbeBudget, Tick
  <1>4. \A k \in Keys : Pending(k)' = Pending(k)
    BY DEF Pending, Current, Tick
  <1>5. Awaited'
    BY <1>1, <1>4, Zenon DEF BreakerInv, Awaited, Tick
  <1> QED
    BY <1>2, <1>3, <1>5 DEF BreakerInv

\* A step of the service that leaves breakers and calls alone.
LEMMA ServiceStep ==
  ASSUME BreakerInv, UNCHANGED <<health, call, admitted, lost>>, registered' \subseteq Keys
  PROVE  BreakerInv'
  <1>1. \A k \in Keys : Pending(k)' = Pending(k)
    BY DEF Pending, Current
  <1> QED
    BY <1>1 DEF BreakerInv, BreakerType, ProbeBudget, Awaited

LEMMA NextBreaker == BreakerInv /\ [Next]_vars => BreakerInv'
  <1> SUFFICES ASSUME BreakerInv, [Next]_vars
               PROVE  BreakerInv'
    OBVIOUS
  <1>0. registered \subseteq Keys /\ \A p \in Procs : call[p] \in Call
    BY DEF BreakerInv, BreakerType
  <1>1. CASE UNCHANGED vars
    BY <1>0, <1>1, ServiceStep DEF vars
  <1>2. ASSUME NEW p \in Procs, Start(p) PROVE BreakerInv'
    <2> DEFINE c(o, w) == [Idle EXCEPT !.pc = "check", !.isWrite = w, !.ordered = o]
    <2>1. PICK o \in Candidates, w \in BOOLEAN : call' = [call EXCEPT ![p] = c(o, w)]
      BY <1>2, Zenon DEF Start
    <2>2. o \in Orders
      BY <1>0, <2>1 DEF Candidates, Orders
    <2>3. c(o, w) \in Call
      BY <2>1, <2>2, Zenon DEF Call, Idle
    <2> HIDE DEF c
    <2>4. call[p].pc = "idle" /\ UNCHANGED <<health, admitted, registered, lost>>
      BY <1>2 DEF Start
    <2> QED
      BY <2>1, <2>3, <2>4, QuietStep, Zenon
  <1>3. ASSUME NEW p \in Procs, GiveUp(p) PROVE BreakerInv'
    BY <1>0, <1>3, CallUpdates, QuietStep, Zenon DEF GiveUp
  <1>4. ASSUME NEW p \in Procs, Check(p) PROVE BreakerInv'
    BY <1>4, CheckStep
  <1>5. ASSUME NEW p \in Procs, Get(p) PROVE BreakerInv'
    <2>1. CASE Current(p) \in registered
      <3>1. /\ call' = [call EXCEPT ![p] = Attempt(call[p])] /\ lost' = lost
            /\ UNCHANGED <<health, admitted, registered>>
        BY <1>5, <2>1 DEF Get
      <3>2. Attempt(call[p]) \in Call /\ Attempt(call[p]).pc = "run" /\ Current(p)' = Current(p)
        BY <1>0, <3>1, CallUpdates, Zenon DEF Current, BreakerInv, BreakerType
      <3> QED
        BY <3>1, <3>2, QuietStep, Zenon
    <2>2. CASE Current(p) \notin registered
      <3>1. /\ call' = [call EXCEPT ![p] = NextCandidate(call[p])] /\ lost \subseteq lost'
            /\ health[Current(p)].state = "half_open" => Current(p) \in lost'
            /\ UNCHANGED <<health, admitted, registered>>
        BY <1>5, <2>2 DEF Get
      <3>2. NextCandidate(call[p]) \in Call
        BY <1>0, CallUpdates, Zenon
      <3> QED
        BY <3>1, <3>2, QuietStep, Zenon
    <2> QED
      BY <2>1, <2>2
  <1>6. ASSUME NEW p \in Procs, Succeed(p) PROVE BreakerInv'
    <2>1. Current(p) \in Keys => onSuccess(health[Current(p)]) \in Health
                                /\ onSuccess(health[Current(p)]).state # "half_open"
      BY Succeeded DEF BreakerInv, BreakerType
    <2>2. Idle \in Call
      BY <1>0, CallUpdates, Zenon
    <2> QED
      BY <1>6, <2>1, <2>2, SettleStep, Zenon DEF Succeed
  <1>7. ASSUME NEW p \in Procs, NEW o \in Outcomes, NEW cancelled \in BOOLEAN,
               Fail(p, o[1], o[2], cancelled)
        PROVE  BreakerInv'
    <2> DEFINE h == onFailure(health[Current(p)], o[1])
               n == IF health'[Current(p)].state = "half_open" THEN admitted[Current(p)] ELSE 0
               c == IF ~o[2] \/ (call[p].isWrite /\ ~AllowWriteRetry) \/ cancelled
                    THEN Idle ELSE NextCandidate(call[p])
    <2>1. Current(p) \in Keys => h \in Health /\ h.state # "half_open"
      <3>1. o[1] \in BOOLEAN
        BY FailoverAssumption
      <3>2. Current(p) \in Keys => health[Current(p)] \in Health
        BY DEF BreakerInv, BreakerType
      <3> QED
        BY <3>1, <3>2, Failed
    <2>2. c \in Call
      BY <1>0, CallUpdates, Zenon
    <2>3. /\ call' = [call EXCEPT ![p] = c] /\ health' = [health EXCEPT ![Current(p)] = h]
          /\ lost' = lost \ {Current(p)} /\ registered' = registered
          /\ admitted' = [admitted EXCEPT ![Current(p)] = n]
      BY <1>7, Zenon DEF Fail
    <2>4. admitted' = [admitted EXCEPT ![Current(p)] = 0]
      <3>1. CASE Current(p) \in Keys
        <4>1. health'[Current(p)] = h
          BY <2>3, <3>1 DEF BreakerInv, BreakerType
        <4>2. n = 0
          BY <2>1, <3>1, <4>1
        <4> HIDE DEF n
        <4> QED
          BY <2>3, <4>2
      <3>2. CASE Current(p) \notin Keys
        BY <2>3, <3>2, Zenon DEF BreakerInv, BreakerType
      <3> QED
        BY <3>1, <3>2
    <2> HIDE DEF c, h, n
    <2> QED
      BY <2>1, <2>2, <2>3, <2>4, SettleStep, Zenon
  <1>8. ASSUME NEW ks \in Configs, Reload(ks) PROVE BreakerInv'
    BY <1>8, ServiceStep, FailoverAssumption DEF Reload
  <1>9. ASSUME NEW k \in Keys, Change(k) PROVE BreakerInv'
    BY <1>0, <1>9, ServiceStep DEF Change
  <1> QED
    BY <1>1, <1>2, <1>3, <1>4, <1>5, <1>6, <1>7, <1>8, <1>9, PruneStep, TickStep, SMTT(30) DEF Next

\* For every policy and every set of targets and callers: a half-open breaker
\* admits one call more than HalfOpenProbe says, never more.
THEOREM ProbesBudgeted == Spec => []ProbeBudget
  <1>1. BreakerInv => ProbeBudget
    BY DEF BreakerInv
  <1> QED
    BY InitBreaker, NextBreaker, <1>1, PTL DEF Spec

\* For every policy and every set of targets and callers: a half-open breaker is
\* closed to everybody only while an admitted call runs or after one missed its
\* target in RunWithTarget.
THEOREM BreakerSettled == Spec => []ProbedAgain
  <1>1. BreakerInv => ProbedAgain
    BY DEF BreakerInv, Awaited, ProbedAgain
  <1> QED
    BY InitBreaker, NextBreaker, <1>1, PTL DEF Spec

\* For every policy: an open breaker stays open for its time, unless a call that
\* was admitted before reports a success or its target is pruned.
THEOREM BreakerHolds == Spec => OpenHolds
  <1> DEFINE Held(k) ==
        health[k].state = "open" /\ health'[k].state # "open"
        => \/ health[k].openFor = 0
           \/ \E p \in Pending(k) : call[p].pc = "run" /\ Succeed(p)
           \/ prune /\ k \notin pruning.keep
  <1>1. ASSUME BreakerInv, [Next]_vars, NEW k \in Keys
        PROVE  Held(k)
    <2>0. health[k] \in Health
      BY <1>1 DEF BreakerInv, BreakerType
    <2>1. ASSUME health' = health PROVE Held(k)
      BY <2>1
    <2>2. ASSUME NEW p \in Procs, NEW h, health' = [health EXCEPT ![Current(p)] = h], Current(p) # k
          PROVE  Held(k)
      <3>1. health'[k] = health[k]
        BY <1>1, <2>2 DEF BreakerInv, BreakerType
      <3> QED
        BY <3>1
    <2>3. ASSUME NEW p \in Procs, NEW h, health' = [health EXCEPT ![Current(p)] = h], Current(p) = k
          PROVE  health'[k] = h
      BY <1>1, <2>3 DEF BreakerInv, BreakerType
    <2>4. ASSUME NEW p \in Procs, Check(p) PROVE Held(k)
      <3>1. health' = [health EXCEPT ![Current(p)] = isAvailable(health[Current(p)]).next]
        BY <2>4, Zenon DEF Check
      <3>2. CASE Current(p) = k
        BY <2>0, <2>3, <3>1, <3>2, Asked, SMTT(30)
      <3> QED
        BY <2>2, <3>1, <3>2, Zenon
    <2>5. ASSUME NEW p \in Procs, Succeed(p) PROVE Held(k)
      <3>1. health' = [health EXCEPT ![Current(p)] = onSuccess(health[Current(p)])] /\ call[p].pc = "run"
        BY <2>5 DEF Succeed
      <3>2. CASE Current(p) = k
        BY <2>5, <3>1, <3>2 DEF Pending
      <3> QED
        BY <2>2, <3>1, <3>2, Zenon
    <2>6. ASSUME NEW p \in Procs, NEW o \in Outcomes, NEW cancelled \in BOOLEAN,
                 Fail(p, o[1], o[2], cancelled)
          PROVE  Held(k)
      <3>1. health' = [health EXCEPT ![Current(p)] = onFailure(health[Current(p)], o[1])]
        BY <2>6 DEF Fail
      <3>2. CASE Current(p) = k
        <4>1. health'[k] = onFailure(health[k], o[1]) /\ o[1] \in BOOLEAN
          BY <2>3, <3>1, <3>2, FailoverAssumption, Zenon
        <4> QED
          BY <2>0, <4>1, Failed
      <3> QED
        BY <2>2, <3>1, <3>2, Zenon
    <2>7. CASE prune
      BY <2>7 DEF prune
    <2>8. CASE Tick
      <3>1. health'[k].state = health[k].state
        BY <2>0, <2>8 DEF Tick, Health
      <3> QED
        BY <3>1
    <2> HIDE DEF Held
    <2> QED
      BY <1>1, <2>1, <2>4, <2>5, <2>6, <2>7, <2>8, ZenonT(30)
         DEF Next, vars, Start, GiveUp, Get, Reload, Change
  <1>2. BreakerInv /\ [Next]_vars => [\A k \in Keys : Held(k)]_vars
    BY <1>1
  <1> QED
    BY InitBreaker, NextBreaker, <1>2, PTL DEF Spec, OpenHolds

-----------------------------------------------------------------------------
(***************************************************************************)
(* No target twice.                                                        *)
(***************************************************************************)
\* sorted(S) lists elements of S, none twice: the number of smaller elements is
\* an injection of S into 0..Cardinality(S) - 1, and so takes every value.
LEMMA SortedFacts ==
  ASSUME NEW S \in SUBSET Keys
  PROVE  /\ sorted(S) \in Seq(S)
         /\ IsInjective(sorted(S))
  <1> DEFINE n == Cardinality(S)
             below(k) == {j \in S : j < k}
             rank == [k \in S |-> Cardinality(below(k))]
  <1>1. IsFiniteSet(S) /\ n \in Nat /\ S \subseteq Nat
    BY FailoverAssumption, FS_Subset, FS_CardinalityType, Zenon
  <1>2. ASSUME NEW k \in S
        PROVE  IsFiniteSet(below(k)) /\ rank[k] \in 0..n-1
    <2>1. below(k) \in SUBSET S /\ below(k) # S
      BY <1>1
    <2>2. /\ IsFiniteSet(below(k)) /\ Cardinality(below(k)) <= n
          /\ Cardinality(below(k)) # n
      BY <1>1, <2>1, FS_Subset
    <2>3. Cardinality(below(k)) \in Nat
      BY <2>2, FS_CardinalityType
    <2> QED
      BY <1>1, <2>2, <2>3
  <1>3. ASSUME NEW j \in S, NEW k \in S, j < k
        PROVE  rank[j] < rank[k]
    <2>1. below(j) \in SUBSET below(k) /\ below(j) # below(k)
      <3>1. j \in below(k) /\ j \notin below(j)
        BY <1>1, <1>3
      <3>2. \A i \in S : i < j => i < k
        BY <1>1, <1>3
      <3> QED
        BY <3>1, <3>2
    <2>2. IsFiniteSet(below(k)) /\ rank[j] \in Nat /\ rank[k] \in Nat
      BY <1>2
    <2>3. Cardinality(below(j)) <= Cardinality(below(k)) /\ Cardinality(below(j)) # Cardinality(below(k))
      BY <2>1, <2>2, FS_Subset
    <2> QED
      BY <2>2, <2>3
  <1>4. rank \in Injection(S, 0..n-1)
    <2>1. rank \in [S -> 0..n-1]
      BY <1>2
    <2>2. \A j, k \in S : rank[j] = rank[k] => j = k
      <3>1. SUFFICES ASSUME NEW j \in S, NEW k \in S, rank[j] = rank[k], j # k PROVE FALSE
        OBVIOUS
      <3>2. j < k \/ k < j
        BY <1>1, <3>1
      <3>3. rank[j] \in Int /\ rank[k] \in Int
        BY <1>2
      <3> HIDE DEF rank
      <3> QED
        BY <1>3, <3>1, <3>2, <3>3
    <2> HIDE DEF rank
    <2> QED
      BY <2>1, <2>2 DEF Injection, IsInjective
  <1>5. IsFiniteSet(0..n-1) /\ Cardinality(0..n-1) = n
    <2>1. 0 \in Int /\ n - 1 \in Int
      BY <1>1
    <2>2. IsFiniteSet(0..n-1) /\ Cardinality(0..n-1) = IF 0 > n - 1 THEN 0 ELSE (n - 1) - 0 + 1
      BY <2>1, FS_Interval
    <2> QED
      BY <1>1, <2>2
  <1>6. rank \in Surjection(S, 0..n-1)
    BY <1>4, <1>5, FS_Injection
  <1>7. \A i \in 1..n : \E k \in S : Cardinality(below(k)) = i - 1
    <2>1. \A i \in 1..n : \E k \in S : rank[k] = i - 1
      <3> HIDE DEF rank
      <3> QED
        BY <1>1, <1>6 DEF Surjection
    <2> QED
      BY <2>1
  <1>8. \A i \in 1..n : sorted(S)[i] \in S /\ Cardinality(below(sorted(S)[i])) = i - 1
    BY <1>7, SMTT(30) DEF sorted
  <1>9. sorted(S) \in [1..n -> S]
    BY <1>8, Zenon DEF sorted
  <1>10. ASSUME NEW i \in 1..n, NEW j \in 1..n, sorted(S)[i] = sorted(S)[j]
         PROVE  i = j
    <2>1. i - 1 = j - 1
      BY <1>8, <1>10, Zenon
    <2> QED
      BY <1>1, <2>1
  <1> QED
    BY <1>1, <1>9, <1>10 DEF IsInjective

\* Lists without repetition that have nothing in common make one.
LEMMA Concat ==
  ASSUME NEW X, NEW Y, NEW s \in Seq(X), NEW t \in Seq(Y), IsInjective(s), IsInjective(t),
         X \cap Y = {}
  PROVE  s \o t \in Seq(X \cup Y) /\ IsInjective(s \o t)
  <1>1. /\ DOMAIN s = 1..Len(s) /\ DOMAIN t = 1..Len(t) /\ Len(s) \in Nat /\ Len(t) \in Nat
        /\ \A i \in 1..Len(s) : s[i] \in X
        /\ \A i \in 1..Len(t) : t[i] \in Y
    OBVIOUS
  <1>2. /\ s \o t \in Seq(X \cup Y)
        /\ DOMAIN (s \o t) = 1..Len(s) + Len(t)
        /\ \A i \in 1..Len(s) + Len(t) : (s \o t)[i] = IF i <= Len(s) THEN s[i] ELSE t[i - Len(s)]
    OBVIOUS
  <1>3. ASSUME NEW i \in 1..Len(s) + Len(t), NEW j \in 1..Len(s) + Len(t), (s \o t)[i] = (s \o t)[j]
        PROVE  i = j
    <2>1. CASE i <= Len(s) /\ j <= Len(s)
      BY <1>1, <1>2, <1>3, <2>1, SMTT(30) DEF IsInjective
    <2>2. CASE ~(i <= Len(s)) /\ ~(j <= Len(s))
      <3>1. i - Len(s) \in 1..Len(t) /\ j - Len(s) \in 1..Len(t)
        BY <1>1, <2>2
      <3>2. t[i - Len(s)] = t[j - Len(s)]
        BY <1>2, <1>3, <2>2
      <3>3. i - Len(s) = j - Len(s)
        BY <1>1, <3>1, <3>2, SMTT(30) DEF IsInjective
      <3> QED
        BY <1>1, <3>3
    <2>3. CASE i <= Len(s) /\ ~(j <= Len(s))
      BY <1>1, <1>2, <1>3, <2>3
    <2>4. CASE ~(i <= Len(s)) /\ j <= Len(s)
      BY <1>1, <1>2, <1>3, <2>4
    <2> QED
      BY <2>1, <2>2, <2>3, <2>4
  <1> QED
    BY <1>2, <1>3, Zenon DEF IsInjective

\* orderCandidates offers no key twice.
LEMMA OrdersInjective ==
  ASSUME NEW keys \in SUBSET Keys, NEW primary \in Keys \cup {NoKey}, NEW pref \in SUBSET Keys
  PROVE  IsInjective(orderCandidates(keys, primary, pref))
  <1> DEFINE P == {primary} \ {NoKey}
             first == IF primary = NoKey THEN <<>> ELSE <<primary>>
             second == sorted(pref \ {primary})
             third == sorted(keys \ (pref \cup {primary}))
  <1>1. first \in Seq(P) /\ IsInjective(first)
    <2>1. CASE primary = NoKey
      BY <2>1 DEF IsInjective
    <2>2. CASE primary # NoKey
      <3>1. first = <<primary>> /\ primary \in P
        BY <2>2
      <3>2. <<primary>> \in Seq(P) /\ DOMAIN <<primary>> = {1}
        BY <3>1
      <3> QED
        BY <3>1, <3>2 DEF IsInjective
    <2> QED
      BY <2>1, <2>2
  <1>2. second \in Seq(pref \ {primary}) /\ IsInjective(second)
    BY SortedFacts
  <1>3. third \in Seq(keys \ (pref \cup {primary})) /\ IsInjective(third)
    BY SortedFacts
  <1>4. orderCandidates(keys, primary, pref) = (first \o second) \o third
    BY DEF orderCandidates
  <1> HIDE DEF first, second, third
  <1>5. first \o second \in Seq(P \cup (pref \ {primary})) /\ IsInjective(first \o second)
    <2>1. P \cap (pref \ {primary}) = {}
      OBVIOUS
    <2> QED
      BY <1>1, <1>2, <2>1, Concat, Zenon
  <1>6. (P \cup (pref \ {primary})) \cap (keys \ (pref \cup {primary})) = {}
    OBVIOUS
  <1>7. IsInjective((first \o second) \o third)
    BY <1>3, <1>5, <1>6, Concat, Zenon
  <1> QED
    BY <1>4, <1>7

\* A write that may not be retried has been attempted on the target it runs on,
\* and on no other.
WriteOnce ==
    \A p \in Procs :
        call[p].isWrite /\ ~AllowWriteRetry /\ call[p].attempts > 0
        => call[p].pc = "run" /\ call[p].attempts = 1

\* A step of one caller keeps WriteOnce if what it leaves in its call does.
LEMMA OneCallStep ==
  ASSUME BreakerType, WriteOnce, NEW p \in Procs, NEW c, call' = [call EXCEPT ![p] = c],
         c.isWrite /\ ~AllowWriteRetry /\ c.attempts > 0 => c.pc = "run" /\ c.attempts = 1
  PROVE  WriteOnce'
  <1>1. call'[p] = c /\ \A q \in Procs : q # p => call'[q] = call[q]
    BY DEF BreakerType
  <1> QED
    BY <1>1 DEF WriteOnce

LEMMA NextWriteOnce == BreakerType /\ WriteOnce /\ [Next]_vars => WriteOnce'
  <1> SUFFICES ASSUME BreakerType, WriteOnce, [Next]_vars PROVE WriteOnce'
    OBVIOUS
  <1>0. \A p \in Procs : call[p] \in Call
    BY DEF BreakerType
  <1>1. ASSUME UNCHANGED call PROVE WriteOnce'
    BY <1>1 DEF WriteOnce
  <1>2. ASSUME NEW p \in Procs, Start(p) PROVE WriteOnce'
    <2> DEFINE c(o, w) == [Idle EXCEPT !.pc = "check", !.isWrite = w, !.ordered = o]
    <2>1. PICK o \in Candidates, w \in BOOLEAN : call' = [call EXCEPT ![p] = c(o, w)]
      BY <1>2, Zenon DEF Start
    <2>2. ~(c(o, w).attempts > 0)
      BY DEF Idle
    <2> HIDE DEF c
    <2> QED
      BY <2>1, <2>2, OneCallStep, Zenon
  <1>3. ASSUME NEW p \in Procs, call' = [call EXCEPT ![p] = Idle] PROVE WriteOnce'
    <2>1. ~(Idle.attempts > 0)
      BY DEF Idle
    <2> QED
      BY <1>3, <2>1, OneCallStep, Zenon
  <1>4. ASSUME NEW p \in Procs, call[p].pc # "run", call' = [call EXCEPT ![p] = NextCandidate(call[p])]
        PROVE  WriteOnce'
    <2>1. NextCandidate(call[p]).attempts = call[p].attempts /\ NextCandidate(call[p]).isWrite = call[p].isWrite
      BY <1>0 DEF NextCandidate, Call
    <2> QED
      BY <1>4, <2>1, OneCallStep, Zenon DEF WriteOnce
  <1>5. ASSUME NEW p \in Procs, Check(p) PROVE WriteOnce'
    <2> DEFINE ok == isAvailable(health[Current(p)]).ok
               g == [call[p] EXCEPT !.pc = "get"]
    <2>1. call[p].pc = "check" /\ call' = [call EXCEPT ![p] = IF ok THEN g ELSE NextCandidate(call[p])]
      BY <1>5, Zenon DEF Check
    <2>2. g.attempts = call[p].attempts /\ g.isWrite = call[p].isWrite
      BY <1>0 DEF Call
    <2>3. CASE ok
      <3>1. call' = [call EXCEPT ![p] = g]
        BY <2>1, <2>3
      <3> HIDE DEF g
      <3> QED
        BY <2>1, <2>2, <3>1, OneCallStep DEF WriteOnce
    <2>4. CASE ~ok
      <3>1. call' = [call EXCEPT ![p] = NextCandidate(call[p])]
        BY <2>1, <2>4
      <3> QED
        BY <1>4, <2>1, <3>1, Zenon
    <2> QED
      BY <2>3, <2>4
  <1>6. ASSUME NEW p \in Procs, Get(p) PROVE WriteOnce'
    <2>1. CASE Current(p) \in registered
      <3>1. call[p].pc = "get" /\ call' = [call EXCEPT ![p] = Attempt(call[p])]
        BY <1>6, <2>1 DEF Get
      <3>2. /\ Attempt(call[p]).attempts = call[p].attempts + 1 /\ Attempt(call[p]).pc = "run"
            /\ Attempt(call[p]).isWrite = call[p].isWrite /\ call[p].attempts \in Nat
        BY <1>0 DEF Attempt, Call
      <3>3. call[p].isWrite /\ ~AllowWriteRetry => Attempt(call[p]).attempts = 1
        BY <3>1, <3>2 DEF WriteOnce
      <3> QED
        BY <3>1, <3>2, <3>3, OneCallStep, Zenon
    <2>2. CASE Current(p) \notin registered
      <3>1. call[p].pc = "get" /\ call' = [call EXCEPT ![p] = NextCandidate(call[p])]
        BY <1>6, <2>2 DEF Get
      <3> QED
        BY <1>4, <3>1, Zenon
    <2> QED
      BY <2>1, <2>2
  <1>7. ASSUME NEW p \in Procs, NEW o \in Outcomes, NEW cancelled \in BOOLEAN,
               Fail(p, o[1], o[2], cancelled)
        PROVE  WriteOnce'
    <2> DEFINE ends == ~o[2] \/ (call[p].isWrite /\ ~AllowWriteRetry) \/ cancelled
    <2>1. call' = [call EXCEPT ![p] = IF ends THEN Idle ELSE NextCandidate(call[p])]
      BY <1>7 DEF Fail
    <2>2. CASE ends
      <3>1. call' = [call EXCEPT ![p] = Idle]
        BY <2>1, <2>2, Zenon
      <3> QED
        BY <1>3, <3>1, Zenon
    <2>3. CASE ~ends
      <3>1. call' = [call EXCEPT ![p] = NextCandidate(call[p])] /\ ~(call[p].isWrite /\ ~AllowWriteRetry)
        BY <2>1, <2>3
      <3>2. NextCandidate(call[p]).isWrite = call[p].isWrite
        BY <1>0 DEF NextCandidate, Call
      <3> QED
        BY <3>1, <3>2, OneCallStep, Zenon
    <2> QED
      BY <2>2, <2>3
  <1> QED
    BY <1>1, <1>2, <1>3, <1>5, <1>6, <1>7, Zenon
       DEF Next, vars, GiveUp, Succeed, Reload, prune, Change, Tick

\* For every policy and every set of targets: RunWithTarget offers the function
\* no target twice (orderCandidates), and a write that may not be retried no
\* second target.
THEOREM NoTargetTwice == Spec => []NoRepeatedTarget
  <1>1. Init => WriteOnce
    BY DEF Init, Idle, WriteOnce
  <1>2. BreakerInv /\ WriteOnce => NoRepeatedTarget
    <2> SUFFICES ASSUME BreakerType, WriteOnce, NEW p \in Procs
                 PROVE  IsInjective(call[p].ordered)
      BY Zenon DEF BreakerInv, NoRepeatedTarget, WriteOnce
    <2>1. call[p].ordered \in Orders \cup {<<>>}
      BY DEF BreakerType, Call
    <2>2. \A o \in Orders : IsInjective(o)
      BY OrdersInjective DEF Orders
    <2>3. IsInjective(<<>>)
      BY DEF IsInjective
    <2> QED
      BY <2>1, <2>2, <2>3, Zenon
  <1>3. BreakerInv /\ WriteOnce /\ [Next]_vars => WriteOnce'
    BY NextWriteOnce DEF BreakerInv
  <1> QED
    BY <1>1, <1>2, <1>3, InitBreaker, NextBreaker, PTL DEF Spec
=============================================================================
