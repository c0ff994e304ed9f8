------------------------------ MODULE Failover ------------------------------
(***************************************************************************)
(* Failover with a circuit breaker per target (sdk/failover.go).           *)
(*                                                                         *)
(* Goroutines run RunWithTarget: they order candidate targets, ask the     *)
(* breaker of each in turn, look the target up in the registry, run the    *)
(* caller's function and report the outcome to the breaker.  Between any   *)
(* two of these steps other calls, the clock, the target watcher           *)
(* (ReplaceAll followed by prune) and direct Register/Unregister calls     *)
(* may run.  The registry is its set of keys (module TargetRegistry has    *)
(* the rest).  openUntil is kept relative to the clock, as the time the    *)
(* breaker has yet to stay open.  A health entry that does not exist and a *)
(* new one behave alike, so health is total; each method of healthRegistry *)
(* holds the entry's mutex and is one step.                                *)
(***************************************************************************)
EXTENDS Naturals, Sequences, FiniteSets, Functions

CONSTANTS Keys,               \* target keys: numbers, so that they can be sorted
          Procs,              \* goroutines that call RunWithTarget
          NoKey,              \* the empty key ""
          MaxAttempts, OpenAfterFailures, OpenDuration, HalfOpenProbe,
          AllowWriteRetry,    \* the FailoverPolicy
          Outcomes,           \* <<transient, retryable>> pairs the classifier returns
          Configs             \* the key sets the watcher may apply

ASSUME FailoverAssumption ==
    /\ Keys \subseteq Nat /\ IsFiniteSet(Keys)
    /\ NoKey \notin Keys
    /\ Configs \subseteq SUBSET Keys
    /\ {MaxAttempts, OpenAfterFailures, OpenDuration, HalfOpenProbe} \subseteq Nat
    /\ AllowWriteRetry \in BOOLEAN
    /\ Outcomes \subseteq BOOLEAN \X BOOLEAN

VARIABLES registered,  \* keys of the registry's current snapshot
          pruning,     \* what the watcher is about to prune: a set of keys to keep
          health,      \* key -> targetHealth
          call,        \* goroutine -> its RunWithTarget
          admitted,    \* history: admissions since the breaker went half-open
          lost         \* history: half-open breakers that admitted a call which
                       \* then did not find the target

vars == <<registered, pruning, health, call, admitted, lost>>

targetHealth == [state |-> "closed", failures |-> 0, openFor |-> 0, halfProbe |-> 0]
Idle == [pc |-> "idle", ordered |-> <<>>, i |-> 1, attempts |-> 0, isWrite |-> FALSE]
NotPruning == [on |-> FALSE, keep |-> {}]

Probes == IF HalfOpenProbe < 1 THEN 1 ELSE HalfOpenProbe
AttemptLimit == IF MaxAttempts < 1 THEN 1 ELSE MaxAttempts
Current(p) == call[p].ordered[call[p].i]

(***************************************************************************)
(* The breaker.  An outcome reported late finds it in any state.           *)
(***************************************************************************)
\* What onFailure leaves when it opens the breaker.
opened == [state |-> "open", failures |-> 0,
           openFor |-> OpenDuration, halfProbe |-> 0]

\* Mutant: a success leaves a half-open breaker half-open.
onSuccess_KeepsState(h) == [h EXCEPT !.failures = 0]

onSuccess(h) ==
    [h EXCEPT !.state = "closed", !.failures = 0, !.halfProbe = 0]

onFailure(h, transient) ==
    IF h.state = "half_open" \/ ~transient THEN opened
    ELSE IF OpenAfterFailures > 0 /\ h.failures + 1 >= OpenAfterFailures THEN opened
    ELSE [h EXCEPT !.failures = @ + 1]

\* Mutant: the clock is not consulted.
expired_Always(h) == TRUE

expired(h) == h.openFor = 0

\* Mutant: the probe is not counted down.
takeProbe_Free(h) == [ok |-> h.halfProbe > 0, next |-> h]

takeProbe(h) ==
    IF h.halfProbe > 0 THEN [ok |-> TRUE, next |-> [h EXCEPT !.halfProbe = @ - 1]]
    ELSE [ok |-> FALSE, next |-> h]

\* isAvailable: the answer, and the entry it leaves.  The call that turns an
\* expired open breaker half-open is itself admitted without using a probe.
isAvailable(h) ==
    CASE h.state = "closed" -> [ok |-> TRUE, next |-> h]
      [] h.state = "half_open" -> takeProbe(h)
      [] h.state = "open" ->
            IF expired(h)
            THEN [ok |-> TRUE, next |-> [h EXCEPT !.state = "half_open", !.halfProbe = Probes]]
            ELSE [ok |-> FALSE, next |-> h]

(***************************************************************************)
(* orderCandidates: the decided key, then the preferred keys, then the     *)
(* matching keys, each once.  FindByLabel and FindByQuery return sorted    *)
(* keys.                                                                   *)
(***************************************************************************)
\* The i-th of the sorted keys has i - 1 smaller ones.
sorted(S) ==
    [i \in 1..Cardinality(S) |-> CHOOSE k \in S : Cardinality({j \in S : j < k}) = i - 1]

\* Mutant: a key is listed once for each reason it is a candidate.
orderCandidates_Repeats(keys, primary, pref) ==
    (IF primary = NoKey THEN <<>> ELSE <<primary>>) \o sorted(pref) \o sorted(keys)

orderCandidates(keys, primary, pref) ==
    LET first  == IF primary = NoKey THEN <<>> ELSE <<primary>>
        second == sorted(pref \ {primary})
        third  == sorted(keys \ (pref \cup {primary}))
    IN  first \o second \o third

-----------------------------------------------------------------------------
Init ==
    /\ registered \in Configs
    /\ pruning = NotPruning
    /\ health = [k \in Keys |-> targetHealth]
    /\ call = [p \in Procs |-> Idle]
    /\ admitted = [k \in Keys |-> 0]
    /\ lost = {}

\* The loop goes on with the next candidate, or attempts this one.
NextCandidate(c) == [c EXCEPT !.pc = "check", !.i = c.i + 1]
Attempt(c) == [c EXCEPT !.pc = "run", !.attempts = c.attempts + 1]

\* What a decision's query, preferred label and key can give.
Candidates ==
    {orderCandidates(keys, primary, pref) :
       keys \in SUBSET registered, primary \in Keys \cup {NoKey}, pref \in SUBSET registered}

\* RunWithTarget up to its loop.
Start(p) ==
    /\ call[p].pc = "idle"
    /\ \E ordered \in Candidates, isWrite \in BOOLEAN :
          call' = [call EXCEPT ![p] =
                     [Idle EXCEPT !.pc = "check", !.isWrite = isWrite, !.ordered = ordered]]
    /\ UNCHANGED <<registered, pruning, health, admitted, lost>>

\* The loop condition fails: "all candidates failed".
GiveUp(p) ==
    /\ call[p].pc = "check"
    /\ call[p].i > Len(call[p].ordered) \/ call[p].attempts >= AttemptLimit
    /\ call' = [call EXCEPT ![p] = Idle]
    /\ UNCHANGED <<registered, pruning, health, admitted, lost>>

\* Ask the breaker of the current candidate.
Check(p) ==
    LET k == Current(p)
        a == isAvailable(health[k])
    IN  /\ call[p].pc = "check"
        /\ call[p].i <= Len(call[p].ordered) /\ call[p].attempts < AttemptLimit
        /\ health' = [health EXCEPT ![k] = a.next]
        /\ call' = [call EXCEPT ![p] = IF a.ok THEN [@ EXCEPT !.pc = "get"]
                                       ELSE NextCandidate(@)]
        /\ admitted' = [admitted EXCEPT ![k] =
                          IF a.next.state # "half_open" THEN 0
                          ELSE IF health[k].state = "open" THEN 1
                          ELSE IF a.ok THEN @ + 1 ELSE @]
        /\ UNCHANGED <<registered, pruning, lost>>

\* Look the admitted target up; a missing one is skipped, and the breaker
\* hears nothing of the admission.
Get(p) ==
    /\ call[p].pc = "get"
    /\ call' = [call EXCEPT ![p] =
                  IF Current(p) \in registered
                  THEN Attempt(@) ELSE NextCandidate(@)]
    /\ lost' = IF Current(p) \notin registered /\ health[Current(p)].state = "half_open"
               THEN lost \cup {Current(p)} ELSE lost
    /\ UNCHANGED <<registered, pruning, health, admitted>>

Succeed(p) ==
    /\ call[p].pc = "run"
    /\ health' = [health EXCEPT ![Current(p)] = onSuccess(@)]
    /\ call' = [call EXCEPT ![p] = Idle]
    /\ admitted' = [admitted EXCEPT ![Current(p)] = 0]
    /\ lost' = lost \ {Current(p)}
    /\ UNCHANGED <<registered, pruning>>

\* The function failed.  The call ends when the error is not retryable, when
\* it was a write that may not be retried, or when its context is cancelled
\* during the backoff; else it goes on to the next candidate.
Fail(p, transient, retryable, cancelled) ==
    /\ call[p].pc = "run"
    /\ health' = [health EXCEPT ![Current(p)] = onFailure(@, transient)]
    /\ call' = [call EXCEPT ![p] =
                  IF ~retryable \/ (call[p].isWrite /\ ~AllowWriteRetry) \/ cancelled
                  THEN Idle
                  ELSE NextCandidate(@)]
    /\ admitted' = [admitted EXCEPT ![Current(p)] =
                      IF health'[Current(p)].state = "half_open" THEN @ ELSE 0]
    /\ lost' = lost \ {Current(p)}
    /\ UNCHANGED <<registered, pruning>>

(***************************************************************************)
(* The rest of the service.                                                *)
(***************************************************************************)
\* The watcher applies a configuration, then prunes the health entries.
Reload(ks) ==
    /\ ~pruning.on
    /\ registered' = ks
    /\ pruning' = [on |-> TRUE, keep |-> ks]
    /\ UNCHANGED <<health, call, admitted, lost>>

prune ==
    /\ pruning.on
    /\ health' = [k \in Keys |-> IF k \in pruning.keep THEN health[k] ELSE targetHealth]
    /\ admitted' = [k \in Keys |-> IF k \in pruning.keep THEN admitted[k] ELSE 0]
    /\ lost' = lost \cap pruning.keep
    /\ pruning' = NotPruning
    /\ UNCHANGED <<registered, call>>

\* Register or Unregister, called outside the watcher.
Change(k) ==
    /\ registered' = IF k \in registered THEN registered \ {k} ELSE registered \cup {k}
    /\ UNCHANGED <<pruning, health, call, admitted, lost>>

\* Time passes.
Tick ==
    /\ \E k \in Keys : health[k].openFor > 0
    /\ health' = [k \in Keys |->
                    [health[k] EXCEPT !.openFor = IF @ > 0 THEN @ - 1 ELSE 0]]
    /\ UNCHANGED <<registered, pruning, call, admitted, lost>>

Next ==
    \/ \E p \in Procs :
         \/ Start(p) \/ GiveUp(p) \/ Check(p) \/ Get(p) \/ Succeed(p)
         \/ \E o \in Outcomes, cancelled \in BOOLEAN : Fail(p, o[1], o[2], cancelled)
    \/ \E ks \in Configs : Reload(ks)
    \/ prune
    \/ \E k \in Keys : Change(k)
    \/ Tick

Spec == Init /\ [][Next]_vars

-----------------------------------------------------------------------------
\* Goroutines that hold an admission to k whose outcome is not reported yet.
Pending(k) == {p \in Procs : call[p].pc \in {"get", "run"} /\ Current(p) = k}

\* A half-open breaker lets through one more call than HalfOpenProbe says,
\* never more: the admissions since it opened up and the probes it has left
\* add up, however calls, late outcomes and prunes interleave.
ProbeBudget ==
    \A k \in Keys : health[k].state = "half_open"
                    => admitted[k] + health[k].halfProbe = Probes + 1

\* Failover never runs the function of one call twice on the same target, and
\* a write that may not be retried is attempted on one target only.
NoRepeatedTarget ==
    \A p \in Procs :
        /\ IsInjective(call[p].ordered)
        /\ call[p].isWrite /\ ~AllowWriteRetry /\ call[p].attempts > 0
           => call[p].pc = "run" /\ call[p].attempts = 1

\* A breaker leaves "open" before its time is up only because an admitted call
\* reported a success, or because its target left the configuration.
OpenHolds ==
    [][\A k \in Keys :
         health[k].state = "open" /\ health'[k].state # "open"
         => \/ health[k].openFor = 0
            \/ \E p \in Pending(k) : call[p].pc = "run" /\ Succeed(p)
            \/ prune /\ k \notin pruning.keep]_vars

\* "after open duration, primary is probed again" (failover_test.go:96): a
\* half-open breaker without a probe left waits for a call it admitted.  Only a
\* call that was admitted and then did not find its target leaves it closed to
\* everyone with nobody to settle it: RunWithTarget reports nothing for a target
\* that Get misses (failover.go:264).
ProbedAgain ==
    \A k \in Keys :
        health[k].state = "half_open" /\ health[k].halfProbe = 0
        => Pending(k) # {} \/ k \in lost
=============================================================================
