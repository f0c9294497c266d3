--------------------------- MODULE CircuitBreaker ---------------------------
(***************************************************************************)
(* One upstream route and the attempts that concurrent resolutions make    *)
(* against it (src/upstream/scheduler.rs `rank_inner`, `attempt`, and the  *)
(* `record` that follows an attempt's end).                                *)
(*                                                                         *)
(* The health lock is taken four times per attempt, never across: to rank  *)
(* (tick and is_usable), to reserve a half-open slot, to release it when   *)
(* the attempt's future ends or is dropped, and to record the outcome.     *)
(* Between ranking and reserving the attempt waits for its hedge delay and *)
(* its exchange permit; the slot is released before the outcome is         *)
(* recorded.                                                               *)
(***************************************************************************)
EXTENDS RouteHealth, FiniteSets

CONSTANT Attempts

ASSUME AttemptsAssumption == IsFiniteSet(Attempts)

VARIABLES
    health,     \* the route's RouteHealth
    pc,         \* pc[a]: how far attempt a has got
    slot,       \* slot[a]: whether a's HalfOpenSlot guard holds a reservation
    outcome     \* outcome[a]: the outcome of a finished attempt

breakerVars == <<health, pc, slot, outcome>>

AttemptState == {"idle", "ranked", "sending", "finished"}

BreakerInit ==
    /\ health = NewHealth
    /\ pc = [a \in Attempts |-> "idle"]
    /\ slot = [a \in Attempts |-> FALSE]
    /\ outcome = [a \in Attempts |-> "Success"]

\* The reservations that guards hold now.
Holders == {a \in Attempts : slot[a]}

-----------------------------------------------------------------------------
\* A resolution ranks the group: the circuit is ticked, and the route is offered when it
\* is usable, or as a last resort when no route of the group is.
Rank(a, elapsed, lastResort) ==
    LET h == Tick(health, elapsed) IN
    /\ pc[a] = "idle"
    /\ health' = h
    /\ pc' = [pc EXCEPT ![a] = IF is_usable(h) \/ lastResort THEN "ranked" ELSE "idle"]
    /\ UNCHANGED <<slot, outcome>>

\* The attempt has its permit and starts the exchange, reserving a slot if half-open.
Begin(a) ==
    /\ pc[a] = "ranked"
    /\ slot' = [slot EXCEPT ![a] = TakesSlot(health)]
    /\ health' = BeginAttempt(health)
    /\ pc' = [pc EXCEPT ![a] = "sending"]
    /\ UNCHANGED outcome

\* The route was ranked but not used, or the attempt was shed before anything was sent.
Shed(a) ==
    /\ pc[a] = "ranked"
    /\ pc' = [pc EXCEPT ![a] = "idle"]
    /\ UNCHANGED <<health, slot, outcome>>

\* Mutant: only a recorded attempt gives its reservation back.
DropSlotIfFinished(a) ==
    /\ health' = IF slot[a] /\ pc'[a] = "finished" THEN ReleaseAttempt(health) ELSE health
    /\ slot' = [slot EXCEPT ![a] = FALSE]

\* The guard's drop: exactly what was reserved is released.
DropSlot(a) ==
    /\ health' = IF slot[a] THEN ReleaseAttempt(health) ELSE health
    /\ slot' = [slot EXCEPT ![a] = FALSE]

\* The exchange ended; the future returns, dropping the guard, with an outcome.
Finish(a, o) ==
    /\ pc[a] = "sending"
    /\ pc' = [pc EXCEPT ![a] = "finished"]
    /\ outcome' = [outcome EXCEPT ![a] = o]
    /\ DropSlot(a)

\* The future is dropped in mid-exchange: a losing hedge, or the deadline.
Cancel(a) ==
    /\ pc[a] = "sending"
    /\ pc' = [pc EXCEPT ![a] = "idle"]
    /\ DropSlot(a)
    /\ UNCHANGED outcome

\* The resolution records the outcome it was handed.
RecordOutcome(a) ==
    /\ pc[a] = "finished"
    /\ health' = Record(health, outcome[a])
    /\ pc' = [pc EXCEPT ![a] = "idle"]
    /\ UNCHANGED <<slot, outcome>>

BreakerNext ==
    \E a \in Attempts :
        \/ \E elapsed, lastResort \in BOOLEAN : Rank(a, elapsed, lastResort)
        \/ Begin(a)
        \/ Shed(a)
        \/ \E o \in AttemptOutcome : Finish(a, o)
        \/ Cancel(a)
        \/ RecordOutcome(a)

\* The open period of a circuit ends and queries keep arriving, though none need find the
\* route its group's last resort; an attempt's exchange is bounded by its timeout, and its
\* outcome is recorded in the same poll.
Arrive == \E a \in Attempts : Rank(a, TRUE, FALSE)
AttemptFairness ==
    \A a \in Attempts :
        /\ WF_breakerVars(Begin(a) \/ Shed(a))
        /\ WF_breakerVars((\E o \in AttemptOutcome : Finish(a, o)) \/ Cancel(a))
        /\ WF_breakerVars(RecordOutcome(a))
BreakerFairness == WF_breakerVars(Arrive) /\ AttemptFairness

BreakerSpec == BreakerInit /\ [][BreakerNext]_breakerVars

BreakerFairSpec == BreakerSpec /\ BreakerFairness

-----------------------------------------------------------------------------
BreakerTypeOK ==
    /\ health \in HealthType
    /\ pc \in [Attempts -> AttemptState]
    /\ slot \in [Attempts -> BOOLEAN]
    /\ outcome \in [Attempts -> AttemptOutcome]

\* Only an exchange in progress holds a reservation.
HoldersAreSending == \A a \in Attempts : slot[a] => pc[a] = "sending"

\* Every counted half-open slot belongs to an exchange in progress: none is leaked by a
\* cancelled attempt, so once the exchanges end a half-open route is usable again.
NoLeakedSlot == health.half_open_inflight <= Cardinality(Holders)

\* A circuit in service has a streak below the threshold, and shows it: Closed exactly
\* when the last outcome was not a failure.
StreakMatchesCircuit ==
    /\ health.circuit = "Closed" => health.consecutive_failures = 0
    /\ health.circuit = "Suspect" =>
        /\ health.consecutive_failures > 0
        /\ health.consecutive_failures < circuit_failure_threshold

\* What a step may do to a circuit that is not in service.
RecoveryStep ==
    /\ health.circuit = "Open" => health'.circuit \in {"Open", "HalfOpen"}
    /\ health.circuit = "HalfOpen" /\ health'.circuit # "HalfOpen" =>
         \/ health'.circuit = "Open"
         \/ /\ health'.circuit = "Closed"
            /\ health.half_open_successes + 1 >= circuit_half_open_successes

\* An Open circuit is left only for HalfOpen, and a HalfOpen one closes only on the
\* configured number of successes: no single late answer puts a route back in service.
RecoversInOrder == [][RecoveryStep]_breakerVars

\* A withdrawn route is always offered again, as usable or as a last resort: "a recovering
\* upstream would never be allowed to recover" is what the slot guard exists to rule out.
RouteComesBack == []<>(is_usable(health) \/ \E a \in Attempts : pc[a] = "ranked")

\* "only one half-open probe at a time".
OneHalfOpenProbe == health.circuit = "HalfOpen" => Cardinality(Holders) <= 1
=============================================================================
