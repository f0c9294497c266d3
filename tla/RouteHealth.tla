----------------------------- MODULE RouteHealth -----------------------------
(***************************************************************************)
(* The circuit-breaking part of src/upstream/health.rs: what each method   *)
(* of RouteHealth does to the circuit.  A health value h is a record; the  *)
(* latency statistics, which only order routes, are left to the order the  *)
(* scheduler's ranking chooses.  Every method runs under the route's       *)
(* health lock, so each is one function of h.                              *)
(***************************************************************************)
EXTENDS Naturals

CONSTANTS
    circuit_failure_threshold,      \* consecutive failures that open the circuit
    circuit_half_open_successes,    \* successes that close a half-open circuit
    CounterMax                      \* the u32 counters saturate here

ASSUME ThresholdAssumption == circuit_failure_threshold \in Nat \ {0}
ASSUME SuccessesAssumption == circuit_half_open_successes \in Nat \ {0}
ASSUME CounterAssumption ==
    /\ CounterMax \in Nat
    /\ CounterMax >= circuit_failure_threshold
    /\ CounterMax >= circuit_half_open_successes

CircuitState == {"Closed", "Suspect", "Open", "HalfOpen"}

\* Timeout, ServerFailure, Malformed and TransportError move the circuit alike.
AttemptOutcome == {"Success", "Failure"}

Counter == 0..CounterMax

HealthType ==
    [circuit : CircuitState,
     consecutive_failures : Counter,
     half_open_successes : Counter,
     half_open_inflight : Counter]

NewHealth ==
    [circuit |-> "Closed", consecutive_failures |-> 0,
     half_open_successes |-> 0, half_open_inflight |-> 0]

saturating_add_one(n) == IF n < CounterMax THEN n + 1 ELSE n
saturating_sub_one(n) == IF n > 0 THEN n - 1 ELSE n

-----------------------------------------------------------------------------
\* update_circuit while Closed or Suspect, the streak already counted.
UpdateInService(h, outcome) ==
    IF outcome = "Success" THEN [h EXCEPT !.circuit = "Closed"]
    ELSE IF h.consecutive_failures >= circuit_failure_threshold
    THEN [h EXCEPT !.circuit = "Open", !.half_open_successes = 0, !.half_open_inflight = 0]
    ELSE [h EXCEPT !.circuit = "Suspect"]

\* update_circuit while HalfOpen: the reservation is left to the attempt's guard.
UpdateHalfOpen(h, outcome) ==
    LET n == saturating_add_one(h.half_open_successes) IN
    IF outcome # "Success" THEN [h EXCEPT !.circuit = "Open", !.half_open_successes = 0]
    ELSE IF n >= circuit_half_open_successes
    THEN [h EXCEPT !.circuit = "Closed", !.half_open_successes = n,
                   !.consecutive_failures = 0]
    ELSE [h EXCEPT !.half_open_successes = n]

\* `record`: count the streak, then move the circuit.  An Open circuit stays Open.
Record(h, outcome) ==
    LET streak == IF outcome = "Success" THEN 0
                  ELSE saturating_add_one(h.consecutive_failures)
        g == [h EXCEPT !.consecutive_failures = streak] IN
    CASE g.circuit \in {"Closed", "Suspect"} -> UpdateInService(g, outcome)
      [] g.circuit = "Open" -> g
      [] g.circuit = "HalfOpen" -> UpdateHalfOpen(g, outcome)

\* Mutant: the open period never ends.
TickNever(h, elapsed) == h

\* `tick`; elapsed says whether the jittered open period has passed.
Tick(h, elapsed) ==
    IF h.circuit = "Open" /\ elapsed
    THEN [h EXCEPT !.circuit = "HalfOpen", !.half_open_successes = 0,
                   !.half_open_inflight = 0]
    ELSE h

is_usable(h) ==
    \/ h.circuit \in {"Closed", "Suspect"}
    \/ h.circuit = "HalfOpen" /\ h.half_open_inflight = 0

\* `begin_attempt`: whether a half-open slot is taken, and the health after.
TakesSlot(h) == h.circuit = "HalfOpen"

BeginAttempt(h) ==
    IF TakesSlot(h)
    THEN [h EXCEPT !.half_open_inflight = saturating_add_one(h.half_open_inflight)]
    ELSE h

\* `release_attempt`.
ReleaseAttempt(h) ==
    [h EXCEPT !.half_open_inflight = saturating_sub_one(h.half_open_inflight)]
=============================================================================
