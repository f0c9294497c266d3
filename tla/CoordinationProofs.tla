------------------------ MODULE CoordinationProofs --------------------------
(***************************************************************************)
(* Proofs about the mechanisms that concurrent requests share: the circuit *)
(* of a route, the single flight of a key, the validation of an answer in  *)
(* the background, the listeners' connections and the rate limiter.        *)
(***************************************************************************)
EXTENDS SingleFlight, CircuitBreaker, BackgroundValidation, Ingress, RateLimiter, FiniteSetTheorems,
        TLAPS

-----------------------------------------------------------------------------
(***************************************************************************)
(* Proofs about CircuitBreaker, for any set of attempts and any threshold, *)
(* success count and counter width that satisfy the assumptions.           *)
(*                                                                         *)
(* The inductive invariant is BreakerInv.  NoLeakedSlot is not inductive   *)
(* alone: that a reservation adds a holder needs HoldersAreSending (an     *)
(* attempt about to begin holds none yet), and the count needs finitely    *)
(* many attempts.                                                          *)
(***************************************************************************)

BreakerInv == BreakerTypeOK /\ HoldersAreSending /\ NoLeakedSlot /\ StreakMatchesCircuit

\* The counters of a health record stay counters when they saturate.
LEMMA Saturation ==
    ASSUME NEW n \in Counter
    PROVE  /\ saturating_add_one(n) \in Counter /\ saturating_sub_one(n) \in Counter
           /\ saturating_add_one(n) <= n + 1 /\ saturating_add_one(n) >= n
           /\ saturating_sub_one(n) <= n /\ (n > 0 => saturating_sub_one(n) = n - 1)
BY CounterAssumption DEF Counter, saturating_add_one, saturating_sub_one

\* A failure leaves a streak of at least one.
LEMMA StreakGrows ==
    ASSUME NEW n \in Counter
    PROVE  saturating_add_one(n) > 0
BY CounterAssumption, ThresholdAssumption DEF Counter, saturating_add_one

\* `record` returns a well-formed record whose streak matches its circuit, never raises the
\* slot count, and leaves Open or HalfOpen only the way the breaker allows.
LEMMA RecordFacts ==
    ASSUME NEW h \in HealthType, NEW o \in AttemptOutcome
    PROVE  /\ Record(h, o) \in HealthType
           /\ Record(h, o).half_open_inflight <= h.half_open_inflight
           /\ Record(h, o).circuit = "Closed" => Record(h, o).consecutive_failures = 0
           /\ Record(h, o).circuit = "Suspect" =>
                /\ Record(h, o).consecutive_failures > 0
                /\ Record(h, o).consecutive_failures < circuit_failure_threshold
           /\ h.circuit = "Open" => Record(h, o).circuit = "Open"
           /\ h.circuit = "HalfOpen" /\ Record(h, o).circuit # "HalfOpen" =>
                \/ Record(h, o).circuit = "Open"
                \/ /\ Record(h, o).circuit = "Closed"
                   /\ h.half_open_successes + 1 >= circuit_half_open_successes
<1> DEFINE streak == IF o = "Success" THEN 0 ELSE saturating_add_one(h.consecutive_failures)
           g == [h EXCEPT !.consecutive_failures = streak]
           n == saturating_add_one(h.half_open_successes)
<1>1. streak \in Counter /\ (o # "Success" => streak > 0) /\ (o = "Success" => streak = 0)
  BY Saturation, StreakGrows, CounterAssumption DEF HealthType, Counter
<1>2. n \in Counter /\ n <= h.half_open_successes + 1
  BY Saturation DEF HealthType
<1>3. g \in HealthType /\ g.circuit = h.circuit /\ g.consecutive_failures = streak
      /\ g.half_open_successes = h.half_open_successes
      /\ g.half_open_inflight = h.half_open_inflight
  BY <1>1 DEF HealthType
<1>4. 0 \in Counter /\ h.half_open_inflight \in Counter
      /\ h.half_open_successes \in Counter /\ h.circuit \in CircuitState
  BY CounterAssumption DEF Counter, HealthType
<1> HIDE DEF streak, g, n
<1>5. CASE h.circuit \in {"Closed", "Suspect"}
  <2>1. Record(h, o) = UpdateInService(g, o)
    BY <1>3, <1>5 DEF Record, g, streak
  <2>2. CASE o = "Success"
    BY <2>1, <2>2, <1>1, <1>3, <1>4, <1>5 DEF UpdateInService, HealthType, CircuitState, Counter
  <2>3. CASE o # "Success" /\ streak >= circuit_failure_threshold
    <3>1. Record(h, o) = [circuit |-> "Open", consecutive_failures |-> streak,
                          half_open_successes |-> 0, half_open_inflight |-> 0]
      BY <2>1, <2>3, <1>3, Zenon DEF UpdateInService, HealthType
    <3> QED
      BY <3>1, <1>1, <1>4, <1>5 DEF HealthType, CircuitState, Counter
  <2>4. CASE o # "Success" /\ ~(streak >= circuit_failure_threshold)
    <3>1. Record(h, o) = [g EXCEPT !.circuit = "Suspect"]
      BY <2>1, <2>4, <1>3 DEF UpdateInService
    <3>2. streak > 0 /\ streak < circuit_failure_threshold
      BY <2>4, <1>1, ThresholdAssumption DEF Counter
    <3> QED
      BY <3>1, <3>2, <1>3, <1>4, <1>5 DEF HealthType, CircuitState, Counter
  <2> QED
    BY <2>2, <2>3, <2>4
<1>6. CASE h.circuit = "Open"
  <2>1. Record(h, o) = g
    BY <1>3, <1>6 DEF Record, g, streak
  <2> QED
    BY <2>1, <1>3, <1>4, <1>6 DEF Counter
<1>7. CASE h.circuit = "HalfOpen"
  <2>1. Record(h, o) = UpdateHalfOpen(g, o)
    BY <1>3, <1>7 DEF Record, g, streak
  <2>2. CASE o # "Success"
    <3>1. Record(h, o) = [circuit |-> "Open", consecutive_failures |-> streak,
                          half_open_successes |-> 0,
                          half_open_inflight |-> h.half_open_inflight]
      BY <2>1, <2>2, <1>3, Zenon DEF UpdateHalfOpen, HealthType
    <3> QED
      BY <3>1, <1>1, <1>4, <1>7 DEF HealthType, CircuitState, Counter
  <2>3. CASE o = "Success" /\ n >= circuit_half_open_successes
    <3>1. Record(h, o) = [circuit |-> "Closed", consecutive_failures |-> 0,
                          half_open_successes |-> n,
                          half_open_inflight |-> h.half_open_inflight]
      BY <2>1, <2>3, <1>3, Zenon DEF UpdateHalfOpen, n, HealthType
    <3>2. h.half_open_successes + 1 >= circuit_half_open_successes
      BY <2>3, <1>2, <1>4, SuccessesAssumption DEF Counter
    <3> QED
      BY <3>1, <3>2, <1>2, <1>4, <1>7 DEF HealthType, CircuitState, Counter
  <2>4. CASE o = "Success" /\ ~(n >= circuit_half_open_successes)
    <3>1. Record(h, o) = [g EXCEPT !.half_open_successes = n]
      BY <2>1, <2>4, <1>3 DEF UpdateHalfOpen, n
    <3> QED
      BY <3>1, <1>2, <1>3, <1>4, <1>7 DEF HealthType, CircuitState, Counter
  <2> QED
    BY <2>2, <2>3, <2>4
<1> QED
  BY <1>4, <1>5, <1>6, <1>7 DEF CircuitState

\* `tick` only ever turns Open into HalfOpen, and resets the slot count when it does.
LEMMA TickFacts ==
    ASSUME NEW h \in HealthType, NEW elapsed \in BOOLEAN
    PROVE  /\ Tick(h, elapsed) \in HealthType
           /\ Tick(h, elapsed).half_open_inflight <= h.half_open_inflight
           /\ \/ Tick(h, elapsed) = h
              \/ h.circuit = "Open" /\ Tick(h, elapsed).circuit = "HalfOpen"
<1>1. CASE h.circuit = "Open" /\ elapsed
  <2>1. Tick(h, elapsed) = [circuit |-> "HalfOpen",
                            consecutive_failures |-> h.consecutive_failures,
                            half_open_successes |-> 0, half_open_inflight |-> 0]
    BY <1>1, Zenon DEF Tick, HealthType
  <2> QED
    BY <2>1, <1>1, CounterAssumption DEF HealthType, CircuitState, Counter
<1>2. CASE ~(h.circuit = "Open" /\ elapsed)
  <2>1. Tick(h, elapsed) = h
    BY <1>2 DEF Tick
  <2> QED
    BY <2>1, CounterAssumption DEF HealthType, Counter
<1> QED
  BY <1>1, <1>2

\* `begin_attempt` counts at most the one slot it takes, and moves no circuit.
LEMMA BeginFacts ==
    ASSUME NEW h \in HealthType
    PROVE  /\ BeginAttempt(h) \in HealthType
           /\ BeginAttempt(h).circuit = h.circuit
           /\ BeginAttempt(h).consecutive_failures = h.consecutive_failures
           /\ TakesSlot(h) => BeginAttempt(h).half_open_inflight <= h.half_open_inflight + 1
           /\ ~TakesSlot(h) => BeginAttempt(h) = h
BY Saturation DEF BeginAttempt, HealthType

\* `release_attempt` takes one slot off the count, if any is counted, and moves no circuit.
LEMMA ReleaseFacts ==
    ASSUME NEW h \in HealthType
    PROVE  /\ ReleaseAttempt(h) \in HealthType
           /\ ReleaseAttempt(h).circuit = h.circuit
           /\ ReleaseAttempt(h).consecutive_failures = h.consecutive_failures
           /\ ReleaseAttempt(h).half_open_inflight <= h.half_open_inflight
           /\ h.half_open_inflight > 0 =>
                ReleaseAttempt(h).half_open_inflight = h.half_open_inflight - 1
BY Saturation DEF ReleaseAttempt, HealthType

-----------------------------------------------------------------------------
\* Every step of an attempt keeps the types.
LEMMA BreakerTypeStep == BreakerTypeOK /\ [BreakerNext]_breakerVars => BreakerTypeOK'
<1> SUFFICES ASSUME BreakerTypeOK, [BreakerNext]_breakerVars PROVE BreakerTypeOK'
  OBVIOUS
<1> USE DEF BreakerTypeOK, AttemptState
<1>1. ASSUME NEW a \in Attempts, NEW e \in BOOLEAN, NEW l \in BOOLEAN, Rank(a, e, l)
      PROVE  BreakerTypeOK'
  <2>1. health' \in HealthType
    BY <1>1, TickFacts DEF Rank
  <2> QED
    BY <2>1, <1>1 DEF Rank
<1>2. ASSUME NEW a \in Attempts, Begin(a) PROVE BreakerTypeOK'
  <2>1. health' \in HealthType
    BY <1>2, BeginFacts DEF Begin
  <2>2. slot' \in [Attempts -> BOOLEAN]
    BY <1>2 DEF Begin, TakesSlot
  <2> QED
    BY <2>1, <2>2, <1>2 DEF Begin
<1>3. ASSUME NEW a \in Attempts, Shed(a) PROVE BreakerTypeOK'
  BY <1>3 DEF Shed
<1>4. ASSUME NEW a \in Attempts, DropSlot(a)
      PROVE  health' \in HealthType /\ slot' \in [Attempts -> BOOLEAN]
  BY <1>4, ReleaseFacts DEF DropSlot
<1>5. ASSUME NEW a \in Attempts, NEW o \in AttemptOutcome, Finish(a, o) PROVE BreakerTypeOK'
  BY <1>4, <1>5 DEF Finish
<1>6. ASSUME NEW a \in Attempts, Cancel(a) PROVE BreakerTypeOK'
  BY <1>4, <1>6 DEF Cancel
<1>7. ASSUME NEW a \in Attempts, RecordOutcome(a) PROVE BreakerTypeOK'
  <2>1. health' \in HealthType
    BY <1>7, RecordFacts DEF RecordOutcome
  <2> QED
    BY <2>1, <1>7 DEF RecordOutcome
<1>8. CASE UNCHANGED breakerVars
  BY <1>8 DEF breakerVars
<1> QED
  BY <1>1, <1>2, <1>3, <1>5, <1>6, <1>7, <1>8 DEF BreakerNext

\* A reservation is taken on the way into an exchange and given back on the way out.
LEMMA HoldersStep == BreakerTypeOK /\ HoldersAreSending /\ [BreakerNext]_breakerVars => HoldersAreSending'
<1> SUFFICES ASSUME BreakerTypeOK, HoldersAreSending, [BreakerNext]_breakerVars PROVE HoldersAreSending'
  OBVIOUS
<1> USE DEF BreakerTypeOK, HoldersAreSending
<1>1. ASSUME NEW a \in Attempts, NEW e \in BOOLEAN, NEW l \in BOOLEAN, Rank(a, e, l)
      PROVE  HoldersAreSending'
  BY <1>1 DEF Rank
<1>2. ASSUME NEW a \in Attempts, Begin(a) PROVE HoldersAreSending'
  BY <1>2 DEF Begin
<1>3. ASSUME NEW a \in Attempts, Shed(a) PROVE HoldersAreSending'
  BY <1>3 DEF Shed
<1>4. ASSUME NEW a \in Attempts, NEW o \in AttemptOutcome, Finish(a, o)
      PROVE  HoldersAreSending'
  BY <1>4 DEF Finish, DropSlot
<1>5. ASSUME NEW a \in Attempts, Cancel(a) PROVE HoldersAreSending'
  BY <1>5 DEF Cancel, DropSlot
<1>6. ASSUME NEW a \in Attempts, RecordOutcome(a) PROVE HoldersAreSending'
  BY <1>6 DEF RecordOutcome
<1>7. CASE UNCHANGED breakerVars
  BY <1>7 DEF breakerVars
<1> QED
  BY <1>1, <1>2, <1>3, <1>4, <1>5, <1>6, <1>7 DEF BreakerNext

\* A reservation adds a holder with its slot and a release removes both; a circuit that opens
\* or ticks resets the count alone, which only lowers it.
LEMMA LeakStep == BreakerTypeOK /\ HoldersAreSending /\ NoLeakedSlot /\ [BreakerNext]_breakerVars => NoLeakedSlot'
<1> SUFFICES ASSUME BreakerTypeOK, HoldersAreSending, NoLeakedSlot, [BreakerNext]_breakerVars PROVE NoLeakedSlot'
  OBVIOUS
<1>a. IsFiniteSet(Holders) /\ Cardinality(Holders) \in Nat
  BY AttemptsAssumption, FS_Subset, FS_CardinalityType DEF Holders
<1>b. health.half_open_inflight \in Nat /\ health'.half_open_inflight \in Nat
  BY BreakerTypeStep, CounterAssumption DEF BreakerTypeOK, HealthType, Counter
<1>c. ASSUME slot' = slot, health'.half_open_inflight <= health.half_open_inflight
      PROVE  NoLeakedSlot'
  BY <1>a, <1>b, <1>c DEF NoLeakedSlot, Holders
<1>1. ASSUME NEW a \in Attempts, NEW e \in BOOLEAN, NEW l \in BOOLEAN, Rank(a, e, l)
      PROVE  NoLeakedSlot'
  BY <1>1, <1>c, TickFacts, Zenon DEF Rank, BreakerTypeOK
<1>2. ASSUME NEW a \in Attempts, Begin(a) PROVE NoLeakedSlot'
  <2>1. a \notin Holders
    BY <1>2 DEF Begin, Holders, HoldersAreSending
  <2>2. CASE TakesSlot(health)
    <3>1. Holders' = Holders \union {a}
      BY <1>2, <2>2 DEF Begin, Holders, BreakerTypeOK
    <3>2. Cardinality(Holders') = Cardinality(Holders) + 1
      BY <1>a, <2>1, <3>1, FS_AddElement, ZenonT(30)
    <3>3. health'.half_open_inflight <= health.half_open_inflight + 1
      BY <1>2, <2>2, BeginFacts DEF Begin, BreakerTypeOK
    <3> QED
      BY <1>a, <1>b, <3>2, <3>3 DEF NoLeakedSlot
  <2>3. CASE ~TakesSlot(health)
    <3>1. Holders' = Holders
      BY <1>2, <2>1, <2>3 DEF Begin, Holders, BreakerTypeOK
    <3>2. health' = health
      BY <1>2, <2>3, BeginFacts DEF Begin, BreakerTypeOK
    <3> QED
      BY <3>1, <3>2 DEF NoLeakedSlot
  <2> QED
    BY <2>2, <2>3
<1>3. ASSUME NEW a \in Attempts, Shed(a) PROVE NoLeakedSlot'
  BY <1>3, <1>b, <1>c DEF Shed
<1>4. ASSUME NEW a \in Attempts, DropSlot(a) PROVE NoLeakedSlot'
  <2>1. CASE slot[a]
    <3>1. Holders' = Holders \ {a} /\ a \in Holders
      BY <1>4, <2>1 DEF DropSlot, Holders, BreakerTypeOK
    <3>2. Cardinality(Holders') = Cardinality(Holders) - 1
      BY <1>a, <3>1, FS_RemoveElement, ZenonT(30)
    <3>3. Cardinality(Holders) > 0
      BY <1>a, <3>1, FS_EmptySet
    <3>4. /\ health'.half_open_inflight <= health.half_open_inflight
          /\ health.half_open_inflight > 0 =>
                health'.half_open_inflight = health.half_open_inflight - 1
      BY <1>4, <2>1, ReleaseFacts DEF DropSlot, BreakerTypeOK
    <3> QED
      BY <1>a, <1>b, <3>2, <3>3, <3>4 DEF NoLeakedSlot
  <2>2. CASE ~slot[a]
    <3>1. Holders' = Holders
      BY <1>4, <2>2 DEF DropSlot, Holders, BreakerTypeOK
    <3> QED
      BY <1>4, <2>2, <3>1 DEF DropSlot, NoLeakedSlot
  <2> QED
    BY <2>1, <2>2
<1>5. ASSUME NEW a \in Attempts, RecordOutcome(a) PROVE NoLeakedSlot'
  <2>1. outcome[a] \in AttemptOutcome
    BY DEF BreakerTypeOK
  <2> QED
    BY <1>5, <1>c, <2>1, RecordFacts DEF RecordOutcome, BreakerTypeOK
<1>6. CASE UNCHANGED breakerVars
  BY <1>6, <1>b, <1>c DEF breakerVars
<1> QED
  BY <1>1, <1>2, <1>3, <1>4, <1>5, <1>6 DEF BreakerNext, Finish, Cancel

\* Only `record` touches the streak, and it moves the circuit with it.
LEMMA StreakStep == BreakerTypeOK /\ StreakMatchesCircuit /\ [BreakerNext]_breakerVars => StreakMatchesCircuit'
<1> SUFFICES ASSUME BreakerTypeOK, StreakMatchesCircuit, [BreakerNext]_breakerVars PROVE StreakMatchesCircuit'
  OBVIOUS
<1>a. ASSUME health'.circuit = health.circuit,
             health'.consecutive_failures = health.consecutive_failures
      PROVE  StreakMatchesCircuit'
  BY <1>a DEF StreakMatchesCircuit
<1>1. ASSUME NEW a \in Attempts, NEW e \in BOOLEAN, NEW l \in BOOLEAN, Rank(a, e, l)
      PROVE  StreakMatchesCircuit'
  BY <1>1, TickFacts, Zenon DEF Rank, BreakerTypeOK, StreakMatchesCircuit
<1>2. ASSUME NEW a \in Attempts, Begin(a) PROVE StreakMatchesCircuit'
  BY <1>2, <1>a, BeginFacts DEF Begin, BreakerTypeOK
<1>3. ASSUME NEW a \in Attempts, DropSlot(a) PROVE StreakMatchesCircuit'
  BY <1>3, <1>a, ReleaseFacts DEF DropSlot, BreakerTypeOK
<1>4. ASSUME NEW a \in Attempts, RecordOutcome(a) PROVE StreakMatchesCircuit'
  <2>1. outcome[a] \in AttemptOutcome
    BY DEF BreakerTypeOK
  <2> QED
    BY <1>4, <2>1, RecordFacts DEF RecordOutcome, BreakerTypeOK, StreakMatchesCircuit
<1>5. ASSUME UNCHANGED health PROVE StreakMatchesCircuit'
  BY <1>5, <1>a
<1> QED
  BY <1>1, <1>2, <1>3, <1>4, <1>5 DEF BreakerNext, Shed, Finish, Cancel, breakerVars

\* A new route is Closed with nothing counted and nothing in flight.
LEMMA BreakerStarts == BreakerInit => BreakerInv
<1> SUFFICES ASSUME BreakerInit PROVE BreakerInv
  OBVIOUS
<1>1. BreakerTypeOK
  BY CounterAssumption
     DEF BreakerInit, BreakerTypeOK, NewHealth, HealthType, Counter, CircuitState, AttemptState, AttemptOutcome
<1>2. HoldersAreSending /\ StreakMatchesCircuit
  BY DEF BreakerInit, HoldersAreSending, StreakMatchesCircuit, NewHealth
<1>3. NoLeakedSlot
  <2>1. Holders = {}
    BY DEF BreakerInit, Holders
  <2> QED
    BY <2>1, FS_EmptySet DEF BreakerInit, NewHealth, NoLeakedSlot
<1> QED
  BY <1>1, <1>2, <1>3 DEF BreakerInv

\* The inductive invariant of the breaker holds throughout.
THEOREM BreakerInvariance == BreakerSpec => []BreakerInv
<1>1. BreakerInv /\ [BreakerNext]_breakerVars => BreakerInv'
  BY BreakerTypeStep, HoldersStep, LeakStep, StreakStep DEF BreakerInv
<1> QED
  BY BreakerStarts, <1>1, PTL DEF BreakerSpec

\* No half-open slot is leaked, however attempts are cancelled, shed or late: the slots counted
\* on a route never outnumber the exchanges that hold one.
THEOREM NothingLeaks == BreakerSpec => []NoLeakedSlot
<1>1. BreakerInv => NoLeakedSlot
  BY DEF BreakerInv
<1> QED
  BY BreakerInvariance, <1>1, PTL

\* A reservation is held by an exchange in progress only: no attempt ends with its slot.
THEOREM HoldersSend == BreakerSpec => []HoldersAreSending
<1>1. BreakerInv => HoldersAreSending
  BY DEF BreakerInv
<1> QED
  BY BreakerInvariance, <1>1, PTL

\* A route in service has a failure streak below the threshold, and its state shows it.
THEOREM StreakShows == BreakerSpec => []StreakMatchesCircuit
<1>1. BreakerInv => StreakMatchesCircuit
  BY DEF BreakerInv
<1> QED
  BY BreakerInvariance, <1>1, PTL

\* An Open circuit is left only for HalfOpen, and a HalfOpen one closes only on the success
\* that completes the configured number, whatever outcomes arrive late.
THEOREM RecoveryInOrder == BreakerSpec => RecoversInOrder
<1>1. BreakerInv /\ [BreakerNext]_breakerVars => [RecoveryStep]_breakerVars
  <2> SUFFICES ASSUME BreakerTypeOK, [BreakerNext]_breakerVars, ~UNCHANGED breakerVars PROVE RecoveryStep
    BY DEF BreakerInv
  <2> USE DEF RecoveryStep
  <2>1. ASSUME NEW a \in Attempts, NEW e \in BOOLEAN, NEW l \in BOOLEAN, Rank(a, e, l)
        PROVE  RecoveryStep
    BY <2>1, TickFacts DEF Rank, BreakerTypeOK
  <2>2. ASSUME NEW a \in Attempts, Begin(a) PROVE RecoveryStep
    BY <2>2, BeginFacts DEF Begin, BreakerTypeOK
  <2>3. ASSUME NEW a \in Attempts, DropSlot(a) PROVE RecoveryStep
    BY <2>3, ReleaseFacts DEF DropSlot, BreakerTypeOK
  <2>4. ASSUME NEW a \in Attempts, RecordOutcome(a) PROVE RecoveryStep
    <3>1. outcome[a] \in AttemptOutcome
      BY DEF BreakerTypeOK
    <3> QED
      BY <2>4, <3>1, RecordFacts DEF RecordOutcome, BreakerTypeOK
  <2>5. ASSUME NEW a \in Attempts, Shed(a) PROVE RecoveryStep
    BY <2>5 DEF Shed
  <2> QED
    BY <2>1, <2>2, <2>3, <2>4, <2>5 DEF BreakerNext, Finish, Cancel
<1> QED
  BY BreakerInvariance, <1>1, PTL DEF BreakerSpec, RecoversInOrder

-----------------------------------------------------------------------------
(***************************************************************************)
(* Proofs about SingleFlight, for any tasks, keys, shards and ceiling.     *)
(*                                                                         *)
(* The inductive invariant is FlightInv.  Mutual exclusion of leaders follows    *)
(* from EntryIsLeader, the agreement of the map with the handles; that     *)
(* nobody waits for a flight that is gone needs, besides it, that a        *)
(* publishing leader still has its outcome to send (NoStaleOutcome).       *)
(***************************************************************************)

FlightInv == TypeOK /\ EntryIsLeader /\ NoStaleOutcome /\ NoStrandedFollower

\* The first state has no flight, no follower and empty buffers.
LEMMA FlightStarts == Init => FlightInv
  BY TasksAssumption, ZenonT(30) DEF Init, FlightInv, TypeOK, EntryIsLeader, NoStaleOutcome, NoStrandedFollower, Roles

\* Every step of the registry keeps the types.
LEMMA FlightTypeStep == TypeOK /\ [Next]_vars => TypeOK'
<1> SUFFICES ASSUME TypeOK, [Next]_vars PROVE TypeOK'
  OBVIOUS
<1> USE DEF TypeOK, Roles
<1>1. ASSUME NEW t \in Tasks, NEW k \in Keys, JoinLeader(t, k) PROVE TypeOK'
  BY <1>1 DEF JoinLeader
<1>2. ASSUME NEW t \in Tasks, NEW k \in Keys, JoinFollower(t, k) PROVE TypeOK'
  BY <1>2 DEF JoinFollower
<1>3. ASSUME NEW t \in Tasks, NEW k \in Keys, JoinSaturated(t, k) PROVE TypeOK'
  BY <1>3 DEF JoinSaturated, vars
<1>4. ASSUME NEW t \in Tasks, NEW v \in Shared, Publish(t, v) PROVE TypeOK'
  BY <1>4 DEF Publish
<1>5. ASSUME NEW t \in Tasks, Send(t) PROVE TypeOK'
  BY <1>5 DEF Send
<1>6. ASSUME NEW t \in Tasks, Recv(t) PROVE TypeOK'
  BY <1>6 DEF Recv
<1>7. ASSUME NEW t \in Tasks, Abandon(t) PROVE TypeOK'
  BY <1>7 DEF Abandon
<1>8. CASE UNCHANGED vars
  BY <1>8 DEF vars
<1> QED
  BY <1>1, <1>2, <1>3, <1>4, <1>5, <1>6, <1>7, <1>8, ZenonT(30) DEF Next, Join

\* The map and the leader handles stay in agreement: only a task that found no entry is
\* registered, and a leader removes no entry but its own.
LEMMA EntryStep == TypeOK /\ EntryIsLeader /\ [Next]_vars => EntryIsLeader'
<1> SUFFICES ASSUME TypeOK, EntryIsLeader, [Next]_vars PROVE EntryIsLeader'
  OBVIOUS
<1> USE TasksAssumption DEF TypeOK, EntryIsLeader, Roles
<1>1. ASSUME NEW t \in Tasks, NEW k \in Keys, JoinLeader(t, k) PROVE EntryIsLeader'
  BY <1>1 DEF JoinLeader
<1>2. ASSUME NEW t \in Tasks, NEW k \in Keys, JoinFollower(t, k) PROVE EntryIsLeader'
  BY <1>2 DEF JoinFollower
<1>3. ASSUME NEW t \in Tasks, NEW k \in Keys, JoinSaturated(t, k) PROVE EntryIsLeader'
  BY <1>3 DEF JoinSaturated, vars
<1>4. ASSUME NEW t \in Tasks, NEW v \in Shared, Publish(t, v) PROVE EntryIsLeader'
  BY <1>4 DEF Publish
<1>5. ASSUME NEW t \in Tasks, Send(t) PROVE EntryIsLeader'
  BY <1>5 DEF Send
<1>6. ASSUME NEW t \in Tasks, Recv(t) PROVE EntryIsLeader'
  BY <1>6 DEF Recv
<1>7. ASSUME NEW t \in Tasks, Abandon(t) PROVE EntryIsLeader'
  BY <1>7 DEF Abandon
<1>8. CASE UNCHANGED vars
  BY <1>8 DEF vars
<1> QED
  BY <1>1, <1>2, <1>3, <1>4, <1>5, <1>6, <1>7, <1>8, Zenon DEF Next, Join

\* A buffer is filled by the publish that precedes the send and emptied by whatever makes
\* its owner idle.
LEMMA StaleStep == TypeOK /\ NoStaleOutcome /\ [Next]_vars => NoStaleOutcome'
<1> SUFFICES ASSUME TypeOK, NoStaleOutcome, [Next]_vars PROVE NoStaleOutcome'
  OBVIOUS
<1> USE DEF TypeOK, NoStaleOutcome, Roles
<1>1. ASSUME NEW t \in Tasks, NEW k \in Keys, JoinLeader(t, k) PROVE NoStaleOutcome'
  BY <1>1 DEF JoinLeader
<1>2. ASSUME NEW t \in Tasks, NEW k \in Keys, JoinFollower(t, k) PROVE NoStaleOutcome'
  BY <1>2 DEF JoinFollower
<1>3. ASSUME NEW t \in Tasks, NEW k \in Keys, JoinSaturated(t, k) PROVE NoStaleOutcome'
  BY <1>3 DEF JoinSaturated, vars
<1>4. ASSUME NEW t \in Tasks, NEW v \in Shared, Publish(t, v) PROVE NoStaleOutcome'
  BY <1>4, SharedAssumption DEF Publish
<1>5. ASSUME NEW t \in Tasks, Send(t) PROVE NoStaleOutcome'
  BY <1>5 DEF Send, Subscribed
<1>6. ASSUME NEW t \in Tasks, Recv(t) PROVE NoStaleOutcome'
  BY <1>6 DEF Recv
<1>7. ASSUME NEW t \in Tasks, Abandon(t) PROVE NoStaleOutcome'
  BY <1>7 DEF Abandon
<1>8. CASE UNCHANGED vars
  BY <1>8 DEF vars
<1> QED
  BY <1>1, <1>2, <1>3, <1>4, <1>5, <1>6, <1>7, <1>8, Zenon DEF Next, Join

\* A follower joins the flight of a registered leader, and that leader stops leading only
\* by filling the buffers of everyone subscribed to it.
LEMMA StrandedStep == FlightInv /\ [Next]_vars => NoStrandedFollower'
<1> SUFFICES ASSUME FlightInv, [Next]_vars PROVE NoStrandedFollower'
  OBVIOUS
<1> USE DEF FlightInv, TypeOK, NoStrandedFollower, Roles
<1>1. ASSUME NEW t \in Tasks, NEW k \in Keys, JoinLeader(t, k) PROVE NoStrandedFollower'
  BY <1>1 DEF JoinLeader
<1>2. ASSUME NEW t \in Tasks, NEW k \in Keys, JoinFollower(t, k) PROVE NoStrandedFollower'
  <2>1. map[k] \in Tasks /\ role[map[k]] = "leader" /\ key[map[k]] = k
    BY <1>2 DEF JoinFollower, EntryIsLeader
  <2> QED
    BY <1>2, <2>1 DEF JoinFollower
<1>3. ASSUME NEW t \in Tasks, NEW k \in Keys, JoinSaturated(t, k) PROVE NoStrandedFollower'
  BY <1>3 DEF JoinSaturated, vars
<1>4. ASSUME NEW t \in Tasks, NEW v \in Shared, Publish(t, v) PROVE NoStrandedFollower'
  BY <1>4 DEF Publish
<1>5. ASSUME NEW t \in Tasks, Send(t) PROVE NoStrandedFollower'
  BY <1>5 DEF Send, Subscribed, NoStaleOutcome
<1>6. ASSUME NEW t \in Tasks, Recv(t) PROVE NoStrandedFollower'
  BY <1>6 DEF Recv
<1>7. ASSUME NEW t \in Tasks, Abandon(t) PROVE NoStrandedFollower'
  BY <1>7 DEF Abandon
<1>8. CASE UNCHANGED vars
  BY <1>8 DEF vars
<1> QED
  BY <1>1, <1>2, <1>3, <1>4, <1>5, <1>6, <1>7, <1>8, Zenon DEF Next, Join

\* FlightInv holds in every state of the registry.
THEOREM FlightInvariance == Spec => []FlightInv
<1>1. FlightInv /\ [Next]_vars => FlightInv'
  BY FlightTypeStep, EntryStep, StaleStep, StrandedStep DEF FlightInv
<1> QED
  BY FlightStarts, <1>1, PTL DEF Spec

\* However joins, publishes and cancellations interleave, no two tasks ever hold an
\* unpublished leader handle for one key.
THEOREM OneLeader == Spec => []OneLeaderPerKey
<1>1. FlightInv => OneLeaderPerKey
  BY DEF FlightInv, EntryIsLeader, OneLeaderPerKey
<1> QED
  BY FlightInvariance, <1>1, PTL

\* A registered entry is always the unpublished leader's own, and every unpublished leader is
\* registered, so `publish` removes the entry of no other flight.
THEOREM EntriesAreLeaders == Spec => []EntryIsLeader
  BY FlightInvariance, PTL DEF FlightInv

\* Whoever waits is attached to a flight for its own key that has still to send.
THEOREM NobodyStranded == Spec => []NoStrandedFollower
  BY FlightInvariance, PTL DEF FlightInv

\* No outcome of one flight is ever found in a task that starts or leads another.
THEOREM NothingStale == Spec => []NoStaleOutcome
  BY FlightInvariance, PTL DEF FlightInv

-----------------------------------------------------------------------------
\* What makes the ceiling inductive: the flights of a shard are finitely many.
Ceiling ==
    \A s \in Shards :
        /\ IsFiniteSet(Inflight(s))
        /\ Cardinality(Inflight(s)) <= max_inflight_per_shard

\* Registering a flight adds one key to a shard below its ceiling; no other step adds any.
LEMMA CeilingStep == TypeOK /\ Ceiling /\ [Next]_vars => Ceiling'
<1> SUFFICES ASSUME TypeOK, Ceiling, [Next]_vars, NEW s \in Shards
             PROVE  /\ IsFiniteSet(Inflight(s)')
                    /\ Cardinality(Inflight(s)') <= max_inflight_per_shard
  BY DEF Ceiling
<1> DEFINE now == Inflight(s)
           then == Inflight(s)'
<1>a. IsFiniteSet(now) /\ Cardinality(now) \in Nat /\ Cardinality(now) <= max_inflight_per_shard
  BY FS_CardinalityType DEF Ceiling
<1>b. ASSUME then \subseteq now
      PROVE  IsFiniteSet(then) /\ Cardinality(then) <= max_inflight_per_shard
  <2>1. IsFiniteSet(then) /\ Cardinality(then) <= Cardinality(now)
    BY <1>a, <1>b, FS_Subset
  <2>2. Cardinality(then) \in Nat
    BY <2>1, FS_CardinalityType
  <2> QED
    BY <1>a, <2>1, <2>2, InflightAssumption
<1>1. ASSUME NEW t \in Tasks, NEW k \in Keys, JoinLeader(t, k)
      PROVE  IsFiniteSet(then) /\ Cardinality(then) <= max_inflight_per_shard
  <2>1. CASE shard_index[k] # s
    <3>1. then \subseteq now
      BY <1>1, <2>1 DEF JoinLeader, Inflight, TypeOK
    <3> QED
      BY <3>1, <1>b
  <2>2. CASE shard_index[k] = s
    <3>1. then = now \union {k}
      BY <1>1, <2>2, TasksAssumption DEF JoinLeader, Inflight, TypeOK
    <3>2. k \notin now /\ Cardinality(now) < max_inflight_per_shard
      BY <1>1, <2>2 DEF JoinLeader, HasRoom, Inflight
    <3>3. IsFiniteSet(then) /\ Cardinality(then) = Cardinality(now) + 1
      BY <1>a, <3>1, <3>2, FS_AddElement
    <3> QED
      BY <1>a, <3>2, <3>3, InflightAssumption
  <2> QED
    BY <2>1, <2>2
<1>2. ASSUME NEW t \in Tasks, NEW v \in Shared, Publish(t, v)
      PROVE  then \subseteq now
  BY <1>2 DEF Publish, Inflight, TypeOK
<1>3. ASSUME UNCHANGED map PROVE then \subseteq now
  BY <1>3, Zenon DEF Inflight
<1>4. \/ \E t \in Tasks, k \in Keys : JoinLeader(t, k)
      \/ \E t \in Tasks, v \in Shared : Publish(t, v)
      \/ UNCHANGED map
  BY DEF Next, Join, JoinFollower, JoinSaturated, Send, Recv, Abandon, vars
<1> QED
  BY <1>1, <1>2, <1>3, <1>4, <1>b

\* A shard of the registry never holds more flights than its ceiling.
THEOREM Bounded == Spec => []InflightBounded
<1>1. Init => Ceiling
  <2> SUFFICES ASSUME Init, NEW s \in Shards
               PROVE  IsFiniteSet(Inflight(s)) /\ Cardinality(Inflight(s)) <= max_inflight_per_shard
    BY DEF Ceiling
  <2>1. Inflight(s) = {}
    BY DEF Init, Inflight
  <2> QED
    BY <2>1, FS_EmptySet, InflightAssumption
<1>2. TypeOK /\ Ceiling /\ [Next]_vars => Ceiling'
  BY CeilingStep
<1>3. Ceiling => InflightBounded
  BY DEF Ceiling, InflightBounded
<1>4. FlightInv => TypeOK
  BY DEF FlightInv
<1> QED
  BY FlightInvariance, <1>1, <1>2, <1>3, <1>4, PTL DEF Spec

-----------------------------------------------------------------------------
(***************************************************************************)
(* SingleFlight implements Coalescing, for any tasks, keys, shards and     *)
(* ceiling.  A publish decides the work when it removes the entry; the     *)
(* send that follows only moves the outcome from the leader's hand to the  *)
(* buffers of the followers, each of which then holds what it held.        *)
(***************************************************************************)

\* Nobody waits for an idle task, or for one that follows: the abstract state of a
\* follower depends on the task it subscribed to only while that task has a handle.
LEMMA Attached ==
    ASSUME FlightInv, NEW f \in Tasks, role[f] = "follower", rx[f] = Empty
    PROVE  tx[f] \in Tasks /\ role[tx[f]] \in {"leader", "publishing"} /\ tx[f] # f
BY DEF FlightInv, NoStrandedFollower

\* The cases of the refinement mapping exclude each other: only followers wait.
LEMMA OnlyFollowersWait == \A f \in Tasks : Waiting(f) => role[f] = "follower"
BY DEF Waiting

\* The same of the state after a step: `Follower::wait` is the only wait there is.
LEMMA OnlyFollowersWaitNext == \A f \in Tasks : Waiting(f)' => role'[f] = "follower"
BY DEF Waiting

\* Registering a flight starts work that nobody else is doing.
LEMMA JoinLeaderStarts ==
    ASSUME FlightInv, NEW t \in Tasks, NEW k \in Keys, JoinLeader(t, k)
    PROVE  Promise!Start(t, k)
<1> USE DEF FlightInv, TypeOK, JoinLeader
<1>1. \A f \in Tasks : Waiting(f)' <=> Waiting(f)
  BY Attached DEF Waiting
<1>2. AbstractDoing[t] = "idle"
  BY OnlyFollowersWait, OnlyFollowersWaitNext DEF AbstractDoing
<1>3. Promise!Working(k) = {}
  BY TasksAssumption, OnlyFollowersWait, OnlyFollowersWaitNext DEF Promise!Working, AbstractDoing, EntryIsLeader
<1>4. AbstractDoing' = [AbstractDoing EXCEPT ![t] = "working"]
  BY <1>1, OnlyFollowersWait, OnlyFollowersWaitNext, Zenon DEF AbstractDoing
<1>5. AbstractOn' = AbstractOn
  BY <1>1 DEF AbstractOn
<1>6. AbstractHeld' = AbstractHeld
  BY <1>1 DEF AbstractHeld
<1> QED
  BY <1>2, <1>3, <1>4, <1>5, <1>6, ZenonT(30) DEF Promise!Start

\* Subscribing attaches to the work that is registered, which is not decided.
LEMMA JoinFollowerAttaches ==
    ASSUME FlightInv, NEW t \in Tasks, NEW k \in Keys, JoinFollower(t, k)
    PROVE  Promise!Attach(t, k)
<1> USE DEF FlightInv, TypeOK, JoinFollower
<1>0. map[k] \in Tasks /\ role[map[k]] = "leader" /\ key[map[k]] = k /\ map[k] # t
  BY DEF EntryIsLeader
<1>1. \A f \in Tasks \ {t} : Waiting(f)' <=> Waiting(f)
  BY Attached DEF Waiting
<1>2. ~Waiting(t) /\ Waiting(t)' /\ rx[t] = Empty
  BY <1>0 DEF Waiting, NoStaleOutcome
<1>3. AbstractDoing[t] = "idle"
  BY OnlyFollowersWait, OnlyFollowersWaitNext DEF AbstractDoing
<1>4. map[k] \in Promise!Working(k)
  BY <1>0, OnlyFollowersWait, OnlyFollowersWaitNext DEF Promise!Working, AbstractDoing
<1>5. AbstractOn' = [AbstractOn EXCEPT ![t] = map[k]]
  BY <1>1, <1>2, Zenon DEF AbstractOn
<1>6. AbstractDoing' = [AbstractDoing EXCEPT ![t] = "waiting"]
  BY <1>1, <1>2, OnlyFollowersWait, OnlyFollowersWaitNext, Zenon DEF AbstractDoing
<1>7. AbstractHeld' = AbstractHeld
  BY <1>1, <1>2, ZenonT(30) DEF AbstractHeld
<1> QED
  BY <1>3, <1>4, <1>5, <1>6, <1>7, Zenon DEF Promise!Attach

\* Removing the entry decides the work for its leader and for everyone attached to it.
LEMMA PublishDecides ==
    ASSUME FlightInv, NEW t \in Tasks, NEW v \in Shared, Publish(t, v)
    PROVE  Promise!Decide(t, v)
<1> USE DEF FlightInv, TypeOK, Publish
<1>1. AbstractDoing[t] = "working"
  BY OnlyFollowersWait, OnlyFollowersWaitNext DEF AbstractDoing
<1>2. \A f \in Tasks : f \in Promise!Party(t) <=> f = t \/ (Waiting(f) /\ tx[f] = t)
  BY TasksAssumption DEF Promise!Party, AbstractDoing, AbstractOn, Waiting
<1>3. \A f \in Tasks : Waiting(f)' <=> Waiting(f) /\ tx[f] # t
  BY Attached DEF Waiting
<1>4. \A f \in Tasks : Waiting(f) => role[f] = "follower" /\ rx[f] = Empty
  BY DEF Waiting
<1>5. AbstractDoing' =
        [w \in Tasks |-> IF w \in Promise!Party(t) THEN "holding" ELSE AbstractDoing[w]]
  BY <1>2, <1>3, <1>4, OnlyFollowersWait, OnlyFollowersWaitNext, ZenonT(30) DEF AbstractDoing
<1>6. AbstractOn' = [w \in Tasks |-> IF w \in Promise!Party(t) THEN NoTask ELSE AbstractOn[w]]
  BY <1>2, <1>3, <1>4 DEF AbstractOn, Waiting
<1>7. AbstractHeld' = [w \in Tasks |-> IF w \in Promise!Party(t) THEN v ELSE AbstractHeld[w]]
  <2> SUFFICES ASSUME NEW w \in Tasks
               PROVE  AbstractHeld'[w] = IF w \in Promise!Party(t) THEN v ELSE AbstractHeld[w]
    BY DEF AbstractHeld
  <2>1. CASE w = t
    BY <2>1, <1>2, <1>3 DEF AbstractHeld
  <2>2. CASE w # t /\ Waiting(w) /\ tx[w] = t
    BY <2>2, <1>2, <1>3, <1>4, ZenonT(30) DEF AbstractHeld
  <2>3. CASE w # t /\ ~(Waiting(w) /\ tx[w] = t)
    BY <2>3, <1>2, <1>3, Attached DEF AbstractHeld, Waiting
  <2> QED
    BY <2>1, <2>2, <2>3, ZenonT(30)
<1> QED
  BY <1>1, <1>5, <1>6, <1>7 DEF Promise!Decide

\* Sending ends the leader's part; its followers go on holding the outcome.
LEMMA SendLeaves ==
    ASSUME FlightInv, NEW t \in Tasks, Send(t)
    PROVE  Promise!Leave(t)
<1> USE DEF FlightInv, TypeOK, Send, Subscribed
<1>1. \A f \in Tasks : Waiting(f)' <=> Waiting(f)
  BY Attached DEF Waiting, NoStaleOutcome
<1>2. ~Waiting(t) /\ rx[t] # Empty
  BY DEF Waiting, NoStaleOutcome
<1>3. AbstractDoing[t] = "holding"
  BY <1>2, OnlyFollowersWait, OnlyFollowersWaitNext DEF AbstractDoing
<1>4. AbstractDoing' = [AbstractDoing EXCEPT ![t] = "idle"]
  BY <1>1, OnlyFollowersWait, OnlyFollowersWaitNext, Zenon DEF AbstractDoing
<1>5. AbstractOn' = [AbstractOn EXCEPT ![t] = NoTask]
  BY <1>1, <1>2, ZenonT(30) DEF AbstractOn
<1>6. AbstractHeld' = [AbstractHeld EXCEPT ![t] = Empty]
  <2> SUFFICES ASSUME NEW w \in Tasks
               PROVE  AbstractHeld'[w] = IF w = t THEN Empty ELSE AbstractHeld[w]
    BY Zenon DEF AbstractHeld
  <2>1. CASE w = t
    BY <2>1, ZenonT(30) DEF AbstractHeld
  <2>2. CASE w # t /\ w \in Subscribed(t)
    BY <2>2, <1>1, <1>2, ZenonT(30) DEF AbstractHeld, Waiting
  <2>3. CASE w # t /\ w \notin Subscribed(t)
    BY <2>3, <1>1, Attached DEF AbstractHeld, Waiting
  <2> QED
    BY <2>1, <2>2, <2>3
<1> QED
  BY <1>3, <1>4, <1>5, <1>6, ZenonT(30) DEF Promise!Leave

\* A follower that returns, with the outcome or without, leaves and disturbs nobody.
LEMMA FollowerLeaves ==
    ASSUME FlightInv, NEW t \in Tasks, Recv(t) \/ Abandon(t)
    PROVE  Promise!Leave(t)
<1>0. /\ role[t] = "follower"
      /\ role' = [role EXCEPT ![t] = "idle"]
      /\ rx' = [rx EXCEPT ![t] = Empty]
      /\ tx' = [tx EXCEPT ![t] = NoTask]
      /\ key' = key
  BY ZenonT(30) DEF Recv, Abandon
<1> USE <1>0 DEF FlightInv, TypeOK
<1>1. \A f \in Tasks \ {t} : Waiting(f)' <=> Waiting(f)
  BY Attached DEF Waiting
<1>2. ~Waiting(t)'
  BY DEF Waiting
<1>3. AbstractDoing[t] \in {"waiting", "holding"}
  BY OnlyFollowersWait, OnlyFollowersWaitNext DEF AbstractDoing
<1>4. AbstractDoing' = [AbstractDoing EXCEPT ![t] = "idle"]
  BY <1>1, OnlyFollowersWait, OnlyFollowersWaitNext, Zenon DEF AbstractDoing
<1>5. AbstractOn' = [AbstractOn EXCEPT ![t] = NoTask]
  BY <1>1, <1>2, Zenon DEF AbstractOn
<1>6. AbstractHeld' = [AbstractHeld EXCEPT ![t] = Empty]
  BY <1>1, <1>2, Attached, Zenon DEF AbstractHeld
<1> QED
  BY <1>3, <1>4, <1>5, <1>6 DEF Promise!Leave

-----------------------------------------------------------------------------
\* The registry keeps the promise of coalescing: whoever attached to a flight holds the one
\* outcome it was decided with from the removal of its entry on, and nobody joins a flight
\* that is decided, whatever a later flight for the key does in the meantime.
THEOREM Refinement == Spec => CoalescingPromise
<1>1. Init => Promise!Init
  BY DEF Init, Promise!Init, AbstractDoing, AbstractOn, AbstractHeld, Waiting
<1>2. FlightInv /\ [Next]_vars => [Promise!Next]_(Promise!vars)
  <2> SUFFICES ASSUME FlightInv, [Next]_vars PROVE [Promise!Next]_(Promise!vars)
    OBVIOUS
  <2>1. ASSUME NEW t \in Tasks, NEW k \in Keys, JoinLeader(t, k) PROVE Promise!Next
    BY <2>1, JoinLeaderStarts DEF Promise!Next
  <2>2. ASSUME NEW t \in Tasks, NEW k \in Keys, JoinFollower(t, k) PROVE Promise!Next
    BY <2>2, JoinFollowerAttaches DEF Promise!Next
  <2>3. ASSUME NEW t \in Tasks, NEW v \in Shared, Publish(t, v) PROVE Promise!Next
    BY <2>3, PublishDecides DEF Promise!Next
  <2>4. ASSUME NEW t \in Tasks, Send(t) PROVE Promise!Next
    BY <2>4, SendLeaves DEF Promise!Next
  <2>5. ASSUME NEW t \in Tasks, Recv(t) \/ Abandon(t) PROVE Promise!Next
    BY <2>5, FollowerLeaves DEF Promise!Next
  <2>6. ASSUME UNCHANGED vars PROVE UNCHANGED Promise!vars
    BY <2>6, Zenon DEF vars, Promise!vars, AbstractDoing, AbstractOn, AbstractHeld, Waiting
  <2> QED
    BY <2>1, <2>2, <2>3, <2>4, <2>5, <2>6 DEF Next, Join, JoinSaturated
<1> QED
  BY FlightInvariance, <1>1, <1>2, PTL DEF Spec, CoalescingPromise, Promise!Spec

-----------------------------------------------------------------------------
(***************************************************************************)
(* Proofs about BackgroundValidation, for any number of validations, slots *)
(* and different answers: only an answer that was validated is cached as   *)
(* Secure, and no way out of a validation keeps its slot.                  *)
(*                                                                         *)
(* A verdict is acted on in two steps, so the invariant follows it through *)
(* both: what a verdict describes (VerdictIsProven), what `promote` read   *)
(* before it writes (SeenIsExamined), and what a fetch still has in hand.  *)
(***************************************************************************)

Asking == {v \in Validations : at[v] = "validating"}

\* The state's shape, without the slots: CompletionSlotsConserved bounds those.
Shape ==
    /\ cached \in Entries \union {None}
    /\ hand \in Entries \union {None}
    /\ fetches \in 0..MaxAnswers
    /\ at \in [Validations -> {"idle", "validating", "verdict", "writing"}]
    /\ about \in [Validations -> Answers]
    /\ verdict \in [Validations -> Verdicts]
    /\ seen \in [Validations -> Entries \union {None}]
    /\ proven \subseteq Answers
    /\ condemned \subseteq Answers

HandIsUnproven == hand # None => hand.dnssec = "Indeterminate"

VerdictIsProven ==
    \A v \in Validations :
        at[v] \in {"verdict", "writing"} /\ verdict[v] = "Secure" => about[v] \in proven

SeenIsExamined ==
    \A v \in Validations :
        at[v] = "writing" =>
          seen[v] \in Entries
          /\ answer_fingerprint(seen[v].answer) = answer_fingerprint(about[v])

Conserved ==
    /\ slots \in Nat
    /\ slots + Cardinality(Asking) = PROOF_COMPLETION_CONCURRENCY

EvidenceInv ==
    Shape /\ HandIsUnproven /\ VerdictIsProven /\ SeenIsExamined /\ SecureIsProven

-----------------------------------------------------------------------------
\* Answers with one fingerprint are the same, unless neither has records.
LEMMA SameFingerprint ==
    ASSUME NEW a, NEW b, answer_fingerprint(a) = answer_fingerprint(b)
    PROVE  /\ a \in Denials <=> b \in Denials
           /\ a \notin Denials => a = b
BY DEF answer_fingerprint

\* Asking is finite, and what one task joining or leaving it does to its size.
LEMMA AskingSize ==
    ASSUME NEW S \in SUBSET Validations, NEW v \in Validations
    PROVE  /\ Cardinality(S) \in Nat
           /\ v \notin S => Cardinality(S \union {v}) = Cardinality(S) + 1
           /\ v \in S => Cardinality(S \ {v}) = Cardinality(S) - 1
<1>1. IsFiniteSet(S)
  BY FS_Subset, ValidationAssumption, ZenonT(30)
<1> QED
  BY <1>1, FS_CardinalityType, FS_AddElement, FS_RemoveElement

\* The evidence a fetch, a validation or an expiry leaves behind, step by step.
LEMMA EvidenceStep == EvidenceInv /\ [BackgroundNext]_backgroundVars => EvidenceInv'
<1> SUFFICES ASSUME EvidenceInv, [BackgroundNext]_backgroundVars PROVE EvidenceInv'
  OBVIOUS
<1> USE DEF EvidenceInv
<1>1. ASSUME NEW v \in Validations, NEW a \in Answers, ReceiveAndSpawn(v, a)
      PROVE  EvidenceInv'
  <2>1. hand' \in Entries /\ hand'.dnssec = "Indeterminate" /\ fetches' \in 0..MaxAnswers
    BY <1>1, ValidationAssumption DEF ReceiveAndSpawn, Shape, Entries
  <2>2. at' \in [Validations -> {"idle", "validating", "verdict", "writing"}]
    BY <1>1, ZenonT(30) DEF ReceiveAndSpawn, Shape
  <2>3. Shape'
    BY <1>1, <2>1, <2>2, ZenonT(30) DEF ReceiveAndSpawn, Shape, ghosts
  <2>4. \A w \in Validations : at'[w] \in {"verdict", "writing"} => at'[w] = at[w]
    BY <1>1, ZenonT(30) DEF ReceiveAndSpawn, Shape
  <2> QED
    BY <1>1, <2>1, <2>3, <2>4, Zenon
    DEF ReceiveAndSpawn, ghosts, HandIsUnproven, VerdictIsProven, SeenIsExamined, SecureIsProven
<1>2. ASSUME NEW a \in Answers, ReceiveOnly(a) PROVE EvidenceInv'
  <2>1. hand' \in Entries /\ hand'.dnssec = "Indeterminate" /\ fetches' \in 0..MaxAnswers
    BY <1>2, ValidationAssumption DEF ReceiveOnly, Shape, Entries
  <2>2. Shape'
    BY <1>2, <2>1, ZenonT(30) DEF ReceiveOnly, Shape, ghosts, task
  <2> QED
    BY <1>2, <2>1, <2>2, ZenonT(30)
    DEF ReceiveOnly, ghosts, task, HandIsUnproven, VerdictIsProven, SeenIsExamined, SecureIsProven
<1>3. ASSUME Insert \/ DropFetch \/ Expire PROVE EvidenceInv'
  BY <1>3 DEF Insert, DropFetch, Expire, ghosts, task, Shape, HandIsUnproven, VerdictIsProven,
              SeenIsExamined, SecureIsProven
<1>4. ASSUME NEW v \in Validations, LearnNothing(v) PROVE EvidenceInv'
  <2>1. Shape' /\ (\A w \in Validations : at'[w] \in {"verdict", "writing"} => at'[w] = at[w])
    BY <1>4 DEF LearnNothing, Shape, ghosts
  <2> QED
    BY <1>4, <2>1, Zenon
    DEF LearnNothing, ghosts, HandIsUnproven, VerdictIsProven, SeenIsExamined, SecureIsProven
<1>5. ASSUME NEW v \in Validations, NEW a \in Answers, NEW o \in Verdicts, Judge(v, a, o)
      PROVE  EvidenceInv'
  <2>1. Shape'
    BY <1>5 DEF Judge, Shape
  <2>2. VerdictIsProven'
    <3>1. proven \subseteq proven' /\ (o = "Secure" => a \in proven')
      BY <1>5, ZenonT(30) DEF Judge
    <3>2. about'[v] = a /\ verdict'[v] = o
      BY <1>5 DEF Judge, Shape
    <3>3. \A w \in Validations \ {v} :
              at'[w] = at[w] /\ about'[w] = about[w] /\ verdict'[w] = verdict[w]
      BY <1>5, ZenonT(30) DEF Judge, Shape
    <3> QED
      BY <3>1, <3>2, <3>3, Zenon DEF VerdictIsProven
  <2>3. SeenIsExamined'
    BY <1>5 DEF Judge, Shape, SeenIsExamined
  <2>4. SecureIsProven' /\ HandIsUnproven'
    BY <1>5 DEF Judge, SecureIsProven, HandIsUnproven
  <2> QED
    BY <2>1, <2>2, <2>3, <2>4, ZenonT(30)
<1>6. ASSUME NEW v \in Validations, Look(v) PROVE EvidenceInv'
  <2>1. Shape'
    BY <1>6, ZenonT(30) DEF Look, Shape, ghosts
  <2>2. SeenIsExamined'
    <3>1. at'[v] = "writing" =>
            seen'[v] \in Entries
            /\ answer_fingerprint(seen'[v].answer) = answer_fingerprint(about[v])
      BY <1>6, ZenonT(30) DEF Look, Shape, Applies
    <3>2. \A w \in Validations \ {v} : at'[w] = at[w] /\ seen'[w] = seen[w]
      BY <1>6, ZenonT(30) DEF Look, Shape
    <3> QED
      BY <1>6, <3>1, <3>2, ZenonT(30) DEF Look, SeenIsExamined
  <2>3. VerdictIsProven'
    BY <1>6 DEF Look, Shape, ghosts, VerdictIsProven
  <2> QED
    BY <1>6, <2>1, <2>2, <2>3, ZenonT(30) DEF Look, ghosts, HandIsUnproven, SecureIsProven
<1>7. ASSUME NEW v \in Validations, Write(v) PROVE EvidenceInv'
  <2>1. seen[v] \in Entries
        /\ answer_fingerprint(seen[v].answer) = answer_fingerprint(about[v])
    BY <1>7 DEF Write, SeenIsExamined
  <2>2. verdict[v] # "Forged" =>
            /\ cached' \in Entries
            /\ cached'.answer = seen[v].answer
            /\ cached'.dnssec = StatusOf(verdict[v])
    BY <1>7, <2>1 DEF Write, Entries, StatusOf
  <2>3. Shape'
    BY <1>7, <2>2, ZenonT(30) DEF Write, Shape, ghosts
  <2>4. SecureIsProven'
    <3>1. verdict[v] = "Secure" => about[v] \in proven
      BY <1>7, ZenonT(30) DEF Write, VerdictIsProven
    <3>2. cached' # None /\ cached'.dnssec = "Secure" =>
            verdict[v] = "Secure" /\ cached'.answer = seen[v].answer
      BY <1>7, <2>2 DEF Write, StatusOf, Shape, Verdicts
    <3>3. proven' = proven
      BY <1>7, Zenon DEF Write, ghosts
    <3>4. /\ seen[v].answer \in Denials <=> about[v] \in Denials
          /\ seen[v].answer \notin Denials => seen[v].answer = about[v]
      BY <2>1, SameFingerprint, Zenon
    <3> QED
      BY <3>1, <3>2, <3>3, <3>4, Zenon DEF SecureIsProven
  <2>5. VerdictIsProven' /\ SeenIsExamined'
    BY <1>7, ZenonT(30) DEF Write, Shape, ghosts, VerdictIsProven, SeenIsExamined
  <2> QED
    BY <1>7, <2>3, <2>4, <2>5, ZenonT(30) DEF Write, HandIsUnproven
<1>8. CASE UNCHANGED backgroundVars
  BY <1>8, ZenonT(30) DEF backgroundVars, Shape, HandIsUnproven, VerdictIsProven, SeenIsExamined,
              SecureIsProven
<1> QED
  BY <1>1, <1>2, <1>3, <1>4, <1>5, <1>6, <1>7, <1>8 DEF BackgroundNext, Validation

\* The slots a fetch takes and a validation returns, step by step.
LEMMA SlotsStep == Shape /\ Conserved /\ [BackgroundNext]_backgroundVars => Conserved'
<1> SUFFICES ASSUME Shape, Conserved, [BackgroundNext]_backgroundVars PROVE Conserved'
  OBVIOUS
<1> USE ValidationAssumption
<1>1. ASSUME NEW v \in Validations, NEW a \in Answers, ReceiveAndSpawn(v, a)
      PROVE  Conserved'
  <2>1. v \notin Asking /\ Asking' = Asking \union {v}
    BY <1>1 DEF ReceiveAndSpawn, Shape, Asking
  <2>2. Cardinality(Asking') = Cardinality(Asking) + 1 /\ Cardinality(Asking) \in Nat
    BY <2>1, AskingSize, Zenon DEF Asking
  <2>3. slots' = slots - 1 /\ slots > 0
    BY <1>1 DEF ReceiveAndSpawn
  <2> QED
    BY <2>2, <2>3 DEF Conserved
<1>2. ASSUME NEW v \in Validations, at[v] = "validating", slots' = slots + 1,
             NEW next \in {"idle", "verdict"}, at' = [at EXCEPT ![v] = next]
      PROVE  Conserved'
  <2>1. v \in Asking /\ Asking' = Asking \ {v}
    BY <1>2 DEF Shape, Asking
  <2>2. Cardinality(Asking') = Cardinality(Asking) - 1 /\ Cardinality(Asking) \in Nat
    BY <2>1, AskingSize, Zenon DEF Asking
  <2>3. slots' = slots + 1
    BY <1>2
  <2> QED
    BY <2>2, <2>3 DEF Conserved
<1>3. ASSUME NEW v \in Validations, Validation(v) PROVE Conserved'
  <2>1. CASE LearnNothing(v)
    BY <2>1, <1>2, Zenon DEF LearnNothing
  <2>2. ASSUME NEW a \in Answers, NEW o \in Verdicts, Judge(v, a, o) PROVE Conserved'
    BY <2>2, <1>2, Zenon DEF Judge
  <2>3. CASE Look(v) \/ Write(v)
    <3>1. Asking' = Asking /\ slots' = slots
      BY <2>3 DEF Look, Write, Shape, Asking
    <3> QED
      BY <3>1 DEF Conserved
  <2> QED
    BY <1>3, <2>1, <2>2, <2>3 DEF Validation
<1>4. ASSUME (\E a \in Answers : ReceiveOnly(a)) \/ Insert \/ DropFetch \/ Expire
             \/ UNCHANGED backgroundVars
      PROVE  Conserved'
  <2>1. Asking' = Asking /\ slots' = slots
    BY <1>4, ZenonT(30) DEF ReceiveOnly, Insert, DropFetch, Expire, backgroundVars, task, Asking
  <2> QED
    BY <2>1, ZenonT(30) DEF Conserved
<1> QED
  BY <1>1, <1>3, <1>4, ZenonT(30) DEF BackgroundNext

\* Nothing is cached, in hand or being validated at the start.
LEMMA ValidationStarts == BackgroundInit => EvidenceInv /\ Conserved
<1> SUFFICES ASSUME BackgroundInit PROVE EvidenceInv /\ Conserved
  BY ZenonT(30)
<1>1. EvidenceInv
  BY ValidationAssumption
  DEF BackgroundInit, EvidenceInv, Shape, HandIsUnproven, VerdictIsProven, SeenIsExamined,
      SecureIsProven, Verdicts
<1>2. Asking = {}
  BY DEF BackgroundInit, Asking
<1>3. Cardinality(Asking) = 0
  BY <1>2, FS_EmptySet
<1> QED
  BY <1>1, <1>3, ValidationAssumption DEF BackgroundInit, Conserved

-----------------------------------------------------------------------------
\* Whatever the order of fetches, verdicts and writes, `promote` never leaves a Secure
\* entry with records in the cache that no validation found Secure, nor a Secure denial where
\* no denial was.
THEOREM SecureEntriesAreProven == BackgroundSpec => []SecureIsProven
<1>1. EvidenceInv => SecureIsProven
  BY DEF EvidenceInv
<1> QED
  BY <1>1, ValidationStarts, EvidenceStep, PTL DEF BackgroundSpec

\* Every proof-completion slot is free or held by a validation that is still asking.
THEOREM SlotsAreConserved == BackgroundSpec => []CompletionSlotsConserved
<1>1. EvidenceInv => Shape
  BY DEF EvidenceInv
<1>2. Conserved => CompletionSlotsConserved
  BY DEF Conserved, CompletionSlotsConserved, Asking
<1> QED
  BY <1>1, <1>2, ValidationStarts, EvidenceStep, SlotsStep, PTL DEF BackgroundSpec

\* The state keeps its shape: a task that writes has an entry to write, and there are never
\* more slots than proof_completion_slots was made with.
THEOREM BackgroundTypes == BackgroundSpec => []BackgroundTypeOK
<1>1. EvidenceInv => Shape
  BY DEF EvidenceInv
<1>2. EvidenceInv /\ Conserved => BackgroundTypeOK
  <2> SUFFICES ASSUME EvidenceInv, Conserved PROVE BackgroundTypeOK
    OBVIOUS
  <2>1. Cardinality(Asking) \in Nat
    BY FS_Subset, FS_CardinalityType, ValidationAssumption, ZenonT(30) DEF Asking
  <2>2. slots \in 0..PROOF_COMPLETION_CONCURRENCY
    BY <2>1, ValidationAssumption DEF Conserved
  <2>3. \A v \in Validations : at[v] = "writing" => seen[v] # None
    BY NoneAssumption, ZenonT(30) DEF EvidenceInv, SeenIsExamined
  <2> QED
    BY <2>2, <2>3 DEF EvidenceInv, Shape, BackgroundTypeOK
<1> QED
  BY <1>1, <1>2, ValidationStarts, EvidenceStep, SlotsStep, PTL DEF BackgroundSpec

-----------------------------------------------------------------------------
(***************************************************************************)
(* Proofs about Ingress, for any clients, access lists, connections and    *)
(* limits: whom `serve_tcp` serves and how often, and what a connection's  *)
(* writer has done when it ends.                                           *)
(*                                                                         *)
(* The bound per client rests on the counters: `per_client` may drop one   *)
(* only while it is zero, so a counter it has is the number of open        *)
(* connections (Counted), and no connection holds one it has lost.         *)
(***************************************************************************)

PeerTypes ==
    /\ peer \in [Conns -> Clients \union {NoClient}]
    /\ mapped \subseteq Clients
    /\ counter \in [Clients -> Nat]

Counted ==
    /\ orphan = {}
    /\ \A k \in Open : peer[k] \in mapped
    /\ \A c \in mapped : counter[c] = Cardinality(OpenOf(c))

PeerInv == PeerTypes /\ Counted /\ PerClientBound /\ ServesOnlyAllowed

\* What a writer that still runs, and one that ended by itself, say of their connection.
Settled(r) ==
    /\ r.writer \in {"recv", "writing"} => ~r.cut
    /\ r.writer = "done" =>
        /\ r.reader = "done" /\ ~r.cut
        /\ r.spawned = 0 /\ r.resolving = 0 /\ r.sending = 0 /\ r.queued = 0

ConnInv == conn \in [Conns -> Connection] /\ \A k \in Conns : Settled(conn[k])

-----------------------------------------------------------------------------
\* Every step of a connection's tasks leaves it well formed and settled.
LEMMA ConnStepSettles ==
    ASSUME ConnInv, NEW k \in Conns, ConnStep(k)
    PROVE  ConnInv'
<1> DEFINE r == conn[k]
<1>1. r \in Connection /\ Settled(r)
  BY DEF ConnInv
<1>2. ASSUME NEW new \in Connection, Settled(new), conn' = [conn EXCEPT ![k] = new]
      PROVE  ConnInv'
  BY <1>2 DEF ConnInv
<1>3. CASE ReadQuery(k)
  <2> DEFINE new == IF Pipelined(k) < max_pipelined_queries
                    THEN [r EXCEPT !.spawned = @ + 1] ELSE [r EXCEPT !.reader = "waiting"]
  <2>1. conn' = [conn EXCEPT ![k] = new] /\ r.reader = "reading"
    BY <1>3, Zenon DEF ReadQuery
  <2>2. new \in Connection /\ Settled(new)
    BY <1>1, <2>1 DEF Connection, Settled
  <2> QED
    BY <1>2, <2>1, <2>2, Zenon
<1>4. CASE ResumeReading(k)
  <2> DEFINE new == [r EXCEPT !.reader = "reading", !.spawned = @ + 1]
  <2>1. conn' = [conn EXCEPT ![k] = new] /\ r.reader = "waiting"
    BY <1>4, Zenon DEF ResumeReading
  <2>2. r.spawned + 1 \in Nat
    BY <1>1, <2>1 DEF Connection
  <2>3. new \in Connection
    BY <1>1, <2>2, Zenon DEF Connection
  <2>4. Settled(new)
    BY <1>1, <2>1 DEF Connection, Settled
  <2> QED
    BY <1>2, <2>1, <2>3, <2>4, Zenon
<1>5. CASE StopReading(k)
  <2> DEFINE new == [r EXCEPT !.reader = "done"]
  <2>1. conn' = [conn EXCEPT ![k] = new]
    BY <1>5 DEF StopReading
  <2>2. new \in Connection /\ Settled(new)
    BY <1>1, ZenonT(30) DEF Connection, Settled
  <2> QED
    BY <1>2, <2>1, <2>2, Zenon
<1>6. CASE StartQuery(k)
  <2> DEFINE new == IF inflight > 0
                    THEN [r EXCEPT !.spawned = @ - 1, !.resolving = @ + 1]
                    ELSE [r EXCEPT !.spawned = @ - 1]
  <2>1. conn' = [conn EXCEPT ![k] = new] /\ r.spawned > 0
    BY <1>6, Zenon DEF StartQuery
  <2>2. r.spawned - 1 \in Nat /\ r.resolving + 1 \in Nat
    BY <1>1, <2>1 DEF Connection
  <2>3. new \in Connection
    BY <1>1, <2>2, Zenon DEF Connection
  <2>4. Settled(new)
    BY <1>1, <2>1 DEF Connection, Settled
  <2> QED
    BY <1>2, <2>1, <2>3, <2>4, Zenon
<1>7. CASE Responded(k)
  <2> DEFINE new == [r EXCEPT !.resolving = @ - 1, !.sending = @ + 1]
  <2>1. conn' = [conn EXCEPT ![k] = new] /\ r.resolving > 0
    BY <1>7, Zenon DEF Responded
  <2>2. r.resolving - 1 \in Nat /\ r.sending + 1 \in Nat
    BY <1>1, <2>1 DEF Connection
  <2>3. new \in Connection
    BY <1>1, <2>2, Zenon DEF Connection
  <2>4. Settled(new)
    BY <1>1, <2>1 DEF Connection, Settled
  <2> QED
    BY <1>2, <2>1, <2>3, <2>4, Zenon
<1>8. CASE Unanswerable(k)
  <2> DEFINE new == [r EXCEPT !.resolving = @ - 1]
  <2>1. conn' = [conn EXCEPT ![k] = new] /\ r.resolving > 0
    BY <1>8 DEF Unanswerable
  <2>2. new \in Connection /\ Settled(new)
    BY <1>1, <2>1 DEF Connection, Settled
  <2> QED
    BY <1>2, <2>1, <2>2, Zenon
<1>9. CASE SendReply(k)
  <2> DEFINE new == IF WriterGone(k)
                    THEN [r EXCEPT !.sending = @ - 1, !.cut = TRUE]
                    ELSE [r EXCEPT !.sending = @ - 1, !.queued = @ + 1]
  <2>1. conn' = [conn EXCEPT ![k] = new] /\ r.sending > 0
    BY <1>9, Zenon DEF SendReply
  <2>2. r.sending - 1 \in Nat /\ r.queued + 1 \in Nat
    BY <1>1, <2>1 DEF Connection
  <2>3. new \in Connection
    BY <1>1, <2>2, Zenon DEF Connection
  <2>4. Settled(new)
    BY <1>1, <2>1 DEF Connection, Settled, WriterGone
  <2> QED
    BY <1>2, <2>1, <2>3, <2>4, Zenon
<1>10. CASE TakePayload(k)
  <2> DEFINE new == [r EXCEPT !.writer = "writing", !.queued = @ - 1]
  <2>1. conn' = [conn EXCEPT ![k] = new] /\ r.writer = "recv" /\ r.queued > 0
    BY <1>10, Zenon DEF TakePayload
  <2>2. r.queued - 1 \in Nat
    BY <1>1, <2>1 DEF Connection
  <2>3. new \in Connection
    BY <1>1, <2>2, Zenon DEF Connection
  <2>4. Settled(new)
    BY <1>1, <2>1 DEF Connection, Settled
  <2> QED
    BY <1>2, <2>1, <2>3, <2>4, Zenon
<1>11. CASE WritePayload(k)
  <2> DEFINE new == [r EXCEPT !.writer = "recv"]
  <2>1. conn' = [conn EXCEPT ![k] = new] /\ r.writer = "writing"
    BY <1>11 DEF WritePayload
  <2>2. new \in Connection /\ Settled(new)
    BY <1>1, <2>1 DEF Connection, Settled
  <2> QED
    BY <1>2, <2>1, <2>2, Zenon
<1>12. CASE WriteFails(k)
  <2> DEFINE new == [r EXCEPT !.writer = "broken", !.queued = 0, !.cut = TRUE]
  <2>1. conn' = [conn EXCEPT ![k] = new]
    BY <1>12, Zenon DEF WriteFails
  <2>2. new \in Connection /\ Settled(new)
    BY <1>1, Zenon DEF Connection, Settled
  <2> QED
    BY <1>2, <2>1, <2>2, Zenon
<1>13. CASE WriterEnds(k)
  <2> DEFINE new == [r EXCEPT !.writer = "done"]
  <2>1. /\ conn' = [conn EXCEPT ![k] = new] /\ r.writer = "recv" /\ r.queued = 0
        /\ r.reader = "done" /\ r.spawned + r.resolving + r.sending = 0
    BY <1>13 DEF WriterEnds, Pipelined
  <2>2. r.spawned = 0 /\ r.resolving = 0 /\ r.sending = 0
    BY <1>1, <2>1 DEF Connection
  <2>3. new \in Connection /\ Settled(new)
    BY <1>1, <2>1, <2>2 DEF Connection, Settled
  <2> QED
    BY <1>2, <2>1, <2>3, Zenon
<1>14. CASE Close(k)
  <2>1. NewConnection \in Connection /\ Settled(NewConnection)
    BY Zenon DEF NewConnection, Connection, Settled
  <2>2. conn' = [conn EXCEPT ![k] = NewConnection] \/ conn' = conn
    BY <1>14 DEF Close
  <2> QED
    BY <1>2, <2>1, <2>2, ZenonT(30) DEF ConnInv
<1> QED
  BY <1>3, <1>4, <1>5, <1>6, <1>7, <1>8, <1>9, <1>10, <1>11, <1>12, <1>13, <1>14, ZenonT(30) DEF ConnStep

\* Only an accepted connection, which is new, and a connection's own tasks touch it.
LEMMA ConnInvStep == ConnInv /\ [IngressNext]_ingressVars => ConnInv'
<1> SUFFICES ASSUME ConnInv, [IngressNext]_ingressVars PROVE ConnInv'
  OBVIOUS
<1>1. ASSUME NEW k \in Conns, ConnStep(k) PROVE ConnInv'
  BY <1>1, ConnStepSettles
<1>2. ASSUME NEW c \in Clients, NEW k \in Conns, NEW admitted \in BOOLEAN, Accept(c, k, admitted)
      PROVE  ConnInv'
  <2>1. NewConnection \in Connection /\ Settled(NewConnection)
    BY DEF NewConnection, Connection, Settled
  <2>2. conn' = [conn EXCEPT ![k] = NewConnection] \/ conn' = conn
    BY <1>2, Zenon DEF Accept
  <2> QED
    BY <2>1, <2>2, ZenonT(30) DEF ConnInv
<1>3. ASSUME conn' = conn PROVE ConnInv'
  BY <1>3 DEF ConnInv
<1>4. ASSUME NEW c \in Clients, ReceiveDatagram(c) \/ DatagramStep(c) PROVE ConnInv'
  BY <1>3, <1>4, Zenon DEF ReceiveDatagram, DatagramStep, TurnAwayDatagram, ResolveDatagram,
                    AnswerDatagram
<1>5. CASE CancelServing \/ UNCHANGED ingressVars
  BY <1>3, <1>5 DEF CancelServing, ingressVars
<1> QED
  BY <1>1, <1>2, <1>4, <1>5, ZenonT(30) DEF IngressNext

-----------------------------------------------------------------------------
\* The connections of one client: how many, and what one more or one less makes of it.
LEMMA OpenSize ==
    ASSUME NEW S \in SUBSET Conns, NEW k \in Conns
    PROVE  /\ Cardinality(S) \in Nat
           /\ k \notin S => Cardinality(S \union {k}) = Cardinality(S) + 1
           /\ k \in S => Cardinality(S \ {k}) = Cardinality(S) - 1
           /\ Cardinality(S) = 0 => S = {}
<1>1. IsFiniteSet(S)
  BY FS_Subset, IngressAssumption, Zenon
<1> QED
  BY <1>1, FS_CardinalityType, FS_AddElement, FS_RemoveElement, FS_EmptySet, Zenon

\* A client the access lists let through is in an allowed network and in no denied one.
LEMMA AllowedByLists ==
    ASSUME NEW c, Evaluate(c) = "Allow"
    PROVE  normalise[c] \in UNION allow /\ normalise[c] \notin UNION deny
  BY DEF Evaluate

\* A connection that is let in: the counter its client has, or is given, counts its others.
LEMMA AcceptKeeps ==
    ASSUME PeerInv, NEW c \in Clients, NEW k \in Conns, NEW admitted \in BOOLEAN,
           Accept(c, k, admitted)
    PROVE  PeerInv'
<1> DEFINE kept == KeptClients
           count == IF c \in kept THEN counter[c] ELSE 0
<1>1. PeerTypes /\ Counted /\ PerClientBound /\ ServesOnlyAllowed
  BY DEF PeerInv
<1>2. kept \subseteq mapped /\ \A d \in mapped \ kept : counter[d] = 0
  BY <1>1 DEF KeptClients, PeerTypes
<1>3. \A d \in Clients : OpenOf(d) \in SUBSET Conns
  BY DEF OpenOf, Open
<1>4. \A d \in Clients \ kept : OpenOf(d) = {}
  <2> SUFFICES ASSUME NEW d \in Clients \ kept PROVE OpenOf(d) = {}
    BY ZenonT(30)
  <2>1. CASE d \notin mapped
    BY <1>1, <2>1 DEF Counted, OpenOf
  <2>2. CASE d \in mapped
    <3>1. Cardinality(OpenOf(d)) = 0
      BY <1>1, <1>2, <2>2, ZenonT(30) DEF Counted
    <3> QED
      BY <1>3, <3>1, OpenSize, Zenon
  <2> QED
    BY <2>1, <2>2
<1>5. count = Cardinality(OpenOf(c)) /\ count \in Nat
  <2>1. CASE c \in kept
    BY <1>1, <1>2, <2>1, ZenonT(30) DEF Counted, PeerTypes
  <2>2. CASE c \notin kept
    BY <1>4, <2>2, FS_EmptySet
  <2> QED
    BY <2>1, <2>2
<1>6. ASSUME NEW j \in Open PROVE peer[j] \in kept
  <2>1. j \in OpenOf(peer[j]) /\ peer[j] \in mapped
    BY <1>1, Zenon DEF OpenOf, Counted
  <2>2. peer[j] \in Clients
    BY <1>1, <2>1, Zenon DEF PeerTypes
  <2> QED
    BY <1>4, <2>1, <2>2, Zenon
<1>7. CASE ~admitted
  <2>1. peer' = peer /\ mapped' = mapped /\ counter' = counter /\ orphan' = orphan
    BY <1>7, Zenon DEF Accept
  <2>2. Open' = Open /\ \A d : OpenOf(d)' = OpenOf(d)
    BY <2>1, Zenon DEF Open, OpenOf
  <2>3. PeerTypes' /\ Counted'
    BY <1>1, <2>1, <2>2, Zenon DEF PeerTypes, Counted
  <2> QED
    BY <1>1, <2>1, <2>2, <2>3, Zenon DEF PeerInv, PerClientBound, ServesOnlyAllowed
<1>8. ASSUME admitted, ~(count < max_connections_per_client) PROVE PeerInv'
  <2>1. /\ peer' = peer /\ mapped' = kept \union {c} /\ orphan' = {}
        /\ counter' = [counter EXCEPT ![c] = count]
    BY <1>1, <1>6, <1>8 DEF Accept, Counted
  <2>2. Open' = Open /\ \A d \in Clients : OpenOf(d)' = OpenOf(d)
    BY <2>1, ZenonT(30) DEF Open, OpenOf
  <2>3. PeerTypes'
    BY <1>1, <1>2, <1>5, <2>1, ZenonT(30) DEF PeerTypes
  <2>4. Counted'
    BY <1>1, <1>2, <1>5, <1>6, <2>1, <2>2, ZenonT(30) DEF Counted, PeerTypes
  <2> QED
    BY <1>1, <2>1, <2>2, <2>3, <2>4, ZenonT(30) DEF PeerInv, PerClientBound, ServesOnlyAllowed
<1>9. ASSUME admitted, count < max_connections_per_client PROVE PeerInv'
  <2>1. /\ peer' = [peer EXCEPT ![k] = c] /\ mapped' = kept \union {c} /\ orphan' = {}
        /\ counter' = [counter EXCEPT ![c] = count + 1]
    BY <1>1, <1>6, <1>9, Zenon DEF Accept, Counted
  <2>2. k \notin Open /\ Evaluate(c) = "Allow"
    BY <1>9, Zenon DEF Accept, Admit
  <2>3. PeerTypes'
    BY <1>1, <1>2, <1>5, <2>1 DEF PeerTypes
  <2>4. Open' = Open \union {k} /\ peer'[k] = c /\ \A j \in Open : peer'[j] = peer[j]
    BY <1>1, <2>1, <2>2, IngressAssumption, ZenonT(30) DEF Open, PeerTypes
  <2>5. OpenOf(c)' = OpenOf(c) \union {k} /\ k \notin OpenOf(c)
    BY <2>2, <2>4, ZenonT(30) DEF OpenOf
  <2>6. \A d \in Clients \ {c} : OpenOf(d)' = OpenOf(d)
    BY <2>2, <2>4, ZenonT(30) DEF OpenOf
  <2>7. Cardinality(OpenOf(c)') = count + 1
    BY <1>3, <1>5, <2>5, OpenSize, ZenonT(30)
  <2>8. Counted'
    <3>1. \A j \in Open' : peer'[j] \in mapped'
      BY <1>6, <2>1, <2>4
    <3>2. \A d \in mapped' \ {c} : counter'[d] = Cardinality(OpenOf(d)')
      BY <1>1, <1>2, <2>1, <2>6, ZenonT(30) DEF Counted, PeerTypes
    <3>3. counter'[c] = count + 1
      BY <1>1, <2>1 DEF PeerTypes
    <3> QED
      BY <2>1, <2>7, <3>1, <3>2, <3>3, ZenonT(30) DEF Counted
  <2>9. PerClientBound'
    <3>1. count + 1 <= max_connections_per_client
      BY <1>5, <1>9, IngressAssumption
    <3> QED
      BY <1>1, <2>6, <2>7, <3>1 DEF PerClientBound
  <2>10. ServesOnlyAllowed'
    BY <1>1, <2>2, <2>4, AllowedByLists, ZenonT(30) DEF ServesOnlyAllowed
  <2> QED
    BY <2>3, <2>8, <2>9, <2>10 DEF PeerInv
<1> QED
  BY <1>7, <1>8, <1>9

\* A connection that closes: its client's counter goes down with it.
LEMMA CloseKeeps ==
    ASSUME PeerInv, NEW k \in Conns, Close(k)
    PROVE  PeerInv'
<1>1. PeerTypes /\ Counted /\ PerClientBound /\ ServesOnlyAllowed
  BY ZenonT(30) DEF PeerInv
<1>2. PICK c \in Clients : c = peer[k] /\ c \in mapped /\ k \in Open
  BY <1>1, ZenonT(30) DEF Close, Counted, PeerTypes, Open
<1>3. /\ peer' = [peer EXCEPT ![k] = NoClient] /\ mapped' = mapped /\ orphan' = {}
      /\ counter' = [counter EXCEPT ![c] = @ - 1]
  BY <1>1, <1>2 DEF Close, Counted
<1>4. Open' = Open \ {k} /\ \A j \in Open' : peer'[j] = peer[j]
  BY <1>1, <1>3, ZenonT(30) DEF Open, PeerTypes
<1>5. OpenOf(c)' = OpenOf(c) \ {k} /\ k \in OpenOf(c) /\ OpenOf(c) \in SUBSET Conns
  BY <1>2, <1>4, ZenonT(30) DEF OpenOf, Open
<1>6. \A d \in Clients \ {c} : OpenOf(d)' = OpenOf(d)
  BY <1>2, <1>4, ZenonT(30) DEF OpenOf
<1>7. /\ Cardinality(OpenOf(c)') = Cardinality(OpenOf(c)) - 1
      /\ Cardinality(OpenOf(c)) \in Nat /\ Cardinality(OpenOf(c)') \in Nat
  <2>1. OpenOf(c)' \in SUBSET Conns
    BY <1>5, ZenonT(30)
  <2> QED
    BY <1>5, <2>1, OpenSize, ZenonT(30)
<1>8. counter[c] = Cardinality(OpenOf(c)) /\ counter'[c] = counter[c] - 1
  BY <1>1, <1>2, <1>3 DEF Counted, PeerTypes
<1>9. PeerTypes'
  <2>1. counter[c] - 1 \in Nat
    BY <1>7, <1>8, ZenonT(30)
  <2> QED
    BY <1>1, <1>3, <2>1, ZenonT(30) DEF PeerTypes
<1>10. Counted'
  BY <1>1, <1>3, <1>4, <1>6, <1>7, <1>8 DEF Counted, PeerTypes
<1>11. PerClientBound'
  <2>1. Cardinality(OpenOf(c)) <= max_connections_per_client
    BY <1>1, <1>2, ZenonT(30) DEF PerClientBound
  <2>2. Cardinality(OpenOf(c)') <= max_connections_per_client
    BY <1>7, <2>1, IngressAssumption
  <2> QED
    BY <1>1, <1>6, <2>2 DEF PerClientBound
<1>12. ServesOnlyAllowed'
  BY <1>1, <1>4, ZenonT(30) DEF ServesOnlyAllowed
<1> QED
  BY <1>9, <1>10, <1>11, <1>12 DEF PeerInv

\* Only accepting and closing touch the counters.
LEMMA PeerInvStep == PeerInv /\ [IngressNext]_ingressVars => PeerInv'
<1> SUFFICES ASSUME PeerInv, [IngressNext]_ingressVars PROVE PeerInv'
  OBVIOUS
<1>1. ASSUME UNCHANGED <<peer, mapped, counter, orphan>> PROVE PeerInv'
  BY <1>1
  DEF PeerInv, PeerTypes, Counted, PerClientBound, ServesOnlyAllowed, OpenOf, Open
<1>2. ASSUME NEW k \in Conns, ConnStep(k) PROVE PeerInv'
  <2>1. CASE Close(k)
    BY <2>1, CloseKeeps
  <2>2. CASE ~Close(k)
    BY <1>1, <1>2, <2>2, Zenon
    DEF ConnStep, OnConn, ReadQuery, ResumeReading, StopReading, StartQuery, Responded,
        Unanswerable, SendReply, TakePayload, WritePayload, WriteFails, WriterEnds
  <2> QED
    BY <2>1, <2>2
<1>3. ASSUME NEW c \in Clients, NEW k \in Conns, NEW admitted \in BOOLEAN, Accept(c, k, admitted)
      PROVE  PeerInv'
  BY <1>3, AcceptKeeps
<1>4. ASSUME NEW c \in Clients, ReceiveDatagram(c) \/ DatagramStep(c) PROVE PeerInv'
  BY <1>1, <1>4, Zenon DEF ReceiveDatagram, DatagramStep, TurnAwayDatagram, ResolveDatagram,
                    AnswerDatagram
<1>5. CASE CancelServing \/ UNCHANGED ingressVars
  BY <1>1, <1>5 DEF CancelServing, ingressVars
<1> QED
  BY <1>2, <1>3, <1>4, <1>5 DEF IngressNext

\* No connection is open at the start.
LEMMA PeersStart == IngressInit => PeerInv /\ ConnInv
<1> SUFFICES ASSUME IngressInit PROVE PeerInv /\ ConnInv
  OBVIOUS
<1>1. Open = {} /\ \A c \in Clients : OpenOf(c) = {}
  BY DEF IngressInit, Open, OpenOf
<1>2. \A c \in Clients : Cardinality(OpenOf(c)) = 0
  BY <1>1, FS_EmptySet, ZenonT(30)
<1>3. PeerInv
  BY <1>1, <1>2, IngressAssumption
  DEF IngressInit, PeerInv, PeerTypes, Counted, PerClientBound, ServesOnlyAllowed
<1>4. ConnInv
  BY DEF IngressInit, ConnInv, NewConnection, Connection, Settled
<1> QED
  BY <1>3, <1>4

-----------------------------------------------------------------------------
\* `serve_tcp` never serves a client more connections than max_connections_per_client,
\* however its counters are dropped and made anew.
THEOREM ClientsAreBounded == IngressSpec => []PerClientBound
<1>1. PeerInv => PerClientBound
  BY DEF PeerInv
<1> QED
  BY <1>1, PeersStart, PeerInvStep, PTL DEF IngressSpec

\* No connection is served to a client a deny entry matches, or no allow entry does.
THEOREM OnlyAllowedAreServed == IngressSpec => []ServesOnlyAllowed
<1>1. PeerInv => ServesOnlyAllowed
  BY DEF PeerInv
<1> QED
  BY <1>1, PeersStart, PeerInvStep, PTL DEF IngressSpec

\* A connection's writer that ends by itself leaves no response unwritten and no query of
\* the connection still being resolved.
THEOREM WritersEndDrained == IngressSpec => []DrainWritesEverything
<1>1. ConnInv => DrainWritesEverything
  BY DEF ConnInv, DrainWritesEverything, Settled, Pipelined, Open
<1> QED
  BY <1>1, PeersStart, ConnInvStep, PTL DEF IngressSpec

-----------------------------------------------------------------------------
(***************************************************************************)
(* Proofs about RateLimiter, for any clients, budgets and table size: a    *)
(* client is forgotten only after more than `capacity` others.             *)
(*                                                                         *)
(* KeepsItsBudget is not inductive: when the generations rotate, what      *)
(* counts is whom the clients of the older one have waited for.  A client  *)
(* that is in the older generation only was last checked before the newer  *)
(* one began, so all of the newer one was checked since (OlderHasSeen).    *)
(***************************************************************************)

OlderHasSeen == PerClient => \A c \in previous \ current : current \subseteq seenSince[c]

LimiterInv == LimiterTypeOK /\ OlderHasSeen /\ KeepsItsBudget

-----------------------------------------------------------------------------
\* A set of clients that holds at least `capacity` others and one more has more than that.
LEMMA MoreThanCapacity ==
    ASSUME NEW S \in SUBSET Addresses, NEW T \in SUBSET Addresses, NEW d \in Addresses,
           Cardinality(S) >= capacity, d \notin S, S \union {d} \subseteq T
    PROVE  Cardinality(T) > capacity
<1>1. IsFiniteSet(S) /\ IsFiniteSet(T)
  BY FS_Subset, LimiterAssumption
<1>2. Cardinality(S) \in Nat /\ Cardinality(T) \in Nat
  BY <1>1, FS_CardinalityType
<1>3. Cardinality(S \union {d}) = Cardinality(S) + 1
  BY <1>1, FS_AddElement, Zenon
<1>4. Cardinality(S \union {d}) <= Cardinality(T)
  BY <1>1, FS_Subset
<1> QED
  BY <1>2, <1>3, <1>4, LimiterAssumption

\* A set of clients that holds one with more than `capacity` has more than that.
LEMMA GrowsPastCapacity ==
    ASSUME NEW S \in SUBSET Addresses, NEW T \in SUBSET Addresses,
           Cardinality(S) > capacity, S \subseteq T
    PROVE  Cardinality(T) > capacity
<1>1. IsFiniteSet(S) /\ IsFiniteSet(T)
  BY FS_Subset, LimiterAssumption
<1>2. Cardinality(S) \in Nat /\ Cardinality(T) \in Nat /\ Cardinality(S) <= Cardinality(T)
  BY <1>1, FS_CardinalityType, FS_Subset
<1> QED
  BY <1>2, LimiterAssumption

\* No budget is overdrawn and none grows past its burst.
LEMMA TypesStep == LimiterTypeOK /\ [LimiterNext]_limiter => LimiterTypeOK'
<1> SUFFICES ASSUME LimiterTypeOK, [LimiterNext]_limiter PROVE LimiterTypeOK'
  OBVIOUS
<1> USE LimiterAssumption
<1>1. ASSUME NEW c \in Addresses, Check(c) PROVE LimiterTypeOK'
  <2>1. current' \subseteq Addresses /\ previous' \subseteq Addresses
    BY <1>1, ZenonT(30) DEF Check, TableFor, LimiterTypeOK
  <2>2. budget' \in [Addresses -> 0..client_burst]
    <3>1. BudgetFound(c) \in 0..client_burst
      BY DEF BudgetFound, LimiterTypeOK
    <3>2. (IF BudgetFound(c) = 0 THEN 0 ELSE BudgetFound(c) - 1) \in 0..client_burst
      BY <3>1
    <3> QED
      BY <1>1, <3>2, ZenonT(30) DEF Check, LimiterTypeOK
  <2>3. global' \in 0..global_burst
    BY <1>1 DEF Check, Decision, LimiterTypeOK
  <2>4. seenSince' \in [Addresses -> SUBSET Addresses]
    BY <1>1 DEF Check, LimiterTypeOK
  <2> QED
    BY <2>1, <2>2, <2>3, <2>4, ZenonT(30) DEF LimiterTypeOK
<1>2. ASSUME NEW c \in Addresses, Refill(c) PROVE LimiterTypeOK'
  BY <1>2 DEF Refill, LimiterTypeOK
<1>3. CASE RefillGlobal
  BY <1>3 DEF RefillGlobal, LimiterTypeOK
<1>4. CASE UNCHANGED limiter
  BY <1>4, ZenonT(30) DEF limiter, LimiterTypeOK
<1> QED
  BY <1>1, <1>2, <1>3, <1>4, ZenonT(30) DEF LimiterNext

\* What a check does to the others: they have seen its client, and none is forgotten unless
\* the generations rotate.
LEMMA CheckKeeps ==
    ASSUME LimiterInv, NEW d \in Addresses, Check(d)
    PROVE  OlderHasSeen' /\ KeepsItsBudget'
<1>0. SUFFICES ASSUME PerClient
               PROVE  /\ \A c \in previous' \ current' : current' \subseteq seenSince'[c]
                      /\ \A c \in Addresses :
                            \/ c \in current' \union previous'
                            \/ seenSince'[c] = Addresses
                            \/ Cardinality(seenSince'[c]) > capacity
  BY DEF OlderHasSeen, KeepsItsBudget, Tracked, PerClient
<1> USE <1>0
<1>1. /\ current \subseteq Addresses /\ previous \subseteq Addresses
      /\ seenSince \in [Addresses -> SUBSET Addresses]
  BY ZenonT(30) DEF LimiterInv, LimiterTypeOK
<1>2. \A c \in Addresses \ {d} : seenSince'[c] = seenSince[c] \union {d}
  BY ZenonT(30) DEF Check
<1>3. \A c \in previous \ current : current \subseteq seenSince[c]
  BY ZenonT(30) DEF LimiterInv, OlderHasSeen
<1>4. TableFor(d)
  BY DEF Check
<1>5. d \in current'
  BY <1>4, ZenonT(30) DEF TableFor
\* Whoever was not tracked, and is not d, stays as far from its last check or farther.
<1>6. ASSUME NEW c \in Addresses \ {d}, ~Tracked(c)
      PROVE  seenSince'[c] = Addresses \/ Cardinality(seenSince'[c]) > capacity
  <2>1. seenSince[c] = Addresses \/ Cardinality(seenSince[c]) > capacity
    BY <1>6, ZenonT(30) DEF LimiterInv, KeepsItsBudget
  <2>2. seenSince[c] \in SUBSET Addresses /\ seenSince'[c] \in SUBSET Addresses
    BY <1>1, <1>2, ZenonT(30)
  <2>3. seenSince[c] \subseteq seenSince'[c]
    BY <1>2, ZenonT(30)
  <2> QED
    BY <2>1, <2>2, <2>3, GrowsPastCapacity, ZenonT(30)
<1>7. CASE Tracked(d)
  <2>1. current' = current \union {d} /\ previous' = previous
    BY <1>4, <1>7, ZenonT(30) DEF TableFor
  <2> QED
    BY <1>1, <1>2, <1>3, <1>5, <1>6, <2>1, ZenonT(30) DEF Tracked
<1>8. CASE ~Tracked(d) /\ ~Full
  <2>1. current' = current \union {d} /\ previous' = previous
    BY <1>4, <1>8, ZenonT(30) DEF TableFor
  <2> QED
    BY <1>1, <1>2, <1>3, <1>5, <1>6, <2>1 DEF Tracked
<1>9. CASE ~Tracked(d) /\ Full
  <2>1. current' = {d} /\ previous' = current /\ d \notin current
    BY <1>4, <1>9, ZenonT(30) DEF TableFor, Tracked
  <2>2. \A c \in previous' \ current' : current' \subseteq seenSince'[c]
    BY <1>1, <1>2, <2>1, ZenonT(30)
  \* The clients of the older generation only are the ones forgotten.
  <2>3. ASSUME NEW c \in previous \ current, c # d
        PROVE  Cardinality(seenSince'[c]) > capacity
    <3>1. current \union {d} \subseteq seenSince'[c]
      BY <1>1, <1>2, <1>3, <2>3, ZenonT(30)
    <3>2. seenSince'[c] \in SUBSET Addresses
      BY <1>1, <1>2, <2>3
    <3> QED
      BY <1>1, <1>9, <2>1, <3>1, <3>2, MoreThanCapacity, ZenonT(30) DEF Full
  <2> QED
    BY <1>5, <1>6, <2>1, <2>2, <2>3 DEF Tracked
<1> QED
  BY <1>7, <1>8, <1>9, ZenonT(30)

\* Nobody is forgotten by the passing of time.
LEMMA LimiterInvStep == LimiterInv /\ [LimiterNext]_limiter => LimiterInv'
<1> SUFFICES ASSUME LimiterInv, [LimiterNext]_limiter PROVE LimiterInv'
  OBVIOUS
<1>1. LimiterTypeOK'
  BY TypesStep DEF LimiterInv
<1>2. ASSUME NEW c \in Addresses, Check(c) PROVE LimiterInv'
  BY <1>1, <1>2, CheckKeeps, ZenonT(30) DEF LimiterInv
<1>3. ASSUME UNCHANGED <<current, previous, seenSince>> PROVE LimiterInv'
  BY <1>1, <1>3 DEF LimiterInv, OlderHasSeen, KeepsItsBudget, Tracked, PerClient
<1>4. ASSUME NEW c \in Addresses, Refill(c) PROVE LimiterInv'
  BY <1>3, <1>4 DEF Refill
<1>5. CASE RefillGlobal \/ UNCHANGED limiter
  BY <1>3, <1>5, ZenonT(30) DEF RefillGlobal, limiter
<1> QED
  BY <1>2, <1>4, <1>5 DEF LimiterNext

\* Nobody has been checked at the start.
LEMMA LimiterStarts == LimiterInit => LimiterInv
  BY LimiterAssumption
  DEF LimiterInit, LimiterInv, LimiterTypeOK, OlderHasSeen, KeepsItsBudget

-----------------------------------------------------------------------------
\* For every table size and whatever the order of queries, `limiter_for` forgets a client
\* only after more than `capacity` other clients have been checked since.
THEOREM BudgetsAreKept == LimiterSpec => []KeepsItsBudget
<1>1. LimiterInv => KeepsItsBudget
  BY DEF LimiterInv
<1> QED
  BY <1>1, LimiterStarts, LimiterInvStep, PTL DEF LimiterSpec

\* `check` never overdraws a budget: the global one is charged only where it allows.
THEOREM BudgetsAreNeverOverdrawn == LimiterSpec => []LimiterTypeOK
<1>1. LimiterInv => LimiterTypeOK
  BY DEF LimiterInv
<1> QED
  BY <1>1, LimiterStarts, LimiterInvStep, PTL DEF LimiterSpec
=============================================================================
