---------------------------- MODULE ProbeProofs ----------------------------
(***************************************************************************)
(* Proofs about ProbeEngine, for any addresses, hosts, workers, thresholds *)
(* and settings: what is recorded was measured, how much an outage may be  *)
(* held against addresses, and how many probes are out.                    *)
(***************************************************************************)
EXTENDS ProbeEngine, FiniteSetTheorems, TLAPS

-----------------------------------------------------------------------------
(* A worker is a record, and a step of it replaces that record.            *)

Worker(pc, job, epoch, snapshot, outcome, class) ==
    [pc |-> pc, job |-> job, epoch |-> epoch, snapshot |-> snapshot,
     outcome |-> outcome, class |-> class]
IsWorker(r) == r = Worker(r.pc, r.job, r.epoch, r.snapshot, r.outcome, r.class)
WorkersShaped ==
    /\ worker = [v \in Workers |-> worker[v]]
    /\ \A v \in Workers : IsWorker(worker[v])
Becomes(w, r) == worker' = [worker EXCEPT ![w] = r]

\* Worker w as it is, but at another step.
Moved(w, pc) ==
    Worker(pc, JobOf(w), worker[w].epoch, worker[w].snapshot, worker[w].outcome, worker[w].class)

\* The updates the actions write are replacements of one worker's record.
LEMMA Updates ==
    ASSUME WorkersShaped, NEW w \in Workers, NEW p, NEW x
    PROVE  /\ Goto(w, p) => Becomes(w, Moved(w, p))
           /\ Finish(w) => Becomes(w, IdleWorker)
           /\ worker' = [worker EXCEPT ![w].pc = p, ![w].snapshot = x] =>
                Becomes(w, Worker(p, JobOf(w), worker[w].epoch, x, worker[w].outcome,
                                  worker[w].class))
           /\ worker' = [worker EXCEPT ![w].pc = p, ![w].outcome = x] =>
                Becomes(w, Worker(p, JobOf(w), worker[w].epoch, worker[w].snapshot, x,
                                  worker[w].class))
           /\ worker' = [worker EXCEPT ![w].pc = p, ![w].class = x] =>
                Becomes(w, Worker(p, JobOf(w), worker[w].epoch, worker[w].snapshot,
                                  worker[w].outcome, x))
           /\ worker' = [worker EXCEPT ![w].class = x, ![w].pc = p] =>
                Becomes(w, Worker(p, JobOf(w), worker[w].epoch, worker[w].snapshot,
                                  worker[w].outcome, x))
<1> DEFINE r == worker[w]
<1>1. IsWorker(r) BY DEF WorkersShaped
<1>2. /\ [worker EXCEPT ![w].pc = p] = [worker EXCEPT ![w] = [r EXCEPT !.pc = p]]
      /\ [worker EXCEPT ![w].pc = p, ![w].snapshot = x]
            = [worker EXCEPT ![w] = [r EXCEPT !.pc = p, !.snapshot = x]]
      /\ [worker EXCEPT ![w].pc = p, ![w].outcome = x]
            = [worker EXCEPT ![w] = [r EXCEPT !.pc = p, !.outcome = x]]
      /\ [worker EXCEPT ![w].pc = p, ![w].class = x]
            = [worker EXCEPT ![w] = [r EXCEPT !.pc = p, !.class = x]]
      /\ [worker EXCEPT ![w].class = x, ![w].pc = p]
            = [worker EXCEPT ![w] = [r EXCEPT !.class = x, !.pc = p]]
  BY Zenon DEF WorkersShaped
<1> HIDE DEF r
<1>3. /\ [r EXCEPT !.pc = p]
           = Worker(p, r.job, r.epoch, r.snapshot, r.outcome, r.class)
      /\ [r EXCEPT !.pc = p, !.snapshot = x]
           = Worker(p, r.job, r.epoch, x, r.outcome, r.class)
      /\ [r EXCEPT !.pc = p, !.outcome = x]
           = Worker(p, r.job, r.epoch, r.snapshot, x, r.class)
      /\ [r EXCEPT !.pc = p, !.class = x]
           = Worker(p, r.job, r.epoch, r.snapshot, r.outcome, x)
      /\ [r EXCEPT !.class = x, !.pc = p]
           = Worker(p, r.job, r.epoch, r.snapshot, r.outcome, x)
  <2>1. ASSUME NEW a, NEW b, NEW c, NEW d, NEW e, NEW f
        PROVE  /\ [Worker(a, b, c, d, e, f) EXCEPT !.pc = p] = Worker(p, b, c, d, e, f)
               /\ [Worker(a, b, c, d, e, f) EXCEPT !.snapshot = x] = Worker(a, b, c, x, e, f)
               /\ [Worker(a, b, c, d, e, f) EXCEPT !.outcome = x] = Worker(a, b, c, d, x, f)
               /\ [Worker(a, b, c, d, e, f) EXCEPT !.class = x] = Worker(a, b, c, d, e, x)
    BY DEF Worker
  <2>2. /\ [r EXCEPT !.pc = p, !.snapshot = x] = [[r EXCEPT !.pc = p] EXCEPT !.snapshot = x]
        /\ [r EXCEPT !.pc = p, !.outcome = x] = [[r EXCEPT !.pc = p] EXCEPT !.outcome = x]
        /\ [r EXCEPT !.pc = p, !.class = x] = [[r EXCEPT !.pc = p] EXCEPT !.class = x]
        /\ [r EXCEPT !.class = x, !.pc = p] = [[r EXCEPT !.class = x] EXCEPT !.pc = p]
    OBVIOUS
  <2> DEFINE a == r.pc  b == r.job  c == r.epoch  d == r.snapshot  e == r.outcome  f == r.class
  <2>3. r = Worker(a, b, c, d, e, f) BY <1>1 DEF IsWorker
  <2> HIDE DEF a, b, c, d, e, f
  <2>4. [r EXCEPT !.pc = p] = Worker(p, b, c, d, e, f) BY <2>1, <2>3
  <2>5. [r EXCEPT !.class = x] = Worker(a, b, c, d, e, x) BY <2>1, <2>3
  <2>6. [Worker(a, b, c, d, e, x) EXCEPT !.pc = p] = Worker(p, b, c, d, e, x) BY <2>1
  <2>7. [r EXCEPT !.class = x, !.pc = p] = Worker(p, b, c, d, e, x) BY <2>2, <2>5, <2>6, Zenon
  <2>8. /\ [Worker(p, b, c, d, e, f) EXCEPT !.snapshot = x] = Worker(p, b, c, x, e, f)
        /\ [Worker(p, b, c, d, e, f) EXCEPT !.outcome = x] = Worker(p, b, c, d, x, f)
        /\ [Worker(p, b, c, d, e, f) EXCEPT !.class = x] = Worker(p, b, c, d, e, x)
    BY <2>1
  <2>9. /\ [r EXCEPT !.pc = p, !.snapshot = x] = Worker(p, b, c, x, e, f)
        /\ [r EXCEPT !.pc = p, !.outcome = x] = Worker(p, b, c, d, x, f)
        /\ [r EXCEPT !.pc = p, !.class = x] = Worker(p, b, c, d, e, x)
    BY <2>2, <2>4, <2>8, Zenon
  <2> QED BY <2>4, <2>7, <2>9 DEF a, b, c, d, e, f
<1> QED BY <1>2, <1>3 DEF Becomes, Goto, Finish, Moved, JobOf, r

\* The worker a job is handed to.
LEMMA Spawned ==
    ASSUME NEW j, NEW e
    PROVE  [IdleWorker EXCEPT !.pc = "spawned", !.job = j, !.epoch = e]
             = Worker("spawned", j, e, NoSnapshot, "none", "none")
<1> DEFINE a == [IdleWorker EXCEPT !.pc = "spawned"]
           b == [a EXCEPT !.job = j]
<1>1. [IdleWorker EXCEPT !.pc = "spawned", !.job = j, !.epoch = e] = [b EXCEPT !.epoch = e]
  OBVIOUS
<1>2. a = Worker("spawned", NoJob, 0, NoSnapshot, "none", "none") BY DEF IdleWorker, Worker
<1>3. b = Worker("spawned", j, 0, NoSnapshot, "none", "none")
  <2> HIDE DEF a
  <2> QED BY <1>2 DEF Worker
<1>4. [b EXCEPT !.epoch = e] = Worker("spawned", j, e, NoSnapshot, "none", "none")
  <2> HIDE DEF a, b
  <2> QED BY <1>3 DEF Worker
<1> QED BY <1>1, <1>4

\* A step that replaces one record leaves the others alone.
LEMMA OneMoves ==
    ASSUME WorkersShaped, NEW w \in Workers, NEW r, IsWorker(r), Becomes(w, r)
    PROVE  /\ WorkersShaped' /\ worker'[w] = r
           /\ \A v \in Workers : v # w => worker'[v] = worker[v]
<1>1. worker' = [v \in Workers |-> IF v = w THEN r ELSE worker[v]]
  BY DEF WorkersShaped, Becomes
<1>2. worker'[w] = r /\ \A v \in Workers : v # w => worker'[v] = worker[v]
  BY <1>1
<1>3. worker' = [v \in Workers |-> worker'[v]]
  BY <1>1
<1>4. \A v \in Workers : IsWorker(worker'[v])
  BY <1>2 DEF WorkersShaped
<1> QED BY <1>2, <1>3, <1>4 DEF WorkersShaped, IsWorker

LEMMA WorkerFields ==
    ASSUME NEW a, NEW b, NEW c, NEW d, NEW e, NEW f
    PROVE  /\ IsWorker(Worker(a, b, c, d, e, f))
           /\ Worker(a, b, c, d, e, f).pc = a /\ Worker(a, b, c, d, e, f).job = b
           /\ Worker(a, b, c, d, e, f).epoch = c /\ Worker(a, b, c, d, e, f).snapshot = d
           /\ Worker(a, b, c, d, e, f).outcome = e /\ Worker(a, b, c, d, e, f).class = f
BY DEF Worker, IsWorker

LEMMA IdleFields ==
    IsWorker(IdleWorker) /\ IdleWorker.pc = "idle" /\ IdleWorker.outcome = "none"
BY DEF IdleWorker, Worker, IsWorker

LEMMA GotoFacts ==
    ASSUME WorkersShaped, NEW w \in Workers, NEW p, Goto(w, p)
    PROVE  /\ worker'[w].pc = p /\ worker'[w].outcome = worker[w].outcome
           /\ worker'[w].class = worker[w].class
<1> DEFINE r == Moved(w, p)
<1>1. /\ IsWorker(r) /\ r.pc = p /\ r.outcome = worker[w].outcome
      /\ r.class = worker[w].class
  BY WorkerFields DEF Moved
<1>2. Becomes(w, r) BY Updates, Zenon
<1> HIDE DEF r
<1>3. worker'[w] = r BY <1>1, <1>2, OneMoves
<1> QED BY <1>1, <1>3

\* What each step of a worker makes of it.
LEMMA Moves ==
    ASSUME WorkersShaped, NEW w \in Workers
    PROVE  /\ Execute(w) => \/ Becomes(w, IdleWorker) \/ Becomes(w, Moved(w, "ready"))
                            \/ Becomes(w, Worker("admitting", JobOf(w), worker[w].epoch, prefixes,
                                                 worker[w].outcome, worker[w].class))
           /\ AdmitObserved(w) =>
                Becomes(w, Worker("ready", JobOf(w), worker[w].epoch, NoSnapshot,
                                  worker[w].outcome, worker[w].class))
           /\ \A o : Measure(w, o) =>
                \E pc \in {"settling", "http3"} :
                    Becomes(w, Worker(pc, JobOf(w), worker[w].epoch, worker[w].snapshot, o,
                                      worker[w].class))
           /\ Recover(w) =>
                \E c \in {"Success", "ApplicableFailure"} :
                    Becomes(w, Worker("recording", JobOf(w), worker[w].epoch, worker[w].snapshot,
                                      worker[w].outcome, c))
           /\ Classify(w) =>
                LET c == classify(worker[w].outcome, health.healthy)
                IN  Becomes(w, Worker(IF c = "ApplicableFailure" THEN "counting" ELSE "recording",
                                      JobOf(w), worker[w].epoch, worker[w].snapshot,
                                      worker[w].outcome, c))
<1>1. ASSUME Execute(w)
      PROVE  \/ Becomes(w, IdleWorker) \/ Becomes(w, Moved(w, "ready"))
             \/ Becomes(w, Worker("admitting", JobOf(w), worker[w].epoch, prefixes,
                                  worker[w].outcome, worker[w].class))
  <2>1. \/ Finish(w) \/ Goto(w, "ready")
        \/ worker' = [worker EXCEPT ![w].pc = "admitting", ![w].snapshot = prefixes]
    BY <1>1, Zenon DEF Execute
  <2> QED BY <2>1, Updates, Zenon
<1>2. ASSUME AdmitObserved(w)
      PROVE  Becomes(w, Worker("ready", JobOf(w), worker[w].epoch, NoSnapshot,
                               worker[w].outcome, worker[w].class))
  <2>1. worker' = [worker EXCEPT ![w].pc = "ready", ![w].snapshot = NoSnapshot]
    BY <1>2, Zenon DEF AdmitObserved
  <2> QED BY <2>1, Updates, Zenon
<1>3. ASSUME NEW o, Measure(w, o)
      PROVE  \E pc \in {"settling", "http3"} :
                Becomes(w, Worker(pc, JobOf(w), worker[w].epoch, worker[w].snapshot, o,
                                  worker[w].class))
  <2>1. PICK pc \in {"settling", "http3"} :
              worker' = [worker EXCEPT ![w].pc = pc, ![w].outcome = o]
    BY <1>3, Zenon DEF Measure
  <2> QED BY <2>1, Updates, Zenon
<1>4. ASSUME Recover(w)
      PROVE  \E c \in {"Success", "ApplicableFailure"} :
                Becomes(w, Worker("recording", JobOf(w), worker[w].epoch, worker[w].snapshot,
                                  worker[w].outcome, c))
  <2>1. PICK c \in {"Success", "ApplicableFailure"} :
              worker' = [worker EXCEPT ![w].pc = "recording", ![w].class = c]
    BY <1>4, Zenon DEF Recover
  <2> QED BY <2>1, Updates, Zenon
<1>5. ASSUME Classify(w)
      PROVE  LET c == classify(worker[w].outcome, health.healthy)
             IN  Becomes(w, Worker(IF c = "ApplicableFailure" THEN "counting" ELSE "recording",
                                   JobOf(w), worker[w].epoch, worker[w].snapshot,
                                   worker[w].outcome, c))
  <2> DEFINE c == classify(worker[w].outcome, health.healthy)
             pc == IF c = "ApplicableFailure" THEN "counting" ELSE "recording"
  <2>1. worker' = [worker EXCEPT ![w].class = c, ![w].pc = pc]
    BY <1>5, Zenon DEF Classify
  <2> HIDE DEF c, pc
  <2>2. Becomes(w, Worker(pc, JobOf(w), worker[w].epoch, worker[w].snapshot,
                          worker[w].outcome, c))
    BY <2>1, Updates, Zenon
  <2> QED BY <2>2 DEF pc, c
<1> QED BY <1>1, <1>2, <1>3, <1>4, <1>5

\* What a step of a worker leaves in its record.
LEMMA Arrivals ==
    ASSUME WorkersShaped, NEW w \in Workers
    PROVE  /\ Finish(w) => worker'[w].pc = "idle"
           /\ Execute(w) => worker'[w].pc \in {"idle", "ready", "admitting"}
           /\ AdmitObserved(w) => worker'[w].pc = "ready"
           /\ \A o : Measure(w, o) => worker'[w].pc \in {"settling", "http3"}
           /\ Recover(w) => worker'[w].pc = "recording" /\ worker'[w].outcome = worker[w].outcome
           /\ Classify(w) =>
                LET c == classify(worker[w].outcome, health.healthy)
                IN  /\ worker'[w].pc = IF c = "ApplicableFailure" THEN "counting" ELSE "recording"
                    /\ worker'[w].class = c
<1>1. ASSUME NEW p, NEW j, NEW n, NEW d, NEW e, NEW c, Becomes(w, Worker(p, j, n, d, e, c))
      PROVE  worker'[w].pc = p /\ worker'[w].outcome = e /\ worker'[w].class = c
  <2> DEFINE r == Worker(p, j, n, d, e, c)
  <2>1. IsWorker(r) /\ r.pc = p /\ r.outcome = e /\ r.class = c BY WorkerFields
  <2>2. Becomes(w, r) BY <1>1
  <2> HIDE DEF r
  <2>3. worker'[w] = r BY <2>1, <2>2, OneMoves, Zenon
  <2> QED BY <2>1, <2>3, Zenon
<1>2. Becomes(w, IdleWorker) => worker'[w].pc = "idle" BY IdleFields, OneMoves, Zenon
<1>3. Finish(w) => worker'[w].pc = "idle" BY <1>2, Updates, Zenon
<1>4. \A p : Becomes(w, Moved(w, p)) => worker'[w].pc = p BY <1>1, Zenon DEF Moved
<1>5. ASSUME Execute(w) PROVE worker'[w].pc \in {"idle", "ready", "admitting"}
  <2>1. \/ Becomes(w, IdleWorker) \/ Becomes(w, Moved(w, "ready"))
        \/ Becomes(w, Worker("admitting", JobOf(w), worker[w].epoch, prefixes,
                             worker[w].outcome, worker[w].class))
    BY <1>5, Moves, Zenon
  <2>2. \/ worker'[w].pc = "idle" \/ worker'[w].pc = "ready" \/ worker'[w].pc = "admitting"
    BY <1>1, <1>2, <1>4, <2>1, Zenon
  <2> QED BY <2>2
<1>6. ASSUME AdmitObserved(w) PROVE worker'[w].pc = "ready"
  <2>1. Becomes(w, Worker("ready", JobOf(w), worker[w].epoch, NoSnapshot,
                          worker[w].outcome, worker[w].class))
    BY <1>6, Moves, Zenon
  <2> QED BY <1>1, <2>1, Zenon
<1>7. ASSUME NEW o, Measure(w, o) PROVE worker'[w].pc \in {"settling", "http3"}
  <2>1. PICK pc \in {"settling", "http3"} :
              Becomes(w, Worker(pc, JobOf(w), worker[w].epoch, worker[w].snapshot, o,
                                worker[w].class))
    BY <1>7, Moves, Zenon
  <2>2. worker'[w].pc = pc BY <1>1, <2>1, Zenon
  <2> QED BY <2>2
<1>8. ASSUME Recover(w)
      PROVE  worker'[w].pc = "recording" /\ worker'[w].outcome = worker[w].outcome
  <2>1. PICK c \in {"Success", "ApplicableFailure"} :
              Becomes(w, Worker("recording", JobOf(w), worker[w].epoch, worker[w].snapshot,
                                worker[w].outcome, c))
    BY <1>8, Moves, Zenon
  <2>2. worker'[w].pc = "recording" BY <1>1, <2>1, Zenon
  <2>3. worker'[w].outcome = worker[w].outcome BY <1>1, <2>1
  <2> QED BY <2>2, <2>3, Zenon
<1>9. ASSUME Classify(w)
      PROVE  LET c == classify(worker[w].outcome, health.healthy)
             IN  /\ worker'[w].pc = IF c = "ApplicableFailure" THEN "counting" ELSE "recording"
                 /\ worker'[w].class = c
  <2> DEFINE c  == classify(worker[w].outcome, health.healthy)
             pc == IF c = "ApplicableFailure" THEN "counting" ELSE "recording"
  <2>1. Becomes(w, Worker(pc, JobOf(w), worker[w].epoch, worker[w].snapshot,
                          worker[w].outcome, c))
    BY <1>9, Moves, Zenon
  <2> HIDE DEF c, pc
  <2>2. worker'[w].pc = pc BY <1>1, <2>1, Zenon
  <2>3. worker'[w].class = c BY <1>1, <2>1
  <2> QED BY <2>2, <2>3, ZenonT(30) DEF c, pc
<1> QED BY <1>3, <1>5, <1>6, <1>7, <1>8, <1>9, Zenon

-----------------------------------------------------------------------------
(* The inductive invariant of the probe engine.                            *)

\* Past the connection, the address of the job is among those dialled.
PastDial == {"probing", "http3", "settling", "recovering", "counting", "tripping", "recording",
             "reporting"}
EvidenceInv ==
    /\ quality = [k \in Keys |-> quality[k]]
    /\ \A w \in Workers : worker[w].pc \in PastDial => JobOf(w).addr \in dialled
    /\ EvidenceIsMeasured

\* Permits: a live worker holds one of a semaphore that was built, and the
\* loop holds one while it waits for a job.
PermitInv ==
    /\ pcfg \in ProbeConfigs /\ slots \in Seq(Nat)
    /\ engine = [pc |-> engine.pc, epoch |-> engine.epoch]
    /\ \A w \in Live : worker[w].epoch \in 1..Len(slots)
    /\ engine.pc \in {"waiting", "recv"} => engine.epoch \in 1..Len(slots)
    /\ engine.pc = "recv" => Held(engine.epoch) < slots[engine.epoch]
    /\ JobsOutBounded
    /\ StoppedIsQuiet

\* Damage: the workers that will still hold a failure against an address
\* without asking about health again, the ones that will count a failure
\* first, and the ones that will declare the subsystem healthy.
Owing == {w \in Workers : /\ worker[w].pc = "recording" /\ worker[w].class = "ApplicableFailure"
                          /\ ~Answered(worker[w].outcome)}
Counting == {w \in Workers : worker[w].pc \in {"counting", "tripping"}}
Recovering == {w \in Workers : worker[w].pc = "recovering"}
Room == Cardinality(Workers)

\* Twice what can still be added before the next answer, where g workers owe,
\* c count and r recover: by the workers past the health check; by the failures
\* the counter has left; and after each recovery that is due, by every worker
\* that is not itself still recovering.
Spell(c, r, healthy) == IF healthy THEN Room - r ELSE c
Left(failures) == IF failures < Threshold THEN Threshold - 1 - failures ELSE 0
Later(r) == r * (2 * Room - r + 1)
Due(g, c, r, healthy, failures) ==
    2 * g + 2 * Spell(c, r, healthy) + 2 * Left(failures) + Later(r)
Outstanding ==
    Due(Cardinality(Owing), Cardinality(Counting), Cardinality(Recovering),
        health.healthy, health.failures)
DamageInv ==
    /\ health = [healthy |-> health.healthy, failures |-> health.failures]
    /\ health.healthy \in BOOLEAN /\ health.failures \in 0..Threshold
    /\ penalties \in Nat
    /\ \A w \in Recovering : Answered(worker[w].outcome)
    /\ 2 * penalties + Outstanding <= 2 * DamageLimit

ProbeInv == WorkersShaped /\ EvidenceInv /\ PermitInv /\ DamageInv

\* Whatever a live worker does, it ends or goes on with its job and its
\* permit, and no other worker, nor the loop, changes.
Works(w) ==
    /\ worker[w].pc # "idle" /\ UNCHANGED <<engine, slots>>
    /\ \/ worker'[w] = IdleWorker
       \/ /\ worker'[w].pc # "idle" /\ worker'[w].job = worker[w].job
          /\ worker'[w].epoch = worker[w].epoch
    /\ \A v \in Workers : v # w => worker'[v] = worker[v]

LEMMA WorkerWorks ==
    ASSUME WorkersShaped, NEW w \in Workers, WorkerStep(w) \/ Abort(w)
    PROVE  WorkersShaped' /\ Works(w)
<1>1. ASSUME NEW r, IsWorker(r), Becomes(w, r), worker[w].pc # "idle",
             UNCHANGED <<engine, slots>>,
             r = IdleWorker \/ (r.pc # "idle" /\ r.job = worker[w].job
                                   /\ r.epoch = worker[w].epoch)
      PROVE  WorkersShaped' /\ Works(w)
  BY <1>1, OneMoves DEF Works
<1>2. IsWorker(IdleWorker) BY IdleFields
<1>3. ASSUME Becomes(w, IdleWorker), worker[w].pc # "idle", UNCHANGED <<engine, slots>>
      PROVE  WorkersShaped' /\ Works(w)
  BY <1>1, <1>2, <1>3
<1>4. ASSUME NEW p, NEW d, NEW e, NEW f, p # "idle", worker[w].pc # "idle",
             UNCHANGED <<engine, slots>>,
             Becomes(w, Worker(p, JobOf(w), worker[w].epoch, d, e, f))
      PROVE  WorkersShaped' /\ Works(w)
  <2> DEFINE r == Worker(p, JobOf(w), worker[w].epoch, d, e, f)
  <2>1. IsWorker(r) /\ r.pc = p /\ r.job = JobOf(w) /\ r.epoch = worker[w].epoch
    BY WorkerFields
  <2> HIDE DEF r
  <2>2. Becomes(w, r) BY <1>4 DEF r
  <2> QED BY <1>1, <1>4, <2>1, <2>2 DEF JobOf
<1>5. CASE Abort(w) \/ Report(w)
  <2>1. Finish(w) /\ worker[w].pc # "idle" /\ UNCHANGED <<engine, slots>>
    BY <1>5 DEF Abort, Report, Finish, At, loop
  <2> QED BY <1>3, <2>1, Updates, Zenon
<1>6. CASE Execute(w)
  <2>1. worker[w].pc # "idle" /\ UNCHANGED <<engine, slots>> BY <1>6, Zenon DEF Execute, At, loop
  <2> QED BY <1>3, <1>4, <1>6, <2>1, Moves DEF Moved
<1>7. CASE AdmitObserved(w)
  <2>1. worker[w].pc # "idle" /\ UNCHANGED <<engine, slots>>
    BY <1>7 DEF AdmitObserved, At, loop
  <2> QED BY <1>4, <1>7, <2>1, Moves
<1>8. CASE Begin(w)
  <2>1. worker[w].pc # "idle" /\ UNCHANGED <<engine, slots>>
    BY <1>8 DEF Begin, At, loop
  <2>2. Finish(w) \/ Goto(w, "probing") BY <1>8, Zenon DEF Begin
  <2>3. Becomes(w, IdleWorker) \/ Becomes(w, Moved(w, "probing")) BY <2>2, Updates, Zenon
  <2> QED BY <1>3, <1>4, <2>1, <2>3 DEF Moved
<1>9. CASE \E o \in Outcomes : Measure(w, o)
  <2>1. PICK o \in Outcomes : Measure(w, o) BY <1>9
  <2>2. worker[w].pc # "idle" /\ UNCHANGED <<engine, slots>>
    BY <2>1 DEF Measure, At, loop
  <2>3. PICK pc \in {"settling", "http3"} :
            Becomes(w, Worker(pc, JobOf(w), worker[w].epoch, worker[w].snapshot, o,
                              worker[w].class))
    BY <2>1, Moves
  <2> QED BY <1>4, <2>2, <2>3
<1>10. CASE MeasureHttp3(w) \/ ClearFailures(w) \/ Count(w) \/ Trip(w) \/ RecordQuality(w)
  <2>1. worker[w].pc # "idle" /\ UNCHANGED <<engine, slots>>
    BY <1>10 DEF MeasureHttp3, ClearFailures, Count, Trip, RecordQuality, At, loop
  <2>2. PICK pc \in {"settling", "recovering", "tripping", "recording", "reporting"} : Goto(w, pc)
    BY <1>10, Zenon DEF MeasureHttp3, ClearFailures, Count, Trip, RecordQuality
  <2>3. Becomes(w, Moved(w, pc)) BY <2>2, Updates, Zenon
  <2> QED BY <1>4, <2>1, <2>3 DEF Moved
<1>11. CASE Recover(w)
  <2>1. worker[w].pc # "idle" /\ UNCHANGED <<engine, slots>>
    BY <1>11 DEF Recover, At, loop
  <2> QED BY <1>4, <1>11, <2>1, Moves
<1>12. CASE Classify(w)
  <2>1. worker[w].pc # "idle" /\ UNCHANGED <<engine, slots>>
    BY <1>12 DEF Classify, At, loop
  <2> DEFINE c == classify(worker[w].outcome, health.healthy)
             pc == IF c = "ApplicableFailure" THEN "counting" ELSE "recording"
  <2>2. Becomes(w, Worker(pc, JobOf(w), worker[w].epoch, worker[w].snapshot,
                          worker[w].outcome, c))
    BY <1>12, Moves
  <2>3. pc # "idle" OBVIOUS
  <2> HIDE DEF c, pc
  <2> QED BY <1>4, <2>1, <2>2, <2>3
<1> QED BY <1>5, <1>6, <1>7, <1>8, <1>9, <1>10, <1>11, <1>12 DEF WorkerStep

-----------------------------------------------------------------------------
(* Permits.                                                                *)

Holders(e) == {w \in Live : worker[w].epoch = e}

LEMMA HoldersCounted ==
    ASSUME NEW e
    PROVE  Holders(e) \subseteq Workers /\ IsFiniteSet(Holders(e)) /\ Held(e) \in Nat
<1>1. Holders(e) \subseteq Workers BY DEF Holders, Live
<1>2. IsFiniteSet(Workers) BY ProbeAssumption
<1>3. IsFiniteSet(Holders(e)) BY <1>1, <1>2, FS_Subset
<1> QED BY <1>1, <1>3, FS_CardinalityType DEF Held, Holders

\* A worker's own step takes no permit.
LEMMA WorkKeepsPermits ==
    ASSUME PermitInv, NEW w \in Workers, Works(w), UNCHANGED pcfg
    PROVE  PermitInv'
<1>1. Live' \subseteq Live /\ \A v \in Live' : worker'[v].epoch = worker[v].epoch
  <2>1. ASSUME NEW v \in Workers, worker'[v].pc # "idle"
        PROVE  worker[v].pc # "idle" /\ worker'[v].epoch = worker[v].epoch
    BY <2>1, IdleFields DEF Works
  <2> QED BY <2>1 DEF Live
<1>2. ASSUME NEW e PROVE Held(e)' <= Held(e) /\ Held(e)' \in Nat /\ Held(e) \in Nat
  <2>1. Holders(e)' \subseteq Holders(e) BY <1>1 DEF Holders
  <2>2. IsFiniteSet(Holders(e)) /\ Held(e) \in Nat BY HoldersCounted
  <2>3. /\ IsFiniteSet(Holders(e)')
        /\ Cardinality(Holders(e)') <= Cardinality(Holders(e))
    BY <2>1, <2>2, FS_Subset
  <2>4. Cardinality(Holders(e)') \in Nat BY <2>3, FS_CardinalityType
  <2>5. Held(e)' = Cardinality(Holders(e)') /\ Held(e) = Cardinality(Holders(e))
    BY DEF Held, Holders
  <2> QED BY <2>2, <2>3, <2>4, <2>5
<1>3. engine' = engine /\ slots' = slots BY DEF Works
<1>4. \A v \in Live' : worker'[v].epoch \in 1..Len(slots') BY <1>1, <1>3 DEF PermitInv
<1>5. StoppedIsQuiet' BY <1>1, <1>3 DEF PermitInv, StoppedIsQuiet
<1>6. JobsOutBounded'
  <2>1. ASSUME NEW e \in DOMAIN slots PROVE Held(e)' <= slots[e]
    <3>1. Held(e) <= slots[e] /\ slots[e] \in Nat BY DEF PermitInv, JobsOutBounded
    <3> QED BY <3>1, <1>2
  <2> QED BY <2>1, <1>3 DEF JobsOutBounded, Held, Live
<1>7. (engine.pc = "recv" => Held(engine.epoch) < slots[engine.epoch])'
  <2>1. SUFFICES ASSUME engine.pc = "recv" PROVE (Held(engine.epoch) < slots[engine.epoch])'
    BY <1>3
  <2>2. PICK e \in DOMAIN slots : e = engine.epoch BY <2>1 DEF PermitInv
  <2>3. Held(e) < slots[e] /\ slots[e] \in Nat BY <2>1, <2>2 DEF PermitInv
  <2>4. Held(e)' < slots'[e] BY <2>3, <1>2, <1>3
  <2>5. e = engine'.epoch BY <2>2, <1>3
  <2> QED BY <2>4, <2>5 DEF Held
<1> QED BY <1>3, <1>4, <1>5, <1>6, <1>7 DEF PermitInv

LEMMA SpawnKeepsPermits ==
    ASSUME WorkersShaped, PermitInv, NEW w \in Workers, Spawn(w)
    PROVE  WorkersShaped' /\ PermitInv'
<1>1. /\ worker[w].pc = "idle" /\ engine.pc = "recv"
      /\ Becomes(w, Worker("spawned", Head(jobs), engine.epoch, NoSnapshot, "none", "none"))
      /\ engine' = [engine EXCEPT !.pc = "permit"] /\ UNCHANGED <<slots, pcfg>>
  <2>1. /\ worker' = [worker EXCEPT ![w] = [IdleWorker EXCEPT !.pc = "spawned",
                                                !.job = Head(jobs), !.epoch = engine.epoch]]
        /\ worker[w].pc = "idle" /\ engine.pc = "recv"
        /\ engine' = [engine EXCEPT !.pc = "permit"] /\ UNCHANGED <<slots, pcfg>>
    BY Zenon DEF Spawn, settings
  <2> QED BY <2>1, Spawned, Zenon DEF Becomes
<1> DEFINE r == Worker("spawned", Head(jobs), engine.epoch, NoSnapshot, "none", "none")
<1>2. IsWorker(r) /\ r.pc = "spawned" /\ r.epoch = engine.epoch BY WorkerFields
<1> HIDE DEF r
<1>3. /\ WorkersShaped' /\ worker'[w] = r
      /\ \A v \in Workers : v # w => worker'[v] = worker[v]
  BY <1>1, <1>2, OneMoves DEF r
<1>4. /\ engine'.pc = "permit" /\ engine'.epoch = engine.epoch
      /\ engine' = [pc |-> engine'.pc, epoch |-> engine'.epoch]
  BY <1>1 DEF PermitInv
<1>5. Live' = Live \cup {w} /\ w \notin Live BY <1>1, <1>2, <1>3 DEF Live
<1>6. \A v \in Live' : worker'[v].epoch \in 1..Len(slots')
  BY <1>1, <1>2, <1>3, <1>5 DEF PermitInv, Live
<1>7. JobsOutBounded'
  <2>1. ASSUME NEW e \in DOMAIN slots PROVE Held(e)' <= slots[e]
    <3>0. /\ Held(e) <= slots[e] /\ slots[e] \in Nat /\ Held(e) \in Nat
          /\ IsFiniteSet(Holders(e))
      BY HoldersCounted DEF PermitInv, JobsOutBounded
    <3>1. Held(e)' = Cardinality(Holders(e)') /\ Held(e) = Cardinality(Holders(e))
      BY DEF Held, Holders
    <3>2. CASE e = engine.epoch
      <4>1. Holders(e)' = Holders(e) \cup {w} /\ w \notin Holders(e)
        BY <1>2, <1>3, <1>5, <3>2 DEF Holders, Live
      <4>2. Cardinality(Holders(e)') = Cardinality(Holders(e)) + 1
        BY <4>1, <3>0, FS_AddElement, ZenonT(30)
      <4>3. Held(e) < slots[e] BY <1>1, <3>2 DEF PermitInv
      <4> QED BY <3>0, <3>1, <4>2, <4>3
    <3>3. CASE e # engine.epoch
      <4>1. Holders(e)' = Holders(e) BY <1>2, <1>3, <1>5, <3>3 DEF Holders, Live
      <4> QED BY <3>0, <3>1, <4>1
    <3> QED BY <3>2, <3>3
  <2> QED BY <2>1, <1>1 DEF JobsOutBounded, Held, Live
<1> QED BY <1>1, <1>3, <1>4, <1>6, <1>7 DEF PermitInv, StoppedIsQuiet

LEMMA LoopKeepsPermits ==
    ASSUME PermitInv, UNCHANGED worker,
           WorkerSlots \/ Acquire \/ StopTaking \/ DrainTimesOut \/ SupervisorAborts \/ Return
    PROVE  PermitInv'
<1>0. Live' = Live /\ \A e : Held(e)' = Held(e) BY DEF Live, Held
<1>1. CASE WorkerSlots
  <2> DEFINE want == IF pcfg.concurrency = 0 THEN 1 ELSE pcfg.concurrency
             kept == slots # <<>> /\ slots[Len(slots)] = want
  <2>0. want \in Nat BY ProbeAssumption DEF PermitInv
  <2>1. /\ slots' = IF kept THEN slots ELSE Append(slots, want)
        /\ engine' = [pc |-> "waiting", epoch |-> Len(slots')] /\ pcfg' = pcfg
    BY <1>1 DEF WorkerSlots, settings
  <2> HIDE DEF want, kept
  <2>2. CASE kept
    <3>1. slots' = slots /\ Len(slots) \in 1..Len(slots)
      BY <2>1, <2>2 DEF kept, PermitInv
    <3>2. JobsOutBounded' BY <1>0, <3>1 DEF PermitInv, JobsOutBounded, Held, Live
    <3> QED BY <1>0, <2>1, <3>1, <3>2 DEF PermitInv, StoppedIsQuiet, Live
  <2>3. CASE ~kept
    <3>1. /\ slots' \in Seq(Nat) /\ Len(slots') = Len(slots) + 1 /\ Len(slots) \in Nat
          /\ slots'[Len(slots) + 1] = want
          /\ \A e \in DOMAIN slots : slots'[e] = slots[e]
      BY <2>0, <2>1, <2>3 DEF PermitInv
    <3>2. Held(Len(slots) + 1) = 0
      <4>1. {v \in Live : worker[v].epoch = Len(slots) + 1} = {}
        BY <3>1 DEF PermitInv
      <4> QED BY <4>1, FS_EmptySet, Zenon DEF Held
    <3>3. ASSUME NEW e \in DOMAIN slots' PROVE Held(e)' <= slots'[e]
      <4>1. e \in DOMAIN slots \/ e = Len(slots) + 1 BY <3>1 DEF PermitInv
      <4>2. CASE e \in DOMAIN slots BY <4>2, <1>0, <3>1 DEF PermitInv, JobsOutBounded
      <4>3. CASE e = Len(slots) + 1 BY <4>3, <1>0, <3>1, <3>2, <2>0
      <4> QED BY <4>1, <4>2, <4>3
    <3>4. JobsOutBounded' BY <3>3 DEF JobsOutBounded, Held, Live
    <3>5. \A v \in Live' : worker'[v].epoch \in 1..Len(slots')
      BY <1>0, <3>1 DEF PermitInv
    <3> QED BY <2>1, <3>1, <3>4, <3>5 DEF PermitInv, StoppedIsQuiet
  <2> QED BY <2>2, <2>3
<1>2. CASE Acquire
  <2>1. /\ engine.pc = "waiting" /\ Held(engine.epoch) < slots[engine.epoch]
        /\ engine' = [engine EXCEPT !.pc = "recv"] /\ UNCHANGED <<slots, pcfg>>
    BY <1>2 DEF Acquire, settings
  <2>2. engine' = [pc |-> "recv", epoch |-> engine.epoch] BY <2>1 DEF PermitInv
  <2>3. (Held(engine.epoch) < slots[engine.epoch])'
    <3>1. engine'.epoch = engine.epoch BY <2>2
    <3> QED BY <3>1, <2>1 DEF Held, Live
  <2>4. JobsOutBounded' BY <1>0, <2>1 DEF PermitInv, JobsOutBounded, Held, Live
  <2> QED BY <1>0, <2>1, <2>2, <2>3, <2>4 DEF PermitInv, StoppedIsQuiet
<1>3. CASE StopTaking \/ DrainTimesOut \/ SupervisorAborts \/ Return
  <2>1. /\ UNCHANGED <<slots, pcfg>>
        /\ engine'.pc \notin {"waiting", "recv"}
        /\ engine' = [pc |-> engine'.pc, epoch |-> engine'.epoch]
        /\ engine'.pc = "stopped" => Live = {}
    BY <1>3 DEF StopTaking, DrainTimesOut, SupervisorAborts, Return, settings, PermitInv
  <2>2. JobsOutBounded' BY <1>0, <2>1 DEF PermitInv, JobsOutBounded, Held, Live
  <2> QED BY <1>0, <2>1, <2>2 DEF PermitInv, StoppedIsQuiet
<1> QED BY <1>1, <1>2, <1>3

-----------------------------------------------------------------------------
(* Evidence.                                                               *)

\* The keys of the quality store tell the address and what was measured.
LEMMA KeyFacts ==
    /\ \A h, g, a, b : https(h, a) = https(g, b) => a = b
    /\ \A a, b : generic(a) = generic(b) => a = b
    /\ \A a, b : quic(a) = quic(b) => a = b
    /\ \A h, a, b : https(h, a) # generic(b) /\ https(h, a) # quic(b)
    /\ \A a, b : generic(a) # quic(b)
BY DEF https, generic, quic

\* A stamp is sound when the addresses of its keys were dialled, or refused
\* where only the host's own key is stamped.
LEMMA StampSound ==
    ASSUME EvidenceInv, NEW ks, Stamp(ks),
           dialled \subseteq dialled', refused \subseteq refused',
           \A h \in Hosts, a \in Addrs : https(h, a) \in ks => a \in dialled' \cup refused',
           \A a \in Addrs : generic(a) \in ks \/ quic(a) \in ks => a \in dialled'
    PROVE  EvidenceIsMeasured' /\ quality' = [k \in Keys |-> quality'[k]]
<1>1. quality' = [k \in Keys |-> IF k \in ks THEN generation ELSE quality[k]] BY DEF Stamp
<1>2. quality' = [k \in Keys |-> quality'[k]] BY <1>1
<1>3. ASSUME NEW h \in Hosts, NEW a \in Addrs, quality'[https(h, a)] # 0
      PROVE  a \in dialled' \cup refused'
  <2>1. https(h, a) \in Keys BY DEF Keys
  <2>2. https(h, a) \in ks \/ quality[https(h, a)] # 0 BY <1>1, <1>3, <2>1
  <2>3. quality[https(h, a)] # 0 => a \in dialled \cup refused
    BY DEF EvidenceInv, EvidenceIsMeasured
  <2> QED BY <2>2, <2>3
<1>4. ASSUME NEW a \in Addrs, quality'[generic(a)] # 0 \/ quality'[quic(a)] # 0
      PROVE  a \in dialled'
  <2>1. generic(a) \in Keys /\ quic(a) \in Keys BY DEF Keys
  <2>2. \/ generic(a) \in ks \/ quic(a) \in ks
        \/ quality[generic(a)] # 0 \/ quality[quic(a)] # 0
    BY <1>1, <1>4, <2>1
  <2>3. quality[generic(a)] # 0 \/ quality[quic(a)] # 0 => a \in dialled
    BY DEF EvidenceInv, EvidenceIsMeasured
  <2> QED BY <2>2, <2>3
<1>5. EvidenceIsMeasured'
  <2>1. /\ \A h \in Hosts, a \in Addrs :
              quality'[https(h, a)] # 0 => a \in dialled' \cup refused'
        /\ \A a \in Addrs : quality'[generic(a)] # 0 \/ quality'[quic(a)] # 0 => a \in dialled'
    BY <1>3, <1>4
  <2> QED BY <2>1 DEF EvidenceIsMeasured, https, generic, quic
<1> QED BY <1>2, <1>5

LEMMA WorkKeepsEvidence ==
    ASSUME WorkersShaped, EvidenceInv, NEW w \in Workers, WorkerStep(w) \/ Abort(w)
    PROVE  EvidenceInv'
<1>1. Works(w) BY WorkerWorks
<1>2. ASSUME dialled \subseteq dialled', JobOf(w).addr \in dialled' \/ worker'[w].pc \notin PastDial
      PROVE  (\A v \in Workers : worker[v].pc \in PastDial => JobOf(v).addr \in dialled)'
  <2>1. ASSUME NEW v \in Workers, worker'[v].pc \in PastDial
        PROVE  worker'[v].job.addr \in dialled'
    <3>1. CASE v = w
      <4>1. worker'[w].job = worker[w].job
        BY <1>1, <2>1, <3>1, IdleFields DEF Works, PastDial
      <4> QED BY <1>2, <2>1, <3>1, <4>1 DEF JobOf
    <3>2. CASE v # w
      <4>1. worker'[v] = worker[v] BY <1>1, <3>2 DEF Works
      <4>2. worker[v].job.addr \in dialled BY <2>1, <4>1 DEF EvidenceInv, JobOf
      <4> QED BY <4>1, <4>2, <1>2
    <3> QED BY <3>1, <3>2
  <2> QED BY <2>1 DEF JobOf
<1>3. ASSUME UNCHANGED <<quality, dialled, refused>>,
             worker[w].pc \in PastDial \/ worker'[w].pc \notin PastDial
      PROVE  EvidenceInv'
  <2>1. JobOf(w).addr \in dialled' \/ worker'[w].pc \notin PastDial
    BY <1>3 DEF EvidenceInv
  <2> QED BY <1>2, <1>3, <2>1 DEF EvidenceInv, EvidenceIsMeasured
<1>4. ASSUME NEW r, IsWorker(r), Becomes(w, r) PROVE worker'[w] = r
  BY <1>4, OneMoves
<1>5. CASE Execute(w)
  <2>1. UNCHANGED <<quality, dialled, refused>> BY <1>5 DEF Execute, evidence, ghosts
  <2>2. worker'[w].pc \in {"idle", "ready", "admitting"}
    BY <1>5, Arrivals, Zenon
  <2> QED BY <1>3, <2>1, <2>2 DEF PastDial
<1>6. CASE AdmitObserved(w)
  <2>1. UNCHANGED <<quality, dialled, refused>> BY <1>6 DEF AdmitObserved, evidence, ghosts
  <2>2. worker'[w].pc = "ready" BY <1>6, Arrivals, Zenon
  <2> QED BY <1>3, <2>1, <2>2 DEF PastDial
<1>7. CASE Begin(w)
  <2>1. \/ Finish(w) /\ UNCHANGED <<quality, dialled, refused>>
        \/ /\ Finish(w) /\ Stamp({https(JobOf(w).host, JobOf(w).addr)})
           /\ refused' = refused \cup {JobOf(w).addr} /\ UNCHANGED dialled
        \/ dialled' = dialled \cup {JobOf(w).addr} /\ UNCHANGED <<quality, refused>>
    BY <1>7, Zenon DEF Begin
  <2>2. Finish(w) => worker'[w].pc = "idle" BY <1>4, Updates, IdleFields, Zenon
  <2>3. CASE Finish(w) /\ UNCHANGED <<quality, dialled, refused>>
    BY <1>3, <2>2, <2>3, Zenon DEF PastDial
  <2>4. CASE /\ Finish(w) /\ Stamp({https(JobOf(w).host, JobOf(w).addr)})
             /\ refused' = refused \cup {JobOf(w).addr} /\ UNCHANGED dialled
    <3>1. EvidenceIsMeasured' /\ quality' = [k \in Keys |-> quality'[k]]
      <4>1. \A h \in Hosts, a \in Addrs : https(h, a) \in {https(JobOf(w).host, JobOf(w).addr)}
                => a \in dialled' \cup refused'
        BY <2>4, KeyFacts
      <4>2. \A a \in Addrs : \/ generic(a) \in {https(JobOf(w).host, JobOf(w).addr)}
                             \/ quic(a) \in {https(JobOf(w).host, JobOf(w).addr)}
                => a \in dialled'
        BY KeyFacts
      <4> QED BY <2>4, <4>1, <4>2, StampSound
    <3> QED BY <1>2, <2>2, <2>4, <3>1 DEF EvidenceInv, PastDial
  <2>5. CASE dialled' = dialled \cup {JobOf(w).addr} /\ UNCHANGED <<quality, refused>>
    <3>1. EvidenceIsMeasured' BY <2>5 DEF EvidenceInv, EvidenceIsMeasured
    <3> QED BY <1>2, <2>5, <3>1 DEF EvidenceInv
  <2> QED BY <2>1, <2>3, <2>4, <2>5
<1>8. CASE Abort(w) \/ Report(w)
  <2>1. Finish(w) /\ UNCHANGED <<quality, dialled, refused>>
    BY <1>8 DEF Abort, Report, Finish, evidence, ghosts
  <2>2. worker'[w].pc = "idle" BY <1>4, <2>1, Updates, IdleFields, Zenon
  <2> QED BY <1>3, <2>1, <2>2 DEF PastDial
<1>9. CASE (\E o \in Outcomes : Measure(w, o)) \/ ClearFailures(w) \/ Recover(w) \/ Classify(w)
             \/ Count(w) \/ Trip(w)
  <2>1. worker[w].pc \in PastDial /\ UNCHANGED <<quality, dialled, refused>>
    BY <1>9 DEF Measure, ClearFailures, Recover, Classify, Count, Trip, At, PastDial, evidence,
                ghosts
  <2> QED BY <1>3, <2>1
<1>10. CASE MeasureHttp3(w)
  <2>1. /\ worker[w].pc \in PastDial /\ UNCHANGED <<dialled, refused>>
        /\ Stamp({quic(JobOf(w).addr)})
    BY <1>10 DEF MeasureHttp3, At, PastDial, ghosts
  <2>2. JobOf(w).addr \in dialled BY <2>1 DEF EvidenceInv
  <2>3. EvidenceIsMeasured' /\ quality' = [k \in Keys |-> quality'[k]]
    <3>1. \A h \in Hosts, a \in Addrs : https(h, a) \in {quic(JobOf(w).addr)}
            => a \in dialled' \cup refused'
      BY KeyFacts
    <3>2. \A a \in Addrs : generic(a) \in {quic(JobOf(w).addr)} \/ quic(a) \in {quic(JobOf(w).addr)}
            => a \in dialled'
      BY <2>1, <2>2, KeyFacts
    <3> QED BY <2>1, <3>1, <3>2, StampSound
  <2> QED BY <1>2, <2>1, <2>2, <2>3 DEF EvidenceInv
<1>11. CASE RecordQuality(w)
  <2> DEFINE j == JobOf(w)
             ks == {https(j.host, j.addr)}
                      \cup (IF Answered(worker[w].outcome)
                                 \/ worker[w].outcome \in {"Connect", "Timeout"}
                            THEN {generic(j.addr)} ELSE {})
  <2>1. worker[w].pc \in PastDial /\ UNCHANGED <<dialled, refused>> /\ Stamp(ks)
    BY <1>11 DEF RecordQuality, At, PastDial
  <2>2. j.addr \in dialled BY <2>1, Zenon DEF EvidenceInv
  <2>3. \A h \in Hosts, a \in Addrs : https(h, a) \in ks => a \in dialled' \cup refused'
    BY <2>1, <2>2, KeyFacts, ZenonT(30)
  <2>4. \A a \in Addrs : generic(a) \in ks \/ quic(a) \in ks => a \in dialled'
    BY <2>1, <2>2, KeyFacts
  <2> HIDE DEF ks
  <2>5. EvidenceIsMeasured' /\ quality' = [k \in Keys |-> quality'[k]]
    BY <2>1, <2>3, <2>4, StampSound
  <2> QED BY <1>2, <2>1, <2>2, <2>5, ZenonT(30) DEF EvidenceInv
<1> QED BY <1>5, <1>6, <1>7, <1>8, <1>9, <1>10, <1>11 DEF WorkerStep

-----------------------------------------------------------------------------
(* Damage.                                                                 *)

LEMMA Triangle ==
    ASSUME NEW n \in Nat
    PROVE  2 * ((n * (n + 1)) \div 2) = n * (n + 1) /\ (n * (n + 1)) \div 2 \in Nat
<1>1. PICK m \in Nat : n = 2 * m \/ n = 2 * m + 1
  <2>1. n \div 2 \in Nat /\ (n = 2 * (n \div 2) \/ n = 2 * (n \div 2) + 1) OBVIOUS
  <2> QED BY <2>1
<1>2. PICK k \in Nat : n * (n + 1) = 2 * k
  <2>1. CASE n = 2 * m
    <3>1. m * (2 * m + 1) \in Nat /\ n * (n + 1) = 2 * (m * (2 * m + 1)) BY <2>1
    <3> QED BY <3>1, Zenon
  <2>2. CASE n = 2 * m + 1
    <3>1. (2 * m + 1) * (m + 1) \in Nat /\ n * (n + 1) = 2 * ((2 * m + 1) * (m + 1)) BY <2>2
    <3> QED BY <3>1, Zenon
  <2> QED BY <1>1, <2>1, <2>2
<1>3. (2 * k) \div 2 = k OBVIOUS
<1> QED BY <1>2, <1>3

\* The room left when the count is cleared while r workers recover.
LEMMA RoomToClear ==
    ASSUME NEW W \in Nat, NEW r \in Nat, r <= W
    PROVE  4 * (W - r) + r * (2 * W - r + 1) <= 2 + W * (W + 1)
<1>1. PICK k \in Nat : W = r + k
  <2>1. W - r \in Nat /\ W = r + (W - r) OBVIOUS
  <2> QED BY <2>1
<1>2. W * (W + 1) - r * (2 * W - r + 1) = k * k + k BY <1>1
<1>3. 4 * k <= 2 + k * k + k
  <2>1. CASE k <= 1 BY <2>1
  <2>2. CASE k >= 2
    <3>1. PICK i \in Nat : k = i + 2
      <4>1. k - 2 \in Nat /\ k = (k - 2) + 2 BY <2>2
      <4> QED BY <4>1
    <3>2. i * i >= 0 OBVIOUS
    <3>3. 2 + k * k + k - 4 * k = i * i + i BY <3>1
    <3> QED BY <3>1, <3>2, <3>3
  <2> QED BY <2>1, <2>2
<1> QED BY <1>1, <1>2, <1>3

\* A recovery is paid for by what was set aside for it.
LEMMA RecoveryIsPaid ==
    ASSUME NEW W \in Nat, NEW r \in Nat
    PROVE  (r + 1) * (2 * W - (r + 1) + 1) = r * (2 * W - r + 1) + 2 * (W - r)
OBVIOUS

LEMMA LimitTwice ==
    /\ Room \in Nat /\ Threshold \in Nat \ {0} /\ DamageLimit \in Nat
    /\ 2 * DamageLimit = 2 * Threshold + Room * (Room + 1)
<1>1. IsFiniteSet(Workers) /\ Threshold \in Nat \ {0} BY ProbeAssumption
<1>2. Room \in Nat BY <1>1, FS_CardinalityType DEF Room
<1> DEFINE t == (Room * (Room + 1)) \div 2
<1>3. t \in Nat /\ 2 * t = Room * (Room + 1) BY <1>2, Triangle
<1>4. DamageLimit = Threshold + t BY DEF DamageLimit, Room
<1> HIDE DEF t
<1> QED BY <1>1, <1>2, <1>3, <1>4

LEMMA Sizes ==
    /\ IsFiniteSet(Owing) /\ IsFiniteSet(Counting) /\ IsFiniteSet(Recovering)
    /\ Cardinality(Owing) \in Nat /\ Cardinality(Counting) \in Nat
    /\ Cardinality(Recovering) \in Nat
    /\ Cardinality(Owing) + Cardinality(Recovering) <= Room
    /\ Cardinality(Counting) + Cardinality(Recovering) <= Room
<1>1. IsFiniteSet(Workers) BY ProbeAssumption
<1>2. Owing \subseteq Workers /\ Counting \subseteq Workers /\ Recovering \subseteq Workers
  BY DEF Owing, Counting, Recovering
<1>3. IsFiniteSet(Owing) /\ IsFiniteSet(Counting) /\ IsFiniteSet(Recovering)
  BY <1>1, <1>2, FS_Subset
<1>4. /\ Cardinality(Owing) \in Nat /\ Cardinality(Counting) \in Nat
      /\ Cardinality(Recovering) \in Nat
  BY <1>3, FS_CardinalityType
<1>5. ASSUME NEW X \in SUBSET Workers, X \cap Recovering = {}
      PROVE  Cardinality(X) + Cardinality(Recovering) <= Room
  <2>1. IsFiniteSet(X) /\ IsFiniteSet(Recovering) BY <1>1, <1>3, FS_Subset
  <2>2. Cardinality(X \cup Recovering)
          = Cardinality(X) + Cardinality(Recovering) - Cardinality(X \cap Recovering)
    BY <2>1, FS_Union
  <2>3. Cardinality(X \cap Recovering) = 0 BY <1>5, FS_EmptySet
  <2>4. Cardinality(X \cup Recovering) <= Cardinality(Workers)
    BY <1>1, <1>2, FS_Subset
  <2>5. Cardinality(X) \in Nat /\ Cardinality(Recovering) \in Nat
    BY <2>1, FS_CardinalityType
  <2> QED BY <2>2, <2>3, <2>4, <2>5 DEF Room
<1>6. Owing \cap Recovering = {} /\ Counting \cap Recovering = {}
  BY DEF Owing, Counting, Recovering
<1> QED BY <1>2, <1>3, <1>4, <1>5, <1>6

\* How the steps of the health protocol change what is due.  What is due is a
\* sum of four natural numbers.
LEMMA DueParts ==
    ASSUME NEW c \in Nat, NEW r \in Nat, NEW h \in BOOLEAN, NEW f \in 0..Threshold,
           c + r <= Room
    PROVE  Spell(c, r, h) \in Nat /\ Left(f) \in Nat /\ Later(r) \in Nat
<1>0. Room \in Nat /\ Threshold \in Nat \ {0} /\ f \in Nat /\ f <= Threshold BY LimitTwice
<1>1. Left(f) \in Nat BY <1>0 DEF Left
<1>2. Spell(c, r, h) \in Nat
  <2>1. CASE h = TRUE BY <1>0, <2>1 DEF Spell
  <2>2. CASE h = FALSE BY <1>0, <2>2 DEF Spell
  <2> QED BY <2>1, <2>2, Zenon
<1>3. Later(r) \in Nat
  <2>1. 2 * Room - r + 1 \in Nat BY <1>0
  <2> QED BY <2>1 DEF Later
<1> QED BY <1>1, <1>2, <1>3

LEMMA DueNat ==
    ASSUME NEW g \in Nat, NEW c \in Nat, NEW r \in Nat, NEW h \in BOOLEAN,
           NEW f \in 0..Threshold, c + r <= Room
    PROVE  Due(g, c, r, h, f) \in Nat
<1>1. PICK u \in Nat, b \in Nat, x \in Nat : u = Spell(c, r, h) /\ b = Left(f) /\ x = Later(r)
  BY DueParts, Zenon
<1>2. Due(g, c, r, h, f) = 2 * g + 2 * u + 2 * b + x BY <1>1 DEF Due
<1> QED BY <1>2

LEMMA DueCounted ==
    ASSUME NEW g \in Nat, NEW c \in Nat, NEW r \in Nat, NEW h \in BOOLEAN,
           NEW f \in 0..Threshold, c + r <= Room,
           NEW e \in Nat, NEW d \in Nat, e <= g + 1, c = d + 1, f + 1 < Threshold
    PROVE  Due(e, d, r, h, f + 1) <= Due(g, c, r, h, f)
<1>0. Room \in Nat /\ Threshold \in Nat \ {0} /\ f \in Nat /\ d + r <= Room
        /\ f + 1 \in 0..Threshold
  BY LimitTwice
<1>1. PICK u \in Nat, b \in Nat, x \in Nat : u = Spell(c, r, h) /\ b = Left(f) /\ x = Later(r)
  BY DueParts, Zenon
<1>2. PICK v \in Nat, a \in Nat : v = Spell(d, r, h) /\ a = Left(f + 1) BY <1>0, DueParts, Zenon
<1>3. v <= u BY <1>0, <1>1, <1>2 DEF Spell
<1>4. b = a + 1 BY <1>0, <1>1, <1>2 DEF Left
<1>5. 2 * e + 2 * v + 2 * a + x <= 2 * g + 2 * u + 2 * b + x BY <1>3, <1>4
<1> QED BY <1>1, <1>2, <1>5 DEF Due

LEMMA DueAtThreshold ==
    ASSUME NEW g \in Nat, NEW c \in Nat, NEW r \in Nat, NEW h \in BOOLEAN,
           NEW f \in 0..Threshold, c + r <= Room
    PROVE  Due(g, c, r, h, Threshold) <= Due(g, c, r, h, f)
<1>0. Threshold \in Nat BY LimitTwice
<1>1. PICK u \in Nat, b \in Nat, x \in Nat : u = Spell(c, r, h) /\ b = Left(f) /\ x = Later(r)
  BY DueParts, Zenon
<1>2. Left(Threshold) = 0 BY <1>0 DEF Left
<1>3. 2 * g + 2 * u + 2 * 0 + x <= 2 * g + 2 * u + 2 * b + x OBVIOUS
<1> QED BY <1>1, <1>2, <1>3 DEF Due

LEMMA DueTripped ==
    ASSUME NEW g \in Nat, NEW c \in Nat, NEW r \in Nat, NEW h \in BOOLEAN,
           NEW f \in 0..Threshold, c + r <= Room,
           NEW e \in Nat, NEW d \in Nat, e <= g + 1, c = d + 1
    PROVE  Due(e, d, r, FALSE, f) <= Due(g, c, r, h, f)
<1>0. Room \in Nat BY LimitTwice
<1>1. PICK u \in Nat, b \in Nat, x \in Nat : u = Spell(c, r, h) /\ b = Left(f) /\ x = Later(r)
  BY DueParts, Zenon
<1>2. Spell(d, r, FALSE) = d BY DEF Spell
<1>3. d + 1 <= u BY <1>0, <1>1 DEF Spell
<1>4. 2 * e + 2 * d + 2 * b + x <= 2 * g + 2 * u + 2 * b + x BY <1>3
<1> QED BY <1>1, <1>2, <1>4, Zenon DEF Due

LEMMA DueRecorded ==
    ASSUME NEW g \in Nat, NEW c \in Nat, NEW r \in Nat, NEW h \in BOOLEAN,
           NEW f \in 0..Threshold, c + r <= Room, NEW e \in Nat, g = e + 1
    PROVE  Due(g, c, r, h, f) = Due(e, c, r, h, f) + 2
<1>1. PICK u \in Nat, b \in Nat, x \in Nat : u = Spell(c, r, h) /\ b = Left(f) /\ x = Later(r)
  BY DueParts, Zenon
<1>2. Due(g, c, r, h, f) = 2 * g + 2 * u + 2 * b + x BY <1>1 DEF Due
<1>3. Due(e, c, r, h, f) = 2 * e + 2 * u + 2 * b + x BY <1>1 DEF Due
<1> QED BY <1>2, <1>3

LEMMA DueRecovered ==
    ASSUME NEW g \in Nat, NEW c \in Nat, NEW r \in Nat, NEW h \in BOOLEAN,
           NEW f \in 0..Threshold, c + r <= Room, NEW q \in Nat, r = q + 1
    PROVE  Due(g, c, q, TRUE, f) <= Due(g, c, r, h, f)
<1>0. Room \in Nat /\ c + q <= Room /\ q <= Room BY LimitTwice
<1>1. PICK u \in Nat, b \in Nat, x \in Nat : u = Spell(c, r, h) /\ b = Left(f) /\ x = Later(r)
  BY DueParts, Zenon
<1>2. PICK v \in Nat, y \in Nat : v = Room - q /\ y = Later(q)
  <2>1. Room - q \in Nat BY <1>0
  <2>2. Later(q) \in Nat BY <1>0, DueParts
  <2> QED BY <2>1, <2>2
<1>3. x = y + 2 * v
  <2>1. (q + 1) * (2 * Room - (q + 1) + 1) = q * (2 * Room - q + 1) + 2 * (Room - q)
    BY <1>0, RecoveryIsPaid
  <2> QED BY <1>1, <1>2, <2>1 DEF Later
<1>4. 2 * g + 2 * v + 2 * b + y <= 2 * g + 2 * u + 2 * b + x BY <1>3
<1>5. Spell(c, q, TRUE) = v BY <1>2 DEF Spell
<1> QED BY <1>1, <1>2, <1>4, <1>5, Zenon DEF Due

LEMMA DueCleared ==
    ASSUME NEW g \in Nat, NEW c \in Nat, NEW r \in Nat, NEW h \in BOOLEAN,
           g + r <= Room, c + r <= Room
    PROVE  Due(g, c, r, h, 0) <= 2 * Threshold + Room * (Room + 1)
<1>0. Room \in Nat /\ Threshold \in Nat \ {0} /\ r <= Room /\ 0 \in 0..Threshold
  BY LimitTwice
<1>1. PICK u \in Nat, b \in Nat, x \in Nat : u = Spell(c, r, h) /\ b = Left(0) /\ x = Later(r)
  BY <1>0, DueParts, ZenonT(30)
<1>2. PICK z \in Nat : z = Room * (Room + 1) BY <1>0
<1>3. 4 * (Room - r) + x <= 2 + z BY <1>0, <1>1, <1>2, RoomToClear DEF Later
<1>4. u <= Room - r BY <1>0, <1>1 DEF Spell
<1>5. b = Threshold - 1 BY <1>0, <1>1 DEF Left
<1>6. 2 * g + 2 * u + 2 * b + x <= 2 * Threshold + z BY <1>0, <1>3, <1>4, <1>5
<1> QED BY <1>1, <1>2, <1>6 DEF Due

LEMMA Within ==
    ASSUME NEW p \in Nat, NEW L \in Nat, NEW a \in Nat, NEW b \in Nat,
           2 * p + a <= 2 * L, b <= a
    PROVE  2 * p + b <= 2 * L
OBVIOUS

LEMMA DamageParts ==
    ASSUME DamageInv
    PROVE  \E g \in Nat, c \in Nat, r \in Nat, h \in BOOLEAN, f \in 0..Threshold :
              /\ g = Cardinality(Owing) /\ c = Cardinality(Counting) /\ r = Cardinality(Recovering)
              /\ h = health.healthy /\ f = health.failures /\ g + r <= Room /\ c + r <= Room
              /\ penalties \in Nat /\ 2 * penalties + Due(g, c, r, h, f) <= 2 * DamageLimit
BY Sizes DEF DamageInv, Outstanding

LEMMA PartsFinite ==
    /\ IsFiniteSet(Owing) /\ IsFiniteSet(Counting) /\ IsFiniteSet(Recovering)
    /\ Cardinality(Owing') \in Nat /\ Cardinality(Counting') \in Nat
    /\ Cardinality(Recovering') \in Nat
    /\ IsFiniteSet(Owing') /\ IsFiniteSet(Counting') /\ IsFiniteSet(Recovering')
<1>1. IsFiniteSet(Workers) BY ProbeAssumption
<1>2. /\ Owing \subseteq Workers /\ Counting \subseteq Workers /\ Recovering \subseteq Workers
      /\ Owing' \subseteq Workers /\ Counting' \subseteq Workers /\ Recovering' \subseteq Workers
  BY Zenon DEF Owing, Counting, Recovering
<1> QED BY <1>1, <1>2, FS_Subset, FS_CardinalityType, Zenon

LEMMA OneOwesMore ==
    ASSUME NEW w \in Workers, \A v \in Workers : v # w => worker'[v] = worker[v]
    PROVE  Cardinality(Owing') <= Cardinality(Owing) + 1
<1>1. Owing' \subseteq Owing \cup {w} BY DEF Owing
<1>2. IsFiniteSet(Owing) /\ Cardinality(Owing) \in Nat BY PartsFinite, FS_CardinalityType, Zenon
<1>3. /\ IsFiniteSet(Owing \cup {w})
      /\ \/ Cardinality(Owing \cup {w}) = Cardinality(Owing)
         \/ Cardinality(Owing \cup {w}) = Cardinality(Owing) + 1
  BY <1>2, FS_AddElement, Zenon
<1>4. Cardinality(Owing') <= Cardinality(Owing \cup {w}) BY <1>1, <1>3, FS_Subset, Zenon
<1>5. Cardinality(Owing') \in Nat BY PartsFinite
<1> QED BY <1>2, <1>3, <1>4, <1>5

\* A step away from the health protocol changes nothing here.
Involved == {"recording", "counting", "tripping", "recovering"}
LEMMA AsideKeepsDamage ==
    ASSUME DamageInv, NEW w \in Workers, \A v \in Workers : v # w => worker'[v] = worker[v],
           worker[w].pc \notin Involved, worker'[w].pc \notin Involved,
           UNCHANGED <<health, penalties>>
    PROVE  DamageInv'
<1>1. Owing' = Owing /\ Counting' = Counting /\ Recovering' = Recovering
  BY DEF Owing, Counting, Recovering, Involved
<1>2. \A v \in Recovering' : Answered(worker'[v].outcome)
  BY <1>1 DEF DamageInv, Recovering, Involved
<1> QED BY <1>1, <1>2, ZenonT(30) DEF DamageInv, Outstanding

\* The answer: nothing is held any more, and one more worker will recover.
LEMMA ClearKeepsDamage ==
    ASSUME WorkersShaped, DamageInv, NEW w \in Workers, ClearFailures(w),
           \A v \in Workers : v # w => worker'[v] = worker[v]
    PROVE  DamageInv'
<1>a. PICK g \in Nat, c \in Nat, r \in Nat, h \in BOOLEAN, f \in 0..Threshold :
          /\ g = Cardinality(Owing) /\ c = Cardinality(Counting) /\ r = Cardinality(Recovering)
          /\ h = health.healthy /\ f = health.failures /\ g + r <= Room /\ c + r <= Room
          /\ penalties \in Nat /\ 2 * penalties + Due(g, c, r, h, f) <= 2 * DamageLimit
  BY DamageParts, Zenon
<1>b. /\ IsFiniteSet(Owing) /\ IsFiniteSet(Counting) /\ IsFiniteSet(Recovering)
      /\ Cardinality(Owing') \in Nat /\ Cardinality(Counting') \in Nat
      /\ Cardinality(Recovering') \in Nat
      /\ IsFiniteSet(Owing') /\ IsFiniteSet(Counting') /\ IsFiniteSet(Recovering')
  BY PartsFinite, ZenonT(30)
<1>c. DamageLimit \in Nat /\ 2 * DamageLimit = 2 * Threshold + Room * (Room + 1)
        /\ Threshold \in Nat \ {0} /\ Room \in Nat
  BY LimitTwice
<1>1. /\ worker[w].pc = "settling" /\ Answered(worker[w].outcome)
      /\ health' = [health EXCEPT !.failures = 0] /\ penalties' = 0
      /\ Goto(w, "recovering")
  BY DEF ClearFailures, At
<1>2. worker'[w].pc = "recovering" /\ worker'[w].outcome = worker[w].outcome
  BY <1>1, GotoFacts
<1>3. /\ health' = [healthy |-> health'.healthy, failures |-> health'.failures]
      /\ health'.failures = 0 /\ health'.healthy = h
  BY <1>a, <1>1 DEF DamageInv
<1>4. \A v \in Recovering' : Answered(worker'[v].outcome)
  BY <1>1, <1>2 DEF DamageInv, Recovering
<1>5. PICK g2 \in Nat, c2 \in Nat, r2 \in Nat :
          /\ g2 = Cardinality(Owing') /\ c2 = Cardinality(Counting')
          /\ r2 = Cardinality(Recovering') /\ g2 + r2 <= Room /\ c2 + r2 <= Room
  <2>1. Owing' = Owing /\ Counting' = Counting
    BY <1>1, <1>2 DEF Owing, Counting
  <2>2. Recovering' = Recovering \cup {w} /\ w \notin Recovering
    BY <1>1, <1>2 DEF Recovering
  <2>3. /\ Cardinality(Owing') + Cardinality(Recovering') <= Cardinality(Workers)
        /\ Cardinality(Counting') + Cardinality(Recovering') <= Cardinality(Workers)
    <3>1. ASSUME NEW X \in SUBSET Workers, X \cap Recovering' = {}
          PROVE  Cardinality(X) + Cardinality(Recovering') <= Cardinality(Workers)
      <4>1. IsFiniteSet(Workers) /\ Recovering' \subseteq Workers
        BY ProbeAssumption, Zenon DEF Recovering
      <4>2. IsFiniteSet(X) /\ Cardinality(X) \in Nat BY <4>1, FS_Subset, FS_CardinalityType, Zenon
      <4>3. Cardinality(X \cup Recovering')
              = Cardinality(X) + Cardinality(Recovering') - Cardinality(X \cap Recovering')
        BY <1>b, <4>2, FS_Union, Zenon
      <4>4. Cardinality(X \cap Recovering') = 0 BY <3>1, FS_EmptySet, ZenonT(30)
      <4>5. Cardinality(X \cup Recovering') <= Cardinality(Workers) BY <4>1, FS_Subset, ZenonT(30)
      <4> QED BY <1>b, <4>2, <4>3, <4>4, <4>5, SMTT(60)
    <3>2. /\ Owing' \subseteq Workers /\ Counting' \subseteq Workers
          /\ Owing' \cap Recovering' = {} /\ Counting' \cap Recovering' = {}
      BY DEF Owing, Counting, Recovering
    <3> QED BY <3>1, <3>2, Zenon
  <2> QED BY <1>b, <2>3, Zenon DEF Room
<1>6. 0 \in 0..Threshold BY <1>c
<1>7. Due(g2, c2, r2, h, 0) <= 2 * Threshold + Room * (Room + 1)
  BY <1>5, DueCleared, ZenonT(30)
<1>8. Outstanding' = Due(g2, c2, r2, h, 0) BY <1>3, <1>5, ZenonT(30) DEF Outstanding, Due, Spell, Left, Later, Room
<1>9. Due(g2, c2, r2, h, 0) \in Nat BY <1>5, <1>6, DueNat
<1>10. 2 * penalties' + Outstanding' <= 2 * DamageLimit
  BY <1>c, <1>1, <1>7, <1>8, <1>9
<1> QED BY <1>a, <1>1, <1>3, <1>4, <1>6, <1>10 DEF DamageInv

\* A recovery uses what was set aside for it.
LEMMA RecoverKeepsDamage ==
    ASSUME WorkersShaped, DamageInv, NEW w \in Workers, Recover(w),
           \A v \in Workers : v # w => worker'[v] = worker[v]
    PROVE  DamageInv'
<1>a. PICK g \in Nat, c \in Nat, r \in Nat, h \in BOOLEAN, f \in 0..Threshold :
          /\ g = Cardinality(Owing) /\ c = Cardinality(Counting) /\ r = Cardinality(Recovering)
          /\ h = health.healthy /\ f = health.failures /\ g + r <= Room /\ c + r <= Room
          /\ penalties \in Nat /\ 2 * penalties + Due(g, c, r, h, f) <= 2 * DamageLimit
  BY DamageParts, Zenon
<1>b. /\ IsFiniteSet(Owing) /\ IsFiniteSet(Counting) /\ IsFiniteSet(Recovering)
      /\ Cardinality(Owing') \in Nat /\ Cardinality(Counting') \in Nat
      /\ Cardinality(Recovering') \in Nat
      /\ IsFiniteSet(Owing') /\ IsFiniteSet(Counting') /\ IsFiniteSet(Recovering')
  BY PartsFinite
<1>c. DamageLimit \in Nat /\ 2 * DamageLimit = 2 * Threshold + Room * (Room + 1)
        /\ Threshold \in Nat \ {0} /\ Room \in Nat
  BY LimitTwice
<1>d. DamageLimit \in Nat BY LimitTwice
<1>1. /\ worker[w].pc = "recovering" /\ penalties' = penalties
      /\ health' = [health EXCEPT !.healthy = TRUE]
  BY DEF Recover, At, ghosts
<1>2. worker'[w].pc = "recording" /\ worker'[w].outcome = worker[w].outcome
  BY Arrivals, Zenon
<1>3. /\ health' = [healthy |-> health'.healthy, failures |-> health'.failures]
      /\ health'.failures = f /\ health'.healthy = TRUE
  BY <1>a, <1>1, Zenon DEF DamageInv
<1>4. Answered(worker[w].outcome) BY <1>1 DEF DamageInv, Recovering
<1>5. Owing' = Owing /\ Counting' = Counting
  BY <1>1, <1>2, <1>4, ZenonT(30) DEF Owing, Counting
<1>6. Recovering' = Recovering \ {w} /\ w \in Recovering BY <1>1, <1>2 DEF Recovering
<1>7. \A v \in Recovering' : Answered(worker'[v].outcome)
  BY <1>2, <1>4, <1>6, ZenonT(40) DEF DamageInv, Recovering
<1>8. PICK q \in Nat : q = Cardinality(Recovering') /\ r = q + 1
  <2>1. Cardinality(Recovering') = Cardinality(Recovering) - 1
    BY <1>b, <1>6, FS_RemoveElement, ZenonT(30)
  <2>2. \A m, n \in Nat : m = n - 1 => n = m + 1 OBVIOUS
  <2>3. r \in Nat /\ r = Cardinality(Recovering) BY <1>a, Zenon
  <2> QED BY <1>b, <2>1, <2>2, <2>3, Zenon
<1>9. Due(g, c, q, TRUE, f) <= Due(g, c, r, h, f)
  BY <1>a, <1>8, DueRecovered, Zenon
<1>10. Outstanding' = Due(g, c, q, TRUE, f)
  BY <1>a, <1>3, <1>5, <1>8, Zenon DEF Outstanding, Due, Spell, Left, Later, Room
<1>11. Due(g, c, r, h, f) \in Nat BY <1>a, DueNat, ZenonT(40)
<1>12. Due(g, c, q, TRUE, f) \in Nat
  <2>1. c + q <= Room BY <1>a, <1>c, <1>8
  <2> QED BY <1>a, <1>8, <2>1, DueNat, Zenon
<1>13. 2 * penalties' + Outstanding' <= 2 * DamageLimit
  BY <1>a, <1>d, <1>1, <1>9, <1>10, <1>11, <1>12, Within, ZenonT(40)
<1> QED BY <1>a, <1>1, <1>3, <1>7, <1>13, ZenonT(30) DEF DamageInv

\* While the subsystem is healthy a worker may join those that count.
LEMMA ClassifyKeepsDamage ==
    ASSUME WorkersShaped, DamageInv, NEW w \in Workers, Classify(w),
           \A v \in Workers : v # w => worker'[v] = worker[v]
    PROVE  DamageInv'
<1>a. PICK g \in Nat, c \in Nat, r \in Nat, h \in BOOLEAN, f \in 0..Threshold :
          /\ g = Cardinality(Owing) /\ c = Cardinality(Counting) /\ r = Cardinality(Recovering)
          /\ h = health.healthy /\ f = health.failures /\ g + r <= Room /\ c + r <= Room
          /\ penalties \in Nat /\ 2 * penalties + Due(g, c, r, h, f) <= 2 * DamageLimit
  BY DamageParts, Zenon
<1>b. /\ IsFiniteSet(Owing) /\ IsFiniteSet(Counting) /\ IsFiniteSet(Recovering)
      /\ Cardinality(Owing') \in Nat /\ Cardinality(Counting') \in Nat
      /\ Cardinality(Recovering') \in Nat
      /\ IsFiniteSet(Owing') /\ IsFiniteSet(Counting') /\ IsFiniteSet(Recovering')
  BY PartsFinite
<1> DEFINE k == classify(worker[w].outcome, health.healthy)
           pc == IF k = "ApplicableFailure" THEN "counting" ELSE "recording"
<1>1. worker[w].pc = "settling" /\ UNCHANGED <<health, penalties>>
  BY DEF Classify, At, evidence, ghosts
<1>2. health.healthy = FALSE => k = "AmbiguousFailure" BY Zenon DEF classify
<1>3. worker'[w].pc = pc /\ worker'[w].class = k
  BY Arrivals, Zenon
<1>4. Owing' = Owing BY <1>1, <1>3, Zenon DEF Owing
<1>5. Recovering' = Recovering BY <1>1, <1>3, ZenonT(30) DEF Recovering
<1>6. health.healthy = FALSE => Counting' = Counting BY <1>1, <1>2, <1>3, Zenon DEF Counting
<1>7. \A v \in Recovering' : Answered(worker'[v].outcome)
  BY <1>1, <1>5, ZenonT(30) DEF DamageInv, Recovering
<1>8. Outstanding' = Due(g, c, r, h, f)
  <2>1. Outstanding' = Due(g, Cardinality(Counting'), r, h, f)
    BY <1>a, <1>1, <1>4, <1>5, Zenon DEF Outstanding, Due, Spell, Left, Later, Room
  <2>2. CASE h = TRUE
    <3>1. PICK d \in Nat : d = Cardinality(Counting') BY <1>b
    <3>2. Due(g, d, r, TRUE, f) = Due(g, c, r, TRUE, f) BY DEF Due, Spell
    <3> QED BY <2>1, <2>2, <3>1, <3>2, Zenon
  <2>3. CASE h = FALSE BY <1>a, <1>6, <2>1, <2>3, ZenonT(30)
  <2> QED BY <2>2, <2>3, Zenon
<1> QED BY <1>a, <1>1, <1>7, <1>8, Zenon DEF DamageInv

\* A counted failure uses what the counter had left, or is about to trip.
LEMMA CountKeepsDamage ==
    ASSUME WorkersShaped, DamageInv, NEW w \in Workers, Count(w),
           \A v \in Workers : v # w => worker'[v] = worker[v]
    PROVE  DamageInv'
<1>a. PICK g \in Nat, c \in Nat, r \in Nat, h \in BOOLEAN, f \in 0..Threshold :
          /\ g = Cardinality(Owing) /\ c = Cardinality(Counting) /\ r = Cardinality(Recovering)
          /\ h = health.healthy /\ f = health.failures /\ g + r <= Room /\ c + r <= Room
          /\ penalties \in Nat /\ 2 * penalties + Due(g, c, r, h, f) <= 2 * DamageLimit
  BY DamageParts, Zenon
<1>b. /\ IsFiniteSet(Owing) /\ IsFiniteSet(Counting) /\ IsFiniteSet(Recovering)
      /\ Cardinality(Owing') \in Nat /\ Cardinality(Counting') \in Nat
      /\ Cardinality(Recovering') \in Nat
      /\ IsFiniteSet(Owing') /\ IsFiniteSet(Counting') /\ IsFiniteSet(Recovering')
  BY PartsFinite
<1>c. DamageLimit \in Nat /\ 2 * DamageLimit = 2 * Threshold + Room * (Room + 1)
        /\ Threshold \in Nat \ {0} /\ Room \in Nat
  BY LimitTwice
<1>d. DamageLimit \in Nat BY LimitTwice
<1> DEFINE n == health.failures + 1
           pc == IF n >= Threshold THEN "tripping" ELSE "recording"
<1>1. /\ worker[w].pc = "counting" /\ penalties' = penalties
      /\ health' = [health EXCEPT !.failures = IF n > Threshold THEN Threshold ELSE n]
      /\ Goto(w, pc)
  BY DEF Count, At, ghosts
<1>2. /\ health' = [healthy |-> health'.healthy, failures |-> health'.failures]
      /\ health'.healthy = h
      /\ health'.failures = IF n > Threshold THEN Threshold ELSE n
  BY <1>a, <1>1 DEF DamageInv
<1>3. worker'[w].pc = pc BY <1>1, GotoFacts, ZenonT(30)
<1>4. Recovering' = Recovering BY <1>1, <1>3, ZenonT(30) DEF Recovering
<1>5. \A v \in Recovering' : Answered(worker'[v].outcome)
  BY <1>1, <1>4, ZenonT(30) DEF DamageInv, Recovering
<1>6. CASE n >= Threshold
  <2>1. Counting' = Counting /\ Owing' = Owing BY <1>1, <1>3, <1>6, ZenonT(30) DEF Counting, Owing
  <2>2. health'.failures = Threshold
    <3>1. n \in Nat /\ Threshold \in Nat BY <1>a, <1>c
    <3> HIDE DEF n
    <3> QED BY <1>2, <1>6, <3>1
  <2>3. Outstanding' = Due(g, c, r, h, Threshold)
    BY <1>a, <1>2, <1>4, <2>1, <2>2, ZenonT(30) DEF Outstanding, Due, Spell, Left, Later, Room
  <2>4. /\ Due(g, c, r, h, Threshold) <= Due(g, c, r, h, f) /\ Due(g, c, r, h, f) \in Nat
        /\ Due(g, c, r, h, Threshold) \in Nat
    <3>1. Threshold \in 0..Threshold BY <1>c
    <3>2. Due(g, c, r, h, Threshold) \in Nat BY <1>a, <3>1, DueNat, ZenonT(30)
    <3> QED BY <1>a, <3>2, DueAtThreshold, DueNat, ZenonT(30)
  <2>5. 2 * penalties' + Outstanding' <= 2 * DamageLimit
    BY <1>a, <1>d, <1>1, <2>3, <2>4, Within, ZenonT(30)
  <2> QED BY <1>a, <1>c, <1>1, <1>2, <1>5, <2>2, <2>5 DEF DamageInv
<1>7. CASE ~(n >= Threshold)
  <2>0. f + 1 < Threshold /\ f + 1 \in 0..Threshold /\ health'.failures = f + 1
    BY <1>a, <1>c, <1>2, <1>7
  <2>1. Counting' = Counting \ {w} /\ w \in Counting BY <1>1, <1>3, <1>7, ZenonT(30) DEF Counting
  <2>3. PICK d \in Nat : d = Cardinality(Counting') /\ c = d + 1
    <3>1. Cardinality(Counting') = Cardinality(Counting) - 1
      BY <1>b, <2>1, FS_RemoveElement, Zenon
    <3> QED BY <1>a, <1>b, <3>1
  <2>4. PICK e \in Nat : e = Cardinality(Owing') /\ e <= g + 1
    BY <1>a, <1>b, OneOwesMore, ZenonT(30)
  <2>5. Outstanding' = Due(e, d, r, h, f + 1)
    BY <1>a, <1>2, <1>4, <2>0, <2>3, <2>4, ZenonT(30) DEF Outstanding, Due, Spell, Left, Later, Room
  <2>6. Due(e, d, r, h, f + 1) <= Due(g, c, r, h, f) /\ Due(g, c, r, h, f) \in Nat
    BY <1>a, <2>0, <2>3, <2>4, DueCounted, DueNat, ZenonT(40)
  <2>7. Due(e, d, r, h, f + 1) \in Nat
    <3>1. d + r <= Room BY <1>a, <1>c, <2>3, SMTT(60)
    <3> QED BY <2>0, <3>1, DueNat, ZenonT(30)
  <2>8. 2 * penalties' + Outstanding' <= 2 * DamageLimit
    BY <1>a, <1>d, <1>1, <2>5, <2>6, <2>7, Within, ZenonT(30)
  <2> QED BY <1>a, <1>1, <1>2, <1>5, <2>0, <2>8, ZenonT(30) DEF DamageInv
<1> QED BY <1>6, <1>7, ZenonT(30)

\* A trip ends the healthy spell the worker was classified in.
LEMMA TripKeepsDamage ==
    ASSUME WorkersShaped, DamageInv, NEW w \in Workers, Trip(w),
           \A v \in Workers : v # w => worker'[v] = worker[v]
    PROVE  DamageInv'
<1>a. PICK g \in Nat, c \in Nat, r \in Nat, h \in BOOLEAN, f \in 0..Threshold :
          /\ g = Cardinality(Owing) /\ c = Cardinality(Counting) /\ r = Cardinality(Recovering)
          /\ h = health.healthy /\ f = health.failures /\ g + r <= Room /\ c + r <= Room
          /\ penalties \in Nat /\ 2 * penalties + Due(g, c, r, h, f) <= 2 * DamageLimit
  BY DamageParts, Zenon
<1>b. /\ IsFiniteSet(Owing) /\ IsFiniteSet(Counting) /\ IsFiniteSet(Recovering)
      /\ Cardinality(Owing') \in Nat /\ Cardinality(Counting') \in Nat
      /\ Cardinality(Recovering') \in Nat
      /\ IsFiniteSet(Owing') /\ IsFiniteSet(Counting') /\ IsFiniteSet(Recovering')
  BY PartsFinite
<1>c. DamageLimit \in Nat /\ 2 * DamageLimit = 2 * Threshold + Room * (Room + 1)
        /\ Threshold \in Nat \ {0} /\ Room \in Nat
  BY LimitTwice
<1>d. DamageLimit \in Nat BY LimitTwice
<1>1. /\ worker[w].pc = "tripping" /\ penalties' = penalties
      /\ health' = [health EXCEPT !.healthy = FALSE] /\ Goto(w, "recording")
  BY DEF Trip, At, ghosts
<1>2. /\ health' = [healthy |-> health'.healthy, failures |-> health'.failures]
      /\ health'.healthy = FALSE /\ health'.failures = f
  BY <1>a, <1>1, Zenon DEF DamageInv
<1>3. worker'[w].pc = "recording" BY <1>1, GotoFacts
<1>4. Recovering' = Recovering BY <1>1, <1>3 DEF Recovering
<1>5. \A v \in Recovering' : Answered(worker'[v].outcome)
  BY <1>1, <1>4 DEF DamageInv, Recovering
<1>6. Counting' = Counting \ {w} /\ w \in Counting BY <1>1, <1>3, ZenonT(30) DEF Counting
<1>8. PICK d \in Nat : d = Cardinality(Counting') /\ c = d + 1
  <2>1. Cardinality(Counting') = Cardinality(Counting) - 1
    BY <1>b, <1>6, FS_RemoveElement, Zenon
  <2> QED BY <1>a, <1>b, <2>1
<1>9. PICK e \in Nat : e = Cardinality(Owing') /\ e <= g + 1
  BY <1>a, <1>b, OneOwesMore
<1>10. Outstanding' = Due(e, d, r, FALSE, f)
  BY <1>a, <1>2, <1>4, <1>8, <1>9, ZenonT(30) DEF Outstanding, Due, Spell, Left, Later, Room
<1>11. Due(e, d, r, FALSE, f) <= Due(g, c, r, h, f) /\ Due(g, c, r, h, f) \in Nat
  BY <1>a, <1>8, <1>9, DueTripped, DueNat, Zenon
<1>12. Due(e, d, r, FALSE, f) \in Nat
  <2>1. d + r <= Room BY <1>a, <1>c, <1>8
  <2> QED BY <1>a, <2>1, DueNat, Zenon
<1>13. 2 * penalties' + Outstanding' <= 2 * DamageLimit
  BY <1>a, <1>d, <1>1, <1>10, <1>11, <1>12, Within, Zenon
<1> QED BY <1>a, <1>1, <1>2, <1>5, <1>13, ZenonT(30) DEF DamageInv

\* A penalty was owed.
LEMMA RecordKeepsDamage ==
    ASSUME WorkersShaped, DamageInv, NEW w \in Workers, RecordQuality(w),
           \A v \in Workers : v # w => worker'[v] = worker[v]
    PROVE  DamageInv'
<1>a. PICK g \in Nat, c \in Nat, r \in Nat, h \in BOOLEAN, f \in 0..Threshold :
          /\ g = Cardinality(Owing) /\ c = Cardinality(Counting) /\ r = Cardinality(Recovering)
          /\ h = health.healthy /\ f = health.failures /\ g + r <= Room /\ c + r <= Room
          /\ penalties \in Nat /\ 2 * penalties + Due(g, c, r, h, f) <= 2 * DamageLimit
  BY DamageParts, Zenon
<1>b. /\ IsFiniteSet(Owing) /\ IsFiniteSet(Counting) /\ IsFiniteSet(Recovering)
      /\ Cardinality(Owing') \in Nat /\ Cardinality(Counting') \in Nat
      /\ Cardinality(Recovering') \in Nat
      /\ IsFiniteSet(Owing') /\ IsFiniteSet(Counting') /\ IsFiniteSet(Recovering')
  BY PartsFinite
<1>d. DamageLimit \in Nat BY LimitTwice
<1>1. /\ worker[w].pc = "recording" /\ health' = health /\ Goto(w, "reporting")
      /\ penalties' = IF /\ ~Answered(worker[w].outcome)
                         /\ worker[w].class = "ApplicableFailure"
                         /\ penalties <= DamageLimit
                      THEN penalties + 1 ELSE penalties
  BY Zenon DEF RecordQuality, At
<1>2. worker'[w].pc = "reporting" BY <1>1, GotoFacts, Zenon
<1>3. Recovering' = Recovering /\ Counting' = Counting
  BY <1>1, <1>2, ZenonT(30) DEF Recovering, Counting
<1>4. \A v \in Recovering' : Answered(worker'[v].outcome)
  BY <1>1, <1>2, <1>3, ZenonT(30) DEF DamageInv, Recovering
<1>5. Owing' = Owing \ {w} BY <1>2, ZenonT(30) DEF Owing
<1>6. CASE w \in Owing
  <2>1. PICK e \in Nat : e = Cardinality(Owing') /\ g = e + 1
    <3>1. Cardinality(Owing') = Cardinality(Owing) - 1
      BY <1>b, <1>5, <1>6, FS_RemoveElement, ZenonT(30)
    <3>2. \A m, n \in Nat : m = n - 1 => n = m + 1 OBVIOUS
    <3>3. g \in Nat /\ g = Cardinality(Owing) BY <1>a, Zenon
    <3> QED BY <1>b, <3>1, <3>2, <3>3, Zenon
  <2>2. penalties' \in Nat /\ penalties' <= penalties + 1
    <3>1. penalties \in Nat BY <1>a, Zenon
    <3>2. penalties' = penalties + 1 \/ penalties' = penalties BY <1>1, Zenon
    <3>3. \A n \in Nat : n + 1 \in Nat /\ n <= n + 1 /\ n + 1 <= n + 1 OBVIOUS
    <3> QED BY <3>1, <3>2, <3>3, Zenon
  <2>3. Outstanding' = Due(e, c, r, h, f)
    BY <1>a, <1>1, <1>3, <2>1, ZenonT(30) DEF Outstanding, Due, Spell, Left, Later, Room
  <2>4. Due(g, c, r, h, f) = Due(e, c, r, h, f) + 2
    <3>1. /\ g \in Nat /\ c \in Nat /\ r \in Nat /\ h \in BOOLEAN /\ f \in 0..Threshold
          /\ c + r <= Room
      BY <1>a, Zenon
    <3>2. e \in Nat /\ g = e + 1 BY <2>1, Zenon
    <3> QED BY <3>1, <3>2, DueRecorded, SMTT(30)
  <2>5. Due(e, c, r, h, f) \in Nat BY <1>a, <2>1, DueNat, Zenon
  <2>6. 2 * penalties' + Outstanding' <= 2 * DamageLimit
    BY <1>a, <1>d, <2>2, <2>3, <2>4, <2>5, SMTT(60)
  <2> QED BY <1>a, <1>1, <1>4, <2>2, <2>6, ZenonT(30) DEF DamageInv
<1>7. CASE w \notin Owing
  <2>1. penalties' = penalties /\ Owing' = Owing BY <1>1, <1>5, <1>7, Zenon DEF Owing
  <2> QED BY <1>a, <1>1, <1>3, <1>4, <2>1, Zenon DEF DamageInv, Outstanding, Due, Room
<1> QED BY <1>6, <1>7

LEMMA WorkKeepsDamage ==
    ASSUME WorkersShaped, DamageInv, NEW w \in Workers,
           WorkerStep(w) \/ Abort(w) \/ Spawn(w), WorkersShaped',
           \A v \in Workers : v # w => worker'[v] = worker[v]
    PROVE  DamageInv'
<1>1. CASE Spawn(w)
  <2>1. worker'[w].pc = "spawned" /\ worker[w].pc = "idle" /\ UNCHANGED <<health, penalties>>
    <3>1. /\ worker' = [worker EXCEPT ![w] = [IdleWorker EXCEPT !.pc = "spawned",
                                                  !.job = Head(jobs), !.epoch = engine.epoch]]
          /\ worker[w].pc = "idle" /\ UNCHANGED <<health, penalties>>
      BY <1>1, Zenon DEF Spawn, evidence, ghosts
    <3>2. Becomes(w, Worker("spawned", Head(jobs), engine.epoch, NoSnapshot, "none", "none"))
      BY <3>1, Spawned, Zenon DEF Becomes
    <3> DEFINE r == Worker("spawned", Head(jobs), engine.epoch, NoSnapshot, "none", "none")
    <3>3. IsWorker(r) /\ r.pc = "spawned" BY WorkerFields
    <3> HIDE DEF r
    <3>4. worker'[w] = r BY <3>2, <3>3, OneMoves, Zenon DEF r
    <3> QED BY <3>1, <3>3, <3>4, Zenon
  <2> QED BY <2>1, AsideKeepsDamage DEF Involved
<1>2. CASE Abort(w) \/ Report(w)
  <2>1. Finish(w) /\ worker[w].pc \notin Involved /\ UNCHANGED <<health, penalties>>
    BY <1>2 DEF Involved, Abort, Report, Finish, At, evidence, ghosts
  <2>2. worker'[w].pc = "idle" BY <2>1, Arrivals, Zenon
  <2> QED BY <2>1, <2>2, AsideKeepsDamage, ZenonT(30) DEF Involved
<1>3. CASE Execute(w) \/ AdmitObserved(w)
  <2>1. worker[w].pc \notin Involved /\ UNCHANGED <<health, penalties>>
    BY <1>3 DEF Involved, Execute, AdmitObserved, At, evidence, ghosts
  <2>2. worker'[w].pc \in {"idle", "ready", "admitting"}
    BY <1>3, Arrivals, Zenon
  <2> QED BY <2>1, <2>2, AsideKeepsDamage DEF Involved
<1>4. CASE Begin(w) \/ MeasureHttp3(w)
  <2>1. worker[w].pc \notin Involved /\ UNCHANGED <<health, penalties>>
    BY <1>4, Zenon DEF Involved, Begin, MeasureHttp3, At, ghosts
  <2>2. Finish(w) \/ Goto(w, "probing") \/ Goto(w, "settling")
    BY <1>4, Zenon DEF Begin, MeasureHttp3
  <2>3. worker'[w].pc \in {"idle", "probing", "settling"}
    <3>1. Finish(w) => worker'[w].pc = "idle" BY Arrivals, Zenon
    <3>2. Goto(w, "probing") => worker'[w].pc = "probing" BY GotoFacts
    <3>3. Goto(w, "settling") => worker'[w].pc = "settling" BY GotoFacts, Zenon
    <3> QED BY <2>2, <3>1, <3>2, <3>3
  <2> QED BY <2>1, <2>3, AsideKeepsDamage DEF Involved
<1>5. CASE \E o \in Outcomes : Measure(w, o)
  <2>1. PICK o \in Outcomes : Measure(w, o) BY <1>5
  <2>2. worker[w].pc \notin Involved /\ UNCHANGED <<health, penalties>>
    BY <2>1 DEF Involved, Measure, At, evidence, ghosts
  <2>3. worker'[w].pc \in {"settling", "http3"}
    BY <2>1, Arrivals, Zenon
  <2> QED BY <2>2, <2>3, AsideKeepsDamage, ZenonT(30) DEF Involved
<1>6. CASE \/ ClearFailures(w) \/ Recover(w) \/ Classify(w) \/ Count(w) \/ Trip(w)
          \/ RecordQuality(w)
  BY <1>6, ClearKeepsDamage, RecoverKeepsDamage, ClassifyKeepsDamage, CountKeepsDamage,
     TripKeepsDamage, RecordKeepsDamage, Zenon
<1> QED BY <1>1, <1>2, <1>3, <1>4, <1>5, <1>6, Zenon DEF WorkerStep

-----------------------------------------------------------------------------
LEMMA ProbeInvInit == ProbeInit => ProbeInv
<1> SUFFICES ASSUME ProbeInit PROVE ProbeInv BY Zenon
<1> USE DEF ProbeInit, ProbeStart, NoEvidence
<1>1. \A w \in Workers : worker[w] = IdleWorker BY ZenonT(30)
<1>2. WorkersShaped BY <1>1, IdleFields, ZenonT(30) DEF WorkersShaped
<1>3. Live = {} BY <1>1, IdleFields, ZenonT(30) DEF Live
<1>4. EvidenceInv
  <2>1. \A w \in Workers : worker[w].pc \notin PastDial BY <1>1, IdleFields, ZenonT(30) DEF PastDial
  <2>2. \A k \in Keys : quality[k] = 0 BY ZenonT(30)
  <2>3. EvidenceIsMeasured
    <3>1. \A h \in Hosts, a \in Addrs : https(h, a) \in Keys BY DEF Keys
    <3>2. \A a \in Addrs : generic(a) \in Keys /\ quic(a) \in Keys BY DEF Keys
    <3> QED BY <2>2, <3>1, <3>2, ZenonT(30) DEF EvidenceIsMeasured
  <2> QED BY <2>1, <2>3, ZenonT(30) DEF EvidenceInv
<1>5. PermitInv
  <2>1. JobsOutBounded BY DEF JobsOutBounded
  <2>2. StoppedIsQuiet BY ZenonT(30) DEF StoppedIsQuiet
  <2> QED BY <1>3, <2>1, <2>2 DEF PermitInv
<1>6. DamageInv
  <2>1. Owing = {} /\ Counting = {} /\ Recovering = {}
    BY <1>1, IdleFields DEF Owing, Counting, Recovering
  <2>2. Outstanding = Due(0, 0, 0, TRUE, 0)
    <3>1. Cardinality({}) = 0 BY FS_EmptySet, ZenonT(30)
    <3> QED BY <2>1, <3>1, Zenon DEF Outstanding
  <2>3. Room \in Nat /\ Threshold \in Nat BY LimitTwice
  <2>4. Due(0, 0, 0, TRUE, 0) <= 2 * Threshold + Room * (Room + 1)
    <3>1. 0 \in Nat /\ 0 + 0 <= Room /\ TRUE \in BOOLEAN BY <2>3
    <3> QED BY <3>1, DueCleared, Zenon
  <2>5. Due(0, 0, 0, TRUE, 0) \in Nat
    <3>1. 0 \in Nat /\ 0 + 0 <= Room /\ TRUE \in BOOLEAN /\ 0 \in 0..Threshold BY <2>3, SMTT(60)
    <3> QED BY <3>1, DueNat, Zenon
  <2>6. 2 * penalties + Outstanding <= 2 * DamageLimit
    <3>1. PICK d \in Nat : d = Due(0, 0, 0, TRUE, 0) BY <2>5, Zenon
    <3>2. d <= 2 * DamageLimit BY <2>4, <3>1, LimitTwice, Zenon
    <3>3. penalties = 0 /\ Outstanding = d BY <2>2, <3>1, ZenonT(30)
    <3>4. DamageLimit \in Nat BY LimitTwice
    <3>5. 2 * 0 + d <= 2 * DamageLimit BY <3>2, <3>4
    <3> QED BY <3>3, <3>5, ZenonT(40)
  <2> QED BY <2>1, <2>3, <2>6, SMTT(60) DEF DamageInv
<1> QED BY <1>2, <1>4, <1>5, <1>6 DEF ProbeInv

\* Steps that leave the workers, the health and the quality alone.
LEMMA OthersKeep ==
    ASSUME ProbeInv, UNCHANGED <<worker, health, penalties, dialled, refused>>
    PROVE  /\ WorkersShaped' /\ DamageInv'
           /\ quality' = quality => EvidenceInv'
           /\ UNCHANGED <<engine, slots>> /\ pcfg' \in ProbeConfigs => PermitInv'
<1>1. WorkersShaped' BY DEF ProbeInv, WorkersShaped, IsWorker
<1>2. DamageInv'
  BY Zenon DEF ProbeInv, DamageInv, Outstanding, Due, Spell, Left, Later, Owing, Counting, Recovering,
         Room
<1>3. quality' = quality => EvidenceInv'
  BY DEF ProbeInv, EvidenceInv, EvidenceIsMeasured, JobOf
<1>4. UNCHANGED <<engine, slots>> /\ pcfg' \in ProbeConfigs => PermitInv'
  BY Zenon DEF ProbeInv, PermitInv, JobsOutBounded, StoppedIsQuiet, Held, Live
<1> QED BY <1>1, <1>2, <1>3, <1>4, ZenonT(30)

LEMMA ProbeInvStep == ProbeInv /\ [ProbeNext]_probeVars => ProbeInv'
<1> SUFFICES ASSUME ProbeInv, [ProbeNext]_probeVars PROVE ProbeInv' OBVIOUS
<1>0. WorkersShaped /\ EvidenceInv /\ PermitInv /\ DamageInv BY DEF ProbeInv
<1>1. CASE \/ \E o \in Offers, g \in {generation, generation - 1} \ {0} : Offer(o, g)
           \/ Cancel \/ \E c \in ProbeConfigs : ReloadProbe(c)
           \/ PublishGeneration \/ ResetPool \/ ClearValidations \/ ClearBaseline
           \/ UNCHANGED probeVars
  <2>1. /\ UNCHANGED <<worker, health, penalties, dialled, refused, quality, engine, slots>>
        /\ pcfg' \in ProbeConfigs
    BY <1>0, <1>1, Zenon DEF Offer, Cancel, ReloadProbe, PublishGeneration, ResetPool, ClearValidations,
        ClearBaseline, probeVars, settings, network, loop, evidence, ghosts, PermitInv
  <2> QED BY <2>1, OthersKeep DEF ProbeInv
<1>2. CASE DemoteQuality
  <2>1. /\ UNCHANGED <<worker, health, penalties, dialled, refused, engine, slots, pcfg>>
        /\ quality' = [k \in Keys |-> IF quality[k] = 0 THEN 0 ELSE generation]
    BY <1>2 DEF DemoteQuality, settings, loop, ghosts
  <2>2. EvidenceIsMeasured'
    <3>1. \A k \in Keys : quality'[k] # 0 => quality[k] # 0 BY <2>1
    <3>2. \A h \in Hosts, a \in Addrs : https(h, a) \in Keys BY DEF Keys
    <3>3. \A a \in Addrs : generic(a) \in Keys /\ quic(a) \in Keys BY DEF Keys
    <3>4. /\ \A h \in Hosts, a \in Addrs :
                quality'[https(h, a)] # 0 => a \in dialled' \cup refused'
          /\ \A a \in Addrs :
                quality'[generic(a)] # 0 \/ quality'[quic(a)] # 0 => a \in dialled'
      BY <1>0, <2>1, <3>1, <3>2, <3>3, ZenonT(30) DEF EvidenceInv, EvidenceIsMeasured
    <3> QED BY <3>4 DEF EvidenceIsMeasured, https, generic, quic
  <2>3. EvidenceInv' BY <1>0, <2>1, <2>2, ZenonT(30) DEF EvidenceInv, JobOf
  <2>4. pcfg' \in ProbeConfigs BY <1>0, <2>1, ZenonT(30) DEF PermitInv
  <2> QED BY <2>1, <2>3, <2>4, OthersKeep, ZenonT(30) DEF ProbeInv
<1>3. CASE WorkerSlots \/ Acquire \/ StopTaking \/ DrainTimesOut \/ SupervisorAborts \/ Return
  <2>1. UNCHANGED <<worker, health, penalties, dialled, refused, quality>>
    BY <1>3 DEF WorkerSlots, Acquire, StopTaking, DrainTimesOut, SupervisorAborts, Return,
        evidence, ghosts
  <2> QED BY <1>0, <1>3, <2>1, OthersKeep, LoopKeepsPermits, ZenonT(30) DEF ProbeInv
<1>4. CASE \E w \in Workers : Spawn(w)
  <2>1. PICK w \in Workers : Spawn(w) BY <1>4
  <2>2. WorkersShaped' /\ PermitInv' BY <1>0, <2>1, SpawnKeepsPermits
  <2>3. /\ Becomes(w, Worker("spawned", Head(jobs), engine.epoch, NoSnapshot, "none", "none"))
        /\ UNCHANGED <<quality, dialled, refused>>
    <3>1. /\ worker' = [worker EXCEPT ![w] = [IdleWorker EXCEPT !.pc = "spawned",
                                                  !.job = Head(jobs), !.epoch = engine.epoch]]
          /\ UNCHANGED <<quality, dialled, refused>>
      BY <2>1, Zenon DEF Spawn, evidence, ghosts
    <3> QED BY <3>1, Spawned, Zenon DEF Becomes
  <2> DEFINE r == Worker("spawned", Head(jobs), engine.epoch, NoSnapshot, "none", "none")
  <2>4. IsWorker(r) /\ r.pc = "spawned" BY WorkerFields
  <2> HIDE DEF r
  <2>5. worker'[w] = r /\ \A v \in Workers : v # w => worker'[v] = worker[v]
    BY <1>0, <2>3, <2>4, OneMoves, Zenon DEF r
  <2>6. EvidenceInv'
    <3>1. \A v \in Workers : worker'[v].pc \in PastDial => worker'[v].job.addr \in dialled'
      BY <1>0, <2>3, <2>4, <2>5 DEF EvidenceInv, PastDial, JobOf
    <3> QED BY <1>0, <2>3, <3>1, ZenonT(30) DEF EvidenceInv, EvidenceIsMeasured, JobOf
  <2>7. DamageInv' BY <1>0, <2>1, <2>2, <2>5, WorkKeepsDamage, Zenon
  <2> QED BY <2>2, <2>6, <2>7 DEF ProbeInv
<1>5. CASE \E w \in Workers : WorkerStep(w) \/ Abort(w)
  <2>1. PICK w \in Workers : WorkerStep(w) \/ Abort(w) BY <1>5
  <2>2. WorkersShaped' /\ Works(w) BY <1>0, <2>1, WorkerWorks
  <2>3. EvidenceInv' BY <1>0, <2>1, WorkKeepsEvidence
  <2>4. pcfg' = pcfg
    BY <2>1, Zenon DEF WorkerStep, Abort, Execute, AdmitObserved, Begin, Measure, MeasureHttp3,
        ClearFailures, Recover, Classify, Count, Trip, RecordQuality, Report, settings
  <2>5. PermitInv' BY <1>0, <2>2, <2>4, WorkKeepsPermits
  <2>6. DamageInv' BY <1>0, <2>1, <2>2, WorkKeepsDamage, Zenon DEF Works
  <2> QED BY <2>2, <2>3, <2>5, <2>6, ZenonT(30) DEF ProbeInv
<1> QED BY <1>1, <1>2, <1>3, <1>4, <1>5 DEF ProbeNext, EngineStep, NetworkChange

LEMMA ProbeInvAlways == ProbeSpec => []ProbeInv
BY ProbeInvInit, ProbeInvStep, PTL DEF ProbeSpec

\* Whatever the workers, the monitor and the reloads do, an address with
\* evidence was dialled, or refused by policy (ProbeEngine::run_https).
THEOREM EvidenceMeasured == ProbeSpec => []EvidenceIsMeasured
<1>1. ProbeInv => EvidenceIsMeasured BY DEF ProbeInv, EvidenceInv
<1> QED BY <1>1, ProbeInvAlways, PTL

\* However many workers race on the two atomics of SubsystemHealth, the failures
\* that it counts and that are held against addresses since the last answer are no
\* more than the threshold and a term in the number of workers.  Timeouts it does
\* not count, and they are not bounded.
THEOREM DamageBounded == ProbeSpec => []CountedFailuresBounded
<1>1. ProbeInv => CountedFailuresBounded
  <2> SUFFICES ASSUME ProbeInv PROVE CountedFailuresBounded OBVIOUS
  <2>1. PICK g \in Nat, c \in Nat, r \in Nat, h \in BOOLEAN, f \in 0..Threshold :
            /\ Outstanding = Due(g, c, r, h, f) /\ c + r <= Room
            /\ penalties \in Nat /\ 2 * penalties + Due(g, c, r, h, f) <= 2 * DamageLimit
    BY Sizes DEF ProbeInv, DamageInv, Outstanding
  <2>2. PICK d \in Nat : d = Due(g, c, r, h, f) BY <2>1, DueNat
  <2>3. DamageLimit \in Nat BY LimitTwice, ZenonT(30)
  <2> QED BY <2>1, <2>2, <2>3 DEF CountedFailuresBounded
<1> QED BY <1>1, ProbeInvAlways, PTL

\* The jobs taken off the queue never outnumber the permits of the semaphore
\* they were taken under, through every resize of the pool (worker_slots).
THEOREM PermitsBounded == ProbeSpec => []JobsOutBounded
<1>1. ProbeInv => JobsOutBounded BY ZenonT(30) DEF ProbeInv, PermitInv
<1> QED BY <1>1, ProbeInvAlways, PTL

\* Once ProbeEngine::run has returned no probe is alive.
THEOREM StoppedQuiet == ProbeSpec => []StoppedIsQuiet
<1>1. ProbeInv => StoppedIsQuiet BY DEF ProbeInv, PermitInv
<1> QED BY <1>1, ProbeInvAlways, PTL

=============================================================================
