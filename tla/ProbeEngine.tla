----------------------------- MODULE ProbeEngine -----------------------------
(***************************************************************************)
(* The probe engine (probe/engine.rs, job.rs): a bounded queue of jobs, a  *)
(* loop that takes a permit before it takes a job, and workers that        *)
(* measure an address and report to the quality store and to the shared    *)
(* Cloudflare state.                                                       *)
(*                                                                         *)
(* Workers run on several threads, so every lock or atomic a worker takes  *)
(* is a step of its own: the load of `healthy`, the increment of the       *)
(* failure counter and the swap that declares the subsystem broken, the    *)
(* quality records, the report.  The configuration, the network generation *)
(* and the prefix snapshot may change between any two of them.             *)
(*                                                                         *)
(* A quality entry is the generation it was last stamped with, 0 where     *)
(* there is none; the costs it holds are left out.  The verdict of the     *)
(* guard is any it may give.                                               *)
(***************************************************************************)
EXTENDS Cloudflare

CONSTANTS
    Workers,        \* room for the workers that are alive at once
    Hosts,          \* probed host names
    Offers,         \* the jobs that are offered: [kind, host, addr, cloudflare]
    Outcomes,       \* how a measurement may end
    Verdicts,       \* what the guard may say
    Http3,          \* probe.enable_http3
    QueueSize,      \* probe.queue_size
    Threshold,      \* SubsystemHealth.threshold
    ProbeConfigs,   \* the probe settings a reload may bring
    MaxEpochs,      \* bound: worker semaphores built
    MaxGeneration,  \* bound: network generations
    NoJob

ASSUME ProbeAssumption ==
    /\ QueueSize \in Nat \ {0}
    /\ Threshold \in Nat \ {0}
    /\ Workers \subseteq Nat /\ IsFiniteSet(Workers)
    /\ \A c \in ProbeConfigs : c.enabled \in BOOLEAN /\ c.concurrency \in Nat

VARIABLES
    pcfg,           \* config.probe as RuntimeState holds it
    generation,     \* NetworkState.generation
    monitor,        \* where apply_change is
    jobs,           \* the channel of ProbeQueue
    engine,         \* ProbeEngine::run: its pc, and the semaphore it took
    slots,          \* the worker semaphores built so far: their sizes
    worker,         \* worker[w]: pc, job, semaphore, prefix snapshot, outcome, class
    cancelled,      \* the cancellation token
    health,         \* SubsystemHealth
    quality,        \* quality[k]: generation stamp of a QualityStore entry
    prefixes,       \* CloudflareState.prefixes
    pool, spent,    \* CandidatePool and its hourly count
    validations, baseline,
    dialled,        \* ghost: addresses a probe connected to
    refused,        \* ghost: addresses policy refused to probe
    penalties       \* ghost: error penalties since the failure count was cleared

cfVars == <<prefixes, pool, spent, validations, baseline>>
settings == <<pcfg, cancelled>>
network == <<generation, monitor>>
loop == <<jobs, engine, slots>>
evidence == <<health, quality>>
ghosts == <<dialled, refused, penalties>>
probeVars == <<settings, network, loop, worker, evidence, cfVars, ghosts>>

IdleWorker == [pc |-> "idle", job |-> NoJob, epoch |-> 0, snapshot |-> NoSnapshot,
               outcome |-> "none", class |-> "none"]
Live == {w \in Workers : worker[w].pc # "idle"}

https(h, a) == <<"https", h, a>>
generic(a) == <<"generic", a>>
quic(a) == <<"quic", a>>
Keys == {https(h, a) : h \in Hosts, a \in Addrs}
            \cup {generic(a) : a \in Addrs} \cup {quic(a) : a \in Addrs}
\* The failures that trip the subsystem, and for each worker that may undo the
\* trip with a late recovery one of every worker that recovered before it.
DamageLimit == Threshold + (Cardinality(Workers) * (Cardinality(Workers) + 1)) \div 2

\* Nothing is measured yet.
NoEvidence ==
    /\ quality = [k \in Keys |-> 0]
    /\ pool = <<>> /\ validations = <<>>
    /\ baseline = [h \in {} |-> FALSE]

ProbeStart ==
    /\ pcfg \in ProbeConfigs
    /\ generation = 1 /\ monitor = "watching"
    /\ jobs = <<>> /\ cancelled = FALSE
    /\ engine = [pc |-> "permit", epoch |-> 0]
    /\ slots = <<>>
    /\ worker = [w \in Workers |-> IdleWorker]
    /\ health = [healthy |-> TRUE, failures |-> 0]
    /\ spent = 0
    /\ dialled = {} /\ refused = {} /\ penalties = 0

ProbeInit == ProbeStart /\ NoEvidence

-----------------------------------------------------------------------------
(* The queue and the loop.                                                 *)

\* ProbeQueue::offer: a full channel drops the job.
Offer(o, g) ==
    /\ ~cancelled /\ pcfg.enabled
    /\ Len(jobs) < QueueSize
    /\ jobs' = Append(jobs, [kind |-> o.kind, host |-> o.host, addr |-> o.addr,
                             cloudflare |-> o.cloudflare, generation |-> g])
    /\ UNCHANGED <<engine, slots, worker, settings, network, evidence, ghosts, cfVars>>

Held(e) == Cardinality({w \in Live : worker[w].epoch = e})

\* worker_slots: another ceiling builds another semaphore.
WorkerSlots ==
    /\ engine.pc = "permit" /\ ~cancelled
    /\ LET want == IF pcfg.concurrency = 0 THEN 1 ELSE pcfg.concurrency
           kept == slots # <<>> /\ slots[Len(slots)] = want
       IN  /\ slots' = IF kept THEN slots ELSE Append(slots, want)
           /\ engine' = [pc |-> "waiting", epoch |-> Len(slots')]
    /\ UNCHANGED <<jobs, worker, settings, network, evidence, ghosts, cfVars>>

Acquire ==
    /\ engine.pc = "waiting" /\ ~cancelled
    /\ Held(engine.epoch) < slots[engine.epoch]
    /\ engine' = [engine EXCEPT !.pc = "recv"]
    /\ UNCHANGED <<jobs, slots, worker, settings, network, evidence, ghosts, cfVars>>

\* Workers are alike: the least idle one takes the job.
Spawn(w) ==
    /\ engine.pc = "recv" /\ ~cancelled
    /\ jobs # <<>> /\ worker[w].pc = "idle"
    /\ \A v \in Workers : v < w => worker[v].pc # "idle"
    /\ jobs' = Tail(jobs)
    /\ worker' = [worker EXCEPT ![w] = [IdleWorker EXCEPT !.pc = "spawned", !.job = Head(jobs),
                                                          !.epoch = engine.epoch]]
    /\ engine' = [engine EXCEPT !.pc = "permit"]
    /\ UNCHANGED <<slots, settings, network, evidence, ghosts, cfVars>>

\* Mutant: only the wait for a job listens to the cancellation.
StopTakingAtRecv ==
    /\ cancelled /\ engine.pc = "recv"
    /\ engine' = [pc |-> "draining", epoch |-> 0]
    /\ UNCHANGED <<jobs, slots, worker, settings, network, evidence, ghosts, cfVars>>

\* The loop breaks on cancellation and drops a permit it holds.
StopTaking ==
    /\ cancelled /\ engine.pc \in {"permit", "waiting", "recv"}
    /\ engine' = [pc |-> "draining", epoch |-> 0]
    /\ UNCHANGED <<jobs, slots, worker, settings, network, evidence, ghosts, cfVars>>

DrainTimesOut ==
    /\ engine.pc = "draining" /\ Live # {}
    /\ engine' = [engine EXCEPT !.pc = "aborting"]
    /\ UNCHANGED <<jobs, slots, worker, settings, network, evidence, ghosts, cfVars>>

\* supervise (tasks/mod.rs) aborts the task that runs the engine as soon as
\* it sees the cancellation: the loop is dropped with its JoinSet, which
\* aborts the workers and waits for none.
SupervisorAborts ==
    /\ cancelled /\ engine.pc \notin {"stopped", "dropped"}
    /\ engine' = [pc |-> "dropped", epoch |-> 0]
    /\ UNCHANGED <<jobs, slots, worker, settings, network, evidence, ghosts, cfVars>>

\* abort_all, or the drop, ends a worker where it awaits.
Abort(w) ==
    /\ engine.pc \in {"aborting", "dropped"}
    /\ worker[w].pc \in {"spawned", "probing", "http3"}
    /\ worker' = [worker EXCEPT ![w] = IdleWorker]
    /\ UNCHANGED <<settings, network, loop, evidence, ghosts, cfVars>>

Return ==
    /\ engine.pc \in {"draining", "aborting"} /\ Live = {}
    /\ engine' = [engine EXCEPT !.pc = "stopped"]
    /\ UNCHANGED <<jobs, slots, worker, settings, network, evidence, ghosts, cfVars>>

Cancel ==
    /\ ~cancelled /\ cancelled' = TRUE
    /\ UNCHANGED <<pcfg, worker, network, loop, evidence, ghosts, cfVars>>

\* RuntimeState is swapped: workers read the new settings at their next look.
ReloadProbe(c) ==
    /\ ~cancelled /\ c # pcfg /\ Len(slots) < MaxEpochs
    /\ pcfg' = c
    /\ UNCHANGED <<worker, cancelled, network, loop, evidence, ghosts, cfVars>>

-----------------------------------------------------------------------------
(* A worker.                                                               *)

Goto(w, pc) == worker' = [worker EXCEPT ![w].pc = pc]
Finish(w) == worker' = [worker EXCEPT ![w] = IdleWorker]
At(w, pc) == worker[w].pc = pc
JobOf(w) == worker[w].job

\* Mutant: the generation of a job is not looked at.
ExecuteAny(w) ==
    /\ At(w, "spawned")
    /\ IF JobOf(w).kind = "Observed" /\ JobOf(w).cloudflare
       THEN worker' = [worker EXCEPT ![w].pc = "admitting", ![w].snapshot = prefixes]
       ELSE Goto(w, "ready")
    /\ UNCHANGED <<settings, network, loop, evidence, ghosts, cfVars>>

\* execute: evidence of an older generation is not gathered; the address of
\* an observed Cloudflare answer is proposed to the pool first.
Execute(w) ==
    /\ At(w, "spawned")
    /\ \/ JobOf(w).generation # generation /\ Finish(w)
       \/ /\ JobOf(w).generation = generation
          /\ IF JobOf(w).kind = "Observed" /\ JobOf(w).cloudflare
             THEN worker' = [worker EXCEPT ![w].pc = "admitting", ![w].snapshot = prefixes]
             ELSE Goto(w, "ready")
    /\ UNCHANGED <<settings, network, loop, evidence, ghosts, cfVars>>

AdmitObserved(w) ==
    /\ At(w, "admitting")
    /\ LET r == admit(pool, spent, JobOf(w).addr, "DnsAnswer", worker[w].snapshot, 0)
       IN  pool' = r.pool /\ spent' = r.spent
    /\ worker' = [worker EXCEPT ![w].pc = "ready", ![w].snapshot = NoSnapshot]
    /\ UNCHANGED <<settings, network, loop, evidence, ghosts, prefixes, validations, baseline>>

\* record: the stamp is the generation of the moment.
Stamp(ks) == quality' = [k \in Keys |-> IF k \in ks THEN generation ELSE quality[k]]

\* Mutant: a refusal by a cooldown is recorded like any other.
BeginRecordsCooldown(w) ==
    /\ At(w, "ready")
    /\ \/ ~pcfg.enabled /\ Finish(w) /\ UNCHANGED <<quality, dialled, refused>>
       \/ /\ pcfg.enabled
          /\ \/ /\ Verdicts \cap {"cooldown", "policy"} # {}
                /\ Finish(w) /\ Stamp({https(JobOf(w).host, JobOf(w).addr)})
                /\ UNCHANGED <<dialled, refused>>
             \/ /\ Goto(w, "probing")
                /\ dialled' = dialled \cup {JobOf(w).addr} /\ UNCHANGED <<quality, refused>>
    /\ UNCHANGED <<settings, network, loop, health, cfVars, penalties>>

\* run_https up to the connection: switched off, refused by a cooldown (which
\* leaves no trace), refused by policy (which is an observation), or on.
Begin(w) ==
    /\ At(w, "ready")
    /\ \/ ~pcfg.enabled /\ Finish(w) /\ UNCHANGED <<quality, dialled, refused>>
       \/ /\ pcfg.enabled /\ "cooldown" \in Verdicts
          /\ Finish(w) /\ UNCHANGED <<quality, dialled, refused>>
       \/ /\ pcfg.enabled /\ "policy" \in Verdicts
          /\ Finish(w) /\ Stamp({https(JobOf(w).host, JobOf(w).addr)})
          /\ refused' = refused \cup {JobOf(w).addr} /\ UNCHANGED dialled
       \/ /\ pcfg.enabled
          /\ Goto(w, "probing")
          /\ dialled' = dialled \cup {JobOf(w).addr} /\ UNCHANGED <<quality, refused>>
    /\ UNCHANGED <<settings, network, loop, health, cfVars, penalties>>

Answered(o) == o \in {"accepted", "rejected"}

\* The exchange ends.  Where HTTP/3 is measured, the worker goes on to that.
Measure(w, o) ==
    /\ At(w, "probing")
    /\ \E pc \in {"settling"} \cup (IF Http3 /\ ~cancelled /\ Answered(o) THEN {"http3"} ELSE {}) :
          worker' = [worker EXCEPT ![w].pc = pc, ![w].outcome = o]
    /\ UNCHANGED <<settings, network, loop, evidence, ghosts, cfVars>>

MeasureHttp3(w) ==
    /\ At(w, "http3")
    /\ Stamp({quic(JobOf(w).addr)})
    /\ Goto(w, "settling")
    /\ UNCHANGED <<settings, network, loop, health, ghosts, cfVars>>

\* record_success: the counter is cleared, then the subsystem declared healthy.
ClearFailures(w) ==
    /\ At(w, "settling") /\ Answered(worker[w].outcome)
    /\ health' = [health EXCEPT !.failures = 0]
    /\ penalties' = 0
    /\ Goto(w, "recovering")
    /\ UNCHANGED <<settings, network, loop, quality, cfVars, dialled, refused>>

Recover(w) ==
    /\ At(w, "recovering")
    /\ health' = [health EXCEPT !.healthy = TRUE]
    /\ worker' = [worker EXCEPT ![w].pc = "recording",
                      ![w].class = IF worker[w].outcome = "accepted" THEN "Success"
                                   ELSE "ApplicableFailure"]
    /\ UNCHANGED <<settings, network, loop, quality, cfVars, ghosts>>

\* Mutant: health is not consulted.
classifyAlways(o, healthy) == IF o = "Timeout" THEN "Timeout" ELSE "ApplicableFailure"

classify(o, healthy) ==
    CASE ~healthy -> "AmbiguousFailure"
      [] healthy /\ o = "Timeout" -> "Timeout"
      [] healthy /\ o # "Timeout" -> "ApplicableFailure"

Classify(w) ==
    /\ At(w, "settling") /\ ~Answered(worker[w].outcome)
    /\ LET c == classify(worker[w].outcome, health.healthy)
       IN  worker' = [worker EXCEPT ![w].class = c,
                          ![w].pc = IF c = "ApplicableFailure" THEN "counting" ELSE "recording"]
    /\ UNCHANGED <<settings, network, loop, evidence, cfVars, ghosts>>

\* record_failure: the counter, then the flag.  Counting stops where one
\* more failure makes no difference.
Count(w) ==
    /\ At(w, "counting")
    /\ LET n == health.failures + 1
       IN  /\ health' = [health EXCEPT !.failures = IF n > Threshold THEN Threshold ELSE n]
           /\ Goto(w, IF n >= Threshold THEN "tripping" ELSE "recording")
    /\ UNCHANGED <<settings, network, loop, quality, cfVars, ghosts>>

Trip(w) ==
    /\ At(w, "tripping")
    /\ health' = [health EXCEPT !.healthy = FALSE]
    /\ Goto(w, "recording")
    /\ UNCHANGED <<settings, network, loop, quality, cfVars, ghosts>>

\* The observation is recorded for the host, and for the address alone where
\* the exchange was answered or never got past the connection.
RecordQuality(w) ==
    /\ At(w, "recording")
    /\ LET o == worker[w].outcome
           alone == Answered(o) \/ o \in {"Connect", "Timeout"}
       IN  /\ Stamp({https(JobOf(w).host, JobOf(w).addr)}
                        \cup (IF alone THEN {generic(JobOf(w).addr)} ELSE {}))
           /\ penalties' = IF ~Answered(o) /\ worker[w].class = "ApplicableFailure"
                              /\ penalties <= DamageLimit
                           THEN penalties + 1 ELSE penalties
    /\ Goto(w, "reporting")
    /\ UNCHANGED <<settings, network, loop, health, cfVars, dialled, refused>>

Intent(j) == IF j.kind \in {"Observed", "Baseline"} THEN "Baseline" ELSE j.kind

\* The rest of run_https: the baseline or the validation, then the stage of
\* the candidate.  A failure counts against a validation only if it is the
\* address's own.
Report(w) ==
    /\ At(w, "reporting")
    /\ LET j == JobOf(w)
           o == worker[w].outcome
           ok == o = "accepted"
           counts == Answered(o) \/ worker[w].class = "ApplicableFailure"
       IN  /\ baseline' = IF Intent(j) = "Baseline" /\ Answered(o)
                          THEN set_baseline(baseline, j.host, ok) ELSE baseline
           /\ validations' = IF Intent(j) = "Validate" /\ counts
                             THEN record_validation(validations, j.host, j.addr, ok)
                             ELSE validations
           /\ pool' = record_stage(pool, j.addr, IF ok THEN "HttpOk" ELSE "TlsOk", ok)
    /\ Finish(w)
    /\ UNCHANGED <<settings, network, loop, evidence, prefixes, spent, ghosts>>

-----------------------------------------------------------------------------
(* A change of the egress path (tasks/network.rs apply_change): the new    *)
(* generation is published first, the evidence is reset behind it.         *)

PublishGeneration ==
    /\ monitor = "watching" /\ ~cancelled /\ generation < MaxGeneration
    /\ generation' = generation + 1 /\ monitor' = "quality"
    /\ UNCHANGED <<settings, loop, worker, evidence, cfVars, ghosts>>

DemoteQuality ==
    /\ monitor = "quality" /\ monitor' = "pool"
    /\ quality' = [k \in Keys |-> IF quality[k] = 0 THEN 0 ELSE generation]
    /\ UNCHANGED <<settings, generation, loop, worker, health, cfVars, ghosts>>

ResetPool ==
    /\ monitor = "pool" /\ monitor' = "validations"
    /\ pool' = pool_on_generation_change(pool)
    /\ UNCHANGED <<settings, generation, loop, worker, evidence, prefixes, spent, validations,
                   baseline, ghosts>>

ClearValidations ==
    /\ monitor = "validations" /\ monitor' = "baseline"
    /\ validations' = <<>>
    /\ UNCHANGED <<settings, generation, loop, worker, evidence, prefixes, pool, spent, baseline,
                   ghosts>>

ClearBaseline ==
    /\ monitor = "baseline" /\ monitor' = "watching"
    /\ baseline' = [h \in {} |-> FALSE]
    /\ UNCHANGED <<settings, generation, loop, worker, evidence, prefixes, pool, spent,
                   validations, ghosts>>

NetworkChange ==
    PublishGeneration \/ DemoteQuality \/ ResetPool \/ ClearValidations \/ ClearBaseline

WorkerStep(w) ==
    \/ Execute(w) \/ AdmitObserved(w) \/ Begin(w)
    \/ \E o \in Outcomes : Measure(w, o)
    \/ MeasureHttp3(w) \/ ClearFailures(w) \/ Recover(w) \/ Classify(w) \/ Count(w) \/ Trip(w)
    \/ RecordQuality(w) \/ Report(w)

EngineStep ==
    WorkerSlots \/ Acquire \/ StopTaking \/ Return \/ \E w \in Workers : Spawn(w)

ProbeNext ==
    \/ \E o \in Offers, g \in {generation, generation - 1} \ {0} : Offer(o, g)
    \/ EngineStep \/ DrainTimesOut \/ Cancel \/ SupervisorAborts
    \/ \E w \in Workers : WorkerStep(w) \/ Abort(w)
    \/ \E c \in ProbeConfigs : ReloadProbe(c)
    \/ NetworkChange

ProbeSpec == ProbeInit /\ [][ProbeNext]_probeVars

\* Every stage of a probe has a timeout and every other step is not blocked;
\* the loop is polled; the drain has its ten seconds.  That the supervisor
\* comes first is not assumed.
ProbeFairness ==
    /\ WF_probeVars(EngineStep) /\ WF_probeVars(DrainTimesOut)
    /\ \A w \in Workers : WF_probeVars(WorkerStep(w)) /\ WF_probeVars(Abort(w))
ProbeFairSpec == ProbeSpec /\ ProbeFairness

-----------------------------------------------------------------------------
JobType == [kind : {"Observed", "Baseline", "Validate", "Candidate"}, host : Hosts,
            addr : Addrs, cloudflare : BOOLEAN, generation : 1..MaxGeneration]

\* The variables have the shapes the actions give them: an idle worker holds no
\* job, and a live one holds a permit of a semaphore that was built.
ProbeTypeOK ==
    /\ pcfg \in ProbeConfigs /\ cancelled \in BOOLEAN
    /\ generation \in 1..MaxGeneration
    /\ Len(jobs) <= QueueSize /\ \A i \in DOMAIN jobs : jobs[i] \in JobType
    /\ engine.epoch \in 0..Len(slots)
    /\ \A w \in Live : worker[w].job \in JobType /\ worker[w].epoch \in 1..Len(slots)
    /\ \A w \in Workers \ Live : worker[w] = IdleWorker
    /\ health.healthy \in BOOLEAN /\ health.failures \in 0..Threshold
    /\ \A k \in Keys : quality[k] \in 0..generation
    /\ Cardinality(Pooled(pool)) = Len(pool)
    /\ Cardinality(Validated(validations)) = Len(validations)

\* Backpressure reaches the queue: the jobs taken off it and not yet finished
\* never outnumber the permits of the semaphore they were taken under
\* (ProbeEngine::run acquires before it receives).
JobsOutBounded == \A e \in DOMAIN slots : Held(e) <= slots[e]

\* However long an outage lasts, the failures that are counted and held against addresses
\* since the last answer are bounded by the threshold and the number of workers.  The bound
\* is quadratic in the workers, because a worker that cleared the count may raise the flag
\* again after another one has lowered it (SubsystemHealth::record_success,
\* record_failure).  Timeouts are not counted: see OutageIsRecognised.
CountedFailuresBounded == penalties <= DamageLimit

\* A failure that is held against its address (ObservationClass::is_penalising).
Penalised ==
    \E w \in Workers : /\ At(w, "recording") /\ ~Answered(worker[w].outcome)
                       /\ worker[w].class \in {"ApplicableFailure", "Timeout"}
NoneAnswered == \A w \in Workers : ~Answered(worker[w].outcome)

\* The comment on SubsystemHealth: where "every probe fail[s]" the engine "detects the
\* pattern and downgrades new observations to indeterminate until it recovers".  It does not
\* hold: a timeout penalises its address and does not count, so a route that is lost
\* silently is never recognised.
OutageIsRecognised == <>[]NoneAnswered => <>[]~Penalised

\* An address with evidence was connected to, or refused by policy: a refusal
\* by a cooldown fabricates none (run_https).
EvidenceIsMeasured ==
    /\ \A h \in Hosts, a \in Addrs : quality[https(h, a)] # 0 => a \in dialled \cup refused
    /\ \A a \in Addrs : quality[generic(a)] # 0 \/ quality[quic(a)] # 0 => a \in dialled

\* After run has returned no probe is alive, so none opens a connection or
\* reports (the drain at the end of ProbeEngine::run).
StoppedIsQuiet == engine.pc = "stopped" => Live = {}

\* Cancellation ends the engine and every probe, whatever the workers are
\* doing and whether run returns or is aborted by its supervisor.
EngineStops == cancelled ~> engine.pc \in {"stopped", "dropped"} /\ Live = {}

\* "Workers live in a JoinSet so shutdown can wait for in-flight probes rather
\* than leaving them" (ProbeEngine::run).  It does not hold: a supervised
\* engine is dropped before its drain, and nobody waits for its workers.
ShutdownIsQuiet == engine.pc \in {"stopped", "dropped"} => Live = {}

\* A queued job is taken, or the engine is cancelled.
JobsAreTaken == jobs # <<>> ~> jobs = <<>> \/ cancelled
=============================================================================
