------------------------------ MODULE Steering ------------------------------
(***************************************************************************)
(* What steers an answer towards Cloudflare addresses: the tasks of        *)
(* tasks/cloudflare.rs that keep the official prefixes and propose         *)
(* candidates, the mode that a reload and an operator may change           *)
(* (cloudflare/state.rs), and an answer that reads all of it while it is   *)
(* put together (dns/resolver.rs build_response).  The probe engine        *)
(* (module ProbeEngine) measures what is proposed.                         *)
(*                                                                         *)
(* Every task and every answer runs on a thread of its own.  A load or     *)
(* store of an atomic, a critical section and an await are steps of their  *)
(* own.  Disk is the prefix cache file: a crash leaves it as it is and     *)
(* starts the process from nothing.                                        *)
(***************************************************************************)
EXTENDS ProbeEngine, Augmentation

CONSTANTS
    SteerConfigs,   \* the cloudflare sections a reload may bring: [enabled, mode]
    Builtin,        \* PrefixSnapshot::builtin
    Bodies,         \* what the API may publish
    Plausible,      \* prefixes that pass the checks on a single prefix
    MinPrefixes,    \* official.min_ipv4_prefixes, min_ipv6_prefixes
    StaticCandidates, Seeded,   \* configured and seeded addresses
    Original,       \* the addresses of the answer the authority gave for each host
    Augment,        \* cloudflare.augment
    Torn            \* a file that was being written when the process died

\* The prefix snapshots there may be.
Snapshots == {NoSnapshot, Builtin} \cup {parse_cidr_lists(b, Plausible) : b \in Bodies}

ASSUME SteeringAssumption ==
    /\ Hosts # {} /\ StaticCandidates \subseteq Addrs /\ Seeded \subseteq Addrs
    /\ \A o \in Offers : o.host \in Hosts /\ o.addr \in Addrs
    /\ \A c \in SteerConfigs : c.mode \in Modes
    /\ Augment.max_added \in Nat
    /\ Builtin # NoSnapshot /\ Torn \notin Snapshots

VARIABLES
    conf,           \* config.cloudflare as RuntimeState holds it
    mode, over,     \* the atomics mode and mode_override
    reloader,       \* CloudflareState::reconfigure: [pc, to]
    admin,          \* set_mode_override: [pc, mode]
    updater,        \* run_prefix_updater: [pc, candidate, then, todo]
    disk,           \* the cache file and its temporary sibling
    seeder,         \* run_seed_updater: [pc, generation, todo, snapshot]
    sampler,        \* run_sampler: [pc, generation, todo, snapshot]
    prober,         \* run_candidate_prober: [generation, todo]
    answer,         \* one answer being built
    streak          \* ghost: validations accepted in a row on the path in force

control == <<conf, mode, over, reloader, admin>>
feeds == <<updater, disk, seeder, sampler, prober>>
measuring == <<settings, network, loop, worker, evidence, ghosts>>
steeringVars == <<probeVars, control, feeds, answer, streak>>

Waiting == [pc |-> "idle", generation |-> 0, todo |-> {}, snapshot |-> NoSnapshot]
NoAnswer == [pc |-> "idle", host |-> NoJob, conf |-> NoJob, snapshot |-> NoSnapshot,
             mode |-> "Off", verified |-> {}, added |-> {}]
NoUpdate == [pc |-> "cache", candidate |-> NoSnapshot, then |-> "look", todo |-> {}]

SteeringStart ==
    /\ ProbeStart /\ prefixes = Builtin
    /\ conf \in SteerConfigs /\ mode = conf.mode /\ over = NoOverride
    /\ reloader = [pc |-> "idle", to |-> conf] /\ admin = [pc |-> "idle", mode |-> "Off"]
    /\ updater = NoUpdate /\ disk = [file |-> NoSnapshot, tmp |-> NoSnapshot]
    /\ seeder = Waiting /\ sampler = Waiting /\ prober = [generation |-> 0, todo |-> {}]
    /\ answer = NoAnswer

SteeringInit ==
    SteeringStart /\ NoEvidence /\ streak = [k \in Hosts \X Addrs |-> 0]

-----------------------------------------------------------------------------
(* The mode.                                                               *)

\* App::reload swaps the state; answers that begin now use it.
PublishConfig(c) ==
    /\ reloader.pc = "idle" /\ c # conf /\ ~cancelled
    /\ conf' = c /\ reloader' = [pc |-> "mode", to |-> c]
    /\ UNCHANGED <<mode, over, admin, feeds, answer, streak, probeVars>>

StoreMode ==
    /\ reloader.pc = "mode"
    /\ mode' = reloader.to.mode /\ reloader' = [reloader EXCEPT !.pc = "override"]
    /\ UNCHANGED <<conf, over, admin, feeds, answer, streak, probeVars>>

\* An override stronger than the new mode is dropped.
ReviewOverride ==
    /\ reloader.pc = "override"
    /\ reloader' = [reloader EXCEPT !.pc =
           IF over # NoOverride /\ mode_rank[over] > mode_rank[reloader.to.mode]
           THEN "clear" ELSE "idle"]
    /\ UNCHANGED <<conf, mode, over, admin, feeds, answer, streak, probeVars>>

DropOverride ==
    /\ reloader.pc = "clear"
    /\ over' = NoOverride /\ reloader' = [reloader EXCEPT !.pc = "idle"]
    /\ UNCHANGED <<conf, mode, admin, feeds, answer, streak, probeVars>>

\* set_mode_override: the check, then the store.
CheckOverride(m) ==
    /\ admin.pc = "idle" /\ mode_rank[m] <= mode_rank[mode]
    /\ admin' = [pc |-> "store", mode |-> m]
    /\ UNCHANGED <<conf, mode, over, reloader, feeds, answer, streak, probeVars>>

StoreOverride ==
    /\ admin.pc = "store"
    /\ over' = admin.mode /\ admin' = [pc |-> "idle", mode |-> "Off"]
    /\ UNCHANGED <<conf, mode, reloader, feeds, answer, streak, probeVars>>

ClearOverride ==
    /\ admin.pc = "idle" /\ over # NoOverride
    /\ over' = NoOverride
    /\ UNCHANGED <<conf, mode, reloader, admin, feeds, answer, streak, probeVars>>

ModeStep ==
    \/ \E c \in SteerConfigs : PublishConfig(c)
    \/ StoreMode \/ ReviewOverride \/ DropOverride
    \/ \E m \in Modes : CheckOverride(m)
    \/ StoreOverride \/ ClearOverride

-----------------------------------------------------------------------------
(* The official prefixes.                                                  *)

Update(pc) == updater' = [updater EXCEPT !.pc = pc]
UpdaterKeeps == UNCHANGED <<control, seeder, sampler, prober, answer, streak, measuring, spent,
                            validations, baseline>>

Readable(f) ==
    f \notin {NoSnapshot, Torn} /\ validate_snapshot(f, NoSnapshot, MinPrefixes)

\* read_cached_snapshot, at the start: the cached snapshot is used if it can
\* be read whole and is plausible by itself.
ReadCache ==
    /\ updater.pc = "cache"
    /\ LET usable == conf.enabled /\ Readable(disk.file)
       IN  updater' = [updater EXCEPT !.pc = IF usable THEN "revalidate" ELSE "look",
                                      !.candidate = IF usable THEN disk.file ELSE NoSnapshot]
    /\ UNCHANGED <<disk, prefixes, pool>> /\ UpdaterKeeps

\* Mutant: a task that finds itself switched off returns.
LookReturns ==
    /\ updater.pc \in {"look", "asleep"}
    /\ Update(IF conf.enabled THEN "fetch" ELSE "gone")
    /\ UNCHANGED <<disk, prefixes, pool>> /\ UpdaterKeeps

\* The head of the loop, at first and after a sleep: a task that is switched
\* off looks again.
Look ==
    /\ updater.pc \in {"look", "asleep"}
    /\ updater' = [updater EXCEPT !.pc = IF conf.enabled THEN "fetch" ELSE "asleep",
                                  !.then = "static"]
    /\ UNCHANGED <<disk, prefixes, pool>> /\ UpdaterKeeps

\* The request fails, or is answered 304.
FetchNothing ==
    /\ updater.pc = "fetch" /\ Update("static")
    /\ UNCHANGED <<disk, prefixes, pool>> /\ UpdaterKeeps

\* The body is parsed and compared with the snapshot that stands.
FetchPrefixes(body) ==
    /\ updater.pc = "fetch"
    /\ LET new == parse_cidr_lists(body, Plausible)
           good == new # NoSnapshot /\ validate_snapshot(new, prefixes, MinPrefixes)
       IN  updater' = [updater EXCEPT !.pc = IF good THEN "crosscheck" ELSE "static",
                                      !.candidate = IF good THEN new ELSE NoSnapshot]
    /\ UNCHANGED <<disk, prefixes, pool>> /\ UpdaterKeeps

\* The text lists are fetched and compared; whatever comes of it is logged.
CrossCheck ==
    /\ updater.pc = "crosscheck" /\ Update("write")
    /\ UNCHANGED <<disk, prefixes, pool>> /\ UpdaterKeeps

\* The temporary file is being written; it is done, or the disk is full.
WriteCache ==
    /\ updater.pc = "write"
    /\ \/ disk' = [disk EXCEPT !.tmp = Torn] /\ UNCHANGED updater
       \/ disk' = [disk EXCEPT !.tmp = Torn] /\ Update("revalidate")
       \/ disk' = [disk EXCEPT !.tmp = updater.candidate] /\ Update("rename")
    /\ UNCHANGED <<prefixes, pool>> /\ UpdaterKeeps

RenameCache ==
    /\ updater.pc = "rename" /\ Update("revalidate")
    /\ disk' \in {[file |-> disk.tmp, tmp |-> NoSnapshot], [disk EXCEPT !.tmp = NoSnapshot]}
    /\ UNCHANGED <<prefixes, pool>> /\ UpdaterKeeps

\* set_prefixes: the pool first, then the snapshot.
Revalidate ==
    /\ updater.pc = "revalidate" /\ Update("store")
    /\ pool' = revalidate(pool, updater.candidate)
    /\ UNCHANGED <<disk, prefixes>> /\ UpdaterKeeps

StorePrefixes ==
    /\ updater.pc = "store"
    /\ prefixes' = updater.candidate
    /\ updater' = [updater EXCEPT !.pc = updater.then, !.candidate = NoSnapshot]
    /\ UNCHANGED <<disk, pool>> /\ UpdaterKeeps

\* offer is the last thing an admission does: a job for what was added, if
\* the queue has room.
OfferCandidate(r, a, g) ==
    jobs' = IF r.answer = "Added" /\ Len(jobs) < QueueSize
            THEN Append(jobs, [kind |-> "Candidate", host |-> CHOOSE h \in Hosts : TRUE,
                               addr |-> a, cloudflare |-> FALSE, generation |-> g])
            ELSE jobs

\* admit_static_candidates: the snapshot is loaded once.
StaticBegins ==
    /\ updater.pc = "static"
    /\ updater' = [updater EXCEPT !.pc = "admit", !.todo = StaticCandidates,
                                  !.candidate = prefixes]
    /\ UNCHANGED <<disk, prefixes, pool>> /\ UpdaterKeeps

AdmitStatic(a) ==
    /\ updater.pc = "admit" /\ a \in updater.todo
    /\ LET r == admit(pool, spent, a, "Config", updater.candidate, 0)
       IN  pool' = r.pool /\ spent' = r.spent /\ OfferCandidate(r, a, generation)
    /\ updater' = [updater EXCEPT !.todo = @ \ {a}]
    /\ UNCHANGED <<control, disk, seeder, sampler, prober, answer, streak, settings, network,
                   engine, slots, worker, evidence, ghosts, prefixes, validations, baseline>>

StaticEnds ==
    /\ updater.pc = "admit" /\ updater.todo = {}
    /\ updater' = [updater EXCEPT !.pc = "asleep", !.candidate = NoSnapshot]
    /\ UNCHANGED <<disk, prefixes, pool>> /\ UpdaterKeeps

UpdaterStep ==
    \/ ReadCache \/ Look \/ FetchNothing \/ CrossCheck \/ WriteCache \/ RenameCache
    \/ Revalidate \/ StorePrefixes \/ StaticBegins \/ StaticEnds
    \/ \E b \in Bodies : FetchPrefixes(b)
    \/ \E a \in StaticCandidates : AdmitStatic(a)

-----------------------------------------------------------------------------
(* Seeds, samples and the candidate prober.                                *)

FeedKeeps == UNCHANGED <<control, updater, disk, answer, streak, settings, network, engine, slots,
                         worker, evidence, ghosts, prefixes, validations, baseline>>

\* poll_seed: a response that parses; the generation is read once.
SeedArrives ==
    /\ seeder.pc = "idle" /\ conf.enabled /\ ~cancelled
    /\ \E S \in SUBSET Seeded : S # {} /\ seeder' = [Waiting EXCEPT !.pc = "load", !.todo = S,
                                                                    !.generation = generation]
    /\ UNCHANGED <<jobs, pool, spent, sampler, prober>> /\ FeedKeeps

SeedLoads ==
    /\ seeder.pc = "load"
    /\ seeder' = IF seeder.todo = {} THEN Waiting
                 ELSE [seeder EXCEPT !.pc = "admit", !.snapshot = prefixes]
    /\ UNCHANGED <<jobs, pool, spent, sampler, prober>> /\ FeedKeeps

SeedAdmits(a) ==
    /\ seeder.pc = "admit" /\ a \in seeder.todo
    /\ LET r == admit(pool, spent, a, "Seed", seeder.snapshot, 0)
       IN  pool' = r.pool /\ spent' = r.spent /\ OfferCandidate(r, a, seeder.generation)
    /\ seeder' = [seeder EXCEPT !.pc = "load", !.todo = @ \ {a}, !.snapshot = NoSnapshot]
    /\ UNCHANGED <<sampler, prober>> /\ FeedKeeps

\* run_sampler, after its sleep: addresses of the IPv4 prefixes of one
\* snapshot, which the whole round uses.
SampleRound ==
    /\ sampler.pc = "idle" /\ conf.enabled /\ ~cancelled
    /\ \E a \in Addrs \ Ipv6 :
          /\ PrefixOf[a] \in prefixes.v4
          /\ sampler' = [pc |-> "admit", generation |-> generation, todo |-> {a},
                         snapshot |-> prefixes]
    /\ UNCHANGED <<jobs, pool, spent, seeder, prober>> /\ FeedKeeps

SampleAdmits(a) ==
    /\ sampler.pc = "admit" /\ a \in sampler.todo
    /\ LET r == admit(pool, spent, a, "Sampling", sampler.snapshot, HourlyBudget)
       IN  pool' = r.pool /\ spent' = r.spent /\ OfferCandidate(r, a, sampler.generation)
    /\ sampler' = Waiting
    /\ UNCHANGED <<seeder, prober>> /\ FeedKeeps

HourPasses ==
    /\ spent > 0 /\ spent' = 0
    /\ UNCHANGED <<jobs, pool, seeder, sampler, prober>> /\ FeedKeeps

ProbeJob(kind, h, a) == [kind |-> kind, host |-> h, addr |-> a]

\* The jobs of one round: the candidates that are due and, where the
\* configuration augments, the eligible ones against the hot names.
RoundJobs(due) ==
    LET fit == eligible(pool, FALSE, 1) \cup eligible(pool, TRUE, 1)
        hot == IF conf.mode = "VerifiedAugment" THEN Hosts ELSE {}
    IN  {ProbeJob("Candidate", k[1], k[2]) : k \in Hosts \X due}
            \cup {ProbeJob("Validate", k[1], k[2]) : k \in hot \X fit}

\* run_candidate_prober, a round: candidates out of cooldown are due.
ProberRound ==
    /\ prober.todo = {} /\ conf.enabled /\ pcfg.enabled /\ ~cancelled
    /\ \E due \in SUBSET Pooled(pool) :
          /\ {a \in Pooled(pool) : ~pool[PlaceOf(pool, a)].probed} \subseteq due
          /\ prober' = [generation |-> generation, todo |-> RoundJobs(due)]
    /\ UNCHANGED <<jobs, pool, spent, seeder, sampler>> /\ FeedKeeps

ProberOffers(j) ==
    /\ j \in prober.todo
    /\ prober' = [prober EXCEPT !.todo = @ \ {j}]
    /\ jobs' = IF Len(jobs) >= QueueSize THEN jobs
               ELSE Append(jobs, [kind |-> j.kind, host |-> j.host, addr |-> j.addr,
                                  cloudflare |-> FALSE, generation |-> prober.generation])
    /\ UNCHANGED <<pool, spent, seeder, sampler>> /\ FeedKeeps

FeedStep ==
    \/ SeedArrives \/ SeedLoads \/ SampleRound \/ HourPasses \/ ProberRound
    \/ \E a \in Addrs : SeedAdmits(a) \/ SampleAdmits(a)
    \/ \E j \in prober.todo : ProberOffers(j)

-----------------------------------------------------------------------------
(* An answer (build_response): the configuration it began with, then the   *)
(* prefixes, the mode, the validations and the baseline as it gets there.  *)

AnswerKeeps == UNCHANGED <<control, feeds, streak, probeVars>>

AnswerBegins(h) ==
    /\ answer.pc \in {"idle", "done"} /\ ~cancelled
    /\ answer' = [NoAnswer EXCEPT !.pc = "snapshot", !.host = h, !.conf = conf]
    /\ AnswerKeeps

AnswerLoadsPrefixes ==
    /\ answer.pc = "snapshot"
    /\ answer' = [answer EXCEPT !.pc = "mode", !.snapshot = prefixes]
    /\ AnswerKeeps

AnswerReadsMode ==
    /\ answer.pc = "mode"
    /\ answer' = [answer EXCEPT !.pc = "verified", !.mode = effective_mode(over, answer.conf.mode)]
    /\ AnswerKeeps

AnswerReadsVerified ==
    /\ answer.pc = "verified"
    /\ answer' = [answer EXCEPT !.pc = "apply", !.verified =
           IF answer.conf.enabled /\ answer.mode = "VerifiedAugment"
           THEN verified_for(validations, answer.host, FALSE, Augment.min_validations) ELSE {}]
    /\ AnswerKeeps

\* apply_answer_policy for an insecure answer with one record set.  Costs are
\* not modelled here: whatever is verified may come first.
AnswerApplies ==
    /\ answer.pc = "apply"
    /\ LET inside == {a \in Addrs : contains(answer.snapshot, a)}
           decided == evaluate([enabled |-> answer.conf.enabled, mode |-> answer.mode,
               qtype |-> "A", excluded |-> FALSE, snapshot |-> inside,
               original |-> Original[answer.host], single_rrset |-> TRUE, dnssec |-> "Insecure",
               publishes_ech |-> FALSE, can_validate_ech |-> FALSE,
               baseline_validated |-> is_baseline(baseline, answer.host),
               has_verified_candidate |-> \E v \in answer.verified : v.fresh])[1]
           listed(s) == [i \in DOMAIN s |->
               [addr |-> s[i].addr, fresh |-> s[i].fresh, successes |-> s[i].successes,
                type |-> "A", samples |-> IF quality[https(answer.host, s[i].addr)] # 0 THEN 1
                                          ELSE 0]]
           ctx(s) == [verified |-> listed(s), augment |-> Augment, qtype |-> "A",
                      snapshot |-> inside, special_use |-> SpecialUse,
                      quality |-> [a \in Addrs |-> [known |-> FALSE]]]
       IN  \E s \in Listings(answer.verified) :
             answer' = [answer EXCEPT !.pc = "done", !.verified = {}, !.added =
                 IF decided = "Augment"
                 THEN Range(ToAdd(Original[answer.host], ctx(s)))
                 ELSE {}]
    /\ AnswerKeeps

AnswerStep ==
    \/ \E h \in Hosts : AnswerBegins(h)
    \/ AnswerLoadsPrefixes \/ AnswerReadsMode \/ AnswerReadsVerified \/ AnswerApplies

\* A validation loses its freshness with time.
ValidationAges ==
    /\ \E i \in DOMAIN validations :
          validations[i].fresh /\ validations' = [validations EXCEPT ![i].fresh = FALSE]
    /\ UNCHANGED <<control, feeds, answer, streak, measuring, prefixes, pool, spent, baseline>>

\* The workers whose validation of a host and address, begun on the path in force, this
\* step records.
Reporting(k) == {w \in Live : /\ At(w, "reporting") /\ worker'[w] = IdleWorker
                              /\ JobOf(w).kind = "Validate"
                              /\ JobOf(w).generation = generation
                              /\ <<JobOf(w).host, JobOf(w).addr>> = k}

\* The engine and the monitor; the ghost follows the validations it reports, and begins
\* again with a new path.
Probing ==
    /\ ProbeNext
    /\ streak' = [k \in Hosts \X Addrs |->
          IF generation' # generation THEN 0
          ELSE IF \E w \in Reporting(k) : worker[w].outcome = "accepted" THEN CapSucc(streak[k])
          ELSE IF \E w \in Reporting(k) : \/ Answered(worker[w].outcome)
                                          \/ worker[w].class = "ApplicableFailure"
          THEN 0 ELSE streak[k]]
    /\ UNCHANGED <<control, feeds, answer>>

\* The process dies and is started again.  What the database brings back is
\* module Storage's.
Crash ==
    /\ prefixes' = Builtin /\ pool' = <<>> /\ spent' = 0 /\ validations' = <<>>
    /\ baseline' = [h \in {} |-> FALSE]
    /\ mode' = conf.mode /\ over' = NoOverride
    /\ reloader' = [pc |-> "idle", to |-> conf] /\ admin' = [pc |-> "idle", mode |-> "Off"]
    /\ updater' = NoUpdate /\ seeder' = Waiting /\ sampler' = Waiting
    /\ prober' = [generation |-> 0, todo |-> {}] /\ answer' = NoAnswer
    /\ streak' = [k \in Hosts \X Addrs |-> 0]
    /\ jobs' = <<>> /\ engine' = [pc |-> "permit", epoch |-> 0] /\ slots' = <<>>
    /\ worker' = [w \in Workers |-> IdleWorker]
    /\ health' = [healthy |-> TRUE, failures |-> 0] /\ quality' = [k \in Keys |-> 0]
    /\ monitor' = "watching" /\ penalties' = 0
    /\ UNCHANGED <<conf, disk, settings, generation, dialled, refused>>

SteeringNext ==
    Probing \/ ModeStep \/ UpdaterStep \/ FeedStep \/ AnswerStep \/ ValidationAges \/ Crash

SteeringSpec == SteeringInit /\ [][SteeringNext]_steeringVars

\* The updater is a task of its own whose every await has a timeout.
SteeringFairness == WF_steeringVars(UpdaterStep)
SteeringFairSpec == SteeringSpec /\ SteeringFairness

-----------------------------------------------------------------------------
\* The variables have the shapes the actions give them; a task that waits
\* holds no snapshot.
SteeringTypeOK ==
    /\ conf \in SteerConfigs /\ mode \in Modes /\ over \in Modes \cup {NoOverride}
    /\ prefixes \in Snapshots \ {NoSnapshot}
    /\ {disk.file, disk.tmp} \subseteq Snapshots \cup {Torn}
    /\ updater.candidate \in Snapshots /\ (updater.pc = "asleep" => updater.candidate = NoSnapshot)
    /\ seeder.pc = "idle" => seeder = Waiting
    /\ sampler.pc = "idle" => sampler = Waiting
    /\ Len(pool) <= PoolCapacity /\ Len(validations) <= ValidationsMax
    /\ answer.added \subseteq Addrs

\* Whatever an operator sets while a reload is under way, no answer adds an
\* address unless the configuration it began with says verified-augment
\* (set_mode_override checks and stores in two steps; effective_mode).
OverrideNeverStrengthens ==
    answer.added # {} => answer.conf.enabled /\ answer.conf.mode = "VerifiedAugment"

\* Validations outlive the prefixes: an address that had left the official
\* snapshot when the answer read it is not added, however well it validated.
RetiredIsNotAdded ==
    \A a \in answer.added : contains(answer.snapshot, a) /\ a \notin Original[answer.host]

\* What an answer adds was allowed by the configuration it began with and was Cloudflare's
\* in the snapshot it read, whatever changes while it is built.
AdditionsAreAllowed == OverrideNeverStrengthens /\ RetiredIsNotAdded

\* The probes a change of path has overtaken: execute found them of the path of the moment.
Overtaken ==
    {w \in Workers : worker[w].pc \notin {"idle", "spawned"} /\ JobOf(w).generation # generation}
Slack == Cardinality(Workers) - Cardinality(Overtaken)

\* A new path is announced and what was measured on the old one not yet cleared.
Clearing == monitor \in {"quality", "pool", "validations"}

\* Once the claims of the old path are cleared, the successes a validation claims were
\* accepted one after the other on the path in force, but for at most one of each worker:
\* run_https does not look at the generation again before it reports, so a probe the change
\* overtook still counts, and no job that was only queued does (execute).
ValidationsEarned ==
    ~Clearing => \A i \in DOMAIN validations :
        validations[i].successes <= streak[<<validations[i].host, validations[i].addr>>] + Slack

\* docs/adr/0010-preserve-before-augment.md, condition 6 for adding an address: "The network
\* generation has not changed since the evidence was gathered."  It does not hold: a probe
\* of the old path that reports late is evidence like any other.
EvidenceOfThisPath ==
    ~Clearing => \A i \in DOMAIN validations :
        validations[i].successes <= streak[<<validations[i].host, validations[i].addr>>]

\* The cache file is whole at every moment at which the process may die.
CacheIsWhole == disk.file # Torn

\* A refresh never takes away more than half of the IPv4 prefixes in force,
\* though it compared them before it awaited the cross-check and the disk.
PrefixesNeverCollapse ==
    [][updater.pc = "store" /\ updater'.pc = "static" =>
          Cardinality(prefixes'.v4) * 2 >= Cardinality(prefixes.v4)]_steeringVars

\* A candidate that has answered a probe leaves the pool only for one whose
\* origin outranks its own, or because its prefix was withdrawn: sampling
\* and seeding do not displace what was measured.
ProvenIsKept ==
    [][\A i \in DOMAIN pool :
          pool[i].stage # "New" /\ pool[i].addr \notin Pooled(pool') =>
              \/ updater.pc = "revalidate" /\ ~contains(updater.candidate, pool[i].addr)
              \/ \E j \in DOMAIN pool' : /\ pool'[j].addr \notin Pooled(pool)
                                         /\ priority[pool'[j].origin] < priority[pool[i].origin]
              \/ updater' = NoUpdate]_steeringVars

\* Switching the subsystem off and on again brings the updater back: it does
\* not return while it is disabled (run_prefix_updater).
UpdaterComesBack == conf.enabled ~> (updater.pc = "fetch" \/ ~conf.enabled)

\* The comment on read_cached_snapshot: the cache passes the validation a
\* refresh would have to pass.  It does not hold: the cache is compared with
\* nothing, a refresh with the snapshot in force.
CacheNeverShrinks ==
    [][updater.pc = "store" /\ updater.then = "look" =>
          2 * Cardinality(prefixes'.v4) >= Cardinality(prefixes.v4)]_steeringVars

\* The comment on revalidate: a candidate outside the snapshot stops being
\* usable immediately.  It does not hold of the pool: an admission that
\* loaded the old snapshot comes after the revalidation.
PoolInsideSnapshot == \A a \in Pooled(pool) : contains(prefixes, a)
=============================================================================
