----------------------------- MODULE Cloudflare -----------------------------
(***************************************************************************)
(* The shared Cloudflare state as values (cloudflare/state.rs,             *)
(* candidates.rs, prefixes.rs): each operator takes the part of the state  *)
(* one critical section covers and returns what it leaves there.  Several  *)
(* modules of this project use them: the probe engine and the tasks that   *)
(* steer answers write the same pool, validations and baselines.           *)
(*                                                                         *)
(* A prefix snapshot is the pair of its IPv4 and IPv6 prefix sets.  The    *)
(* pool is a sequence of candidates, least recently seen first.  Counters  *)
(* of successes stop at SuccessCap.                                        *)
(***************************************************************************)
EXTENDS Naturals, Sequences, FiniteSets, Lists

CONSTANTS
    Addrs,          \* the addresses that are ever answered, seeded or sampled
    Ipv6,           \* those of them that are IPv6
    SpecialUse,     \* those util/ipclass.rs classifies as special use
    Mapped,         \* IPv4-mapped IPv6 addresses
    PrefixOf,       \* PrefixOf[a]: the prefix an address lies in
    PoolCapacity,   \* candidate_pool_max
    ValidationsMax, \* max_validation_entries
    HourlyBudget,   \* sampling.max_new_candidates_per_hour, where the model stops counting
    SuccessCap,     \* where the model stops counting successes
    NoSnapshot      \* no prefix snapshot

ASSUME CloudflareAssumption ==
    /\ PoolCapacity \in Nat \ {0}
    /\ ValidationsMax \in Nat \ {0}
    /\ SuccessCap \in Nat \ {0}
    /\ HourlyBudget \in Nat \ {0}

Modes == {"Off", "Preserve", "VerifiedAugment"}
mode_rank == [Off |-> 0, Preserve |-> 1, VerifiedAugment |-> 2]
NoOverride == "None"

\* effective_mode without the comparison: whatever override stands is obeyed.
effective_modeUnchecked(over, configured) == IF over = NoOverride THEN configured ELSE over

\* The mode one answer obeys: an override counts only where it weakens the
\* configuration that answer was given.
effective_mode(over, configured) ==
    IF over # NoOverride /\ mode_rank[over] <= mode_rank[configured] THEN over ELSE configured

contains(s, a) == a \notin Mapped /\ PrefixOf[a] \in s.v4 \cup s.v6

\* parse_cidr_list_v4, _v6: one implausible or special-use prefix fails the
\* whole list.  Sorting and dropping duplicates leaves a set.
parse_cidr_lists(body, Plausible) ==
    IF /\ body.success
       /\ \A p \in body.v4 \cup body.v6 : p \in Plausible
    THEN [v4 |-> body.v4, v6 |-> body.v6]
    ELSE NoSnapshot

\* Mutant: only an empty list is refused.
validate_snapshotAnySize(candidate, previous, min) == candidate.v4 # {}

validate_snapshot(candidate, previous, min) ==
    /\ Cardinality(candidate.v4) >= min.v4
    /\ Cardinality(candidate.v6) >= min.v6
    /\ previous # NoSnapshot =>
          /\ Cardinality(candidate.v4) * 2 >= Cardinality(previous.v4)
          /\ previous.v6 # {} => Cardinality(candidate.v6) * 2 >= Cardinality(previous.v6)

-----------------------------------------------------------------------------
(* The candidate pool.                                                     *)

priority == [DnsAnswer |-> 0, Config |-> 1, Persisted |-> 2, Seed |-> 3, Sampling |-> 4]
Stages == <<"New", "TcpOk", "TlsOk", "HttpOk">>
StageRank == [New |-> 0, TcpOk |-> 1, TlsOk |-> 2, HttpOk |-> 3]

Candidate(a, origin) ==
    [addr |-> a, origin |-> origin, stage |-> "New", successes |-> 0, probed |-> FALSE]

Pooled(pool) == {pool[i].addr : i \in DOMAIN pool}
PlaceOf(pool, a) == CHOOSE i \in DOMAIN pool : pool[i].addr = a
Without(pool, i) == SubSeq(pool, 1, i - 1) \o SubSeq(pool, i + 1, Len(pool))

\* The victims evict_one may take: not a probed candidate whose origin
\* outranks or equals the newcomer's.
Evictable(pool, origin) ==
    {i \in DOMAIN pool : \/ priority[pool[i].origin] > priority[origin]
                         \/ pool[i].stage = "New"}

\* The lowest-ranked origin goes first, and within it the least recently seen.
evict_one(pool, origin) ==
    LET can   == Evictable(pool, origin)
        worst == {i \in can : \A j \in can : priority[pool[j].origin] <= priority[pool[i].origin]}
    IN  IF can = {} THEN [evicted |-> FALSE, pool |-> pool]
        ELSE [evicted |-> TRUE,
              pool |-> Without(pool, CHOOSE i \in worst : \A j \in worst : i <= j)]

\* CandidatePool::admit.  spent is admitted_this_hour after the hour was
\* looked at, budget the hourly budget, or 0 for none.
admit(pool, spent, a, origin, snapshot, budget) ==
    LET refuse(reason) == [answer |-> reason, pool |-> pool, spent |-> spent]
        room == IF Len(pool) >= PoolCapacity THEN evict_one(pool, origin)
                ELSE [evicted |-> TRUE, pool |-> pool]
    IN  IF a \in SpecialUse THEN refuse("SpecialUse")
        ELSE IF snapshot = NoSnapshot THEN refuse("NoSnapshot")
        ELSE IF ~contains(snapshot, a) THEN refuse("NotOfficialPrefix")
        ELSE IF a \in Pooled(pool) THEN
             LET i == PlaceOf(pool, a)
                 better == IF priority[origin] < priority[pool[i].origin]
                           THEN origin ELSE pool[i].origin
             IN  [answer |-> "Refreshed", spent |-> spent,
                  pool |-> Append(Without(pool, i), [pool[i] EXCEPT !.origin = better])]
        ELSE IF budget > 0 /\ spent >= budget THEN refuse("BudgetExhausted")
        ELSE IF ~room.evicted THEN refuse("PoolFull")
        ELSE [answer |-> "Added", pool |-> Append(room.pool, Candidate(a, origin)),
              spent |-> IF spent < HourlyBudget THEN spent + 1 ELSE spent]

CapSucc(n) == IF n < SuccessCap THEN n + 1 ELSE n

record_stage(pool, a, stage, success) ==
    [i \in DOMAIN pool |->
        LET c == pool[i] IN
        IF c.addr # a THEN c
        ELSE IF success
        THEN [c EXCEPT !.probed = TRUE, !.successes = CapSucc(@),
                       !.stage = IF StageRank[stage] > StageRank[@] THEN stage ELSE @]
        ELSE [c EXCEPT !.probed = TRUE, !.successes = 0]]

eligible(pool, v6, min) ==
    {pool[i].addr : i \in {j \in DOMAIN pool : /\ pool[j].stage = "HttpOk"
                                               /\ pool[j].successes >= min
                                               /\ (pool[j].addr \in Ipv6) = v6}}

revalidate(pool, snapshot) ==
    Keeping(pool, {i \in DOMAIN pool : contains(snapshot, pool[i].addr)})

pool_on_generation_change(pool) ==
    [i \in DOMAIN pool |-> Candidate(pool[i].addr, pool[i].origin)]

-----------------------------------------------------------------------------
(* Domain-level validations: a sequence of records, least recently         *)
(* attempted first, one per host and address.                              *)

Validated(validations) == {<<validations[i].host, validations[i].addr>> : i \in DOMAIN validations}

PlacesFor(validations, host, a) ==
    {i \in DOMAIN validations : validations[i].host = host /\ validations[i].addr = a}
NeverValidated(host, a) == [host |-> host, addr |-> a, fresh |-> FALSE, successes |-> 0]

\* Mutant: a rejected validation only loses its freshness.
record_validationForgiving(validations, host, a, success) ==
    LET at   == PlacesFor(validations, host, a)
        kept == IF at # {} THEN Without(validations, CHOOSE i \in at : TRUE) ELSE validations
        was  == IF at # {} THEN validations[CHOOSE i \in at : TRUE] ELSE NeverValidated(host, a)
    IN  Append(kept, [was EXCEPT !.successes = CapSucc(@), !.fresh = success])

\* The entry moves to the end; a new one in a full map first costs the least
\* recently attempted ones their places.
record_validation(validations, host, a, success) ==
    LET at   == PlacesFor(validations, host, a)
        kept == IF at # {} THEN Without(validations, CHOOSE i \in at : TRUE)
                ELSE IF Len(validations) >= ValidationsMax
                THEN SubSeq(validations, ValidationsMax \div 16 + 2, Len(validations))
                ELSE validations
        was  == IF at # {} THEN validations[CHOOSE i \in at : TRUE] ELSE NeverValidated(host, a)
    IN  Append(kept, IF success
                     THEN [was EXCEPT !.successes = CapSucc(@), !.fresh = TRUE]
                     ELSE [was EXCEPT !.successes = 0])

verified_for(validations, host, v6, min) ==
    {v \in {validations[i] : i \in DOMAIN validations} :
        /\ v.host = host
        /\ (v.addr \in Ipv6) = v6
        /\ v.successes >= min}

\* set_baseline: the map is emptied when it has outgrown its bound.
set_baseline(baseline, host, accepted) ==
    LET hosts == IF Cardinality(DOMAIN baseline) > ValidationsMax THEN {} ELSE DOMAIN baseline
    IN  [h \in hosts \cup {host} |-> IF h = host THEN accepted ELSE baseline[h]]

is_baseline(baseline, host) == host \in DOMAIN baseline /\ baseline[host]
=============================================================================
