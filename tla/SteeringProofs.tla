--------------------------- MODULE SteeringProofs ---------------------------
(***************************************************************************)
(* Proofs about Steering, which adds to the probe engine the operator, the *)
(* prefix updater with its cache file, and the answers: for any addresses, *)
(* prefixes, hosts and settings.                                           *)
(***************************************************************************)
EXTENDS Steering, SequenceFacts, ProbeProofs

-----------------------------------------------------------------------------
(* Steering: the prefixes, their cache file and the answers.               *)

UpdaterPcs == {"cache", "look", "asleep", "fetch", "static", "crosscheck", "write", "rename",
               "revalidate", "store", "admit"}
UpdaterType == [pc : UpdaterPcs, candidate : Snapshots, then : {"look", "static"},
                todo : SUBSET Addrs]
DiskType == [file : Snapshots \cup {Torn}, tmp : Snapshots \cup {Torn}]

\* From the comparison to the store the updater carries one candidate, and
\* the snapshot it was compared with stands: nobody else stores prefixes.
Refreshing == {"crosscheck", "write", "rename", "revalidate", "store"}
UpdaterInv ==
    /\ prefixes \in Snapshots \ {NoSnapshot}
    /\ updater \in UpdaterType /\ disk \in DiskType
    /\ updater.pc = "cache" => updater.then = "look"
    /\ updater.pc \in {"fetch", "crosscheck", "write", "rename"} => updater.then = "static"
    /\ updater.pc \in Refreshing => updater.candidate # NoSnapshot
    /\ updater.pc \in Refreshing /\ updater.then = "static" =>
          Cardinality(updater.candidate.v4) * 2 >= Cardinality(prefixes.v4)
    /\ updater.pc = "rename" => disk.tmp = updater.candidate
    /\ CacheIsWhole

LEMMA UpdaterInvInit == SteeringInit => UpdaterInv
BY SteeringAssumption DEF SteeringInit, SteeringStart, UpdaterInv, UpdaterType, UpdaterPcs, DiskType,
    Refreshing, NoUpdate, Snapshots, CacheIsWhole

\* Every step of the updater.
LEMMA UpdaterKeepsInv == ASSUME UpdaterInv, UpdaterStep PROVE UpdaterInv'
<1> USE DEF UpdaterInv, UpdaterType, UpdaterPcs, DiskType, Refreshing, CacheIsWhole, Update
<1>1. CASE ReadCache
  <2>1. /\ updater.pc = "cache" /\ UNCHANGED <<disk, prefixes>>
        /\ \/ /\ disk.file \in Snapshots \ {NoSnapshot}
              /\ updater' = [updater EXCEPT !.pc = "revalidate", !.candidate = disk.file]
           \/ updater' = [updater EXCEPT !.pc = "look", !.candidate = NoSnapshot]
    BY <1>1, Zenon DEF ReadCache, Readable
  <2>2. NoSnapshot \in Snapshots BY DEF Snapshots
  <2> QED BY <2>1, <2>2, Zenon
<1>2. CASE Look
  BY <1>2, Zenon DEF Look
<1>3. CASE FetchNothing
  BY <1>3 DEF FetchNothing
<1>4. CASE CrossCheck
  BY <1>4 DEF CrossCheck
<1>5. CASE WriteCache
  BY <1>5 DEF WriteCache
<1>6. CASE RenameCache
  <2>1. /\ updater' = [updater EXCEPT !.pc = "revalidate"] /\ UNCHANGED prefixes
        /\ updater.pc = "rename"
        /\ \/ disk' = [file |-> disk.tmp, tmp |-> NoSnapshot]
           \/ disk' = [disk EXCEPT !.tmp = NoSnapshot]
    BY <1>6 DEF RenameCache
  <2>2. disk.tmp \in Snapshots /\ disk.tmp # Torn /\ NoSnapshot \in Snapshots
    BY <2>1, SteeringAssumption DEF Snapshots
  <2> QED BY <2>1, <2>2
<1>7. CASE Revalidate
  BY <1>7 DEF Revalidate
<1>8. CASE StorePrefixes
  <2>1. NoSnapshot \in Snapshots BY DEF Snapshots
  <2> QED BY <1>8, <2>1, Zenon DEF StorePrefixes
<1>9. CASE StaticBegins
  BY <1>9, SteeringAssumption, Zenon DEF StaticBegins
<1>10. CASE StaticEnds
  <2>1. NoSnapshot \in Snapshots BY DEF Snapshots
  <2> QED BY <1>10, <2>1, Zenon DEF StaticEnds
<1>11. CASE \E b \in Bodies : FetchPrefixes(b)
  <2>1. PICK b \in Bodies : FetchPrefixes(b) BY <1>11
  <2> DEFINE new == parse_cidr_lists(b, Plausible)
  <2>2. new \in Snapshots /\ NoSnapshot \in Snapshots BY DEF Snapshots
  <2>3. new # NoSnapshot /\ validate_snapshot(new, prefixes, MinPrefixes) =>
            Cardinality(new.v4) * 2 >= Cardinality(prefixes.v4)
    BY DEF validate_snapshot
  <2> HIDE DEF new
  <2> QED BY <2>1, <2>2, <2>3, Zenon DEF FetchPrefixes, new
<1>12. CASE \E a \in StaticCandidates : AdmitStatic(a)
  BY <1>12 DEF AdmitStatic
<1> QED BY <1>1, <1>2, <1>3, <1>4, <1>5, <1>6, <1>7, <1>8, <1>9, <1>10, <1>11, <1>12, Zenon
        DEF UpdaterStep

\* What the other actors leave alone.
LEMMA Frames ==
    /\ ModeStep => UNCHANGED <<feeds, answer, streak, probeVars>>
    /\ FeedStep => FeedKeeps
    /\ AnswerStep => AnswerKeeps
    /\ ValidationAges => UNCHANGED <<control, feeds, answer, streak, measuring, prefixes, pool, spent,
                                     baseline>>
<1>1. ModeStep => UNCHANGED <<feeds, answer, streak, probeVars>>
  BY DEF ModeStep, PublishConfig, StoreMode, ReviewOverride, DropOverride, CheckOverride,
      StoreOverride, ClearOverride
<1>2. FeedStep => FeedKeeps
  <2>1. SeedArrives \/ SeedLoads \/ SampleRound \/ HourPasses => FeedKeeps
    BY Zenon DEF SeedArrives, SeedLoads, SampleRound, HourPasses
  <2>2. ProberRound => FeedKeeps BY Zenon DEF ProberRound
  <2>3. \A a : SeedAdmits(a) \/ SampleAdmits(a) => FeedKeeps BY Zenon DEF SeedAdmits, SampleAdmits
  <2>4. \A j : ProberOffers(j) => FeedKeeps BY Zenon DEF ProberOffers
  <2> QED BY <2>1, <2>2, <2>3, <2>4, Zenon DEF FeedStep
<1>3. AnswerStep => AnswerKeeps
  BY Zenon DEF AnswerStep, AnswerBegins, AnswerLoadsPrefixes, AnswerReadsMode, AnswerReadsVerified,
      AnswerApplies
<1>4. ValidationAges => UNCHANGED <<control, feeds, answer, streak, measuring, prefixes, pool, spent,
                                    baseline>>
  BY Zenon DEF ValidationAges
<1> QED BY <1>1, <1>2, <1>3, <1>4, ZenonT(30)

\* The others leave the prefixes and the file to it; a crash leaves the file.
LEMMA UpdaterInvStep == UpdaterInv /\ [SteeringNext]_steeringVars => UpdaterInv'
<1> SUFFICES ASSUME UpdaterInv, [SteeringNext]_steeringVars PROVE UpdaterInv' OBVIOUS
<1>1. ASSUME UNCHANGED <<prefixes, updater, disk>> PROVE UpdaterInv'
  BY <1>1 DEF UpdaterInv, CacheIsWhole
<1>2. CASE ProbeNext /\ UNCHANGED feeds
  <2>1. UNCHANGED prefixes
    BY <1>2, Zenon DEF ProbeNext, Offer, EngineStep, WorkerSlots, Acquire, StopTaking, Return, Spawn,
        DrainTimesOut, Cancel, SupervisorAborts, WorkerStep, Abort, Execute, AdmitObserved, Begin,
        Measure, MeasureHttp3, ClearFailures, Recover, Classify, Count, Trip, RecordQuality, Report,
        ReloadProbe, NetworkChange, PublishGeneration, DemoteQuality, ResetPool, ClearValidations,
        ClearBaseline, cfVars
  <2> QED BY <1>1, <1>2, <2>1, ZenonT(30) DEF feeds
<1>3. CASE ModeStep \/ FeedStep \/ AnswerStep \/ ValidationAges \/ UNCHANGED steeringVars
  <2>1. UNCHANGED <<prefixes, updater, disk>>
    BY <1>3, Frames DEF FeedKeeps, AnswerKeeps, feeds, probeVars, cfVars, steeringVars
  <2> QED BY <1>1, <2>1
<1>4. CASE Crash
  <2>1. prefixes' = Builtin /\ updater' = NoUpdate /\ disk' = disk BY <1>4 DEF Crash
  <2> QED BY <2>1, SteeringAssumption DEF UpdaterInv, UpdaterType, UpdaterPcs, DiskType, Refreshing,
        NoUpdate, Snapshots, CacheIsWhole
<1> QED BY <1>2, <1>3, <1>4, UpdaterKeepsInv DEF SteeringNext, Probing

LEMMA UpdaterInvAlways == SteeringSpec => []UpdaterInv
BY UpdaterInvInit, UpdaterInvStep, PTL DEF SteeringSpec

\* A refresh never takes away more than half of the IPv4 prefixes in force,
\* whatever bodies the API publishes and whatever is awaited between the
\* comparison and the store (run_prefix_updater, validate_snapshot).
THEOREM RefreshesKeepHalf == SteeringSpec => PrefixesNeverCollapse
<1> DEFINE Kept == updater.pc = "store" /\ updater'.pc = "static" =>
                      Cardinality(prefixes'.v4) * 2 >= Cardinality(prefixes.v4)
<1>1. UpdaterInv /\ [SteeringNext]_steeringVars => Kept
  <2> SUFFICES ASSUME UpdaterInv, [SteeringNext]_steeringVars,
                      updater.pc = "store", updater'.pc = "static"
               PROVE  Cardinality(prefixes'.v4) * 2 >= Cardinality(prefixes.v4)
    BY ZenonT(30)
  <2>1. StorePrefixes
    <3>1. updater' # updater BY Zenon
    <3>2. ~(ModeStep \/ FeedStep \/ AnswerStep \/ ValidationAges \/ UNCHANGED steeringVars)
      BY <3>1, Frames DEF FeedKeeps, AnswerKeeps, feeds, steeringVars
    <3>3. ~Probing BY <3>1, Zenon DEF Probing, feeds
    <3>4. ~Crash
      <4>1. NoUpdate.pc = "cache" BY DEF NoUpdate
      <4> QED BY <4>1 DEF Crash
    <3>5. UpdaterStep BY <3>2, <3>3, <3>4 DEF SteeringNext
    <3> QED
      BY <3>5 DEF UpdaterStep, ReadCache, Look, FetchNothing, CrossCheck, WriteCache, RenameCache,
          Revalidate, StaticBegins, StaticEnds, FetchPrefixes, AdmitStatic
  <2>2. /\ prefixes' = updater.candidate
        /\ updater' = [updater EXCEPT !.pc = updater.then, !.candidate = NoSnapshot]
    BY <2>1 DEF StorePrefixes
  <2>3. updater.then = "static" BY <2>2 DEF UpdaterInv, UpdaterType
  <2> QED BY <2>2, <2>3, ZenonT(30) DEF UpdaterInv, Refreshing
<1>2. [][Kept]_steeringVars => PrefixesNeverCollapse BY DEF PrefixesNeverCollapse
<1> QED BY <1>1, <1>2, UpdaterInvAlways, PTL DEF SteeringSpec

\* The cache file is whole whenever the process may die (the temporary file
\* is renamed only once it is written).
THEOREM CacheWhole == SteeringSpec => []CacheIsWhole
<1>1. UpdaterInv => CacheIsWhole BY DEF UpdaterInv
<1> QED BY <1>1, UpdaterInvAlways, PTL

-----------------------------------------------------------------------------
(* Steering: what is probed and what is validated.                         *)

CandidateType == [addr : Addrs, origin : DOMAIN priority, stage : DOMAIN StageRank,
                  successes : Nat, probed : BOOLEAN]
ValidationType == [host : Hosts, addr : Addrs, fresh : BOOLEAN, successes : Nat]
Aimed(j) == j.host \in Hosts /\ j.addr \in Addrs
IsList(s) == s \in Seq(Range(s))

\* What is proposed, queued and probed is a known address for a known host.
AimInv ==
    /\ pool \in Seq(CandidateType)
    /\ IsList(jobs) /\ \A i \in DOMAIN jobs : Aimed(jobs[i])
    /\ \A w \in Workers : worker[w].pc # "idle" => Aimed(JobOf(w))
    /\ prober = [generation |-> prober.generation, todo |-> prober.todo]
    /\ \A j \in prober.todo : Aimed(j)

\* One entry for a host and address, which claims no more than it was given on this path
\* and what the probes overtaken by the path may have reported.
EarnedInv ==
    /\ validations \in Seq(ValidationType)
    /\ \A i, j \in DOMAIN validations :
          validations[i].host = validations[j].host /\ validations[i].addr = validations[j].addr
              => i = j
    /\ streak \in [Hosts \X Addrs -> Nat]
    /\ ValidationsEarned

ProposalInv == WorkersShaped /\ AimInv /\ EarnedInv

\* An answer obeys a mode no stronger than its configuration's, and adds only
\* when it is done.
AnswerType == [pc : {"idle", "snapshot", "mode", "verified", "apply", "done"},
               host : Hosts \cup {NoJob}, conf : SteerConfigs \cup {NoJob},
               snapshot : Snapshots, mode : Modes, verified : SUBSET ValidationType,
               added : SUBSET Addrs]
AnswerInv ==
    /\ conf \in SteerConfigs /\ mode \in Modes /\ over \in Modes \cup {NoOverride}
    /\ admin \in [pc : {"idle", "store"}, mode : Modes]
    /\ reloader \in [pc : {"idle", "mode", "override", "clear"}, to : SteerConfigs]
    /\ answer \in AnswerType /\ IsFiniteSet(answer.verified)
    /\ answer.pc # "idle" => answer.host \in Hosts /\ answer.conf \in SteerConfigs
    /\ answer.pc \in {"verified", "apply"} /\ answer.mode = "VerifiedAugment" =>
          answer.conf.mode = "VerifiedAugment"
    /\ answer.pc # "done" => answer.added = {}
    /\ AdditionsAreAllowed

SteeringInv == UpdaterInv /\ ProposalInv /\ AnswerInv

\* The queue of jobs.
LEMMA QueueFacts ==
    ASSUME NEW s, IsList(s), \A i \in DOMAIN s : Aimed(s[i])
    PROVE  /\ \A j : Aimed(j) =>
                /\ IsList(Append(s, j))
                /\ \A i \in DOMAIN Append(s, j) : Aimed(Append(s, j)[i])
           /\ s # <<>> =>
                /\ Aimed(Head(s)) /\ IsList(Tail(s))
                /\ \A i \in DOMAIN Tail(s) : Aimed(Tail(s)[i])
<1>1. ASSUME NEW T, NEW t \in Seq(T) PROVE IsList(t)
  <2>1. DOMAIN t = 1..Len(t) /\ Len(t) \in Nat /\ t = [i \in 1..Len(t) |-> t[i]] BY <1>1
  <2>2. \A i \in 1..Len(t) : t[i] \in Range(t) BY <2>1 DEF Range
  <2> QED BY <2>1, <2>2 DEF IsList
<1>2. s \in Seq(Range(s)) BY DEF IsList
<1>3. ASSUME NEW j, Aimed(j)
      PROVE  /\ IsList(Append(s, j))
             /\ \A i \in DOMAIN Append(s, j) : Aimed(Append(s, j)[i])
  <2>1. s \in Seq(Range(s) \cup {j}) BY <1>2
  <2>2. Append(s, j) \in Seq(Range(s) \cup {j}) BY <2>1
  <2>3. \A i \in DOMAIN Append(s, j) :
            (i \in DOMAIN s /\ Append(s, j)[i] = s[i]) \/ Append(s, j)[i] = j
    BY <1>2
  <2> QED BY <1>1, <1>3, <2>2, <2>3, Zenon
<1>4. ASSUME s # <<>>
      PROVE  /\ Aimed(Head(s)) /\ IsList(Tail(s))
             /\ \A i \in DOMAIN Tail(s) : Aimed(Tail(s)[i])
  <2>1. 1 \in DOMAIN s /\ Head(s) = s[1] BY <1>2, <1>4
  <2>2. Tail(s) \in Seq(Range(s)) BY <1>2, <1>4
  <2>3. \A i \in DOMAIN Tail(s) : i + 1 \in DOMAIN s /\ Tail(s)[i] = s[i + 1] BY <1>2, <1>4
  <2> QED BY <1>1, <2>1, <2>2, <2>3, Zenon
<1> QED BY <1>3, <1>4

\* A list without one of its elements.
LEMMA WithoutFacts ==
    ASSUME NEW T, NEW s \in Seq(T), NEW i \in DOMAIN s
    PROVE  /\ Without(s, i) \in Seq(T)
           /\ \A k \in DOMAIN Without(s, i) :
                 IF k < i THEN k \in DOMAIN s /\ Without(s, i)[k] = s[k]
                 ELSE k + 1 \in DOMAIN s /\ Without(s, i)[k] = s[k + 1]
<1>1. DOMAIN s = 1..Len(s) /\ Len(s) \in Nat /\ i \in 1..Len(s) OBVIOUS
<1> DEFINE a == SubSeq(s, 1, i - 1)
           b == SubSeq(s, i + 1, Len(s))
<1>2. a \in Seq(T) /\ Len(a) = i - 1 /\ \A k \in 1..(i - 1) : a[k] = s[k] BY <1>1
<1>3. b \in Seq(T) /\ Len(b) = Len(s) - i /\ \A k \in 1..(Len(s) - i) : b[k] = s[i + k]
  BY <1>1
<1>4. Without(s, i) = a \o b BY DEF Without
<1> HIDE DEF a, b
<1>5. DOMAIN (a \o b) = 1..(Len(s) - 1)
  <2>0. a \in Seq(T) /\ b \in Seq(T) BY <1>2, <1>3
  <2>1. a \o b \in Seq(T) /\ Len(a \o b) = Len(a) + Len(b) BY <2>0
  <2>2. Len(a) + Len(b) = Len(s) - 1 BY <1>1, <1>2, <1>3
  <2> QED BY <2>1, <2>2
<1>6. ASSUME NEW k \in 1..(Len(s) - 1)
      PROVE  IF k < i THEN k \in DOMAIN s /\ (a \o b)[k] = s[k]
             ELSE k + 1 \in DOMAIN s /\ (a \o b)[k] = s[k + 1]
  <2>1. CASE k < i BY <1>1, <1>2, <1>3, <2>1
  <2>2. CASE ~(k < i)
    <3>1. k - (i - 1) \in 1..(Len(s) - i) /\ i + (k - (i - 1)) = k + 1 BY <1>1, <2>2
    <3>2. (a \o b)[k] = b[k - (i - 1)] BY <1>1, <1>2, <1>3, <2>2
    <3>3. b[k - (i - 1)] = s[k + 1] BY <1>3, <3>1, ZenonT(30)
    <3>4. k + 1 \in DOMAIN s BY <1>1
    <3> QED BY <2>2, <3>2, <3>3, <3>4, ZenonT(30)
  <2> QED BY <2>1, <2>2, Zenon
<1> QED BY <1>2, <1>3, <1>4, <1>5, <1>6, SMTT(60)

\* evict_one takes a candidate of the pool: where one may go, there is a
\* lowest-ranked origin among them and a least recently seen one of it.
LEMMA EvictTyped ==
    ASSUME NEW p \in Seq(CandidateType), NEW origin \in DOMAIN priority
    PROVE  evict_one(p, origin).pool \in Seq(CandidateType)
<1> DEFINE can == Evictable(p, origin)
           rank(i) == priority[p[i].origin]
           worst == {i \in can : \A j \in can : rank(j) <= rank(i)}
           victim == CHOOSE i \in worst : \A j \in worst : i <= j
<1>1. CASE can = {}
  BY <1>1, ZenonT(30) DEF evict_one
<1>2. CASE can # {}
  <2>1. can \subseteq DOMAIN p /\ DOMAIN p \subseteq Nat
    <3>1. can \subseteq DOMAIN p BY Zenon DEF Evictable
    <3>2. DOMAIN p = 1..Len(p) /\ Len(p) \in Nat OBVIOUS
    <3>3. DOMAIN p \subseteq Nat BY <3>2
    <3> HIDE DEF can
    <3> QED BY <3>1, <3>3
  <2>2. \A i \in can : rank(i) \in 0..4
    <3>0. \A i \in DOMAIN p : p[i] \in CandidateType OBVIOUS
    <3>1. \A i \in can : p[i].origin \in DOMAIN priority
      <4> HIDE DEF can
      <4> QED BY <2>1, <3>0, ZenonT(30) DEF CandidateType
    <3>2. \A o \in DOMAIN priority : priority[o] \in 0..4 BY DEF priority
    <3> QED BY <3>1, <3>2
  <2>3. worst # {}
    <3> DEFINE gaps == {4 - rank(i) : i \in can}
    <3> HIDE DEF can, rank
    <3>1. gaps \in SUBSET Nat /\ gaps # {} BY <1>2, <2>2
    <3>2. PICK g \in gaps : \A d \in gaps : g <= d BY <3>1, LeastElement, Zenon
    <3>3. PICK i \in can : g = 4 - rank(i) BY <3>2
    <3>4. \A j \in can : rank(j) <= rank(i)
      <4>1. \A j \in can : 4 - rank(i) <= 4 - rank(j) BY <3>2, <3>3, ZenonT(30)
      <4> QED BY <2>2, <4>1
    <3> QED BY <3>4
  <2>4. worst \in SUBSET Nat
    <3>1. worst \subseteq can OBVIOUS
    <3> HIDE DEF worst, can
    <3> QED BY <2>1, <3>1, ZenonT(30)
  <2>5. victim \in worst
    <3> HIDE DEF worst
    <3> QED BY <2>3, <2>4, LeastElement, Zenon
  <2>6. victim \in DOMAIN p
    <3>1. worst \subseteq can OBVIOUS
    <3> HIDE DEF worst, can, victim
    <3> QED BY <2>1, <2>5, <3>1, ZenonT(30)
  <2>7. evict_one(p, origin).pool = Without(p, victim)
    <3>1. evict_one(p, origin) = [evicted |-> TRUE, pool |-> Without(p, victim)]
      BY <1>2 DEF evict_one
    <3> HIDE DEF victim
    <3> QED BY <3>1
  <2> HIDE DEF victim
  <2> QED BY <2>6, <2>7, WithoutFacts
<1> QED BY <1>1, <1>2, ZenonT(30)

\* An admission leaves a pool of candidates.
LEMMA AdmitTyped ==
    ASSUME NEW p \in Seq(CandidateType), NEW n, NEW a \in Addrs, NEW origin \in DOMAIN priority,
           NEW snapshot, NEW budget
    PROVE  admit(p, n, a, origin, snapshot, budget).pool \in Seq(CandidateType)
<1> DEFINE r == admit(p, n, a, origin, snapshot, budget)
           refuse(reason) == [answer |-> reason, pool |-> p, spent |-> n]
           i == PlaceOf(p, a)
           better == IF priority[origin] < priority[p[i].origin] THEN origin ELSE p[i].origin
           moved == [answer |-> "Refreshed", spent |-> n,
                     pool |-> Append(Without(p, i), [p[i] EXCEPT !.origin = better])]
           room == IF Len(p) >= PoolCapacity THEN evict_one(p, origin)
                   ELSE [evicted |-> TRUE, pool |-> p]
           more == IF n < HourlyBudget THEN n + 1 ELSE n
           added == [answer |-> "Added", pool |-> Append(room.pool, Candidate(a, origin)),
                     spent |-> more]
<1>1. \/ \E reason : r = refuse(reason)
      \/ a \in Pooled(p) /\ r = moved
      \/ r = added
  BY Zenon DEF admit
<1>2. ASSUME NEW reason PROVE refuse(reason).pool \in Seq(CandidateType)
  OBVIOUS
<1>3. ASSUME a \in Pooled(p) PROVE moved.pool \in Seq(CandidateType)
  <2>1. i \in DOMAIN p BY <1>3 DEF Pooled, PlaceOf
  <2> HIDE DEF i
  <2>2. p[i] \in CandidateType BY <2>1
  <2>3. better \in DOMAIN priority BY <2>2 DEF CandidateType
  <2> HIDE DEF better
  <2>4. [p[i] EXCEPT !.origin = better] \in CandidateType BY <2>2, <2>3, ZenonT(30) DEF CandidateType
  <2>5. Without(p, i) \in Seq(CandidateType) BY <2>1, WithoutFacts
  <2> QED BY <2>4, <2>5
<1>4. added.pool \in Seq(CandidateType)
  <2>1. room.pool \in Seq(CandidateType) BY EvictTyped, ZenonT(30)
  <2>2. Candidate(a, origin) \in CandidateType
    BY DEF Candidate, CandidateType, StageRank
  <2> HIDE DEF room, more
  <2> QED BY <2>1, <2>2
<1> HIDE DEF r, refuse, moved, added
<1>5. r.pool \in Seq(CandidateType) BY <1>1, <1>2, <1>3, <1>4, ZenonT(30)
<1> QED BY <1>5 DEF r

LEMMA CapSuccFacts == \A n \in Nat : CapSucc(n) \in Nat /\ n <= CapSucc(n)
BY CloudflareAssumption DEF CapSucc

LEMMA CapSuccMonotone == \A m, n \in Nat : m <= n => CapSucc(m) <= CapSucc(n)
BY CloudflareAssumption DEF CapSucc

\* So do a report, a change of path and a change of the prefixes.
LEMMA PoolTyped ==
    ASSUME NEW p \in Seq(CandidateType)
    PROVE  /\ \A a, stage, ok : stage \in DOMAIN StageRank =>
                 record_stage(p, a, stage, ok) \in Seq(CandidateType)
           /\ pool_on_generation_change(p) \in Seq(CandidateType)
           /\ \A snapshot : revalidate(p, snapshot) \in Seq(CandidateType)
<1>1. DOMAIN p = 1..Len(p) /\ Len(p) \in Nat /\ \A i \in DOMAIN p : p[i] \in CandidateType
  OBVIOUS
<1>2. ASSUME NEW a, NEW stage \in DOMAIN StageRank, NEW ok
      PROVE  record_stage(p, a, stage, ok) \in Seq(CandidateType)
  <2> DEFINE after(c) ==
          IF c.addr # a THEN c
          ELSE IF ok
          THEN [c EXCEPT !.probed = TRUE, !.successes = CapSucc(@),
                         !.stage = IF StageRank[stage] > StageRank[@] THEN stage ELSE @]
          ELSE [c EXCEPT !.probed = TRUE, !.successes = 0]
  <2>1. ASSUME NEW c \in CandidateType PROVE after(c) \in CandidateType
    <3>1. CapSucc(c.successes) \in Nat BY CapSuccFacts DEF CandidateType
    <3> QED BY <3>1, Zenon DEF CandidateType
  <2>2. record_stage(p, a, stage, ok) = [i \in DOMAIN p |-> after(p[i])]
    BY Zenon DEF record_stage
  <2> HIDE DEF after
  <2> QED BY <1>1, <2>1, <2>2
<1>3. pool_on_generation_change(p) \in Seq(CandidateType)
  <2>1. \A i \in DOMAIN p : Candidate(p[i].addr, p[i].origin) \in CandidateType
    BY <1>1, ZenonT(30) DEF Candidate, CandidateType, StageRank
  <2> QED BY <1>1, <2>1 DEF pool_on_generation_change
<1>4. ASSUME NEW snapshot PROVE revalidate(p, snapshot) \in Seq(CandidateType)
  BY KeepingMembers DEF revalidate
<1> QED BY <1>2, <1>3, <1>4, ZenonT(30)

\* r is the list v after a result about host h and address a: one entry for each
\* pair, and the successes that h and a have in it are none, or one more than before.
RecordedOver(r, v, h, a, ok) ==
    /\ r \in Seq(ValidationType)
    /\ \A i, j \in DOMAIN r : r[i].host = r[j].host /\ r[i].addr = r[j].addr => i = j
    /\ \A i \in DOMAIN r :
          IF r[i].host = h /\ r[i].addr = a
          THEN \/ r[i].successes = 0
               \/ ok /\ r[i].successes = CapSucc(0)
               \/ ok /\ \E k \in DOMAIN v :
                     /\ v[k].host = h /\ v[k].addr = a
                     /\ r[i].successes = CapSucc(v[k].successes)
          ELSE \E k \in DOMAIN v : r[i] = v[k]

\* A validation that is recorded: one entry for the host and address, which
\* comes last, and of the others none but those that were there.
LEMMA RecordedFacts ==
    ASSUME NEW v \in Seq(ValidationType), NEW h \in Hosts, NEW a \in Addrs, NEW ok \in BOOLEAN,
           \A i, j \in DOMAIN v : v[i].host = v[j].host /\ v[i].addr = v[j].addr => i = j
    PROVE  RecordedOver(record_validation(v, h, a, ok), v, h, a, ok)
<1> DEFINE r == record_validation(v, h, a, ok)
           at == PlacesFor(v, h, a)
           place == CHOOSE i \in at : TRUE
           kept == IF at # {} THEN Without(v, place)
                   ELSE IF Len(v) >= ValidationsMax
                   THEN SubSeq(v, ValidationsMax \div 16 + 2, Len(v)) ELSE v
           was == IF at # {} THEN v[place] ELSE NeverValidated(h, a)
           new == IF ok THEN [was EXCEPT !.successes = CapSucc(@), !.fresh = TRUE]
                  ELSE [was EXCEPT !.successes = 0]
           Mine(x) == x.host = h /\ x.addr = a
<1>1. r = Append(kept, new) BY Zenon DEF record_validation
<1>2. at = {i \in DOMAIN v : Mine(v[i])} BY DEF PlacesFor
<1>3. at # {} => place \in at OBVIOUS
<1> HIDE DEF at, place, r
<1>4. DOMAIN v = 1..Len(v) /\ Len(v) \in Nat /\ \A i \in DOMAIN v : v[i] \in ValidationType
  OBVIOUS
<1>5. was \in ValidationType /\ Mine(was) /\ (was.successes = 0 \/ \E k \in at : was = v[k])
  BY <1>2, <1>3, <1>4, ZenonT(30) DEF NeverValidated, ValidationType
<1>6. /\ new \in ValidationType /\ Mine(new)
      /\ new.successes = IF ok THEN CapSucc(was.successes) ELSE 0
  <2> HIDE DEF was
  <2>1. CapSucc(was.successes) \in Nat BY <1>5, CapSuccFacts DEF ValidationType
  <2> QED BY <1>5, <2>1, Zenon DEF ValidationType
<1>7. /\ kept \in Seq(ValidationType)
      /\ \A i \in DOMAIN kept : ~Mine(kept[i]) /\ \E k \in DOMAIN v : kept[i] = v[k]
      /\ \A i, j \in DOMAIN kept :
            kept[i].host = kept[j].host /\ kept[i].addr = kept[j].addr => i = j
  <2>1. CASE at # {}
    <3>1. place \in DOMAIN v /\ Mine(v[place]) BY <1>2, <1>3, <2>1, ZenonT(30)
    <3>2. kept = Without(v, place) BY <2>1, ZenonT(30)
    <3> HIDE DEF kept
    <3> DEFINE from(k) == IF k < place THEN k ELSE k + 1
    <3>3. kept \in Seq(ValidationType) BY <3>1, <3>2, WithoutFacts, ZenonT(30)
    <3>4. \A k \in DOMAIN kept : from(k) \in DOMAIN v /\ kept[k] = v[from(k)]
      BY <3>1, <3>2, WithoutFacts, ZenonT(30)
    <3>5. DOMAIN kept \subseteq Nat /\ place \in Nat
      <4>1. DOMAIN kept = 1..Len(kept) /\ Len(kept) \in Nat BY <3>3
      <4> QED BY <1>4, <3>1, <4>1
    <3>6. \A k \in DOMAIN kept : from(k) # place BY <1>4, <3>1, <3>5
    <3>7. \A i, j \in DOMAIN kept : from(i) = from(j) => i = j BY <1>4, <3>1, <3>5
    <3> HIDE DEF from
    <3>8. \A i \in DOMAIN kept : ~Mine(kept[i]) BY <3>1, <3>4, <3>6, ZenonT(30)
    <3>9. \A i, j \in DOMAIN kept :
            kept[i].host = kept[j].host /\ kept[i].addr = kept[j].addr => i = j
      BY <3>4, <3>7
    <3> QED BY <3>3, <3>4, <3>8, <3>9, Zenon
  <2>2. CASE at = {} /\ Len(v) >= ValidationsMax
    <3> DEFINE m == ValidationsMax \div 16 + 2
    <3>1. kept = SubSeq(v, m, Len(v)) BY <2>2, Zenon
    <3>2. m \in Nat \ {0} BY CloudflareAssumption
    <3> HIDE DEF m, kept
    <3>3. \A i \in m..Len(v) : v[i] \in ValidationType BY <1>4, <3>2
    <3>4. /\ kept \in Seq(ValidationType)
          /\ Len(kept) = IF m <= Len(v) THEN Len(v) - m + 1 ELSE 0
          /\ \A i \in 1..(Len(v) - m + 1) : kept[i] = v[m + i - 1]
      BY <1>4, <3>1, <3>2, <3>3
    <3>5. \A i \in DOMAIN kept : m + i - 1 \in DOMAIN v /\ kept[i] = v[m + i - 1]
      <4>1. DOMAIN kept = 1..Len(kept) BY <3>4
      <4> QED BY <1>4, <3>2, <3>4, <4>1
    <3>6. \A i, j \in DOMAIN kept : m + i - 1 = m + j - 1 => i = j
      <4>1. DOMAIN kept = 1..Len(kept) /\ Len(kept) \in Nat BY <3>4
      <4> QED BY <3>2, <4>1
    <3>7. \A i \in DOMAIN kept : ~Mine(kept[i]) BY <1>2, <2>2, <3>5, ZenonT(30)
    <3>8. \A i, j \in DOMAIN kept :
            kept[i].host = kept[j].host /\ kept[i].addr = kept[j].addr => i = j
      BY <3>5, <3>6
    <3> QED BY <3>4, <3>5, <3>7, <3>8, ZenonT(30)
  <2>3. CASE at = {} /\ ~(Len(v) >= ValidationsMax)
    <3>1. kept = v BY <2>3, ZenonT(30)
    <3> HIDE DEF kept
    <3> QED BY <1>2, <2>3, <3>1, ZenonT(30)
  <2> QED BY <2>1, <2>2, <2>3, ZenonT(40)
<1> HIDE DEF kept, was, new
<1>8. /\ r \in Seq(ValidationType) /\ DOMAIN r = 1..(Len(kept) + 1)
      /\ DOMAIN kept = 1..Len(kept) /\ Len(kept) \in Nat
      /\ \A i \in DOMAIN kept : r[i] = kept[i]
      /\ r[Len(kept) + 1] = new
  BY <1>1, <1>6, <1>7
<1>9. \A i \in DOMAIN r : i \in DOMAIN kept \/ i = Len(kept) + 1 BY <1>8
<1>10. ASSUME NEW i \in DOMAIN r, NEW j \in DOMAIN r, r[i].host = r[j].host, r[i].addr = r[j].addr
       PROVE  i = j
  <2>1. CASE i \in DOMAIN kept /\ j \in DOMAIN kept BY <1>7, <1>8, <1>10, <2>1, ZenonT(30)
  <2>2. CASE i \in DOMAIN kept /\ j = Len(kept) + 1 BY <1>6, <1>7, <1>8, <1>10, <2>2, ZenonT(30)
  <2>3. CASE j \in DOMAIN kept /\ i = Len(kept) + 1 BY <1>6, <1>7, <1>8, <1>10, <2>3, ZenonT(30)
  <2> QED BY <1>9, <2>1, <2>2, <2>3, ZenonT(30)
<1>11. ASSUME NEW i \in DOMAIN r
       PROVE  IF Mine(r[i])
              THEN \/ r[i].successes = 0
                   \/ ok /\ r[i].successes = CapSucc(0)
                   \/ ok /\ \E k \in DOMAIN v :
                         Mine(v[k]) /\ r[i].successes = CapSucc(v[k].successes)
              ELSE \E k \in DOMAIN v : r[i] = v[k]
  <2>1. CASE i \in DOMAIN kept BY <1>7, <1>8, <2>1
  <2>2. CASE i = Len(kept) + 1
    <3>1. r[i] = new BY <1>8, <2>2, ZenonT(30)
    <3>2. \/ was.successes = 0
          \/ \E k \in DOMAIN v : Mine(v[k]) /\ was.successes = v[k].successes
      BY <1>2, <1>5, ZenonT(30)
    <3> QED BY <1>6, <3>1, <3>2, ZenonT(30)
  <2> QED BY <1>9, <2>1, <2>2, ZenonT(30)
<1> QED BY <1>8, <1>10, <1>11, Zenon DEF r, RecordedOver

\* Claims against the ghost and the slack, over a step that may add to each.
LEMMA ClaimSums ==
    ASSUME NEW m \in Nat, NEW n \in Nat, NEW a \in Nat, NEW b \in Nat, m <= n + a, a <= b
    PROVE  /\ m <= n + b
           /\ CapSucc(m) <= CapSucc(n) + b
           /\ a + 1 <= b => CapSucc(m) <= n + b
BY CloudflareAssumption DEF CapSucc

LEMMA SumsCount == \A p, q \in Nat : 0 <= p + q
OBVIOUS

\* How many successes the overtaken probes may have added: never fewer with time, and one
\* more with each of them that ends.
LEMMA SlackFacts ==
    /\ Slack \in Nat
    /\ Overtaken' \subseteq Overtaken =>
          /\ Slack' \in Nat /\ Slack <= Slack'
          /\ \A w \in Overtaken : w \notin Overtaken' => Slack + 1 <= Slack'
<1>1. IsFiniteSet(Workers) BY ProbeAssumption
<1>2. Overtaken \subseteq Workers BY DEF Overtaken
<1>3. /\ IsFiniteSet(Overtaken) /\ Cardinality(Overtaken) <= Cardinality(Workers)
      /\ Cardinality(Workers) \in Nat /\ Cardinality(Overtaken) \in Nat
  BY <1>1, <1>2, FS_Subset, FS_CardinalityType, SMTT(30)
<1>4. Slack \in Nat BY <1>3 DEF Slack
<1>5. ASSUME Overtaken' \subseteq Overtaken
      PROVE  /\ Slack' \in Nat /\ Slack <= Slack'
             /\ \A w \in Overtaken : w \notin Overtaken' => Slack + 1 <= Slack'
  <2> DEFINE before == Overtaken
             after == Overtaken'
  <2>1. Slack' = Cardinality(Workers) - Cardinality(after) BY DEF Slack
  <2>2. Slack = Cardinality(Workers) - Cardinality(before) BY DEF Slack
  <2>3. after \subseteq before /\ IsFiniteSet(before) BY <1>3, <1>5
  <2> HIDE DEF before, after
  <2>4. /\ IsFiniteSet(after) /\ Cardinality(after) <= Cardinality(before)
        /\ Cardinality(after) \in Nat /\ Cardinality(before) \in Nat
        /\ (Cardinality(after) = Cardinality(before) => after = before)
    BY <2>3, FS_Subset, FS_CardinalityType, SMTT(30)
  <2>5. Cardinality(before) <= Cardinality(Workers) BY <1>3, Zenon DEF before
  <2>6. ASSUME NEW w \in before, w \notin after PROVE Cardinality(after) + 1 <= Cardinality(before)
    <3>1. Cardinality(after) # Cardinality(before) BY <2>4, <2>6, Zenon
    <3> QED BY <2>4, <3>1, SMTT(30)
  <2>7. /\ Slack' \in Nat /\ Slack <= Slack'
        /\ \A w \in before : w \notin after => Slack + 1 <= Slack'
    BY <1>3, <2>1, <2>2, <2>4, <2>5, <2>6, SMTT(30)
  <2> QED BY <2>7, Zenon DEF before, after
<1> QED BY <1>4, <1>5, Zenon

\* Without validations nothing is claimed.
LEMMA NoClaims ==
    ASSUME validations = <<>>, streak \in [Hosts \X Addrs -> Nat] PROVE EarnedInv
BY SMTT(60) DEF EarnedInv, ValidationsEarned

LEMMA ProposalInvInit == SteeringInit => ProposalInv
<1> SUFFICES ASSUME SteeringInit PROVE ProposalInv BY ZenonT(30)
<1> USE DEF SteeringInit, SteeringStart, ProbeStart, NoEvidence
<1>1. \A w \in Workers : worker[w] = IdleWorker BY ZenonT(30)
<1>2. WorkersShaped BY <1>1, IdleFields, ZenonT(30) DEF WorkersShaped
<1>3. AimInv
  <2>1. IsList(jobs) BY DEF IsList
  <2> QED BY <1>1, <2>1, IdleFields DEF AimInv
<1>4. EarnedInv
  <2>1. streak \in [Hosts \X Addrs -> Nat] BY Zenon
  <2>2. validations = <<>> OBVIOUS
  <2> HIDE DEF SteeringInit, SteeringStart, ProbeStart, NoEvidence
  <2> QED BY <2>1, <2>2, NoClaims, Zenon
<1> QED BY <1>2, <1>3, <1>4 DEF ProposalInv

\* An admission offers a job for what it added, if the queue has room.
LEMMA OfferAims ==
    ASSUME AimInv, NEW r, NEW a \in Addrs, NEW g, OfferCandidate(r, a, g)
    PROVE  IsList(jobs') /\ \A i \in DOMAIN jobs' : Aimed(jobs'[i])
<1> DEFINE h == CHOOSE x \in Hosts : TRUE
           j == [kind |-> "Candidate", host |-> h, addr |-> a, cloudflare |-> FALSE,
                 generation |-> g]
<1>1. h \in Hosts BY SteeringAssumption
<1>2. jobs' = jobs \/ jobs' = Append(jobs, j) BY Zenon DEF OfferCandidate
<1> HIDE DEF h
<1>3. Aimed(j) BY <1>1, ZenonT(30) DEF Aimed
<1> HIDE DEF j
<1> QED BY <1>2, <1>3, QueueFacts, Zenon DEF AimInv

\* Steps that leave the queue, the workers and the prober alone.
LEMMA AimKept ==
    ASSUME AimInv, UNCHANGED <<worker, prober>>, pool' \in Seq(CandidateType),
           IsList(jobs') /\ \A i \in DOMAIN jobs' : Aimed(jobs'[i])
    PROVE  AimInv'
BY DEF AimInv, JobOf, IsList, Aimed

LEMMA EarnedKept ==
    ASSUME EarnedInv, UNCHANGED <<validations, streak, worker, generation, monitor>>
    PROVE  EarnedInv'
<1>1. Slack' = Slack /\ Clearing' = Clearing
  <2>1. Overtaken' = Overtaken BY Zenon DEF Overtaken, JobOf
  <2> QED BY <2>1, Zenon DEF Slack, Clearing
<1> QED BY <1>1, Zenon DEF EarnedInv, ValidationsEarned

LEMMA ShapedKept == ASSUME WorkersShaped, UNCHANGED worker PROVE WorkersShaped'
BY DEF WorkersShaped, IsWorker

\* The updater.
LEMMA UpdaterKeepsProposals == ASSUME ProposalInv, UpdaterStep PROVE ProposalInv'
<1>0. WorkersShaped /\ AimInv /\ EarnedInv BY DEF ProposalInv
<1>1. ASSUME UNCHANGED <<worker, prober, validations, streak, generation, monitor>>,
             pool' \in Seq(CandidateType),
             IsList(jobs') /\ \A i \in DOMAIN jobs' : Aimed(jobs'[i])
      PROVE  ProposalInv'
  BY <1>0, <1>1, AimKept, EarnedKept, ShapedKept, ZenonT(30) DEF ProposalInv
<1>2. CASE UpdaterKeeps /\ (pool' = pool \/ Revalidate)
  <2>1. UNCHANGED <<worker, prober, validations, streak, generation, monitor, jobs>>
    BY <1>2 DEF UpdaterKeeps, measuring, loop, network
  <2>2. pool' \in Seq(CandidateType) BY <1>0, <1>2, PoolTyped, ZenonT(30) DEF AimInv, Revalidate
  <2>3. IsList(jobs') /\ \A i \in DOMAIN jobs' : Aimed(jobs'[i]) BY <1>0, <2>1 DEF AimInv
  <2> QED BY <1>1, <2>1, <2>2, <2>3, ZenonT(30)
<1>3. CASE \E a \in StaticCandidates : AdmitStatic(a)
  <2>1. PICK a \in StaticCandidates : AdmitStatic(a) BY <1>3
  <2>2. a \in Addrs BY SteeringAssumption
  <2> DEFINE r == admit(pool, spent, a, "Config", updater.candidate, 0)
  <2>3. /\ pool' = r.pool /\ OfferCandidate(r, a, generation)
        /\ UNCHANGED <<worker, prober, validations, streak, generation, monitor>>
    BY <2>1, Zenon DEF AdmitStatic, network
  <2>4. r.pool \in Seq(CandidateType)
    <3>1. "Config" \in DOMAIN priority BY DEF priority
    <3> QED BY <1>0, <2>2, <3>1, AdmitTyped, ZenonT(30) DEF AimInv
  <2> HIDE DEF r
  <2> QED BY <1>0, <1>1, <2>2, <2>3, <2>4, OfferAims, ZenonT(30)
<1>4. CASE ReadCache \/ Look \/ FetchNothing \/ CrossCheck \/ WriteCache \/ RenameCache \/ Revalidate
             \/ StorePrefixes \/ StaticBegins \/ StaticEnds \/ \E b \in Bodies : FetchPrefixes(b)
  <2>1. UpdaterKeeps /\ (pool' = pool \/ Revalidate)
    BY <1>4, Zenon DEF ReadCache, Look, FetchNothing, CrossCheck, WriteCache, RenameCache,
        Revalidate, StorePrefixes, StaticBegins, StaticEnds, FetchPrefixes
  <2> QED BY <1>2, <2>1
<1> QED BY <1>3, <1>4 DEF UpdaterStep

\* Seeds, samples and the rounds of the prober.
LEMMA FeedsKeepProposals == ASSUME ProposalInv, FeedStep PROVE ProposalInv'
<1>0. WorkersShaped /\ AimInv /\ EarnedInv BY DEF ProposalInv
<1>1. UNCHANGED <<worker, validations, streak, generation, monitor>>
  BY Frames DEF FeedKeeps, network
<1>2. ASSUME UNCHANGED prober, pool' \in Seq(CandidateType),
             IsList(jobs') /\ \A i \in DOMAIN jobs' : Aimed(jobs'[i])
      PROVE  ProposalInv'
  BY <1>0, <1>1, <1>2, AimKept, EarnedKept, ShapedKept, ZenonT(30) DEF ProposalInv
<1>3. CASE SeedArrives \/ SeedLoads \/ SampleRound \/ HourPasses
  <2>1. UNCHANGED <<jobs, pool, prober>>
    BY <1>3, Zenon DEF SeedArrives, SeedLoads, SampleRound, HourPasses
  <2>2. pool' \in Seq(CandidateType) /\ IsList(jobs') /\ \A i \in DOMAIN jobs' : Aimed(jobs'[i])
    BY <1>0, <2>1 DEF AimInv
  <2> QED BY <1>2, <2>1, <2>2, ZenonT(30)
<1>4. ASSUME NEW a \in Addrs, SeedAdmits(a) \/ SampleAdmits(a) PROVE ProposalInv'
  <2>1. PICK o, s, b, g :
            /\ o \in DOMAIN priority
            /\ LET r == admit(pool, spent, a, o, s, b)
               IN  pool' = r.pool /\ OfferCandidate(r, a, g)
    <3>1. "Seed" \in DOMAIN priority /\ "Sampling" \in DOMAIN priority BY DEF priority
    <3> QED BY <1>4, <3>1, Zenon DEF SeedAdmits, SampleAdmits
  <2>2. UNCHANGED prober BY <1>4, Zenon DEF SeedAdmits, SampleAdmits
  <2>3. pool' \in Seq(CandidateType) BY <1>0, <2>1, AdmitTyped, ZenonT(30) DEF AimInv
  <2>4. IsList(jobs') /\ \A i \in DOMAIN jobs' : Aimed(jobs'[i]) BY <1>0, <2>1, OfferAims, ZenonT(30)
  <2> QED BY <1>2, <2>2, <2>3, <2>4, ZenonT(30)
<1>5. CASE ProberRound
  <2>1. PICK due \in SUBSET Pooled(pool) :
            prober' = [generation |-> generation, todo |-> RoundJobs(due)]
    BY <1>5, Zenon DEF ProberRound
  <2>2. UNCHANGED <<jobs, pool>> BY <1>5, Zenon DEF ProberRound
  <2>3. Pooled(pool) \subseteq Addrs
    <3>1. \A i \in DOMAIN pool : pool[i] \in CandidateType BY <1>0 DEF AimInv
    <3>2. \A i \in DOMAIN pool : pool[i].addr \in Addrs BY <3>1 DEF CandidateType
    <3> QED BY <3>2, ZenonT(30) DEF Pooled
  <2>4. \A v6, min : eligible(pool, v6, min) \subseteq Pooled(pool)
    BY Zenon DEF eligible, Pooled
  <2>5. \A j \in RoundJobs(due) : Aimed(j)
    <3>1. ASSUME NEW H \in SUBSET Hosts, NEW A \in SUBSET Addrs, NEW kind,
                 NEW j \in {ProbeJob(kind, k[1], k[2]) : k \in H \X A}
          PROVE  Aimed(j)
      BY <3>1 DEF ProbeJob, Aimed
    <3> DEFINE fit == eligible(pool, FALSE, 1) \cup eligible(pool, TRUE, 1)
               hot == IF conf.mode = "VerifiedAugment" THEN Hosts ELSE {}
    <3>2. hot \in SUBSET Hosts /\ fit \in SUBSET Addrs /\ due \in SUBSET Addrs
            /\ Hosts \in SUBSET Hosts
      BY <2>3, <2>4, Zenon
    <3>3. RoundJobs(due) = {ProbeJob("Candidate", k[1], k[2]) : k \in Hosts \X due}
                              \cup {ProbeJob("Validate", k[1], k[2]) : k \in hot \X fit}
      BY Zenon DEF RoundJobs
    <3> HIDE DEF fit, hot
    <3>4. \A j \in {ProbeJob("Candidate", k[1], k[2]) : k \in Hosts \X due} : Aimed(j)
      BY <3>1, <3>2, ZenonT(30)
    <3>5. \A j \in {ProbeJob("Validate", k[1], k[2]) : k \in hot \X fit} : Aimed(j)
      BY <3>1, <3>2
    <3> QED BY <3>3, <3>4, <3>5, ZenonT(30)
  <2>6. AimInv'
    <3>1. prober' = [generation |-> prober'.generation, todo |-> prober'.todo]
            /\ prober'.todo = RoundJobs(due)
      BY <2>1, ZenonT(30)
    <3> QED BY <1>0, <1>1, <2>2, <2>5, <3>1, Zenon DEF AimInv, JobOf, IsList, Aimed
  <2> QED BY <1>0, <1>1, <2>6, EarnedKept, ShapedKept, ZenonT(30) DEF ProposalInv
<1>6. ASSUME NEW j \in prober.todo, ProberOffers(j) PROVE ProposalInv'
  <2> DEFINE n == [kind |-> j.kind, host |-> j.host, addr |-> j.addr, cloudflare |-> FALSE,
                   generation |-> prober.generation]
  <2>1. /\ prober' = [prober EXCEPT !.todo = @ \ {j}] /\ UNCHANGED pool
        /\ jobs' = jobs \/ jobs' = Append(jobs, n)
    BY <1>6, Zenon DEF ProberOffers
  <2>2. Aimed(n) BY <1>0 DEF AimInv, Aimed
  <2> HIDE DEF n
  <2>3. IsList(jobs') /\ \A i \in DOMAIN jobs' : Aimed(jobs'[i])
    BY <1>0, <2>1, <2>2, QueueFacts, Zenon DEF AimInv
  <2>4. prober' = [generation |-> prober.generation, todo |-> prober.todo \ {j}]
    BY <1>0, <2>1, Zenon DEF AimInv
  <2>5. prober' = [generation |-> prober'.generation, todo |-> prober'.todo]
          /\ prober'.todo \subseteq prober.todo
    BY <2>4, Zenon
  <2>6. AimInv' BY <1>0, <1>1, <2>1, <2>3, <2>5, ZenonT(30) DEF AimInv, JobOf, IsList, Aimed
  <2> QED BY <1>0, <1>1, <2>6, EarnedKept, ShapedKept, ZenonT(30) DEF ProposalInv
<1> QED BY <1>3, <1>4, <1>5, <1>6, ZenonT(30) DEF FeedStep

\* Time, which takes away no more than a freshness.
LEMMA AgeingKeepsProposals == ASSUME ProposalInv, ValidationAges PROVE ProposalInv'
<1>0. WorkersShaped /\ AimInv /\ EarnedInv BY DEF ProposalInv
<1>1. /\ UNCHANGED <<worker, jobs, pool, prober, streak, generation, monitor>>
  BY Frames DEF measuring, loop, feeds, network
<1>2. PICK i \in DOMAIN validations : validations' = [validations EXCEPT ![i].fresh = FALSE]
  BY Zenon DEF ValidationAges
<1> DEFINE old == [validations[i] EXCEPT !.fresh = FALSE]
<1>3. validations' = [validations EXCEPT ![i] = old] BY <1>2
<1>4. /\ old \in ValidationType /\ old.host = validations[i].host
      /\ old.addr = validations[i].addr /\ old.successes = validations[i].successes
  <2>1. validations[i] \in ValidationType BY <1>0 DEF EarnedInv
  <2> QED BY <2>1, Zenon DEF ValidationType
<1> HIDE DEF old
<1>5. /\ validations' \in Seq(ValidationType) /\ DOMAIN validations' = DOMAIN validations
      /\ \A k \in DOMAIN validations :
            /\ validations'[k].host = validations[k].host
            /\ validations'[k].addr = validations[k].addr
            /\ validations'[k].successes = validations[k].successes
  <2>1. validations \in Seq(ValidationType) BY <1>0 DEF EarnedInv
  <2>2. DOMAIN validations' = DOMAIN validations
          /\ \A k \in DOMAIN validations : validations'[k] = IF k = i THEN old ELSE validations[k]
    BY <1>3, <2>1
  <2>3. validations' \in Seq(ValidationType) BY <1>3, <1>4, <2>1
  <2> QED BY <1>4, <2>2, <2>3, ZenonT(30)
<1>6. EarnedInv'
  <2>1. Overtaken' = Overtaken BY <1>1, Zenon DEF Overtaken, JobOf
  <2>2. Slack' = Slack /\ Clearing' = Clearing BY <1>1, <2>1, Zenon DEF Slack, Clearing
  <2> QED BY <1>0, <1>1, <1>5, <2>2, ZenonT(30) DEF EarnedInv, ValidationsEarned
<1>7. AimInv' BY <1>0, <1>1, AimKept, ZenonT(30) DEF AimInv
<1> QED BY <1>0, <1>1, <1>6, <1>7, ShapedKept, ZenonT(30) DEF ProposalInv

\* The ghost counts.
LEMMA StreakTyped == ASSUME EarnedInv, Probing PROVE streak' \in [Hosts \X Addrs -> Nat]
<1>1. \A k \in Hosts \X Addrs : streak[k] \in Nat /\ CapSucc(streak[k]) \in Nat
  BY CapSuccFacts, ZenonT(30) DEF EarnedInv
<1>2. streak' = [k \in Hosts \X Addrs |->
          IF generation' # generation THEN 0
          ELSE IF \E w \in Reporting(k) : worker[w].outcome = "accepted" THEN CapSucc(streak[k])
          ELSE IF \E w \in Reporting(k) : \/ Answered(worker[w].outcome)
                                          \/ worker[w].class = "ApplicableFailure"
          THEN 0 ELSE streak[k]]
  BY Zenon DEF Probing
<1> QED BY <1>1, <1>2

\* Steps of the engine that report no validation leave every claim alone: they announce a
\* new path, whose claims are yet to be cleared, or overtake no probe.
Silent ==
    /\ UNCHANGED validations
    /\ \/ Clearing'
       \/ UNCHANGED generation /\ ~Clearing /\ Overtaken' \subseteq Overtaken
    /\ \A w \in Workers : At(w, "reporting") => worker'[w].pc # "idle"

LEMMA SilentKeeps == ASSUME EarnedInv, Probing, Silent PROVE EarnedInv'
<1>0. streak' \in [Hosts \X Addrs -> Nat] BY StreakTyped
<1>1. CASE Clearing'
  BY <1>0, <1>1, Zenon DEF EarnedInv, ValidationsEarned, Silent
<1>2. CASE UNCHANGED generation /\ ~Clearing /\ Overtaken' \subseteq Overtaken
  <2>1. \A k : Reporting(k) = {} BY IdleFields DEF Silent, Reporting, Live
  <2>2. streak' = [k \in Hosts \X Addrs |-> streak[k]]
    <3>1. streak' = [k \in Hosts \X Addrs |->
              IF generation' # generation THEN 0
              ELSE IF \E w \in Reporting(k) : worker[w].outcome = "accepted"
              THEN CapSucc(streak[k])
              ELSE IF \E w \in Reporting(k) : \/ Answered(worker[w].outcome)
                                              \/ worker[w].class = "ApplicableFailure"
              THEN 0 ELSE streak[k]]
      BY Zenon DEF Probing
    <3> QED BY <1>2, <2>1, <3>1, Zenon
  <2>3. streak' = streak BY <2>2, ZenonT(30) DEF EarnedInv
  <2>4. ASSUME NEW i \in DOMAIN validations
        PROVE  validations[i].successes
                   <= streak[<<validations[i].host, validations[i].addr>>] + Slack'
    <3>1. validations[i] \in ValidationType BY DEF EarnedInv
    <3>2. PICK m, n \in Nat : /\ m = validations[i].successes
                              /\ n = streak[<<validations[i].host, validations[i].addr>>]
      <4>1. /\ validations[i].successes \in Nat
            /\ <<validations[i].host, validations[i].addr>> \in Hosts \X Addrs
        BY <3>1 DEF ValidationType
      <4> QED BY <4>1, ZenonT(30) DEF EarnedInv
    <3>3. m <= n + Slack BY <1>2, <3>2, Zenon DEF EarnedInv, ValidationsEarned
    <3>4. Slack \in Nat /\ Slack' \in Nat /\ Slack <= Slack' BY <1>2, SlackFacts, Zenon
    <3>5. m <= n + Slack' BY <3>3, <3>4, ClaimSums, Zenon
    <3> QED BY <3>2, <3>5, Zenon
  <2> QED BY <1>0, <2>3, <2>4, Zenon DEF EarnedInv, ValidationsEarned, Silent
<1> QED BY <1>1, <1>2, Zenon DEF Silent

\* A worker overtakes nobody: what execute lets pass is of the path in force.
LEMMA OvertakesNone ==
    ASSUME WorkersShaped, NEW w \in Workers, WorkerStep(w) \/ Abort(w)
    PROVE  UNCHANGED <<generation, monitor>> /\ Overtaken' \subseteq Overtaken
<1>1. UNCHANGED <<generation, monitor>>
  BY Zenon DEF WorkerStep, Abort, Execute, AdmitObserved, Begin, Measure, MeasureHttp3,
      ClearFailures, Recover, Classify, Count, Trip, RecordQuality, Report, network
<1>2. Works(w) BY WorkerWorks, ZenonT(30)
<1>3. worker[w].pc = "spawned" => Execute(w) \/ Abort(w)
  BY Zenon DEF WorkerStep, Execute, AdmitObserved, Begin, Measure, MeasureHttp3, ClearFailures,
      Recover, Classify, Count, Trip, RecordQuality, Report, At
<1>4. ASSUME w \in Overtaken' PROVE w \in Overtaken
  <2>1. /\ worker'[w].pc \notin {"idle", "spawned"} /\ worker'[w].job.generation # generation
    BY <1>1, <1>4, Zenon DEF Overtaken, JobOf
  <2>2. worker'[w] # IdleWorker BY <2>1, IdleFields, Zenon
  <2>3. worker[w].pc # "idle" /\ worker[w].job.generation # generation
    BY <1>2, <2>1, <2>2, Zenon DEF Works
  <2>4. worker[w].pc # "spawned"
    <3>1. Finish(w) => worker'[w] = IdleWorker
      BY Updates, OneMoves, IdleFields, ZenonT(30)
    <3>2. Abort(w) => Finish(w) BY Zenon DEF Abort, Finish
    <3>3. Execute(w) => Finish(w) BY <2>3, Zenon DEF Execute, JobOf
    <3> QED BY <1>3, <2>2, <3>1, <3>2, <3>3, Zenon
  <2> QED BY <2>3, <2>4, Zenon DEF Overtaken, JobOf
<1>5. ASSUME NEW v \in Workers, v # w, v \in Overtaken' PROVE v \in Overtaken
  <2>1. worker'[v] = worker[v] BY <1>2, <1>5, Zenon DEF Works
  <2> QED BY <1>1, <1>5, <2>1, Zenon DEF Overtaken, JobOf
<1>6. Overtaken' \subseteq Workers BY Zenon DEF Overtaken
<1> QED BY <1>1, <1>4, <1>5, <1>6, Zenon

\* The report of a validation, and the ghost that follows it.
LEMMA ReportKeepsEarned ==
    ASSUME ProposalInv, Probing, NEW w \in Workers, Report(w)
    PROVE  EarnedInv'
<1> DEFINE j == JobOf(w)
           o == worker[w].outcome
           ok == o = "accepted"
           counts == Answered(o) \/ worker[w].class = "ApplicableFailure"
           mine == <<j.host, j.addr>>
           now == j.generation = generation
<1>0. WorkersShaped /\ AimInv /\ EarnedInv BY DEF ProposalInv
<1>1. /\ At(w, "reporting") /\ Finish(w) /\ UNCHANGED <<monitor, generation>>
      /\ validations' = IF Intent(j) = "Validate" /\ counts
                        THEN record_validation(validations, j.host, j.addr, ok)
                        ELSE validations
  BY Zenon DEF Report, network
<1>2. worker'[w] = IdleWorker /\ \A v \in Workers : v # w => worker'[v] = worker[v]
  <2>1. Becomes(w, IdleWorker) BY <1>0, <1>1, Updates, Zenon
  <2> QED BY <1>0, <2>1, OneMoves, IdleFields, ZenonT(30)
<1>3. Intent(j) = "Validate" <=> j.kind = "Validate" BY DEF Intent
<1>4. j.host \in Hosts /\ j.addr \in Addrs BY <1>0, <1>1, ZenonT(40) DEF AimInv, At, Aimed
<1>5. \A k : Reporting(k) = IF j.kind = "Validate" /\ now /\ mine = k THEN {w} ELSE {}
  <2>1. \A v \in Workers : v # w => ~(At(v, "reporting") /\ worker'[v] = IdleWorker)
    BY <1>2, IdleFields DEF At
  <2>2. w \in Live BY <1>1, Zenon DEF Live, At
  <2> QED BY <1>1, <1>2, <2>1, <2>2, Zenon DEF Reporting, Live
<1>6. /\ Slack \in Nat /\ Slack' \in Nat /\ Slack <= Slack'
      /\ ~now => Slack + 1 <= Slack'
  <2>1. Overtaken' \subseteq Overtaken BY <1>0, OvertakesNone, Zenon DEF WorkerStep
  <2>2. w \notin Overtaken' BY <1>2, IdleFields, Zenon DEF Overtaken
  <2>3. ~now => w \in Overtaken BY <1>1, Zenon DEF Overtaken, At
  <2> HIDE DEF now
  <2> QED BY <2>1, <2>2, <2>3, SlackFacts, Zenon
<1>7. streak' = [k \in Hosts \X Addrs |->
          IF \E v \in Reporting(k) : worker[v].outcome = "accepted" THEN CapSucc(streak[k])
          ELSE IF \E v \in Reporting(k) : \/ Answered(worker[v].outcome)
                                          \/ worker[v].class = "ApplicableFailure"
          THEN 0 ELSE streak[k]]
  <2>1. streak' = [k \in Hosts \X Addrs |->
            IF generation' # generation THEN 0
            ELSE IF \E v \in Reporting(k) : worker[v].outcome = "accepted" THEN CapSucc(streak[k])
            ELSE IF \E v \in Reporting(k) : \/ Answered(worker[v].outcome)
                                            \/ worker[v].class = "ApplicableFailure"
            THEN 0 ELSE streak[k]]
    BY Zenon DEF Probing
  <2> QED BY <1>1, <2>1, Zenon
<1>8. /\ streak' \in [Hosts \X Addrs -> Nat]
      /\ \A k \in Hosts \X Addrs : k # mine \/ ~(j.kind = "Validate" /\ now) => streak'[k] = streak[k]
      /\ j.kind = "Validate" /\ now =>
            streak'[mine] = IF ok THEN CapSucc(streak[mine]) ELSE IF counts THEN 0 ELSE streak[mine]
  <2>1. mine \in Hosts \X Addrs BY <1>4, ZenonT(30)
  <2> HIDE DEF mine, ok, counts, now
  <2>2. streak' \in [Hosts \X Addrs -> Nat] BY <1>0, StreakTyped, Zenon
  <2>4. \A k \in Hosts \X Addrs : k # mine \/ ~(j.kind = "Validate" /\ now) => streak'[k] = streak[k]
    BY <1>5, <1>7, Zenon
  <2>5. j.kind = "Validate" /\ now => Reporting(mine) = {w} BY <1>5
  <2>6. j.kind = "Validate" /\ now =>
            streak'[mine] = IF ok THEN CapSucc(streak[mine]) ELSE IF counts THEN 0 ELSE streak[mine]
    BY <1>7, <2>1, <2>5, Zenon DEF ok, counts
  <2> QED BY <2>2, <2>4, <2>6, ZenonT(30)
\* What an entry claimed before is covered after, where the ghost did not move.
<1>9. ASSUME NEW k \in DOMAIN validations, ~Clearing
       PROVE  LET v == validations[k] IN
              /\ v.successes \in Nat /\ <<v.host, v.addr>> \in Hosts \X Addrs
              /\ streak[<<v.host, v.addr>>] \in Nat
              /\ v.successes <= streak[<<v.host, v.addr>>] + Slack
              /\ v.successes <= streak[<<v.host, v.addr>>] + Slack'
  <2> DEFINE v == validations[k]
  <2>1. v \in ValidationType BY <1>0 DEF EarnedInv
  <2>2. v.successes \in Nat /\ <<v.host, v.addr>> \in Hosts \X Addrs
    BY <2>1 DEF ValidationType
  <2>3. streak[<<v.host, v.addr>>] \in Nat BY <1>0, <2>2, ZenonT(30) DEF EarnedInv
  <2>4. v.successes <= streak[<<v.host, v.addr>>] + Slack
    BY <1>0, <1>9, Zenon DEF EarnedInv, ValidationsEarned
  <2> HIDE DEF v, now
  <2>5. v.successes <= streak[<<v.host, v.addr>>] + Slack'
    BY <1>6, <2>2, <2>3, <2>4, ClaimSums, Zenon
  <2> QED BY <2>2, <2>3, <2>4, <2>5, Zenon DEF v
<1>10. Clearing' = Clearing BY <1>1, Zenon DEF Clearing
<1>11. CASE ~(j.kind = "Validate" /\ counts)
  <2>1. validations' = validations BY <1>1, <1>3, <1>11, Zenon
  <2>2. ~counts => ~ok BY ZenonT(30) DEF Answered
  <2>3. streak' = streak
    <3> HIDE DEF ok, counts, mine, now
    <3>1. \A k \in Hosts \X Addrs : streak'[k] = streak[k] BY <1>8, <1>11, <2>2, Zenon
    <3> QED BY <1>0, <1>8, <3>1 DEF EarnedInv
  <2>4. ValidationsEarned' BY <1>9, <1>10, <2>1, <2>3, Zenon DEF ValidationsEarned
  <2> QED BY <1>0, <1>8, <2>1, <2>4, Zenon DEF EarnedInv
<1>12. CASE j.kind = "Validate" /\ counts
  <2> DEFINE h == j.host
             a == j.addr
             r == record_validation(validations, h, a, ok)
  <2>1. validations' = r BY <1>1, <1>3, <1>12, Zenon
  <2>2. ok \in BOOLEAN OBVIOUS
  <2>3. /\ r \in Seq(ValidationType)
        /\ \A i, k \in DOMAIN r : r[i].host = r[k].host /\ r[i].addr = r[k].addr => i = k
        /\ \A i \in DOMAIN r :
              IF r[i].host = h /\ r[i].addr = a
              THEN \/ r[i].successes = 0
                   \/ ok /\ r[i].successes = CapSucc(0)
                   \/ ok /\ \E k \in DOMAIN validations :
                         /\ validations[k].host = h /\ validations[k].addr = a
                         /\ r[i].successes = CapSucc(validations[k].successes)
              ELSE \E k \in DOMAIN validations : r[i] = validations[k]
    <3>1. validations \in Seq(ValidationType) /\ h \in Hosts /\ a \in Addrs
      BY <1>0, <1>4, Zenon DEF EarnedInv
    <3>2. \A i, k \in DOMAIN validations :
              validations[i].host = validations[k].host /\ validations[i].addr = validations[k].addr
                  => i = k
      BY <1>0 DEF EarnedInv
    <3> HIDE DEF ok, h, a
    <3>3. RecordedOver(r, validations, h, a, ok) BY <2>2, <3>1, <3>2, RecordedFacts, Zenon
    <3> HIDE DEF r
    <3> QED BY <3>3, Zenon DEF RecordedOver
  <2>4. IF now THEN streak'[mine] = IF ok THEN CapSucc(streak[mine]) ELSE 0
        ELSE streak'[mine] = streak[mine]
    <3>1. mine \in Hosts \X Addrs BY <1>4, ZenonT(30)
    <3> HIDE DEF mine, ok, now
    <3> QED BY <1>8, <1>12, <3>1, Zenon
  <2> HIDE DEF ok, counts, r, h, a, now
  <2>5. mine = <<h, a>> /\ h \in Hosts /\ a \in Addrs BY <1>4 DEF h, a
  <2>6. PICK n \in Nat : n = streak[mine]
    <3>1. mine \in Hosts \X Addrs BY <2>5
    <3> HIDE DEF mine
    <3> QED BY <1>0, <3>1, ZenonT(30) DEF EarnedInv
  <2> HIDE DEF mine
  <2>7. ASSUME NEW m \in Nat, m <= n + Slack, ok PROVE CapSucc(m) <= streak'[mine] + Slack'
    <3>1. CASE now
      <4>1. streak'[mine] = CapSucc(n) BY <2>4, <2>6, <2>7, <3>1, Zenon
      <4>2. CapSucc(m) <= CapSucc(n) + Slack' BY <1>6, <2>7, ClaimSums, Zenon
      <4> QED BY <4>1, <4>2, Zenon
    <3>2. CASE ~now
      <4>1. streak'[mine] = n BY <2>4, <2>6, <3>2, Zenon
      <4>2. Slack + 1 <= Slack' => CapSucc(m) <= n + Slack' BY <1>6, <2>7, ClaimSums, Zenon
      <4> QED BY <1>6, <3>2, <4>1, <4>2, Zenon
    <3> QED BY <3>1, <3>2, Zenon
  <2>8. /\ 0 \in Nat /\ 0 <= n + Slack BY <1>6
  <2>9. ASSUME NEW i \in DOMAIN r, ~Clearing
        PROVE  r[i].successes <= streak'[<<r[i].host, r[i].addr>>] + Slack'
    <3>1. r[i] \in ValidationType BY <2>3, SMTT(60)
    <3>2. CASE r[i].host = h /\ r[i].addr = a
      <4>0. <<r[i].host, r[i].addr>> = mine BY <2>5, <3>2, Zenon
      <4>1. CASE r[i].successes = 0
        <5>1. streak'[mine] \in Nat BY <1>8, <2>5
        <5>2. PICK q \in Nat : q = streak'[mine] BY <5>1
        <5>3. 0 <= q + Slack' BY <1>6, SumsCount, Zenon
        <5> QED BY <4>0, <4>1, <5>2, <5>3, Zenon
      <4>2. CASE ok /\ r[i].successes = CapSucc(0)
        BY <2>7, <2>8, <4>0, <4>2, Zenon
      <4>3. ASSUME ok, NEW k \in DOMAIN validations,
                   validations[k].host = h /\ validations[k].addr = a,
                   r[i].successes = CapSucc(validations[k].successes)
            PROVE  r[i].successes <= streak'[<<r[i].host, r[i].addr>>] + Slack'
        <5>1. /\ validations[k].successes \in Nat
              /\ validations[k].successes
                     <= streak[<<validations[k].host, validations[k].addr>>] + Slack
          BY <1>9, <2>9, Zenon
        <5>2. validations[k].successes <= n + Slack BY <2>5, <2>6, <4>3, <5>1, Zenon
        <5> QED BY <2>7, <4>0, <4>3, <5>1, <5>2, Zenon
      <4> QED BY <2>3, <3>2, <4>1, <4>2, <4>3, Zenon
    <3>3. CASE ~(r[i].host = h /\ r[i].addr = a)
      <4>1. PICK k \in DOMAIN validations : r[i] = validations[k] BY <2>3, <3>3, ZenonT(40)
      <4>2. r[i].successes <= streak[<<r[i].host, r[i].addr>>] + Slack' BY <1>9, <2>9, <4>1, Zenon
      <4>3. r[i].host \in Hosts /\ r[i].addr \in Addrs BY <3>1 DEF ValidationType
      <4>4. streak'[<<r[i].host, r[i].addr>>] = streak[<<r[i].host, r[i].addr>>]
        BY <1>8, <2>5, <3>3, <4>3, Zenon
      <4> QED BY <4>2, <4>4, Zenon
    <3> QED BY <3>2, <3>3, ZenonT(30)
  <2>10. ValidationsEarned' BY <1>10, <2>1, <2>9, Zenon DEF ValidationsEarned
  <2> QED BY <1>8, <2>1, <2>3, <2>10, Zenon DEF EarnedInv
<1> QED BY <1>11, <1>12

\* The engine and the monitor.
LEMMA ProbingKeepsProposals == ASSUME ProposalInv, Probing PROVE ProposalInv'
<1>0. /\ WorkersShaped /\ AimInv /\ EarnedInv /\ ProbeNext
      /\ UNCHANGED prober
  BY Zenon DEF ProposalInv, Probing, feeds
<1>1. ASSUME UNCHANGED worker, pool' \in Seq(CandidateType), EarnedInv',
             IsList(jobs') /\ \A i \in DOMAIN jobs' : Aimed(jobs'[i])
      PROVE  ProposalInv'
  BY <1>0, <1>1, AimKept, ShapedKept, ZenonT(30) DEF ProposalInv
<1>2. ASSUME UNCHANGED worker, UNCHANGED validations, Clearing' \/ UNCHANGED <<generation, monitor>>
      PROVE  EarnedInv'
  <2>1. CASE Clearing' BY <1>0, <1>2, <2>1, SilentKeeps, Zenon DEF Silent, At
  <2>2. CASE UNCHANGED <<generation, monitor>>
    <3>1. Overtaken' = Overtaken BY <1>2, <2>2, Zenon DEF Overtaken, JobOf
    <3>2. Clearing' = Clearing BY <2>2, Zenon DEF Clearing
    <3> QED BY <1>0, <1>2, <2>2, <3>1, <3>2, SilentKeeps, Zenon DEF Silent, At
  <2> QED BY <1>2, <2>1, <2>2
<1>3. pool \in Seq(CandidateType) /\ IsList(jobs) /\ \A i \in DOMAIN jobs : Aimed(jobs[i])
  BY <1>0, ZenonT(30) DEF AimInv
<1>4. CASE \E o \in Offers, g \in {generation, generation - 1} \ {0} : Offer(o, g)
  <2>1. PICK o \in Offers, g \in {generation, generation - 1} \ {0} : Offer(o, g) BY <1>4
  <2> DEFINE n == [kind |-> o.kind, host |-> o.host, addr |-> o.addr,
                   cloudflare |-> o.cloudflare, generation |-> g]
  <2>2. jobs' = Append(jobs, n) /\ UNCHANGED <<worker, pool, validations, generation, monitor>>
    BY <2>1, Zenon DEF Offer, network, cfVars
  <2>3. Aimed(n) BY SteeringAssumption, ZenonT(40) DEF Aimed
  <2> HIDE DEF n
  <2>4. IsList(jobs') /\ \A i \in DOMAIN jobs' : Aimed(jobs'[i]) BY <1>3, <2>2, <2>3, QueueFacts, Zenon
  <2>5. EarnedInv' BY <1>2, <2>2, ZenonT(30)
  <2> QED BY <1>1, <1>3, <2>2, <2>4, <2>5, ZenonT(30)
<1>5. CASE \/ WorkerSlots \/ Acquire \/ StopTaking \/ Return \/ DrainTimesOut \/ Cancel
           \/ SupervisorAborts \/ \E c \in ProbeConfigs : ReloadProbe(c)
           \/ PublishGeneration \/ DemoteQuality
  <2>1. /\ UNCHANGED <<worker, jobs, pool, validations>>
        /\ monitor' \in {"quality", "pool"} \/ UNCHANGED <<generation, monitor>>
    BY <1>5, Zenon DEF WorkerSlots, Acquire, StopTaking, Return, DrainTimesOut, Cancel, SupervisorAborts,
        ReloadProbe, PublishGeneration, DemoteQuality, network, loop, cfVars
  <2>2. EarnedInv' BY <1>2, <2>1, ZenonT(30) DEF Clearing
  <2> QED BY <1>1, <1>3, <2>1, <2>2, ZenonT(30)
<1>6. CASE ResetPool
  <2>1. /\ UNCHANGED <<worker, jobs, validations>> /\ pool' = pool_on_generation_change(pool)
        /\ monitor' = "validations"
    BY <1>6 DEF ResetPool, loop
  <2>2. EarnedInv' BY <1>2, <2>1, ZenonT(30) DEF Clearing
  <2>3. pool' \in Seq(CandidateType) BY <1>3, <2>1, PoolTyped, ZenonT(30)
  <2> QED BY <1>1, <1>3, <2>1, <2>2, <2>3, ZenonT(30)
<1>7. CASE ClearValidations
  <2>1. /\ UNCHANGED <<worker, jobs, pool>> /\ validations' = <<>>
    BY <1>7 DEF ClearValidations, loop
  <2>2. streak' \in [Hosts \X Addrs -> Nat] BY <1>0, StreakTyped, Zenon
  <2>3. EarnedInv' BY <2>1, <2>2, SMTT(60) DEF EarnedInv, ValidationsEarned
  <2> QED BY <1>1, <1>3, <2>1, <2>3, ZenonT(30)
<1>10. CASE ClearBaseline
  <2>1. /\ UNCHANGED <<worker, jobs, pool, validations, generation>>
        /\ monitor = "baseline" /\ monitor' = "watching"
    BY <1>10, Zenon DEF ClearBaseline, loop
  <2>2. Overtaken' = Overtaken BY <2>1, Zenon DEF Overtaken, JobOf
  <2>3. ~Clearing BY <2>1, ZenonT(30) DEF Clearing
  <2>4. EarnedInv' BY <1>0, <2>1, <2>2, <2>3, SilentKeeps, Zenon DEF Silent, At
  <2> QED BY <1>1, <1>3, <2>1, <2>4, ZenonT(30)
<1>8. CASE \E w \in Workers : Spawn(w)
  <2>1. PICK w \in Workers : Spawn(w) BY <1>8
  <2> DEFINE r == Worker("spawned", Head(jobs), engine.epoch, NoSnapshot, "none", "none")
  <2>2. /\ jobs # <<>> /\ jobs' = Tail(jobs) /\ worker[w].pc = "idle"
        /\ worker' = [worker EXCEPT ![w] = [IdleWorker EXCEPT !.pc = "spawned", !.job = Head(jobs),
                                                               !.epoch = engine.epoch]]
        /\ UNCHANGED <<pool, validations, generation, monitor>>
    BY <2>1, Zenon DEF Spawn, network, cfVars
  <2>3. Becomes(w, r) BY <2>2, Spawned, ZenonT(40) DEF Becomes
  <2>4. IsWorker(r) /\ r.pc = "spawned" /\ r.job = Head(jobs)
    <3>1. IsWorker(r) BY WorkerFields, Zenon
    <3>2. r.pc = "spawned" BY Zenon DEF Worker
    <3>3. r.job = Head(jobs) BY Zenon DEF Worker
    <3> QED BY <3>1, <3>2, <3>3, Zenon
  <2> HIDE DEF r
  <2>5. WorkersShaped' /\ worker'[w] = r /\ \A v \in Workers : v # w => worker'[v] = worker[v]
    BY <1>0, <2>3, <2>4, OneMoves, Zenon
  <2>6. Aimed(Head(jobs)) /\ IsList(jobs') /\ \A i \in DOMAIN jobs' : Aimed(jobs'[i])
    BY <1>3, <2>2, QueueFacts
  <2>7. \A v \in Workers : worker'[v].pc # "idle" => Aimed(worker'[v].job)
    BY <1>0, <2>4, <2>5, <2>6, Zenon DEF AimInv, JobOf
  <2>8. AimInv' BY <1>0, <2>2, <2>6, <2>7, ZenonT(30) DEF AimInv, JobOf, IsList, Aimed
  <2>9. Silent
    <3>1. \A v \in Overtaken' : v \in Workers /\ v # w
      BY <2>4, <2>5, Zenon DEF Overtaken
    <3>2. Overtaken' \subseteq Overtaken
      BY <2>2, <2>5, <3>1, Zenon DEF Overtaken, JobOf
    <3>3. Clearing' = Clearing BY <2>2, Zenon DEF Clearing
    <3> QED BY <2>2, <2>4, <2>5, <3>2, <3>3, ZenonT(30) DEF Silent, At
  <2> QED BY <1>0, <2>5, <2>8, <2>9, SilentKeeps, Zenon DEF ProposalInv
<1>9. ASSUME NEW w \in Workers, WorkerStep(w) \/ Abort(w) PROVE ProposalInv'
  <2>1. WorkersShaped' /\ Works(w) BY <1>0, <1>9, WorkerWorks, ZenonT(30)
  <2>2. /\ jobs' = jobs
        /\ \/ Report(w)
           \/ worker[w].pc # "reporting" /\ UNCHANGED <<validations, monitor>>
    BY <1>9, Zenon DEF WorkerStep, Abort, Execute, AdmitObserved, Begin, Measure, MeasureHttp3,
        ClearFailures, Recover, Classify, Count, Trip, RecordQuality, Report, At, loop, network,
        cfVars
  <2>3. pool' \in Seq(CandidateType)
    <3>1. CASE Report(w)
      <4> DEFINE ok == worker[w].outcome = "accepted"
                 stage == IF ok THEN "HttpOk" ELSE "TlsOk"
      <4>1. pool' = record_stage(pool, JobOf(w).addr, stage, ok) BY <3>1, Zenon DEF Report
      <4>2. stage \in DOMAIN StageRank BY ZenonT(30) DEF StageRank
      <4> HIDE DEF stage, ok
      <4> QED BY <1>3, <4>1, <4>2, PoolTyped, ZenonT(30)
    <3>2. CASE AdmitObserved(w)
      <4>1. "DnsAnswer" \in DOMAIN priority BY Zenon DEF priority
      <4>2. JobOf(w).addr \in Addrs BY <1>0, <3>2, ZenonT(30) DEF AdmitObserved, At, AimInv, Aimed
      <4>3. pool' = admit(pool, spent, JobOf(w).addr, "DnsAnswer", worker[w].snapshot, 0).pool
        BY <3>2, Zenon DEF AdmitObserved
      <4> QED BY <1>3, <4>1, <4>2, <4>3, AdmitTyped, ZenonT(30)
    <3>3. CASE ~Report(w) /\ ~AdmitObserved(w)
      <4>1. pool' = pool
        BY <1>9, <3>3, Zenon DEF WorkerStep, Abort, Execute, Begin, Measure, MeasureHttp3, ClearFailures,
            Recover, Classify, Count, Trip, RecordQuality, cfVars
      <4> QED BY <1>3, <4>1, ZenonT(30)
    <3> QED BY <3>1, <3>2, <3>3, ZenonT(30)
  <2>4. \A v \in Workers : worker'[v].pc # "idle" => Aimed(worker'[v].job)
    BY <1>0, <2>1, IdleFields, ZenonT(30) DEF Works, AimInv, JobOf
  <2>5. AimInv' BY <1>0, <2>2, <2>3, <2>4, ZenonT(30) DEF AimInv, JobOf, IsList, Aimed
  <2>6. EarnedInv'
    <3>1. CASE Report(w) BY <3>1, ReportKeepsEarned, ZenonT(30)
    <3>2. CASE worker[w].pc # "reporting" /\ UNCHANGED <<validations, monitor>>
      <4>1. Silent
        <5>1. \A v \in Workers : At(v, "reporting") => worker'[v] = worker[v]
          BY <2>1, <3>2, ZenonT(30) DEF Works, At
        <5>2. UNCHANGED <<generation, monitor>> /\ Overtaken' \subseteq Overtaken
          BY <1>0, <1>9, OvertakesNone, Zenon
        <5>3. Clearing' = Clearing BY <5>2, Zenon DEF Clearing
        <5> QED BY <3>2, <5>1, <5>2, <5>3, ZenonT(30) DEF Silent, At
      <4> QED BY <1>0, <4>1, SilentKeeps, ZenonT(30)
    <3> QED BY <2>2, <3>1, <3>2, ZenonT(30)
  <2> QED BY <2>1, <2>5, <2>6, ZenonT(30) DEF ProposalInv
<1> QED BY <1>0, <1>4, <1>5, <1>6, <1>7, <1>8, <1>9, <1>10, ZenonT(30) DEF ProbeNext, EngineStep, NetworkChange

LEMMA ProposalInvStep == ProposalInv /\ [SteeringNext]_steeringVars => ProposalInv'
<1> SUFFICES ASSUME ProposalInv, [SteeringNext]_steeringVars PROVE ProposalInv' OBVIOUS
<1>1. CASE ModeStep \/ AnswerStep \/ UNCHANGED steeringVars
  <2>1. UNCHANGED <<worker, jobs, pool, prober, validations, streak, generation, monitor>>
    BY <1>1, Frames DEF AnswerKeeps, feeds, probeVars, loop, cfVars, network, steeringVars
  <2> QED BY <2>1, AimKept, EarnedKept, ShapedKept, ZenonT(30) DEF ProposalInv, AimInv
<1>2. CASE Crash
  <2>1. /\ worker' = [w \in Workers |-> IdleWorker] /\ jobs' = <<>> /\ pool' = <<>>
        /\ validations' = <<>> /\ streak' = [k \in Hosts \X Addrs |-> 0]
        /\ prober' = [generation |-> 0, todo |-> {}]
    BY <1>2, Zenon DEF Crash
  <2>2. \A w \in Workers : worker'[w] = IdleWorker BY <2>1, ZenonT(30)
  <2>3. WorkersShaped' BY <2>1, <2>2, IdleFields, ZenonT(30) DEF WorkersShaped, IsWorker
  <2>4. AimInv'
    <3>1. IsList(<<>>) BY DEF IsList
    <3>2. \A w \in Workers : worker'[w].pc = "idle" BY <2>2, IdleFields, Zenon
    <3>3. prober' = [generation |-> prober'.generation, todo |-> prober'.todo]
            /\ prober'.todo = {}
      BY <2>1, ZenonT(30)
    <3> QED BY <2>1, <3>1, <3>2, <3>3 DEF AimInv, JobOf, IsList
  <2>5. EarnedInv'
    <3>1. streak' \in [Hosts \X Addrs -> Nat] BY <2>1, ZenonT(30)
    <3> QED BY <2>1, <3>1 DEF EarnedInv, ValidationsEarned
  <2> QED BY <2>3, <2>4, <2>5, ZenonT(30) DEF ProposalInv
<1> QED BY <1>1, <1>2, UpdaterKeepsProposals, FeedsKeepProposals, AgeingKeepsProposals,
        ProbingKeepsProposals DEF SteeringNext

LEMMA ProposalInvAlways == SteeringSpec => []ProposalInv
BY ProposalInvInit, ProposalInvStep, PTL DEF SteeringSpec

\* Once a change of path has cleared what was claimed, the successes a validation claims
\* were accepted in a row on the path in force, but for at most one of each worker that the
\* change overtook, however late probes report, whatever is evicted and whenever the process
\* dies (CloudflareState::record_validation, ProbeEngine::execute).
THEOREM ClaimsAreEarned == SteeringSpec => []ValidationsEarned
<1>1. ProposalInv => ValidationsEarned BY ZenonT(30) DEF ProposalInv, EarnedInv
<1> QED BY <1>1, ProposalInvAlways, PTL

-----------------------------------------------------------------------------
(* Steering: what an answer adds.                                          *)

\* What apply_answer_policy adds lies inside the snapshot of the moment and
\* is neither special use nor in the answer already.
LEMMA ToAddSound ==
    ASSUME NEW T, NEW existing, NEW ctx, ctx.verified \in Seq(T), ctx.augment.max_added \in Nat,
           NEW x \in Range(ToAdd(existing, ctx))
    PROVE  x \in ctx.snapshot /\ x \notin existing /\ x \notin ctx.special_use
<1> DEFINE costs == {ctx.quality[a].cost : a \in {b \in existing : ctx.quality[b].known}}
           cheap(v) == costs # {} =>
               LET best == CHOOSE c \in costs : \A d \in costs : c <= d
               IN  100 * (best - v.cost) >= ctx.augment.min_advantage * Larger(best, 1)
           fit == {i \in DOMAIN ctx.verified : LET v == ctx.verified[i] IN
                      /\ v.fresh /\ v.successes >= ctx.augment.min_validations
                      /\ v.samples >= ctx.augment.min_samples
                      /\ v.type = ctx.qtype
                      /\ v.addr \in ctx.snapshot
                      /\ v.addr \notin ctx.special_use
                      /\ v.addr \notin existing
                      /\ cheap(v)}
           places == {i \in fit : \A j \in fit :
                          j < i => ctx.verified[j].addr # ctx.verified[i].addr}
           good == Keeping(ctx.verified, places)
           n == Smaller(Len(good), ctx.augment.max_added)
<1>1. ToAdd(existing, ctx) = [i \in 1..n |-> good[i].addr] BY Zenon DEF ToAdd
<1>2. places \subseteq fit BY Zenon
<1>3. /\ fit \subseteq DOMAIN ctx.verified
      /\ \A i \in fit : /\ ctx.verified[i].addr \in ctx.snapshot
                        /\ ctx.verified[i].addr \notin ctx.special_use
                        /\ ctx.verified[i].addr \notin existing
  <2> HIDE DEF cheap
  <2> QED BY Zenon
<1> HIDE DEF fit, places
<1>4. good \in Seq(T) /\ Range(good) = {ctx.verified[i] : i \in places}
  BY <1>2, <1>3, KeepingMembers, ZenonT(30)
<1> HIDE DEF good
<1>5. n \in Nat /\ n <= Len(good)
  <2>1. \A a, b \in Nat : Smaller(a, b) \in Nat /\ Smaller(a, b) <= a BY DEF Smaller
  <2>2. Len(good) \in Nat BY <1>4
  <2>3. ctx.augment.max_added \in Nat OBVIOUS
  <2> QED BY <2>1, <2>2, <2>3, Zenon
<1> HIDE DEF n
<1>6. PICK i \in 1..n : x = good[i].addr BY <1>1, ZenonT(30) DEF Range
<1>7. i \in DOMAIN good BY <1>4, <1>5
<1>8. good[i] \in Range(good) BY <1>7, ZenonT(30) DEF Range
<1>9. PICK k \in places : good[i] = ctx.verified[k] BY <1>4, <1>8
<1> QED BY <1>2, <1>3, <1>6, <1>9, ZenonT(30)

LEMMA AnswerInvInit == SteeringInit => AnswerInv
<1> SUFFICES ASSUME SteeringInit PROVE AnswerInv OBVIOUS
<1>1. /\ conf \in SteerConfigs /\ mode = conf.mode /\ over = NoOverride
      /\ reloader = [pc |-> "idle", to |-> conf] /\ admin = [pc |-> "idle", mode |-> "Off"]
      /\ answer = NoAnswer
  BY DEF SteeringInit, SteeringStart
<1>2. NoAnswer \in AnswerType /\ NoAnswer.verified = {} /\ NoAnswer.added = {}
        /\ NoAnswer.pc = "idle"
  BY Zenon DEF NoAnswer, AnswerType, Modes, Snapshots
<1>3. IsFiniteSet({}) BY FS_EmptySet
<1> QED BY <1>1, <1>2, <1>3, SteeringAssumption, Zenon
        DEF AnswerInv, AdditionsAreAllowed, OverrideNeverStrengthens, RetiredIsNotAdded, Modes,
            NoOverride

\* Reloads and the operator.
LEMMA ModesKeepAnswers == ASSUME AnswerInv, ModeStep PROVE AnswerInv'
<1>1. UNCHANGED answer BY Frames
<1>2. /\ conf' \in SteerConfigs /\ mode' \in Modes /\ over' \in Modes \cup {NoOverride}
      /\ admin' \in [pc : {"idle", "store"}, mode : Modes]
      /\ reloader' \in [pc : {"idle", "mode", "override", "clear"}, to : SteerConfigs]
  <2> USE DEF AnswerInv
  <2>1. CASE \E c \in SteerConfigs : PublishConfig(c)
    <3>1. PICK c \in SteerConfigs : PublishConfig(c) BY <2>1, Zenon
    <3>2. /\ conf' = c /\ reloader' = [pc |-> "mode", to |-> c]
          /\ mode' = mode /\ over' = over /\ admin' = admin
      BY <3>1, Zenon DEF PublishConfig
    <3> QED BY <3>2, Zenon
  <2>2. CASE StoreMode BY <2>2, SteeringAssumption DEF StoreMode
  <2>3. CASE ReviewOverride BY <2>3 DEF ReviewOverride
  <2>4. CASE DropOverride BY <2>4 DEF DropOverride
  <2>5. CASE \E m \in Modes : CheckOverride(m)
    <3>1. PICK m \in Modes : CheckOverride(m) BY <2>5, Zenon
    <3>2. /\ admin' = [pc |-> "store", mode |-> m]
          /\ conf' = conf /\ mode' = mode /\ over' = over /\ reloader' = reloader
      BY <3>1, Zenon DEF CheckOverride
    <3> QED BY <3>2, Zenon
  <2>6. CASE StoreOverride BY <2>6, ZenonT(30) DEF StoreOverride, Modes
  <2>7. CASE ClearOverride BY <2>7, ZenonT(30) DEF ClearOverride
  <2> QED BY <2>1, <2>2, <2>3, <2>4, <2>5, <2>6, <2>7, Zenon DEF ModeStep
<1> QED BY <1>1, <1>2, Zenon
        DEF AnswerInv, AdditionsAreAllowed, OverrideNeverStrengthens, RetiredIsNotAdded

\* What validations there are for a host is a finite set of validations.
LEMMA VerifiedTyped ==
    ASSUME NEW v \in Seq(ValidationType), NEW h, NEW v6, NEW min
    PROVE  /\ verified_for(v, h, v6, min) \in SUBSET ValidationType
           /\ IsFiniteSet(verified_for(v, h, v6, min))
<1> DEFINE all == {v[i] : i \in DOMAIN v}
<1>1. verified_for(v, h, v6, min) \subseteq all BY Zenon DEF verified_for
<1>2. all \subseteq ValidationType OBVIOUS
<1>3. IsFiniteSet(all)
  <2>1. DOMAIN v = 1..Len(v) /\ Len(v) \in Nat OBVIOUS
  <2>2. IsFiniteSet(DOMAIN v) BY <2>1, FS_Interval
  <2>3. v \in [DOMAIN v -> all] OBVIOUS
  <2>4. v \in Surjection(DOMAIN v, all) BY <2>3, ZenonT(30) DEF Surjection
  <2> HIDE DEF all
  <2> QED BY <2>2, <2>4, FS_Surjection, ZenonT(30)
<1> HIDE DEF all
<1>4. IsFiniteSet(verified_for(v, h, v6, min)) BY <1>1, <1>3, FS_Subset, ZenonT(30)
<1> QED BY <1>1, <1>2, <1>4, ZenonT(30)

\* An override counts only where it weakens the configuration.
LEMMA EffectiveMode ==
    ASSUME NEW o \in Modes \cup {NoOverride}, NEW c \in Modes
    PROVE  /\ effective_mode(o, c) \in Modes
           /\ effective_mode(o, c) = "VerifiedAugment" => c = "VerifiedAugment"
BY DEF effective_mode, Modes, NoOverride, mode_rank

\* Only the strongest mode, where it is on, lets an answer be augmented.
LEMMA AugmentNeeds ==
    ASSUME NEW i, evaluate(i)[1] = "Augment", i.mode \in Modes
    PROVE  i.enabled /\ i.mode = "VerifiedAugment"
BY DEF evaluate, Modes

\* The step that decides what is added.
LEMMA ApplyKeepsAnswers ==
    ASSUME AnswerInv, ProposalInv, UpdaterInv, AnswerApplies PROVE AnswerInv'
<1> DEFINE inside == {a \in Addrs : contains(answer.snapshot, a)}
           asked == [enabled |-> answer.conf.enabled, mode |-> answer.mode,
               qtype |-> "A", excluded |-> FALSE, snapshot |-> inside,
               original |-> Original[answer.host], single_rrset |-> TRUE, dnssec |-> "Insecure",
               publishes_ech |-> FALSE, can_validate_ech |-> FALSE,
               baseline_validated |-> is_baseline(baseline, answer.host),
               has_verified_candidate |-> \E v \in answer.verified : v.fresh]
           decided == evaluate(asked)[1]
           listed(s) == [i \in DOMAIN s |->
               [addr |-> s[i].addr, fresh |-> s[i].fresh, successes |-> s[i].successes,
                type |-> "A", samples |-> IF quality[https(answer.host, s[i].addr)] # 0 THEN 1
                                          ELSE 0]]
           ctx(s) == [verified |-> listed(s), augment |-> Augment, qtype |-> "A",
                      snapshot |-> inside, special_use |-> SpecialUse,
                      quality |-> [a \in Addrs |-> [known |-> FALSE]]]
           added(s) == IF decided = "Augment" THEN Range(ToAdd(Original[answer.host], ctx(s)))
                       ELSE {}
<1>1. /\ answer.pc = "apply" /\ AnswerKeeps
      /\ \E s \in Listings(answer.verified) :
            answer' = [answer EXCEPT !.pc = "done", !.verified = {}, !.added = added(s)]
  BY Zenon DEF AnswerApplies
<1>2. PICK s \in Listings(answer.verified) :
            answer' = [answer EXCEPT !.pc = "done", !.verified = {}, !.added = added(s)]
  BY <1>1, Zenon
<1>3. decided = "Augment" => answer.conf.enabled /\ answer.mode = "VerifiedAugment"
  <2>1. asked.enabled = answer.conf.enabled /\ asked.mode = answer.mode
    <3> HIDE DEF inside
    <3> QED BY ZenonT(30)
  <2>2. answer.mode \in Modes BY DEF AnswerInv, AnswerType
  <2> HIDE DEF asked
  <2> QED BY <2>1, <2>2, AugmentNeeds, Zenon
<1>4. \E T : listed(s) \in Seq(T)
  <2>1. Cardinality(answer.verified) \in Nat BY FS_CardinalityType, ZenonT(30) DEF AnswerInv
  <2>2. s \in [1..Cardinality(answer.verified) -> answer.verified] BY Zenon DEF Listings
  <2> DEFINE n == Cardinality(answer.verified)
             t == listed(s)
             T == {t[i] : i \in 1..n}
  <2>3. t \in [1..n -> T]
    <3>1. t = [i \in 1..n |-> t[i]] BY <2>2, Zenon
    <3> HIDE DEF t, n
    <3> QED BY <3>1
  <2> HIDE DEF t, n
  <2>4. n \in Nat BY <2>1 DEF n
  <2>5. t \in Seq(T)
    <3> HIDE DEF T
    <3> QED BY <2>3, <2>4
  <2> QED BY <2>5, Zenon DEF t
<1> HIDE DEF listed, decided, asked
<1>5. \A x \in added(s) : x \in inside /\ x \notin Original[answer.host]
  <2> SUFFICES ASSUME NEW x \in added(s) PROVE x \in inside /\ x \notin Original[answer.host]
    BY Zenon
  <2>1. PICK T : listed(s) \in Seq(T) BY <1>4, Zenon
  <2>2. ctx(s).verified \in Seq(T) /\ ctx(s).augment.max_added \in Nat
          /\ ctx(s).snapshot = inside
    <3> HIDE DEF inside
    <3> QED BY <2>1, SteeringAssumption, Zenon
  <2>3. x \in Range(ToAdd(Original[answer.host], ctx(s)))
    <3> HIDE DEF ctx, inside
    <3> QED BY ZenonT(30)
  <2> HIDE DEF ctx, inside
  <2>4. x \in ctx(s).snapshot /\ x \notin Original[answer.host] BY <2>2, <2>3, ToAddSound, Zenon
  <2> QED BY <2>2, <2>4, Zenon
<1>6. added(s) # {} => answer.conf.enabled /\ answer.conf.mode = "VerifiedAugment"
  <2> HIDE DEF ctx
  <2>1. added(s) # {} => decided = "Augment" OBVIOUS
  <2> QED BY <1>1, <1>3, <2>1, ZenonT(30) DEF AnswerInv
<1> DEFINE A == added(s)
<1>7. answer' = [answer EXCEPT !.pc = "done", !.verified = {}, !.added = A] BY <1>2
<1>8. /\ \A x \in A : x \in Addrs /\ contains(answer.snapshot, x) /\ x \notin Original[answer.host]
      /\ A # {} => answer.conf.enabled /\ answer.conf.mode = "VerifiedAugment"
  BY <1>5, <1>6, Zenon
<1> HIDE DEF A
<1>9. /\ answer' \in AnswerType /\ answer'.pc = "done" /\ answer'.verified = {}
      /\ answer'.added = A /\ answer'.host = answer.host /\ answer'.conf = answer.conf
      /\ answer'.snapshot = answer.snapshot
  <2>1. A \in SUBSET Addrs BY <1>8
  <2> QED BY <1>7, <2>1, Zenon DEF AnswerInv, AnswerType
<1>10. UNCHANGED <<conf, mode, over, admin, reloader>> BY <1>1 DEF AnswerKeeps, control
<1>11. AdditionsAreAllowed'
  BY <1>8, <1>9, Zenon DEF AdditionsAreAllowed, OverrideNeverStrengthens, RetiredIsNotAdded, contains
<1>12. IsFiniteSet({}) BY FS_EmptySet
<1> QED BY <1>1, <1>9, <1>10, <1>11, <1>12, ZenonT(30) DEF AnswerInv

\* The other steps of an answer.
LEMMA StepsKeepAnswers ==
    ASSUME AnswerInv, ProposalInv, UpdaterInv, AnswerStep PROVE AnswerInv'
<1>1. UNCHANGED <<conf, mode, over, admin, reloader>> BY Frames DEF AnswerKeeps, control
<1>2. ASSUME answer' \in AnswerType, answer'.added = {}, IsFiniteSet(answer'.verified),
             answer'.host \in Hosts /\ answer'.conf \in SteerConfigs,
             answer'.pc \in {"verified", "apply"} /\ answer'.mode = "VerifiedAugment" =>
                answer'.conf.mode = "VerifiedAugment"
      PROVE  AnswerInv'
  BY <1>1, <1>2, Zenon
     DEF AnswerInv, AdditionsAreAllowed, OverrideNeverStrengthens, RetiredIsNotAdded
<1>3. ASSUME NEW h \in Hosts, AnswerBegins(h) PROVE AnswerInv'
  <2>1. answer' = [NoAnswer EXCEPT !.pc = "snapshot", !.host = h, !.conf = conf]
    BY <1>3, Zenon DEF AnswerBegins
  <2>2. answer' = [pc |-> "snapshot", host |-> h, conf |-> conf, snapshot |-> NoSnapshot,
                   mode |-> "Off", verified |-> {}, added |-> {}]
    BY <2>1, Zenon DEF NoAnswer
  <2>3. conf \in SteerConfigs /\ NoSnapshot \in Snapshots /\ IsFiniteSet({})
    BY FS_EmptySet, Zenon DEF AnswerInv, Snapshots
  <2> QED BY <1>2, <2>2, <2>3, Zenon DEF AnswerType, Modes
<1>4. CASE AnswerLoadsPrefixes
  <2>1. answer.pc = "snapshot" /\ answer' = [answer EXCEPT !.pc = "mode", !.snapshot = prefixes]
    BY <1>4, ZenonT(30) DEF AnswerLoadsPrefixes
  <2>2. prefixes \in Snapshots BY DEF UpdaterInv
  <2> QED BY <1>2, <2>1, <2>2, Zenon DEF AnswerInv, AnswerType
<1>5. CASE AnswerReadsMode
  <2> DEFINE m == effective_mode(over, answer.conf.mode)
  <2>1. answer.pc = "mode" /\ answer' = [answer EXCEPT !.pc = "verified", !.mode = m]
    BY <1>5 DEF AnswerReadsMode
  <2>2. answer.conf.mode \in Modes BY <2>1, SteeringAssumption DEF AnswerInv
  <2>3. m \in Modes /\ (m = "VerifiedAugment" => answer.conf.mode = "VerifiedAugment")
    BY <2>2, EffectiveMode, Zenon DEF AnswerInv
  <2> HIDE DEF m
  <2> QED BY <1>2, <2>1, <2>3, Zenon DEF AnswerInv, AnswerType
<1>6. CASE AnswerReadsVerified
  <2> DEFINE V == IF answer.conf.enabled /\ answer.mode = "VerifiedAugment"
                  THEN verified_for(validations, answer.host, FALSE, Augment.min_validations)
                  ELSE {}
  <2>1. answer.pc = "verified" /\ answer' = [answer EXCEPT !.pc = "apply", !.verified = V]
    BY <1>6 DEF AnswerReadsVerified
  <2>2. V \in SUBSET ValidationType /\ IsFiniteSet(V)
    BY VerifiedTyped, FS_EmptySet, Zenon DEF ProposalInv, EarnedInv
  <2> HIDE DEF V
  <2> QED BY <1>2, <2>1, <2>2, Zenon DEF AnswerInv, AnswerType
<1> QED BY <1>3, <1>4, <1>5, <1>6, ApplyKeepsAnswers, ZenonT(30) DEF AnswerStep

LEMMA AnswerInvStep ==
    AnswerInv /\ ProposalInv /\ UpdaterInv /\ [SteeringNext]_steeringVars => AnswerInv'
<1> SUFFICES ASSUME AnswerInv, ProposalInv, UpdaterInv, [SteeringNext]_steeringVars
             PROVE  AnswerInv'
  OBVIOUS
<1>1. CASE Probing \/ UpdaterStep \/ FeedStep \/ ValidationAges \/ UNCHANGED steeringVars
  <2>1. UpdaterStep => UNCHANGED <<control, answer>>
    BY Zenon DEF UpdaterStep, ReadCache, Look, FetchNothing, CrossCheck, WriteCache, RenameCache,
        Revalidate, StorePrefixes, StaticBegins, StaticEnds, FetchPrefixes, AdmitStatic,
        UpdaterKeeps
  <2>2. UNCHANGED <<control, answer>>
    BY <1>1, <2>1, Frames, ZenonT(40) DEF Probing, FeedKeeps, steeringVars
  <2> QED BY <2>2, Zenon DEF control, AnswerInv, AdditionsAreAllowed, OverrideNeverStrengthens,
        RetiredIsNotAdded
<1>2. CASE Crash
  <2>1. /\ conf' = conf /\ mode' = conf.mode /\ over' = NoOverride
        /\ reloader' = [pc |-> "idle", to |-> conf] /\ admin' = [pc |-> "idle", mode |-> "Off"]
        /\ answer' = NoAnswer
    BY <1>2, Zenon DEF Crash
  <2>2. NoAnswer \in AnswerType /\ NoAnswer.verified = {} /\ NoAnswer.added = {}
          /\ NoAnswer.pc = "idle"
    BY Zenon DEF NoAnswer, AnswerType, Modes, Snapshots
  <2>3. IsFiniteSet({}) BY FS_EmptySet
  <2> QED BY <2>1, <2>2, <2>3, SteeringAssumption, Zenon
          DEF AnswerInv, AdditionsAreAllowed, OverrideNeverStrengthens, RetiredIsNotAdded, Modes,
              NoOverride
<1> QED BY <1>1, <1>2, ModesKeepAnswers, StepsKeepAnswers, ZenonT(30) DEF SteeringNext

\* Whatever a reload, the operator, the updater and the probes do while an
\* answer is built, it adds an address only if the configuration it began
\* with says verified-augment, and only one that is in the snapshot it read
\* (effective_mode, apply_answer_policy).
THEOREM OnlyAllowedAdditions == SteeringSpec => []AdditionsAreAllowed
<1>1. SteeringInit => SteeringInv
  BY UpdaterInvInit, ProposalInvInit, AnswerInvInit, ZenonT(30) DEF SteeringInv
<1>2. SteeringInv /\ [SteeringNext]_steeringVars => SteeringInv'
  BY UpdaterInvStep, ProposalInvStep, AnswerInvStep, ZenonT(30) DEF SteeringInv
<1>3. SteeringInv => AdditionsAreAllowed BY DEF SteeringInv, AnswerInv
<1> QED BY <1>1, <1>2, <1>3, PTL DEF SteeringSpec
=============================================================================
