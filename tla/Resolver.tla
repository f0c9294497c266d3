------------------------------ MODULE Resolver ------------------------------
(***************************************************************************)
(* The cache and miss path of src/dns/resolver.rs: `handle_inner` from the *)
(* failure lookup on, `serve_stale`, `resolve_miss`, `refresh` and the end *)
(* of `fetch`, over the answer and failure caches of src/cache/mod.rs and  *)
(* the coalescing registry (SingleFlight, on the same variables).          *)
(*                                                                         *)
(* An answer is the number of the fetch that produced it: later fetches    *)
(* have larger numbers.  TTLs and intervals lapse by events of their own.  *)
(* A background verdict (BackgroundValidation says what it may be) reads   *)
(* the entry of a key and then writes or removes it.                       *)
(* Each cache operation is atomic, as moka makes it; nothing else is.      *)
(***************************************************************************)
EXTENDS Naturals, FiniteSets

CONSTANTS
    Clients,                \* client queries being handled
    Spawned,                \* refreshes spawned by `serve_stale`; never cancelled
    Prefetchers,            \* refreshes of the prefetcher; cancelled at shutdown
    Keys, Shards, shard_index, max_inflight_per_shard, NoTask, Empty,
    serve_stale_enabled,
    MAX_TRACKED,            \* ceiling of the stale-refresh table
    MaxArrivals             \* bound: queries and prefetches in one behaviour

ASSUME ResolverAssumption ==
    /\ MaxArrivals \in Nat
    /\ MAX_TRACKED \in Nat \ {0}
    /\ serve_stale_enabled \in BOOLEAN

Tasks == Clients \union Spawned \union Prefetchers

\* Every arrival causes at most two fetches: its own and a stale refresh.
Fetches == 1..(2 * MaxArrivals)

VARIABLES
    map, role, key, tx, rx, \* the registry
    answers,        \* answers[k]: [no, fresh]; no = 0 when nothing usable is retained
    failures,       \* failures[k]: [consecutive, active]; consecutive = 0 when absent
    verdict,        \* verdict[k]: the entries `promote` or `evict_variant` has read for k (0 or 1)
    stale_refresh,  \* stale_refresh[k]: "none", or "recent" or "old" against the interval
    pc,             \* pc[t]: the step task t is at
    want,           \* want[t]: the key t works for
    held,           \* held[t]: the answer t holds, or the streak it has read
    helper,         \* helper[c]: the refresh client c awaits
    fetches,        \* the number of fetches started
    arrivals,       \* queries and prefetches so far
    served,         \* served[c][k]: the latest answer client c was given for k
    evidence,       \* evidence[k]: something other than a transient failure went wrong for k
    streak,         \* streak[k]: failures remembered since an answer was last stored
    restored        \* restored[k]: `promote` wrote back an entry that was no longer there

flight == <<map, role, key, tx, rx>>
judging == <<verdict, restored>>
caches == <<answers, failures, stale_refresh>>
ghosts == <<served, evidence, streak>>
tasks == <<pc, want, held, helper, fetches, arrivals>>
vars == <<flight, caches, tasks, judging, ghosts>>

Flight == INSTANCE SingleFlight WITH Values <- Fetches

Steps == {"idle", "lookup", "stale", "awaiting", "joining", "fetching", "storing", "stored",
          "publishing", "following", "failed", "recording", "ok", "err"}

NoEntry == [no |-> 0, fresh |-> FALSE]
NoFailure == [consecutive |-> 0, active |-> FALSE]

Init ==
    /\ Flight!Init
    /\ answers = [k \in Keys |-> NoEntry]
    /\ failures = [k \in Keys |-> NoFailure]
    /\ stale_refresh = [k \in Keys |-> "none"]
    /\ pc = [t \in Tasks |-> "idle"]
    /\ want = key
    /\ held = [t \in Tasks |-> 0]
    /\ helper = [c \in Clients |-> NoTask]
    /\ fetches = 0
    /\ arrivals = 0
    /\ served = [c \in Clients |-> [k \in Keys |-> 0]]
    /\ evidence = [k \in Keys |-> FALSE]
    /\ streak = [k \in Keys |-> 0]
    /\ verdict = [k \in Keys |-> {}]
    /\ restored = [k \in Keys |-> FALSE]

-----------------------------------------------------------------------------
(* Operations of the caches.                                               *)

Lookup(k) ==
    IF answers[k].no # 0 /\ answers[k].fresh THEN "Fresh"
    ELSE IF answers[k].no # 0 /\ serve_stale_enabled THEN "Stale" ELSE "Miss"

Tracked(table) == {k \in Keys : table[k] # "none"}

\* `retain`: what is older than the interval is swept.
Swept == [k \in Keys |-> IF stale_refresh[k] = "old" THEN "none" ELSE stale_refresh[k]]

\* The table after `stale_refresh_allowed` has returned true.
AfterAllowed(k) ==
    LET table == IF Cardinality(Tracked(stale_refresh)) >= MAX_TRACKED THEN Swept
                 ELSE stale_refresh IN
    IF Cardinality(Tracked(table)) >= MAX_TRACKED THEN table
    ELSE [table EXCEPT ![k] = "recent"]

\* Task t goes on at the given step.
Goto(t, step) == pc' = [pc EXCEPT ![t] = step]

-----------------------------------------------------------------------------
(* A client query.                                                         *)

\* The failure cache is asked first; a lapsed entry found there is removed.
Query(c, k) ==
    /\ pc[c] = "idle"
    /\ arrivals < MaxArrivals
    /\ arrivals' = arrivals + 1
    /\ want' = [want EXCEPT ![c] = k]
    /\ IF failures[k].active THEN pc' = pc /\ failures' = failures
       ELSE Goto(c, "lookup") /\ failures' = [failures EXCEPT ![k] = NoFailure]
    /\ UNCHANGED <<flight, answers, stale_refresh, held, helper, fetches, ghosts, judging>>

\* The client is given answer n and is done.
Give(c, n) ==
    /\ Goto(c, "idle")
    /\ held' = [held EXCEPT ![c] = 0]
    /\ served' = [served EXCEPT ![c][want[c]] = n]

LookupAnswer(c) ==
    LET k == want[c] IN
    /\ pc[c] = "lookup"
    /\ CASE Lookup(k) = "Fresh" -> Give(c, answers[k].no)
         [] Lookup(k) = "Stale" -> /\ Goto(c, "stale")
                                   /\ held' = [held EXCEPT ![c] = answers[k].no]
                                   /\ served' = served
         [] Lookup(k) = "Miss" -> Goto(c, "joining") /\ UNCHANGED <<held, served>>
    /\ UNCHANGED <<flight, caches, want, helper, fetches, arrivals, evidence, streak, judging>>

\* A refresh was attempted too recently: the stale answer is given at once.
RefreshSuppressed(c) ==
    /\ pc[c] = "stale"
    /\ stale_refresh[want[c]] = "recent"
    /\ Give(c, held[c])
    /\ UNCHANGED <<flight, caches, want, helper, fetches, arrivals, evidence, streak, judging>>

\* A refresh is spawned and awaited.
SpawnRefresh(c, s) ==
    /\ pc[c] = "stale"
    /\ stale_refresh[want[c]] # "recent"
    /\ pc[s] = "idle"
    /\ stale_refresh' = AfterAllowed(want[c])
    /\ pc' = [pc EXCEPT ![c] = "awaiting", ![s] = "joining"]
    /\ want' = [want EXCEPT ![s] = want[c]]
    /\ helper' = [helper EXCEPT ![c] = s]
    /\ UNCHANGED <<flight, answers, failures, held, fetches, arrivals, ghosts, judging>>

\* The refresh ended within client_timeout: its answer is given, or else the stale one.
TakeRefresh(c) ==
    LET s == helper[c] IN
    /\ pc[c] = "awaiting"
    /\ pc[s] \in {"ok", "err"}
    /\ pc' = [pc EXCEPT ![c] = "idle", ![s] = "idle"]
    /\ held' = [held EXCEPT ![c] = 0, ![s] = 0]
    /\ served' = [served EXCEPT ![c][want[c]] = IF pc[s] = "ok" THEN held[s] ELSE held[c]]
    /\ helper' = [helper EXCEPT ![c] = NoTask]
    /\ UNCHANGED <<flight, caches, want, fetches, arrivals, evidence, streak, judging>>

\* client_timeout passed: the stale answer is given, and the refresh goes on unattended.
StaleTimeout(c) ==
    /\ pc[c] = "awaiting"
    /\ pc[helper[c]] \notin {"ok", "err"}
    /\ Give(c, held[c])
    /\ helper' = [helper EXCEPT ![c] = NoTask]
    /\ UNCHANGED <<flight, caches, want, fetches, arrivals, evidence, streak, judging>>

-----------------------------------------------------------------------------
(* Joining and leading a flight: `resolve_miss` and `refresh`.             *)

\* The prefetcher or a dataset fetch refreshes k.
Prefetch(p, k) ==
    /\ pc[p] = "idle"
    /\ arrivals < MaxArrivals
    /\ arrivals' = arrivals + 1
    /\ want' = [want EXCEPT ![p] = k]
    /\ Goto(p, "joining")
    /\ UNCHANGED <<flight, caches, held, helper, fetches, ghosts, judging>>

\* What a refresh returns to whoever awaits it; a detached task just ends.
RefreshEnds(t, n) ==
    LET awaited == \E c \in Clients : helper[c] = t IN
    /\ Goto(t, IF ~awaited THEN "idle" ELSE IF n = 0 THEN "err" ELSE "ok")
    /\ held' = [held EXCEPT ![t] = IF awaited THEN n ELSE 0]

Lead(t) ==
    /\ pc[t] = "joining"
    /\ Flight!JoinLeader(t, want[t])
    /\ fetches' = fetches + 1
    /\ held' = [held EXCEPT ![t] = fetches + 1]
    /\ Goto(t, "fetching")
    /\ UNCHANGED <<caches, want, helper, arrivals, ghosts, judging>>

Follow(t) ==
    /\ pc[t] = "joining"
    /\ Flight!JoinFollower(t, want[t])
    /\ Goto(t, "following")
    /\ UNCHANGED <<caches, want, held, helper, fetches, arrivals, ghosts, judging>>

\* Too many flights: a client remembers it as a failure of the upstream.
Saturated(t) ==
    /\ pc[t] = "joining"
    /\ Flight!JoinSaturated(t, want[t])
    /\ IF t \in Clients THEN Goto(t, "failed") /\ held' = held ELSE RefreshEnds(t, 0)
    /\ evidence' = [evidence EXCEPT ![want[t]] = TRUE]
    /\ UNCHANGED <<caches, want, helper, fetches, arrivals, served, streak, judging>>

\* Mutant: the flight is published before the answer is stored.
FetchOkPublishes(t) ==
    /\ pc[t] = "fetching"
    /\ Flight!Publish(t, Flight!Ok(held[t]))
    /\ failures' = [failures EXCEPT ![want[t]] = NoFailure]
    /\ streak' = [streak EXCEPT ![want[t]] = 0]
    /\ Goto(t, "storing")
    /\ UNCHANGED <<answers, stale_refresh, want, held, helper, fetches, arrivals,
                   served, evidence, judging>>

\* `fetch` has an answer: the recorded failure is cleared, and the answer stored after.
FetchOk(t) ==
    /\ pc[t] = "fetching"
    /\ failures' = [failures EXCEPT ![want[t]] = NoFailure]
    /\ streak' = [streak EXCEPT ![want[t]] = 0]
    /\ Goto(t, "storing")
    /\ UNCHANGED <<flight, answers, stale_refresh, want, held, helper, fetches, arrivals,
                   served, evidence, judging>>

Insert(t) ==
    /\ pc[t] = "storing"
    /\ answers' = [answers EXCEPT ![want[t]] = [no |-> held[t], fresh |-> TRUE]]
    /\ Goto(t, "stored")
    /\ UNCHANGED <<flight, failures, stale_refresh, want, held, helper, fetches, arrivals,
                   ghosts, judging>>

Complete(t) ==
    /\ pc[t] = "stored"
    /\ Flight!Publish(t, Flight!Ok(held[t]))
    /\ Goto(t, "publishing")
    /\ UNCHANGED <<caches, want, held, helper, fetches, arrivals, ghosts, judging>>

\* How a leader publishes a failed fetch: only `resolve_miss` tells transient ones apart.
FailureOf(t, transient) ==
    Flight!Err(IF transient /\ t \in Clients THEN "Transient" ELSE "Failed")

FetchFails(t, transient) ==
    /\ pc[t] = "fetching"
    /\ Flight!Publish(t, FailureOf(t, transient))
    /\ evidence' = [evidence EXCEPT ![want[t]] = @ \/ ~transient]
    /\ Goto(t, "publishing")
    /\ UNCHANGED <<caches, want, held, helper, fetches, arrivals, served, streak, judging>>

\* Mutant: dropping an unpublished leader tells nobody.
CancelLeaderSilently(p) ==
    /\ pc[p] = "fetching"
    /\ role' = [role EXCEPT ![p] = "idle"]
    /\ Goto(p, "idle")
    /\ UNCHANGED <<map, key, tx, rx, caches, want, held, helper, fetches, arrivals, ghosts, judging>>

\* The future of a refresh is dropped while it leads: its followers are told so.
CancelLeader(p) ==
    /\ pc[p] = "fetching"
    /\ Flight!Publish(p, Flight!Err("LeaderGone"))
    /\ Goto(p, "publishing")
    /\ UNCHANGED <<caches, want, held, helper, fetches, arrivals, ghosts, judging>>

CancelFollower(p) ==
    /\ pc[p] = "following"
    /\ Flight!Abandon(p)
    /\ Goto(p, "idle")
    /\ UNCHANGED <<caches, want, held, helper, fetches, arrivals, ghosts, judging>>

\* With the outcome v of its flight, a client answers or fails and a refresh returns.
Conclude(t, v) ==
    LET answered == "Ok" \in DOMAIN v IN
    IF t \notin Clients
    THEN RefreshEnds(t, IF answered THEN v.Ok ELSE 0) /\ served' = served
    ELSE IF answered THEN Give(t, v.Ok)
    ELSE /\ Goto(t, IF v.Err = "Failed" THEN "failed" ELSE "idle")
         /\ held' = [held EXCEPT ![t] = 0]
         /\ served' = served

Send(t) ==
    /\ pc[t] = "publishing"
    /\ Flight!Send(t)
    /\ Conclude(t, rx[t])
    /\ UNCHANGED <<caches, want, helper, fetches, arrivals, evidence, streak, judging>>

Receive(t) ==
    /\ pc[t] = "following"
    /\ Flight!Recv(t)
    /\ Conclude(t, Flight!Outcome(t))
    /\ UNCHANGED <<caches, want, helper, fetches, arrivals, evidence, streak, judging>>

\* A following client's budget elapses; a following refresh has no timer.
FollowerTimeout(c) ==
    /\ pc[c] = "following"
    /\ Flight!Abandon(c)
    /\ evidence' = [evidence EXCEPT ![want[c]] = TRUE]
    /\ Goto(c, "failed")
    /\ UNCHANGED <<caches, want, held, helper, fetches, arrivals, served, streak, judging>>

-----------------------------------------------------------------------------
(* A remembered failure: the streak is read, then the entry is written.    *)

ReadStreak(c) ==
    /\ pc[c] = "failed"
    /\ held' = [held EXCEPT ![c] = failures[want[c]].consecutive]
    /\ Goto(c, "recording")
    /\ UNCHANGED <<flight, caches, want, helper, fetches, arrivals, ghosts, judging>>

RecordFailure(c) ==
    /\ pc[c] = "recording"
    /\ failures' = [failures EXCEPT ![want[c]] = [consecutive |-> held[c] + 1, active |-> TRUE]]
    /\ streak' = [streak EXCEPT ![want[c]] = @ + 1]
    /\ held' = [held EXCEPT ![c] = 0]
    /\ Goto(c, "idle")
    /\ UNCHANGED <<flight, answers, stale_refresh, want, helper, fetches, arrivals,
                   served, evidence, judging>>

-----------------------------------------------------------------------------
(* A background verdict.                                                   *)

\* `promote` or `evict_variant` reads the entry, whatever its age.
VerdictReads(k) ==
    /\ verdict[k] = {} /\ answers[k].no # 0
    /\ verdict' = [verdict EXCEPT ![k] = {answers[k]}]
    /\ UNCHANGED <<flight, caches, tasks, restored, ghosts>>

\* The entry was another variant, or has this status already: nothing is written.
VerdictMismatch(k) ==
    /\ verdict[k] # {}
    /\ verdict' = [verdict EXCEPT ![k] = {}]
    /\ UNCHANGED <<flight, caches, tasks, restored, ghosts>>

\* A fresh answer outlives its TTL; a stale one outlives max_stale, or is evicted.
Aged(entry) == IF entry.fresh THEN [entry EXCEPT !.fresh = FALSE] ELSE NoEntry

\* The copy read ages by itself once the original has been replaced.
CopyAges(k) ==
    /\ \E e \in verdict[k] : e.no \notin {0, answers[k].no}
    /\ verdict' = [verdict EXCEPT ![k] = {Aged(e) : e \in @}]
    /\ UNCHANGED <<flight, caches, tasks, restored, ghosts>>

\* `promote` inserts its copy over whatever is there now.
Promote(k) ==
    \E copy \in verdict[k] :
      /\ answers' = [answers EXCEPT ![k] = copy]
      /\ verdict' = [verdict EXCEPT ![k] = {}]
      /\ restored' = [restored EXCEPT ![k] = @ \/ copy.no # answers[k].no]
      /\ UNCHANGED <<flight, failures, stale_refresh, tasks, ghosts>>

\* `evict_variant` removes whatever is there now.
EvictVariant(k) ==
    /\ verdict[k] # {}
    /\ answers' = [answers EXCEPT ![k] = NoEntry]
    /\ verdict' = [verdict EXCEPT ![k] = {}]
    /\ UNCHANGED <<flight, failures, stale_refresh, tasks, restored, ghosts>>

Verdict(k) ==
    VerdictReads(k) \/ VerdictMismatch(k) \/ Promote(k) \/ EvictVariant(k) \/ CopyAges(k)

-----------------------------------------------------------------------------
(* Time.                                                                   *)

\* The copy a verdict has read ages with its original; both keep when they were stored.
AnswerAges(k) ==
    /\ answers[k].no # 0
    /\ answers' = [answers EXCEPT ![k] = Aged(@)]
    /\ verdict' = [verdict EXCEPT ![k] = {IF e.no = answers[k].no THEN Aged(e) ELSE e : e \in @}]
    /\ UNCHANGED <<flight, failures, stale_refresh, tasks, restored, ghosts>>

FailureLapses(k) ==
    /\ failures[k].active
    /\ failures' = [failures EXCEPT ![k].active = FALSE]
    /\ UNCHANGED <<flight, answers, stale_refresh, tasks, judging, ghosts>>

IntervalPasses(k) ==
    /\ stale_refresh[k] = "recent"
    /\ stale_refresh' = [stale_refresh EXCEPT ![k] = "old"]
    /\ UNCHANGED <<flight, answers, failures, tasks, judging, ghosts>>

-----------------------------------------------------------------------------
\* The steps a task takes once it has been started.
Step(t) ==
    \/ Lead(t) \/ Follow(t) \/ Saturated(t)
    \/ FetchOk(t) \/ Insert(t) \/ Complete(t)
    \/ \E transient \in BOOLEAN : FetchFails(t, transient)
    \/ Send(t) \/ Receive(t)

ClientStep(c) ==
    \/ LookupAnswer(c)
    \/ RefreshSuppressed(c)
    \/ \E s \in Spawned : SpawnRefresh(c, s)
    \/ TakeRefresh(c)
    \/ ReadStreak(c) \/ RecordFailure(c)

Next ==
    \/ \E t \in Tasks : Step(t)
    \/ \E c \in Clients :
        \/ \E k \in Keys : Query(c, k)
        \/ ClientStep(c)
        \/ StaleTimeout(c)
        \/ FollowerTimeout(c)
    \/ \E p \in Prefetchers :
        \/ \E k \in Keys : Prefetch(p, k)
        \/ CancelLeader(p)
        \/ CancelFollower(p)
    \/ \E k \in Keys : AnswerAges(k) \/ FailureLapses(k) \/ IntervalPasses(k) \/ Verdict(k)

\* Tasks run, and a fetch ends within its budget.  No timer is assumed to fire: the
\* timeouts only make the wait shorter.
Fairness ==
    /\ \A t \in Tasks : WF_vars(Step(t))
    /\ \A c \in Clients : WF_vars(ClientStep(c))

Spec == Init /\ [][Next]_vars

FairSpec == Spec /\ Fairness

-----------------------------------------------------------------------------
TypeOK ==
    /\ Flight!TypeOK
    /\ answers \in [Keys -> [no : Fetches \union {0}, fresh : BOOLEAN]]
    /\ failures \in [Keys -> [consecutive : 0..MaxArrivals, active : BOOLEAN]]
    /\ stale_refresh \in [Keys -> {"none", "recent", "old"}]
    /\ pc \in [Tasks -> Steps]
    /\ want \in [Tasks -> Keys]
    /\ held \in [Tasks -> Fetches \union {0}]
    /\ helper \in [Clients -> Spawned \union {NoTask}]
    /\ served \in [Clients -> [Keys -> Fetches \union {0}]]
    /\ evidence \in [Keys -> BOOLEAN]
    /\ verdict \in [Keys -> SUBSET [no : Fetches \union {0}, fresh : BOOLEAN]]
    /\ restored \in [Keys -> BOOLEAN]

\* Outside a flight nobody stores: no two tasks are between the start of a fetch for a key
\* and the storing of its answer.
OneStorePerKey ==
    \A t, u \in Tasks :
        /\ pc[t] \in {"fetching", "storing", "stored"}
        /\ pc[u] \in {"fetching", "storing", "stored"}
        /\ want[t] = want[u]
        => t = u

\* Lookup, join, store and publish are steps of different tasks, and yet a flight never
\* replaces an answer by that of an earlier fetch, and no client is given an older answer than
\* it had before, be it from the cache, a stale entry, a refresh or a shared flight.  The only
\* way back is `promote` writing its copy over what has replaced it (NewerLeftAlone).
AnswersNeverGoBack ==
    [][\A k \in Keys : ~restored'[k] =>
         /\ answers'[k].no # 0 => answers'[k].no >= answers[k].no
         /\ \A c \in Clients : served'[c][k] >= served[c][k]]_vars

\* "Bounded by construction": the table of stale-refresh attempts keeps to its ceiling.
StaleTableBounded == Cardinality(Tracked(stale_refresh)) <= MAX_TRACKED

\* Every query is answered, also when no timeout ever fires.
EveryQueryAnswered == \A c \in Clients : pc[c] # "idle" ~> pc[c] = "idle"

\* "A transient failure must not enter the failure cache".
TransientNotRemembered ==
    \A k \in Keys : failures[k].consecutive > 0 => evidence[k]

\* "Number of consecutive failures, used for backoff."
ConsecutiveCounts ==
    \A k \in Keys : failures[k].consecutive > 0 => failures[k].consecutive >= streak[k]

\* "Concurrent identical cache misses must produce exactly one upstream operation": a
\* client that missed does not start a fetch for what has been stored meanwhile.
MissesShareOneFetch ==
    [][\A c \in Clients :
        pc[c] = "joining" /\ pc'[c] = "fetching" => Lookup(want[c]) # "Fresh"]_vars
=============================================================================
