---------------------------- MODULE SingleFlight ----------------------------
(***************************************************************************)
(* The request-coalescing registry of src/cache/singleflight.rs.           *)
(*                                                                         *)
(* A flight is named by the task that leads it: a task leads or follows    *)
(* one flight at a time, and a follower whose receive buffer is still      *)
(* empty can only belong to the flight its leader is leading now.          *)
(*                                                                         *)
(* The shard lock makes `join` and `remove` atomic.  `publish` is two      *)
(* steps: it removes the map entry under the lock and only then sends on   *)
(* the broadcast channel, so another task can start a flight for the same  *)
(* key between the two.                                                    *)
(***************************************************************************)
EXTENDS Naturals, FiniteSets

CONSTANTS
    Tasks,                  \* futures that join: client requests and background refreshes
    Keys,                   \* cache keys
    Values,                 \* what a successful flight returns
    Shards,                 \* the shards of the registry
    shard_index,            \* shard_index[k]: the shard that holds key k
    max_inflight_per_shard, \* ceiling on the flights of one shard
    NoTask,                 \* absent
    Empty                   \* an empty receive buffer

FlightError == {"LeaderGone", "Failed", "Transient"}

\* What goes over the channel: Result<V, FlightError>.
Ok(v) == [Ok |-> v]
Err(e) == [Err |-> e]
Shared == {Ok(v) : v \in Values} \union {Err(e) : e \in FlightError}

ASSUME TasksAssumption == NoTask \notin Tasks
ASSUME SharedAssumption == Empty \notin Shared
ASSUME ShardAssumption == shard_index \in [Keys -> Shards]
ASSUME InflightAssumption == max_inflight_per_shard \in Nat \ {0}

VARIABLES
    map,        \* map[k]: the task whose sender is registered for k
    role,       \* role[t]: what task t is doing in the registry
    key,        \* key[t]: the key t joined with
    tx,         \* tx[t]: for a follower, the leader whose channel it subscribed to
    rx          \* rx[t]: a follower's receive buffer; for a publishing leader, what it sends

vars == <<map, role, key, tx, rx>>

Roles == {"idle", "leader", "publishing", "follower"}

Init ==
    /\ map = [k \in Keys |-> NoTask]
    /\ role = [t \in Tasks |-> "idle"]
    /\ key \in [Tasks -> Keys]
    /\ tx = [t \in Tasks |-> NoTask]
    /\ rx = [t \in Tasks |-> Empty]

\* The keys with a registered flight in shard s.
Inflight(s) == {k \in Keys : shard_index[k] = s /\ map[k] # NoTask}

\* Whether the shard of k has room for one more flight.
HasRoom(k) == Cardinality(Inflight(shard_index[k])) < max_inflight_per_shard

-----------------------------------------------------------------------------
\* Join: no flight for k, and room for one.  The caller performs the work.
JoinLeader(t, k) ==
    /\ role[t] = "idle"
    /\ map[k] = NoTask
    /\ HasRoom(k)
    /\ map' = [map EXCEPT ![k] = t]
    /\ role' = [role EXCEPT ![t] = "leader"]
    /\ key' = [key EXCEPT ![t] = k]
    /\ UNCHANGED <<tx, rx>>

\* Join: a flight for k is registered.  The caller subscribes to its channel.
JoinFollower(t, k) ==
    /\ role[t] = "idle"
    /\ map[k] # NoTask
    /\ role' = [role EXCEPT ![t] = "follower"]
    /\ key' = [key EXCEPT ![t] = k]
    /\ tx' = [tx EXCEPT ![t] = map[k]]
    /\ UNCHANGED <<map, rx>>

\* Join: no flight for k and no room.  Nothing is registered.
JoinSaturated(t, k) ==
    /\ role[t] = "idle"
    /\ map[k] = NoTask
    /\ ~HasRoom(k)
    /\ UNCHANGED vars

\* Mutant: the map entry is left behind when the result is published.
PublishKeepsEntry(t, v) ==
    /\ role[t] = "leader"
    /\ role' = [role EXCEPT ![t] = "publishing"]
    /\ rx' = [rx EXCEPT ![t] = v]
    /\ UNCHANGED <<map, key, tx>>

\* Mutant: a leader that is dropped does not publish.  Its entry and the sender in it stay,
\* and it is never heard of again (tx[t] = t).
PublishUnlessDropped(t, v) ==
    /\ role[t] = "leader" /\ tx[t] = NoTask
    /\ IF v = Err("LeaderGone") THEN tx' = [tx EXCEPT ![t] = t] /\ UNCHANGED <<map, role, rx>>
       ELSE /\ map' = [map EXCEPT ![key[t]] = NoTask]
            /\ role' = [role EXCEPT ![t] = "publishing"]
            /\ rx' = [rx EXCEPT ![t] = v]
            /\ tx' = tx
    /\ UNCHANGED key

\* `publish`, first half: mark published and remove the entry under the shard lock.
\* `complete`, `fail`, `fail_uncacheable` and the drop of an unpublished leader
\* differ in v alone.
Publish(t, v) ==
    /\ role[t] = "leader"
    /\ map' = [map EXCEPT ![key[t]] = NoTask]
    /\ role' = [role EXCEPT ![t] = "publishing"]
    /\ rx' = [rx EXCEPT ![t] = v]
    /\ UNCHANGED <<key, tx>>

\* The followers subscribed to the channel of t that have not received yet.
Subscribed(t) == {f \in Tasks : role[f] = "follower" /\ tx[f] = t /\ rx[f] = Empty}

\* `publish`, second half: broadcast to everyone subscribed, then the handle is gone.
Send(t) ==
    /\ role[t] = "publishing"
    /\ rx' = [w \in Tasks |-> IF w = t THEN Empty
                              ELSE IF w \in Subscribed(t) THEN rx[t] ELSE rx[w]]
    /\ role' = [role EXCEPT ![t] = "idle"]
    /\ UNCHANGED <<map, key, tx>>

\* No sender of the channel f subscribed to is left: neither the leader's nor the map's.
Closed(f) == role[tx[f]] \notin {"leader", "publishing"} /\ map[key[f]] # tx[f]

\* What `Follower::wait` returns: the outcome received, or LeaderGone from a closed channel.
Outcome(t) == IF rx[t] # Empty THEN rx[t] ELSE Err("LeaderGone")

\* Every drop of a leader publishes, so no channel is ever found closed (NoStrandedFollower).
Recv(t) ==
    /\ role[t] = "follower"
    /\ rx[t] # Empty \/ Closed(t)
    /\ role' = [role EXCEPT ![t] = "idle"]
    /\ rx' = [rx EXCEPT ![t] = Empty]
    /\ tx' = [tx EXCEPT ![t] = NoTask]
    /\ UNCHANGED <<map, key>>

\* The follower's own future is dropped while it waits (its budget elapsed).
Abandon(t) ==
    /\ role[t] = "follower"
    /\ role' = [role EXCEPT ![t] = "idle"]
    /\ rx' = [rx EXCEPT ![t] = Empty]
    /\ tx' = [tx EXCEPT ![t] = NoTask]
    /\ UNCHANGED <<map, key>>

Join(t) == \E k \in Keys : JoinLeader(t, k) \/ JoinFollower(t, k) \/ JoinSaturated(t, k)

Next ==
    \E t \in Tasks :
        \/ Join(t)
        \/ \E v \in Shared : Publish(t, v)
        \/ Send(t)
        \/ Recv(t)
        \/ Abandon(t)

\* A leader always publishes (a fetch is bounded by its budget, and a dropped leader
\* publishes LeaderGone); sending and receiving are steps of a running executor.
Fairness ==
    \A t \in Tasks :
        /\ WF_vars(\E v \in Shared : Publish(t, v))
        /\ WF_vars(Send(t))
        /\ WF_vars(Recv(t))

Spec == Init /\ [][Next]_vars

FairSpec == Spec /\ Fairness

-----------------------------------------------------------------------------
TypeOK ==
    /\ map \in [Keys -> Tasks \union {NoTask}]
    /\ role \in [Tasks -> Roles]
    /\ key \in [Tasks -> Keys]
    /\ tx \in [Tasks -> Tasks \union {NoTask}]
    /\ rx \in [Tasks -> Shared \union {Empty}]

\* A registered entry is the unpublished leader's own, and every unpublished leader is
\* registered: `publish` never removes the entry of a later flight.
EntryIsLeader ==
    /\ \A k \in Keys : map[k] # NoTask => role[map[k]] = "leader" /\ key[map[k]] = k
    /\ \A t \in Tasks : role[t] = "leader" => map[key[t]] = t

\* "Concurrent identical cache misses must produce exactly one upstream operation": no
\* two tasks hold an unpublished leader handle for one key.
OneLeaderPerKey ==
    \A t, u \in Tasks :
        role[t] = "leader" /\ role[u] = "leader" /\ key[t] = key[u] => t = u

\* A follower that has received nothing is attached to a flight for its own key that has
\* still to send: whoever waits is woken, and woken by the right flight.
NoStrandedFollower ==
    \A f \in Tasks :
        role[f] = "follower" /\ rx[f] = Empty =>
            /\ tx[f] \in Tasks
            /\ role[tx[f]] \in {"leader", "publishing"}
            /\ key[tx[f]] = key[f]

\* A receiver belongs to one flight: no task starts or leads with the outcome of an earlier
\* flight in hand, and a task that publishes has an outcome to send.
NoStaleOutcome ==
    \A t \in Tasks :
        /\ role[t] \in {"idle", "leader"} => rx[t] = Empty
        /\ role[t] = "publishing" => rx[t] # Empty

\* The registry is bounded: a shard never holds more flights than its ceiling.
InflightBounded ==
    \A s \in Shards : Cardinality(Inflight(s)) <= max_inflight_per_shard

\* Every follower eventually stops waiting, also when nobody's timeout ever fires.
FollowersReturn ==
    \A t \in Tasks : role[t] = "follower" ~> role[t] # "follower"

-----------------------------------------------------------------------------
(* The refinement: a publish decides the flight at the removal of its entry.  *)

\* f has no value yet, and waits for a flight that is not decided.
Waiting(f) == role[f] = "follower" /\ rx[f] = Empty /\ role[tx[f]] # "publishing"

AbstractDoing ==
    [t \in Tasks |->
        CASE role[t] = "idle" -> "idle"
          [] role[t] = "leader" -> "working"
          [] Waiting(t) -> "waiting"
          [] OTHER -> "holding"]

AbstractOn == [t \in Tasks |-> IF Waiting(t) THEN tx[t] ELSE NoTask]

AbstractHeld ==
    [t \in Tasks |->
        IF role[t] = "follower" /\ rx[t] = Empty /\ ~Waiting(t) THEN rx[tx[t]] ELSE rx[t]]

Promise ==
    INSTANCE Coalescing WITH
        doing <- AbstractDoing, about <- key, on <- AbstractOn, held <- AbstractHeld,
        Nothing <- Empty

\* Every follower holds, from the removal of the entry on, the outcome its flight was
\* decided with, and no task joins a decided flight.
CoalescingPromise == Promise!Spec
=============================================================================
