------------------------------ MODULE Scheduler ------------------------------
(***************************************************************************)
(* `Scheduler::resolve`, `stream_retry` and `attempt` of                   *)
(* src/upstream/scheduler.rs: concurrent resolutions through one group,    *)
(* sharing the semaphore that bounds physical upstream exchanges.          *)
(*                                                                         *)
(* A resolution starts its best route, perhaps one hedge, and takes the    *)
(* results as they come; a truncated datagram answer sends it into the     *)
(* truncation retry, during which its other attempts are not polled but    *)
(* keep the permits they hold.  When everything it started has failed it   *)
(* fans out once.  Leaving `resolve` drops whatever is unfinished; a       *)
(* dropped exchange keeps its permit for a grace period.                   *)
(*                                                                         *)
(* Ranking is any order of any of the group's routes: which routes it      *)
(* offers depends on their health, the subject of CircuitBreaker.  The     *)
(* clock is an event per resolution (its deadline passes) and, for one     *)
(* attempt, a timeout that may come at any time.                           *)
(***************************************************************************)
EXTENDS Naturals, FiniteSets, Lists

CONSTANTS
    Resolutions,            \* concurrent calls of `resolve`
    Routes,                 \* the routes of the group
    stream,                 \* the routes over a stream transport
    companions,             \* the stream routes used only to retry truncated answers
    authority,              \* authority[r]: the resolver that route r reaches
    capacity,               \* permits of the exchange semaphore
    hedge_enabled,
    emergency_fanout,
    emergency_fanout_max

\* The attempt of the truncation retry; every other attempt is named by its route.
Retry == "retry"
AttemptIds == Routes \union {Retry}

ASSUME RoutesAssumption ==
    /\ IsFiniteSet(Resolutions)
    /\ IsFiniteSet(Routes)
    /\ companions \subseteq stream
    /\ stream \subseteq Routes
    /\ Retry \notin Routes
ASSUME CapacityAssumption == capacity \in Nat \ {0}
ASSUME SwitchAssumption == {hedge_enabled, emergency_fanout} \subseteq BOOLEAN
ASSUME FanoutAssumption == emergency_fanout_max \in Nat \ {0}

\* An attempt that has sent nothing: a hedge in its delay, a fan-out attempt that takes a
\* permit at once or is shed, and one that queues for its permit.
Unsent == {"delayed", "trying", "waiting"}
AttemptStates == {"none", "onwire", "taken"} \union Unsent

Results == {"None", "Ok", "Timeout", "Overloaded", "InvalidResponse", "AllFailed", "Dropped"}

VARIABLES
    phase,          \* phase[r]: "idle", "running", "retrying" or "done"
    ranked,         \* ranked[r]: the offered routes, best first
    att,            \* att[r][a]: the state of attempt a of resolution r
    retry_routes,   \* retry_routes[r]: the stream routes the truncation retry has left
    sent,           \* sent[r][x]: exchanges r has started with route x
    expired,        \* expired[r]: the deadline of r has passed
    fanned_out,     \* fanned_out[r]: the emergency fan-out has been used
    result,         \* result[r]: what `resolve` returned
    free,           \* available permits
    grace           \* permits kept by cancelled exchanges

vars == <<phase, ranked, att, retry_routes, sent, expired, fanned_out, result, free, grace>>

\* Any order of any of the group's routes, without the companions.
RankOrders == Orders(Routes \ companions) \ {<<>>}

\* At most two stream routes, in any rank order, companions included.
RetryOrders == {s \in Orders(stream) : Len(s) <= 2}

Init ==
    /\ phase = [r \in Resolutions |-> "idle"]
    /\ ranked = [r \in Resolutions |-> <<>>]
    /\ att = [r \in Resolutions |-> [a \in AttemptIds |-> "none"]]
    /\ retry_routes = [r \in Resolutions |-> <<>>]
    /\ sent = [r \in Resolutions |-> [x \in Routes |-> 0]]
    /\ expired = [r \in Resolutions |-> FALSE]
    /\ fanned_out = [r \in Resolutions |-> FALSE]
    /\ result = [r \in Resolutions |-> "None"]
    /\ free = capacity
    /\ grace = 0

OnWire(r) == {a \in AttemptIds : att[r][a] = "onwire"}

\* The queued attempts: a released permit is assigned to them before `try_acquire` sees it.
Waiters == {w \in Resolutions \X AttemptIds : att[w[1]][w[2]] = "waiting"}

\* While `resolve` awaits the truncation retry it polls none of its other attempts.
Polled(r, a) ==
    \/ phase[r] = "running" /\ a \in Routes
    \/ phase[r] = "retrying" /\ a = Retry

RouteOf(r, a) == IF a = Retry THEN Head(retry_routes[r]) ELSE a

-----------------------------------------------------------------------------
\* The best-ranked route to another authority, else plain second place.
HedgeRoute(order) ==
    LET others == {i \in DOMAIN order : authority[order[i]] # authority[order[1]]} IN
    IF others = {} THEN order[2] ELSE order[CHOOSE i \in others : \A j \in others : i <= j]

\* `resolve` ranks the group and starts the primary, and a hedge when one is admitted.
Start(r, order, hedge) ==
    /\ phase[r] = "idle"
    /\ hedge => hedge_enabled /\ Len(order) > 1
    /\ phase' = [phase EXCEPT ![r] = "running"]
    /\ ranked' = [ranked EXCEPT ![r] = order]
    /\ att' = [att EXCEPT ![r] = [a \in AttemptIds |->
                    IF a = order[1] THEN "waiting"
                    ELSE IF hedge /\ a = HedgeRoute(order) THEN "delayed" ELSE "none"]]
    /\ UNCHANGED <<retry_routes, sent, expired, fanned_out, result, free, grace>>

\* Mutant: a dropped exchange's permit is lost unless its deadline has passed.
LeaveLeaks(r, res, ended) ==
    LET dropped == OnWire(r) \ ended IN
    /\ phase' = [phase EXCEPT ![r] = "done"]
    /\ result' = [result EXCEPT ![r] = res]
    /\ att' = [att EXCEPT ![r] = [a \in AttemptIds |->
                    IF a \in ended THEN "taken"
                    ELSE IF a \in dropped \/ att[r][a] \in Unsent THEN "none" ELSE att[r][a]]]
    /\ free' = free + Cardinality(ended) + (IF expired[r] THEN Cardinality(dropped) ELSE 0)
    /\ UNCHANGED <<ranked, retry_routes, sent, expired, fanned_out, grace>>

\* `resolve` returns: attempts that are still going are dropped.  `ended` is the exchange
\* that just completed, whose permit is free at once; a dropped exchange keeps its permit
\* for the grace period unless its deadline has passed.
Leave(r, res, ended) ==
    LET dropped == OnWire(r) \ ended
        now == Cardinality(ended) + (IF expired[r] THEN Cardinality(dropped) ELSE 0) IN
    /\ phase' = [phase EXCEPT ![r] = "done"]
    /\ result' = [result EXCEPT ![r] = res]
    /\ att' = [att EXCEPT ![r] = [a \in AttemptIds |->
                    IF a \in ended THEN "taken"
                    ELSE IF a \in dropped \/ att[r][a] \in Unsent THEN "none" ELSE att[r][a]]]
    /\ free' = free + now
    /\ grace' = grace + (IF expired[r] THEN 0 ELSE Cardinality(dropped))
    /\ UNCHANGED <<ranked, retry_routes, sent, expired, fanned_out>>

\* The retry's current route did not answer: the next one, or the resolution fails.
NextRetry(r, ended) ==
    IF Len(retry_routes[r]) > 1 /\ ~expired[r]
    THEN /\ retry_routes' = [retry_routes EXCEPT ![r] = Tail(@)]
         /\ att' = [att EXCEPT ![r][Retry] = "waiting"]
         /\ free' = free + Cardinality(ended)
         /\ UNCHANGED <<phase, ranked, sent, expired, fanned_out, result, grace>>
    ELSE Leave(r, "InvalidResponse", ended)

\* An ordinary attempt ended without an answer and the loop goes on.
Consume(r, a, ended) ==
    /\ att' = [att EXCEPT ![r][a] = "taken"]
    /\ free' = free + Cardinality(ended)
    /\ UNCHANGED <<phase, ranked, retry_routes, sent, expired, fanned_out, result, grace>>

\* A permit is taken and the query goes out.
Send(r, a) ==
    /\ free' = free - 1
    /\ att' = [att EXCEPT ![r][a] = "onwire"]
    /\ sent' = [sent EXCEPT ![r][RouteOf(r, a)] = @ + 1]
    /\ UNCHANGED <<phase, ranked, retry_routes, expired, fanned_out, result, grace>>

\* A queued attempt gets its permit in time.
Acquire(r, a) ==
    /\ Polled(r, a)
    /\ att[r][a] = "waiting"
    /\ free > 0
    /\ ~expired[r]
    /\ Send(r, a)

\* A hedge or a fan-out attempt finds a permit nobody queues for.
TryAcquire(r, a) ==
    /\ Polled(r, a)
    /\ att[r][a] \in {"delayed", "trying"}
    /\ free > Cardinality(Waiters)
    /\ ~expired[r]
    /\ Send(r, a)

\* An attempt ends before anything is sent: no permit now, none within its own timeout, or
\* no time left.  A primary that never started ends the resolution; the health of the
\* route is not touched.
ShedAttempt(r, a) ==
    /\ Polled(r, a)
    /\ att[r][a] \in Unsent
    /\ att[r][a] = "trying" => free <= Cardinality(Waiters) \/ expired[r]
    /\ IF a = Retry THEN NextRetry(r, {})
       ELSE IF a = ranked[r][1]
       THEN Leave(r, IF expired[r] THEN "Timeout" ELSE "Overloaded", {})
       ELSE Consume(r, a, {})

\* The exchange times out, fails, or its answer is rejected.
Fail(r, a) ==
    /\ Polled(r, a)
    /\ att[r][a] = "onwire"
    /\ IF a = Retry THEN NextRetry(r, {a}) ELSE Consume(r, a, {a})

\* A complete answer: `resolve` returns it.
Answer(r, a) ==
    /\ Polled(r, a)
    /\ att[r][a] = "onwire"
    /\ Leave(r, "Ok", {a})

\* Mutant: the truncated exchange keeps its permit until the retry is over.
TruncatedHolds(r, a, order) ==
    /\ phase[r] = "running"
    /\ a \in Routes \ stream
    /\ att[r][a] = "onwire"
    /\ order # <<>> /\ ~expired[r]
    /\ phase' = [phase EXCEPT ![r] = "retrying"]
    /\ retry_routes' = [retry_routes EXCEPT ![r] = order]
    /\ att' = [att EXCEPT ![r][Retry] = "waiting"]
    /\ UNCHANGED <<ranked, sent, expired, fanned_out, result, free, grace>>

\* A truncated datagram answer is never used: it is retried over stream routes.
Truncated(r, a, order) ==
    /\ phase[r] = "running"
    /\ a \in Routes \ stream
    /\ att[r][a] = "onwire"
    /\ IF order = <<>> \/ expired[r] THEN Leave(r, "InvalidResponse", {a})
       ELSE /\ phase' = [phase EXCEPT ![r] = "retrying"]
            /\ retry_routes' = [retry_routes EXCEPT ![r] = order]
            /\ att' = [att EXCEPT ![r][a] = "taken", ![r][Retry] = "waiting"]
            /\ free' = free + 1
            /\ UNCHANGED <<ranked, sent, expired, fanned_out, result, grace>>

\* Mutant: the fan-out assumes that the two best routes were attempted.
FanoutByPosition(r) ==
    LET n == IF Len(ranked[r]) < emergency_fanout_max + 2 THEN Len(ranked[r])
             ELSE emergency_fanout_max + 2 IN
    {ranked[r][i] : i \in 3..n}

\* The places in the ranking of the routes never started.
Untried(r) == {i \in DOMAIN ranked[r] : att[r][ranked[r][i]] = "none"}

\* The routes never started, the first emergency_fanout_max of them in rank order.
Fanout(r) ==
    {ranked[r][i] : i \in {i \in Untried(r) :
        Cardinality({j \in Untried(r) : j < i}) < emergency_fanout_max}}

\* Mutant: after the fan-out the loop waits for attempts that do not exist.
ExhaustedWaits(r) ==
    LET extra == Fanout(r) IN
    /\ phase[r] = "running"
    /\ \A a \in Routes : att[r][a] \in {"none", "taken"}
    /\ extra # {} /\ ~fanned_out[r]
    /\ att' = [att EXCEPT ![r] = [a \in AttemptIds |->
                    IF a \in extra THEN "trying" ELSE att[r][a]]]
    /\ fanned_out' = [fanned_out EXCEPT ![r] = TRUE]
    /\ UNCHANGED <<phase, ranked, retry_routes, sent, expired, result, free, grace>>

\* Everything started has ended without an answer: fan out once, or give up.
Exhausted(r) ==
    LET extra == IF emergency_fanout /\ ~fanned_out[r] THEN Fanout(r) ELSE {} IN
    /\ phase[r] = "running"
    /\ \A a \in Routes : att[r][a] \in {"none", "taken"}
    /\ IF extra # {}
       THEN /\ att' = [att EXCEPT ![r] = [a \in AttemptIds |->
                            IF a \in extra THEN "trying" ELSE att[r][a]]]
            /\ fanned_out' = [fanned_out EXCEPT ![r] = TRUE]
            /\ UNCHANGED <<phase, ranked, retry_routes, sent, expired, result, free, grace>>
       ELSE Leave(r, IF \E x \in Routes : sent[r][x] > 0 THEN "AllFailed" ELSE "Overloaded", {})

\* The loop finds no time left.
TimeOut(r) ==
    /\ phase[r] = "running"
    /\ expired[r]
    /\ Leave(r, "Timeout", {})

\* The caller drops the future of `resolve`.
Drop(r) ==
    /\ phase[r] \in {"running", "retrying"}
    /\ Leave(r, "Dropped", {})

Expire(r) ==
    /\ phase[r] \in {"running", "retrying"}
    /\ ~expired[r]
    /\ expired' = [expired EXCEPT ![r] = TRUE]
    /\ UNCHANGED <<phase, ranked, att, retry_routes, sent, fanned_out, result, free, grace>>

\* The grace period of one cancelled exchange is over.
EndGrace ==
    /\ grace > 0
    /\ grace' = grace - 1
    /\ free' = free + 1
    /\ UNCHANGED <<phase, ranked, att, retry_routes, sent, expired, fanned_out, result>>

\* One step of the future of `resolve`.
Poll(r) ==
    \/ \E a \in AttemptIds :
        \/ Acquire(r, a)
        \/ TryAcquire(r, a)
        \/ ShedAttempt(r, a)
        \/ Fail(r, a)
        \/ Answer(r, a)
        \/ \E order \in RetryOrders : Truncated(r, a, order)
    \/ Exhausted(r)
    \/ TimeOut(r)

Next ==
    \/ \E r \in Resolutions :
        \/ \E order \in RankOrders, hedge \in BOOLEAN : Start(r, order, hedge)
        \/ Poll(r)
        \/ Drop(r)
        \/ Expire(r)
    \/ EndGrace

\* Every wait of a resolution is bounded by a timeout, and the grace timer runs.
Fairness == WF_vars(EndGrace) /\ \A r \in Resolutions : WF_vars(Poll(r))

Spec == Init /\ [][Next]_vars

FairSpec == Spec /\ Fairness

-----------------------------------------------------------------------------
TypeOK ==
    /\ phase \in [Resolutions -> {"idle", "running", "retrying", "done"}]
    /\ \A r \in Resolutions : ranked[r] \in RankOrders \union {<<>>}
    /\ att \in [Resolutions -> [AttemptIds -> AttemptStates]]
    /\ \A r \in Resolutions : retry_routes[r] \in RetryOrders
    /\ sent \in [Resolutions -> [Routes -> 0..2]]
    /\ expired \in [Resolutions -> BOOLEAN]
    /\ fanned_out \in [Resolutions -> BOOLEAN]
    /\ result \in [Resolutions -> Results]
    /\ free \in 0..capacity
    /\ grace \in 0..capacity

\* The exchanges in progress, over all resolutions.
Exchanges == {w \in Resolutions \X AttemptIds : att[w[1]][w[2]] = "onwire"}

\* Every permit is available, bracketing an exchange, or in its grace period: the ceiling
\* binds the exchanges on the wire, and no way of ending an attempt loses a permit.
PermitsConserved == free + Cardinality(Exchanges) + grace = capacity

\* A resolution waiting for its truncation retry pins the permits of attempts it no longer
\* polls.  Such permits never fill the ceiling, so some exchange that can end always
\* stands between a queued retry and its permit.
RetryNotStarvedByParked ==
    Cardinality({w \in Exchanges : ~Polled(w[1], w[2])}) < capacity

\* The offered routes that were started.
Tried(r) == {x \in Range(ranked[r]) : att[r][x] # "none"}

\* Every offered route was tried, or more than one fan-out starts.
TriedEnough(r) == Tried(r) = Range(ranked[r]) \/ Cardinality(Tried(r)) > emergency_fanout_max

\* `resolve` reports that everything failed only after trying every offered route, up to
\* the size of one fan-out: "membership, not position, decides what is still eligible".
AllFailedTriedAll ==
    \A r \in Resolutions : result[r] = "AllFailed" /\ emergency_fanout => TriedEnough(r)

\* Overload is reported only by a resolution whose best route never got an exchange.
OverloadMeansUnsent ==
    \A r \in Resolutions : result[r] = "Overloaded" => sent[r][ranked[r][1]] = 0

\* What `resolve` reports is true of what it did: everything failed only if everything that
\* one fan-out may try was tried, and overload only if the best route was never asked.
ErrorsAreTrue == AllFailedTriedAll /\ OverloadMeansUnsent

\* "one resolution makes at most one attempt per route".
OneAttemptPerRoute ==
    \A r \in Resolutions, x \in Routes : sent[r][x] <= 1

\* Every resolution returns.
ResolveReturns ==
    \A r \in Resolutions : phase[r] = "running" ~> phase[r] = "done"

\* When the load is over every permit comes back: "cancellation cannot leak a slot".
PermitsComeBack == []<>(free = capacity)
=============================================================================
