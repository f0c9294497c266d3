--------------------------- MODULE MCCoordination ---------------------------
(***************************************************************************)
(* Three things that concurrent requests share and no lock is held around: *)
(* the registry of flights, the breaker of a route, and the cache entry    *)
(* that background validations rewrite.  `focus` says which of the three   *)
(* takes the steps of a behaviour.  Flights: three tasks and two keys that *)
(* share one shard with room for one flight.  Breaker: three concurrent    *)
(* attempts; two failures open, two successes close.  Validations: one     *)
(* more than there are slots, an address and two denials, and enough       *)
(* fetches to overtake a verdict.                                          *)
(***************************************************************************)
EXTENDS SingleFlight, CircuitBreaker, BackgroundValidation, TLC

CONSTANTS t1, t2, t3, k1, k2, value, a1, a2, a3, v1, v2, genuine, nodata, nxdomain

VARIABLE focus

MCTasks == {t1, t2, t3}
MCKeys == {k1, k2}
MCValues == {value}
MCShards == {1}
MCShardIndex == [k \in MCKeys |-> 1]
MCAttempts == {a1, a2, a3}
MCValidations == {v1, v2}
MCAnswers == {genuine, nodata, nxdomain}
MCDenials == {nodata, nxdomain}

\* One initial state of a component that is not looked at stands for all, and what a
\* validation is about is not looked at before it has judged.
MCInit ==
    /\ focus \in {"flights", "breaker", "validations"}
    /\ Init /\ (focus # "flights" => \A t \in Tasks : key[t] = k1)
    /\ BreakerInit
    /\ BackgroundInit /\ \A v \in Validations : about[v] = genuine
MCNext ==
    /\ UNCHANGED focus
    /\ \/ focus = "flights" /\ Next /\ UNCHANGED <<breakerVars, backgroundVars>>
       \/ focus = "breaker" /\ BreakerNext /\ UNCHANGED <<vars, backgroundVars>>
       \/ focus = "validations" /\ BackgroundNext /\ UNCHANGED <<vars, breakerVars>>
       \/ /\ focus = "validations" /\ fetches = MaxAnswers      \* the bound is reached
          /\ UNCHANGED <<vars, breakerVars, backgroundVars>>

\* A component that rests has no fair step enabled but the breaker's arrivals.
MCSpec ==
    /\ MCInit /\ [][MCNext]_<<vars, breakerVars, backgroundVars, focus>>
    /\ Fairness /\ BackgroundFairness
    /\ AttemptFairness /\ WF_breakerVars(focus = "breaker" /\ Arrive)
=============================================================================
