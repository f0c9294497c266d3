---------------------------- MODULE RateLimiter ----------------------------
(***************************************************************************)
(* The inbound limiter of src/dns/ratelimit.rs: a global budget, and one   *)
(* budget per client kept in two generations of a map, `current` and       *)
(* `previous`.  A full `current` becomes `previous` and a new one starts.  *)
(*                                                                         *)
(* A client's limiter is one shared object whichever maps hold it, so a    *)
(* budget is kept per client and matters while a map holds the client.     *)
(* Time only refills budgets; how fast is left open.                       *)
(***************************************************************************)
EXTENDS Naturals, FiniteSets

CONSTANTS
    Addresses,      \* client addresses
    enabled,        \* rate_limit.enabled
    client_burst,   \* per-client burst, 0 when per_client_qps is 0
    global_burst,   \* global burst, 0 when global_qps is 0
    capacity        \* client_table_size.max(1)

ASSUME LimiterAssumption ==
    /\ IsFiniteSet(Addresses)
    /\ enabled \in BOOLEAN
    /\ client_burst \in Nat
    /\ global_burst \in Nat
    /\ capacity \in Nat \ {0}

VARIABLES
    current,    \* clients in the current generation
    previous,   \* clients in the one before
    budget,     \* budget[c]: what the limiter of c still allows
    global,     \* what the global limiter still allows
    seenSince   \* ghost: seenSince[c]: the other clients checked since c was

limiter == <<current, previous, budget, global, seenSince>>

PerClient == enabled /\ client_burst > 0
Global == enabled /\ global_burst > 0

LimiterInit ==
    /\ current = {}
    /\ previous = {}
    /\ budget = [c \in Addresses |-> client_burst]
    /\ global = global_burst
    /\ seenSince = [c \in Addresses |-> Addresses]

-----------------------------------------------------------------------------
Tracked(c) == c \in current \union previous
Full == Cardinality(current) >= capacity

\* Mutant: a client found in the older generation is not carried into the newer one.
TableForNotCarried(c) ==
    IF Tracked(c)
    THEN /\ current' = current
         /\ previous' = previous
    ELSE /\ current' = (IF Full THEN {} ELSE current) \union {c}
         /\ previous' = IF Full THEN current ELSE previous

\* `limiter_for`: the maps once c's limiter has been found or made.
TableFor(c) ==
    IF Tracked(c)
    THEN /\ current' = current \union {c}
         /\ previous' = previous
    ELSE /\ current' = (IF Full THEN {} ELSE current) \union {c}
         /\ previous' = IF Full THEN current ELSE previous

\* What c's limiter allows when `limiter_for` returns it: a new one is full.
BudgetFound(c) == IF Tracked(c) THEN budget[c] ELSE client_burst

\* `check`: the client's own budget first, the global one only if that allowed it.
Decision(c) ==
    IF PerClient /\ BudgetFound(c) = 0 THEN "ClientLimited"
    ELSE IF Global /\ global = 0 THEN "GlobalLimited"
    ELSE "Allow"

Check(c) ==
    /\ IF PerClient
       THEN /\ TableFor(c)
            /\ budget' = [budget EXCEPT ![c] =
                            IF BudgetFound(c) = 0 THEN 0 ELSE BudgetFound(c) - 1]
       ELSE UNCHANGED <<current, previous, budget>>
    /\ global' = IF Global /\ Decision(c) = "Allow" THEN global - 1 ELSE global
    /\ seenSince' = [d \in Addresses |-> IF d = c THEN {} ELSE seenSince[d] \union {c}]

\* Time passes: a budget is whole again.
Refill(c) ==
    /\ Tracked(c)
    /\ budget[c] < client_burst
    /\ budget' = [budget EXCEPT ![c] = client_burst]
    /\ UNCHANGED <<current, previous, global, seenSince>>

RefillGlobal ==
    /\ global < global_burst
    /\ global' = global_burst
    /\ UNCHANGED <<current, previous, budget, seenSince>>

LimiterNext ==
    \/ \E c \in Addresses : Check(c) \/ Refill(c)
    \/ RefillGlobal

LimiterSpec == LimiterInit /\ [][LimiterNext]_limiter

-----------------------------------------------------------------------------
LimiterTypeOK ==
    /\ current \subseteq Addresses
    /\ previous \subseteq Addresses
    /\ budget \in [Addresses -> 0..client_burst]
    /\ global \in 0..global_burst
    /\ seenSince \in [Addresses -> SUBSET Addresses]

\* A full table rotates rather than turn a new client away, and what it forgets is a budget
\* spent: `limiter_for` does so only after more than `capacity` other clients have been
\* checked since that client was.
KeepsItsBudget ==
    PerClient =>
        \A c \in Addresses :
            \/ Tracked(c)
            \/ seenSince[c] = Addresses
            \/ Cardinality(seenSince[c]) > capacity

\* "When the table is full, new clients share the global budget only" (the head of
\* dns/ratelimit.rs): a full table gives nobody a limiter who has none.
FullTakesNobodyNew == [][Full => current' \subseteq current \union previous]_limiter

\* The comment in `limiter_for`: rotating the generations bounds the table to twice its
\* capacity, counting each map's entries.
TableBounded == Cardinality(current) + Cardinality(previous) <= 2 * capacity
=============================================================================
