----------------------------- MODULE MCResolver -----------------------------
(***************************************************************************)
(* Three instances of Resolver, told apart by `focus`.  Shared: two        *)
(* clients, a stale refresh and a prefetch on one key, with three          *)
(* arrivals.  Judged: one client and background verdicts instead.          *)
(* Crowded: a client and a stale refresh on two keys, with a fourth        *)
(* arrival, so that both keys go stale and are asked for again while the   *)
(* shard has room for one flight and the stale-refresh table for one key.  *)
(***************************************************************************)
EXTENDS Resolver, TLC

CONSTANTS c1, c2, s1, p1, k1, k2

VARIABLE focus

MCClients == {c1, c2}
MCSpawned == {s1}
MCPrefetchers == {p1}
MCKeys == {k1, k2}
MCShards == {1}
MCShardIndex == [k \in Keys |-> 1]

OneKey == Next /\ arrivals' <= 3 /\ \A t \in Tasks : want'[t] # k2
Shared == OneKey /\ \A k \in Keys : verdict'[k] = {}
Judged == OneKey /\ pc'[c2] = "idle" /\ pc'[p1] = "idle"
Crowded ==
    \/ \E t \in Tasks : Step(t)
    \/ \E k \in Keys : Query(c1, k)
    \/ ClientStep(c1)
    \/ \E k \in Keys : AnswerAges(k)

MCInit == Init /\ focus \in {"shared", "judged", "crowded"}
MCNext ==
    /\ UNCHANGED focus
    /\ \/ focus = "shared" /\ Shared
       \/ focus = "judged" /\ Judged
       \/ focus = "crowded" /\ Crowded
MCSpec == MCInit /\ [][MCNext]_<<vars, focus>> /\ Fairness
=============================================================================
