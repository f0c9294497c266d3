----------------------------- MODULE MCScheduler -----------------------------
(***************************************************************************)
(* Two instances of Scheduler, told apart by `focus`.  Shared: two         *)
(* resolutions compete for two permits over two datagram routes and a      *)
(* companion.  One: a single resolution ranks four routes, three of them   *)
(* to one authority, one a stream route that can also be retried on.       *)
(***************************************************************************)
EXTENDS Scheduler, TLC

CONSTANTS r1, r2, u1, u2, u3, s1, c1

VARIABLE focus

MCResolutions == {r1, r2}
MCRoutes == {u1, u2, u3, s1, c1}
MCStream == {s1, c1}
MCCompanions == {c1}
MCAuthority == (u1 :> "a") @@ (u2 :> "a") @@ (u3 :> "b") @@ (s1 :> "a") @@ (c1 :> "a")

SharedOrders == Orders({u1, u2}) \ {<<>>}

\* The steps of Next that the focus is on.  Shared has no routes but u1, u2
\* and c1, and time and cancellation come to the first resolution only.  u1 and
\* u2 differ in nothing, so the second resolution may rank u1 first.  In One
\* the second resolution is never started.  A retry may always choose no
\* route, so no poll is disabled by the choice of routes.
MCStart ==
    IF focus = "shared"
    THEN \E r \in Resolutions, order \in SharedOrders, hedge \in BOOLEAN :
           (r = r2 => Head(order) = u1) /\ Start(r, order, hedge)
    ELSE \E order \in RankOrders, hedge \in BOOLEAN : Start(r1, order, hedge)
MCPoll(r) == Poll(r) /\ (focus = "shared" => s1 \notin Range(retry_routes'[r]))

MCInit == Init /\ focus \in {"shared", "one"}
MCNext ==
    /\ MCStart \/ (\E r \in Resolutions : MCPoll(r)) \/ Drop(r1) \/ Expire(r1) \/ EndGrace
    /\ UNCHANGED focus
MCSpec == MCInit /\ [][MCNext]_<<vars, focus>> /\ Fairness
=============================================================================
