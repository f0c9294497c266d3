------------------------------ MODULE MCSteering ------------------------------
(***************************************************************************)
(* Instances of Steering.  focus picks the actors that step:               *)
(*   modes      reloads and overrides against answers, one address verified;*)
(*   prefixes   the updater, its cache file and answers, with crashes;     *)
(*   feeds      the updater against seeds and samples;                     *)
(*   switch     the updater while the subsystem is switched off and on;    *)
(*   evidence   the prober, the engine and a change of path;               *)
(*   served     the prober, the engine and answers.                        *)
(* A process that crashes has tried to refresh its prefixes before.        *)
(* x is what the authority answers, y and z are proposed.                  *)
(***************************************************************************)
EXTENDS Steering, TLC

CONSTANTS h, x, y, z, p, q, p3

VARIABLE focus
allVars == <<steeringVars, focus>>

MCAddrs == {x, y, z}
MCPrefixOf == (x :> p) @@ (y :> q) @@ (z :> q)
MCOriginal == h :> {x}
MCAugment == [max_added |-> 1, min_validations |-> 2, min_samples |-> 1, min_advantage |-> 0]
MCBuiltin == [v4 |-> {p, q, p3}, v6 |-> {}]
MCBodies == {[success |-> TRUE, v4 |-> s, v6 |-> {}] : s \in {{p}, {p, q}, {q, p3}}}
                \cup {[success |-> FALSE, v4 |-> {p, q, p3}, v6 |-> {}]}
MCMin == [v4 |-> 1, v6 |-> 0]
Augmenting == [enabled |-> TRUE, mode |-> "VerifiedAugment"]
Preserving == [enabled |-> TRUE, mode |-> "Preserve"]
Disabled == [enabled |-> FALSE, mode |-> "VerifiedAugment"]
MCSteerConfigs == {Augmenting, Preserving, Disabled}
MCProbeConfigs == {[enabled |-> TRUE, concurrency |-> 1]}
MCOffers == {[kind |-> "Baseline", host |-> h, addr |-> x, cloudflare |-> FALSE]}

\* y was found and measured before the behaviour begins, and validated n times.
Warm(n) ==
    /\ quality = [k \in Keys |-> IF k \in {https(h, x), https(h, y)} THEN 1 ELSE 0]
    /\ pool = <<[Candidate(y, "Seed") EXCEPT !.stage = "HttpOk", !.successes = 2, !.probed = TRUE]>>
    /\ validations = IF n = 0 THEN <<>>
                     ELSE <<[host |-> h, addr |-> y, fresh |-> TRUE, successes |-> n]>>
    /\ baseline = h :> TRUE
    /\ streak = [<<hh, a>> \in Hosts \X Addrs |-> IF a = y THEN n ELSE 0]

MCInit ==
    \/ focus \in {"modes", "prefixes", "feeds"} /\ SteeringStart /\ Warm(2) /\ conf = Augmenting
    \/ focus \in {"evidence", "served"} /\ SteeringStart /\ Warm(0) /\ conf = Augmenting
    \/ focus = "switch" /\ SteeringInit /\ conf = Disabled

Toggle == \E c \in {Augmenting, Disabled} : PublishConfig(c)

MCNext ==
    /\ UNCHANGED focus
    /\ \/ focus = "modes" /\ (ModeStep \/ AnswerStep \/ ValidationAges)
       \/ focus = "prefixes" /\ (UpdaterStep \/ AnswerStep \/ (updater.then = "static" /\ Crash))
       \/ focus = "feeds" /\ (UpdaterStep \/ FeedStep) /\ UNCHANGED prober
             /\ disk'.tmp \in {NoSnapshot, Torn}
       \/ focus = "switch" /\ (Toggle \/ StoreMode \/ ReviewOverride \/ UpdaterStep)
       \/ focus \in {"evidence", "served"}
             /\ (focus = "served" => generation' = 1)
             /\ ((focus = "served" /\ AnswerStep) \/ Probing \/ ProberRound \/ \E j \in prober.todo : ProberOffers(j))
             /\ ~cancelled' /\ \A j \in prober'.todo \cup Range(jobs') : j.kind = "Validate"

MCSpec == MCInit /\ [][MCNext]_allVars /\ WF_allVars(UpdaterStep /\ UNCHANGED focus)
=============================================================================
