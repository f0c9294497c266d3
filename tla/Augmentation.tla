---------------------------- MODULE Augmentation ----------------------------
(***************************************************************************)
(* Whether an answer may be augmented, and with which verified addresses   *)
(* (policy/cloudflare.rs evaluate, policy/answer.rs to_add).  A candidate  *)
(* is a record [addr, type, fresh, successes, samples, cost].              *)
(***************************************************************************)
EXTENDS FiniteSets, Lists

AddressTypes == {"A", "AAAA"}
Smaller(m, n) == IF m <= n THEN m ELSE n
Larger(m, n) == IF m >= n THEN m ELSE n

\* Deny is looked at first; an empty allow list restricts nothing.  allow and
\* deny are the names their patterns match.
is_excluded(name, allow, deny) ==
    \/ name \in deny
    \/ allow # {} /\ name \notin allow

\* evaluate: the first condition that fails decides, and from verified-augment
\* every one of them falls back to preserve.
evaluate(i) ==
    IF ~i.enabled \/ i.mode = "Off" THEN <<"Off", "Disabled">>
    ELSE IF i.qtype \notin AddressTypes THEN <<"Off", "RecordType">>
    ELSE IF i.excluded THEN <<"Off", "DomainExcluded">>
    ELSE IF i.original \cap i.snapshot = {} THEN <<"Off", "NotCloudflare">>
    ELSE IF i.mode = "Preserve" THEN <<"Preserve", "ModeIsPreserve">>
    ELSE IF ~i.single_rrset THEN <<"Preserve", "ComplexAnswer">>
    ELSE IF i.dnssec = "Secure" THEN <<"Preserve", "DnssecSecure">>
    ELSE IF i.dnssec # "Insecure" THEN <<"Preserve", "DnssecUnknown">>
    ELSE IF i.publishes_ech /\ ~i.can_validate_ech THEN <<"Preserve", "EchUnvalidatable">>
    ELSE IF ~i.baseline_validated THEN <<"Preserve", "NoBaseline">>
    ELSE IF ~i.has_verified_candidate THEN <<"Preserve", "NoVerifiedCandidate">>
    ELSE <<"Augment", "None">>

\* Mutant: a candidate is taken on the word of its validations.
ToAddUnchecked(existing, ctx) ==
    LET S == SelectSeq(ctx.verified, LAMBDA v : v.fresh /\ v.addr \notin existing)
        n == Smaller(Len(S), ctx.augment.max_added)
    IN  [i \in 1..n |-> S[i].addr]

\* to_add: fresh, validated and measured often enough, of the family asked
\* for, inside the snapshot now, not special use, not there already, and
\* enough cheaper than the best original address that has a cost.
ToAdd(existing, ctx) ==
    LET costs == {ctx.quality[a].cost : a \in {b \in existing : ctx.quality[b].known}}
        cheap(v) == costs # {} =>
            LET best == CHOOSE c \in costs : \A d \in costs : c <= d
            IN  100 * (best - v.cost) >= ctx.augment.min_advantage * Larger(best, 1)
        fit == {i \in DOMAIN ctx.verified : LET v == ctx.verified[i] IN
                    /\ v.fresh /\ v.successes >= ctx.augment.min_validations
                    /\ v.samples >= ctx.augment.min_samples
                    /\ v.type = ctx.qtype
                    /\ v.addr \in ctx.snapshot
                    /\ v.addr \notin ctx.special_use
                    /\ v.addr \notin existing
                    /\ cheap(v)}
        good == Keeping(ctx.verified,
                    {i \in fit : \A j \in fit : j < i => ctx.verified[j].addr # ctx.verified[i].addr})
    IN  [i \in 1..Smaller(Len(good), ctx.augment.max_added) |-> good[i].addr]
=============================================================================
