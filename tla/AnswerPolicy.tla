---------------------------- MODULE AnswerPolicy ----------------------------
(***************************************************************************)
(* What a cached answer becomes on its way to a client (policy/answer.rs,  *)
(* policy/cloudflare.rs, policy/ttl.rs, policy/dnssec.rs may_set_ad,       *)
(* ranking/mod.rs order_addresses): the order of its addresses, the        *)
(* verified addresses put in front of them, its TTLs and its AD bit.       *)
(*                                                                         *)
(* An answer is a sequence of records [owner, type, addr, ttl]; a record   *)
(* of another type stands for the rest of the message as well.  The        *)
(* quality of an address is a record [evidence, successes, cost]; costs    *)
(* are whole milliseconds, and the relative advantages the code computes   *)
(* in floating point are compared as products of percentages.              *)
(***************************************************************************)
EXTENDS Augmentation

CONSTANTS NoSig     \* the answer is not signed

-----------------------------------------------------------------------------
(* Ordering.                                                               *)

CostOf(a, quality, cfg) == IF quality[a].evidence THEN quality[a].cost ELSE cfg.neutral_cost

\* The places of the addresses by cost; equal costs keep the upstream order.
Sorted(original, quality, cfg) ==
    LET cost(i) == CostOf(original[i], quality, cfg)
        before(i) == {j \in DOMAIN original : cost(j) < cost(i) \/ (cost(j) = cost(i) /\ j < i)}
    IN  [k \in DOMAIN original |-> CHOOSE i \in DOMAIN original : Cardinality(before(i)) = k - 1]

\* Mutant: the challenger's own successes are not asked for.
order_addressesUnproven(original, quality, cfg, explore) ==
    IF ~cfg.enabled \/ Len(original) < 2 THEN original
    ELSE [i \in DOMAIN original |-> original[Sorted(original, quality, cfg)[i]]]

order_addresses(original, quality, cfg, explore) ==
    LET sorted == Sorted(original, quality, cfg)
        incumbent == CostOf(original[1], quality, cfg)
        leader == original[sorted[1]]
        gain == incumbent - CostOf(leader, quality, cfg)
        proven == /\ 100 * gain >= cfg.hysteresis * Larger(incumbent, 1)
                  /\ quality[leader].successes >= cfg.min_successes_to_lead
    IN  IF \/ ~cfg.enabled
           \/ Len(original) < 2
           \/ \A i \in DOMAIN original : ~quality[original[i]].evidence
           \/ explore
           \/ (sorted[1] # 1 /\ ~proven)
        THEN original
        ELSE [i \in DOMAIN original |-> original[sorted[i]]]

-----------------------------------------------------------------------------
(* The record sets of an answer, and their rearrangement in place.         *)

Places(s) == [i \in DOMAIN s |-> i]

\* rrset_groups: for each owner, in order of appearance, the places of its
\* records of the type.
rrset_groups(msg, rtype) ==
    LET of == {i \in DOMAIN msg : msg[i].type = rtype}
        firsts == Keeping(Places(msg), {i \in of : \A j \in of : j < i => msg[j].owner # msg[i].owner})
    IN  [g \in DOMAIN firsts |->
            Keeping(Places(msg), {i \in of : msg[i].owner = msg[firsts[g]].owner})]

addresses_of(msg, places) == [k \in DOMAIN places |-> msg[places[k]].addr]

\* reorder_in_place: the n-th record with an address is placed where that
\* address is wanted for the n-th time, the records nobody wants come last,
\* and what was placed goes back to the places of the set.
reorder_in_place(msg, places, desired) ==
    LET nth(seq, k) == Cardinality({j \in 1..k : seq[j] = seq[k]})
        original == addresses_of(msg, places)
        sources(k) == {m \in DOMAIN places :
                          original[m] = desired[k] /\ nth(original, m) = nth(desired, k)}
        wanted == Keeping(Places(desired), {k \in DOMAIN desired : sources(k) # {}})
        left == Keeping(Places(places), {m \in DOMAIN places :
                                            \A k \in Range(wanted) : m \notin sources(k)})
        placed == [n \in DOMAIN wanted |-> CHOOSE m \in sources(wanted[n]) : TRUE] \o left
        put(i) == {k \in DOMAIN placed \cap DOMAIN places : places[k] = i}
    IN  [i \in DOMAIN msg |->
            IF put(i) = {} THEN msg[i] ELSE msg[places[placed[CHOOSE k \in put(i) : TRUE]]]]

\* The ordering step of apply_answer_policy: every record set by itself.
OrderGroup(msg, places, ctx) ==
    reorder_in_place(msg, places, order_addresses(addresses_of(msg, places), ctx.quality,
                                                  ctx.ranking, ctx.explore))
OrderGroups(msg, groups, ctx) ==
    LET ordered[i \in 0..Len(groups)] ==
            IF i = 0 THEN msg ELSE OrderGroup(ordered[i - 1], groups[i], ctx)
    IN  ordered[Len(groups)]

\* prepend_addresses, before the first member and with the TTL of the set.
prepend_addresses(msg, places, added, qtype) ==
    LET first == places[1]
        ttls == {msg[places[k]].ttl : k \in DOMAIN places}
        ttl == CHOOSE t \in ttls : \A u \in ttls : t <= u
        new == [i \in DOMAIN added |->
                   [owner |-> msg[first].owner, type |-> qtype, addr |-> added[i], ttl |-> ttl]]
    IN  SubSeq(msg, 1, first - 1) \o new \o SubSeq(msg, first, Len(msg))

-----------------------------------------------------------------------------
(* TTLs and the AD bit.                                                    *)

\* Mutant: the policy cap replaces what is left of the authoritative TTL.
effective_client_ttlRaises(cfg, i) ==
    IF i.is_stale THEN cfg.serve_stale
    ELSE IF i.recent_network_change THEN cfg.network_change ELSE cfg.default

effective_client_ttl(cfg, i) ==
    LET chosen == IF i.is_stale THEN cfg.serve_stale
                  ELSE IF i.augmented THEN cfg.cloudflare_augment
                  ELSE IF i.recent_network_change THEN cfg.network_change
                  ELSE IF i.preserved THEN cfg.cloudflare_preserve
                  ELSE IF i.optimized THEN cfg.optimized_multi ELSE cfg.default
        cap == IF i.recent_network_change THEN Smaller(chosen, cfg.network_change) ELSE chosen
        ttl == Smaller(i.remaining_authoritative, cap)
    IN  IF i.remaining_signature = NoSig THEN ttl ELSE Smaller(ttl, i.remaining_signature)

cap_ttls(msg, cap) ==
    [i \in DOMAIN msg |-> [owner |-> msg[i].owner, type |-> msg[i].type, addr |-> msg[i].addr,
                           ttl |-> Smaller(msg[i].ttl, cap)]]

may_set_ad(status, asked, modified) == asked /\ status = "Secure" /\ ~modified

finish_ttl(msg, ctx, augmented, preserved, optimized) ==
    cap_ttls(msg, effective_client_ttl(ctx.ttl,
        [remaining_authoritative |-> ctx.remaining_authoritative,
         remaining_signature |-> ctx.remaining_signature, is_stale |-> ctx.is_stale,
         recent_network_change |-> ctx.recent_network_change,
         augmented |-> augmented, preserved |-> preserved, optimized |-> optimized]))

apply_answer_policy(msg, ctx) ==
    LET groups == IF ctx.qtype \in AddressTypes THEN rrset_groups(msg, ctx.qtype) ELSE <<>>
        final == groups[Len(groups)]
        decided == evaluate(
            [enabled |-> ctx.enabled, mode |-> ctx.mode, qtype |-> ctx.qtype,
             excluded |-> ctx.excluded, snapshot |-> ctx.snapshot, dnssec |-> ctx.dnssec,
             original |-> Range(addresses_of(msg, final)), single_rrset |-> Len(groups) = 1,
             publishes_ech |-> \E i \in DOMAIN msg : msg[i].type = "HTTPS-ech",
             can_validate_ech |-> FALSE, baseline_validated |-> ctx.baseline_validated,
             has_verified_candidate |-> \E i \in DOMAIN ctx.verified :
                 /\ ctx.verified[i].fresh
                 /\ ctx.verified[i].successes >= ctx.augment.min_validations])[1]
        ordered == OrderGroups(msg, groups, ctx)
        added == IF decided = "Augment" THEN ToAdd(Range(addresses_of(msg, final)), ctx) ELSE <<>>
        touched == decided # "Off" /\ (ordered # msg \/ added # <<>>)
        shaped == IF added = <<>> THEN ordered
                  ELSE prepend_addresses(ordered, final, added, ctx.qtype)
    IN  IF groups = <<>> THEN [msg |-> finish_ttl(msg, ctx, FALSE, FALSE, FALSE), added |-> <<>>]
        ELSE [msg |-> finish_ttl(shaped, ctx, added # <<>>, touched /\ added = <<>>,
                                 ordered # msg /\ ~touched),
              added |-> added]
=============================================================================
