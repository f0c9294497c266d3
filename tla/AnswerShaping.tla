---------------------------- MODULE AnswerShaping ----------------------------
(***************************************************************************)
(* dns/resolver.rs build_response, over every cached answer and every      *)
(* state of the answer's surroundings in Questions: the entry is aged, its *)
(* addresses are ordered and augmented, its TTLs capped, its signatures    *)
(* left out where they were not asked for, and the AD bit set where it may *)
(* be.                                                                     *)
(***************************************************************************)
EXTENDS AnswerPolicy

CONSTANTS Questions, NoReply

\* TTLs, the time an entry has been cached and the configured caps are u32 seconds.  A stale
\* answer is built with nothing remaining (`serve_stale`).
ASSUME ShapingAssumption ==
    \A q \in Questions :
        /\ q.msg \in Seq(Range(q.msg))
        /\ \A i \in DOMAIN q.msg : q.msg[i].ttl \in Nat
        /\ q.elapsed \in Nat
        /\ {"ttl", "remaining_authoritative", "remaining_signature", "augment", "verified"}
              \subseteq DOMAIN q.ctx
        /\ q.ctx.verified \in Seq(Range(q.ctx.verified))
        /\ q.ctx.augment.max_added \in Nat
        /\ q.ctx.remaining_authoritative \in Nat
        /\ q.ctx.is_stale => q.ctx.remaining_authoritative = 0
        /\ q.ctx.remaining_signature = NoSig \/ q.ctx.remaining_signature \in Nat
        /\ q.ctx.ttl.serve_stale \in Nat /\ q.ctx.ttl.cloudflare_augment \in Nat
        /\ q.ctx.ttl.network_change \in Nat /\ q.ctx.ttl.cloudflare_preserve \in Nat
        /\ q.ctx.ttl.optimized_multi \in Nat /\ q.ctx.ttl.default \in Nat

VARIABLES question, reply
shapingVars == <<question, reply>>

ShapingInit == question \in Questions /\ reply = NoReply

age_ttls(msg, elapsed) ==
    [i \in DOMAIN msg |-> [owner |-> msg[i].owner, type |-> msg[i].type, addr |-> msg[i].addr,
                           ttl |-> Larger(0, msg[i].ttl - elapsed)]]

\* The quality of the addresses counts only for a name known to be a web
\* service; validations only where the answer may be augmented.
ContextOf(q) ==
    [q.ctx EXCEPT
        !.quality = [a \in DOMAIN @ |-> IF q.web THEN @[a]
                     ELSE [known |-> FALSE, evidence |-> FALSE, successes |-> 0, cost |-> 0]],
        !.verified = IF q.ctx.enabled /\ q.ctx.mode = "VerifiedAugment" THEN @ ELSE <<>>]

\* What a client that did not set DO is not given, unless it asked for that very type.
DnssecTypes == {"RRSIG", "NSEC", "NSEC3", "DNSKEY", "DS"}
maybe_strip_dnssec_records(msg, qtype) ==
    Keeping(msg, {i \in DOMAIN msg : msg[i].type = qtype \/ msg[i].type \notin DnssecTypes})

BuildResponse ==
    /\ reply = NoReply
    /\ LET r == apply_answer_policy(age_ttls(question.msg, question.elapsed), ContextOf(question))
       IN  reply' = [msg |-> IF question.client_do THEN r.msg
                             ELSE maybe_strip_dnssec_records(r.msg, question.ctx.qtype),
                     added |-> r.added,
                     ad |-> may_set_ad(question.ctx.dnssec,
                                       question.client_do \/ question.asked_ad, r.added # <<>>)]
    /\ UNCHANGED question

ShapingNext == BuildResponse
ShapingSpec == ShapingInit /\ [][ShapingNext]_shapingVars

-----------------------------------------------------------------------------
(* The contract at the head of policy/answer.rs.                           *)

NoTtl(r) == [owner |-> r.owner, type |-> r.type, addr |-> r.addr]
IsAdded(i) ==
    /\ reply.msg[i].type = question.ctx.qtype
    /\ \E k \in DOMAIN reply.added : reply.added[k] = reply.msg[i].addr
Kept == SelectSeq([i \in DOMAIN reply.msg |-> i], LAMBDA i : ~IsAdded(i))
Occurrences(P(_), S) == Cardinality({i \in S : P(i)})

\* The records of the cached answer that this client is to be given: all but the signatures
\* and proofs it did not ask for.
Due ==
    SelectSeq(question.msg, LAMBDA r : \/ question.client_do
                                       \/ r.type = question.ctx.qtype
                                       \/ r.type \notin DnssecTypes)

\* Nothing is lost and nothing doubled: leaving out the added addresses, the
\* reply has each record that is due as often as it was there.
MembershipKept ==
    reply # NoReply =>
        /\ Len(Kept) = Len(Due)
        /\ \A r \in {NoTtl(Due[i]) : i \in DOMAIN Due} :
              Occurrences(LAMBDA i : NoTtl(Due[i]) = r, DOMAIN Due)
                  = Occurrences(LAMBDA k : NoTtl(reply.msg[Kept[k]]) = r, DOMAIN Kept)

\* A record of another type keeps its place among the records that were there.  One of the
\* type asked for may move, whoever owns it, but only among the places of its own set.
OthersKeepTheirPlace ==
    reply # NoReply =>
        \A i \in DOMAIN Due :
            LET now == reply.msg[Kept[i]]
            IN  /\ now.owner = Due[i].owner /\ now.type = Due[i].type
                /\ Due[i].type # question.ctx.qtype => now.addr = Due[i].addr

\* What is added is at most max_added addresses, each once, none that the
\* answer had, all of them Cloudflare's now, and only in front of the set.
AddedIsVerified ==
    reply # NoReply =>
        /\ Len(reply.added) <= question.ctx.augment.max_added
        /\ \A k \in DOMAIN reply.added :
              /\ reply.added[k] \in question.ctx.snapshot \ question.ctx.special_use
              /\ \A i \in DOMAIN question.msg : question.msg[i].addr # reply.added[k]
              /\ \A j \in DOMAIN reply.added : reply.added[j] = reply.added[k] => j = k
              /\ \E v \in Range(question.ctx.verified) :
                    v.addr = reply.added[k] /\ v.fresh /\ v.type = question.ctx.qtype

\* A TTL never outlives the authority's or the signature's, and data that was
\* added never goes out as authenticated.
NothingOutlivesItsSource ==
    reply # NoReply =>
        /\ \A i \in DOMAIN reply.msg :
              /\ reply.msg[i].ttl <= question.ctx.remaining_authoritative
              /\ question.ctx.remaining_signature # NoSig
                    => reply.msg[i].ttl <= question.ctx.remaining_signature
        /\ reply.ad => /\ question.ctx.dnssec = "Secure"
                       /\ reply.added = <<>>

\* An address leads the reply that did not lead the answer only if it is a
\* web service's, cheaper, and has succeeded often enough; equal evidence
\* leaves the upstream order.
LeaderIsProven ==
    reply # NoReply /\ reply.added = <<>> =>
        \A g \in Range(rrset_groups(Due, question.ctx.qtype)) :
            LET was == Due[g[1]].addr
                now == reply.msg[g[1]].addr
                q == question.ctx.quality
            IN  now # was =>
                    /\ question.web /\ question.ctx.ranking.enabled
                    /\ q[now].successes >= question.ctx.ranking.min_successes_to_lead
                    /\ CostOf(now, q, question.ctx.ranking) < CostOf(was, q, question.ctx.ranking)

\* build_response changes an answer only as it may: no record that is due is lost, doubled
\* or moved out of its set, what is added was verified and what leads has proved itself.
OnlyEarnedChanges ==
    MembershipKept /\ OthersKeepTheirPlace /\ AddedIsVerified /\ LeaderIsProven

\* docs/RFC_COMPLIANCE.md, RFC 8767: "the stale TTL handed to the client is a small fixed
\* value (default 30 s)", which is the cap for stale answers.
StaleTtlIsFixed ==
    reply # NoReply /\ question.ctx.is_stale =>
        \A i \in DOMAIN reply.msg : reply.msg[i].ttl = question.ctx.ttl.serve_stale
=============================================================================
