---------------------------- MODULE RequestGate ----------------------------
(***************************************************************************)
(* dns/resolver.rs handle_inner from the first check of a request to the   *)
(* point where it goes to the cache and the upstreams, and the sizing of   *)
(* the reply: one request at a time, while the operator's data changes     *)
(* under it.  The handler takes no lock and loads the shared snapshot      *)
(* three times - for local data, for the special-use registry's exemption, *)
(* for the upstream group - and each load may find another snapshot.  What *)
(* the cache and the upstreams do with the key is in Resolver.             *)
(***************************************************************************)
EXTENDS LocalData, Integers

CONSTANTS Labels,           \* the labels of names
          Requests,         \* what clients send
          Confs,            \* the local and datasets sections that get loaded
          Files, Contents,  \* the files they name, and what may be in each
          Policies,         \* the server's switches a resolver is built with
          NXDOMAIN_SUFFIXES,
          EndsInMarker,     \* labels whose text ends in the marker's last one
          Sizes,            \* wire sizes of an answer
          MinimalSize,      \* wire size of a header, a question and an OPT
          CacheRoom,        \* entries the cache holds
          NoEdns, NoAnswer

\* Names are lists of labels; "invalid" is in the registry; a rule's group is a group; and
\* validate_udp bounds the payloads.  A header, a question and an OPT fit 512 octets.
ASSUME GateAssumption ==
    /\ {"localhost", "invalid", "egressdns", "loop-probe"} \subseteq Labels
    /\ \A q \in Requests : q.name \in Seq(Labels) /\ (q.edns = NoEdns \/ q.edns \in Nat)
    /\ \A s \in NXDOMAIN_SUFFIXES : s \in Seq(Labels)
    /\ <<"invalid">> \in NXDOMAIN_SUFFIXES
    /\ \A c \in Confs :
          /\ c.zones \in Seq(Range(c.zones)) /\ c.suffix_rules \in Seq(Range(c.suffix_rules))
          /\ \A i \in DOMAIN c.zones : c.zones[i].apex \in Seq(Labels)
          /\ \A i \in DOMAIN c.suffix_rules :
                c.suffix_rules[i].suffix \in Seq(Labels) /\ c.suffix_rules[i].group # NoGroup
    /\ \A p \in Policies :
          /\ p.max_payload \in Nat /\ p.max_payload >= 512
          /\ p.non_edns_max_payload = 512
    /\ Sizes \subseteq Nat /\ MinimalSize \in 0..512
    /\ NoAnswer \notin [by : {"hosts", "zones", "registry"}, rcode : {"NoError", "NXDomain"},
                        answers : BOOLEAN]

VARIABLES policy, conf, disk, datasets, gate, cached
gateVars == <<policy, conf, disk, datasets, gate, cached>>

Idle_gate == [at |-> "idle"]

GateInit ==
    /\ policy \in Policies
    /\ conf \in Confs
    /\ disk \in [Files -> UNION {Contents[f] : f \in Files}] /\ \A f \in Files : disk[f] \in Contents[f]
    /\ datasets = IF build(conf, disk) = Failed THEN Empty ELSE build(conf, disk)
    /\ gate = Idle_gate
    /\ cached = <<>>

-----------------------------------------------------------------------------
(* The operator's side.  Lifecycle has the reload itself, and when a       *)
(* rebuild runs.                                                           *)

EditFile(f) ==
    /\ \E c \in Contents[f] \ {disk[f]} : disk' = [disk EXCEPT ![f] = c]
    /\ UNCHANGED <<policy, conf, datasets, gate, cached>>

LoadConf ==
    /\ conf' \in Confs \ {conf}
    /\ UNCHANGED <<policy, disk, datasets, gate, cached>>

\* run_datasets: a build that fails, or that changes nothing, leaves the
\* snapshot in place.
Rebuild ==
    /\ LET built == build(conf, disk)
       IN  /\ built # Failed
           /\ content_digest(built) # content_digest(datasets)
           /\ datasets' = built
    /\ UNCHANGED <<policy, conf, disk, gate, cached>>

-----------------------------------------------------------------------------
(* dns/specialuse.rs.  The marker's suffix is matched as text: a label     *)
(* that merely ends like the marker's last one is taken for it.            *)

LOOP_MARKER_SUFFIX == <<"invalid", "egressdns", "loop-probe">>

is_loop_marker(n) ==
    /\ Len(n) >= 3
    /\ SubSeq(n, 1, 2) = SubSeq(LOOP_MARKER_SUFFIX, 1, 2)
    /\ n[3] \in EndsInMarker

\* Mutant: the registry's own names only, not the names under them.
classifyExact(n) ==
    IF Under(n, <<"localhost">>) THEN "Loopback"
    ELSE IF is_loop_marker(n) THEN "LoopMarker"
    ELSE IF n \in NXDOMAIN_SUFFIXES THEN "NxDomain" ELSE "None"

classify(n) ==
    IF Under(n, <<"localhost">>) THEN "Loopback"
    ELSE IF is_loop_marker(n) THEN "LoopMarker"
    ELSE IF \E s \in NXDOMAIN_SUFFIXES : Under(n, s) THEN "NxDomain" ELSE "None"

\* The types the two synthesised answers have records of.
Synthesised(disposition) ==
    IF disposition = "Loopback" THEN {"A", "AAAA"}
    ELSE IF disposition = "LoopMarker" THEN {"A"} ELSE {}

-----------------------------------------------------------------------------
(* One request.                                                            *)

supported_class(q) == q.class \in {"IN", "CH"}

\* The checks a request has to pass, in their order.
Verdict(q) ==
    CASE q.opcode # "Query" -> "NotImp"
      [] q.opcode = "Query" /\ q.questions # 1 -> "FormErr"
      [] q.opcode = "Query" /\ q.questions = 1 /\ q.edns # NoEdns /\ q.version > 0 -> "BADVERS"
      [] OTHER -> IF ~supported_class(q) THEN "Refused"
                  ELSE IF q.type = "ANY" /\ policy.any_policy = "Refuse" THEN "Refused"
                  ELSE IF q.type = "ANY" /\ policy.any_policy = "Minimal" THEN "Minimal"
                  ELSE "Accepted"

Outcome(by, rcode, answers) == [by |-> by, rcode |-> rcode, answers |-> answers]
Done(q, seen, outcome) == [at |-> "done", q |-> q, seen |-> seen, outcome |-> outcome]

\* Bytes that do not parse, and messages that are not queries, get no answer.
Receive(q) ==
    /\ gate.at = "idle"
    /\ q.parses /\ q.is_query
    /\ gate' = LET verdict == Verdict(q)
               IN  IF verdict = "Accepted" THEN [at |-> "local", q |-> q, seen |-> {}]
                   ELSE IF verdict = "Minimal" THEN Done(q, {}, Outcome("any", "NoError", TRUE))
                   ELSE Done(q, {}, Outcome("rejected", verdict, FALSE))
    /\ UNCHANGED <<policy, conf, disk, datasets, cached>>

Discard(q) ==
    /\ gate.at = "idle"
    /\ ~(q.parses /\ q.is_query)
    /\ UNCHANGED gateVars

Seen == gate.seen \cup {datasets}

\* Hosts answer for addresses only; an entry of the other family is an empty
\* answer.  Zones answer the rest.
local_answer(q) ==
    LET address == q.type \in {"A", "AAAA"}
        found == lookup(datasets.zones, q.name, q.type)
    IN  IF address /\ Mapped(datasets.hosts, q.name)
        THEN Outcome("hosts", "NoError", get_family(datasets.hosts, q.name, q.type) # {})
        ELSE IF found = "NotInZone" THEN NoAnswer
        ELSE Outcome("zones", IF found = "NxDomain" THEN "NXDomain" ELSE "NoError",
                     found = "Records")

LocalAnswer ==
    /\ gate.at = "local"
    /\ gate' = LET answer == local_answer(gate.q)
               IN  IF answer # NoAnswer THEN Done(gate.q, Seen, answer)
                   ELSE [gate EXCEPT !.at = "special", !.seen = Seen]
    /\ UNCHANGED <<policy, conf, disk, datasets, cached>>

special_use_answer(q) ==
    LET disposition == classify(q.name)
    IN  IF policy.special_use # "Local" \/ disposition = "None" \/ group_for(datasets, q.name) # NoGroup
        THEN NoAnswer
        ELSE Outcome("registry", IF disposition = "NxDomain" THEN "NXDomain" ELSE "NoError",
                     q.type \in Synthesised(disposition))

SpecialUse ==
    /\ gate.at = "special"
    /\ gate' = LET answer == special_use_answer(gate.q)
                   seen == IF policy.special_use = "Local" THEN Seen ELSE gate.seen
               IN  IF answer # NoAnswer THEN Done(gate.q, seen, answer)
                   ELSE [gate EXCEPT !.at = "group", !.seen = seen]
    /\ UNCHANGED <<policy, conf, disk, datasets, cached>>

GroupOf(q) ==
    LET rule == group_for(datasets, q.name)
    IN  IF rule = NoGroup THEN policy.default_group ELSE rule

\* The client subnet the upstreams are sent: the IPv4 prefix, where there is one.
EcsSent(mode, ipv4) == IF mode = "FixedEgress" THEN ipv4 ELSE "none"

\* What the upstreams are asked for: signatures are wanted when the daemon
\* validates or the client asked for them.
Asked(q, group) ==
    [group |-> group, dnssec_ok |-> policy.validating \/ q.dnssec_ok, cd |-> q.cd,
     ecs |-> EcsSent(policy.ecs.mode, policy.ecs.ipv4)]

\* Both prefixes, an absent one as nothing, when subnets are sent at all.
ecs_identity ==
    IF policy.ecs.mode = "FixedEgress" THEN policy.ecs
    ELSE [mode |-> "Disabled", ipv4 |-> "none", ipv6 |-> "none"]

\* Mutant: a key without the upstream group.
CacheKeyNoGroup(q, group) ==
    [name |-> q.name, type |-> q.type, class |-> q.class, view |-> policy.default_group,
     ecs |-> ecs_identity, dnssec_ok |-> Asked(q, group).dnssec_ok, cd |-> q.cd]

CacheKey(q, group) ==
    [name |-> q.name, type |-> q.type, class |-> q.class, view |-> group,
     ecs |-> ecs_identity, dnssec_ok |-> Asked(q, group).dnssec_ok, cd |-> q.cd]

\* The cache answers, or the group is asked: an answer, or a failure that is
\* remembered, goes under the key.  The cache keeps CacheRoom entries of
\* those it could have.
ChooseGroup ==
    /\ gate.at = "group"
    /\ LET q == gate.q
           group == GroupOf(q)
           key == CacheKey(q, group)
           Answered(entry) ==
               [at |-> "done", q |-> q, seen |-> Seen, entry |-> entry, group |-> group,
                outcome |-> IF entry.failed THEN Outcome("upstream", "ServFail", FALSE)
                            ELSE Outcome("upstream", "NoError", TRUE)]
       IN  \/ /\ key \in DOMAIN cached
              /\ gate' = Answered(cached[key])
              /\ UNCHANGED cached
           \/ /\ key \notin DOMAIN cached
              /\ \E failed \in BOOLEAN :
                     LET entry == [asked |-> Asked(q, group), failed |-> failed]
                     IN  /\ gate' = Answered(entry)
                         /\ \E kept \in SUBSET DOMAIN cached :
                               /\ Cardinality(kept) < CacheRoom
                               /\ cached' = [k \in kept \cup {key} |->
                                                IF k = key THEN entry ELSE cached[k]]
    /\ UNCHANGED <<policy, conf, disk, datasets>>

-----------------------------------------------------------------------------
(* The reply's size.                                                       *)

MAX_ENCODED == 65535

Clamp(v, low, high) == IF v < low THEN low ELSE IF v > high THEN high ELSE v

\* Mutant: a client's offer is taken as it is.
max_response_sizeOffered(q) ==
    IF q.transport = "Tcp" THEN policy.max_message_bytes
    ELSE IF q.edns = NoEdns THEN policy.non_edns_max_payload ELSE q.edns

max_response_size(q) ==
    IF q.transport = "Tcp" THEN policy.max_message_bytes
    ELSE IF q.edns = NoEdns THEN policy.non_edns_max_payload
    ELSE Clamp(q.edns, 512, policy.max_payload)

\* What does not fit is sent again without its records, marked as truncated; a message that
\* came marked is sent with the records that fit.
serialize_limited(size, answers, marked, max_size) ==
    LET limit == Clamp(max_size, 512, MAX_ENCODED)
    IN  IF size <= limit THEN [size |-> size, answers |-> answers, tc |-> marked]
        ELSE IF marked THEN [size |-> limit, answers |-> answers, tc |-> TRUE]
        ELSE [size |-> MinimalSize, answers |-> FALSE, tc |-> TRUE]

\* A message that cannot be encoded becomes a bare SERVFAIL.
Respond ==
    /\ gate.at = "done"
    /\ \E size \in IF gate.outcome.answers THEN Sizes ELSE {MinimalSize}, encodes \in BOOLEAN,
          marked \in IF gate.outcome.by = "upstream" THEN BOOLEAN ELSE {FALSE} :
          gate' = [at |-> "replied", q |-> gate.q, wanted |-> gate.outcome.answers /\ encodes,
                   wire |-> IF encodes
                            THEN serialize_limited(size, gate.outcome.answers, marked,
                                                   max_response_size(gate.q))
                            ELSE serialize_limited(MinimalSize, FALSE, FALSE,
                                                   max_response_size(gate.q))]
    /\ UNCHANGED <<policy, conf, disk, datasets, cached>>

Forget ==
    /\ gate.at = "replied"
    /\ gate' = Idle_gate
    /\ UNCHANGED <<policy, conf, disk, datasets, cached>>

GateNext ==
    \/ \E f \in Files : EditFile(f)
    \/ LoadConf
    \/ Rebuild
    \/ \E q \in Requests : Receive(q) \/ Discard(q)
    \/ LocalAnswer \/ SpecialUse \/ ChooseGroup
    \/ Respond \/ Forget

GateSpec == GateInit /\ [][GateNext]_gateVars

-----------------------------------------------------------------------------
(* Properties.                                                             *)

SpecialUseName(n) == Under(n, <<"localhost">>) \/ \E s \in NXDOMAIN_SUFFIXES : Under(n, s)
Covering(d, n) == {i \in DOMAIN d.zones : Under(n, d.zones[i].apex)}
Deciding(d, n) ==
    {i \in Covering(d, n) : \A j \in Covering(d, n) \ {i} :
        Under(d.zones[i].apex, d.zones[j].apex) /\ (d.zones[i].apex = d.zones[j].apex => i < j)}
Holds(d, i, n) == \E r \in d.zones[i].records : r.name = n
HostsDecide(d, q) == q.type \in {"A", "AAAA"} /\ q.name \in DOMAIN d.hosts
ZonesDecide(d, q) ==
    \E i \in Deciding(d, q.name) : d.zones[i].authoritative \/ Holds(d, i, q.name)
RuleCovers(d, n) == \E i \in DOMAIN d.suffix_rules : Under(n, d.suffix_rules[i].suffix)

\* docs/CONFIGURATION.md, Precedence: of the mechanisms that could answer a
\* name, hosts come first, then the zone with the most specific apex, then
\* the registry unless a suffix rule covers the name, then the upstreams -
\* for every request that saw one snapshot of the operator's data.
AnsweredInOrder ==
    gate.at = "done" /\ gate.seen # {} =>
        \A d \in gate.seen :
            gate.seen = {d} =>
                gate.outcome.by =
                    IF HostsDecide(d, gate.q) THEN "hosts"
                    ELSE IF ZonesDecide(d, gate.q) THEN "zones"
                    ELSE IF /\ policy.special_use = "Local"
                            /\ SpecialUseName(gate.q.name)
                            /\ ~RuleCovers(d, gate.q.name)
                    THEN "registry" ELSE "upstream"

\* However the data changes while the request is in hand, a special-use name
\* leaves the host only if a snapshot the request saw has a rule for it.
LeavesOnlyByRule ==
    (gate.at = "done" /\ policy.special_use = "Local" /\ SpecialUseName(gate.q.name)
        /\ gate.outcome.by = "upstream")
    => \E d \in gate.seen : RuleCovers(d, gate.q.name)

\* The mechanism that answers is the one the documented precedence names, for a request
\* that saw one snapshot; one that saw several lets no special-use name out without a rule.
AnsweredByRule == AnsweredInOrder /\ LeavesOnlyByRule

\* An answer or a failure out of the cache is one the chosen group gave, to a
\* question with the same DNSSEC flags and client subnet, whatever group the
\* rules chose when it was stored.
CachedForThisView ==
    (gate.at = "done" /\ gate.outcome.by = "upstream")
    => gate.entry.asked = Asked(gate.q, gate.group)

\* A UDP reply is no larger than what the client said it can take, or than
\* 512 octets if it said nothing or less, and never beyond the server's own
\* limit; and a reply without TC has the records it should have.
ReplyFits ==
    gate.at = "replied" =>
        /\ gate.q.transport = "Udp" /\ gate.q.edns # NoEdns
              => gate.wire.size <= Clamp(gate.q.edns, 512, MAX_ENCODED) /\ gate.wire.size <= policy.max_payload
        /\ gate.q.transport = "Udp" /\ gate.q.edns = NoEdns
              => gate.wire.size <= policy.non_edns_max_payload
        /\ ~gate.wire.tc => gate.wire.answers = gate.wanted

\* docs/ARCHITECTURE.md:213: "Dataset file unreadable or oversized | Previous valid snapshot
\* retained"; and datasets/mod.rs:202: "A failure to load any single file is reported but
\* never fatal: the caller keeps the previous valid snapshot."  So the names a hosts file
\* gave are still served when it can no longer be read.
UnreadableKeepsSnapshot ==
    [][(\E i \in DOMAIN conf.hosts_files : disk[conf.hosts_files[i]] = Unreadable)
        => DOMAIN datasets.hosts \subseteq DOMAIN datasets'.hosts]_gateVars

\* docs/CONFIGURATION.md, Precedence: a special-use name that no local data
\* answers goes to the group of the rule that covers it, or nowhere.
GoesWhereTheRuleSays ==
    (gate.at = "done" /\ policy.special_use = "Local" /\ SpecialUseName(gate.q.name)
        /\ gate.outcome.by = "upstream")
    => \E d \in gate.seen : gate.group = group_for(d, gate.q.name)

\* dns/specialuse.rs: "Matching is on whole labels, never on string
\* suffixes" - the marker's address is given to names under the marker only.
MarkerOnWholeLabels ==
    (gate.at = "done" /\ gate.outcome.by = "registry" /\ gate.outcome.answers
        /\ ~Under(gate.q.name, <<"localhost">>))
    => Under(gate.q.name, LOOP_MARKER_SUFFIX)
=============================================================================
