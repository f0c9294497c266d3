----------------------------- MODULE MCIngress -----------------------------
(***************************************************************************)
(* The way of a query through the server, in four parts that share no      *)
(* state and are explored side by side: `focus` says which one takes the   *)
(* steps of a behaviour.  The sockets serve two clients that are allowed   *)
(* and one that a narrower network denies; the limiter's table holds one   *)
(* of its four clients; the gate takes requests over names that hosts,     *)
(* zones, the registry and the suffix rules contend for; the shaping has   *)
(* a cached answer of up to four records.                                  *)
(***************************************************************************)
EXTENDS Ingress, RateLimiter, RequestGate, AnswerShaping, FiniteSetsExt, TLC

CONSTANTS c1, c2, c3, c4, k1, k2, hf, cf, x, y, z, w, o, cn

VARIABLES focus, script

-----------------------------------------------------------------------------
(* Ingress and RateLimiter                                                 *)

MCClients == {c1, c2, c3}
MCConns == {k1, k2}
MCAddresses == {c1, c2, c3, c4}
MCNormalise == (c1 :> c1) @@ (c2 :> c2) @@ (c3 :> c3)
MCAllow == {{c1, c2}, {c3}}
MCDeny == {{c2}}

HeldBy(k) == conn[k].resolving + conn[k].sending

\* Every permit of `inflight` is free or held by one query: a refusal, a malformed message,
\* a failed send and a dead writer all give theirs back, and give it back once.
InflightConserved ==
    inflight + MapThenSumSet(HeldBy, Conns)
             + MapThenSumSet(LAMBDA c : udp[c].spawned + udp[c].resolving, Clients)
        = max_inflight

-----------------------------------------------------------------------------
(* RequestGate                                                             *)

Corp == <<"arpa", "home">>
Printer == <<"arpa", "home", "printer">>
Lab == <<"arpa", "home", "lab">>
LabBox == <<"arpa", "home", "lab", "box">>
Site == <<"com", "site">>
Marker == <<"invalid", "egressdns", "loop-probe">>
NearMarker == <<"invalid", "egressdns", "my-loop-probe">>
MCLabels == {"arpa", "home", "printer", "lab", "box", "com", "site", "local", "localhost", "invalid",
             "egressdns", "loop-probe", "my-loop-probe"}
MCSuffixes == {<<"invalid">>, <<"local">>, Corp}

V4 == [family |-> "A", id |-> 1]
V6 == [family |-> "AAAA", id |-> 2]
R(owner, type) == [owner |-> owner, absolute |-> FALSE, type |-> type]
Zone(apex, authoritative, records) ==
    [apex |-> apex, authoritative |-> authoritative, records |-> records]
LocalConf(hosts, zones, rules) ==
    [hosts |-> hosts, zones |-> zones, suffix_rules |-> rules,
     hosts_files |-> <<hf>>, category_files |-> <<cf>>, max_records |-> 2]
Rule(suffix, group) == [suffix |-> suffix, group |-> group]

NothingLocal == LocalConf(<<>>, <<>>, <<>>)
Routed == LocalConf(<<>>, <<>>, <<Rule(Corp, "inside"), Rule(Lab, "lab"), Rule(Site, "inside")>>)
Served ==
    LocalConf(<<[name |-> Printer, addresses |-> {V4}]>>,
              <<Zone(Corp, TRUE, {R(<<>>, "MX"), R(<<"printer">>, "A"), R(<<"lab", "box">>, "A")}),
                Zone(Lab, FALSE, {R(<<>>, "CNAME")})>>, <<>>)
Unsound == LocalConf(<<>>, <<Zone(Corp, TRUE, {R(<<>>, "LOC")})>>, <<>>)
MCConfs == {NothingLocal, Routed, Served, Unsound}

Line(addr, names) == [addr |-> addr, names |-> names]
MCContents ==
    (hf :> {Unreadable, <<Line(V6, <<Printer, Site>>), Line(BadAddress, <<Corp>>),
                          Line(V4, <<LabBox>>)>>})
    @@ (cf :> {<<[category |-> "cdn", domain |-> Site], [category |-> "ads", domain |-> Corp],
                 [category |-> "cdn", domain |-> Lab]>>})

Request(name, type) ==
    [parses |-> TRUE, is_query |-> TRUE, opcode |-> "Query", questions |-> 1, edns |-> 1232,
     version |-> 0, class |-> "IN", name |-> name, type |-> type, dnssec_ok |-> FALSE,
     cd |-> FALSE, transport |-> "Udp"]
AtSite == Request(Site, "A")
AtCorp == Request(Corp, "A")
Malformed ==
    {[AtCorp EXCEPT !.parses = FALSE], [AtCorp EXCEPT !.is_query = FALSE],
     [AtCorp EXCEPT !.opcode = "Update"], [AtCorp EXCEPT !.questions = 2],
     [AtCorp EXCEPT !.version = 1], [AtCorp EXCEPT !.class = "HS"], Request(Corp, "ANY")}
Sized ==
    {[AtSite EXCEPT !.edns = NoEdns], [AtSite EXCEPT !.edns = 100], [AtSite EXCEPT !.edns = 9000],
     [AtSite EXCEPT !.transport = "Tcp"]}
Flagged == {AtSite, [AtSite EXCEPT !.dnssec_ok = TRUE], [AtSite EXCEPT !.cd = TRUE]}

Policy(special_use, any_policy, validating) ==
    [special_use |-> special_use, any_policy |-> any_policy, validating |-> validating,
     default_group |-> "public", max_message_bytes |-> 65535, non_edns_max_payload |-> 512,
     max_payload |-> 1232, ecs |-> [mode |-> "Disabled", ipv4 |-> "none", ipv6 |-> "none"]]
Usual == Policy("Local", "Minimal", FALSE)
Strict == [Policy("Local", "Refuse", TRUE) EXCEPT
              !.ecs = [mode |-> "FixedEgress", ipv4 |-> "net4", ipv6 |-> "net6"]]
MCPolicies == {Usual, Strict, Policy("Forward", "Forward", FALSE)}

\* What the clients of one behaviour ask, and what their operator loads.
Script(asked, confs, policies) == [asked |-> asked, confs |-> confs, policies |-> policies]
Scripts ==
    {Script({AtCorp, Request(LabBox, "A")}, {Routed, Served}, {Usual}),
     Script({Request(LabBox, "MX"), Request(LabBox, "A")}, {NothingLocal, Served}, {Usual}),
     Script({Request(Printer, "A"), Request(Printer, "MX")},
            {NothingLocal, Served, Unsound}, {Usual}),
     Script(Flagged, {NothingLocal, Routed}, {Usual, Strict}),
     Script(Sized \cup Malformed, {NothingLocal}, MCPolicies),
     Script({Request(n, "A") : n \in {Marker, NearMarker, <<"localhost">>}},
            {NothingLocal}, MCPolicies)}
MCRequests == UNION {s.asked : s \in Scripts}
MCFiles == {hf, cf}
MCSizes == {400, 1000, 5000}

-----------------------------------------------------------------------------
(* AnswerShaping                                                           *)

Rec(owner, type, addr, ttl) == [owner |-> owner, type |-> type, addr |-> addr, ttl |-> ttl]
A(addr, ttl) == Rec(o, "A", addr, ttl)
Alias == Rec(cn, "CNAME", o, 9)
Messages ==
    {<<A(x, 9), A(y, 5)>>, <<A(x, 9)>>, <<Alias, A(x, 9), A(y, 9), A(z, 9)>>,
     <<A(x, 9), Alias, A(y, 5), A(x, 7)>>, <<Rec(cn, "A", y, 9), A(x, 9), A(y, 9)>>,
     <<Rec(o, "HTTPS-ech", o, 9), A(x, 9), A(y, 9)>>, <<Alias>>}
Signed == {<<A(x, 9), Rec(o, "RRSIG", o, 9), A(y, 9), A(z, 5)>>}

Stat(known, evidence, successes, cost) ==
    [known |-> known, evidence |-> evidence, successes |-> successes, cost |-> cost]
Never == Stat(FALSE, FALSE, 0, 0)
Fast == Stat(TRUE, TRUE, 2, 10)
Slow == Stat(TRUE, TRUE, 0, 90)
Lucky == Stat(TRUE, TRUE, 1, 10)
Qualities ==
    {(x :> q) @@ (y :> r) @@ (z :> IF r = Fast THEN Never ELSE Fast) @@ (w :> Fast) :
        q \in {Never, Slow, Fast}, r \in {Never, Fast, Lucky}}

Verified(addr, fresh, successes, samples, cost, type) ==
    [addr |-> addr, fresh |-> fresh, successes |-> successes, samples |-> samples,
     cost |-> cost, type |-> type]
VerifiedLists ==
    {<<>>, <<Verified(z, TRUE, 2, 3, 10, "A"), Verified(w, TRUE, 2, 3, 20, "A")>>,
     <<Verified(w, FALSE, 2, 3, 10, "A"), Verified(z, TRUE, 2, 3, 60, "A")>>,
     <<Verified(z, TRUE, 2, 0, 10, "A"), Verified(y, TRUE, 2, 3, 10, "A")>>}

Ttls == [serve_stale |-> 8, cloudflare_augment |-> 4, network_change |-> 3,
         cloudflare_preserve |-> 6, optimized_multi |-> 7, default |-> 20]

\* Verified addresses matter to an answer that may be augmented only.
QuestionsIn(mode, lists, msgs, do) ==
    [msg : msgs, elapsed : {2}, asked_ad : {TRUE}, client_do : do, web : BOOLEAN,
     ctx : [qtype : {"A"}, enabled : {TRUE}, mode : {mode},
            excluded : {FALSE}, snapshot : {{x, z}, {x, z, w}}, special_use : {{w}},
            dnssec : {"Secure", "Insecure"}, baseline_validated : {TRUE},
            verified : lists, quality : Qualities,
            ranking : {[enabled |-> TRUE, neutral_cost |-> 50, hysteresis |-> 20,
                        min_successes_to_lead |-> 2]},
            explore : {FALSE}, augment : {[max_added |-> 1, min_validations |-> 2,
                                           min_samples |-> 1, min_advantage |-> 10]},
            ttl : {Ttls}, remaining_authoritative : {5}, remaining_signature : {NoSig, 2},
            is_stale : {FALSE}, recent_network_change : BOOLEAN]]
FreshQuestions ==
    QuestionsIn("Preserve", {<<>>}, Messages, {FALSE})
    \cup QuestionsIn("Preserve", {<<>>}, Signed, BOOLEAN)
    \cup QuestionsIn("VerifiedAugment", VerifiedLists, Messages, {FALSE})
StaleQuestions ==
    {[q EXCEPT !.elapsed = 12, !.ctx.is_stale = TRUE, !.ctx.remaining_authoritative = 0] :
        q \in QuestionsIn("Preserve", {<<>>}, Messages, {FALSE})}
MCQuestions == FreshQuestions \cup StaleQuestions

-----------------------------------------------------------------------------
GateAtRest ==
    /\ policy = CHOOSE p \in Policies : TRUE
    /\ conf = NothingLocal /\ disk = [f \in Files |-> CHOOSE x1 \in Contents[f] : TRUE]
    /\ datasets = Empty /\ gate = Idle_gate /\ cached = <<>>
MCInit ==
    /\ focus \in {"sockets", "limiter", "gate", "shaping"}
    /\ IngressInit /\ LimiterInit
    /\ script \in IF focus = "gate" THEN Scripts ELSE {CHOOSE s \in Scripts : TRUE}
    /\ IF focus = "gate" THEN GateInit /\ conf \in script.confs /\ policy \in script.policies ELSE GateAtRest
    /\ IF focus = "shaping" THEN ShapingInit ELSE question = NoReply /\ reply = NoReply
MCNext ==
    /\ UNCHANGED <<focus, script>>
    /\ \/ focus = "sockets" /\ IngressNext /\ UNCHANGED <<limiter, gateVars, shapingVars>>
       \/ focus = "limiter" /\ LimiterNext /\ UNCHANGED <<ingressVars, gateVars, shapingVars>>
       \/ /\ focus = "gate" /\ GateNext /\ UNCHANGED <<ingressVars, limiter, shapingVars>>
          /\ conf' \in script.confs /\ (gate'.at # "idle" => gate'.q \in script.asked)
       \/ focus = "shaping" /\ ShapingNext /\ UNCHANGED <<ingressVars, limiter, gateVars>>

allVars == <<ingressVars, limiter, gateVars, shapingVars, focus, script>>
MCSpec == MCInit /\ [][MCNext]_allVars /\ IngressFairness
=============================================================================
