-------------------------- MODULE AnsweringProofs --------------------------
(***************************************************************************)
(* Proofs about the answering of a request: what answers it before the     *)
(* network is asked, and what a cached answer becomes on its way out.      *)
(***************************************************************************)
EXTENDS RequestGate, AnswerShaping, SequenceFacts, TLAPS

-----------------------------------------------------------------------------
(***************************************************************************)
(* Proofs about RequestGate, for any operator's data, policies, requests   *)
(* and names over any set of labels.                                       *)
(*                                                                         *)
(* A request reads the data once per stage and the data may be replaced in *)
(* between, so the precedence is not inductive as it stands: RequestInv    *)
(* keeps what each stage has established for the snapshots seen so far,    *)
(* CacheInv what a cached answer was asked as.                             *)
(***************************************************************************)

-----------------------------------------------------------------------------
(* Names and suffixes.                                                     *)

Name == Seq(Labels)

\* A name is under a suffix when it begins, from the root, with the labels of the suffix.
LEMMA UnderLabels ==
    ASSUME NEW n \in Name, NEW a \in Name
    PROVE  Under(n, a) <=> Len(a) <= Len(n) /\ \A i \in 1..Len(a) : a[i] = n[i]
  BY DEF Under, Name

\* Of two suffixes that cover a name the longer one is under the shorter.
LEMMA CoveringNested ==
    ASSUME NEW n \in Name, NEW a \in Name, NEW b \in Name, Under(n, a), Under(n, b)
    PROVE  /\ Under(a, b) <=> Len(b) <= Len(a)
           /\ a = b <=> Len(a) = Len(b)
<1>1. /\ Len(a) <= Len(n) /\ \A i \in 1..Len(a) : a[i] = n[i]
      /\ Len(b) <= Len(n) /\ \A i \in 1..Len(b) : b[i] = n[i]
  BY UnderLabels
<1>2. Len(a) \in Nat /\ Len(b) \in Nat
  BY DEF Name
<1>3. Under(a, b) <=> Len(b) <= Len(a)
  BY <1>1, <1>2, UnderLabels
<1>4. Len(a) = Len(b) => a = b
  BY <1>1, <1>2 DEF Name
<1> QED
  BY <1>3, <1>4

\* The suffixes of a list.
Suffixes == Seq(Name)

\* Where a suffix of the list covers the name, one of them is the most specific.
LEMMA MostSpecificExists ==
    ASSUME NEW n \in Name, NEW list \in Suffixes
    PROVE  MostSpecific(list, n) = {} <=> \A i \in DOMAIN list : ~Under(n, list[i])
<1> DEFINE covering == {i \in DOMAIN list : Under(n, list[i])}
           longest == {i \in covering : \A j \in covering : Len(list[j]) <= Len(list[i])}
<1>1. MostSpecific(list, n) = {i \in longest : \A j \in longest : i <= j}
  BY DEF MostSpecific
<1>2. covering = {} => MostSpecific(list, n) = {}
  BY <1>1
<1>3. ASSUME covering # {} PROVE MostSpecific(list, n) # {}
  <2>1. \A i \in DOMAIN list : list[i] \in Name /\ Len(list[i]) \in Nat
    BY DEF Suffixes, Name
  <2>2. \A i \in covering : Len(list[i]) <= Len(n)
    BY <2>1, UnderLabels
  <2> DEFINE Short == {m \in Nat : \E i \in covering : m = Len(n) - Len(list[i])}
  <2>3. Len(n) \in Nat
    BY DEF Name
  <2>4. \A i \in covering : Len(n) - Len(list[i]) \in Short
    BY <2>1, <2>2, <2>3
  <2>5. PICK m \in Short : \A k \in Short : m <= k
    <3>1. Short # {} /\ Short \in SUBSET Nat
      BY <1>3, <2>4, Zenon
    <3> HIDE DEF Short
    <3> QED
      BY <3>1, LeastElement
  <2>6. PICK i \in covering : m = Len(n) - Len(list[i])
    OBVIOUS
  <2>7. i \in longest
    <3>1. ASSUME NEW j \in covering PROVE Len(list[j]) <= Len(list[i])
      <4>1. m <= Len(n) - Len(list[j])
        BY <2>4, <2>5, Zenon
      <4>2. Len(list[j]) \in Nat /\ Len(list[i]) \in Nat
        BY <2>1
      <4> QED
        BY <2>3, <2>6, <4>1, <4>2
    <3> QED
      BY <3>1
  <2>8. longest \in SUBSET Nat /\ longest # {}
    <3>1. DOMAIN list = 1..Len(list) /\ Len(list) \in Nat
      BY DEF Suffixes
    <3> QED
      BY <2>7, <3>1
  <2>9. \E k \in longest : \A j \in longest : k <= j
    <3> HIDE DEF longest
    <3> QED
      BY <2>8, LeastElement
  <2> QED
    BY <1>1, <2>9
<1> QED
  BY <1>2, <1>3

-----------------------------------------------------------------------------
(* A snapshot of the operator's data.                                      *)

DataTyped(d) ==
    /\ Apexes(d.zones) \in Suffixes
    /\ RuleSuffixes(d) \in Suffixes
    /\ \A i \in DOMAIN d.suffix_rules : d.suffix_rules[i].group # NoGroup

\* What is built from a configuration has names for its suffixes and groups for its rules.
LEMMA BuiltTyped ==
    ASSUME NEW c \in Confs, NEW files, build(c, files) # Failed
    PROVE  DataTyped(build(c, files))
<1> DEFINE d == build(c, files)
<1>1. /\ d.zones = [i \in DOMAIN c.zones |-> build_zone(c.zones[i])]
      /\ d.suffix_rules = c.suffix_rules
  BY DEF build
<1> HIDE DEF d
<1>2. /\ c.zones \in Seq(Range(c.zones)) /\ c.suffix_rules \in Seq(Range(c.suffix_rules))
      /\ \A i \in DOMAIN c.zones : c.zones[i].apex \in Name
      /\ \A i \in DOMAIN c.suffix_rules :
            c.suffix_rules[i].suffix \in Name /\ c.suffix_rules[i].group # NoGroup
  BY GateAssumption DEF Name
<1>3. Apexes(d.zones) = [i \in DOMAIN c.zones |-> c.zones[i].apex]
  BY <1>1 DEF Apexes, build_zone
<1>4. DOMAIN c.zones = 1..Len(c.zones) /\ Len(c.zones) \in Nat
  BY <1>2
<1>5. Apexes(d.zones) \in Suffixes
  BY <1>2, <1>3, <1>4 DEF Suffixes
<1>6. DOMAIN c.suffix_rules = 1..Len(c.suffix_rules) /\ Len(c.suffix_rules) \in Nat
  BY <1>2
<1>7. RuleSuffixes(d) \in Suffixes
  BY <1>1, <1>2, <1>6 DEF Suffixes, RuleSuffixes
<1> QED
  BY <1>1, <1>2, <1>5, <1>7 DEF DataTyped, d

\* No data is typed.
LEMMA EmptyTyped == DataTyped(Empty)
<1>1. Empty.zones = <<>> /\ Empty.suffix_rules = <<>>
  BY DEF Empty
<1>2. Apexes(<<>>) = <<>>
  BY DEF Apexes
<1>3. RuleSuffixes(Empty) = <<>>
  BY <1>1 DEF RuleSuffixes
<1>4. <<>> \in Suffixes /\ DOMAIN <<>> = {}
  BY DEF Suffixes
<1> QED
  BY <1>1, <1>2, <1>3, <1>4 DEF DataTyped

\* The zone that decides a name is the one `lookup` finds.
LEMMA DecidingIsMostSpecific ==
    ASSUME NEW d, DataTyped(d), NEW n \in Name
    PROVE  Deciding(d, n) = MostSpecific(Apexes(d.zones), n)
<1> DEFINE list == Apexes(d.zones)
           covering == {i \in DOMAIN list : Under(n, list[i])}
           longest == {i \in covering : \A j \in covering : Len(list[j]) <= Len(list[i])}
<1>1. /\ list \in Suffixes /\ DOMAIN list = DOMAIN d.zones
      /\ \A i \in DOMAIN list : list[i] = d.zones[i].apex
  BY DEF DataTyped, Apexes
<1>2. covering = Covering(d, n)
  BY <1>1 DEF Covering
<1>3. MostSpecific(list, n) = {i \in longest : \A j \in longest : i <= j}
  BY DEF MostSpecific
<1> HIDE DEF list
<1>4. /\ \A i \in DOMAIN list : list[i] \in Name /\ Len(list[i]) \in Nat
      /\ \A i \in DOMAIN list : i \in Nat
  BY <1>1 DEF Suffixes, Name
<1>5. \A i, j \in covering : /\ Under(list[i], list[j]) <=> Len(list[j]) <= Len(list[i])
                             /\ list[i] = list[j] <=> Len(list[i]) = Len(list[j])
  BY <1>4, CoveringNested
<1>6. Deciding(d, n) = {i \in covering : \A j \in covering \ {i} :
                            Under(list[i], list[j]) /\ (list[i] = list[j] => i < j)}
  BY <1>1, <1>2 DEF Deciding
<1>7. ASSUME NEW i \in covering,
             \A j \in covering \ {i} : Under(list[i], list[j]) /\ (list[i] = list[j] => i < j)
      PROVE  i \in longest /\ \A j \in longest : i <= j
  <2>1. i \in longest
    BY <1>4, <1>5, <1>7
  <2>2. ASSUME NEW j \in longest, j # i PROVE i <= j
    <3>1. Len(list[i]) <= Len(list[j]) /\ Len(list[j]) <= Len(list[i])
      BY <2>1
    <3>2. list[i] = list[j]
      BY <3>1, <1>4, <1>5
    <3>3. i < j /\ i \in Nat /\ j \in Nat
      BY <1>4, <1>7, <2>2, <3>2
    <3> QED
      BY <3>3
  <2> QED
    BY <1>4, <2>1, <2>2
<1>8. ASSUME NEW i \in longest, \A j \in longest : i <= j, NEW j \in covering \ {i}
      PROVE  Under(list[i], list[j]) /\ (list[i] = list[j] => i < j)
  <2>1. Under(list[i], list[j])
    BY <1>5
  <2>2. ASSUME list[i] = list[j] PROVE i < j
    <3>1. j \in longest
      BY <2>2
    <3>2. i <= j /\ i # j /\ i \in Nat /\ j \in Nat
      BY <1>4, <1>8, <3>1
    <3> QED
      BY <3>2
  <2> QED
    BY <2>1, <2>2
<1>9. Deciding(d, n) \subseteq MostSpecific(list, n)
  <2> HIDE DEF longest
  <2> QED
    BY <1>3, <1>6, <1>7
<1>10. MostSpecific(list, n) \subseteq Deciding(d, n)
  BY <1>3, <1>6, <1>8
<1> QED
  BY <1>9, <1>10 DEF list

\* `lookup` finds nothing where no zone decides.
LEMMA LookupDecides ==
    ASSUME NEW d, DataTyped(d), NEW q, q.name \in Name, NEW type
    PROVE  lookup(d.zones, q.name, type) = "NotInZone" <=> ~ZonesDecide(d, q)
<1> DEFINE n == q.name
           spec == MostSpecific(Apexes(d.zones), n)
           zone == {d.zones[i] : i \in spec}
           at == UNION {{r \in z.records : r.name = n} : z \in zone}
<1>1. Deciding(d, n) = spec
  BY DecidingIsMostSpecific
<1>2. lookup(d.zones, n, type) =
        IF zone = {} THEN "NotInZone"
        ELSE IF at = {} THEN IF \E z \in zone : z.authoritative THEN "NxDomain" ELSE "NotInZone"
        ELSE IF \E r \in at : r.type \in {type, "CNAME"} THEN "Records" ELSE "NoData"
  BY DEF lookup
<1> HIDE DEF spec
<1>3. zone = {} <=> spec = {}
  BY Zenon
<1>4. at # {} <=> \E i \in spec : \E r \in d.zones[i].records : r.name = n
  <2>1. ASSUME NEW i \in spec, NEW r \in d.zones[i].records, r.name = n PROVE r \in at
    BY <2>1
  <2>2. ASSUME NEW r \in at PROVE \E i \in spec : r \in d.zones[i].records /\ r.name = n
    BY <2>2
  <2> HIDE DEF at
  <2> QED
    BY <2>1, <2>2
<1>5. (\E z \in zone : z.authoritative) <=> \E i \in spec : d.zones[i].authoritative
  OBVIOUS
<1>6. ZonesDecide(d, q) <=>
        \E i \in spec : d.zones[i].authoritative \/ \E r \in d.zones[i].records : r.name = n
  BY <1>1 DEF ZonesDecide, Holds
<1> HIDE DEF zone, at, n
<1> QED
  BY <1>2, <1>3, <1>4, <1>5, <1>6 DEF n

\* A rule gives a group where one covers the name.
LEMMA RuleGivesGroup ==
    ASSUME NEW d, DataTyped(d), NEW n \in Name
    PROVE  group_for(d, n) = NoGroup <=> ~RuleCovers(d, n)
<1> DEFINE list == RuleSuffixes(d)
           rule == MostSpecific(list, n)
<1>1. /\ list \in Suffixes /\ DOMAIN list = DOMAIN d.suffix_rules
      /\ \A i \in DOMAIN list : list[i] = d.suffix_rules[i].suffix
  BY DEF DataTyped, RuleSuffixes
<1>2. rule = {} <=> ~RuleCovers(d, n)
  BY <1>1, MostSpecificExists DEF RuleCovers
<1>3. rule \subseteq DOMAIN d.suffix_rules
  BY <1>1 DEF MostSpecific
<1>4. rule # {} => (CHOOSE i \in rule : TRUE) \in rule
  <2> HIDE DEF rule
  <2> QED
    OBVIOUS
<1>5. group_for(d, n) = IF rule = {} THEN NoGroup ELSE d.suffix_rules[CHOOSE i \in rule : TRUE].group
  BY DEF group_for
<1> HIDE DEF rule
<1> QED
  BY <1>2, <1>3, <1>4, <1>5 DEF DataTyped

\* The registry has something for exactly the special-use names: the marker is under one.
LEMMA ClassifiedNames ==
    ASSUME NEW n \in Name
    PROVE  classify(n) = "None" <=> ~SpecialUseName(n)
<1>1. ASSUME is_loop_marker(n) PROVE Under(n, <<"invalid">>)
  <2>1. Len(n) >= 3 /\ SubSeq(n, 1, 2) = SubSeq(LOOP_MARKER_SUFFIX, 1, 2)
    BY <1>1 DEF is_loop_marker
  <2>2. SubSeq(n, 1, 2)[1] = n[1]
    BY <2>1 DEF Name
  <2>3. SubSeq(LOOP_MARKER_SUFFIX, 1, 2)[1] = "invalid"
    <3>1. /\ LOOP_MARKER_SUFFIX \in Name /\ Len(LOOP_MARKER_SUFFIX) = 3
          /\ LOOP_MARKER_SUFFIX[1] = "invalid"
      BY GateAssumption DEF LOOP_MARKER_SUFFIX, Name
    <3>2. SubSeq(LOOP_MARKER_SUFFIX, 1, 2)[1] = LOOP_MARKER_SUFFIX[1]
      BY <3>1 DEF Name
    <3> QED
      BY <3>1, <3>2
  <2>4. <<"invalid">> \in Name /\ Len(<<"invalid">>) = 1 /\ <<"invalid">>[1] = "invalid"
    BY GateAssumption DEF Name
  <2>5. Len(n) \in Nat
    BY DEF Name
  <2> QED
    BY <2>1, <2>2, <2>3, <2>4, <2>5, UnderLabels
<1>2. is_loop_marker(n) => \E s \in NXDOMAIN_SUFFIXES : Under(n, s)
  BY <1>1, GateAssumption
<1> QED
  BY <1>2 DEF classify, SpecialUseName

-----------------------------------------------------------------------------
(* The invariant.                                                          *)

WorldInv == policy \in Policies /\ conf \in Confs /\ DataTyped(datasets)

\* An entry of the cache is what its key's group gave to a question with its key's flags.
CacheInv ==
    \A k \in DOMAIN cached :
        cached[k].asked = [group |-> k.view, dnssec_ok |-> k.dnssec_ok, cd |-> k.cd,
                           ecs |-> EcsSent(k.ecs.mode, k.ecs.ipv4)]

\* Nothing local answers the request, by the only snapshot it has seen.
NothingLocalIn(seen, q) == \A d : seen = {d} => ~HostsDecide(d, q) /\ ~ZonesDecide(d, q)

\* The registry lets the request pass: by the only snapshot, or by one of several.
LetThrough(seen, q) ==
    policy.special_use = "Local" /\ SpecialUseName(q.name) => \E d \in seen : RuleCovers(d, q.name)

RequestInv ==
    /\ gate.at \in {"idle", "local", "special", "group", "done", "replied"}
    /\ gate.at # "idle" => gate.q \in Requests
    /\ gate.at \in {"local", "special", "group"} => gate = [at |-> gate.at, q |-> gate.q, seen |-> gate.seen]
    /\ gate.at = "local" => gate.seen = {}
    /\ gate.at = "special" => (\E d : gate.seen = {d}) /\ NothingLocalIn(gate.seen, gate.q)
    /\ gate.at = "group" =>
          gate.seen # {} /\ NothingLocalIn(gate.seen, gate.q) /\ LetThrough(gate.seen, gate.q)
    /\ gate.at = "done" => gate.outcome.answers \in BOOLEAN

GateInv == WorldInv /\ CacheInv /\ RequestInv /\ AnsweredByRule /\ CachedForThisView /\ ReplyFits

\* The data changes under the request: what was seen is what it was.
LEMMA OperatorSteps ==
    ASSUME GateInv, UNCHANGED <<policy, gate, cached>>, WorldInv'
    PROVE  GateInv'
<1>1. CacheInv' /\ RequestInv'
  BY Zenon DEF GateInv, CacheInv, RequestInv, LetThrough
<1>2. AnsweredByRule' /\ CachedForThisView' /\ ReplyFits'
  BY DEF GateInv, AnsweredByRule, AnsweredInOrder, LeavesOnlyByRule, CachedForThisView, Asked, ReplyFits
<1> QED
  BY <1>1, <1>2 DEF GateInv

\* The request moves to another check.
LEMMA MovesOn ==
    ASSUME GateInv, NEW q \in Requests, NEW at \in {"local", "special", "group"}, NEW seen,
           gate' = [at |-> at, q |-> q, seen |-> seen],
           UNCHANGED <<policy, conf, datasets, cached>>,
           at = "local" => seen = {},
           at = "special" => (\E d : seen = {d}) /\ NothingLocalIn(seen, q),
           at = "group" => seen # {} /\ NothingLocalIn(seen, q) /\ LetThrough(seen, q)
    PROVE  GateInv'
<1>1. gate'.at = at /\ gate'.q = q /\ gate'.seen = seen
  OBVIOUS
<1>2. WorldInv' /\ CacheInv'
  BY DEF GateInv, WorldInv, CacheInv
<1>3. RequestInv'
  BY <1>1 DEF RequestInv, LetThrough
<1>4. AnsweredByRule' /\ CachedForThisView' /\ ReplyFits'
  BY <1>1 DEF AnsweredByRule, AnsweredInOrder, LeavesOnlyByRule, CachedForThisView, ReplyFits
<1> QED
  BY <1>2, <1>3, <1>4 DEF GateInv

\* The request is answered here, by the mechanism that had to answer it.
LEMMA AnsweredHere ==
    ASSUME GateInv, NEW q \in Requests, NEW seen, NEW outcome, outcome.by # "upstream",
           outcome.answers \in BOOLEAN,
           gate' = Done(q, seen, outcome), UNCHANGED <<policy, conf, datasets, cached>>,
           \A d : seen = {d} =>
               outcome.by = IF HostsDecide(d, q) THEN "hosts"
                            ELSE IF ZonesDecide(d, q) THEN "zones"
                            ELSE IF /\ policy.special_use = "Local"
                                    /\ SpecialUseName(q.name)
                                    /\ ~RuleCovers(d, q.name)
                            THEN "registry" ELSE "upstream"
    PROVE  GateInv'
<1>1. gate'.at = "done" /\ gate'.q = q /\ gate'.seen = seen /\ gate'.outcome = outcome
  BY DEF Done
<1>2. WorldInv' /\ CacheInv'
  BY DEF GateInv, WorldInv, CacheInv
<1>3. RequestInv' /\ CachedForThisView' /\ ReplyFits'
  BY <1>1 DEF RequestInv, CachedForThisView, ReplyFits
<1>4. AnsweredInOrder'
  BY <1>1, Zenon DEF AnsweredInOrder
<1>5. LeavesOnlyByRule'
  BY <1>1 DEF LeavesOnlyByRule
<1> QED
  BY <1>2, <1>3, <1>4, <1>5 DEF GateInv, AnsweredByRule

\* The checks of the message itself.
LEMMA ReceiveStep ==
    ASSUME GateInv, NEW q \in Requests, Receive(q)
    PROVE  GateInv'
<1>1. UNCHANGED <<policy, conf, datasets, cached>>
  BY Zenon DEF Receive
<1>2. CASE Verdict(q) = "Accepted"
  <2>1. gate' = [at |-> "local", q |-> q, seen |-> {}]
    BY <1>2, Zenon DEF Receive
  <2> QED
    BY <1>1, <2>1, MovesOn
<1>3. CASE Verdict(q) # "Accepted"
  <2>1. \/ gate' = Done(q, {}, Outcome("any", "NoError", TRUE))
        \/ gate' = Done(q, {}, Outcome("rejected", Verdict(q), FALSE))
    BY <1>3, Zenon DEF Receive
  <2>2. /\ Outcome("any", "NoError", TRUE).by = "any"
        /\ Outcome("rejected", Verdict(q), FALSE).by = "rejected"
        /\ Outcome("any", "NoError", TRUE).answers \in BOOLEAN
        /\ Outcome("rejected", Verdict(q), FALSE).answers \in BOOLEAN
    BY DEF Outcome
  <2>3. \A d : {} # {d}
    OBVIOUS
  <2> QED
    BY <1>1, <2>1, <2>2, <2>3, AnsweredHere, Zenon
<1> QED
  BY <1>2, <1>3

Answerers == {"hosts", "zones", "registry"}
Rcodes == {"NoError", "NXDomain"}

\* An outcome is an answer, and says who gave it.
LEMMA OutcomesAnswer ==
    \A by \in Answerers, rcode \in Rcodes, yes \in BOOLEAN :
        /\ Outcome(by, rcode, yes) # NoAnswer
        /\ Outcome(by, rcode, yes).by = by /\ Outcome(by, rcode, yes).answers \in BOOLEAN
<1> TAKE by \in Answerers, rcode \in Rcodes, yes \in BOOLEAN
<1>1. Outcome(by, rcode, yes) \in [by : Answerers, rcode : Rcodes,
                                   answers : BOOLEAN]
  BY DEF Outcome, Answerers, Rcodes
<1>2. Outcome(by, rcode, yes).by = by /\ Outcome(by, rcode, yes).answers \in BOOLEAN
  BY DEF Outcome, Answerers, Rcodes
<1>3. NoAnswer \notin [by : Answerers, rcode : Rcodes,
                       answers : BOOLEAN]
  BY GateAssumption DEF Answerers, Rcodes
<1> QED
  BY <1>1, <1>2, <1>3, Zenon

\* Hosts and zones answer where they decide, and only there.
LEMMA LocalStep ==
    ASSUME GateInv, LocalAnswer
    PROVE  GateInv'
<1> DEFINE q == gate.q
           answer == local_answer(q)
           d == datasets
<1>1. /\ gate.at = "local" /\ gate.seen = {} /\ q \in Requests /\ q.name \in Name /\ DataTyped(d)
      /\ gate = [at |-> "local", q |-> q, seen |-> {}]
  BY GateAssumption DEF LocalAnswer, GateInv, RequestInv, WorldInv, Name
<1>2. Seen = {d}
  BY <1>1 DEF Seen
<1>3. UNCHANGED <<policy, conf, datasets, cached>>
  BY Zenon DEF LocalAnswer
<1>4. /\ HostsDecide(d, q) => \E yes \in BOOLEAN : answer = Outcome("hosts", "NoError", yes)
      /\ ~HostsDecide(d, q) /\ ZonesDecide(d, q) =>
            \E yes \in BOOLEAN, rcode \in Rcodes : answer = Outcome("zones", rcode, yes)
      /\ ~HostsDecide(d, q) /\ ~ZonesDecide(d, q) => answer = NoAnswer
  <2>1. lookup(d.zones, q.name, q.type) = "NotInZone" <=> ~ZonesDecide(d, q)
    BY <1>1, LookupDecides
  <2>2. HostsDecide(d, q) <=> q.type \in {"A", "AAAA"} /\ Mapped(d.hosts, q.name)
    BY DEF HostsDecide, Mapped
  <2>3. ASSUME HostsDecide(d, q) PROVE \E yes \in BOOLEAN : answer = Outcome("hosts", "NoError", yes)
    <3>1. answer = Outcome("hosts", "NoError", get_family(d.hosts, q.name, q.type) # {})
      BY <2>2, <2>3, Zenon DEF local_answer
    <3> QED
      BY <3>1, Zenon
  <2>4. ASSUME ~HostsDecide(d, q), ~ZonesDecide(d, q) PROVE answer = NoAnswer
    BY <2>1, <2>2, <2>4, Zenon DEF local_answer
  <2>5. ASSUME ~HostsDecide(d, q), ZonesDecide(d, q)
        PROVE  \E yes \in BOOLEAN, rcode \in Rcodes : answer = Outcome("zones", rcode, yes)
    <3>1. answer = Outcome("zones", IF lookup(d.zones, q.name, q.type) = "NxDomain" THEN "NXDomain" ELSE "NoError",
                           lookup(d.zones, q.name, q.type) = "Records")
      BY <2>1, <2>2, <2>5, Zenon DEF local_answer
    <3>2. (IF lookup(d.zones, q.name, q.type) = "NxDomain" THEN "NXDomain" ELSE "NoError") \in Rcodes
      BY DEF Rcodes
    <3>3. (lookup(d.zones, q.name, q.type) = "Records") \in BOOLEAN
      OBVIOUS
    <3> QED
      BY <3>1, <3>2, <3>3, Zenon
  <2> QED
    BY <2>3, <2>4, <2>5
<1>5. HostsDecide(d, q) => answer # NoAnswer /\ answer.by = "hosts" /\ answer.answers \in BOOLEAN
  <2>1. SUFFICES ASSUME HostsDecide(d, q)
                 PROVE  answer # NoAnswer /\ answer.by = "hosts" /\ answer.answers \in BOOLEAN
    OBVIOUS
  <2>2. PICK yes \in BOOLEAN, rcode \in Rcodes : answer = Outcome("hosts", rcode, yes)
    <3>1. "NoError" \in Rcodes
      BY DEF Rcodes
    <3> QED
      BY <1>4, <2>1, <3>1, Zenon
  <2> HIDE DEF answer
  <2>3. \A by \in Answerers :
            /\ Outcome(by, rcode, yes) # NoAnswer
            /\ Outcome(by, rcode, yes).by = by /\ Outcome(by, rcode, yes).answers \in BOOLEAN
    BY OutcomesAnswer, Zenon
  <2>4. "hosts" \in Answerers
    BY DEF Answerers
  <2> QED
    BY <2>2, <2>3, <2>4, Zenon
<1>6. ~HostsDecide(d, q) /\ ZonesDecide(d, q) =>
          answer # NoAnswer /\ answer.by = "zones" /\ answer.answers \in BOOLEAN
  <2>1. SUFFICES ASSUME ~HostsDecide(d, q), ZonesDecide(d, q)
                 PROVE  answer # NoAnswer /\ answer.by = "zones" /\ answer.answers \in BOOLEAN
    OBVIOUS
  <2>2. PICK yes \in BOOLEAN, rcode \in Rcodes : answer = Outcome("zones", rcode, yes)
    BY <1>4, <2>1, Zenon
  <2> HIDE DEF answer
  <2>3. \A by \in Answerers :
            /\ Outcome(by, rcode, yes) # NoAnswer
            /\ Outcome(by, rcode, yes).by = by /\ Outcome(by, rcode, yes).answers \in BOOLEAN
    BY OutcomesAnswer, Zenon
  <2>4. "zones" \in Answerers
    BY DEF Answerers
  <2> QED
    BY <2>2, <2>3, <2>4, Zenon
<1>7. CASE answer # NoAnswer
  <2>1. gate' = Done(q, {d}, answer)
    BY <1>2, <1>7, Zenon DEF LocalAnswer
  <2>2. answer.by # "upstream" /\ answer.answers \in BOOLEAN
    BY <1>4, <1>5, <1>6, <1>7
  <2> HIDE DEF answer, q, d
  <2>3. \A e : {d} = {e} => e = d
    OBVIOUS
  <2> QED
    BY <1>1, <1>3, <1>4, <1>5, <1>6, <1>7, <2>1, <2>2, <2>3, AnsweredHere
<1>8. CASE answer = NoAnswer
  <2>1. gate' = [gate EXCEPT !.at = "special", !.seen = {d}]
    BY <1>2, <1>8, Zenon DEF LocalAnswer
  <2> HIDE DEF answer, q, d
  <2>2. gate' = [at |-> "special", q |-> q, seen |-> {d}]
    BY <1>1, <2>1, Zenon
  <2>3. NothingLocalIn({d}, q)
    BY <1>4, <1>5, <1>6, <1>8 DEF NothingLocalIn
  <2> QED
    BY <1>1, <1>3, <2>2, <2>3, MovesOn
<1> QED
  BY <1>7, <1>8

\* The registry answers a special-use name that no rule of the snapshot covers.
LEMMA SpecialStep ==
    ASSUME GateInv, SpecialUse
    PROVE  GateInv'
<1> DEFINE q == gate.q
           answer == special_use_answer(q)
           after == IF policy.special_use = "Local" THEN Seen ELSE gate.seen
<1>1. /\ gate.at = "special" /\ q \in Requests /\ q.name \in Name /\ DataTyped(datasets)
      /\ gate = [at |-> "special", q |-> q, seen |-> gate.seen]
      /\ \E d : gate.seen = {d}
      /\ NothingLocalIn(gate.seen, q)
  BY GateAssumption, ZenonT(40) DEF SpecialUse, GateInv, RequestInv, WorldInv, Name
<1>2. PICK d : gate.seen = {d}
  BY <1>1
<1>3. UNCHANGED <<policy, conf, datasets, cached>>
  BY Zenon DEF SpecialUse
<1>4. Seen = {d, datasets}
  BY <1>2 DEF Seen
<1>5. after # {} /\ \A e : after = {e} => e = d
  BY <1>2, <1>4
<1>6. NothingLocalIn(after, q)
  BY <1>1, <1>2, <1>5 DEF NothingLocalIn
<1>7. /\ classify(q.name) = "None" <=> ~SpecialUseName(q.name)
      /\ group_for(datasets, q.name) = NoGroup <=> ~RuleCovers(datasets, q.name)
  BY <1>1, ClassifiedNames, RuleGivesGroup
<1>8. CASE policy.special_use = "Local" /\ SpecialUseName(q.name) /\ ~RuleCovers(datasets, q.name)
  <2>1. \E yes \in BOOLEAN, rcode \in Rcodes : answer = Outcome("registry", rcode, yes)
    <3>1. answer = Outcome("registry", IF classify(q.name) = "NxDomain" THEN "NXDomain" ELSE "NoError",
                           q.type \in Synthesised(classify(q.name)))
      BY <1>7, <1>8, Zenon DEF special_use_answer
    <3>2. (q.type \in Synthesised(classify(q.name))) \in BOOLEAN
      OBVIOUS
    <3>3. (IF classify(q.name) = "NxDomain" THEN "NXDomain" ELSE "NoError") \in Rcodes
      BY DEF Rcodes
    <3> QED
      BY <3>1, <3>2, <3>3, Zenon
  <2>2. answer # NoAnswer /\ answer.by = "registry" /\ answer.answers \in BOOLEAN
    <3>1. PICK yes \in BOOLEAN, rcode \in Rcodes : answer = Outcome("registry", rcode, yes)
      BY <2>1, Zenon
    <3> HIDE DEF answer
    <3>2. \A by \in Answerers :
              /\ Outcome(by, rcode, yes) # NoAnswer
              /\ Outcome(by, rcode, yes).by = by /\ Outcome(by, rcode, yes).answers \in BOOLEAN
      BY OutcomesAnswer, Zenon
    <3>3. "registry" \in Answerers
      BY DEF Answerers
    <3> QED
      BY <3>1, <3>2, <3>3, Zenon
  <2>3. gate' = Done(q, after, answer)
    BY <2>2, Zenon DEF SpecialUse
  <2>4. after = {d, datasets}
    BY <1>4, <1>8
  <2> HIDE DEF answer, q, after
  <2>5. ASSUME NEW e, after = {e}
        PROVE  e = datasets /\ ~HostsDecide(e, q) /\ ~ZonesDecide(e, q)
    BY <1>6, <2>4, <2>5 DEF NothingLocalIn
  <2> QED
    BY <1>1, <1>3, <1>8, <2>2, <2>3, <2>5, AnsweredHere
<1>9. CASE ~(policy.special_use = "Local" /\ SpecialUseName(q.name) /\ ~RuleCovers(datasets, q.name))
  <2>1. answer = NoAnswer
    BY <1>7, <1>9, Zenon DEF special_use_answer
  <2>2. gate' = [gate EXCEPT !.at = "group", !.seen = after]
    BY <2>1, Zenon DEF SpecialUse
  <2>3. LetThrough(after, q)
    BY <1>4, <1>9 DEF LetThrough
  <2> HIDE DEF answer, q, after
  <2>4. gate' = [at |-> "group", q |-> q, seen |-> after]
    <3>1. \A s : [[at |-> "special", q |-> q, seen |-> s] EXCEPT !.at = "group"]
                  = [at |-> "group", q |-> q, seen |-> s]
      OBVIOUS
    <3>2. \A s, t : [[at |-> "group", q |-> q, seen |-> s] EXCEPT !.seen = t]
                     = [at |-> "group", q |-> q, seen |-> t]
      OBVIOUS
    <3>3. PICK s : gate = [at |-> "special", q |-> q, seen |-> s]
      BY <1>1, Zenon
    <3>4. [gate EXCEPT !.at = "group"] = [at |-> "group", q |-> q, seen |-> s]
      BY <3>1, <3>3, Zenon
    <3>5. gate' = [[at |-> "group", q |-> q, seen |-> s] EXCEPT !.seen = after]
      BY <2>2, <3>4, Zenon
    <3> QED
      BY <3>2, <3>5, Zenon
  <2> QED
    BY <1>1, <1>3, <1>5, <1>6, <2>3, <2>4, MovesOn
<1> QED
  BY <1>8, <1>9

\* The cache or the group answers what was let through, with what this view was given.
LEMMA GroupStep ==
    ASSUME GateInv, ChooseGroup
    PROVE  GateInv'
<1> DEFINE q == gate.q
           group == GroupOf(q)
           key == CacheKey(q, group)
           wanted == Asked(q, group)
           Answered(entry) ==
               [at |-> "done", q |-> q, seen |-> Seen, entry |-> entry, group |-> group,
                outcome |-> IF entry.failed THEN Outcome("upstream", "ServFail", FALSE)
                            ELSE Outcome("upstream", "NoError", TRUE)]
<1>1. /\ gate.at = "group" /\ q \in Requests /\ gate.seen # {}
      /\ NothingLocalIn(gate.seen, q) /\ LetThrough(gate.seen, q) /\ CacheInv /\ WorldInv
  BY DEF ChooseGroup, GateInv, RequestInv
<1>2. UNCHANGED <<policy, conf, datasets>>
  BY Zenon DEF ChooseGroup
<1>3. [group |-> key.view, dnssec_ok |-> key.dnssec_ok, cd |-> key.cd,
       ecs |-> EcsSent(key.ecs.mode, key.ecs.ipv4)] = wanted
  <2>1. key.view = group /\ key.dnssec_ok = wanted.dnssec_ok /\ key.cd = q.cd /\ key.ecs = ecs_identity
    BY DEF CacheKey
  <2>2. EcsSent(ecs_identity.mode, ecs_identity.ipv4) = EcsSent(policy.ecs.mode, policy.ecs.ipv4)
    BY DEF EcsSent, ecs_identity
  <2>3. wanted.dnssec_ok = (policy.validating \/ q.dnssec_ok)
    BY DEF Asked
  <2> HIDE DEF key
  <2> QED
    BY <2>1, <2>2, <2>3 DEF Asked
<1>4. \E entry : gate' = Answered(entry) /\ entry.asked = wanted /\ CacheInv'
  <2>1. CASE key \in DOMAIN cached /\ gate' = Answered(cached[key]) /\ UNCHANGED cached
    <3>1. cached[key].asked = wanted
      BY <1>1, <1>3, <2>1, Zenon DEF CacheInv
    <3>2. CacheInv'
      BY <1>1, <2>1, Zenon DEF CacheInv
    <3> QED
      BY <2>1, <3>1, <3>2, Zenon
  <2>2. ASSUME NEW failed \in BOOLEAN, NEW kept \in SUBSET DOMAIN cached, NEW entry,
               entry = [asked |-> wanted, failed |-> failed],
               gate' = Answered(entry),
               cached' = [k \in kept \cup {key} |-> IF k = key THEN entry ELSE cached[k]]
        PROVE  \E e : gate' = Answered(e) /\ e.asked = wanted /\ CacheInv'
    <3>1. entry.asked = wanted
      BY <2>2
    <3> HIDE DEF key, wanted
    <3>2. CacheInv'
      BY <1>1, <1>3, <2>2, <3>1, Zenon DEF CacheInv
    <3> HIDE DEF Answered
    <3> QED
      BY <2>2, <3>1, <3>2
  <2>3. \/ key \in DOMAIN cached /\ gate' = Answered(cached[key]) /\ UNCHANGED cached
        \/ \E failed \in BOOLEAN, kept \in SUBSET DOMAIN cached :
              LET entry == [asked |-> wanted, failed |-> failed] IN
              /\ gate' = Answered(entry)
              /\ cached' = [k \in kept \cup {key} |-> IF k = key THEN entry ELSE cached[k]]
    BY Zenon DEF ChooseGroup
  <2> HIDE DEF key, wanted, Answered
  <2> QED
    BY <2>1, <2>2, <2>3, Zenon
<1>5. PICK entry : gate' = Answered(entry) /\ entry.asked = wanted /\ CacheInv'
  BY <1>4, Zenon
<1>6. /\ gate'.at = "done" /\ gate'.q = q /\ gate'.seen = Seen /\ gate'.entry = entry
      /\ gate'.group = group /\ gate'.outcome.by = "upstream" /\ gate'.outcome.answers \in BOOLEAN
  BY <1>5 DEF Outcome
<1> HIDE DEF Answered
<1>7. CachedForThisView'
  <2>1. Asked(gate.q, gate.group)' = wanted
    BY <1>2, <1>6 DEF Asked
  <2> QED
    BY <1>5, <1>6, <2>1 DEF CachedForThisView
<1>8. AnsweredInOrder'
  <2>1. ASSUME NEW d, Seen = {d} PROVE gate.seen = {d}
    BY <1>1, <2>1 DEF Seen
  <2>2. ASSUME NEW d, Seen = {d}
        PROVE  /\ ~HostsDecide(d, q) /\ ~ZonesDecide(d, q)
               /\ ~(policy.special_use = "Local" /\ SpecialUseName(q.name) /\ ~RuleCovers(d, q.name))
    <3>1. gate.seen = {d}
      BY <2>1, <2>2
    <3> QED
      BY <1>1, <3>1 DEF NothingLocalIn, LetThrough
  <2> HIDE DEF q
  <2> QED
    BY <1>2, <1>6, <2>2 DEF AnsweredInOrder
<1>9. LeavesOnlyByRule'
  BY <1>1, <1>2, <1>6 DEF LeavesOnlyByRule, LetThrough, Seen
<1>10. WorldInv' /\ RequestInv' /\ ReplyFits'
  BY <1>1, <1>2, <1>6 DEF WorldInv, RequestInv, ReplyFits
<1> QED
  BY <1>5, <1>7, <1>8, <1>9, <1>10 DEF GateInv, AnsweredByRule

\* What is sent fits the limit it is sent under, or is the truncated reply that fits any.
LEMMA SerializedFits ==
    ASSUME NEW size \in Nat, NEW answers, NEW marked \in BOOLEAN, NEW limit \in Nat, limit >= 512
    PROVE  /\ serialize_limited(size, answers, marked, limit).size \in Nat
           /\ serialize_limited(size, answers, marked, limit).size <= limit
           /\ serialize_limited(size, answers, marked, limit).size <= MAX_ENCODED
<1> DEFINE most == Clamp(limit, 512, MAX_ENCODED)
<1>1. MAX_ENCODED \in Nat /\ MAX_ENCODED >= 512
  BY DEF MAX_ENCODED
<1>2. MinimalSize \in Nat /\ MinimalSize <= 512
  BY GateAssumption
<1>3. most \in Nat /\ most <= limit /\ most <= MAX_ENCODED
  BY <1>1 DEF Clamp
<1>4. serialize_limited(size, answers, marked, limit) =
          IF size <= most THEN [size |-> size, answers |-> answers, tc |-> marked]
          ELSE IF marked THEN [size |-> most, answers |-> answers, tc |-> TRUE]
          ELSE [size |-> MinimalSize, answers |-> FALSE, tc |-> TRUE]
  BY Zenon DEF serialize_limited
<1> HIDE DEF most
<1>5. \/ size <= most /\ serialize_limited(size, answers, marked, limit).size = size
      \/ serialize_limited(size, answers, marked, limit).size = most
      \/ serialize_limited(size, answers, marked, limit).size = MinimalSize
  BY <1>4
<1> QED
  BY <1>1, <1>2, <1>3, <1>5

\* The limit a UDP client is answered under is its own, and never below 512 octets.
LEMMA UdpLimit ==
    ASSUME NEW q \in Requests, q.transport = "Udp", policy \in Policies
    PROVE  /\ max_response_size(q) \in Nat /\ max_response_size(q) >= 512
           /\ q.edns = NoEdns => max_response_size(q) = policy.non_edns_max_payload
           /\ q.edns # NoEdns => max_response_size(q) <= policy.max_payload
                                 /\ \/ max_response_size(q) <= q.edns
                                    \/ max_response_size(q) <= 512
<1>1. /\ policy.max_payload \in Nat /\ policy.max_payload >= 512 /\ policy.non_edns_max_payload = 512
      /\ q.edns = NoEdns \/ q.edns \in Nat
  BY GateAssumption
<1> QED
  BY <1>1 DEF max_response_size, Clamp

LEMMA ClampAbove ==
    ASSUME NEW v \in Nat, NEW size \in Nat, size <= v \/ size <= 512, size <= MAX_ENCODED
    PROVE  size <= Clamp(v, 512, MAX_ENCODED)
<1>1. MAX_ENCODED \in Nat /\ MAX_ENCODED >= 512
  BY DEF MAX_ENCODED
<1> QED
  BY <1>1 DEF Clamp

\* A reply that is not marked as truncated is the whole reply, whatever the limit.
LEMMA WholeUnlessMarked ==
    ASSUME NEW size, NEW answers, NEW marked, NEW limit
    PROVE  ~serialize_limited(size, answers, marked, limit).tc =>
               serialize_limited(size, answers, marked, limit).answers = answers
  BY Zenon DEF serialize_limited

LEMMA RespondStep ==
    ASSUME GateInv, Respond
    PROVE  GateInv'
<1>1. UNCHANGED <<policy, conf, datasets, cached>> /\ gate.at = "done"
  BY Zenon DEF Respond
<1>2. gate.q \in Requests /\ policy \in Policies /\ gate.outcome.answers \in BOOLEAN
  BY <1>1 DEF GateInv, RequestInv, WorldInv
<1>3. PICK size \in Nat, encodes \in BOOLEAN, mark \in BOOLEAN :
          gate' = [at |-> "replied", q |-> gate.q, wanted |-> gate.outcome.answers /\ encodes,
                   wire |-> IF encodes
                            THEN serialize_limited(size, gate.outcome.answers, mark,
                                                   max_response_size(gate.q))
                            ELSE serialize_limited(MinimalSize, FALSE, FALSE,
                                                   max_response_size(gate.q))]
  <2>1. Sizes \subseteq Nat /\ MinimalSize \in Nat
    BY GateAssumption
  <2>2. PICK s \in IF gate.outcome.answers THEN Sizes ELSE {MinimalSize}, e \in BOOLEAN,
             m \in IF gate.outcome.by = "upstream" THEN BOOLEAN ELSE {FALSE} :
          gate' = [at |-> "replied", q |-> gate.q, wanted |-> gate.outcome.answers /\ e,
                   wire |-> IF e
                            THEN serialize_limited(s, gate.outcome.answers, m,
                                                   max_response_size(gate.q))
                            ELSE serialize_limited(MinimalSize, FALSE, FALSE,
                                                   max_response_size(gate.q))]
    BY Zenon DEF Respond
  <2>3. s \in Nat /\ m \in BOOLEAN
    BY <2>1
  <2> QED
    BY <2>2, <2>3, Zenon
<1>4. PICK n \in Nat, answers \in {gate.outcome.answers, FALSE}, marked \in BOOLEAN,
           wanted \in BOOLEAN :
          /\ gate' = [at |-> "replied", q |-> gate.q, wanted |-> wanted,
                      wire |-> serialize_limited(n, answers, marked, max_response_size(gate.q))]
          /\ wanted = answers
  <2>1. MinimalSize \in Nat
    BY GateAssumption
  <2>2. CASE encodes
    <3>1. gate' = [at |-> "replied", q |-> gate.q, wanted |-> gate.outcome.answers /\ encodes,
                   wire |-> serialize_limited(size, gate.outcome.answers, mark,
                                              max_response_size(gate.q))]
      BY <1>3, <2>2, Zenon
    <3>2. (gate.outcome.answers /\ encodes) = gate.outcome.answers
      BY <1>2, <2>2
    <3> QED
      BY <1>2, <2>2, <3>1, <3>2, Zenon
  <2>3. CASE ~encodes
    <3>1. gate' = [at |-> "replied", q |-> gate.q, wanted |-> gate.outcome.answers /\ encodes,
                   wire |-> serialize_limited(MinimalSize, FALSE, FALSE, max_response_size(gate.q))]
      BY <1>3, <2>3, Zenon
    <3>2. (gate.outcome.answers /\ encodes) = FALSE
      BY <2>3
    <3> QED
      BY <2>1, <2>3, <3>1, <3>2, Zenon
  <2> QED
    BY <2>2, <2>3, Zenon
<1> DEFINE limit == max_response_size(gate.q)
           wire == serialize_limited(n, answers, marked, limit)
<1>5. gate'.at = "replied" /\ gate'.q = gate.q /\ gate'.wire = wire /\ gate'.wanted = wanted
  BY <1>4
<1> HIDE DEF wire
<1>6. WorldInv' /\ CacheInv' /\ RequestInv' /\ AnsweredByRule' /\ CachedForThisView'
  BY <1>1, <1>2, <1>5, Zenon DEF GateInv, WorldInv, CacheInv, RequestInv, AnsweredByRule, AnsweredInOrder,
        LeavesOnlyByRule, CachedForThisView
<1>7. ~wire.tc => wire.answers = answers
  BY WholeUnlessMarked DEF wire
<1>8. CASE gate.q.transport = "Udp"
  <2>1. wire.size <= limit /\ wire.size <= MAX_ENCODED /\ wire.size \in Nat
    BY <1>2, <1>8, UdpLimit, SerializedFits DEF wire
  <2>2. /\ limit \in Nat
        /\ gate.q.edns = NoEdns => limit = policy.non_edns_max_payload
        /\ gate.q.edns # NoEdns => limit <= policy.max_payload /\ (limit <= gate.q.edns \/ limit <= 512)
    BY <1>2, <1>8, UdpLimit
  <2>3. policy.max_payload \in Nat /\ (gate.q.edns = NoEdns \/ gate.q.edns \in Nat)
    BY <1>2, GateAssumption
  <2> HIDE DEF limit
  <2>4. gate.q.edns # NoEdns =>
            wire.size <= Clamp(gate.q.edns, 512, MAX_ENCODED) /\ wire.size <= policy.max_payload
    <3>1. SUFFICES ASSUME gate.q.edns # NoEdns
                   PROVE  wire.size <= Clamp(gate.q.edns, 512, MAX_ENCODED) /\ wire.size <= policy.max_payload
      OBVIOUS
    <3>2. wire.size <= gate.q.edns \/ wire.size <= 512
      BY <2>1, <2>2, <2>3, <3>1
    <3>3. wire.size <= policy.max_payload
      BY <2>1, <2>2, <2>3, <3>1
    <3> QED
      BY <2>1, <2>3, <3>1, <3>2, <3>3, ClampAbove
  <2>5. ReplyFits'
    <3>1. gate.q.edns = NoEdns => wire.size <= policy.non_edns_max_payload
      BY <2>1, <2>2
    <3>2. ~wire.tc => wire.answers = wanted
      BY <1>4, <1>7
    <3>3. policy' = policy
      BY <1>1
    <3> QED
      BY <1>5, <2>4, <3>1, <3>2, <3>3, SMTT(60) DEF ReplyFits
  <2> QED
    BY <1>6, <2>5 DEF GateInv
<1>9. CASE gate.q.transport # "Udp"
  BY <1>1, <1>4, <1>5, <1>6, <1>7, <1>9 DEF GateInv, ReplyFits
<1> QED
  BY <1>8, <1>9

LEMMA GateSteps ==
    ASSUME GateInv, [GateNext]_gateVars
    PROVE  GateInv'
<1>1. ASSUME NEW f \in Files, EditFile(f) PROVE GateInv'
  <2>1. WorldInv' /\ UNCHANGED <<policy, gate, cached>>
    BY <1>1 DEF EditFile, GateInv, WorldInv
  <2> QED
    BY <2>1, OperatorSteps
<1>2. CASE LoadConf
  <2>1. WorldInv' /\ UNCHANGED <<policy, gate, cached>>
    BY <1>2 DEF LoadConf, GateInv, WorldInv
  <2> QED
    BY <2>1, OperatorSteps
<1>3. CASE Rebuild
  <2>1. /\ UNCHANGED <<policy, conf, gate, cached>>
        /\ datasets' = build(conf, disk) /\ build(conf, disk) # Failed
    BY <1>3, Zenon DEF Rebuild
  <2>2. WorldInv'
    BY <2>1, BuiltTyped DEF GateInv, WorldInv
  <2> QED
    BY <2>1, <2>2, OperatorSteps
<1>4. ASSUME NEW q \in Requests, Receive(q) PROVE GateInv'
  BY <1>4, ReceiveStep
<1>5. ASSUME NEW q \in Requests, Discard(q) PROVE GateInv'
  <2>1. UNCHANGED <<policy, conf, datasets, gate, cached>>
    BY <1>5 DEF Discard, gateVars
  <2>2. WorldInv'
    BY <2>1 DEF GateInv, WorldInv
  <2> QED
    BY <2>1, <2>2, OperatorSteps
<1>6. CASE Forget
  <2>1. UNCHANGED <<policy, conf, datasets, cached>> /\ gate' = Idle_gate
    BY <1>6, Zenon DEF Forget
  <2>2. gate'.at = "idle"
    BY <2>1 DEF Idle_gate
  <2> QED
    BY <2>1, <2>2 DEF GateInv, WorldInv, CacheInv, RequestInv, AnsweredByRule, AnsweredInOrder,
          LeavesOnlyByRule, CachedForThisView, ReplyFits
<1>7. CASE UNCHANGED gateVars
  <2>1. UNCHANGED <<policy, conf, datasets, gate, cached>>
    BY <1>7 DEF gateVars
  <2>2. WorldInv'
    BY <2>1 DEF GateInv, WorldInv
  <2> QED
    BY <2>1, <2>2, OperatorSteps
<1> QED
  BY <1>1, <1>2, <1>3, <1>4, <1>5, <1>6, <1>7, LocalStep, SpecialStep, GroupStep, RespondStep, Zenon
  DEF GateNext

LEMMA GateStarts == GateInit => GateInv
<1> SUFFICES ASSUME GateInit PROVE GateInv
  OBVIOUS
<1>1. policy \in Policies /\ conf \in Confs /\ gate = Idle_gate /\ cached = <<>>
      /\ datasets = IF build(conf, disk) = Failed THEN Empty ELSE build(conf, disk)
  BY Zenon DEF GateInit
<1>2. DataTyped(datasets)
  BY <1>1, BuiltTyped, EmptyTyped
<1>3. gate.at = "idle"
  BY <1>1 DEF Idle_gate
<1>4. CacheInv
  BY <1>1 DEF CacheInv
<1> QED
  BY <1>1, <1>2, <1>3, <1>4 DEF GateInv, WorldInv, RequestInv, AnsweredByRule, AnsweredInOrder,
        LeavesOnlyByRule, CachedForThisView, ReplyFits

LEMMA GateInvariant == GateSpec => []GateInv
  BY GateStarts, GateSteps, PTL DEF GateSpec

\* Whatever data is loaded and however it is rebuilt while a request is in hand, the mechanism
\* that answers is the one the documented precedence names for the only snapshot the request
\* saw, and no special-use name leaves without a rule (handle, local_answer,
\* special_use_answer).
THEOREM PrecedenceKept == GateSpec => []AnsweredByRule
<1>1. GateInv => AnsweredByRule
  BY DEF GateInv
<1> QED
  BY <1>1, GateInvariant, PTL

\* An answer out of the cache was given by the group the request is routed to, to a question
\* with the request's own DNSSEC flags (CacheKey, group_for).
THEOREM CacheKeepsViews == GateSpec => []CachedForThisView
<1>1. GateInv => CachedForThisView
  BY DEF GateInv
<1> QED
  BY <1>1, GateInvariant, PTL

\* A UDP reply fits what the client offered and what the server allows, and a reply without
\* TC is whole (max_response_size, serialize_limited).
THEOREM RepliesFit == GateSpec => []ReplyFits
<1>1. GateInv => ReplyFits
  BY DEF GateInv
<1> QED
  BY <1>1, GateInvariant, PTL

-----------------------------------------------------------------------------
(***************************************************************************)
(* Proofs about AnswerShaping, for any answers and surroundings.  The TTL  *)
(* cap is the last thing the policy does, and all that the argument needs  *)
(* of ordering and augmenting is that they leave records whose TTLs are    *)
(* numbers.                                                                *)
(***************************************************************************)

-----------------------------------------------------------------------------
(* What an answer becomes.  A message is a sequence over a set of records  *)
(* whose TTLs are numbers; ordering draws on the same set and augmenting   *)
(* adds to it records with a TTL of the set.                               *)

Timed(S) == \A r \in S : r.ttl \in Nat

\* The places of a list are numbers of its domain, in order.
LEMMA PlacesListed ==
    ASSUME NEW s, NEW n \in Nat, DOMAIN s = 1..n
    PROVE  \A P \in SUBSET DOMAIN s : /\ Keeping(Places(s), P) \in Seq(1..n)
                                      /\ Range(Keeping(Places(s), P)) = P
<1>1. /\ Places(s) \in Seq(1..n) /\ DOMAIN Places(s) = DOMAIN s
      /\ \A i \in DOMAIN s : Places(s)[i] = i
  BY DEF Places
<1>2. ASSUME NEW P \in SUBSET DOMAIN s
      PROVE  /\ Keeping(Places(s), P) \in Seq(1..n)
             /\ Range(Keeping(Places(s), P)) = P
  <2>1. /\ Keeping(Places(s), P) \in Seq(1..n)
        /\ Range(Keeping(Places(s), P)) = {Places(s)[i] : i \in P}
    BY <1>1, KeepingMembers
  <2>2. {Places(s)[i] : i \in P} = P
    BY <1>1
  <2> QED
    BY <2>1, <2>2
<1> QED
  BY <1>1, <1>2

\* Every record set of an answer is a list of places of the answer, and has one.
LEMMA GroupsPlaced ==
    ASSUME NEW S, NEW msg \in Seq(S), NEW rtype
    PROVE  /\ rrset_groups(msg, rtype) \in Seq(Seq(1..Len(msg)))
           /\ \A g \in DOMAIN rrset_groups(msg, rtype) :
                 1 \in DOMAIN rrset_groups(msg, rtype)[g]
<1> DEFINE of == {i \in DOMAIN msg : msg[i].type = rtype}
           heads == {i \in of : \A j \in of : j < i => msg[j].owner # msg[i].owner}
           firsts == Keeping(Places(msg), heads)
           same(i) == {k \in of : msg[k].owner = msg[i].owner}
           groups == [g \in DOMAIN firsts |-> Keeping(Places(msg), same(firsts[g]))]
<1>0. Len(msg) \in Nat /\ DOMAIN msg = 1..Len(msg)
  OBVIOUS
<1>1. rrset_groups(msg, rtype) = groups
  BY Zenon DEF rrset_groups
<1>2. firsts \in Seq(1..Len(msg)) /\ Range(firsts) = heads
  <2>1. heads \in SUBSET DOMAIN msg
    OBVIOUS
  <2> QED
    BY <1>0, <2>1, PlacesListed
<1>3. ASSUME NEW g \in DOMAIN firsts
      PROVE  groups[g] \in Seq(1..Len(msg)) /\ 1 \in DOMAIN groups[g]
  <2>1. firsts[g] \in heads
    BY <1>2, Zenon DEF Range
  <2> DEFINE f == firsts[g]
             kept == Keeping(Places(msg), same(f))
  <2>2. f \in same(f) /\ same(f) \in SUBSET DOMAIN msg
    BY <2>1
  <2>3. kept \in Seq(1..Len(msg)) /\ Range(kept) = same(f)
    BY <1>0, <2>2, PlacesListed, Zenon
  <2>4. groups[g] = kept
    OBVIOUS
  <2> HIDE DEF kept, same
  <2>5. 1 \in DOMAIN kept
    <3>1. PICK k \in DOMAIN kept : kept[k] = f
      BY <2>2, <2>3, Zenon DEF Range
    <3> QED
      BY <2>3, <3>1
  <2> QED
    BY <2>3, <2>4, <2>5
<1>4. groups \in Seq(Seq(1..Len(msg)))
  <2>1. Len(firsts) \in Nat /\ DOMAIN firsts = 1..Len(firsts)
    BY <1>2
  <2>2. DOMAIN groups = 1..Len(firsts) /\ \A g \in 1..Len(firsts) : groups[g] \in Seq(1..Len(msg))
    BY <2>1, <1>3, Zenon
  <2> HIDE DEF firsts
  <2> QED
    BY <2>1, <2>2, <1>3, SMTT(60)
<1> QED
  BY <1>1, <1>3, <1>4, Zenon

\* Reordering a record set puts records of the answer in its places.
LEMMA ReorderedDraws ==
    ASSUME NEW S, NEW msg \in Seq(S), NEW places \in Seq(1..Len(msg)),
           NEW desired, NEW n \in Nat, DOMAIN desired = 1..n
    PROVE  /\ reorder_in_place(msg, places, desired) \in Seq(S)
           /\ Len(reorder_in_place(msg, places, desired)) = Len(msg)
<1> DEFINE nth(seq, k) == Cardinality({j \in 1..k : seq[j] = seq[k]})
           original == addresses_of(msg, places)
           sources(k) == {m \in DOMAIN places :
                             original[m] = desired[k] /\ nth(original, m) = nth(desired, k)}
           wanted == Keeping(Places(desired), {k \in DOMAIN desired : sources(k) # {}})
           left == Keeping(Places(places), {m \in DOMAIN places :
                                               \A k \in Range(wanted) : m \notin sources(k)})
           first == [i \in DOMAIN wanted |-> CHOOSE m \in sources(wanted[i]) : TRUE]
           placed == first \o left
           put(i) == {k \in DOMAIN placed \cap DOMAIN places : places[k] = i}
           result == [i \in DOMAIN msg |->
               IF put(i) = {} THEN msg[i] ELSE msg[places[placed[CHOOSE k \in put(i) : TRUE]]]]
<1>1. reorder_in_place(msg, places, desired) = result
  BY Zenon DEF reorder_in_place
<1>2. Len(places) \in Nat /\ DOMAIN places = 1..Len(places)
  OBVIOUS
<1>3. \A k : sources(k) \in SUBSET (1..Len(places))
  BY <1>2
<1>4. wanted \in Seq(1..n) /\ \A k \in Range(wanted) : sources(k) # {}
  <2>1. {k \in DOMAIN desired : sources(k) # {}} \in SUBSET DOMAIN desired
    OBVIOUS
  <2> HIDE DEF sources
  <2> QED
    BY <2>1, PlacesListed
<1>5. left \in Seq(1..Len(places))
  <2>1. {m \in DOMAIN places : \A k \in Range(wanted) : m \notin sources(k)} \in SUBSET DOMAIN places
    OBVIOUS
  <2> HIDE DEF sources, wanted
  <2> QED
    BY <1>2, <2>1, PlacesListed
<1>6. first \in Seq(1..Len(places))
  <2> HIDE DEF sources, wanted
  <2>1. \A i \in DOMAIN wanted : wanted[i] \in Range(wanted)
    BY <1>4, Zenon DEF Range
  <2>2. Len(wanted) \in Nat /\ DOMAIN wanted = 1..Len(wanted)
    BY <1>4
  <2>3. \A i \in DOMAIN wanted : (CHOOSE m \in sources(wanted[i]) : TRUE) \in 1..Len(places)
    BY <1>3, <1>4, <2>1
  <2> QED
    BY <2>2, <2>3
<1> HIDE DEF left, first, wanted, sources
<1>7. placed \in Seq(1..Len(places))
  BY <1>5, <1>6
<1> HIDE DEF placed
<1>8. ASSUME NEW i \in DOMAIN msg
      PROVE  result[i] \in S
  <2>1. CASE put(i) = {}
    BY <2>1
  <2>2. CASE put(i) # {}
    <3> DEFINE k == CHOOSE x \in put(i) : TRUE
    <3>1. k \in DOMAIN placed
      BY <2>2
    <3> HIDE DEF k
    <3>2. placed[k] \in 1..Len(places)
      BY <1>7, <3>1
    <3>3. places[placed[k]] \in DOMAIN msg
      BY <1>2, <3>2
    <3>4. result[i] = msg[places[placed[k]]]
      BY <2>2 DEF k
    <3> QED
      BY <3>3, <3>4
  <2> QED
    BY <2>1, <2>2
<1>9. result = [i \in 1..Len(msg) |-> result[i]] /\ Len(msg) \in Nat /\ DOMAIN msg = 1..Len(msg)
  OBVIOUS
<1> HIDE DEF result
<1> QED
  BY <1>1, <1>8, <1>9

\* So does ordering it.
LEMMA OrderedDraws ==
    ASSUME NEW S, NEW msg \in Seq(S), NEW places \in Seq(1..Len(msg)), NEW ctx
    PROVE  /\ OrderGroup(msg, places, ctx) \in Seq(S)
           /\ Len(OrderGroup(msg, places, ctx)) = Len(msg)
<1> DEFINE original == addresses_of(msg, places)
           desired == order_addresses(original, ctx.quality, ctx.ranking, ctx.explore)
<1>1. DOMAIN original = 1..Len(places) /\ Len(places) \in Nat
  BY DEF addresses_of
<1>2. DOMAIN desired = DOMAIN original
  <2> HIDE DEF original
  <2> QED
    BY DEF order_addresses
<1>3. OrderGroup(msg, places, ctx) = reorder_in_place(msg, places, desired)
  BY Zenon DEF OrderGroup
<1> HIDE DEF desired, original
<1> QED
  BY <1>1, <1>2, <1>3, ReorderedDraws

\* The recursion in OrderGroups, as an equation of the function it defines.
OrderedFrom(f, msg, groups, ctx) ==
    [i \in 0..Len(groups) |-> IF i = 0 THEN msg ELSE OrderGroup(f[i - 1], groups[i], ctx)]

\* The function that OrderGroups chooses exists.
LEMMA OrderedExists ==
    ASSUME NEW msg, NEW groups, NEW ctx, Len(groups) \in Nat
    PROVE  \E f : f = OrderedFrom(f, msg, groups, ctx)
<1> DEFINE Grow(f, i) == OrderGroup(f[i - 1], groups[i], ctx)
           Good(n) == \E f : f = [i \in 0..n |-> IF i = 0 THEN msg ELSE Grow(f, i)]
           Bad == {n \in Nat : ~Good(n)}
<1>1. SUFFICES Bad = {}
  <2>1. Good(Len(groups)) BY <1>1
  <2> QED BY <2>1 DEF OrderedFrom
<1>2. SUFFICES ASSUME Bad # {} PROVE FALSE
  OBVIOUS
<1>3. PICK n \in Bad : \A m \in Bad : n <= m
  <2>1. Bad \in SUBSET Nat OBVIOUS
  <2> HIDE DEF Bad
  <2> QED BY <1>2, <2>1, LeastElement
<1>4. n \in Nat /\ ~Good(n)
  OBVIOUS
<1>5. CASE n = 0
  <2> DEFINE f == [i \in 0..0 |-> msg]
  <2>1. f = [i \in 0..0 |-> IF i = 0 THEN msg ELSE Grow(f, i)] OBVIOUS
  <2> QED BY <1>4, <1>5, <2>1, Zenon
<1>6. CASE n # 0
  <2>1. n - 1 \in Nat /\ ~(n <= n - 1) BY <1>4, <1>6
  <2>2. Good(n - 1) BY <1>3, <2>1, Zenon
  <2>3. PICK f : f = [i \in 0..(n - 1) |-> IF i = 0 THEN msg ELSE Grow(f, i)] BY <2>2
  <2> DEFINE g == [i \in 0..n |-> IF i = n THEN Grow(f, n) ELSE f[i]]
  <2>4. ASSUME NEW i \in 0..n PROVE g[i] = IF i = 0 THEN msg ELSE Grow(g, i)
    <3>1. CASE i = n
      <4>1. n - 1 \in 0..n /\ n - 1 # n BY <1>4, <2>1
      <4>2. g[n - 1] = f[n - 1] BY <4>1
      <4>3. g[i] = Grow(f, n) BY <3>1
      <4> HIDE DEF g
      <4> QED BY <1>6, <3>1, <4>2, <4>3
    <3>2. CASE i # n
      <4>1. i \in 0..(n - 1) BY <1>4, <3>2
      <4>2. g[i] = f[i] BY <3>2
      <4>3. f[i] = IF i = 0 THEN msg ELSE Grow(f, i) BY <2>3, <4>1
      <4>4. i # 0 => i - 1 \in 0..n /\ i - 1 # n BY <1>4, <4>1
      <4>5. i # 0 => g[i - 1] = f[i - 1] BY <4>4
      <4> HIDE DEF g
      <4> QED BY <4>2, <4>3, <4>5
    <3> QED BY <3>1, <3>2, Zenon
  <2>5. g = [i \in 0..n |-> IF i = 0 THEN msg ELSE Grow(g, i)] BY <2>4
  <2> QED BY <1>4, <2>5, Zenon
<1> QED BY <1>5, <1>6

\* Ordering every record set of an answer draws on the records of the answer.
LEMMA OrderingDraws ==
    ASSUME NEW S, NEW msg \in Seq(S), NEW groups \in Seq(Seq(1..Len(msg))), NEW ctx
    PROVE  /\ OrderGroups(msg, groups, ctx) \in Seq(S)
           /\ Len(OrderGroups(msg, groups, ctx)) = Len(msg)
<1> DEFINE F == CHOOSE f : f = OrderedFrom(f, msg, groups, ctx)
           Bad == {n \in 0..Len(groups) : ~(F[n] \in Seq(S) /\ Len(F[n]) = Len(msg))}
<1>0. Len(groups) \in Nat /\ DOMAIN groups = 1..Len(groups)
  OBVIOUS
<1>1. F = OrderedFrom(F, msg, groups, ctx)
  BY <1>0, OrderedExists
<1>2. OrderGroups(msg, groups, ctx) = F[Len(groups)]
  BY DEF OrderGroups, OrderedFrom
<1> HIDE DEF F
<1>3. Bad = {}
  <2>1. SUFFICES ASSUME Bad # {} PROVE FALSE OBVIOUS
  <2>2. PICK n \in Bad : \A m \in Bad : n <= m
    <3>1. Bad \in SUBSET Nat BY <1>0
    <3> HIDE DEF Bad
    <3> QED BY <2>1, <3>1, LeastElement, Zenon
  <2>3. n \in 0..Len(groups) OBVIOUS
  <2>4. CASE n = 0
    <3>1. F[0] = msg BY <1>1, <2>3, <2>4 DEF OrderedFrom
    <3> QED BY <2>2, <2>4, <3>1
  <2>5. CASE n # 0
    <3>1. n - 1 \in 0..Len(groups) /\ ~(n <= n - 1) /\ n \in 1..Len(groups) BY <1>0, <2>3, <2>5
    <3>2. F[n - 1] \in Seq(S) /\ Len(F[n - 1]) = Len(msg) BY <2>2, <3>1
    <3>3. F[n] = OrderGroup(F[n - 1], groups[n], ctx) BY <1>1, <2>3, <2>5, Zenon DEF OrderedFrom
    <3>4. groups[n] \in Seq(1..Len(F[n - 1])) BY <1>0, <3>1, <3>2
    <3>5. F[n] \in Seq(S) /\ Len(F[n]) = Len(msg) BY <3>2, <3>3, <3>4, OrderedDraws
    <3> QED BY <2>2, <3>5
  <2> QED BY <2>4, <2>5
<1>4. Len(groups) \in 0..Len(groups)
  BY <1>0
<1> QED BY <1>2, <1>3, <1>4

\* What is put in front of a record set has a TTL of the set.
LEMMA PrependedTimed ==
    ASSUME NEW S, Timed(S), NEW msg \in Seq(S), NEW places \in Seq(1..Len(msg)),
           1 \in DOMAIN places, NEW added, NEW n \in Nat, DOMAIN added = 1..n, NEW qtype
    PROVE  \E T : Timed(T) /\ prepend_addresses(msg, places, added, qtype) \in Seq(T)
<1> DEFINE first == places[1]
           ttls == {msg[places[k]].ttl : k \in DOMAIN places}
           ttl == CHOOSE t \in ttls : \A u \in ttls : t <= u
           new == [i \in DOMAIN added |->
                      [owner |-> msg[first].owner, type |-> qtype, addr |-> added[i], ttl |-> ttl]]
           N == {new[i] : i \in DOMAIN added}
           T == S \cup N
<1>1. \A k \in DOMAIN places : msg[places[k]] \in S
  OBVIOUS
<1>2. ttls \in SUBSET Nat /\ ttls # {}
  BY <1>1 DEF Timed
<1>3. ttl \in Nat
  <2> HIDE DEF ttls
  <2>1. \E t \in ttls : \A u \in ttls : t <= u
    BY <1>2, LeastElement
  <2> QED
    BY <1>2, <2>1, Zenon
<1> HIDE DEF ttl
<1>4. Timed(T)
  <2>1. \A i \in DOMAIN added : new[i].ttl = ttl
    BY Zenon
  <2> HIDE DEF new
  <2> QED
    BY <1>3, <2>1 DEF Timed
<1>5. new \in Seq(T)
  <2>1. new = [i \in 1..n |-> new[i]] /\ \A i \in 1..n : new[i] \in T
    BY Zenon
  <2> HIDE DEF new, T
  <2> QED
    BY <2>1
<1>6. first \in 1..Len(msg) /\ Len(msg) \in Nat
  OBVIOUS
<1>7. msg \in Seq(T)
  OBVIOUS
<1>8. prepend_addresses(msg, places, added, qtype)
         = SubSeq(msg, 1, first - 1) \o new \o SubSeq(msg, first, Len(msg))
  BY Zenon DEF prepend_addresses, ttl
<1> HIDE DEF new, T, first
<1>9. SubSeq(msg, 1, first - 1) \in Seq(T) /\ SubSeq(msg, first, Len(msg)) \in Seq(T)
  BY <1>6, <1>7
<1>10. prepend_addresses(msg, places, added, qtype) \in Seq(T)
  BY <1>5, <1>8, <1>9
<1> QED
  BY <1>4, <1>10

\* The context of an answer: its numbers are numbers, its candidates a list.
ContextTyped(ctx) ==
    /\ \E T : ctx.verified \in Seq(T)
    /\ ctx.augment.max_added \in Nat
    /\ ctx.remaining_authoritative \in Nat
    /\ ctx.remaining_signature = NoSig \/ ctx.remaining_signature \in Nat
    /\ ctx.ttl.serve_stale \in Nat /\ ctx.ttl.cloudflare_augment \in Nat
    /\ ctx.ttl.network_change \in Nat /\ ctx.ttl.cloudflare_preserve \in Nat
    /\ ctx.ttl.optimized_multi \in Nat /\ ctx.ttl.default \in Nat

\* What is added is a list.
LEMMA AddedListed ==
    ASSUME NEW ctx, ContextTyped(ctx), NEW existing
    PROVE  \E n \in Nat : DOMAIN ToAdd(existing, ctx) = 1..n
<1> DEFINE costs == {ctx.quality[a].cost : a \in {b \in existing : ctx.quality[b].known}}
           cheap(v) == costs # {} =>
               LET best == CHOOSE c \in costs : \A d \in costs : c <= d
               IN  100 * (best - v.cost) >= ctx.augment.min_advantage * Larger(best, 1)
           fit == {i \in DOMAIN ctx.verified : LET v == ctx.verified[i] IN
                       /\ v.fresh /\ v.successes >= ctx.augment.min_validations
                       /\ v.samples >= ctx.augment.min_samples
                       /\ v.type = ctx.qtype
                       /\ v.addr \in ctx.snapshot
                       /\ v.addr \notin ctx.special_use
                       /\ v.addr \notin existing
                       /\ cheap(v)}
           P == {i \in fit : \A j \in fit : j < i => ctx.verified[j].addr # ctx.verified[i].addr}
           good == Keeping(ctx.verified, P)
           n == Smaller(Len(good), ctx.augment.max_added)
<1>1. ToAdd(existing, ctx) = [i \in 1..n |-> good[i].addr]
  BY Zenon DEF ToAdd
<1>2. P \in SUBSET DOMAIN ctx.verified
  <2> HIDE DEF cheap
  <2> QED
    OBVIOUS
<1> HIDE DEF P
<1>3. Len(good) \in Nat
  <2>1. PICK T : ctx.verified \in Seq(T)
    BY DEF ContextTyped
  <2>2. good \in Seq(T)
    BY <1>2, <2>1, KeepingMembers
  <2> HIDE DEF good
  <2> QED
    BY <2>2
<1> HIDE DEF good
<1>4. n \in Nat
  BY <1>3 DEF Smaller, ContextTyped
<1> HIDE DEF n
<1> QED
  BY <1>1, <1>4

\* The policy ends with a cap on the TTLs of a message whose TTLs are numbers.
LEMMA PolicyFinishes ==
    ASSUME NEW S, Timed(S), NEW msg \in Seq(S), NEW ctx, ContextTyped(ctx)
    PROVE  \E T, m, a, p, o : /\ Timed(T) /\ m \in Seq(T)
                              /\ apply_answer_policy(msg, ctx).msg = finish_ttl(m, ctx, a, p, o)
<1> DEFINE groups == IF ctx.qtype \in AddressTypes THEN rrset_groups(msg, ctx.qtype) ELSE <<>>
           final == groups[Len(groups)]
           decided == evaluate(
            [enabled |-> ctx.enabled, mode |-> ctx.mode, qtype |-> ctx.qtype,
             excluded |-> ctx.excluded, snapshot |-> ctx.snapshot, dnssec |-> ctx.dnssec,
             original |-> Range(addresses_of(msg, final)), single_rrset |-> Len(groups) = 1,
             publishes_ech |-> \E i \in DOMAIN msg : msg[i].type = "HTTPS-ech",
             can_validate_ech |-> FALSE, baseline_validated |-> ctx.baseline_validated,
             has_verified_candidate |-> \E i \in DOMAIN ctx.verified :
                 /\ ctx.verified[i].fresh
                 /\ ctx.verified[i].successes >= ctx.augment.min_validations])[1]
           ordered == OrderGroups(msg, groups, ctx)
           added == IF decided = "Augment" THEN ToAdd(Range(addresses_of(msg, final)), ctx) ELSE <<>>
           touched == decided # "Off" /\ (ordered # msg \/ added # <<>>)
           shaped == IF added = <<>> THEN ordered
                     ELSE prepend_addresses(ordered, final, added, ctx.qtype)
           plain == finish_ttl(msg, ctx, FALSE, FALSE, FALSE)
           full == finish_ttl(shaped, ctx, added # <<>>, touched /\ added = <<>>,
                              ordered # msg /\ ~touched)
<1>1. apply_answer_policy(msg, ctx) = IF groups = <<>> THEN [msg |-> plain, added |-> <<>>]
                                      ELSE [msg |-> full, added |-> added]
  BY Zenon DEF apply_answer_policy
<1>2. /\ groups \in Seq(Seq(1..Len(msg)))
      /\ \A g \in DOMAIN groups : 1 \in DOMAIN groups[g]
  <2>1. CASE ctx.qtype \in AddressTypes
    BY <2>1, GroupsPlaced
  <2>2. CASE ctx.qtype \notin AddressTypes
    BY <2>2
  <2> QED
    BY <2>1, <2>2
<1> HIDE DEF groups, decided
<1>3. ordered \in Seq(S) /\ Len(ordered) = Len(msg)
  BY <1>2, OrderingDraws
<1>4. \E n \in Nat : DOMAIN added = 1..n
  <2>1. CASE decided = "Augment"
    BY <2>1, AddedListed
  <2>2. CASE decided # "Augment"
    <3>1. DOMAIN <<>> = 1..0
      OBVIOUS
    <3> QED
      BY <2>2, <3>1
  <2> QED
    BY <2>1, <2>2
<1> HIDE DEF ordered, added, touched
<1>5. CASE groups = <<>>
  <2>1. apply_answer_policy(msg, ctx).msg = plain
    BY <1>1, <1>5
  <2> QED
    BY <2>1, Zenon
<1>6. CASE groups # <<>>
  <2>1. final \in Seq(1..Len(ordered)) /\ 1 \in DOMAIN final
    <3>1. Len(groups) \in DOMAIN groups
      BY <1>2, <1>6
    <3> QED
      BY <1>2, <1>3, <3>1
  <2> HIDE DEF final
  <2>2. \E T : Timed(T) /\ shaped \in Seq(T)
    <3>1. CASE added = <<>>
      BY <1>3, <3>1
    <3>2. CASE added # <<>>
      BY <1>3, <1>4, <2>1, <3>2, PrependedTimed
    <3> QED
      BY <3>1, <3>2
  <2> HIDE DEF shaped
  <2>3. apply_answer_policy(msg, ctx).msg = full
    BY <1>1, <1>6
  <2> QED
    BY <2>2, <2>3, Zenon
<1> QED
  BY <1>5, <1>6

\* The cap is below what is left of the authority's TTL and of the signature.
LEMMA FinishCaps ==
    ASSUME NEW T, Timed(T), NEW m \in Seq(T), NEW ctx, ContextTyped(ctx), NEW a, NEW p, NEW o
    PROVE  \A i \in DOMAIN finish_ttl(m, ctx, a, p, o) :
              /\ finish_ttl(m, ctx, a, p, o)[i].ttl <= ctx.remaining_authoritative
              /\ ctx.remaining_signature # NoSig
                    => finish_ttl(m, ctx, a, p, o)[i].ttl <= ctx.remaining_signature
<1> DEFINE inp == [remaining_authoritative |-> ctx.remaining_authoritative,
                   remaining_signature |-> ctx.remaining_signature, is_stale |-> ctx.is_stale,
                   recent_network_change |-> ctx.recent_network_change,
                   augmented |-> a, preserved |-> p, optimized |-> o]
           cap == effective_client_ttl(ctx.ttl, inp)
<1>1. finish_ttl(m, ctx, a, p, o) = cap_ttls(m, cap)
  BY Zenon DEF finish_ttl
<1>2. /\ inp.remaining_authoritative = ctx.remaining_authoritative
      /\ inp.remaining_signature = ctx.remaining_signature
  OBVIOUS
<1> HIDE DEF inp
<1>3. /\ cap \in Nat /\ cap <= ctx.remaining_authoritative
      /\ ctx.remaining_signature # NoSig => cap <= ctx.remaining_signature
  <2> DEFINE cfg == ctx.ttl
             chosen == IF inp.is_stale THEN cfg.serve_stale
                       ELSE IF inp.augmented THEN cfg.cloudflare_augment
                       ELSE IF inp.recent_network_change THEN cfg.network_change
                       ELSE IF inp.preserved THEN cfg.cloudflare_preserve
                       ELSE IF inp.optimized THEN cfg.optimized_multi ELSE cfg.default
             limit == IF inp.recent_network_change THEN Smaller(chosen, cfg.network_change) ELSE chosen
             ttl == Smaller(inp.remaining_authoritative, limit)
  <2>1. cap = IF inp.remaining_signature = NoSig THEN ttl ELSE Smaller(ttl, inp.remaining_signature)
    BY Zenon DEF effective_client_ttl
  <2>2. chosen \in Nat /\ cfg.network_change \in Nat
    BY DEF ContextTyped
  <2> HIDE DEF chosen, cfg
  <2>3. limit \in Nat
    BY <2>2 DEF Smaller
  <2> HIDE DEF limit
  <2>4. ttl \in Nat /\ ttl <= ctx.remaining_authoritative
    BY <1>2, <2>3 DEF Smaller, ContextTyped
  <2> HIDE DEF ttl, cap
  <2> QED
    BY <1>2, <2>1, <2>4 DEF Smaller, ContextTyped
<1> HIDE DEF cap
<1>4. ASSUME NEW i \in DOMAIN m
      PROVE  cap_ttls(m, cap)[i].ttl \in Nat /\ cap_ttls(m, cap)[i].ttl <= cap
  <2>1. m[i].ttl \in Nat
    BY DEF Timed
  <2>2. cap_ttls(m, cap)[i].ttl = Smaller(m[i].ttl, cap)
    BY DEF cap_ttls
  <2> QED
    BY <1>3, <2>1, <2>2 DEF Smaller
<1>5. DOMAIN cap_ttls(m, cap) = DOMAIN m
  BY DEF cap_ttls
<1> QED
  BY <1>1, <1>3, <1>4, <1>5 DEF ContextTyped

-----------------------------------------------------------------------------
(* The reply.                                                              *)

\* Aging leaves TTLs that are numbers.
LEMMA AgedTimed ==
    ASSUME NEW q \in Questions
    PROVE  \E S : Timed(S) /\ age_ttls(q.msg, q.elapsed) \in Seq(S)
<1> DEFINE aged == age_ttls(q.msg, q.elapsed)
           S == {aged[i] : i \in DOMAIN q.msg}
<1>0. q.msg \in Seq(Range(q.msg))
  BY ShapingAssumption
<1>1. /\ \A i \in DOMAIN q.msg : q.msg[i].ttl \in Nat
      /\ q.elapsed \in Nat
  BY ShapingAssumption
<1>2. aged = [i \in DOMAIN q.msg |-> aged[i]]
  BY DEF age_ttls
<1>3. \A i \in DOMAIN q.msg : aged[i].ttl \in Nat
  <2>1. \A i \in DOMAIN q.msg : aged[i].ttl = Larger(0, q.msg[i].ttl - q.elapsed)
    BY DEF age_ttls
  <2> HIDE DEF aged
  <2> QED
    BY <1>1, <2>1 DEF Larger
<1> HIDE DEF aged
<1>4. Timed(S)
  BY <1>3 DEF Timed
<1>5. PICK n \in Nat : DOMAIN q.msg = 1..n
  BY <1>0
<1>6. aged = [i \in 1..n |-> aged[i]] /\ \A i \in 1..n : aged[i] \in S
  BY <1>2, <1>5
<1> HIDE DEF S
<1>7. aged \in Seq(S)
  BY <1>6
<1> QED
  BY <1>4, <1>7 DEF aged

\* The context the policy works in keeps the question's TTLs.
LEMMA ContextKeepsTtls ==
    ASSUME NEW q \in Questions
    PROVE  /\ ContextTyped(ContextOf(q))
           /\ ContextOf(q).remaining_authoritative = q.ctx.remaining_authoritative
           /\ ContextOf(q).remaining_signature = q.ctx.remaining_signature
<1> DEFINE c == ContextOf(q)
<1>1. /\ c.ttl = q.ctx.ttl /\ c.augment = q.ctx.augment
      /\ c.remaining_authoritative = q.ctx.remaining_authoritative
      /\ c.remaining_signature = q.ctx.remaining_signature
      /\ c.verified = q.ctx.verified \/ c.verified = <<>>
  BY ShapingAssumption DEF ContextOf
<1> HIDE DEF c
<1>2. \E T : c.verified \in Seq(T)
  <2>1. CASE c.verified = <<>>
    <3>1. <<>> \in Seq({})
      OBVIOUS
    <3> QED
      BY <2>1, <3>1
  <2>2. CASE c.verified = q.ctx.verified
    BY <2>2, ShapingAssumption
  <2> QED
    BY <1>1, <2>1, <2>2
<1>3. ContextTyped(c)
  BY <1>1, <1>2, ShapingAssumption DEF ContextTyped
<1> QED
  BY <1>1, <1>3 DEF c

\* A reply never outlives its sources, and goes out as authenticated only unmodified:
\* build_response ends in cap_ttls with a cap that effective_client_ttl takes below what is
\* left of the authority's TTL and of the signature, and asks may_set_ad.
LEMMA ShapingSteps ==
    ASSUME question \in Questions, NothingOutlivesItsSource, [ShapingNext]_shapingVars
    PROVE  question' \in Questions /\ NothingOutlivesItsSource'
<1>1. CASE UNCHANGED shapingVars
  BY <1>1 DEF shapingVars, NothingOutlivesItsSource
<1>2. CASE BuildResponse
  <2> DEFINE r == apply_answer_policy(age_ttls(question.msg, question.elapsed), ContextOf(question))
           stripped == maybe_strip_dnssec_records(r.msg, question.ctx.qtype)
           Timely(t) == /\ t <= question.ctx.remaining_authoritative
                        /\ question.ctx.remaining_signature # NoSig
                              => t <= question.ctx.remaining_signature
  <2>1. /\ question' = question
        /\ reply' = [msg |-> IF question.client_do THEN r.msg ELSE stripped, added |-> r.added,
                     ad |-> may_set_ad(question.ctx.dnssec,
                                       question.client_do \/ question.asked_ad, r.added # <<>>)]
    BY <1>2, Zenon DEF BuildResponse
  <2>2. PICK T, m, a, p, o : /\ Timed(T) /\ m \in Seq(T)
                             /\ r.msg = finish_ttl(m, ContextOf(question), a, p, o)
    <3>1. PICK S : Timed(S) /\ age_ttls(question.msg, question.elapsed) \in Seq(S)
      BY AgedTimed
    <3>2. ContextTyped(ContextOf(question))
      BY ContextKeepsTtls
    <3> QED
      BY <3>1, <3>2, PolicyFinishes
  <2> HIDE DEF r
  <2>3. \A i \in DOMAIN r.msg : Timely(r.msg[i].ttl)
    BY <2>2, FinishCaps, ContextKeepsTtls, Zenon
  <2>4. r.msg \in Seq(Range(r.msg))
    <3>1. PICK cap : r.msg = cap_ttls(m, cap)
      BY <2>2, Zenon DEF finish_ttl
    <3> QED
      BY <2>2, <3>1 DEF cap_ttls, Range
  <2>5. \A i \in DOMAIN stripped : Timely(stripped[i].ttl)
    <3> DEFINE places == {i \in DOMAIN r.msg : \/ r.msg[i].type = question.ctx.qtype
                                               \/ r.msg[i].type \notin DnssecTypes}
    <3>1. stripped = Keeping(r.msg, places)
      BY Zenon DEF maybe_strip_dnssec_records
    <3>2. places \subseteq DOMAIN r.msg
      OBVIOUS
    <3> HIDE DEF places, stripped, Timely
    <3>3. Range(stripped) = {r.msg[i] : i \in places}
      BY <2>4, <3>1, <3>2, KeepingMembers, Zenon
    <3> SUFFICES ASSUME NEW i \in DOMAIN stripped PROVE Timely(stripped[i].ttl)
      OBVIOUS
    <3>4. stripped[i] \in Range(stripped)
      BY Zenon DEF Range
    <3>5. PICK j \in places : stripped[i] = r.msg[j]
      BY <3>3, <3>4, Zenon
    <3> QED
      BY <2>3, <3>2, <3>5, Zenon
  <2> HIDE DEF stripped
  <2>6. /\ reply'.msg = r.msg \/ reply'.msg = stripped
        /\ reply'.added = r.added
    BY <2>1
  <2>7. reply'.ad => question.ctx.dnssec = "Secure" /\ r.added = <<>>
    BY <2>1, Zenon DEF may_set_ad
  <2>8. \A i \in DOMAIN reply'.msg : Timely(reply'.msg[i].ttl)
    BY <2>3, <2>5, <2>6, Zenon
  <2> QED
    BY <2>1, <2>6, <2>7, <2>8, Zenon DEF NothingOutlivesItsSource
<1> QED
  BY <1>1, <1>2 DEF ShapingNext

\* In every behaviour of the answer policy, over every answer and every state of its
\* surroundings, no TTL of a reply is above what is left of the authority's or of the
\* signature's, and AD is set only on an unmodified secure answer.
THEOREM RepliesExpireInTime == ShapingSpec => []NothingOutlivesItsSource
<1> DEFINE Inv == question \in Questions /\ NothingOutlivesItsSource
<1>1. ShapingInit => Inv
  BY DEF ShapingInit, NothingOutlivesItsSource
<1>2. Inv /\ [ShapingNext]_shapingVars => Inv'
  BY ShapingSteps
<1> QED
  BY <1>1, <1>2, PTL DEF ShapingSpec
=============================================================================
