----------------------------- MODULE LocalData -----------------------------
(***************************************************************************)
(* datasets/: the operator's own data - hosts, internal zones, suffix      *)
(* rules, domain categories - built from a configuration and from files,   *)
(* and what it answers.  A name is the sequence of its labels from the     *)
(* root down, so that a name is under an apex when the apex is a prefix of *)
(* it; letter case and the trailing dot, which the code strips, are left   *)
(* out.                                                                    *)
(***************************************************************************)
EXTENDS FiniteSets, Lists

CONSTANTS Unreadable,       \* a file that is missing, too large or not text
          BadAddress,       \* an address field that does not parse
          NoGroup,          \* no suffix rule covers the name
          Failed            \* a build that is an error

RECORD_TYPES == {"A", "AAAA", "CNAME", "NS", "PTR", "TXT", "MX", "SRV"}

Under(n, apex) == Len(apex) <= Len(n) /\ \A i \in DOMAIN apex : apex[i] = n[i]

-----------------------------------------------------------------------------
(* datasets/hosts.rs                                                       *)

Insert(map, name, addrs) ==
    [n \in DOMAIN map \cup {name} |->
        (IF n \in DOMAIN map THEN map[n] ELSE {}) \cup (IF n = name THEN addrs ELSE {})]

\* A line is dropped when its address does not parse, and cut short where the
\* table is full - also of names the table already has.
load_hosts_format(map, lines, max_records) ==
    LET AddName(t, name, addr) ==
            IF Cardinality(DOMAIN t) >= max_records THEN t ELSE Insert(t, name, {addr})
        AddLine(m, line) == Folding(LAMBDA t, name : AddName(t, name, line.addr), m, line.names)
    IN  Folding(AddLine, map, SelectSeq(lines, LAMBDA line : line.addr # BadAddress))

Mapped(hosts, n) == n \in DOMAIN hosts
get_family(hosts, n, type) ==
    IF Mapped(hosts, n) THEN {a \in hosts[n] : a.family = type} ELSE {}

-----------------------------------------------------------------------------
(* datasets/zones.rs                                                       *)

Buildable_zone(z) == z.apex # <<>> /\ \A r \in z.records : r.type \in RECORD_TYPES

\* A record's owner is absolute, or relative to the apex; @ is the empty one.
Owner(apex, r) == IF r.absolute THEN r.owner ELSE apex \o r.owner

build_zone(z) ==
    [apex |-> z.apex, authoritative |-> z.authoritative,
     records |-> {[name |-> Owner(z.apex, r), type |-> r.type] : r \in z.records}]

\* Of the suffixes of a list sorted longest first, the ones that cover the
\* name: the most specific one, and of two that are equal the first written.
MostSpecific(suffixes, n) ==
    LET covering == {i \in DOMAIN suffixes : Under(n, suffixes[i])}
        longest == {i \in covering : \A j \in covering : Len(suffixes[j]) <= Len(suffixes[i])}
    IN  {i \in longest : \A j \in longest : i <= j}

Apexes(zones) == [i \in DOMAIN zones |-> zones[i].apex]

\* The most specific zone decides alone: a name it does not have is not
\* looked for in the zones above it.
lookup(zones, n, qtype) ==
    LET zone == {zones[i] : i \in MostSpecific(Apexes(zones), n)}
        at == UNION {{r \in z.records : r.name = n} : z \in zone}
    IN  IF zone = {} THEN "NotInZone"
        ELSE IF at = {} THEN IF \E z \in zone : z.authoritative THEN "NxDomain" ELSE "NotInZone"
        ELSE IF \E r \in at : r.type \in {qtype, "CNAME"} THEN "Records" ELSE "NoData"

-----------------------------------------------------------------------------
(* datasets/mod.rs                                                         *)

RuleSuffixes(data) == [i \in DOMAIN data.suffix_rules |-> data.suffix_rules[i].suffix]

group_for(data, n) ==
    LET rule == MostSpecific(RuleSuffixes(data), n)
    IN  IF rule = {} THEN NoGroup ELSE data.suffix_rules[CHOOSE i \in rule : TRUE].group

\* A file that cannot be read is skipped, and the build goes on without it.
Readable(disk, files) == SelectSeq(files, LAMBDA f : disk[f] # Unreadable)

HostsOf(conf, disk) ==
    LET inline == Folding(LAMBDA m, h : Insert(m, h.name, h.addresses), <<>>, conf.hosts)
    IN  Folding(LAMBDA m, f : load_hosts_format(m, disk[f], conf.max_records),
                 inline, Readable(disk, conf.hosts_files))

CategoriesOf(conf, disk) ==
    LET lines == Folding(LAMBDA all, f : all \o disk[f], <<>>, Readable(disk, conf.category_files))
    IN  SubSeq(lines, 1, IF Len(lines) < conf.max_records THEN Len(lines) ELSE conf.max_records)

build(conf, disk) ==
    IF \E i \in DOMAIN conf.zones : ~Buildable_zone(conf.zones[i]) THEN Failed
    ELSE [hosts |-> HostsOf(conf, disk),
          zones |-> [i \in DOMAIN conf.zones |-> build_zone(conf.zones[i])],
          suffix_rules |-> conf.suffix_rules,
          categories |-> CategoriesOf(conf, disk)]

\* The domain categories count by their number only.
content_digest(data) ==
    [hosts |-> data.hosts, zones |-> data.zones, suffix_rules |-> data.suffix_rules,
     categories |-> [c \in {data.categories[i].category : i \in DOMAIN data.categories} |->
                        Len(SelectSeq(data.categories, LAMBDA e : e.category = c))]]

Empty == [hosts |-> <<>>, zones |-> <<>>, suffix_rules |-> <<>>, categories |-> <<>>]
=============================================================================
