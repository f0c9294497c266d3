------------------------------ MODULE Endpoints ------------------------------
(***************************************************************************)
(* How the `upstreams` and `proxies` lists of a configuration become the   *)
(* routes queries are sent on: the provider catalog (config/builtins.rs),  *)
(* the endpoint parser and its desugaring (config/endpoint.rs), the        *)
(* expansion of `auto` (config/auto.rs, bin/egressdnsd.rs), the bootstrap  *)
(* of named upstreams (upstream/bootstrap.rs), the proxy list              *)
(* (config/proxy.rs) and the route registry (upstream/pool.rs).            *)
(*                                                                         *)
(* Everything here is a pure operator.  An entry of the `upstreams` list   *)
(* is a record: the text is abstracted to what the parser tells apart.     *)
(*   [form |-> "bare", addr, port]           a literal address             *)
(*   [form |-> "word", word]                 a word without a scheme       *)
(*   [form |-> "uri", scheme, host, port, hints, params]                   *)
(*   [form |-> "auto"]   [form |-> "builtin", profile]                     *)
(* Port 0 stands for an absent port; `params` is TRUE when the query part  *)
(* holds something other than well-formed `addr` hints.                    *)
(***************************************************************************)
EXTENDS FiniteSets, Lists

CONSTANTS Catalog,        \* the providers, in catalog order
          Profiles,       \* profile name -> sequence of provider ids
          IpAddrs,        \* the literal addresses
          Names,          \* the host names, and the handles that may stand for one
          LocalAddrs,     \* the addresses carried by an interface of this host
          StubAddrs,      \* the well-known local stub resolvers
          Unspecified,    \* the wildcard listen address
          ChinaEntries,   \* what `auto` adds for Region::China
          GlobalEntries,  \* what `auto` adds for Region::Global
          None

Err == [ok |-> FALSE, out |-> <<>>]
Ok(s) == [ok |-> TRUE, out |-> s]

\* Option::or, and the search for the first that fits.
FirstSome(s) ==
  LET there == {i \in DOMAIN s : s[i] # None}
  IN  IF there = {} THEN None ELSE s[CHOOSE i \in there : \A j \in there : i <= j]

-----------------------------------------------------------------------------
(* config/builtins.rs *)

endpoint_hosts(p) == {p.doh, p.dot, p.doq} \ {None}

Answers(p, key) ==
  \/ p.id = key
  \/ key \in p.aliases
  \/ key \in Range(p.addresses)
  \/ key \in endpoint_hosts(p)

provider(key) ==
  FirstSome([i \in DOMAIN Catalog |-> IF Answers(Catalog[i], key) THEN Catalog[i] ELSE None])

is_bare_alias(name) ==
  LET p == provider(name)
  IN  /\ p # None
      /\ name \notin endpoint_hosts(p)
      /\ p.id = name \/ name \in p.aliases

alias_endpoint_host(name, transport) ==
  LET p == provider(name)
  IN  IF p = None THEN None
      ELSE FirstSome(CASE transport = "Doh" -> <<p.doh, p.dot, p.doq>>
                       [] transport = "Dot" -> <<p.dot, p.doh, p.doq>>
                       [] transport = "Doq" -> <<p.doq, p.dot, p.doh>>)

\* A Do53 seed first, then the encrypted endpoint, DoH before DoT.
EntriesOf(p) ==
  (IF p.addresses = <<>> THEN <<>>
   ELSE <<[form |-> "bare", addr |-> Head(p.addresses), port |-> 53]>>)
  \o
  (IF p.doh # None
   THEN <<[form |-> "uri", scheme |-> "https", host |-> p.doh, port |-> 0,
           hints |-> <<>>, params |-> FALSE]>>
   ELSE IF p.dot # None
   THEN <<[form |-> "uri", scheme |-> "tls", host |-> p.dot, port |-> 0,
           hints |-> <<>>, params |-> FALSE]>>
   ELSE <<>>)

\* A member the catalog does not know is passed over.
builtin_expand(profile) ==
  LET members == Profiles[profile]
  IN  Joined([i \in DOMAIN members |-> IF provider(members[i]) = None THEN <<>>
                                      ELSE EntriesOf(provider(members[i]))])

-----------------------------------------------------------------------------
(* config/endpoint.rs *)

Candidate(transport, host, port, hints) ==
  [transport |-> transport, host |-> host, port |-> port, hints |-> hints]

doh_candidates(host, port, hints) ==
  <<Candidate("Doh3", host, port, hints), Candidate("Doh2", host, port, hints)>>

PortOr(port, default) == IF port = 0 THEN default ELSE port

\* The host of a URI: a literal, a handle of the catalog, or a name as written.
UriHost(e, transport) ==
  IF e.host \in IpAddrs THEN e.host
  ELSE IF is_bare_alias(e.host)
       THEN FirstSome(<<alias_endpoint_host(e.host, transport), e.host>>)
       ELSE e.host

parse(e) ==
  CASE e.form = "bare" -> Ok(<<Candidate("Udp", e.addr, e.port, <<>>)>>)
    [] e.form = "word" ->
         LET p == provider(e.word)
         IN  IF p = None THEN Err
             ELSE Ok(doh_candidates(
                       FirstSome(<<alias_endpoint_host(e.word, "Doh"), p.id>>), 443, <<>>))
    [] e.form = "uri" ->
         IF e.params \/ \E i \in DOMAIN e.hints : e.hints[i] \notin IpAddrs THEN Err
         ELSE CASE e.scheme = "https" ->
                     Ok(doh_candidates(UriHost(e, "Doh"), PortOr(e.port, 443), e.hints))
                [] e.scheme = "tls" ->
                     Ok(<<Candidate("Dot", UriHost(e, "Dot"), PortOr(e.port, 853), e.hints)>>)
                [] e.scheme = "quic" ->
                     Ok(<<Candidate("Doq", UriHost(e, "Doq"), PortOr(e.port, 853), e.hints)>>)
                [] e.scheme \in {"udp", "dns"} ->
                     Ok(<<Candidate("Udp", UriHost(e, "Doh"), PortOr(e.port, 53), e.hints)>>)
                [] e.scheme = "tcp" ->
                     Ok(<<Candidate("Tcp", UriHost(e, "Doh"), PortOr(e.port, 53), e.hints)>>)
                [] OTHER -> Err                      \* plaintext http, unknown schemes

is_encrypted(t) == t \in {"Dot", "Doh2", "Doh3", "Doq"}
is_stream(t) == t # "Udp"

\* config/auto.rs: what `auto` stands for, the gateway first when it is usable.
auto_expand(gateway, region) ==
  (IF gateway = None THEN <<>> ELSE <<[form |-> "bare", addr |-> gateway, port |-> 53]>>)
  \o (IF region = "China" THEN ChinaEntries ELSE GlobalEntries)

bootstrap_addresses(host) ==
  IF provider(host) = None THEN <<>> ELSE provider(host).addresses

ServerOf(index, c) ==
  [name |-> <<index, c.transport>>, transport |-> c.transport, port |-> c.port,
   server_name |-> IF c.host \in IpAddrs THEN None ELSE c.host,
   addresses |-> IF c.host \in IpAddrs THEN <<c.host>>
                 ELSE IF c.hints # <<>> THEN c.hints ELSE bootstrap_addresses(c.host),
   role |-> "Authority"]

\* `auto` and `builtin:` stand for several entries.
Expansion(e) ==
  CASE e.form = "auto" -> auto_expand(None, "Global")
    [] e.form = "builtin" -> builtin_expand(e.profile)
    [] OTHER -> <<e>>

ServersOf(index, candidates) == [k \in DOMAIN candidates |-> ServerOf(index, candidates[k])]

desugar(upstreams) ==
  LET unknown(e) == e.form = "builtin" /\ e.profile \notin DOMAIN Profiles
      expanded == Joined([i \in DOMAIN upstreams |-> Expansion(upstreams[i])])
      servers == Joined([i \in DOMAIN expanded |-> ServersOf(i, parse(expanded[i]).out)])
  IN  IF \/ \E i \in DOMAIN upstreams : unknown(upstreams[i])
         \/ \E i \in DOMAIN expanded : ~parse(expanded[i]).ok
         \/ \E s \in Range(servers) : is_encrypted(s.transport) /\ s.server_name = None
         \/ servers = <<>>
      THEN Err
      ELSE Ok(servers)

\* config/proxy.rs: an unusable entry or the same proxy twice refuses the list.
parse_all(proxies) ==
  IF \/ \E i \in DOMAIN proxies : ~proxies[i].wellformed
     \/ \E i, j \in DOMAIN proxies : i # j /\ proxies[i].id = proxies[j].id
  THEN Err
  ELSE Ok(proxies)

-----------------------------------------------------------------------------
(* config/auto.rs and bin/egressdnsd.rs: `auto`, measured on the host *)

is_local_address(addr) == addr \in LocalAddrs

\* The gateway's address when it may be used, None when it is rejected.
judge_gateway(gateway, listeners, udp_answered, tcp_answered, loop_detected) ==
  IF \/ gateway = None
     \/ \E l \in listeners :
          \/ l.addr = gateway
          \/ l.addr = Unspecified /\ is_local_address(gateway)
     \/ loop_detected
     \/ ~udp_answered /\ ~tcp_answered
  THEN None
  ELSE gateway

HasAuto(upstreams) == \E i \in DOMAIN upstreams : upstreams[i].form = "auto"

\* The list with what `auto` stands for on this host.
Measured(upstreams, gateway, region) ==
  Joined([i \in DOMAIN upstreams |-> IF upstreams[i].form = "auto"
                                     THEN auto_expand(gateway, region) ELSE <<upstreams[i]>>])

\* Mutant: the gateway's servers keep the default role.
expand_autoUnmarked(upstreams, gateway, region) ==
  desugar(IF HasAuto(upstreams) THEN Measured(upstreams, gateway, region) ELSE upstreams).out

\* The servers after the measured expansion; those at the gateway's address are
\* marked as forwarders.  A list without `auto` is left alone.
expand_auto(upstreams, gateway, region) ==
  LET built == desugar(Measured(upstreams, gateway, region))
      mark(s) == IF gateway \in Range(s.addresses)
                 THEN [s EXCEPT !.role = "LocalForwarder"] ELSE s
  IN  IF ~HasAuto(upstreams) \/ ~built.ok
      THEN desugar(upstreams).out
      ELSE [i \in DOMAIN built.out |-> mark(built.out[i])]

-----------------------------------------------------------------------------
(* upstream/bootstrap.rs *)

pending(servers) ==
  {s.server_name : s \in {t \in Range(servers) : t.addresses = <<>> /\ t.server_name # None}}

seed_resolvers(servers) ==
  UNION {Range(s.addresses) : s \in {t \in Range(servers) : t.server_name = None}}

\* One name: the bare-IP upstreams first, the system resolver as a last resort.
lookup(host, seeds, viaSeeds, viaSystem) ==
  IF seeds # {} /\ viaSeeds[host] # <<>> THEN viaSeeds[host] ELSE viaSystem[host]

\* A name nobody resolves in time keeps its empty address list.
resolve_pending(servers, viaSeeds, viaSystem) ==
  LET names == pending(servers)
      seeds == seed_resolvers(servers)
      apply(s) == IF s.addresses = <<>> /\ s.server_name \in names
                  THEN [s EXCEPT !.addresses =
                         lookup(s.server_name, seeds, viaSeeds, viaSystem)]
                  ELSE s
  IN  [i \in DOMAIN servers |-> apply(servers[i])]

detect_cycles(servers, listeners) ==
  {s \in Range(servers) : \E a \in Range(s.addresses) :
     \/ [addr |-> a, port |-> s.port] \in listeners
     \/ /\ [addr |-> Unspecified, port |-> s.port] \in listeners
        /\ is_local_address(a)
     \/ a \in StubAddrs /\ \E l \in listeners : l.port = 53}

-----------------------------------------------------------------------------
(* upstream/pool.rs *)

Direct == "direct"

authority_of(s, addr) == IF s.server_name # None THEN s.server_name ELSE <<addr, s.port>>

path_supports(path, transport) == is_stream(transport) \/ path = Direct

Route(s, transport, addr, path, companion) ==
  [server |-> s.name, transport |-> transport, addr |-> addr, port |-> s.port,
   path |-> path, role |-> s.role, authority |-> authority_of(s, addr),
   stream_companion |-> companion]

\* The TCP twin of a UDP server, on every path, for truncation retries.
Companions(s, addr, paths) == {Route(s, "Tcp", addr, path, TRUE) : path \in paths}

build(servers, proxies) ==
  LET paths == {Direct} \cup {proxies[i].id : i \in DOMAIN proxies}
      routes(s, addr) ==
        {Route(s, s.transport, addr, path, FALSE) :
           path \in {p \in paths : path_supports(p, s.transport)}}
        \cup (IF s.transport = "Udp" THEN Companions(s, addr, paths) ELSE {})
  IN  UNION {UNION {routes(s, a) : a \in Range(s.addresses)} : s \in Range(servers)}

-----------------------------------------------------------------------------
(* What the tables of the program, and the text of a file, are made of.     *)

\* An entry as the parser can meet it.
IsEntry(e) ==
  /\ e.form \in {"bare", "word", "uri", "auto", "builtin"}
  /\ e.form = "bare" => e.addr \in IpAddrs /\ e.port \in Nat
  /\ e.form = "uri" => /\ e.host \in Names \cup IpAddrs /\ e.port \in Nat
                       /\ e.hints \in Seq(Range(e.hints))

\* A name is not an address, nor an address with a port.
ASSUME NamesAssumption ==
  /\ None \notin Names \cup IpAddrs
  /\ \A n \in Names : n \notin IpAddrs /\ n \notin IpAddrs \X Nat

\* The tests of config/builtins.rs and config/auto.rs: every provider publishes an encrypted
\* endpoint and well-formed addresses, and what `auto` stands for parses in every region.
ASSUME CatalogAssumption ==
  /\ Catalog \in Seq(Range(Catalog)) /\ None \notin Range(Catalog)
  /\ \A p \in Range(Catalog) :
       /\ endpoint_hosts(p) # {} /\ endpoint_hosts(p) \subseteq Names
       /\ p.addresses \in Seq(IpAddrs)
  /\ \A name \in DOMAIN Profiles : Profiles[name] \in Seq(Range(Profiles[name]))

ASSUME RegionsAssumption ==
  \A entries \in {ChinaEntries, GlobalEntries} :
    /\ entries \in Seq(Range(entries)) /\ desugar(entries).ok
    /\ \A e \in Range(entries) : IsEntry(e) /\ e.form \in {"bare", "uri"}
=============================================================================
